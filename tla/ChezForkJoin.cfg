CONSTANTS
  w1 = w1
  w2 = w2
  w3 = w3
  Workers <- MCWorkers
  Joined = w1
  Parent = Parent
  Runner = Runner
  NoThread = NoThread
  Result = Result
  Unset = Unset
SPECIFICATION Spec
INVARIANTS BarrierKeepsPromise FutureKeepsPromise JoinSeesEverything
PROPERTY Terminates
