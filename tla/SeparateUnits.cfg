CONSTANT N = 4
SPECIFICATION Spec
INVARIANTS LowlinksSound UnitsAreComponents DependenciesFirst
