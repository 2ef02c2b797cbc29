------------------------ MODULE MCIncrementalBuild ------------------------
(***************************************************************************)
(* IncrementalBuild on three modules: Leaf, imported publicly by Middle,   *)
(* which is imported by Top.  Top does not import Leaf and yet depends on  *)
(* its interface.  "needs_b" elaborates only where a module it loads has   *)
(* the public part that "b" has, and those that re-export it were made     *)
(* from it: never in Leaf, which imports nothing.                          *)
(***************************************************************************)
EXTENDS IncrementalBuild, TLC

MCMods == {"Leaf", "Middle", "Top"}
MCOrder == <<"Leaf", "Middle", "Top">>
MCImports == "Leaf" :> {} @@ "Middle" :> {"Leaf"} @@ "Top" :> {"Middle"}
MCReexports == "Leaf" :> {} @@ "Middle" :> {"Leaf"} @@ "Top" :> {}

MCContents == {"a", "a_private", "b", "needs_b"}
MCPublic == "a" :> "A" @@ "a_private" :> "A" @@ "b" :> "B" @@ "needs_b" :> "A"
MCFits(c, ifaces) ==
  c = "needs_b" =>
    \E d \in DOMAIN ifaces :
      /\ ifaces[d][1] = "B"
      /\ \A e \in DOMAIN ifaces : d \in DOMAIN ifaces[e][2] => ifaces[e][2][d] = ifaces[d]
=============================================================================
