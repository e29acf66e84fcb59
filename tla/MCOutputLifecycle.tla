------------------------- MODULE MCOutputLifecycle -------------------------
(***************************************************************************)
(* OutputLifecycle for TLC: a path that lies beside its source and one     *)
(* that does not, and renderings that keep or change the package clause.   *)
(***************************************************************************)
EXTENDS OutputLifecycle

CONSTANTS a, b, k1, k2, r1, r2

\* a lies in the directory of k1; b is generated from k2 into another one
MCOrigin == [p \in Paths |-> IF p = a THEN k1 ELSE k2]

\* r2 declares another package clause than r1
TwoClauses == [r \in {r1, r2} |-> r]

\* b is centralised: its target has no import path
CentralB == [p \in Paths |-> IF p = a THEN k1 ELSE NoPkg]

\* one pipeline, whose files the user edits
Single(byHand) == [pids |-> {"P"}, renders |-> {r1, r2}, importPath |-> MCOrigin,
                  absolute |-> {}, module |-> Pkgs, edits |-> byHand, changes |-> 1, commands |-> 2]

\* two pipelines claim the same paths
Shared == [pids |-> {"P", "Q"}, renders |-> {r1}, importPath |-> CentralB,
           absolute |-> {}, module |-> Pkgs, edits |-> 0, changes |-> 2, commands |-> 3]

\* the sources of a lie outside the working directory; k2 is a protobuf package
Foreign == [pids |-> {"P"}, renders |-> {r1}, importPath |-> MCOrigin,
            absolute |-> {a}, module |-> {k1}, edits |-> 1, changes |-> 2, commands |-> 2]

EveryDeployment == {Single(1), Shared, Foreign}
OnlySingle == {Single(0)}
=============================================================================
