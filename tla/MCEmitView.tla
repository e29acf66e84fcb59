----------------------------- MODULE MCEmitView -----------------------------
(***************************************************************************)
(* EmitView for TLC: calls of two paths with overlapping and disjoint      *)
(* names, one of them clashing.                                            *)
(***************************************************************************)
EXTENDS EmitView

CONSTANTS g1, g2, g3, f1, f2, f3, pkg, other, w, x, y, z

\* every generator emits into the same package
SamePath == [c \in AddCalls |-> pkg]

\* g3 emits into a package of its own
TwoPaths == [c \in AddCalls |-> IF c = g3 THEN other ELSE pkg]

\* disjoint declarations, no files
Disjoint == [c \in AddCalls |-> <<<<>>, CASE c = g1 -> <<x>> [] c = g2 -> <<y>> [] OTHER -> <<z>>>>]

\* g2 clashes with g1 in a declaration after one that does not clash, g3
\* lists a declaration twice, and g1 lists the file that f3 asks for
Clash == [c \in AddCalls |->
            CASE c = g1 -> <<<<z>>, <<x>>>>
              [] c = g2 -> <<<<>>, <<y, x>>>>
              [] OTHER  -> <<<<y>>, <<z, z>>>>]

\* f1 and f2 ask for one file that no package lists
MCTargets == [c \in FileCalls |-> IF c = f3 THEN z ELSE w]
=============================================================================
