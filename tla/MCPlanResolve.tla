--------------------------- MODULE MCPlanResolve ---------------------------
(***************************************************************************)
(* PlanResolve for TLC: every phase of three plugins over a few capability *)
(* names, with lists of bounded length, in one or two priority buckets.    *)
(***************************************************************************)
EXTENDS PlanResolve, SequencesExt

CONSTANTS MaxProvides, MaxRequires   \* the longest lists a plugin declares

MCInit ==
    /\ prio \in [Plugins -> Priorities]
    /\ provides \in [Plugins -> BoundedSeq(Caps, MaxProvides)]
    /\ requires \in [Plugins -> BoundedSeq(Caps, MaxRequires)]
    /\ Start

MCSpec == MCInit /\ [][Next]_vars /\ WF_vars(Step)
=============================================================================
