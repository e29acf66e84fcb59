--------------------------- MODULE MCPipelineRun ---------------------------
(***************************************************************************)
(* PipelineRun for TLC: every plugin phase has a bucket of two plugins, so *)
(* that a bucket may run concurrently; annotators and generators have a    *)
(* bucket after it.                                                        *)
(***************************************************************************)
EXTENDS PipelineRun

CONSTANTS fe1, fe2, an1, an2, an3, ge1, ge2, ge3, ge4

\* an2 requires what an1 provides; ge4 reads the emit graph
MCPlan == [ph \in PluginPhases |->
             CASE ph = "frontend"  -> <<<<fe1, fe2>>>>
               [] ph = "annotator" -> <<<<an1, an2>>, <<an3>>>>
               [] OTHER            -> <<<<ge1, ge2>>, <<ge3, ge4>>>>]

MCRequires == [p \in Plugins |-> IF p = an2 THEN {an1} ELSE {}]
=============================================================================
