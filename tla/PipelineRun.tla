---------------------------- MODULE PipelineRun ----------------------------
(***************************************************************************)
(* Pipeline.Run: the phases, the buckets of plugins within a phase, and    *)
(* what successive runs of one Pipeline share.                             *)
(*                                                                         *)
(* Plugins are user code.  An invocation begins, may add to the node view  *)
(* or queue slot contributions, and returns, fails or panics; all of that  *)
(* interleaves with the other invocations of a bucket that runs            *)
(* concurrently.  A frontend and a pattern make one invocation.  The       *)
(* caller's context may be cancelled at any moment.                        *)
(***************************************************************************)
EXTENDS Naturals, Sequences, FiniteSets, Functions

CONSTANTS
    Plugins,    \* plugin invocations
    Plan,       \* Plan[phase]: the buckets of a phase, each in topological order
    Parallels,  \* sets of phases that WithParallel may opt into
    NodesOnly,  \* generators that promise not to read the emit graph
    Requires,   \* Requires[p]: the providers, in p's bucket, of what p requires
    Quota,      \* bound on the slot contributions of one generator
    MaxRuns     \* bound on the runs of the Pipeline

Phases == <<"frontend", "annotator", "generator", "layout", "backend", "manifest">>
PluginPhases == {"frontend", "annotator", "generator"}
Planned(ph) == UNION {Range(Plan[ph][i]) : i \in DOMAIN Plan[ph]}

ASSUME PlanAssumption ==
    /\ Plan \in [PluginPhases -> Seq(Seq(Plugins))]
    /\ Parallels \subseteq SUBSET PluginPhases /\ NodesOnly \subseteq Plugins
    /\ Requires \in [Plugins -> SUBSET Plugins]
    /\ Quota \in Nat /\ MaxRuns \in Nat

\* validateNoDuplicateNames: an invocation has one place in the plan.
ASSUME PlacesAssumption ==
    \A ph, qh \in PluginPhases : \A i \in DOMAIN Plan[ph], k \in DOMAIN Plan[qh] :
        \A a \in DOMAIN Plan[ph][i], b \in DOMAIN Plan[qh][k] :
            Plan[ph][i][a] = Plan[qh][k][b] => ph = qh /\ i = k /\ a = b

VARIABLES
    parallel,     \* the phases this Pipeline was built to run concurrently
    at,           \* index of the phase, 0 between runs, 7 after the last phase
    inside,       \* the phase has begun; FALSE at the boundary before it
    buckets,      \* buckets of the phase still to come
    bucket,       \* the bucket being run
    begun,        \* invocations of this run that have begun
    ended,        \* and that have returned
    nodes,        \* invocations that added to the node view
    nodesFrozen,
    pending,      \* pendingOriginSlots: the generator of each contribution
    routed,       \* byTarget: "no" before layout, "yes" rebuilt, "half" abandoned
    hasErrors,    \* p.diag.HasErrors()
    layoutErrs,   \* p.layoutErrs is not empty
    cancelled,    \* ctx.Err() # nil
    outcome,      \* what the last Run returned
    sentinel,     \* the returned error joins a layout sentinel
    failedNow,    \* this run recorded an error
    misroutedNow, \* this run's layout recorded a sentinel
    runs

progress == <<at, inside, buckets, bucket, begun, ended>>
store == <<nodes, nodesFrozen, pending, routed>>
diag == <<hasErrors, failedNow>>
layoutDiag == <<layoutErrs, misroutedNow>>
return == <<outcome, sentinel>>
vars == <<parallel, progress, store, diag, layoutDiag, return, cancelled, runs>>

phase == IF at \in DOMAIN Phases THEN Phases[at] ELSE "none"
running == begun \ ended

TypeOK ==
    /\ at \in 0 .. Len(Phases) + 1 /\ inside \in BOOLEAN
    /\ buckets \in Seq(Seq(Plugins)) /\ bucket \in Seq(Plugins)
    /\ begun \subseteq Plugins /\ ended \subseteq begun
    /\ nodes \subseteq Plugins /\ nodesFrozen \in BOOLEAN
    /\ pending \in Seq(Plugins) /\ routed \in {"no", "half", "yes"}
    /\ hasErrors \in BOOLEAN /\ failedNow \in BOOLEAN
    /\ layoutErrs \in BOOLEAN /\ misroutedNow \in BOOLEAN
    /\ cancelled \in BOOLEAN /\ sentinel \in BOOLEAN
    /\ outcome \in {"none", "ok", "errors", "cancelled"}
    /\ runs \in 0 .. MaxRuns

Init ==
    /\ parallel \in Parallels
    /\ at = 0 /\ inside = FALSE /\ buckets = <<>> /\ bucket = <<>>
    /\ begun = {} /\ ended = {}
    /\ nodes = {} /\ nodesFrozen = FALSE /\ pending = <<>> /\ routed = "no"
    /\ hasErrors = FALSE /\ failedNow = FALSE
    /\ layoutErrs = FALSE /\ misroutedNow = FALSE
    /\ cancelled = FALSE /\ outcome = "none" /\ sentinel = FALSE /\ runs = 0

-----------------------------------------------------------------------------
(* The run and its phase boundaries. *)

resetRunState == layoutErrs' = FALSE

StartRun ==
    /\ at = 0 /\ runs < MaxRuns
    /\ runs' = runs + 1
    /\ at' = 1 /\ inside' = FALSE
    /\ buckets' = <<>> /\ bucket' = <<>> /\ begun' = {} /\ ended' = {}
    /\ nodes' = {} /\ nodesFrozen' = FALSE /\ pending' = <<>> /\ routed' = "no"
    /\ resetRunState
    /\ failedNow' = FALSE /\ misroutedNow' = FALSE /\ cancelled' = FALSE
    /\ outcome' = "none" /\ sentinel' = FALSE
    /\ UNCHANGED hasErrors

\* The caller gives up.
Cancel ==
    /\ at # 0 /\ ~cancelled
    /\ cancelled' = TRUE
    /\ UNCHANGED <<progress, store, diag, layoutDiag, return, runs>>

Enter ==
    /\ at \in DOMAIN Phases /\ ~inside /\ ~cancelled
    /\ inside' = TRUE
    /\ buckets' = IF phase \in PluginPhases THEN Plan[phase] ELSE <<>>
    /\ bucket' = <<>>
    /\ UNCHANGED <<at, begun, ended, store, diag, layoutDiag, return, cancelled, runs>>

Stop ==
    /\ at \in DOMAIN Phases /\ ~inside /\ cancelled
    /\ at' = 0 /\ outcome' = "cancelled"
    /\ UNCHANGED <<inside, buckets, bucket, begun, ended, store, diag, layoutDiag,
                   sentinel, cancelled, runs>>

Leave == at' = at + 1 /\ inside' = FALSE

\* Diagnostics of Error severity and above; p.diag keeps them for good.
Report(error) ==
    /\ hasErrors' = (hasErrors \/ error)
    /\ failedNow' = (failedNow \/ error)

-----------------------------------------------------------------------------
(* A phase of plugins: runFrontends, runAnnotators, runGenerators. *)

InPlugins == inside /\ phase \in PluginPhases

\* (Mutation: one such generator is enough.)
someNodesOnly(b) == b # <<>> => \E i \in DOMAIN b : b[i] \in NodesOnly

allNodesOnly(b) == \A i \in DOMAIN b : b[i] \in NodesOnly

Concurrent ==
    /\ phase \in parallel
    /\ phase = "generator" => allNodesOnly(bucket)

\* wg.Wait, or the end of the sequential loop.  (Mutation: no waiting.)
BucketBegun == Range(bucket) \subseteq begun

BucketDone == Range(bucket) \subseteq ended

NextBucket ==
    /\ InPlugins /\ BucketDone /\ buckets # <<>>
    /\ bucket' = Head(buckets) /\ buckets' = Tail(buckets)
    /\ UNCHANGED <<at, inside, begun, ended, store, diag, layoutDiag, return, cancelled, runs>>

\* (Mutation: a sequential bucket in any order.)
MayBeginAny(i) == Concurrent \/ \A j \in DOMAIN bucket : bucket[j] \notin running

MayBegin(i) == Concurrent \/ \A j \in 1 .. i - 1 : bucket[j] \in ended

\* A plugin is invoked with a context of the run's store.
Begin ==
    /\ InPlugins
    /\ \E i \in DOMAIN bucket :
        /\ bucket[i] \notin begun /\ MayBegin(i)
        /\ begun' = begun \cup {bucket[i]}
    /\ UNCHANGED <<at, inside, buckets, bucket, ended, store, diag, layoutDiag, return,
                   cancelled, runs>>

\* NodeView.AddPackage: past the frontends it changes nothing and returns
\* ErrFrozen, which the plugin may pass on (Fail) or swallow.
AddNodes(p) ==
    /\ p \in running /\ ~nodesFrozen
    /\ nodes' = nodes \cup {p}
    /\ UNCHANGED <<progress, nodesFrozen, pending, routed, diag, layoutDiag, return,
                   cancelled, runs>>

\* EmitView.AppendOriginSlot: generators are the plugins that contribute.
AppendOriginSlot(p) ==
    /\ p \in running /\ phase = "generator"
    /\ Cardinality({i \in DOMAIN pending : pending[i] = p}) < Quota
    /\ pending' = Append(pending, p)
    /\ UNCHANGED <<progress, nodes, nodesFrozen, routed, diag, layoutDiag, return,
                   cancelled, runs>>

\* (Mutation: the rest of the phase is given up.)
FailAborts(p) ==
    /\ p \in running
    /\ ended' = ended \cup {p} /\ buckets' = <<>>
    /\ Report(TRUE)
    /\ UNCHANGED <<at, inside, bucket, begun, store, layoutDiag, return, cancelled, runs>>

\* (Mutation: a panic is recovered and forgotten.)
FailUnreported(p) ==
    /\ p \in running
    /\ ended' = ended \cup {p} /\ failedNow' = TRUE
    /\ UNCHANGED <<at, inside, buckets, bucket, begun, store, hasErrors, layoutDiag, return,
                   cancelled, runs>>

\* An error returned, an error written to ctx.Diag, or a panic that RecoverAs
\* contains.
Fail(p) ==
    /\ p \in running
    /\ ended' = ended \cup {p}
    /\ Report(TRUE)
    /\ UNCHANGED <<at, inside, buckets, bucket, begun, store, layoutDiag, return, cancelled, runs>>

Return(p) ==
    /\ p \in running
    /\ ended' = ended \cup {p}
    /\ UNCHANGED <<at, inside, buckets, bucket, begun, store, diag, layoutDiag, return,
                   cancelled, runs>>

FreezeNodes == nodesFrozen' = (nodesFrozen \/ phase = "frontend")

\* After the plugins: validateDirectives and Freeze end the frontend phase,
\* runDirectiveOverride the annotator phase.
EndPlugins ==
    /\ InPlugins /\ BucketDone /\ buckets = <<>>
    /\ Leave
    /\ FreezeNodes
    /\ \E invalid \in BOOLEAN :
        /\ invalid => phase # "generator"
        /\ Report(invalid)
    /\ UNCHANGED <<buckets, bucket, begun, ended, nodes, pending, routed, layoutDiag,
                   return, cancelled, runs>>

-----------------------------------------------------------------------------
(* The phases of the framework. *)

\* runLayout: decls are routed, conflicts reported, byTarget rebuilt; a
\* panic in plugin code is contained and abandons what is left of the phase.
Layout ==
    /\ inside /\ phase = "layout"
    /\ Leave
    /\ \E misrouted, panics \in BOOLEAN :
        /\ routed' = IF panics THEN "half" ELSE "yes"
        /\ layoutErrs' = (layoutErrs \/ misrouted)
        /\ misroutedNow' = misrouted
        /\ Report(misrouted \/ panics)
    /\ UNCHANGED <<buckets, bucket, begun, ended, nodes, nodesFrozen, pending, return,
                   cancelled, runs>>

\* runBackend and writeManifest, each with its RecoverAs
BackendOrManifest ==
    /\ inside /\ phase \in {"backend", "manifest"}
    /\ Leave
    /\ \E error \in BOOLEAN : Report(error)
    /\ UNCHANGED <<buckets, bucket, begun, ended, store, layoutDiag, return, cancelled, runs>>

Finish ==
    /\ at = Len(Phases) + 1
    /\ at' = 0
    /\ outcome' = IF hasErrors THEN "errors" ELSE "ok"
    /\ sentinel' = (hasErrors /\ layoutErrs)
    /\ UNCHANGED <<inside, buckets, bucket, begun, ended, store, diag, layoutDiag,
                   cancelled, runs>>

PluginStep == \E p \in Plugins : AddNodes(p) \/ AppendOriginSlot(p) \/ Fail(p) \/ Return(p)

RunStep ==
    \/ Enter \/ Stop \/ NextBucket \/ Begin \/ PluginStep \/ EndPlugins
    \/ Layout \/ BackendOrManifest \/ Finish

Next == (StartRun \/ Cancel \/ RunStep) /\ UNCHANGED parallel

Spec == Init /\ [][Next]_vars

-----------------------------------------------------------------------------
(* Properties. *)

\* A plugin runs only when every plugin of every earlier bucket and phase
\* has returned, also when buckets run concurrently: each bucket is waited
\* for before the next one starts.
BucketsInOrder ==
    \A ph \in PluginPhases : \A i \in DOMAIN Plan[ph] :
        \A p \in Range(Plan[ph][i]) \cap running :
            /\ \A j \in 1 .. i - 1 : Range(Plan[ph][j]) \subseteq ended
            /\ ph # "frontend" => Planned("frontend") \subseteq ended
            /\ ph = "generator" => Planned("annotator") \subseteq ended

\* A generator that may read the emit graph runs alone: the bucket it is in
\* is not run concurrently ("it might read the emit graph another generator
\* is mutating").
ReadersRunAlone ==
    \A p \in running : phase = "generator" /\ p \notin NodesOnly => running = {p}

\* A run that was not cancelled invoked every plugin of the plan to its end,
\* whichever of them failed or panicked ("the next plugin still runs").
EveryPluginRuns ==
    outcome \in {"ok", "errors"} => \A ph \in PluginPhases : Planned(ph) \subseteq ended

\* What Run returns is about this run.  It is nil only when nothing recorded
\* an error and layout got to its end: the backend also runs after a layout
\* that was abandoned, and what it then wrote is never reported as a success.
\* And a layout sentinel joined into the error is not one that an earlier run
\* of the same Pipeline left behind.
ReturnIsOfThisRun ==
    /\ outcome = "ok" => ~failedNow /\ routed = "yes"
    /\ sentinel => misroutedNow

\* Once the frontend phase is over the node view never changes in that run:
\* readers hold references into its buckets without copying.
NodesFixedAfterFrontends ==
    [][at > 1 /\ at' # 1 => nodes' = nodes]_vars

\* AppendOriginSlot: "Layout drains the list in plugin-topo order across
\* plugins and FIFO of registration within each plugin".  The list is in
\* that order across buckets, and within a bucket that runs sequentially.
SlotsInPlanOrder ==
    LET plan == Plan["generator"] IN
    \A h, k \in DOMAIN plan : \A i \in DOMAIN plan[h], j \in DOMAIN plan[k] :
        (h < k \/ (h = k /\ i < j /\ ("generator" \in parallel => ~allNodesOnly(plan[h])))) =>
            \A m, n \in DOMAIN pending :
                pending[m] = plan[h][i] /\ pending[n] = plan[k][j] => m < n

\* RequiresSource: "The pipeline orders matching providers before this
\* plugin within the same bucket".  Refuted: a parallel annotator bucket
\* starts all its plugins at once.
ProvidersFirst == \A p \in begun : Requires[p] \subseteq ended

\* resetRunState: "a second Pipeline.Run on the same instance starts from
\* the same footing as the first".  Refuted: p.diag keeps the errors of an
\* earlier run, so a run that recorded none may return one.
FailureIsOfThisRun == outcome = "errors" => failedNow
=============================================================================
