---------------------------- MODULE PlanResolve ----------------------------
(***************************************************************************)
(* The order a phase's plugins run in: resolvePhase, topoSortBucket,       *)
(* buildProvidesIndex and insertSorted of pipeline/resolve.go.             *)
(*                                                                         *)
(* Plugins are grouped by priority, the buckets are taken in ascending     *)
(* order, and each bucket is linearised with Kahn's algorithm over the     *)
(* Provides / Requires capability names.  Plugin names are numbers, and    *)
(* the alphabetical order of the code is their numeric order.  Build has   *)
(* already rejected two plugins of one name in a role, so the registered   *)
(* plugins are a set; registration order is visible only in the wording    *)
(* of an error and is left out.                                            *)
(***************************************************************************)
EXTENDS Integers, Sequences, FiniteSets, Functions

CONSTANTS Plugins,       \* the names of the plugins of the phase
          Caps,          \* capability names
          Priorities,    \* the priority values plugins declare
          NoBucket       \* no bucket is being sorted

ASSUME PluginsAssumption == Plugins \subseteq Nat /\ IsFiniteSet(Plugins)
ASSUME PrioritiesAssumption == Priorities \subseteq Int

VARIABLES
    prio,        \* what each plugin declares: its priority,
    provides,    \* the list Provides() returns
    requires,    \* and the list Requires() returns, repetitions included
    pc,          \* "next", "kahn", "done" or "failed"
    bucket,      \* the priority being sorted, while pc = "kahn"
    visited,     \* the priorities already sorted
    inDegree,    \* topoSortBucket's map of the same name
    ready,       \* the frontier, which the code keeps sorted by name
    flat,        \* the execution order, built so far
    err,         \* "none", "duplicate" or "cycle"
    cyclic       \* the names the cycle error lists

input == <<prio, provides, requires>>
vars == <<prio, provides, requires, pc, bucket, visited, inDegree, ready,
          flat, err, cyclic>>

-----------------------------------------------------------------------------
(* The plugins grouped by priority, and the capability graph of a bucket. *)

Bucket(k) == {p \in Plugins : prio[p] = k}

\* The keys of byPrio the loop has not reached.  (Mutation: the zero
\* priority is taken for "unset".)
PendingNonZero == {prio[p] : p \in Plugins} \ (visited \cup {0})

Pending == {prio[p] : p \in Plugins} \ visited

\* buildProvidesIndex meets a name that is already in its map
DuplicateProvider(k) ==
    \E p, q \in Bucket(k) : \E i \in DOMAIN provides[p], j \in DOMAIN provides[q] :
        /\ provides[p][i] = provides[q][j]
        /\ <<p, i>> # <<q, j>>

\* provider q of bucket k is the one the index gives for capability c
IsProvider(q, k, c) == q \in Bucket(k) /\ c \in Range(provides[q])

\* The occurrences in p's Requires list that an edge q -> p is drawn for:
\* names without a provider in the bucket, and p's own, draw none.
EdgesFrom(q, p) ==
    {i \in DOMAIN requires[p] : q # p /\ IsProvider(q, prio[p], requires[p][i])}

\* (Mutation: only the first Requires name is looked up.)
EdgesOfFirst(p) == {i \in DOMAIN requires[p] :
                      i = 1 /\ \E q \in Plugins : i \in EdgesFrom(q, p)}

Edges(p) == {i \in DOMAIN requires[p] : \E q \in Plugins : i \in EdgesFrom(q, p)}

Placed == Range(flat)

\* x is the first of a sorted slice.  (Mutation: it is the last.)
LastOf(x, S) == \A y \in S : y <= x

FirstOf(x, S) == \A y \in S : x <= y

\* What Kahn's loop subtracts from inDegree[p] when it places q: one per
\* occurrence in dependents[q].  (Mutation: one per dependent.)
LoweredOnce(q, p) == IF EdgesFrom(q, p) = {} THEN 0 ELSE 1

Lowered(q, p) == Cardinality(EdgesFrom(q, p))

-----------------------------------------------------------------------------
TypeOK ==
    /\ prio \in [Plugins -> Priorities]
    /\ provides \in [Plugins -> Seq(Caps)]
    /\ requires \in [Plugins -> Seq(Caps)]
    /\ pc \in {"next", "kahn", "done", "failed"}
    /\ bucket \in Priorities \cup {NoBucket}
    /\ visited \subseteq Priorities
    /\ inDegree \in [Plugins -> Nat]
    /\ ready \subseteq Plugins
    /\ flat \in Seq(Plugins)
    /\ err \in {"none", "duplicate", "cycle"}
    /\ cyclic \subseteq Plugins

Start ==
    /\ pc = "next" /\ bucket = NoBucket /\ visited = {}
    /\ inDegree = [p \in Plugins |-> 0]
    /\ ready = {} /\ flat = <<>> /\ err = "none" /\ cyclic = {}

Init ==
    /\ prio \in [Plugins -> Priorities]
    /\ provides \in [Plugins -> Seq(Caps)]
    /\ requires \in [Plugins -> Seq(Caps)]
    /\ Start

\* resolvePhase returns nil, nil, err.  (Mutation: the error is not returned
\* and the loop goes on.)
FailIgnored(why, names) ==
    /\ pc' = "next" /\ err' = why /\ cyclic' = names
    /\ flat' = <<>> /\ ready' = {} /\ bucket' = NoBucket

Fail(why, names) ==
    /\ pc' = "failed" /\ err' = why /\ cyclic' = names
    /\ flat' = <<>> /\ ready' = {} /\ bucket' = NoBucket

\* The next bucket in ascending order: index its providers, draw its edges.
StartBucket ==
    /\ pc = "next"
    /\ \E k \in Pending :
        /\ FirstOf(k, Pending)
        /\ \/ /\ DuplicateProvider(k)
              /\ Fail("duplicate", {})
              /\ UNCHANGED <<visited, inDegree>>
           \/ /\ ~DuplicateProvider(k)
              /\ pc' = "kahn" /\ bucket' = k
              /\ inDegree' = [p \in Plugins |->
                    IF p \in Bucket(k) THEN Cardinality(Edges(p)) ELSE 0]
              /\ ready' = {p \in Bucket(k) : Cardinality(Edges(p)) = 0}
              /\ UNCHANGED <<visited, flat, err, cyclic>>
    /\ UNCHANGED input

\* One turn of Kahn's loop: place the first ready name, and lower the
\* in-degree of its dependents once per Requires occurrence.
PlaceReady ==
    /\ pc = "kahn"
    /\ \E name \in ready :
        /\ FirstOf(name, ready)
        /\ flat' = Append(flat, name)
        /\ inDegree' = [p \in Plugins |->
              IF p \in Bucket(bucket)
              THEN inDegree[p] - Lowered(name, p)
              ELSE inDegree[p]]
        /\ ready' = (ready \ {name}) \cup
              {p \in Bucket(bucket) : inDegree[p] > 0 /\ inDegree'[p] = 0}
    /\ UNCHANGED <<prio, provides, requires, pc, bucket, visited, err, cyclic>>

\* The frontier is empty: the bucket is sorted, or a cycle holds some back.
EndBucket ==
    /\ pc = "kahn" /\ ready = {}
    /\ \/ /\ Bucket(bucket) \subseteq Placed
          /\ pc' = "next" /\ visited' = visited \cup {bucket} /\ bucket' = NoBucket
          /\ UNCHANGED <<ready, flat, err, cyclic>>
       \/ /\ ~(Bucket(bucket) \subseteq Placed)
          /\ Fail("cycle", {p \in Bucket(bucket) : inDegree[p] > 0})
          /\ UNCHANGED visited
    /\ UNCHANGED <<prio, provides, requires, inDegree>>

Finish ==
    /\ pc = "next" /\ Pending = {}
    /\ pc' = "done"
    /\ UNCHANGED <<prio, provides, requires, bucket, visited, inDegree, ready,
                   flat, err, cyclic>>

Terminated == pc \in {"done", "failed"} /\ UNCHANGED vars

Step == StartBucket \/ PlaceReady \/ EndBucket \/ Finish

Next == Step \/ Terminated

Spec == Init /\ [][Next]_vars

\* resolvePhase is a loop on one goroutine: it keeps stepping.
FairSpec == Spec /\ WF_vars(Step)

-----------------------------------------------------------------------------
(* Properties. *)

\* No plugin is placed twice, and a phase that resolves runs every plugin
\* registered for it: the byName / inDegree bookkeeping of topoSortBucket
\* neither loses nor repeats a name, whatever repetitions Requires() has.
ExactlyOnce ==
    /\ \A i, j \in DOMAIN flat : flat[i] = flat[j] => i = j
    /\ pc = "done" => Placed = Plugins

\* "The pipeline orders matching providers before this plugin within the
\* same bucket" (plugin/capability_provider.go), and buckets run in ascending
\* priority: whoever is placed has every same-bucket provider of what it
\* requires placed before it.
RequiresRespected ==
    \A j \in DOMAIN flat :
        /\ \A q \in Plugins : EdgesFrom(q, flat[j]) # {}
                => \E i \in 1..(j - 1) : flat[i] = q
        /\ \A i \in 1..(j - 1) : prio[flat[i]] <= prio[flat[j]]

\* A cycle error names a set whose members each wait for another member:
\* the sort gives up only when no order exists.
CycleIsReal ==
    err = "cycle" =>
        /\ cyclic # {}
        /\ \A p \in cyclic : \E q \in cyclic : EdgesFrom(q, p) # {}

\* The orders the declarations admit: permutations of the plugins by
\* ascending priority with every provider before its dependents.
Orders ==
    LET n == Cardinality(Plugins)
        Before(f, q, p) == \E i, j \in 1..n : i < j /\ f[i] = q /\ f[j] = p
    IN  {f \in [1..n -> Plugins] :
            /\ \A i, j \in 1..n : i # j => f[i] # f[j]
            /\ \A p, q \in Plugins :
                  (EdgesFrom(q, p) # {} \/ prio[q] < prio[p]) => Before(f, q, p)}

LexLess(f, g) ==
    \E i \in DOMAIN f : f[i] < g[i] /\ \A j \in 1..(i - 1) : f[j] = g[j]

\* resolvePhase against its reference: the order is the alphabetically least
\* of the admissible ones, so it is a function of the declarations alone
\* (README: "Topological ties break alphabetically"), and a cycle is reported
\* exactly when no order is admissible.
LeastOrder ==
    /\ pc = "done" => flat \in Orders /\ \A g \in Orders : g = flat \/ LexLess(flat, g)
    /\ err = "cycle" => Orders = {}

\* resolvePhase returns, with an order or with an error.
Resolves == <>(pc \in {"done", "failed"})
=============================================================================
