------------------------- MODULE PlanResolveProofs -------------------------
(***************************************************************************)
(* The order resolvePhase produces is correct for any number of plugins,   *)
(* any capability lists and any priorities.                                *)
(*                                                                         *)
(* The heart of the argument is KahnInv: while a bucket is sorted, the     *)
(* in-degree of a plugin counts the Requires occurrences whose provider is *)
(* not placed yet, so a plugin is ready exactly when all its providers     *)
(* are placed.                                                             *)
(***************************************************************************)
EXTENDS PlanResolve, FiniteSetTheorems, WellFoundedInduction, TLAPS

\* The occurrences of p's Requires list still waiting for a provider.
Open(p) == {i \in Edges(p) : \A q \in Placed : i \notin EdgesFrom(q, p)}

PhaseInv ==
    /\ pc = "kahn" => /\ bucket \in Pending
                      /\ FirstOf(bucket, Pending)
                      /\ ~DuplicateProvider(bucket)
    /\ pc # "kahn" => ready = {}
    /\ pc # "failed" => err = "none"
    /\ pc = "done" => Pending = {}

PlacedInv ==
    /\ pc \in {"next", "done"} => Placed = {p \in Plugins : prio[p] \in visited}
    /\ pc = "kahn" => /\ {p \in Plugins : prio[p] \in visited} \subseteq Placed
                      /\ \A p \in Placed : prio[p] \in visited \cup {bucket}
    /\ pc = "failed" => flat = <<>>
    /\ \A k \in visited, m \in Pending : k < m

KahnInv ==
    pc = "kahn" =>
        /\ \A p \in Bucket(bucket) : inDegree[p] = Cardinality(Open(p))
        /\ ready = {p \in Bucket(bucket) \ Placed : inDegree[p] = 0}

NoRepeat == \A i, j \in DOMAIN flat : flat[i] = flat[j] => i = j

\* The inductive invariant.
IInv == TypeOK /\ PhaseInv /\ PlacedInv /\ KahnInv /\ NoRepeat
            /\ RequiresRespected /\ CycleIsReal

-----------------------------------------------------------------------------
(* Facts about the capability graph. *)

\* A Requires list is finite, so the edges into a plugin can be counted.
LEMMA EdgesFinite ==
    ASSUME TypeOK, NEW p \in Plugins, NEW E \in SUBSET Edges(p)
    PROVE  IsFiniteSet(E) /\ Cardinality(E) \in Nat
<1>1. Edges(p) \subseteq 1..Len(requires[p]) /\ Len(requires[p]) \in Nat
  BY DEF TypeOK, Edges
<1>2. IsFiniteSet(1..Len(requires[p]))
  BY <1>1, FS_Interval
<1> QED
  BY <1>1, <1>2, FS_Subset, FS_CardinalityType

\* Where no capability has two providers, an occurrence draws one edge.
LEMMA OneProvider ==
    ASSUME TypeOK, NEW p \in Plugins, ~DuplicateProvider(prio[p]),
           NEW q \in Plugins, NEW r \in Plugins,
           NEW i \in EdgesFrom(q, p), i \in EdgesFrom(r, p)
    PROVE  q = r
  BY DEF TypeOK, DuplicateProvider, EdgesFrom, IsProvider, Bucket, Range

\* An edge stays inside a bucket.
LEMMA EdgeInBucket ==
    ASSUME NEW p \in Plugins, NEW q \in Plugins, EdgesFrom(q, p) # {}
    PROVE  prio[q] = prio[p] /\ q # p /\ EdgesFrom(q, p) \subseteq Edges(p)
  BY DEF EdgesFrom, IsProvider, Bucket, Edges

\* A plugin has no open occurrence exactly when its providers are placed.
LEMMA OpenEmpty ==
    ASSUME TypeOK, NEW p \in Plugins, ~DuplicateProvider(prio[p])
    PROVE  Open(p) = {} <=> \A q \in Plugins : EdgesFrom(q, p) # {} => q \in Placed
<1>1. Placed \subseteq Plugins
  BY DEF TypeOK, Placed, Range
<1>2. ASSUME Open(p) = {}, NEW q \in Plugins, NEW i \in EdgesFrom(q, p)
      PROVE  q \in Placed
  <2>1. i \in Edges(p)
    BY <1>2 DEF Edges, EdgesFrom
  <2>2. PICK r \in Placed : i \in EdgesFrom(r, p)
    BY <2>1, <1>2 DEF Open
  <2>3. q = r
    BY <1>1, <2>2, <1>2, OneProvider
  <2> QED
    BY <2>2, <2>3
<1>3. ASSUME \A q \in Plugins : EdgesFrom(q, p) # {} => q \in Placed
      PROVE  Open(p) = {}
  BY <1>3 DEF Open, Edges
<1> QED
  BY <1>2, <1>3

\* Placing q closes the occurrences q provides, and only those.
LEMMA OpenAfterPlacing ==
    ASSUME TypeOK, NEW p \in Plugins, ~DuplicateProvider(prio[p]),
           NEW q \in Plugins \ Placed
    PROVE  /\ EdgesFrom(q, p) \subseteq Open(p)
           /\ Cardinality(Open(p) \ EdgesFrom(q, p)) = Cardinality(Open(p)) - Lowered(q, p)
           /\ Lowered(q, p) \in Nat
<1>1. Placed \subseteq Plugins
  BY DEF TypeOK, Placed, Range
<1>2. EdgesFrom(q, p) \subseteq Open(p)
  <2> SUFFICES ASSUME NEW i \in EdgesFrom(q, p) PROVE i \in Open(p)
    OBVIOUS
  <2>1. i \in Edges(p)
    BY DEF Edges, EdgesFrom
  <2>2. ASSUME NEW r \in Placed, i \in EdgesFrom(r, p) PROVE FALSE
    BY <1>1, <2>2, OneProvider
  <2> QED
    BY <2>1, <2>2 DEF Open
<1>3. Open(p) \subseteq Edges(p)
  BY DEF Open
<1>4. /\ IsFiniteSet(Open(p)) /\ Cardinality(Open(p)) \in Nat
      /\ IsFiniteSet(EdgesFrom(q, p)) /\ Cardinality(EdgesFrom(q, p)) \in Nat
  BY <1>2, <1>3, EdgesFinite
<1>5. Open(p) \cap EdgesFrom(q, p) = EdgesFrom(q, p)
  BY <1>2
<1> QED
  BY <1>2, <1>4, <1>5, FS_Difference DEF Lowered

\* The graph depends on what the plugins declare, which no step changes.
LEMMA GraphUnchanged ==
    ASSUME UNCHANGED input
    PROVE  /\ \A k : Bucket(k)' = Bucket(k)
           /\ \A k : DuplicateProvider(k)' <=> DuplicateProvider(k)
           /\ \A q, p : EdgesFrom(q, p)' = EdgesFrom(q, p)
           /\ \A p : Edges(p)' = Edges(p)
  BY DEF input, Bucket, DuplicateProvider, EdgesFrom, IsProvider, Edges, Range

-----------------------------------------------------------------------------
(* Every step preserves the invariant. *)

LEMMA InitIInv == Init => IInv
<1> SUFFICES ASSUME Init PROVE IInv
  OBVIOUS
<1>1. TypeOK
  BY DEF Init, Start, TypeOK
<1>2. flat = <<>> /\ Placed = {}
  BY DEF Init, Start, Placed, Range
<1>3. RequiresRespected /\ NoRepeat /\ CycleIsReal
  BY <1>2 DEF Init, Start, RequiresRespected, NoRepeat, CycleIsReal
<1>4. PhaseInv /\ KahnInv
  BY DEF Init, Start, PhaseInv, KahnInv
<1>5. PlacedInv
  BY <1>2 DEF Init, Start, PlacedInv
<1> QED
  BY <1>1, <1>3, <1>4, <1>5 DEF IInv

LEMMA StartBucketIInv == IInv /\ StartBucket => IInv'
<1> SUFFICES ASSUME IInv, StartBucket PROVE IInv'
  OBVIOUS
<1> USE DEF IInv
<1>1. /\ UNCHANGED input /\ UNCHANGED visited /\ pc = "next"
      /\ Pending' = Pending /\ UNCHANGED prio
  BY DEF StartBucket, Pending, input
<1>g. /\ \A k : Bucket(k)' = Bucket(k)
      /\ \A k : DuplicateProvider(k)' <=> DuplicateProvider(k)
      /\ \A q, p : EdgesFrom(q, p)' = EdgesFrom(q, p)
      /\ \A p : Edges(p)' = Edges(p)
  BY <1>1, GraphUnchanged
<1>2. PICK k \in Pending :
         /\ FirstOf(k, Pending)
         /\ \/ /\ DuplicateProvider(k)
               /\ Fail("duplicate", {})
               /\ UNCHANGED <<visited, inDegree>>
            \/ /\ ~DuplicateProvider(k)
               /\ pc' = "kahn" /\ bucket' = k
               /\ inDegree' = [p \in Plugins |->
                     IF p \in Bucket(k) THEN Cardinality(Edges(p)) ELSE 0]
               /\ ready' = {p \in Bucket(k) : Cardinality(Edges(p)) = 0}
               /\ UNCHANGED <<visited, flat, err, cyclic>>
  BY DEF StartBucket
<1>3. k \in Priorities
  BY <1>2 DEF Pending, TypeOK
<1>4. CASE DuplicateProvider(k) /\ Fail("duplicate", {}) /\ UNCHANGED <<visited, inDegree>>
  <2>1. flat' = <<>> /\ pc' = "failed" /\ err' = "duplicate" /\ cyclic' = {} /\ ready' = {}
        /\ bucket' = NoBucket
    BY <1>4 DEF Fail
  <2>2. TypeOK'
    BY <1>1, <1>4, <2>1 DEF TypeOK, input
  <2>3. PhaseInv' /\ KahnInv' /\ CycleIsReal'
    BY <2>1 DEF PhaseInv, KahnInv, CycleIsReal
  <2>4. NoRepeat' /\ RequiresRespected'
    BY <2>1 DEF NoRepeat, RequiresRespected
  <2>5. PlacedInv'
    BY <1>1, <2>1 DEF PlacedInv
  <2> QED
    BY <2>2, <2>3, <2>4, <2>5
<1>5. CASE /\ ~DuplicateProvider(k)
           /\ pc' = "kahn" /\ bucket' = k
           /\ inDegree' = [p \in Plugins |->
                 IF p \in Bucket(k) THEN Cardinality(Edges(p)) ELSE 0]
           /\ ready' = {p \in Bucket(k) : Cardinality(Edges(p)) = 0}
           /\ UNCHANGED <<visited, flat, err, cyclic>>
  <2>1. \A p \in Plugins : Cardinality(Edges(p)) \in Nat
    BY EdgesFinite
  <2>2. TypeOK'
    BY <1>1, <1>3, <1>5, <2>1 DEF TypeOK, input, Bucket
  <2>3. Placed' = Placed /\ Placed = {p \in Plugins : prio[p] \in visited}
    BY <1>1, <1>5 DEF Placed, PlacedInv
  <2>4. Bucket(k) \cap Placed = {}
    BY <2>3, <1>2 DEF Bucket, Pending
  <2>5. \A p \in Bucket(k) : Open(p)' = Edges(p)
    <3> SUFFICES ASSUME NEW p \in Bucket(k), NEW q \in Placed
                 PROVE  EdgesFrom(q, p) = {}
      BY <1>g, <2>3 DEF Open
    <3>1. prio[p] = k /\ q \in Plugins /\ prio[q] # k /\ p \in Plugins
      BY <2>3, <2>4 DEF Bucket
    <3> QED
      BY <3>1, EdgeInBucket
  <2>6. KahnInv'
    <3>1. Bucket(bucket)' = Bucket(k) /\ Bucket(k) \subseteq Plugins
      BY <1>1, <1>5 DEF Bucket, input
    <3> QED
      BY <1>5, <2>3, <2>4, <2>5, <3>1 DEF KahnInv
  <2>7. PhaseInv'
    <3>1. DuplicateProvider(bucket)' <=> DuplicateProvider(k)
      BY <1>1, <1>5 DEF DuplicateProvider, Bucket, input
    <3>2. FirstOf(bucket, Pending)' <=> FirstOf(k, Pending)
      BY <1>1, <1>5 DEF FirstOf
    <3> QED
      BY <1>1, <1>2, <1>5, <3>1, <3>2 DEF PhaseInv
  <2>8. PlacedInv'
    BY <1>1, <1>5, <2>3 DEF PlacedInv
  <2>9. RequiresRespected' /\ NoRepeat'
    <3>1. UNCHANGED <<flat, prio>>
      BY <1>1, <1>5
    <3>2. \A j \in DOMAIN flat, q \in Plugins :
              EdgesFrom(q, flat[j])' = EdgesFrom(q, flat[j])
      BY <1>1, <3>1 DEF EdgesFrom, IsProvider, Bucket, input, Range
    <3> QED
      BY <3>1, <3>2 DEF RequiresRespected, NoRepeat
  <2>10. CycleIsReal'
    BY <1>1, <1>5 DEF PhaseInv, CycleIsReal
  <2> QED
    BY <2>2, <2>6, <2>7, <2>8, <2>9, <2>10
<1> QED
  BY <1>2, <1>4, <1>5

LEMMA PlaceReadyIInv == IInv /\ PlaceReady => IInv'
<1> SUFFICES ASSUME IInv, PlaceReady PROVE IInv'
  OBVIOUS
<1> USE DEF IInv
<1>1. /\ UNCHANGED <<prio, provides, requires, pc, bucket, visited, err, cyclic>>
      /\ UNCHANGED input /\ pc = "kahn" /\ Pending' = Pending
  BY DEF PlaceReady, Pending, input
<1>g. /\ \A k : Bucket(k)' = Bucket(k)
      /\ \A k : DuplicateProvider(k)' <=> DuplicateProvider(k)
      /\ \A q, p : EdgesFrom(q, p)' = EdgesFrom(q, p)
      /\ \A p : Edges(p)' = Edges(p)
  BY <1>1, GraphUnchanged
<1> DEFINE B == Bucket(bucket)
<1>2. PICK name \in ready :
         /\ flat' = Append(flat, name)
         /\ inDegree' = [p \in Plugins |->
               IF p \in B THEN inDegree[p] - Lowered(name, p) ELSE inDegree[p]]
         /\ ready' = (ready \ {name}) \cup {p \in B : inDegree[p] > 0 /\ inDegree'[p] = 0}
  BY DEF PlaceReady
<1>3. /\ name \in B /\ name \notin Placed /\ name \in Plugins /\ inDegree[name] = 0
      /\ B \subseteq Plugins /\ \A p \in B : prio[p] = bucket
  BY <1>1, <1>2 DEF KahnInv, Bucket
<1>4. /\ Placed' = Placed \cup {name}
      /\ DOMAIN flat' = 1..(Len(flat) + 1) /\ DOMAIN flat = 1..Len(flat)
      /\ Len(flat) \in Nat
      /\ \A i \in 1..Len(flat) : flat'[i] = flat[i]
      /\ flat'[Len(flat) + 1] = name
      /\ flat' \in Seq(Plugins) /\ Placed \subseteq Plugins
  <2>1. flat \in Seq(Plugins)
    BY DEF TypeOK
  <2>2. /\ DOMAIN flat' = 1..(Len(flat) + 1) /\ DOMAIN flat = 1..Len(flat)
        /\ Len(flat) \in Nat
        /\ \A i \in 1..Len(flat) : flat'[i] = flat[i]
        /\ flat'[Len(flat) + 1] = name
        /\ flat' \in Seq(Plugins)
    BY <1>2, <1>3, <2>1
  <2>3. Placed \subseteq Plugins
    BY <2>1, <2>2 DEF Placed, Range
  <2>4. Placed' = Placed \cup {name}
    BY <2>2 DEF Placed, Range
  <2> QED
    BY <2>2, <2>3, <2>4
<1>5. ~DuplicateProvider(bucket)
  BY <1>1 DEF PhaseInv
<1>6. ASSUME NEW p \in B
      PROVE  /\ Open(p)' = Open(p) \ EdgesFrom(name, p)
             /\ inDegree'[p] = Cardinality(Open(p)')
             /\ inDegree'[p] \in Nat
             /\ inDegree[p] = Cardinality(Open(p)) /\ inDegree[p] \in Nat
             /\ inDegree[p] = 0 => inDegree'[p] = 0
  <2>1. Open(p)' = Open(p) \ EdgesFrom(name, p)
    BY <1>4, <1>g DEF Open
  <2>2. /\ EdgesFrom(name, p) \subseteq Open(p) /\ Lowered(name, p) \in Nat
        /\ Cardinality(Open(p) \ EdgesFrom(name, p)) = Cardinality(Open(p)) - Lowered(name, p)
    BY <1>3, <1>5, OpenAfterPlacing
  <2>3. inDegree[p] = Cardinality(Open(p))
    BY <1>1 DEF KahnInv
  <2>4. inDegree'[p] = inDegree[p] - Lowered(name, p)
    BY <1>2, <1>3
  <2>5. Open(p) \ EdgesFrom(name, p) \in SUBSET Edges(p) /\ Open(p) \in SUBSET Edges(p)
    BY DEF Open
  <2>6. /\ Cardinality(Open(p) \ EdgesFrom(name, p)) \in Nat /\ Cardinality(Open(p)) \in Nat
    BY <1>3, <2>5, EdgesFinite
  <2> QED
    BY <2>1, <2>2, <2>3, <2>4, <2>6
<1>7. \A q \in Plugins : EdgesFrom(q, name) # {} => q \in Placed
  <2>1. Cardinality(Open(name)) = 0 /\ Open(name) \in SUBSET Edges(name)
    BY <1>3, <1>6 DEF Open
  <2>2. Open(name) = {}
    BY <1>3, <2>1, EdgesFinite, FS_EmptySet
  <2> QED
    BY <1>3, <1>5, <2>2, OpenEmpty
<1>8. \A p \in B \cap Placed : inDegree[p] = 0
  <2> SUFFICES ASSUME NEW p \in B, p \in Placed PROVE inDegree[p] = 0
    OBVIOUS
  <2>1. PICK j \in DOMAIN flat : p = flat[j]
    BY DEF Placed, Range
  <2>2. \A q \in Plugins : EdgesFrom(q, p) # {} => q \in Placed
    BY SMTT(60), <2>1, <1>4 DEF RequiresRespected, Placed, Range
  <2>3. Open(p) = {}
    BY <1>3, <1>5, <2>2, OpenEmpty
  <2> QED
    BY <1>6, <2>3, FS_EmptySet
<1>9. TypeOK'
  <2>1. inDegree' \in [Plugins -> Nat]
    BY <1>2, <1>3, <1>6 DEF TypeOK
  <2>2. ready' \subseteq Plugins
    BY <1>2, <1>3 DEF TypeOK
  <2> QED
    BY <1>1, <1>4, <2>1, <2>2 DEF TypeOK
<1>10. KahnInv'
  <2>1. Bucket(bucket)' = B
    BY <1>1 DEF Bucket
  <2>2. ready = {p \in B \ Placed : inDegree[p] = 0}
    BY <1>1 DEF KahnInv
  <2>3. ready' = {p \in B \ Placed' : inDegree'[p] = 0}
    BY SMTT(60), <1>2, <1>3, <1>4, <1>6, <1>8, <2>2
  <2> QED
    BY <1>6, <2>1, <2>3 DEF KahnInv
<1>11. PhaseInv'
  <2>1. DuplicateProvider(bucket)' <=> DuplicateProvider(bucket)
    BY <1>1 DEF DuplicateProvider, Bucket
  <2>2. FirstOf(bucket, Pending)' <=> FirstOf(bucket, Pending)
    BY <1>1 DEF FirstOf
  <2> QED
    BY <1>1, <2>1, <2>2 DEF PhaseInv
<1>12. PlacedInv'
  BY <1>1, <1>3, <1>4 DEF PlacedInv
<1>13. NoRepeat'
  BY <1>3, <1>4 DEF NoRepeat, Placed, Range
<1>14. RequiresRespected'
  <2>1. \A i \in DOMAIN flat : prio[flat[i]] <= prio[name]
    <3>1. \A p \in Placed : prio[p] \in visited \/ prio[p] = bucket
      BY <1>1 DEF PlacedInv
    <3>2. bucket \in Pending /\ \A k \in visited : k < bucket
      BY <1>1 DEF PhaseInv, PlacedInv
    <3>3. bucket \in Int /\ prio[name] = bucket /\ \A p \in Plugins : prio[p] \in Int
      BY <1>3, <3>2, PrioritiesAssumption DEF TypeOK, Pending
    <3> QED
      BY <1>4, <3>1, <3>2, <3>3 DEF Placed, Range
  <2>2. ASSUME NEW j \in 1..Len(flat)
        PROVE  /\ \A q \in Plugins : EdgesFrom(q, flat[j]) # {} => \E i \in 1..(j - 1) : flat'[i] = q
               /\ \A i \in 1..(j - 1) : prio[flat'[i]] <= prio[flat[j]]
    BY SMTT(60), <1>4 DEF RequiresRespected
  <2>3. \A q \in Plugins : EdgesFrom(q, name) # {} => \E i \in 1..Len(flat) : flat'[i] = q
    BY <1>4, <1>7 DEF Placed, Range
  <2>4. \A j \in DOMAIN flat', q \in Plugins :
            EdgesFrom(q, flat[j])' = EdgesFrom(q, flat'[j])
    BY <1>1 DEF EdgesFrom, IsProvider, Bucket, Range
  <2>5. ASSUME NEW j \in 1..(Len(flat) + 1)
        PROVE  /\ \A q \in Plugins : EdgesFrom(q, flat'[j]) # {} => \E i \in 1..(j - 1) : flat'[i] = q
               /\ \A i \in 1..(j - 1) : prio[flat'[i]] <= prio[flat'[j]]
    <3>1. CASE j \in 1..Len(flat)
      BY <1>4, <2>2, <3>1
    <3>2. CASE j = Len(flat) + 1
      BY SMTT(60), <1>4, <2>1, <2>3, <3>2
    <3> QED
      BY <1>4, <3>1, <3>2
  <2> QED
    BY <1>1, <1>4, <2>4, <2>5 DEF RequiresRespected
<1>15. CycleIsReal'
  BY <1>1 DEF PhaseInv, CycleIsReal
<1> QED
  BY <1>9, <1>10, <1>11, <1>12, <1>13, <1>14, <1>15

LEMMA EndBucketIInv == IInv /\ EndBucket => IInv'
<1> SUFFICES ASSUME IInv, EndBucket PROVE IInv'
  OBVIOUS
<1> USE DEF IInv
<1>1. /\ UNCHANGED <<prio, provides, requires, inDegree>>
      /\ UNCHANGED input /\ pc = "kahn" /\ ready = {}
  BY DEF EndBucket, input
<1>g. /\ \A k : Bucket(k)' = Bucket(k)
      /\ \A q, p : EdgesFrom(q, p)' = EdgesFrom(q, p)
  BY <1>1, GraphUnchanged
<1>2. bucket \in Pending /\ FirstOf(bucket, Pending) /\ ~DuplicateProvider(bucket)
      /\ bucket \in Priorities /\ Pending \subseteq Priorities /\ err = "none"
  BY <1>1 DEF PhaseInv, Pending, TypeOK
<1>3. CASE /\ Bucket(bucket) \subseteq Placed
           /\ pc' = "next" /\ visited' = visited \cup {bucket} /\ bucket' = NoBucket
           /\ UNCHANGED <<ready, flat, err, cyclic>>
  <2>1. TypeOK'
    BY <1>1, <1>2, <1>3 DEF TypeOK
  <2>2. Pending' = Pending \ {bucket}
    BY <1>1, <1>3 DEF Pending
  <2>3. PhaseInv' /\ KahnInv' /\ CycleIsReal'
    BY <1>1, <1>2, <1>3 DEF PhaseInv, KahnInv, CycleIsReal
  <2>4. PlacedInv'
    <3>1. Placed' = Placed /\ Placed \subseteq Plugins
      BY SMTT(60), <1>3 DEF Placed, Range, TypeOK
    <3>2. Placed = {p \in Plugins : prio[p] \in visited \cup {bucket}}
      BY <1>1, <1>3, <3>1 DEF PlacedInv, Bucket
    <3>3. \A m \in Pending : m \in Int /\ bucket <= m
      BY <1>2, PrioritiesAssumption DEF FirstOf
    <3>4. \A m \in Pending \ {bucket} : bucket < m
      BY <1>2, <3>3
    <3>5. \A k \in visited', m \in Pending' : k < m
      BY <1>3, <2>2, <3>4 DEF PlacedInv
    <3> QED
      BY <1>1, <1>3, <3>1, <3>2, <3>5 DEF PlacedInv
  <2>5. RequiresRespected' /\ NoRepeat'
    <3>1. \A j \in DOMAIN flat, q \in Plugins :
              EdgesFrom(q, flat[j])' = EdgesFrom(q, flat[j])
      BY <1>1, <1>3 DEF EdgesFrom, IsProvider, Bucket, Range
    <3> QED
      BY ZenonT(60), <1>1, <1>3, <3>1 DEF RequiresRespected, NoRepeat
  <2> QED
    BY <2>1, <2>3, <2>4, <2>5
<1>4. CASE /\ ~(Bucket(bucket) \subseteq Placed)
           /\ Fail("cycle", {p \in Bucket(bucket) : inDegree[p] > 0})
           /\ UNCHANGED visited
  <2> DEFINE C == {p \in Bucket(bucket) : inDegree[p] > 0}
  <2>1. flat' = <<>> /\ pc' = "failed" /\ err' = "cycle" /\ cyclic' = C /\ ready' = {}
        /\ bucket' = NoBucket /\ C \subseteq Plugins
    BY <1>4 DEF Fail, Bucket
  <2>2. TypeOK'
    BY <1>1, <1>4, <2>1 DEF TypeOK
  <2>3. Pending' = Pending
    BY <1>1, <1>4 DEF Pending
  <2>4. PhaseInv' /\ KahnInv' /\ NoRepeat' /\ RequiresRespected'
    BY SMTT(60), <2>1 DEF PhaseInv, KahnInv, NoRepeat, RequiresRespected
  <2>5. PlacedInv'
    BY <1>1, <1>4, <2>1, <2>3 DEF PlacedInv
  <2>6. \A p \in Bucket(bucket) \ Placed : p \in C
    BY <1>1 DEF KahnInv, TypeOK, Bucket
  <2>7. ASSUME NEW p \in C PROVE \E q \in C : EdgesFrom(q, p) # {}
    <3>1. p \in Plugins /\ prio[p] = bucket /\ inDegree[p] > 0 /\ inDegree[p] = Cardinality(Open(p))
      BY <1>1 DEF Bucket, KahnInv
    <3>2. Open(p) # {}
      BY <3>1, FS_EmptySet
    <3>3. PICK q \in Plugins : EdgesFrom(q, p) # {} /\ q \notin Placed
      BY <1>2, <3>1, <3>2, OpenEmpty
    <3>4. q \in Bucket(bucket)
      BY <3>1, <3>3, EdgeInBucket DEF Bucket
    <3> QED
      BY <2>6, <3>3, <3>4
  <2>8. C # {}
    BY <1>4, <2>6
  <2>9. CycleIsReal'
    BY <1>g, <2>1, <2>7, <2>8 DEF CycleIsReal
  <2> QED
    BY <2>2, <2>4, <2>5, <2>9
<1> QED
  BY <1>3, <1>4 DEF EndBucket

\* Steps that leave what the properties speak of alone.
LEMMA QuietIInv == IInv /\ (Finish \/ UNCHANGED vars) => IInv'
<1> SUFFICES ASSUME IInv, Finish \/ UNCHANGED vars PROVE IInv'
  OBVIOUS
<1> USE DEF IInv
<1>1. UNCHANGED <<prio, provides, requires, bucket, visited, inDegree, ready,
                  flat, err, cyclic>> /\ UNCHANGED input /\ Pending' = Pending
      /\ Placed' = Placed
  BY DEF Finish, vars, input, Pending, Placed
<1>2. pc' = pc \/ (pc = "next" /\ pc' = "done" /\ Pending = {})
  BY DEF Finish, vars
<1>g. /\ \A k : Bucket(k)' = Bucket(k)
      /\ \A k : DuplicateProvider(k)' <=> DuplicateProvider(k)
      /\ \A q, p : EdgesFrom(q, p)' = EdgesFrom(q, p)
      /\ \A p : Edges(p)' = Edges(p)
  BY <1>1, GraphUnchanged
<1>3. TypeOK'
  BY <1>1, <1>2 DEF TypeOK
<1>4. PhaseInv'
  <2>1. DuplicateProvider(bucket)' <=> DuplicateProvider(bucket)
    BY <1>1 DEF DuplicateProvider, Bucket
  <2>2. FirstOf(bucket, Pending)' <=> FirstOf(bucket, Pending)
    BY <1>1 DEF FirstOf
  <2> QED
    BY <1>1, <1>2, <2>1, <2>2 DEF PhaseInv
<1>5. PlacedInv'
  BY <1>1, <1>2 DEF PlacedInv
<1>6. KahnInv'
  <2>1. \A p : Open(p)' = Open(p)
    BY <1>1, <1>g DEF Open
  <2>2. Bucket(bucket)' = Bucket(bucket)
    BY <1>1 DEF Bucket
  <2> QED
    BY <1>1, <1>2, <2>1, <2>2 DEF KahnInv
<1>7. NoRepeat' /\ RequiresRespected'
  <2>1. \A j \in DOMAIN flat, q \in Plugins :
            EdgesFrom(q, flat[j])' = EdgesFrom(q, flat[j])
    BY <1>1 DEF EdgesFrom, IsProvider, Bucket, Range
  <2> QED
    BY <1>1, <2>1 DEF RequiresRespected, NoRepeat
<1>8. CycleIsReal'
  BY <1>1, <1>g DEF CycleIsReal
<1> QED
  BY <1>3, <1>4, <1>5, <1>6, <1>7, <1>8

\* IInv is an invariant of resolvePhase.
THEOREM Inductive == Spec => []IInv
<1>1. IInv /\ [Next]_vars => IInv'
  BY StartBucketIInv, PlaceReadyIInv, EndBucketIInv, QuietIInv DEF Next, Step, Terminated
<1> QED
  BY InitIInv, <1>1, PTL DEF Spec

\* The variables of resolvePhase keep their types.
THEOREM TypeCorrect == Spec => []TypeOK
  BY Inductive, PTL DEF IInv

\* Whatever the plugins declare, a placed plugin has every same-bucket
\* provider of its Requires, and every lower bucket, before it.
THEOREM OrderRespectsRequires == Spec => []RequiresRespected
  BY Inductive, PTL DEF IInv

\* Whatever the plugins declare, the order names each of them once.
THEOREM OrderIsComplete == Spec => []ExactlyOnce
<1>1. IInv => ExactlyOnce
  <2> SUFFICES ASSUME IInv, pc = "done" PROVE Placed = Plugins
    BY DEF IInv, NoRepeat, ExactlyOnce
  <2>1. \A p \in Plugins : prio[p] \in visited
    BY DEF IInv, PhaseInv, Pending
  <2> QED
    BY <2>1 DEF IInv, PlacedInv
<1> QED
  BY Inductive, <1>1, PTL

\* ErrCycle is reported only when some plugins really wait for each other.
THEOREM CycleErrorIsReal == Spec => []CycleIsReal
  BY Inductive, PTL DEF IInv

-----------------------------------------------------------------------------
(* The order is the least one. *)

\* Against every admissible order g: the names placed so far are the first
\* names of g, or come before them alphabetically.
LeastSoFar ==
    \A g \in Orders : (\A i \in DOMAIN flat : flat[i] = g[i]) \/ LexLess(flat, g)

\* g is admissible.
Admissible(g) ==
    /\ g \in [1..Cardinality(Plugins) -> Plugins]
    /\ \A i, j \in 1..Cardinality(Plugins) : g[i] = g[j] => i = j
    /\ \A p, q \in Plugins :
          (EdgesFrom(q, p) # {} \/ prio[q] < prio[p]) =>
             \E i, j \in 1..Cardinality(Plugins) : i < j /\ g[i] = q /\ g[j] = p

LEMMA OrdersAdmissible == \A g : g \in Orders <=> Admissible(g)
  BY Zenon DEF Orders, Admissible

\* What comes before a name in an admissible order.
LEMMA ComesBefore ==
    ASSUME NEW g, Admissible(g), NEW i \in 1..Cardinality(Plugins), NEW q \in Plugins,
           EdgesFrom(q, g[i]) # {} \/ prio[q] < prio[g[i]], Cardinality(Plugins) \in Nat
    PROVE  \E j \in 1..(i - 1) : g[j] = q
<1>1. g[i] \in Plugins
  BY DEF Admissible
<1>2. PICK a, b \in 1..Cardinality(Plugins) : a < b /\ g[a] = q /\ g[b] = g[i]
  BY <1>1 DEF Admissible
<1>3. b = i
  BY <1>2 DEF Admissible
<1> QED
  BY <1>2, <1>3

LEMMA PluginCount == Cardinality(Plugins) \in Nat
  BY PluginsAssumption, FS_CardinalityType

\* The order built so far is as long as the set of the plugins placed.
LEMMA PlacedCount ==
    ASSUME IInv
    PROVE  /\ Len(flat) \in Nat /\ DOMAIN flat = 1..Len(flat)
           /\ Placed \subseteq Plugins /\ IsFiniteSet(Placed) /\ Cardinality(Placed) = Len(flat)
<1>1. flat \in Seq(Plugins)
  BY DEF IInv, TypeOK
<1>2. Len(flat) \in Nat /\ DOMAIN flat = 1..Len(flat) /\ flat \in [1..Len(flat) -> Plugins]
  BY <1>1
<1>3. Placed \subseteq Plugins /\ Placed = {flat[i] : i \in 1..Len(flat)}
  BY <1>2 DEF Placed, Range
<1>4. \A i, j \in 1..Len(flat) : flat[i] = flat[j] => i = j
  BY <1>2 DEF IInv, NoRepeat
<1>5. IsFiniteSet(1..Len(flat)) /\ Cardinality(1..Len(flat)) = Len(flat)
  <2>1. \A n \in Nat : 1 \in Int /\ n \in Int
    OBVIOUS
  <2>2. \A n \in Nat : /\ IsFiniteSet(1..n)
                       /\ Cardinality(1..n) = IF 1 > n THEN 0 ELSE n - 1 + 1
    BY <2>1, FS_Interval, Zenon
  <2>3. \A n \in Nat : (IF 1 > n THEN 0 ELSE n - 1 + 1) = n
    OBVIOUS
  <2> QED  BY <1>2, <2>2, <2>3, Zenon
<1>6. flat \in Bijection(1..Len(flat), Placed)
  BY <1>2, <1>3, <1>4 DEF Bijection, Injection, Surjection, IsInjective
<1> QED
  BY <1>2, <1>3, <1>5, <1>6, FS_Bijection DEF ExistsBijection

LEMMA OrdersUnchanged == ASSUME UNCHANGED input PROVE Orders' = Orders
<1>1. /\ \A q, p : EdgesFrom(q, p)' = EdgesFrom(q, p)
      /\ prio' = prio
  BY GraphUnchanged DEF input
<1> QED
  BY <1>1 DEF Orders

\* The name Kahn's loop takes is the least that any admissible order which
\* agrees so far can go on with: its next name is ready too.
LEMMA NextNameIsLeast ==
    ASSUME IInv, pc = "kahn", NEW name \in ready, FirstOf(name, ready),
           NEW g, Admissible(g), \A i \in DOMAIN flat : flat[i] = g[i]
    PROVE  Len(flat) + 1 \in 1..Cardinality(Plugins) /\ name <= g[Len(flat) + 1]
<1> DEFINE n == Cardinality(Plugins)
           k == Len(flat) + 1
           r == g[k]
<1> USE PluginCount
<1>1. /\ name \in Plugins /\ prio[name] = bucket /\ name \notin Placed
      /\ ready = {p \in Bucket(bucket) \ Placed : inDegree[p] = 0}
  BY DEF IInv, KahnInv, Bucket
<1>2. /\ Len(flat) \in Nat /\ DOMAIN flat = 1..Len(flat)
      /\ Placed \subseteq Plugins /\ IsFiniteSet(Placed) /\ Cardinality(Placed) = Len(flat)
  BY PlacedCount
<1>3. k \in 1..n
  <2>1. IsFiniteSet(Plugins \ {name}) /\ Cardinality(Plugins \ {name}) = n - 1
    BY <1>1, PluginsAssumption, FS_RemoveElement
  <2>2. Placed \in SUBSET (Plugins \ {name})
    BY <1>1, <1>2
  <2>3. Len(flat) <= n - 1
    BY <1>2, <2>1, <2>2, FS_Subset
  <2> QED
    BY <1>2, <2>3
<1>4. \A j \in 1..(k - 1) : g[j] \in Placed
  BY <1>2 DEF Placed, Range
<1>5. r \in Plugins /\ r \notin Placed
  <2>1. r \in Plugins
    BY <1>3 DEF Admissible
  <2>2. ASSUME NEW j \in 1..Len(flat), flat[j] = r PROVE FALSE
    <3>1. g[j] = g[k] /\ j \in 1..n /\ j # k
      BY <1>2, <1>3, <2>2
    <3> QED
      BY <1>3, <3>1 DEF Admissible
  <2> QED
    BY <1>2, <2>1, <2>2 DEF Placed, Range
<1> HIDE DEF k
<1>6. ASSUME NEW q \in Plugins, EdgesFrom(q, r) # {} \/ prio[q] < prio[r]
      PROVE  q \in Placed
  BY <1>3, <1>4, <1>6, ComesBefore
<1>7. prio[r] = bucket
  <2>1. prio[r] \in Pending
    BY <1>5 DEF IInv, PlacedInv, Pending
  <2>2. bucket \in Int /\ prio[r] \in Int /\ bucket <= prio[r]
    BY <2>1, <1>1, <1>5, PrioritiesAssumption DEF IInv, PhaseInv, FirstOf, TypeOK
  <2>3. ~(bucket < prio[r])
    BY <1>1, <1>6
  <2> QED
    BY <2>2, <2>3
<1>8. inDegree[r] = 0
  <2>1. ~DuplicateProvider(prio[r])
    BY <1>7 DEF IInv, PhaseInv
  <2>2. Open(r) = {}
    BY <1>5, <1>6, <2>1, OpenEmpty DEF IInv
  <2>3. inDegree[r] = Cardinality(Open(r))
    BY <1>5, <1>7 DEF IInv, KahnInv, Bucket
  <2> QED
    BY <2>2, <2>3, FS_EmptySet
<1>9. r \in ready
  BY <1>1, <1>5, <1>7, <1>8 DEF Bucket
<1> QED
  BY <1>3, <1>9 DEF FirstOf, k

LEMMA LeastStep == IInv /\ LeastSoFar /\ [Next]_vars => LeastSoFar'
<1> SUFFICES ASSUME IInv, LeastSoFar, [Next]_vars PROVE LeastSoFar'
  OBVIOUS
<1>1. UNCHANGED input
  BY DEF Next, Step, StartBucket, PlaceReady, EndBucket, Finish, Terminated, vars, input
<1>2. Orders' = Orders
  BY <1>1, OrdersUnchanged
<1>3. flat' = flat \/ flat' = <<>> \/ PlaceReady
  BY DEF Next, Step, StartBucket, EndBucket, Finish, Terminated, vars, Fail
<1>4. CASE flat' = flat
  BY <1>2, <1>4 DEF LeastSoFar, LexLess
<1>5. CASE flat' = <<>>
  BY <1>5 DEF LeastSoFar
<1>6. CASE PlaceReady
  <2> SUFFICES ASSUME NEW g \in Orders
               PROVE  (\A i \in DOMAIN flat' : flat'[i] = g[i]) \/ LexLess(flat', g)
    BY <1>2 DEF LeastSoFar, LexLess
  <2>1. PICK name \in ready : FirstOf(name, ready) /\ flat' = Append(flat, name)
    BY <1>6 DEF PlaceReady
  <2>2. /\ pc = "kahn" /\ name \in Plugins /\ name \in Nat /\ flat \in Seq(Plugins)
    BY <1>6, <2>1, PluginsAssumption DEF PlaceReady, IInv, TypeOK
  <2>3. /\ DOMAIN flat' = 1..(Len(flat) + 1) /\ DOMAIN flat = 1..Len(flat)
        /\ Len(flat) \in Nat
        /\ \A i \in 1..Len(flat) : flat'[i] = flat[i]
        /\ flat'[Len(flat) + 1] = name
    BY <2>1, <2>2
  <2>4. Admissible(g)
    BY OrdersAdmissible
  <2>5. CASE \A i \in DOMAIN flat : flat[i] = g[i]
    <3> DEFINE k == Len(flat) + 1
    <3>1. k \in 1..Cardinality(Plugins) /\ name <= g[k]
      BY <2>1, <2>2, <2>4, <2>5, NextNameIsLeast
    <3>2. g[k] \in Nat
      BY <2>4, <3>1, PluginsAssumption DEF Admissible
    <3>3. \A i \in 1..(k - 1) : flat'[i] = g[i]
      BY <2>3, <2>5
    <3>4. CASE name = g[k]
      BY <2>3, <3>3, <3>4
    <3>5. CASE name < g[k]
      BY <2>3, <3>3, <3>5 DEF LexLess
    <3> QED
      BY <2>2, <3>1, <3>2, <3>4, <3>5
  <2>6. CASE LexLess(flat, g)
    BY <2>3, <2>6 DEF LexLess
  <2> QED
    BY <2>5, <2>6 DEF LeastSoFar
<1> QED
  BY <1>3, <1>4, <1>5, <1>6

\* A set of naturals that is not empty has a least element.
LEMMA LeastNatural ==
    ASSUME NEW T, T \subseteq Nat, T # {}
    PROVE  \E x \in T : \A y \in T : ~(y < x)
<1>1. PICK x \in T : \A y \in T : <<y, x>> \notin OpToRel(<, Nat)
    BY NatLessThanWellFounded, WFMin
<1> QED  BY <1>1 DEF OpToRel

\* Plugins that wait for each other have no admissible order: the first of
\* them in it would have another one before it.
LEMMA CycleAdmitsNone == IInv /\ err = "cycle" => Orders = {}
<1> SUFFICES ASSUME IInv, err = "cycle", NEW g \in Orders PROVE FALSE
  OBVIOUS
<1> DEFINE n == Cardinality(Plugins)
           T == {i \in 1..n : g[i] \in cyclic}
<1> USE PluginCount
<1>1. /\ cyclic # {} /\ cyclic \subseteq Plugins
      /\ \A p \in cyclic : \E q \in cyclic : EdgesFrom(q, p) # {}
  BY DEF IInv, CycleIsReal, TypeOK
<1>2. Admissible(g)
  BY OrdersAdmissible
<1>3. T # {}
  <2>1. PICK p \in cyclic, q \in cyclic : EdgesFrom(q, p) # {}
    BY <1>1
  <2>2. \E i \in 1..n : g[i] = q
    BY <1>1, <1>2, <2>1 DEF Admissible
  <2> QED
    BY <2>2
<1>4. PICK i \in T : \A j \in T : ~(j < i)
  <2>1. T \subseteq Nat
    OBVIOUS
  <2> HIDE DEF T
  <2> QED
    BY <1>3, <2>1, LeastNatural
<1>5. PICK q \in cyclic : EdgesFrom(q, g[i]) # {}
  BY <1>1
<1>6. PICK j \in 1..(i - 1) : g[j] = q
  BY <1>1, <1>2, <1>5, ComesBefore
<1>7. j \in T /\ j < i
  BY <1>6
<1> QED
  BY <1>4, <1>7

\* A phase that resolves has an admissible order.
LEMMA DoneIsAdmissible == IInv /\ pc = "done" => DOMAIN flat = 1..Cardinality(Plugins) /\ flat \in Orders
<1> SUFFICES ASSUME IInv, pc = "done"
             PROVE  DOMAIN flat = 1..Cardinality(Plugins) /\ flat \in Orders
  OBVIOUS
<1> DEFINE n == Cardinality(Plugins)
<1>1. Placed = Plugins
  <2>1. \A p \in Plugins : prio[p] \in visited
    BY DEF IInv, PhaseInv, Pending
  <2> QED
    BY <2>1 DEF IInv, PlacedInv
<1>2. Len(flat) = n /\ DOMAIN flat = 1..n /\ n \in Nat
  BY <1>1, PlacedCount
<1>3. flat \in [1..n -> Plugins]
  BY <1>2 DEF IInv, TypeOK
<1>4. \A i, j \in 1..n : flat[i] = flat[j] => i = j
  BY <1>2 DEF IInv, NoRepeat
<1>5. \A j \in 1..n : /\ \A q \in Plugins : EdgesFrom(q, flat[j]) # {}
                             => \E i \in 1..(j - 1) : flat[i] = q
                      /\ \A i \in 1..(j - 1) : prio[flat[i]] <= prio[flat[j]]
  BY <1>2 DEF IInv, RequiresRespected
<1>6. ASSUME NEW p \in Plugins, NEW q \in Plugins, EdgesFrom(q, p) # {} \/ prio[q] < prio[p]
      PROVE  \E i, j \in 1..n : i < j /\ flat[i] = q /\ flat[j] = p
  <2>1. PICK i \in 1..n, j \in 1..n : flat[i] = q /\ flat[j] = p
    BY <1>1, <1>2 DEF Placed, Range
  <2>2. CASE EdgesFrom(q, p) # {}
    <3>1. PICK m \in 1..(j - 1) : flat[m] = q
      BY <1>5, <2>1, <2>2
    <3> QED
      BY <1>2, <2>1, <3>1
  <2>3. CASE prio[q] < prio[p]
    <3>1. prio[p] \in Int /\ prio[q] \in Int
      BY PrioritiesAssumption DEF IInv, TypeOK
    <3>2. ~(j \in 1..(i - 1)) /\ i # j
      BY <1>5, <2>1, <2>3, <3>1
    <3> QED
      BY <1>2, <2>1, <3>2
  <2> QED
    BY <1>6, <2>2, <2>3
<1> QED
  BY <1>2, <1>3, <1>4, <1>6, OrdersAdmissible DEF Admissible

\* Whatever the plugins declare, resolvePhase returns the alphabetically
\* least of the orders their declarations admit, and reports a cycle only
\* when they admit none.
THEOREM OrderIsLeast == Spec => []LeastOrder
<1>1. Init => LeastSoFar
  BY DEF Init, Start, LeastSoFar
<1>2. IInv /\ LeastSoFar => LeastOrder
  <2> SUFFICES ASSUME IInv, LeastSoFar PROVE LeastOrder
    OBVIOUS
  <2>1. ASSUME pc = "done", NEW g \in Orders PROVE g = flat \/ LexLess(flat, g)
    <3>1. DOMAIN flat = 1..Cardinality(Plugins) /\ flat \in [1..Cardinality(Plugins) -> Plugins]
      BY <2>1, DoneIsAdmissible, OrdersAdmissible DEF Admissible
    <3>2. g \in [1..Cardinality(Plugins) -> Plugins]
      BY <2>1, OrdersAdmissible DEF Admissible
    <3>3. CASE \A i \in DOMAIN flat : flat[i] = g[i]
      <4> DEFINE D == 1..Cardinality(Plugins)
      <4>1. /\ flat \in [D -> Plugins] /\ g \in [D -> Plugins]
            /\ \A i \in D : flat[i] = g[i]
        BY <3>1, <3>2, <3>3
      <4> HIDE DEF D
      <4>2. g = flat
        BY <4>1
      <4> QED
        BY <4>2
    <3> QED
      BY <2>1, <3>3 DEF LeastSoFar
  <2> QED
    BY <2>1, DoneIsAdmissible, CycleAdmitsNone DEF LeastOrder
<1> QED
  BY Inductive, <1>1, <1>2, LeastStep, PTL DEF Spec
=============================================================================
