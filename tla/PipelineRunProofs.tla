------------------------- MODULE PipelineRunProofs -------------------------
(***************************************************************************)
(* Whatever the plan, and however many plugins fail, panic or run at once: *)
(* the order of buckets and phases, the isolation of generators that read  *)
(* the emit graph, the order of slot contributions, and what Run returns.  *)
(***************************************************************************)
EXTENDS PipelineRun, TLAPS

\* Most leaves are first-order reasoning about the invariant: Zenon first, SMT
\* for arithmetic, records and sequences.
USE ZenonT(3), SMTT(30)

\* The number of buckets of the phase that have been started.
Started == Len(Plan[phase]) - Len(buckets)

\* Inside a plugin phase, the bucket being run and the buckets to come are
\* those of the plan from Started on.
InPlan ==
    InPlugins =>
        /\ Started \in 0 .. Len(Plan[phase])
        /\ Started = 0 => bucket = <<>>
        /\ Started > 0 => bucket = Plan[phase][Started]
        /\ \A i \in DOMAIN buckets : buckets[i] = Plan[phase][Started + i]

\* What the plan has before the current bucket has returned ...
Behind ==
    /\ at > 1 => Planned("frontend") \subseteq ended
    /\ at > 2 => Planned("annotator") \subseteq ended
    /\ at > 3 => Planned("generator") \subseteq ended
    /\ InPlugins => \A i \in 1 .. Started - 1 : Range(Plan[phase][i]) \subseteq ended

\* ... and what it has after it has not begun.
Ahead ==
    /\ at = 1 /\ ~inside => Planned("frontend") \cap begun = {}
    /\ at = 1 \/ (at = 2 /\ ~inside) => Planned("annotator") \cap begun = {}
    /\ at \in 1 .. 2 \/ (at = 3 /\ ~inside) => Planned("generator") \cap begun = {}
    /\ InPlugins => \A i \in Started + 1 .. Len(Plan[phase]) : Range(Plan[phase][i]) \cap begun = {}

\* Only plugins of the current bucket run, one after the other unless the
\* bucket is concurrent.
Current ==
    /\ \A p \in running : InPlugins /\ p \in Range(bucket)
    /\ InPlugins /\ ~Concurrent =>
        \A i, j \in DOMAIN bucket : i < j /\ bucket[j] \in begun => bucket[i] \in ended

Contributed == \A m \in DOMAIN pending : pending[m] \in begun

Order == InPlan /\ Behind /\ Ahead /\ Current

Slots == Contributed /\ SlotsInPlanOrder

-----------------------------------------------------------------------------

\* The phases by number.
LEMMA PhaseNumbers ==
    ASSUME at \in 0 .. Len(Phases) + 1
    PROVE  /\ Len(Phases) = 6 /\ DOMAIN Phases = 1 .. 6
           /\ phase = "frontend" <=> at = 1
           /\ phase = "annotator" <=> at = 2
           /\ phase = "generator" <=> at = 3
           /\ phase = "layout" <=> at = 4
           /\ phase = "backend" <=> at = 5
           /\ phase = "manifest" <=> at = 6
           /\ phase \in PluginPhases <=> at \in 1 .. 3
BY DEF Phases, phase, PluginPhases

LEMMA InitOrder == Init => TypeOK /\ Order /\ Slots
<1> SUFFICES ASSUME Init PROVE TypeOK /\ Order /\ Slots
    OBVIOUS
<1>1. TypeOK
  <2>1. <<>> \in Seq(Seq(Plugins)) /\ <<>> \in Seq(Plugins)
      OBVIOUS
  <2>2. 0 \in 0 .. Len(Phases) + 1 /\ 0 \in 0 .. MaxRuns
      BY PlanAssumption DEF Phases
  <2> QED  BY <2>1, <2>2, Zenon DEF Init, TypeOK
<1>2. ~InPlugins
    BY DEF Init, InPlugins
<1>3. InPlan /\ Behind /\ Ahead /\ Current
    BY <1>2 DEF Init, InPlan, Behind, Ahead, Current, running
<1>4. Contributed /\ SlotsInPlanOrder
    BY DEF Init, Contributed, SlotsInPlanOrder
<1> QED  BY <1>1, <1>3, <1>4 DEF Order, Slots
-----------------------------------------------------------------------------
(* Types *)

\* An invocation named by a bucket is a plugin, and a bucket of the plan is
\* a list of plugins.
LEMMA PlanTypes ==
    ASSUME NEW ph \in PluginPhases
    PROVE  /\ Plan[ph] \in Seq(Seq(Plugins)) /\ Len(Plan[ph]) \in Nat
           /\ DOMAIN Plan[ph] = 1 .. Len(Plan[ph])
           /\ \A i \in DOMAIN Plan[ph] :
                Plan[ph][i] \in Seq(Plugins) /\ Range(Plan[ph][i]) \subseteq Planned(ph)
BY PlanAssumption DEF Planned

LEMMA TypeStep == TypeOK /\ Next => TypeOK'
<1> SUFFICES ASSUME TypeOK, Next PROVE TypeOK'
    OBVIOUS
<1> USE DEF TypeOK
<1>1. CASE StartRun
  <2>1. <<>> \in Seq(Seq(Plugins)) /\ <<>> \in Seq(Plugins)
      OBVIOUS
  <2>2. 1 \in 0 .. Len(Phases) + 1 /\ runs' \in 0 .. MaxRuns
      BY <1>1, PlanAssumption DEF Phases, StartRun
  <2> QED  BY <1>1, <2>1, <2>2, Zenon DEF StartRun, resetRunState
<1>2. CASE Cancel
    BY <1>2 DEF Cancel, progress, store, diag, layoutDiag, return
<1>3. CASE Enter
  <2>1. buckets' \in Seq(Seq(Plugins)) /\ bucket' \in Seq(Plugins)
      BY <1>3, PlanTypes DEF Enter
  <2> QED  BY <1>3, <2>1 DEF Enter, store, diag, layoutDiag, return
<1>4. CASE Stop
    BY <1>4 DEF Stop, store, diag, layoutDiag
<1>5. CASE NextBucket
  <2>1. buckets' \in Seq(Seq(Plugins)) /\ bucket' \in Seq(Plugins)
      BY <1>5 DEF NextBucket
  <2> QED  BY <1>5, <2>1 DEF NextBucket, store, diag, layoutDiag, return
<1>6. CASE Begin
    BY <1>6 DEF Begin, store, diag, layoutDiag, return
<1>7. ASSUME NEW p \in Plugins, AddNodes(p) PROVE TypeOK'
    BY <1>7 DEF AddNodes, progress, diag, layoutDiag, return
<1>8. ASSUME NEW p \in Plugins, AppendOriginSlot(p) PROVE TypeOK'
  <2>1. pending' \in Seq(Plugins)
      BY <1>8 DEF AppendOriginSlot
  <2> QED  BY <1>8, <2>1 DEF AppendOriginSlot, progress, diag, layoutDiag, return
<1>9. ASSUME NEW p \in Plugins, Fail(p) PROVE TypeOK'
    BY <1>9 DEF Fail, Report, running, store, layoutDiag, return
<1>10. ASSUME NEW p \in Plugins, Return(p) PROVE TypeOK'
    BY <1>10 DEF Return, running, store, diag, layoutDiag, return
<1>11. at \in 1 .. 6 => at + 1 \in 0 .. Len(Phases) + 1
    BY DEF Phases
<1>12. CASE EndPlugins
  <2>1. at \in 1 .. 6
      BY <1>12, PhaseNumbers DEF EndPlugins, InPlugins
  <2> QED  BY <1>11, <1>12, <2>1 DEF EndPlugins, Leave, FreezeNodes, Report, layoutDiag, return
<1>13. CASE Layout
  <2>1. at \in 1 .. 6
      BY <1>13, PhaseNumbers DEF Layout
  <2> QED  BY <1>11, <1>13, <2>1 DEF Layout, Leave, Report, return
<1>14. CASE BackendOrManifest
  <2>1. at \in 1 .. 6
      BY <1>14, PhaseNumbers DEF BackendOrManifest
  <2> QED  BY <1>11, <1>14, <2>1 DEF BackendOrManifest, Leave, Report, store, layoutDiag, return
<1>15. CASE Finish
    BY <1>15 DEF Finish, store, diag, layoutDiag
<1> QED  BY <1>1, <1>2, <1>3, <1>4, <1>5, <1>6, <1>7, <1>8, <1>9, <1>10, <1>12, <1>13, <1>14, <1>15
         DEF Next, RunStep, PluginStep
-----------------------------------------------------------------------------
(* The order of buckets and phases *)

\* The same after a step.
LEMMA NextPhaseNumbers ==
    ASSUME at' \in 0 .. Len(Phases) + 1
    PROVE  /\ phase' = "frontend" <=> at' = 1
           /\ phase' = "annotator" <=> at' = 2
           /\ phase' = "generator" <=> at' = 3
           /\ phase' \in PluginPhases <=> at' \in 1 .. 3
BY DEF Phases, phase, PluginPhases

\* Steps that neither start, end nor move anything of the progress.
LEMMA OrderKept ==
    ASSUME Order, UNCHANGED <<progress, parallel>>
    PROVE  Order'
BY DEF Order, InPlan, Behind, Ahead, Current, progress, Started, InPlugins, phase, running,
       Concurrent, allNodesOnly

\* A run starts, and nothing has begun.
LEMMA OrderStart == TypeOK' /\ StartRun => Order'
<1> SUFFICES ASSUME TypeOK', StartRun PROVE Order'
    OBVIOUS
<1>1. at' = 1 /\ ~inside' /\ begun' = {} /\ running' = {} /\ ~InPlugins'
    BY DEF StartRun, running, InPlugins
<1> QED  BY <1>1 DEF Order, InPlan, Behind, Ahead, Current

\* Steps that end the run or a phase of the framework: nothing is running.
LEMMA OrderLeaveIdle ==
    ASSUME TypeOK, TypeOK', Order, ~InPlugins,
           UNCHANGED <<begun, ended>>, at' = 0 \/ (at > 3 /\ at' = at + 1)
    PROVE  Order'
<1>1. running = {} /\ running' = {} /\ ~InPlugins'
    BY NextPhaseNumbers DEF Order, Current, running, InPlugins, TypeOK
<1>2. Behind' /\ Ahead'
    BY <1>1 DEF Order, Behind, Ahead, TypeOK
<1> QED  BY <1>1, <1>2 DEF Order, InPlan, Current

\* A phase is entered with all of its buckets to come.
LEMMA OrderEnter ==
    ASSUME TypeOK, TypeOK', Order, Enter, UNCHANGED parallel
    PROVE  Order'
<1>1. /\ inside' /\ ~inside /\ at' = at /\ phase' = phase /\ bucket' = <<>>
      /\ begun' = begun /\ ended' = ended
      /\ buckets' = IF phase \in PluginPhases THEN Plan[phase] ELSE <<>>
    BY DEF Enter, phase
<1>2. running = {} /\ running' = {}
    BY <1>1 DEF Order, Current, running, InPlugins
<1>3. ASSUME InPlugins'
      PROVE  /\ phase \in PluginPhases /\ Len(Plan[phase]) \in Nat
             /\ Started' = 0 /\ DOMAIN buckets' = 1 .. Len(Plan[phase])
    BY <1>1, <1>3, PlanTypes DEF InPlugins, Started
<1>4. InPlan'
    BY <1>1, <1>3, PlanTypes DEF InPlan
<1>5. Behind'
    BY <1>1, <1>3 DEF Behind, Order
<1>6. ASSUME InPlugins', NEW i \in 1 .. Len(Plan[phase]) PROVE Range(Plan[phase][i]) \cap begun = {}
  <2>1. Range(Plan[phase][i]) \subseteq Planned(phase)
      BY <1>3, <1>6, PlanTypes
  <2>2. Planned(phase) \cap begun = {}
      BY <1>1, <1>3, <1>6, PhaseNumbers DEF Order, Ahead, TypeOK, PluginPhases
  <2> QED  BY <2>1, <2>2
<1>7. Ahead'
    BY <1>1, <1>3, <1>6 DEF Ahead, Order
<1>8. Current'
    BY <1>1, <1>2 DEF Current
<1> QED  BY <1>4, <1>5, <1>7, <1>8 DEF Order

\* The next bucket starts when the one before it has returned.
LEMMA OrderNextBucket ==
    ASSUME TypeOK, TypeOK', Order, NextBucket, UNCHANGED parallel
    PROVE  Order'
<1>1. /\ InPlugins /\ InPlugins' /\ phase' = phase /\ at' = at /\ inside' = inside
      /\ begun' = begun /\ ended' = ended /\ Range(bucket) \subseteq ended
      /\ buckets # <<>> /\ bucket' = Head(buckets) /\ buckets' = Tail(buckets)
    BY DEF NextBucket, InPlugins, phase, BucketDone
<1>2. phase \in PluginPhases /\ Plan[phase] \in Seq(Seq(Plugins)) /\ Len(Plan[phase]) \in Nat
    BY <1>1, PlanTypes DEF InPlugins
<1>3. /\ Started \in 0 .. Len(Plan[phase]) - 1 /\ Started' = Started + 1
      /\ DOMAIN buckets = 1 .. Len(buckets) /\ DOMAIN buckets' = 1 .. Len(buckets) - 1
      /\ \A i \in DOMAIN buckets' : buckets'[i] = buckets[i + 1]
    BY <1>1, <1>2 DEF TypeOK, Order, InPlan, Started
<1>4. bucket' = Plan[phase][Started + 1]
  <2>1. Head(buckets) = buckets[1] /\ 1 \in DOMAIN buckets
      BY <1>1, <1>3 DEF TypeOK
  <2> QED  BY <1>1, <2>1 DEF Order, InPlan
<1>5. InPlan'
  <2>1. ASSUME NEW i \in DOMAIN buckets' PROVE buckets'[i] = Plan[phase][Started' + i]
    <3>1. i + 1 \in DOMAIN buckets /\ Started' + i = Started + (i + 1)
        BY <1>3
    <3> QED  BY <1>1, <1>3, <3>1 DEF Order, InPlan
  <2> QED  BY <1>1, <1>2, <1>3, <1>4, <2>1 DEF InPlan
<1>6. running = {} /\ running' = {}
    BY <1>1 DEF Order, Current, running
<1>7. Behind'
  <2>1. ASSUME NEW i \in 1 .. Started PROVE Range(Plan[phase][i]) \subseteq ended
    <3>1. CASE i = Started
        BY <1>1, <1>3, <2>1, <3>1 DEF Order, InPlan
    <3>2. CASE i # Started
        BY <1>1, <1>3, <2>1, <3>2 DEF Order, Behind
    <3> QED  BY <3>1, <3>2
  <2> QED  BY <1>1, <1>3, <2>1 DEF Order, Behind
<1>8. Ahead'
    BY <1>1, <1>2, <1>3 DEF Order, Ahead
<1>9. Range(bucket') \cap begun = {}
    BY <1>1, <1>2, <1>3, <1>4 DEF Order, Ahead
<1>10. Current'
    BY <1>1, <1>6, <1>9 DEF Current, Range
<1> QED  BY <1>5, <1>7, <1>8, <1>10 DEF Order
\* An invocation is in no other bucket or phase, and once in its bucket.
LEMMA OnePlace ==
    ASSUME NEW ph \in PluginPhases, NEW i \in DOMAIN Plan[ph], NEW a \in DOMAIN Plan[ph][i]
    PROVE  /\ \A qh \in PluginPhases : Plan[ph][i][a] \in Planned(qh) => qh = ph
           /\ \A k \in DOMAIN Plan[ph] : Plan[ph][i][a] \in Range(Plan[ph][k]) => k = i
           /\ \A b \in DOMAIN Plan[ph][i] : Plan[ph][i][b] = Plan[ph][i][a] => b = a
BY PlacesAssumption DEF Planned, Range

\* The bucket being run is a bucket of the plan.
LEMMA BucketOfPlan ==
    ASSUME TypeOK, Order, InPlugins, bucket # <<>>
    PROVE  /\ phase \in PluginPhases /\ Started \in DOMAIN Plan[phase]
           /\ bucket = Plan[phase][Started]
<1>1. phase \in PluginPhases
    BY DEF InPlugins
<1> QED  BY <1>1, PlanTypes DEF Order, InPlan

\* A plugin of the bucket begins.
LEMMA OrderBegin ==
    ASSUME TypeOK, TypeOK', Order, Begin, UNCHANGED parallel
    PROVE  Order'
<1>1. /\ InPlugins /\ InPlugins' /\ phase' = phase /\ at' = at /\ inside' = inside /\ inside
      /\ ended' = ended /\ bucket' = bucket /\ buckets' = buckets /\ Started' = Started
      /\ Concurrent' = Concurrent
    BY DEF Begin, InPlugins, phase, Started, Concurrent, allNodesOnly
<1>2. PICK a \in DOMAIN bucket : bucket[a] \notin begun /\ MayBegin(a) /\ begun' = begun \cup {bucket[a]}
    BY DEF Begin
<1>3. /\ phase \in PluginPhases /\ Started \in DOMAIN Plan[phase] /\ bucket = Plan[phase][Started]
      /\ DOMAIN Plan[phase] = 1 .. Len(Plan[phase]) /\ Len(Plan[phase]) \in Nat
    BY <1>1, <1>2, BucketOfPlan, PlanTypes
<1>4. /\ \A qh \in PluginPhases : bucket[a] \in Planned(qh) => qh = phase
      /\ \A k \in DOMAIN Plan[phase] : bucket[a] \in Range(Plan[phase][k]) => k = Started
      /\ \A b \in DOMAIN bucket : bucket[b] = bucket[a] => b = a
    BY <1>2, <1>3, OnePlace
<1>5. InPlan' /\ Behind'
    BY <1>1 DEF Order, InPlan, Behind
<1>6. Ahead'
  <2>1. at' = 1 => Planned("annotator") \cap begun' = {}
      BY <1>1, <1>2, <1>4, PhaseNumbers DEF Order, Ahead, TypeOK, PluginPhases
  <2>2. at' \in 1 .. 2 => Planned("generator") \cap begun' = {}
      BY <1>1, <1>2, <1>4, PhaseNumbers DEF Order, Ahead, TypeOK, PluginPhases
  <2>3. ASSUME NEW i \in Started + 1 .. Len(Plan[phase]) PROVE Range(Plan[phase][i]) \cap begun' = {}
    <3>1. i \in DOMAIN Plan[phase] /\ i # Started
        BY <1>3, <2>3
    <3> QED  BY <1>1, <1>2, <1>4, <2>3, <3>1 DEF Order, Ahead
  <2> QED  BY <1>1, <2>1, <2>2, <2>3 DEF Ahead
<1>7. Current'
  <2>1. \A p \in running' : p \in Range(bucket)
      BY <1>1, <1>2 DEF Order, Current, running, Range
  <2>2. ASSUME ~Concurrent, NEW i \in DOMAIN bucket, NEW j \in DOMAIN bucket, i < j, bucket[j] \in begun'
        PROVE  bucket[i] \in ended
    <3>1. CASE bucket[j] \in begun
        BY <1>1, <2>2, <3>1 DEF Order, Current
    <3>2. CASE bucket[j] = bucket[a]
      <4>1. j = a /\ i \in 1 .. a - 1
          BY <1>2, <1>4, <2>2, <3>2 DEF TypeOK
      <4> QED  BY <1>2, <2>2, <4>1 DEF MayBegin
    <3> QED  BY <1>2, <2>2, <3>1, <3>2
  <2> QED  BY <1>1, <2>1, <2>2 DEF Current
<1> QED  BY <1>5, <1>6, <1>7 DEF Order

\* A plugin returns, fails or panics.
LEMMA OrderEnded ==
    ASSUME TypeOK, Order, NEW p, ended' = ended \cup {p},
           UNCHANGED <<at, inside, buckets, bucket, begun, parallel>>
    PROVE  Order'
<1>1. /\ InPlugins' = InPlugins /\ phase' = phase /\ Started' = Started /\ Concurrent' = Concurrent
      /\ running' \subseteq running
    BY DEF InPlugins, phase, Started, Concurrent, allNodesOnly, running
<1> QED  BY <1>1 DEF Order, InPlan, Behind, Ahead, Current

\* A phase ends when its last bucket has returned.
LEMMA OrderEndPlugins ==
    ASSUME TypeOK, TypeOK', Order, EndPlugins, UNCHANGED parallel
    PROVE  Order'
<1>1. /\ InPlugins /\ Range(bucket) \subseteq ended /\ buckets = <<>> /\ at' = at + 1 /\ ~inside'
      /\ begun' = begun /\ ended' = ended /\ ~InPlugins' /\ inside
    BY DEF EndPlugins, Leave, BucketDone, InPlugins
<1>2. phase \in PluginPhases /\ at \in 1 .. 3
    BY <1>1, PhaseNumbers DEF InPlugins, TypeOK
<1>3. running = {} /\ running' = {}
    BY <1>1 DEF Order, Current, running
<1>4. Planned(phase) \subseteq ended
  <2>1. Started = Len(Plan[phase]) /\ DOMAIN Plan[phase] = 1 .. Started /\ Started \in Nat
      BY <1>1, <1>2, PlanTypes DEF Started
  <2>2. ASSUME NEW i \in 1 .. Started PROVE Range(Plan[phase][i]) \subseteq ended
    <3>1. CASE i = Started
        BY <1>1, <2>1, <2>2, <3>1 DEF Order, InPlan
    <3>2. CASE i # Started
        BY <1>1, <2>1, <2>2, <3>2 DEF Order, Behind
    <3> QED  BY <3>1, <3>2
  <2> QED  BY <2>1, <2>2 DEF Planned
<1>5. Behind'
    BY <1>1, <1>2, <1>4, PhaseNumbers DEF Order, Behind, TypeOK
<1>6. Ahead'
    BY <1>1, <1>2 DEF Order, Ahead
<1> QED  BY <1>1, <1>3, <1>5, <1>6 DEF Order, InPlan, Current
LEMMA OrderStep == TypeOK /\ TypeOK' /\ Order /\ Next => Order'
<1> SUFFICES ASSUME TypeOK, TypeOK', Order, Next PROVE Order'
    OBVIOUS
<1>0. UNCHANGED parallel
    BY DEF Next
<1>1. CASE StartRun
    BY <1>1, OrderStart
<1>2. CASE Cancel
    BY <1>0, <1>2, OrderKept DEF Cancel
<1>3. CASE Enter
    BY <1>0, <1>3, OrderEnter
<1>4. CASE Stop
    BY <1>4, OrderLeaveIdle DEF Stop, InPlugins, TypeOK
<1>5. CASE NextBucket
    BY <1>0, <1>5, OrderNextBucket
<1>6. CASE Begin
    BY <1>0, <1>6, OrderBegin
<1>7. ASSUME NEW p \in Plugins, AddNodes(p) \/ AppendOriginSlot(p) PROVE Order'
    BY <1>0, <1>7, OrderKept DEF AddNodes, AppendOriginSlot
<1>8. ASSUME NEW p \in Plugins, Fail(p) \/ Return(p) PROVE Order'
    BY <1>0, <1>8, OrderEnded DEF Fail, Return
<1>9. CASE EndPlugins
    BY <1>0, <1>9, OrderEndPlugins
<1>10. CASE Layout \/ BackendOrManifest
  <2>1. at > 3 /\ ~InPlugins
      BY <1>10, PhaseNumbers DEF Layout, BackendOrManifest, InPlugins, TypeOK
  <2> QED  BY <1>10, <2>1, OrderLeaveIdle DEF Layout, BackendOrManifest, Leave
<1>11. CASE Finish
  <2>1. at = Len(Phases) + 1 /\ Len(Phases) = 6
      BY <1>11 DEF Finish, Phases
  <2>2. ~InPlugins
      BY <2>1, PhaseNumbers DEF InPlugins, TypeOK
  <2> QED  BY <1>11, <2>2, OrderLeaveIdle DEF Finish
<1> QED  BY <1>1, <1>2, <1>3, <1>4, <1>5, <1>6, <1>7, <1>8, <1>9, <1>10, <1>11 DEF Next, RunStep,
            PluginStep

-----------------------------------------------------------------------------
(* Slot contributions *)

LEMMA SlotsKept ==
    ASSUME Slots, UNCHANGED <<pending, parallel>>, begun \subseteq begun'
    PROVE  Slots'
BY DEF Slots, Contributed, SlotsInPlanOrder, allNodesOnly

\* A running generator comes after all that have contributed, but for those
\* of its own concurrent bucket.
LEMMA SlotsAppend ==
    ASSUME TypeOK, Order, Slots, NEW p \in Plugins, AppendOriginSlot(p), UNCHANGED parallel
    PROVE  Slots'
<1> DEFINE plan == Plan["generator"]
<1>1. p \in running /\ phase = "generator" /\ pending' = Append(pending, p) /\ begun' = begun
    BY DEF AppendOriginSlot, progress
<1>2. InPlugins /\ p \in Range(bucket)
    BY <1>1 DEF Order, Current
<1>3. PICK a \in DOMAIN bucket : p = bucket[a]
    BY <1>2 DEF Range
<1>4. /\ "generator" \in PluginPhases /\ Started \in DOMAIN plan /\ bucket = plan[Started]
      /\ DOMAIN plan = 1 .. Len(plan) /\ Len(plan) \in Nat
    BY <1>1, <1>2, <1>3, BucketOfPlan, PlanTypes
<1>5. /\ DOMAIN pending = 1 .. Len(pending) /\ Len(pending) \in Nat
      /\ DOMAIN pending' = 1 .. Len(pending) + 1
      /\ pending'[Len(pending) + 1] = p /\ \A m \in DOMAIN pending : pending'[m] = pending[m]
    BY <1>1 DEF TypeOK
<1>6. Contributed'
    BY <1>1, <1>5 DEF Slots, Contributed, running
<1>7. ASSUME NEW h \in DOMAIN plan, NEW k \in DOMAIN plan,
             NEW i \in DOMAIN plan[h], NEW j \in DOMAIN plan[k],
             h < k \/ (h = k /\ i < j /\ ("generator" \in parallel => ~allNodesOnly(plan[h]))),
             NEW m \in DOMAIN pending', NEW n \in DOMAIN pending',
             pending'[m] = plan[h][i], pending'[n] = plan[k][j]
      PROVE  m < n
  <2>1. CASE m \in DOMAIN pending /\ n \in DOMAIN pending
      BY <1>5, <1>7, <2>1 DEF Slots, SlotsInPlanOrder
  <2>2. CASE m \in DOMAIN pending /\ n = Len(pending) + 1
      BY <1>5, <2>2
  <2>3. CASE m = Len(pending) + 1
    <3>1. p = plan[h][i]
        BY <1>5, <1>7, <2>3
    <3>2. h = Started /\ i = a
        BY <1>3, <1>4, <3>1, PlacesAssumption
    <3>3. CASE n = Len(pending) + 1
      <4>1. k = h /\ j = i
          BY <1>4, <1>5, <1>7, <3>1, <3>3, PlacesAssumption
      <4>2. plan[h] \in Seq(Plugins)
          BY <1>4, PlanTypes
      <4> QED  BY <1>4, <1>7, <4>1, <4>2
    <3>4. CASE n \in DOMAIN pending
      <4>1. plan[k][j] \in begun
          BY <1>5, <1>7, <3>4 DEF Slots, Contributed
      <4>2. CASE h < k
        <5>1. k \in Started + 1 .. Len(plan)
            BY <1>4, <3>2, <4>2
        <5>2. Range(plan[k]) \cap begun = {}
            BY <1>1, <1>2, <5>1 DEF Order, Ahead
        <5> QED  BY <4>1, <5>2 DEF Range
      <4>3. CASE h = k /\ i < j /\ ("generator" \in parallel => ~allNodesOnly(plan[h]))
        <5>1. ~Concurrent
            BY <1>1, <1>4, <3>2, <4>3 DEF Concurrent
        <5>2. bucket[a] \in ended
            BY <1>2, <1>4, <3>2, <4>1, <4>3, <5>1 DEF Order, Current
        <5> QED  BY <1>1, <1>3, <5>2 DEF running
      <4> QED  BY <1>7, <4>2, <4>3
    <3> QED  BY <1>5, <3>3, <3>4
  <2> QED  BY <1>5, <2>1, <2>2, <2>3
<1>8. SlotsInPlanOrder'
  <2>1. parallel' = parallel
      OBVIOUS
  <2> QED  BY <1>7, <2>1 DEF SlotsInPlanOrder, allNodesOnly
<1> QED  BY <1>6, <1>8 DEF Slots

LEMMA SlotsStep == TypeOK /\ Order /\ Slots /\ Next => Slots'
<1> SUFFICES ASSUME TypeOK, Order, Slots, Next PROVE Slots'
    OBVIOUS
<1>0. UNCHANGED parallel
    BY DEF Next
<1>1. CASE StartRun
    BY <1>1 DEF StartRun, Slots, Contributed, SlotsInPlanOrder
<1>2. CASE \/ Cancel \/ Enter \/ Stop \/ NextBucket \/ Begin \/ EndPlugins
           \/ Layout \/ BackendOrManifest \/ Finish
    BY <1>0, <1>2, SlotsKept DEF Cancel, Enter, Stop, NextBucket, Begin, EndPlugins, Layout,
       BackendOrManifest,
       Finish, progress, store
<1>3. ASSUME NEW p \in Plugins, AddNodes(p) \/ Fail(p) \/ Return(p) PROVE Slots'
    BY <1>0, <1>3, SlotsKept DEF AddNodes, Fail, Return, progress, store
<1>4. ASSUME NEW p \in Plugins, AppendOriginSlot(p) PROVE Slots'
    BY <1>0, <1>4, SlotsAppend
<1> QED  BY <1>1, <1>2, <1>3, <1>4 DEF Next, RunStep, PluginStep
-----------------------------------------------------------------------------
(* What Run returns *)

\* Nothing is returned while the run goes on; an error of this run is in the
\* pipeline's diagnostics; layout has recorded nothing before it runs, and
\* what it leaves half done is an error; nodes are frozen past the frontends.
Account ==
    /\ at # 0 => outcome = "none" /\ ~sentinel
    /\ failedNow => hasErrors
    /\ at \in 1 .. 4 => ~layoutErrs /\ ~misroutedNow
    /\ at > 4 => (layoutErrs => misroutedNow) /\ (routed = "yes" \/ failedNow)
    /\ at > 1 => nodesFrozen

RInv == Account /\ EveryPluginRuns /\ ReturnIsOfThisRun

LEMMA ReturnsStep == TypeOK /\ TypeOK' /\ Order /\ RInv /\ Next => RInv'
<1> SUFFICES ASSUME TypeOK, TypeOK', Order, RInv, Next PROVE RInv'
    OBVIOUS
<1> USE DEF RInv, Account, TypeOK
<1>0. /\ Len(Phases) = 6 /\ DOMAIN Phases = 1 .. 6
    BY PhaseNumbers
<1>1. CASE StartRun
    BY <1>1 DEF StartRun, resetRunState, EveryPluginRuns, ReturnIsOfThisRun
<1>2. CASE Cancel
    BY <1>2 DEF Cancel, progress, store, diag, layoutDiag, return, EveryPluginRuns, ReturnIsOfThisRun
<1>3. CASE Enter
    BY <1>3 DEF Enter, store, diag, layoutDiag, return, EveryPluginRuns, ReturnIsOfThisRun
<1>4. CASE Stop
    BY <1>0, <1>4 DEF Stop, store, diag, layoutDiag, EveryPluginRuns, ReturnIsOfThisRun
<1>5. CASE NextBucket
    BY <1>5 DEF NextBucket, store, diag, layoutDiag, return, EveryPluginRuns, ReturnIsOfThisRun
<1>6. CASE Begin
    BY <1>6 DEF Begin, store, diag, layoutDiag, return, EveryPluginRuns, ReturnIsOfThisRun
<1>7. ASSUME NEW p \in Plugins, p \in running PROVE at \in 1 .. 3
    BY <1>7, PhaseNumbers DEF Order, Current, InPlugins
<1>8. ASSUME NEW p \in Plugins, AddNodes(p) \/ AppendOriginSlot(p) PROVE RInv'
    BY <1>8 DEF AddNodes, AppendOriginSlot, progress, diag, layoutDiag, return, EveryPluginRuns,
       ReturnIsOfThisRun
<1>9. ASSUME NEW p \in Plugins, Fail(p) \/ Return(p) PROVE RInv'
  <2>1. at \in 1 .. 3
      BY <1>7, <1>9 DEF Fail, Return
  <2> QED  BY <1>9, <2>1 DEF Fail, Return, Report, store, diag, layoutDiag, return,
              EveryPluginRuns, ReturnIsOfThisRun
<1>10. CASE EndPlugins
  <2>1. at \in 1 .. 3 /\ (phase = "frontend" <=> at = 1)
      BY <1>10, PhaseNumbers DEF EndPlugins, InPlugins
  <2>2. at = 1 \/ at > 1
      BY <2>1
  <2>3. nodesFrozen'
    <3>1. nodesFrozen' = (nodesFrozen \/ phase = "frontend")
        BY <1>10, Zenon DEF EndPlugins, FreezeNodes
    <3>2. nodesFrozen \/ phase = "frontend"
        BY <2>1, <2>2
    <3> QED  BY <3>1, <3>2, Zenon
  <2> QED  BY <1>10, <2>1, <2>3 DEF EndPlugins, Leave, Report, layoutDiag, return, EveryPluginRuns,
              ReturnIsOfThisRun
<1>11. CASE Layout
  <2>1. at = 4
      BY <1>11, PhaseNumbers DEF Layout
  <2> QED  BY <1>11, <2>1 DEF Layout, Leave, Report, return, EveryPluginRuns, ReturnIsOfThisRun
<1>12. CASE BackendOrManifest
  <2>1. at \in 5 .. 6
      BY <1>12, PhaseNumbers DEF BackendOrManifest
  <2> QED  BY <1>12, <2>1 DEF BackendOrManifest, Leave, Report, store, layoutDiag, return,
              EveryPluginRuns, ReturnIsOfThisRun
<1>13. CASE Finish
  <2>1. at = 7 /\ at' = 0
      BY <1>0, <1>13 DEF Finish
  <2>2. EveryPluginRuns'
      BY <1>13, <2>1 DEF Finish, EveryPluginRuns, Order, Behind, PluginPhases
  <2>3. Account' /\ ReturnIsOfThisRun'
      BY <1>13, <2>1 DEF Finish, store, diag, layoutDiag, ReturnIsOfThisRun
  <2> QED  BY <2>2, <2>3
<1> QED  BY <1>1, <1>2, <1>3, <1>4, <1>5, <1>6, <1>8, <1>9, <1>10, <1>11, <1>12, <1>13 DEF Next,
            RunStep, PluginStep

-----------------------------------------------------------------------------
(* Theorems *)

IInv == TypeOK /\ Order /\ Slots /\ RInv

LEMMA Invariant == Spec => []IInv
<1>1. Init => IInv
  <2> SUFFICES ASSUME Init PROVE IInv
      OBVIOUS
  <2>1. Account /\ EveryPluginRuns /\ ReturnIsOfThisRun
      BY DEF Init, Account, EveryPluginRuns, ReturnIsOfThisRun
  <2> QED  BY <2>1, InitOrder DEF IInv, RInv
<1>2. IInv /\ [Next]_vars => IInv'
  <2>1. CASE Next
      BY <2>1, TypeStep, OrderStep, SlotsStep, ReturnsStep DEF IInv
  <2>2. CASE UNCHANGED vars
    <3> SUFFICES ASSUME IInv, UNCHANGED vars PROVE IInv'
        BY <2>2
    <3>1. TypeOK'
        BY DEF IInv, TypeOK, vars, progress, store, diag, layoutDiag, return
    <3>2. Order'
        BY OrderKept DEF IInv, vars, progress
    <3>3. Slots'
        BY SlotsKept DEF IInv, vars, progress, store
    <3>4. RInv'
        BY DEF IInv, RInv, Account, EveryPluginRuns, ReturnIsOfThisRun, vars, progress, store,
           diag, layoutDiag, return
    <3> QED  BY <3>1, <3>2, <3>3, <3>4 DEF IInv
  <2> QED  BY <2>1, <2>2
<1> QED  BY <1>1, <1>2, PTL DEF Spec

\* Any number of plugins in any plan keep the state of a run well typed; in
\* particular a plugin that has returned had begun.
THEOREM RunTypes == Spec => []TypeOK
<1>1. IInv => TypeOK
    BY DEF IInv
<1> QED  BY <1>1, Invariant, PTL

\* Whatever the plan, no plugin runs before all of the earlier buckets and
\* phases have returned: the wait at the end of runBucketParallel and of the
\* sequential loops.
THEOREM BarriersHold == Spec => []BucketsInOrder
<1>1. ASSUME IInv, NEW ph \in PluginPhases, NEW i \in DOMAIN Plan[ph],
             NEW p \in Range(Plan[ph][i]) \cap running
      PROVE  /\ \A j \in 1 .. i - 1 : Range(Plan[ph][j]) \subseteq ended
             /\ ph # "frontend" => Planned("frontend") \subseteq ended
             /\ ph = "generator" => Planned("annotator") \subseteq ended
  <2>1. TypeOK /\ Order
      BY <1>1 DEF IInv
  <2>2. InPlugins /\ p \in Range(bucket)
      BY <1>1, <2>1 DEF Order, Current
  <2>3. PICK a \in DOMAIN bucket, b \in DOMAIN Plan[ph][i] : p = bucket[a] /\ p = Plan[ph][i][b]
      BY <1>1, <2>2 DEF Range
  <2>4. phase \in PluginPhases /\ Started \in DOMAIN Plan[phase] /\ bucket = Plan[phase][Started]
      BY <2>1, <2>2, <2>3, BucketOfPlan
  <2>5. ph = phase /\ i = Started
    <3>1. /\ \A qh \in PluginPhases : p \in Planned(qh) => qh = ph
          /\ \A k \in DOMAIN Plan[ph] : p \in Range(Plan[ph][k]) => k = i
        BY <2>3, OnePlace
    <3>2. phase = ph
        BY <2>2, <2>4, <3>1, PlanTypes
    <3> QED  BY <2>2, <2>4, <3>1, <3>2
  <2>6. at \in 1 .. 3 /\ (ph # "frontend" => at > 1) /\ (ph = "generator" => at > 2)
      BY <2>1, <2>4, <2>5, PhaseNumbers DEF TypeOK
  <2> QED  BY <2>1, <2>2, <2>5, <2>6 DEF Order, Behind
<1>2. IInv => BucketsInOrder
    BY <1>1 DEF BucketsInOrder
<1> QED  BY <1>2, Invariant, PTL

\* Whatever the plan, a generator that may read the emit graph never overlaps
\* another: runGenerators dispatches a bucket at once only if none of it does.
THEOREM ReadersAreAlone == Spec => []ReadersRunAlone
<1>1. ASSUME IInv, NEW p \in running, phase = "generator", p \notin NodesOnly PROVE running = {p}
  <2>1. TypeOK /\ Order
      BY <1>1 DEF IInv
  <2>2. InPlugins /\ running \subseteq Range(bucket)
      BY <1>1, <2>1 DEF Order, Current
  <2>3. PICK a \in DOMAIN bucket : p = bucket[a]
      BY <1>1, <2>2 DEF Range
  <2>4. ~Concurrent
      BY <1>1, <2>3 DEF Concurrent, allNodesOnly
  <2>5. ASSUME NEW q \in running PROVE q = p
    <3>1. PICK b \in DOMAIN bucket : q = bucket[b]
        BY <2>2, <2>5 DEF Range
    <3>2. a \in Nat /\ b \in Nat
        BY <2>1, <2>3, <3>1 DEF TypeOK
    <3>3. ~(a < b) /\ ~(b < a)
        BY <1>1, <2>1, <2>2, <2>3, <2>4, <2>5, <3>1 DEF Order, Current, running
    <3> QED  BY <2>3, <3>1, <3>2, <3>3
  <2> QED  BY <1>1, <2>5
<1>2. IInv => ReadersRunAlone
    BY <1>1 DEF ReadersRunAlone
<1> QED  BY <1>2, Invariant, PTL

\* Whatever the plan, layout finds the contributions in plan order across
\* buckets, and within the buckets that runGenerators runs one by one.
THEOREM SlotsAreOrdered == Spec => []SlotsInPlanOrder
<1>1. IInv => SlotsInPlanOrder
    BY DEF IInv, Slots
<1> QED  BY <1>1, Invariant, PTL

\* Whichever plugins fail or panic, a run that returns without having been
\* cancelled has invoked all of the plan.
THEOREM NoPluginIsSkipped == Spec => []EveryPluginRuns
<1>1. IInv => EveryPluginRuns
    BY DEF IInv, RInv
<1> QED  BY <1>1, Invariant, PTL

\* Over any number of runs of one Pipeline, nil is returned by a run only that
\* recorded no error and completed its layout, and a sentinel only by a run
\* whose layout recorded one.
THEOREM ReturnsAreOfThisRun == Spec => []ReturnIsOfThisRun
<1>1. IInv => ReturnIsOfThisRun
    BY DEF IInv, RInv
<1> QED  BY <1>1, Invariant, PTL

\* Past the frontends no step of any plugin changes the node view.
THEOREM NodesStayFixed == Spec => NodesFixedAfterFrontends
<1>1. IInv /\ [Next]_vars => [at > 1 /\ at' # 1 => nodes' = nodes]_vars
  <2> SUFFICES ASSUME IInv, Next, at > 1, at' # 1 PROVE nodes' = nodes
      BY DEF vars
  <2>1. nodesFrozen
      BY DEF IInv, RInv, Account
  <2>2. \A p \in Plugins : ~AddNodes(p)
      BY <2>1 DEF AddNodes
  <2> QED  BY <2>2 DEF Next, RunStep, PluginStep, StartRun, Cancel, Enter, Stop, NextBucket, Begin,
              AppendOriginSlot,
              Fail, Return, EndPlugins, Layout, BackendOrManifest, Finish, store
<1> QED  BY <1>1, Invariant, PTL DEF Spec, NodesFixedAfterFrontends
=============================================================================
