--------------------------- MODULE MetadataProofs ---------------------------
(***************************************************************************)
(* Proofs about Metadata, for any nodes, names, parsers, annotators and    *)
(* directives: no stamp is lost on a guarded node, the index lists every   *)
(* holder of a key, and a generator reads what the source asked for.       *)
(***************************************************************************)
EXTENDS Metadata, TLAPS

\* Most leaves are first-order reasoning about the invariant: Zenon first, SMT
\* for arithmetic, records and sequences.
USE ZenonT(3), SMTT(30)

Busy == {"check", "store", "load", "write"}

\* Where the annotators are: only in their phase, one at a time unless the
\* bucket is parallel, each with the operation it is carrying out.
Working ==
    /\ phase = "frontend" => \A p \in Plugins : ann[p].pc = "idle"
    /\ phase \in {"override", "generator"} => \A p \in Plugins : ann[p].pc = "done"
    /\ \A p \in Plugins : ann[p].pc \in Busy =>
        /\ ann[p].op # NoEntry
        /\ world.parallel \/ \A q \in Before[p] : ann[q].pc = "done"

\* Who has made a bag, and who holds which.
Holding ==
    /\ phase = "frontend" => \A n \in Nodes : bagOf[n] = NoBag
    /\ \A n \in Nodes : bagOf[n] # NoBag => NodeOf(bagOf[n]) = n
    /\ \A n \in Nodes : phase # "frontend" /\ n \in Stamped => bagOf[n] # NoBag
    /\ phase # "frontend" => \A n \in Nodes :
        Observed(n) => bagOf[n] = <<n, "frontend">> /\ bagOf[n] \in watched
    /\ \A p \in Plugins :
        /\ ann[p].pc = "store" /\ Guarded(ann[p].op.node) => bagOf[ann[p].op.node] = NoBag
        /\ ann[p].pc = "load" => bagOf[ann[p].op.node] # NoBag
        /\ ann[p].pc = "write" => /\ ann[p].bag # NoBag
                                  /\ NodeOf(ann[p].bag) = ann[p].op.node
                                  /\ Guarded(ann[p].op.node) => ann[p].bag = bagOf[ann[p].op.node]

\* Every value on a node the index observes is listed.
Listed ==
    phase # "frontend" =>
        \A n \in Nodes, m \in Names, a \in Authorities :
            Observed(n) /\ latest[n][m][a] # NoEntry => latest[n][m][a].tombstone \/ <<m, n>> \in index

\* e is what the first j directives of node n leave on name m.
Settled(n, j, m, e) ==
    \/ \E i \in 1..j : /\ e = Effect(world.directives[n][i], m) /\ e # NoEntry
                       /\ \A k \in (i + 1)..j : Effect(world.directives[n][k], m) = NoEntry
    \/ /\ \A k \in 1..j : Effect(world.directives[n][k], m) = NoEntry
       /\ e = world.stamps[n][m][Directive]

\* The directive being applied has still to change name m.
Open(m) ==
    \/ m \in at.keys /\ Outcome(Current, m, Current.kv[m]) \in {"tombstone", "value"}
    \/ /\ \E i \in 1..Len(at.args) : at.args[i] = m
       /\ Outcome(Current, m, "true") \in {"tombstone", "value"}

\* Where the pass is.
Position ==
    /\ phase \in {"frontend", "annotator"} =>
        at = [node |-> 1, directive |-> 1, keys |-> {}, args |-> <<>>]
    /\ phase = "override" =>
        /\ at.node \in 1..(Len(NodeOrder) + 1)
        /\ at.node <= Len(NodeOrder) => at.directive \in 1..(Len(world.directives[Here]) + 1)
        /\ at.node > Len(NodeOrder) => Applied
        /\ ~ Applied => /\ at.node <= Len(NodeOrder) /\ at.directive > 1 /\ bagOf[Here] # NoBag
                        /\ at.keys \subseteq DOMAIN Current.kv
                        /\ at.keys # {} => at.args = Current.args
                        /\ \A i \in 1..Len(at.args) : \E k \in 1..Len(Current.args) :
                                Current.args[k] = at.args[i]

\* What the pass has done.
Progress ==
    /\ phase = "annotator" => \A n \in Nodes, m \in Names :
        latest[n][m][Directive] = world.stamps[n][m][Directive]
    /\ phase = "override" => \A i \in 1..Len(NodeOrder), m \in Names :
        /\ i < at.node => Settled(NodeOrder[i], Len(world.directives[NodeOrder[i]]), m,
                                  latest[NodeOrder[i]][m][Directive])
        /\ i = at.node => Open(m) \/ Settled(NodeOrder[i], at.directive - 1, m,
                                             latest[NodeOrder[i]][m][Directive])
        /\ i > at.node => latest[NodeOrder[i]][m][Directive] = world.stamps[NodeOrder[i]][m][Directive]
    /\ phase = "generator" /\ ~ failed => \A n \in Visited, m \in Names :
        Settled(n, Len(world.directives[n]), m, latest[n][m][Directive])

IInv == TypeOK /\ Working /\ Holding /\ StampsSurvive /\ Listed /\ Position /\ Progress

-----------------------------------------------------------------------------
(* The resolution of a name.                                               *)

(***************************************************************************)
(* Entries are told from their absence and from each other by their flag.  *)
(***************************************************************************)
LEMMA EntryFacts ==
    /\ NoEntry \notin Entries
    /\ Tombstone \in Entries /\ Buries(Tombstone)
    /\ \A e \in Entries : e.tombstone \in BOOLEAN
    /\ \A v \in Values : Value(v) \in Entries /\ ~ Buries(Value(v))
    /\ ~ Buries(NoEntry)
<1>1. NoEntry \notin Entries
  BY MetadataAssumption
<1>2. Tombstone \in Entries /\ Tombstone.tombstone = TRUE
  BY DEF Entries, Tombstone
<1>3. \A v \in Values : Value(v) \in Entries /\ Value(v).tombstone = FALSE
  BY DEF Entries, Value
<1>4. \A e \in Entries : e = Tombstone \/ \E v \in Values : e = Value(v)
  BY DEF Entries
<1>5. \A e \in Entries : e.tombstone \in BOOLEAN
  BY <1>2, <1>3, <1>4
<1>6. Buries(Tombstone)
  BY <1>1, <1>2 DEF Buries
<1>7. \A v \in Values : ~ Buries(Value(v))
  BY <1>3 DEF Buries
<1> QED BY <1>1, <1>2, <1>3, <1>5, <1>6, <1>7 DEF Buries

(***************************************************************************)
(* winningLocked returns the entry of the highest authority that has one.  *)
(***************************************************************************)
LEMMA WinnerIsTop ==
    ASSUME NEW b, NEW m
    PROVE  \/ /\ winning(b, m) = NoEntry
              /\ \A c \in Authorities : entryAtAuthority(b, m, c) = NoEntry
           \/ \E a \in Authorities :
                /\ winning(b, m) = entryAtAuthority(b, m, a)
                /\ entryAtAuthority(b, m, a) # NoEntry
                /\ \A c \in Authorities : entryAtAuthority(b, m, c) # NoEntry => c <= a
<1> DEFINE speaks == {a \in Authorities : entryAtAuthority(b, m, a) # NoEntry}
<1>1. CASE speaks = {}
  BY <1>1 DEF winning
<1>2. CASE speaks # {}
  <2>1. \E a \in speaks : \A c \in speaks : c <= a
    <3>1. speaks \subseteq {0, 1, 2}
      BY DEF Authorities
    <3>2. CASE 2 \in speaks
      BY <3>1, <3>2
    <3>3. CASE 2 \notin speaks /\ 1 \in speaks
      BY <3>1, <3>3
    <3>4. CASE 2 \notin speaks /\ 1 \notin speaks
      BY <3>1, <3>4, <1>2
    <3> QED BY <3>2, <3>3, <3>4
  <2> DEFINE top == CHOOSE a \in speaks : \A c \in speaks : c <= a
  <2>2. top \in speaks /\ \A c \in speaks : c <= top
    BY <2>1
  <2>3. winning(b, m) = entryAtAuthority(b, m, top)
    BY <1>2 DEF winning
  <2> QED BY <2>2, <2>3
<1> QED BY <1>1, <1>2

(***************************************************************************)
(* If a bag holds what was said of a node, reading a name gives the value  *)
(* that stands by the rules: highest authority first, tombstones of the    *)
(* name and its ancestors before values.                                   *)
(***************************************************************************)
LEMMA ReaderSeesRules ==
    ASSUME TypeOK, NEW n \in Nodes, NEW m \in Names,
           latest[n] = IF bagOf[n] = NoBag THEN NewBag ELSE bags[bagOf[n]],
           \A x \in Names, a \in Authorities : Said(n, x, a) = latest[n][x][a]
    PROVE  RawValue(n, m) = Stands(n, m)
<1> DEFINE b == latest[n]
           w == winning(b, m)
           E(a) == entryAtAuthority(b, m, a)
<1>1. /\ \A x \in Names, a \in Authorities : b[x][a] \in Entries \union {NoEntry}
      /\ Above[m] \subseteq Names
  <2>1. b \in Bag
    BY DEF TypeOK
  <2>2. Above[m] \subseteq Names
    BY MetadataAssumption
  <2> QED BY <2>1, <2>2 DEF Bag
<1>2. Bears(n, m) = {y \in (Above[m] \union {m}) \X Authorities :
            b[y[1]][y[2]] # NoEntry /\ (y[1] = m \/ Buries(b[y[1]][y[2]]))}
  BY <1>1 DEF Bears
<1>3. \A c \in Authorities : E(c) # NoEntry <=> \E x \in Above[m] \union {m} : <<x, c>> \in Bears(n, m)
  <2> SUFFICES ASSUME NEW c \in Authorities
               PROVE  E(c) # NoEntry <=> \E x \in Above[m] \union {m} : <<x, c>> \in Bears(n, m)
    OBVIOUS
  <2>1. \A x \in Above[m] \union {m} :
            <<x, c>> \in Bears(n, m) <=> b[x][c] # NoEntry /\ (x = m \/ Buries(b[x][c]))
    BY <1>2
  <2>2. CASE \E x \in Above[m] : Buries(b[x][c])
    <3>1. E(c) = Tombstone
      BY <2>2 DEF entryAtAuthority, prefixTombstone
    <3> QED BY <3>1, <2>1, <2>2, EntryFacts
  <2>3. CASE \A x \in Above[m] : ~ Buries(b[x][c])
    <3>1. E(c) = b[m][c]
      BY <2>3 DEF entryAtAuthority, prefixTombstone
    <3> QED BY <3>1, <2>1, <2>3
  <2> QED BY <2>2, <2>3
<1>4. \A c \in Authorities : Buries(E(c)) <=> \E x \in Above[m] \union {m} : Buries(b[x][c])
  <2> SUFFICES ASSUME NEW c \in Authorities
               PROVE  Buries(E(c)) <=> \E x \in Above[m] \union {m} : Buries(b[x][c])
    OBVIOUS
  <2>1. CASE \E x \in Above[m] : Buries(b[x][c])
    <3>1. E(c) = Tombstone
      BY <2>1 DEF entryAtAuthority, prefixTombstone
    <3> QED BY <3>1, <2>1, EntryFacts
  <2>2. CASE \A x \in Above[m] : ~ Buries(b[x][c])
    <3>1. E(c) = b[m][c]
      BY <2>2 DEF entryAtAuthority, prefixTombstone
    <3> QED BY <3>1, <2>2
  <2> QED BY <2>1, <2>2
<1> DEFINE S(c) == /\ b[m][c] # NoEntry
                   /\ \A y \in Bears(n, m) : y[2] <= c /\ (y[2] = c => ~ Buries(b[y[1]][c]))
<1>5. Stands(n, m) = {b[m][a].value : a \in {c \in Authorities : S(c)}}
  BY <1>1, <1>2 DEF Stands
<1>6. \A c \in Authorities : S(c) => E(c) # NoEntry /\ ~ Buries(E(c))
  <2> SUFFICES ASSUME NEW c \in Authorities, S(c) PROVE E(c) # NoEntry /\ ~ Buries(E(c))
    OBVIOUS
  <2>1. <<m, c>> \in Bears(n, m)
    BY <1>2
  <2>2. ASSUME NEW x \in Above[m] \union {m}, Buries(b[x][c]) PROVE FALSE
    <3>1. <<x, c>> \in Bears(n, m)
      BY <1>2, <2>2, EntryFacts
    <3> QED BY <3>1, <2>2
  <2> QED BY <2>1, <2>2, <1>3, <1>4
<1>7. \A c \in Authorities : S(c) => \A a \in Authorities : E(a) # NoEntry => a <= c
  BY <1>3
<1>8. RawValue(n, m) = IF w = NoEntry \/ Buries(w) THEN {} ELSE {w.value}
  <2>1. CASE bagOf[n] = NoBag
    <3>1. \A x \in Names, a \in Authorities : b[x][a] = NoEntry
      BY <2>1 DEF NewBag
    <3>2. \A c \in Authorities : E(c) = NoEntry
      BY <3>1, <1>1, EntryFacts DEF entryAtAuthority, prefixTombstone
    <3>3. w = NoEntry
      BY <3>2, WinnerIsTop
    <3> QED BY <3>3, <2>1 DEF RawValue
  <2>2. CASE bagOf[n] # NoBag
    BY <2>2 DEF RawValue
  <2> QED BY <2>1, <2>2
<1>9. CASE w = NoEntry /\ \A c \in Authorities : E(c) = NoEntry
  BY <1>9, <1>5, <1>6, <1>8
<1>10. ASSUME NEW a \in Authorities, w = E(a), E(a) # NoEntry,
              \A c \in Authorities : E(c) # NoEntry => c <= a
       PROVE  RawValue(n, m) = Stands(n, m)
  <2>1. \A c \in Authorities : S(c) => c = a
    <3> SUFFICES ASSUME NEW c \in Authorities, S(c) PROVE c = a
      OBVIOUS
    <3>1. c <= a /\ a <= c
      BY <1>6, <1>7, <1>10
    <3> QED BY <3>1 DEF Authorities
  <2>2. CASE Buries(E(a))
    <3>1. \A c \in Authorities : ~ S(c)
      BY <2>1, <2>2, <1>6
    <3> QED BY <3>1, <2>2, <1>5, <1>8, <1>10
  <2>3. CASE ~ Buries(E(a))
    <3>1. E(a) = b[m][a] /\ \A x \in Above[m] \union {m} : ~ Buries(b[x][a])
      BY <2>3, <1>4 DEF entryAtAuthority, prefixTombstone
    <3>2. \A y \in Bears(n, m) : y[2] <= a /\ (y[2] = a => ~ Buries(b[y[1]][a]))
      BY <1>2, <1>3, <1>10, <3>1
    <3>3. S(a)
      BY <3>1, <3>2, <1>10
    <3>4. {c \in Authorities : S(c)} = {a}
      BY <2>1, <3>3
    <3>5. Stands(n, m) = {b[m][a].value}
      BY <3>4, <1>5
    <3> QED BY <3>1, <3>5, <2>3, <1>8, <1>10
  <2> QED BY <2>2, <2>3
<1> QED BY <1>9, <1>10, WinnerIsTop
-----------------------------------------------------------------------------
(* Writing to a bag.                                                       *)

Put(b, m, a, e) == [b EXCEPT ![m][a] = e]

(***************************************************************************)
(* An operation replaces one slot of the bag and keeps its shape.          *)
(***************************************************************************)
LEMMA PutFacts ==
    ASSUME NEW b \in Bag, NEW m \in Names, NEW a \in Authorities, NEW e \in Entries
    PROVE  /\ Put(b, m, a, e) \in Bag
           /\ Put(b, m, a, e)[m][a] = e
           /\ \A x \in Names, c \in Authorities :
                x # m \/ c # a => Put(b, m, a, e)[x][c] = b[x][c]
  BY DEF Put, Bag

(***************************************************************************)
(* setEntry and setTombstone change the bag they are called on, and the    *)
(* observer adds the name of a value to the index.                         *)
(***************************************************************************)
LEMMA WriteFacts ==
    ASSUME TypeOK, NEW id \in Ids, NEW m \in Names, NEW a \in Authorities, NEW e \in Entries,
           Write(id, m, a, e)
    PROVE  /\ bags'[id] = Put(bags[id], m, a, e)
           /\ \A d \in Ids : d # id => bags'[d] = bags[d]
           /\ latest'[NodeOf(id)] = Put(latest[NodeOf(id)], m, a, e)
           /\ \A x \in Nodes : x # NodeOf(id) => latest'[x] = latest[x]
           /\ bags' \in [Ids -> Bag] /\ latest' \in [Nodes -> Bag]
           /\ index \subseteq index' /\ index' \subseteq Names \X Nodes
           /\ ~ e.tombstone /\ id \in watched => <<m, NodeOf(id)>> \in index'
<1>1. NodeOf(id) \in Nodes
  BY DEF Ids, NodeOf
<1>2. bags[id] \in Bag /\ latest[NodeOf(id)] \in Bag
  BY <1>1 DEF TypeOK
<1>3. bags' = [bags EXCEPT ![id] = Put(bags[id], m, a, e)]
  BY <1>2 DEF Write, Put
<1>4. latest' = [latest EXCEPT ![NodeOf(id)] = Put(latest[NodeOf(id)], m, a, e)]
  BY <1>1, <1>2 DEF Write, Put
<1>5. bags' \in [Ids -> Bag] /\ latest' \in [Nodes -> Bag]
  BY <1>1, <1>2, <1>3, <1>4, PutFacts DEF TypeOK
<1>6. /\ index \subseteq index' /\ index' \subseteq Names \X Nodes
      /\ ~ e.tombstone /\ id \in watched => <<m, NodeOf(id)>> \in index'
  BY <1>1, EntryFacts DEF Write, TypeOK
<1>7. /\ bags'[id] = Put(bags[id], m, a, e)
      /\ \A d \in Ids : d # id => bags'[d] = bags[d]
      /\ latest'[NodeOf(id)] = Put(latest[NodeOf(id)], m, a, e)
      /\ \A x \in Nodes : x # NodeOf(id) => latest'[x] = latest[x]
  BY <1>1, <1>3, <1>4 DEF TypeOK
<1> QED BY <1>5, <1>6, <1>7

LEMMA NewBagIsBag == NewBag \in Bag
  BY DEF NewBag, Bag

(***************************************************************************)
(* The shape of the configuration and of the sources.                      *)
(***************************************************************************)
LEMMA WorldFacts ==
    ASSUME TypeOK
    PROVE  /\ world.parallel \in BOOLEAN /\ world.metaIndex \in BOOLEAN
           /\ world.stamps \in [Nodes -> Bag]
           /\ world.directives \in [Nodes -> Seq(MetaDirective)]
  BY MetadataAssumption DEF TypeOK

(***************************************************************************)
(* The fields of an annotator's record.                                    *)
(***************************************************************************)
LEMMA AnnFacts ==
    ASSUME TypeOK, NEW p \in Plugins
    PROVE  /\ ann[p].pc \in Busy \union {"idle", "done"}
           /\ ann[p].bag \in Ids \union {NoBag}
           /\ ann[p].left \in 0..MaxOps
           /\ ann[p].op # NoEntry => /\ ann[p].op \in Ops /\ ann[p].op.node \in Nodes
                                     /\ ann[p].op.name \in Names /\ ann[p].op.entry \in Entries
  BY DEF TypeOK, Busy, Ops

(***************************************************************************)
(* Initial states satisfy the invariant.                                   *)
(***************************************************************************)
LEMMA InitIInv == Init => IInv
<1> SUFFICES ASSUME Init PROVE IInv
  OBVIOUS
<1>1. TypeOK
  <2>1. ann \in [Plugins -> [pc : {"idle", "check", "store", "load", "write", "done"},
                            op : Ops \union {NoEntry},
                            bag : Ids \union {NoBag}, left : 0..MaxOps]]
    <3>1. MaxOps \in 0..MaxOps
      BY MetadataAssumption
    <3> QED BY <3>1 DEF Init, Idle
  <2>2. at \in [node : Nat, directive : Nat, keys : SUBSET Names, args : Seq(Names)]
    BY DEF Init
  <2> QED BY <2>1, <2>2, NewBagIsBag DEF Init, TypeOK
<1>2. Working
  BY DEF Init, Working, Idle, Busy
<1>3. Holding
  BY DEF Init, Holding, Idle
<1>4. StampsSurvive /\ Listed /\ Position /\ Progress
  BY DEF Init, StampsSurvive, Listed, Position, Progress
<1> QED BY <1>1, <1>2, <1>3, <1>4 DEF IInv
(***************************************************************************)
(* What the pass has done depends on the sources, its position and the     *)
(* operations so far.                                                      *)
(***************************************************************************)
LEMMA SameProgress ==
    ASSUME Progress, UNCHANGED <<world, phase, at, failed, latest>>
    PROVE  Progress'
<1>1. \A m : Open(m)' <=> Open(m)
  BY DEF Open, Current, Here
<1>2. phase' = "annotator" => \A n \in Nodes, m \in Names :
        latest'[n][m][Directive] = world'.stamps[n][m][Directive]
  BY DEF Progress
<1>3. ASSUME phase = "override", NEW i \in 1..Len(NodeOrder), NEW m \in Names
      PROVE  (/\ i < at.node => Settled(NodeOrder[i], Len(world.directives[NodeOrder[i]]), m,
                                        latest[NodeOrder[i]][m][Directive])
              /\ i = at.node => Open(m) \/ Settled(NodeOrder[i], at.directive - 1, m,
                                                   latest[NodeOrder[i]][m][Directive])
              /\ i > at.node => latest[NodeOrder[i]][m][Directive]
                                    = world.stamps[NodeOrder[i]][m][Directive])'
  BY <1>1, <1>3 DEF Progress, Settled
<1>4. (phase = "generator" /\ ~ failed => \A n \in Visited, m \in Names :
        Settled(n, Len(world.directives[n]), m, latest[n][m][Directive]))'
  BY DEF Progress, Settled
<1> QED BY <1>2, <1>3, <1>4 DEF Progress

-----------------------------------------------------------------------------
(* The annotators.                                                         *)

Record == [pc : {"idle", "check", "store", "load", "write", "done"},
           op : Ops \union {NoEntry},
           bag : Ids \union {NoBag}, left : 0..MaxOps]

(***************************************************************************)
(* One after the other, at most one annotator is busy.                     *)
(***************************************************************************)
LEMMA OneIsBusy ==
    ASSUME TypeOK, Working, ~ world.parallel, NEW p \in Plugins, NEW q \in Plugins,
           ann[p].pc \in Busy, ann[q].pc \in Busy
    PROVE  p = q
<1>1. p = q \/ p \in Before[q] \/ q \in Before[p]
  BY MetadataAssumption
<1>2. /\ \A r \in Before[p] : ann[r].pc = "done"
      /\ \A r \in Before[q] : ann[r].pc = "done"
  BY DEF Working
<1> QED BY <1>1, <1>2 DEF Busy

(***************************************************************************)
(* A step of annotator p keeps the others' records and the order of the    *)
(* bucket.                                                                 *)
(***************************************************************************)
LEMMA StepWorking ==
    ASSUME TypeOK, Working, NEW p \in Plugins, MayStep(p), NEW r \in Record,
           ann' = [ann EXCEPT ![p] = r], world' = world, phase' = phase,
           ann[p].pc # "done", r.pc \in Busy => r.op # NoEntry
    PROVE  Working' /\ ann' \in [Plugins -> Record]
<1>1. ann' \in [Plugins -> Record]
  BY DEF TypeOK, Record
<1>2. ann'[p] = r /\ \A q \in Plugins : q # p => ann'[q] = ann[q]
  BY DEF TypeOK
<1>3. phase = "annotator"
  BY DEF MayStep
<1>4. ASSUME NEW q \in Plugins, ann'[q].pc \in Busy
      PROVE  /\ ann'[q].op # NoEntry
             /\ world.parallel \/ \A x \in Before[q] : ann'[x].pc = "done"
  <2>1. ann'[q].op # NoEntry
    BY <1>2, <1>4 DEF Working
  <2>2. Before[q] \subseteq Plugins
    BY MetadataAssumption
  <2>3. world.parallel \/ \A x \in Before[q] : ann[x].pc = "done"
    BY <1>2, <1>4 DEF Working, MayStep
  <2>4. world.parallel \/ \A x \in Before[q] : ann'[x].pc = "done"
    BY <2>2, <2>3, <1>2
  <2> QED BY <2>1, <2>4
<1>5. Working'
  BY <1>3, <1>4 DEF Working
<1> QED BY <1>1, <1>5

(***************************************************************************)
(* A step that changes nothing but one annotator's record keeps the        *)
(* invariant if the new record is about the bags as they are.              *)
(***************************************************************************)
LEMMA QuietStep ==
    ASSUME IInv, NEW p \in Plugins, MayStep(p), NEW r \in Record,
           ann' = [ann EXCEPT ![p] = r], ann[p].pc # "done", r.pc \in Busy => r.op # NoEntry,
           UNCHANGED <<world, phase, bagOf, bags, watched, index, at, failed, latest>>,
           r.pc = "store" /\ Guarded(r.op.node) => bagOf[r.op.node] = NoBag,
           r.pc = "load" => bagOf[r.op.node] # NoBag,
           r.pc = "write" => /\ r.bag # NoBag
                             /\ NodeOf(r.bag) = r.op.node
                             /\ Guarded(r.op.node) => r.bag = bagOf[r.op.node]
    PROVE  IInv'
<1>1. Working' /\ ann' \in [Plugins -> Record]
  BY StepWorking DEF IInv
<1>2. TypeOK'
  BY <1>1 DEF IInv, TypeOK, Record
<1>3. ann'[p] = r /\ \A q \in Plugins : q # p => ann'[q] = ann[q]
  BY DEF IInv, TypeOK
<1>4. Holding'
  <2>1. \A n : Guarded(n)' <=> Guarded(n)
    BY DEF Guarded, Observed, Stamped
  <2>2. \A q \in Plugins :
        /\ ann'[q].pc = "store" /\ Guarded(ann'[q].op.node) => bagOf[ann'[q].op.node] = NoBag
        /\ ann'[q].pc = "load" => bagOf[ann'[q].op.node] # NoBag
        /\ ann'[q].pc = "write" =>
            /\ ann'[q].bag # NoBag
            /\ NodeOf(ann'[q].bag) = ann'[q].op.node
            /\ Guarded(ann'[q].op.node) => ann'[q].bag = bagOf[ann'[q].op.node]
    BY <1>3 DEF IInv, Holding
  <2>3. /\ phase = "frontend" => \A n \in Nodes : bagOf[n] = NoBag
        /\ \A n \in Nodes : bagOf[n] # NoBag => NodeOf(bagOf[n]) = n
        /\ \A n \in Nodes : phase # "frontend" /\ n \in Stamped => bagOf[n] # NoBag
        /\ phase # "frontend" => \A n \in Nodes :
            Observed(n) => bagOf[n] = <<n, "frontend">> /\ bagOf[n] \in watched
    BY DEF IInv, Holding
  <2>4. Stamped' = Stamped
    BY DEF Stamped
  <2>5. \A n : Observed(n)' <=> Observed(n)
    BY DEF Observed
  <2> QED BY <2>1, <2>2, <2>3, <2>4, <2>5 DEF Holding
<1>5. StampsSurvive' /\ Listed'
  BY DEF IInv, StampsSurvive, Listed, Guarded, Observed, Stamped
<1>6. Position'
  BY DEF IInv, Position, Here, Applied, Current
<1>7. Progress'
  BY SameProgress DEF IInv
<1> QED BY <1>1, <1>2, <1>4, <1>5, <1>6, <1>7 DEF IInv

LEMMA ChooseIInv ==
    ASSUME IInv, NEW p \in Plugins, Choose(p)
    PROVE  IInv'
<1>1. MayStep(p) /\ ann[p].pc = "idle" /\ ann[p].left > 0
  BY DEF Choose
<1>2. PICK n \in Nodes, m \in Names, e \in {Tombstone, Value(p)} :
        ann' = [ann EXCEPT ![p] = [pc |-> "check", op |-> [node |-> n, name |-> m, entry |-> e],
                                   bag |-> NoBag, left |-> ann[p].left - 1]]
  BY DEF Choose
<1> DEFINE r == [pc |-> "check", op |-> [node |-> n, name |-> m, entry |-> e],
                 bag |-> NoBag, left |-> ann[p].left - 1]
<1>3. e \in Entries
  BY MetadataAssumption, EntryFacts
<1>4. ann[p].left - 1 \in 0..MaxOps
  <2>1. MaxOps \in Nat
    BY MetadataAssumption
  <2> QED BY <1>1, <2>1, AnnFacts DEF IInv
<1>5. r.op \in Ops /\ r.op # NoEntry
  <2>2. r.op \in Ops
    BY <1>3 DEF Ops
  <2> QED BY <2>2, MetadataAssumption
<1>6. r \in Record
  BY <1>4, <1>5 DEF Record
<1>7. r.pc = "check"
  OBVIOUS
<1> HIDE DEF r
<1> QED BY <1>1, <1>2, <1>5, <1>6, <1>7, QuietStep DEF Choose, r

LEMMA CheckIInv ==
    ASSUME IInv, NEW p \in Plugins, Check(p)
    PROVE  IInv'
<1> DEFINE n == ann[p].op.node
           r == [ann[p] EXCEPT !.pc = IF Lacks(n) THEN "store" ELSE "load"]
<1>1. MayStep(p) /\ ann[p].pc = "check" /\ ann' = [ann EXCEPT ![p] = r]
  BY DEF Check
<1>2. ann[p] \in Record /\ ann[p].op # NoEntry
  BY <1>1 DEF IInv, TypeOK, Record, Working, Busy
<1>3. r \in Record /\ r.op = ann[p].op /\ r.pc = IF Lacks(n) THEN "store" ELSE "load"
  BY <1>2 DEF Record
<1> HIDE DEF r
<1>4. /\ r.pc = "store" /\ Guarded(r.op.node) => bagOf[r.op.node] = NoBag
      /\ r.pc = "load" => bagOf[r.op.node] # NoBag
      /\ r.pc # "write" /\ r.op # NoEntry
  BY <1>2, <1>3 DEF Lacks
<1> QED BY <1>1, <1>3, <1>4, QuietStep DEF Check

LEMMA LoadIInv ==
    ASSUME IInv, NEW p \in Plugins, Load(p)
    PROVE  IInv'
<1> DEFINE n == ann[p].op.node
           r == [ann[p] EXCEPT !.pc = "write", !.bag = bagOf[n]]
<1>1. MayStep(p) /\ ann[p].pc = "load" /\ ann' = [ann EXCEPT ![p] = r]
  BY DEF Load
<1>2. ann[p] \in Record /\ ann[p].op # NoEntry
  BY <1>1 DEF IInv, TypeOK, Record, Working, Busy
<1>3. n \in Nodes
  BY <1>2, AnnFacts DEF IInv
<1>4. bagOf[n] # NoBag /\ NodeOf(bagOf[n]) = n /\ bagOf[n] \in Ids
  BY <1>1, <1>3 DEF IInv, Holding, TypeOK
<1>5. r \in Record /\ r.op = ann[p].op /\ r.pc = "write" /\ r.bag = bagOf[n]
  BY <1>2, <1>4 DEF Record
<1> HIDE DEF r
<1>6. /\ r.bag # NoBag /\ NodeOf(r.bag) = r.op.node /\ r.bag = bagOf[r.op.node]
      /\ r.op # NoEntry /\ r.pc # "store" /\ r.pc # "load"
  BY <1>2, <1>4, <1>5
<1> QED BY <1>1, <1>5, <1>6, QuietStep DEF Load

LEMMA ReturnIInv ==
    ASSUME IInv, NEW p \in Plugins, Return(p)
    PROVE  IInv'
<1> DEFINE r == [ann[p] EXCEPT !.pc = "done"]
<1>1. MayStep(p) /\ ann[p].pc = "idle" /\ ann' = [ann EXCEPT ![p] = r]
  BY DEF Return
<1>2. ann[p] \in Record
  BY DEF IInv, TypeOK, Record
<1>3. r \in Record /\ r.pc = "done"
  BY <1>2 DEF Record
<1> HIDE DEF r
<1>4. r.pc \notin Busy
  BY <1>3 DEF Busy
<1> QED BY <1>1, <1>3, <1>4, QuietStep DEF Return

(***************************************************************************)
(* Storing a new bag replaces none on a guarded node: it had none, and no  *)
(* other annotator is about to store or to write one.                      *)
(***************************************************************************)
LEMMA StoreIInv ==
    ASSUME IInv, NEW p \in Plugins, Store(p)
    PROVE  IInv'
<1> DEFINE n == ann[p].op.node
           r == [ann[p] EXCEPT !.pc = "load"]
           id == <<n, p>>
<1>1. /\ MayStep(p) /\ ann[p].pc = "store" /\ ann' = [ann EXCEPT ![p] = r]
      /\ UNCHANGED <<world, phase, watched, index, at, failed, latest>>
      /\ phase = "annotator"
  BY DEF Store, MayStep
<1>2. ann[p] \in Record /\ ann[p].op # NoEntry
  BY <1>1 DEF IInv, TypeOK, Record, Working, Busy
<1>3. n \in Nodes /\ id \in Ids /\ NodeOf(id) = n
  BY <1>2, AnnFacts DEF IInv, Ids, NodeOf
<1>4. r \in Record /\ r.op = ann[p].op /\ r.pc = "load"
  BY <1>2 DEF Record
<1>5. bagOf' = [bagOf EXCEPT ![n] = id] /\ bags' = [bags EXCEPT ![id] = NewBag]
  BY DEF Store, Make
<1> HIDE DEF r
<1>6. ann'[p] = r /\ \A q \in Plugins : q # p => ann'[q] = ann[q]
  BY <1>1 DEF IInv, TypeOK
<1>7. Working' /\ ann' \in [Plugins -> Record]
  BY <1>1, <1>2, <1>4, StepWorking DEF IInv
<1>8. id # NoBag
  BY <1>3, MetadataAssumption
<1>9. TypeOK'
  BY <1>1, <1>3, <1>5, <1>7, NewBagIsBag DEF IInv, TypeOK, Record
<1>10. Guarded(n) => /\ bagOf[n] = NoBag /\ ~ Observed(n) /\ n \notin Stamped
                     /\ ~ world.parallel
  <2> SUFFICES ASSUME Guarded(n) PROVE bagOf[n] = NoBag /\ ~ Observed(n) /\ n \notin Stamped
    BY DEF Guarded
  <2>1. bagOf[n] = NoBag
    BY <1>1 DEF IInv, Holding
  <2>2. ASSUME Observed(n) PROVE FALSE
    <3>1. bagOf[n] = <<n, "frontend">>
      BY <1>1, <1>3, <2>2 DEF IInv, Holding
    <3>2. <<n, "frontend">> \in Ids
      BY <1>3 DEF Ids
    <3> QED BY <2>1, <3>1, <3>2, MetadataAssumption
  <2>3. n \notin Stamped
    BY <1>1, <1>3, <2>1 DEF IInv, Holding
  <2> QED BY <2>1, <2>2, <2>3
<1>11. ASSUME NEW q \in Plugins, q # p, ann[q].pc \in Busy, Guarded(n)
       PROVE  FALSE
  BY <1>1, <1>10, <1>11, OneIsBusy DEF IInv, Busy
<1>12. ~ Observed(n)
  BY <1>10 DEF Guarded
<1>13. \A x : Guarded(x)' <=> Guarded(x)
  BY <1>1 DEF Guarded, Observed, Stamped
<1>14. /\ bagOf'[n] = id
       /\ \A x \in Nodes : x # n => bagOf'[x] = bagOf[x]
  BY <1>3, <1>5 DEF IInv, TypeOK
<1>15. Holding'
  <2>1. \A x \in Nodes : bagOf'[x] # NoBag => NodeOf(bagOf'[x]) = x
    BY <1>3, <1>14 DEF IInv, Holding
  <2>2. \A x \in Nodes : x \in Stamped => bagOf'[x] # NoBag
    BY <1>1, <1>8, <1>14 DEF IInv, Holding
  <2>3. Stamped' = Stamped
    BY <1>1 DEF Stamped
  <2>4. ASSUME NEW q \in Plugins
        PROVE  /\ ann'[q].pc = "store" /\ Guarded(ann'[q].op.node) => bagOf'[ann'[q].op.node] = NoBag
               /\ ann'[q].pc = "load" => bagOf'[ann'[q].op.node] # NoBag
               /\ ann'[q].pc = "write" =>
                    /\ ann'[q].bag # NoBag
                    /\ NodeOf(ann'[q].bag) = ann'[q].op.node
                    /\ Guarded(ann'[q].op.node) => ann'[q].bag = bagOf'[ann'[q].op.node]
    <3>1. CASE q = p
      BY <3>1, <1>4, <1>6, <1>8, <1>14
    <3>2. CASE q # p /\ ann[q].pc \in Busy
      <4>1. ann[q].op.node \in Nodes
        BY <3>2, AnnFacts DEF IInv, Working
      <4>2. ann'[q] = ann[q]
        BY <3>2, <1>6
      <4>3. ann[q].op.node = n => ~ Guarded(n)
        BY <3>2, <1>11
      <4>4. /\ ann[q].pc = "store" /\ Guarded(ann[q].op.node) => bagOf[ann[q].op.node] = NoBag
            /\ ann[q].pc = "load" => bagOf[ann[q].op.node] # NoBag
            /\ ann[q].pc = "write" =>
                    /\ ann[q].bag # NoBag
                    /\ NodeOf(ann[q].bag) = ann[q].op.node
                    /\ Guarded(ann[q].op.node) => ann[q].bag = bagOf[ann[q].op.node]
        BY DEF IInv, Holding
      <4> QED BY <4>1, <4>2, <4>3, <4>4, <1>8, <1>14
    <3>3. CASE q # p /\ ann[q].pc \notin Busy
      BY <3>3, <1>6 DEF Busy
    <3> QED BY <3>1, <3>2, <3>3
  <2>5. \A x \in Nodes : Observed(x)' => bagOf'[x] = <<x, "frontend">> /\ bagOf'[x] \in watched'
    <3>1. \A x : Observed(x)' <=> Observed(x)
      BY <1>1 DEF Observed
    <3> QED BY <3>1, <1>1, <1>12, <1>14 DEF IInv, Holding
  <2> QED BY <2>1, <2>2, <2>3, <2>4, <2>5, <1>1, <1>13 DEF Holding
<1>16. StampsSurvive'
  <2> SUFFICES ASSUME NEW x \in Nodes, Guarded(x)
               PROVE  latest[x] = IF bagOf'[x] = NoBag THEN NewBag ELSE bags'[bagOf'[x]]
    BY <1>1, <1>13 DEF StampsSurvive
  <2>1. latest[x] = IF bagOf[x] = NoBag THEN NewBag ELSE bags[bagOf[x]]
    BY <1>1 DEF IInv, StampsSurvive
  <2>2. CASE x = n
    BY <2>1, <2>2, <1>3, <1>5, <1>8, <1>10, <1>14 DEF IInv, TypeOK
  <2>3. CASE x # n
    <3>1. bagOf'[x] = bagOf[x]
      BY <2>3, <1>14
    <3>2. bagOf[x] # NoBag => bagOf[x] \in Ids /\ bagOf[x] # id
      BY <2>3, <1>3 DEF IInv, Holding, TypeOK
    <3> QED BY <2>1, <3>1, <3>2, <1>5 DEF IInv, TypeOK
  <2> QED BY <2>2, <2>3
<1>17. Listed'
  BY <1>1 DEF IInv, Listed, Observed
<1>18. Position'
  BY <1>1 DEF IInv, Position
<1>19. Progress'
  BY <1>1, SameProgress DEF IInv
<1> QED BY <1>7, <1>9, <1>15, <1>16, <1>17, <1>18, <1>19 DEF IInv

(***************************************************************************)
(* An operation on the bag a guarded node holds is not lost, and with the  *)
(* index on its value is listed.                                           *)
(***************************************************************************)
LEMMA WriteKeeps ==
    ASSUME TypeOK, Holding, StampsSurvive, Listed, phase # "frontend", phase' # "frontend",
           world' = world, bagOf' = bagOf,
           NEW id \in Ids, NEW m \in Names, NEW a \in Authorities, NEW e \in Entries,
           Write(id, m, a, e), Guarded(NodeOf(id)) => id = bagOf[NodeOf(id)]
    PROVE  StampsSurvive' /\ Listed'
<1> DEFINE n == NodeOf(id)
<1>1. n \in Nodes
  BY DEF Ids, NodeOf
<1>2. /\ index \subseteq index'
      /\ ~ e.tombstone /\ id \in watched => <<m, n>> \in index'
  BY WriteFacts
<1>3. /\ latest'[n] = Put(latest[n], m, a, e)
      /\ bags'[id] = Put(bags[id], m, a, e)
      /\ \A x \in Nodes : x # n => latest'[x] = latest[x]
      /\ \A d \in Ids : d # id => bags'[d] = bags[d]
  BY WriteFacts
<1>4. id # NoBag
  BY MetadataAssumption
<1>5. StampsSurvive'
  <2> SUFFICES ASSUME NEW x \in Nodes, Guarded(x)
               PROVE  latest'[x] = IF bagOf[x] = NoBag THEN NewBag ELSE bags'[bagOf[x]]
    BY DEF StampsSurvive, Guarded, Observed, Stamped
  <2>1. latest[x] = IF bagOf[x] = NoBag THEN NewBag ELSE bags[bagOf[x]]
    BY DEF StampsSurvive
  <2>2. CASE x = n
    BY <2>1, <2>2, <1>3, <1>4
  <2>3. CASE x # n
    <3>1. bagOf[x] # NoBag => bagOf[x] \in Ids /\ bagOf[x] # id
      BY <2>3 DEF Holding, TypeOK
    <3> QED BY <2>1, <2>3, <3>1, <1>3
  <2> QED BY <2>2, <2>3
<1>6. Listed'
  <2> SUFFICES ASSUME NEW x \in Nodes, NEW y \in Names, NEW c \in Authorities, Observed(x),
                      latest'[x][y][c] # NoEntry
               PROVE  latest'[x][y][c].tombstone \/ <<y, x>> \in index'
    BY DEF Listed, Observed
  <2>1. latest[x][y][c] # NoEntry => latest[x][y][c].tombstone \/ <<y, x>> \in index
    BY DEF Listed
  <2>2. CASE x = n /\ y = m /\ c = a
    <3>1. latest[n] \in Bag
      BY <1>1 DEF TypeOK
    <3>2. latest'[x][y][c] = e
      BY <2>2, <3>1, <1>3, PutFacts
    <3>3. id \in watched
      BY <1>1, <2>2 DEF Holding, Guarded
    <3> QED BY <2>2, <3>2, <3>3, <1>2
  <2>3. CASE ~ (x = n /\ y = m /\ c = a)
    <3>1. latest[n] \in Bag
      BY <1>1 DEF TypeOK
    <3>2. latest'[x][y][c] = latest[x][y][c]
      BY <2>3, <3>1, <1>3, PutFacts
    <3> QED BY <2>1, <3>2, <1>2
  <2> QED BY <2>2, <2>3
<1> QED BY <1>5, <1>6

LEMMA StampIInv ==
    ASSUME IInv, NEW p \in Plugins, Stamp(p)
    PROVE  IInv'
<1> DEFINE n == ann[p].op.node
           r == [ann[p] EXCEPT !.pc = "idle"]
           id == ann[p].bag
           m == ann[p].op.name
           e == ann[p].op.entry
<1>1. /\ MayStep(p) /\ ann[p].pc = "write" /\ ann' = [ann EXCEPT ![p] = r]
      /\ UNCHANGED <<world, phase, bagOf, watched, at, failed>>
      /\ phase = "annotator"
      /\ Write(id, m, Plugin, e)
  BY DEF Stamp, MayStep
<1>2. ann[p] \in Record /\ ann[p].op # NoEntry
  BY <1>1 DEF IInv, TypeOK, Record, Working, Busy
<1>3. /\ n \in Nodes /\ m \in Names /\ e \in Entries /\ id \in Ids
      /\ NodeOf(id) = n /\ (Guarded(n) => id = bagOf[n])
  BY <1>1, <1>2, AnnFacts DEF IInv, Holding
<1>4. r \in Record /\ r.pc = "idle"
  BY <1>2 DEF Record
<1> HIDE DEF r
<1>5. r.pc \notin Busy
  BY <1>4 DEF Busy
<1>6. ann'[p] = r /\ \A q \in Plugins : q # p => ann'[q] = ann[q]
  BY <1>1 DEF IInv, TypeOK
<1>7. Working' /\ ann' \in [Plugins -> Record]
  BY <1>1, <1>4, <1>5, StepWorking DEF IInv
<1>8. Plugin \in Authorities /\ Directive \in Authorities /\ Plugin # Directive
  BY DEF Plugin, Directive, Authorities
<1>9. /\ latest'[n] = Put(latest[n], m, Plugin, e)
      /\ \A x \in Nodes : x # n => latest'[x] = latest[x]
      /\ bags' \in [Ids -> Bag] /\ latest' \in [Nodes -> Bag] /\ index' \subseteq Names \X Nodes
  <2> HIDE DEF n, m, e, id
  <2>1. TypeOK
    BY DEF IInv
  <2>2. bags' \in [Ids -> Bag] /\ latest' \in [Nodes -> Bag] /\ index' \subseteq Names \X Nodes
    BY <1>1, <1>3, <1>8, <2>1, WriteFacts
  <2>3. /\ latest'[NodeOf(id)] = Put(latest[NodeOf(id)], m, Plugin, e)
        /\ \A x \in Nodes : x # NodeOf(id) => latest'[x] = latest[x]
    BY <1>1, <1>3, <1>8, <2>1, WriteFacts
  <2> QED BY <2>2, <2>3, <1>3
<1>10. TypeOK'
  BY <1>1, <1>7, <1>9 DEF IInv, TypeOK, Record
<1>11. Holding'
  <2>1. \A x : Guarded(x)' <=> Guarded(x)
    BY <1>1 DEF Guarded, Observed, Stamped
  <2>2. Stamped' = Stamped
    BY <1>1 DEF Stamped
  <2>3. \A q \in Plugins :
        /\ ann'[q].pc = "store" /\ Guarded(ann'[q].op.node) => bagOf[ann'[q].op.node] = NoBag
        /\ ann'[q].pc = "load" => bagOf[ann'[q].op.node] # NoBag
        /\ ann'[q].pc = "write" =>
            /\ ann'[q].bag # NoBag
            /\ NodeOf(ann'[q].bag) = ann'[q].op.node
            /\ Guarded(ann'[q].op.node) => ann'[q].bag = bagOf[ann'[q].op.node]
    BY <1>4, <1>6 DEF IInv, Holding
  <2>4. \A x : Observed(x)' <=> Observed(x)
    BY <1>1 DEF Observed
  <2> QED BY <2>1, <2>2, <2>3, <2>4, <1>1 DEF IInv, Holding
<1>12. StampsSurvive' /\ Listed'
  BY <1>1, <1>3, <1>8, WriteKeeps DEF IInv
<1>13. Position'
  BY <1>1 DEF IInv, Position
<1>14. Progress'
  <2>1. \A x \in Nodes, y \in Names : latest'[x][y][Directive] = latest[x][y][Directive]
    <3>1. latest[n] \in Bag
      BY <1>3 DEF IInv, TypeOK
    <3>2. \A y \in Names : Put(latest[n], m, Plugin, e)[y][Directive] = latest[n][y][Directive]
      BY <3>1, <1>3, <1>8, PutFacts
    <3> QED BY <3>2, <1>3, <1>9 DEF IInv, TypeOK
  <2> QED BY <2>1, <1>1 DEF IInv, Progress
<1> QED BY <1>7, <1>10, <1>11, <1>12, <1>13, <1>14 DEF IInv

-----------------------------------------------------------------------------
(* The other steps.                                                        *)

LEMMA AddPackageIInv ==
    ASSUME IInv, AddPackage
    PROVE  IInv'
<1>1. /\ phase = "frontend" /\ phase' = "annotator"
      /\ UNCHANGED <<world, ann, at, failed>>
      /\ latest' = world.stamps /\ index' = Seeded(world.stamps)
      /\ watched' = {n \in Nodes : Observed(n)} \X {"frontend"}
      /\ bagOf' = [n \in Nodes |-> IF Observed(n) \/ n \in Stamped
                                   THEN <<n, "frontend">> ELSE NoBag]
      /\ bags' = [id \in Ids |-> IF id[2] = "frontend" THEN world.stamps[NodeOf(id)] ELSE NewBag]
  BY DEF AddPackage
<1>2. world.stamps \in [Nodes -> Bag]
  BY WorldFacts DEF IInv
<1>3. \A n \in Nodes : <<n, "frontend">> \in Ids /\ <<n, "frontend">> # NoBag
                       /\ NodeOf(<<n, "frontend">>) = n
  <2>1. \A n \in Nodes : <<n, "frontend">> \in Ids
    BY DEF Ids
  <2>2. NoBag \notin Ids
    BY MetadataAssumption
  <2> QED BY <2>1, <2>2 DEF NodeOf
<1>4. TypeOK'
  <2>1. bags' \in [Ids -> Bag]
    <3>1. \A id \in Ids : NodeOf(id) \in Nodes
      BY DEF Ids, NodeOf
    <3> QED BY <3>1, <1>1, <1>2, NewBagIsBag
  <2>2. bagOf' \in [Nodes -> Ids \union {NoBag}] /\ watched' \subseteq Ids
    BY <1>1, <1>3
  <2>3. index' \subseteq Names \X Nodes
    BY <1>1, MetadataAssumption DEF Seeded
  <2> QED BY <2>1, <2>2, <2>3, <1>1, <1>2 DEF IInv, TypeOK
<1>5. \A p \in Plugins : ann[p].pc = "idle"
  BY <1>1 DEF IInv, Working
<1>6. Working'
  BY <1>1, <1>5 DEF Working, Busy
<1>7. Stamped' = Stamped /\ \A n : Observed(n)' <=> Observed(n)
  BY <1>1 DEF Stamped, Observed
<1>8. Holding'
  BY <1>1, <1>3, <1>5, <1>7 DEF Holding
<1>9. \A n \in Nodes : bagOf'[n] # NoBag => bags'[bagOf'[n]] = world.stamps[n]
  <2> SUFFICES ASSUME NEW n \in Nodes, bagOf'[n] # NoBag PROVE bags'[bagOf'[n]] = world.stamps[n]
    OBVIOUS
  <2>1. bagOf'[n] = <<n, "frontend">>
    BY <1>1
  <2> QED BY <2>1, <1>1, <1>3
<1>10. StampsSurvive'
  <2> SUFFICES ASSUME NEW n \in Nodes
               PROVE  latest'[n] = IF bagOf'[n] = NoBag THEN NewBag ELSE bags'[bagOf'[n]]
    BY DEF StampsSurvive
  <2>1. CASE bagOf'[n] = NoBag
    BY <2>1, <1>1, <1>3 DEF Stamped
  <2>2. CASE bagOf'[n] # NoBag
    BY <2>2, <1>1, <1>9
  <2> QED BY <2>1, <2>2
<1>11. Listed'
  BY <1>1 DEF Listed, Observed, Seeded, BagNames
<1>12. Position'
  BY <1>1 DEF IInv, Position
<1>13. Progress'
  BY <1>1 DEF Progress
<1> QED BY <1>4, <1>6, <1>8, <1>10, <1>11, <1>12, <1>13 DEF IInv
-----------------------------------------------------------------------------
(* The override pass.                                                      *)

(***************************************************************************)
(* The shape of a directive.                                               *)
(***************************************************************************)
LEMMA DirectiveFacts ==
    ASSUME TypeOK, NEW n \in Nodes
    PROVE  /\ Len(world.directives[n]) \in Nat
           /\ \A j \in 1..Len(world.directives[n]) : world.directives[n][j] \in MetaDirective
<1>1. world.directives[n] \in Seq(MetaDirective)
  BY WorldFacts
<1> QED BY <1>1

LEMMA MetaDirectiveFacts ==
    ASSUME NEW d \in MetaDirective
    PROVE  /\ d.negated \in BOOLEAN
           /\ DOMAIN d.kv \subseteq Names
           /\ \A k \in DOMAIN d.kv : d.kv[k] \in Raws
           /\ d.args \in Seq(Names)
<1>1. d.negated \in BOOLEAN /\ d.args \in Seq(Names) /\ d.kv \in UNION {[K -> Raws] : K \in SUBSET Names}
  BY DEF MetaDirective
<1>2. PICK K \in SUBSET Names : d.kv \in [K -> Raws]
  BY <1>1
<1> QED BY <1>1, <1>2

(***************************************************************************)
(* What the pass visits are nodes.                                         *)
(***************************************************************************)
LEMMA OrderFacts == NodeOrder \in Seq(Nodes) /\ Len(NodeOrder) \in Nat /\ Visited \subseteq Nodes
<1>1. NodeOrder \in Seq(Indexed) /\ Indexed \subseteq Nodes
  BY MetadataAssumption
<1> QED BY <1>1 DEF Visited

LEMMA HereFacts ==
    ASSUME TypeOK, at.node \in 1..Len(NodeOrder)
    PROVE  Here \in Nodes
<1>1. NodeOrder \in Seq(Nodes)
  BY OrderFacts
<1> QED BY <1>1 DEF Here

LEMMA WalkFacts ==
    ASSUME IInv, phase = "override", at.node <= Len(NodeOrder)
    PROVE  at.node \in 1..Len(NodeOrder) /\ Here \in Nodes
<1>1. Len(NodeOrder) \in Nat
  BY MetadataAssumption
<1>2. at.node \in 1..(Len(NodeOrder) + 1)
  BY DEF IInv, Position
<1>3. at.node \in 1..Len(NodeOrder)
  BY <1>1, <1>2
<1>4. TypeOK
  BY DEF IInv
<1> QED BY <1>3, <1>4, HereFacts

(***************************************************************************)
(* What the directives leave on a name, directive by directive.            *)
(***************************************************************************)
LEMMA SettledNone ==
    ASSUME NEW n, NEW m, NEW e, e = world.stamps[n][m][Directive]
    PROVE  Settled(n, 0, m, e)
  BY DEF Settled

LEMMA SettledStep ==
    ASSUME NEW n, NEW m, NEW e, NEW j \in Nat, Settled(n, j, m, e),
           Effect(world.directives[n][j + 1], m) = NoEntry
    PROVE  Settled(n, j + 1, m, e)
<1>1. \A k \in 1..(j + 1) : k \in 1..j \/ k = j + 1
  OBVIOUS
<1>2. CASE \E i \in 1..j : /\ e = Effect(world.directives[n][i], m) /\ e # NoEntry
                           /\ \A k \in (i + 1)..j : Effect(world.directives[n][k], m) = NoEntry
  <2>1. PICK i \in 1..j : /\ e = Effect(world.directives[n][i], m) /\ e # NoEntry
                          /\ \A k \in (i + 1)..j : Effect(world.directives[n][k], m) = NoEntry
    BY <1>2
  <2>2. i \in 1..(j + 1) /\ \A k \in (i + 1)..(j + 1) : k \in (i + 1)..j \/ k = j + 1
    OBVIOUS
  <2> QED BY <2>1, <2>2 DEF Settled
<1>3. CASE /\ \A k \in 1..j : Effect(world.directives[n][k], m) = NoEntry
           /\ e = world.stamps[n][m][Directive]
  BY <1>1, <1>3 DEF Settled
<1> QED BY <1>2, <1>3 DEF Settled

LEMMA SettledNow ==
    ASSUME NEW n, NEW m, NEW e, NEW j \in Nat, j > 0, e # NoEntry,
           e = Effect(world.directives[n][j], m)
    PROVE  Settled(n, j, m, e)
<1>1. j \in 1..j /\ \A k \in (j + 1)..j : FALSE
  OBVIOUS
<1> QED BY <1>1 DEF Settled

(***************************************************************************)
(* In the end, what is settled is what the last directive asked for.       *)
(***************************************************************************)
LEMMA SettledIsAsked ==
    ASSUME TypeOK, NEW n \in Nodes, NEW m \in Names, NEW e,
           Settled(n, Len(world.directives[n]), m, e)
    PROVE  e = Asked(n, m)
<1> DEFINE ds == world.directives[n]
           js == {j \in 1..Len(ds) : Effect(ds[j], m) # NoEntry}
<1>1. Len(ds) \in Nat
  BY DirectiveFacts
<1>2. CASE \E i \in 1..Len(ds) : /\ e = Effect(ds[i], m) /\ e # NoEntry
                                 /\ \A k \in (i + 1)..Len(ds) : Effect(ds[k], m) = NoEntry
  <2>1. PICK i \in 1..Len(ds) : /\ e = Effect(ds[i], m) /\ e # NoEntry
                                /\ \A k \in (i + 1)..Len(ds) : Effect(ds[k], m) = NoEntry
    BY <1>2
  <2>2. i \in js /\ \A k \in js : k <= i
    BY <2>1, <1>1
  <2>3. \A j \in js : (\A k \in js : k <= j) => j = i
    BY <2>2, <1>1
  <2>4. (CHOOSE j \in js : \A k \in js : k <= j) = i
    BY <2>2, <2>3
  <2>5. Asked(n, m) = Effect(ds[CHOOSE j \in js : \A k \in js : k <= j], m)
    <3>1. js # {}
      BY <2>2
    <3> QED BY <3>1 DEF Asked
  <2> QED BY <2>1, <2>4, <2>5
<1>3. CASE /\ \A k \in 1..Len(ds) : Effect(ds[k], m) = NoEntry
           /\ e = world.stamps[n][m][Directive]
  <2>1. js = {}
    BY <1>3
  <2> QED BY <2>1, <1>3 DEF Asked
<1> QED BY <1>2, <1>3 DEF Settled

(***************************************************************************)
(* A step that leaves metadata and annotators alone keeps what does not    *)
(* speak of the position of the pass.                                      *)
(***************************************************************************)
LEMMA SameBags ==
    ASSUME IInv, UNCHANGED <<world, bagOf, bags, watched, index, ann, latest>>,
           phase \in {"annotator", "override"}, phase' \in {"override", "generator"},
           \A p \in Plugins : ann[p].pc = "done"
    PROVE  Working' /\ Holding' /\ StampsSurvive' /\ Listed'
<1>1. phase # "frontend" /\ phase' # "frontend"
  OBVIOUS
<1>2. Working'
  BY <1>1 DEF Working, Busy
<1>3. Holding'
  BY <1>1 DEF IInv, Holding, Stamped, Observed
<1>4. StampsSurvive' /\ Listed'
  BY <1>1 DEF IInv, StampsSurvive, Listed, Guarded, Observed, Stamped
<1> QED BY <1>2, <1>3, <1>4

LEMMA StartOverrideIInv ==
    ASSUME IInv, StartOverride
    PROVE  IInv'
<1>1. /\ phase = "annotator" /\ phase' = "override" /\ \A p \in Plugins : ann[p].pc = "done"
      /\ UNCHANGED <<world, bagOf, bags, watched, index, ann, at, failed, latest>>
  BY DEF StartOverride
<1>2. TypeOK'
  BY <1>1 DEF IInv, TypeOK
<1>3. Working' /\ Holding' /\ StampsSurvive' /\ Listed'
  BY <1>1, SameBags
<1>4. at.node = 1 /\ at.directive = 1 /\ at.keys = {} /\ at.args = <<>>
  BY <1>1 DEF IInv, Position
<1>5. NodeOrder \in Seq(Nodes)
  BY OrderFacts
<1>6. Position'
  <2>1. 1 <= Len(NodeOrder) => 1 \in 1..(Len(world.directives[Here]) + 1)
    <3> SUFFICES ASSUME 1 <= Len(NodeOrder) PROVE 1 \in 1..(Len(world.directives[Here]) + 1)
      OBVIOUS
    <3>1. Here \in Nodes
      BY <1>4, <1>5 DEF Here
    <3> QED BY <3>1, DirectiveFacts DEF IInv
  <2>2. Here' = Here /\ Applied'
    BY <1>1, <1>4 DEF Here, Applied
  <2>3. 1 \in 1..(Len(NodeOrder) + 1)
    BY <1>5
  <2> QED BY <2>1, <2>2, <2>3, <1>1, <1>4 DEF Position
<1>7. Progress'
  <2>1. ASSUME NEW i \in 1..Len(NodeOrder), NEW m \in Names
        PROVE  latest[NodeOrder[i]][m][Directive] = world.stamps[NodeOrder[i]][m][Directive]
    BY <1>1, <1>5 DEF IInv, Progress
  <2>2. ASSUME NEW i \in 1..Len(NodeOrder), NEW m \in Names
        PROVE  (Settled(NodeOrder[i], 0, m, latest[NodeOrder[i]][m][Directive]))'
    BY <1>1, <2>1 DEF Settled
  <2>3. \A i \in 1..Len(NodeOrder) : ~ (i < at.node) /\ at.directive - 1 = 0
    BY <1>4, <1>5
  <2> QED BY <1>1, <2>1, <2>2, <2>3 DEF Progress
<1> QED BY <1>2, <1>3, <1>6, <1>7 DEF IInv

LEMMA EndOverrideIInv ==
    ASSUME IInv, EndOverride
    PROVE  IInv'
<1>1. /\ phase = "override" /\ at.node > Len(NodeOrder) /\ phase' = "generator"
      /\ UNCHANGED <<world, bagOf, bags, watched, index, ann, at, failed, latest>>
  BY DEF EndOverride
<1>2. TypeOK'
  BY <1>1 DEF IInv, TypeOK
<1>3. Working' /\ Holding' /\ StampsSurvive' /\ Listed'
  BY <1>1, SameBags DEF IInv, Working
<1>4. Position'
  BY <1>1 DEF Position
<1>5. Progress'
  <2>1. ASSUME NEW n \in Visited, NEW m \in Names
        PROVE  Settled(n, Len(world.directives[n]), m, latest[n][m][Directive])
    <3>1. PICK i \in 1..Len(NodeOrder) : NodeOrder[i] = n
      BY DEF Visited
    <3>2. i < at.node
      BY <1>1, OrderFacts DEF IInv, TypeOK
    <3> QED BY <1>1, <3>1, <3>2 DEF IInv, Progress
  <2>2. ASSUME NEW n \in Visited, NEW m \in Names
        PROVE  (Settled(n, Len(world.directives[n]), m, latest[n][m][Directive]))'
    BY <1>1, <2>1 DEF Settled
  <2> QED BY <1>1, <2>2 DEF Progress
<1> QED BY <1>2, <1>3, <1>4, <1>5 DEF IInv

LEMMA NextNodeIInv ==
    ASSUME IInv, NextNode
    PROVE  IInv'
<1>1. /\ phase = "override" /\ at.node <= Len(NodeOrder) /\ at.keys = {} /\ at.args = <<>>
      /\ at.directive > Len(world.directives[Here]) /\ phase' = "override"
      /\ at' = [at EXCEPT !.node = @ + 1, !.directive = 1]
      /\ UNCHANGED <<world, bagOf, bags, watched, index, ann, failed, latest>>
  BY DEF NextNode, Walking, Applied
<1>2. /\ at'.node = at.node + 1 /\ at'.directive = 1 /\ at'.keys = {} /\ at'.args = <<>>
      /\ at' \in [node : Nat, directive : Nat, keys : SUBSET Names, args : Seq(Names)]
  <2>1. at \in [node : Nat, directive : Nat, keys : SUBSET Names, args : Seq(Names)]
    BY DEF IInv, TypeOK
  <2>2. at' = [node |-> at.node + 1, directive |-> 1, keys |-> {}, args |-> <<>>]
    BY <1>1, <2>1
  <2> QED BY <2>1, <2>2
<1>3. TypeOK'
  BY <1>1, <1>2 DEF IInv, TypeOK
<1>4. Working' /\ Holding' /\ StampsSurvive' /\ Listed'
  BY <1>1, SameBags DEF IInv, Working
<1>5. NodeOrder \in Seq(Nodes) /\ Len(NodeOrder) \in Nat
  BY OrderFacts
<1>6. at.node \in 1..Len(NodeOrder)
  BY <1>1, WalkFacts
<1>7. Here \in Nodes /\ at.directive - 1 = Len(world.directives[Here])
  <2>1. Here \in Nodes
    BY <1>6, HereFacts DEF IInv
  <2>2. at.directive \in 1..(Len(world.directives[Here]) + 1)
    BY <1>1 DEF IInv, Position
  <2> QED BY <2>1, <2>2, <1>1, DirectiveFacts DEF IInv
<1>8. Position'
  <2>1. at'.node <= Len(NodeOrder) => 1 \in 1..(Len(world.directives[Here']) + 1)
    <3> SUFFICES ASSUME at'.node <= Len(NodeOrder) PROVE 1 \in 1..(Len(world.directives[Here']) + 1)
      OBVIOUS
    <3>1. Here' \in Nodes
      BY <1>2, <1>5, <1>6 DEF Here
    <3> QED BY <3>1, DirectiveFacts DEF IInv
  <2>2. Applied'
    BY <1>2 DEF Applied
  <2>3. at'.node \in 1..(Len(NodeOrder) + 1)
    BY <1>2, <1>5, <1>6
  <2> QED BY <2>1, <2>2, <2>3, <1>1, <1>2 DEF Position
<1>9. Progress'
  <2> SUFFICES ASSUME NEW i \in 1..Len(NodeOrder), NEW m \in Names
               PROVE  (/\ i < at.node => Settled(NodeOrder[i], Len(world.directives[NodeOrder[i]]), m,
                                                 latest[NodeOrder[i]][m][Directive])
                       /\ i = at.node => Open(m) \/ Settled(NodeOrder[i], at.directive - 1, m,
                                                            latest[NodeOrder[i]][m][Directive])
                       /\ i > at.node => latest[NodeOrder[i]][m][Directive]
                                             = world.stamps[NodeOrder[i]][m][Directive])'
    BY <1>1 DEF Progress
  <2> DEFINE n == NodeOrder[i]
             e == latest[n][m][Directive]
  <2>1. i < at.node => Settled(n, Len(world.directives[n]), m, e)
    BY <1>1 DEF IInv, Progress
  <2>2. i = at.node => Settled(n, Len(world.directives[n]), m, e)
    <3> SUFFICES ASSUME i = at.node PROVE Settled(n, Len(world.directives[n]), m, e)
      OBVIOUS
    <3>1. Open(m) \/ Settled(n, at.directive - 1, m, e)
      BY <1>1 DEF IInv, Progress
    <3>2. ~ Open(m)
      BY <1>1 DEF Open
    <3> QED BY <3>1, <3>2, <1>7 DEF Here
  <2>3. i > at.node => e = world.stamps[n][m][Directive] /\ Settled(n, 0, m, e)
    BY <1>1, SettledNone DEF IInv, Progress
  <2>4. i \in Nat /\ at.node \in Nat
    BY <1>6
  <2>5. /\ i < at.node + 1 => (Settled(n, Len(world.directives[n]), m, e))'
        /\ i > at.node => (Settled(n, 0, m, e))'
    <3>1. i < at.node + 1 => i < at.node \/ i = at.node
      BY <2>4
    <3>2. world' = world /\ latest' = latest
      BY <1>1
    <3> QED BY <3>1, <3>2, <2>1, <2>2, <2>3 DEF Settled
  <2>6. at'.directive - 1 = 0
    BY <1>2
  <2>7. i > at.node + 1 => e' = (world.stamps[n][m][Directive])'
    BY <1>1, <2>3, <2>4
  <2>8. i = at.node + 1 => i > at.node
    BY <2>4
  <2> QED BY <1>2, <2>5, <2>6, <2>7, <2>8
<1> QED BY <1>3, <1>4, <1>8, <1>9 DEF IInv

(***************************************************************************)
(* A directive with nothing to apply to a name leaves nothing on it.       *)
(***************************************************************************)
LEMMA NoEffect ==
    ASSUME NEW d \in MetaDirective, NEW m \in Names,
           ~ (m \in DOMAIN d.kv /\ Outcome(d, m, d.kv[m]) \in {"tombstone", "value"}),
           ~ (Bare(d, m) /\ Outcome(d, m, "true") \in {"tombstone", "value"})
    PROVE  Effect(d, m) = NoEntry
<1>1. CASE d.negated
  BY <1>1 DEF Effect, Outcome
<1>2. CASE ~ d.negated
  BY <1>2 DEF Effect, Sets
<1> QED BY <1>1, <1>2

(***************************************************************************)
(* The pass makes a bag for a node only if it has none, when no annotator  *)
(* runs any more.                                                          *)
(***************************************************************************)
LEMMA MakeKeeps ==
    ASSUME IInv, phase = "override", phase' = "override", NEW n \in Nodes,
           IF Lacks(n) THEN Make(n, "pipeline") ELSE UNCHANGED <<bagOf, bags>>,
           UNCHANGED <<world, watched, index, ann, latest>>
    PROVE  /\ bagOf' \in [Nodes -> Ids \union {NoBag}] /\ bags' \in [Ids -> Bag]
           /\ bagOf'[n] # NoBag
           /\ Working' /\ Holding' /\ StampsSurvive' /\ Listed'
<1> DEFINE id == <<n, "pipeline">>
<1>1. \A p \in Plugins : ann[p].pc = "done"
  BY DEF IInv, Working
<1>2. Working'
  BY <1>1 DEF Working, Busy
<1>3. Listed'
  BY DEF IInv, Listed, Observed
<1>4. CASE ~ Lacks(n)
  <2>1. UNCHANGED <<bagOf, bags>> /\ bagOf[n] # NoBag
    BY <1>4 DEF Lacks
  <2>2. Holding'
    BY <2>1, <1>1 DEF IInv, Holding, Stamped, Observed
  <2>3. StampsSurvive'
    BY <2>1 DEF IInv, StampsSurvive, Guarded, Observed, Stamped
  <2> QED BY <2>1, <2>2, <2>3, <1>2, <1>3 DEF IInv, TypeOK
<1>5. CASE Lacks(n)
  <2>1. /\ bagOf[n] = NoBag
        /\ bagOf' = [bagOf EXCEPT ![n] = id] /\ bags' = [bags EXCEPT ![id] = NewBag]
    BY <1>5 DEF Lacks, Make
  <2>2. id \in Ids /\ NodeOf(id) = n
    BY DEF Ids, NodeOf
  <2>3. id # NoBag
    BY <2>2, MetadataAssumption
  <2>4. bagOf' \in [Nodes -> Ids \union {NoBag}] /\ bags' \in [Ids -> Bag]
    BY <2>1, <2>2, NewBagIsBag DEF IInv, TypeOK
  <2>5. /\ bagOf'[n] = id
        /\ \A x \in Nodes : x # n => bagOf'[x] = bagOf[x]
        /\ bags'[id] = NewBag /\ \A d \in Ids : d # id => bags'[d] = bags[d]
    BY <2>1, <2>2 DEF IInv, TypeOK
  <2>6. ~ Observed(n)
    <3> SUFFICES ASSUME Observed(n) PROVE FALSE
      OBVIOUS
    <3>1. bagOf[n] = <<n, "frontend">>
      BY DEF IInv, Holding
    <3>2. <<n, "frontend">> \in Ids
      BY DEF Ids
    <3> QED BY <2>1, <3>1, <3>2, MetadataAssumption
  <2>7. Holding'
    <3>1. \A x \in Nodes : bagOf'[x] # NoBag => NodeOf(bagOf'[x]) = x
      BY <2>2, <2>5 DEF IInv, Holding
    <3>2. \A x \in Nodes : x \in Stamped => bagOf'[x] # NoBag
      BY <2>3, <2>5 DEF IInv, Holding
    <3>3. Stamped' = Stamped
      BY DEF Stamped
    <3>4. \A x \in Nodes : Observed(x)' => bagOf'[x] = <<x, "frontend">> /\ bagOf'[x] \in watched'
      <4>1. \A x : Observed(x)' <=> Observed(x)
        BY DEF Observed
      <4> QED BY <4>1, <2>5, <2>6 DEF IInv, Holding
    <3> QED BY <3>1, <3>2, <3>3, <3>4, <1>1 DEF Holding
  <2>8. StampsSurvive'
    <3> SUFFICES ASSUME NEW x \in Nodes, Guarded(x)
                 PROVE  latest[x] = IF bagOf'[x] = NoBag THEN NewBag ELSE bags'[bagOf'[x]]
      BY DEF StampsSurvive, Guarded, Observed, Stamped
    <3>1. latest[x] = IF bagOf[x] = NoBag THEN NewBag ELSE bags[bagOf[x]]
      BY DEF IInv, StampsSurvive
    <3>2. CASE x = n
      BY <3>1, <3>2, <2>1, <2>3, <2>5
    <3>3. CASE x # n
      <4>1. bagOf[x] # NoBag => bagOf[x] \in Ids /\ bagOf[x] # id
        BY <3>3, <2>2 DEF IInv, Holding, TypeOK
      <4> QED BY <3>1, <3>3, <4>1, <2>5
    <3> QED BY <3>2, <3>3
  <2> QED BY <2>3, <2>4, <2>5, <2>7, <2>8, <1>2, <1>3
<1> QED BY <1>4, <1>5

LEMMA NextDirectiveIInv ==
    ASSUME IInv, NextDirective
    PROVE  IInv'
<1> DEFINE n == Here
           j == at.directive
           d == world.directives[n][j]
<1>1. /\ phase = "override" /\ phase' = "override" /\ at.node <= Len(NodeOrder)
      /\ at.keys = {} /\ at.args = <<>> /\ j <= Len(world.directives[n])
      /\ at' = [node |-> at.node, directive |-> j + 1, keys |-> DOMAIN d.kv, args |-> d.args]
      /\ IF Lacks(n) THEN Make(n, "pipeline") ELSE UNCHANGED <<bagOf, bags>>
      /\ UNCHANGED <<world, watched, index, ann, failed, latest>>
  BY DEF NextDirective, Walking, Applied
<1>2. NodeOrder \in Seq(Nodes) /\ Len(NodeOrder) \in Nat
  BY OrderFacts
<1>3. at.node \in 1..Len(NodeOrder)
  BY <1>1, WalkFacts
<1>4. n \in Nodes
  BY <1>1, WalkFacts
<1>5. Len(world.directives[n]) \in Nat /\ j \in 1..Len(world.directives[n]) /\ d \in MetaDirective
  <2>1. j \in 1..(Len(world.directives[n]) + 1)
    BY <1>1 DEF IInv, Position
  <2>2. TypeOK /\ j <= Len(world.directives[n])
    BY <1>1 DEF IInv
  <2>3. Len(world.directives[n]) \in Nat /\ j \in 1..Len(world.directives[n])
    BY <2>1, <2>2, <1>4, DirectiveFacts
  <2> QED BY <2>2, <2>3, <1>4, DirectiveFacts
<1>6. DOMAIN d.kv \subseteq Names /\ d.args \in Seq(Names)
  BY <1>5, MetaDirectiveFacts
<1>7. /\ at'.node = at.node /\ at'.directive = j + 1 /\ at'.keys = DOMAIN d.kv /\ at'.args = d.args
  BY <1>1
<1>8. /\ bagOf' \in [Nodes -> Ids \union {NoBag}] /\ bags' \in [Ids -> Bag]
      /\ bagOf'[n] # NoBag
      /\ Working' /\ Holding' /\ StampsSurvive' /\ Listed'
  <2> HIDE DEF n
  <2> QED BY <1>1, <1>4, MakeKeeps
<1>9. TypeOK'
  <2>1. at' \in [node : Nat, directive : Nat, keys : SUBSET Names, args : Seq(Names)]
    BY <1>1, <1>2, <1>3, <1>5, <1>6
  <2> QED BY <2>1, <1>1, <1>8 DEF IInv, TypeOK
<1>10. Here' = n /\ Current' = d
  <2>1. Here' = n
    BY <1>7 DEF Here
  <2>2. at'.directive - 1 = j
    BY <1>5, <1>7
  <2> QED BY <1>1, <2>1, <2>2 DEF Current
<1>11. Position'
  <2>1. at'.directive \in 1..(Len(world.directives[n]) + 1) /\ at'.directive > 1
    BY <1>5, <1>7
  <2>2. /\ at'.node \in 1..(Len(NodeOrder) + 1) /\ at'.node <= Len(NodeOrder)
        /\ ~ (at'.node > Len(NodeOrder))
    BY <1>2, <1>3, <1>7
  <2>3. bagOf'[Here'] # NoBag /\ world'.directives[Here'] = world.directives[n]
    BY <1>1, <1>8, <1>10
  <2>4. /\ at'.keys \subseteq DOMAIN (Current').kv /\ at'.args = (Current').args
        /\ \A i \in 1..Len(at'.args) : \E k \in 1..Len((Current').args) :
                (Current').args[k] = at'.args[i]
    BY <1>7, <1>10
  <2>5. phase' = "override"
    BY <1>1
  <2> HIDE DEF n, j, d
  <2> QED BY <2>1, <2>2, <2>3, <2>4, <2>5 DEF Position
<1>12. Progress'
  <2> SUFFICES ASSUME NEW i \in 1..Len(NodeOrder), NEW m \in Names
               PROVE  (/\ i < at.node => Settled(NodeOrder[i], Len(world.directives[NodeOrder[i]]), m,
                                                 latest[NodeOrder[i]][m][Directive])
                       /\ i = at.node => Open(m) \/ Settled(NodeOrder[i], at.directive - 1, m,
                                                            latest[NodeOrder[i]][m][Directive])
                       /\ i > at.node => latest[NodeOrder[i]][m][Directive]
                                             = world.stamps[NodeOrder[i]][m][Directive])'
    BY <1>1 DEF Progress
  <2> DEFINE x == NodeOrder[i]
             e == latest[x][m][Directive]
  <2>1. /\ i < at.node => Settled(x, Len(world.directives[x]), m, e)
        /\ i > at.node => e = world.stamps[x][m][Directive]
    BY <1>1 DEF IInv, Progress
  <2>2. ASSUME i = at.node, ~ Open(m)' PROVE Settled(x, j, m, e)
    <3>1. x = n
      BY <2>2 DEF Here
    <3>2. Settled(x, j - 1, m, e)
      <4>1. Open(m) \/ Settled(x, j - 1, m, e)
        BY <1>1, <2>2 DEF IInv, Progress
      <4>2. ~ Open(m)
        BY <1>1 DEF Open
      <4> QED BY <4>1, <4>2
    <3>3. Effect(d, m) = NoEntry
      <4>1. ~ (m \in DOMAIN d.kv /\ Outcome(d, m, d.kv[m]) \in {"tombstone", "value"})
        BY <2>2, <1>7, <1>10 DEF Open
      <4>2. ~ (Bare(d, m) /\ Outcome(d, m, "true") \in {"tombstone", "value"})
        BY <2>2, <1>7, <1>10 DEF Open, Bare
      <4> QED BY <4>1, <4>2, <1>5, NoEffect
    <3>4. j - 1 \in Nat /\ (j - 1) + 1 = j
      BY <1>5
    <3>5. Settled(x, (j - 1) + 1, m, e)
      <4> HIDE DEF e, x
      <4> QED BY <3>1, <3>2, <3>3, <3>4, SettledStep
    <3> QED BY <3>4, <3>5
  <2>3. /\ i < at.node => (Settled(x, Len(world.directives[x]), m, e))'
        /\ i > at.node => e' = (world.stamps[x][m][Directive])'
    BY <1>1, <2>1 DEF Settled
  <2>4. at'.directive - 1 = j /\ at'.node = at.node
    BY <1>5, <1>7
  <2>5. world' = world /\ latest' = latest
    BY <1>1
  <2>6. i = at.node => Open(m)' \/ (Settled(x, at.directive - 1, m, e))'
    <3> HIDE DEF n, j, d
    <3> QED BY <2>2, <2>4, <2>5 DEF Settled
  <2> QED BY <2>3, <2>4, <2>6
<1> QED BY <1>8, <1>9, <1>11, <1>12 DEF IInv

(***************************************************************************)
(* Applying one name of the current directive: the names still open stay   *)
(* open, and the one applied is settled unless it is named again.          *)
(***************************************************************************)
LEMMA ApplyIInv ==
    ASSUME IInv, Walking, ~ Applied, NEW m \in Names, NEW raw \in Raws, ApplyMeta(m, raw),
           at' \in [node : Nat, directive : Nat, keys : SUBSET Names, args : Seq(Names)],
           at'.node = at.node, at'.directive = at.directive,
           at'.keys \subseteq at.keys, at'.keys # {} => at'.args = at.args,
           \A i \in 1..Len(at'.args) : \E k \in 1..Len(at.args) : at.args[k] = at'.args[i],
           \A x \in Names : x # m /\ Open(x) => Open(x)',
           Outcome(Current, m, raw) = "tombstone" => Open(m)' \/ Effect(Current, m) = Tombstone,
           Outcome(Current, m, raw) = "value" => Open(m)' \/ Effect(Current, m) = Value(raw),
           Outcome(Current, m, raw) = "error" /\ Open(m) => Open(m)'
    PROVE  IInv'
<1> DEFINE n == Here
           id == bagOf[Here]
           j == at.directive - 1
<1>1. /\ phase = "override" /\ at.node <= Len(NodeOrder)
      /\ UNCHANGED <<world, bagOf, watched, ann>>
  BY DEF Walking, ApplyMeta
<1>2. NodeOrder \in Seq(Nodes) /\ Len(NodeOrder) \in Nat
      /\ \A i, k \in 1..Len(NodeOrder) : NodeOrder[i] = NodeOrder[k] => i = k
  BY MetadataAssumption
<1>3. at.node \in 1..Len(NodeOrder)
  BY <1>1, WalkFacts
<1>4. n \in Nodes
  BY <1>1, WalkFacts
<1>5. /\ id # NoBag /\ id \in Ids /\ NodeOf(id) = n
  <2>1. id # NoBag
    BY <1>1 DEF IInv, Position
  <2> QED BY <2>1, <1>4 DEF IInv, Holding, TypeOK
<1>6. Here' = n /\ Current' = Current
  BY <1>1 DEF Here, Current
<1>7. \A p \in Plugins : ann[p].pc = "done"
  BY <1>1 DEF IInv, Working
<1>8. j \in Nat /\ j > 0
  BY <1>1, <1>4, DirectiveFacts DEF IInv, Position
<1>9. Position' \/ phase' = "generator"
  <2>1. CASE Outcome(Current, m, raw) = "panic"
    BY <2>1 DEF ApplyMeta
  <2>2. CASE phase' = "override"
    <3>1. /\ at.directive \in 1..(Len(world.directives[Here]) + 1)
          /\ at.directive > 1 /\ bagOf[Here] # NoBag
          /\ at.keys \subseteq DOMAIN Current.kv
          /\ at.keys # {} => at.args = Current.args
          /\ \A i \in 1..Len(at.args) : \E k \in 1..Len(Current.args) : Current.args[k] = at.args[i]
      BY <1>1 DEF IInv, Position
    <3>2. at'.keys # {} => at'.args = Current.args
      BY <3>1
    <3>3. \A i \in 1..Len(at'.args) : \E k \in 1..Len(Current.args) : Current.args[k] = at'.args[i]
      <4> SUFFICES ASSUME NEW i \in 1..Len(at'.args)
                   PROVE  \E k \in 1..Len(Current.args) : Current.args[k] = at'.args[i]
        OBVIOUS
      <4>1. PICK k \in 1..Len(at.args) : at.args[k] = at'.args[i]
        OBVIOUS
      <4>2. \E l \in 1..Len(Current.args) : Current.args[l] = at.args[k]
        BY <3>1
      <4> QED BY <4>1, <4>2
    <3>4. at'.node \in 1..(Len(NodeOrder) + 1) /\ at'.node <= Len(NodeOrder)
      BY <1>2, <1>3
    <3> QED BY <3>1, <3>2, <3>3, <3>4, <2>2, <1>1, <1>6 DEF Position
  <2> QED BY <2>1, <2>2, <1>1 DEF ApplyMeta
<1>10. phase' = "generator" => Position'
  BY DEF Position
<1>11. Holding' /\ Working'
  <2>1. phase' \in {"override", "generator"}
    BY <1>1 DEF ApplyMeta
  <2>2. Working'
    BY <2>1, <1>1, <1>7 DEF Working, Busy
  <2>3. Holding'
    BY <2>1, <1>1, <1>7 DEF IInv, Holding, Stamped, Observed
  <2> QED BY <2>2, <2>3
<1>12. Directive \in Authorities
  BY DEF Directive, Authorities
<1>13. ASSUME NEW e \in Entries, phase' = phase, failed' = failed, Write(id, m, Directive, e),
              Open(m)' \/ Effect(Current, m) = e
       PROVE  IInv'
  <2>1. TypeOK
    BY DEF IInv
  <2>2. bags' \in [Ids -> Bag] /\ latest' \in [Nodes -> Bag] /\ index' \subseteq Names \X Nodes
    BY <1>5, <1>12, <1>13, <2>1, WriteFacts
  <2>3. /\ latest'[NodeOf(id)] = Put(latest[NodeOf(id)], m, Directive, e)
        /\ \A x \in Nodes : x # NodeOf(id) => latest'[x] = latest[x]
    BY <1>5, <1>12, <1>13, <2>1, WriteFacts
  <2>4. TypeOK'
    BY <1>1, <1>13, <2>2 DEF IInv, TypeOK
  <2>5. StampsSurvive' /\ Listed'
    BY <1>1, <1>5, <1>12, <1>13, WriteKeeps DEF IInv
  <2>6. latest[n] \in Bag
    BY <1>4 DEF IInv, TypeOK
  <2>7. /\ latest'[n][m][Directive] = e
        /\ \A y \in Names : y # m => latest'[n][y][Directive] = latest[n][y][Directive]
    BY <2>3, <2>6, <1>5, <1>12, PutFacts
  <2>8. e # NoEntry
    BY EntryFacts
  <2>9. world' = world /\ at'.node = at.node /\ at'.directive = at.directive
    BY <1>1
  <2>10. Progress'
    <3> SUFFICES ASSUME NEW i \in 1..Len(NodeOrder), NEW y \in Names
                 PROVE  (/\ i < at.node => Settled(NodeOrder[i], Len(world.directives[NodeOrder[i]]), y,
                                                   latest[NodeOrder[i]][y][Directive])
                         /\ i = at.node => Open(y) \/ Settled(NodeOrder[i], at.directive - 1, y,
                                                              latest[NodeOrder[i]][y][Directive])
                         /\ i > at.node => latest[NodeOrder[i]][y][Directive]
                                               = world.stamps[NodeOrder[i]][y][Directive])'
      BY <1>1, <1>13 DEF Progress
    <3>1. CASE i # at.node
      <4>1. NodeOrder[i] # n /\ NodeOrder[i] \in Nodes
        BY <3>1, <1>2, <1>3 DEF Here
      <4>2. latest'[NodeOrder[i]] = latest[NodeOrder[i]]
        BY <4>1, <2>3, <1>5
      <4>3. /\ i < at.node => Settled(NodeOrder[i], Len(world.directives[NodeOrder[i]]), y,
                                      latest[NodeOrder[i]][y][Directive])
            /\ i > at.node => latest[NodeOrder[i]][y][Directive]
                                  = world.stamps[NodeOrder[i]][y][Directive]
        BY <1>1 DEF IInv, Progress
      <4> QED BY <3>1, <4>2, <4>3, <1>1 DEF Settled
    <3>2. CASE i = at.node /\ y # m
      <4>1. Open(y) \/ Settled(n, j, y, latest[n][y][Directive])
        BY <3>2, <1>1 DEF IInv, Progress, Here
      <4>2. Open(y)' \/ (Settled(n, j, y, latest[n][y][Directive]))
        BY <3>2, <4>1
      <4>3. latest'[n][y][Directive] = latest[n][y][Directive] /\ NodeOrder[i] = n
        BY <3>2, <2>7 DEF Here
      <4>4. Settled(n, j, y, latest[n][y][Directive])
                => (Settled(NodeOrder[i], at.directive - 1, y, latest[NodeOrder[i]][y][Directive]))'
        BY <4>3, <2>9 DEF Settled
      <4> QED BY <3>2, <4>2, <4>4
    <3>3. CASE i = at.node /\ y = m
      <4>1. CASE Open(m)'
        BY <3>3, <4>1
      <4>2. CASE Effect(Current, m) = e
        <5>1. Current = world.directives[n][j] /\ NodeOrder[i] = n
          BY <3>3 DEF Current, Here
        <5>2. Settled(n, j, m, e)
          BY <5>1, <4>2, <2>8, <1>8, SettledNow
        <5>3. (Settled(NodeOrder[i], at.directive - 1, y, latest[NodeOrder[i]][y][Directive]))'
          BY <5>1, <5>2, <3>3, <2>7, <2>9 DEF Settled
        <5> QED BY <3>3, <5>3
      <4> QED BY <4>1, <4>2, <1>13
    <3> QED BY <3>1, <3>2, <3>3
  <2> QED BY <2>4, <2>5, <2>10, <1>1, <1>9, <1>11, <1>13 DEF IInv
<1>14. CASE Outcome(Current, m, raw) = "tombstone"
  BY <1>13, <1>14, EntryFacts DEF ApplyMeta
<1>15. CASE Outcome(Current, m, raw) = "value"
  <2>1. Value(raw) \in Entries
    BY EntryFacts, MetadataAssumption
  <2> QED BY <2>1, <1>13, <1>15 DEF ApplyMeta
<1>16. ASSUME UNCHANGED <<bags, latest, index>> PROVE StampsSurvive' /\ Listed'
  <2>1. phase # "frontend"
    BY <1>1
  <2> QED BY <2>1, <1>1, <1>16 DEF IInv, StampsSurvive, Listed, Guarded, Observed, Stamped
<1>17. CASE Outcome(Current, m, raw) = "error"
  <2>1. UNCHANGED <<bags, latest, index, phase, failed>>
    BY <1>17 DEF ApplyMeta
  <2>2. TypeOK'
    BY <2>1, <1>1 DEF IInv, TypeOK
  <2>3. Progress'
    <3> SUFFICES ASSUME NEW i \in 1..Len(NodeOrder), NEW y \in Names
                 PROVE  (/\ i < at.node => Settled(NodeOrder[i], Len(world.directives[NodeOrder[i]]), y,
                                                   latest[NodeOrder[i]][y][Directive])
                         /\ i = at.node => Open(y) \/ Settled(NodeOrder[i], at.directive - 1, y,
                                                              latest[NodeOrder[i]][y][Directive])
                         /\ i > at.node => latest[NodeOrder[i]][y][Directive]
                                               = world.stamps[NodeOrder[i]][y][Directive])'
      BY <1>1, <2>1 DEF Progress
    <3>1. /\ i < at.node => Settled(NodeOrder[i], Len(world.directives[NodeOrder[i]]), y,
                                    latest[NodeOrder[i]][y][Directive])
          /\ i = at.node => Open(y) \/ Settled(NodeOrder[i], at.directive - 1, y,
                                               latest[NodeOrder[i]][y][Directive])
          /\ i > at.node => latest[NodeOrder[i]][y][Directive]
                                = world.stamps[NodeOrder[i]][y][Directive]
      BY <1>1 DEF IInv, Progress
    <3>2. Open(y) => Open(y)'
      BY <1>17
    <3> QED BY <3>1, <3>2, <2>1, <1>1 DEF Settled
  <2> QED BY <2>1, <2>2, <2>3, <1>1, <1>9, <1>11, <1>16 DEF IInv
<1>18. CASE Outcome(Current, m, raw) = "panic"
  <2>1. phase' = "generator" /\ failed' = TRUE /\ UNCHANGED <<bags, latest, index>>
    BY <1>18 DEF ApplyMeta
  <2>2. TypeOK'
    BY <2>1, <1>1 DEF IInv, TypeOK
  <2>3. Progress'
    BY <2>1 DEF Progress
  <2> QED BY <2>1, <2>2, <2>3, <1>10, <1>11, <1>16 DEF IInv
<1> QED BY <1>14, <1>15, <1>17, <1>18 DEF ApplyMeta

LEMMA CurrentFacts ==
    ASSUME IInv, Walking, ~ Applied
    PROVE  /\ Current \in MetaDirective
           /\ at.keys \subseteq DOMAIN Current.kv
           /\ at.keys # {} => at.args = Current.args
           /\ \A i \in 1..Len(at.args) : \E k \in 1..Len(Current.args) : Current.args[k] = at.args[i]
           /\ at \in [node : Nat, directive : Nat, keys : SUBSET Names, args : Seq(Names)]
<1>1. phase = "override" /\ at.node <= Len(NodeOrder)
  BY DEF Walking
<1>2. NodeOrder \in Seq(Nodes) /\ Len(NodeOrder) \in Nat
  BY OrderFacts
<1>3. Here \in Nodes
  BY <1>1, <1>2, HereFacts DEF IInv, Position
<1>4. at.directive - 1 \in 1..Len(world.directives[Here])
  BY <1>1, <1>3, DirectiveFacts DEF IInv, Position
<1>5. Current \in MetaDirective
  BY <1>3, <1>4, DirectiveFacts DEF IInv, Current
<1> QED BY <1>1, <1>5 DEF IInv, Position, TypeOK

LEMMA OverrideKeyIInv ==
    ASSUME IInv, NEW m \in Names, OverrideKey(m)
    PROVE  IInv'
<1>1. /\ Walking /\ m \in at.keys /\ ~ Applied
      /\ ApplyMeta(m, Current.kv[m]) /\ at' = [at EXCEPT !.keys = @ \ {m}]
  BY DEF OverrideKey, Applied
<1>2. /\ Current \in MetaDirective /\ m \in DOMAIN Current.kv /\ at.args = Current.args
      /\ at \in [node : Nat, directive : Nat, keys : SUBSET Names, args : Seq(Names)]
  BY <1>1, CurrentFacts
<1>3. /\ at' \in [node : Nat, directive : Nat, keys : SUBSET Names, args : Seq(Names)]
      /\ at'.node = at.node /\ at'.directive = at.directive /\ at'.args = at.args
      /\ at'.keys = at.keys \ {m}
  BY <1>1, <1>2
<1>4. Current' = Current
  BY <1>1, <1>3 DEF ApplyMeta, Current, Here
<1>5. \A x \in Names : x # m /\ Open(x) => Open(x)'
  BY <1>3, <1>4 DEF Open
<1> DEFINE o == Outcome(Current, m, Current.kv[m])
<1>6. ~ Open(m)' => ~ (Bare(Current, m) /\ Outcome(Current, m, "true") \in {"tombstone", "value"})
  BY <1>2, <1>3, <1>4 DEF Open, Bare
<1>7. Current.negated \in BOOLEAN /\ Current.kv[m] \in Raws
  BY <1>2, MetaDirectiveFacts
<1>8. o = "tombstone" => Open(m)' \/ Effect(Current, m) = Tombstone
  <2> SUFFICES ASSUME o = "tombstone" PROVE Effect(Current, m) = Tombstone
    OBVIOUS
  <2>1. m \in Registered => Parse[m][Current.kv[m]] # "tombstone"
    BY <1>7, MetadataAssumption
  <2>2. Current.negated
    BY <2>1 DEF Outcome
  <2> QED BY <2>2, <1>2 DEF Effect
<1>9. o = "value" => Open(m)' \/ Effect(Current, m) = Value(Current.kv[m])
  <2> SUFFICES ASSUME o = "value", ~ Open(m)' PROVE Effect(Current, m) = Value(Current.kv[m])
    OBVIOUS
  <2>1. ~ Current.negated
    BY DEF Outcome
  <2>2. ~ (Bare(Current, m) /\ Sets(Current, m, "true"))
    BY <1>6 DEF Sets
  <2> QED BY <2>1, <2>2, <1>2 DEF Effect, Sets
<1>10. o = "error" /\ Open(m) => Open(m)'
  BY <1>3, <1>4 DEF Open
<1>11. \A i \in 1..Len(at'.args) : \E k \in 1..Len(at.args) : at.args[k] = at'.args[i]
  BY <1>3
<1>12. at'.keys \subseteq at.keys
  BY <1>3
<1>13. ASSUME NEW raw \in Raws, raw = Current.kv[m] PROVE IInv'
  <2>1. ApplyMeta(m, raw)
    BY <1>1, <1>13 DEF ApplyMeta
  <2>2. /\ Outcome(Current, m, raw) = "tombstone" => Open(m)' \/ Effect(Current, m) = Tombstone
        /\ Outcome(Current, m, raw) = "value" => Open(m)' \/ Effect(Current, m) = Value(raw)
        /\ Outcome(Current, m, raw) = "error" /\ Open(m) => Open(m)'
    BY <1>8, <1>9, <1>10, <1>13
  <2> QED BY <2>1, <2>2, <1>1, <1>3, <1>5, <1>11, <1>12, ApplyIInv
<1> QED BY <1>7, <1>13

LEMMA OverrideArgIInv ==
    ASSUME IInv, OverrideArg
    PROVE  IInv'
<1>1. /\ Walking /\ at.keys = {} /\ at.args # <<>> /\ ~ Applied
      /\ ApplyMeta(Head(at.args), "true") /\ at' = [at EXCEPT !.args = Tail(@)]
  BY DEF OverrideArg, Applied
<1>2. /\ Current \in MetaDirective
      /\ \A i \in 1..Len(at.args) : \E k \in 1..Len(Current.args) : Current.args[k] = at.args[i]
      /\ at \in [node : Nat, directive : Nat, keys : SUBSET Names, args : Seq(Names)]
  BY <1>1, CurrentFacts
<1>3. /\ at' \in [node : Nat, directive : Nat, keys : SUBSET Names, args : Seq(Names)]
      /\ at'.node = at.node /\ at'.directive = at.directive /\ at'.args = Tail(at.args)
      /\ at'.keys = at.keys
  <2>1. at.args \in Seq(Names) /\ Tail(at.args) \in Seq(Names)
    BY <1>1, <1>2
  <2> QED BY <1>1, <1>2, <2>1
<1>4. Current' = Current
  BY <1>1, <1>3 DEF ApplyMeta, Current, Here
<1>5. /\ at.args \in Seq(Names) /\ 1 \in 1..Len(at.args) /\ Head(at.args) = at.args[1]
      /\ Len(Tail(at.args)) = Len(at.args) - 1 /\ Len(at.args) \in Nat
      /\ \A i \in 1..Len(Tail(at.args)) : Tail(at.args)[i] = at.args[i + 1]
  BY <1>1, <1>2
<1>6. ASSUME NEW m \in Names, m = Head(at.args) PROVE IInv'
  <2>1. ApplyMeta(m, "true")
    BY <1>1, <1>6 DEF ApplyMeta
  <2>2. Bare(Current, m)
    BY <1>2, <1>5, <1>6 DEF Bare
  <2>3. \A i \in 1..Len(at'.args) : \E k \in 1..Len(at.args) : at.args[k] = at'.args[i]
    <3> SUFFICES ASSUME NEW i \in 1..Len(at'.args)
                 PROVE  \E k \in 1..Len(at.args) : at.args[k] = at'.args[i]
      OBVIOUS
    <3>1. i + 1 \in 1..Len(at.args) /\ at'.args[i] = at.args[i + 1]
      BY <1>3, <1>5
    <3> QED BY <3>1
  <2>4. ASSUME NEW x \in Names, x # m, Open(x) PROVE Open(x)'
    <3>1. /\ \E i \in 1..Len(at.args) : at.args[i] = x
          /\ Outcome(Current, x, "true") \in {"tombstone", "value"}
      BY <2>4, <1>1 DEF Open
    <3>2. PICK i \in 1..Len(at.args) : at.args[i] = x
      BY <3>1
    <3>3. i # 1
      BY <2>4, <3>2, <1>5, <1>6
    <3>4. i - 1 \in 1..Len(at'.args) /\ at'.args[i - 1] = x
      <4>1. i - 1 \in 1..Len(Tail(at.args)) /\ (i - 1) + 1 = i
        BY <3>3, <1>5
      <4>2. Tail(at.args)[i - 1] = at.args[(i - 1) + 1]
        BY <4>1, <1>5
      <4> QED BY <4>1, <4>2, <3>2, <1>3
    <3> QED BY <3>1, <3>4, <1>4 DEF Open
  <2>5. Current.negated \in BOOLEAN /\ "true" \in Raws
    BY <1>2, MetaDirectiveFacts, MetadataAssumption
  <2>6. Outcome(Current, m, "true") = "tombstone" => Effect(Current, m) = Tombstone
    <3>1. m \in Registered => Parse[m]["true"] # "tombstone"
      BY <2>5, MetadataAssumption
    <3> QED BY <3>1, <2>2 DEF Outcome, Effect
  <2>7. Outcome(Current, m, "true") = "value" => Effect(Current, m) = Value("true")
    <3>1. Outcome(Current, m, "true") = "value" => ~ Current.negated
      BY DEF Outcome
    <3> QED BY <3>1, <2>2 DEF Effect, Sets
  <2>8. Outcome(Current, m, "true") = "error" => ~ Open(m)
    BY <1>1 DEF Open
  <2> QED BY <2>1, <2>3, <2>4, <2>5, <2>6, <2>7, <2>8, <1>1, <1>3, ApplyIInv
<1>7. Head(at.args) \in Names
  BY <1>5
<1> QED BY <1>6, <1>7

-----------------------------------------------------------------------------
(* The theorems.                                                           *)

(***************************************************************************)
(* The invariant is inductive.                                             *)
(***************************************************************************)
LEMMA StepIInv == IInv /\ [Next]_vars => IInv'
<1> SUFFICES ASSUME IInv, [Next]_vars PROVE IInv'
  OBVIOUS
<1>1. CASE UNCHANGED vars
  <2>1. UNCHANGED <<world, phase, bagOf, bags, watched, index, ann, at, failed, latest>>
    BY <1>1 DEF vars
  <2>2. TypeOK' /\ Working' /\ Holding'
    BY <2>1 DEF IInv, TypeOK, Working, Holding, Guarded, Observed, Stamped
  <2>3. StampsSurvive' /\ Listed'
    BY <2>1, SMTT(60) DEF IInv, StampsSurvive, Listed, Guarded, Observed, Stamped
  <2>4. Position'
    <3>1. Here' = Here /\ Current' = Current /\ (Applied' <=> Applied)
      BY <2>1 DEF Here, Applied, Current
    <3> QED BY <2>1, <3>1 DEF IInv, Position
  <2>5. Progress'
    BY <2>1, SameProgress DEF IInv
  <2> QED BY <2>2, <2>3, <2>4, <2>5 DEF IInv
<1>2. CASE AddPackage
  BY <1>2, AddPackageIInv
<1>3. ASSUME NEW p \in Plugins,
             Choose(p) \/ Check(p) \/ Store(p) \/ Load(p) \/ Stamp(p) \/ Return(p)
      PROVE  IInv'
  BY <1>3, ChooseIInv, CheckIInv, StoreIInv, LoadIInv, StampIInv, ReturnIInv
<1>4. CASE StartOverride \/ NextDirective \/ NextNode \/ EndOverride
  BY <1>4, StartOverrideIInv, NextDirectiveIInv, NextNodeIInv, EndOverrideIInv
<1>5. CASE (\E m \in Names : OverrideKey(m)) \/ OverrideArg
  BY <1>5, OverrideKeyIInv, OverrideArgIInv
<1> QED BY <1>1, <1>2, <1>3, <1>4, <1>5 DEF Next

LEMMA SpecIInv == Spec => []IInv
  BY InitIInv, StepIInv, PTL DEF Spec

(***************************************************************************)
(* Frontend, annotators and override pass keep bags, index and position    *)
(* well typed.                                                             *)
(***************************************************************************)
THEOREM MetadataTypes == Spec => []TypeOK
<1>1. IInv => TypeOK
  BY DEF IInv
<1> QED BY <1>1, SpecIInv, PTL

(***************************************************************************)
(* EnsureMeta and Set lose no stamp on a node whose bag existed before the *)
(* annotators started, and none at all if these run one after the other.   *)
(***************************************************************************)
THEOREM NoStampIsLost == Spec => []StampsSurvive
<1>1. IInv => StampsSurvive
  BY DEF IInv
<1> QED BY <1>1, SpecIInv, PTL

(***************************************************************************)
(* With the index on, every indexed node on which a name resolves to a     *)
(* value is listed.                                                        *)
(***************************************************************************)
THEOREM IndexIsComplete == Spec => []IndexFindsHolders
<1>1. IInv => IndexFindsHolders
  <2> SUFFICES ASSUME IInv, NEW n \in Nodes, NEW m \in Names, Observed(n), RawValue(n, m) # {}
               PROVE  <<m, n>> \in index
    BY MetadataAssumption DEF IndexFindsHolders, Observed
  <2>1. bagOf[n] # NoBag
    BY DEF RawValue
  <2>2. CASE phase = "frontend"
    <3>1. \A x \in Nodes : bagOf[x] = NoBag
      BY <2>2 DEF IInv, Holding
    <3> QED BY <2>1, <3>1
  <2>3. CASE phase # "frontend"
    <3> DEFINE b == bags[bagOf[n]]
               w == winning(b, m)
    <3>1. w # NoEntry /\ ~ Buries(w)
      BY <2>1 DEF RawValue
    <3>2. PICK a \in Authorities : w = entryAtAuthority(b, m, a)
      BY <3>1, WinnerIsTop
    <3>3. b[m][a] # NoEntry /\ ~ Buries(b[m][a])
      BY <3>1, <3>2, EntryFacts DEF entryAtAuthority
    <3>4. latest[n] = b
      BY <2>1, <2>3 DEF IInv, StampsSurvive, Guarded
    <3> QED BY <3>3, <3>4, <2>3 DEF IInv, Listed, Buries
  <2> QED BY <2>2, <2>3
<1> QED BY <1>1, SpecIInv, PTL

(***************************************************************************)
(* The `meta` directives of the source decide over the annotators: after   *)
(* a pass without an Error, every name of a guarded node the pass visits   *)
(* reads as the rules over directives, stamps and manual settings say.     *)
(***************************************************************************)
THEOREM DirectivesDecide == Spec => []SourceDecides
<1>1. IInv => SourceDecides
  <2> SUFFICES ASSUME IInv, phase = "generator", ~ failed, NEW n \in Visited, NEW m \in Names, Guarded(n)
               PROVE  RawValue(n, m) = Stands(n, m)
    BY DEF SourceDecides
  <2> n \in Nodes
    BY OrderFacts
  <2>1. latest[n] = IF bagOf[n] = NoBag THEN NewBag ELSE bags[bagOf[n]]
    BY DEF IInv, StampsSurvive
  <2>2. \A x \in Names : latest[n][x][Directive] = Asked(n, x)
    <3> SUFFICES ASSUME NEW x \in Names PROVE latest[n][x][Directive] = Asked(n, x)
      OBVIOUS
    <3>1. Settled(n, Len(world.directives[n]), x, latest[n][x][Directive])
      BY DEF IInv, Progress
    <3>2. TypeOK
      BY DEF IInv
    <3> QED BY <3>1, <3>2, SettledIsAsked
  <2>3. \A x \in Names, a \in Authorities : Said(n, x, a) = latest[n][x][a]
    BY <2>2 DEF Said
  <2> QED BY <2>1, <2>3, ReaderSeesRules DEF IInv
<1> QED BY <1>1, SpecIInv, PTL
=============================================================================
