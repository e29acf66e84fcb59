--------------------------- MODULE EmitViewProofs ---------------------------
(***************************************************************************)
(* Whatever the number of generators, their packages and the names in      *)
(* them: all calls agree on the host of a path, what a call returned from  *)
(* is recorded, FileFor gives every caller the one file of the view, and a *)
(* bucket that runs sequentially merges every entry, once.                 *)
(***************************************************************************)
EXTENDS EmitView, TLAPS

\* Most leaves are first-order reasoning about the invariant: Zenon first, SMT
\* for arithmetic, records and sequences.
USE ZenonT(3), SMTT(30)

\* The calls that are inside the critical section of addPkgMu hold it, and
\* a call about to create a host has found none; a host once chosen is the
\* one the packages bucket has.
Serialised ==
    \A c \in AddCalls :
        /\ pc[c] \in {"lookup", "create"} => addPkgMu = c
        /\ pc[c] = "create" => packages[PathOf[c]] = None
        /\ host[c] # None => host[c] = packages[PathOf[c]]

\* A call past its critical section has a host, and works on an entry of
\* the kind whose loop it is in.
OnHost ==
    \A c \in AddCalls :
        /\ pc[c] \notin {"start", "lookup", "create"} => host[c] # None
        /\ ahead[c] # <<>> => kind[c] \in Kinds
        /\ pc[c] \in {"append", "write"} => ahead[c] # <<>>

IInv == TypeOK /\ Serialised /\ OnHost

\* The constants a step's types depend on.
LEMMA ConstantTypes ==
    /\ Files \in Kinds
    /\ AddCalls \subseteq Calls /\ FileCalls \subseteq Calls
    /\ None \notin AddCalls /\ None \notin Entry
    /\ AddCalls \cap FileCalls = {}
BY CallsAssumption DEF Files, Kinds, Calls

\* What is left of a range statement's list is a list of the same entries.
LEMMA SeqParts ==
    ASSUME NEW S, NEW s \in Seq(S), s # <<>>
    PROVE  Head(s) \in S /\ Tail(s) \in Seq(S)
OBVIOUS

LEMMA InitIInv == Init => IInv
<1> SUFFICES ASSUME Init PROVE IInv
    OBVIOUS
<1>1. lists \in [AddCalls -> [Kinds -> Seq(Entry)]]
  <2> SUFFICES ASSUME NEW c \in AddCalls, NEW k \in Kinds
               PROVE [i \in DOMAIN NamesOf[c][k] |-> [by |-> c, name |-> NamesOf[c][k][i]]]
                        \in Seq(Entry)
      BY DEF Init
  <2>1. NamesOf[c][k] \in Seq(Names)
      BY CallsAssumption
  <2>2. \A i \in DOMAIN NamesOf[c][k] : [by |-> c, name |-> NamesOf[c][k][i]] \in Entry
      BY <2>1, ConstantTypes DEF Entry
  <2>3. DOMAIN NamesOf[c][k] = 1 .. Len(NamesOf[c][k]) /\ Len(NamesOf[c][k]) \in Nat
      BY <2>1
  <2> QED  BY <2>2, <2>3
<1>2. TypeOK
    BY <1>1, CallsAssumption, ConstantTypes DEF Init, TypeOK
<1>3. Serialised
    BY ConstantTypes DEF Init, Serialised
<1>4. OnHost
    BY ConstantTypes DEF Init, OnHost
<1> QED  BY <1>2, <1>3, <1>4 DEF IInv

\* AddPackage up to the end of its critical section.
LEMMA EnterStep ==
    ASSUME IInv, UNCHANGED overlap, NEW c \in AddCalls,
           AddLock(c) \/ AddLookup(c) \/ AddCreate(c)
    PROVE  IInv'
<1> USE ConstantTypes, CallsAssumption DEF IInv
<1>1. CASE AddLock(c)
  <2>1. TypeOK'  BY <1>1 DEF AddLock, Goto, TypeOK
  <2>2. Serialised'  BY <1>1 DEF AddLock, Goto, TypeOK, Serialised
  <2>3. OnHost'  BY <1>1 DEF AddLock, Goto, TypeOK, OnHost
  <2> QED  BY <2>1, <2>2, <2>3
<1>2. CASE AddLookup(c)
  <2>1. TypeOK'  BY <1>2 DEF AddLookup, Goto, TypeOK
  <2>2. Serialised'
    <3> SUFFICES ASSUME NEW d \in AddCalls
                 PROVE  /\ pc'[d] \in {"lookup", "create"} => addPkgMu' = d
                        /\ pc'[d] = "create" => packages'[PathOf[d]] = None
                        /\ host'[d] # None => host'[d] = packages'[PathOf[d]]
        BY DEF Serialised
    <3>1. addPkgMu = c /\ packages' = packages
        BY <1>2 DEF AddLookup, Serialised
    <3>2. d # c => pc[d] \notin {"lookup", "create"} /\ pc'[d] = pc[d] /\ host'[d] = host[d]
        BY <1>2, <3>1 DEF AddLookup, Goto, TypeOK, Serialised
    <3>3. CASE packages[PathOf[c]] = None
        BY <1>2, <3>1, <3>2, <3>3 DEF AddLookup, Goto, TypeOK, Serialised
    <3>4. CASE packages[PathOf[c]] # None
      <4>1. pc'[c] = "loop" /\ host'[c] = packages[PathOf[c]]
          BY <1>2, <3>4 DEF AddLookup, Goto, TypeOK
      <4> QED  BY <3>1, <3>2, <4>1 DEF Serialised
    <3> QED  BY <3>3, <3>4
  <2>3. OnHost'
    <3>1. UNCHANGED <<kind, ahead>>
        BY <1>2 DEF AddLookup
    <3>2. \A d \in AddCalls : d # c => pc'[d] = pc[d] /\ host'[d] = host[d]
        BY <1>2 DEF AddLookup, Goto, TypeOK
    <3>3. pc'[c] = "create" \/ (pc'[c] = "loop" /\ host'[c] # None)
        BY <1>2 DEF AddLookup, Goto, TypeOK
    <3> QED  BY <3>1, <3>2, <3>3 DEF OnHost
  <2> QED  BY <2>1, <2>2, <2>3
<1>3. CASE AddCreate(c)
  <2>1. TypeOK'  BY <1>3 DEF AddCreate, Goto, TypeOK
  <2>2. Serialised'
    <3> SUFFICES ASSUME NEW d \in AddCalls
                 PROVE  /\ pc'[d] \in {"lookup", "create"} => addPkgMu' = d
                        /\ pc'[d] = "create" => packages'[PathOf[d]] = None
                        /\ host'[d] # None => host'[d] = packages'[PathOf[d]]
        BY DEF Serialised
    <3>1. packages[PathOf[c]] = None /\ addPkgMu = c
        BY <1>3 DEF AddCreate, Serialised
    <3>2. packages' = [packages EXCEPT ![PathOf[c]] = c]
        BY <1>3, <3>1 DEF AddCreate
    <3>3. d # c => pc[d] \notin {"lookup", "create"} /\ pc'[d] = pc[d] /\ host'[d] = host[d]
        BY <1>3, <3>1 DEF AddCreate, Goto, TypeOK, Serialised
    <3>4. pc'[c] = "loop" /\ host'[c] = c
        BY <1>3 DEF AddCreate, Goto, TypeOK
    <3> QED  BY <3>1, <3>2, <3>3, <3>4 DEF TypeOK, Serialised
  <2>3. OnHost'  BY <1>3 DEF AddCreate, Goto, TypeOK, OnHost
  <2> QED  BY <2>1, <2>2, <2>3
<1> QED  BY <1>1, <1>2, <1>3

\* The loops of AddPackage: the hosts are settled, the mutex is not touched.
LEMMA LoopStep ==
    ASSUME IInv, UNCHANGED overlap, NEW c \in AddCalls,
           NextKind(c) \/ AddEntry(c) \/ AppendRead(c) \/ AppendWrite(c) \/ AddReturn(c)
    PROVE  IInv'
<1> USE ConstantTypes, CallsAssumption DEF IInv
<1>1. Serialised'
  <2>1. /\ UNCHANGED <<addPkgMu, packages, host>>
        /\ \A d \in Calls : pc'[d] # pc[d] => pc'[d] \notin {"lookup", "create"}
      BY ZenonT(60) DEF NextKind, AddEntry, AppendRead, AppendWrite, AddReturn, Goto, TypeOK
  <2> QED  BY <2>1 DEF Serialised
<1>2. CASE NextKind(c)
  <2>1. kind[c] \in Nat /\ kind[c] < NKinds
      BY <1>2 DEF NextKind, TypeOK
  <2>2. kind[c] + 1 \in Kinds /\ kind[c] + 1 \in 0 .. NKinds
      BY <2>1 DEF Kinds
  <2>3. TypeOK'  BY SMTT(60), <1>2, <2>2 DEF NextKind, TypeOK
  <2>4. OnHost'  BY <1>2, <2>2 DEF NextKind, TypeOK, OnHost
  <2> QED  BY <1>1, <2>3, <2>4
<1>3. CASE AddEntry(c)
  <2> DEFINE e == Head(ahead[c])
  <2>0. ahead[c] \in Seq(Entry) /\ ahead[c] # <<>>
      BY <1>3 DEF AddEntry, TypeOK
  <2>1. e \in Entry /\ Tail(ahead[c]) \in Seq(Entry)
      BY <2>0, SeqParts
  <2>2. bucket' \in [Kinds -> [Names -> Entry \cup {None}]]
      BY <1>3, <2>1 DEF AddEntry, Record, TypeOK, Entry
  <2>3. TypeOK'  BY <1>3, <2>1, <2>2 DEF AddEntry, Goto, TypeOK
  <2>4. OnHost'  BY <1>3 DEF AddEntry, Goto, TypeOK, OnHost
  <2> QED  BY <1>1, <2>3, <2>4
<1>4. CASE AppendRead(c)
  <2>1. host[c] \in AddCalls /\ kind[c] \in Kinds
      BY <1>4 DEF AppendRead, TypeOK, OnHost
  <2>2. lists[host[c]][kind[c]] \in Seq(Entry)
      BY <2>1 DEF TypeOK
  <2>3. TypeOK'  BY <1>4, <2>2 DEF AppendRead, Goto, TypeOK
  <2>4. OnHost'  BY <1>4 DEF AppendRead, Goto, TypeOK, OnHost
  <2> QED  BY <1>1, <2>3, <2>4
<1>5. CASE AppendWrite(c)
  <2>1. ahead[c] \in Seq(Entry) /\ ahead[c] # <<>> /\ seen[c] \in Seq(Entry)
      BY <1>5 DEF AppendWrite, TypeOK, OnHost
  <2>2. /\ Append(seen[c], Head(ahead[c])) \in Seq(Entry)
        /\ Tail(ahead[c]) \in Seq(Entry)
      BY <2>1, SeqParts
  <2>3. TypeOK'  BY <1>5, <2>2 DEF AppendWrite, Goto, TypeOK
  <2>4. OnHost'  BY <1>5 DEF AppendWrite, Goto, TypeOK, OnHost
  <2> QED  BY <1>1, <2>3, <2>4
<1>6. CASE AddReturn(c)
  <2>1. TypeOK'  BY <1>6 DEF AddReturn, Goto, TypeOK
  <2>2. OnHost'  BY <1>6 DEF AddReturn, Goto, TypeOK, OnHost
  <2> QED  BY <1>1, <2>1, <2>2
<1> QED  BY <1>2, <1>3, <1>4, <1>5, <1>6

\* FileFor has a mutex of its own and no host.
LEMMA FileStepKeeps ==
    ASSUME IInv, UNCHANGED overlap, NEW c \in FileCalls, FileStep(c)
    PROVE  IInv'
<1> USE ConstantTypes, CallsAssumption DEF IInv
<1>1. /\ UNCHANGED <<addPkgMu, packages, lists, host, kind, ahead, seen>>
      /\ \A d \in AddCalls : pc'[d] = pc[d]
  <2>1. UNCHANGED <<addPkgMu, packages, lists, host, kind, ahead, seen>>
      BY DEF FileStep, FileLock, FileLookup, FileCreate
  <2>2. \E l \in {"lookup", "create", "done"} : Goto(c, l)
      BY DEF FileStep, FileLock, FileLookup, FileCreate
  <2>3. c \notin AddCalls /\ pc \in [Calls -> {"start", "lookup", "create", "loop",
                                            "append", "write", "done", "failed"}]
      BY DEF TypeOK
  <2> QED  BY <2>1, <2>2, <2>3 DEF Goto
<1>2. Serialised' /\ OnHost'
    BY <1>1 DEF Serialised, OnHost
<1>3. CASE FileLock(c)
  <2>1. TypeOK'  BY <1>3 DEF FileLock, Goto, TypeOK
  <2> QED  BY <1>2, <2>1
<1>4. CASE FileLookup(c)
  <2>1. bucket[Files][TargetOf[c]] \in Entry \cup {None}
      BY SMTT(60) DEF TypeOK
  <2> QED  BY ZenonT(60), <1>2, <1>4, <2>1 DEF FileLookup, Goto, TypeOK
<1>5. CASE FileCreate(c)
  <2>1. [by |-> c, name |-> TargetOf[c]] \in Entry
      BY DEF Entry
  <2>2. TypeOK'  BY <1>5, <2>1 DEF FileCreate, Record, Goto, TypeOK
  <2> QED  BY <1>2, <2>2
<1> QED  BY <1>3, <1>4, <1>5 DEF FileStep

\* Every step of every generator keeps the invariant.
LEMMA NextIInv == IInv /\ [Next]_vars => IInv'
<1> SUFFICES ASSUME IInv, [Next]_vars PROVE IInv'
    OBVIOUS
<1>1. CASE \E c \in AddCalls : AddStep(c)
    BY <1>1, EnterStep, LoopStep DEF AddStep, Next, Terminated, vars
<1>2. CASE \E c \in FileCalls : FileStep(c)
    BY <1>2, FileStepKeeps DEF Next, Terminated, vars
<1>3. CASE UNCHANGED vars
    BY <1>3 DEF vars, IInv, TypeOK, Serialised, OnHost
<1> QED  BY <1>1, <1>2, <1>3 DEF Next, Terminated

\* The inductive invariant of AddPackage and FileFor holds throughout.
THEOREM Inductive == Spec => []IInv
BY InitIInv, NextIInv, PTL DEF Spec

\* Type correctness of the view's state, for any calls, packages and names.
THEOREM ViewTypeCorrect == Spec => []TypeOK
<1>1. IInv => TypeOK  BY DEF IInv
<1> QED  BY <1>1, Inductive, PTL

\* However many generators call AddPackage for one path and however their
\* calls interleave, all of them use the same host package.
THEOREM HostsAgree == Spec => []OneHostPerPath
<1>1. IInv => OneHostPerPath
    BY DEF IInv, Serialised, OneHostPerPath
<1> QED  BY <1>1, Inductive, PTL

-----------------------------------------------------------------------------
(* Further invariants, for what the calls leave behind. *)

\* Entry i of kind k of the package that call c adds.
OwnEntry(c, k, i) == [by |-> c, name |-> NamesOf[c][k][i]]

Occurs(e, s) == \E j \in DOMAIN s : s[j] = e

\* Every call finds its own entries in its list: no append loses an entry of
\* the host itself.
OwnListed ==
    \A c \in AddCalls, k \in Kinds : \A i \in DOMAIN NamesOf[c][k] :
        Occurs(OwnEntry(c, k, i), lists[c][k])

\* The entries a call has passed are in the buckets.
Passed(d) ==
    /\ pc[d] = "write" => \A i \in DOMAIN NamesOf[host[d]][kind[d]] :
          Occurs(OwnEntry(host[d], kind[d], i), seen[d])
    /\ pc[d] # "failed" => \A k \in 1 .. kind[d] : \A i \in DOMAIN NamesOf[d][k] :
          \/ bucket[k][NamesOf[d][k][i]] = OwnEntry(d, k, i)
          \/ k = kind[d] /\ Occurs(OwnEntry(d, k, i), ahead[d])
    /\ pc[d] \in {"append", "write"} =>
          bucket[kind[d]][Head(ahead[d]).name] = Head(ahead[d])
    /\ pc[d] = "done" => kind[d] = NKinds /\ ahead[d] = <<>>

Recorded == OwnListed /\ \A d \in AddCalls : Passed(d)

\* e comes from a package that lists it under kind k.
Listed(e, k) ==
    e.by \in AddCalls /\ \E i \in DOMAIN NamesOf[e.by][k] : NamesOf[e.by][k][i] = e.name

\* What AddPackage handles comes from the packages: the entries a call has
\* at hand,
FromPackages(d) ==
    /\ \A j \in DOMAIN ahead[d] : Listed(ahead[d][j], kind[d])
    /\ pc[d] = "write" => \A j \in DOMAIN seen[d] : Listed(seen[d][j], kind[d])

\* and the lists.
Provenance ==
    /\ \A c \in AddCalls, k \in Kinds : \A j \in DOMAIN lists[c][k] : Listed(lists[c][k][j], k)
    /\ \A d \in AddCalls : FromPackages(d)

Active(c) == pc[c] \notin {"start", "done", "failed"}

\* Without overlap one call runs at a time.
Alone == ~overlap => \A c, d \in Calls : Active(c) /\ Active(d) => c = d

\* No call that may run at the same time brings the file c asks for.
Unlisted(c) ==
    overlap => \A d \in AddCalls : \A i \in DOMAIN NamesOf[d][Files] :
                  NamesOf[d][Files][i] # TargetOf[c]

\* The critical section of fileForMu covers lookup and create.
FileInv ==
    \A c \in FileCalls :
        /\ pc[c] \in {"lookup", "create"} => fileForMu = c
        /\ pc[c] = "create" /\ Unlisted(c) => bucket[Files][TargetOf[c]] = None
        /\ pc[c] = "done" /\ Unlisted(c) =>
              bucket[Files][TargetOf[c]] = result[c] /\ result[c] # None

-----------------------------------------------------------------------------
(* A bucket that runs sequentially. *)

Size(c, k) == Len(NamesOf[c][k])

\* How many entries of kind k call c is done with, and how many of them the
\* bucket has: one more while the host is told.
Merged(c, k) ==
    CASE k < kind[c] -> Size(c, k)
      [] k = kind[c] -> Size(c, k) - Len(ahead[c])
      [] k > kind[c] -> 0

Reached(c, k) ==
    IF k = kind[c] /\ pc[c] \in {"append", "write"} THEN Merged(c, k) + 1 ELSE Merged(c, k)

\* The list of a package starts with its own entries, and is no longer than
\* that until its call has returned;
OwnList(c) ==
    \A k \in Kinds :
        /\ Size(c, k) <= Len(lists[c][k])
        /\ ~Returned(c) => Len(lists[c][k]) = Size(c, k)
        /\ \A i \in 1 .. Size(c, k) : lists[c][k][i] = OwnEntry(c, k, i)

\* so a call works through its own entries.
OwnAhead(c) ==
    /\ pc[c] \in {"start", "lookup", "create"} => kind[c] = 0
    /\ kind[c] \in Kinds =>
        /\ Len(ahead[c]) <= Size(c, kind[c])
        /\ \A j \in 1 .. Len(ahead[c]) :
              ahead[c][j] = OwnEntry(c, kind[c], Size(c, kind[c]) - Len(ahead[c]) + j)

\* The bucket has what a call has reached, under different names, and nothing
\* else of it.
InBucket(c, k) ==
    /\ \A i \in 1 .. Reached(c, k) :
        /\ bucket[k][NamesOf[c][k][i]] = OwnEntry(c, k, i)
        /\ \A j \in 1 .. Reached(c, k) : NamesOf[c][k][i] = NamesOf[c][k][j] => i = j
    /\ \A x \in Names : bucket[k][x] # None /\ bucket[k][x].by = c =>
          \E i \in 1 .. Reached(c, k) : NamesOf[c][k][i] = x

\* The host has what a call has merged into it.
InHost(c, k) ==
    host[c] # c => \A i \in 1 .. Merged(c, k) : Occurs(OwnEntry(c, k, i), lists[host[c]][k])

\* The rest of a host's list is what other calls have merged into it, once.
Foreign(h, k, j) ==
    /\ \E c \in AddCalls \ {h} : \E i \in 1 .. Merged(c, k) : lists[h][k][j] = OwnEntry(c, k, i)
    /\ \A m \in 1 .. Len(lists[h][k]) : lists[h][k][m] = lists[h][k][j] => m = j

\* A call failed over a name that another call holds, or that its package
\* lists twice.
FailedOver(c) ==
    \E k \in Kinds : \E i \in DOMAIN NamesOf[c][k] :
        /\ bucket[k][NamesOf[c][k][i]] # None
        /\ \/ bucket[k][NamesOf[c][k][i]].by # c
           \/ \E j \in DOMAIN NamesOf[c][k] \ {i} : NamesOf[c][k][j] = NamesOf[c][k][i]

\* A host has begun before anyone merges into it, and nobody else appends
\* between the two halves of an append.
InTurn ==
    /\ \A p \in Paths : packages[p] # None => pc[packages[p]] # "start"
    /\ \A c \in AddCalls :
        /\ pc[c] = "write" => seen[c] = lists[host[c]][kind[c]]
        /\ pc[c] \in {"append", "write"} => host[c] # c
        /\ pc[c] = "failed" => FailedOver(c)

OwnFirst == \A c \in AddCalls : OwnList(c) /\ OwnAhead(c)

Merges ==
    /\ \A c \in AddCalls, k \in Kinds : InBucket(c, k) /\ InHost(c, k)
    /\ \A h \in AddCalls, k \in Kinds :
          \A j \in Size(h, k) + 1 .. Len(lists[h][k]) : Foreign(h, k, j)

SeqInv == ~overlap => OwnFirst /\ Merges /\ InTurn

-----------------------------------------------------------------------------
(* What the steps do, at each call, kind and name. *)

\* The sequence facts the proofs use.
LEMMA TailFacts ==
    ASSUME NEW S, NEW s \in Seq(S), s # <<>>
    PROVE  /\ Len(s) \in Nat \ {0} /\ DOMAIN s = 1 .. Len(s) /\ Head(s) = s[1]
           /\ Len(Tail(s)) = Len(s) - 1 /\ DOMAIN Tail(s) = 1 .. (Len(s) - 1)
           /\ \A j \in 1 .. (Len(s) - 1) : Tail(s)[j] = s[j + 1]
OBVIOUS

LEMMA AppendFacts ==
    ASSUME NEW S, NEW s \in Seq(S), NEW x \in S
    PROVE  /\ Len(s) \in Nat /\ DOMAIN s = 1 .. Len(s)
           /\ Len(Append(s, x)) = Len(s) + 1 /\ DOMAIN Append(s, x) = 1 .. (Len(s) + 1)
           /\ \A j \in 1 .. Len(s) : Append(s, x)[j] = s[j]
           /\ Append(s, x)[Len(s) + 1] = x
OBVIOUS

\* Each entry of a list is its head or in its tail.
LEMMA HeadOrTail ==
    ASSUME NEW S, NEW s \in Seq(S), s # <<>>, NEW e, Occurs(e, s)
    PROVE  e = Head(s) \/ Occurs(e, Tail(s))
<1>1. PICK j \in 1 .. Len(s) : s[j] = e
    BY TailFacts DEF Occurs
<1>2. CASE j = 1
    BY <1>1, <1>2, TailFacts
<1>3. CASE j # 1
  <2>1. j - 1 \in 1 .. (Len(s) - 1) /\ (j - 1) + 1 = j
      BY <1>3, TailFacts
  <2>2. j - 1 \in DOMAIN Tail(s) /\ Tail(s)[j - 1] = e
      BY <1>1, <2>1, TailFacts
  <2> QED  BY <2>2 DEF Occurs
<1> QED  BY <1>2, <1>3

LEMMA OccursAppend ==
    ASSUME NEW S, NEW s \in Seq(S), NEW x \in S
    PROVE  /\ Occurs(x, Append(s, x))
           /\ \A e : Occurs(e, s) => Occurs(e, Append(s, x))
           /\ \A e : Occurs(e, Append(s, x)) => e = x \/ Occurs(e, s)
<1>1. Len(s) + 1 \in DOMAIN Append(s, x)
    BY AppendFacts
<1>2. \A j \in DOMAIN s : j \in DOMAIN Append(s, x) /\ Append(s, x)[j] = s[j]
    BY AppendFacts
<1>3. \A j \in DOMAIN Append(s, x) : j \in DOMAIN s \/ j = Len(s) + 1
    BY AppendFacts
<1> QED  BY <1>1, <1>2, <1>3, AppendFacts DEF Occurs

\* The names of a package.
LEMMA NamesTypes ==
    ASSUME NEW c \in AddCalls, NEW k \in Kinds
    PROVE  /\ NamesOf[c][k] \in Seq(Names) /\ Size(c, k) \in Nat
           /\ DOMAIN NamesOf[c][k] = 1 .. Size(c, k)
           /\ \A i \in 1 .. Size(c, k) : NamesOf[c][k][i] \in Names
           /\ \A i \in 1 .. Size(c, k) : /\ OwnEntry(c, k, i) \in Entry /\ OwnEntry(c, k, i) # None
                                         /\ OwnEntry(c, k, i).by = c
                                         /\ OwnEntry(c, k, i).name = NamesOf[c][k][i]
<1>1. NamesOf[c][k] \in Seq(Names)
    BY CallsAssumption
<1>2. Size(c, k) \in Nat /\ DOMAIN NamesOf[c][k] = 1 .. Size(c, k)
      /\ \A i \in 1 .. Size(c, k) : NamesOf[c][k][i] \in Names
    BY <1>1 DEF Size
<1>3. ASSUME NEW i \in 1 .. Size(c, k)
      PROVE  /\ OwnEntry(c, k, i) \in Entry /\ OwnEntry(c, k, i).by = c
             /\ OwnEntry(c, k, i).name = NamesOf[c][k][i]
    BY <1>2, ConstantTypes DEF OwnEntry, Entry
<1> QED  BY <1>1, <1>2, <1>3, ConstantTypes

\* What no step of call c touches.
Aside(c) ==
    /\ \A d \in Calls \ {c} : pc'[d] = pc[d]
    /\ \A d \in AddCalls \ {c} :
         host'[d] = host[d] /\ kind'[d] = kind[d] /\ ahead'[d] = ahead[d] /\ seen'[d] = seen[d]
    /\ \A d \in FileCalls \ {c} : result'[d] = result[d]

\* AddPackage up to the end of its critical section.
LEMMA EnterFacts ==
    ASSUME TypeOK, NEW c \in AddCalls, AddLock(c) \/ AddLookup(c) \/ AddCreate(c)
    PROVE  /\ Aside(c)
           /\ UNCHANGED <<fileForMu, bucket, lists, kind, ahead, seen, result>>
           /\ pc[c] \in {"start", "lookup", "create"} /\ pc'[c] \in {"lookup", "create", "loop"}
<1>0. c \in Calls
    BY ConstantTypes
<1>1. UNCHANGED <<fileForMu, bucket, lists, kind, ahead, seen, result>>
    BY DEF AddLock, AddLookup, AddCreate
<1>2. /\ pc[c] \in {"start", "lookup", "create"}
      /\ Goto(c, "lookup") \/ Goto(c, "create") \/ Goto(c, "loop")
      /\ host' = host \/ \E h \in AddCalls \cup {None} : host' = [host EXCEPT ![c] = h]
  <2>1. CASE AddLock(c)  BY <2>1 DEF AddLock, MayStart
  <2>2. CASE AddLookup(c)
    <3>1. packages[PathOf[c]] \in AddCalls \cup {None}
        BY CallsAssumption DEF TypeOK
    <3> QED  BY <2>2, <3>1 DEF AddLookup
  <2>3. CASE AddCreate(c)  BY <2>3 DEF AddCreate
  <2> QED  BY <2>1, <2>2, <2>3
<1>3. /\ pc'[c] \in {"lookup", "create", "loop"}
      /\ \A d \in Calls \ {c} : pc'[d] = pc[d]
    BY <1>0, <1>2 DEF Goto, TypeOK
<1>4. \A d \in AddCalls \ {c} : host'[d] = host[d]
    BY <1>2 DEF TypeOK
<1> QED  BY <1>1, <1>2, <1>3, <1>4 DEF Aside

LEMMA NextKindFacts ==
    ASSUME IInv, NEW c \in AddCalls, NextKind(c)
    PROVE  /\ Aside(c)
           /\ UNCHANGED <<pc, fileForMu, packages, bucket, lists, host, seen, result>>
           /\ pc[c] = "loop" /\ ahead[c] = <<>>
           /\ kind[c] + 1 \in Kinds /\ kind'[c] = kind[c] + 1
           /\ ahead'[c] = lists[c][kind[c] + 1]
<1>0. kind[c] \in Nat /\ kind[c] < NKinds
    BY CallsAssumption DEF NextKind, IInv, TypeOK
<1>1. kind[c] + 1 \in Kinds
    BY <1>0, CallsAssumption DEF Kinds
<1>2. /\ UNCHANGED <<pc, fileForMu, packages, bucket, lists, host, seen, result>>
      /\ pc[c] = "loop" /\ ahead[c] = <<>>
    BY DEF NextKind
<1>3. /\ kind'[c] = kind[c] + 1 /\ ahead'[c] = lists[c][kind[c] + 1]
      /\ \A d \in AddCalls \ {c} : kind'[d] = kind[d] /\ ahead'[d] = ahead[d]
    BY DEF NextKind, IInv, TypeOK
<1> QED  BY <1>1, <1>2, <1>3 DEF Aside

\* The entry call c is at.
LEMMA HeadTypes ==
    ASSUME IInv, NEW c \in AddCalls, ahead[c] # <<>>
    PROVE  /\ kind[c] \in Kinds /\ ahead[c] \in Seq(Entry)
           /\ Head(ahead[c]) \in Entry /\ Head(ahead[c]).name \in Names /\ Head(ahead[c]) # None
<1>1. kind[c] \in Kinds /\ ahead[c] \in Seq(Entry)
    BY DEF IInv, OnHost, TypeOK
<1>2. Head(ahead[c]) \in Entry
    BY <1>1, SeqParts
<1>3. Head(ahead[c]).name \in Names
    BY <1>2 DEF Entry
<1> QED  BY <1>1, <1>2, <1>3, ConstantTypes

\* Bucket.Add fills one free slot or none.
LEMMA RecordFacts ==
    ASSUME TypeOK, NEW k \in Kinds, NEW e \in Entry, e.name \in Names, Record(k, e)
    PROVE  /\ bucket[k][e.name] # None => bucket' = bucket
           /\ bucket[k][e.name] = None => bucket'[k][e.name] = e
           /\ \A m \in Kinds, x \in Names : m # k \/ x # e.name => bucket'[m][x] = bucket[m][x]
           /\ \A m \in Kinds, x \in Names : bucket[m][x] # None => bucket'[m][x] = bucket[m][x]
<1>1. CASE bucket[k][e.name] # None
    BY <1>1 DEF Record
<1>2. CASE bucket[k][e.name] = None
  <2>1. bucket' = [bucket EXCEPT ![k][e.name] = e]
      BY <1>2 DEF Record
  <2>2. /\ bucket'[k][e.name] = e
        /\ \A m \in Kinds, x \in Names : m # k \/ x # e.name => bucket'[m][x] = bucket[m][x]
      BY <2>1 DEF TypeOK
  <2> QED  BY <1>2, <2>2
<1> QED  BY <1>1, <1>2

LEMMA AddEntryFacts ==
    ASSUME IInv, NEW c \in AddCalls, AddEntry(c)
    PROVE  LET e == Head(ahead[c]) IN
           /\ Aside(c) /\ ahead[c] # <<>> /\ pc[c] = "loop" /\ kind'[c] = kind[c]
           /\ UNCHANGED <<fileForMu, packages, lists, host, kind, seen, result>>
           /\ Record(kind[c], e)
           /\ \/ bucket[kind[c]][e.name] # None /\ pc'[c] = "failed" /\ ahead'[c] = ahead[c]
              \/ /\ bucket[kind[c]][e.name] = None /\ host[c] # c /\ pc'[c] = "append"
                 /\ ahead'[c] = ahead[c]
              \/ /\ bucket[kind[c]][e.name] = None /\ host[c] = c /\ pc'[c] = "loop"
                 /\ ahead'[c] = Tail(ahead[c])
<1> DEFINE e == Head(ahead[c])
           b == bucket[kind[c]][e.name]
<1>0. c \in Calls
    BY ConstantTypes
<1>1. /\ UNCHANGED <<fileForMu, packages, lists, host, kind, seen, result>>
      /\ Record(kind[c], e) /\ ahead[c] # <<>> /\ pc[c] = "loop"
    BY DEF AddEntry
<1>2. /\ Goto(c, CASE b # None -> "failed" [] b = None /\ host[c] # c -> "append" [] OTHER -> "loop")
      /\ ahead' = IF b = None /\ host[c] = c THEN [ahead EXCEPT ![c] = Tail(@)] ELSE ahead
    BY DEF AddEntry
<1> HIDE DEF b, e
<1>3. /\ \A d \in Calls \ {c} : pc'[d] = pc[d]
      /\ pc'[c] = CASE b # None -> "failed" [] b = None /\ host[c] # c -> "append" [] OTHER -> "loop"
    BY <1>0, <1>2 DEF Goto, IInv, TypeOK
<1>4. /\ \A d \in AddCalls \ {c} : ahead'[d] = ahead[d]
      /\ ahead'[c] = IF b = None /\ host[c] = c THEN Tail(ahead[c]) ELSE ahead[c]
    BY <1>2 DEF IInv, TypeOK
<1>5. Aside(c)
    BY <1>1, <1>3, <1>4 DEF Aside
<1>6. \/ b # None /\ pc'[c] = "failed" /\ ahead'[c] = ahead[c]
      \/ b = None /\ host[c] # c /\ pc'[c] = "append" /\ ahead'[c] = ahead[c]
      \/ b = None /\ host[c] = c /\ pc'[c] = "loop" /\ ahead'[c] = Tail(ahead[c])
    BY <1>3, <1>4
<1> QED  BY <1>1, <1>5, <1>6 DEF b, e

LEMMA AppendReadFacts ==
    ASSUME IInv, NEW c \in AddCalls, AppendRead(c)
    PROVE  /\ Aside(c) /\ pc[c] = "append" /\ pc'[c] = "write"
           /\ UNCHANGED <<fileForMu, packages, bucket, lists, host, kind, ahead, result>>
           /\ seen'[c] = lists[host[c]][kind[c]]
<1>1. c \in Calls
    BY ConstantTypes
<1>2. /\ UNCHANGED <<fileForMu, packages, bucket, lists, host, kind, ahead, result>>
      /\ pc[c] = "append"
    BY DEF AppendRead
<1>3. pc'[c] = "write" /\ \A d \in Calls \ {c} : pc'[d] = pc[d]
    BY <1>1 DEF AppendRead, Goto, IInv, TypeOK
<1>4. seen'[c] = lists[host[c]][kind[c]] /\ \A d \in AddCalls \ {c} : seen'[d] = seen[d]
    BY DEF AppendRead, IInv, TypeOK
<1> QED  BY <1>2, <1>3, <1>4 DEF Aside

LEMMA AppendWriteFacts ==
    ASSUME IInv, NEW c \in AddCalls, AppendWrite(c)
    PROVE  /\ Aside(c) /\ pc[c] = "write" /\ pc'[c] = "loop" /\ ahead[c] # <<>>
           /\ UNCHANGED <<fileForMu, packages, bucket, host, kind, seen, result>>
           /\ host[c] \in AddCalls /\ kind[c] \in Kinds /\ seen[c] \in Seq(Entry)
           /\ ahead'[c] = Tail(ahead[c])
           /\ lists'[host[c]][kind[c]] = Append(seen[c], Head(ahead[c]))
           /\ \A d \in AddCalls, k \in Kinds : d # host[c] \/ k # kind[c] => lists'[d][k] = lists[d][k]
<1>1. c \in Calls
    BY ConstantTypes
<1>2. /\ UNCHANGED <<fileForMu, packages, bucket, host, kind, seen, result>>
      /\ pc[c] = "write" /\ ahead[c] # <<>>
    BY DEF AppendWrite, IInv, OnHost
<1>3. host[c] \in AddCalls /\ kind[c] \in Kinds /\ seen[c] \in Seq(Entry)
    BY <1>2 DEF IInv, TypeOK, OnHost
<1>4. pc'[c] = "loop" /\ \A d \in Calls \ {c} : pc'[d] = pc[d]
    BY <1>1 DEF AppendWrite, Goto, IInv, TypeOK
<1>5. ahead'[c] = Tail(ahead[c]) /\ \A d \in AddCalls \ {c} : ahead'[d] = ahead[d]
    BY DEF AppendWrite, IInv, TypeOK
<1>6. /\ lists'[host[c]][kind[c]] = Append(seen[c], Head(ahead[c]))
      /\ \A d \in AddCalls, k \in Kinds : d # host[c] \/ k # kind[c] => lists'[d][k] = lists[d][k]
    BY <1>3 DEF AppendWrite, IInv, TypeOK
<1> QED  BY <1>2, <1>3, <1>4, <1>5, <1>6 DEF Aside

LEMMA AddReturnFacts ==
    ASSUME IInv, NEW c \in AddCalls, AddReturn(c)
    PROVE  /\ Aside(c) /\ pc[c] = "loop" /\ pc'[c] = "done"
           /\ UNCHANGED <<fileForMu, packages, bucket, lists, host, kind, ahead, seen, result>>
           /\ ahead[c] = <<>> /\ kind[c] = NKinds
<1>1. c \in Calls
    BY ConstantTypes
<1>2. /\ UNCHANGED <<fileForMu, packages, bucket, lists, host, kind, ahead, seen, result>>
      /\ pc[c] = "loop" /\ ahead[c] = <<>> /\ kind[c] = NKinds
    BY DEF AddReturn
<1>3. pc'[c] = "done" /\ \A d \in Calls \ {c} : pc'[d] = pc[d]
    BY <1>1 DEF AddReturn, Goto, IInv, TypeOK
<1> QED  BY <1>2, <1>3 DEF Aside

\* FileFor leaves the packages alone, and fills one free slot or none.
LEMMA FileFacts ==
    ASSUME IInv, NEW c \in FileCalls, FileStep(c)
    PROVE  LET f == [by |-> c, name |-> TargetOf[c]]
               b == bucket[Files][TargetOf[c]] IN
           /\ Aside(c) /\ \A d \in AddCalls : pc'[d] = pc[d]
           /\ UNCHANGED <<packages, lists, host, kind, ahead, seen>>
           /\ f \in Entry /\ f.name = TargetOf[c] /\ TargetOf[c] \in Names
           /\ \/ /\ MayStart(c) /\ fileForMu = None /\ fileForMu' = c /\ pc'[c] = "lookup"
                 /\ UNCHANGED <<bucket, result>>
              \/ /\ pc[c] = "lookup" /\ b = None /\ pc'[c] = "create"
                 /\ UNCHANGED <<bucket, result, fileForMu>>
              \/ /\ pc[c] = "lookup" /\ b # None /\ pc'[c] = "done"
                 /\ UNCHANGED bucket /\ result'[c] = b /\ fileForMu' = None
              \/ /\ pc[c] = "create" /\ pc'[c] = "done" /\ Record(Files, f)
                 /\ result'[c] = f /\ fileForMu' = None
<1> DEFINE f == [by |-> c, name |-> TargetOf[c]]
           b == bucket[Files][TargetOf[c]]
<1>0. c \in Calls /\ c \notin AddCalls /\ AddCalls \subseteq Calls
    BY ConstantTypes
<1>1. f \in Entry /\ f.name = TargetOf[c] /\ TargetOf[c] \in Names
    BY <1>0, CallsAssumption DEF Entry
<1>2. UNCHANGED <<packages, lists, host, kind, ahead, seen>>
    BY DEF FileStep, FileLock, FileLookup, FileCreate
<1>3. \/ /\ MayStart(c) /\ fileForMu = None /\ fileForMu' = c /\ Goto(c, "lookup")
         /\ UNCHANGED <<bucket, result>>
      \/ /\ pc[c] = "lookup" /\ b = None /\ Goto(c, "create")
         /\ UNCHANGED <<bucket, result, fileForMu>>
      \/ /\ pc[c] = "lookup" /\ b # None /\ Goto(c, "done")
         /\ UNCHANGED bucket /\ result' = [result EXCEPT ![c] = b] /\ fileForMu' = None
      \/ /\ pc[c] = "create" /\ Goto(c, "done") /\ Record(Files, f)
         /\ result' = [result EXCEPT ![c] = f] /\ fileForMu' = None
    BY DEF FileStep, FileLock, FileLookup, FileCreate
<1>4. \A l : Goto(c, l) => pc'[c] = l /\ \A d \in Calls \ {c} : pc'[d] = pc[d]
    BY <1>0 DEF Goto, IInv, TypeOK
<1>5. \A v : result' = [result EXCEPT ![c] = v] =>
                result'[c] = v /\ \A d \in FileCalls \ {c} : result'[d] = result[d]
    BY DEF IInv, TypeOK
<1> HIDE DEF f, b
<1>6. /\ \A d \in Calls \ {c} : pc'[d] = pc[d]
      /\ \A d \in FileCalls \ {c} : result'[d] = result[d]
    BY <1>3, <1>4, <1>5
<1>7. Aside(c) /\ \A d \in AddCalls : pc'[d] = pc[d]
    BY <1>0, <1>2, <1>6 DEF Aside
<1>8. \/ /\ MayStart(c) /\ fileForMu = None /\ fileForMu' = c /\ pc'[c] = "lookup"
         /\ UNCHANGED <<bucket, result>>
      \/ /\ pc[c] = "lookup" /\ b = None /\ pc'[c] = "create"
         /\ UNCHANGED <<bucket, result, fileForMu>>
      \/ /\ pc[c] = "lookup" /\ b # None /\ pc'[c] = "done"
         /\ UNCHANGED bucket /\ result'[c] = b /\ fileForMu' = None
      \/ /\ pc[c] = "create" /\ pc'[c] = "done" /\ Record(Files, f)
         /\ result'[c] = f /\ fileForMu' = None
    BY <1>3, <1>4, <1>5
<1> QED  BY <1>1, <1>2, <1>7, <1>8 DEF f, b

\* A slot that is filled stays as it is.
BucketGrows == \A m \in Kinds, x \in Names : bucket[m][x] # None => bucket'[m][x] = bucket[m][x]

LEMMA StepGrows == IInv /\ [Next]_vars => BucketGrows
<1> SUFFICES ASSUME IInv, [Next]_vars PROVE BucketGrows
    OBVIOUS
<1>1. CASE bucket' = bucket
    BY <1>1 DEF BucketGrows
<1>2. ASSUME NEW c \in AddCalls, AddEntry(c) PROVE BucketGrows
  <2>1. Record(kind[c], Head(ahead[c])) /\ ahead[c] # <<>>
      BY <1>2, AddEntryFacts
  <2> QED  BY <2>1, HeadTypes, RecordFacts DEF BucketGrows, IInv
<1>3. ASSUME NEW c \in FileCalls, FileCreate(c) PROVE BucketGrows
  <2>1. Record(Files, [by |-> c, name |-> TargetOf[c]])
      BY <1>3 DEF FileCreate
  <2>2. [by |-> c, name |-> TargetOf[c]] \in Entry /\ TargetOf[c] \in Names /\ Files \in Kinds
      BY CallsAssumption, ConstantTypes DEF Entry
  <2> QED  BY <2>1, <2>2, RecordFacts DEF BucketGrows, IInv
<1> QED  BY <1>1, <1>2, <1>3 DEF Next, vars, Terminated, AddStep, FileStep, AddLock, AddLookup, AddCreate,
            NextKind, AppendRead, AppendWrite, AddReturn, FileLock, FileLookup

-----------------------------------------------------------------------------
(* A call that returns has recorded its package. *)

\* The kinds a call has begun are kinds.
LEMMA BegunKinds ==
    ASSUME TypeOK, NEW d \in AddCalls
    PROVE  kind[d] \in Nat /\ \A k \in 1 .. kind[d] : k \in Kinds
BY CallsAssumption DEF TypeOK, Kinds

\* What a call has recorded stays recorded.
LEMMA PassedStays ==
    ASSUME IInv, NEW d \in AddCalls, Passed(d), BucketGrows, pc[d] # "failed",
           NEW k \in 1 .. kind[d], NEW i \in DOMAIN NamesOf[d][k]
    PROVE  \/ bucket'[k][NamesOf[d][k][i]] = OwnEntry(d, k, i)
           \/ k = kind[d] /\ Occurs(OwnEntry(d, k, i), ahead[d])
<1>1. k \in Kinds
    BY BegunKinds DEF IInv
<1>2. NamesOf[d][k][i] \in Names /\ OwnEntry(d, k, i) # None
    BY <1>1, NamesTypes
<1>3. \/ bucket[k][NamesOf[d][k][i]] = OwnEntry(d, k, i)
      \/ k = kind[d] /\ Occurs(OwnEntry(d, k, i), ahead[d])
    BY DEF Passed
<1> QED  BY <1>1, <1>2, <1>3 DEF BucketGrows

\* A call whose loop does not advance.
LEMMA PassedFrame ==
    ASSUME IInv, NEW d \in AddCalls, Passed(d), BucketGrows,
           kind'[d] = kind[d], ahead'[d] = ahead[d],
           \/ pc'[d] = pc[d] /\ host'[d] = host[d] /\ seen'[d] = seen[d]
           \/ pc[d] # "failed" /\ pc'[d] \in {"lookup", "create", "loop"}
    PROVE  Passed(d)'
<1>1. pc'[d] = "write" => \A i \in DOMAIN NamesOf[host'[d]][kind'[d]] :
          Occurs(OwnEntry(host'[d], kind'[d], i), seen'[d])
    BY DEF Passed
<1>2. ASSUME pc'[d] # "failed", NEW k \in 1 .. kind'[d], NEW i \in DOMAIN NamesOf[d][k]
      PROVE  \/ bucket'[k][NamesOf[d][k][i]] = OwnEntry(d, k, i)
             \/ k = kind'[d] /\ Occurs(OwnEntry(d, k, i), ahead'[d])
    BY <1>2, PassedStays
<1>3. ASSUME pc'[d] \in {"append", "write"}
      PROVE  bucket'[kind'[d]][Head(ahead'[d]).name] = Head(ahead'[d])
  <2>1. pc[d] \in {"append", "write"} /\ ahead[d] # <<>>
      BY <1>3 DEF IInv, OnHost
  <2>2. bucket[kind[d]][Head(ahead[d]).name] = Head(ahead[d])
      BY <2>1 DEF Passed
  <2> QED  BY <2>1, <2>2, HeadTypes DEF BucketGrows
<1>4. pc'[d] = "done" => kind'[d] = NKinds /\ ahead'[d] = <<>>
    BY DEF Passed
<1> QED  BY <1>1, <1>2, <1>3, <1>4 DEF Passed, Occurs

LEMMA NextKindPassed ==
    ASSUME IInv, Recorded, NEW c \in AddCalls, NextKind(c) PROVE Passed(c)'
<1>1. /\ pc'[c] = "loop" /\ pc[c] = "loop" /\ ahead[c] = <<>> /\ bucket' = bucket
      /\ kind'[c] = kind[c] + 1 /\ ahead'[c] = lists[c][kind[c] + 1] /\ kind[c] + 1 \in Kinds
    BY NextKindFacts
<1>2. ASSUME NEW k \in 1 .. kind'[c], NEW i \in DOMAIN NamesOf[c][k]
      PROVE  \/ bucket'[k][NamesOf[c][k][i]] = OwnEntry(c, k, i)
             \/ k = kind'[c] /\ Occurs(OwnEntry(c, k, i), ahead'[c])
  <2>1. kind[c] \in Nat
      BY BegunKinds DEF IInv
  <2>2. CASE k = kind[c] + 1
      BY <1>1, <2>2 DEF Recorded, OwnListed
  <2>3. CASE k # kind[c] + 1
    <3>1. k \in 1 .. kind[c]
        BY <1>1, <2>1, <2>3
    <3>2. ~Occurs(OwnEntry(c, k, i), ahead[c])
        BY <1>1 DEF Occurs
    <3> QED  BY <1>1, <3>1, <3>2 DEF Recorded, Passed
  <2> QED  BY <2>2, <2>3
<1> QED  BY <1>1, <1>2 DEF Passed, Occurs

\* A step past the entry at the head, once the bucket has it.
LEMMA HeadPassed ==
    ASSUME IInv, NEW c \in AddCalls, Passed(c), BucketGrows, pc[c] # "failed", pc'[c] = "loop",
           ahead[c] # <<>>, ahead'[c] = Tail(ahead[c]), kind'[c] = kind[c],
           bucket'[kind[c]][Head(ahead[c]).name] = Head(ahead[c])
    PROVE  Passed(c)'
<1>1. ASSUME NEW k \in 1 .. kind'[c], NEW i \in DOMAIN NamesOf[c][k]
      PROVE  \/ bucket'[k][NamesOf[c][k][i]] = OwnEntry(c, k, i)
             \/ k = kind'[c] /\ Occurs(OwnEntry(c, k, i), ahead'[c])
  <2>1. \/ bucket'[k][NamesOf[c][k][i]] = OwnEntry(c, k, i)
        \/ k = kind[c] /\ Occurs(OwnEntry(c, k, i), ahead[c])
      BY PassedStays
  <2>2. ASSUME k = kind[c], Occurs(OwnEntry(c, k, i), ahead[c])
        PROVE  \/ OwnEntry(c, k, i) = Head(ahead[c])
               \/ Occurs(OwnEntry(c, k, i), ahead'[c])
      BY <2>2, HeadTypes, HeadOrTail
  <2>3. OwnEntry(c, k, i).name = NamesOf[c][k][i]
      BY DEF OwnEntry
  <2> QED  BY <2>1, <2>2, <2>3
<1> QED  BY <1>1 DEF Passed, Occurs

LEMMA AddEntryPassed ==
    ASSUME IInv, Recorded, BucketGrows, NEW c \in AddCalls, AddEntry(c) PROVE Passed(c)'
<1> DEFINE e == Head(ahead[c])
<1>1. /\ ahead[c] # <<>> /\ pc[c] = "loop" /\ kind'[c] = kind[c] /\ Record(kind[c], e)
      /\ \/ pc'[c] = "failed"
         \/ bucket[kind[c]][e.name] = None /\ pc'[c] = "append" /\ ahead'[c] = ahead[c]
         \/ bucket[kind[c]][e.name] = None /\ pc'[c] = "loop" /\ ahead'[c] = Tail(ahead[c])
    BY AddEntryFacts
<1>2. bucket[kind[c]][e.name] = None => bucket'[kind[c]][e.name] = e
    BY <1>1, HeadTypes, RecordFacts DEF IInv
<1>3. Passed(c)
    BY DEF Recorded
<1> HIDE DEF e
<1>4. CASE pc'[c] = "failed"
    BY <1>4 DEF Passed
<1>5. CASE bucket[kind[c]][e.name] = None /\ pc'[c] = "append" /\ ahead'[c] = ahead[c]
  <2>1. ASSUME NEW k \in 1 .. kind'[c], NEW i \in DOMAIN NamesOf[c][k]
        PROVE  \/ bucket'[k][NamesOf[c][k][i]] = OwnEntry(c, k, i)
               \/ k = kind'[c] /\ Occurs(OwnEntry(c, k, i), ahead'[c])
      BY <1>1, <1>3, <1>5, PassedStays
  <2>2. bucket'[kind'[c]][Head(ahead'[c]).name] = Head(ahead'[c])
      BY <1>1, <1>2, <1>5 DEF e
  <2> QED  BY <1>5, <2>1, <2>2 DEF Passed, Occurs
<1>6. CASE bucket[kind[c]][e.name] = None /\ pc'[c] = "loop" /\ ahead'[c] = Tail(ahead[c])
  <2>1. bucket'[kind[c]][Head(ahead[c]).name] = Head(ahead[c])
      BY <1>2, <1>6 DEF e
  <2> QED  BY <1>1, <1>3, <1>6, <2>1, HeadPassed
<1> QED  BY <1>1, <1>4, <1>5, <1>6

LEMMA AppendPassed ==
    ASSUME IInv, Recorded, BucketGrows, NEW c \in AddCalls, AppendRead(c) \/ AppendWrite(c)
    PROVE  Passed(c)'
<1>0. Passed(c)
    BY DEF Recorded
<1>1. CASE AppendRead(c)
  <2>1. /\ pc[c] = "append" /\ pc'[c] = "write" /\ seen'[c] = lists[host[c]][kind[c]]
        /\ UNCHANGED <<bucket, host, kind, ahead>>
      BY <1>1, AppendReadFacts
  <2>2. host[c] \in AddCalls /\ kind[c] \in Kinds
      BY <2>1 DEF IInv, OnHost, TypeOK
  <2>3. \A i \in DOMAIN NamesOf[host[c]][kind[c]] : Occurs(OwnEntry(host[c], kind[c], i), seen'[c])
      BY <2>1, <2>2 DEF Recorded, OwnListed
  <2> QED  BY <1>0, <2>1, <2>3 DEF Passed, Occurs
<1>2. CASE AppendWrite(c)
  <2>1. /\ pc[c] = "write" /\ pc'[c] = "loop" /\ ahead[c] # <<>> /\ ahead'[c] = Tail(ahead[c])
        /\ UNCHANGED <<bucket, kind>>
      BY <1>2, AppendWriteFacts
  <2>2. bucket[kind[c]][Head(ahead[c]).name] = Head(ahead[c])
      BY <1>0, <2>1 DEF Passed
  <2> QED  BY <1>0, <2>1, <2>2, HeadPassed
<1> QED  BY <1>1, <1>2

LEMMA AppendWriteOwnListed ==
    ASSUME IInv, Recorded, NEW c \in AddCalls, AppendWrite(c) PROVE OwnListed'
<1>1. /\ pc[c] = "write" /\ ahead[c] # <<>>
      /\ host[c] \in AddCalls /\ kind[c] \in Kinds /\ seen[c] \in Seq(Entry)
      /\ lists'[host[c]][kind[c]] = Append(seen[c], Head(ahead[c]))
      /\ \A d \in AddCalls, k \in Kinds : d # host[c] \/ k # kind[c] => lists'[d][k] = lists[d][k]
    BY AppendWriteFacts
<1>2. Head(ahead[c]) \in Entry
    BY <1>1, HeadTypes
<1>3. ASSUME NEW d \in AddCalls, NEW k \in Kinds, NEW i \in DOMAIN NamesOf[d][k]
      PROVE  Occurs(OwnEntry(d, k, i), lists'[d][k])
  <2>1. CASE d = host[c] /\ k = kind[c]
    <3>1. Occurs(OwnEntry(d, k, i), seen[c])
        BY <1>1, <2>1 DEF Recorded, Passed
    <3>2. lists'[d][k] = Append(seen[c], Head(ahead[c]))
        BY <1>1, <2>1
    <3>3. Occurs(OwnEntry(d, k, i), Append(seen[c], Head(ahead[c])))
        BY <1>1, <1>2, <3>1, OccursAppend
    <3> QED  BY <3>2, <3>3
  <2>2. CASE ~(d = host[c] /\ k = kind[c])
      BY <1>1, <2>2 DEF Recorded, OwnListed
  <2> QED  BY <2>1, <2>2
<1> QED  BY <1>3 DEF OwnListed, Occurs

\* The calls that step c leaves aside, and one that only enters.
LEMMA OthersPassed ==
    ASSUME IInv, Recorded, BucketGrows, NEW c, Aside(c), NEW d \in AddCalls \ {c}
    PROVE  Passed(d)'
<1>1. Passed(d) /\ d \in Calls
    BY ConstantTypes DEF Recorded
<1>2. pc'[d] = pc[d] /\ host'[d] = host[d] /\ kind'[d] = kind[d] /\ ahead'[d] = ahead[d] /\ seen'[d] = seen[d]
    BY <1>1 DEF Aside
<1> QED  BY <1>1, <1>2, PassedFrame

LEMMA RecordedNext == IInv /\ Recorded /\ [Next]_vars => Recorded'
<1> SUFFICES ASSUME IInv, Recorded, [Next]_vars PROVE Recorded'
    OBVIOUS
<1>0. BucketGrows
    BY StepGrows
<1>1. ASSUME lists' = lists PROVE OwnListed'
    BY <1>1 DEF Recorded, OwnListed, Occurs
<1>2. ASSUME NEW c \in AddCalls, AddStep(c) PROVE Recorded'
  <2>0. Passed(c)
      BY DEF Recorded
  <2>1. CASE AddLock(c) \/ AddLookup(c) \/ AddCreate(c)
    <3>1. /\ Aside(c) /\ lists' = lists /\ kind'[c] = kind[c] /\ ahead'[c] = ahead[c]
          /\ pc[c] # "failed" /\ pc'[c] \in {"lookup", "create", "loop"}
        BY <2>1, EnterFacts DEF IInv
    <3>2. Passed(c)'
        BY <1>0, <2>0, <3>1, PassedFrame
    <3> QED  BY <1>0, <1>1, <3>1, <3>2, OthersPassed DEF Recorded
  <2>2. CASE NextKind(c)
    <3>1. Aside(c) /\ lists' = lists
        BY <2>2, NextKindFacts
    <3> QED  BY <1>0, <1>1, <2>2, <3>1, NextKindPassed, OthersPassed DEF Recorded
  <2>3. CASE AddEntry(c)
    <3>1. Aside(c) /\ lists' = lists
        BY <2>3, AddEntryFacts
    <3> QED  BY <1>0, <1>1, <2>3, <3>1, AddEntryPassed, OthersPassed DEF Recorded
  <2>4. CASE AppendRead(c)
    <3>1. Aside(c) /\ lists' = lists
        BY <2>4, AppendReadFacts
    <3> QED  BY <1>0, <1>1, <2>4, <3>1, AppendPassed, OthersPassed DEF Recorded
  <2>5. CASE AppendWrite(c)
    <3>1. Aside(c)
        BY <2>5, AppendWriteFacts
    <3> QED  BY <1>0, <2>5, <3>1, AppendPassed, AppendWriteOwnListed, OthersPassed DEF Recorded
  <2>6. CASE AddReturn(c)
    <3>1. /\ Aside(c) /\ pc[c] = "loop" /\ pc'[c] = "done" /\ ahead[c] = <<>> /\ kind[c] = NKinds
          /\ UNCHANGED <<bucket, lists, host, kind, ahead, seen>>
        BY <2>6, AddReturnFacts
    <3>2. Passed(c)'
        BY <2>0, <3>1 DEF Passed, Occurs
    <3> QED  BY <1>0, <1>1, <3>1, <3>2, OthersPassed DEF Recorded
  <2> QED  BY <1>2, <2>1, <2>2, <2>3, <2>4, <2>5, <2>6 DEF AddStep
<1>3. ASSUME NEW c \in FileCalls, FileStep(c) PROVE Recorded'
  <2>1. Aside(c) /\ lists' = lists /\ c \notin AddCalls
      BY <1>3, FileFacts, ConstantTypes
  <2> QED  BY <1>0, <1>1, <2>1, OthersPassed DEF Recorded
<1>4. CASE UNCHANGED vars
    BY <1>4 DEF vars, Recorded, OwnListed, Passed, Occurs
<1> QED  BY <1>2, <1>3, <1>4 DEF Next, Terminated

LEMMA RecordedInit == Init => Recorded
<1> SUFFICES ASSUME Init PROVE Recorded
    OBVIOUS
<1>1. ASSUME NEW c \in AddCalls, NEW k \in Kinds, NEW i \in DOMAIN NamesOf[c][k]
      PROVE  Occurs(OwnEntry(c, k, i), lists[c][k])
  <2>1. lists[c][k] = [j \in DOMAIN NamesOf[c][k] |-> [by |-> c, name |-> NamesOf[c][k][j]]]
      BY DEF Init
  <2> QED  BY <2>1 DEF Occurs, OwnEntry
<1>2. ASSUME NEW d \in AddCalls PROVE Passed(d)
  <2>1. pc[d] = "start" /\ kind[d] = 0
      BY ConstantTypes DEF Init
  <2> QED  BY <2>1 DEF Passed
<1> QED  BY <1>1, <1>2 DEF Recorded, OwnListed

\* A call of AddPackage that returns without error has every entry of its
\* package in the buckets, whatever else runs at the same time and whatever
\* that appends to the list its loop ranges over.
THEOREM ReturnedIsRecorded == Spec => []DoneIsRecorded
<1>1. IInv /\ Recorded => DoneIsRecorded
  <2> SUFFICES ASSUME IInv, Recorded, NEW c \in AddCalls, pc[c] = "done",
                      NEW k \in Kinds, NEW i \in DOMAIN NamesOf[c][k]
               PROVE  bucket[k][NamesOf[c][k][i]] = OwnEntry(c, k, i)
      BY DEF DoneIsRecorded, OwnEntry
  <2>1. Passed(c) /\ kind[c] = NKinds /\ ahead[c] = <<>>
      BY DEF Recorded, Passed
  <2>2. k \in 1 .. kind[c] /\ ~Occurs(OwnEntry(c, k, i), ahead[c])
      BY <2>1 DEF Kinds, Occurs
  <2> QED  BY <2>1, <2>2 DEF Passed
<1> QED  BY <1>1, Inductive, RecordedInit, RecordedNext, PTL DEF Spec

-----------------------------------------------------------------------------
(* One file per target. *)

LEMMA ListedAppend ==
    ASSUME NEW s \in Seq(Entry), NEW x \in Entry, NEW k, Listed(x, k),
           \A j \in DOMAIN s : Listed(s[j], k)
    PROVE  \A j \in DOMAIN Append(s, x) : Listed(Append(s, x)[j], k)
<1>1. \A j \in DOMAIN Append(s, x) : Append(s, x)[j] = x \/ (j \in DOMAIN s /\ Append(s, x)[j] = s[j])
    BY AppendFacts
<1> QED  BY <1>1

LEMMA ListedTail ==
    ASSUME NEW s \in Seq(Entry), s # <<>>, NEW k, \A j \in DOMAIN s : Listed(s[j], k)
    PROVE  Listed(Head(s), k) /\ \A j \in DOMAIN Tail(s) : Listed(Tail(s)[j], k)
<1>1. 1 \in DOMAIN s /\ Head(s) = s[1]
    BY TailFacts
<1>2. \A j \in DOMAIN Tail(s) : j + 1 \in DOMAIN s /\ Tail(s)[j] = s[j + 1]
    BY TailFacts
<1> QED  BY <1>1, <1>2

LEMMA ProvenanceInit == Init => Provenance
<1> SUFFICES ASSUME Init PROVE Provenance
    OBVIOUS
<1>1. ASSUME NEW c \in AddCalls, NEW k \in Kinds, NEW j \in DOMAIN lists[c][k]
      PROVE  Listed(lists[c][k][j], k)
  <2>1. lists[c][k] = [i \in DOMAIN NamesOf[c][k] |-> [by |-> c, name |-> NamesOf[c][k][i]]]
      BY DEF Init
  <2>2. j \in DOMAIN NamesOf[c][k] /\ lists[c][k][j] = [by |-> c, name |-> NamesOf[c][k][j]]
      BY <2>1
  <2> QED  BY <2>2 DEF Listed
<1>2. ASSUME NEW d \in AddCalls PROVE pc[d] = "start" /\ ahead[d] = <<>>
    BY ConstantTypes DEF Init
<1> QED  BY <1>1, <1>2 DEF Provenance, FromPackages

LEMMA ProvenanceNext == IInv /\ Provenance /\ [Next]_vars => Provenance'
<1> SUFFICES ASSUME IInv, Provenance, [Next]_vars PROVE Provenance'
    OBVIOUS
<1> DEFINE L == \A c \in AddCalls, k \in Kinds : \A j \in DOMAIN lists[c][k] : Listed(lists[c][k][j], k)
<1>l. L /\ \A d \in AddCalls : FromPackages(d)
    BY DEF Provenance
<1>p. L' /\ (\A d \in AddCalls : FromPackages(d)') => Provenance'
    BY DEF Provenance
<1>0. ASSUME lists' = lists PROVE L'
    BY <1>l, <1>0
<1>a. ASSUME NEW c, Aside(c), NEW d \in AddCalls \ {c} PROVE FromPackages(d)'
  <2>1. pc'[d] = pc[d] /\ kind'[d] = kind[d] /\ ahead'[d] = ahead[d] /\ seen'[d] = seen[d]
      BY <1>a, ConstantTypes DEF Aside
  <2> QED  BY <1>l, <2>1 DEF FromPackages
<1> HIDE DEF L
<1>1. ASSUME NEW c \in AddCalls, AddStep(c) PROVE Provenance'
  <2>0. FromPackages(c)
      BY <1>l
  <2>1. CASE AddLock(c) \/ AddLookup(c) \/ AddCreate(c)
    <3>1. /\ Aside(c) /\ lists' = lists /\ kind'[c] = kind[c] /\ ahead'[c] = ahead[c]
          /\ pc'[c] \in {"lookup", "create", "loop"}
        BY <2>1, EnterFacts DEF IInv
    <3>2. FromPackages(c)'
        BY <2>0, <3>1 DEF FromPackages
    <3> QED  BY <1>p, <1>0, <1>a, <3>1, <3>2
  <2>2. CASE NextKind(c)
    <3>1. /\ Aside(c) /\ lists' = lists /\ pc'[c] = "loop" /\ pc[c] = "loop"
          /\ kind[c] + 1 \in Kinds /\ kind'[c] = kind[c] + 1 /\ ahead'[c] = lists[c][kind[c] + 1]
        BY <2>2, NextKindFacts
    <3>2. \A j \in DOMAIN ahead'[c] : Listed(ahead'[c][j], kind'[c])
        BY <1>l, <3>1 DEF L
    <3>3. FromPackages(c)'
        BY <3>1, <3>2 DEF FromPackages
    <3> QED  BY <1>p, <1>0, <1>a, <3>1, <3>3
  <2>3. CASE AddEntry(c)
    <3>1. /\ Aside(c) /\ lists' = lists /\ kind'[c] = kind[c] /\ pc'[c] # "write" /\ ahead[c] # <<>>
          /\ ahead'[c] = ahead[c] \/ ahead'[c] = Tail(ahead[c])
        BY <2>3, AddEntryFacts
    <3>2. \A j \in DOMAIN ahead'[c] : Listed(ahead'[c][j], kind'[c])
        BY <2>0, <3>1, HeadTypes, ListedTail DEF FromPackages
    <3>3. FromPackages(c)'
        BY <3>1, <3>2 DEF FromPackages
    <3> QED  BY <1>p, <1>0, <1>a, <3>1, <3>3
  <2>4. CASE AppendRead(c)
    <3>1. /\ Aside(c) /\ UNCHANGED <<lists, kind, ahead>> /\ pc[c] = "append"
          /\ seen'[c] = lists[host[c]][kind[c]]
        BY <2>4, AppendReadFacts
    <3>2. host[c] \in AddCalls /\ kind[c] \in Kinds
        BY <3>1 DEF IInv, OnHost, TypeOK
    <3>3. \A j \in DOMAIN seen'[c] : Listed(seen'[c][j], kind'[c])
        BY <1>l, <3>1, <3>2 DEF L
    <3>4. FromPackages(c)'
        BY <2>0, <3>1, <3>3 DEF FromPackages
    <3> QED  BY <1>p, <1>0, <1>a, <3>1, <3>4
  <2>5. CASE AppendWrite(c)
    <3>1. /\ Aside(c) /\ pc[c] = "write" /\ pc'[c] = "loop" /\ kind' = kind /\ ahead[c] # <<>>
          /\ host[c] \in AddCalls /\ kind[c] \in Kinds /\ seen[c] \in Seq(Entry)
          /\ ahead'[c] = Tail(ahead[c])
          /\ lists'[host[c]][kind[c]] = Append(seen[c], Head(ahead[c]))
          /\ \A d \in AddCalls, k \in Kinds : d # host[c] \/ k # kind[c] => lists'[d][k] = lists[d][k]
        BY <2>5, AppendWriteFacts
    <3>2. /\ Head(ahead[c]) \in Entry /\ ahead[c] \in Seq(Entry) /\ Listed(Head(ahead[c]), kind[c])
          /\ \A j \in DOMAIN Tail(ahead[c]) : Listed(Tail(ahead[c])[j], kind[c])
        BY <2>0, <3>1, HeadTypes, ListedTail DEF FromPackages
    <3>3. FromPackages(c)'
        BY <3>1, <3>2 DEF FromPackages
    <3>4. \A j \in DOMAIN Append(seen[c], Head(ahead[c])) :
             Listed(Append(seen[c], Head(ahead[c]))[j], kind[c])
        BY <2>0, <3>1, <3>2, ListedAppend DEF FromPackages
    <3>5. ASSUME NEW d \in AddCalls, NEW k \in Kinds, NEW j \in DOMAIN lists'[d][k]
          PROVE  Listed(lists'[d][k][j], k)
      <4>1. CASE d = host[c] /\ k = kind[c]
          BY <3>1, <3>4, <4>1
      <4>2. CASE ~(d = host[c] /\ k = kind[c])
          BY <1>l, <3>1, <4>2 DEF L
      <4> QED  BY <4>1, <4>2
    <3>6. L'
        BY <3>5 DEF L
    <3> QED  BY <1>p, <1>a, <3>1, <3>3, <3>6
  <2>6. CASE AddReturn(c)
    <3>1. /\ Aside(c) /\ pc'[c] = "done" /\ UNCHANGED <<lists, kind, ahead>>
        BY <2>6, AddReturnFacts
    <3>2. FromPackages(c)'
        BY <2>0, <3>1 DEF FromPackages
    <3> QED  BY <1>p, <1>0, <1>a, <3>1, <3>2
  <2> QED  BY <1>1, <2>1, <2>2, <2>3, <2>4, <2>5, <2>6 DEF AddStep
<1>2. ASSUME NEW c \in FileCalls, FileStep(c) PROVE Provenance'
  <2>1. Aside(c) /\ lists' = lists /\ c \notin AddCalls
      BY <1>2, FileFacts, ConstantTypes
  <2> QED  BY <1>p, <1>0, <1>a, <2>1
<1>3. CASE UNCHANGED vars
    BY <1>3 DEF vars, Provenance, FromPackages
<1> QED  BY <1>1, <1>2, <1>3 DEF Next, Terminated

\* A step of call c, whichever it is a call of.
StepBy(c) == (c \in AddCalls /\ AddStep(c)) \/ (c \in FileCalls /\ FileStep(c))

LEMMA EveryStep == [Next]_vars => UNCHANGED vars \/ \E c \in Calls : StepBy(c)
BY ConstantTypes DEF Next, Terminated, StepBy

\* A step is taken by a call that runs, or that may start.
LEMMA StepOf ==
    ASSUME IInv, NEW c \in Calls, StepBy(c)
    PROVE  Aside(c) /\ (MayStart(c) \/ Active(c))
<1>1. ASSUME c \in AddCalls, AddStep(c) PROVE Aside(c)
    BY <1>1, EnterFacts, NextKindFacts, AddEntryFacts, AppendReadFacts, AppendWriteFacts,
       AddReturnFacts DEF AddStep, IInv
<1>2. ASSUME c \in AddCalls, AddStep(c) PROVE MayStart(c) \/ Active(c)
    BY <1>2 DEF AddStep, AddLock, AddLookup, AddCreate, NextKind, AddEntry, AppendRead,
                AppendWrite, AddReturn, Active
<1>3. ASSUME c \in FileCalls, FileStep(c) PROVE Aside(c) /\ (MayStart(c) \/ Active(c))
    BY <1>3, FileFacts DEF Active
<1> QED  BY <1>1, <1>2, <1>3 DEF StepBy

LEMMA AloneNext == IInv /\ Alone /\ [Next]_vars => Alone'
<1> SUFFICES ASSUME IInv, Alone, [Next]_vars, ~overlap'
             PROVE  \A c, d \in Calls : Active(c)' /\ Active(d)' => c = d
    BY DEF Alone
<1>0. ~overlap
    BY DEF Next, vars
<1>1. ASSUME NEW c \in Calls, StepBy(c) PROVE \A d \in Calls : Active(d)' => d = c
  <2>1. Aside(c) /\ (MayStart(c) \/ Active(c))
      BY <1>1, StepOf
  <2>2. \A d \in Calls \ {c} : Active(d)' => Active(d)
      BY <2>1 DEF Aside, Active
  <2>3. \A d \in Calls \ {c} : ~Active(d)
      BY <1>0, <2>1 DEF MayStart, Active, Alone
  <2> QED  BY <2>2, <2>3
<1>2. CASE UNCHANGED vars
    BY <1>0, <1>2 DEF vars, Alone, Active
<1> QED  BY <1>1, <1>2, EveryStep

\* An entry that AddPackage records under the name FileFor asks for comes
\* from a call that cannot run at the same time.
LEMMA NoFileMeanwhile ==
    ASSUME IInv, Provenance, Alone, NEW d \in AddCalls, AddEntry(d),
           NEW c \in FileCalls, pc[c] = "create", Unlisted(c)
    PROVE  ~(kind[d] = Files /\ Head(ahead[d]).name = TargetOf[c])
<1>1. ahead[d] # <<>> /\ pc[d] = "loop"
    BY AddEntryFacts
<1>2. Listed(Head(ahead[d]), kind[d])
  <2>1. ahead[d] \in Seq(Entry) /\ \A j \in DOMAIN ahead[d] : Listed(ahead[d][j], kind[d])
      BY <1>1, HeadTypes DEF Provenance, FromPackages
  <2> QED  BY <1>1, <2>1, ListedTail
<1>3. overlap
  <2>1. d \in Calls /\ c \in Calls /\ d # c
      BY ConstantTypes
  <2>2. Active(c) /\ Active(d)
      BY <1>1 DEF Active
  <2> QED  BY <2>1, <2>2 DEF Alone
<1> QED  BY <1>2, <1>3 DEF Listed, Unlisted

LEMMA FileInvNext == IInv /\ Provenance /\ Alone /\ FileInv /\ [Next]_vars => FileInv'
<1> SUFFICES ASSUME IInv, Provenance, Alone, FileInv, [Next]_vars, NEW c \in FileCalls
             PROVE  /\ pc'[c] \in {"lookup", "create"} => fileForMu' = c
                    /\ pc'[c] = "create" /\ Unlisted(c)' => bucket'[Files][TargetOf[c]] = None
                    /\ pc'[c] = "done" /\ Unlisted(c)' =>
                         bucket'[Files][TargetOf[c]] = result'[c] /\ result'[c] # None
    BY DEF FileInv
<1>0. /\ TargetOf[c] \in Names /\ Files \in Kinds /\ c \in Calls /\ c \notin AddCalls
      /\ Unlisted(c)' <=> Unlisted(c)
    BY CallsAssumption, ConstantTypes DEF Unlisted, Next, vars
<1>f. /\ pc[c] \in {"lookup", "create"} => fileForMu = c
      /\ pc[c] = "create" /\ Unlisted(c) => bucket[Files][TargetOf[c]] = None
      /\ pc[c] = "done" /\ Unlisted(c) => bucket[Files][TargetOf[c]] = result[c] /\ result[c] # None
    BY DEF FileInv
<1>g. bucket[Files][TargetOf[c]] # None => bucket'[Files][TargetOf[c]] = bucket[Files][TargetOf[c]]
    BY <1>0, StepGrows DEF BucketGrows
<1>1. ASSUME NEW d \in AddCalls, AddStep(d)
      PROVE  /\ pc'[c] = pc[c] /\ fileForMu' = fileForMu /\ result' = result
             /\ pc[c] = "create" /\ Unlisted(c) => bucket'[Files][TargetOf[c]] = bucket[Files][TargetOf[c]]
  <2>0. d \in Calls /\ d # c
      BY <1>0, ConstantTypes
  <2>1. Aside(d)
      BY <1>1, <2>0, StepOf DEF StepBy
  <2>2. pc'[c] = pc[c]
      BY <1>0, <2>0, <2>1 DEF Aside
  <2>3. fileForMu' = fileForMu /\ result' = result
      BY <1>1 DEF AddStep, AddLock, AddLookup, AddCreate, NextKind, AddEntry, AppendRead,
                  AppendWrite, AddReturn
  <2>4. CASE AddEntry(d)
    <3>1. Record(kind[d], Head(ahead[d])) /\ ahead[d] # <<>>
        BY <2>4, AddEntryFacts
    <3>2. /\ kind[d] \in Kinds /\ Head(ahead[d]) \in Entry /\ Head(ahead[d]).name \in Names
        BY <3>1, HeadTypes
    <3>3. \A m \in Kinds, x \in Names :
             m # kind[d] \/ x # Head(ahead[d]).name => bucket'[m][x] = bucket[m][x]
        BY <3>1, <3>2, RecordFacts DEF IInv
    <3> QED  BY <1>0, <2>2, <2>3, <2>4, <3>3, NoFileMeanwhile
  <2>5. CASE ~AddEntry(d)
    <3>1. bucket' = bucket
        BY <1>1, <2>5 DEF AddStep, AddLock, AddLookup, AddCreate, NextKind, AppendRead,
                          AppendWrite, AddReturn
    <3> QED  BY <2>2, <2>3, <3>1
  <2> QED  BY <2>4, <2>5
<1>2. ASSUME NEW d \in FileCalls \ {c}, FileStep(d)
      PROVE  /\ pc'[c] = pc[c] /\ result'[c] = result[c]
             /\ pc[c] \in {"lookup", "create"} => fileForMu' = fileForMu
             /\ pc[c] = "create" => bucket' = bucket
  <2>1. Aside(d)
      BY <1>2, FileFacts
  <2>2. pc'[c] = pc[c] /\ result'[c] = result[c]
      BY <1>0, <2>1 DEF Aside
  <2>3. ASSUME pc[c] \in {"lookup", "create"} PROVE fileForMu' = fileForMu /\ bucket' = bucket
    <3>1. fileForMu = c /\ fileForMu # None /\ pc[d] \notin {"lookup", "create"}
        BY <1>0, <1>f, <2>3, CallsAssumption DEF FileInv
    <3> QED  BY <1>2, <3>1, FileFacts
  <2> QED  BY <2>2, <2>3
<1>3. CASE FileStep(c)
  <2> DEFINE f == [by |-> c, name |-> TargetOf[c]]
             b == bucket[Files][TargetOf[c]]
  <2>1. /\ f \in Entry /\ f.name = TargetOf[c]
        /\ \/ fileForMu' = c /\ pc'[c] = "lookup"
           \/ /\ pc[c] = "lookup" /\ b = None /\ pc'[c] = "create"
              /\ UNCHANGED <<bucket, result, fileForMu>>
           \/ /\ pc[c] = "lookup" /\ b # None /\ pc'[c] = "done"
              /\ UNCHANGED bucket /\ result'[c] = b
           \/ /\ pc[c] = "create" /\ pc'[c] = "done" /\ Record(Files, f) /\ result'[c] = f
      BY <1>3, FileFacts
  <2>2. f # None
      BY <2>1, ConstantTypes
  <2>3. Record(Files, f) /\ b = None => bucket'[Files][TargetOf[c]] = f
      BY <1>0, <2>1, RecordFacts DEF IInv
  <2> HIDE DEF f
  <2> QED  BY <1>0, <1>f, <2>1, <2>2, <2>3
<1>4. CASE UNCHANGED vars
    BY <1>0, <1>f, <1>4 DEF vars
<1>5. CASE \E d \in AddCalls : AddStep(d)
    BY <1>0, <1>f, <1>g, <1>1, <1>5
<1>6. CASE \E d \in FileCalls \ {c} : FileStep(d)
    BY <1>0, <1>f, <1>g, <1>2, <1>6
<1> QED  BY <1>3, <1>4, <1>5, <1>6 DEF Next, Terminated

\* FileFor gives every caller the one file the view holds for the target,
\* whatever runs at the same time, unless a concurrent AddPackage brings a
\* file of that name.
THEOREM OneFile == Spec => []OneFilePerTarget
<1>1. Init => Alone /\ FileInv
    BY ConstantTypes DEF Init, Alone, Active, FileInv
<1>2. FileInv => OneFilePerTarget
    BY DEF FileInv, OneFilePerTarget, Unlisted
<1> QED  BY <1>1, <1>2, Inductive, ProvenanceInit, ProvenanceNext, AloneNext, FileInvNext, PTL DEF Spec

-----------------------------------------------------------------------------
(* A bucket that runs sequentially merges every entry, once. *)

\* What a call is done with and has reached are parts of its package, and the
\* entry at the head of its loop is the next one.
LEMMA CountFacts ==
    ASSUME IInv, NEW c \in AddCalls, OwnAhead(c), NEW k \in Kinds
    PROVE  /\ Merged(c, k) \in 0 .. Size(c, k) /\ Reached(c, k) \in 0 .. Size(c, k)
           /\ Reached(c, k) = IF k = kind[c] /\ pc[c] \in {"append", "write"}
                              THEN Merged(c, k) + 1 ELSE Merged(c, k)
           /\ k = kind[c] /\ ahead[c] # <<>> =>
                /\ Merged(c, k) + 1 \in 1 .. Size(c, k)
                /\ Head(ahead[c]) = OwnEntry(c, k, Merged(c, k) + 1)
<1>1. /\ kind[c] \in Nat /\ k \in Nat /\ Size(c, k) \in Nat /\ ahead[c] \in Seq(Entry)
      /\ Len(ahead[c]) \in Nat
    BY BegunKinds, NamesTypes DEF IInv, TypeOK, Kinds
<1>2. k = kind[c] => Merged(c, k) = Size(c, k) - Len(ahead[c]) /\ Len(ahead[c]) <= Size(c, k)
    BY <1>1 DEF Merged, OwnAhead
<1>3. Merged(c, k) \in 0 .. Size(c, k)
  <2>1. CASE k < kind[c]
      BY <1>1, <2>1 DEF Merged
  <2>2. CASE k = kind[c]
      BY <1>1, <1>2, <2>2
  <2>3. CASE k > kind[c]
      BY <1>1, <2>3 DEF Merged
  <2> QED  BY <1>1, <2>1, <2>2, <2>3
<1>4. ASSUME k = kind[c], ahead[c] # <<>>
      PROVE  /\ Merged(c, k) + 1 \in 1 .. Size(c, k)
             /\ Head(ahead[c]) = OwnEntry(c, k, Merged(c, k) + 1)
  <2>1. Len(ahead[c]) \in Nat \ {0} /\ Head(ahead[c]) = ahead[c][1]
      BY <1>1, <1>4, TailFacts
  <2>2. Head(ahead[c]) = OwnEntry(c, k, Size(c, k) - Len(ahead[c]) + 1)
      BY <1>4, <2>1 DEF OwnAhead
  <2>3. Merged(c, k) = Size(c, k) - Len(ahead[c])
      BY <1>2, <1>4
  <2> QED  BY <1>1, <1>3, <2>1, <2>2, <2>3
<1>5. pc[c] \in {"append", "write"} => ahead[c] # <<>>
    BY DEF IInv, OnHost
<1>6. Reached(c, k) = IF k = kind[c] /\ pc[c] \in {"append", "write"}
                      THEN Merged(c, k) + 1 ELSE Merged(c, k)
    BY DEF Reached
<1>7. Reached(c, k) \in 0 .. Size(c, k)
    BY <1>1, <1>3, <1>4, <1>5, <1>6
<1> QED  BY <1>3, <1>4, <1>6, <1>7

SameCounts(c) ==
    \A k \in Kinds : Merged(c, k)' = Merged(c, k) /\ Reached(c, k)' = Reached(c, k)

\* A call whose loop stands still.
LEMMA CountsFrame ==
    ASSUME NEW c \in AddCalls, kind'[c] = kind[c], ahead'[c] = ahead[c],
           pc'[c] \in {"append", "write"} <=> pc[c] \in {"append", "write"}
    PROVE  SameCounts(c)
<1>1. \A k \in Kinds : Merged(c, k)' = Merged(c, k)
    BY DEF Merged, Size
<1> QED  BY <1>1 DEF SameCounts, Reached

LEMMA AsideFrame ==
    ASSUME NEW c, Aside(c), NEW d \in AddCalls \ {c}
    PROVE  /\ SameCounts(d) /\ pc'[d] = pc[d] /\ host'[d] = host[d]
           /\ kind'[d] = kind[d] /\ ahead'[d] = ahead[d] /\ seen'[d] = seen[d]
<1>1. /\ pc'[d] = pc[d] /\ host'[d] = host[d]
      /\ kind'[d] = kind[d] /\ ahead'[d] = ahead[d] /\ seen'[d] = seen[d]
    BY ConstantTypes DEF Aside
<1> QED  BY <1>1, CountsFrame

\* Beginning the loop of the next kind moves no count.
LEMMA NextKindCounts ==
    ASSUME IInv, OwnFirst, NEW c \in AddCalls, NextKind(c)
    PROVE  SameCounts(c) /\ OwnAhead(c)'
<1>1. /\ pc'[c] = "loop" /\ pc[c] = "loop" /\ ahead[c] = <<>>
      /\ kind'[c] = kind[c] + 1 /\ ahead'[c] = lists[c][kind[c] + 1] /\ kind[c] + 1 \in Kinds
    BY NextKindFacts
<1>2. kind[c] \in Nat /\ Size(c, kind[c] + 1) \in Nat
    BY <1>1, BegunKinds, NamesTypes DEF IInv
<1>3. /\ Len(ahead'[c]) = Size(c, kind'[c])
      /\ \A i \in 1 .. Size(c, kind'[c]) : ahead'[c][i] = OwnEntry(c, kind'[c], i)
    BY <1>1 DEF OwnFirst, OwnList, Returned
<1>4. OwnAhead(c)'
  <2>1. \A j \in 1 .. Len(ahead'[c]) :
           ahead'[c][j] = OwnEntry(c, kind'[c], Size(c, kind'[c]) - Len(ahead'[c]) + j)
      BY <1>1, <1>2, <1>3
  <2>2. Len(ahead'[c]) <= Size(c, kind'[c])
      BY <1>1, <1>2, <1>3
  <2> QED  BY <1>1, <2>1, <2>2 DEF OwnAhead, Size
<1>5. ASSUME NEW k \in Kinds PROVE Merged(c, k)' = Merged(c, k)
  <2>1. k \in Nat /\ Size(c, k) \in Nat /\ Len(ahead[c]) = 0
      BY <1>1, NamesTypes DEF Kinds
  <2>2. Merged(c, k) = IF k <= kind[c] THEN Size(c, k) ELSE 0
      BY <1>2, <2>1 DEF Merged
  <2>3. Merged(c, k)' = CASE k < kind'[c] -> Size(c, k)
                          [] k = kind'[c] -> Size(c, k) - Len(ahead'[c])
                          [] k > kind'[c] -> 0
      BY DEF Merged, Size
  <2>4. k = kind'[c] => Size(c, k) - Len(ahead'[c]) = 0
      BY <1>3, <2>1
  <2> QED  BY <1>1, <1>2, <2>1, <2>2, <2>3, <2>4
<1> QED  BY <1>1, <1>4, <1>5 DEF SameCounts, Reached

\* Leaving an entry behind moves one count by one.
LEMMA AdvanceCounts ==
    ASSUME IInv, NEW c \in AddCalls, OwnAhead(c), ahead[c] # <<>>, pc'[c] = "loop",
           ahead'[c] = Tail(ahead[c]), kind'[c] = kind[c], kind[c] \in Kinds
    PROVE  /\ OwnAhead(c)'
           /\ \A k \in Kinds :
                /\ Merged(c, k)' = IF k = kind[c] THEN Merged(c, k) + 1 ELSE Merged(c, k)
                /\ Reached(c, k)' = Merged(c, k)'
<1> DEFINE z == Size(c, kind[c])
           n == Len(ahead[c])
<1>1. ahead[c] \in Seq(Entry)
    BY HeadTypes
<1>2. /\ n \in Nat \ {0} /\ Len(Tail(ahead[c])) = n - 1
      /\ \A j \in 1 .. (n - 1) : Tail(ahead[c])[j] = ahead[c][j + 1]
    BY <1>1, TailFacts
<1>3. z \in Nat /\ n <= z /\ \A j \in 1 .. n : ahead[c][j] = OwnEntry(c, kind[c], z - n + j)
    BY NamesTypes DEF OwnAhead
<1> HIDE DEF z, n
<1>4. ASSUME NEW j \in 1 .. (n - 1)
      PROVE  Tail(ahead[c])[j] = OwnEntry(c, kind[c], z - (n - 1) + j)
  <2>1. j + 1 \in 1 .. n /\ z - n + (j + 1) = z - (n - 1) + j
      BY <1>2, <1>3
  <2> QED  BY <1>2, <1>3, <2>1
<1>5. n - 1 <= z
    BY <1>2, <1>3
<1>6. OwnAhead(c)'
  <2>1. Len(ahead'[c]) = n - 1 /\ Size(c, kind'[c]) = z
      BY <1>2 DEF z
  <2>2. \A j \in 1 .. Len(ahead'[c]) :
           ahead'[c][j] = OwnEntry(c, kind'[c], Size(c, kind'[c]) - Len(ahead'[c]) + j)
      BY <1>4, <2>1
  <2>3. Len(ahead'[c]) <= Size(c, kind'[c])
      BY <1>5, <2>1
  <2> QED  BY <2>2, <2>3 DEF OwnAhead, Size
<1>7. ASSUME NEW k \in Kinds
      PROVE  Merged(c, k)' = IF k = kind[c] THEN Merged(c, k) + 1 ELSE Merged(c, k)
  <2>0. kind[c] \in Nat /\ k \in Nat
      BY BegunKinds DEF IInv, Kinds
  <2>m. Merged(c, k)' = CASE k < kind[c] -> Size(c, k)
                          [] k = kind[c] -> Size(c, k) - Len(ahead'[c])
                          [] k > kind[c] -> 0
      BY DEF Merged, Size
  <2>1. CASE k = kind[c]
    <3>1. Merged(c, k) = z - n
        BY <2>0, <2>1 DEF Merged, z, n
    <3>2. Merged(c, k)' = z - (n - 1)
        BY <1>2, <2>0, <2>1, <2>m DEF z
    <3> QED  BY <1>2, <1>3, <2>1, <3>1, <3>2
  <2>2. CASE k # kind[c]
      BY <2>0, <2>2, <2>m DEF Merged
  <2> QED  BY <2>1, <2>2
<1>8. \A k \in Kinds : Reached(c, k)' = Merged(c, k)'
    BY DEF Reached
<1> QED  BY <1>6, <1>7, <1>8

\* Indices of entries reached are indices of the package.
LEMMA ReachedNames ==
    ASSUME IInv, OwnFirst, NEW c \in AddCalls, NEW k \in Kinds, NEW i \in 1 .. Reached(c, k)
    PROVE  /\ i \in 1 .. Size(c, k) /\ NamesOf[c][k][i] \in Names /\ OwnEntry(c, k, i) # None
           /\ OwnEntry(c, k, i).by = c /\ OwnEntry(c, k, i).name = NamesOf[c][k][i]
<1>1. Reached(c, k) \in 0 .. Size(c, k) /\ Size(c, k) \in Nat
    BY CountFacts, NamesTypes DEF OwnFirst
<1>2. i \in 1 .. Size(c, k)
    BY <1>1
<1> QED  BY <1>2, NamesTypes

\* A call that reaches nothing new, while nothing of a package is recorded.
LEMMA InBucketFrame ==
    ASSUME IInv, OwnFirst, BucketGrows, NEW c \in AddCalls, NEW k \in Kinds, InBucket(c, k),
           Reached(c, k)' = Reached(c, k),
           \A x \in Names : bucket'[k][x] # bucket[k][x] => bucket'[k][x].by # c
    PROVE  InBucket(c, k)'
<1>1. ASSUME NEW i \in 1 .. Reached(c, k)
      PROVE  /\ bucket'[k][NamesOf[c][k][i]] = OwnEntry(c, k, i)
             /\ \A j \in 1 .. Reached(c, k) : NamesOf[c][k][i] = NamesOf[c][k][j] => i = j
  <2>1. NamesOf[c][k][i] \in Names /\ OwnEntry(c, k, i) # None
      BY ReachedNames
  <2>2. /\ bucket[k][NamesOf[c][k][i]] = OwnEntry(c, k, i)
        /\ \A j \in 1 .. Reached(c, k) : NamesOf[c][k][i] = NamesOf[c][k][j] => i = j
      BY DEF InBucket
  <2> QED  BY <2>1, <2>2 DEF BucketGrows
<1>2. ASSUME NEW x \in Names, bucket'[k][x] # None, bucket'[k][x].by = c
      PROVE  \E i \in 1 .. Reached(c, k) : NamesOf[c][k][i] = x
  <2>1. bucket'[k][x] = bucket[k][x]
      BY <1>2
  <2> QED  BY <1>2, <2>1 DEF InBucket
<1> QED  BY <1>1, <1>2 DEF InBucket, OwnEntry

\* The lists stand still, and no count goes down.
LEMMA ForeignFrame ==
    ASSUME IInv, OwnFirst, NEW h \in AddCalls, NEW k \in Kinds, lists'[h][k] = lists[h][k],
           NEW j, Foreign(h, k, j),
           \A d \in AddCalls : Merged(d, k)' \in {Merged(d, k), Merged(d, k) + 1}
    PROVE  Foreign(h, k, j)'
<1>1. \A m \in 1 .. Len(lists[h][k]) : lists[h][k][m] = lists[h][k][j] => m = j
    BY DEF Foreign
<1>0. PICK c \in AddCalls \ {h} : \E i \in 1 .. Merged(c, k) : lists[h][k][j] = OwnEntry(c, k, i)
    BY DEF Foreign
<1>2. PICK i \in 1 .. Merged(c, k) : lists[h][k][j] = OwnEntry(c, k, i)
    BY <1>0
<1>3. Merged(c, k) \in Nat
    BY CountFacts, NamesTypes DEF OwnFirst
<1>4. Merged(c, k)' = Merged(c, k) \/ Merged(c, k)' = Merged(c, k) + 1
    OBVIOUS
<1>5. i \in 1 .. Merged(c, k)'
    BY <1>2, <1>3, <1>4
<1>6. lists'[h][k][j] = OwnEntry(c, k, i)
    BY <1>2
<1> QED  BY <1>1, <1>5, <1>6 DEF Foreign, OwnEntry

LEMMA QuietMerges ==
    ASSUME IInv, OwnFirst, Merges, lists' = lists, BucketGrows,
           \A d \in AddCalls : SameCounts(d),
           \A k \in Kinds, x \in Names : bucket'[k][x] # bucket[k][x] => bucket'[k][x].by \notin AddCalls,
           \A d \in AddCalls : host'[d] = host[d] \/ \A k \in Kinds : Merged(d, k) = 0
    PROVE  Merges'
<1>1. ASSUME NEW c \in AddCalls, NEW k \in Kinds PROVE InBucket(c, k)'
  <2>1. InBucket(c, k) /\ Reached(c, k)' = Reached(c, k)
      BY DEF Merges, SameCounts
  <2> QED  BY <2>1, InBucketFrame
<1>2. ASSUME NEW c \in AddCalls, NEW k \in Kinds PROVE InHost(c, k)'
  <2>1. InHost(c, k) /\ Merged(c, k)' = Merged(c, k)
      BY DEF Merges, SameCounts
  <2>2. CASE host'[c] = host[c]
      BY <2>1, <2>2 DEF InHost, Occurs, OwnEntry
  <2>3. CASE Merged(c, k) = 0
      BY <2>1, <2>3 DEF InHost
  <2> QED  BY <2>2, <2>3
<1>3. ASSUME NEW h \in AddCalls, NEW k \in Kinds, NEW j \in Size(h, k) + 1 .. Len(lists[h][k])
      PROVE  Foreign(h, k, j)'
  <2>1. Foreign(h, k, j) /\ \A d \in AddCalls : Merged(d, k)' = Merged(d, k)
      BY DEF Merges, SameCounts
  <2> QED  BY <2>1, ForeignFrame
<1> QED  BY <1>1, <1>2, <1>3 DEF Merges, Size

\* Bucket.Add took the entry: the bucket has one more of the package.
LEMMA ReachOne ==
    ASSUME IInv, OwnFirst, Merges, BucketGrows, NEW c \in AddCalls, AddEntry(c),
           bucket[kind[c]][Head(ahead[c]).name] = None,
           \A k \in Kinds : Reached(c, k)' = IF k = kind[c] THEN Merged(c, k) + 1 ELSE Merged(c, k)
    PROVE  \A d \in AddCalls, k \in Kinds : InBucket(d, k)'
<1>k. PICK K \in Kinds : K = kind[c]
    BY AddEntryFacts, HeadTypes
<1> DEFINE M == Merged(c, K)
           e == Head(ahead[c])
<1>1. /\ Aside(c) /\ ahead[c] # <<>> /\ pc[c] = "loop" /\ Record(K, e)
    BY <1>k, AddEntryFacts
<1>2. K \in Kinds /\ e \in Entry /\ e.name \in Names /\ e # None
    BY <1>1, HeadTypes
<1>3. /\ bucket'[K][e.name] = e
      /\ \A m \in Kinds, x \in Names : m # K \/ x # e.name => bucket'[m][x] = bucket[m][x]
    BY <1>k, <1>1, <1>2, RecordFacts DEF IInv
<1>4. /\ M \in Nat /\ M + 1 \in 1 .. Size(c, K) /\ e = OwnEntry(c, K, M + 1)
      /\ Reached(c, K) = M /\ \A k \in Kinds : Reached(c, k) = Merged(c, k)
    BY <1>k, <1>1, <1>2, CountFacts, NamesTypes DEF OwnFirst
<1>5. e.by = c /\ e.name = NamesOf[c][K][M + 1]
    BY <1>2, <1>4, NamesTypes
<1>6. Reached(c, K)' = M + 1 /\ \A k \in Kinds \ {K} : Reached(c, k)' = Reached(c, k)
    BY <1>k, <1>2, <1>4
<1> HIDE DEF e, M
<1>7. ASSUME NEW d \in AddCalls, NEW k \in Kinds, d # c \/ k # K PROVE InBucket(d, k)'
  <2>1. Reached(d, k)' = Reached(d, k)
    <3>1. CASE d = c
        BY <1>6, <1>7, <3>1
    <3>2. CASE d # c
        BY <1>1, <3>2, AsideFrame DEF SameCounts
    <3> QED  BY <3>1, <3>2
  <2>2. \A x \in Names : bucket'[k][x] # bucket[k][x] => bucket'[k][x].by # d
      BY <1>2, <1>3, <1>5, <1>7
  <2>3. InBucket(d, k)
      BY DEF Merges
  <2> QED  BY <2>1, <2>2, <2>3, InBucketFrame
<1>8. InBucket(c, K)'
  <2>0. InBucket(c, K)
      BY <1>2 DEF Merges
  <2>1. ASSUME NEW i \in 1 .. M
        PROVE  /\ bucket[K][NamesOf[c][K][i]] = OwnEntry(c, K, i)
               /\ bucket'[K][NamesOf[c][K][i]] = OwnEntry(c, K, i)
               /\ NamesOf[c][K][i] # NamesOf[c][K][M + 1]
               /\ \A j \in 1 .. M : NamesOf[c][K][i] = NamesOf[c][K][j] => i = j
    <3>1. NamesOf[c][K][i] \in Names /\ OwnEntry(c, K, i) # None
        BY <1>2, <1>4, ReachedNames
    <3>2. /\ bucket[K][NamesOf[c][K][i]] = OwnEntry(c, K, i)
          /\ \A j \in 1 .. M : NamesOf[c][K][i] = NamesOf[c][K][j] => i = j
        BY <1>4, <2>0 DEF InBucket
    <3>3. bucket[K][NamesOf[c][K][M + 1]] = None
        BY <1>k, <1>5 DEF e
    <3> QED  BY <1>2, <3>1, <3>2, <3>3 DEF BucketGrows
  <2>2. bucket'[K][NamesOf[c][K][M + 1]] = OwnEntry(c, K, M + 1)
      BY <1>3, <1>4, <1>5
  <2>3. \A i \in 1 .. (M + 1) : i \in 1 .. M \/ i = M + 1
      BY <1>4
  <2>4. ASSUME NEW i \in 1 .. (M + 1)
        PROVE  /\ bucket'[K][NamesOf[c][K][i]] = OwnEntry(c, K, i)
               /\ \A j \in 1 .. (M + 1) : NamesOf[c][K][i] = NamesOf[c][K][j] => i = j
      BY <2>1, <2>2, <2>3
  <2>5. ASSUME NEW x \in Names, bucket'[K][x] # None, bucket'[K][x].by = c
        PROVE  \E i \in 1 .. (M + 1) : NamesOf[c][K][i] = x
    <3>1. CASE x = e.name
        BY <1>4, <1>5, <3>1
    <3>2. CASE x # e.name
      <4>1. bucket'[K][x] = bucket[K][x]
          BY <1>2, <1>3, <3>2
      <4>2. \E i \in 1 .. M : NamesOf[c][K][i] = x
          BY <1>4, <2>0, <2>5, <4>1 DEF InBucket
      <4>3. \A i \in 1 .. M : i \in 1 .. (M + 1)
          BY <1>4
      <4> QED  BY <4>2, <4>3
    <3> QED  BY <3>1, <3>2
  <2>6. /\ \A i \in 1 .. Reached(c, K)' :
             /\ bucket'[K][NamesOf[c][K][i]] = OwnEntry(c, K, i)
             /\ \A j \in 1 .. Reached(c, K)' : NamesOf[c][K][i] = NamesOf[c][K][j] => i = j
        /\ \A x \in Names : bucket'[K][x] # None /\ bucket'[K][x].by = c =>
             \E i \in 1 .. Reached(c, K)' : NamesOf[c][K][i] = x
      BY <1>6, <2>4, <2>5
  <2> QED  BY <2>6 DEF InBucket, OwnEntry
<1> QED  BY <1>7, <1>8

LEMMA AddEntryMerges ==
    ASSUME IInv, OwnFirst, Merges, BucketGrows, NEW c \in AddCalls, AddEntry(c)
    PROVE  Merges' /\ OwnAhead(c)'
<1> DEFINE b == bucket[kind[c]][Head(ahead[c]).name]
<1>0. OwnAhead(c) /\ \A k \in Kinds : Merged(c, k) \in Nat
    BY CountFacts, NamesTypes DEF OwnFirst
<1>1. /\ Aside(c) /\ ahead[c] # <<>> /\ pc[c] = "loop" /\ kind'[c] = kind[c]
      /\ UNCHANGED <<lists, host>> /\ Record(kind[c], Head(ahead[c]))
      /\ \/ b # None /\ pc'[c] = "failed" /\ ahead'[c] = ahead[c]
         \/ b = None /\ host[c] # c /\ pc'[c] = "append" /\ ahead'[c] = ahead[c]
         \/ b = None /\ host[c] = c /\ pc'[c] = "loop" /\ ahead'[c] = Tail(ahead[c])
    BY AddEntryFacts
<1>2. kind[c] \in Kinds
    BY <1>1, HeadTypes
<1>3. \A d \in AddCalls \ {c} : SameCounts(d)
    BY <1>1, AsideFrame
<1>4. CASE b # None /\ pc'[c] = "failed" /\ ahead'[c] = ahead[c]
  <2>1. bucket' = bucket
      BY <1>1, <1>4, HeadTypes, RecordFacts DEF IInv
  <2>2. SameCounts(c)
      BY <1>1, <1>4, CountsFrame
  <2>3. Merges'
      BY <1>1, <1>3, <2>1, <2>2, QuietMerges
  <2>4. OwnAhead(c)'
      BY <1>0, <1>1, <1>4 DEF OwnAhead
  <2> QED  BY <2>3, <2>4
<1>5. ASSUME b = None,
             \A k \in Kinds : Reached(c, k)' = IF k = kind[c] THEN Merged(c, k) + 1 ELSE Merged(c, k),
             \A k \in Kinds : Merged(c, k)' \in {Merged(c, k), Merged(c, k) + 1},
             \A k \in Kinds : InHost(c, k)'
      PROVE  Merges'
  <2>1. \A d \in AddCalls, k \in Kinds : InBucket(d, k)'
      BY <1>5, ReachOne
  <2>2. ASSUME NEW d \in AddCalls, NEW k \in Kinds PROVE InHost(d, k)'
    <3>1. CASE d = c
        BY <1>5, <3>1
    <3>2. CASE d # c
      <4>1. InHost(d, k) /\ Merged(d, k)' = Merged(d, k)
          BY <1>3, <3>2 DEF Merges, SameCounts
      <4> QED  BY <1>1, <4>1 DEF InHost, Occurs, OwnEntry
    <3> QED  BY <3>1, <3>2
  <2>3. ASSUME NEW h \in AddCalls, NEW k \in Kinds, NEW j \in Size(h, k) + 1 .. Len(lists[h][k])
        PROVE  Foreign(h, k, j)'
    <3>1. Foreign(h, k, j) /\ lists'[h][k] = lists[h][k]
        BY <1>1 DEF Merges
    <3>2. \A d \in AddCalls : Merged(d, k)' \in {Merged(d, k), Merged(d, k) + 1}
        BY <1>3, <1>5 DEF SameCounts
    <3> QED  BY <3>1, <3>2, ForeignFrame
  <2> QED  BY <1>1, <2>1, <2>2, <2>3 DEF Merges, Size
<1>6. CASE b = None /\ host[c] # c /\ pc'[c] = "append" /\ ahead'[c] = ahead[c]
  <2>1. \A k \in Kinds : Merged(c, k)' = Merged(c, k)
      BY <1>1, <1>6 DEF Merged, Size
  <2>2. \A k \in Kinds : Reached(c, k)' = IF k = kind[c] THEN Merged(c, k) + 1 ELSE Merged(c, k)
      BY <1>1, <1>6, <2>1 DEF Reached
  <2>3. ASSUME NEW k \in Kinds PROVE InHost(c, k)'
    <3>1. InHost(c, k)
        BY DEF Merges
    <3> QED  BY <1>1, <2>1, <3>1 DEF InHost, Occurs, OwnEntry
  <2>4. OwnAhead(c)'
      BY <1>0, <1>1, <1>6 DEF OwnAhead
  <2> QED  BY <1>5, <1>6, <2>1, <2>2, <2>3, <2>4
<1>7. CASE b = None /\ host[c] = c /\ pc'[c] = "loop" /\ ahead'[c] = Tail(ahead[c])
  <2>1. /\ OwnAhead(c)'
        /\ \A k \in Kinds :
             /\ Merged(c, k)' = IF k = kind[c] THEN Merged(c, k) + 1 ELSE Merged(c, k)
             /\ Reached(c, k)' = Merged(c, k)'
      BY <1>0, <1>1, <1>2, <1>7, AdvanceCounts
  <2>2. \A k \in Kinds : Reached(c, k)' = IF k = kind[c] THEN Merged(c, k) + 1 ELSE Merged(c, k)
      BY <2>1
  <2>3. \A k \in Kinds : Merged(c, k)' \in {Merged(c, k), Merged(c, k) + 1}
      BY <2>1
  <2>4. \A k \in Kinds : InHost(c, k)'
      BY <1>1, <1>7 DEF InHost
  <2> QED  BY <1>5, <1>7, <2>1, <2>2, <2>3, <2>4
<1> QED  BY <1>1, <1>4, <1>6, <1>7

\* A duplicate is of another call, or of the package itself.
LEMMA FailsOver ==
    ASSUME IInv, OwnFirst, Merges, BucketGrows, NEW c \in AddCalls, AddEntry(c), pc'[c] = "failed"
    PROVE  FailedOver(c)'
<1>k. PICK K \in Kinds : K = kind[c]
    BY AddEntryFacts, HeadTypes
<1> DEFINE M == Merged(c, K)
           x == NamesOf[c][K][M + 1]
<1>1. /\ pc[c] = "loop" /\ ahead[c] # <<>> /\ bucket[K][Head(ahead[c]).name] # None
    BY <1>k, AddEntryFacts
<1>2. /\ M \in Nat /\ M + 1 \in 1 .. Size(c, K) /\ Head(ahead[c]) = OwnEntry(c, K, M + 1)
      /\ Reached(c, K) = M
    BY <1>k, <1>1, CountFacts, NamesTypes DEF OwnFirst
<1>3. x \in Names /\ Head(ahead[c]).name = x /\ DOMAIN NamesOf[c][K] = 1 .. Size(c, K)
      /\ Size(c, K) \in Nat
    BY <1>2, NamesTypes
<1>4. bucket[K][x] # None /\ bucket'[K][x] = bucket[K][x]
    BY <1>1, <1>3 DEF BucketGrows
<1>5. ASSUME bucket[K][x].by = c
      PROVE  \E j \in DOMAIN NamesOf[c][K] \ {M + 1} : NamesOf[c][K][j] = x
  <2>1. PICK j \in 1 .. M : NamesOf[c][K][j] = x
      BY <1>2, <1>3, <1>4, <1>5 DEF Merges, InBucket
  <2>2. j \in DOMAIN NamesOf[c][K] \ {M + 1}
      BY <1>2, <1>3
  <2> QED  BY <2>1, <2>2
<1>6. PICK i \in DOMAIN NamesOf[c][K] : i = M + 1
    BY <1>2, <1>3
<1>7. /\ bucket'[K][NamesOf[c][K][i]] # None
      /\ \/ bucket'[K][NamesOf[c][K][i]].by # c
         \/ \E j \in DOMAIN NamesOf[c][K] \ {i} : NamesOf[c][K][j] = NamesOf[c][K][i]
    BY <1>4, <1>5, <1>6
<1> QED  BY <1>7 DEF FailedOver

\* The host of a call that merges has returned.
LEMMA HostReturned ==
    ASSUME IInv, Alone, ~overlap, InTurn, NEW c \in AddCalls, pc[c] \in {"append", "write"}
    PROVE  host[c] \in AddCalls \ {c} /\ Returned(host[c])
<1>0. host[c] # None /\ host[c] # c
    BY DEF IInv, OnHost, InTurn
<1>1. host[c] \in AddCalls /\ host[c] # c /\ host[c] = packages[PathOf[c]] /\ host[c] # None
    BY <1>0 DEF IInv, Serialised, TypeOK
<1>2. pc[host[c]] # "start"
    BY <1>1, CallsAssumption DEF InTurn
<1>3. Active(c) /\ c \in Calls /\ host[c] \in Calls
    BY <1>1, ConstantTypes DEF Active
<1>4. ~Active(host[c])
    BY <1>1, <1>3 DEF Alone
<1> QED  BY <1>1, <1>2, <1>4 DEF Active, Returned

\* An append adds one entry to one list.
LEMMA AppendWriteList ==
    ASSUME IInv, Alone, ~overlap, OwnFirst, InTurn, NEW c \in AddCalls, AppendWrite(c)
    PROVE  \E h \in AddCalls \ {c}, K \in Kinds :
              LET l == lists[h][K]
                  M == Merged(c, K)
                  e == OwnEntry(c, K, M + 1) IN
              /\ h = host[c] /\ K = kind[c] /\ Returned(h)
              /\ M \in Nat /\ M + 1 \in 1 .. Size(c, K) /\ Reached(c, K) = M + 1
              /\ l \in Seq(Entry) /\ Len(l) \in Nat /\ e \in Entry
              /\ lists'[h][K] = Append(l, e) /\ Len(lists'[h][K]) = Len(l) + 1
              /\ lists'[h][K][Len(l) + 1] = e /\ \A m \in 1 .. Len(l) : lists'[h][K][m] = l[m]
              /\ \A d \in AddCalls, k \in Kinds : d # h \/ k # K => lists'[d][k] = lists[d][k]
<1>1. /\ pc[c] = "write" /\ ahead[c] # <<>> /\ host[c] \in AddCalls /\ kind[c] \in Kinds
      /\ seen[c] \in Seq(Entry)
      /\ lists'[host[c]][kind[c]] = Append(seen[c], Head(ahead[c]))
      /\ \A d \in AddCalls, k \in Kinds : d # host[c] \/ k # kind[c] => lists'[d][k] = lists[d][k]
    BY AppendWriteFacts
<1>2. host[c] \in AddCalls \ {c} /\ Returned(host[c])
    BY <1>1, HostReturned
<1>3. PICK h \in AddCalls \ {c}, K \in Kinds : h = host[c] /\ K = kind[c]
    BY <1>1, <1>2
<1> DEFINE l == lists[h][K]
           M == Merged(c, K)
           e == OwnEntry(c, K, M + 1)
<1>4. seen[c] = l /\ l \in Seq(Entry)
    BY <1>1, <1>3 DEF InTurn
<1>5. /\ M \in Nat /\ M + 1 \in 1 .. Size(c, K) /\ Reached(c, K) = M + 1 /\ Head(ahead[c]) = e
    BY <1>1, <1>3, CountFacts, NamesTypes DEF OwnFirst
<1>6. e \in Entry
    BY <1>5, NamesTypes
<1>7. /\ Len(l) \in Nat /\ Len(Append(l, e)) = Len(l) + 1
      /\ \A m \in 1 .. Len(l) : Append(l, e)[m] = l[m]
    BY <1>4, <1>6, AppendFacts
<1>8. Append(l, e)[Len(l) + 1] = e
    BY <1>4, <1>6, AppendFacts
<1>9. lists'[h][K] = Append(l, e)
    BY <1>1, <1>3, <1>4, <1>5
<1> HIDE DEF l, e, M
<1>10. /\ Len(lists'[h][K]) = Len(l) + 1
       /\ lists'[h][K][Len(l) + 1] = e /\ \A m \in 1 .. Len(l) : lists'[h][K][m] = l[m]
    BY <1>7, <1>8, <1>9
<1>11. \A d \in AddCalls, k \in Kinds : d # h \/ k # K => lists'[d][k] = lists[d][k]
    BY <1>1, <1>3
<1>12. Returned(h)
    BY <1>2, <1>3
<1> QED  BY <1>3, <1>4, <1>5, <1>6, <1>7, <1>9, <1>10, <1>11, <1>12 DEF l, e, M

LEMMA AppendWriteMerges ==
    ASSUME IInv, Alone, ~overlap, OwnFirst, Merges, InTurn, BucketGrows,
           NEW c \in AddCalls, AppendWrite(c)
    PROVE  Merges'
<1>1. PICK h \in AddCalls \ {c}, K \in Kinds :
         LET l == lists[h][K]
             M == Merged(c, K)
             e == OwnEntry(c, K, M + 1) IN
         /\ h = host[c] /\ K = kind[c] /\ Returned(h)
         /\ M \in Nat /\ M + 1 \in 1 .. Size(c, K) /\ Reached(c, K) = M + 1
         /\ l \in Seq(Entry) /\ Len(l) \in Nat /\ e \in Entry
         /\ lists'[h][K] = Append(l, e) /\ Len(lists'[h][K]) = Len(l) + 1
         /\ lists'[h][K][Len(l) + 1] = e /\ \A m \in 1 .. Len(l) : lists'[h][K][m] = l[m]
         /\ \A d \in AddCalls, k \in Kinds : d # h \/ k # K => lists'[d][k] = lists[d][k]
    BY AppendWriteList
<1>2. PICK M \in Nat : M = Merged(c, K)
    BY <1>1
<1> DEFINE l == lists[h][K]
           e == OwnEntry(c, K, M + 1)
<1>3. /\ Aside(c) /\ pc'[c] = "loop" /\ pc[c] = "write" /\ ahead[c] # <<>> /\ ahead'[c] = Tail(ahead[c])
      /\ UNCHANGED <<bucket, host, kind>>
    BY AppendWriteFacts
<1>4. /\ M + 1 \in 1 .. Size(c, K) /\ Reached(c, K) = M + 1 /\ e \in Entry
      /\ l \in Seq(Entry) /\ Len(l) \in Nat
      /\ lists'[h][K] = Append(l, e) /\ Len(lists'[h][K]) = Len(l) + 1
      /\ lists'[h][K][Len(l) + 1] = e /\ \A m \in 1 .. Len(l) : lists'[h][K][m] = l[m]
      /\ \A d \in AddCalls, k \in Kinds : d # h \/ k # K => lists'[d][k] = lists[d][k]
    BY <1>1, <1>2
<1>5. \A d \in AddCalls \ {c} : SameCounts(d)
    BY <1>3, AsideFrame
<1>6. /\ \A k \in Kinds : Merged(c, k)' = IF k = K THEN M + 1 ELSE Merged(c, k)
      /\ \A k \in Kinds : Reached(c, k)' = Reached(c, k)
  <2>1. \A k \in Kinds : /\ Merged(c, k)' = IF k = K THEN Merged(c, k) + 1 ELSE Merged(c, k)
                         /\ Reached(c, k)' = Merged(c, k)'
      BY <1>1, <1>3, AdvanceCounts DEF OwnFirst
  <2>2. \A k \in Kinds : Reached(c, k) = IF k = K THEN Merged(c, k) + 1 ELSE Merged(c, k)
      BY <1>1, <1>3, CountFacts DEF OwnFirst
  <2> QED  BY <1>2, <2>1, <2>2
<1>7. \A d \in AddCalls, k \in Kinds : Merged(d, k)' \in {Merged(d, k), Merged(d, k) + 1}
    BY <1>2, <1>5, <1>6 DEF SameCounts
<1>8. ASSUME NEW d \in AddCalls, NEW k \in Kinds PROVE InBucket(d, k)'
  <2>1. InBucket(d, k) /\ Reached(d, k)' = Reached(d, k)
      BY <1>5, <1>6 DEF Merges, SameCounts
  <2> QED  BY <1>3, <2>1, InBucketFrame
<1> HIDE DEF l, e
<1>9. ASSUME NEW d \in AddCalls, NEW k \in Kinds, NEW x, Occurs(x, lists[d][k])
      PROVE  Occurs(x, lists'[d][k])
  <2>1. CASE d = h /\ k = K
    <3>1. Occurs(x, l)
        BY <1>9, <2>1 DEF l
    <3>2. Occurs(x, Append(l, e))
        BY <1>4, <3>1, OccursAppend
    <3> QED  BY <1>4, <2>1, <3>2
  <2>2. CASE ~(d = h /\ k = K)
      BY <1>4, <1>9, <2>2
  <2> QED  BY <2>1, <2>2
<1>10. ASSUME NEW d \in AddCalls, NEW k \in Kinds, host[d] # d, NEW i \in 1 .. Merged(d, k)'
       PROVE  Occurs(OwnEntry(d, k, i), lists'[host[d]][k])
  <2>1. CASE i \in 1 .. Merged(d, k)
    <3>1. Occurs(OwnEntry(d, k, i), lists[host[d]][k])
        BY <1>10, <2>1 DEF Merges, InHost
    <3>2. host[d] \in AddCalls
      <4>1. kind[d] # 0
        <5>1. kind[d] = 0 => Merged(d, k) = 0
            BY DEF Merged, Kinds
        <5> QED  BY <2>1, <5>1
      <4>2. host[d] # None
          BY <4>1 DEF OwnFirst, OwnAhead, IInv, OnHost
      <4> QED  BY <4>2 DEF IInv, TypeOK
    <3> QED  BY <1>9, <3>1, <3>2
  <2>2. CASE i \notin 1 .. Merged(d, k)
    <3>1. d = c /\ k = K /\ i = M + 1
        BY <1>2, <1>5, <1>6, <1>10, <2>2 DEF SameCounts
    <3>2. Occurs(e, lists'[h][K])
        BY <1>4, OccursAppend
    <3> QED  BY <1>1, <3>1, <3>2 DEF e
  <2> QED  BY <2>1, <2>2
<1>11. ASSUME NEW d \in AddCalls, NEW k \in Kinds PROVE InHost(d, k)'
    BY <1>3, <1>10 DEF InHost, Occurs, OwnEntry
<1>12. ASSUME NEW m \in 1 .. Len(l) PROVE l[m] # e
  <2> SUFFICES ASSUME l[m] = e PROVE FALSE
      OBVIOUS
  <2>0. Size(h, K) \in Nat
      BY NamesTypes
  <2>1. CASE m \in 1 .. Size(h, K)
    <3>1. l[m] = OwnEntry(h, K, m)
        BY <2>1 DEF OwnFirst, OwnList, l
    <3>2. OwnEntry(h, K, m) # e
        BY DEF OwnEntry, e
    <3> QED  BY <3>1, <3>2
  <2>2. CASE m \in Size(h, K) + 1 .. Len(l)
    <3>1. Foreign(h, K, m)
        BY <2>2 DEF Merges, l
    <3>2. PICK d \in AddCalls \ {h} : \E i \in 1 .. Merged(d, K) : l[m] = OwnEntry(d, K, i)
        BY <3>1 DEF Foreign, l
    <3>3. PICK i \in 1 .. Merged(d, K) : e = OwnEntry(d, K, i)
        BY <3>2
    <3>4. d = c /\ NamesOf[c][K][i] = NamesOf[c][K][M + 1]
        BY <3>3 DEF OwnEntry, e
    <3>5. i \in 1 .. (M + 1) /\ M + 1 \in 1 .. (M + 1) /\ i # M + 1
        BY <1>2, <3>3, <3>4
    <3> QED  BY <1>4, <3>4, <3>5 DEF Merges, InBucket
  <2> QED  BY <1>4, <2>0, <2>1, <2>2
<1>13. ASSUME NEW g \in AddCalls, NEW k \in Kinds, NEW j \in Size(g, k) + 1 .. Len(lists'[g][k])
       PROVE  Foreign(g, k, j)'
  <2>1. CASE ~(g = h /\ k = K)
    <3>1. lists'[g][k] = lists[g][k]
        BY <1>4, <2>1
    <3>2. Foreign(g, k, j)
        BY <3>1 DEF Merges
    <3> QED  BY <1>7, <3>1, <3>2, ForeignFrame
  <2>2. CASE g = h /\ k = K /\ j \in 1 .. Len(l)
    <3>1. Foreign(h, K, j)
      <4>1. j \in Size(h, K) + 1 .. Len(lists[h][K])
          BY <2>2, NamesTypes DEF l
      <4> QED  BY <4>1 DEF Merges
    <3>2. PICK d \in AddCalls \ {h} : \E i \in 1 .. Merged(d, K) : l[j] = OwnEntry(d, K, i)
        BY <3>1 DEF Foreign, l
    <3>3. PICK i \in 1 .. Merged(d, K) : l[j] = OwnEntry(d, K, i)
        BY <3>2
    <3>4. i \in 1 .. Merged(d, K)'
      <4>1. Merged(d, K) \in Nat /\ Merged(d, K)' \in {Merged(d, K), Merged(d, K) + 1}
          BY <1>7, CountFacts, NamesTypes DEF OwnFirst
      <4> QED  BY <3>3, <4>1
    <3>5. lists'[h][K][j] = l[j] /\ lists'[h][K][j] = OwnEntry(d, K, i)
        BY <1>4, <2>2, <3>3
    <3>6. \A m \in 1 .. Len(l) : l[m] = l[j] => m = j
        BY <3>1 DEF Foreign, l
    <3>7. ASSUME NEW m \in 1 .. Len(lists'[h][K]), lists'[h][K][m] = lists'[h][K][j] PROVE m = j
      <4>1. CASE m \in 1 .. Len(l)
          BY <1>4, <3>5, <3>6, <3>7, <4>1
      <4>2. CASE m = Len(l) + 1
          BY <1>4, <1>12, <2>2, <3>5, <3>7, <4>2
      <4> QED  BY <1>4, <4>1, <4>2
    <3> QED  BY <2>2, <3>4, <3>5, <3>7 DEF Foreign, OwnEntry
  <2>3. CASE g = h /\ k = K /\ j = Len(l) + 1
    <3>1. M + 1 \in 1 .. Merged(c, K)'
        BY <1>6
    <3>2. lists'[h][K][j] = OwnEntry(c, K, M + 1)
        BY <1>4, <2>3 DEF e
    <3>3. ASSUME NEW m \in 1 .. Len(lists'[h][K]), lists'[h][K][m] = lists'[h][K][j] PROVE m = j
      <4>1. CASE m \in 1 .. Len(l)
          BY <1>4, <1>12, <2>3, <3>3, <4>1
      <4>2. CASE m = Len(l) + 1
          BY <2>3, <4>2
      <4> QED  BY <1>4, <4>1, <4>2
    <3> QED  BY <2>3, <3>1, <3>2, <3>3 DEF Foreign, OwnEntry
  <2>4. g = h /\ k = K => j \in 1 .. Len(l) \/ j = Len(l) + 1
      BY <1>4, NamesTypes
  <2> QED  BY <2>1, <2>2, <2>3, <2>4
<1> QED  BY <1>8, <1>11, <1>13 DEF Merges, Size

\* The lists begin as they did, and only those of calls that have returned
\* have grown.
LEMMA OwnListNext ==
    ASSUME IInv, Alone, ~overlap, OwnFirst, InTurn, NEW c \in Calls, StepBy(c)
    PROVE  \A d \in AddCalls : OwnList(d)'
<1>0. Aside(c) /\ (MayStart(c) \/ Active(c))
    BY StepOf
<1>1. \A d \in Calls : Returned(d) => Returned(d)'
    BY <1>0 DEF Aside, Active, MayStart, Returned
<1>2. CASE lists' = lists
    BY <1>1, <1>2, ConstantTypes DEF OwnFirst, OwnList, Size, OwnEntry
<1>3. CASE c \in AddCalls /\ AppendWrite(c)
  <2>1. PICK h \in AddCalls \ {c}, K \in Kinds :
          /\ Returned(h) /\ Len(lists[h][K]) \in Nat /\ Len(lists'[h][K]) = Len(lists[h][K]) + 1
          /\ \A m \in 1 .. Len(lists[h][K]) : lists'[h][K][m] = lists[h][K][m]
          /\ \A d \in AddCalls, k \in Kinds : d # h \/ k # K => lists'[d][k] = lists[d][k]
      BY <1>3, AppendWriteList
  <2>2. ASSUME NEW d \in AddCalls, NEW k \in Kinds
        PROVE  /\ Size(d, k) <= Len(lists'[d][k])
               /\ ~Returned(d)' => Len(lists'[d][k]) = Size(d, k)
               /\ \A i \in 1 .. Size(d, k) : lists'[d][k][i] = OwnEntry(d, k, i)
    <3>0. /\ Size(d, k) <= Len(lists[d][k]) /\ Size(d, k) \in Nat
          /\ ~Returned(d) => Len(lists[d][k]) = Size(d, k)
          /\ \A i \in 1 .. Size(d, k) : lists[d][k][i] = OwnEntry(d, k, i)
        BY NamesTypes DEF OwnFirst, OwnList
    <3>1. CASE d = h /\ k = K
      <4>1. Returned(d)'
          BY <1>1, <2>1, <3>1, ConstantTypes
      <4>2. Size(d, k) <= Len(lists'[d][k])
          BY <2>1, <3>0, <3>1
      <4>3. ASSUME NEW i \in 1 .. Size(d, k) PROVE i \in 1 .. Len(lists[d][k])
          BY <2>1, <3>0, <3>1
      <4> QED  BY <2>1, <3>0, <3>1, <4>1, <4>2, <4>3
    <3>2. CASE ~(d = h /\ k = K)
      <4>1. lists'[d][k] = lists[d][k]
          BY <2>1, <3>2
      <4> QED  BY <1>1, <3>0, <4>1, ConstantTypes
    <3> QED  BY <3>1, <3>2
  <2> QED  BY <2>2 DEF OwnList, Size, OwnEntry
<1>4. lists' = lists \/ (c \in AddCalls /\ AppendWrite(c))
    BY FileFacts DEF StepBy, AddStep, AddLock, AddLookup, AddCreate, NextKind, AddEntry,
                     AppendRead, AddReturn
<1> QED  BY <1>2, <1>3, <1>4

LEMMA InTurnNext ==
    ASSUME IInv, Alone, ~overlap, OwnFirst, Merges, InTurn, BucketGrows,
           NEW c \in Calls, StepBy(c)
    PROVE  InTurn'
<1>0. Aside(c) /\ (MayStart(c) \/ Active(c))
    BY StepOf
<1>1. pc'[c] # "start"
  <2>1. CASE c \in AddCalls /\ AddStep(c)
      BY <2>1, EnterFacts, NextKindFacts, AddEntryFacts, AppendReadFacts, AppendWriteFacts,
         AddReturnFacts DEF AddStep, IInv
  <2>2. CASE c \in FileCalls /\ FileStep(c)
      BY <2>2, FileFacts
  <2> QED  BY <2>1, <2>2 DEF StepBy
<1>2. ASSUME NEW p \in Paths, packages'[p] # None PROVE pc'[packages'[p]] # "start"
  <2>1. packages'[p] = packages[p] \/ packages'[p] = c
    <3>1. packages' = packages \/ (c \in AddCalls /\ packages' = [packages EXCEPT ![PathOf[c]] = c])
        BY FileFacts DEF StepBy, AddStep, AddLock, AddLookup, AddCreate, NextKind, AddEntry,
                         AppendRead, AppendWrite, AddReturn
    <3> QED  BY <3>1, CallsAssumption DEF IInv, TypeOK
  <2>2. CASE packages'[p] = c
      BY <1>1, <2>2
  <2>3. CASE packages'[p] = packages[p] /\ packages[p] # c
    <3>1. packages[p] \in Calls \ {c} /\ pc[packages[p]] # "start"
        BY <1>2, <2>3, ConstantTypes DEF InTurn, IInv, TypeOK
    <3> QED  BY <1>0, <2>3, <3>1 DEF Aside
  <2> QED  BY <2>1, <2>2, <2>3
<1>3. ASSUME NEW d \in AddCalls, FailedOver(d) PROVE FailedOver(d)'
  <2>1. PICK k \in Kinds : \E i \in DOMAIN NamesOf[d][k] :
          /\ bucket[k][NamesOf[d][k][i]] # None
          /\ \/ bucket[k][NamesOf[d][k][i]].by # d
             \/ \E j \in DOMAIN NamesOf[d][k] \ {i} : NamesOf[d][k][j] = NamesOf[d][k][i]
      BY <1>3 DEF FailedOver
  <2>2. PICK i \in DOMAIN NamesOf[d][k] :
          /\ bucket[k][NamesOf[d][k][i]] # None
          /\ \/ bucket[k][NamesOf[d][k][i]].by # d
             \/ \E j \in DOMAIN NamesOf[d][k] \ {i} : NamesOf[d][k][j] = NamesOf[d][k][i]
      BY <2>1
  <2>3. bucket'[k][NamesOf[d][k][i]] = bucket[k][NamesOf[d][k][i]]
      BY <2>2, NamesTypes DEF BucketGrows
  <2> QED  BY <2>2, <2>3 DEF FailedOver
<1>4. ASSUME NEW d \in AddCalls \ {c}
      PROVE  /\ pc'[d] \notin {"append", "write"}
             /\ pc'[d] = "failed" => FailedOver(d)'
  <2>1. pc'[d] = pc[d] /\ ~Active(d)
      BY <1>0, ConstantTypes DEF Aside, Alone, MayStart, Active
  <2> QED  BY <1>3, <2>1 DEF Active, InTurn
<1>5. ASSUME c \in AddCalls, AddStep(c)
      PROVE  /\ pc'[c] = "write" => seen'[c] = lists'[host'[c]][kind'[c]]
             /\ pc'[c] \in {"append", "write"} => host'[c] # c
             /\ pc'[c] = "failed" => FailedOver(c)'
  <2>1. CASE AddLock(c) \/ AddLookup(c) \/ AddCreate(c)
      BY <1>5, <2>1, EnterFacts DEF IInv
  <2>2. CASE NextKind(c)
      BY <1>5, <2>2, NextKindFacts
  <2>3. CASE AddEntry(c)
    <3>1. /\ pc'[c] # "write" /\ host' = host /\ pc'[c] = "append" => host[c] # c
        BY <1>5, <2>3, AddEntryFacts
    <3>2. pc'[c] = "failed" => FailedOver(c)'
        BY <1>5, <2>3, FailsOver
    <3>3. pc'[c] # "write" /\ host' = host
        BY <1>5, <2>3, AddEntryFacts
    <3> QED  BY <3>1, <3>2, <3>3
  <2>4. CASE AppendRead(c)
      BY <1>5, <2>4, AppendReadFacts DEF InTurn
  <2>5. CASE AppendWrite(c)
      BY <1>5, <2>5, AppendWriteFacts
  <2>6. CASE AddReturn(c)
      BY <1>5, <2>6, AddReturnFacts
  <2> QED  BY <1>5, <2>1, <2>2, <2>3, <2>4, <2>5, <2>6 DEF AddStep
<1>6. ASSUME NEW d \in AddCalls
      PROVE  /\ pc'[d] = "write" => seen'[d] = lists'[host'[d]][kind'[d]]
             /\ pc'[d] \in {"append", "write"} => host'[d] # d
             /\ pc'[d] = "failed" => FailedOver(d)'
  <2>1. CASE d = c
      BY <1>5, <2>1, ConstantTypes DEF StepBy
  <2>2. CASE d # c
      BY <1>4, <2>2
  <2> QED  BY <2>1, <2>2
<1> QED  BY <1>2, <1>6 DEF InTurn

\* What a call records and hands to its host is its own, one entry at a time.
LEMMA MergesNext ==
    ASSUME IInv, Alone, ~overlap, OwnFirst, Merges, InTurn, BucketGrows,
           NEW c \in Calls, StepBy(c)
    PROVE  Merges' /\ \A d \in AddCalls : OwnAhead(d)'
<1>0. Aside(c)
    BY StepOf
<1>1. ASSUME NEW d \in AddCalls \ {c} PROVE SameCounts(d) /\ host'[d] = host[d] /\ OwnAhead(d)'
  <2>1. /\ SameCounts(d) /\ pc'[d] = pc[d] /\ host'[d] = host[d]
        /\ kind'[d] = kind[d] /\ ahead'[d] = ahead[d]
      BY <1>0, AsideFrame
  <2> QED  BY <2>1 DEF OwnFirst, OwnAhead, Size, OwnEntry
<1>2. ASSUME c \in AddCalls, lists' = lists, bucket' = bucket, SameCounts(c),
             host'[c] = host[c] \/ \A k \in Kinds : Merged(c, k) = 0
      PROVE  Merges'
  <2>1. \A d \in AddCalls : SameCounts(d)
      BY <1>1, <1>2
  <2>2. \A d \in AddCalls : host'[d] = host[d] \/ \A k \in Kinds : Merged(d, k) = 0
      BY <1>1, <1>2
  <2> QED  BY <1>2, <2>1, <2>2, QuietMerges
<1>3. ASSUME c \in AddCalls, kind'[c] = kind[c], ahead'[c] = ahead[c],
             pc'[c] \in {"start", "lookup", "create"} => pc[c] \in {"start", "lookup", "create"}
      PROVE  OwnAhead(c)'
    BY <1>3 DEF OwnFirst, OwnAhead, Size, OwnEntry
<1>4. ASSUME c \in AddCalls, AddStep(c) PROVE Merges' /\ OwnAhead(c)'
  <2>1. CASE AddLock(c) \/ AddLookup(c) \/ AddCreate(c)
    <3>1. /\ UNCHANGED <<bucket, lists, kind, ahead>>
          /\ pc[c] \in {"start", "lookup", "create"} /\ pc'[c] \in {"lookup", "create", "loop"}
        BY <1>4, <2>1, EnterFacts DEF IInv
    <3>2. SameCounts(c)
        BY <1>4, <3>1, CountsFrame
    <3>3. kind[c] = 0
        BY <1>4, <3>1 DEF OwnFirst, OwnAhead
    <3>4. ASSUME NEW k \in Kinds PROVE Merged(c, k) = 0
      <4>1. k \in Nat /\ k > 0
          BY CallsAssumption DEF Kinds
      <4> QED  BY <3>3, <4>1 DEF Merged
    <3> QED  BY <1>2, <1>3, <1>4, <3>1, <3>2, <3>4
  <2>2. CASE NextKind(c)
    <3>1. SameCounts(c) /\ OwnAhead(c)'
        BY <1>4, <2>2, NextKindCounts
    <3>2. UNCHANGED <<bucket, lists, host>>
        BY <1>4, <2>2, NextKindFacts
    <3> QED  BY <1>2, <1>4, <3>1, <3>2
  <2>3. CASE AddEntry(c)
      BY <1>4, <2>3, AddEntryMerges
  <2>4. CASE AppendRead(c) \/ AddReturn(c)
    <3>1. /\ UNCHANGED <<bucket, lists, host, kind, ahead>>
          /\ pc'[c] \in {"append", "write"} <=> pc[c] \in {"append", "write"}
          /\ pc'[c] \notin {"start", "lookup", "create"}
        BY <1>4, <2>4, AppendReadFacts, AddReturnFacts
    <3>2. SameCounts(c)
        BY <1>4, <3>1, CountsFrame
    <3> QED  BY <1>2, <1>3, <1>4, <3>1, <3>2
  <2>5. CASE AppendWrite(c)
    <3>1. /\ ahead[c] # <<>> /\ pc'[c] = "loop" /\ ahead'[c] = Tail(ahead[c])
          /\ kind'[c] = kind[c] /\ kind[c] \in Kinds
        BY <1>4, <2>5, AppendWriteFacts
    <3>2. OwnAhead(c)'
        BY <1>4, <3>1, AdvanceCounts DEF OwnFirst
    <3> QED  BY <1>4, <2>5, <3>2, AppendWriteMerges
  <2> QED  BY <1>4, <2>1, <2>2, <2>3, <2>4, <2>5 DEF AddStep
<1>5. ASSUME c \in FileCalls, FileStep(c) PROVE Merges'
  <2> DEFINE f == [by |-> c, name |-> TargetOf[c]]
  <2>0. c \notin AddCalls
      BY <1>5, ConstantTypes
  <2>1. /\ lists' = lists /\ f \in Entry /\ f.by = c /\ f.name \in Names
        /\ bucket' = bucket \/ Record(Files, f)
      BY <1>5, FileFacts
  <2>2. \A k \in Kinds, x \in Names : bucket'[k][x] # bucket[k][x] => bucket'[k][x] = f
    <3>1. CASE bucket' = bucket
        BY <3>1
    <3>2. CASE Record(Files, f)
        BY <2>1, <3>2, ConstantTypes, RecordFacts DEF IInv
    <3> QED  BY <2>1, <3>1, <3>2
  <2>3. \A k \in Kinds, x \in Names :
           bucket'[k][x] # bucket[k][x] => bucket'[k][x].by \notin AddCalls
      BY <2>0, <2>1, <2>2
  <2>4. \A d \in AddCalls : SameCounts(d) /\ host'[d] = host[d]
      BY <1>1, <2>0
  <2> QED  BY <2>1, <2>3, <2>4, QuietMerges
<1>6. CASE c \in AddCalls /\ AddStep(c)
    BY <1>1, <1>4, <1>6
<1>7. CASE c \in FileCalls /\ FileStep(c)
    BY <1>1, <1>5, <1>7, ConstantTypes
<1> QED  BY <1>6, <1>7 DEF StepBy

LEMMA SeqInvNext == IInv /\ Alone /\ SeqInv /\ [Next]_vars => SeqInv'
<1> SUFFICES ASSUME IInv, Alone, SeqInv, [Next]_vars, ~overlap'
             PROVE  (OwnFirst /\ Merges /\ InTurn)'
    BY DEF SeqInv
<1>1. ~overlap /\ OwnFirst /\ Merges /\ InTurn
    BY DEF SeqInv, Next, vars
<1>2. BucketGrows
    BY StepGrows
<1>3. CASE UNCHANGED vars
  <2>1. \A c \in AddCalls, k \in Kinds : Merged(c, k)' = Merged(c, k) /\ Reached(c, k)' = Reached(c, k)
    <3> SUFFICES ASSUME NEW c \in AddCalls PROVE SameCounts(c)
        BY DEF SameCounts
    <3> QED  BY <1>3, CountsFrame DEF vars
  <2>2. OwnFirst'
      BY <1>1, <1>3 DEF vars, OwnFirst, OwnList, OwnAhead, Size, OwnEntry, Returned
  <2>3. Merges'
    <3>1. \A d \in AddCalls : SameCounts(d)
        BY <2>1 DEF SameCounts
    <3> QED  BY <1>1, <1>2, <1>3, <3>1, QuietMerges DEF vars
  <2>4. InTurn'
      BY <1>1, <1>3 DEF vars, InTurn, FailedOver
  <2> QED  BY <2>2, <2>3, <2>4
<1>4. ASSUME NEW c \in Calls, StepBy(c) PROVE (OwnFirst /\ Merges /\ InTurn)'
  <2>1. \A d \in AddCalls : OwnList(d)'
      BY <1>1, <1>4, OwnListNext
  <2>2. Merges' /\ \A d \in AddCalls : OwnAhead(d)'
      BY <1>1, <1>2, <1>4, MergesNext
  <2>3. InTurn'
      BY <1>1, <1>2, <1>4, InTurnNext
  <2> QED  BY <2>1, <2>2, <2>3 DEF OwnFirst
<1> QED  BY <1>3, <1>4, EveryStep

LEMMA SeqInvInit == Init => SeqInv
<1> SUFFICES ASSUME Init PROVE OwnFirst /\ Merges /\ InTurn
    BY DEF SeqInv
<1>1. ASSUME NEW c \in AddCalls, NEW k \in Kinds
      PROVE  /\ Len(lists[c][k]) = Size(c, k)
             /\ \A i \in 1 .. Size(c, k) : lists[c][k][i] = OwnEntry(c, k, i)
             /\ Merged(c, k) = 0 /\ Reached(c, k) = 0 /\ Size(c, k) \in Nat
             /\ \A x \in Names : bucket[k][x] = None
  <2>1. lists[c][k] = [i \in DOMAIN NamesOf[c][k] |-> OwnEntry(c, k, i)]
      BY DEF Init, OwnEntry
  <2>2. DOMAIN NamesOf[c][k] = 1 .. Size(c, k) /\ Size(c, k) \in Nat
      BY NamesTypes
  <2>3. kind[c] = 0 /\ pc[c] = "start" /\ k \in Nat /\ k > 0
      BY CallsAssumption, ConstantTypes DEF Init, Kinds
  <2>4. Merged(c, k) = 0 /\ Reached(c, k) = 0
      BY <2>3 DEF Merged, Reached
  <2>5. \A x \in Names : bucket[k][x] = None
      BY DEF Init
  <2>6. Len(lists[c][k]) = Size(c, k)
      BY <2>1, <2>2
  <2>7. \A i \in 1 .. Size(c, k) : lists[c][k][i] = OwnEntry(c, k, i)
      BY <2>1, <2>2
  <2> QED  BY <2>2, <2>4, <2>5, <2>6, <2>7
<1>2. ASSUME NEW c \in AddCalls PROVE OwnList(c) /\ OwnAhead(c)
  <2>1. OwnList(c)
    <3>1. \A k \in Kinds : Size(c, k) <= Len(lists[c][k])
        BY <1>1
    <3> QED  BY <1>1, <3>1 DEF OwnList
  <2>2. kind[c] = 0 /\ kind[c] \notin Kinds
      BY DEF Init, Kinds
  <2> QED  BY <2>1, <2>2 DEF OwnAhead
<1>3. ASSUME NEW c \in AddCalls, NEW k \in Kinds PROVE InBucket(c, k) /\ InHost(c, k)
  <2>1. 1 .. Merged(c, k) = {} /\ 1 .. Reached(c, k) = {}
      BY <1>1
  <2> QED  BY <1>1, <2>1 DEF InBucket, InHost
<1>4. ASSUME NEW h \in AddCalls, NEW k \in Kinds PROVE Size(h, k) + 1 .. Len(lists[h][k]) = {}
    BY <1>1
<1>5. InTurn
    BY ConstantTypes DEF Init, InTurn
<1> QED  BY <1>2, <1>3, <1>4, <1>5 DEF OwnFirst, Merges

\* In a package whose call has returned without error, every entry has been
\* merged: it is where its host lists it, and nowhere else.
LEMMA DoneIsMerged ==
    ASSUME IInv, Recorded, OwnFirst, Merges, NEW c \in AddCalls, pc[c] = "done",
           NEW k \in Kinds, NEW i \in DOMAIN NamesOf[c][k]
    PROVE  LET l == lists[host[c]][k]
               e == OwnEntry(c, k, i)
           IN  \E j \in DOMAIN l : l[j] = e /\ \A m \in DOMAIN l : l[m] = e => m = j
<1>0. /\ host[c] \in AddCalls /\ i \in 1 .. Size(c, k) /\ Size(c, k) \in Nat
      /\ kind[c] = NKinds /\ ahead[c] = <<>> /\ k \in 1 .. NKinds /\ NKinds \in Nat
  <2>1. host[c] \in AddCalls
      BY DEF IInv, TypeOK, OnHost
  <2>2. i \in 1 .. Size(c, k) /\ Size(c, k) \in Nat
      BY NamesTypes
  <2>3. kind[c] = NKinds /\ ahead[c] = <<>>
      BY DEF Recorded, Passed
  <2>4. k \in 1 .. NKinds /\ NKinds \in Nat
      BY CallsAssumption DEF Kinds
  <2> QED  BY <2>1, <2>2, <2>3, <2>4
<1> DEFINE h == host[c]
           l == lists[h][k]
           e == OwnEntry(c, k, i)
<1>1. Merged(c, k) = Size(c, k) /\ Reached(c, k) = Size(c, k)
    BY <1>0 DEF Merged, Reached
<1>2. /\ h \in AddCalls /\ l \in Seq(Entry) /\ Len(l) \in Nat /\ DOMAIN l = 1 .. Len(l)
      /\ Size(h, k) \in Nat /\ Size(h, k) <= Len(l)
      /\ \A n \in 1 .. Size(h, k) : l[n] = OwnEntry(h, k, n)
      /\ \A j \in Size(h, k) + 1 .. Len(l) : Foreign(h, k, j)
  <2>1. h \in AddCalls
      BY <1>0
  <2>2. l \in Seq(Entry)
      BY <2>1 DEF IInv, TypeOK
  <2>3. Size(h, k) \in Nat
      BY <2>1, NamesTypes
  <2>4. OwnList(h)
      BY <2>1 DEF OwnFirst
  <2>5. \A j \in Size(h, k) + 1 .. Len(l) : Foreign(h, k, j)
      BY <2>1 DEF Merges
  <2>6. Len(l) \in Nat /\ DOMAIN l = 1 .. Len(l)
      BY <2>2
  <2> HIDE DEF h
  <2> QED  BY <2>1, <2>2, <2>3, <2>4, <2>5, <2>6 DEF OwnList
<1>3. CASE h = c
  <2>1. i \in 1 .. Len(l) /\ l[i] = e
      BY <1>0, <1>2, <1>3
  <2>2. ASSUME NEW m \in 1 .. Len(l), l[m] = e PROVE m = i
    <3>1. CASE m \in 1 .. Size(c, k)
      <4>1. OwnEntry(c, k, m) = e
          BY <1>2, <1>3, <2>2, <3>1
      <4>2. NamesOf[c][k][i] = NamesOf[c][k][m]
          BY <4>1 DEF OwnEntry
      <4>3. InBucket(c, k)
          BY DEF Merges
      <4> QED  BY <1>0, <1>1, <3>1, <4>2, <4>3 DEF InBucket
    <3>2. CASE m \notin 1 .. Size(c, k)
      <4>1. Foreign(c, k, m)
          BY <1>2, <1>3, <2>2, <3>2
      <4>2. PICK d \in AddCalls \ {c} : \E n \in 1 .. Merged(d, k) : l[m] = OwnEntry(d, k, n)
          BY <1>3, <4>1 DEF Foreign
      <4>3. l[m].by = d
          BY <4>2 DEF OwnEntry
      <4>4. e.by = c
          BY DEF OwnEntry
      <4> QED  BY <2>2, <4>2, <4>3, <4>4
    <3> QED  BY <3>1, <3>2
  <2> QED  BY <1>2, <2>1, <2>2
<1>4. CASE h # c
  <2>1. Occurs(e, l)
      BY <1>0, <1>1, <1>4 DEF Merges, InHost
  <2>2. PICK j \in 1 .. Len(l) : l[j] = e
      BY <1>2, <2>1 DEF Occurs
  <2>3. j \notin 1 .. Size(h, k)
    <3>1. e.by = c /\ \A n : OwnEntry(h, k, n).by = h
        BY DEF OwnEntry
    <3> HIDE DEF h, e
    <3> QED  BY <1>2, <1>4, <2>2, <3>1
  <2>4. Foreign(h, k, j)
      BY <1>2, <2>2, <2>3
  <2>5. \A m \in 1 .. Len(l) : l[m] = e => m = j
      BY <2>2, <2>4 DEF Foreign
  <2> QED  BY <1>2, <2>2, <2>5
<1> QED  BY <1>3, <1>4

\* The generators of a bucket that runs sequentially lose nothing: when all
\* have returned, each host lists every entry of every package merged into
\* it, once, and AddPackage has failed only over a real duplicate.
THEOREM SequentialMergeComplete == Spec => []SequentialMergeKeepsEveryEntry
<1>1. IInv /\ Recorded /\ SeqInv => SequentialMergeKeepsEveryEntry
  <2> SUFFICES ASSUME IInv, Recorded, SeqInv, ~overlap, NEW c \in AddCalls
               PROVE  /\ pc[c] = "done" => \A k \in Kinds : \A i \in DOMAIN NamesOf[c][k] :
                            LET l == lists[host[c]][k]
                                e == OwnEntry(c, k, i)
                            IN  \E j \in DOMAIN l : l[j] = e /\ \A m \in DOMAIN l : l[m] = e => m = j
                      /\ pc[c] = "failed" => FailedOver(c)
      BY DEF SequentialMergeKeepsEveryEntry, MergeKeepsEveryEntry, OwnEntry, FailedOver
  <2>1. OwnFirst /\ Merges /\ InTurn
      BY DEF SeqInv
  <2> QED  BY <2>1, DoneIsMerged DEF InTurn
<1>2. Init => Alone
    BY DEF Init, Alone, Active
<1> QED  BY <1>1, <1>2, Inductive, InitIInv, RecordedInit, RecordedNext, AloneNext, SeqInvInit,
            SeqInvNext, PTL DEF Spec
=============================================================================
