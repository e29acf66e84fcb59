------------------------------ MODULE EmitView ------------------------------
(***************************************************************************)
(* EmitView.AddPackage and EmitView.FileFor called by the generators of    *)
(* one bucket, which run one after the other or concurrently.              *)
(*                                                                         *)
(* A package is its lists of entries, one list per kind in the order       *)
(* AddPackage visits them; kind 1 is the files, the kind FileFor creates.  *)
(* An entry is the call that brings it and its qualified name.  Every      *)
(* bucket has its own lock, so a lookup or an Add is one step.  The append *)
(* to a host's list has no lock: it reads the list and writes it back.     *)
(* Nested members, imports and the cross-cutting indices add nothing to    *)
(* the interleavings and are left out; so is freezing, which happens when  *)
(* no generator runs.                                                      *)
(***************************************************************************)
EXTENDS Naturals, Sequences

CONSTANTS
    AddCalls,    \* calls of AddPackage
    FileCalls,   \* calls of FileFor
    Paths,       \* import paths of emit packages
    PathOf,      \* PathOf[c]: the Path of the package call c adds
    NKinds,      \* how many kinds of entry a package lists
    Names,       \* qualified names
    NamesOf,     \* NamesOf[c][k]: the names of kind k in the package, in order
    TargetOf,    \* TargetOf[c]: the file name call c of FileFor asks for
    Schedules,   \* how the bucket may be run: whether its calls may overlap
    None

Calls == AddCalls \cup FileCalls
Kinds == 1 .. NKinds
Files == 1

Entry == [by : Calls, name : Names]

ASSUME CallsAssumption ==
    /\ AddCalls \cap FileCalls = {} /\ None \notin Calls \cup Entry
    /\ NKinds \in Nat \ {0}
    /\ PathOf \in [AddCalls -> Paths]
    /\ NamesOf \in [AddCalls -> [Kinds -> Seq(Names)]]
    /\ TargetOf \in [FileCalls -> Names]
    /\ Schedules \subseteq BOOLEAN

VARIABLES
    overlap,    \* the bucket runs concurrently
    pc,         \* where each call is
    addPkgMu,   \* the call that holds the mutex, or None
    fileForMu,
    packages,   \* packages[path]: the call whose package is the host, or None
    bucket,     \* bucket[k][name]: the entry recorded, or None
    lists,      \* lists[c][k]: the list of kind k in the package of call c
    host,       \* host[c]: the call whose package c merges into, itself if new
    kind,       \* kind[c]: the kind whose loop c is in
    ahead,      \* ahead[c]: what its range statement has still to yield
    seen,       \* seen[c]: the host's list as append read it
    result      \* result[c]: the file FileFor returned

vars == <<overlap, pc, addPkgMu, fileForMu, packages, bucket, lists, host, kind, ahead, seen, result>>

TypeOK ==
    /\ overlap \in BOOLEAN
    /\ pc \in [Calls -> {"start", "lookup", "create", "loop", "append", "write", "done", "failed"}]
    /\ addPkgMu \in AddCalls \cup {None} /\ fileForMu \in FileCalls \cup {None}
    /\ packages \in [Paths -> AddCalls \cup {None}]
    /\ bucket \in [Kinds -> [Names -> Entry \cup {None}]]
    /\ lists \in [AddCalls -> [Kinds -> Seq(Entry)]]
    /\ host \in [AddCalls -> AddCalls \cup {None}]
    /\ kind \in [AddCalls -> 0 .. NKinds]
    /\ ahead \in [AddCalls -> Seq(Entry)] /\ seen \in [AddCalls -> Seq(Entry)]
    /\ result \in [FileCalls -> Entry \cup {None}]

Init ==
    /\ overlap \in Schedules
    /\ pc = [c \in Calls |-> "start"]
    /\ addPkgMu = None /\ fileForMu = None
    /\ packages = [path \in Paths |-> None]
    /\ bucket = [k \in Kinds |-> [n \in Names |-> None]]
    /\ lists = [c \in AddCalls |-> [k \in Kinds |->
                  [i \in DOMAIN NamesOf[c][k] |-> [by |-> c, name |-> NamesOf[c][k][i]]]]]
    /\ host = [c \in AddCalls |-> None]
    /\ kind = [c \in AddCalls |-> 0]
    /\ ahead = [c \in AddCalls |-> <<>>] /\ seen = [c \in AddCalls |-> <<>>]
    /\ result = [c \in FileCalls |-> None]

Goto(c, l) == pc' = [pc EXCEPT ![c] = l]

\* A generator calls the view while no other does, unless the bucket runs
\* concurrently.
MayStart(c) ==
    /\ pc[c] = "start"
    /\ overlap \/ \A d \in Calls : pc[d] \in {"start", "done", "failed"}

-----------------------------------------------------------------------------
(* AddPackage *)

\* (Mutation: the check-then-create is not serialised.)
AddLockFree(c) ==
    /\ MayStart(c)
    /\ Goto(c, "lookup")
    /\ addPkgMu' = c
    /\ UNCHANGED <<fileForMu, packages, bucket, lists, host, kind, ahead, seen, result>>

AddLock(c) ==
    /\ MayStart(c) /\ addPkgMu = None
    /\ Goto(c, "lookup")
    /\ addPkgMu' = c
    /\ UNCHANGED <<fileForMu, packages, bucket, lists, host, kind, ahead, seen, result>>

\* packages.ByQName: an existing host ends the critical section.
AddLookup(c) ==
    /\ pc[c] = "lookup"
    /\ LET h == packages[PathOf[c]] IN
        \/ /\ h = None
           /\ Goto(c, "create")
           /\ UNCHANGED <<addPkgMu, host>>
        \/ /\ h # None
           /\ Goto(c, "loop")
           /\ host' = [host EXCEPT ![c] = h] /\ addPkgMu' = None
    /\ UNCHANGED <<fileForMu, packages, bucket, lists, kind, ahead, seen, result>>

\* packages.Add, whose error is discarded: an earlier host stays.
AddCreate(c) ==
    /\ pc[c] = "create"
    /\ packages' = IF packages[PathOf[c]] = None
                   THEN [packages EXCEPT ![PathOf[c]] = c] ELSE packages
    /\ host' = [host EXCEPT ![c] = c]
    /\ addPkgMu' = None
    /\ Goto(c, "loop")
    /\ UNCHANGED <<fileForMu, bucket, lists, kind, ahead, seen, result>>

\* The loop of the next kind: range evaluates the package's list once.
NextKind(c) ==
    /\ pc[c] = "loop" /\ ahead[c] = <<>> /\ kind[c] < NKinds
    /\ kind' = [kind EXCEPT ![c] = @ + 1]
    /\ ahead' = [ahead EXCEPT ![c] = lists[c][kind[c] + 1]]
    /\ UNCHANGED <<pc, addPkgMu, fileForMu, packages, bucket, lists, host, seen, result>>

\* Bucket.Add.  (Mutation: the later entry replaces the earlier.)
RecordLast(k, e) == bucket' = [bucket EXCEPT ![k][e.name] = e]

Record(k, e) ==
    bucket' = IF bucket[k][e.name] = None THEN [bucket EXCEPT ![k][e.name] = e] ELSE bucket

\* A duplicate name returns from the call with what was added so far in
\* place.
AddEntry(c) ==
    /\ pc[c] = "loop" /\ ahead[c] # <<>>
    /\ LET e == Head(ahead[c]) IN
        /\ Record(kind[c], e)
        /\ Goto(c, CASE bucket[kind[c]][e.name] # None -> "failed"
                     [] bucket[kind[c]][e.name] = None /\ host[c] # c -> "append"
                     [] OTHER -> "loop")
        /\ ahead' = IF bucket[kind[c]][e.name] = None /\ host[c] = c
                    THEN [ahead EXCEPT ![c] = Tail(@)] ELSE ahead
    /\ UNCHANGED <<addPkgMu, fileForMu, packages, lists, host, kind, seen, result>>

\* host.Structs = append(host.Structs, s), read and write
AppendRead(c) ==
    /\ pc[c] = "append"
    /\ seen' = [seen EXCEPT ![c] = lists[host[c]][kind[c]]]
    /\ Goto(c, "write")
    /\ UNCHANGED <<addPkgMu, fileForMu, packages, bucket, lists, host, kind, ahead, result>>

\* (Mutation: the host does not learn of the entry.)
AppendDropped(c) ==
    /\ pc[c] = "write"
    /\ ahead' = [ahead EXCEPT ![c] = Tail(@)]
    /\ Goto(c, "loop")
    /\ UNCHANGED <<addPkgMu, fileForMu, packages, bucket, lists, host, kind, seen, result>>

AppendWrite(c) ==
    /\ pc[c] = "write"
    /\ lists' = [lists EXCEPT ![host[c]][kind[c]] = Append(seen[c], Head(ahead[c]))]
    /\ ahead' = [ahead EXCEPT ![c] = Tail(@)]
    /\ Goto(c, "loop")
    /\ UNCHANGED <<addPkgMu, fileForMu, packages, bucket, host, kind, seen, result>>

AddReturn(c) ==
    /\ pc[c] = "loop" /\ ahead[c] = <<>> /\ kind[c] = NKinds
    /\ Goto(c, "done")
    /\ UNCHANGED <<addPkgMu, fileForMu, packages, bucket, lists, host, kind, ahead, seen, result>>

-----------------------------------------------------------------------------
(* FileFor *)

\* (Mutation: the check-then-create is not serialised.)
FileLockFree(c) ==
    /\ MayStart(c)
    /\ Goto(c, "lookup")
    /\ fileForMu' = c
    /\ UNCHANGED <<addPkgMu, packages, bucket, lists, host, kind, ahead, seen, result>>

FileLock(c) ==
    /\ MayStart(c) /\ fileForMu = None
    /\ Goto(c, "lookup")
    /\ fileForMu' = c
    /\ UNCHANGED <<addPkgMu, packages, bucket, lists, host, kind, ahead, seen, result>>

FileLookup(c) ==
    /\ pc[c] = "lookup"
    /\ LET f == bucket[Files][TargetOf[c]] IN
        \/ /\ f = None
           /\ Goto(c, "create")
           /\ UNCHANGED <<fileForMu, result>>
        \/ /\ f # None
           /\ Goto(c, "done")
           /\ result' = [result EXCEPT ![c] = f] /\ fileForMu' = None
    /\ UNCHANGED <<addPkgMu, packages, bucket, lists, host, kind, ahead, seen>>

\* files.Add, whose error is discarded
FileCreate(c) ==
    /\ pc[c] = "create"
    /\ LET f == [by |-> c, name |-> TargetOf[c]] IN
        /\ Record(Files, f)
        /\ result' = [result EXCEPT ![c] = f]
    /\ fileForMu' = None
    /\ Goto(c, "done")
    /\ UNCHANGED <<addPkgMu, packages, lists, host, kind, ahead, seen>>

-----------------------------------------------------------------------------
Returned(c) == pc[c] \in {"done", "failed"}

Terminated == (\A c \in Calls : Returned(c)) /\ UNCHANGED vars

AddStep(c) ==
    \/ AddLock(c) \/ AddLookup(c) \/ AddCreate(c) \/ NextKind(c) \/ AddEntry(c)
    \/ AppendRead(c) \/ AppendWrite(c) \/ AddReturn(c)

FileStep(c) == FileLock(c) \/ FileLookup(c) \/ FileCreate(c)

Next ==
    /\ \/ \E c \in AddCalls : AddStep(c)
       \/ \E c \in FileCalls : FileStep(c)
       \/ Terminated
    /\ UNCHANGED overlap

Spec == Init /\ [][Next]_vars

-----------------------------------------------------------------------------
(* Properties. *)

\* Concurrent AddPackage calls for one path agree on the host: addPkgMu
\* bridges the window between ByQName and Add, so one creates it and the
\* others merge into it.
OneHostPerPath ==
    \A c, d \in AddCalls :
        PathOf[c] = PathOf[d] /\ host[c] # None /\ host[d] # None => host[c] = host[d]

\* A call that returns without error has every entry of its package in the
\* buckets, under its name, however the calls interleave.
DoneIsRecorded ==
    \A c \in AddCalls : pc[c] = "done" =>
        \A k \in Kinds : \A i \in DOMAIN NamesOf[c][k] :
            bucket[k][NamesOf[c][k][i]] = [by |-> c, name |-> NamesOf[c][k][i]]

\* The comment on AddPackage: concurrent calls for one path "resolve
\* deterministically - one creates the host, the other merges into it".
\* When all have returned, the host lists every entry of every call that
\* succeeded, once, and a call failed only over a name another call holds
\* or its own package lists twice.
MergeKeepsEveryEntry ==
    (\A c \in Calls : Returned(c)) =>
        \A c \in AddCalls :
            /\ pc[c] = "done" => \A k \in Kinds : \A i \in DOMAIN NamesOf[c][k] :
                  LET l == lists[host[c]][k]
                      e == [by |-> c, name |-> NamesOf[c][k][i]]
                  IN  \E j \in DOMAIN l : l[j] = e /\ \A m \in DOMAIN l : l[m] = e => m = j
            /\ pc[c] = "failed" => \E k \in Kinds : \E i \in DOMAIN NamesOf[c][k] :
                  /\ bucket[k][NamesOf[c][k][i]] # None
                  /\ \/ bucket[k][NamesOf[c][k][i]].by # c
                     \/ \E j \in DOMAIN NamesOf[c][k] \ {i} : NamesOf[c][k][j] = NamesOf[c][k][i]

\* The same of a bucket that runs sequentially, where no append can be lost.
SequentialMergeKeepsEveryEntry == ~overlap => MergeKeepsEveryEntry

\* FileFor: "exactly one emit.File per Target".  The file a caller got, and
\* fills the slots of, is the one the view holds and the backend renders,
\* save when a concurrent AddPackage brings a file of that name: the two
\* calls take different mutexes.
OneFilePerTarget ==
    \A c \in FileCalls :
        /\ pc[c] = "done"
        /\ overlap => \A d \in AddCalls : \A i \in DOMAIN NamesOf[d][Files] :
                          NamesOf[d][Files][i] # TargetOf[c]
        => bucket[Files][TargetOf[c]] = result[c]
=============================================================================
