------------------------- MODULE FrontendCacheProofs -------------------------
(***************************************************************************)
(* For any number of processes, plugin sets and files: an entry of the     *)
(* frontend cache is the conversion its key stands for, and a run over     *)
(* sources nobody edits sees those sources.  No lock is shared: processes  *)
(* overwrite, move and remove each other's temporary files.                *)
(***************************************************************************)
EXTENDS FrontendCache, TLAPS

\* No edit can have come between the two reads of a run.
Undisturbed(q) == kind = "protobuf" \/ q.steady

\* What is stored under key k, in a temporary file or an entry.
Sound(k, v) ==
    v # Torn /\ v.faithful => Own(v.graph) = k[3] /\ v.by = k[2]

\* What a run knows: text is what it loaded, hash the unit's part of it,
\* graph its conversion or what the cache had under the key.
Facts(q) ==
    /\ q.pc # "idle" /\ q.steady => q.text = Present
    /\ kind # "go" => DOMAIN q.text \subseteq Files
    /\ q.pc \in {"get", "open", "write", "rename"} => q.keyed
    /\ q.keyed /\ Undisturbed(q) => q.hash = Own(q.text)
    /\ q.hit => q.pc = "done" /\ q.keyed
    /\ q.pc \in {"open", "write", "rename", "done"} /\ ~q.hit /\ Undisturbed(q) => q.graph = q.text
    /\ q.hit /\ q.from.faithful => Own(q.graph) = q.hash /\ q.from.by = q.print

IInv ==
    /\ TypeOK
    /\ \A k \in DOMAIN disk : Sound(k, disk[k])
    /\ \A k \in DOMAIN tmp : Sound(k, tmp[k])
    /\ \A p \in Procs : Facts(ps[p])

-----------------------------------------------------------------------------
(* Graphs *)

LEMMA GraphIsFunction ==
    ASSUME NEW g
    PROVE  g \in Graph <=> /\ DOMAIN g \subseteq Files \cup Imported
                           /\ g \in [DOMAIN g -> Texts]
<1>1. ASSUME NEW S \in SUBSET (Files \cup Imported), g \in [S -> Texts]
      PROVE  DOMAIN g = S
    BY <1>1
<1> QED  BY <1>1 DEF Graph

LEMMA NoGraphIsGraph == NoGraph \in Graph /\ DOMAIN NoGraph = {}
<1>1. DOMAIN NoGraph = {} /\ NoGraph \in [{} -> Texts]
    BY DEF NoGraph
<1> QED  BY <1>1, GraphIsFunction

LEMMA TornIsStored == Torn \in Stored
BY NoGraphIsGraph DEF Torn, Stored

LEMMA IdleIsRun == Idle \in Run
BY NoGraphIsGraph, TornIsStored DEF Idle, Run

\* Restricting a file system's texts to files that exist makes a graph.
LEMMA RestrictIsGraph ==
    ASSUME TypeOK, NEW S \in SUBSET (Files \cup Imported), \A f \in S : src[f] # Gone
    PROVE  Restrict(src, S) \in Graph /\ DOMAIN Restrict(src, S) = S
<1>1. DOMAIN Restrict(src, S) = S /\ Restrict(src, S) \in [S -> Texts]
    BY DEF TypeOK, Restrict
<1> QED  BY <1>1, GraphIsFunction

LEMMA PresentIsGraph ==
    ASSUME TypeOK
    PROVE  /\ Present \in Graph
           /\ kind # "go" => DOMAIN Present \subseteq Files
           /\ \A f \in DOMAIN Present : src[f] # Gone /\ Present[f] = src[f]
<1> DEFINE S == {f \in Files \cup (IF kind = "go" THEN Imported ELSE {}) : src[f] # Gone}
<1>1. Present = [f \in S |-> src[f]] /\ S \subseteq Files \cup Imported
    BY DEF Present
<1>2. Present = Restrict(src, S)
    BY <1>1 DEF Restrict
<1> QED  BY <1>1, <1>2, RestrictIsGraph

\* The part of a graph that the unit's files make up.
LEMMA OwnDomain ==
    ASSUME NEW g \in Graph
    PROVE  DOMAIN Own(g) = Files \cap DOMAIN g
BY DEF Own, Restrict

LEMMA OwnOfUnit ==
    ASSUME NEW g \in Graph, DOMAIN g \subseteq Files
    PROVE  Own(g) = g
<1>1. g = [x \in DOMAIN g |-> g[x]]
    BY GraphIsFunction
<1>2. Files \cap DOMAIN g = DOMAIN g
    OBVIOUS
<1> QED  BY <1>1, <1>2 DEF Own, Restrict

-----------------------------------------------------------------------------
(* Runs *)

\* An open file that moves changes nothing else of its run.
LEMMA MovedFacts ==
    ASSUME TypeOK, NEW p \in Procs, NEW k, NEW to \in {"disk", "unlinked"}, NEW q \in Procs
    PROVE  /\ Moved(p, k, to)[q] \in Run /\ Moved(p, k, to)[p] = ps[p]
           /\ Facts(ps[q]) => Facts(Moved(p, k, to)[q])
<1>1. ps[q] \in Run
    BY DEF TypeOK
<1>2. Moved(p, k, to)[p] = ps[p]
    BY DEF Moved
<1>3. CASE Moved(p, k, to)[q] = ps[q]
    BY <1>1, <1>2, <1>3
<1>4. CASE Moved(p, k, to)[q] # ps[q]
  <2>1. PICK fd \in {"", "tmp", "disk", "unlinked"} : Moved(p, k, to)[q] = [ps[q] EXCEPT !.fd = fd]
      BY <1>1, <1>4 DEF Moved, Run
  <2>2. [ps[q] EXCEPT !.fd = fd] \in Run
      BY <1>1 DEF Run
  <2>3. Facts(ps[q]) => Facts([ps[q] EXCEPT !.fd = fd])
      BY <1>1 DEF Run, Facts, Undisturbed
  <2> QED  BY <1>2, <2>1, <2>2, <2>3
<1> QED  BY <1>3, <1>4

\* The invariant after a step that leaves the sources alone.
LEMMA StepIInv ==
    ASSUME TypeOK, UNCHANGED <<kind, src>>,
           ps' \in [Procs -> Run], \A q \in Procs : Facts(ps'[q]),
           \A k \in DOMAIN disk' : disk'[k] \in Stored /\ Sound(k, disk'[k]),
           \A k \in DOMAIN tmp' : tmp'[k] \in Stored /\ Sound(k, tmp'[k])
    PROVE  IInv'
<1>1. TypeOK'
    BY DEF TypeOK
<1>2. \A q \in Procs : Facts(ps[q])'
    BY DEF Facts, Present, Undisturbed, Own
<1>3. (\A k \in DOMAIN disk : Sound(k, disk[k]))' /\ (\A k \in DOMAIN tmp : Sound(k, tmp[k]))'
    BY DEF Sound, Own
<1> QED  BY <1>1, <1>2, <1>3 DEF IInv

\* One process moves, and the cache directory stays as it is.
LEMMA GotoIInv ==
    ASSUME IInv, UNCHANGED <<kind, src, disk, tmp>>, NEW p \in Procs, NEW r \in Run, Facts(r), Goto(p, r)
    PROVE  IInv'
<1>1. ps' = [ps EXCEPT ![p] = r] /\ ps \in [Procs -> Run]
    BY DEF Goto, IInv, TypeOK
<1>2. ps' \in [Procs -> Run] /\ \A q \in Procs : Facts(ps'[q])
    BY <1>1 DEF IInv
<1> QED  BY <1>2, StepIInv DEF IInv, TypeOK

-----------------------------------------------------------------------------
(* Loading *)

LEMMA LoadIInv ==
    ASSUME IInv, UNCHANGED kind, NEW p \in Procs, NEW print \in Prints, Load(p, print)
    PROVE  IInv'
<1> DEFINE r == [Idle EXCEPT !.pc = "hash", !.print = print, !.text = Present]
<1>1. TypeOK
    BY DEF IInv
<1>2. r \in Run /\ r.pc = "hash" /\ r.text = Present /\ ~r.keyed /\ ~r.hit
    BY <1>1, IdleIsRun, PresentIsGraph DEF Run, Idle
<1>3. Facts(r)
    BY <1>1, <1>2, PresentIsGraph DEF Facts
<1>4. Goto(p, r) /\ UNCHANGED <<src, disk, tmp>>
    BY DEF Load, Goto
<1> QED  BY <1>2, <1>3, <1>4, GotoIInv

LEMMA HashIInv ==
    ASSUME IInv, UNCHANGED kind, NEW p \in Procs, Hash(p)
    PROVE  IInv'
<1> DEFINE q == ps[p]
<1>1. TypeOK /\ q \in Run /\ Facts(q) /\ q.pc = "hash" /\ UNCHANGED <<src, disk, tmp>>
    BY DEF IInv, TypeOK, Hash
<1>2. q.text \in Graph /\ ~q.hit
    BY <1>1 DEF Run, Facts
<1>3. CASE Readable(q) /\ Goto(p, [q EXCEPT !.pc = "get", !.keyed = TRUE, !.hash = Hashed(q)])
  <2> DEFINE r == [q EXCEPT !.pc = "get", !.keyed = TRUE, !.hash = Hashed(q)]
  <2>1. Hashed(q) \in Graph /\ (Undisturbed(q) => Hashed(q) = Own(q.text))
    <3>1. CASE kind = "protobuf"
        BY <1>1, <1>2, <3>1, OwnOfUnit DEF Hashed, Facts
    <3>2. CASE kind # "protobuf"
      <4> DEFINE S == DOMAIN Own(q.text)
      <4>1. S = Files \cap DOMAIN q.text /\ \A f \in S : src[f] # Gone
          BY <1>2, <1>3, <3>2, OwnDomain DEF Readable
      <4>2. Hashed(q) = Restrict(src, S) /\ Restrict(src, S) \in Graph
          BY <1>1, <3>2, <4>1, RestrictIsGraph DEF Hashed
      <4>3. ASSUME Undisturbed(q) PROVE Restrict(src, S) = Own(q.text)
        <5>1. q.text = Present
            BY <1>1, <3>2, <4>3 DEF Undisturbed, Facts
        <5>2. \A f \in S : src[f] = q.text[f]
            BY <1>1, <4>1, <5>1, PresentIsGraph
        <5> QED  BY <4>1, <5>2 DEF Restrict, Own
      <4> QED  BY <4>2, <4>3
    <3> QED  BY <3>1, <3>2
  <2>2. /\ r \in Run /\ r.pc = "get" /\ r.keyed /\ r.hash = Hashed(q) /\ r.text = q.text
        /\ r.steady = q.steady /\ r.hit = q.hit
      BY <1>1, <2>1 DEF Run
  <2>3. Facts(r)
      BY <1>1, <1>2, <2>1, <2>2 DEF Facts, Undisturbed
  <2> QED  BY <1>1, <1>3, <2>2, <2>3, GotoIInv
<1>4. CASE Goto(p, [q EXCEPT !.pc = "convert"])
  <2> DEFINE r == [q EXCEPT !.pc = "convert"]
  <2>1. r \in Run /\ Facts(r)
      BY <1>1, <1>2 DEF Run, Facts, Undisturbed
  <2> QED  BY <1>1, <1>4, <2>1, GotoIInv
<1> QED  BY <1>3, <1>4 DEF Hash

\* A hit: what the entry holds for the key is what the run would convert,
\* as far as the unit's own files go.
LEMMA GetIInv ==
    ASSUME IInv, UNCHANGED kind, NEW p \in Procs, Get(p)
    PROVE  IInv'
<1> DEFINE q == ps[p]  k == Key(ps[p])
<1>1. TypeOK /\ q \in Run /\ Facts(q) /\ q.pc = "get" /\ UNCHANGED <<src, disk, tmp>>
    BY DEF IInv, TypeOK, Get
<1>2. CASE /\ Hits(k)
           /\ Goto(p, [q EXCEPT !.pc = "done", !.hit = TRUE, !.from = disk[k], !.graph = disk[k].graph])
  <2> DEFINE r == [q EXCEPT !.pc = "done", !.hit = TRUE, !.from = disk[k], !.graph = disk[k].graph]
  <2>1. /\ disk[k] \in Stored /\ disk[k] # Torn /\ Sound(k, disk[k])
        /\ k[2] = q.print /\ k[3] = q.hash
      BY <1>1, <1>2 DEF Hits, IInv, TypeOK, Key
  <2>2. disk[k].graph \in Graph
      BY <2>1 DEF Stored
  <2>3. /\ r \in Run /\ r.pc = "done" /\ r.hit /\ r.from = disk[k] /\ r.graph = disk[k].graph
        /\ r.keyed = q.keyed /\ r.hash = q.hash /\ r.print = q.print /\ r.text = q.text /\ r.steady = q.steady
      BY <1>1, <2>1, <2>2 DEF Run
  <2>4. Facts(r)
      BY <1>1, <2>1, <2>3 DEF Facts, Undisturbed, Sound
  <2> QED  BY <1>1, <1>2, <2>3, <2>4, GotoIInv
<1>3. CASE Goto(p, [q EXCEPT !.pc = "convert"])
  <2> DEFINE r == [q EXCEPT !.pc = "convert"]
  <2>1. r \in Run /\ Facts(r)
      BY <1>1 DEF Run, Facts, Undisturbed
  <2> QED  BY <1>1, <1>3, <2>1, GotoIInv
<1> QED  BY <1>2, <1>3 DEF Get

\* TypeScript's second read finds what the first found, unless there was an
\* edit.
LEMMA ConvertIInv ==
    ASSUME IInv, UNCHANGED kind, NEW p \in Procs, Convert(p)
    PROVE  IInv'
<1> DEFINE q == ps[p]
           graph == Converted(q)
           r == [q EXCEPT !.pc = IF q.keyed /\ Own(graph) # NoGraph THEN "open" ELSE "done",
                          !.graph = graph,
                          !.reports = (DOMAIN q.text \ DOMAIN graph)
                                      \cup {f \in DOMAIN Own(graph) : graph[f] \in Malformed}]
<1>1. TypeOK /\ q \in Run /\ Facts(q) /\ q.pc = "convert" /\ Goto(p, r) /\ UNCHANGED <<src, disk, tmp>>
    BY DEF IInv, TypeOK, Convert
<1>2. q.text \in Graph /\ DOMAIN q.text \subseteq Files \cup Imported /\ ~q.hit
    BY <1>1, GraphIsFunction DEF Run, Facts
<1>3. graph \in Graph /\ (Undisturbed(q) => graph = q.text)
  <2>1. CASE kind # "typescript"
      BY <1>2, <2>1 DEF Converted
  <2>2. CASE kind = "typescript"
    <3> DEFINE S == {f \in DOMAIN q.text : src[f] # Gone}
    <3>1. graph = Restrict(src, S) /\ graph \in Graph
        BY <1>1, <1>2, <2>2, RestrictIsGraph DEF Converted
    <3>2. ASSUME Undisturbed(q) PROVE Restrict(src, S) = q.text
      <4>1. q.text = Present
          BY <1>1, <2>2, <3>2 DEF Undisturbed, Facts
      <4>2. S = DOMAIN q.text /\ \A f \in S : src[f] = q.text[f]
          BY <1>1, <4>1, PresentIsGraph
      <4>3. q.text = [f \in DOMAIN q.text |-> q.text[f]]
          BY <1>2, GraphIsFunction
      <4> QED  BY <4>2, <4>3 DEF Restrict
    <3> QED  BY <3>1, <3>2
  <2> QED  BY <2>1, <2>2
<1>4. r.reports \subseteq Files \cup Imported
    BY <1>1, <1>2, <1>3, OwnDomain DEF Run
<1>5. /\ r \in Run /\ r.graph = graph /\ r.text = q.text /\ r.keyed = q.keyed /\ r.hit = q.hit
      /\ r.steady = q.steady /\ r.hash = q.hash /\ (r.pc = "done" \/ (r.pc = "open" /\ q.keyed))
    BY <1>1, <1>3, <1>4 DEF Run
<1>6. Facts(r)
    BY <1>1, <1>2, <1>3, <1>5 DEF Facts, Undisturbed
<1> QED  BY <1>1, <1>5, <1>6, GotoIInv

-----------------------------------------------------------------------------
(* Storing *)

\* What a process that puts its graph has to store suits its key.
LEMMA ValueIsSound ==
    ASSUME IInv, NEW p \in Procs, ps[p].pc \in {"open", "write", "rename"}
    PROVE  Value(p) \in Stored /\ Sound(Key(ps[p]), Value(p))
<1>1. ps[p] \in Run /\ Facts(ps[p]) /\ ~ps[p].hit
    BY DEF IInv, TypeOK, Facts
<1>2. /\ Value(p).graph = ps[p].graph /\ Value(p).by = ps[p].print
      /\ Value(p).faithful <=> Undisturbed(ps[p])
    BY DEF Value, Undisturbed
<1>3. Value(p) \in Stored
  <2>1. (kind = "protobuf" \/ ps[p].steady) \in BOOLEAN
      OBVIOUS
  <2> QED  BY <1>1, <2>1 DEF Value, Stored, Run
<1>4. Key(ps[p])[2] = ps[p].print /\ Key(ps[p])[3] = ps[p].hash
    BY DEF Key
<1>5. Undisturbed(ps[p]) => ps[p].graph = ps[p].text /\ ps[p].hash = Own(ps[p].text)
    BY <1>1 DEF Facts
<1> QED  BY <1>2, <1>3, <1>4, <1>5 DEF Sound

\* A stored value replaces another.
LEMMA PutIsSound ==
    ASSUME NEW m, NEW k, NEW v, v \in Stored, Sound(k, v),
           \A x \in DOMAIN m : m[x] \in Stored /\ Sound(x, m[x])
    PROVE  \A x \in DOMAIN Put(m, k, v) : Put(m, k, v)[x] \in Stored /\ Sound(x, Put(m, k, v)[x])
<1> SUFFICES ASSUME NEW x \in DOMAIN Put(m, k, v)
             PROVE  Put(m, k, v)[x] \in Stored /\ Sound(x, Put(m, k, v)[x])
    OBVIOUS
<1>1. CASE x = k
    BY <1>1 DEF Put
<1>2. CASE x # k
  <2>1. x \in DOMAIN m /\ Put(m, k, v)[x] = m[x]
      BY <1>2 DEF Put
  <2> QED  BY <2>1
<1> QED  BY <1>1, <1>2

LEMMA DirectoryIsSound ==
    ASSUME IInv
    PROVE  /\ TypeOK
           /\ \A k \in DOMAIN disk : disk[k] \in Stored /\ Sound(k, disk[k])
           /\ \A k \in DOMAIN tmp : tmp[k] \in Stored /\ Sound(k, tmp[k])
BY DEF IInv, TypeOK

\* Neither a put nor an edit changes what a run has read.
SameReads(q, r) ==
    /\ r.print = q.print /\ r.text = q.text /\ r.keyed = q.keyed /\ r.hash = q.hash
    /\ r.graph = q.graph /\ r.hit = q.hit /\ r.from = q.from

\* The facts of a run that goes on from a put to the next step of it.
LEMMA PuttingFacts ==
    ASSUME NEW q \in Run, NEW r \in Run, Facts(q), q.pc \in {"open", "write", "rename"},
           r.pc \in {"write", "rename", "done"},
           SameReads(q, r), r.steady = q.steady
    PROVE  Facts(r)
BY DEF Facts, Undisturbed, SameReads

LEMMA PutOpenIInv ==
    ASSUME IInv, UNCHANGED kind, NEW p \in Procs, PutOpen(p)
    PROVE  IInv'
<1> DEFINE r == [ps[p] EXCEPT !.pc = "write", !.fd = "tmp"]
<1>1. /\ ps[p].pc = "open" /\ ps' = [ps EXCEPT ![p] = r] /\ tmp' = Put(tmp, Key(ps[p]), Torn)
      /\ UNCHANGED <<src, disk>>
    BY DEF PutOpen, Goto
<1>2. ps \in [Procs -> Run] /\ \A q \in Procs : Facts(ps[q])
    BY DEF IInv, TypeOK
<1>3. r \in Run /\ Facts(r)
  <2>1. ps[p] \in Run
      BY <1>2
  <2>2. r \in Run /\ r.pc \in {"write", "rename"} /\ SameReads(ps[p], r) /\ r.steady = ps[p].steady
      BY <2>1 DEF Run, SameReads
  <2> QED  BY <1>1, <1>2, <2>1, <2>2, PuttingFacts
<1>4. ps' \in [Procs -> Run] /\ \A q \in Procs : Facts(ps'[q])
    BY <1>1, <1>2, <1>3
<1>5. Sound(Key(ps[p]), Torn)
    BY DEF Sound
<1>6. \A k \in DOMAIN tmp' : tmp'[k] \in Stored /\ Sound(k, tmp'[k])
    BY <1>1, <1>5, TornIsStored, DirectoryIsSound, PutIsSound
<1> QED  BY <1>1, <1>4, <1>6, DirectoryIsSound, StepIInv

LEMMA PutWriteIInv ==
    ASSUME IInv, UNCHANGED kind, NEW p \in Procs, PutWrite(p)
    PROVE  IInv'
<1> DEFINE r == [ps[p] EXCEPT !.pc = "rename"]
           k == Key(ps[p])
<1>1. /\ ps[p].pc = "write" /\ ps' = [ps EXCEPT ![p] = r] /\ src' = src
      /\ tmp' = tmp \/ tmp' = Put(tmp, k, Value(p))
      /\ disk' = disk \/ disk' = Put(disk, k, Value(p))
    BY DEF PutWrite, Goto
<1>2. ps \in [Procs -> Run] /\ \A q \in Procs : Facts(ps[q])
    BY DEF IInv, TypeOK
<1>3. r \in Run /\ Facts(r)
  <2>1. ps[p] \in Run
      BY <1>2
  <2>2. r \in Run /\ r.pc \in {"write", "rename"} /\ SameReads(ps[p], r) /\ r.steady = ps[p].steady
      BY <2>1 DEF Run, SameReads
  <2> QED  BY <1>1, <1>2, <2>1, <2>2, PuttingFacts
<1>4. ps' \in [Procs -> Run] /\ \A q \in Procs : Facts(ps'[q])
    BY <1>1, <1>2, <1>3
<1>5. Value(p) \in Stored /\ Sound(k, Value(p))
    BY <1>1, ValueIsSound
<1>6. \A x \in DOMAIN tmp' : tmp'[x] \in Stored /\ Sound(x, tmp'[x])
    BY <1>1, <1>5, DirectoryIsSound, PutIsSound
<1>7. \A x \in DOMAIN disk' : disk'[x] \in Stored /\ Sound(x, disk'[x])
    BY <1>1, <1>5, DirectoryIsSound, PutIsSound
<1> QED  BY <1>1, <1>4, <1>6, <1>7, DirectoryIsSound, StepIInv

\* The other processes keep their facts when a put ends.
LEMMA PutEnds ==
    ASSUME IInv, NEW p \in Procs, NEW k, NEW to \in {"disk", "unlinked"}, NEW r \in Run, Facts(r),
           ps' = [Moved(p, k, to) EXCEPT ![p] = r]
    PROVE  ps' \in [Procs -> Run] /\ \A q \in Procs : Facts(ps'[q])
<1>1. TypeOK /\ \A q \in Procs : ps[q] \in Run /\ Facts(ps[q])
    BY DEF IInv, TypeOK
<1>2. \A q \in Procs : Moved(p, k, to)[q] \in Run /\ Facts(Moved(p, k, to)[q])
    BY <1>1, MovedFacts
<1>3. Moved(p, k, to) \in [Procs -> Run]
    BY <1>2 DEF Moved
<1> QED  BY <1>2, <1>3

\* A rename takes along what the temporary file holds, whoever wrote it.
LEMMA PutRenameIInv ==
    ASSUME IInv, UNCHANGED kind, NEW p \in Procs, PutRename(p)
    PROVE  IInv'
<1> DEFINE k == Key(ps[p])
           done == [ps[p] EXCEPT !.pc = "done"]
           warned == [ps[p] EXCEPT !.pc = "done", !.warned = TRUE]
<1>1. ps \in [Procs -> Run] /\ (\A q \in Procs : Facts(ps[q])) /\ ps[p].pc = "rename" /\ src' = src
    BY DEF IInv, TypeOK, PutRename
<1>2. done \in Run /\ Facts(done) /\ warned \in Run /\ Facts(warned)
  <2>1. ps[p] \in Run
      BY <1>1
  <2>2. done \in Run /\ done.pc = "done" /\ SameReads(ps[p], done) /\ done.steady = ps[p].steady
      BY <2>1 DEF Run, SameReads
  <2>3. warned \in Run /\ warned.pc = "done" /\ SameReads(ps[p], warned) /\ warned.steady = ps[p].steady
      BY <2>1 DEF Run, SameReads
  <2> QED  BY <1>1, <2>1, <2>2, <2>3, PuttingFacts
<1>3. CASE k \in DOMAIN tmp
  <2>1. /\ disk' = Put(disk, k, tmp[k]) /\ tmp' = Restrict(tmp, DOMAIN tmp \ {k})
        /\ ps' = [Moved(p, k, "disk") EXCEPT ![p].pc = "done"]
      BY <1>3 DEF PutRename
  <2>2. Moved(p, k, "disk")[p] = ps[p]
      BY DEF Moved
  <2>3. ps' = [Moved(p, k, "disk") EXCEPT ![p] = done]
      BY <2>1, <2>2
  <2>4. ps' \in [Procs -> Run] /\ \A q \in Procs : Facts(ps'[q])
      BY <1>2, <2>3, PutEnds
  <2>5. \A x \in DOMAIN tmp' : tmp'[x] \in Stored /\ Sound(x, tmp'[x])
      BY <2>1, DirectoryIsSound DEF Restrict
  <2>6. \A x \in DOMAIN disk' : disk'[x] \in Stored /\ Sound(x, disk'[x])
      BY <1>3, <2>1, DirectoryIsSound, PutIsSound
  <2> QED  BY <1>1, <2>4, <2>5, <2>6, DirectoryIsSound, StepIInv
<1>4. CASE k \notin DOMAIN tmp
  <2>1. ps' = [ps EXCEPT ![p].pc = "done", ![p].warned = TRUE] /\ UNCHANGED <<disk, tmp>>
      BY <1>4 DEF PutRename
  <2>2. Goto(p, warned)
      BY <1>1, <2>1 DEF Goto, Run
  <2> QED  BY <1>1, <1>2, <2>1, <2>2, GotoIInv
<1> QED  BY <1>3, <1>4

LEMMA PutFailsIInv ==
    ASSUME IInv, UNCHANGED kind, NEW p \in Procs, PutFails(p)
    PROVE  IInv'
<1> DEFINE k == Key(ps[p])
           warned == [ps[p] EXCEPT !.pc = "done", !.warned = TRUE]
<1>1. /\ ps \in [Procs -> Run] /\ \A q \in Procs : Facts(ps[q])
      /\ ps[p].pc \in {"open", "write", "rename"} /\ UNCHANGED <<src, disk>>
      /\ tmp' = Restrict(tmp, DOMAIN tmp \ {k})
      /\ ps' = [Moved(p, k, "unlinked") EXCEPT ![p].pc = "done", ![p].warned = TRUE]
    BY DEF IInv, TypeOK, PutFails
<1>2. warned \in Run /\ Facts(warned)
  <2>1. ps[p] \in Run
      BY <1>1
  <2>2. warned \in Run /\ warned.pc = "done" /\ SameReads(ps[p], warned) /\ warned.steady = ps[p].steady
      BY <2>1 DEF Run, SameReads
  <2> QED  BY <1>1, <2>1, <2>2, PuttingFacts
<1>3. Moved(p, k, "unlinked")[p] = ps[p] /\ Moved(p, k, "unlinked") \in [Procs -> Run]
    BY DirectoryIsSound, MovedFacts DEF Moved
<1>4. ps' = [Moved(p, k, "unlinked") EXCEPT ![p] = warned]
    BY <1>1, <1>3 DEF Run
<1>5. ps' \in [Procs -> Run] /\ \A q \in Procs : Facts(ps'[q])
    BY <1>2, <1>4, PutEnds
<1>6. \A x \in DOMAIN tmp' : tmp'[x] \in Stored /\ Sound(x, tmp'[x])
    BY <1>1, DirectoryIsSound DEF Restrict
<1> QED  BY <1>1, <1>5, <1>6, DirectoryIsSound, StepIInv

-----------------------------------------------------------------------------
(* The environment *)

LEMMA LeaveIInv ==
    ASSUME IInv, UNCHANGED kind, NEW p \in Procs, Leave(p)
    PROVE  IInv'
<1>1. Facts(Idle)
    BY NoGraphIsGraph DEF Facts, Idle
<1> QED  BY <1>1, IdleIsRun, GotoIInv DEF Leave, Goto

\* After an edit only protobuf runs know anything of what they read.
LEMMA EditIInv ==
    ASSUME IInv, UNCHANGED kind, NEW f \in Files \cup Imported, NEW text \in Texts \cup {Gone}, Edit(f, text)
    PROVE  IInv'
<1>1. /\ src' = [src EXCEPT ![f] = text] /\ UNCHANGED <<disk, tmp>>
      /\ ps' = [p \in Procs |-> [ps[p] EXCEPT !.steady = FALSE]]
    BY DEF Edit
<1>2. TypeOK
    BY DEF IInv
<1>3. ASSUME NEW p \in Procs
      PROVE  /\ ps[p] \in Run /\ ps'[p] \in Run
             /\ ps'[p].pc = ps[p].pc /\ ps'[p].steady = FALSE /\ SameReads(ps[p], ps'[p])
  <2>1. ps[p] \in Run
      BY <1>2 DEF TypeOK
  <2>2. ps'[p] = [ps[p] EXCEPT !.steady = FALSE]
      BY <1>1
  <2> QED  BY <2>1, <2>2 DEF Run, SameReads
<1>4. TypeOK'
  <2>1. ps' \in [Procs -> Run]
      BY <1>1, <1>3
  <2> QED  BY <1>1, <1>2, <2>1 DEF TypeOK
<1>5. \A p \in Procs : Facts(ps[p])'
  <2> SUFFICES ASSUME NEW p \in Procs PROVE Facts(ps[p])'
      OBVIOUS
  <2> QED  BY <1>3 DEF IInv, Facts, Undisturbed, Own, SameReads
<1>6. (\A k \in DOMAIN disk : Sound(k, disk[k]))' /\ (\A k \in DOMAIN tmp : Sound(k, tmp[k]))'
    BY <1>1 DEF IInv, Sound, Own
<1> QED  BY <1>4, <1>5, <1>6 DEF IInv

-----------------------------------------------------------------------------
(* The theorems *)

LEMMA InitIInv == Init => IInv
<1> SUFFICES ASSUME Init PROVE IInv
    OBVIOUS
<1>1. DOMAIN disk = {} /\ DOMAIN tmp = {}
    BY DEF Init
<1>2. TypeOK
    BY <1>1, IdleIsRun DEF Init, TypeOK
<1>3. Facts(Idle)
    BY NoGraphIsGraph DEF Facts, Idle
<1> QED  BY <1>1, <1>2, <1>3 DEF Init, IInv

LEMMA NextIInv == IInv /\ [Next]_vars => IInv'
<1> SUFFICES ASSUME IInv, [Next]_vars PROVE IInv'
    OBVIOUS
<1>1. CASE UNCHANGED vars
  <2>1. UNCHANGED <<kind, src, disk, tmp, ps>>
      BY <1>1 DEF vars
  <2>2. ps' \in [Procs -> Run] /\ \A q \in Procs : Facts(ps'[q])
      BY <2>1 DEF IInv, TypeOK
  <2> QED  BY <2>1, <2>2, DirectoryIsSound, StepIInv
<1>2. CASE Next
    BY <1>2, HashIInv, GetIInv, ConvertIInv, PutOpenIInv, PutWriteIInv, PutRenameIInv, PutFailsIInv,
       LeaveIInv, LoadIInv, EditIInv DEF Next
<1> QED  BY <1>1, <1>2

LEMMA Invariant == Spec => []IInv
BY InitIInv, NextIInv, PTL DEF Spec

\* Every value stays of its type: what is stored is a graph, never a mix.
THEOREM CacheTypes == Spec => []TypeOK
<1>1. IInv => TypeOK
    BY DEF IInv
<1> QED  BY <1>1, Invariant, PTL

\* An entry stored by a run nobody disturbed holds the conversion of the texts
\* its key hashes.
THEOREM EntriesAreSound == Spec => []EntriesMatchTheirKey
<1>1. IInv => EntriesMatchTheirKey
    BY DEF IInv, Sound, EntriesMatchTheirKey
<1> QED  BY <1>1, Invariant, PTL

\* A run over sources nobody edits adds their graph, converted afresh or found
\* in an entry of a run nobody disturbed.
THEOREM RunsAreTruthful == Spec => []RunsSeeTheirSources
<1>1. ASSUME IInv PROVE RunsSeeTheirSources
  <2> SUFFICES ASSUME NEW p \in Procs, ps[p].pc = "done", ps[p].steady, ps[p].hit => ps[p].from.faithful
               PROVE  /\ Own(ps[p].graph) = Own(Present)
                      /\ IF ps[p].hit THEN ps[p].from.by = ps[p].print ELSE ps[p].graph = Present
      BY DEF RunsSeeTheirSources
  <2>1. Facts(ps[p]) /\ Undisturbed(ps[p])
      BY <1>1 DEF IInv, Undisturbed
  <2> QED  BY <2>1 DEF Facts
<1> QED  BY <1>1, Invariant, PTL
=============================================================================
