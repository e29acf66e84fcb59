---------------------------- MODULE FrontendCache ----------------------------
(***************************************************************************)
(* plugin.CacheLoad over cache.Disk, for the three frontends.  Processes   *)
(* run frontends over one unit and share the cache directory; an editor    *)
(* changes the sources at any time.                                        *)
(*                                                                         *)
(* A frontend reads its sources up to twice: to hash them and to convert   *)
(* them.  Go converts what packages.Load parsed before the hash, protobuf  *)
(* hashes and converts one compiled set, TypeScript reads again after it.  *)
(* The graph of a set of files is the set of texts it was converted from.  *)
(* The Go converter sees other packages too, through the type checker: an  *)
(* interface they declare is projected onto the embeds of the unit.  The   *)
(* key hashes the files of the unit alone.                                 *)
(***************************************************************************)
EXTENDS Naturals, FiniteSets, Functions

CONSTANTS
    Procs,       \* processes
    Kinds,       \* a subset of {"go", "typescript", "protobuf"}
    Files,       \* the files of the unit ...
    Imported,    \* ... and those of packages it imports
    Texts,       \* what a file may hold
    Malformed,   \* texts with a directive that does not parse
    Prints,      \* composition fingerprints
    Gone,        \* in place of the text of a file that does not exist
    MaxEdits, MaxRuns   \* bounds: edits, and runs started

VARIABLES
    kind,    \* the frontend the unit belongs to
    src,     \* src[f]: a text, or Gone
    disk,    \* entries by key: the stored value, or Torn
    tmp,     \* the same for the temporary files <key>.eidos.tmp
    ps,      \* ps[p]: the run of process p
    edits, runs

vars == <<kind, src, disk, tmp, ps, edits, runs>>

NoGraph == [f \in {} |-> Gone]

\* A file that was opened and not yet written: not a JSON document.
Torn == [graph |-> NoGraph, by |-> "", faithful |-> TRUE]

\* ghosts: steady, no edit since the run began; by, who stored the value.
Idle == [pc |-> "idle", print |-> "", text |-> NoGraph, keyed |-> FALSE, hash |-> NoGraph,
         graph |-> NoGraph, reports |-> {}, hit |-> FALSE, warned |-> FALSE, fd |-> "", steady |-> TRUE,
         from |-> Torn]

Init ==
    /\ kind \in Kinds
    /\ src \in [Files \cup Imported -> Texts]
    /\ disk = <<>> /\ tmp = <<>>
    /\ ps = [p \in Procs |-> Idle]
    /\ edits = 0 /\ runs = 0

\* What a load reads now, and the part of a graph the unit's files make up.
Present == [f \in {f \in Files \cup (IF kind = "go" THEN Imported ELSE {}) : src[f] # Gone} |-> src[f]]
Own(graph) == Restrict(graph, Files \cap DOMAIN graph)

\* (Mutation: the fingerprint is left out.)
KeyWithoutPrint(q) == <<kind, "", q.hash>>

\* cacheKey: frontend and version, fingerprint, unit and input hash.
Key(q) == <<kind, q.print, q.hash>>

Goto(p, q) == ps' = [ps EXCEPT ![p] = q]
Put(entries, k, v) == [x \in DOMAIN entries \cup {k} |-> IF x = k THEN v ELSE entries[x]]

-----------------------------------------------------------------------------
(* Load and CacheLoad *)

\* packages.Load, the protobuf compiler, or TypeScript's expandPattern.
Load(p, print) ==
    /\ ps[p].pc = "idle" /\ runs < MaxRuns /\ runs' = runs + 1
    /\ ps' = [ps EXCEPT ![p] = [Idle EXCEPT !.pc = "hash", !.print = print, !.text = Present]]
    /\ UNCHANGED <<src, disk, tmp, edits>>

\* hashPackageInputs, or hashInputs: a file that cannot be read leaves the
\* unit without a key.
Readable(q) == kind = "protobuf" \/ \A f \in DOMAIN Own(q.text) : src[f] # Gone
Hashed(q) == IF kind = "protobuf" THEN q.text ELSE Restrict(src, DOMAIN Own(q.text))

Hash(p) ==
    LET q == ps[p] IN
    /\ q.pc = "hash"
    /\ \/ Readable(q) /\ Goto(p, [q EXCEPT !.pc = "get", !.keyed = TRUE, !.hash = Hashed(q)])
       \/ ~Readable(q) /\ Goto(p, [q EXCEPT !.pc = "convert"])
    /\ UNCHANGED <<src, disk, tmp, edits, runs>>

\* (Mutation: whatever the entry holds is a hit.)
AnyEntryHits(k) == k \in DOMAIN disk

\* cachedPackages: a missing or malformed entry is a miss.
Hits(k) == k \in DOMAIN disk /\ disk[k] # Torn

Get(p) ==
    LET q == ps[p]  k == Key(ps[p]) IN
    /\ q.pc = "get"
    /\ \/ /\ Hits(k)
          /\ Goto(p, [q EXCEPT !.pc = "done", !.hit = TRUE, !.from = disk[k], !.graph = disk[k].graph])
       \/ ~Hits(k) /\ Goto(p, [q EXCEPT !.pc = "convert"])
    /\ UNCHANGED <<src, disk, tmp, edits, runs>>

\* convert and addPackages.  TypeScript reports a file it cannot read and
\* goes on with the others; every converter reports a malformed directive.
Converted(q) ==
    IF kind = "typescript" THEN Restrict(src, {f \in DOMAIN q.text : src[f] # Gone}) ELSE q.text

Convert(p) ==
    LET q == ps[p]  graph == Converted(ps[p]) IN
    /\ q.pc = "convert"
    /\ Goto(p, [q EXCEPT !.pc = IF q.keyed /\ Own(graph) # NoGraph THEN "open" ELSE "done",
                         !.graph = graph,
                         !.reports = (DOMAIN q.text \ DOMAIN graph)
                                     \cup {f \in DOMAIN Own(graph) : graph[f] \in Malformed}])
    /\ UNCHANGED <<src, disk, tmp, edits, runs>>

-----------------------------------------------------------------------------
(* Disk.Put.  The mutex is the process's own; the temporary name is shared, *)
(* and an open file follows its inode: fd says where that is.               *)

Value(p) == [graph |-> ps[p].graph, by |-> ps[p].print,
             faithful |-> kind = "protobuf" \/ ps[p].steady]

\* os.WriteFile opens and truncates ...
PutOpen(p) ==
    /\ ps[p].pc = "open"
    /\ tmp' = Put(tmp, Key(ps[p]), Torn)
    /\ Goto(p, [ps[p] EXCEPT !.pc = "write", !.fd = "tmp"])
    /\ UNCHANGED <<src, disk, edits, runs>>

\* ... and writes, wherever the file is by now.
PutWrite(p) ==
    LET k == Key(ps[p]) IN
    /\ ps[p].pc = "write"
    /\ tmp' = IF ps[p].fd = "tmp" THEN Put(tmp, k, Value(p)) ELSE tmp
    /\ disk' = IF ps[p].fd = "disk" THEN Put(disk, k, Value(p)) ELSE disk
    /\ Goto(p, [ps[p] EXCEPT !.pc = "rename"])
    /\ UNCHANGED <<src, edits, runs>>

\* What becomes of the open files of the others when the temporary file of
\* key k moves to a new place.
Moved(p, k, to) ==
    [q \in Procs |->
        IF q = p \/ ps[q].pc # "write" \/ Key(ps[q]) # k THEN ps[q]
        ELSE [ps[q] EXCEPT !.fd = CASE @ = "tmp" -> to
                                    [] @ = "disk" -> IF to = "disk" THEN "unlinked" ELSE @
                                    [] OTHER -> @]]

PutRename(p) ==
    LET k == Key(ps[p]) IN
    /\ ps[p].pc = "rename"
    /\ IF k \in DOMAIN tmp
       THEN /\ disk' = Put(disk, k, tmp[k]) /\ tmp' = Restrict(tmp, DOMAIN tmp \ {k})
            /\ ps' = [Moved(p, k, "disk") EXCEPT ![p].pc = "done"]
       ELSE /\ ps' = [ps EXCEPT ![p].pc = "done", ![p].warned = TRUE]
            /\ UNCHANGED <<disk, tmp>>
    /\ UNCHANGED <<src, edits, runs>>

\* A full disk, or a rename that fails: the temporary file is removed and
\* the run warns.
PutFails(p) ==
    LET k == Key(ps[p]) IN
    /\ ps[p].pc \in {"open", "write", "rename"}
    /\ tmp' = Restrict(tmp, DOMAIN tmp \ {k})
    /\ ps' = [Moved(p, k, "unlinked") EXCEPT ![p].pc = "done", ![p].warned = TRUE]
    /\ UNCHANGED <<src, disk, edits, runs>>

-----------------------------------------------------------------------------
(* The environment *)

\* The process ends, after its run or by a crash within it.
Leave(p) ==
    /\ ps[p].pc # "idle"
    /\ ps' = [ps EXCEPT ![p] = Idle]
    /\ UNCHANGED <<src, disk, tmp, edits, runs>>

Edit(f, text) ==
    /\ edits < MaxEdits /\ edits' = edits + 1 /\ text # src[f]
    /\ src' = [src EXCEPT ![f] = text]
    /\ ps' = [p \in Procs |-> [ps[p] EXCEPT !.steady = FALSE]]
    /\ UNCHANGED <<disk, tmp, runs>>

Next ==
    /\ \/ \E p \in Procs :
            \/ Hash(p) \/ Get(p) \/ Convert(p)
            \/ PutOpen(p) \/ PutWrite(p) \/ PutRename(p) \/ PutFails(p) \/ Leave(p)
            \/ \E print \in Prints : Load(p, print)
       \/ \E f \in Files \cup Imported, text \in Texts \cup {Gone} : Edit(f, text)
    /\ UNCHANGED kind

Spec == Init /\ [][Next]_vars

-----------------------------------------------------------------------------
(* Properties *)

Graph == UNION {[S -> Texts] : S \in SUBSET (Files \cup Imported)}
Stored == [graph : Graph, by : Prints \cup {""}, faithful : BOOLEAN]
Run == [pc : {"idle", "hash", "get", "convert", "open", "write", "rename", "done"},
        print : Prints \cup {""}, text : Graph, keyed : BOOLEAN, hash : Graph, graph : Graph,
        reports : SUBSET (Files \cup Imported), hit : BOOLEAN, warned : BOOLEAN,
        fd : {"", "tmp", "disk", "unlinked"}, steady : BOOLEAN, from : Stored]

TypeOK ==
    /\ src \in [Files \cup Imported -> Texts \cup {Gone}]
    /\ \A k \in DOMAIN disk : disk[k] \in Stored
    /\ \A k \in DOMAIN tmp : tmp[k] \in Stored
    /\ ps \in [Procs -> Run]

\* An entry stored by a run whose sources nobody edited meanwhile holds the
\* conversion of exactly the texts its key hashes, under the fingerprint of
\* the run that stored it: whatever other processes write to the same
\* temporary name, and wherever they crash.  For protobuf, edits too are
\* harmless.
EntriesMatchTheirKey ==
    \A k \in DOMAIN disk :
        disk[k] # Torn /\ disk[k].faithful => Own(disk[k].graph) = k[3] /\ disk[k].by = k[2]

\* A run over sources nobody edited adds their graph to the store if it
\* converted them, or if it found an entry whose own run nobody disturbed: a
\* torn entry is never served, nor one of another plugin set.  A hit on an
\* entry whose sources changed between load and hash is left out: it serves
\* the text from before (see MutatedSourcesSkipTheCache).  So is what a hit
\* carries of imported packages, which is as old as the entry.
RunsSeeTheirSources ==
    \A p \in Procs :
        /\ ps[p].pc = "done" /\ ps[p].steady
        /\ ps[p].hit => ps[p].from.faithful
        => /\ Own(ps[p].graph) = Own(Present)
           /\ IF ps[p].hit THEN ps[p].from.by = ps[p].print ELSE ps[p].graph = Present

\* What hashPackageInputs calls the files "the converter would parse" are all
\* the graph depends on: a hit is what a conversion would produce.  Refuted for Go:
\* an imported interface may have changed since the entry was stored.
HitsAreFresh ==
    \A p \in Procs :
        ps[p].pc = "done" /\ ps[p].steady /\ ps[p].hit /\ ps[p].from.faithful
            => ps[p].graph = Present

\* "A cache-key computation failure (source file mutated between
\* packages.Load and the hash pass) skips the cache entirely": what is
\* cached under a key is the conversion of the texts that were hashed.
\* Refuted: the hash succeeds, on the new text.
MutatedSourcesSkipTheCache ==
    \A k \in DOMAIN disk : disk[k] # Torn => Own(disk[k].graph) = k[3]

\* A malformed directive is reported by every run, not only on "the cold
\* run and accepted silently on every run after it".  Refuted: one that does
\* not parse is reported by the run that converts its file only.
WarmRunsReportToo ==
    \A p \in Procs :
        ps[p].pc = "done" /\ ps[p].steady
            => ps[p].reports = {f \in DOMAIN Own(Present) : src[f] \in Malformed}
=============================================================================
