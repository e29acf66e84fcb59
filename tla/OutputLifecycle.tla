-------------------------- MODULE OutputLifecycle --------------------------
(***************************************************************************)
(* The life of a generated file: written by the disk sink, claimed by the  *)
(* manifest, compared by `check`, deleted by `prune`.                      *)
(*                                                                         *)
(* One command runs at a time and may be abandoned (a crash, or a context  *)
(* cancelled between phases) after any of its steps.  Between commands the *)
(* user edits generated files and the sources.  What a plugin renders for  *)
(* a path is an opaque rendering; a provenance hash is injective, so the   *)
(* hash of a rendering is the rendering itself.  The header is left out:   *)
(* no decision reads it but the marker line's presence.                    *)
(***************************************************************************)
EXTENDS Naturals, FiniteSets

CONSTANTS
    Paths,        \* output files: Dir and Filename of a target
    Pkgs,         \* import paths of source packages
    ClauseOf,     \* the package clause a rendering declares: Target.Package
    Origin,       \* the source package a path is generated from
    InSourceDir,  \* the paths that lie in the directory of their package
    NoPkg,        \* the empty import path of a centralised output
    NoFile, Edited, NoStamp,
    Deployments   \* the repositories considered: see Deployment

\* A deployment: the identifiers of the pipelines sharing the tree and the
\* manifest, the renderings of a file, Target.ImportPath of a path without
\* its _test shift, the paths whose Target.Dir is absolute (sources outside
\* the working directory), the packages whose import path lies in the module
\* of go.mod (none without one; never a protobuf package), and the bounds on
\* the three environments.
Deployment == [pids : SUBSET STRING, renders : SUBSET DOMAIN ClauseOf,
               importPath : [Paths -> Pkgs \cup {NoPkg}],
               absolute : SUBSET Paths, module : SUBSET Pkgs,
               edits : Nat, changes : Nat, commands : Nat]

ASSUME RoutingAssumption ==
    /\ Origin \in [Paths -> Pkgs]
    /\ InSourceDir \subseteq Paths
    /\ NoPkg \notin Pkgs
    /\ {Edited, NoStamp} \cap DOMAIN ClauseOf = {}
\* NoFile is not a file.
ASSUME NoFileAssumption ==
    NoFile \notin [marker : BOOLEAN, body : DOMAIN ClauseOf \cup {Edited},
                  stamp : DOMAIN ClauseOf \cup {NoStamp}, tail : BOOLEAN]
ASSUME DeploymentsAssumption ==
    /\ Deployments \subseteq Deployment
    /\ \A d \in Deployments, p \in Paths : d.importPath[p] \in {Origin[p], NoPkg}

VARIABLES
    deployment,
    want,       \* want[pid][path]: what the sources ask pipeline pid to render
    srcDirs,    \* the source packages whose directory exists
    disk,       \* disk[path]: a file or NoFile
    manifest,   \* the entries of the manifest file
    phase,      \* of the running command: "idle" when none runs
    cmd,        \* its mode, pipeline, loaded packages and -deleted-sources
    todo,       \* paths the backend has still to write
    emitted,    \* recordingSink.files: what was written, path to rendering
    broken,     \* the run recorded an Error diagnostic
    last,       \* LastManifest(): the merged manifest, in memory
    stale,      \* orphans applyPrune has still to visit
    gone,       \* orphans whose file is deleted, or was absent
    unrecorded, \* written by an abandoned command before its manifest
    verdict,    \* of the last command, if it was complete and without error
    edits, changes, commands

process == <<phase, cmd, todo, emitted, broken, last, stale, gone>>
counters == <<edits, changes, commands>>
vars == <<deployment, want, srcDirs, disk, manifest, process, unrecorded, verdict, counters>>

Pids == deployment.pids
Renders == deployment.renders
ImportPath == deployment.importPath
Absolute == deployment.absolute
Module == deployment.module

Modes == {"run", "prune", "dry", "check"}
File == [marker : BOOLEAN, body : Renders \cup {Edited},
         stamp : Renders \cup {NoStamp}, tail : BOOLEAN]
Entry == [path : Paths, clause : {ClauseOf[r] : r \in Renders}, pid : Pids, hash : Renders]
NoCmd == [mode |-> "none", pid |-> "none", scope |-> {}, deleted |-> FALSE]
NoVerdict == [kind |-> "none", pid |-> "none"]
Written == DOMAIN emitted

TypeOK ==
    /\ deployment \in Deployments
    /\ want \in [Pids -> [Paths -> Renders \cup {NoFile}]]
    /\ srcDirs \subseteq Pkgs
    /\ disk \in [Paths -> File \cup {NoFile}]
    /\ manifest \subseteq Entry /\ last \subseteq Entry
    /\ stale \subseteq Entry /\ gone \subseteq Entry
    /\ phase \in {"idle", "backend", "delete"}
    /\ phase # "idle" => /\ cmd.mode \in Modes /\ cmd.pid \in Pids
                         /\ cmd.scope \subseteq srcDirs
    /\ todo \subseteq Paths /\ Written \subseteq Paths /\ broken \in BOOLEAN
    /\ unrecorded \subseteq Paths
    /\ verdict.kind \in {"none", "ran", "recorded", "pruned", "clean"}
    /\ verdict.pid \in Pids \cup {"none"}

Init ==
    /\ deployment \in Deployments
    /\ want \in [Pids -> [Paths -> Renders \cup {NoFile}]]
    /\ srcDirs = Pkgs
    /\ disk = [p \in Paths |-> NoFile]
    /\ manifest = {} /\ last = {} /\ stale = {} /\ gone = {}
    /\ phase = "idle" /\ cmd = NoCmd
    /\ todo = {} /\ emitted = <<>> /\ broken = FALSE
    /\ unrecorded = {} /\ verdict = NoVerdict
    /\ edits = 0 /\ changes = 0 /\ commands = 0

-----------------------------------------------------------------------------
(* The user, between commands. *)

Idle == phase = "idle"

HandWritten == [marker |-> FALSE, body |-> Edited, stamp |-> NoStamp, tail |-> TRUE]

\* An edit of one file: inside the body, past the trailer, of the marker
\* line, a rewrite by hand, or a deletion.
EditFile ==
    /\ Idle /\ edits < deployment.edits
    /\ \E p \in Paths :
        \/ /\ disk[p] # NoFile
           /\ \E f \in {[disk[p] EXCEPT !.body = Edited], [disk[p] EXCEPT !.tail = FALSE],
                        [disk[p] EXCEPT !.marker = FALSE], NoFile} :
                disk' = [disk EXCEPT ![p] = f]
        \/ disk' = [disk EXCEPT ![p] = HandWritten]
    /\ edits' = edits + 1 /\ verdict' = NoVerdict
    /\ UNCHANGED <<want, srcDirs, manifest, process, unrecorded, changes, commands>>

\* A source edit changes what a pipeline generates for a path.
EditSource ==
    /\ Idle /\ changes < deployment.changes
    /\ \E pid \in Pids, p \in Paths, r \in Renders \cup {NoFile} :
        /\ Origin[p] \in srcDirs /\ r # want[pid][p]
        /\ want' = [want EXCEPT ![pid][p] = r]
    /\ changes' = changes + 1 /\ verdict' = NoVerdict
    /\ UNCHANGED <<srcDirs, disk, manifest, process, unrecorded, edits, commands>>

\* A source package is removed with its directory.
RemovePackage ==
    /\ Idle /\ changes < deployment.changes
    /\ \E k \in srcDirs :
        /\ srcDirs' = srcDirs \ {k}
        /\ want' = [pid \in Pids |-> [p \in Paths |->
                        IF Origin[p] = k THEN NoFile ELSE want[pid][p]]]
        /\ disk' = [p \in Paths |->
                        IF Origin[p] = k /\ p \in InSourceDir THEN NoFile ELSE disk[p]]
    /\ changes' = changes + 1 /\ verdict' = NoVerdict
    /\ UNCHANGED <<manifest, process, unrecorded, edits, commands>>

-----------------------------------------------------------------------------
(* A command: Pipeline.Run from the backend on, then what the CLI adds. *)

\* Only run and prune have the disk sink; check and prune --dry-run replace
\* it by a memory sink, which has no root.
Rooted == cmd.mode \in {"run", "prune"}

Key(e) == <<e.path, e.clause, e.pid>>
Keys(m) == {Key(e) : e \in m}
ManifestPaths == {e.path : e \in manifest}

\* What the loaded packages ask of a pipeline.
Asked(pid, scope) == {p \in Paths : Origin[p] \in scope /\ want[pid][p] # NoFile}

\* The phases before the backend: the frontends load the packages of the
\* patterns, and every plugin that works contributes its files.  A plugin
\* error or panic is a diagnostic, and its files may be missing.
StartCommand ==
    /\ Idle /\ commands < deployment.commands
    /\ \E mode \in Modes, pid \in Pids, scope \in SUBSET srcDirs, deleted \in BOOLEAN :
        \E rendered \in SUBSET Asked(pid, scope) :
            /\ deleted => mode \in {"prune", "dry"}
            /\ cmd' = [mode |-> mode, pid |-> pid, scope |-> scope, deleted |-> deleted]
            /\ todo' = rendered
            /\ broken' \in BOOLEAN /\ (rendered # Asked(pid, scope) => broken')
    /\ phase' = "backend" /\ emitted' = <<>>
    /\ last' = {} /\ stale' = {} /\ gone' = {}
    /\ commands' = commands + 1 /\ verdict' = NoVerdict
    /\ UNCHANGED <<want, srcDirs, disk, manifest, unrecorded, edits, changes>>

Rendered(r) == [marker |-> TRUE, body |-> r, stamp |-> r, tail |-> TRUE]

\* Disk.Write leaves a file that matches in place.  (Mutation: the trailer
\* is trusted wherever it stands.)
bodiesMatchAnyTail(f, r) == f # NoFile /\ f.stamp = r

bodiesMatch(f, r) == f # NoFile /\ (f = Rendered(r) \/ (f.stamp = r /\ f.tail))

\* recordingSink.Write around the sink's Write: what the sink accepted is
\* recorded, also when the file was left in place.  (Mutation: only what
\* changed on disk is.)
SinkWriteOfChanges ==
    /\ phase = "backend"
    /\ \E p \in todo :
        LET r == want[cmd.pid][p] IN
        /\ todo' = todo \ {p}
        /\ IF Rooted /\ bodiesMatch(disk[p], r)
           THEN UNCHANGED <<emitted, disk>>
           ELSE /\ emitted' = [q \in Written \cup {p} |-> IF q = p THEN r ELSE emitted[q]]
                /\ disk' = IF Rooted THEN [disk EXCEPT ![p] = Rendered(r)] ELSE disk
    /\ UNCHANGED <<want, srcDirs, manifest, phase, cmd, broken, last, stale, gone,
                   unrecorded, verdict, counters>>

SinkWrite ==
    /\ phase = "backend"
    /\ \E p \in todo :
        LET r == want[cmd.pid][p] IN
        /\ todo' = todo \ {p}
        /\ emitted' = [q \in Written \cup {p} |-> IF q = p THEN r ELSE emitted[q]]
        /\ disk' = IF Rooted /\ ~bodiesMatch(disk[p], r)
                   THEN [disk EXCEPT ![p] = Rendered(r)] ELSE disk
    /\ UNCHANGED <<want, srcDirs, manifest, phase, cmd, broken, last, stale, gone,
                   unrecorded, verdict, counters>>

\* A filesystem error ends the backend's replay: later targets are dropped.
SinkFails ==
    /\ phase = "backend" /\ todo # {} /\ Rooted
    /\ todo' = {} /\ broken' = TRUE
    /\ UNCHANGED <<want, srcDirs, disk, manifest, phase, cmd, emitted, last, stale,
                   gone, unrecorded, verdict, counters>>

\* A prior entry leaves the manifest.
converged(e) ==
    /\ Rooted /\ cmd.scope # {}
    /\ ImportPath[e.path] \in cmd.scope
    /\ disk[e.path] = NoFile

\* asManifest
Current == {[path |-> p, clause |-> ClauseOf[emitted[p]], pid |-> cmd.pid, hash |-> emitted[p]] :
              p \in Written}

\* mergeManifestPreservingOutOfScope.  (Mutation: an entry is replaced at
\* its target, whoever owns it.)
MergedByTarget ==
    {e \in manifest : /\ \A c \in Current : c.path # e.path \/ c.clause # e.clause
                      /\ ~converged(e)} \cup Current

Merged ==
    {e \in manifest : Key(e) \notin Keys(Current) /\ ~converged(e)} \cup Current

\* goneSources: in the module, not loaded, and without a directory
SourceGone(e) == ImportPath[e.path] \in Module \ srcDirs

\* PruneAll.  (Mutation: the packages loaded are not considered, only the
\* deleted ones.)
OrphanGoneOnly(e, deleted) ==
    /\ e.pid = cmd.pid
    /\ ~(e.path \in Written /\ ClauseOf[emitted[e.path]] = e.clause)
    /\ deleted /\ SourceGone(e)

Orphan(e, deleted) ==
    /\ e.pid = cmd.pid
    /\ ~(e.path \in Written /\ ClauseOf[emitted[e.path]] = e.clause)
    /\ ImportPath[e.path] \in cmd.scope \/ (deleted /\ SourceGone(e))

\* The comparison of check.  (Mutation: the stamp is taken at its word.)
sameStamp(f, r) == f # NoFile /\ f.stamp = r /\ f.tail

sameProvenance(f, r) == f # NoFile /\ f.stamp = r /\ f.body = r /\ f.tail

\* reportDrift over what the memory sink captured and orphanedOutputs
Drift(m) ==
    \/ \E p \in Written : ~sameProvenance(disk[p], emitted[p])
    \/ \E e \in m : Orphan(e, TRUE) /\ SourceGone(e)

Complete == ~broken /\ cmd.scope = srcDirs

\* The process is gone, and what it held in memory with it.
Exit ==
    /\ phase' = "idle" /\ cmd' = NoCmd
    /\ todo' = {} /\ emitted' = <<>> /\ broken' = FALSE
    /\ last' = {} /\ stale' = {} /\ gone' = {}

\* How run and check end, when the patterns covered the tree
Conclude(m) ==
    verdict' = [kind |-> CASE cmd.mode = "run" /\ Complete ->
                                  IF manifest' = m THEN "recorded" ELSE "ran"
                           [] cmd.mode = "check" /\ Complete /\ ~Drift(m) -> "clean"
                           [] OTHER -> "none",
                pid |-> cmd.pid]

\* writeManifest, and prune's classification of the result.  The write may
\* fail, which is a warning, and is skipped when it would change nothing.
WriteManifest ==
    /\ phase = "backend" /\ todo = {}
    /\ \/ manifest' = IF cmd.mode = "dry" THEN manifest ELSE Merged
       \/ manifest' = manifest
    /\ unrecorded' = (unrecorded \cup (IF Rooted THEN Written ELSE {}))
                        \ {e.path : e \in manifest'}
    /\ \/ /\ cmd.mode = "prune"
          /\ phase' = "delete" /\ last' = Merged
          /\ stale' = {e \in Merged : Orphan(e, cmd.deleted)}
          /\ UNCHANGED <<cmd, todo, emitted, broken, gone, verdict>>
       \/ /\ cmd.mode # "prune"
          /\ Exit
          /\ Conclude(Merged)
    /\ UNCHANGED <<want, srcDirs, disk, counters>>

-----------------------------------------------------------------------------
(* applyPrune *)

hasGeneratedMarker(f) == f.marker

\* What applyPrune finds: it joins Dir to the working directory, also an
\* absolute one, which the sink, onDisk and check take as it is.
Found(p) == IF p \in Absolute THEN NoFile ELSE disk[p]

\* One orphan: absent already, guarded by its marker, deleted, or kept
\* because it could not be read or removed.
PruneOne ==
    /\ phase = "delete"
    /\ \E e \in stale :
        /\ stale' = stale \ {e}
        /\ \/ /\ Found(e.path) = NoFile
              /\ gone' = gone \cup {e}
              /\ UNCHANGED <<disk, broken>>
           \/ /\ Found(e.path) # NoFile
              /\ \/ ~hasGeneratedMarker(Found(e.path)) /\ UNCHANGED broken
                 \/ broken' = TRUE
              /\ UNCHANGED <<disk, gone>>
           \/ /\ Found(e.path) # NoFile /\ hasGeneratedMarker(Found(e.path))
              /\ disk' = [disk EXCEPT ![e.path] = NoFile]
              /\ gone' = gone \cup {e}
              /\ UNCHANGED broken
    /\ UNCHANGED <<want, srcDirs, manifest, phase, cmd, todo, emitted, last,
                   unrecorded, verdict, counters>>

\* rewriteManifestAfterPrune.  (Mutation: survivors are dropped too.)
PrunedOfAllStale == {e \in last : ~Orphan(e, cmd.deleted)}

Pruned == last \ gone

FinishPrune ==
    /\ phase = "delete" /\ stale = {}
    /\ manifest' \in {manifest, IF gone = {} THEN manifest ELSE Pruned}
    /\ Exit
    /\ unrecorded' = unrecorded \ {e.path : e \in manifest'}
    /\ verdict' = [kind |-> IF Complete /\ cmd.deleted THEN "pruned" ELSE "none",
                   pid |-> cmd.pid]
    /\ UNCHANGED <<want, srcDirs, disk, counters>>

\* The process dies, or its context is cancelled before the next phase.
Abandon ==
    /\ ~Idle /\ Exit
    /\ unrecorded' = (unrecorded \cup (IF Rooted THEN Written ELSE {})) \ ManifestPaths
    /\ UNCHANGED <<want, srcDirs, disk, manifest, verdict, counters>>

Next ==
    /\ \/ EditFile \/ EditSource \/ RemovePackage
       \/ StartCommand \/ SinkWrite \/ SinkFails \/ WriteManifest
       \/ PruneOne \/ FinishPrune \/ Abandon
    /\ UNCHANGED deployment

Spec == Init /\ [][Next]_vars

-----------------------------------------------------------------------------
(* Properties. *)

Generated(f) == f # NoFile /\ f.marker /\ f.stamp # NoStamp

\* Between commands every generated file is claimed by an entry, so that
\* prune can find it, save for what a command wrote and was stopped before
\* recording (the manifest is written after the last file), and for files
\* with an absolute Dir, whose entry prune drops without finding them.
Tracked ==
    Idle => \A p \in Paths \ Absolute :
                Generated(disk[p]) => p \in ManifestPaths \cup unrecorded

\* The comment on converged: "An entry dropped while its file is still there
\* becomes untracked garbage".  No step of run, check or prune takes an
\* entry, of its own or another pipeline, out of the manifest while the file
\* the entry claims exists; prune does so where Dir is absolute.
EntryLeavesOnlyWithFile ==
    [][\A e \in manifest : \/ Key(e) \in Keys(manifest')
                           \/ disk'[e.path] = NoFile
                           \/ phase = "delete" /\ e.path \in Absolute]_vars

\* The same comment without the exception.  Refuted: prune joins an absolute
\* Dir to the working directory and reports the file as already gone.
NoEntryLeavesItsFile ==
    [][\A e \in manifest : Key(e) \in Keys(manifest') \/ disk'[e.path] = NoFile]_vars

\* The comment on mergeManifestPreservingOutOfScope: it "adds or refreshes
\* every entry from current onto prior - never drops".  Refuted: an entry
\* that has converged is dropped.
MergeNeverDrops ==
    [][phase = "backend" => \A e \in manifest : Key(e) \in Keys(manifest')]_vars

\* docs/reference/cli.md on check: "Writes nothing".  Refuted: check merges
\* what it rendered into the manifest; only prune -dry-run suppresses that.
CheckWritesNothing ==
    [][cmd.mode = "check" => UNCHANGED <<disk, manifest>>]_vars

\* After a complete run without errors every requested file matches what
\* the run rendered, as far as Disk.Write looks: a further run writes
\* nothing, and the only difference a user can have left in place is an
\* edit of the body above an untouched trailer.
RunSettlesDisk ==
    verdict.kind \in {"ran", "recorded"} =>
        \A p \in Paths : LET r == want[verdict.pid][p] IN
            r # NoFile => \/ sameProvenance(disk[p], r)
                          \/ disk[p].body = Edited /\ disk[p].stamp = r /\ disk[p].tail

\* What an earlier command wrote and did not live to record, a complete run
\* without errors that saves its manifest records, although it finds those
\* files in place and leaves them: every requested file has an entry of the
\* pipeline, with the hash of what the sources ask for now.
RunRecordsAll ==
    verdict.kind = "recorded" =>
        \A p \in Paths : LET r == want[verdict.pid][p] IN
            r # NoFile => [path |-> p, clause |-> ClauseOf[r], pid |-> verdict.pid,
                           hash |-> r] \in manifest

\* After a complete `prune -deleted-sources` without errors, a file the
\* pipeline still claims, still has on disk with its marker and no longer
\* asks for is one prune cannot see: its source package is not loaded and
\* its import path, empty or not, is not of the module, or its Dir is
\* absolute.
PruneConverges ==
    verdict.kind = "pruned" =>
        \A e \in manifest :
            (e.pid = verdict.pid /\ disk[e.path] # NoFile /\ disk[e.path].marker) =>
                \/ want[e.pid][e.path] # NoFile
                \/ ImportPath[e.path] \notin srcDirs \cup Module
                \/ e.path \in Absolute

\* After a complete check that reports no drift the tree is what the
\* pipeline renders: every requested file is there with that body and
\* nothing after its trailer, and no file the pipeline claims has lost its
\* source package, if that package was of the module.
CleanMeansUpToDate ==
    verdict.kind = "clean" =>
        /\ \A p \in Paths : LET r == want[verdict.pid][p] IN
              r # NoFile => disk[p] # NoFile /\ disk[p].body = r /\ disk[p].tail
        /\ \A e \in manifest : e.pid = verdict.pid =>
              ImportPath[e.path] \notin Module \ srcDirs

\* docs/how-to/remove-stale-output.md on an orphan of a deleted package:
\* "`check` reports the orphan either way. The drift is never silent".
\* Refuted: goneSources looks at import paths of the module only, so a clean
\* check says nothing of output whose package lies outside of it, as every
\* protobuf package does.
DriftIsNeverSilent ==
    verdict.kind = "clean" =>
        \A e \in manifest : e.pid = verdict.pid => ImportPath[e.path] \in srcDirs \cup {NoPkg}

\* PruneConfig (cli/prune.go): the command "deletes files claimed by the
\* previous manifest that the current run no longer claims".
PruneSparesCurrentFiles ==
    [][phase = "delete" => \A p \in Written : disk[p] # NoFile => disk'[p] # NoFile]_vars
=============================================================================
