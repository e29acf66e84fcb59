----------------------- MODULE OutputLifecycleProofs -----------------------
(***************************************************************************)
(* For any tree, any number of pipelines that share it, and any sequence   *)
(* of commands, edits, failures and crashes: files and manifest stay       *)
(* together, and the verdicts of run, prune and check mean what they say.  *)
(***************************************************************************)
EXTENDS OutputLifecycle, TLAPS

\* Most leaves are first-order reasoning about the invariant: Zenon first, SMT
\* for arithmetic, records and sequences.
USE ZenonT(3), SMTT(30)

\* What a package asks for disappears with it.
Wanted ==
    \A pid \in Pids, p \in Paths : want[pid][p] # NoFile => Origin[p] \in srcDirs

\* Under a stamp stands the body it was computed from, or an edit of it.
Stamped ==
    \A p \in Paths : disk[p] # NoFile /\ disk[p].stamp # NoStamp =>
        disk[p].body \in {disk[p].stamp, Edited}

\* Every generated file that prune would find is claimed, or was written and
\* not yet recorded.
Covered ==
    \A p \in Paths \ Absolute : Generated(disk[p]) =>
        \/ p \in ManifestPaths \cup unrecorded
        \/ phase = "backend" /\ Rooted /\ p \in Written

\* A command writes what its pipeline asks for and, unless something failed,
\* all that its scope asks for.
Doing ==
    ~Idle =>
        /\ verdict = NoVerdict
        /\ phase = "backend" => gone = {}
        /\ \A p \in todo \cup Written : want[cmd.pid][p] # NoFile
        /\ \A p \in Written : emitted[p] = want[cmd.pid][p]
        /\ ~broken => Asked(cmd.pid, cmd.scope) \subseteq todo \cup Written

\* What Disk.Write has settled.
Settled(f, r) == f # NoFile /\ f.stamp = r /\ f.body \in {r, Edited} /\ f.tail

Delivered ==
    phase = "backend" /\ Rooted => \A p \in Written : Settled(disk[p], emitted[p])

\* While prune deletes, the manifest it will write claims what the one on
\* disk claims; an orphan it has dealt with is off the disk, not its own, or
\* out of its sight.
Deleting ==
    phase = "delete" =>
        /\ todo = {}
        /\ \A p \in Paths \ Absolute :
              Generated(disk[p]) => p \in {e.path : e \in last} \cup unrecorded
        /\ \A e \in manifest : Key(e) \in Keys(last) \/ disk[e.path] = NoFile
        /\ \A e \in gone : disk[e.path] = NoFile \/ e.path \in Absolute
        /\ ~broken => \A e \in last : Orphan(e, cmd.deleted) =>
                            \/ e \in stale \/ e.path \in Absolute
                            \/ disk[e.path] = NoFile \/ ~disk[e.path].marker

Verdicts == RunSettlesDisk /\ RunRecordsAll /\ PruneConverges /\ CleanMeansUpToDate

IInv == TypeOK /\ Wanted /\ Stamped /\ Covered /\ Doing /\ Delivered /\ Deleting /\ Verdicts

-----------------------------------------------------------------------------
(* Types *)

\* What a deployment fixes.
LEMMA DeploymentFacts ==
    ASSUME deployment \in Deployments
    PROVE  /\ Renders \subseteq DOMAIN ClauseOf
           /\ \A p \in Paths : ImportPath[p] \in {Origin[p], NoPkg}
           /\ NoFile \notin File
           /\ Edited \notin Renders /\ NoStamp \notin Renders
           /\ \A p \in Paths : Origin[p] \in Pkgs
           /\ NoPkg \notin Pkgs
           /\ Module \subseteq Pkgs
<1>1. deployment \in Deployment
    BY DeploymentsAssumption
<1>2. Renders \subseteq DOMAIN ClauseOf
    BY <1>1 DEF Deployment, Renders
<1>3. NoFile \notin File
    BY <1>2, NoFileAssumption DEF File
<1>4. Module \subseteq Pkgs
    BY <1>1 DEF Deployment, Module
<1> QED  BY <1>2, <1>3, <1>4, RoutingAssumption, DeploymentsAssumption DEF ImportPath

\* The fields of a file.
LEMMA FileFields ==
    ASSUME NEW f \in File
    PROVE  /\ f.marker \in BOOLEAN /\ f.tail \in BOOLEAN
           /\ f.body \in Renders \cup {Edited} /\ f.stamp \in Renders \cup {NoStamp}
BY DEF File

\* A rendering is a file.
LEMMA RenderedIsFile ==
    ASSUME deployment \in Deployments, NEW r \in Renders
    PROVE  Rendered(r) \in File /\ Rendered(r) # NoFile
<1>1. Rendered(r) \in File
    BY DEF Rendered, File
<1> QED  BY <1>1, DeploymentFacts

\* The entries of a run are entries of its pipeline for what it wrote.
LEMMA CurrentTypes ==
    ASSUME TypeOK, Doing, ~Idle
    PROVE  /\ Current \subseteq Entry /\ Merged \subseteq Entry
           /\ {e.path : e \in Current} = Written
           /\ \A p \in Written : emitted[p] \in Renders
<1>1. \A p \in Written : emitted[p] \in Renders
    BY DEF TypeOK, Doing, Idle
<1>2. Current \subseteq Entry
    BY <1>1 DEF Current, Entry, TypeOK, Idle
<1>3. {e.path : e \in Current} = Written
  <2>1. \A e \in Current : e.path \in Written
      BY DEF Current
  <2>2. ASSUME NEW p \in Written PROVE \E e \in Current : e.path = p
    <3> DEFINE e == [path |-> p, clause |-> ClauseOf[emitted[p]], pid |-> cmd.pid, hash |-> emitted[p]]
    <3>1. e \in Current /\ e.path = p
        BY DEF Current
    <3> QED  BY <3>1
  <2> QED  BY <2>1, <2>2
<1> QED  BY <1>1, <1>2, <1>3 DEF Merged, TypeOK

\* Steps that leave the deployment alone leave these alone.
LEMMA SameDeployment ==
    ASSUME UNCHANGED deployment
    PROVE  /\ Pids' = Pids /\ Renders' = Renders /\ ImportPath' = ImportPath /\ File' = File /\ Entry' = Entry
           /\ Absolute' = Absolute /\ Module' = Module
BY DEF Pids, Renders, ImportPath, File, Entry, Absolute, Module

\* Between commands nothing is promised about a command, and without a
\* verdict nothing about what it found.
LEMMA NextIdle == phase' = "idle" => Doing' /\ Delivered' /\ Deleting'
BY DEF Doing, Delivered, Deleting, Idle

LEMMA NextNoVerdict == verdict' = NoVerdict => Verdicts'
BY DEF Verdicts, RunSettlesDisk, RunRecordsAll, PruneConverges, CleanMeansUpToDate, NoVerdict

-----------------------------------------------------------------------------
(* The user *)

LEMMA EditFileIInv ==
    ASSUME IInv, EditFile, UNCHANGED deployment
    PROVE  IInv'
<1> USE SameDeployment
<1>0. TypeOK /\ Wanted /\ Stamped /\ Covered
    BY DEF IInv
<1>1. /\ phase = "idle" /\ phase' = "idle" /\ verdict' = NoVerdict /\ manifest' = manifest
      /\ unrecorded' = unrecorded /\ want' = want /\ srcDirs' = srcDirs
    BY DEF EditFile, Idle, process
<1>2. PICK p \in Paths :
        \/ /\ disk[p] # NoFile
           /\ \E f \in {[disk[p] EXCEPT !.body = Edited], [disk[p] EXCEPT !.tail = FALSE],
                        [disk[p] EXCEPT !.marker = FALSE], NoFile} :
                disk' = [disk EXCEPT ![p] = f]
        \/ disk' = [disk EXCEPT ![p] = HandWritten]
    BY DEF EditFile
<1>3. PICK f : disk' = [disk EXCEPT ![p] = f]
               /\ \/ f = NoFile
                  \/ f = HandWritten
                  \/ /\ disk[p] # NoFile
                     /\ \/ f = [disk[p] EXCEPT !.body = Edited]
                        \/ f = [disk[p] EXCEPT !.tail = FALSE]
                        \/ f = [disk[p] EXCEPT !.marker = FALSE]
    BY <1>2
<1>4. /\ f \in File \cup {NoFile}
      /\ f # NoFile /\ f.stamp # NoStamp => f.body \in {f.stamp, Edited}
      /\ Generated(f) => Generated(disk[p])
  <2>1. HandWritten \in File /\ HandWritten.stamp = NoStamp
      BY DEF HandWritten, File
  <2>2. ASSUME disk[p] # NoFile PROVE disk[p] \in File
      BY <1>0, <2>2 DEF TypeOK
  <2>3. CASE f = NoFile
      BY <2>3 DEF Generated
  <2>4. CASE f = HandWritten
      BY <2>1, <2>4 DEF Generated
  <2>5. CASE disk[p] # NoFile /\ f = [disk[p] EXCEPT !.body = Edited]
    <3>1. f \in File /\ f.stamp = disk[p].stamp /\ f.body = Edited /\ f.marker = disk[p].marker
        BY <2>2, <2>5 DEF File
    <3> QED  BY <2>5, <3>1 DEF Generated
  <2>6. CASE disk[p] # NoFile /\ f = [disk[p] EXCEPT !.tail = FALSE]
    <3>1. f \in File /\ f.stamp = disk[p].stamp /\ f.body = disk[p].body /\ f.marker = disk[p].marker
        BY <2>2, <2>6 DEF File
    <3> QED  BY <1>0, <2>6, <3>1 DEF Generated, Stamped
  <2>7. CASE disk[p] # NoFile /\ f = [disk[p] EXCEPT !.marker = FALSE]
    <3>1. f \in File /\ f.stamp = disk[p].stamp /\ f.body = disk[p].body /\ f.marker = FALSE
        BY <2>2, <2>7 DEF File
    <3> QED  BY <1>0, <2>7, <3>1 DEF Generated, Stamped
  <2> QED  BY <1>3, <2>3, <2>4, <2>5, <2>6, <2>7
<1>5. disk' \in [Paths -> File \cup {NoFile}] /\ disk'[p] = f /\ \A q \in Paths : q # p => disk'[q] = disk[q]
    BY <1>0, <1>3, <1>4 DEF TypeOK
<1>6. TypeOK'
    BY <1>0, <1>1, <1>5 DEF TypeOK, EditFile, process, Written, NoVerdict
<1>7. Stamped'
    BY <1>0, <1>4, <1>5 DEF Stamped
<1>8. Covered'
  <2>1. \A q \in Paths : Generated(disk'[q]) => Generated(disk[q])
      BY <1>4, <1>5
  <2> QED  BY <1>0, <1>1, <2>1 DEF Covered, Generated, ManifestPaths
<1>9. Wanted'
    BY <1>0, <1>1 DEF Wanted
<1> QED  BY <1>1, <1>6, <1>7, <1>8, <1>9, NextIdle, NextNoVerdict DEF IInv

LEMMA EditSourceIInv ==
    ASSUME IInv, EditSource, UNCHANGED deployment
    PROVE  IInv'
<1> USE SameDeployment
<1>0. TypeOK /\ Wanted /\ Stamped /\ Covered
    BY DEF IInv
<1>1. /\ phase = "idle" /\ phase' = "idle" /\ verdict' = NoVerdict /\ manifest' = manifest
      /\ unrecorded' = unrecorded /\ disk' = disk /\ srcDirs' = srcDirs
    BY DEF EditSource, Idle, process
<1>2. PICK pid \in Pids, p \in Paths, r \in Renders \cup {NoFile} :
        Origin[p] \in srcDirs /\ want' = [want EXCEPT ![pid][p] = r]
    BY DEF EditSource
<1>3. /\ want' \in [Pids -> [Paths -> Renders \cup {NoFile}]]
      /\ \A q \in Pids, s \in Paths : q # pid \/ s # p => want'[q][s] = want[q][s]
    BY <1>0, <1>2 DEF TypeOK
<1>4. TypeOK'
    BY <1>0, <1>1, <1>3 DEF TypeOK, EditSource, process, Written, NoVerdict
<1>5. Wanted'
    BY <1>0, <1>1, <1>2, <1>3 DEF Wanted
<1>6. Stamped' /\ Covered'
    BY <1>0, <1>1 DEF Stamped, Covered, Generated, ManifestPaths
<1> QED  BY <1>1, <1>4, <1>5, <1>6, NextIdle, NextNoVerdict DEF IInv

LEMMA RemovePackageIInv ==
    ASSUME IInv, RemovePackage, UNCHANGED deployment
    PROVE  IInv'
<1> USE SameDeployment
<1>0. TypeOK /\ Wanted /\ Stamped /\ Covered
    BY DEF IInv
<1>1. /\ phase = "idle" /\ phase' = "idle" /\ verdict' = NoVerdict /\ manifest' = manifest
      /\ unrecorded' = unrecorded
    BY DEF RemovePackage, Idle, process
<1>2. PICK k \in srcDirs :
        /\ srcDirs' = srcDirs \ {k}
        /\ want' = [pid \in Pids |-> [p \in Paths |-> IF Origin[p] = k THEN NoFile ELSE want[pid][p]]]
        /\ disk' = [p \in Paths |-> IF Origin[p] = k /\ p \in InSourceDir THEN NoFile ELSE disk[p]]
    BY DEF RemovePackage
<1>3. \A p \in Paths : disk'[p] \in {disk[p], NoFile}
    BY <1>2
<1>4. TypeOK'
  <2>1. /\ want' \in [Pids -> [Paths -> Renders \cup {NoFile}]]
        /\ disk' \in [Paths -> File \cup {NoFile}]
        /\ srcDirs' \subseteq Pkgs
      BY <1>0, <1>2 DEF TypeOK
  <2> QED  BY <1>0, <1>1, <2>1 DEF TypeOK, RemovePackage, process, Written, NoVerdict
<1>5. Wanted'
    BY <1>0, <1>2 DEF Wanted
<1>6. Stamped' /\ Covered'
    BY <1>0, <1>1, <1>3 DEF Stamped, Covered, Generated, ManifestPaths
<1> QED  BY <1>1, <1>4, <1>5, <1>6, NextIdle, NextNoVerdict DEF IInv

-----------------------------------------------------------------------------
(* A command *)

LEMMA StartCommandIInv ==
    ASSUME IInv, StartCommand, UNCHANGED deployment
    PROVE  IInv'
<1> USE SameDeployment
<1>0. TypeOK /\ Wanted /\ Stamped /\ Covered
    BY DEF IInv
<1>1. /\ phase = "idle" /\ phase' = "backend" /\ verdict' = NoVerdict /\ manifest' = manifest
      /\ unrecorded' = unrecorded /\ disk' = disk /\ srcDirs' = srcDirs /\ want' = want
      /\ emitted' = <<>> /\ last' = {} /\ stale' = {} /\ gone' = {}
    BY DEF StartCommand, Idle
<1>2. PICK mode \in Modes, pid \in Pids, scope \in SUBSET srcDirs, deleted \in BOOLEAN :
        \E rendered \in SUBSET Asked(pid, scope) :
            /\ cmd' = [mode |-> mode, pid |-> pid, scope |-> scope, deleted |-> deleted]
            /\ todo' = rendered
            /\ broken' \in BOOLEAN /\ (rendered # Asked(pid, scope) => broken')
    BY DEF StartCommand
<1>3. /\ cmd'.mode = mode /\ cmd'.pid = pid /\ cmd'.scope = scope
      /\ todo' \subseteq Asked(pid, scope) /\ broken' \in BOOLEAN /\ (todo' # Asked(pid, scope) => broken')
    BY <1>2
<1>4. Written' = {}
    BY <1>1 DEF Written
<1>5. TypeOK'
    BY <1>0, <1>1, <1>2, <1>3, <1>4 DEF TypeOK, NoVerdict, Asked
<1>6. Doing'
    BY <1>1, <1>3, <1>4 DEF Doing, Asked
<1>7. Delivered' /\ Deleting'
    BY <1>1, <1>4 DEF Delivered, Deleting
<1>8. Wanted' /\ Stamped' /\ Covered'
    BY <1>0, <1>1 DEF Wanted, Stamped, Covered, Generated, ManifestPaths
<1> QED  BY <1>1, <1>5, <1>6, <1>7, <1>8, NextNoVerdict DEF IInv

LEMMA SinkWriteIInv ==
    ASSUME IInv, SinkWrite, UNCHANGED deployment
    PROVE  IInv'
<1> USE SameDeployment
<1>0. TypeOK /\ Wanted /\ Stamped /\ Covered /\ Doing /\ Delivered
    BY DEF IInv
<1>1. /\ phase = "backend" /\ phase' = "backend" /\ cmd' = cmd /\ broken' = broken
      /\ verdict' = verdict /\ manifest' = manifest /\ unrecorded' = unrecorded /\ srcDirs' = srcDirs
      /\ want' = want /\ last' = last /\ stale' = stale /\ gone' = gone
    BY DEF SinkWrite
<1>2. PICK p \in todo :
        /\ todo' = todo \ {p}
        /\ emitted' = [q \in Written \cup {p} |-> IF q = p THEN want[cmd.pid][p] ELSE emitted[q]]
        /\ disk' = IF Rooted /\ ~bodiesMatch(disk[p], want[cmd.pid][p])
                   THEN [disk EXCEPT ![p] = Rendered(want[cmd.pid][p])] ELSE disk
    BY DEF SinkWrite
<1> DEFINE r == want[cmd.pid][p]
<1>3. p \in Paths /\ r \in Renders /\ r # NoStamp
    BY <1>0, <1>1, DeploymentFacts DEF TypeOK, Doing, Idle
<1>4. /\ Written' = Written \cup {p}
      /\ \A q \in Written' : emitted'[q] = want[cmd.pid][q]
  <2>1. Written' = Written \cup {p}
      BY <1>2 DEF Written
  <2> QED  BY <1>0, <1>1, <1>2, <2>1 DEF Doing, Idle
<1>5. \/ /\ Rooted /\ disk' = [disk EXCEPT ![p] = Rendered(r)]
      \/ /\ disk' = disk /\ (Rooted => bodiesMatch(disk[p], r))
    BY <1>2
<1>6. /\ disk' \in [Paths -> File \cup {NoFile}]
      /\ \A q \in Paths : q # p => disk'[q] = disk[q]
      /\ disk'[p] = disk[p] \/ disk'[p] = Rendered(r)
    BY <1>0, <1>3, <1>5, RenderedIsFile DEF TypeOK
<1>7. Rendered(r) # NoFile /\ Settled(Rendered(r), r)
    BY <1>0, <1>3, RenderedIsFile DEF Rendered, Settled, TypeOK
<1>8. TypeOK'
    BY <1>0, <1>1, <1>2, <1>3, <1>4, <1>6 DEF TypeOK
<1>9. Wanted'
    BY <1>0, <1>1 DEF Wanted
<1>10. Stamped'
    BY <1>0, <1>6, <1>7 DEF Stamped, Settled
<1>11. Rooted' = Rooted
    BY <1>1 DEF Rooted
<1>12. Covered'
  <2> SUFFICES ASSUME NEW q \in Paths \ Absolute, Generated(disk'[q])
               PROVE  q \in ManifestPaths' \cup unrecorded' \/ (Rooted /\ q \in Written')
      BY <1>1, <1>11 DEF Covered, Generated
  <2>1. CASE disk'[q] = disk[q]
      BY <1>0, <1>1, <1>4, <2>1 DEF Covered, ManifestPaths
  <2>2. CASE q = p /\ Rooted
      BY <1>4, <2>2
  <2> QED  BY <1>5, <1>6, <2>1, <2>2
<1>13. Doing'
    BY <1>0, <1>1, <1>2, <1>4 DEF Doing, Idle, Asked
<1>14. Delivered'
  <2> SUFFICES ASSUME Rooted, NEW q \in Written' PROVE Settled(disk'[q], emitted'[q])
      BY <1>11 DEF Delivered, Settled
  <2>1. CASE q # p
      BY <1>0, <1>1, <1>4, <1>6, <2>1 DEF Delivered, Doing, Idle, TypeOK
  <2>2. CASE q = p /\ disk'[p] = Rendered(r)
      BY <1>4, <1>7, <2>2
  <2>3. CASE q = p /\ disk' = disk /\ bodiesMatch(disk[p], r)
    <3>1. disk[p] # NoFile /\ disk[p].stamp = r /\ disk[p].tail
        BY <2>3, <1>7 DEF bodiesMatch, Settled
    <3>2. disk[p].body \in {r, Edited}
        BY <1>0, <1>3, <3>1 DEF Stamped
    <3> QED  BY <1>4, <2>3, <3>1, <3>2 DEF Settled
  <2>4. disk' = [disk EXCEPT ![p] = Rendered(r)] => disk'[p] = Rendered(r)
      BY <1>0, <1>3 DEF TypeOK
  <2> QED  BY <1>5, <2>1, <2>2, <2>3, <2>4
<1>15. Deleting' /\ Verdicts'
    BY <1>0, <1>1, NextNoVerdict DEF Deleting, Doing, Idle
<1> QED  BY <1>8, <1>9, <1>10, <1>12, <1>13, <1>14, <1>15 DEF IInv

LEMMA SinkFailsIInv ==
    ASSUME IInv, SinkFails, UNCHANGED deployment
    PROVE  IInv'
<1> USE SameDeployment
<1>0. TypeOK /\ Wanted /\ Stamped /\ Covered /\ Doing /\ Delivered
    BY DEF IInv
<1>1. /\ phase = "backend" /\ phase' = "backend" /\ cmd' = cmd /\ broken' = TRUE /\ todo' = {}
      /\ verdict' = verdict /\ manifest' = manifest /\ unrecorded' = unrecorded /\ srcDirs' = srcDirs
      /\ want' = want /\ disk' = disk /\ emitted' = emitted /\ last' = last /\ stale' = stale /\ gone' = gone
    BY DEF SinkFails
<1>2. Written' = Written /\ Rooted' = Rooted
    BY <1>1 DEF Written, Rooted
<1>3. TypeOK' /\ Wanted' /\ Stamped'
    BY <1>0, <1>1, <1>2 DEF TypeOK, Wanted, Stamped
<1>4. Covered' /\ Doing' /\ Delivered'
    BY <1>0, <1>1, <1>2 DEF Covered, Generated, ManifestPaths, Doing, Idle, Delivered, Settled
<1>5. Deleting' /\ Verdicts'
    BY <1>0, <1>1, NextNoVerdict DEF Deleting, Doing, Idle
<1> QED  BY <1>3, <1>4, <1>5 DEF IInv

-----------------------------------------------------------------------------
(* The manifest *)

\* Entries with one key are entries of one pipeline for one target.
LEMMA SameKey ==
    ASSUME NEW e, NEW c, Key(c) = Key(e)
    PROVE  c.path = e.path /\ c.clause = e.clause /\ c.pid = e.pid
BY DEF Key

\* The merge keeps every entry, or its successor, unless the file is gone;
\* without the disk sink it drops nothing.
LEMMA MergeKeeps ==
    ASSUME TypeOK, Doing, ~Idle, NEW e \in manifest
    PROVE  \/ e \in Merged
           \/ \E c \in Current : Key(c) = Key(e)
           \/ Rooted /\ disk[e.path] = NoFile
BY DEF Merged, Keys, converged

LEMMA MergeKeepsKeys ==
    ASSUME TypeOK, Doing, ~Idle, NEW e \in manifest
    PROVE  Key(e) \in Keys(Merged) \/ disk[e.path] = NoFile
<1>1. Current \subseteq Merged
    BY DEF Merged
<1> QED  BY <1>1, MergeKeeps DEF Keys

\* What the merged manifest claims on disk.
LEMMA MergeCovers ==
    ASSUME TypeOK, Doing, ~Idle
    PROVE  /\ Written \subseteq {e.path : e \in Merged}
           /\ \A p \in ManifestPaths : p \in {e.path : e \in Merged} \/ disk[p] = NoFile
<1>1. Current \subseteq Merged
    BY DEF Merged
<1>2. Written \subseteq {e.path : e \in Merged}
    BY <1>1, CurrentTypes
<1>3. ASSUME NEW e \in manifest PROVE e.path \in {c.path : c \in Merged} \/ disk[e.path] = NoFile
  <2>1. CASE \E c \in Current : Key(c) = Key(e)
      BY <1>1, <2>1, SameKey
  <2> QED  BY <2>1, MergeKeeps
<1> QED  BY <1>2, <1>3 DEF ManifestPaths

\* Covered between commands, after the manifest was or was not written.
LEMMA RecordCovers ==
    ASSUME IInv, phase = "backend", manifest' \in {manifest, Merged}, disk' = disk,
           unrecorded' = (unrecorded \cup (IF Rooted THEN Written ELSE {})) \ {e.path : e \in manifest'}
    PROVE  \A p \in Paths \ Absolute : Generated(disk'[p]) =>
              /\ p \in ManifestPaths' \cup unrecorded'
              /\ p \in {e.path : e \in Merged} \cup unrecorded'
<1>0. TypeOK /\ Covered /\ Doing /\ ~Idle
    BY DEF IInv, Idle
<1>1. SUFFICES ASSUME NEW p \in Paths \ Absolute, Generated(disk[p])
               PROVE  /\ p \in ManifestPaths' \cup unrecorded'
                      /\ p \in {e.path : e \in Merged} \cup unrecorded'
    BY DEF Generated
<1>2. /\ ManifestPaths' = {e.path : e \in manifest'} /\ ManifestPaths = {e.path : e \in manifest}
      /\ disk[p] # NoFile
    BY <1>1 DEF ManifestPaths, Generated
<1>3. Written \subseteq {e.path : e \in Merged} /\ (p \in ManifestPaths => p \in {e.path : e \in Merged})
    BY <1>0, <1>2, MergeCovers
<1>4. p \in ManifestPaths \/ p \in unrecorded \/ (Rooted /\ p \in Written)
    BY <1>0, <1>1 DEF Covered
<1>5. p \in ManifestPaths' \cup unrecorded'
    BY <1>2, <1>3, <1>4
<1>6. p \in {e.path : e \in Merged} \cup unrecorded'
    BY <1>2, <1>3, <1>4
<1> QED  BY <1>5, <1>6

\* What a run, check or dry run leaves behind.  A run has settled all it was
\* asked for; a check that is clean has compared all of it, and would have
\* seen an entry whose package is gone.
LEMMA WriteManifestIInv ==
    ASSUME IInv, WriteManifest, UNCHANGED deployment
    PROVE  IInv'
<1> USE SameDeployment
<1>0. TypeOK /\ Wanted /\ Stamped /\ Covered /\ Doing /\ Delivered
    BY DEF IInv
<1>1. /\ phase = "backend" /\ todo = {} /\ disk' = disk /\ want' = want /\ srcDirs' = srcDirs
      /\ manifest' \in {manifest, Merged}
      /\ unrecorded' = (unrecorded \cup (IF Rooted THEN Written ELSE {})) \ {e.path : e \in manifest'}
    BY DEF WriteManifest
<1>2. ~Idle /\ cmd.pid \in Pids /\ cmd.mode \in Modes /\ cmd.scope \subseteq srcDirs
    BY <1>0, <1>1 DEF Idle, TypeOK
<1>3. manifest' \subseteq Entry /\ Merged \subseteq Entry /\ unrecorded' \subseteq Paths
    BY <1>0, <1>1, <1>2, CurrentTypes DEF TypeOK
<1>4. Wanted' /\ Stamped'
    BY <1>0, <1>1 DEF Wanted, Stamped
<1>5. Covered'
    BY <1>1, RecordCovers DEF Covered, Generated
<1>6. ASSUME Complete, NEW p \in Paths, want[cmd.pid][p] # NoFile
      PROVE  p \in Written /\ emitted[p] = want[cmd.pid][p]
    BY <1>0, <1>1, <1>2, <1>6 DEF Complete, Wanted, Doing, Asked
<1>7. CASE cmd.mode = "prune"
  <2>1. /\ phase' = "delete" /\ last' = Merged /\ stale' = {e \in Merged : Orphan(e, cmd.deleted)}
        /\ UNCHANGED <<cmd, todo, emitted, broken, gone, verdict>>
      BY <1>7 DEF WriteManifest
  <2>2. TypeOK'
      BY <1>0, <1>1, <1>3, <2>1 DEF TypeOK, Written
  <2>3. Doing' /\ Delivered' /\ Verdicts'
      BY <1>0, <1>1, <1>2, <2>1, NextNoVerdict DEF Doing, Delivered, Idle, Written, Asked
  <2>4. Deleting'
    <3>1. \A p \in Paths \ Absolute : Generated(disk'[p]) => p \in {e.path : e \in last'} \cup unrecorded'
        BY <1>1, <2>1, RecordCovers
    <3>2. \A e \in manifest' : Key(e) \in Keys(last') \/ disk'[e.path] = NoFile
      <4>1. \A e \in Merged : Key(e) \in Keys(Merged)
          BY DEF Keys
      <4>2. \A e \in manifest : Key(e) \in Keys(Merged) \/ disk[e.path] = NoFile
          BY <1>0, <1>2, MergeKeepsKeys
      <4> QED  BY <1>1, <2>1, <4>1, <4>2
    <3>3. \A e \in last' : Orphan(e, cmd.deleted)' => e \in stale'
        BY <1>1, <2>1 DEF Orphan, Written, SourceGone
    <3>4. gone' = {} /\ todo' = {}
        BY <1>0, <1>1, <1>2, <2>1 DEF Doing
    <3> QED  BY <3>1, <3>2, <3>3, <3>4 DEF Deleting, Generated, Key, Keys
  <2> QED  BY <1>4, <1>5, <2>2, <2>3, <2>4 DEF IInv
<1>8. CASE cmd.mode # "prune"
  <2>1. Exit /\ Conclude(Merged)
      BY <1>8 DEF WriteManifest
  <2>2. /\ verdict'.pid = cmd.pid
        /\ \/ verdict'.kind = "none"
           \/ verdict'.kind = "ran" /\ cmd.mode = "run" /\ Complete
           \/ verdict'.kind = "recorded" /\ cmd.mode = "run" /\ Complete /\ manifest' = Merged
           \/ verdict'.kind = "clean" /\ cmd.mode = "check" /\ Complete /\ ~Drift(Merged)
      BY <2>1 DEF Conclude
  <2>3. TypeOK'
    <3>1. Written' = {}
        BY <2>1 DEF Exit, Written
    <3> QED  BY <1>0, <1>1, <1>2, <1>3, <2>1, <2>2, <3>1 DEF TypeOK, Exit
  <2>4. RunSettlesDisk'
    <3> SUFFICES ASSUME verdict'.kind \in {"ran", "recorded"}, NEW p \in Paths, want[cmd.pid][p] # NoFile
                 PROVE  Settled(disk[p], want[cmd.pid][p])
        BY <1>1, <2>2 DEF RunSettlesDisk, sameProvenance, Settled
    <3>1. Complete /\ Rooted
        BY <2>2 DEF Rooted
    <3> QED  BY <1>0, <1>1, <1>6, <3>1 DEF Delivered
  <2>5. PruneConverges'
      BY <2>2 DEF PruneConverges
  <2>7. RunRecordsAll'
    <3> DEFINE entry(p) == [path |-> p, clause |-> ClauseOf[want[cmd.pid][p]], pid |-> cmd.pid,
                            hash |-> want[cmd.pid][p]]
    <3> SUFFICES ASSUME verdict'.kind = "recorded", NEW p \in Paths, want[cmd.pid][p] # NoFile
                 PROVE  entry(p) \in manifest'
        BY <1>1, <2>2 DEF RunRecordsAll
    <3>1. Complete /\ manifest' = Merged
        BY <2>2
    <3>2. entry(p) \in Current
        BY <1>6, <3>1 DEF Current
    <3> QED  BY <3>1, <3>2 DEF Merged
  <2>6. CleanMeansUpToDate'
    <3> SUFFICES ASSUME verdict'.kind = "clean"
                 PROVE  /\ \A p \in Paths : want[cmd.pid][p] # NoFile =>
                              /\ disk[p] # NoFile /\ disk[p].body = want[cmd.pid][p] /\ disk[p].tail
                        /\ \A e \in manifest' : e.pid = cmd.pid =>
                              ImportPath[e.path] \notin Module \ srcDirs
        BY <1>1, <2>2 DEF CleanMeansUpToDate
    <3>1. Complete /\ ~Drift(Merged) /\ ~Rooted
        BY <2>2 DEF Rooted
    <3>2. ASSUME NEW p \in Paths, want[cmd.pid][p] # NoFile
          PROVE  disk[p] # NoFile /\ disk[p].body = want[cmd.pid][p] /\ disk[p].tail
        BY <1>6, <3>1, <3>2 DEF Drift, sameProvenance
    <3>3. ASSUME NEW e \in manifest', e.pid = cmd.pid, ImportPath[e.path] \in Module \ srcDirs
          PROVE  FALSE
      <4>1. e.path \in Paths
          BY <1>3 DEF Entry
      <4>2. SourceGone(e) /\ Origin[e.path] \notin srcDirs
          BY <1>0, <3>3, <4>1, DeploymentFacts DEF SourceGone, TypeOK
      <4>3. e.path \notin Written
          BY <1>0, <1>2, <4>1, <4>2 DEF Wanted, Doing
      <4>4. Orphan(e, TRUE)
          BY <3>3, <4>2, <4>3 DEF Orphan
      <4>5. e \notin Merged
          BY <3>1, <4>2, <4>4 DEF Drift
      <4>6. PICK c \in Current : Key(c) = Key(e)
          BY <1>0, <1>1, <1>2, <3>1, <4>5, MergeKeeps
      <4>7. c.path = e.path
          BY <4>6, SameKey
      <4> QED  BY <1>0, <1>2, <4>3, <4>6, <4>7, CurrentTypes
    <3> QED  BY <3>2, <3>3
  <2> QED  BY <1>4, <1>5, <2>1, <2>3, <2>4, <2>5, <2>6, <2>7, NextIdle DEF IInv, Verdicts, Exit
<1> QED  BY <1>7, <1>8

-----------------------------------------------------------------------------
(* prune *)

LEMMA PruneOneIInv ==
    ASSUME IInv, PruneOne, UNCHANGED deployment
    PROVE  IInv'
<1> USE SameDeployment
<1>0. TypeOK /\ Wanted /\ Stamped /\ Covered /\ Doing /\ Deleting
    BY DEF IInv
<1>1. /\ phase = "delete" /\ phase' = "delete" /\ want' = want /\ srcDirs' = srcDirs
      /\ manifest' = manifest /\ cmd' = cmd /\ todo' = todo /\ emitted' = emitted /\ last' = last
      /\ unrecorded' = unrecorded /\ verdict' = verdict
    BY DEF PruneOne
<1>2. PICK e \in stale :
        /\ stale' = stale \ {e}
        /\ \/ /\ disk[e.path] = NoFile \/ e.path \in Absolute
              /\ gone' = gone \cup {e} /\ disk' = disk /\ broken' = broken
           \/ /\ disk[e.path] # NoFile /\ disk' = disk /\ gone' = gone
              /\ (~disk[e.path].marker /\ broken' = broken) \/ broken' = TRUE
           \/ disk' = [disk EXCEPT ![e.path] = NoFile] /\ gone' = gone \cup {e} /\ broken' = broken
    BY DEF PruneOne, hasGeneratedMarker, Found
<1>3. e \in Entry /\ e.path \in Paths
    BY <1>0 DEF TypeOK, Entry
<1>4. /\ disk' \in [Paths -> File \cup {NoFile}]
      /\ \A p \in Paths : disk'[p] = disk[p] \/ disk'[p] = NoFile
    BY <1>0, <1>2, <1>3 DEF TypeOK
<1>5. /\ gone' \subseteq gone \cup {e} /\ (e \in gone' => e \in gone \/ disk'[e.path] = NoFile \/ e.path \in Absolute)
      /\ broken' \in BOOLEAN
      /\ ~broken' => ~broken /\ (disk'[e.path] = NoFile \/ ~disk'[e.path].marker \/ e.path \in Absolute)
    BY <1>0, <1>2, <1>3 DEF TypeOK
<1>6. Written' = Written
    BY <1>1 DEF Written
<1>7. TypeOK'
    BY <1>0, <1>1, <1>2, <1>3, <1>4, <1>5, <1>6 DEF TypeOK
<1>8. Wanted' /\ Stamped' /\ Covered'
    BY <1>0, <1>1, <1>4 DEF Wanted, Stamped, Covered, Generated, ManifestPaths
<1>9. Doing' /\ Delivered' /\ Verdicts'
    BY <1>0, <1>1, <1>5, <1>6, NextNoVerdict DEF Doing, Idle, Delivered, Asked
<1>10. Deleting'
  <2>1. \A p \in Paths : Generated(disk'[p]) => Generated(disk[p])
      BY <1>4 DEF Generated
  <2>2. \A d \in Entry : d.path \in Paths
      BY DEF Entry
  <2>3. \A d \in manifest : Key(d) \in Keys(last) \/ disk'[d.path] = NoFile
      BY <1>0, <1>1, <1>4, <2>2 DEF Deleting, TypeOK
  <2>4. \A d \in gone' : disk'[d.path] = NoFile \/ d.path \in Absolute
      BY <1>0, <1>1, <1>4, <1>5, <2>2 DEF Deleting, TypeOK
  <2>5. \A d \in last : Orphan(d, cmd.deleted)' = Orphan(d, cmd.deleted)
      BY <1>1, <1>6 DEF Orphan, SourceGone
  <2>6. ~broken' => \A d \in last : Orphan(d, cmd.deleted) =>
                        \/ d \in stale' \/ d.path \in Absolute
                        \/ disk'[d.path] = NoFile \/ ~disk'[d.path].marker
      BY <1>0, <1>1, <1>2, <1>4, <1>5, <2>2 DEF Deleting, TypeOK
  <2> QED  BY <1>0, <1>1, <2>1, <2>3, <2>4, <2>5, <2>6 DEF Deleting, Generated, Key, Keys
<1> QED  BY <1>7, <1>8, <1>9, <1>10 DEF IInv

\* An orphan that prune has not deleted is one it was told to leave.
LEMMA FinishPruneIInv ==
    ASSUME IInv, FinishPrune, UNCHANGED deployment
    PROVE  IInv'
<1> USE SameDeployment
<1>0. TypeOK /\ Wanted /\ Stamped /\ Covered /\ Doing /\ Deleting
    BY DEF IInv
<1>1. /\ phase = "delete" /\ stale = {} /\ disk' = disk /\ want' = want /\ srcDirs' = srcDirs
      /\ manifest' \in {manifest, Pruned} /\ Exit
      /\ unrecorded' = unrecorded \ {e.path : e \in manifest'}
    BY DEF FinishPrune
<1>2. /\ verdict'.pid = cmd.pid
      /\ verdict'.kind = "none" \/ (verdict'.kind = "pruned" /\ Complete /\ cmd.deleted)
    BY DEF FinishPrune
<1>3. ~Idle /\ cmd.pid \in Pids /\ manifest' \subseteq Entry /\ unrecorded' \subseteq Paths
    BY <1>0, <1>1 DEF Idle, TypeOK, Pruned
<1>4. TypeOK'
  <2>1. Written' = {}
      BY <1>1 DEF Exit, Written
  <2> QED  BY <1>0, <1>1, <1>2, <1>3, <2>1 DEF TypeOK, Exit
<1>5. Wanted' /\ Stamped'
    BY <1>0, <1>1 DEF Wanted, Stamped
<1>6. Covered'
  <2> SUFFICES ASSUME NEW p \in Paths \ Absolute, Generated(disk[p])
               PROVE  p \in {e.path : e \in manifest'} \cup unrecorded'
      BY <1>1 DEF Covered, ManifestPaths, Generated
  <2>1. CASE manifest' = manifest
      BY <1>0, <1>1, <2>1 DEF Covered, ManifestPaths
  <2>2. CASE manifest' = Pruned
      BY <1>0, <1>1, <2>2 DEF Deleting, Pruned, Generated
  <2> QED  BY <1>1, <2>1, <2>2
<1>7. RunSettlesDisk' /\ RunRecordsAll' /\ CleanMeansUpToDate'
    BY <1>2 DEF RunSettlesDisk, RunRecordsAll, CleanMeansUpToDate
<1>8. PruneConverges'
  <2> SUFFICES ASSUME verdict'.kind = "pruned", NEW e \in manifest', e.pid = cmd.pid,
                      disk[e.path] # NoFile, disk[e.path].marker,
                      want[cmd.pid][e.path] = NoFile, ImportPath[e.path] \in srcDirs \cup Module,
                      e.path \notin Absolute
               PROVE  FALSE
      BY <1>1, <1>2 DEF PruneConverges
  <2>1. Complete /\ cmd.deleted /\ e.path \in Paths
      BY <1>2, <1>3 DEF Entry
  <2>2. e.path \notin Written
      BY <1>0, <1>3 DEF Doing
  <2>3. PICK d \in last : Key(d) = Key(e)
    <3>1. CASE e \in manifest
        BY <1>0, <1>1, <3>1 DEF Deleting, Keys
    <3>2. CASE e \in Pruned
        BY <3>2 DEF Pruned
    <3> QED  BY <1>1, <3>1, <3>2
  <2>4. d.path = e.path /\ d.pid = e.pid
      BY <2>3, SameKey
  <2>6. Orphan(d, cmd.deleted)
      BY <2>1, <2>2, <2>4 DEF Orphan, SourceGone, Complete
  <2> QED  BY <1>0, <1>1, <2>1, <2>3, <2>4, <2>6 DEF Deleting, Complete
<1> QED  BY <1>1, <1>4, <1>5, <1>6, <1>7, <1>8, NextIdle DEF IInv, Verdicts, Exit

LEMMA AbandonIInv ==
    ASSUME IInv, Abandon, UNCHANGED deployment
    PROVE  IInv'
<1> USE SameDeployment
<1>0. TypeOK /\ Wanted /\ Stamped /\ Covered /\ Doing
    BY DEF IInv
<1>1. /\ ~Idle /\ disk' = disk /\ want' = want /\ srcDirs' = srcDirs /\ manifest' = manifest /\ Exit
      /\ verdict' = verdict
      /\ unrecorded' = (unrecorded \cup (IF Rooted THEN Written ELSE {})) \ ManifestPaths
    BY DEF Abandon
<1>2. verdict' = NoVerdict
    BY <1>0, <1>1 DEF Doing
<1>3. TypeOK'
  <2>1. Written' = {}
      BY <1>1 DEF Exit, Written
  <2> QED  BY <1>0, <1>1, <2>1 DEF TypeOK, Exit
<1>4. Wanted' /\ Stamped' /\ Covered'
    BY <1>0, <1>1 DEF Wanted, Stamped, Covered, Generated, ManifestPaths
<1> QED  BY <1>1, <1>2, <1>3, <1>4, NextIdle, NextNoVerdict DEF IInv, Exit

-----------------------------------------------------------------------------
(* The theorems *)

LEMMA InitIInv == Init => IInv
<1> SUFFICES ASSUME Init PROVE IInv
    OBVIOUS
<1>1. Written = {}
    BY DEF Init, Written
<1>2. TypeOK
    BY <1>1 DEF Init, TypeOK, NoVerdict
<1>3. Wanted
    BY <1>2, DeploymentFacts DEF Init, Wanted
<1>4. Stamped /\ Covered
    BY DEF Init, Stamped, Covered, Generated
<1>5. Doing /\ Delivered /\ Deleting /\ Verdicts
    BY DEF Init, Doing, Idle, Delivered, Deleting, Verdicts, RunSettlesDisk, RunRecordsAll, PruneConverges,
           CleanMeansUpToDate, NoVerdict
<1> QED  BY <1>2, <1>3, <1>4, <1>5 DEF IInv

LEMMA NextIInv == IInv /\ [Next]_vars => IInv'
<1> SUFFICES ASSUME IInv, [Next]_vars PROVE IInv'
    OBVIOUS
<1>1. CASE UNCHANGED vars
  <2> USE <1>1 DEF vars, process
  <2>1. TypeOK' /\ Wanted' /\ Stamped'
      BY DEF IInv, TypeOK, Wanted, Stamped, Written, Pids, Renders, File, Entry
  <2>2. Covered' /\ Doing' /\ Delivered'
      BY DEF IInv, Covered, Doing, Delivered, Generated, ManifestPaths, Rooted, Written, Idle, Asked, Settled,
             Absolute
  <2>3. Deleting'
      BY DEF IInv, Deleting, Generated, Key, Keys, Orphan, SourceGone, Written, ImportPath, Absolute, Module
  <2>4. Verdicts'
      BY DEF IInv, Verdicts, RunSettlesDisk, RunRecordsAll, PruneConverges, CleanMeansUpToDate, sameProvenance,
             ImportPath, Absolute, Module
  <2> QED  BY <2>1, <2>2, <2>3, <2>4 DEF IInv
<1>2. CASE Next
    BY <1>2, EditFileIInv, EditSourceIInv, RemovePackageIInv, StartCommandIInv, SinkWriteIInv,
       SinkFailsIInv, WriteManifestIInv, PruneOneIInv, FinishPruneIInv, AbandonIInv DEF Next
<1> QED  BY <1>1, <1>2

LEMMA Invariant == Spec => []IInv
BY InitIInv, NextIInv, PTL DEF Spec

\* Every value stays of its type.
THEOREM LifecycleTypes == Spec => []TypeOK
<1>1. IInv => TypeOK
    BY DEF IInv
<1> QED  BY <1>1, Invariant, PTL

\* Between commands every generated file that prune would find is claimed by
\* the manifest, or was written by a command stopped before recording it.
THEOREM FilesAreTracked == Spec => []Tracked
<1>1. IInv => Tracked
    BY DEF IInv, Covered, Tracked, Idle
<1> QED  BY <1>1, Invariant, PTL

\* A complete run without errors leaves every requested file settled.
THEOREM RunsSettle == Spec => []RunSettlesDisk
<1>1. IInv => RunSettlesDisk
    BY DEF IInv, Verdicts
<1> QED  BY <1>1, Invariant, PTL

\* A complete run that saves its manifest has recorded every requested file,
\* whatever earlier commands wrote and did not record.
THEOREM RunsRecordAll == Spec => []RunRecordsAll
<1>1. IInv => RunRecordsAll
    BY DEF IInv, Verdicts
<1> QED  BY <1>1, Invariant, PTL

\* A complete prune of deleted sources leaves, of what it still claims and
\* no longer asks for, only what it cannot see: packages neither loaded nor
\* of the module, and files with an absolute Dir.
THEOREM PrunesConverge == Spec => []PruneConverges
<1>1. IInv => PruneConverges
    BY DEF IInv, Verdicts
<1> QED  BY <1>1, Invariant, PTL

\* A clean check means that the tree is what the pipeline renders, and that no
\* package of the module is gone that the pipeline has output of.
THEOREM ChecksAreTruthful == Spec => []CleanMeansUpToDate
<1>1. IInv => CleanMeansUpToDate
    BY DEF IInv, Verdicts
<1> QED  BY <1>1, Invariant, PTL

\* No command takes an entry out of the manifest while its file exists, the
\* merge of a run never, the rewrite after a prune unless Dir is absolute.
THEOREM EntriesLeaveWithTheirFile == Spec => EntryLeavesOnlyWithFile
<1> DEFINE Kept(e) == \/ Key(e) \in Keys(manifest')
                      \/ disk'[e.path] = NoFile
                      \/ phase = "delete" /\ e.path \in Absolute
<1>1. ASSUME IInv, [Next]_vars, NEW e \in manifest
      PROVE  Kept(e)
  <2>1. CASE manifest' = manifest
      BY <2>1 DEF Keys
  <2>2. CASE WriteManifest /\ manifest' = Merged
    <3>1. TypeOK /\ Doing /\ ~Idle /\ disk' = disk
        BY <1>1, <2>2 DEF IInv, WriteManifest, Idle
    <3> QED  BY <2>2, <3>1, MergeKeepsKeys
  <2>3. CASE FinishPrune /\ manifest' = Pruned
    <3>1. Deleting /\ phase = "delete" /\ disk' = disk
        BY <1>1, <2>3 DEF IInv, FinishPrune
    <3>2. CASE disk[e.path] = NoFile \/ e.path \in Absolute
        BY <3>1, <3>2
    <3>3. CASE disk[e.path] # NoFile /\ e.path \notin Absolute
      <4>1. PICK d \in last : Key(d) = Key(e)
          BY <3>1, <3>3 DEF Deleting, Keys
      <4>2. d \notin gone
          BY <3>1, <3>3, <4>1, SameKey DEF Deleting
      <4> QED  BY <2>3, <4>1, <4>2 DEF Pruned, Keys
    <3> QED  BY <3>2, <3>3
  <2>4. \/ manifest' = manifest
        \/ WriteManifest /\ manifest' = Merged
        \/ FinishPrune /\ manifest' = Pruned
    <3>1. CASE WriteManifest
        BY <3>1 DEF WriteManifest
    <3>2. CASE FinishPrune
        BY <3>2 DEF FinishPrune
    <3> QED  BY <1>1, <3>1, <3>2 DEF Next, vars, EditFile, EditSource, RemovePackage, StartCommand,
                SinkWrite, SinkFails, PruneOne, Abandon
  <2> QED  BY <2>1, <2>2, <2>3, <2>4
<1>2. IInv /\ [Next]_vars =>
        [\A e \in manifest : Kept(e)]_vars
    BY <1>1
<1> QED  BY <1>2, Invariant, PTL DEF Spec, EntryLeavesOnlyWithFile
=============================================================================
