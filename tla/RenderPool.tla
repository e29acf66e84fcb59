----------------------------- MODULE RenderPool -----------------------------
(***************************************************************************)
(* The Go backend's Render: a pool of workers renders the targets, each    *)
(* worker with one render state for all its targets; then the calling      *)
(* goroutine replays the results in key order and writes the files.        *)
(*                                                                         *)
(* Rendering a target touches the worker's own state, the frozen store and *)
(* one slot of results, so it is one step.  What interleaves is who gets   *)
(* which target, after which others, and when the results are read.        *)
(***************************************************************************)
EXTENDS GoRender

CONSTANTS
    Runs,    \* lists of targets a run may have, as ByTarget().Keys() gives them
    Procs    \* values of GOMAXPROCS

ASSUME RunsAssumption == \A r \in Runs : r \in Seq(Range(r))

\* Targets and imports name a path or none, and a package or an alias is a
\* name a suffix can be put behind, or none.
IsPath(path) == path \in Paths \cup {""}
IsName(name) == name = "" \/ Suffixed(name)
IsTarget(t) ==
    /\ IsPath(t.path) /\ IsName(t.pkg)
    /\ t.pre \in Seq(Range(t.pre)) /\ t.uses \in Seq(Range(t.uses))
    /\ \A k \in DOMAIN t.pre : IsPath(t.pre[k].path) /\ IsName(t.pre[k].alias)
    /\ \A k \in DOMAIN t.uses : IsPath(t.uses[k].path)
    /\ t.outcome \in {"fails", "empty", "unparsed", "renders"}
ASSUME TargetsAssumption == \A r \in Runs : \A i \in DOMAIN r : IsTarget(r[i])
ASSUME ProcsAssumption == Procs \subseteq Nat \ {0}

VARIABLES
    keys,      \* the targets of this run
    workers,   \* how many goroutines render
    pc,        \* Render: "send", "wait", "replay"
    sent,      \* keys handed out through the channel idx
    job,       \* job[w]: the key worker w renders, 0 when it waits for one
    exited,    \* workers whose channel loop has ended
    st,        \* st[w]: the import set of worker w's render state
    results,   \* results[i]: Pending, or what renderTarget returned
    log,       \* what Render has reported and written, key by key
    end        \* how Render returned: "running", "done", "failed"

vars == <<keys, workers, pc, sent, job, exited, st, results, log, end>>

Pending == [skip |-> FALSE, pending |-> TRUE]

Least(a, b) == IF a < b THEN a ELSE b

Init ==
    /\ keys \in Runs
    /\ \E n \in Procs : workers = Least(n, Len(keys))
    /\ pc = "send" /\ sent = 0
    /\ job = [w \in 1 .. workers |-> 0] /\ exited = {}
    /\ st = [w \in 1 .. workers |-> NewImportSet]
    /\ results = [i \in DOMAIN keys |-> Pending]
    /\ log = <<>> /\ end = "running"

\* The body of both loops: results[i] = render(st, i).
Fill(w, i) ==
    \E r \in {RenderTarget(st[w], keys, i)} :
        st' = [st EXCEPT ![w] = r.set] /\ results' = [results EXCEPT ![i] = r.res]

-----------------------------------------------------------------------------
(* One worker: no goroutine, no channel. *)

RenderInline ==
    /\ pc = "send" /\ workers = 1 /\ sent < Len(keys)
    /\ sent' = sent + 1 /\ Fill(1, sent + 1)
    /\ UNCHANGED <<keys, workers, pc, job, exited, log, end>>

InlineDone ==
    /\ pc = "send" /\ workers <= 1 /\ sent = Len(keys)
    /\ pc' = "replay"
    /\ UNCHANGED <<keys, workers, sent, job, exited, st, results, log, end>>

-----------------------------------------------------------------------------
(* The pool. *)

\* idx <- i, on an unbuffered channel: a waiting worker takes the key.
Send(w) ==
    /\ pc = "send" /\ workers > 1 /\ sent < Len(keys)
    /\ job[w] = 0
    /\ sent' = sent + 1 /\ job' = [job EXCEPT ![w] = sent + 1]
    /\ UNCHANGED <<keys, workers, pc, exited, st, results, log, end>>

Render(w) ==
    /\ job[w] # 0
    /\ Fill(w, job[w]) /\ job' = [job EXCEPT ![w] = 0]
    /\ UNCHANGED <<keys, workers, pc, sent, exited, log, end>>

\* (Mutation: the channel is never closed.)
NeverClose == FALSE /\ UNCHANGED vars

CloseChannel ==
    /\ pc = "send" /\ workers > 1 /\ sent = Len(keys)
    /\ pc' = "wait"
    /\ UNCHANGED <<keys, workers, sent, job, exited, st, results, log, end>>

\* A closed channel ends the worker's loop: wg.Done.
Exit(w) ==
    /\ pc # "send" /\ workers > 1 /\ w \notin exited /\ job[w] = 0
    /\ exited' = exited \cup {w}
    /\ UNCHANGED <<keys, workers, pc, sent, job, st, results, log, end>>

\* wg.Wait.
Join ==
    /\ pc = "wait" /\ exited = 1 .. workers
    /\ pc' = "replay"
    /\ UNCHANGED <<keys, workers, sent, job, exited, st, results, log, end>>

-----------------------------------------------------------------------------
(* Replay in key order; a failing Sink.Write ends Render. *)

Replay(writes) ==
    LET i == Len(log) + 1
    IN  /\ pc = "replay" /\ end = "running" /\ i <= Len(keys)
        /\ ~writes => ~results[i].skip
        /\ log' = Append(log, Replayed(keys, results, i, writes))
        /\ end' = IF writes THEN "running" ELSE "failed"
        /\ UNCHANGED <<keys, workers, pc, sent, job, exited, st, results>>

Return ==
    /\ pc = "replay" /\ end = "running" /\ Len(log) = Len(keys)
    /\ end' = "done"
    /\ UNCHANGED <<keys, workers, pc, sent, job, exited, st, results, log>>

Main ==
    \/ RenderInline \/ InlineDone \/ CloseChannel \/ Join \/ Return
    \/ \E w \in 1 .. workers : Send(w)
    \/ \E writes \in BOOLEAN : Replay(writes)

Worker(w) == Render(w) \/ Exit(w)

Next == Main \/ \E w \in 1 .. workers : Worker(w)

\* The Go scheduler runs every goroutine that can run.
MaxWorkers == 1 .. Max({Len(r) : r \in Runs})
Fairness == WF_vars(Main) /\ \A w \in MaxWorkers : WF_vars(w <= workers /\ Worker(w))

Spec == Init /\ [][Next]_vars /\ Fairness

-----------------------------------------------------------------------------
(* Properties. *)

TypeOK ==
    /\ pc \in {"send", "wait", "replay"} /\ end \in {"running", "done", "failed"}
    /\ sent \in 0 .. Len(keys)
    /\ job \in [1 .. workers -> 0 .. sent] /\ exited \subseteq 1 .. workers
    /\ \A v, w \in 1 .. workers : job[v] = job[w] /\ job[v] # 0 => v = w

\* The results when every target is rendered by itself, with a new state.
Alone(ks) == [i \in DOMAIN ks |-> RenderTarget(NewImportSet, ks, i).res]
AloneSkips(ks, i) == Alone(ks)[i].skip
AloneSeen(ks, i, writes) == Replayed(ks, Alone(ks), i, writes)

\* "the observable sequence stays exactly what the sequential loop produced":
\* whichever worker renders a target, after whichever others and with what
\* they left in its import set, diagnostics, warnings and files come out as
\* if every target were rendered by itself, in key order.
Sequential == INSTANCE SequentialRender WITH Skips <- AloneSkips, Seen <- AloneSeen
RendersAsIfSequential == Sequential!Spec

Files == {i \in DOMAIN log : log[i].file.written}

\* The packages that name reaches through the import lines of the file.
Bindings(i, name) ==
    {log[i].file.imports[k].path :
       k \in {k \in DOMAIN log[i].file.imports : Binds(keys, log[i].file.imports[k]) = name}}

\* The names a wrong guess is about: the alias an import line leaves out
\* although the package calls itself something else, and what it calls itself.
Guessed(i) ==
    UNION {{imp.alias, DeclaredName(keys, imp.path)} :
             imp \in {x \in Range(log[i].file.imports) : Binds(keys, x) # x.alias}}

DotImported(i) == \E imp \in Range(log[i].file.imports) : imp.alias = Dot

\* A reference a template writes reaches the package it asked for: bare
\* for the file's own package, and otherwise through the one import whose
\* line binds its qualifier, which pruning kept and which is not the file's
\* own package name.  Left out are the names a wrong guess is about, and a
\* path a plugin aliased blank or dot, which has no qualifier.
ReferencesReachTheirPackage ==
    \A i \in Files : \A w \in log[i].file.body :
        ~w.literal /\ w.as \notin Guessed(i) =>
            \/ w.as = "" /\ w.path = Resolve(keys[i].path)
            \/ w.as \in {Blank, Dot}
            \/ w.as # keys[i].pkg /\ Bindings(i, w.as) = {w.path}

\* Every qualifier in a file is bound by an import line, declared in a file of
\* the same package that was rendered, or warned about; and no warning is
\* about a name a file of the package declares or an import line binds (a
\* blank import binds none).  Names a wrong guess is about are left out again.
UnboundQualifiersAreReported ==
    \A i \in Files :
        LET pkgNames == UNION {keys[j].names : j \in
                {j \in DOMAIN keys : /\ ~Alone(keys)[j].skip
                                     /\ keys[j].outcome = "renders"
                                     /\ keys[j].dir = keys[i].dir /\ keys[j].pkg = keys[i].pkg}}
        IN  keys[i].outcome = "renders" =>
              /\ \A q \in log[i].file.quals \ (log[i].warned \cup Guessed(i)) :
                   q \in pkgNames \cup keys[i].locals \/ Bindings(i, q) # {} \/ DotImported(i)
              /\ log[i].warned \cap pkgNames = {}
              /\ \A q \in log[i].warned \ ({Blank} \cup Guessed(i)) : Bindings(i, q) = {}

\* Both together: in every file that is written a qualifier means the package
\* its template asked for, or the run says that it may not, unless an import
\* line left an alias out that is not what the package calls itself: "the
\* case where the overwhelming convention makes the guess right".
FilesNameTheirPackages == ReferencesReachTheirPackage /\ UnboundQualifiersAreReported

\* "so a cross-package reference into a `pkg=`-renamed output resolves": an
\* import of another output package of the run binds the name the file's
\* references to it are written with.  Refuted: an alias equal to the last
\* segment of the path is not written out.
RenamedOutputsResolve ==
    \A i \in Files : \A k \in DOMAIN log[i].file.imports : \A j \in DOMAIN keys :
        LET imp == log[i].file.imports[k] IN
        imp.path = keys[j].path /\ imp.alias \notin {Blank, Dot} => Binds(keys, imp) = imp.alias

\* No goroutine is left waiting for another: Render returns.
RenderReturns == <>(end # "running")
=============================================================================
