# A TLA+ model of eidos

eidos is a code-generation framework: frontends load sources into a node graph,
annotators enrich it, generators contribute to an emit graph, the framework routes
the contributions to files, a backend renders them, and a manifest records what was
written so that later commands can check and prune it. This directory holds TLA+
modules for the parts of it with state worth exploring, TLC configurations that
check them on small instances, and TLAPS proofs. `PROJECT.json` is the index: which
lines of the source each definition stands for, which run checks which property,
which hazards of the code the properties cover.

## Running it

    tlc -config MCPlanResolve.cfg MCPlanResolve      # likewise every other .cfg
    tlapm PlanResolveProofs.tla                      # likewise the other *Proofs.tla

A `.cfg` belongs to the module whose name it starts with. Definitions introduced by
"(Mutation: ...)" are deliberately wrong variants of the definition after them; no
specification uses them. They show that a property can fail: put in place of the
definition, each makes TLC report the property listed with it in `PROJECT.json`.
Properties whose comment ends in "Refuted:" are statements of the repository's own text
that the model does not satisfy; no run checks them, and they are listed below.

## Inventory of the system

| Part | State | Operations | What is hard about it |
|---|---|---|---|
| Plan resolution (`pipeline/resolve.go`) | in-degrees, sorted frontier, order | group, sort a bucket, place, fail | repeated and unresolved requirements, ties, cycles |
| Run (`pipeline/run.go`, `pipeline.go`) | phase, bucket, goroutines, diagnostics, layout errors | run a phase, dispatch a bucket, contain a panic, return | parallel buckets, failures anywhere, cancellation, re-use |
| Emit view (`store/emit_view.go`) | buckets, host packages, pending slots, two mutexes | AddPackage, FileFor, AppendOriginSlot, RebuildByTarget | check-then-create, unlocked appends, partial failure |
| Node view (`store/node_view.go`) | buckets, frozen flag | AddPackage, Freeze | references kept across phases |
| Layout (`pipeline/layout.go`) | targets of decls, resolved layouts | route, materialise slots, one file one package, rebuild | conflicts between plugins, panic half way |
| Builder (`pipeline/builder.go`) | registered plugins, policies | validate, merge policies, derive the pipeline id | precedence, identity across versions |
| Directives (`pipeline/validate.go`, `override.go`, `core/directive`) | arguments, schemas, position of the override pass | validate, fold defaults, override metadata | order relative to readers, a parser that panics |
| Metadata (`core/meta`, `node/base.go`) | entries per authority, tombstones, observers, index by key | EnsureMeta, set, tombstone, winner, history | prefix tombstones against authorities, bags made by concurrent annotators |
| Go backend (`lang/golang/backend`) | worker pool, state per worker, results | render, audit qualifiers, replay | state reused between targets, channel and WaitGroup, failing write |
| Import set (`writer/import_set.go`) | aliases, used names, suffix marks | Imp, Alias, SetSelf, Reset | collisions with derived names, names already written |
| Sinks, manifest (`sink`, `manifest`, `pipeline/manifest_sink.go`) | files, entries | write, record, merge, classify orphans | crash between file and manifest, narrow scopes, two pipelines |
| Commands (`cli`) | - | run, check, prune, dry run | sequences of commands with user edits between them |
| Frontend cache (`cache`, `plugin/frontend_cache.go`, `lang/*/frontend`) | keyed entries, temporary files | load, hash, get, convert, put | stale keys, crash, concurrent writers, edits between two reads |
| Method sets and promotion (`node/method_set.go`, `lang/golang/embed.go`) | what the run has loaded | MethodSet, Implementers, FieldSet, PromotedMethods, EmbedsType | cycles, ties, partial programs |
| Frontends, other languages, plugins, sdk, test kits | - | parsing, conversion, templates | text processing without protocol state |

The parts interact through the store (frontends, annotators and generators write it,
layout and backend read it), through the diagnostics of the pipeline, and, across
processes, through the tree and the manifest.

## Modules

### PlanResolve

`resolvePhase` on one goroutine. The inputs (priorities, Provides and Requires lists
of every plugin) are variables that never change, so Init ranges over all of them.
`StartBucket` indexes the providers of the next priority and draws the edges,
`PlaceReady` is one turn of Kahn's loop, `EndBucket` ends the bucket or reports the
cycle, `Finish` returns. Names are numbers; alphabetical is numeric order. An edge is
drawn per occurrence of a name in Requires, as the code does, and lowered as often.

`LeastOrder` compares the result with a reference: the set of all admissible
permutations, of which the code must return the alphabetically least; a cycle error
must mean that set is empty.

### EmitView

Any number of `AddPackage` and `FileFor` calls, one after the other or overlapping:
`overlap` is chosen from `Schedules` at the start. Locks, lookup, creation, each loop
iteration, and the read and the write of an unlocked append are separate steps. Entries
are the call that brings them and a name; nested members, imports and secondary indices
follow the same pattern and are left out.

### PipelineRun

The phase loop of `Run`. A phase has a boundary, where the context is looked at, and
an inside. A plugin phase runs its buckets: `NextBucket`, `Begin`, the plugin's own
steps (`AddNodes`, `AppendOriginSlot`), `Return` or `Fail`, and `EndPlugins` with the
trailing directive passes and the freeze. `Layout` and `BackendOrManifest` are single
steps with their possible outcomes, because they run alone (Layout and RenderPool open
them up). `parallel`, chosen from `Parallels`, says which phases dispatch a bucket at
once. Plans are constants here: PlanResolve says how they come about. `failedNow` and `misroutedNow` are history
variables: what this run recorded, against what the Pipeline remembers.
The Pipeline has a sink (without one `Run` returns before it changes anything).

### Layout

The layout phase on one goroutine. A world is all it reads: policies of four levels,
`-o` flags, directives above the declarations and their packages, the declarations and
slot contributions of the generators. `composeTarget` is the function of the source
layer by layer: the policy's mode (`Centralised`, `AlongsideSource`), the directive
(`Directed`), the flag (`Flagged`), the test shift (`TestShifted`), with the errors
that end it. `routeDecl` and `materialiseOriginSlot` route one entity each and record
it; `dispatchOutputPackages` tells the plugins, or panics and abandons the phase;
`visit` and `take` are the two walks of `enforceOneFileOnePackage`, a declaration at a
time: the first compares each with the first of its file and collects the files in
conflict (`firstPkg`, `conflicted`), the second clears by that set, and
`reportConflicts` ends it. `RebuildByTarget` builds the index the backend reads. A name counts its `_test` suffixes and a path is a sequence of names,
which is what joining, climbing and shifting tell apart. Suffix-lookup errors are one
error; a path value that ends in `..` without a slash, plugin-supplied `emit.Files` and
slots that reject an append are left out.

### ImportSet, ImportFile

`ImportSet` holds the methods of `writer.ImportSet` as operators on a record.
`Derive` is what a path's last segment turns into, `Spell(base, n)` the base with a
suffix; both are constants, so the proofs hold for any of them within the assumptions.
`ImportFile` uses one set file after file as `renderTarget` does. `LowestFreeName` compares
the remembered mark with a search from the start.

### GoRender, RenderPool, SequentialRender

`GoRender` renders one target: self aliases, the imports of the file, the references of
its templates, pruning, shadowing and the audit of qualifiers. Text is abstracted to
the names it writes and where they come from. What an import line binds is not always
the alias of the import set: an alias equal to the last segment of the path is left out,
and Go then binds the name the package declares (`Binds`, `DeclaredName`). `Guessed` are
the names of imports for which that is another one; `FilesNameTheirPackages` speaks of
the others. `RenderPool` is `Render`: the sender,
the workers with the import set each carries along, the WaitGroup and the ordered
replay that ends at a failing write. `SequentialRender` is what it promises: one target
after the other, each rendered by itself. `RendersAsIfSequential` is that
specification under the mapping `Skips <- AloneSkips, Seen <- AloneSeen`; log and end
are shared.

### Embedding

The method-set walk over interfaces and the promotion walks over structs, transcribed
as recursive operators, on programs of declarations that embed each other. An embed has
the type it names and the name the source writes, which differ for an alias. The steps
are those of an observer: ask, pass a resolver, load one package more. The reference
definitions enumerate paths of embeds and apply Go's rule for selectors to them: fields
and methods share one name space. The walks look at one kind of member each, so
`WalksAgreeWithGo` says that they return all that Go selects and, beyond that, at most
members with a name of the other kind (`Mixed`); it leaves out structs that embed an
alias and those the walk meets twice.

### FrontendCache

Processes that load one unit through the cache: load, hash, get, convert, open, write,
rename. An open file follows its inode, so `fd` says whether the file a process is
about to write is still the temporary one, has been renamed over the entry, or is gone.
The three frontends differ in when they read: Go converts what it loaded before it
hashed, TypeScript reads again after hashing, protobuf hashes what it converts; and only Go
reads packages other than its own (`Imported`). `steady`, `by` and `faithful` are
history: nothing was edited since the run began, who stored a value, and whether it was
stored by a run that saw one version of its sources. `RunsSeeTheirSources` is about runs
that nobody disturbs and that convert or find an entry of such a run; an entry stored by
a disturbed run holds the old graph under the new key, and later runs are served it.

### OutputLifecycle

Sequences of commands over one tree and one manifest, with user edits between them.
A file is its marker line, its body, the stamp in its trailer and whether the trailer
is at the end; a rendering is opaque and its hash is itself. A command loads a scope
(any subset of the existing packages), renders what the sources ask for or, if
plugins fail, part of it, writes file by file, writes the manifest, and, for prune,
deletes orphan by orphan. Any step may be the last (`Abandon`). check and
`prune --dry-run` go through the same phases with a sink in memory. `ImportPath` is
the package a file is generated from, or empty for centralised output; directories
stacked by a `+gen:out` directive are not distinguished. `Module` are the import paths
that go.mod lets `goneSources` judge, `Absolute` the paths with an absolute Dir, which
prune alone joins to the working directory and so does not find (`Found`). The manifest write that is
skipped when the content is equal would change nothing and is not a case of its own.
One command runs at a time and manifest reads succeed. A `Deployment`, chosen at the
start, is the pipelines that share the tree, what they may render, how outputs are
placed, and the bounds on edits, changes of the sources and commands.

### Metadata

The metadata of the source nodes from ingest to the generators. `AddPackage` is the
frontend's stamps and the seeding of the index; the annotators of one bucket, one after
the other or at once, each do `Choose`, `Check`, `Store`, `Load`, `Stamp`: the steps of
`Key.Set(n.EnsureMeta(), v)`, where EnsureMeta takes no lock and Set takes the bag's.
A bag has a name of its own, so that one an annotator still holds after another
replaced it keeps existing. `NextDirective`, `OverrideKey`, `OverrideArg` and `NextNode`
are the override pass: map entries in any order, bare names in theirs, warnings that
change nothing, and a parser that panics and ends the pass. `latest` is history: the
last operation asked for per node, name and authority, whichever bag it went to.
`Stands` is the reference for the winner rule, over what was asked and not over what
the bag holds; `Effect` and `Asked` say what the directives amount to without the pass.
Names are opaque and `Above` gives their dotted ancestors. `NodeOrder` are the nodes of
the store's buckets, which the pass visits; embeds, parameters and fields of interfaces
carry directives too and are in none. `Indexed` are the nodes the index observes. Annotators are those of one bucket (a
later one meets the bags as an earlier one leaves them); sets by generators, the
history of a slot, positions and the JSON form are left out.

## Runs

| Run | Instance | Shows |
|---|---|---|
| `plan` | 3 plugins, 2 capabilities, 2 priorities, up to 1 name provided and 2 required | order, completeness, cycles, termination |
| `view` | 3 AddPackage and 3 FileFor calls, serial or overlapping; 2 paths, a clashing name, a package that lists a name twice, a file both kinds of call bring | hosts and files agree, success is complete, serial merges lose nothing |
| `run` | 9 plugin invocations in 3 phases, all sequential or all parallel, 2 runs, 2 contributions per plugin | barriers, readers alone, failures, cancellation, re-use, order |
| `layout` | 4 generators (one with two outputs, one with two of one suffix, one with none), 4 origins, 5 sets of policies, 3 of flags, up to 2 of 8 directives on an origin, 4 sets of declarations, with and without slots | routing is scoped, unambiguous or reported, contained; every side of a conflict is cleared, whichever walk meets it when; output paths |
| `imports` | 5 paths, three of which derive one name, one the suffixed name, one none; 2 aliases | names are unique, kept and least |
| `render` | 7 runs of up to 3 targets out of 13, some in packages their path does not name, on 1, 2 or 4 processors | the pool implements the loop; references and qualifiers; termination |
| `embedding` | 405 struct programs of 7 and 640 interface programs of 6 declarations, with aliases, `error` and a name that is a field and a method, walked to depth 3 | answers agree with Go, and only improve in wider runs |
| `cache` | 2 processes, 2 plugin sets, 2 files and an imported one, 2 texts, 1 edit, 3 runs, each frontend | entries and runs agree with keys and sources |
| `metadata` | 3 names in a chain of prefixes, 2 nodes in buckets and an embed in none, 2 annotators with an operation each, sequential or parallel, index on or off, 3 sets of stamps at ingest, 6 lists of up to 3 directives | readers find what the source asks for; the index lists every holder |
| `output` | 1 pipeline with 2 renderings, 1 edit, 1 change, 2 commands; or 2 interchangeable pipelines with 2 changes, 3 commands and a centralised path; or 1 pipeline with a path below an absolute directory and one from outside the module | files and manifest stay together; what the verdicts of run, prune, check mean; pipelines do not lose each other's entries |

Three plugins are enough for a cycle with a plugin behind it, for a diamond's tie and
for two buckets. Two commands let the second meet what the first left, half done or
not; three let a second pipeline come in between. Two runs are what re-use needs.
Two processes and three runs let one process meet what a crashed and a concurrent one
left; one edit is enough for every order of the two reads and the write around it.
Three targets on two workers let a worker render after another target, whichever that
is. Two directives are what an ambiguity takes. Four structs have every shape a rule of
promotion speaks of: a tie, a shadow, a cycle through a pointer, and depth 3. A chain
of three names has a name with an ancestor and a descendant; two annotators with an
operation each are what a race for one bag takes.
The configurations set `CHECK_DEADLOCK FALSE` where the bounds on edits, commands or
runs, or the end of the phase, let the system stop; `plan`, `view` and `imports` check
for deadlock. Symmetry is used in `cache` only, which has no temporal property.

### Disagreements between code and text

Runs marked "violation" in `PROJECT.json` state what a comment or a document says, and
TLC shows a behaviour of the code against it. The findings quote the text.

* `view_merge_race`: concurrent merges into one host package can lose an entry of its list.
* `output_clause_doc`: prune deletes a file it has just written when its package clause changed.

Statements of the text that are refuted without a run of their own; adding the property
to the configuration named shows the behaviour:

| Property | Configuration | Text | What the code does |
|---|---|---|---|
| `FailureIsOfThisRun` | `MCPipelineRun` | `pipeline/pipeline.go:192-194` | `Run` decides by the diagnostics of the Pipeline, which no run clears: one that failed once fails forever |
| `ProvidersFirst` | `MCPipelineRun` | `plugin/capability_provider.go:55-56` | a parallel bucket dispatches all its plugins at once |
| `SlotsInPlanOrder` within parallel buckets | `MCPipelineRun`, without the guard | `store/emit_view.go:632-634` | contributions are kept in the order the goroutines call |
| `OneFileOnePackage` | `MCLayout` | `pipeline/layout.go:71-73` | the pass visits no methods, nothing in the root directory and no `emit.File` |
| `PackageFlagWins` | `MCLayout` | `pipeline/layout.go:446-447` | a directive with a directory or `pkg=` replaces the flag's name |
| `FlagRoutesAsDirective` | `MCLayout` | `pipeline/layout.go:640-644` | the flag moves the file and leaves package and import path behind |
| `CompanionsInherit` | `MCLayout` | `pipeline/core_directives.go:69-72`, `pipeline/layout.go:86-87`, `pipeline/layout_test.go:3591-3594`, `docs/reference/directives.md:146-147` | `out=` and `pkg=` on a plugin's directive are recorded with their owner (`layout.go:1422-1458`, and so `docs/plugin/routing.md:143-151`): no companion inherits them |
| `NoEntryLeavesItsFile` | `MCOutputLifecycle` | `pipeline/run.go:400-402` | prune joins an absolute Dir to the working directory (`cli/prune.go:193`), finds no file and drops the entry |
| `MergeNeverDrops` | `MCOutputLifecycle` | `pipeline/run.go:324-327` | an entry of a loaded package whose file is gone is dropped |
| `CheckWritesNothing` | `MCOutputLifecycle` | `docs/reference/cli.md:37-38` | check merges what it rendered into the manifest and writes it |
| `DriftIsNeverSilent` | `MCOutputLifecycle` | `docs/how-to/remove-stale-output.md:97-98`, `docs/reference/cli.md:132-134` | a removed package outside the module, or without a go.mod, is never seen as gone (`cli/prune.go:374-385`) |
| `AnyNodeIsOverridden` | `MCMetadata` | `pipeline/override.go:18` | `rangeNodeView` visits the buckets: `+gen:meta` on an embed, a parameter or a field of an interface validates and is dropped |
| `RenamedOutputsResolve` | `MCRenderPool` | `lang/golang/backend/backend.go:327-330` | an alias equal to the last path segment is not written out |
| `TiesCancel` | `MCEmbedding` | `lang/golang/embed.go:352-355` | a struct embedded along two paths is walked along the first only |
| `MembersShadow` | `MCEmbedding` | `lang/golang/embed.go:25-30` | `PromotedMethods` subtracts declared methods (`embed.go:479-484`): a field does not shadow a method of its name, nor a method a field |
| `EmbedsKeepTheirName` | `MCEmbedding` | `lang/golang/embed.go:134-135` | the frontend resolves aliases (`frontend/type_ref.go:65-66`): the field of an embedded alias gets the name of the type behind it |
| `UnloadedCanBeLoaded` | `MCEmbedding` | `lang/golang/methodset.go:78-80` | `error` is neither projected (`frontend/interface.go:263-266`) nor in any package: an interface that embeds it never has a complete method set of its own |
| `MutatedSourcesSkipTheCache` | `MCFrontendCache` | `lang/golang/frontend/loader.go:150-152` | the hash succeeds, on the new text, and the old graph is stored under it and served to later runs |
| `HitsAreFresh` | `MCFrontendCache` | `lang/golang/frontend/cache.go:17-18` | an imported interface is part of the graph and not of the key |
| `WarmRunsReportToo` | `MCFrontendCache` | `pipeline/validate.go:23-33` | a directive that does not parse is reported while its file is converted and by no run that finds the graph in the cache |
| `NoBagIsReplaced` | `MCMetadata` | `node/base.go:104-106` | annotators of one bucket may run concurrently (`pipeline/run.go:590-600`); two that find no bag each make one, and the stamps in the first are lost |

The models show further behaviour a reader may not expect:

* A cycle error also names plugins that only wait behind the cycle; `CycleIsReal` is
  what the names do mean.
* `FileFor` can return a file the view does not hold if an `AddPackage` overlaps it that
  brings a file of the same key, since `AddPackage` does not take `fileForMu`.
  `OneFilePerTarget` names this exception.
* An edited body above an intact trailer is drift to check and is never rewritten by
  run; `RunSettlesDisk` names this exception.
* check reports orphans of removed packages of the module only, as `CleanMeansUpToDate` says.
* prune deletes by path: a file that another pipeline claims too is deleted when the
  pruning pipeline stops claiming it, and so are the outputs of a plugin that failed
  in the pruning run.
* After a layout abandoned by a panic the backend still runs; `ReturnIsOfThisRun` says that
  such a run is never reported as a success.
* The recorder's divergence diagnostic, which its comment calls a framework bug, can be
  reached by a legal configuration: two outputs on one Target with different layers.
* `FileFor` keys by directory and name: a slot routed to a file of another package
  joins it. Targets that differ in import path alone are two groups for one file.
* `validateOutputs` (`pipeline/builder.go:855`) compares the tags of a plugin's outputs and
  not their suffixes: two outputs declared with one suffix share a file. `OutputsStayApart`
  names this exception.
* `SetOutputPackages` is told the last path of a tag; conflicting declarations are
  cleared only afterwards.
* Two processes that store one key may leave a torn entry behind, although each `Put`
  renames; it is read as a miss, so `RunsSeeTheirSources` holds.
* A method set may lose methods and become incomplete when a run loads a package whose
  interface was projected before: the projection was flat, the declaration embeds
  `error`, a generic interface, one without methods or an alias of another package's.
  `Plain` excludes these from `AnswersOnlyImprove`; `LoadingLosesNothing`, without it, is
  refuted.
* Files a stopped command left are untracked until a run completes; `Tracked` excludes
  them and `RunRecordsAll` says that such a run records them.
* `Implementers` counts declared methods only, promoted ones do not help.
* Stamps are safe from concurrent annotators on nodes that have a bag before the phase:
  all nodes when the index by key is on, else those a frontend stamped. `Guarded` names
  them, and `SourceDecides` speaks of no others.
* A parser that panics abandons the override pass for all nodes to come; generators run
  and read the metadata as it is. The run fails, since the panic is an Error.

## Fairness

`PlanResolve` (`MCSpec`) has weak fairness of the loop's step: one goroutine that never
blocks. `PipelineRun!Spec` has none: that a run ends rests on every plugin returning,
which the framework cannot force. `RenderPool!Spec` has weak fairness of the caller and of each
worker: the Go scheduler runs every goroutine that can run, templates and writes end.
The other specifications state safety only.

## Proofs

`PlanResolveProofs` proves, for every finite set of plugins, any capabilities and any
integer priorities, all safety properties of `plan`: that the order respects Requires and
priorities, has every plugin exactly once and is the least of all admissible ones, that a
cycle error is real, and type correctness. The
assumptions are that names are natural numbers (a total order) and that there are
finitely many plugins. `ExactlyOnce` and the others are not inductive: the proof
carries an invariant that ties the in-degree of every plugin of the bucket to the
number of its Requires occurrences whose provider is not placed yet, and says who is
ready, placed or waiting. The key lemma (`OpenAfterPlacing`) is that placing a
provider lowers that number by exactly the occurrences that name it, which needs the
absence of duplicate providers. `LeastOrder` compares the result with all admissible
permutations. The invariant (`LeastSoFar`) is that the order built so far, where it first
differs from an admissible one, has the smaller name; the step (`NextNameIsLeast`) is that
whatever an admissible order has in the place being filled is ready or begins a later
bucket. That a cycle leaves no admissible order (`CycleAdmitsNone`) looks at the plugin of the
cycle that such an order has first.

`EmitViewProofs` proves, for any number of calls, paths, kinds and names, all properties of
`view`, for serial and overlapping calls, and type correctness. The assumptions are that
the two kinds of call differ and that `None` is neither a call nor an entry. For
`OneHostPerPath` the invariant says that a call between lookup and creation holds
`addPkgMu` and has found no host, and that whoever is past creation has the recorded host
(`Serialised`, `OnHost`). `DoneIsRecorded` needs to know of every entry of a call under way
that it is in the bucket or ahead in the loop (`Passed`), and that no lost append ever drops
an entry from the list its own call ranges over (`OwnListed`): an append only ever loses
entries of other calls. `OneFilePerTarget` needs the critical section of `fileForMu`
(`FileInv`), where each entry comes from (`Provenance`), so that an `AddPackage` that does not
bring the file cannot record it, and that without overlap one call is inside at a time
(`Alone`). `SequentialMergeKeepsEveryEntry` counts: of each kind of its package a call has
merged a first part (`Merged`), the bucket has exactly that part, one more between the Add
and the append (`InBucket`), the host lists it (`InHost`), and what a host lists behind its
own entries are entries merged by others, each once (`Foreign`). That nothing is lost
rests on `InTurn`: the host has returned before anyone else merges into it, and the list an
append has read is still the host's list when it is written.

`RenderPoolProofs` has two parts. The first proves all properties of `imports` for any finite
set of paths, any derivation of names, any aliases, and any spelling in which different
suffixes of one base differ (`Suffixed`). `NoNameTwice` and `LowestFreeName` need the
invariant that names and paths point at each other (`Owned`: a name in use is the file's
own or the alias of the path it is recorded for) and that every suffix below the mark of a
base is in use (`Dense`). That the search ends is the pigeonhole fact that fewer imports
than candidates have been made. Together with the shape of the set this is `Good`, which
every method of the set preserves.

The second part is about the pool, for any targets and any number of workers: type
correctness, that it implements `SequentialRender`, and that every file names the packages it
means (`FilesMeanWhatTheySay`), where no import line guesses a name wrong. For the refinement, an entry of the results is
pending or what the target renders to by itself (`Filled`), a key handed out is filled or
in some worker's hands (`HandedOut`), and once the replay begins all are filled
(`Complete`). `StateIsForgotten` is the reason it holds: what a target renders to does
not depend on the import set a worker brings, because the first call resets it.
For `FilesNameTheirPackages` the set is `Good` after each import of a file and each
reference of its templates, and every reference written so far is the alias its path has in
the set (`BodyOK`); pruning drops none of those. `LogInv`
carries that to what is replayed, and `LinesBind` from the set to the lines. It is assumed that targets, imports and bridges speak of
`Paths` (`TargetsAssumption`, `BridgeAssumption`), which is any finite set, so the only limit
is that a run mentions finitely many paths.

`LayoutProofs` proves all properties of `layout`, and type correctness, for any plugins and
outputs, origins, policies, flags, lists of directives, declarations and slots. It assumes
of the outputs what `Build` checks (`OutputsAssumption`: a suffix each, tags that differ, the
empty one first), and of origins and worlds their types and that slots have an origin.
Most of the work is about one Target, since the phase is a loop over a function. That function
depends on the world through a policy, a selected directive and a flag (`SameInputs`).
Selection does not depend on the order of the directives unless it reports an ambiguity
(`OrderIsNothing`), nor on directives that do not apply (`OthersAreNothing`): these give
`OrderDecidesNothingSilently` and `OtherPluginsAreUnaffected`. A value cleaned by
`splitOutDirectivePath` has no ".." (`SplitClean`), so joining it only goes down
(`JoinCleanAppends`), which gives `OutputsStayInTheirTree`. An output nobody names keeps the
basename of its source and its own suffix (`UnnamedFile`), since an unscoped directive with a
file name is refused; this gives `OutputsStayApart`. The invariant of the phase, `PhaseInv`,
ties the loop to the function: every entity routed so far has the Target composed for it and
its ambiguity was reported (`Honest`), and `loc` is about the routes so far, from both sides
(`Paths`), until the conflict pass clears declarations (`Composing`). `OutputPathsAreTrue`
follows from it. `ConflictsLoseEverySide` needs to know how far each walk has come
(`Passes`): the files collected are those with a declaration behind the first walk that
disagrees with the first one of its file (`Collected`), which at its end are those with
any two that disagree, and behind the second walk exactly these have lost their Target.

`PipelineRunProofs` proves all safety properties of `run`, and that nodes stay fixed
after the frontends, for any plan, any set of phases run in parallel and any number of
runs. It assumes that an invocation has one place in the plan, which Build checks. The
invariant locates the run in the plan (`InPlan`): what is before the current bucket has
returned (`Behind`), what is after it has not begun (`Ahead`), and whoever runs is of
the bucket (`Current`). `SlotsInPlanOrder` needs in addition that contributions are of
plugins that have begun.

`OutputLifecycleProofs` proves all properties of `output` for any paths, packages,
renderings and pipelines and any sequence of commands, edits, failures and crashes. It
assumes that an output's import path is that of its origin or empty. Paths below an
absolute directory and packages outside the module are exceptions of the properties, as
in the run. `Tracked` is about
moments between commands; the invariant says what holds within one: a generated file is
claimed, unrecorded or just written (`Covered`), what the backend has written is settled
(`Delivered`), and while prune deletes, the manifest it is going to write still claims
whatever is on disk (`Deleting`). `CleanMeansUpToDate` rests on `Stamped`: under a stamp
is its body or an edit of it.

`FrontendCacheProofs` proves both properties of `cache` for any number of processes,
files, plugin sets, edits and runs. Nothing is assumed. An entry is sound because every temporary file
is (`Sound`, for `disk` and `tmp` alike), whoever wrote it and whoever renames it: the
name of the temporary file is the key, so all its writers have the same key.
`Facts` is what a process knows between two steps, in particular that an undisturbed run
has hashed the text it loaded.

`MetadataProofs` proves `IndexFindsHolders`, `SourceDecides` and `StampsSurvive` (no run of
its own) for any nodes, names and relation of ancestors, any parsers, annotators and
lists of directives. It assumes that the annotators of a bucket are ordered and that no
node is twice in the buckets; nodes in no bucket are not visited, and `SourceDecides`
does not speak of them. `StampsSurvive` holds since an annotator about to
store a new bag on a guarded node knows there is none (`Holding`), which is where a
sequential bucket, or a bag made at ingest, is needed. `SourceDecides` needs to know how
far the pass has come: for nodes behind it the directive slot is what all directives
leave, for the current node what the directives so far leave, except for names the
current directive has still to change (`Progress`, `Settled`, `Open`). `ReaderSeesRules`
is the lemma that the winner the bag computes is the value that stands.

Not proved, model-checked only: liveness (`Resolves`, `RenderReturns`; out of the
prover's reach, as is `ENABLED`), and Embedding, whose walks are RECURSIVE operators and
whose properties are inductions over a program.

## Plan

1. OutputLifecycle with two processes at once and a manifest that cannot be read; an
   abstract specification of file ownership that it implements where it does.
2. Several buckets of annotators and the generators' stamps in Metadata.

## Not modelled

The modules cover the packages with protocol state, which are a small part of the
repository's lines. The rest is, by size: parsing and conversion in the three
frontends, templates and formatting in the backends, the TypeScript and protobuf
packages, the shipped and reference plugins, the node and emit data types with their
accessors and visitors, the sdk, bridges, test kits and read-only commands. These are
text processing, data types or facades: a module for them would transcribe functions
whose result is their text, and no interleaving, failure or order could break what it
says. Left out of parts that are modelled: the header of generated files, attributions
in the manifest, verbose logging and cache markers (nothing the properties speak of
reads them), build-time validation of the builder, the JSON form and the history of
metadata bags, and the check of a directive against its schema
(`core/directive/validator.go`): a pure function of one node's directives, run once on one goroutine,
whose rules a reference definition could only repeat.
