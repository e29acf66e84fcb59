------------------------------- MODULE Layout -------------------------------
(***************************************************************************)
(* The layout phase: where every generated declaration is routed.          *)
(*                                                                         *)
(* A world is everything the phase reads and never changes: the project,   *)
(* per-plugin, per-tag and command-line policies, the -o flags, the        *)
(* routing directives above the sources, the declarations the generators   *)
(* left in the emit view (in the order the phase visits its buckets) and   *)
(* the slot contributions that wait for a file.  A directory or an import  *)
(* path is a sequence of names, a name counts the _test suffixes it ends   *)
(* in, and a file name is a basename with a suffix.                        *)
(***************************************************************************)
EXTENDS Naturals, Sequences, FiniteSets, FiniteSetsExt

CONSTANTS
    Plugins,        \* the generators
    Outputs,        \* plugin |-> the outputs it declares, a sequence
    Origins,        \* origin |-> its source package, directory and basename
    TestSuffixes,   \* the suffixes that end in _test.go
    Worlds

NoName == [n |-> "", tests |-> 0]
Up == [n |-> "..", tests |-> 0]
NoFile == <<"", "">>
NoValue == [dirs |-> <<>>, file |-> NoFile]
NoPkg == [name |-> NoName, path |-> <<>>]
NoOrigin == "synthetic"
NoSpec == [path |-> NoValue, plugin |-> "", tag |-> "", pkg |-> NoName, scope |-> "none"]
Zero == [dir |-> <<>>, file |-> NoFile, pkg |-> NoName, path |-> <<>>]
RoutedKinds == <<"struct", "interface", "function", "variable", "constant",
                 "enum", "method", "alias">>

\* SequencesExt has these four, but also extends Bags, which makes every leaf of
\* the proofs about this module several times slower.
Front(s) == SubSeq(s, 1, Len(s) - 1)
Last(s) == s[Len(s)]
Reverse(s) == [i \in 1 .. Len(s) |-> s[(Len(s) - i) + 1]]
IsPrefix(s, t) == Len(s) <= Len(t) /\ SubSeq(s, 1, Len(s)) = SubSeq(t, 1, Len(s))

Rank(kind) == CHOOSE i \in DOMAIN RoutedKinds : RoutedKinds[i] = kind

Names == [n : STRING, tests : Nat]
Packages == [name : Names, path : Seq(Names)]
Overrides == [layout : STRING, pkg : Names, dir : Seq(Names)]
Values == [dirs : Seq(Names), file : STRING \X STRING]
Directive == [name : {"out", "owned", "other"}, plugin : STRING, tag : STRING,
              pkg : Names, path : Values]
Entities == [kind : STRING, plugin : Plugins, tag : STRING,
             origin : DOMAIN Origins \cup {NoOrigin}, emit : Packages]

\* What the configuration and the sources hand the phase.
IsWorld(w) ==
    /\ DOMAIN w = {"project", "plugin", "tagged", "cli", "out", "outAll", "decls", "slots",
                   "on", "above"}
    /\ w.project \in Overrides /\ w.cli \in Overrides /\ w.outAll \in Values
    /\ \A p \in DOMAIN w.plugin : w.plugin[p] \in Overrides
    /\ \A k \in DOMAIN w.tagged : w.tagged[k] \in Overrides
    /\ \A k \in DOMAIN w.out : w.out[k] \in Values
    /\ w.decls \in Seq(Entities) /\ w.slots \in Seq(Entities)
    /\ w.on \in [DOMAIN Origins -> Seq(Directive)]
    /\ w.above \in [{Origins[o].pkg : o \in DOMAIN Origins} -> Seq(Directive)]

\* The outputs are the ones Build accepts: a suffix each, tags that differ, the
\* empty one first.  Nothing makes the suffixes differ.
ASSUME OutputsAssumption ==
    \A p \in Plugins :
      /\ Outputs[p] \in Seq([tag : STRING, suffix : STRING])
      /\ \A i, j \in DOMAIN Outputs[p] :
        /\ Outputs[p][i].suffix # ""
        /\ i # j => Outputs[p][i].tag # Outputs[p][j].tag
        /\ Outputs[p][i].tag = "" => i = 1
ASSUME OriginsAssumption ==
    \A o \in DOMAIN Origins : /\ Origins[o].pkg \in Packages /\ Origins[o].dir \in Seq(Names)
                              /\ Origins[o].base \in STRING
ASSUME WorldsAssumption ==
    /\ NoOrigin \notin DOMAIN Origins
    /\ \A w \in Worlds :
        /\ IsWorld(w)
        /\ \A i, j \in DOMAIN w.decls : i < j => Rank(w.decls[i].kind) <= Rank(w.decls[j].kind)
        /\ \A i \in DOMAIN w.slots : w.slots[i].origin # NoOrigin /\ w.slots[i].emit = NoPkg
        /\ \A o \in DOMAIN Origins : Origins[o].pkg = NoPkg => w.above[NoPkg] = <<>>

VARIABLES
    world,    \* the configuration, chosen once
    pc,       \* "route", "dispatched", "clearing", "enforced", "done" or "abandoned"
    target,   \* the Targets of the declarations routed so far
    slotted,  \* the Targets of the slot contributions materialised so far
    files,    \* <<Dir, Filename>> |-> the Target of the emit.File there
    rec,      \* Target |-> the layers and the layout it was composed from
    last,     \* the Target and the layers of the previous record call
    loc,      \* <<origin, plugin>> |-> (tag |-> import path)
    diags,    \* the diagnostics
    index,    \* byTarget: the pairs of a Target and a declaration, 0 for a file
    seen,     \* how many declarations the current pass over conflicts has met
    firstPkg, \* file |-> the package the first declaration in it has
    conflicted \* the files where a later one disagreed

claims == <<seen, firstPkg, conflicted>>
vars == <<world, pc, target, slotted, files, rec, last, loc, diags, index, claims>>

-----------------------------------------------------------------------------
(* The policy a plugin's output is routed by. *)

NewLayoutPolicy ==
    [layout |-> "alongside", pkg |-> NoName, dir |-> <<>>,
     layoutFrom |-> "framework", pkgFrom |-> "framework", dirFrom |-> "framework"]

Overlay(policy, over, from) ==
    [layout |-> IF over.layout # "" THEN over.layout ELSE policy.layout,
     pkg |-> IF over.pkg # NoName THEN over.pkg ELSE policy.pkg,
     dir |-> IF over.dir # <<>> THEN over.dir ELSE policy.dir,
     layoutFrom |-> IF over.layout # "" THEN from ELSE policy.layoutFrom,
     pkgFrom |-> IF over.pkg # NoName THEN from ELSE policy.pkgFrom,
     dirFrom |-> IF over.dir # <<>> THEN from ELSE policy.dirFrom]

mergedBasePolicy(w) == Overlay(NewLayoutPolicy, w.project, "project")

applyPerPluginAndCLI(w, plugin) ==
    LET base == mergedBasePolicy(w) IN
    Overlay(IF plugin \in DOMAIN w.plugin THEN Overlay(base, w.plugin[plugin], "plugin") ELSE base,
            w.cli, "cli")

applyPerTagOverride(w, plugin, tag) ==
    Overlay(Overlay(applyPerPluginAndCLI(w, plugin), w.tagged[<<plugin, tag>>], "plugin"),
            w.cli, "cli")

LayoutPolicyForTag(w, plugin, tag) ==
    IF tag # "" /\ <<plugin, tag>> \in DOMAIN w.tagged
    THEN applyPerTagOverride(w, plugin, tag)
    ELSE applyPerPluginAndCLI(w, plugin)

-----------------------------------------------------------------------------
(* The routing directives above an origin and above its package clause. *)

\* Both flavours carry a plugin: the plugin= of +gen:out, the owner of a
\* plugin's own directive.  A directive that bears no routing is skipped; here
\* it keeps its place as a spec that applies to nothing.
Bears(d) ==
    \/ d.name = "out" /\ d.path # NoValue
    \/ d.name = "owned" /\ (d.path # NoValue \/ d.pkg # NoName \/ d.tag # "")

\* (Mutation: a plugin's own directive is not tied to its owner.)
SpecUnscoped(d, scope) ==
    [path |-> d.path, plugin |-> IF d.name = "owned" THEN "" ELSE d.plugin,
     tag |-> d.tag, pkg |-> d.pkg, scope |-> scope]

SpecOf(d, scope) ==
    [path |-> d.path, plugin |-> d.plugin, tag |-> d.tag, pkg |-> d.pkg, scope |-> scope]

appendOutSpecs(directives, scope) ==
    [i \in DOMAIN directives |->
        IF Bears(directives[i]) THEN SpecOf(directives[i], scope) ELSE NoSpec]

outDirectivesFor(w, origin) ==
    appendOutSpecs(w.on[origin], "entity")
        \o appendOutSpecs(w.above[Origins[origin].pkg], "package")

score(s) ==
    (IF s.plugin # "" THEN 1 ELSE 0) + (IF s.tag # "" THEN 1 ELSE 0)
        + (IF s.scope = "entity" THEN 4 ELSE 0)

\* (Mutation: only the paths are compared.)
TiedOnPath(s, best) == s.path # best.path

\* Two specs of one score that say different things.
Tied(s, best) == s # best

Applies(s, plugin, tag) ==
    s # NoSpec /\ s.plugin \in {"", plugin} /\ s.tag \in {"", tag}

\* The first spec of the highest score; a different one of that score is an
\* ambiguity.
selectOutDirective(specs, plugin, tag) ==
    LET at == {i \in DOMAIN specs : Applies(specs[i], plugin, tag)}
        top == {i \in at : \A j \in at : score(specs[j]) <= score(specs[i])}
    IN [found |-> top # {},
        spec |-> IF top = {} THEN NoSpec ELSE specs[Min(top)],
        ambiguous |-> \E i \in top : Tied(specs[i], specs[Min(top)])]

Selected(w, plugin, tag, origin) == selectOutDirective(outDirectivesFor(w, origin), plugin, tag)

\* The path a -o flag gives an output: the flag for the plugin and the tag,
\* then the one for the plugin, then the unscoped one.
PluginOutputFilename(w, plugin, tag) ==
    CASE <<plugin, tag>> \in DOMAIN w.out -> w.out[<<plugin, tag>>]
      [] <<plugin, tag>> \notin DOMAIN w.out /\ <<plugin, "">> \in DOMAIN w.out ->
            w.out[<<plugin, "">>]
      [] OTHER -> w.outAll

-----------------------------------------------------------------------------
(* Composing a Target, layer over layer. *)

Enter(dir, name) ==
    IF name # Up THEN Append(dir, name) ELSE IF dir = <<>> THEN dir ELSE Front(dir)

Join(at, names) ==
    LET joined[k \in 0 .. Len(names)] == IF k = 0 THEN at ELSE Enter(joined[k - 1], names[k])
    IN joined[Len(names)]

\* (Mutation: the value is not cleaned.)
SplitInPlace(value) == [dir |-> value.dirs, file |-> value.file]

\* Cleaned against a root of its own, so that ".." cancels nothing above it.
splitOutDirectivePath(value) == [dir |-> Join(<<>>, value.dirs), file |-> value.file]

Centralised(policy) ==
    [dir |-> IF policy.dir # <<>> THEN policy.dir
             ELSE IF policy.pkg # NoName THEN <<policy.pkg>> ELSE <<>>,
     pkg |-> policy.pkg, path |-> <<>>,
     dirFrom |-> IF policy.dir # <<>> THEN policy.dirFrom ELSE policy.pkgFrom,
     pkgFrom |-> policy.pkgFrom]

\* An emit package with a name has an opinion; a policy's package overrides it.
AlongsideSource(policy, origin, emit) ==
    LET src == Origins[origin].pkg
        pkg == IF emit.name # NoName /\ emit.path # <<>> THEN emit ELSE src
        pinned == policy.pkg # NoName
    IN [dir |-> Origins[origin].dir,
        pkg |-> IF pinned THEN policy.pkg ELSE pkg.name,
        path |-> IF pinned THEN src.path ELSE pkg.path,
        dirFrom |-> "framework",
        pkgFrom |-> IF pinned THEN policy.pkgFrom ELSE "framework"]

\* Where the policy alone puts a file: the source's basename, the output's suffix.
Placement(policy, suffix, origin, emit) ==
    LET placed == IF policy.layout = "centralised" THEN Centralised(policy)
                  ELSE AlongsideSource(policy, origin, emit)
    IN [dir |-> placed.dir, file |-> <<Origins[origin].base, suffix>>, pkg |-> placed.pkg,
        path |-> placed.path, dirFrom |-> placed.dirFrom, fileFrom |-> "suffix",
        pkgFrom |-> placed.pkgFrom]

\* What a routing directive changes.  A directory names the package, and the
\* import path follows it, unless pkg= says otherwise.
Directed(r, spec, origin) ==
    LET v == splitOutDirectivePath(spec.path)
        src == Origins[origin].pkg
        moved == v.dir # <<>>
        named == spec.pkg # NoName
        dir == IF moved THEN Join(r.dir, v.dir) ELSE r.dir
    IN [dir |-> dir,
        dirFrom |-> IF moved THEN "directive" ELSE r.dirFrom,
        file |-> IF v.file # NoFile THEN v.file ELSE r.file,
        fileFrom |-> IF v.file # NoFile THEN "directive" ELSE r.fileFrom,
        pkg |-> CASE named -> spec.pkg [] ~named /\ moved -> Last(dir) [] OTHER -> r.pkg,
        pkgFrom |-> IF named THEN "directive" ELSE r.pkgFrom,
        path |-> CASE ~named /\ ~moved -> r.path
                   [] (named \/ moved) /\ src # NoPkg -> src.path \o v.dir
                   [] OTHER -> IF named THEN <<>> ELSE r.path]

\* What a -o flag changes.
Flagged(r, value) ==
    LET v == splitOutDirectivePath(value)
        moved == v.dir # <<>>
    IN [r EXCEPT
        !.dir = IF moved THEN Join(@, v.dir) ELSE @,
        !.dirFrom = IF moved THEN "cli" ELSE @,
        !.file = IF v.file # NoFile THEN v.file ELSE @,
        !.fileFrom = IF v.file # NoFile THEN "cli" ELSE @]

AddTest(name) == [name EXCEPT !.tests = @ + 1]

\* The external test package of a _test.go file.
TestShifted(r) ==
    IF r.file[2] \in TestSuffixes /\ r.pkg # NoName /\ r.pkg.tests = 0
    THEN [r EXCEPT !.pkg = AddTest(@),
                   !.path = IF @ = <<>> THEN @ ELSE Append(Front(@), AddTest(Last(@)))]
    ELSE r

Failed(err, ambiguous) ==
    [err |-> err, ambiguous |-> ambiguous, target |-> Zero, layers |-> <<>>, layout |-> ""]

\* An unscoped directive may not give the outputs of a plugin one file name.
\* (Mutation: it may.)
CollapseAllowed(plugin, sel) == FALSE

Collapses(plugin, sel) ==
    /\ Len(Outputs[plugin]) > 1 /\ sel.spec.tag = ""
    /\ splitOutDirectivePath(sel.spec.path).file # NoFile

composeTarget(w, plugin, tag, suffix, origin, emit) ==
    LET policy == LayoutPolicyForTag(w, plugin, tag)
        sel == Selected(w, plugin, tag, origin)
        r0 == Placement(policy, suffix, origin, emit)
        r1 == IF sel.found THEN Directed(r0, sel.spec, origin) ELSE r0
        r2 == Flagged(r1, PluginOutputFilename(w, plugin, tag))
        r3 == TestShifted(r2)
    IN CASE policy.layout \notin {"alongside", "centralised"} -> Failed("layout", FALSE)
         [] policy.layout \in {"alongside", "centralised"} /\ sel.found /\ Collapses(plugin, sel) ->
                Failed("collapses", sel.ambiguous)
         [] OTHER ->
            IF Origins[origin].base = "" /\ r2.fileFrom = "suffix"
            THEN Failed("positionless", sel.ambiguous)
            ELSE [err |-> "", ambiguous |-> sel.ambiguous,
                  target |-> [dir |-> r3.dir, file |-> r3.file, pkg |-> r3.pkg, path |-> r3.path],
                  layers |-> <<r3.fileFrom, policy.layoutFrom, r3.dirFrom, r3.pkgFrom>>,
                  layout |-> policy.layout]

\* The suffix declared for the tag; none is empty, and "" stands for no output.
resolveSuffix(plugin, tag) ==
    LET outs == {i \in DOMAIN Outputs[plugin] : Outputs[plugin][i].tag = tag}
    IN IF outs = {} THEN "" ELSE Outputs[plugin][Min(outs)].suffix

\* Where a declaration or a slot contribution is routed.
composeOrZero(w, e) ==
    LET suffix == resolveSuffix(e.plugin, e.tag) IN
    CASE e.origin = NoOrigin -> Failed("synthetic", FALSE)
      [] e.origin # NoOrigin /\ suffix = "" -> Failed("suffix", FALSE)
      [] OTHER -> composeTarget(w, e.plugin, e.tag, suffix, e.origin, e.emit)

-----------------------------------------------------------------------------
(* The phase. *)

Set(f, k, v) == [x \in DOMAIN f \cup {k} |-> IF x = k THEN v ELSE f[x]]

Init ==
    /\ world \in Worlds
    /\ pc = "route" /\ target = <<>> /\ slotted = <<>>
    /\ files = <<>> /\ rec = <<>> /\ last = <<>> /\ loc = <<>>
    /\ diags = {} /\ index = {} /\ seen = 0 /\ firstPkg = <<>> /\ conflicted = {}

Diverges(r) ==
    /\ last # <<r.target, r.layers>>
    /\ r.target \in DOMAIN rec
    /\ rec[r.target] # [layers |-> r.layers, layout |-> r.layout]

Reported(e, r) ==
    diags' = diags
        \cup (IF r.err = "" THEN {} ELSE {<<"unrouted", e>>})
        \cup (IF r.ambiguous THEN {<<"ambiguous", e.origin, e.plugin>>} ELSE {})
        \cup (IF r.err = "" /\ Diverges(r) THEN {<<"divergent", r.target>>} ELSE {})

record(r) ==
    /\ rec' = IF r.target \in DOMAIN rec THEN rec
              ELSE Set(rec, r.target, [layers |-> r.layers, layout |-> r.layout])
    /\ last' = <<r.target, r.layers>>

\* (Mutation: the paths of the other tags are forgotten.)
RecordLastTag(e, path) ==
    loc' = Set(loc, <<e.origin, e.plugin>>, Set(<<>>, e.tag, path))

recordOutputPath(e, path) ==
    LET key == <<e.origin, e.plugin>> IN
    loc' = Set(loc, key, Set(IF key \in DOMAIN loc THEN loc[key] ELSE <<>>, e.tag, path))

\* The bookkeeping of a routed entity.
Keep(e, r) ==
    /\ Reported(e, r)
    /\ IF r.err = "" THEN record(r) /\ recordOutputPath(e, r.target.path)
       ELSE UNCHANGED <<rec, last, loc>>

\* One declaration, in bucket order.
routeDecl ==
    /\ pc = "route" /\ Len(target) < Len(world.decls)
    /\ LET e == world.decls[Len(target) + 1] IN
       \E r \in {composeOrZero(world, e)} :
        /\ target' = Append(target, r.target)
        /\ Keep(e, r)
    /\ UNCHANGED <<world, pc, slotted, files, index, claims>>

\* One pending slot contribution, once every declaration is routed.  FileFor
\* finds a file by directory and name alone, and indexes the one it creates.
materialiseOriginSlot ==
    /\ pc = "route" /\ Len(target) = Len(world.decls) /\ Len(slotted) < Len(world.slots)
    /\ LET e == world.slots[Len(slotted) + 1] IN
       \E r \in {composeOrZero(world, e)} :
        /\ slotted' = Append(slotted, r.target)
        /\ Keep(e, r)
        /\ LET key == <<r.target.dir, r.target.file>> IN
           IF r.err = "" /\ key \notin DOMAIN files
           THEN /\ files' = Set(files, key, r.target)
                /\ index' = index \cup {<<r.target, 0>>}
           ELSE UNCHANGED <<files, index>>
    /\ UNCHANGED <<world, pc, target, claims>>

Routed == pc = "route" /\ Len(target) = Len(world.decls) /\ Len(slotted) = Len(world.slots)

\* Every OutputPackageSetter learns loc, or one of them panics and the rest
\* of the phase is abandoned.
dispatchOutputPackages ==
    /\ Routed
    /\ \/ pc' = "dispatched" /\ UNCHANGED diags
       \/ pc' = "abandoned" /\ diags' = diags \cup {<<"panic">>}
    /\ UNCHANGED <<world, target, slotted, files, rec, last, loc, index, claims>>

FileKey(t) == <<t.dir, t.file>>

\* The conflict passes walk every bucket but the methods', in bucket order.
Meets(i) == world.decls[i].kind # "method"

\* enforceOneFileOnePackage, pass one: the first package seen per file, and
\* the files where a later declaration has another.  Nothing is a file in the
\* root directory.
visit ==
    /\ pc = "dispatched" /\ seen < Len(target)
    /\ LET t == target[seen + 1]
           key == FileKey(t)
           met == Meets(seen + 1) /\ t.dir # <<>> /\ t.file # NoFile
       IN /\ firstPkg' = IF met /\ key \notin DOMAIN firstPkg THEN Set(firstPkg, key, t.pkg)
                         ELSE firstPkg
          /\ conflicted' = IF met /\ key \in DOMAIN firstPkg /\ firstPkg[key] # t.pkg
                           THEN conflicted \cup {key} ELSE conflicted
    /\ seen' = seen + 1
    /\ UNCHANGED <<world, pc, target, slotted, files, rec, last, loc, diags, index>>

EndVisits ==
    /\ pc = "dispatched" /\ seen = Len(target)
    /\ pc' = IF conflicted = {} THEN "enforced" ELSE "clearing"
    /\ seen' = 0
    /\ UNCHANGED <<world, target, slotted, files, rec, last, loc, diags, index, firstPkg,
                   conflicted>>

\* (Mutation: the side that came first keeps the file.)
TakesOthers(i) ==
    /\ Meets(i) /\ FileKey(target[i]) \in conflicted
    /\ target[i].pkg # firstPkg[FileKey(target[i])]

Takes(i) == Meets(i) /\ FileKey(target[i]) \in conflicted

\* collectAndClearConflicts, pass two: every side of a conflict loses its Target.
take ==
    /\ pc = "clearing" /\ seen < Len(target)
    /\ target' = IF Takes(seen + 1) THEN [target EXCEPT ![seen + 1] = Zero] ELSE target
    /\ seen' = seen + 1
    /\ UNCHANGED <<world, pc, slotted, files, rec, last, loc, diags, index, firstPkg, conflicted>>

reportConflicts ==
    /\ pc = "clearing" /\ seen = Len(target)
    /\ pc' = "enforced"
    /\ diags' = diags \cup {<<"conflict", key>> : key \in conflicted}
    /\ UNCHANGED <<world, target, slotted, files, rec, last, loc, index, claims>>

RebuildIndex ==
    index' = {<<files[k], 0>> : k \in DOMAIN files}
        \cup {<<target[i], i>> : i \in {j \in DOMAIN target : target[j] # Zero}}

RebuildByTarget ==
    /\ pc = "enforced" /\ pc' = "done"
    /\ RebuildIndex
    /\ UNCHANGED <<world, target, slotted, files, rec, last, loc, diags, claims>>

Next ==
    \/ routeDecl \/ materialiseOriginSlot \/ dispatchOutputPackages
    \/ visit \/ EndVisits \/ take \/ reportConflicts \/ RebuildByTarget

Spec == Init /\ [][Next]_vars

-----------------------------------------------------------------------------
(* What the phase promises. *)

\* Every Target is composed and no conflict is looked for yet: the entities and
\* where each of them goes.
Settled == pc = "dispatched" /\ seen = 0
Routes(seq, to) == {[e |-> seq[i], to |-> to[i]] : i \in DOMAIN to}
Placed == {x \in Routes(world.decls, target) \cup Routes(world.slots, slotted) : x.to # Zero}

\* The shape of the phase's state; the zero Target is never indexed, so the
\* backend renders no group of declarations that could not be routed.
TypeOK ==
    /\ pc \in {"route", "dispatched", "clearing", "enforced", "done", "abandoned"}
    /\ Len(target) <= Len(world.decls) /\ Len(slotted) <= Len(world.slots)
    /\ pc # "route" => Len(target) = Len(world.decls) /\ Len(slotted) = Len(world.slots)
    /\ \A k \in DOMAIN files : FileKey(files[k]) = k
    /\ \A x \in index : x[1] # Zero /\ x[2] \in 0 .. Len(world.decls)

\* The declarations i and j were routed to one file and to different packages.
RoutedTo(i) == composeOrZero(world, world.decls[i]).target
Claims(i) == Meets(i) /\ RoutedTo(i).dir # <<>> /\ RoutedTo(i).file # NoFile
Disagree(i, j) ==
    /\ Claims(i) /\ Claims(j)
    /\ FileKey(RoutedTo(i)) = FileKey(RoutedTo(j)) /\ RoutedTo(i).pkg # RoutedTo(j).pkg

\* Pass one of enforceOneFileOnePackage compares a declaration with the first
\* of its file only, and pass two goes by what pass one collected.  Between
\* them every declaration that disagrees with any other, before it or after,
\* loses its Target and has its file reported, and no other declaration does.
ConflictsLoseEverySide ==
    pc \in {"enforced", "done"} => \A i \in DOMAIN target :
        IF \E j \in DOMAIN target : Disagree(i, j)
        THEN target[i] = Zero /\ <<"conflict", FileKey(RoutedTo(i))>> \in diags
        ELSE target[i] = RoutedTo(i)

\* The world with every list of directives written in the other order.
Backwards(w) == [w EXCEPT !.on = [o \in DOMAIN @ |-> Reverse(@[o])],
                          !.above = [q \in DOMAIN @ |-> Reverse(@[q])]]

\* selectOutDirective lets the order in which directives are written decide
\* nothing in silence: where reading them backwards routes an entity
\* elsewhere, the ambiguity was reported for its plugin and origin.
OrderDecidesNothingSilently ==
    Settled => \A x \in Placed :
        x.to # composeOrZero(Backwards(world), x.e).target
            => <<"ambiguous", x.e.origin, x.e.plugin>> \in diags

\* The world without what is said of the plugins other than p: their policies,
\* their tags, their -o flags and the directives that name or belong to them.
Mine(p, ds) == [i \in DOMAIN ds |-> IF ds[i].plugin \in {"", p} THEN ds[i]
                                    ELSE [ds[i] EXCEPT !.name = "other"]]
Only(p, f) == [k \in {y \in DOMAIN f : y[1] = p} |-> f[k]]
Alone(w, p) == [w EXCEPT !.plugin = [q \in DOMAIN @ \cap {p} |-> @[q]],
                         !.tagged = Only(p, @), !.out = Only(p, @),
                         !.on = [o \in DOMAIN @ |-> Mine(p, @[o])],
                         !.above = [q \in DOMAIN @ |-> Mine(p, @[q])]]

\* What is said of one plugin - its policy, its tags, its -o flags, the
\* directives that name or belong to it - routes no other plugin's output:
\* what appendOutSpecs says of the keys of a plugin's own directive ("routes
\* stubgen's output and nothing else"), and not what coreDirectives does.
OtherPluginsAreUnaffected ==
    Settled => \A x \in Placed : x.to = composeOrZero(Alone(world, x.e.plugin), x.e).target

\* The user names the file of this output: with a -o flag, or with a
\* directive for its tag.
Named(e) ==
    \/ PluginOutputFilename(world, e.plugin, e.tag).file # NoFile
    \/ LET sel == Selected(world, e.plugin, e.tag, e.origin) IN sel.found /\ sel.spec.tag # ""

\* Two outputs of one plugin for one origin share a file only where the user
\* gave one of them that name or the plugin declares both with one suffix,
\* which Build accepts: no default and no unscoped directive brings them
\* together.
OutputsStayApart ==
    Settled => \A x, y \in Placed :
        /\ x.e.plugin = y.e.plugin /\ x.e.origin = y.e.origin /\ x.e.tag # y.e.tag
        /\ FileKey(x.to) = FileKey(y.to)
        => \/ Named(x.e) \/ Named(y.e)
           \/ resolveSuffix(x.e.plugin, x.e.tag) = resolveSuffix(y.e.plugin, y.e.tag)

\* No path in a directive or a -o flag leaves the directory it is relative
\* to: the source's, or the centralised one.
OutputsStayInTheirTree ==
    Settled => \A x \in Placed :
        LET policy == LayoutPolicyForTag(world, x.e.plugin, x.e.tag) IN
        IsPrefix(IF policy.layout = "centralised" THEN Centralised(policy).dir
                 ELSE Origins[x.e.origin].dir, x.to.dir)

\* When SetOutputPackages is called, the import path it is given for a tag is
\* where an entity of that plugin, origin and tag was routed, and no tag that
\* was routed is missing.
OutputPathsAreTrue ==
    Settled =>
        /\ \A k \in DOMAIN loc : \A tag \in DOMAIN loc[k] : \E x \in Placed :
            /\ <<x.e.origin, x.e.plugin, x.e.tag>> = <<k[1], k[2], tag>>
            /\ x.to.path = loc[k][tag]
        /\ \A x \in Placed : /\ <<x.e.origin, x.e.plugin>> \in DOMAIN loc
                             /\ x.e.tag \in DOMAIN loc[<<x.e.origin, x.e.plugin>>]

\* The world with the out= and pkg= of a plugin's own directives unscoped.
Unscoped(ds) == [i \in DOMAIN ds |-> IF ds[i].name = "owned" /\ ds[i].tag = ""
                                     THEN [ds[i] EXCEPT !.plugin = ""] ELSE ds[i]]
Shared(w) == [w EXCEPT !.on = [o \in DOMAIN @ |-> Unscoped(@[o])],
                       !.above = [q \in DOMAIN @ |-> Unscoped(@[q])]]

\* coreDirectives, runLayout, a test's comment and directives.md: out= and
\* pkg= on a plugin's directive are "unscoped, so a companion plugin emitting
\* against the same declaration inherits the routing".  Refuted:
\* appendOutSpecs records the owner.
CompanionsInherit ==
    Settled => \A x \in Placed : x.to = composeOrZero(Shared(world), x.e).target

\* "The one-file-one-package invariant is enforced once both passes
\* complete": no two groups the backend renders share a file and disagree on
\* its package.  Refuted: the pass visits no methods, no root directory and
\* no emit.Files.
OneFileOnePackage ==
    pc = "done" => \A x, y \in index :
        FileKey(x[1]) = FileKey(y[1]) => x[1].pkg = y[1].pkg

\* "CLI -p ... wins for Package unconditionally when set": the name of a
\* routed package is the flag's, but for the _test suffix.  Refuted: a
\* directive with a directory or pkg= replaces it.
PackageFlagWins ==
    Settled /\ world.cli.pkg # NoName => \A x \in Placed : x.to.pkg.n = world.cli.pkg.n

\* A -o path with a directory is "symmetrical to the directive's path-aware
\* form": it routes as the same path in a +gen:out directive does.  Refuted: the
\* flag moves the file and leaves its package and import path behind.
FlagRoutesAsDirective ==
    LET written == [world EXCEPT !.outAll = NoValue,
            !.on = [o \in DOMAIN @ |-> <<[name |-> "out", plugin |-> "", tag |-> "",
                                          pkg |-> NoName, path |-> world.outAll]>>]]
    IN Settled /\ world.outAll # NoValue /\ world.out = <<>> => \A x \in Placed :
        Len(Outputs[x.e.plugin]) = 1 /\ world.on[x.e.origin] = <<>>
            => x.to = composeOrZero(written, x.e).target
=============================================================================
