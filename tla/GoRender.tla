------------------------------ MODULE GoRender ------------------------------
(***************************************************************************)
(* Rendering one output file of the Go backend: renderTarget and what it   *)
(* calls, as a function of the worker's import set and the targets of the  *)
(* run.  A target is a record: where it goes (dir, pkg, path), the imports *)
(* its emit.File lists (pre), the references its templates write (uses),   *)
(* the qualifiers and names that stand in its body whatever the imports    *)
(* (raw, names for the package scope, locals for the rest), and what       *)
(* becomes of its templates (outcome).  Texts are left out: what a file is *)
(* made of is which names it writes and which its imports bind.            *)
(***************************************************************************)
EXTENDS ImportSet, FiniteSetsExt

CONSTANTS
    Bridge,   \* Bridge[p]: the Go path of a source-language path
    Segment,  \* Segment[p]: the last segment of p, as it is
    Declared  \* Declared[p]: what the package at p calls itself, unless the run writes it

ASSUME BridgeAssumption == \A p \in DOMAIN Bridge : Bridge[p] \in Paths

\* resolveImportPath: a path without a bridge is its own
Resolve(path) == IF path \in DOMAIN Bridge THEN Bridge[path] ELSE path

\* op along a list.  Values are bound as elements of singletons, so that TLC
\* computes each of them once.
Only(S) == CHOOSE v \in S : TRUE

Along(op(_, _), base, list) ==
    LET go[k \in 0 .. Len(list)] ==
            IF k = 0 THEN base ELSE Only({op(b, list[k]) : b \in {go[k - 1]}})
    IN  go[Len(list)]

-----------------------------------------------------------------------------
(* collectSelfPackages, applySelfAliases: output packages whose declared   *)
(* name is not the one their path derives.                                 *)

\* The targets that say what their path is called.
Telling(keys) == {i \in DOMAIN keys : keys[i].path # "" /\ keys[i].pkg # ""}

\* seen[path]: the package of the last of them with that path
PackageAt(keys, path) ==
    LET at == {i \in Telling(keys) : keys[i].path = path}
    IN  keys[CHOOSE i \in at : \A j \in at : j <= i].pkg

Written(keys) == {keys[i].path : i \in Telling(keys)}

Renamed(keys) == {p \in Written(keys) : PackageAt(keys, p) # Derive[p]}

ApplySelfAliases(s, keys, self) ==
    [s EXCEPT !.explicit = [p \in Renamed(keys) \ {self} |-> PackageAt(keys, p)]]

-----------------------------------------------------------------------------
(* A render under way: the import set, whether a call failed, and the      *)
(* references written so far, each with the qualifier it was given.        *)

\* preRenderImports: a requested alias first, then the import
PreImport(b, imp) ==
    LET s == IF imp.alias = "" THEN b.set ELSE Alias(b.set, imp.path, imp.alias)
    IN  IF ~b.ok THEN b
        ELSE IF Refused(s, imp.path) THEN [b EXCEPT !.set = s, !.ok = FALSE]
        ELSE [b EXCEPT !.set = Imp(s, imp.path)]

\* (Mutation: the name the path derives is written, whatever Imp returned.)
ReferenceDerived(b, use) ==
    LET p == Resolve(use.path)
    IN  IF ~b.ok THEN b
        ELSE IF Refused(b.set, p) THEN [b EXCEPT !.ok = FALSE]
        ELSE [b EXCEPT !.set = Imp(b.set, p),
                       !.written = @ \cup
                         {[path |-> p, literal |-> use.literal # "", typed |-> use.typed,
                           as |-> IF p = b.set.self THEN "" ELSE Desired(b.set, p)]}]

\* renderType, renderExpr: the qualifier Imp returns, except that a type a
\* bridge spelled out (use.literal) is written as it is.
Reference(b, use) ==
    LET p == Resolve(use.path)
    IN  IF ~b.ok THEN b
        ELSE IF Refused(b.set, p) THEN [b EXCEPT !.ok = FALSE]
        ELSE [b EXCEPT !.set = Imp(b.set, p),
                       !.written = @ \cup
                         {[path |-> p, literal |-> use.literal # "", typed |-> use.typed,
                           as |-> IF use.literal = "" THEN Qualifier(b.set, p) ELSE use.literal]}]

\* The import block: what the body cannot name stays, what it does not name
\* goes.
PruneImports(imports, quals) ==
    LET Keep(out, imp) ==
            IF imp.alias \in quals \cup {Blank, Dot} THEN Append(out, imp) ELSE out
    IN  Along(Keep, <<>>, imports)

Imports(s) == [i \in DOMAIN s.order |-> [path |-> s.order[i], alias |-> s.aliases[s.order[i]]]]

BoundNames(imports) == {imports[i].alias : i \in DOMAIN imports} \ {Blank, Dot}

\* A name that is declared in the file and used as a qualifier, but never in
\* a type position, may be all that keeps an import of that alias.
ShadowedImports(imports, typed, declared) ==
    {a \in BoundNames(imports) : a \notin typed /\ a \in declared}

UnresolvedCandidates(imports, quals, declared) ==
    IF \E i \in DOMAIN imports : imports[i].alias = Dot THEN {}
    ELSE quals \ (declared \cup BoundNames(imports))

\* What the package clause at a path says, once the run has written its files.
DeclaredName(keys, path) ==
    IF path \in Written(keys) THEN PackageAt(keys, path) ELSE Declared[path]

\* writeImportBlock, NeedsExplicitAlias: an import line names its alias unless
\* the alias is the path's last segment; then Go binds the declared name.
Binds(keys, imp) ==
    IF imp.alias = Segment[imp.path] THEN DeclaredName(keys, imp.path) ELSE imp.alias

Skipped(diags) ==
    [skip |-> TRUE, diags |-> diags, imports |-> <<>>, written |-> {},
     quals |-> {}, candidates |-> {}, topLevel |-> {}]

\* (Mutation: the previous target's imports are not cleared.)
BeginAfter(s, keys, i) ==
    LET self == Resolve(keys[i].path)
    IN  ApplySelfAliases(SetSelf(s, self, keys[i].pkg), keys, self)

Begin(s, keys, i) ==
    LET self == Resolve(keys[i].path)
    IN  ApplySelfAliases(SetSelf(Reset(s), self, keys[i].pkg), keys, self)

\* renderFile, up to the body.
Body(s, t) ==
    Along(Reference,
          Along(PreImport, [set |-> s, ok |-> TRUE, written |-> {}], t.pre),
          t.uses)

\* What renderTarget makes of a body.
Compose(b, t) ==
    LET quals    == ({w.as : w \in b.written} \ {""}) \cup t.raw
        declared == t.names \cup t.locals
        all      == Imports(b.set)
        kept     == PruneImports(all, quals)
    IN  CASE ~b.ok \/ t.outcome = "fails" -> Skipped({"render failed"})
          [] b.ok /\ t.outcome = "empty" -> Skipped({})
          \* the walk did not run: nothing is pruned, nothing is known
          [] b.ok /\ t.outcome = "unparsed" ->
               [skip |-> FALSE, diags |-> {"not valid Go"}, imports |-> all,
                written |-> b.written, quals |-> quals, candidates |-> {}, topLevel |-> {}]
          [] b.ok /\ t.outcome = "renders" ->
               [skip |-> FALSE,
                diags |-> ShadowedImports(kept, {w.as : w \in {v \in b.written : v.typed}}, declared),
                imports |-> kept, written |-> b.written, quals |-> quals,
                candidates |-> UnresolvedCandidates(kept, quals, declared),
                topLevel |-> t.names]

\* renderTarget: the result, and the import set it leaves to the worker.
RenderTarget(s, keys, i) ==
    Only({[set |-> b.set, res |-> Compose(b, keys[i])] : b \in {Body(Begin(s, keys, i), keys[i])}})

-----------------------------------------------------------------------------
(* Render, after the pool. *)

\* unionTopLevel: the names the files of one package declare, by package.
TopLevelOf(keys, results, i) ==
    UNION {results[j].topLevel :
             j \in {j \in DOMAIN keys : /\ ~results[j].skip
                                        /\ keys[j].dir = keys[i].dir /\ keys[j].pkg = keys[i].pkg}}

NoFile == [written |-> FALSE]

\* What replaying the result of key i does: its diagnostics, the warnings
\* about its qualifiers, and the file, if there is one and its write succeeds.
Replayed(keys, results, i, writes) ==
    Only({[key |-> i, diags |-> r.diags,
           warned |-> IF r.skip THEN {} ELSE r.candidates \ TopLevelOf(keys, results, i),
           file |-> IF r.skip \/ ~writes THEN NoFile
                    ELSE [written |-> TRUE, imports |-> r.imports,
                          body |-> r.written, quals |-> r.quals]] : r \in {results[i]}})
=============================================================================
