------------------------------ MODULE Embedding ------------------------------
(***************************************************************************)
(* What embedding contributes to a declaration: node.MethodSet over        *)
(* interfaces, and over structs the Go walks FieldSet, PromotedMethods and *)
(* EmbedsType, each with a resolver that knows what the run has loaded.    *)
(*                                                                         *)
(* A declaration is its kind, package, fields, methods and embeds.  An     *)
(* embed is the type it names (to), which is not what the source writes    *)
(* (as) if that is an alias; whether it is a pointer, has type arguments   *)
(* or is a term no resolver is asked about.  Only error, and what a        *)
(* program cannot load, has no package.                                    *)
(*                                                                         *)
(* The steps widen the run: pass a resolver, load one package more.        *)
(***************************************************************************)
EXTENDS Naturals, Sequences, FiniteSets, SequencesExt

CONSTANTS
    Programs,       \* the declarations a program may have, by name
    MaxEmbedDepth   \* bounds the promotion walk

VARIABLES
    decls,   \* the program, a member of Programs
    r,       \* the resolver: given or nil, and the names it finds
    asked,   \* the answers below are this resolver's
    ans      \* what the walks last returned

OfKind(kind) == {d \in DOMAIN decls : decls[d].kind = kind /\ decls[d].pkg # ""}

Resolves(d) == r.given /\ d \in r.loaded

-----------------------------------------------------------------------------
(* node.MethodSet *)

RECURSIVE Under(_)
\* The interfaces of a set, and those they embed.
Under(ifaces) ==
    LET more == {e.to : e \in {e \in UNION {ToSet(decls[i].embeds) : i \in ifaces} :
                                 ~e.term /\ decls[e.to].kind = "iface"}}
    IN  IF more \subseteq ifaces THEN ifaces ELSE Under(ifaces \cup more)

\* go/types: every method of an interface, its embeds' included.
FullMethods(i) == UNION {ToSet(decls[j].methods) : j \in Under({i})}

\* projectForeignInterface, stored on the embed by the frontend: the flat
\* method set of another package's interface, unless that is empty.  Not of
\* an alias, although the reference beside it is to what the alias names.
Projected(host, e) ==
    /\ e.as = e.to /\ decls[e.to].pkg \notin {"", decls[host].pkg}
    /\ decls[e.to].kind = "iface" /\ FullMethods(e.to) # {}

Issue(acc, e, why) == [acc EXCEPT !.issues = Append(@, [embed |-> e, why |-> why])]

AddMethods(acc, names, from) ==
    FoldLeft(LAMBDA a, m : IF \E k \in DOMAIN a.methods : a.methods[k].name = m THEN a
                           ELSE [a EXCEPT !.methods = Append(@, [name |-> m, from |-> from])],
             acc, names)

\* (Mutation: an embed that was not found is passed over.)
MissedSilently(acc, host, e, from) ==
    IF Projected(host, e) THEN AddMethods(acc, SetToSeq(FullMethods(e.to)), from) ELSE acc

\* (Mutation: the projection serves only a caller without a resolver.)
MissedWithResolver(acc, host, e, from) ==
    IF Projected(host, e) /\ ~r.given
    THEN AddMethods(acc, SetToSeq(FullMethods(e.to)), from) ELSE Issue(acc, e, "unresolved")

\* An embed the resolver does not find: the projection, or an issue.
Missed(acc, host, e, from) ==
    IF Projected(host, e)
    THEN AddMethods(acc, SetToSeq(FullMethods(e.to)), from) ELSE Issue(acc, e, "unresolved")

RECURSIVE Collect(_, _, _, _)
\* One embed of the loop in collect.
CollectEmbed(acc, host, e, visiting, from) ==
    CASE e.term -> acc
      [] ~e.term /\ e.args -> Issue(acc, e, "generic")
      [] ~e.term /\ ~e.args /\ ~Resolves(e.to) -> Missed(acc, host, e, from)
      [] ~e.term /\ ~e.args /\ Resolves(e.to) ->
           CASE decls[e.to].kind # "iface" -> Issue(acc, e, "non-interface")
             [] e.to \in visiting -> Issue(acc, e, "cyclic")
             [] OTHER -> Collect(acc, e.to, visiting, from)

\* from is the embed of the interface asked about, "" above all embeds.
Collect(acc, i, visiting, from) ==
    FoldLeft(LAMBDA a, e : CollectEmbed(a, i, e, visiting \cup {i},
                                        IF from = "" THEN e.to ELSE from),
             AddMethods(acc, decls[i].methods, from), decls[i].embeds)

MethodSet(i) == Collect([methods |-> <<>>, issues |-> <<>>], i, {}, "")
Names(set) == {set.methods[k].name : k \in DOMAIN set.methods}

\* (Mutation: an incomplete set is matched.)
ImplementersOfPart(i) ==
    {s \in OfKind("struct") \cap r.loaded : Names(MethodSet(i)) \subseteq ToSet(decls[s].methods)}

\* Reader.Implementers: by declared name, nothing for an incomplete or empty set.
Implementers(i) ==
    LET set == MethodSet(i)
    IN  IF set.issues # <<>> \/ set.methods = <<>> THEN {}
        ELSE {s \in OfKind("struct") \cap r.loaded : Names(set) \subseteq ToSet(decls[s].methods)}

-----------------------------------------------------------------------------
(* The promotion walks *)

\* descend: why an embed cannot be followed, "" if it can.
Refusal(e, depth) ==
    CASE depth + 1 > MaxEmbedDepth -> "too-deep"
      [] depth + 1 <= MaxEmbedDepth /\ ~r.given -> "no-resolver"
      [] depth + 1 <= MaxEmbedDepth /\ r.given /\ e.args -> "generic"
      [] depth + 1 <= MaxEmbedDepth /\ r.given /\ ~e.args ->
           IF e.to \in r.loaded THEN "" ELSE "not-loaded"

Candidate(name, path, ptr) == [name |-> name, path |-> path, ptr |-> ptr]

Problem(acc, host, e, why) ==
    [acc EXCEPT !.problems = Append(@, [host |-> host, embed |-> e, why |-> why])]
Candidates(acc, names, path, ptr) ==
    [acc EXCEPT !.found = @ \o [k \in DOMAIN names |-> Candidate(names[k], path, ptr)]]

RECURSIVE CollectFields(_, _, _, _)
\* visited is one set for the whole walk.  The depth is the path's length.
CollectFields(acc, s, path, ptr) ==
    IF s \in acc.visited THEN acc
    ELSE FoldLeft(
           LAMBDA a, e :
             LET b == Candidates(a, <<e.to>>, path, ptr)
                 why == Refusal(e, Len(path))
             IN  CASE why # "" -> Problem(b, s, e, why)
                   [] why = "" /\ decls[e.to].kind = "struct" ->
                        CollectFields(b, e.to, Append(path, e.to), ptr \/ e.ptr)
                   [] OTHER -> b,
           Candidates([acc EXCEPT !.visited = @ \cup {s}], decls[s].fields, path, ptr),
           decls[s].embeds)

\* fromIssue: the model's reasons in this package's words, on the outer interface.
FromIssue(acc, i, issue) ==
    Problem(acc, i, issue.embed, CASE issue.why = "generic" -> "generic"
                                   [] issue.why = "cyclic" -> "too-deep"
                                   [] OTHER -> "not-loaded")

RECURSIVE CollectMethods(_, _, _, _, _)
CollectMethods(acc, s, declared, path, ptr) ==
    IF s \in acc.visited THEN acc
    ELSE FoldLeft(
           LAMBDA a, e :
             LET why == Refusal(e, Len(path))
                 next == Append(path, e.to)
                 Record(b, names) ==
                     Candidates(b, SelectSeq(names, LAMBDA m : m \notin declared), next, ptr \/ e.ptr)
             IN  CASE why # "" -> Problem(a, s, e, why)
                   [] why = "" /\ decls[e.to].kind = "iface" ->
                        LET set == MethodSet(e.to)
                        IN  Record(FoldLeft(LAMBDA b, issue : FromIssue(b, e.to, issue), a, set.issues),
                                   [k \in DOMAIN set.methods |-> set.methods[k].name])
                   [] why = "" /\ decls[e.to].kind = "struct" ->
                        CollectMethods(Record(a, decls[e.to].methods), e.to, declared, next,
                                       ptr \/ e.ptr)
                   [] OTHER -> Record(a, decls[e.to].methods),
           [acc EXCEPT !.visited = @ \cup {s}], decls[s].embeds)

Shallowest(found) ==
    SelectSeq(found, LAMBDA c : \A k \in DOMAIN found : Len(c.path) <= Len(found[k].path))

\* (Mutation: the first of the shallowest wins a tie.)
FirstShallowest(found) == <<Shallowest(found)[1]>>

\* shallowestUnique, of one name's candidates: a tie promotes neither.
ShallowestUnique(found) == IF Len(Shallowest(found)) = 1 THEN Shallowest(found) ELSE <<>>

\* The winners, in the order the walk first met their names.
Promote(found) ==
    FlattenSeq([k \in DOMAIN found |->
        IF \E j \in 1 .. k - 1 : found[j].name = found[k].name THEN <<>>
        ELSE ShallowestUnique(SelectSeq(found, LAMBDA c : c.name = found[k].name))])

Fresh == [found |-> <<>>, visited |-> {}, problems |-> <<>>]
Result(walk) == [set |-> Promote(walk.found), problems |-> walk.problems]
FieldSet(s) == Result(CollectFields(Fresh, s, <<>>, FALSE))
PromotedMethods(s) == Result(CollectMethods(Fresh, s, ToSet(decls[s].methods), <<>>, FALSE))

RECURSIVE EmbedsFrom(_, _)
\* embedsType: the structs visited, and whether the search has found q.
EmbedsFrom(acc, s) ==
    IF s \in acc.visited \/ acc.hit THEN acc
    ELSE FoldLeft(LAMBDA a, e :
                    CASE a.hit -> a
                      [] ~a.hit /\ e.to = a.q -> [a EXCEPT !.hit = TRUE]
                      [] ~a.hit /\ e.to # a.q /\ Resolves(e.to) /\ decls[e.to].kind = "struct" ->
                           EmbedsFrom(a, e.to)
                      [] OTHER -> a,
                  [acc EXCEPT !.visited = @ \cup {s}], decls[s].embeds)
EmbedsType(s, q) == EmbedsFrom([visited |-> {}, q |-> q, hit |-> FALSE], s).hit

-----------------------------------------------------------------------------
(* A caller asks, the run is widened, the caller asks again. *)

NoAnswers == [fields |-> <<>>, methods |-> <<>>, sets |-> <<>>, implementers |-> <<>>, embeds |-> {}]

Init ==
    /\ decls \in Programs
    /\ r = [given |-> FALSE, loaded |-> {}] /\ asked = FALSE /\ ans = NoAnswers

Ask ==
    /\ ~asked /\ asked' = TRUE
    /\ ans' = [fields |-> [s \in OfKind("struct") |-> FieldSet(s)],
               methods |-> [s \in OfKind("struct") |-> PromotedMethods(s)],
               sets |-> [i \in OfKind("iface") |-> MethodSet(i)],
               implementers |-> [i \in OfKind("iface") |-> Implementers(i)],
               embeds |-> {<<s, q>> \in OfKind("struct") \X DOMAIN decls : EmbedsType(s, q)}]
    /\ UNCHANGED <<decls, r>>

PassResolver ==
    /\ asked /\ ~r.given
    /\ r' = [r EXCEPT !.given = TRUE] /\ asked' = FALSE /\ UNCHANGED <<decls, ans>>

\* A package loads as a whole.
Load(d) ==
    /\ asked /\ r.given /\ d \notin r.loaded /\ decls[d].pkg # ""
    /\ r' = [r EXCEPT !.loaded = @ \cup {c \in DOMAIN decls : decls[c].pkg = decls[d].pkg}]
    /\ asked' = FALSE /\ UNCHANGED <<decls, ans>>

Next == Ask \/ PassResolver \/ \E d \in DOMAIN decls : Load(d)
Spec == Init /\ [][Next]_<<decls, r, asked, ans>>

-----------------------------------------------------------------------------
(* Go's rules, by enumerating the paths of embeds, and the properties *)

RECURSIVE PathsFrom(_, _)
PathsFrom(s, n) ==
    {<<>>} \cup IF n = 0 \/ decls[s].kind # "struct" THEN {}
                ELSE UNION {{<<e>> \o p : p \in PathsFrom(e.to, n - 1)} : e \in ToSet(decls[s].embeds)}
Paths(s) == PathsFrom(s, Cardinality(OfKind("struct")))
End(s, p) == IF p = <<>> THEN s ELSE Last(p).to

FieldsOf(d) == IF decls[d].kind # "struct" THEN {}
               ELSE ToSet(decls[d].fields) \cup {e.as : e \in ToSet(decls[d].embeds)}
MethodsOf(d) == IF decls[d].kind = "iface" THEN FullMethods(d) ELSE ToSet(decls[d].methods)

\* The members of one kind that a selector on s reaches: fields and methods
\* share one name space, and a name is the one declared least deep, if that
\* is one.  Written as the candidate the walks would return for it.
Selected(s, NamesOf(_)) ==
    LET At(n) == {p \in Paths(s) : n \in FieldsOf(End(s, p)) \cup MethodsOf(End(s, p))}
        Least(n) == {p \in At(n) : \A q \in At(n) : Len(p) <= Len(q)}
    IN  {Candidate(n, [k \in DOMAIN p |-> p[k].as], \E k \in DOMAIN p : p[k].ptr) :
           <<n, p>> \in UNION {{<<n, p>> : n \in {n \in NamesOf(End(s, p)) : Least(n) = {p}}} :
                                p \in Paths(s)}}

GoFields(s) == Selected(s, FieldsOf)
GoMethods(s) == {c \in Selected(s, MethodsOf) : c.path # <<>>}

\* The names that are a field somewhere under s, and a method somewhere.
Mixed(s) == UNION {FieldsOf(End(s, p)) : p \in Paths(s)}
            \cap UNION {MethodsOf(End(s, p)) : p \in Paths(s)}

\* Every embed under s is written with the name of the type.
Unaliased(s) == \A p \in Paths(s) : \A k \in DOMAIN p : p[k].as = p[k].to

\* d is reached along two paths of embeds, and not by going around a cycle.
ReachedTwice(s, d) ==
    \E p, q \in Paths(s) : /\ End(s, p) = d /\ End(s, q) = d
                           /\ ~IsPrefix(p, q) /\ ~IsPrefix(q, p)

\* A walk returned what Go selects, and of names that are both a field and a
\* method perhaps one more: the walks look at one kind of member each.
Agrees(s, set, selected) ==
    /\ selected \subseteq ToSet(set)
    /\ \A c \in ToSet(set) \ selected : c.name \in Mixed(s)

\* FieldSet returns the fields Go's rules reach, by their paths and with
\* their pointers, when the walk reports nothing unresolved, meets no struct
\* twice and no alias.  (Pointer cycles are walked and change nothing.)
FieldsPromoteAsGo ==
    asked => \A s \in OfKind("struct") :
        /\ ans.fields[s].problems = <<>> /\ Unaliased(s)
        /\ \A d \in OfKind("struct") : ~ReachedTwice(s, d)
        => Agrees(s, ans.fields[s].set, GoFields(s))

\* PromotedMethods returns the methods Go promotes, of embedded structs and
\* flattened interfaces.  A struct met twice is counted twice here, so only
\* one that embeds something is a problem.
MethodsPromoteAsGo ==
    asked => \A s \in OfKind("struct") :
        /\ ans.methods[s].problems = <<>> /\ Unaliased(s)
        /\ \A d \in OfKind("struct") : decls[d].embeds # <<>> => ~ReachedTwice(s, d)
        => Agrees(s, ans.methods[s].set, GoMethods(s))

\* A MethodSet that reports no issue is complete: it holds every method of
\* the interface, declared ones first, each once, and each method that came
\* through an embed is one that embed has.
MethodSetIsComplete ==
    asked => \A i \in OfKind("iface") :
        LET set == ans.sets[i]
            own == {k \in DOMAIN set.methods : set.methods[k].from = ""}
        IN  set.issues = <<>> =>
              /\ Names(set) = FullMethods(i) /\ Cardinality(Names(set)) = Len(set.methods)
              /\ own = 1 .. Len(decls[i].methods)
              /\ \A k \in DOMAIN set.methods \ own :
                   set.methods[k].name \in FullMethods(set.methods[k].from)

\* Implementers lists only structs that have every method of the interface
\* in the whole program, whatever part of it the run has read.
ImplementersImplement ==
    asked => \A i \in OfKind("iface") : \A s \in ans.implementers[i] :
        FullMethods(i) \subseteq ToSet(decls[s].methods)

\* The program compiles (no interface embeds itself), and has no embed that
\* widening the run can turn from part of a flat projection into a refusal:
\* every one is of the same package or can be projected itself.  This leaves
\* out embeds with type arguments, of error, of an interface without methods
\* and, across packages, of an alias.
Plain ==
    \A i \in OfKind("iface") : \A e \in {e \in ToSet(decls[i].embeds) : ~e.term} :
        /\ ~e.args /\ decls[e.to].kind = "iface" /\ i \notin Under({e.to})
        /\ decls[e.to].pkg = decls[i].pkg \/ Projected(i, e)

LosesNothing ==
    \A i \in DOMAIN ans.sets :
        /\ Names(ans.sets[i]) \subseteq Names(ans'.sets[i])
        /\ ans.sets[i].issues = <<>> => ans'.sets[i].issues = <<>>

\* In a plain program a wider run never takes a method away, nor unsettles a
\* method set that was complete: a loaded declaration replaces the frontend's
\* projection of it without losing what the projection carried.
WiderRunsOnlyAdd == [][Plain => LosesNothing]_ans

\* "An empty slice means the answer is complete": fields reported with no
\* unresolved embed are the fields of every wider run too.
CompleteFieldsStay ==
    [][\A s \in DOMAIN ans.fields :
          ans.fields[s].problems = <<>> => ans'.fields[s] = ans.fields[s]]_ans

\* EmbedsType finds a type exactly when a chain of loaded structs embeds it.
EmbedsTypeIsReachability ==
    asked => \A s \in OfKind("struct"), q \in DOMAIN decls :
        <<s, q>> \in ans.embeds <=>
            \E p \in Paths(s) : /\ p # <<>> /\ Last(p).to = q
                               /\ \A k \in 1 .. Len(p) - 1 : Resolves(p[k].to)

\* The three walks over structs answer as Go does, each with the exceptions
\* it names.
WalksAgreeWithGo == FieldsPromoteAsGo /\ MethodsPromoteAsGo /\ EmbedsTypeIsReachability

\* Loading more of a plain program only improves the answers about its
\* interfaces, and of any program those about its structs: generated code
\* stays right when the patterns of a run are widened.
AnswersOnlyImprove == WiderRunsOnlyAdd /\ CompleteFieldsStay

\* "two promotions at equal depth cancel - neither is reachable, so neither
\* appears": a field FieldSet returns from a complete walk is one Go reaches.
\* Refuted: a struct embedded along two paths is walked along the first.
TiesCancel ==
    asked => \A s \in OfKind("struct") :
        ans.fields[s].problems = <<>> /\ Unaliased(s) =>
            \A c \in ToSet(ans.fields[s].set) \ GoFields(s) : c.name \in Mixed(s)

\* "A declared member always shadows a promoted one" and "Fields and methods
\* follow the same rules": a promoted method is one Go promotes.  Refuted:
\* a field of the struct does not shadow a method of its name.
MembersShadow ==
    asked => \A s \in OfKind("struct") :
        ans.methods[s].problems = <<>> /\ Unaliased(s) =>
            \A c \in ToSet(ans.methods[s].set) \ GoMethods(s) :
                \E d \in OfKind("struct") : ReachedTwice(s, d)

\* "EmbedIdent returns the field name an embedded type contributes".
\* Refuted: for an alias it is the name of the type behind it.
EmbedsKeepTheirName ==
    asked => \A s \in OfKind("struct") : \A e \in ToSet(decls[s].embeds) :
        e.as \in {ans.fields[s].set[k].name : k \in DOMAIN ans.fields[s].set}

\* "An unloaded embed is a warning: the same source under a wider pattern
\* resolves": an embed reported as not loaded has a package to load.
\* Refuted: error is neither projected nor in any package.
UnloadedCanBeLoaded ==
    asked => \A i \in DOMAIN ans.sets : \A k \in DOMAIN ans.sets[i].issues :
        ans.sets[i].issues[k].why = "unresolved" => decls[ans.sets[i].issues[k].embed.to].pkg # ""

\* A loaded declaration "wins wherever the run has one", and loses nothing of
\* the projection it replaces.  Refuted: what the projection had from an
\* embedded error, alias or generic interface is gone.
LoadingLosesNothing == [][LosesNothing]_ans
=============================================================================
