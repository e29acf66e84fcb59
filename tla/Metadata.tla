------------------------------ MODULE Metadata ------------------------------
(***************************************************************************)
(* Metadata of the source nodes: the bag of a node (core/meta), who makes  *)
(* it (node.BaseNode.EnsureMeta), the index by key (store.NodeView), the   *)
(* annotators of one bucket that stamp keys, and the pass that applies the *)
(* `meta` directives of the source over them (pipeline/override.go).       *)
(*                                                                         *)
(* A key is an element of Names; Above[m] is the set of its dotted         *)
(* ancestors.  A bag holds at most one operation per name and authority: a *)
(* value or a tombstone.  EnsureMeta takes no lock, so its test, its store *)
(* and its second load are steps of their own; a Set or a Tombstone holds  *)
(* the lock of the bag and is one step, the observers it calls included.   *)
(***************************************************************************)
EXTENDS Naturals, Sequences, FiniteSets

CONSTANTS
    Nodes,       \* the source nodes
    Indexed,     \* those AddPackage hands to indexCommon: not the embeds and
                 \* parameters, nor the fields of interfaces
    NodeOrder,   \* those in the buckets, as rangeNodeView visits them: of the
                 \* imports of one path only the first is
    Names,       \* metadata names, registered or not
    Above,       \* Above[m]: the dotted ancestors of m
    Registered,  \* the names that are keys of the registry
    Raws,        \* texts of values in directives, "true" among them
    Parse,       \* Parse[m][raw]: what the parser of key m does with raw
    Values,      \* what a key may be set to
    Plugins,     \* the annotators of the bucket
    Before,      \* Before[p]: the annotators that come before p in the bucket
    MaxOps,      \* bound: operations of one annotator
    Worlds,      \* configurations and sources
    NoBag, NoEntry

Authorities == 0..2
Plugin == 0
Directive == 1
Manual == 2

Value(v) == [tombstone |-> FALSE, value |-> v]
Tombstone == [tombstone |-> TRUE, value |-> NoEntry]
Entries == {Tombstone} \union {Value(v) : v \in Values}
Bag == [Names -> [Authorities -> Entries \union {NoEntry}]]

\* A bag is named by its node and by who made it.
Ids == Nodes \X (Plugins \union {"frontend", "pipeline"})

\* An operation of an annotator.
Ops == [node : Nodes, name : Names, entry : Entries]

\* A directive named `meta`: KEY=VALUE pairs and bare names.
MetaDirective ==
    [negated : BOOLEAN, kv : UNION {[K -> Raws] : K \in SUBSET Names}, args : Seq(Names)]

\* Dotted names are resolved by their ancestors; a bucket is an order of its
\* annotators; what is in the store's buckets is indexed and visited once.
ASSUME MetadataAssumption ==
    /\ Above \in [Names -> SUBSET Names]
    /\ Registered \subseteq Names
    /\ "true" \in Raws
    /\ Parse \in [Registered -> [Raws -> {"value", "error", "panic"}]]
    /\ Plugins \subseteq Values /\ Raws \subseteq Values
    /\ Before \in [Plugins -> SUBSET Plugins]
    /\ \A p, q \in Plugins : p = q \/ p \in Before[q] \/ q \in Before[p]
    /\ Indexed \subseteq Nodes
    /\ NodeOrder \in Seq(Indexed)
    /\ \A i, j \in 1..Len(NodeOrder) : NodeOrder[i] = NodeOrder[j] => i = j
    /\ NoEntry \notin Entries \union Ops
    /\ NoBag \notin Ids
    /\ MaxOps \in Nat
    /\ \A w \in Worlds : w \in [parallel : BOOLEAN, metaIndex : BOOLEAN, stamps : [Nodes -> Bag],
                                directives : [Nodes -> Seq(MetaDirective)]]

VARIABLES
    world,   \* parallel, metaIndex, stamps (what a node carries at ingest), directives
    phase,   \* "frontend", "annotator", "override" or "generator"
    bagOf,   \* the MetaBag field of each node
    bags,    \* the entries of every bag, whether a node holds it or not
    watched, \* bags with the observer of the index
    index,   \* byMetaKey, as pairs of a name and a node
    ann,     \* per annotator: program counter, operation, bag in hand, operations left
    at,      \* position of the override pass: node, directive, keys and arguments left
    failed,  \* an Error was reported by the override pass
    latest   \* auxiliary: the last operation on each node, per name and authority

vars == <<world, phase, bagOf, bags, watched, index, ann, at, failed, latest>>

-----------------------------------------------------------------------------
(* The bag.                                                                *)

NewBag == [m \in Names |-> [a \in Authorities |-> NoEntry]]

Buries(e) == e # NoEntry /\ e.tombstone

prefixTombstone(b, m, a) == {x \in Above[m] : Buries(b[x][a])}

\* (Mutation: a value on the name itself is looked at before the ancestors.)
ValueBeforePrefix(b, m, a) ==
    IF b[m][a] = NoEntry /\ prefixTombstone(b, m, a) # {} THEN Tombstone ELSE b[m][a]

entryAtAuthority(b, m, a) ==
    IF prefixTombstone(b, m, a) # {} THEN Tombstone ELSE b[m][a]

winning(b, m) ==
    LET speaks == {a \in Authorities : entryAtAuthority(b, m, a) # NoEntry}
    IN  IF speaks = {} THEN NoEntry
        ELSE entryAtAuthority(b, m, CHOOSE a \in speaks : \A c \in speaks : c <= a)

\* What a reader of name m finds on node n: {} or the set of one value.
RawValue(n, m) ==
    IF bagOf[n] = NoBag THEN {}
    ELSE LET w == winning(bags[bagOf[n]], m)
         IN  IF w = NoEntry \/ Buries(w) THEN {} ELSE {w.value}

BagNames(b) == {m \in Names : \E a \in Authorities : b[m][a] # NoEntry}

-----------------------------------------------------------------------------
(* Writing.                                                                *)

NodeOf(id) == id[1]

\* setEntry and setTombstone on bag id of node n; only the first calls the
\* observers.  latest is the record of what was asked for.
Write(id, m, a, e) ==
    /\ bags' = [bags EXCEPT ![id][m][a] = e]
    /\ latest' = [latest EXCEPT ![NodeOf(id)][m][a] = e]
    /\ index' = IF e.tombstone \/ id \notin watched THEN index
                ELSE index \union {<<m, NodeOf(id)>>}

\* A bag of node n made by who.
Make(n, who) ==
    /\ bagOf' = [bagOf EXCEPT ![n] = <<n, who>>]
    /\ bags' = [bags EXCEPT ![<<n, who>>] = NewBag]

Idle == [pc |-> "idle", op |-> NoEntry, bag |-> NoBag, left |-> MaxOps]

Init ==
    /\ world \in Worlds
    /\ phase = "frontend"
    /\ bagOf = [n \in Nodes |-> NoBag]
    /\ bags = [id \in Ids |-> NewBag]
    /\ watched = {}
    /\ index = {}
    /\ ann = [p \in Plugins |-> Idle]
    /\ at = [node |-> 1, directive |-> 1, keys |-> {}, args |-> <<>>]
    /\ failed = FALSE
    /\ latest = [n \in Nodes |-> NewBag]

-----------------------------------------------------------------------------
(* The frontend makes the nodes, stamps some and hands them to AddPackage, *)
(* which indexes most; an unstamped node gets a bag only for the observer. *)

Stamped == {n \in Nodes : world.stamps[n] # NewBag}

\* (Mutation: the index is left to the observers alone.)
SeedNothing(stamps) == {}

Seeded(stamps) == {x \in Names \X Indexed : x[1] \in BagNames(stamps[x[2]])}

Observed(n) == world.metaIndex /\ n \in Indexed

AddPackage ==
    /\ phase = "frontend"
    /\ phase' = "annotator"
    /\ bagOf' = [n \in Nodes |-> IF Observed(n) \/ n \in Stamped
                                 THEN <<n, "frontend">> ELSE NoBag]
    /\ bags' = [id \in Ids |-> IF id[2] = "frontend" THEN world.stamps[NodeOf(id)] ELSE NewBag]
    /\ watched' = {n \in Nodes : Observed(n)} \X {"frontend"}
    /\ index' = Seeded(world.stamps)
    /\ latest' = world.stamps
    /\ UNCHANGED <<world, ann, at, failed>>

-----------------------------------------------------------------------------
(* The annotators.  `Key.Set(n.EnsureMeta(), v)` is Choose, Check, Store   *)
(* when the field was nil, Load and Stamp.                                 *)

MayStep(p) ==
    /\ phase = "annotator"
    /\ world.parallel \/ \A q \in Before[p] : ann[q].pc = "done"

Choose(p) ==
    /\ MayStep(p) /\ ann[p].pc = "idle" /\ ann[p].left > 0
    /\ \E n \in Nodes, m \in Names, e \in {Tombstone, Value(p)} :
        /\ e.tombstone \/ m \in Registered
        /\ ann' = [ann EXCEPT ![p] = [pc |-> "check", op |-> [node |-> n, name |-> m, entry |-> e],
                                      bag |-> NoBag, left |-> ann[p].left - 1]]
    /\ UNCHANGED <<world, phase, bagOf, bags, watched, index, at, failed, latest>>

Lacks(n) == bagOf[n] = NoBag

Check(p) ==
    /\ MayStep(p) /\ ann[p].pc = "check"
    /\ ann' = [ann EXCEPT ![p].pc = IF Lacks(ann[p].op.node) THEN "store" ELSE "load"]
    /\ UNCHANGED <<world, phase, bagOf, bags, watched, index, at, failed, latest>>

Store(p) ==
    /\ MayStep(p) /\ ann[p].pc = "store"
    /\ Make(ann[p].op.node, p)
    /\ ann' = [ann EXCEPT ![p].pc = "load"]
    /\ UNCHANGED <<world, phase, watched, index, at, failed, latest>>

Load(p) ==
    /\ MayStep(p) /\ ann[p].pc = "load"
    /\ ann' = [ann EXCEPT ![p].pc = "write", ![p].bag = bagOf[ann[p].op.node]]
    /\ UNCHANGED <<world, phase, bagOf, bags, watched, index, at, failed, latest>>

Stamp(p) ==
    /\ MayStep(p) /\ ann[p].pc = "write"
    /\ Write(ann[p].bag, ann[p].op.name, Plugin, ann[p].op.entry)
    /\ ann' = [ann EXCEPT ![p].pc = "idle"]
    /\ UNCHANGED <<world, phase, bagOf, watched, at, failed>>

\* Annotate returns, fails or panics; what it stamped stays.
Return(p) ==
    /\ MayStep(p) /\ ann[p].pc = "idle"
    /\ ann' = [ann EXCEPT ![p].pc = "done"]
    /\ UNCHANGED <<world, phase, bagOf, bags, watched, index, at, failed, latest>>

-----------------------------------------------------------------------------
(* The override pass, on one goroutine once every annotator has returned.  *)

StartOverride ==
    /\ phase = "annotator" /\ \A p \in Plugins : ann[p].pc = "done"
    /\ phase' = "override"
    /\ UNCHANGED <<world, bagOf, bags, watched, index, ann, at, failed, latest>>

Here == NodeOrder[at.node]
Walking == phase = "override" /\ at.node <= Len(NodeOrder)
Applied == at.keys = {} /\ at.args = <<>>

\* The next `meta` directive of the node, on the bag of the node.
NextDirective ==
    /\ Walking /\ Applied
    /\ at.directive <= Len(world.directives[Here])
    /\ at' = [node |-> at.node, directive |-> at.directive + 1,
              keys |-> DOMAIN world.directives[Here][at.directive].kv,
              args |-> world.directives[Here][at.directive].args]
    /\ IF Lacks(Here) THEN Make(Here, "pipeline") ELSE UNCHANGED <<bagOf, bags>>
    /\ UNCHANGED <<world, phase, watched, index, ann, failed, latest>>

NextNode ==
    /\ Walking /\ Applied
    /\ at.directive > Len(world.directives[Here])
    /\ at' = [at EXCEPT !.node = @ + 1, !.directive = 1]
    /\ UNCHANGED <<world, phase, bagOf, bags, watched, index, ann, failed, latest>>

EndOverride ==
    /\ phase = "override" /\ at.node > Len(NodeOrder)
    /\ phase' = "generator"
    /\ UNCHANGED <<world, bagOf, bags, watched, index, ann, at, failed, latest>>

Current == world.directives[Here][at.directive - 1]

Outcome(d, m, raw) ==
    IF d.negated THEN "tombstone" ELSE IF m \in Registered THEN Parse[m][raw] ELSE "error"

\* setMeta or tombstoneMeta.  An unknown key and a value the parser rejects
\* are warnings; a parser that panics ends the whole pass with an Error.
ApplyMeta(m, raw) ==
    /\ \/ /\ Outcome(Current, m, raw) = "tombstone"
          /\ Write(bagOf[Here], m, Directive, Tombstone)
          /\ UNCHANGED <<phase, failed>>
       \/ /\ Outcome(Current, m, raw) = "value"
          /\ Write(bagOf[Here], m, Directive, Value(raw))
          /\ UNCHANGED <<phase, failed>>
       \/ /\ Outcome(Current, m, raw) = "error"
          /\ UNCHANGED <<bags, latest, index, phase, failed>>
       \/ /\ Outcome(Current, m, raw) = "panic"
          /\ phase' = "generator" /\ failed' = TRUE
          /\ UNCHANGED <<bags, latest, index>>
    /\ UNCHANGED <<world, bagOf, watched, ann>>

\* The KEY=VALUE pairs, in the order of the map.
OverrideKey(m) ==
    /\ Walking /\ m \in at.keys
    /\ ApplyMeta(m, Current.kv[m])
    /\ at' = [at EXCEPT !.keys = @ \ {m}]

\* Then the bare names, in the order they are written.
OverrideArg ==
    /\ Walking /\ at.keys = {} /\ at.args # <<>>
    /\ ApplyMeta(Head(at.args), "true")
    /\ at' = [at EXCEPT !.args = Tail(@)]

Next ==
    \/ AddPackage
    \/ \E p \in Plugins : Choose(p) \/ Check(p) \/ Store(p) \/ Load(p) \/ Stamp(p) \/ Return(p)
    \/ StartOverride \/ NextDirective \/ NextNode \/ EndOverride
    \/ \E m \in Names : OverrideKey(m)
    \/ OverrideArg

Spec == Init /\ [][Next]_vars

\* Types of the state.
TypeOK ==
    /\ world \in Worlds
    /\ phase \in {"frontend", "annotator", "override", "generator"}
    /\ bagOf \in [Nodes -> Ids \union {NoBag}]
    /\ bags \in [Ids -> Bag]
    /\ watched \subseteq Ids
    /\ index \subseteq Names \X Nodes
    /\ ann \in [Plugins -> [pc : {"idle", "check", "store", "load", "write", "done"},
                            op : Ops \union {NoEntry},
                            bag : Ids \union {NoBag}, left : 0..MaxOps]]
    /\ at \in [node : Nat, directive : Nat, keys : SUBSET Names, args : Seq(Names)]
    /\ failed \in BOOLEAN
    /\ latest \in [Nodes -> Bag]

-----------------------------------------------------------------------------
(* What the source asks for, read off the directives.                      *)

\* What directive d leaves on name m at the directive authority.
Bare(d, m) == \E i \in 1..Len(d.args) : d.args[i] = m
Sets(d, m, raw) == Outcome(d, m, raw) = "value"
Effect(d, m) ==
    IF d.negated THEN IF Bare(d, m) \/ m \in DOMAIN d.kv THEN Tombstone ELSE NoEntry
    ELSE IF Bare(d, m) /\ Sets(d, m, "true") THEN Value("true")
    ELSE IF m \in DOMAIN d.kv /\ Sets(d, m, d.kv[m]) THEN Value(d.kv[m])
    ELSE NoEntry

\* The last directive of the node that says anything about m.
Asked(n, m) ==
    LET ds == world.directives[n]
        js == {j \in 1..Len(ds) : Effect(ds[j], m) # NoEntry}
    IN  IF js = {} THEN world.stamps[n][m][Directive]
        ELSE Effect(ds[CHOOSE j \in js : \A k \in js : k <= j], m)

\* The operations that bear on a name: those on the name itself and the
\* tombstones on its ancestors.
Said(n, x, a) == IF a = Directive THEN Asked(n, x) ELSE latest[n][x][a]
Bears(n, m) ==
    {y \in (Above[m] \union {m}) \X Authorities :
        Said(n, y[1], y[2]) # NoEntry /\ (y[1] = m \/ Buries(Said(n, y[1], y[2])))}

\* A value stands when nothing of a higher authority bears on the name and no
\* tombstone of its own authority does.
Stands(n, m) ==
    {Said(n, m, a).value : a \in {c \in Authorities :
        /\ Said(n, m, c) # NoEntry
        /\ \A y \in Bears(n, m) : y[2] <= c /\ (y[2] = c => ~ Buries(Said(n, y[1], c)))}}

\* Nodes whose bag is made by one goroutine: before the annotators start, or
\* by annotators that run one after the other.
Guarded(n) == ~ world.parallel \/ Observed(n) \/ n \in Stamped

\* Nodes in the buckets of the store, which the override pass comes to.
Visited == {NodeOrder[i] : i \in 1..Len(NodeOrder)}

(***************************************************************************)
(* No stamp is lost: on a node whose bag exists before the annotators run, *)
(* or when they run one after the other, the bag the node ends up with     *)
(* holds the last operation asked for at every name and authority, however *)
(* EnsureMeta and Set of several annotators and the override pass follow   *)
(* one another.                                                            *)
(***************************************************************************)
StampsSurvive ==
    \A n \in Nodes : Guarded(n) /\ phase # "frontend" =>
        latest[n] = IF bagOf[n] = NoBag THEN NewBag ELSE bags[bagOf[n]]

(***************************************************************************)
(* With the index enabled, a node AddPackage has indexed and whose         *)
(* metadata resolves a name to a value is listed under that name, whoever  *)
(* set it and whenever: stamped before ingest, by an annotator, or by a    *)
(* directive of the source.                                                *)
(***************************************************************************)
IndexFindsHolders ==
    world.metaIndex => \A n \in Indexed, m \in Names : RawValue(n, m) # {} => <<m, n>> \in index

(***************************************************************************)
(* A generator reads what the source asked for: unless the pass reported   *)
(* an Error, the directives of a node the pass visits decide over          *)
(* everything its annotators stamped, before or after, on the name or an   *)
(* ancestor; a harness decides over both; where they say nothing the       *)
(* annotators do.  Nodes whose bag concurrent annotators may replace are   *)
(* left out (see NoBagIsReplaced).                                         *)
(***************************************************************************)
SourceDecides ==
    phase = "generator" /\ ~ failed =>
        \A n \in Visited, m \in Names : Guarded(n) => RawValue(n, m) = Stands(n, m)

(***************************************************************************)
(* pipeline/override.go: a `meta` directive "on any node is applied to     *)
(* that node's" bag.  Refuted: rangeNodeView ranges over the buckets of    *)
(* the store, so a directive on an embed, a parameter, a field of an       *)
(* interface or a repeated import is passed over, without a diagnostic.    *)
(***************************************************************************)
AnyNodeIsOverridden ==
    phase = "generator" /\ ~ failed =>
        \A n \in Nodes, m \in Names : Guarded(n) => RawValue(n, m) = Stands(n, m)

(***************************************************************************)
(* What node/base.go says of EnsureMeta: its callers run in sequential     *)
(* phases, so the bag of a node is never replaced and no stamp is lost.    *)
(* Refuted: two annotators of a parallel bucket that both find the field   *)
(* nil each make a bag, and what the first stamped goes with its bag.      *)
(***************************************************************************)
NoBagIsReplaced ==
    \A n \in Nodes : phase # "frontend" =>
        latest[n] = IF bagOf[n] = NoBag THEN NewBag ELSE bags[bagOf[n]]

=============================================================================
