---------------------------- MODULE LayoutProofs ----------------------------
(***************************************************************************)
(* The layout phase, for every world.  First what a path in a directive or *)
(* a flag can do to a directory; then what selecting a directive depends   *)
(* on; then one entity's Target, layer over layer; then the phase, whose   *)
(* Targets are the composed ones until conflicts are cleared.              *)
(***************************************************************************)
EXTENDS Layout, FiniteSetTheorems, SequenceTheorems, WellFoundedInduction, TLAPS

USE ZenonT(10), SMTT(60)

\* A set of naturals has a least one.
LEMMA LeastNatural ==
    ASSUME NEW T, T \subseteq Nat, T # {}
    PROVE  \E x \in T : \A y \in T : ~(y < x)
<1>1. PICK x \in T : \A y \in T : <<y, x>> \notin OpToRel(<, Nat)
    BY NatLessThanWellFounded, WFMin
<1> QED  BY <1>1 DEF OpToRel

-----------------------------------------------------------------------------
(* Joining paths.                                                          *)

\* The directories a path is walked through.
Walks(g, at, names, n) ==
    g = [k \in 0 .. n |-> IF k = 0 THEN at ELSE Enter(g[k - 1], names[k])]

\* The recursive function inside Join exists, for a path of any length.
LEMMA WalkExists ==
    ASSUME NEW at, NEW names, NEW len \in Nat
    PROVE  \E g : Walks(g, at, names, len)
<1> DEFINE T == {n \in Nat : ~\E g : Walks(g, at, names, n)}
<1> SUFFICES ASSUME T # {} PROVE FALSE
    OBVIOUS
<1>1. PICK n \in T : \A m \in T : ~(m < n)
    BY LeastNatural
<1>2. CASE n = 0
  <2>0. PICK g : g = [k \in 0 .. 0 |-> at]
      OBVIOUS
  <2>1. g = [k \in 0 .. 0 |-> IF k = 0 THEN at ELSE Enter(g[k - 1], names[k])]
      BY <2>0
  <2> QED  BY <1>1, <1>2, <2>1 DEF Walks
<1>3. CASE n # 0
  <2>1. n - 1 \in Nat /\ n - 1 < n
      BY <1>1, <1>3
  <2>2. PICK g : Walks(g, at, names, n - 1)
      BY <1>1, <2>1
  <2>3. \A j \in 0 .. (n - 1) : g[j] = IF j = 0 THEN at ELSE Enter(g[j - 1], names[j])
      BY <2>2 DEF Walks
  <2> DEFINE h == [k \in 0 .. n |-> IF k < n THEN g[k] ELSE Enter(g[n - 1], names[n])]
  <2>4. ASSUME NEW k \in 0 .. n PROVE h[k] = IF k = 0 THEN at ELSE Enter(h[k - 1], names[k])
    <3>1. k = 0 \/ k - 1 \in 0 .. (n - 1)
        BY <2>1
    <3>2. k # 0 => h[k - 1] = g[k - 1]
        BY <3>1
    <3>3. h[k] = IF k = 0 THEN at ELSE Enter(g[k - 1], names[k])
        BY <2>1, <2>3
    <3> HIDE DEF h
    <3> QED  BY <3>2, <3>3
  <2>5. h = [k \in 0 .. n |-> h[k]]
      OBVIOUS
  <2> HIDE DEF h
  <2>6. h = [k \in 0 .. n |-> IF k = 0 THEN at ELSE Enter(h[k - 1], names[k])]
      BY <2>4, <2>5
  <2> QED  BY <1>1, <2>6 DEF Walks
<1> QED  BY <1>2, <1>3

\* Join enters one name after the other, as path.Join does.
LEMMA JoinWalks ==
    ASSUME NEW at, NEW names \in Seq(Names)
    PROVE  \E g : /\ g[0] = at /\ Join(at, names) = g[Len(names)]
                  /\ \A k \in 1 .. Len(names) : g[k] = Enter(g[k - 1], names[k])
<1>1. Len(names) \in Nat
    OBVIOUS
<1>2. PICK g : g = CHOOSE f : Walks(f, at, names, Len(names))
    OBVIOUS
<1>3. Join(at, names) = g[Len(names)]
    BY <1>2, Zenon DEF Join, Walks
<1>4. Walks(g, at, names, Len(names))
    BY <1>1, <1>2, WalkExists, Zenon
<1>5. \A k \in 0 .. Len(names) : g[k] = IF k = 0 THEN at ELSE Enter(g[k - 1], names[k])
    BY <1>4 DEF Walks
<1> QED  BY <1>1, <1>3, <1>5

\* A directory that goes up nowhere.
Clean(dir) == dir \in Seq(Names) /\ \A i \in DOMAIN dir : dir[i] # Up

\* Entering a name keeps a directory clean: ".." only ever drops a name.
LEMMA EnterClean ==
    ASSUME NEW dir, Clean(dir), NEW name \in Names
    PROVE  Clean(Enter(dir, name))
<1>1. CASE name # Up
  <2>1. Append(dir, name) \in Seq(Names)
      BY DEF Clean
  <2>2. \A i \in DOMAIN Append(dir, name) : Append(dir, name)[i] # Up
      BY <1>1 DEF Clean
  <2> QED  BY <1>1, <2>1, <2>2 DEF Clean, Enter
<1>2. CASE name = Up /\ dir # <<>>
  <2>1. Len(dir) \in Nat /\ Len(dir) > 0 /\ dir \in Seq(Names)
      BY <1>2 DEF Clean
  <2>2. Front(dir) \in Seq(Names) /\ Len(Front(dir)) = Len(dir) - 1
        /\ \A i \in 1 .. Len(dir) - 1 : Front(dir)[i] = dir[i]
    <3>1. Front(dir) = SubSeq(dir, 1, Len(dir) - 1)
        BY DEF Front
    <3>2. \A i \in 1 .. Len(dir) - 1 : dir[i] \in Names
        BY <2>1
    <3>3. /\ SubSeq(dir, 1, Len(dir) - 1) \in Seq(Names)
          /\ Len(SubSeq(dir, 1, Len(dir) - 1)) = IF 1 <= Len(dir) - 1 THEN (Len(dir) - 1) - 1 + 1 ELSE 0
          /\ \A i \in 1 .. (Len(dir) - 1) - 1 + 1 : SubSeq(dir, 1, Len(dir) - 1)[i] = dir[1 + i - 1]
        BY <2>1, <3>2, SubSeqProperties, SMTT(60)
    <3>4. \A i \in 1 .. Len(dir) - 1 : i \in 1 .. (Len(dir) - 1) - 1 + 1 /\ 1 + i - 1 = i
        BY <2>1
    <3>5. \A i \in 1 .. Len(dir) - 1 : Front(dir)[i] = dir[i]
        BY <3>1, <3>3, <3>4
    <3>6. Len(Front(dir)) = IF 1 <= Len(dir) - 1 THEN (Len(dir) - 1) - 1 + 1 ELSE 0
        BY <3>1, <3>3
    <3>7. \A n \in Nat : n > 0 => (IF 1 <= n - 1 THEN (n - 1) - 1 + 1 ELSE 0) = n - 1
        OBVIOUS
    <3>8. Len(Front(dir)) = Len(dir) - 1
        BY <2>1, <3>6, <3>7, Zenon
    <3> QED  BY <3>1, <3>3, <3>5, <3>8
  <2>3. DOMAIN Front(dir) = 1 .. Len(dir) - 1 /\ DOMAIN dir = 1 .. Len(dir)
      BY <2>1, <2>2
  <2>4. \A i \in DOMAIN Front(dir) : i \in DOMAIN dir /\ Front(dir)[i] = dir[i]
      BY <2>1, <2>2, <2>3
  <2> QED  BY <1>2, <2>2, <2>4 DEF Clean, Enter
<1>3. CASE name = Up /\ dir = <<>>
  BY <1>3 DEF Clean, Enter
<1> QED  BY <1>1, <1>2, <1>3

\* A value cleaned against a root of its own goes up nowhere.
LEMMA SplitClean ==
    ASSUME NEW value \in Values
    PROVE  Clean(splitOutDirectivePath(value).dir) /\ splitOutDirectivePath(value).file = value.file
<1>1. value.dirs \in Seq(Names) /\ Len(value.dirs) \in Nat
    BY DEF Values
<1>2. PICK g : /\ g[0] = <<>> /\ Join(<<>>, value.dirs) = g[Len(value.dirs)]
               /\ \A k \in 1 .. Len(value.dirs) : g[k] = Enter(g[k - 1], value.dirs[k])
    BY <1>1, JoinWalks, SMTT(60)
<1> DEFINE T == {n \in 0 .. Len(value.dirs) : ~Clean(g[n])}
<1>3. Clean(g[0])
    BY <1>2 DEF Clean
<1>4. T = {}
  <2> SUFFICES ASSUME T # {} PROVE FALSE
      OBVIOUS
  <2>0. T \subseteq Nat
      BY <1>1
  <2>1. PICK n \in T : \A m \in T : ~(m < n)
      BY <2>0, LeastNatural
  <2>2. n # 0
      BY <1>3, <2>1
  <2>3. n \in 1 .. Len(value.dirs) /\ n - 1 \in 0 .. Len(value.dirs) /\ n - 1 < n
      BY <1>1, <2>1, <2>2
  <2>4. Clean(g[n - 1])
      BY <2>1, <2>3
  <2>5. value.dirs[n] \in Names
      BY <1>1, <2>3
  <2>6. Clean(Enter(g[n - 1], value.dirs[n]))
      BY <2>4, <2>5, EnterClean
  <2> QED  BY <1>2, <2>1, <2>3, <2>6
<1> HIDE DEF T
<1>5. Clean(g[Len(value.dirs)])
    BY <1>1, <1>4 DEF T
<1> QED  BY <1>2, <1>5 DEF splitOutDirectivePath

\* Joining such a directory only goes down.
LEMMA JoinCleanAppends ==
    ASSUME NEW at \in Seq(Names), NEW dir, Clean(dir)
    PROVE  Join(at, dir) = at \o dir
<1>1. dir \in Seq(Names) /\ Len(dir) \in Nat /\ Len(at) \in Nat
    BY DEF Clean
<1>2. PICK g : /\ g[0] = at /\ Join(at, dir) = g[Len(dir)]
               /\ \A k \in 1 .. Len(dir) : g[k] = Enter(g[k - 1], dir[k])
    BY <1>1, JoinWalks, SMTT(60)
<1> DEFINE T == {n \in 0 .. Len(dir) : g[n] # at \o SubSeq(dir, 1, n)}
<1>3. g[0] = at \o SubSeq(dir, 1, 0)
    BY <1>1, <1>2
<1>4. T = {}
  <2> SUFFICES ASSUME T # {} PROVE FALSE
      OBVIOUS
  <2>0. T \subseteq Nat
      BY <1>1
  <2>1. PICK n \in T : \A m \in T : ~(m < n)
      BY <2>0, LeastNatural
  <2>2. n # 0
      BY <1>3, <2>1
  <2>3. n \in 1 .. Len(dir) /\ n - 1 \in 0 .. Len(dir) /\ n - 1 < n
      BY <1>1, <2>1, <2>2
  <2>4. g[n - 1] = at \o SubSeq(dir, 1, n - 1)
      BY <2>1, <2>3
  <2>5. dir[n] # Up /\ dir[n] \in Names
      BY <1>1, <2>3 DEF Clean
  <2>6. g[n] = Append(at \o SubSeq(dir, 1, n - 1), dir[n])
      BY <1>2, <2>3, <2>4, <2>5 DEF Enter
  <2>7. PICK s : s = SubSeq(dir, 1, n - 1)
      OBVIOUS
  <2>8. s \in Seq(Names)
    <3>1. \A i \in 1 .. n - 1 : dir[i] \in Names
        BY <1>1, <2>3
    <3> QED  BY <2>3, <2>7, <3>1, SubSeqProperties, SMTT(60)
  <2>9. SubSeq(dir, 1, n) = s \o <<dir[n]>>
    <3>1. 1 \in 1 .. Len(dir) /\ n \in 1 .. Len(dir)
        BY <1>1, <2>3
    <3> QED  BY <1>1, <2>7, <3>1, SubSeqRecursiveSecond
  <2>10. Append(at \o s, dir[n]) = at \o Append(s, dir[n])
    <3>1. PICK x \in Names : x = dir[n]
        BY <2>5
    <3>2. Append(at \o s, x) = at \o Append(s, x)
        BY <2>8, SMTT(180)
    <3> QED  BY <3>1, <3>2
  <2>11. Append(s, dir[n]) = s \o <<dir[n]>>
      BY <2>5, <2>8, AppendIsConcat
  <2> QED  BY <2>1, <2>6, <2>7, <2>9, <2>10, <2>11
<1> HIDE DEF T
<1>5. g[Len(dir)] = at \o SubSeq(dir, 1, Len(dir))
    BY <1>1, <1>4 DEF T
<1>6. SubSeq(dir, 1, Len(dir)) = dir
    BY <1>1
<1> QED  BY <1>2, <1>5, <1>6

\* A directory is a prefix of what lies below it.
LEMMA PrefixBelow ==
    ASSUME NEW a \in Seq(Names), NEW b \in Seq(Names), NEW c \in Seq(Names)
    PROVE  IsPrefix(a, a) /\ IsPrefix(a, a \o b) /\ IsPrefix(a, (a \o b) \o c)
<1>1. ASSUME NEW d \in Seq(Names) PROVE IsPrefix(a, a \o d)
  <2>1. Len(a) \in Nat /\ Len(d) \in Nat /\ Len(a \o d) = Len(a) + Len(d)
      OBVIOUS
  <2>2. SubSeq(a \o d, 1, Len(a)) = SubSeq(a, 1, Len(a))
      BY <2>1
  <2> QED  BY <2>1, <2>2 DEF IsPrefix
<1>2. IsPrefix(a, a)
    BY DEF IsPrefix
<1>3. (a \o b) \o c = a \o (b \o c) /\ b \o c \in Seq(Names)
    OBVIOUS
<1> QED  BY <1>1, <1>2, <1>3


-----------------------------------------------------------------------------
(* Selecting a directive.                                                  *)

Specs == {NoSpec} \cup
    [path : Values, plugin : STRING, tag : STRING, pkg : Names, scope : {"entity", "package"}]

Applying(specs, plugin, tag) == {i \in DOMAIN specs : Applies(specs[i], plugin, tag)}
Top(specs, plugin, tag) ==
    {i \in Applying(specs, plugin, tag) :
        \A j \in Applying(specs, plugin, tag) : score(specs[j]) <= score(specs[i])}

\* selectOutDirective's result in terms of the specs of the highest score.
LEMMA SelectedFields ==
    ASSUME NEW specs, NEW plugin, NEW tag
    PROVE  selectOutDirective(specs, plugin, tag) =
             [found |-> Top(specs, plugin, tag) # {},
              spec |-> IF Top(specs, plugin, tag) = {} THEN NoSpec ELSE specs[Min(Top(specs, plugin, tag))],
              ambiguous |-> \E i \in Top(specs, plugin, tag) :
                                Tied(specs[i], specs[Min(Top(specs, plugin, tag))])]
BY Zenon DEF selectOutDirective, Top, Applying

\* Min is the least element.
LEMMA MinIsLeast ==
    ASSUME NEW T, T \subseteq Nat, T # {}
    PROVE  Min(T) \in T /\ \A y \in T : Min(T) <= y
<1>1. PICK x \in T : \A y \in T : ~(y < x)
    BY LeastNatural
<1>2. \A y \in T : x <= y
    BY <1>1
<1> QED  BY <1>1, <1>2, Zenon DEF Min

\* The first spec of the highest score has the highest score.
LEMMA FirstIsTop ==
    ASSUME NEW specs \in Seq(Specs), NEW plugin, NEW tag, Top(specs, plugin, tag) # {}
    PROVE  Min(Top(specs, plugin, tag)) \in Top(specs, plugin, tag)
<1>1. Top(specs, plugin, tag) \subseteq Nat
    BY DEF Top, Applying
<1> QED  BY <1>1, MinIsLeast

\* Whatever is selected is one of the specs, and applies.
LEMMA SelectedApplies ==
    ASSUME NEW specs \in Seq(Specs), NEW plugin, NEW tag,
           selectOutDirective(specs, plugin, tag).found
    PROVE  LET s == selectOutDirective(specs, plugin, tag).spec
           IN  s \in Specs /\ Applies(s, plugin, tag)
<1>1. Top(specs, plugin, tag) # {}
    BY SelectedFields
<1>2. PICK i : i = Min(Top(specs, plugin, tag))
    OBVIOUS
<1>3. i \in DOMAIN specs /\ Applies(specs[i], plugin, tag)
    BY <1>1, <1>2, FirstIsTop DEF Top, Applying
<1>4. selectOutDirective(specs, plugin, tag).spec = specs[i]
    BY <1>1, <1>2, SelectedFields
<1>5. specs[i] \in Specs
    BY <1>3
<1> QED  BY <1>3, <1>4, <1>5

Same(specs, others) ==
    /\ \A i \in DOMAIN specs : \E j \in DOMAIN others : others[j] = specs[i]
    /\ \A j \in DOMAIN others : \E i \in DOMAIN specs : specs[i] = others[j]

\* Unless an ambiguity is reported, the order of the specs decides nothing.
LEMMA OrderIsNothing ==
    ASSUME NEW specs \in Seq(Specs), NEW others \in Seq(Specs), NEW plugin, NEW tag,
           Same(specs, others), ~selectOutDirective(specs, plugin, tag).ambiguous
    PROVE  selectOutDirective(others, plugin, tag) = selectOutDirective(specs, plugin, tag)
<1> DEFINE A == Top(specs, plugin, tag)
           B == Top(others, plugin, tag)
           Best(s) == /\ Applies(s, plugin, tag)
                      /\ \A i \in DOMAIN specs : Applies(specs[i], plugin, tag) => score(specs[i]) <= score(s)
<1>1. \A i \in DOMAIN specs : i \in A <=> Best(specs[i])
    BY DEF Top, Applying
<1>2. \A s : Best(s) <=>
        /\ Applies(s, plugin, tag)
        /\ \A j \in DOMAIN others : Applies(others[j], plugin, tag) => score(others[j]) <= score(s)
    BY Zenon DEF Same
<1>3. \A j \in DOMAIN others : j \in B <=> Best(others[j])
    BY <1>2 DEF Top, Applying
<1> HIDE DEF Best
<1>4. A \subseteq DOMAIN specs /\ B \subseteq DOMAIN others
    BY DEF Top, Applying
<1>5. A = {} <=> B = {}
    BY <1>1, <1>3, <1>4 DEF Same
<1>6. CASE A = {}
  <2>1. selectOutDirective(others, plugin, tag) = [found |-> FALSE, spec |-> NoSpec, ambiguous |-> FALSE]
      BY <1>5, <1>6, SelectedFields
  <2>2. selectOutDirective(specs, plugin, tag) = [found |-> FALSE, spec |-> NoSpec, ambiguous |-> FALSE]
      BY <1>6, SelectedFields
  <2> QED  BY <2>1, <2>2
<1>7. CASE A # {}
  <2>1. PICK a \in A : a = Min(A)
      BY <1>7, FirstIsTop
  <2>2. PICK b \in B : b = Min(B)
      BY <1>5, <1>7, FirstIsTop
  <2>3. \A i \in A : specs[i] = specs[a]
    <3>1. ~\E i \in A : Tied(specs[i], specs[a])
        BY <2>1, SelectedFields
    <3> QED  BY <3>1 DEF Tied
  <2>4. \A j \in B : others[j] = specs[a]
      BY <1>1, <1>3, <1>4, <2>3, SMTT(60) DEF Same
  <2>5. selectOutDirective(specs, plugin, tag) = [found |-> TRUE, spec |-> specs[a], ambiguous |-> FALSE]
    <3>1. ~\E i \in A : Tied(specs[i], specs[a])
        BY <2>3 DEF Tied
    <3> QED  BY <1>7, <2>1, <3>1, SelectedFields
  <2>6. selectOutDirective(others, plugin, tag) = [found |-> TRUE, spec |-> specs[a], ambiguous |-> FALSE]
    <3>1. others[b] = specs[a]
        BY <2>2, <2>4
    <3>2. ~\E i \in B : Tied(others[i], others[b])
        BY <2>4, <3>1 DEF Tied
    <3> QED  BY <1>5, <1>7, <2>2, <3>1, <3>2, SelectedFields
  <2> QED  BY <2>5, <2>6
<1> QED  BY <1>6, <1>7

\* Specs that do not apply decide nothing.
Agree(specs, others, plugin, tag) ==
    \A i \in DOMAIN specs : \/ others[i] = specs[i]
                            \/ ~Applies(specs[i], plugin, tag) /\ ~Applies(others[i], plugin, tag)

\* selectOutDirective gives the same for two lists that agree where it looks.
LEMMA OthersAreNothing ==
    ASSUME NEW specs \in Seq(Specs), NEW others, NEW plugin, NEW tag, DOMAIN others = DOMAIN specs,
           Agree(specs, others, plugin, tag)
    PROVE  selectOutDirective(others, plugin, tag) = selectOutDirective(specs, plugin, tag)
<1> DEFINE A == Top(specs, plugin, tag)
<1>1. Applying(others, plugin, tag) = Applying(specs, plugin, tag)
    BY DEF Applying, Agree
<1>2. \A i \in Applying(specs, plugin, tag) : others[i] = specs[i]
    BY DEF Applying, Agree
<1>3. Top(others, plugin, tag) = A
    BY <1>1, <1>2, SMTT(60) DEF Top
<1>4. \A i \in A : others[i] = specs[i]
    BY <1>2 DEF Top
<1>5. CASE A = {}
    BY <1>3, <1>5, SelectedFields
<1>6. CASE A # {}
  <2>1. PICK a : a = Min(A)
      OBVIOUS
  <2>2. a \in A
    <3>1. A \subseteq Nat
        BY DEF Top, Applying
    <3> QED  BY <1>6, <2>1, <3>1, MinIsLeast
  <2>3. others[a] = specs[a]
      BY <1>4, <2>2
  <2>4. (\E i \in A : Tied(others[i], others[a])) <=> (\E i \in A : Tied(specs[i], specs[a]))
      BY <1>4, <2>3 DEF Tied
  <2> HIDE DEF A
  <2>5. selectOutDirective(others, plugin, tag) =
          [found |-> A # {}, spec |-> others[a], ambiguous |-> \E i \in A : Tied(others[i], others[a])]
      BY <1>3, <1>6, <2>1, SelectedFields
  <2>6. selectOutDirective(specs, plugin, tag) =
          [found |-> A # {}, spec |-> specs[a], ambiguous |-> \E i \in A : Tied(specs[i], specs[a])]
      BY <1>6, <2>1, SelectedFields DEF A
  <2> QED  BY <2>3, <2>4, <2>5, <2>6
<1> QED  BY <1>5, <1>6

SpecAt(d, scope) == IF Bears(d) THEN SpecOf(d, scope) ELSE NoSpec

\* A directive gives a spec, or the one that applies to nothing.
LEMMA SpecTypes ==
    ASSUME NEW d \in Directive, NEW scope \in {"entity", "package"}
    PROVE  SpecAt(d, scope) \in Specs
<1>1. SpecOf(d, scope) \in Specs
    BY DEF SpecOf, Directive, Specs
<1> QED  BY <1>1 DEF SpecAt, Specs

\* appendOutSpecs gives a spec for every directive, in order.
LEMMA AppendedSpecs ==
    ASSUME NEW ds \in Seq(Directive), NEW scope \in {"entity", "package"}
    PROVE  /\ appendOutSpecs(ds, scope) \in Seq(Specs) /\ Len(appendOutSpecs(ds, scope)) = Len(ds)
           /\ \A i \in 1 .. Len(ds) : appendOutSpecs(ds, scope)[i] = SpecAt(ds[i], scope)
<1>1. Len(ds) \in Nat /\ DOMAIN ds = 1 .. Len(ds) /\ \A i \in 1 .. Len(ds) : ds[i] \in Directive
    OBVIOUS
<1>2. appendOutSpecs(ds, scope) = [i \in 1 .. Len(ds) |-> SpecAt(ds[i], scope)]
    BY <1>1 DEF appendOutSpecs, SpecAt
<1>3. \A i \in 1 .. Len(ds) : SpecAt(ds[i], scope) \in Specs
    BY <1>1, SpecTypes, Zenon
<1> QED  BY <1>1, <1>2, <1>3, SMTT(60)

\* The specs of an origin: one for each of its directives, then one for each
\* of its package's.
Listed(s, on, above) ==
    /\ s \in Seq(Specs) /\ Len(s) = Len(on) + Len(above)
    /\ \A i \in 1 .. Len(on) : s[i] = SpecAt(on[i], "entity")
    /\ \A i \in 1 .. Len(above) : s[Len(on) + i] = SpecAt(above[i], "package")

\* outDirectivesFor lists the origin's specs before its package's.
LEMMA OriginSpecs ==
    ASSUME NEW w, NEW o, NEW on \in Seq(Directive), NEW above \in Seq(Directive),
           w.on[o] = on, w.above[Origins[o].pkg] = above
    PROVE  Listed(outDirectivesFor(w, o), on, above)
<1>1. PICK s : s = appendOutSpecs(on, "entity")
    OBVIOUS
<1>2. PICK t : t = appendOutSpecs(above, "package")
    OBVIOUS
<1>3. /\ s \in Seq(Specs) /\ Len(s) = Len(on)
      /\ \A i \in 1 .. Len(on) : s[i] = SpecAt(on[i], "entity")
    BY <1>1, AppendedSpecs
<1>4. /\ t \in Seq(Specs) /\ Len(t) = Len(above)
      /\ \A i \in 1 .. Len(above) : t[i] = SpecAt(above[i], "package")
    BY <1>2, AppendedSpecs
<1>5. outDirectivesFor(w, o) = s \o t
    BY <1>1, <1>2, Zenon DEF outDirectivesFor
<1>6. s \o t \in Seq(Specs) /\ Len(s \o t) = Len(s) + Len(t)
    BY <1>3, <1>4, ConcatProperties
<1>7. \A i \in 1 .. Len(s) : (s \o t)[i] = s[i]
    BY <1>3, <1>4, SMTT(60)
<1>8. \A i \in 1 .. Len(t) : (s \o t)[Len(s) + i] = t[i]
    BY <1>3, <1>4, SMTT(60)
<1> QED  BY <1>3, <1>4, <1>5, <1>6, <1>7, <1>8 DEF Listed

\* A list read backwards.
LEMMA ReverseProperties ==
    ASSUME NEW S, NEW s \in Seq(S)
    PROVE  /\ Reverse(s) \in Seq(S) /\ Len(Reverse(s)) = Len(s)
           /\ \A i \in 1 .. Len(s) : Len(s) + 1 - i \in 1 .. Len(s)
                /\ Reverse(s)[Len(s) + 1 - i] = s[i] /\ Reverse(s)[i] = s[Len(s) + 1 - i]
<1>1. Len(s) \in Nat /\ \A i \in 1 .. Len(s) : s[i] \in S
    OBVIOUS
<1>2. Reverse(s) = [i \in 1 .. Len(s) |-> s[(Len(s) - i) + 1]]
    BY DEF Reverse
<1>3. \A i \in 1 .. Len(s) : /\ Len(s) + 1 - i \in 1 .. Len(s) /\ (Len(s) - i) + 1 = Len(s) + 1 - i
                             /\ (Len(s) - (Len(s) + 1 - i)) + 1 = i
    BY <1>1
<1>4. \A i \in 1 .. Len(s) : s[(Len(s) - i) + 1] \in S
    BY <1>1, <1>3
<1>5. Reverse(s) \in Seq(S) /\ Len(Reverse(s)) = Len(s)
    BY <1>1, <1>2, <1>4, SMTT(60)
<1>6. \A i \in 1 .. Len(s) : Reverse(s)[i] = s[Len(s) + 1 - i]
    BY <1>2, <1>3, SMTT(60)
<1>7. \A i \in 1 .. Len(s) : Reverse(s)[Len(s) + 1 - i] = s[i]
    BY <1>2, <1>3, SMTT(60)
<1> QED  BY <1>3, <1>5, <1>6, <1>7

\* A world with its directives backwards differs in nothing else.
LEMMA BackwardsFields ==
    ASSUME NEW w, IsWorld(w), NEW o \in DOMAIN Origins
    PROVE  /\ Backwards(w).on[o] = Reverse(w.on[o])
           /\ Backwards(w).above[Origins[o].pkg] = Reverse(w.above[Origins[o].pkg])
           /\ \A f \in {"project", "plugin", "tagged", "cli", "out", "outAll"} : Backwards(w)[f] = w[f]
           /\ w.on[o] \in Seq(Directive) /\ w.above[Origins[o].pkg] \in Seq(Directive)
<1>1. DOMAIN w = {"project", "plugin", "tagged", "cli", "out", "outAll", "decls", "slots", "on", "above"}
    BY DEF IsWorld
<1>2. /\ DOMAIN w.on = DOMAIN Origins /\ w.on[o] \in Seq(Directive)
      /\ Origins[o].pkg \in DOMAIN w.above /\ w.above[Origins[o].pkg] \in Seq(Directive)
    BY DEF IsWorld
<1>3. Backwards(w).on = [p \in DOMAIN w.on |-> Reverse(w.on[p])]
    BY <1>1 DEF Backwards
<1>4. Backwards(w).above = [q \in DOMAIN w.above |-> Reverse(w.above[q])]
    BY <1>1 DEF Backwards
<1>5. \A f \in {"project", "plugin", "tagged", "cli", "out", "outAll"} : Backwards(w)[f] = w[f]
    BY <1>1 DEF Backwards
<1> QED  BY <1>2, <1>3, <1>4, <1>5

\* Unless selectOutDirective reports an ambiguity, it selects the same spec
\* from the directives backwards.
LEMMA BackwardsSelect ==
    ASSUME NEW w, IsWorld(w), NEW o \in DOMAIN Origins, NEW plugin, NEW tag,
           ~Selected(w, plugin, tag, o).ambiguous
    PROVE  Selected(Backwards(w), plugin, tag, o) = Selected(w, plugin, tag, o)
<1>1. PICK on, above : on = w.on[o] /\ above = w.above[Origins[o].pkg]
    OBVIOUS
<1>2. on \in Seq(Directive) /\ above \in Seq(Directive)
    BY <1>1, BackwardsFields
<1>3. Backwards(w).on[o] = Reverse(on) /\ Backwards(w).above[Origins[o].pkg] = Reverse(above)
    BY <1>1, BackwardsFields
<1>4. /\ Reverse(on) \in Seq(Directive) /\ Len(Reverse(on)) = Len(on)
      /\ \A i \in 1 .. Len(on) : Len(on) + 1 - i \in 1 .. Len(on)
           /\ Reverse(on)[Len(on) + 1 - i] = on[i] /\ Reverse(on)[i] = on[Len(on) + 1 - i]
    BY <1>2, ReverseProperties
<1>5. /\ Reverse(above) \in Seq(Directive) /\ Len(Reverse(above)) = Len(above)
      /\ \A i \in 1 .. Len(above) : Len(above) + 1 - i \in 1 .. Len(above)
           /\ Reverse(above)[Len(above) + 1 - i] = above[i]
           /\ Reverse(above)[i] = above[Len(above) + 1 - i]
    BY <1>2, ReverseProperties
<1>6. PICK s, b : s = outDirectivesFor(w, o) /\ b = outDirectivesFor(Backwards(w), o)
    OBVIOUS
<1>7. /\ s \in Seq(Specs) /\ Len(s) = Len(on) + Len(above)
      /\ \A i \in 1 .. Len(on) : s[i] = SpecAt(on[i], "entity")
      /\ \A i \in 1 .. Len(above) : s[Len(on) + i] = SpecAt(above[i], "package")
  <2>1. Listed(s, on, above)
      BY <1>1, <1>2, <1>6, OriginSpecs
  <2> QED  BY <2>1 DEF Listed
<1>8. /\ b \in Seq(Specs) /\ Len(b) = Len(on) + Len(above)
      /\ \A i \in 1 .. Len(on) : b[i] = SpecAt(Reverse(on)[i], "entity")
      /\ \A i \in 1 .. Len(above) : b[Len(on) + i] = SpecAt(Reverse(above)[i], "package")
  <2>1. Listed(b, Reverse(on), Reverse(above))
      BY <1>3, <1>4, <1>5, <1>6, OriginSpecs
  <2> QED  BY <1>4, <1>5, <2>1 DEF Listed
<1> DEFINE n == Len(on)
           m == Len(above)
<1>9. n \in Nat /\ m \in Nat /\ DOMAIN s = 1 .. n + m /\ DOMAIN b = 1 .. n + m
    BY <1>2, <1>7, <1>8, SMTT(60)
<1>10. \A i \in 1 .. n : n + 1 - i \in DOMAIN b /\ b[n + 1 - i] = s[i] /\ s[n + 1 - i] = b[i]
  <2> TAKE i \in 1 .. n
  <2>1. n + 1 - i \in 1 .. n /\ n + 1 - i \in DOMAIN b
      BY <1>9
  <2>2. /\ b[n + 1 - i] = SpecAt(Reverse(on)[n + 1 - i], "entity")
        /\ b[i] = SpecAt(Reverse(on)[i], "entity")
      BY <1>8, <2>1
  <2>3. Reverse(on)[n + 1 - i] = on[i] /\ Reverse(on)[i] = on[n + 1 - i]
      BY <1>4
  <2>4. s[i] = SpecAt(on[i], "entity") /\ s[n + 1 - i] = SpecAt(on[n + 1 - i], "entity")
      BY <1>7, <2>1
  <2> QED  BY <2>1, <2>2, <2>3, <2>4
<1>11. \A i \in 1 .. m : /\ n + (m + 1 - i) \in DOMAIN b
                         /\ b[n + (m + 1 - i)] = s[n + i] /\ s[n + (m + 1 - i)] = b[n + i]
  <2> TAKE i \in 1 .. m
  <2>1. m + 1 - i \in 1 .. m /\ n + (m + 1 - i) \in DOMAIN b
      BY <1>9
  <2>2. PICK j \in 1 .. m : j = m + 1 - i
      BY <2>1
  <2>3. /\ b[n + j] = SpecAt(Reverse(above)[j], "package")
        /\ b[n + i] = SpecAt(Reverse(above)[i], "package")
      BY <1>8
  <2>4. Reverse(above)[j] = above[i] /\ Reverse(above)[i] = above[j]
      BY <1>5, <2>2
  <2>5. s[n + i] = SpecAt(above[i], "package") /\ s[n + j] = SpecAt(above[j], "package")
      BY <1>7
  <2> QED  BY <2>1, <2>2, <2>3, <2>4, <2>5
<1> HIDE DEF n, m
<1>12. \A k \in 1 .. n + m : k \in 1 .. n \/ \E i \in 1 .. m : k = n + i
  <2> TAKE k \in 1 .. n + m
  <2>1. k \in 1 .. n \/ (k - n \in 1 .. m /\ k = n + (k - n))
      BY <1>9
  <2> QED  BY <2>1
<1>13. ASSUME NEW k \in 1 .. n + m
       PROVE  (\E j \in 1 .. n + m : b[j] = s[k]) /\ (\E j \in 1 .. n + m : s[j] = b[k])
  <2>1. CASE k \in 1 .. n
      BY <1>9, <1>10, <2>1
  <2>2. CASE \E i \in 1 .. m : k = n + i
      BY <1>9, <1>11, <2>2
  <2> QED  BY <1>12, <2>1, <2>2
<1>14. ~selectOutDirective(s, plugin, tag).ambiguous
    BY <1>6 DEF Selected
<1>15. selectOutDirective(b, plugin, tag) = selectOutDirective(s, plugin, tag)
  <2>1. Same(s, b)
      BY <1>9, <1>13 DEF Same
  <2> QED  BY <1>7, <1>8, <1>14, <2>1, OrderIsNothing, SMTT(60)
<1> QED  BY <1>6, <1>15 DEF Selected

Muted(p, d) == IF d.plugin \in {"", p} THEN d ELSE [d EXCEPT !.name = "other"]

\* Muting the directives of others changes no spec that applies to p.
LEMMA MutedSpec ==
    ASSUME NEW d \in Directive, NEW p, NEW tag, NEW scope \in {"entity", "package"}
    PROVE  /\ Muted(p, d) \in Directive
           /\ \/ SpecAt(Muted(p, d), scope) = SpecAt(d, scope)
              \/ /\ ~Applies(SpecAt(Muted(p, d), scope), p, tag)
                 /\ ~Applies(SpecAt(d, scope), p, tag)
<1>1. CASE d.plugin \in {"", p}
    BY <1>1 DEF Muted
<1>2. CASE d.plugin \notin {"", p}
  <2>1. PICK e : e = [d EXCEPT !.name = "other"]
      OBVIOUS
  <2>2. e \in Directive /\ e.name = "other"
      BY <2>1 DEF Directive
  <2>3. SpecAt(e, scope) = NoSpec
      BY <2>2 DEF SpecAt, Bears
  <2>4. ~Applies(SpecAt(e, scope), p, tag)
      BY <2>3 DEF Applies
  <2>5. ~Applies(SpecAt(d, scope), p, tag)
    <3>1. SpecOf(d, scope).plugin = d.plugin
        BY DEF SpecOf
    <3>2. ~Applies(SpecOf(d, scope), p, tag) /\ ~Applies(NoSpec, p, tag)
        BY <1>2, <3>1 DEF Applies
    <3> QED  BY <3>2 DEF SpecAt
  <2>6. Muted(p, d) = e
      BY <1>2, <2>1 DEF Muted
  <2> QED  BY <2>2, <2>4, <2>5, <2>6
<1> QED  BY <1>1, <1>2

\* Mine mutes directive by directive.
LEMMA MineProperties ==
    ASSUME NEW p, NEW ds \in Seq(Directive)
    PROVE  /\ Mine(p, ds) \in Seq(Directive) /\ Len(Mine(p, ds)) = Len(ds)
           /\ \A i \in 1 .. Len(ds) : ds[i] \in Directive /\ Mine(p, ds)[i] = Muted(p, ds[i])
<1>1. Len(ds) \in Nat /\ DOMAIN ds = 1 .. Len(ds) /\ \A i \in 1 .. Len(ds) : ds[i] \in Directive
    OBVIOUS
<1>2. Mine(p, ds) = [i \in 1 .. Len(ds) |-> Muted(p, ds[i])]
    BY <1>1 DEF Mine, Muted
<1>3. \A i \in 1 .. Len(ds) : Muted(p, ds[i]) \in Directive
    BY <1>1, MutedSpec, Zenon
<1> QED  BY <1>1, <1>2, <1>3, SMTT(60)

\* The directives in a world reduced to what concerns p.
LEMMA AloneDirectives ==
    ASSUME NEW w, IsWorld(w), NEW o \in DOMAIN Origins, NEW p
    PROVE  /\ Alone(w, p).on[o] = Mine(p, w.on[o])
           /\ Alone(w, p).above[Origins[o].pkg] = Mine(p, w.above[Origins[o].pkg])
<1>1. DOMAIN w = {"project", "plugin", "tagged", "cli", "out", "outAll", "decls", "slots", "on", "above"}
    BY DEF IsWorld
<1>2. DOMAIN w.on = DOMAIN Origins /\ Origins[o].pkg \in DOMAIN w.above
    BY DEF IsWorld
<1>3. Alone(w, p).on = [q \in DOMAIN w.on |-> Mine(p, w.on[q])]
    BY <1>1 DEF Alone
<1>4. Alone(w, p).above = [q \in DOMAIN w.above |-> Mine(p, w.above[q])]
    BY <1>1 DEF Alone
<1> QED  BY <1>2, <1>3, <1>4

\* The settings in a world reduced to what concerns p.
LEMMA AloneFields ==
    ASSUME NEW w, IsWorld(w), NEW p, NEW v, v = Alone(w, p)
    PROVE  /\ v.plugin = [q \in DOMAIN w.plugin \cap {p} |-> w.plugin[q]]
           /\ v.tagged = Only(p, w.tagged) /\ v.out = Only(p, w.out)
           /\ v.project = w.project /\ v.cli = w.cli /\ v.outAll = w.outAll
<1>1. DOMAIN w = {"project", "plugin", "tagged", "cli", "out", "outAll", "decls", "slots", "on", "above"}
    BY DEF IsWorld
<1>2. /\ v.plugin = [q \in DOMAIN w.plugin \cap {p} |-> w.plugin[q]]
      /\ v.tagged = Only(p, w.tagged) /\ v.out = Only(p, w.out)
    BY <1>1 DEF Alone
<1>3. v.project = w.project /\ v.cli = w.cli /\ v.outAll = w.outAll
    BY <1>1 DEF Alone
<1> QED  BY <1>2, <1>3

\* selectOutDirective selects the same spec for p in that world.
LEMMA AloneSelect ==
    ASSUME NEW w, IsWorld(w), NEW o \in DOMAIN Origins, NEW p, NEW tag
    PROVE  Selected(Alone(w, p), p, tag, o) = Selected(w, p, tag, o)
<1>1. PICK on, above : on = w.on[o] /\ above = w.above[Origins[o].pkg]
    OBVIOUS
<1>2. on \in Seq(Directive) /\ above \in Seq(Directive)
    BY <1>1, BackwardsFields
<1>3. Alone(w, p).on[o] = Mine(p, on) /\ Alone(w, p).above[Origins[o].pkg] = Mine(p, above)
    BY <1>1, AloneDirectives, SMTT(60)
<1>4. /\ Mine(p, on) \in Seq(Directive) /\ Len(Mine(p, on)) = Len(on)
      /\ \A i \in 1 .. Len(on) : on[i] \in Directive /\ Mine(p, on)[i] = Muted(p, on[i])
    BY <1>2, MineProperties
<1>5. /\ Mine(p, above) \in Seq(Directive) /\ Len(Mine(p, above)) = Len(above)
      /\ \A i \in 1 .. Len(above) : above[i] \in Directive /\ Mine(p, above)[i] = Muted(p, above[i])
    BY <1>2, MineProperties
<1>6. PICK s, b : s = outDirectivesFor(w, o) /\ b = outDirectivesFor(Alone(w, p), o)
    OBVIOUS
<1>7. /\ s \in Seq(Specs) /\ Len(s) = Len(on) + Len(above)
      /\ \A i \in 1 .. Len(on) : s[i] = SpecAt(on[i], "entity")
      /\ \A i \in 1 .. Len(above) : s[Len(on) + i] = SpecAt(above[i], "package")
  <2>1. Listed(s, on, above)
      BY <1>1, <1>2, <1>6, OriginSpecs
  <2> QED  BY <2>1 DEF Listed
<1>8. /\ b \in Seq(Specs) /\ Len(b) = Len(on) + Len(above)
      /\ \A i \in 1 .. Len(on) : b[i] = SpecAt(Muted(p, on[i]), "entity")
      /\ \A i \in 1 .. Len(above) : b[Len(on) + i] = SpecAt(Muted(p, above[i]), "package")
  <2>1. Listed(b, Mine(p, on), Mine(p, above))
      BY <1>3, <1>4, <1>5, <1>6, OriginSpecs
  <2> QED  BY <1>4, <1>5, <2>1 DEF Listed
<1> DEFINE n == Len(on)
           m == Len(above)
           Alike(k) == b[k] = s[k] \/ (~Applies(b[k], p, tag) /\ ~Applies(s[k], p, tag))
<1>9. n \in Nat /\ m \in Nat /\ DOMAIN s = 1 .. n + m /\ DOMAIN b = 1 .. n + m
    BY <1>2, <1>7, <1>8, SMTT(60)
<1>10. \A i \in 1 .. n : Alike(i)
  <2> TAKE i \in 1 .. n
  <2>1. \/ SpecAt(Muted(p, on[i]), "entity") = SpecAt(on[i], "entity")
        \/ /\ ~Applies(SpecAt(Muted(p, on[i]), "entity"), p, tag)
           /\ ~Applies(SpecAt(on[i], "entity"), p, tag)
      BY <1>4, MutedSpec
  <2> QED  BY <1>7, <1>8, <2>1
<1>11. \A i \in 1 .. m : Alike(n + i)
  <2> TAKE i \in 1 .. m
  <2>1. \/ SpecAt(Muted(p, above[i]), "package") = SpecAt(above[i], "package")
        \/ /\ ~Applies(SpecAt(Muted(p, above[i]), "package"), p, tag)
           /\ ~Applies(SpecAt(above[i], "package"), p, tag)
      BY <1>5, MutedSpec
  <2> QED  BY <1>7, <1>8, <2>1
<1> HIDE DEF n, m, Alike
<1>12. \A k \in 1 .. n + m : Alike(k)
  <2> TAKE k \in 1 .. n + m
  <2>1. k \in 1 .. n \/ (k - n \in 1 .. m /\ k = n + (k - n))
      BY <1>9
  <2> QED  BY <1>10, <1>11, <2>1
<1>13. selectOutDirective(b, p, tag) = selectOutDirective(s, p, tag)
  <2>1. DOMAIN b = DOMAIN s
      BY <1>9
  <2>2. Agree(s, b, p, tag)
      BY <1>9, <1>12 DEF Alike, Agree
  <2> QED  BY <1>7, <2>1, <2>2, OthersAreNothing, SMTT(60)
<1> QED  BY <1>6, <1>13 DEF Selected

\* A plugin's policy and flags are read under its own name.
LEMMA AlonePolicy ==
    ASSUME NEW w, IsWorld(w), NEW o \in DOMAIN Origins, NEW p, NEW tag
    PROVE  /\ LayoutPolicyForTag(Alone(w, p), p, tag) = LayoutPolicyForTag(w, p, tag)
           /\ PluginOutputFilename(Alone(w, p), p, tag) = PluginOutputFilename(w, p, tag)
<1>1. PICK v : v = Alone(w, p)
    OBVIOUS
<1>2. /\ v.plugin = [q \in DOMAIN w.plugin \cap {p} |-> w.plugin[q]]
      /\ v.tagged = Only(p, w.tagged) /\ v.out = Only(p, w.out)
      /\ v.project = w.project /\ v.cli = w.cli /\ v.outAll = w.outAll
    BY <1>1, AloneFields, SMTT(60)
<1>3. \A f, t : /\ <<p, t>> \in DOMAIN Only(p, f) <=> <<p, t>> \in DOMAIN f
                /\ <<p, t>> \in DOMAIN f => Only(p, f)[<<p, t>>] = f[<<p, t>>]
    BY DEF Only
<1>4. PluginOutputFilename(v, p, tag) = PluginOutputFilename(w, p, tag)
  <2>1. PICK a, b : a = <<p, tag>> /\ b = <<p, "">>
      OBVIOUS
  <2>2. /\ a \in DOMAIN v.out <=> a \in DOMAIN w.out
        /\ a \in DOMAIN w.out => v.out[a] = w.out[a]
    <3>1. /\ <<p, tag>> \in DOMAIN Only(p, w.out) <=> <<p, tag>> \in DOMAIN w.out
          /\ <<p, tag>> \in DOMAIN w.out => Only(p, w.out)[<<p, tag>>] = w.out[<<p, tag>>]
        BY <1>3, Zenon
    <3> QED  BY <1>2, <2>1, <3>1, Zenon
  <2>3. /\ b \in DOMAIN v.out <=> b \in DOMAIN w.out
        /\ b \in DOMAIN w.out => v.out[b] = w.out[b]
    <3>1. /\ <<p, "">> \in DOMAIN Only(p, w.out) <=> <<p, "">> \in DOMAIN w.out
          /\ <<p, "">> \in DOMAIN w.out => Only(p, w.out)[<<p, "">>] = w.out[<<p, "">>]
        BY <1>3, Zenon
    <3> QED  BY <1>2, <2>1, <3>1, Zenon
  <2>4. \A u : PluginOutputFilename(u, p, tag) =
          CASE a \in DOMAIN u.out -> u.out[a]
            [] a \notin DOMAIN u.out /\ b \in DOMAIN u.out -> u.out[b]
            [] OTHER -> u.outAll
      BY <2>1, Zenon DEF PluginOutputFilename
  <2> QED  BY <1>2, <2>2, <2>3, <2>4
<1>5. (p \in DOMAIN v.plugin <=> p \in DOMAIN w.plugin) /\ (p \in DOMAIN w.plugin => v.plugin[p] = w.plugin[p])
    BY <1>2
<1>6. mergedBasePolicy(v) = mergedBasePolicy(w)
    BY <1>2 DEF mergedBasePolicy
<1>7. applyPerPluginAndCLI(v, p) = applyPerPluginAndCLI(w, p)
    BY <1>2, <1>5, <1>6 DEF applyPerPluginAndCLI
<1>8. LayoutPolicyForTag(v, p, tag) = LayoutPolicyForTag(w, p, tag)
  <2>1. PICK a : a = <<p, tag>>
      OBVIOUS
  <2>2. /\ a \in DOMAIN v.tagged <=> a \in DOMAIN w.tagged
        /\ a \in DOMAIN w.tagged => v.tagged[a] = w.tagged[a]
    <3>1. /\ <<p, tag>> \in DOMAIN Only(p, w.tagged) <=> <<p, tag>> \in DOMAIN w.tagged
          /\ <<p, tag>> \in DOMAIN w.tagged => Only(p, w.tagged)[<<p, tag>>] = w.tagged[<<p, tag>>]
        BY <1>3, Zenon
    <3> QED  BY <1>2, <2>1, <3>1, Zenon
  <2>3. \A u : LayoutPolicyForTag(u, p, tag) =
          IF tag # "" /\ a \in DOMAIN u.tagged
          THEN Overlay(Overlay(applyPerPluginAndCLI(u, p), u.tagged[a], "plugin"), u.cli, "cli")
          ELSE applyPerPluginAndCLI(u, p)
      BY <2>1, Zenon DEF LayoutPolicyForTag, applyPerTagOverride
  <2> QED  BY <1>2, <1>7, <2>2, <2>3
<1> QED  BY <1>1, <1>4, <1>8

\* Policies and flags do not depend on the order of the directives.
LEMMA BackwardsPolicy ==
    ASSUME NEW w, IsWorld(w), NEW o \in DOMAIN Origins, NEW p, NEW tag
    PROVE  /\ LayoutPolicyForTag(Backwards(w), p, tag) = LayoutPolicyForTag(w, p, tag)
           /\ PluginOutputFilename(Backwards(w), p, tag) = PluginOutputFilename(w, p, tag)
<1>1. PICK v : v = Backwards(w)
    OBVIOUS
<1>2. /\ v.plugin = w.plugin /\ v.tagged = w.tagged /\ v.out = w.out
      /\ v.project = w.project /\ v.cli = w.cli /\ v.outAll = w.outAll
    BY <1>1, BackwardsFields
<1>3. PluginOutputFilename(v, p, tag) = PluginOutputFilename(w, p, tag)
    BY <1>2 DEF PluginOutputFilename
<1>4. LayoutPolicyForTag(v, p, tag) = LayoutPolicyForTag(w, p, tag)
    BY <1>2 DEF LayoutPolicyForTag, applyPerTagOverride, applyPerPluginAndCLI, mergedBasePolicy
<1> QED  BY <1>1, <1>3, <1>4

-----------------------------------------------------------------------------
(* Composing one Target.                                                   *)

IsRoute(r) ==
    \E dir, file, pkg, path, dirFrom, fileFrom, pkgFrom :
        r = [dir |-> dir, file |-> file, pkg |-> pkg, path |-> path,
             dirFrom |-> dirFrom, fileFrom |-> fileFrom, pkgFrom |-> pkgFrom]

BaseDir(policy, origin) ==
    IF policy.layout = "centralised" THEN Centralised(policy).dir ELSE Origins[origin].dir

\* The policy's place: its directory, the source's basename and the suffix.
LEMMA PlacementFields ==
    ASSUME NEW policy, NEW suffix, NEW origin, NEW emit, NEW r, r = Placement(policy, suffix, origin, emit)
    PROVE  /\ IsRoute(r) /\ r.file = <<Origins[origin].base, suffix>>
           /\ r.dir = BaseDir(policy, origin)
<1>1. PICK c, a : c = Centralised(policy) /\ a = AlongsideSource(policy, origin, emit)
    OBVIOUS
<1>2. a.dir = Origins[origin].dir
    BY <1>1 DEF AlongsideSource
<1>3. PICK placed : placed = IF policy.layout = "centralised" THEN c ELSE a
    OBVIOUS
<1>4. r = [dir |-> placed.dir, file |-> <<Origins[origin].base, suffix>>, pkg |-> placed.pkg,
           path |-> placed.path, dirFrom |-> placed.dirFrom, fileFrom |-> "suffix",
           pkgFrom |-> placed.pkgFrom]
    BY <1>1, <1>3, Zenon DEF Placement
<1>5. IsRoute(r)
    BY <1>4, Zenon DEF IsRoute
<1>6. r.dir = placed.dir /\ r.file = <<Origins[origin].base, suffix>>
    BY <1>4
<1> QED  BY <1>1, <1>2, <1>3, <1>5, <1>6 DEF BaseDir

Moved(dir, value) ==
    IF splitOutDirectivePath(value).dir # <<>> THEN Join(dir, splitOutDirectivePath(value).dir) ELSE dir
Refiled(file, value) == IF value.file # NoFile THEN value.file ELSE file

\* What a directive does to the directory and the file name.
LEMMA DirectedFields ==
    ASSUME NEW r, NEW spec, NEW origin, NEW q, q = Directed(r, spec, origin)
    PROVE  IsRoute(q) /\ q.dir = Moved(r.dir, spec.path) /\ q.file = Refiled(r.file, spec.path)
<1>1. PICK v : v = splitOutDirectivePath(spec.path)
    OBVIOUS
<1>2. v.file = spec.path.file
    BY <1>1 DEF splitOutDirectivePath
<1>3. IsRoute(q)
  <2>1. \A d, a, f, b, p, c, h :
          IsRoute([dir |-> d, dirFrom |-> a, file |-> f, fileFrom |-> b, pkg |-> p, pkgFrom |-> c, path |-> h])
    <3> TAKE d, a, f, b, p, c, h
    <3>1. [dir |-> d, dirFrom |-> a, file |-> f, fileFrom |-> b, pkg |-> p, pkgFrom |-> c, path |-> h]
          = [dir |-> d, file |-> f, pkg |-> p, path |-> h, dirFrom |-> a, fileFrom |-> b, pkgFrom |-> c]
        OBVIOUS
    <3> QED  BY <3>1, Zenon DEF IsRoute
  <2> QED  BY <2>1, SMT DEF Directed
<1>4. q.dir = IF v.dir # <<>> THEN Join(r.dir, v.dir) ELSE r.dir
    BY <1>1 DEF Directed
<1>5. q.file = IF v.file # NoFile THEN v.file ELSE r.file
    BY <1>1 DEF Directed
<1> QED  BY <1>1, <1>2, <1>3, <1>4, <1>5 DEF Moved, Refiled

\* What a -o flag does to the directory and the file name.
LEMMA FlaggedFields ==
    ASSUME NEW r, IsRoute(r), NEW value, NEW q, q = Flagged(r, value)
    PROVE  IsRoute(q) /\ q.dir = Moved(r.dir, value) /\ q.file = Refiled(r.file, value)
<1>1. PICK v : v = splitOutDirectivePath(value)
    OBVIOUS
<1>2. v.file = value.file
    BY <1>1 DEF splitOutDirectivePath
<1>3. PICK d0, f0, p0, q0, a0, b0, c0 :
        r = [dir |-> d0, file |-> f0, pkg |-> p0, path |-> q0, dirFrom |-> a0, fileFrom |-> b0, pkgFrom |-> c0]
    BY DEF IsRoute
<1>4. \E d, a, f, b :
        /\ q = [r EXCEPT !.dir = d, !.dirFrom = a, !.file = f, !.fileFrom = b]
        /\ d = IF v.dir # <<>> THEN Join(r.dir, v.dir) ELSE r.dir
        /\ f = IF v.file # NoFile THEN v.file ELSE r.file
    BY <1>1, Zenon DEF Flagged
<1>5. PICK d, a, f, b :
        /\ q = [r EXCEPT !.dir = d, !.dirFrom = a, !.file = f, !.fileFrom = b]
        /\ d = IF v.dir # <<>> THEN Join(r.dir, v.dir) ELSE r.dir
        /\ f = IF v.file # NoFile THEN v.file ELSE r.file
    BY <1>4
<1>6. q = [dir |-> d, file |-> f, pkg |-> p0, path |-> q0, dirFrom |-> a, fileFrom |-> b, pkgFrom |-> c0]
    BY <1>3, <1>5
<1>7. IsRoute(q)
    BY <1>6, Zenon DEF IsRoute
<1>8. q.dir = d /\ q.file = f
    BY <1>6
<1> QED  BY <1>1, <1>2, <1>5, <1>7, <1>8 DEF Moved, Refiled

\* The test shift moves no file.
LEMMA ShiftedFields ==
    ASSUME NEW r, IsRoute(r)
    PROVE  TestShifted(r).dir = r.dir /\ TestShifted(r).file = r.file
<1>1. PICK d0, f0, p0, q0, a0, b0, c0 :
        r = [dir |-> d0, file |-> f0, pkg |-> p0, path |-> q0, dirFrom |-> a0, fileFrom |-> b0, pkgFrom |-> c0]
    BY DEF IsRoute
<1> QED  BY <1>1 DEF TestShifted

\* The layers of one output: the policy's place, then the directive, then
\* the flag, then the test package.
Turned(w, plugin, tag, suffix, origin, emit) ==
    IF Selected(w, plugin, tag, origin).found
    THEN Directed(Placement(LayoutPolicyForTag(w, plugin, tag), suffix, origin, emit),
                  Selected(w, plugin, tag, origin).spec, origin)
    ELSE Placement(LayoutPolicyForTag(w, plugin, tag), suffix, origin, emit)
Final(w, plugin, tag, suffix, origin, emit) ==
    TestShifted(Flagged(Turned(w, plugin, tag, suffix, origin, emit), PluginOutputFilename(w, plugin, tag)))

Refused(c) == c.err # "" /\ c.target = Zero
Composed(c, w, plugin, tag, suffix, origin, emit) ==
    /\ c.err = "" /\ c.ambiguous = Selected(w, plugin, tag, origin).ambiguous
    /\ c.target = [dir |-> Final(w, plugin, tag, suffix, origin, emit).dir,
                   file |-> Final(w, plugin, tag, suffix, origin, emit).file,
                   pkg |-> Final(w, plugin, tag, suffix, origin, emit).pkg,
                   path |-> Final(w, plugin, tag, suffix, origin, emit).path]
    /\ ~(/\ Selected(w, plugin, tag, origin).found
         /\ Collapses(plugin, Selected(w, plugin, tag, origin)))

\* An error comes with the zero Target.
LEMMA FailedIsRefused ==
    ASSUME NEW err \in {"synthetic", "suffix", "layout", "collapses", "positionless"}, NEW ambiguous
    PROVE  Refused(Failed(err, ambiguous))
BY DEF Refused, Failed

\* composeTarget refuses, or every layer has been applied.
LEMMA ComposeCases ==
    ASSUME NEW w, NEW plugin, NEW tag, NEW suffix, NEW origin, NEW emit
    PROVE  LET c == composeTarget(w, plugin, tag, suffix, origin, emit)
           IN  Refused(c) \/ Composed(c, w, plugin, tag, suffix, origin, emit)
<1>0. PICK c : c = composeTarget(w, plugin, tag, suffix, origin, emit)
    OBVIOUS
<1>1. PICK policy : policy = LayoutPolicyForTag(w, plugin, tag)
    OBVIOUS
<1>2. PICK sel : sel = Selected(w, plugin, tag, origin)
    OBVIOUS
<1>3. PICK r1 : r1 = Turned(w, plugin, tag, suffix, origin, emit)
    OBVIOUS
<1>4. r1 = IF sel.found THEN Directed(Placement(policy, suffix, origin, emit), sel.spec, origin)
           ELSE Placement(policy, suffix, origin, emit)
    BY <1>1, <1>2, <1>3 DEF Turned
<1>5. PICK r2 : r2 = Flagged(r1, PluginOutputFilename(w, plugin, tag))
    OBVIOUS
<1>6. PICK r3 : r3 = TestShifted(r2)
    OBVIOUS
<1>7. r3 = Final(w, plugin, tag, suffix, origin, emit)
    BY <1>3, <1>5, <1>6 DEF Final
<1>8. c = CASE policy.layout \notin {"alongside", "centralised"} -> Failed("layout", FALSE)
            [] policy.layout \in {"alongside", "centralised"} /\ sel.found /\ Collapses(plugin, sel) ->
                   Failed("collapses", sel.ambiguous)
            [] OTHER ->
               IF Origins[origin].base = "" /\ r2.fileFrom = "suffix"
               THEN Failed("positionless", sel.ambiguous)
               ELSE [err |-> "", ambiguous |-> sel.ambiguous,
                     target |-> [dir |-> r3.dir, file |-> r3.file, pkg |-> r3.pkg, path |-> r3.path],
                     layers |-> <<r3.fileFrom, policy.layoutFrom, r3.dirFrom, r3.pkgFrom>>,
                     layout |-> policy.layout]
    BY <1>0, <1>1, <1>2, <1>4, <1>5, <1>6, Zenon DEF composeTarget
<1>9. Refused(c) \/ Composed(c, w, plugin, tag, suffix, origin, emit)
  <2>1. CASE policy.layout \notin {"alongside", "centralised"}
    <3>1. c = Failed("layout", FALSE)
        BY <1>8, <2>1
    <3> QED  BY <3>1, FailedIsRefused
  <2>2. CASE policy.layout \in {"alongside", "centralised"} /\ sel.found /\ Collapses(plugin, sel)
    <3>1. c = Failed("collapses", sel.ambiguous)
        BY <1>8, <2>2
    <3> QED  BY <3>1, FailedIsRefused
  <2>3. CASE policy.layout \in {"alongside", "centralised"} /\ ~(sel.found /\ Collapses(plugin, sel))
    <3>1. c = IF Origins[origin].base = "" /\ r2.fileFrom = "suffix"
              THEN Failed("positionless", sel.ambiguous)
              ELSE [err |-> "", ambiguous |-> sel.ambiguous,
                    target |-> [dir |-> r3.dir, file |-> r3.file, pkg |-> r3.pkg, path |-> r3.path],
                    layers |-> <<r3.fileFrom, policy.layoutFrom, r3.dirFrom, r3.pkgFrom>>,
                    layout |-> policy.layout]
        BY <1>8, <2>3
    <3>2. CASE Origins[origin].base = "" /\ r2.fileFrom = "suffix"
      <4>1. c = Failed("positionless", sel.ambiguous)
          BY <3>1, <3>2
      <4> QED  BY <4>1, FailedIsRefused
    <3>3. CASE ~(Origins[origin].base = "" /\ r2.fileFrom = "suffix")
      <4>1. /\ c.err = "" /\ c.ambiguous = sel.ambiguous
            /\ c.target = [dir |-> r3.dir, file |-> r3.file, pkg |-> r3.pkg, path |-> r3.path]
        <5>1. PICK t, l : /\ t = [dir |-> r3.dir, file |-> r3.file, pkg |-> r3.pkg, path |-> r3.path]
                          /\ l = <<r3.fileFrom, policy.layoutFrom, r3.dirFrom, r3.pkgFrom>>
            OBVIOUS
        <5>2. c = [err |-> "", ambiguous |-> sel.ambiguous, target |-> t, layers |-> l, layout |-> policy.layout]
            BY <3>1, <3>3, <5>1, Zenon
        <5>3. c.err = ""
            BY <5>2
        <5>4. c.target = t
            BY <5>2
        <5>5. c.ambiguous = sel.ambiguous
            BY <5>2
        <5> QED  BY <5>1, <5>3, <5>4, <5>5
      <4> QED  BY <1>2, <1>7, <2>3, <4>1, Zenon DEF Composed
    <3> QED  BY <3>2, <3>3
  <2> QED  BY <2>1, <2>2, <2>3
<1> QED  BY <1>0, <1>9

\* Where the file comes from and where its directory starts.
LEMMA FinalFields ==
    ASSUME NEW w, NEW plugin, NEW tag, NEW suffix, NEW origin, NEW emit,
           NEW sel, sel = Selected(w, plugin, tag, origin),
           NEW flag, flag = PluginOutputFilename(w, plugin, tag),
           NEW base, base = BaseDir(LayoutPolicyForTag(w, plugin, tag), origin),
           NEW f, f = Final(w, plugin, tag, suffix, origin, emit)
    PROVE  /\ f.file = Refiled(IF sel.found THEN Refiled(<<Origins[origin].base, suffix>>, sel.spec.path)
                               ELSE <<Origins[origin].base, suffix>>, flag)
           /\ f.dir = Moved(IF sel.found THEN Moved(base, sel.spec.path) ELSE base, flag)
<1>1. PICK r0 : r0 = Placement(LayoutPolicyForTag(w, plugin, tag), suffix, origin, emit)
    OBVIOUS
<1>2. IsRoute(r0) /\ r0.file = <<Origins[origin].base, suffix>> /\ r0.dir = base
    BY <1>1, PlacementFields, SMTT(60)
<1>3. PICK r1 : r1 = Turned(w, plugin, tag, suffix, origin, emit)
    OBVIOUS
<1>4. r1 = IF sel.found THEN Directed(r0, sel.spec, origin) ELSE r0
    BY <1>1, <1>3 DEF Turned
<1>5. /\ IsRoute(r1)
      /\ r1.dir = IF sel.found THEN Moved(r0.dir, sel.spec.path) ELSE r0.dir
      /\ r1.file = IF sel.found THEN Refiled(r0.file, sel.spec.path) ELSE r0.file
  <2>1. CASE sel.found
    <3>1. r1 = Directed(r0, sel.spec, origin)
        BY <1>4, <2>1
    <3>2. /\ IsRoute(r1) /\ r1.dir = Moved(r0.dir, sel.spec.path)
          /\ r1.file = Refiled(r0.file, sel.spec.path)
        BY <3>1, DirectedFields, SMTT(60)
    <3> QED  BY <2>1, <3>2
  <2>2. CASE ~sel.found
      BY <1>2, <1>4, <2>2
  <2> QED  BY <2>1, <2>2
<1>6. PICK r2 : r2 = Flagged(r1, flag)
    OBVIOUS
<1>7. IsRoute(r2) /\ r2.dir = Moved(r1.dir, flag) /\ r2.file = Refiled(r1.file, flag)
    BY <1>5, <1>6, FlaggedFields
<1>8. f = TestShifted(r2)
    BY <1>3, <1>6 DEF Final
<1>9. f.dir = r2.dir /\ f.file = r2.file
    BY <1>7, <1>8, ShiftedFields
<1> QED  BY <1>2, <1>5, <1>7, <1>9

\* What composeOrZero makes of an entity: nothing, or the Target of one of its
\* plugin's outputs.
Sourced(c, w, e) ==
    /\ e.origin \in DOMAIN Origins /\ resolveSuffix(e.plugin, e.tag) # ""
    /\ Composed(c, w, e.plugin, e.tag, resolveSuffix(e.plugin, e.tag), e.origin, e.emit)

\* composeOrZero refuses, or the plugin declares the output and has it composed.
LEMMA EntityCases ==
    ASSUME NEW w, NEW e \in Entities
    PROVE  Refused(composeOrZero(w, e)) \/ Sourced(composeOrZero(w, e), w, e)
<1>1. e.origin \in DOMAIN Origins \/ e.origin = NoOrigin
    BY DEF Entities
<1>2. PICK suffix : suffix = resolveSuffix(e.plugin, e.tag)
    OBVIOUS
<1>3. PICK c : c = composeOrZero(w, e)
    OBVIOUS
<1>4. c = CASE e.origin = NoOrigin -> Failed("synthetic", FALSE)
            [] e.origin # NoOrigin /\ suffix = "" -> Failed("suffix", FALSE)
            [] OTHER -> composeTarget(w, e.plugin, e.tag, suffix, e.origin, e.emit)
    BY <1>2, <1>3, Zenon DEF composeOrZero
<1>5. CASE e.origin = NoOrigin
  <2>1. c = Failed("synthetic", FALSE)
      BY <1>4, <1>5
  <2> QED  BY <1>3, <2>1, FailedIsRefused
<1>6. CASE e.origin # NoOrigin /\ suffix = ""
  <2>1. c = Failed("suffix", FALSE)
      BY <1>4, <1>6
  <2> QED  BY <1>3, <2>1, FailedIsRefused
<1>7. CASE e.origin # NoOrigin /\ suffix # ""
  <2>1. c = composeTarget(w, e.plugin, e.tag, suffix, e.origin, e.emit)
      BY <1>4, <1>7
  <2>2. Refused(c) \/ Composed(c, w, e.plugin, e.tag, suffix, e.origin, e.emit)
      BY <2>1, ComposeCases
  <2> QED  BY <1>1, <1>2, <1>3, <1>7, <2>2 DEF Sourced
<1> QED  BY <1>5, <1>6, <1>7

\* A Target depends on the world through the policy, the selected directive
\* and the flag alone.
LEMMA SameInputs ==
    ASSUME NEW v, NEW w, NEW e,
           LayoutPolicyForTag(v, e.plugin, e.tag) = LayoutPolicyForTag(w, e.plugin, e.tag),
           PluginOutputFilename(v, e.plugin, e.tag) = PluginOutputFilename(w, e.plugin, e.tag),
           Selected(v, e.plugin, e.tag, e.origin) = Selected(w, e.plugin, e.tag, e.origin)
    PROVE  composeOrZero(v, e) = composeOrZero(w, e)
<1>1. ASSUME NEW suffix
      PROVE  composeTarget(v, e.plugin, e.tag, suffix, e.origin, e.emit)
             = composeTarget(w, e.plugin, e.tag, suffix, e.origin, e.emit)
    BY ZenonT(60) DEF composeTarget
<1> QED  BY <1>1, Zenon DEF composeOrZero

\* A composed Target has a file, so it is never the zero Target.
LEMMA SourcedHasFile ==
    ASSUME NEW c, NEW w, NEW e \in Entities, Sourced(c, w, e)
    PROVE  c.err = "" /\ c.target # Zero /\ c.target.file # NoFile
<1>1. PICK suffix, origin : suffix = resolveSuffix(e.plugin, e.tag) /\ origin = e.origin
    OBVIOUS
<1>2. suffix # "" /\ Composed(c, w, e.plugin, e.tag, suffix, origin, e.emit)
    BY <1>1 DEF Sourced
<1>3. PICK f : f = Final(w, e.plugin, e.tag, suffix, origin, e.emit)
    OBVIOUS
<1>4. PICK sel, flag : /\ sel = Selected(w, e.plugin, e.tag, origin)
                       /\ flag = PluginOutputFilename(w, e.plugin, e.tag)
    OBVIOUS
<1>5. PICK base : base = BaseDir(LayoutPolicyForTag(w, e.plugin, e.tag), origin)
    OBVIOUS
<1>6. /\ f.file = Refiled(IF sel.found THEN Refiled(<<Origins[origin].base, suffix>>, sel.spec.path)
                          ELSE <<Origins[origin].base, suffix>>, flag)
      /\ f.dir = Moved(IF sel.found THEN Moved(base, sel.spec.path) ELSE base, flag)
    BY <1>3, <1>4, <1>5, FinalFields, SMTT(60)
<1>7. f.file # NoFile
  <2>1. <<Origins[origin].base, suffix>> # NoFile
      BY <1>2 DEF NoFile
  <2>2. \A v, g : g # NoFile => Refiled(g, v) # NoFile
      BY DEF Refiled
  <2> QED  BY <1>6, <2>1, <2>2
<1>8. c.err = "" /\ c.target = [dir |-> f.dir, file |-> f.file, pkg |-> f.pkg, path |-> f.path]
    BY <1>2, <1>3 DEF Composed
<1>9. c.target.file = f.file
  <2>1. PICK t : t = [dir |-> f.dir, file |-> f.file, pkg |-> f.pkg, path |-> f.path]
      OBVIOUS
  <2>2. t.file = f.file
      BY <2>1
  <2> QED  BY <1>8, <2>1, <2>2
<1>10. Zero.file = NoFile
    BY DEF Zero
<1> QED  BY <1>7, <1>8, <1>9, <1>10

\* The order of the directives decides no Target that is not ambiguous.
LEMMA EntityOrder ==
    ASSUME NEW w, IsWorld(w), NEW e \in Entities, Sourced(composeOrZero(w, e), w, e),
           ~composeOrZero(w, e).ambiguous
    PROVE  composeOrZero(Backwards(w), e) = composeOrZero(w, e)
<1>1. e.origin \in DOMAIN Origins /\ ~Selected(w, e.plugin, e.tag, e.origin).ambiguous
    BY DEF Sourced, Composed
<1>2. Selected(Backwards(w), e.plugin, e.tag, e.origin) = Selected(w, e.plugin, e.tag, e.origin)
    BY <1>1, BackwardsSelect
<1>3. /\ LayoutPolicyForTag(Backwards(w), e.plugin, e.tag) = LayoutPolicyForTag(w, e.plugin, e.tag)
      /\ PluginOutputFilename(Backwards(w), e.plugin, e.tag) = PluginOutputFilename(w, e.plugin, e.tag)
    BY <1>1, BackwardsPolicy
<1> QED  BY <1>2, <1>3, SameInputs

\* What concerns other plugins decides none of a plugin's Targets.
LEMMA EntityAlone ==
    ASSUME NEW w, IsWorld(w), NEW e, e.origin \in DOMAIN Origins
    PROVE  composeOrZero(Alone(w, e.plugin), e) = composeOrZero(w, e)
<1>1. Selected(Alone(w, e.plugin), e.plugin, e.tag, e.origin) = Selected(w, e.plugin, e.tag, e.origin)
    BY AloneSelect
<1>2. /\ LayoutPolicyForTag(Alone(w, e.plugin), e.plugin, e.tag) = LayoutPolicyForTag(w, e.plugin, e.tag)
      /\ PluginOutputFilename(Alone(w, e.plugin), e.plugin, e.tag) = PluginOutputFilename(w, e.plugin, e.tag)
    BY AlonePolicy
<1> QED  BY <1>1, <1>2, SameInputs

\* What a directive or a flag does to a directory: it goes down from it.
LEMMA MovedBelow ==
    ASSUME NEW dir \in Seq(Names), NEW value \in Values
    PROVE  \E below \in Seq(Names) : Moved(dir, value) = dir \o below
<1>1. PICK v : v = splitOutDirectivePath(value).dir
    OBVIOUS
<1>2. Clean(v)
    BY <1>1, SplitClean
<1>3. CASE v # <<>>
  <2>1. Moved(dir, value) = Join(dir, v)
      BY <1>1, <1>3 DEF Moved
  <2>2. Join(dir, v) = dir \o v
      BY <1>2, JoinCleanAppends
  <2> QED  BY <1>2, <2>1, <2>2 DEF Clean
<1>4. CASE v = <<>>
  <2>1. Moved(dir, value) = dir
      BY <1>1, <1>4 DEF Moved
  <2>2. dir \o <<>> = dir /\ <<>> \in Seq(Names)
      BY ConcatEmptySeq, SMTT(60)
  <2> QED  BY <2>1, <2>2
<1> QED  BY <1>3, <1>4

IsPolicy(p) == p.dir \in Seq(Names) /\ (p.pkg = NoName \/ p.pkg \in Names)

\* An override keeps a policy well formed.
LEMMA OverlayTypes ==
    ASSUME NEW p, IsPolicy(p), NEW over \in Overrides, NEW from
    PROVE  IsPolicy(Overlay(p, over, from))
<1>1. over.dir \in Seq(Names) /\ over.pkg \in Names
    BY DEF Overrides
<1>2. PICK q : q = Overlay(p, over, from)
    OBVIOUS
<1>3. q.dir = IF over.dir # <<>> THEN over.dir ELSE p.dir
    BY <1>2 DEF Overlay
<1>4. q.pkg = IF over.pkg # NoName THEN over.pkg ELSE p.pkg
    BY <1>2 DEF Overlay
<1> QED  BY <1>1, <1>2, <1>3, <1>4 DEF IsPolicy

\* Every policy a plugin is routed by is well formed.
LEMMA PolicyTypes ==
    ASSUME NEW w, IsWorld(w), NEW plugin, NEW tag
    PROVE  IsPolicy(LayoutPolicyForTag(w, plugin, tag))
<1>0. /\ w.project \in Overrides /\ w.cli \in Overrides
      /\ \A p \in DOMAIN w.plugin : w.plugin[p] \in Overrides
      /\ \A k \in DOMAIN w.tagged : w.tagged[k] \in Overrides
    BY DEF IsWorld
<1>1. IsPolicy(NewLayoutPolicy)
    BY DEF NewLayoutPolicy, IsPolicy
<1>2. IsPolicy(mergedBasePolicy(w))
    BY <1>0, <1>1, OverlayTypes DEF mergedBasePolicy
<1>3. IsPolicy(applyPerPluginAndCLI(w, plugin))
  <2>1. PICK b : b = IF plugin \in DOMAIN w.plugin THEN Overlay(mergedBasePolicy(w), w.plugin[plugin], "plugin")
                     ELSE mergedBasePolicy(w)
      OBVIOUS
  <2>2. IsPolicy(b)
      BY <1>0, <1>2, <2>1, OverlayTypes
  <2>3. applyPerPluginAndCLI(w, plugin) = Overlay(b, w.cli, "cli")
      BY <2>1, Zenon DEF applyPerPluginAndCLI
  <2> QED  BY <1>0, <2>2, <2>3, OverlayTypes
<1>4. CASE tag # "" /\ <<plugin, tag>> \in DOMAIN w.tagged
  <2>1. PICK k : k = <<plugin, tag>>
      OBVIOUS
  <2>2. LayoutPolicyForTag(w, plugin, tag) =
          Overlay(Overlay(applyPerPluginAndCLI(w, plugin), w.tagged[k], "plugin"), w.cli, "cli")
      BY <1>4, <2>1, Zenon DEF LayoutPolicyForTag, applyPerTagOverride
  <2>3. w.tagged[k] \in Overrides
      BY <1>0, <1>4, <2>1
  <2>4. IsPolicy(Overlay(applyPerPluginAndCLI(w, plugin), w.tagged[k], "plugin"))
      BY <1>3, <2>3, OverlayTypes
  <2> QED  BY <1>0, <2>2, <2>4, OverlayTypes
<1>5. CASE ~(tag # "" /\ <<plugin, tag>> \in DOMAIN w.tagged)
    BY <1>3, <1>5 DEF LayoutPolicyForTag
<1> QED  BY <1>4, <1>5

\* The directory a policy starts from is a path.
LEMMA BaseDirTypes ==
    ASSUME NEW policy, IsPolicy(policy), NEW origin \in DOMAIN Origins
    PROVE  BaseDir(policy, origin) \in Seq(Names)
<1>1. Centralised(policy).dir = IF policy.dir # <<>> THEN policy.dir
                                ELSE IF policy.pkg # NoName THEN <<policy.pkg>> ELSE <<>>
    BY DEF Centralised
<1>2. Centralised(policy).dir \in Seq(Names)
    BY <1>1 DEF IsPolicy
<1> QED  BY <1>2, OriginsAssumption DEF BaseDir

\* The value of a -o flag is a path, or none.
LEMMA FlagTypes ==
    ASSUME NEW w, IsWorld(w), NEW plugin, NEW tag
    PROVE  PluginOutputFilename(w, plugin, tag) \in Values
<1>1. w.outAll \in Values /\ \A k \in DOMAIN w.out : w.out[k] \in Values
    BY DEF IsWorld
<1>2. PICK a, b : a = <<plugin, tag>> /\ b = <<plugin, "">>
    OBVIOUS
<1>3. PluginOutputFilename(w, plugin, tag) =
        CASE a \in DOMAIN w.out -> w.out[a]
          [] a \notin DOMAIN w.out /\ b \in DOMAIN w.out -> w.out[b]
          [] OTHER -> w.outAll
    BY <1>2, Zenon DEF PluginOutputFilename
<1> QED  BY <1>1, <1>3

\* The value of a selected directive is a path, or none.
LEMMA SelectedTypes ==
    ASSUME NEW w, IsWorld(w), NEW o \in DOMAIN Origins, NEW plugin, NEW tag,
           Selected(w, plugin, tag, o).found
    PROVE  Selected(w, plugin, tag, o).spec.path \in Values
<1>1. PICK specs : specs = outDirectivesFor(w, o)
    OBVIOUS
<1>2. specs \in Seq(Specs)
  <2>1. PICK on, above : on = w.on[o] /\ above = w.above[Origins[o].pkg]
      OBVIOUS
  <2>2. on \in Seq(Directive) /\ above \in Seq(Directive)
      BY <2>1, BackwardsFields
  <2>3. Listed(specs, on, above)
      BY <1>1, <2>1, <2>2, OriginSpecs
  <2> QED  BY <2>3 DEF Listed
<1>3. PICK s : s = selectOutDirective(specs, plugin, tag).spec
    OBVIOUS
<1>4. selectOutDirective(specs, plugin, tag).found
    BY <1>1 DEF Selected
<1>5. s \in Specs /\ Applies(s, plugin, tag)
    BY <1>2, <1>3, <1>4, SelectedApplies
<1>6. s.path \in Values
    BY <1>5 DEF Applies, Specs
<1> QED  BY <1>1, <1>3, <1>6 DEF Selected

\* A file lies in or below the directory its policy starts from.
LEMMA EntityTree ==
    ASSUME NEW c, NEW w, IsWorld(w), NEW e \in Entities, Sourced(c, w, e)
    PROVE  IsPrefix(BaseDir(LayoutPolicyForTag(w, e.plugin, e.tag), e.origin), c.target.dir)
<1>1. PICK suffix, origin : suffix = resolveSuffix(e.plugin, e.tag) /\ origin = e.origin
    OBVIOUS
<1>2. origin \in DOMAIN Origins /\ Composed(c, w, e.plugin, e.tag, suffix, origin, e.emit)
    BY <1>1 DEF Sourced
<1>3. PICK f : f = Final(w, e.plugin, e.tag, suffix, origin, e.emit)
    OBVIOUS
<1>4. PICK sel, flag : /\ sel = Selected(w, e.plugin, e.tag, origin)
                       /\ flag = PluginOutputFilename(w, e.plugin, e.tag)
    OBVIOUS
<1>5. PICK base : base = BaseDir(LayoutPolicyForTag(w, e.plugin, e.tag), origin)
    OBVIOUS
<1>6. f.dir = Moved(IF sel.found THEN Moved(base, sel.spec.path) ELSE base, flag)
  <2>1. /\ f.file = Refiled(IF sel.found THEN Refiled(<<Origins[origin].base, suffix>>, sel.spec.path)
                            ELSE <<Origins[origin].base, suffix>>, flag)
        /\ f.dir = Moved(IF sel.found THEN Moved(base, sel.spec.path) ELSE base, flag)
      BY <1>3, <1>4, <1>5, FinalFields, SMTT(60)
  <2> QED  BY <2>1
<1>7. base \in Seq(Names) /\ flag \in Values /\ (sel.found => sel.spec.path \in Values)
    BY <1>2, <1>4, <1>5, PolicyTypes, BaseDirTypes, FlagTypes, SelectedTypes
<1>8. PICK a \in Seq(Names) : (IF sel.found THEN Moved(base, sel.spec.path) ELSE base) = base \o a
  <2>1. CASE sel.found
      BY <1>7, <2>1, MovedBelow
  <2>2. CASE ~sel.found
    <3>1. base \o <<>> = base /\ <<>> \in Seq(Names)
        BY <1>7, ConcatEmptySeq, SMTT(60)
    <3> QED  BY <2>2, <3>1
  <2> QED  BY <2>1, <2>2
<1>9. PICK b \in Seq(Names) : f.dir = (base \o a) \o b
  <2>1. PICK d : d = base \o a
      OBVIOUS
  <2>2. d \in Seq(Names)
      BY <1>7, <1>8, <2>1, ConcatProperties
  <2>3. f.dir = Moved(d, flag)
      BY <1>6, <1>8, <2>1, Zenon
  <2>4. \E b \in Seq(Names) : Moved(d, flag) = d \o b
      BY <1>7, <2>2, MovedBelow
  <2> QED  BY <2>1, <2>3, <2>4
<1>10. IsPrefix(base, f.dir)
    BY <1>7, <1>8, <1>9, PrefixBelow
<1>11. c.target.dir = f.dir
  <2>1. PICK t : t = [dir |-> f.dir, file |-> f.file, pkg |-> f.pkg, path |-> f.path]
      OBVIOUS
  <2>2. t.dir = f.dir
      BY <2>1
  <2>3. c.target = t
      BY <1>2, <1>3, <2>1, Zenon DEF Composed
  <2> QED  BY <2>2, <2>3
<1> QED  BY <1>1, <1>5, <1>10, <1>11

\* Nothing the user says names the file of this output of a plugin that has
\* several.
Unnamed(w, plugin, tag, origin) ==
    /\ Len(Outputs[plugin]) > 1
    /\ PluginOutputFilename(w, plugin, tag).file = NoFile
    /\ ~(Selected(w, plugin, tag, origin).found /\ Selected(w, plugin, tag, origin).spec.tag # "")

\* Such an output keeps its source's basename and its own suffix.
LEMMA UnnamedFile ==
    ASSUME NEW c, NEW w, NEW plugin, NEW tag, NEW suffix, NEW origin, NEW emit,
           Composed(c, w, plugin, tag, suffix, origin, emit), Unnamed(w, plugin, tag, origin),
           NEW file, file = <<Origins[origin].base, suffix>>
    PROVE  c.target.file = file
<1>1. PICK f : f = Final(w, plugin, tag, suffix, origin, emit)
    OBVIOUS
<1>2. PICK sel, flag : /\ sel = Selected(w, plugin, tag, origin)
                       /\ flag = PluginOutputFilename(w, plugin, tag)
    OBVIOUS
<1>4. f.file = Refiled(IF sel.found THEN Refiled(file, sel.spec.path) ELSE file, flag)
  <2>1. PICK base : base = BaseDir(LayoutPolicyForTag(w, plugin, tag), origin)
      OBVIOUS
  <2>2. /\ f.file = Refiled(IF sel.found THEN Refiled(<<Origins[origin].base, suffix>>, sel.spec.path)
                            ELSE <<Origins[origin].base, suffix>>, flag)
        /\ f.dir = Moved(IF sel.found THEN Moved(base, sel.spec.path) ELSE base, flag)
      BY <1>1, <1>2, <2>1, FinalFields, SMTT(60)
  <2> QED  BY <2>2, Zenon
<1>5. \A g : Refiled(g, flag) = g
    BY <1>2 DEF Refiled, Unnamed
<1>6. sel.found => sel.spec.path.file = NoFile
  <2>1. ~(sel.found /\ Collapses(plugin, sel))
      BY <1>2 DEF Composed
  <2>2. splitOutDirectivePath(sel.spec.path).file = sel.spec.path.file
      BY DEF splitOutDirectivePath
  <2>3. Len(Outputs[plugin]) > 1 /\ (sel.found => sel.spec.tag = "")
      BY <1>2 DEF Unnamed
  <2> QED  BY <2>1, <2>2, <2>3 DEF Collapses
<1>7. sel.found => Refiled(file, sel.spec.path) = file
    BY <1>6 DEF Refiled
<1>8. f.file = file
    BY <1>4, <1>5, <1>7
<1>9. c.target.file = f.file
  <2>1. PICK t : t = [dir |-> f.dir, file |-> f.file, pkg |-> f.pkg, path |-> f.path]
      OBVIOUS
  <2>2. t.file = f.file
      BY <2>1
  <2>3. c.target = t
      BY <1>1, <2>1, Zenon DEF Composed
  <2> QED  BY <2>2, <2>3
<1> QED  BY <1>8, <1>9

\* A suffix that resolveSuffix finds belongs to an output of that tag.
LEMMA ResolvedOutput ==
    ASSUME NEW plugin \in Plugins, NEW tag, resolveSuffix(plugin, tag) # ""
    PROVE  \E i \in DOMAIN Outputs[plugin] : Outputs[plugin][i].tag = tag
    BY DEF resolveSuffix

\* Two outputs of other suffixes, neither of which the user names.
Separate(w, plugin, origin, s, t) ==
    /\ Len(Outputs[plugin]) > 1 => Unnamed(w, plugin, s, origin) /\ Unnamed(w, plugin, t, origin)
    /\ resolveSuffix(plugin, s) # resolveSuffix(plugin, t)

\* Such outputs get file names that differ.
LEMMA EntitiesApart ==
    ASSUME NEW w, NEW c, NEW d, NEW e \in Entities, NEW g \in Entities,
           Sourced(c, w, e), Sourced(d, w, g), e.tag # g.tag,
           NEW p, p = e.plugin, p = g.plugin, NEW o, o = e.origin, o = g.origin,
           Separate(w, p, o, e.tag, g.tag)
    PROVE  c.target.file # d.target.file
<1>1. PICK se, sg : se = resolveSuffix(p, e.tag) /\ sg = resolveSuffix(p, g.tag)
    OBVIOUS
<1>2. se # "" /\ sg # "" /\ se # sg
    BY <1>1 DEF Sourced, Separate
<1>3. p \in Plugins
    BY DEF Entities
<1>4. PICK i \in DOMAIN Outputs[p] : Outputs[p][i].tag = e.tag
    BY <1>1, <1>2, <1>3, ResolvedOutput
<1>5. PICK j \in DOMAIN Outputs[p] : Outputs[p][j].tag = g.tag
    BY <1>1, <1>2, <1>3, ResolvedOutput
<1>6. i # j
    BY <1>4, <1>5
<1>7. Len(Outputs[p]) > 1
  <2>1. Outputs[p] \in Seq([tag : STRING, suffix : STRING])
      BY <1>3, OutputsAssumption
  <2>2. PICK n : n = Len(Outputs[p])
      OBVIOUS
  <2>3. n \in Nat /\ DOMAIN Outputs[p] = 1 .. n
      BY <2>1, <2>2, SMTT(60)
  <2>4. i \in 1 .. n /\ j \in 1 .. n
      BY <1>4, <1>5, <2>3
  <2>5. n > 1
      BY <1>6, <2>3, <2>4, SMTT(60)
  <2> QED  BY <2>2, <2>5
<1>8. PICK fe, fg : fe = <<Origins[o].base, se>> /\ fg = <<Origins[o].base, sg>>
    OBVIOUS
<1>9. c.target.file = fe
  <2>1. Composed(c, w, p, e.tag, se, o, e.emit)
      BY <1>1 DEF Sourced
  <2>2. Unnamed(w, p, e.tag, o)
      BY <1>7 DEF Separate
  <2> QED  BY <1>8, <2>1, <2>2, UnnamedFile, SMTT(60)
<1>10. d.target.file = fg
  <2>1. Composed(d, w, p, g.tag, sg, o, g.emit)
      BY <1>1 DEF Sourced
  <2>2. Unnamed(w, p, g.tag, o)
      BY <1>7 DEF Separate
  <2> QED  BY <1>8, <2>1, <2>2, UnnamedFile, SMTT(60)
<1>11. fe[2] = se /\ fg[2] = sg
    BY <1>8
<1> QED  BY <1>2, <1>9, <1>10, <1>11

-----------------------------------------------------------------------------
(* The phase.                                                              *)

Targets == {Zero} \cup {composeOrZero(w, e).target : w \in Worlds, e \in Entities}

\* Every entity routed so far has the Target composed for it, and a choice
\* between directives that was left to their order was reported.
Honest(w, ds, seq, to) ==
    \A i \in DOMAIN to :
        /\ to[i] = composeOrZero(w, seq[i]).target
        /\ composeOrZero(w, seq[i]).ambiguous
            => <<"ambiguous", seq[i].origin, seq[i].plugin>> \in ds

\* What loc says of an entity, and what it says at all.
Told(l, x) ==
    /\ <<x.e.origin, x.e.plugin>> \in DOMAIN l
    /\ x.e.tag \in DOMAIN l[<<x.e.origin, x.e.plugin>>]
Backed(l, placed, k, tag) ==
    \E x \in placed : /\ <<x.e.origin, x.e.plugin, x.e.tag>> = <<k[1], k[2], tag>>
                      /\ x.to.path = l[k][tag]
Paths(l, placed) ==
    /\ \A x \in placed : Told(l, x)
    /\ \A k \in DOMAIN l : \A tag \in DOMAIN l[k] : Backed(l, placed, k, tag)

\* While no Target is cleared, the Targets are the composed ones and loc is
\* what they say; TypeOK needs that the files have a Target, and both that the
\* Targets form sequences.
Shape ==
    /\ world \in Worlds
    /\ target \in Seq(Targets) /\ slotted \in Seq(Targets)
    /\ \A k \in DOMAIN files : files[k] # Zero
Composing ==
    pc \in {"route", "dispatched"} =>
        /\ Honest(world, diags, world.decls, target)
        /\ Honest(world, diags, world.slots, slotted)
        /\ Paths(loc, Placed)
PhaseInv == Shape /\ TypeOK /\ Composing

\* An entity is refused and gets the zero Target, or is routed to a Target.
LEMMA Outcome ==
    ASSUME NEW w, NEW e \in Entities, NEW c, c = composeOrZero(w, e)
    PROVE  \/ c.err # "" /\ c.target = Zero
           \/ c.err = "" /\ c.target # Zero /\ Sourced(c, w, e)
<1>1. Refused(c) \/ Sourced(c, w, e)
    BY EntityCases
<1>2. CASE Refused(c)
    BY <1>2 DEF Refused
<1>3. CASE Sourced(c, w, e)
    BY <1>3, SourcedHasFile
<1> QED  BY <1>1, <1>2, <1>3

\* One more entity is routed: e, to t.
Extended(seq, to, to1, e, t) ==
    /\ to \in Seq(Targets) /\ t \in Targets
    /\ to1 = Append(to, t) /\ e = seq[Len(to) + 1]

\* Routing the next entity adds its route to those there are.
LEMMA RoutesGrow ==
    ASSUME NEW seq, NEW to, NEW to1, NEW e, NEW t, Extended(seq, to, to1, e, t),
           NEW x0, x0 = [e |-> e, to |-> t]
    PROVE  Routes(seq, to1) = Routes(seq, to) \cup {x0}
<1>1. PICK n : n = Len(to) /\ x0 = [e |-> seq[n + 1], to |-> t]
    BY DEF Extended
<1>2. /\ n \in Nat /\ DOMAIN to = 1 .. n /\ DOMAIN to1 = 1 .. (n + 1)
      /\ to1[n + 1] = t /\ \A i \in 1 .. n : to1[i] = to[i]
    BY <1>1 DEF Extended
<1>3. ASSUME NEW x PROVE x \in Routes(seq, to1) <=> x \in Routes(seq, to) \cup {x0}
  <2>1. ASSUME x \in Routes(seq, to1) PROVE x \in Routes(seq, to) \cup {x0}
    <3>1. PICK i \in 1 .. (n + 1) : x = [e |-> seq[i], to |-> to1[i]]
        BY <1>2, <2>1 DEF Routes
    <3>2. i = n + 1 \/ i \in 1 .. n
        BY <1>2
    <3> QED  BY <1>1, <1>2, <3>1, <3>2 DEF Routes
  <2>2. ASSUME x \in Routes(seq, to) PROVE x \in Routes(seq, to1)
    <3>1. PICK i \in 1 .. n : x = [e |-> seq[i], to |-> to[i]]
        BY <1>2, <2>2 DEF Routes
    <3>2. i \in 1 .. (n + 1) /\ to1[i] = to[i]
        BY <1>2
    <3> QED  BY <1>2, <3>1, <3>2 DEF Routes
  <2>3. x0 \in Routes(seq, to1)
    <3>1. n + 1 \in DOMAIN to1
        BY <1>2
    <3> QED  BY <1>1, <1>2, <3>1 DEF Routes
  <2> QED  BY <2>1, <2>2, <2>3
<1> QED  BY <1>3

\* Routes that are composed and reported stay so when the next entity is routed.
LEMMA HonestGrows ==
    ASSUME NEW w, NEW ds, NEW ds1, ds \subseteq ds1, NEW seq,
           NEW to, NEW to1, NEW e, NEW t, Extended(seq, to, to1, e, t),
           NEW r, r = composeOrZero(w, e), t = r.target,
           r.ambiguous => <<"ambiguous", e.origin, e.plugin>> \in ds1,
           Honest(w, ds, seq, to)
    PROVE  Honest(w, ds1, seq, to1)
<1>1. PICK n : n = Len(to)
    OBVIOUS
<1>2. /\ n \in Nat /\ DOMAIN to = 1 .. n /\ DOMAIN to1 = 1 .. (n + 1)
      /\ to1[n + 1] = t /\ \A i \in 1 .. n : to1[i] = to[i]
    BY <1>1 DEF Extended
<1>3. ASSUME NEW i \in 1 .. (n + 1)
      PROVE  /\ to1[i] = composeOrZero(w, seq[i]).target
             /\ composeOrZero(w, seq[i]).ambiguous
                 => <<"ambiguous", seq[i].origin, seq[i].plugin>> \in ds1
  <2>1. CASE i = n + 1
      BY <1>1, <1>2, <2>1 DEF Extended
  <2>2. CASE i # n + 1
    <3>1. i \in 1 .. n
        BY <1>2, <2>2, SMTT(60)
    <3> QED  BY <1>2, <3>1 DEF Honest
  <2> QED  BY <2>1, <2>2
<1> QED  BY <1>2, <1>3 DEF Honest

\* recordOutputPath keeps loc true when a route is added.
LEMMA PathsGrow ==
    ASSUME NEW l, NEW placed, Paths(l, placed), NEW x, NEW key, key = <<x.e.origin, x.e.plugin>>,
           NEW m, m = (IF key \in DOMAIN l THEN l[key] ELSE <<>>),
           NEW l1, l1 = Set(l, key, Set(m, x.e.tag, x.to.path))
    PROVE  Paths(l1, placed \cup {x})
<1>1. PICK m1 : m1 = Set(m, x.e.tag, x.to.path)
    OBVIOUS
<1>2. /\ DOMAIN m1 = DOMAIN m \cup {x.e.tag} /\ m1[x.e.tag] = x.to.path
      /\ \A y \in DOMAIN m : y # x.e.tag => m1[y] = m[y]
  <2>1. PICK tag, path : tag = x.e.tag /\ path = x.to.path /\ m1 = Set(m, tag, path)
      BY <1>1
  <2>2. /\ DOMAIN m1 = DOMAIN m \cup {tag} /\ m1[tag] = path
        /\ \A y \in DOMAIN m : y # tag => m1[y] = m[y]
      BY <2>1 DEF Set
  <2> QED  BY <2>1, <2>2
<1>3. /\ DOMAIN l1 = DOMAIN l \cup {key} /\ l1[key] = m1
      /\ \A y \in DOMAIN l : y # key => l1[y] = l[y]
  <2>1. l1 = Set(l, key, m1)
      BY <1>1
  <2> QED  BY <2>1 DEF Set
<1>4. DOMAIN <<>> = {}
    OBVIOUS
<1>5. ASSUME NEW y \in placed \cup {x} PROVE Told(l1, y)
  <2>1. PICK ky : ky = <<y.e.origin, y.e.plugin>>
      OBVIOUS
  <2>2. CASE y = x
      BY <1>2, <1>3, <2>2 DEF Told
  <2>3. CASE y \in placed
    <3>1. ky \in DOMAIN l /\ y.e.tag \in DOMAIN l[ky]
        BY <2>1, <2>3 DEF Paths, Told
    <3>2. ky \in DOMAIN l1 /\ y.e.tag \in DOMAIN l1[ky]
        BY <1>2, <1>3, <3>1
    <3> QED  BY <2>1, <3>2 DEF Told
  <2> QED  BY <2>2, <2>3
<1>6. ASSUME NEW k \in DOMAIN l1, NEW tag \in DOMAIN l1[k]
      PROVE  Backed(l1, placed \cup {x}, k, tag)
  <2>1. CASE k = key /\ tag = x.e.tag
    <3>1. l1[k][tag] = x.to.path
        BY <1>2, <1>3, <2>1
    <3>2. <<x.e.origin, x.e.plugin, x.e.tag>> = <<k[1], k[2], tag>>
        BY <2>1
    <3> QED  BY <3>1, <3>2 DEF Backed
  <2>2. CASE ~(k = key /\ tag = x.e.tag)
    <3>1. k \in DOMAIN l /\ tag \in DOMAIN l[k] /\ l1[k][tag] = l[k][tag]
        BY <1>2, <1>3, <1>4, <2>2, SMTT(60)
    <3>2. PICK y \in placed : /\ <<y.e.origin, y.e.plugin, y.e.tag>> = <<k[1], k[2], tag>>
                              /\ y.to.path = l[k][tag]
        BY <3>1 DEF Paths, Backed
    <3> QED  BY <3>1, <3>2 DEF Backed
  <2> QED  BY <2>1, <2>2
<1> QED  BY <1>5, <1>6 DEF Paths

-----------------------------------------------------------------------------
(* Every step of the phase keeps the invariant.                            *)

\* What routeDecls and materialiseOriginSlots range over.
LEMMA RoutableEntity ==
    ASSUME NEW w \in Worlds
    PROVE  /\ IsWorld(w) /\ w.decls \in Seq(Entities) /\ w.slots \in Seq(Entities)
           /\ Len(w.decls) \in Nat /\ Len(w.slots) \in Nat
<1>1. IsWorld(w)
    BY WorldsAssumption
<1>2. w.decls \in Seq(Entities) /\ w.slots \in Seq(Entities)
    BY <1>1 DEF IsWorld
<1>3. PICK a, b : a = w.decls /\ b = w.slots
    OBVIOUS
<1>4. Len(a) \in Nat /\ Len(b) \in Nat
    BY <1>2, <1>3, SMTT(60)
<1> QED  BY <1>1, <1>2, <1>3, <1>4

\* The bookkeeping of one more entity.
LEMMA KeepKeeps ==
    ASSUME NEW e \in Entities, NEW r, r = composeOrZero(world, e), Keep(e, r),
           Paths(loc, Placed),
           NEW x, x = [e |-> e, to |-> r.target],
           Placed' = Placed \cup (IF r.target # Zero THEN {x} ELSE {})
    PROVE  /\ diags \subseteq diags'
           /\ r.ambiguous => <<"ambiguous", e.origin, e.plugin>> \in diags'
           /\ Paths(loc', Placed')
<1>1. Reported(e, r)
    BY DEF Keep
<1>2. diags \subseteq diags' /\ (r.ambiguous => <<"ambiguous", e.origin, e.plugin>> \in diags')
    BY <1>1, Zenon DEF Reported
<1>3. \/ r.err # "" /\ r.target = Zero
      \/ r.err = "" /\ r.target # Zero
    BY Outcome
<1>4. CASE r.err # "" /\ r.target = Zero
  <2>1. loc' = loc
      BY <1>4 DEF Keep
  <2>2. Placed' = Placed
      BY <1>4
  <2> QED  BY <1>2, <2>1, <2>2
<1>5. CASE r.err = "" /\ r.target # Zero
  <2>1. recordOutputPath(e, r.target.path)
      BY <1>5 DEF Keep
  <2>2. x.e = e /\ x.to = r.target
      OBVIOUS
  <2>3. PICK key, m : key = <<x.e.origin, x.e.plugin>> /\ m = (IF key \in DOMAIN loc THEN loc[key] ELSE <<>>)
      OBVIOUS
  <2>4. loc' = Set(loc, key, Set(m, x.e.tag, x.to.path))
      BY <2>1, <2>2, <2>3, Zenon DEF recordOutputPath
  <2>5. PICK l, l1, placed : l = loc /\ l1 = loc' /\ placed = Placed
      OBVIOUS
  <2>6. Paths(l1, placed \cup {x})
      BY <2>3, <2>4, <2>5, PathsGrow
  <2>7. Placed' = placed \cup {x}
      BY <1>5, <2>5
  <2> QED  BY <1>2, <2>5, <2>6, <2>7
<1> QED  BY <1>3, <1>4, <1>5

\* routeDecl preserves the invariant.
LEMMA RouteDeclKeeps ==
    ASSUME PhaseInv, routeDecl
    PROVE  PhaseInv'
<1>0. Shape /\ TypeOK /\ Composing
    BY DEF PhaseInv
<1>1. world \in Worlds /\ target \in Seq(Targets) /\ slotted \in Seq(Targets)
    BY <1>0 DEF Shape
<1>2. /\ IsWorld(world) /\ world.decls \in Seq(Entities) /\ world.slots \in Seq(Entities)
      /\ Len(world.decls) \in Nat /\ Len(world.slots) \in Nat
    BY <1>1, RoutableEntity
<1>3. /\ pc = "route" /\ Len(target) < Len(world.decls)
      /\ UNCHANGED <<world, pc, slotted, files, index>>
    BY DEF routeDecl
<1>4. PICK e, r : /\ e = world.decls[Len(target) + 1] /\ r = composeOrZero(world, e)
                  /\ target' = Append(target, r.target) /\ Keep(e, r)
    BY DEF routeDecl
<1>5. PICK t : t = r.target
    OBVIOUS
<1>6. e \in Entities
  <2>1. PICK n, ds : n = Len(target) /\ ds = world.decls
      OBVIOUS
  <2>2. n \in Nat /\ n < Len(ds) /\ ds \in Seq(Entities) /\ e = ds[n + 1]
      BY <1>1, <1>2, <1>3, <1>4, <2>1, SMTT(60)
  <2> QED  BY <2>2
<1>7. t \in Targets
    BY <1>1, <1>4, <1>5, <1>6 DEF Targets
<1>8. target' \in Seq(Targets) /\ Len(target') = Len(target) + 1
    BY <1>1, <1>4, <1>5, <1>7, SMTT(60)
<1>9. PICK x : x = [e |-> e, to |-> t]
    OBVIOUS
<1>10. Placed' = Placed \cup (IF t # Zero THEN {x} ELSE {})
  <2>1. Routes(world.decls, target') = Routes(world.decls, target) \cup {x}
    <3>1. PICK seq, to, to1 : seq = world.decls /\ to = target /\ to1 = target'
        OBVIOUS
    <3>2. Extended(seq, to, to1, e, t)
        BY <1>1, <1>4, <1>5, <1>7, <3>1 DEF Extended
    <3>3. Routes(seq, to1) = Routes(seq, to) \cup {x}
        BY <1>9, <3>2, RoutesGrow, SMTT(60)
    <3> QED  BY <3>1, <3>3
  <2>2. Placed' = {y \in Routes(world.decls, target') \cup Routes(world.slots, slotted) : y.to # Zero}
      BY <1>3 DEF Placed
  <2>3. x.to = t
      BY <1>9
  <2> QED  BY <2>1, <2>2, <2>3 DEF Placed
<1>11. /\ Honest(world, diags, world.decls, target) /\ Honest(world, diags, world.slots, slotted)
       /\ Paths(loc, Placed)
    BY <1>0, <1>3 DEF Composing
<1>12. /\ diags \subseteq diags'
       /\ r.ambiguous => <<"ambiguous", e.origin, e.plugin>> \in diags'
       /\ Paths(loc', Placed')
    BY <1>4, <1>5, <1>6, <1>9, <1>10, <1>11, KeepKeeps
<1>13. Honest(world, diags', world.decls, target')
  <2>1. PICK w, ds, ds1, seq, to, to1 :
          /\ w = world /\ ds = diags /\ ds1 = diags' /\ seq = world.decls
          /\ to = target /\ to1 = target'
      OBVIOUS
  <2>2. Extended(seq, to, to1, e, t)
      BY <1>1, <1>4, <1>5, <1>7, <2>1 DEF Extended
  <2>3. /\ ds \subseteq ds1 /\ r = composeOrZero(w, e) /\ t = r.target
        /\ r.ambiguous => <<"ambiguous", e.origin, e.plugin>> \in ds1
        /\ Honest(w, ds, seq, to)
      BY <1>4, <1>5, <1>11, <1>12, <2>1
  <2>4. Honest(w, ds1, seq, to1)
      BY <2>2, <2>3, HonestGrows
  <2> QED  BY <2>1, <2>4
<1>14. Honest(world, diags', world.slots, slotted)
    BY <1>11, <1>12 DEF Honest
<1>15. Composing'
    BY <1>3, <1>12, <1>13, <1>14 DEF Composing
<1>16. Shape'
    BY <1>0, <1>3, <1>8 DEF Shape
<1>17. TypeOK'
    BY <1>0, <1>1, <1>2, <1>3, <1>8, SMTT(60) DEF TypeOK, FileKey
<1> QED  BY <1>15, <1>16, <1>17 DEF PhaseInv

\* The file a slot contribution finds or creates.
Filed(r) ==
    LET key == <<r.target.dir, r.target.file>> IN
    IF r.err = "" /\ key \notin DOMAIN files
    THEN files' = Set(files, key, r.target) /\ index' = index \cup {<<r.target, 0>>}
    ELSE UNCHANGED <<files, index>>

\* materialiseOriginSlot preserves the invariant.
LEMMA SlotKeeps ==
    ASSUME PhaseInv, materialiseOriginSlot
    PROVE  PhaseInv'
<1>0. Shape /\ TypeOK /\ Composing
    BY DEF PhaseInv
<1>1. world \in Worlds /\ target \in Seq(Targets) /\ slotted \in Seq(Targets)
    BY <1>0 DEF Shape
<1>2. /\ IsWorld(world) /\ world.decls \in Seq(Entities) /\ world.slots \in Seq(Entities)
      /\ Len(world.decls) \in Nat /\ Len(world.slots) \in Nat
    BY <1>1, RoutableEntity
<1>3. /\ pc = "route" /\ Len(slotted) < Len(world.slots)
      /\ UNCHANGED <<world, pc, target>>
    BY DEF materialiseOriginSlot
<1>4. PICK e, r : /\ e = world.slots[Len(slotted) + 1] /\ r = composeOrZero(world, e)
                  /\ slotted' = Append(slotted, r.target) /\ Keep(e, r)
                  /\ Filed(r)
    BY DEF materialiseOriginSlot, Filed
<1>5. PICK t : t = r.target
    OBVIOUS
<1>6. e \in Entities
  <2>1. PICK n, ds : n = Len(slotted) /\ ds = world.slots
      OBVIOUS
  <2>2. n \in Nat /\ n < Len(ds) /\ ds \in Seq(Entities) /\ e = ds[n + 1]
      BY <1>1, <1>2, <1>3, <1>4, <2>1, SMTT(60)
  <2> QED  BY <2>2
<1>7. t \in Targets
    BY <1>1, <1>4, <1>5, <1>6 DEF Targets
<1>8. slotted' \in Seq(Targets) /\ Len(slotted') = Len(slotted) + 1
    BY <1>1, <1>4, <1>5, <1>7, SMTT(60)
<1>9. PICK x : x = [e |-> e, to |-> t]
    OBVIOUS
<1>10. Placed' = Placed \cup (IF t # Zero THEN {x} ELSE {})
  <2>1. Routes(world.slots, slotted') = Routes(world.slots, slotted) \cup {x}
    <3>1. PICK seq, to, to1 : seq = world.slots /\ to = slotted /\ to1 = slotted'
        OBVIOUS
    <3>2. Extended(seq, to, to1, e, t)
        BY <1>1, <1>4, <1>5, <1>7, <3>1 DEF Extended
    <3>3. Routes(seq, to1) = Routes(seq, to) \cup {x}
        BY <1>9, <3>2, RoutesGrow
    <3> QED  BY <3>1, <3>3
  <2>2. Placed' = {y \in Routes(world.decls, target) \cup Routes(world.slots, slotted') : y.to # Zero}
      BY <1>3 DEF Placed
  <2>3. x.to = t
      BY <1>9
  <2> QED  BY <2>1, <2>2, <2>3 DEF Placed
<1>11. /\ Honest(world, diags, world.decls, target) /\ Honest(world, diags, world.slots, slotted)
       /\ Paths(loc, Placed)
    BY <1>0, <1>3 DEF Composing
<1>12. /\ diags \subseteq diags'
       /\ r.ambiguous => <<"ambiguous", e.origin, e.plugin>> \in diags'
       /\ Paths(loc', Placed')
    BY <1>4, <1>5, <1>6, <1>9, <1>10, <1>11, KeepKeeps
<1>13. Honest(world, diags', world.slots, slotted')
  <2>1. PICK w, ds, ds1, seq, to, to1 :
          /\ w = world /\ ds = diags /\ ds1 = diags' /\ seq = world.slots
          /\ to = slotted /\ to1 = slotted'
      OBVIOUS
  <2>2. Extended(seq, to, to1, e, t)
      BY <1>1, <1>4, <1>5, <1>7, <2>1 DEF Extended
  <2>3. /\ ds \subseteq ds1 /\ r = composeOrZero(w, e) /\ t = r.target
        /\ r.ambiguous => <<"ambiguous", e.origin, e.plugin>> \in ds1
        /\ Honest(w, ds, seq, to)
      BY <1>4, <1>5, <1>11, <1>12, <2>1
  <2>4. Honest(w, ds1, seq, to1)
      BY <2>2, <2>3, HonestGrows
  <2> QED  BY <2>1, <2>4
<1>14. Honest(world, diags', world.decls, target)
    BY <1>11, <1>12 DEF Honest
<1>15. Composing'
    BY <1>3, <1>12, <1>13, <1>14 DEF Composing
<1>16. r.err = "" => t # Zero
    BY <1>4, <1>5, <1>6, Outcome
<1>17. (\A k \in DOMAIN files' : files'[k] # Zero /\ FileKey(files'[k]) = k)
       /\ \A y \in index' : y[1] # Zero /\ y[2] \in 0 .. Len(world.decls)
  <2>1. /\ \A k \in DOMAIN files : files[k] # Zero /\ FileKey(files[k]) = k
        /\ \A y \in index : y[1] # Zero /\ y[2] \in 0 .. Len(world.decls)
      BY <1>0 DEF Shape, TypeOK
  <2>2. PICK key : key = <<t.dir, t.file>>
      OBVIOUS
  <2>3. FileKey(t) = key
      BY <2>2 DEF FileKey
  <2>4. CASE r.err = "" /\ key \notin DOMAIN files
    <3>1. files' = Set(files, key, t) /\ index' = index \cup {<<t, 0>>}
        BY <1>4, <1>5, <2>2, <2>4 DEF Filed
    <3>2. /\ DOMAIN files' = DOMAIN files \cup {key} /\ files'[key] = t
          /\ \A k \in DOMAIN files : k # key => files'[k] = files[k]
        BY <3>1 DEF Set
    <3>3. t # Zero /\ 0 \in 0 .. Len(world.decls)
      <4>1. PICK n : n = Len(world.decls)
          OBVIOUS
      <4>2. n \in Nat
          BY <1>2, <4>1
      <4>3. 0 \in 0 .. n
          BY <4>2, SMTT(60)
      <4> QED  BY <1>16, <2>4, <4>1, <4>3
    <3>4. ASSUME NEW y \in index' PROVE y[1] # Zero /\ y[2] \in 0 .. Len(world.decls)
      <4>1. y \in index \/ y = <<t, 0>>
          BY <3>1
      <4>2. CASE y = <<t, 0>>
          BY <3>3, <4>2
      <4> QED  BY <2>1, <4>1, <4>2
    <3> QED  BY <2>1, <2>3, <3>2, <3>3, <3>4
  <2>5. CASE ~(r.err = "" /\ key \notin DOMAIN files)
    <3>1. files' = files /\ index' = index
        BY <1>4, <1>5, <2>2, <2>5 DEF Filed
    <3> QED  BY <2>1, <3>1
  <2> QED  BY <2>4, <2>5
<1>18. Shape'
    BY <1>1, <1>3, <1>8, <1>17 DEF Shape
<1>19. TypeOK'
  <2>1. /\ pc' = "route" /\ world' = world /\ Len(target') <= Len(world'.decls)
        /\ Len(slotted') <= Len(world'.slots)
      BY <1>0, <1>1, <1>2, <1>3, <1>8, SMTT(60) DEF TypeOK
  <2>2. /\ \A k \in DOMAIN files' : FileKey(files'[k]) = k
        /\ \A y \in index' : y[1] # Zero /\ y[2] \in 0 .. Len(world'.decls)
      BY <1>17, <2>1
  <2> QED  BY <2>1, <2>2 DEF TypeOK, FileKey
<1> QED  BY <1>15, <1>18, <1>19 DEF PhaseInv

\* dispatchOutputPackages preserves the invariant.
LEMMA DispatchKeeps ==
    ASSUME PhaseInv, dispatchOutputPackages
    PROVE  PhaseInv'
<1>0. Shape /\ TypeOK /\ Composing
    BY DEF PhaseInv
<1>1. /\ pc = "route" /\ Len(target) = Len(world.decls) /\ Len(slotted) = Len(world.slots)
      /\ pc' \in {"dispatched", "abandoned"} /\ diags \subseteq diags'
      /\ UNCHANGED <<world, target, slotted, files, rec, last, loc, index>>
    BY DEF dispatchOutputPackages, Routed
<1>2. Placed' = Placed
    BY <1>1 DEF Placed
<1>3. /\ Honest(world, diags, world.decls, target) /\ Honest(world, diags, world.slots, slotted)
      /\ Paths(loc, Placed)
    BY <1>0, <1>1 DEF Composing
<1>4. Honest(world, diags', world.decls, target) /\ Honest(world, diags', world.slots, slotted)
    BY <1>1, <1>3 DEF Honest
<1>5. Composing'
    BY <1>1, <1>2, <1>3, <1>4 DEF Composing
<1>6. Shape'
    BY <1>0, <1>1 DEF Shape
<1>7. TypeOK'
    BY <1>0, <1>1 DEF TypeOK, FileKey
<1> QED  BY <1>5, <1>6, <1>7 DEF PhaseInv

\* The steps of the conflict passes that leave the Targets alone preserve the
\* invariant.
LEMMA PassKeeps ==
    ASSUME PhaseInv, visit \/ EndVisits \/ reportConflicts
    PROVE  PhaseInv'
<1>0. Shape /\ TypeOK /\ Composing
    BY DEF PhaseInv
<1>1. /\ pc \in {"dispatched", "clearing"} /\ pc' \in {"dispatched", "clearing", "enforced"}
      /\ pc' = "dispatched" => pc = "dispatched" /\ diags' = diags
      /\ UNCHANGED <<world, target, slotted, files, rec, last, loc, index>>
    BY DEF visit, EndVisits, reportConflicts
<1>2. Placed' = Placed
    BY <1>1 DEF Placed
<1>3. Composing'
  <2>1. CASE pc' = "dispatched"
      BY <1>0, <1>1, <1>2, <2>1 DEF Composing
  <2>2. CASE pc' # "dispatched"
      BY <1>1, <2>2 DEF Composing
  <2> QED  BY <2>1, <2>2
<1>4. Shape'
    BY <1>0, <1>1 DEF Shape
<1>5. TypeOK'
    BY <1>0, <1>1 DEF TypeOK, FileKey
<1> QED  BY <1>3, <1>4, <1>5 DEF PhaseInv

\* Clearing a Target preserves the invariant.
LEMMA TakeKeeps ==
    ASSUME PhaseInv, take
    PROVE  /\ PhaseInv'
           /\ Len(target') = Len(target)
           /\ \A i \in DOMAIN target :
                target'[i] = IF i = seen + 1 /\ Takes(seen + 1) THEN Zero ELSE target[i]
<1>0. Shape /\ TypeOK
    BY DEF PhaseInv
<1>1. target \in Seq(Targets)
    BY <1>0 DEF Shape
<1>2. PICK bad : bad = IF Takes(seen + 1) THEN {seen + 1} ELSE {}
    OBVIOUS
<1>3. /\ pc = "clearing" /\ pc' = "clearing"
      /\ UNCHANGED <<world, slotted, files, rec, last, loc, index>>
    BY DEF take
<1>4. /\ target' \in Seq(Targets) /\ Len(target') = Len(target)
      /\ \A i \in DOMAIN target : target'[i] = IF i \in bad THEN Zero ELSE target[i]
  <2>1. PICK n : n = Len(target)
      OBVIOUS
  <2>2. n \in Nat /\ DOMAIN target = 1 .. n /\ \A i \in 1 .. n : target[i] \in Targets
      BY <1>1, <2>1, SMTT(60)
  <2>3. Zero \in Targets
      BY DEF Targets
  <2>4. PICK s : s = [i \in 1 .. n |-> IF i \in bad THEN Zero ELSE target[i]]
      OBVIOUS
  <2>5. s \in [1 .. n -> Targets]
      BY <2>2, <2>3, <2>4
  <2>6. s \in Seq(Targets) /\ Len(s) = n
      BY <2>2, <2>5, SMTT(60)
  <2>7. target' = s
    <3>1. target = [i \in 1 .. n |-> target[i]]
        BY <1>1, <2>2, SMTT(60)
    <3>2. CASE Takes(seen + 1)
      <4>1. target' = [target EXCEPT ![seen + 1] = Zero]
          BY <3>2 DEF take
      <4> QED  BY <1>2, <2>2, <2>4, <3>1, <3>2, <4>1
    <3>3. CASE ~Takes(seen + 1)
      <4>1. target' = target
          BY <3>3 DEF take
      <4> QED  BY <1>2, <2>2, <2>4, <3>1, <3>3, <4>1
    <3> QED  BY <3>2, <3>3
  <2> QED  BY <2>1, <2>2, <2>4, <2>6, <2>7
<1>5. Composing'
    BY <1>3 DEF Composing
<1>6. Shape'
    BY <1>0, <1>3, <1>4 DEF Shape
<1>7. TypeOK'
    BY <1>0, <1>3, <1>4 DEF TypeOK, FileKey
<1> QED  BY <1>2, <1>4, <1>5, <1>6, <1>7 DEF PhaseInv

\* RebuildByTarget preserves the invariant.
LEMMA RebuildKeeps ==
    ASSUME PhaseInv, RebuildByTarget
    PROVE  PhaseInv'
<1>0. Shape /\ TypeOK
    BY DEF PhaseInv
<1>1. target \in Seq(Targets) /\ world \in Worlds
    BY <1>0 DEF Shape
<1>2. /\ pc = "enforced" /\ pc' = "done" /\ RebuildIndex
      /\ UNCHANGED <<world, target, slotted, files, rec, last, loc, diags>>
    BY DEF RebuildByTarget
<1>3. ASSUME NEW y \in index' PROVE y[1] # Zero /\ y[2] \in 0 .. Len(world.decls)
  <2>1. PICK n : n = Len(world.decls)
      OBVIOUS
  <2>2. n \in Nat
      BY <1>1, <2>1, RoutableEntity
  <2>3. DOMAIN target = 1 .. n
    <3>1. Len(target) = n
        BY <1>0, <1>2, <2>1 DEF TypeOK
    <3> QED  BY <1>1, <3>1, SMTT(60)
  <2>4. CASE \E k \in DOMAIN files : y = <<files[k], 0>>
    <3>1. PICK k \in DOMAIN files : y = <<files[k], 0>>
        BY <2>4
    <3>2. files[k] # Zero
        BY <1>0 DEF Shape
    <3> QED  BY <2>1, <2>2, <3>1, <3>2, SMTT(60)
  <2>5. CASE \E i \in DOMAIN target : target[i] # Zero /\ y = <<target[i], i>>
    <3>1. PICK i \in 1 .. n : target[i] # Zero /\ y = <<target[i], i>>
        BY <2>3, <2>5
    <3> QED  BY <2>1, <2>2, <3>1, SMTT(60)
  <2>6. \/ \E k \in DOMAIN files : y = <<files[k], 0>>
        \/ \E i \in DOMAIN target : target[i] # Zero /\ y = <<target[i], i>>
      BY <1>2, Zenon DEF RebuildIndex
  <2> QED  BY <2>4, <2>5, <2>6
<1>4. Composing'
    BY <1>2 DEF Composing
<1>5. Shape'
    BY <1>0, <1>2 DEF Shape
<1>6. TypeOK'
    BY <1>0, <1>2, <1>3 DEF TypeOK, FileKey
<1> QED  BY <1>4, <1>5, <1>6 DEF PhaseInv

\* The phase starts in the invariant.
LEMMA PhaseStarts ==
    ASSUME Init
    PROVE  PhaseInv
<1>1. /\ world \in Worlds /\ pc = "route" /\ target = <<>> /\ slotted = <<>>
      /\ files = <<>> /\ loc = <<>> /\ index = {}
    BY DEF Init
<1>2. Len(world.decls) \in Nat /\ Len(world.slots) \in Nat
    BY <1>1, RoutableEntity
<1>3. DOMAIN <<>> = {} /\ Len(<<>>) = 0
    OBVIOUS
<1>4. Shape
    BY <1>1, <1>3 DEF Shape
<1>5. TypeOK
    BY <1>1, <1>2, <1>3, SMTT(60) DEF TypeOK
<1>6. Placed = {}
    BY <1>1, <1>3 DEF Placed, Routes
<1>7. Paths(loc, Placed)
    BY <1>1, <1>3, <1>6 DEF Paths
<1>8. Honest(world, diags, world.decls, target) /\ Honest(world, diags, world.slots, slotted)
    BY <1>1, <1>3 DEF Honest
<1> QED  BY <1>4, <1>5, <1>7, <1>8 DEF PhaseInv, Composing

\* A step that changes nothing preserves the invariant.
LEMMA PhaseStays ==
    ASSUME PhaseInv, UNCHANGED vars
    PROVE  PhaseInv'
<1>1. UNCHANGED <<world, pc, target, slotted, files, rec, last, loc, diags, index>>
    BY DEF vars
<1>2. Placed' = Placed
    BY <1>1 DEF Placed
<1>3. Shape'
    BY <1>1 DEF PhaseInv, Shape
<1>4. TypeOK'
    BY <1>1 DEF PhaseInv, TypeOK, FileKey
<1>5. Composing'
    BY <1>1, <1>2 DEF PhaseInv, Composing
<1> QED  BY <1>3, <1>4, <1>5 DEF PhaseInv

\* The phase routes every entity to the Target composed for it and keeps loc
\* true until the conflicts are cleared.
THEOREM PhaseInvariant == Spec => []PhaseInv
<1>1. Init => PhaseInv
    BY PhaseStarts
<1>2. PhaseInv /\ [Next]_vars => PhaseInv'
  <2> SUFFICES ASSUME PhaseInv, [Next]_vars PROVE PhaseInv'
      OBVIOUS
  <2>1. CASE routeDecl
      BY <2>1, RouteDeclKeeps
  <2>2. CASE materialiseOriginSlot
      BY <2>2, SlotKeeps
  <2>3. CASE dispatchOutputPackages
      BY <2>3, DispatchKeeps
  <2>4. CASE visit \/ EndVisits \/ reportConflicts
      BY <2>4, PassKeeps
  <2>5. CASE take
      BY <2>5, TakeKeeps
  <2>6. CASE RebuildByTarget
      BY <2>6, RebuildKeeps
  <2>7. CASE UNCHANGED vars
      BY <2>7, PhaseStays
  <2> QED  BY <2>1, <2>2, <2>3, <2>4, <2>5, <2>6, <2>7 DEF Next
<1> QED  BY <1>1, <1>2, PTL DEF Spec

-----------------------------------------------------------------------------
(* What the phase promises.                                                *)

\* An entity with a Target, once all are composed.
LEMMA RoutedEntity ==
    ASSUME NEW w \in Worlds, NEW seq \in Seq(Entities), NEW to \in Seq(Targets), Len(to) = Len(seq),
           NEW ds, Honest(w, ds, seq, to), NEW x \in Routes(seq, to)
    PROVE  /\ x.e \in Entities /\ x.to = composeOrZero(w, x.e).target
           /\ composeOrZero(w, x.e).ambiguous => <<"ambiguous", x.e.origin, x.e.plugin>> \in ds
<1>1. PICK i \in DOMAIN to : x = [e |-> seq[i], to |-> to[i]]
    BY DEF Routes
<1>2. seq[i] \in Entities
  <2>1. PICK n : n = Len(to) /\ n = Len(seq)
      OBVIOUS
  <2>2. n \in Nat /\ i \in 1 .. n
      BY <1>1, <2>1, SMTT(60)
  <2> QED  BY <2>1, <2>2, SMTT(60)
<1>3. PICK e : e = seq[i]
    OBVIOUS
<1>4. to[i] = composeOrZero(w, e).target
      /\ (composeOrZero(w, e).ambiguous => <<"ambiguous", e.origin, e.plugin>> \in ds)
    BY <1>1, <1>3 DEF Honest
<1>5. x.e = e /\ x.to = to[i]
    BY <1>1, <1>3
<1> QED  BY <1>2, <1>3, <1>4, <1>5

\* A Target among the placed ones is the one composed for its entity, and where
\* that was ambiguous, it was reported.
LEMMA PlacedEntity ==
    ASSUME PhaseInv, Settled, NEW x \in Placed
    PROVE  /\ IsWorld(world) /\ x.e \in Entities
           /\ x.to = composeOrZero(world, x.e).target
           /\ Sourced(composeOrZero(world, x.e), world, x.e)
           /\ composeOrZero(world, x.e).ambiguous => <<"ambiguous", x.e.origin, x.e.plugin>> \in diags
<1>1. /\ world \in Worlds /\ target \in Seq(Targets) /\ slotted \in Seq(Targets)
      /\ Len(target) = Len(world.decls) /\ Len(slotted) = Len(world.slots)
      /\ Honest(world, diags, world.decls, target) /\ Honest(world, diags, world.slots, slotted)
    BY DEF PhaseInv, Shape, TypeOK, Composing, Settled
<1>2. IsWorld(world) /\ world.decls \in Seq(Entities) /\ world.slots \in Seq(Entities)
    BY <1>1, RoutableEntity
<1>3. x.to # Zero /\ (x \in Routes(world.decls, target) \/ x \in Routes(world.slots, slotted))
    BY DEF Placed
<1>4. PICK w, ds : w = world /\ ds = diags
    OBVIOUS
<1>5. /\ x.e \in Entities /\ x.to = composeOrZero(w, x.e).target
      /\ composeOrZero(w, x.e).ambiguous => <<"ambiguous", x.e.origin, x.e.plugin>> \in ds
  <2>1. CASE x \in Routes(world.decls, target)
    <3>1. PICK seq, to : seq = world.decls /\ to = target
        OBVIOUS
    <3> QED  BY <1>1, <1>2, <1>4, <2>1, <3>1, RoutedEntity
  <2>2. CASE x \in Routes(world.slots, slotted)
    <3>1. PICK seq, to : seq = world.slots /\ to = slotted
        OBVIOUS
    <3> QED  BY <1>1, <1>2, <1>4, <2>2, <3>1, RoutedEntity
  <2> QED  BY <1>3, <2>1, <2>2
<1>6. PICK e, c : e = x.e /\ c = composeOrZero(w, e)
    OBVIOUS
<1>7. c.target # Zero /\ e \in Entities
    BY <1>3, <1>5, <1>6
<1>8. Sourced(c, w, e)
    BY <1>6, <1>7, Outcome
<1> QED  BY <1>2, <1>4, <1>5, <1>6, <1>8

\* Spec implies []TypeOK: the shape of the phase's state, and that the zero
\* Target is never indexed by FileFor or RebuildByTarget.
THEOREM LayoutTypes == Spec => []TypeOK
<1>1. PhaseInv => TypeOK
    BY DEF PhaseInv
<1> QED  BY <1>1, PhaseInvariant, PTL

\* selectOutDirective: where the order of the directives decides a Target, the
\* ambiguity is reported, for every set of directives.
THEOREM OrderIsReported == Spec => []OrderDecidesNothingSilently
<1>1. PhaseInv => OrderDecidesNothingSilently
  <2> SUFFICES ASSUME PhaseInv, Settled, NEW x \in Placed,
                      x.to # composeOrZero(Backwards(world), x.e).target
               PROVE  <<"ambiguous", x.e.origin, x.e.plugin>> \in diags
      BY DEF OrderDecidesNothingSilently
  <2>1. PICK w, e : w = world /\ e = x.e
      OBVIOUS
  <2>2. /\ IsWorld(w) /\ e \in Entities /\ x.to = composeOrZero(w, e).target
        /\ Sourced(composeOrZero(w, e), w, e)
        /\ composeOrZero(w, e).ambiguous => <<"ambiguous", e.origin, e.plugin>> \in diags
      BY <2>1, PlacedEntity
  <2>3. CASE composeOrZero(w, e).ambiguous
      BY <2>1, <2>2, <2>3
  <2>4. CASE ~composeOrZero(w, e).ambiguous
    <3>1. composeOrZero(Backwards(w), e) = composeOrZero(w, e)
        BY <2>2, <2>4, EntityOrder
    <3> QED  BY <2>1, <2>2, <3>1
  <2> QED  BY <2>3, <2>4
<1> QED  BY <1>1, PhaseInvariant, PTL

\* LayoutPolicyForTag, PluginOutputFilename and selectOutDirective keep one
\* plugin's settings, flags and directives from every other plugin's outputs.
THEOREM PluginsAreIsolated == Spec => []OtherPluginsAreUnaffected
<1>1. PhaseInv => OtherPluginsAreUnaffected
  <2> SUFFICES ASSUME PhaseInv, Settled, NEW x \in Placed
               PROVE  x.to = composeOrZero(Alone(world, x.e.plugin), x.e).target
      BY DEF OtherPluginsAreUnaffected
  <2>1. PICK w, e : w = world /\ e = x.e
      OBVIOUS
  <2>2. /\ IsWorld(w) /\ e \in Entities /\ x.to = composeOrZero(w, e).target
        /\ Sourced(composeOrZero(w, e), w, e)
        /\ composeOrZero(w, e).ambiguous => <<"ambiguous", e.origin, e.plugin>> \in diags
      BY <2>1, PlacedEntity
  <2>3. e.origin \in DOMAIN Origins
      BY <2>2 DEF Sourced
  <2>4. composeOrZero(Alone(w, e.plugin), e) = composeOrZero(w, e)
      BY <2>2, <2>3, EntityAlone
  <2> QED  BY <2>1, <2>2, <2>4
<1> QED  BY <1>1, PhaseInvariant, PTL

\* splitOutDirectivePath cleans every path before composeTarget joins it: a
\* file lies in or below the directory its policy names, however many ".." a
\* directive or a flag is written with.
THEOREM TreesAreKept == Spec => []OutputsStayInTheirTree
<1>1. PhaseInv => OutputsStayInTheirTree
  <2> SUFFICES ASSUME PhaseInv, Settled, NEW x \in Placed, NEW policy,
                      policy = LayoutPolicyForTag(world, x.e.plugin, x.e.tag)
               PROVE  IsPrefix(IF policy.layout = "centralised" THEN Centralised(policy).dir
                               ELSE Origins[x.e.origin].dir, x.to.dir)
      BY DEF OutputsStayInTheirTree
  <2>1. PICK w, e, c : w = world /\ e = x.e /\ c = composeOrZero(w, e)
      OBVIOUS
  <2>2. IsWorld(w) /\ e \in Entities /\ x.to = c.target /\ Sourced(c, w, e)
    <3>1. /\ IsWorld(world) /\ x.e \in Entities
          /\ x.to = composeOrZero(world, x.e).target
          /\ Sourced(composeOrZero(world, x.e), world, x.e)
          /\ composeOrZero(world, x.e).ambiguous
                => <<"ambiguous", x.e.origin, x.e.plugin>> \in diags
        BY PlacedEntity
    <3> QED  BY <2>1, <3>1
  <2>3. IsPrefix(BaseDir(LayoutPolicyForTag(w, e.plugin, e.tag), e.origin), c.target.dir)
      BY <2>2, EntityTree
  <2>4. IsPrefix(BaseDir(policy, e.origin), x.to.dir)
      BY <2>1, <2>2, <2>3
  <2> QED  BY <2>1, <2>4 DEF BaseDir
<1> QED  BY <1>1, PhaseInvariant, PTL

\* composeTarget refuses an unscoped directive that would collapse a plugin's
\* outputs, so that two of them meet in a file only where the user names it or
\* the plugin gives both one suffix.
THEOREM OutputsAreApart == Spec => []OutputsStayApart
<1>1. PhaseInv => OutputsStayApart
  <2> SUFFICES ASSUME PhaseInv, Settled, NEW x \in Placed, NEW y \in Placed,
                      x.e.plugin = y.e.plugin, x.e.origin = y.e.origin, x.e.tag # y.e.tag,
                      FileKey(x.to) = FileKey(y.to), ~Named(x.e), ~Named(y.e),
                      resolveSuffix(x.e.plugin, x.e.tag) # resolveSuffix(y.e.plugin, y.e.tag)
               PROVE  FALSE
      BY DEF OutputsStayApart
  <2>1. PICK w, e, c : w = world /\ e = x.e /\ c = composeOrZero(w, e)
      OBVIOUS
  <2>2. PICK g, d : g = y.e /\ d = composeOrZero(w, g)
      OBVIOUS
  <2>3. e \in Entities /\ x.to = c.target /\ Sourced(c, w, e)
    <3>1. /\ IsWorld(world) /\ x.e \in Entities
          /\ x.to = composeOrZero(world, x.e).target
          /\ Sourced(composeOrZero(world, x.e), world, x.e)
          /\ composeOrZero(world, x.e).ambiguous
                => <<"ambiguous", x.e.origin, x.e.plugin>> \in diags
        BY PlacedEntity
    <3> QED  BY <2>1, <3>1
  <2>4. g \in Entities /\ y.to = d.target /\ Sourced(d, w, g)
    <3>1. /\ IsWorld(world) /\ y.e \in Entities
          /\ y.to = composeOrZero(world, y.e).target
          /\ Sourced(composeOrZero(world, y.e), world, y.e)
          /\ composeOrZero(world, y.e).ambiguous
                => <<"ambiguous", y.e.origin, y.e.plugin>> \in diags
        BY PlacedEntity
    <3> QED  BY <2>1, <2>2, <3>1
  <2>5. PICK p, o : p = e.plugin /\ p = g.plugin /\ o = e.origin /\ o = g.origin
      BY <2>1, <2>2
  <2>6. Len(Outputs[p]) > 1 => Unnamed(w, p, e.tag, o) /\ Unnamed(w, p, g.tag, o)
      BY <2>1, <2>2, <2>5 DEF Named, Unnamed
  <2>7. e.tag # g.tag /\ Separate(w, p, o, e.tag, g.tag)
      BY <2>1, <2>2, <2>5, <2>6 DEF Separate
  <2>8. c.target.file # d.target.file
      BY <2>3, <2>4, <2>5, <2>7, EntitiesApart
  <2>9. x.to.file = y.to.file
      BY DEF FileKey
  <2> QED  BY <2>3, <2>4, <2>8, <2>9
<1> QED  BY <1>1, PhaseInvariant, PTL

\* recordOutputPath: what dispatchOutputPackages hands a plugin is the import
\* path of a routed entity, and no routed tag is missing.
THEOREM PathsAreTrue == Spec => []OutputPathsAreTrue
<1>1. PhaseInv => OutputPathsAreTrue
  <2> SUFFICES ASSUME PhaseInv, Settled
               PROVE  /\ \A k \in DOMAIN loc : \A tag \in DOMAIN loc[k] : Backed(loc, Placed, k, tag)
                      /\ \A x \in Placed : Told(loc, x)
      BY DEF OutputPathsAreTrue, Backed, Told
  <2> QED  BY DEF PhaseInv, Composing, Settled, Paths
<1> QED  BY <1>1, PhaseInvariant, PTL

-----------------------------------------------------------------------------
(* The two passes over conflicts.                                          *)

Key(i) == FileKey(RoutedTo(i))
Pkg(i) == RoutedTo(i).pkg

\* What pass one knows of the first n declarations.
Collected(n) ==
    /\ \A k \in DOMAIN firstPkg : \E i \in 1 .. n : Claims(i) /\ Key(i) = k /\ Pkg(i) = firstPkg[k]
    /\ \A i \in 1 .. n : Claims(i) =>
        Key(i) \in DOMAIN firstPkg /\ (Pkg(i) = firstPkg[Key(i)] \/ Key(i) \in conflicted)
    /\ \A k \in conflicted : \E i, j \in 1 .. n : Disagree(i, j) /\ Key(i) = k

\* A declaration is in a file pass one has collected.
Bad(i) == Meets(i) /\ Key(i) \in conflicted

\* Pass one has collected what it met; pass two knows every conflict and has
\* cleared the sides it met.
Passes ==
    /\ seen \in 0 .. Len(target)
    /\ pc \in {"route", "abandoned"} => seen = 0 /\ firstPkg = <<>> /\ conflicted = {}
    /\ pc = "dispatched" => Collected(seen)
    /\ pc = "clearing" => \A i \in DOMAIN target :
        /\ Bad(i) <=> \E j \in DOMAIN target : Disagree(i, j)
        /\ target[i] = IF i <= seen /\ Bad(i) THEN Zero ELSE RoutedTo(i)
    /\ ConflictsLoseEverySide

ConflictInv == PhaseInv /\ Passes

\* What a declaration claims depends on the world alone.
LEMMA ClaimsStay ==
    ASSUME world' = world
    PROVE  /\ \A i : RoutedTo(i)' = RoutedTo(i) /\ Key(i)' = Key(i) /\ Pkg(i)' = Pkg(i)
           /\ \A i : (Meets(i)' <=> Meets(i)) /\ (Claims(i)' <=> Claims(i))
           /\ \A i, j : Disagree(i, j)' <=> Disagree(i, j)
<1>1. \A i : RoutedTo(i)' = RoutedTo(i)
    BY DEF RoutedTo
<1>2. \A i : Meets(i)' <=> Meets(i)
    BY DEF Meets
<1>3. \A i : Key(i)' = Key(i) /\ Pkg(i)' = Pkg(i)
    BY <1>1 DEF Key, Pkg
<1>4. \A i : Claims(i)' <=> Claims(i)
    BY <1>1, <1>2 DEF Claims
<1>5. \A i, j : Disagree(i, j)' <=> Disagree(i, j)
    BY <1>1, <1>4 DEF Disagree
<1> QED  BY <1>1, <1>2, <1>3, <1>4, <1>5

\* Two declarations of one file disagree when their packages differ.
LEMMA DisagreeIs ==
    \A i, j : Disagree(i, j) <=> Claims(i) /\ Claims(j) /\ Key(i) = Key(j) /\ Pkg(i) # Pkg(j)
BY DEF Disagree, Key, Pkg

\* A file of the second pass is one that was claimed.
LEMMA KeyClaims ==
    ASSUME NEW i, NEW j, Claims(j), Meets(i), Key(i) = Key(j)
    PROVE  Claims(i)
<1>1. RoutedTo(i).dir = RoutedTo(j).dir /\ RoutedTo(i).file = RoutedTo(j).file
    BY DEF Key, FileKey
<1> QED  BY <1>1 DEF Claims

\* Having compared every declaration with the first of its file only, pass one
\* knows of every declaration whether any other disagrees with it.
LEMMA CollectedIsAll ==
    ASSUME NEW n, Collected(n), NEW i \in 1 .. n
    PROVE  Bad(i) <=> \E j \in 1 .. n : Disagree(i, j)
<1>1. ASSUME Bad(i) PROVE \E j \in 1 .. n : Disagree(i, j)
  <2>1. PICK a, b : /\ a \in 1 .. n /\ b \in 1 .. n
                    /\ Disagree(a, b) /\ Key(a) = Key(i)
      BY <1>1 DEF Bad, Collected
  <2>2. Claims(a) /\ Claims(b) /\ Key(b) = Key(i) /\ Pkg(a) # Pkg(b)
      BY <2>1, DisagreeIs
  <2>3. Claims(i)
      BY <1>1, <2>1, <2>2, KeyClaims DEF Bad
  <2> QED  BY <2>1, <2>2, <2>3, DisagreeIs
<1>2. ASSUME NEW j \in 1 .. n, Disagree(i, j) PROVE Bad(i)
  <2>1. Claims(i) /\ Claims(j) /\ Key(i) = Key(j) /\ Pkg(i) # Pkg(j)
      BY <1>2, DisagreeIs
  <2>2. Key(i) \in conflicted
      BY <2>1 DEF Collected
  <2> QED  BY <2>1, <2>2 DEF Bad, Claims
<1> QED  BY <1>1, <1>2

\* While the Targets are the composed ones.
LEMMA TargetsComposed ==
    ASSUME PhaseInv, pc = "dispatched"
    PROVE  \A i \in DOMAIN target : target[i] = RoutedTo(i)
BY DEF PhaseInv, Composing, Honest, RoutedTo

LEMMA TargetLength ==
    ASSUME PhaseInv
    PROVE  Len(target) \in Nat /\ DOMAIN target = 1 .. Len(target)
<1>1. target \in Seq(Targets)
    BY DEF PhaseInv, Shape
<1> QED  BY <1>1, SMTT(60)

\* Nothing is cleared before the passes end.
LEMMA NotEnforced ==
    ASSUME pc \notin {"enforced", "done"}
    PROVE  ConflictsLoseEverySide
BY DEF ConflictsLoseEverySide

\* Routing and the dispatch know of no conflict yet.
LEMMA RoutingPasses ==
    ASSUME ConflictInv, routeDecl \/ materialiseOriginSlot \/ dispatchOutputPackages,
           Len(target') \in Nat
    PROVE  Passes'
<1>1. /\ pc = "route" /\ pc' \in {"route", "dispatched", "abandoned"}
      /\ UNCHANGED <<seen, firstPkg, conflicted>>
    BY DEF routeDecl, materialiseOriginSlot, dispatchOutputPackages, Routed, claims
<1>2. seen = 0 /\ firstPkg = <<>> /\ conflicted = {}
    BY <1>1 DEF ConflictInv, Passes
<1>3. seen' \in 0 .. Len(target')
    BY <1>1, <1>2, SMTT(60)
<1>4. Collected(seen)'
  <2>1. DOMAIN firstPkg' = {} /\ conflicted' = {} /\ 1 .. seen' = {}
      BY <1>1, <1>2, SMTT(60)
  <2> QED  BY <2>1 DEF Collected
<1>5. ConflictsLoseEverySide'
    BY <1>1 DEF ConflictsLoseEverySide
<1> QED  BY <1>1, <1>2, <1>3, <1>4, <1>5 DEF Passes

\* A declaration that pass one meets.
LEMMA VisitPasses ==
    ASSUME ConflictInv, visit
    PROVE  Passes'
<1>1. PhaseInv /\ Passes
    BY DEF ConflictInv
<1>2. /\ pc = "dispatched" /\ pc' = "dispatched" /\ seen < Len(target) /\ seen' = seen + 1
      /\ world' = world /\ target' = target
    BY DEF visit
<1>3. /\ seen \in Nat /\ Len(target) \in Nat /\ DOMAIN target = 1 .. Len(target)
      /\ Collected(seen)
    BY <1>1, <1>2, TargetLength, SMTT(60) DEF Passes
<1>4. seen' \in 0 .. Len(target') /\ seen + 1 \in DOMAIN target
    BY <1>2, <1>3, SMTT(60)
<1>5. PICK m, k, p : m = seen + 1 /\ k = Key(m) /\ p = Pkg(m)
    OBVIOUS
<1>6. target[m] = RoutedTo(m)
    BY <1>1, <1>2, <1>4, <1>5, TargetsComposed
<1>7. /\ firstPkg' = IF Claims(m) /\ k \notin DOMAIN firstPkg THEN Set(firstPkg, k, p) ELSE firstPkg
      /\ conflicted' = IF Claims(m) /\ k \in DOMAIN firstPkg /\ firstPkg[k] # p
                       THEN conflicted \cup {k} ELSE conflicted
    BY <1>5, <1>6 DEF visit, Claims, Key, Pkg
<1>8. 1 .. seen' = 1 .. seen \cup {m}
    BY <1>2, <1>3, <1>5, SMTT(60)
<1>9. /\ \A i : Key(i)' = Key(i) /\ Pkg(i)' = Pkg(i) /\ (Claims(i)' <=> Claims(i))
      /\ \A i, j : Disagree(i, j)' <=> Disagree(i, j)
    BY <1>2, ClaimsStay
<1>10. /\ DOMAIN firstPkg \subseteq DOMAIN firstPkg'
       /\ \A x \in DOMAIN firstPkg : firstPkg'[x] = firstPkg[x]
       /\ \A x \in DOMAIN firstPkg' : x \in DOMAIN firstPkg \/ (Claims(m) /\ x = k /\ firstPkg'[x] = p)
       /\ Claims(m) => k \in DOMAIN firstPkg' /\ (k \notin DOMAIN firstPkg => firstPkg'[k] = p)
    BY <1>7 DEF Set
<1>11. \A x \in DOMAIN firstPkg' : \E i \in 1 .. seen' : Claims(i) /\ Key(i) = x /\ Pkg(i) = firstPkg'[x]
    BY <1>3, <1>5, <1>8, <1>10 DEF Collected
<1>12. conflicted \subseteq conflicted' /\ \A x \in conflicted' : x \in conflicted \/ (Claims(m) /\ x = k
            /\ k \in DOMAIN firstPkg /\ firstPkg[k] # p)
    BY <1>7
<1>13. \A i \in 1 .. seen' : Claims(i) =>
            Key(i) \in DOMAIN firstPkg' /\ (Pkg(i) = firstPkg'[Key(i)] \/ Key(i) \in conflicted')
  <2> SUFFICES ASSUME NEW i \in 1 .. seen', Claims(i)
               PROVE  Key(i) \in DOMAIN firstPkg' /\ (Pkg(i) = firstPkg'[Key(i)] \/ Key(i) \in conflicted')
      OBVIOUS
  <2>1. CASE i \in 1 .. seen
      BY <2>1, <1>3, <1>10, <1>12 DEF Collected
  <2>2. CASE i = m
      BY <2>2, <1>5, <1>7, <1>10
  <2> QED  BY <1>8, <2>1, <2>2
<1>14. \A x \in conflicted' : \E i, j \in 1 .. seen' : Disagree(i, j) /\ Key(i) = x
  <2> SUFFICES ASSUME NEW x \in conflicted'
               PROVE  \E i, j \in 1 .. seen' : Disagree(i, j) /\ Key(i) = x
      OBVIOUS
  <2>1. CASE x \in conflicted
      BY <2>1, <1>3, <1>8 DEF Collected
  <2>2. CASE Claims(m) /\ x = k /\ k \in DOMAIN firstPkg /\ firstPkg[k] # p
    <3>1. PICK i \in 1 .. seen : Claims(i) /\ Key(i) = k /\ Pkg(i) = firstPkg[k]
        BY <2>2, <1>3 DEF Collected
    <3>2. Disagree(i, m)
        BY <2>2, <3>1, <1>5, DisagreeIs
    <3> QED  BY <2>2, <3>1, <3>2, <1>8
  <2> QED  BY <1>12, <2>1, <2>2
<1>15. Collected(seen)'
    BY <1>9, <1>11, <1>13, <1>14 DEF Collected
<1>16. ConflictsLoseEverySide'
    BY <1>2 DEF ConflictsLoseEverySide
<1> QED  BY <1>2, <1>4, <1>15, <1>16 DEF Passes

\* The end of pass one.
LEMMA EndVisitsPasses ==
    ASSUME ConflictInv, EndVisits
    PROVE  Passes'
<1>1. PhaseInv /\ Passes
    BY DEF ConflictInv
<1>2. /\ pc = "dispatched" /\ seen = Len(target) /\ seen' = 0
      /\ pc' = IF conflicted = {} THEN "enforced" ELSE "clearing"
      /\ UNCHANGED <<world, target, conflicted>>
    BY DEF EndVisits
<1>3. Len(target) \in Nat /\ DOMAIN target = 1 .. Len(target) /\ Collected(seen)
    BY <1>1, <1>2, TargetLength DEF Passes
<1>4. /\ \A i : RoutedTo(i)' = RoutedTo(i) /\ Key(i)' = Key(i) /\ (Meets(i)' <=> Meets(i))
      /\ \A i, j : Disagree(i, j)' <=> Disagree(i, j)
    BY <1>2, ClaimsStay
<1>5. \A i \in DOMAIN target : Bad(i) <=> \E j \in DOMAIN target : Disagree(i, j)
    BY <1>2, <1>3, CollectedIsAll
<1>6. \A i \in DOMAIN target : target[i] = RoutedTo(i)
    BY <1>1, <1>2, TargetsComposed
<1>7. seen' \in 0 .. Len(target')
    BY <1>2, <1>3, SMTT(60)
<1>8. \A i : Bad(i)' <=> Bad(i)
    BY <1>2, <1>4 DEF Bad
<1>9. CASE conflicted = {}
  <2>1. \A i \in DOMAIN target : ~ \E j \in DOMAIN target : Disagree(i, j)
      BY <1>5, <1>9 DEF Bad
  <2>2. ConflictsLoseEverySide'
      BY <2>1, <1>2, <1>4, <1>6 DEF ConflictsLoseEverySide
  <2> QED  BY <2>2, <1>2, <1>7, <1>9 DEF Passes
<1>10. CASE conflicted # {}
  <2>1. ConflictsLoseEverySide'
      BY <1>2, <1>10 DEF ConflictsLoseEverySide
  <2>2. \A i \in DOMAIN target : ~ (i <= 0)
      BY <1>3, SMTT(60)
  <2>3. \A i \in DOMAIN target' : target'[i] = IF i <= seen' /\ Bad(i)' THEN Zero ELSE RoutedTo(i)'
      BY <2>2, <1>2, <1>4, <1>6
  <2>4. \A i \in DOMAIN target' : Bad(i)' <=> \E j \in DOMAIN target' : Disagree(i, j)'
      BY <1>2, <1>4, <1>5, <1>8
  <2> QED  BY <2>1, <2>3, <2>4, <1>2, <1>7, <1>10 DEF Passes
<1> QED  BY <1>9, <1>10

\* A declaration that pass two meets.
LEMMA TakePasses ==
    ASSUME ConflictInv, take
    PROVE  Passes'
<1>1. PhaseInv /\ Passes
    BY DEF ConflictInv
<1>2. /\ pc = "clearing" /\ pc' = "clearing" /\ seen < Len(target) /\ seen' = seen + 1
      /\ UNCHANGED <<world, conflicted>>
    BY DEF take
<1>3. /\ Len(target') = Len(target)
      /\ \A i \in DOMAIN target :
            target'[i] = IF i = seen + 1 /\ Takes(seen + 1) THEN Zero ELSE target[i]
      /\ PhaseInv'
    BY <1>1, TakeKeeps
<1>4. /\ Len(target) \in Nat /\ DOMAIN target = 1 .. Len(target) /\ seen \in Nat
      /\ DOMAIN target' = DOMAIN target
  <2>1. Len(target) \in Nat /\ DOMAIN target = 1 .. Len(target)
      BY <1>1, TargetLength
  <2>2. seen \in Nat
      BY <2>1, <1>1, SMTT(60) DEF Passes
  <2>3. target' \in Seq(Targets)
      BY <1>3 DEF PhaseInv, Shape
  <2>4. DOMAIN target' = 1 .. Len(target')
      BY <2>3, SMTT(60)
  <2> QED  BY <2>1, <2>2, <2>4, <1>3
<1>5. seen' \in 0 .. Len(target') /\ seen + 1 \in DOMAIN target
    BY <1>2, <1>3, <1>4, SMTT(60)
<1>6. /\ \A i : RoutedTo(i)' = RoutedTo(i) /\ Key(i)' = Key(i) /\ (Meets(i)' <=> Meets(i))
      /\ \A i, j : Disagree(i, j)' <=> Disagree(i, j)
    BY <1>2, ClaimsStay
<1>7. \A i : Bad(i)' <=> Bad(i)
    BY <1>2, <1>6 DEF Bad
<1>8. \A i \in DOMAIN target :
        /\ Bad(i) <=> \E j \in DOMAIN target : Disagree(i, j)
        /\ target[i] = IF i <= seen /\ Bad(i) THEN Zero ELSE RoutedTo(i)
    BY <1>1, <1>2 DEF Passes
<1>9. PICK m : m = seen + 1
    OBVIOUS
<1>10. Takes(m) <=> Bad(m)
  <2>1. ~ (m <= seen)
      BY <1>4, <1>9, SMTT(60)
  <2>2. target[m] = RoutedTo(m)
      BY <2>1, <1>5, <1>8, <1>9
  <2> QED  BY <2>2 DEF Takes, Bad, Key
<1>11. \A i \in DOMAIN target : i <= seen' <=> i <= seen \/ i = m
    BY <1>2, <1>4, <1>9, SMTT(60)
<1>12. ASSUME NEW i \in DOMAIN target
       PROVE  target'[i] = IF i <= seen' /\ Bad(i) THEN Zero ELSE RoutedTo(i)
  <2>1. target'[i] = IF i = m /\ Takes(m) THEN Zero ELSE target[i]
      BY <1>3, <1>9
  <2>2. target[i] = IF i <= seen /\ Bad(i) THEN Zero ELSE RoutedTo(i)
      BY <1>8
  <2>3. i <= seen' <=> i <= seen \/ i = m
      BY <1>11
  <2> QED  BY <2>1, <2>2, <2>3, <1>10
<1>13. ConflictsLoseEverySide'
    BY <1>2 DEF ConflictsLoseEverySide
<1>14. \A i \in DOMAIN target' : /\ Bad(i)' <=> \E j \in DOMAIN target' : Disagree(i, j)'
                                 /\ target'[i] = IF i <= seen' /\ Bad(i)' THEN Zero ELSE RoutedTo(i)'
    BY <1>4, <1>6, <1>7, <1>8, <1>12
<1> QED  BY <1>2, <1>5, <1>13, <1>14 DEF Passes

\* The end of pass two.
LEMMA ReportPasses ==
    ASSUME ConflictInv, reportConflicts
    PROVE  Passes'
<1>1. PhaseInv /\ Passes
    BY DEF ConflictInv
<1>2. /\ pc = "clearing" /\ pc' = "enforced" /\ seen = Len(target)
      /\ diags' = diags \cup {<<"conflict", key>> : key \in conflicted}
      /\ UNCHANGED <<world, target, seen>>
    BY DEF reportConflicts, claims
<1>3. Len(target) \in Nat /\ DOMAIN target = 1 .. Len(target)
    BY <1>1, TargetLength
<1>4. /\ \A i : RoutedTo(i)' = RoutedTo(i)
      /\ \A i, j : Disagree(i, j)' <=> Disagree(i, j)
    BY <1>2, ClaimsStay
<1>5. \A i \in DOMAIN target : i <= seen
    BY <1>2, <1>3, SMTT(60)
<1>6. ASSUME NEW i \in DOMAIN target
      PROVE  IF \E j \in DOMAIN target : Disagree(i, j)
             THEN target[i] = Zero /\ <<"conflict", FileKey(RoutedTo(i))>> \in diags'
             ELSE target[i] = RoutedTo(i)
  <2>1. /\ Bad(i) <=> \E j \in DOMAIN target : Disagree(i, j)
        /\ target[i] = IF Bad(i) THEN Zero ELSE RoutedTo(i)
      BY <1>1, <1>2, <1>5 DEF Passes
  <2>2. Bad(i) => <<"conflict", FileKey(RoutedTo(i))>> \in diags'
      BY <1>2 DEF Bad, Key
  <2> QED  BY <2>1, <2>2
<1>7. ConflictsLoseEverySide'
    BY <1>2, <1>4, <1>6 DEF ConflictsLoseEverySide
<1>8. seen' \in 0 .. Len(target')
    BY <1>1, <1>2 DEF Passes
<1> QED  BY <1>2, <1>7, <1>8 DEF Passes

\* A step after the passes, or none.
LEMMA OtherPasses ==
    ASSUME ConflictInv, RebuildByTarget \/ UNCHANGED vars
    PROVE  Passes'
<1>1. /\ UNCHANGED <<world, target, diags, seen, firstPkg, conflicted>>
      /\ pc' = pc \/ (pc = "enforced" /\ pc' = "done")
    BY DEF RebuildByTarget, vars, claims
<1>2. /\ \A i : RoutedTo(i)' = RoutedTo(i) /\ Key(i)' = Key(i) /\ Pkg(i)' = Pkg(i)
      /\ \A i : (Meets(i)' <=> Meets(i)) /\ (Claims(i)' <=> Claims(i))
      /\ \A i, j : Disagree(i, j)' <=> Disagree(i, j)
    BY <1>1, ClaimsStay
<1>3. Passes
    BY DEF ConflictInv
<1>4. ConflictsLoseEverySide'
    BY <1>1, <1>2, <1>3 DEF Passes, ConflictsLoseEverySide
<1>5. pc' = "dispatched" => Collected(seen)'
    BY <1>1, <1>2, <1>3 DEF Passes, Collected
<1>6. pc' = "clearing" => \A i \in DOMAIN target' :
        /\ Bad(i)' <=> \E j \in DOMAIN target' : Disagree(i, j)'
        /\ target'[i] = IF i <= seen' /\ Bad(i)' THEN Zero ELSE RoutedTo(i)'
  <2>1. \A i : Bad(i)' <=> Bad(i)
      BY <1>1, <1>2 DEF Bad
  <2> QED  BY <2>1, <1>1, <1>2, <1>3 DEF Passes
<1>7. /\ seen' \in 0 .. Len(target')
      /\ pc' \in {"route", "abandoned"} => seen' = 0 /\ firstPkg' = <<>> /\ conflicted' = {}
    BY <1>1, <1>3 DEF Passes
<1> QED  BY <1>4, <1>5, <1>6, <1>7 DEF Passes

\* The two passes of enforceOneFileOnePackage together take the file from
\* every declaration that disagrees with another about its package, report it,
\* and leave every other declaration its Target.
THEOREM ConflictsLoseAll == Spec => []ConflictsLoseEverySide
<1>1. Init => Passes
  <2> SUFFICES ASSUME Init PROVE Passes
      OBVIOUS
  <2>1. pc = "route" /\ seen = 0 /\ firstPkg = <<>> /\ conflicted = {} /\ target = <<>>
      BY DEF Init
  <2>2. seen \in 0 .. Len(target)
      BY <2>1, SMTT(60)
  <2> QED  BY <2>1, <2>2, NotEnforced DEF Passes
<1>2. PhaseInv /\ PhaseInv' /\ Passes /\ [Next]_vars => Passes'
  <2> SUFFICES ASSUME PhaseInv, PhaseInv', Passes, [Next]_vars PROVE Passes'
      OBVIOUS
  <2>1. ConflictInv
      BY DEF ConflictInv
  <2>2. CASE routeDecl \/ materialiseOriginSlot \/ dispatchOutputPackages
    <3>1. target' \in Seq(Targets)
        BY DEF PhaseInv, Shape
    <3>2. Len(target') \in Nat
        BY <3>1, SMTT(60)
    <3> QED  BY <2>1, <2>2, <3>2, RoutingPasses
  <2>3. CASE visit
      BY <2>1, <2>3, VisitPasses
  <2>4. CASE EndVisits
      BY <2>1, <2>4, EndVisitsPasses
  <2>5. CASE take
      BY <2>1, <2>5, TakePasses
  <2>6. CASE reportConflicts
      BY <2>1, <2>6, ReportPasses
  <2>7. CASE RebuildByTarget \/ UNCHANGED vars
      BY <2>1, <2>7, OtherPasses
  <2> QED  BY <2>2, <2>3, <2>4, <2>5, <2>6, <2>7 DEF Next
<1>3. Passes => ConflictsLoseEverySide
    BY DEF Passes
<1> QED  BY <1>1, <1>2, <1>3, PhaseInvariant, PTL DEF Spec
=============================================================================
