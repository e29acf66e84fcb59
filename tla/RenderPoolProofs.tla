-------------------------- MODULE RenderPoolProofs --------------------------
(***************************************************************************)
(* The Go backend, for every list of targets and every number of workers.  *)
(* First the import set: every method keeps it in order, so no two imports *)
(* of a file share a name (ImportFile).  Then one render: its loops keep   *)
(* the set in order and every reference bound.  Then the pool: it          *)
(* implements SequentialRender, so what holds of a target rendered by      *)
(* itself holds of every file of a run.                                    *)
(***************************************************************************)
EXTENDS RenderPool, ImportFile, FiniteSetTheorems, WellFoundedInduction, TLAPS

USE ZenonT(10), SMTT(60)

-----------------------------------------------------------------------------
(* The import set, whoever uses it.                                        *)

IsSet(s) ==
    \E self, order, aliases, explicit, used, lastSfx :
        s = [self |-> self, order |-> order, aliases |-> aliases,
             explicit |-> explicit, used |-> used, lastSfx |-> lastSfx]

\* The imports in order are the paths with an alias, each once.
Listed(s) ==
    /\ s.order \in Seq(Paths)
    /\ \A i \in DOMAIN s.order : s.order[i] \in DOMAIN s.aliases
    /\ \A p \in DOMAIN s.aliases : \E i \in DOMAIN s.order : s.order[i] = p
    /\ \A i, j \in DOMAIN s.order : s.order[i] = s.order[j] => i = j

\* Names and paths point at each other: a name in use belongs to the import
\* that has it, or to the file itself, whose package is called name.
Owned(s, name) ==
    /\ \A p \in DOMAIN s.aliases : s.aliases[p] \notin {Blank, Dot} =>
         s.aliases[p] \in DOMAIN s.used /\ s.used[s.aliases[p]] = p
    /\ \A a \in DOMAIN s.used :
         \/ a = name /\ s.used[a] = s.self
         \/ s.used[a] \in DOMAIN s.aliases /\ s.aliases[s.used[a]] = a
    /\ name # "" => name \in DOMAIN s.used /\ s.used[name] = s.self

\* Below the mark of a base every name is in use.
Dense(s) ==
    \A b \in DOMAIN s.lastSfx :
        /\ Suffixed(b) /\ s.lastSfx[b] \in SuffixNumbers \ {0}
        /\ \A m \in SuffixNumbers : m < s.lastSfx[b] => Spell(b, m) \in DOMAIN s.used

Shaped(s) ==
    /\ DOMAIN s.aliases \subseteq Paths /\ DOMAIN s.explicit \subseteq Paths
    /\ s.self \in Paths \cup {""} /\ s.self \notin DOMAIN s.aliases
    /\ \A p \in DOMAIN s.aliases : s.aliases[p] # ""
    /\ \A p \in DOMAIN s.explicit : s.explicit[p] = "" \/ Suffixed(s.explicit[p])

Good(s, name) == IsSet(s) /\ Shaped(s) /\ Listed(s) /\ Owned(s, name) /\ Dense(s)

LEMMA EmptyFacts == DOMAIN Empty = {} /\ Empty \in Seq(Paths)
BY DEF Empty

\* q is the list o with x behind it.
Longer(o, x, q) ==
    /\ DOMAIN q = DOMAIN o \cup {Len(o) + 1}
    /\ Len(o) + 1 \notin DOMAIN o
    /\ q[Len(o) + 1] = x /\ \A i \in DOMAIN o : q[i] = o[i]

LEMMA AppendFacts ==
    ASSUME NEW S, NEW o \in Seq(S), NEW x \in S
    PROVE  Append(o, x) \in Seq(S) /\ Longer(o, x, Append(o, x))
<1> DEFINE q == Append(o, x)
<1>1. q \in Seq(S) /\ Len(q) = Len(o) + 1 /\ Len(o) \in Nat
    OBVIOUS
<1>2. DOMAIN o = 1 .. Len(o) /\ DOMAIN q = 1 .. Len(q)
    BY <1>1
<1>3. q[Len(o) + 1] = x /\ \A i \in 1 .. Len(o) : q[i] = o[i]
    OBVIOUS
<1> HIDE DEF q
<1>4. DOMAIN q = DOMAIN o \cup {Len(o) + 1} /\ Len(o) + 1 \notin DOMAIN o
    BY <1>1, <1>2
<1>5. Longer(o, x, q)
    BY <1>1, <1>2, <1>3, <1>4 DEF Longer
<1> QED  BY <1>1, <1>5 DEF q

LEMMA PutFacts ==
    ASSUME NEW f, NEW x, NEW y
    PROVE  /\ DOMAIN Put(f, x, y) = DOMAIN f \cup {x}
           /\ Put(f, x, y)[x] = y
           /\ \A z \in DOMAIN f \ {x} : Put(f, x, y)[z] = f[z]
BY DEF Put

LEMMA SuffixCount ==
    /\ Cardinality(Paths) \in Nat
    /\ IsFiniteSet(SuffixNumbers) /\ Cardinality(SuffixNumbers) = Cardinality(Paths) + 2
    /\ SuffixNumbers \subseteq Nat
<1>1. Cardinality(Paths) \in Nat
    BY PathsAssumption, FS_CardinalityType
<1> DEFINE I == 2 .. (Cardinality(Paths) + 2)
<1>2. IsFiniteSet(I) /\ Cardinality(I) = Cardinality(Paths) + 1
    BY <1>1, FS_Interval
<1>3. 0 \notin I /\ SuffixNumbers = I \cup {0} /\ I \subseteq Nat
    BY <1>1 DEF SuffixNumbers
<1> HIDE DEF I
<1>4. IsFiniteSet(I \cup {0}) /\ Cardinality(I \cup {0}) = Cardinality(I) + 1
    BY <1>2, <1>3, FS_AddElement
<1> QED  BY <1>1, <1>2, <1>3, <1>4

\* Fewer names are in use than there are suffixes.
LEMMA NamesInUse ==
    ASSUME NEW s, NEW name, Good(s, name)
    PROVE  IsFiniteSet(DOMAIN s.used) /\ Cardinality(DOMAIN s.used) < Cardinality(SuffixNumbers)
<1> DEFINE P == DOMAIN s.aliases
           N == {s.aliases[p] : p \in P}
           f == [p \in P |-> s.aliases[p]]
<1>1. IsFiniteSet(P) /\ Cardinality(P) <= Cardinality(Paths) /\ Cardinality(P) \in Nat
  <2>1. P \in SUBSET Paths
      BY DEF Good, Shaped
  <2> QED  BY <2>1, PathsAssumption, FS_Subset, FS_CardinalityType
<1>2. f \in Surjection(P, N)
    BY DEF Surjection
<1> HIDE DEF P, f
<1>3. IsFiniteSet(N) /\ Cardinality(N) <= Cardinality(P) /\ Cardinality(N) \in Nat
    BY <1>1, <1>2, FS_Surjection, FS_CardinalityType
<1>4. DOMAIN s.used \in SUBSET (N \cup {name})
  <2>1. ASSUME NEW a \in DOMAIN s.used PROVE a = name \/ \E p \in P : a = s.aliases[p]
      BY DEF Good, Owned, P
  <2> QED  BY <2>1
<1> HIDE DEF N
<1>5. IsFiniteSet(N \cup {name}) /\ Cardinality(N \cup {name}) <= Cardinality(N) + 1
      /\ Cardinality(N \cup {name}) \in Nat
  <2>1. /\ IsFiniteSet(N \cup {name})
        /\ \/ Cardinality(N \cup {name}) = Cardinality(N)
           \/ Cardinality(N \cup {name}) = Cardinality(N) + 1
      BY <1>3, FS_AddElement, Zenon
  <2>2. Cardinality(N \cup {name}) \in Nat
      BY <2>1, FS_CardinalityType, Zenon
  <2> QED  BY <1>3, <2>1, <2>2
<1>6. IsFiniteSet(DOMAIN s.used) /\ Cardinality(DOMAIN s.used) <= Cardinality(N \cup {name})
      /\ Cardinality(DOMAIN s.used) \in Nat
    BY <1>4, <1>5, FS_Subset, FS_CardinalityType
<1> QED  BY <1>1, <1>3, <1>5, <1>6, SuffixCount

\* A set of naturals that is not empty has a least element.
LEMMA LeastNatural ==
    ASSUME NEW T, T \subseteq Nat, T # {}
    PROVE  \E x \in T : \A y \in T : ~(y < x)
<1>1. PICK x \in T : \A y \in T : <<y, x>> \notin OpToRel(<, Nat)
    BY NatLessThanWellFounded, WFMin
<1> QED  BY <1>1 DEF OpToRel

\* The loop ends, on the least suffix whose name is free.
LEMMA SuffixIsLeastFree ==
    ASSUME NEW s, NEW name, Good(s, name), NEW path \in Paths, path \notin DOMAIN s.aliases,
           path # s.self, NEW base, Suffixed(base)
    PROVE  LET n == Suffix(s, path, base)
           IN  /\ n \in SuffixNumbers /\ Spell(base, n) \notin DOMAIN s.used
               /\ \A m \in SuffixNumbers : m < n => Spell(base, m) \in DOMAIN s.used
<1> DEFINE U == DOMAIN s.used
           T == {n \in SuffixNumbers : Spell(base, n) \notin U}
           f == [n \in SuffixNumbers |-> Spell(base, n)]
           Fits(n) == /\ Mark(s, base) <= n /\ ~Taken(s, path, Spell(base, n))
                      /\ \A m \in SuffixNumbers :
                           Mark(s, base) <= m /\ m < n => Taken(s, path, Spell(base, m))
<1>1. T # {}
  <2> SUFFICES ASSUME T = {} PROVE FALSE
      OBVIOUS
  <2>1. f \in [SuffixNumbers -> U]
      OBVIOUS
  <2>2. IsFiniteSet(U) /\ Cardinality(U) < Cardinality(SuffixNumbers) /\ IsFiniteSet(SuffixNumbers)
      BY NamesInUse, SuffixCount
  <2> HIDE DEF U, f
  <2>3. \E x, y \in SuffixNumbers : x # y /\ f[x] = f[y]
      BY <2>1, <2>2, FS_PigeonHole, SMTT(60)
  <2> QED  BY <2>3 DEF f, Suffixed
<1>2. PICK n \in T : \A y \in T : ~(y < n)
    BY <1>1, LeastNatural, SuffixCount
<1>3. \A a \in U : Taken(s, path, a)
    BY DEF Good, Owned, Taken
<1>4. \A a : a \notin U => ~Taken(s, path, a)
    BY DEF Taken
<1>5. \A m \in SuffixNumbers : m < n => Spell(base, m) \in U
    BY <1>2
<1>6. Mark(s, base) \in Nat /\ \A m \in SuffixNumbers : m < Mark(s, base) => Spell(base, m) \in U
  <2>1. CASE base \in DOMAIN s.lastSfx
    <3>1. /\ s.lastSfx[base] \in SuffixNumbers
          /\ \A m \in SuffixNumbers : m < s.lastSfx[base] => Spell(base, m) \in DOMAIN s.used
        BY <2>1 DEF Good, Dense
    <3>2. Mark(s, base) = s.lastSfx[base]
        BY <2>1 DEF Mark
    <3>3. Mark(s, base) \in Nat
        BY <3>1, <3>2, SuffixCount
    <3> QED  BY <3>1, <3>2, <3>3
  <2>2. CASE base \notin DOMAIN s.lastSfx
    <3>1. Mark(s, base) = 0
        BY <2>2 DEF Mark
    <3>2. \A m \in SuffixNumbers : ~(m < 0)
        BY SuffixCount
    <3> QED  BY <3>1, <3>2
  <2> QED  BY <2>1, <2>2
<1>7. n \in SuffixNumbers /\ Fits(n)
    BY <1>2, <1>3, <1>4, <1>5, <1>6, SuffixCount
<1>8. Suffix(s, path, base) \in SuffixNumbers /\ Fits(Suffix(s, path, base))
    BY <1>7 DEF Suffix
<1>9. \A k \in SuffixNumbers : Fits(k) => k = n
    BY <1>2, <1>3, <1>4, <1>5, <1>6, <1>7, SuffixCount, SMTT(60)
<1>10. Suffix(s, path, base) = n
    BY <1>8, <1>9
<1> QED  BY <1>2, <1>5, <1>10
-----------------------------------------------------------------------------
(* What the methods do to a set in order. *)

\* t binds whatever s binds.
Keeps(s, t) ==
    /\ t.self = s.self
    /\ \A p \in DOMAIN s.aliases : p \in DOMAIN t.aliases /\ t.aliases[p] = s.aliases[p]

LEMMA AliasGood ==
    ASSUME NEW s, NEW name, Good(s, name), NEW path \in Paths \cup {""},
           NEW alias, alias = "" \/ Suffixed(alias)
    PROVE  LET t == Alias(s, path, alias)
           IN  Good(t, name) /\ t.self = s.self /\ t.aliases = s.aliases
<1>1. CASE path = "" \/ path \in DOMAIN s.aliases
    BY <1>1 DEF Alias
<1>2. CASE ~(path = "" \/ path \in DOMAIN s.aliases)
  <2> DEFINE t == Alias(s, path, alias)
  <2>1. PICK self, order, aliases, explicit, used, lastSfx :
            s = [self |-> self, order |-> order, aliases |-> aliases,
                 explicit |-> explicit, used |-> used, lastSfx |-> lastSfx]
      BY DEF Good, IsSet
  <2>2. PICK e : e = Put(s.explicit, path, alias)
      OBVIOUS
  <2>3. t = [self |-> self, order |-> order, aliases |-> aliases,
             explicit |-> e, used |-> used, lastSfx |-> lastSfx]
      BY <1>2, <2>1, <2>2 DEF Alias
  <2> HIDE DEF t
  <2>4. IsSet(t)
      BY <2>3, Zenon DEF IsSet
  <2>5. /\ t.self = s.self /\ t.order = s.order /\ t.aliases = s.aliases
        /\ t.used = s.used /\ t.lastSfx = s.lastSfx /\ t.explicit = e
      BY <2>1, <2>3
  <2>6. Shaped(t)
    <3>1. /\ DOMAIN e = DOMAIN s.explicit \cup {path} /\ e[path] = alias
          /\ \A p \in DOMAIN s.explicit \ {path} : e[p] = s.explicit[p]
        BY <2>2 DEF Put
    <3>2. \A p \in DOMAIN e : e[p] = "" \/ Suffixed(e[p])
      <4>1. \A p \in DOMAIN s.explicit : s.explicit[p] = "" \/ Suffixed(s.explicit[p])
          BY DEF Good, Shaped
      <4> QED  BY <3>1, <4>1
    <3>3. path \in Paths
        BY <1>2
    <3> QED  BY <2>5, <3>1, <3>2, <3>3 DEF Good, Shaped
  <2>7. Listed(t)
    <3>1. Listed(s)
        BY DEF Good
    <3>2. ASSUME NEW p \in DOMAIN s.aliases PROVE \E i \in DOMAIN s.order : s.order[i] = p
        BY <3>1 DEF Listed
    <3>3. \A i, j \in DOMAIN s.order : s.order[i] = s.order[j] => i = j
        BY <3>1 DEF Listed
    <3>4. s.order \in Seq(Paths) /\ \A i \in DOMAIN s.order : s.order[i] \in DOMAIN s.aliases
        BY <3>1 DEF Listed
    <3> QED  BY <2>5, <3>2, <3>3, <3>4 DEF Listed
  <2>8. Owned(t, name)
      BY <2>5 DEF Good, Owned
  <2>9. Dense(t)
      BY <2>5 DEF Good, Dense
  <2> QED  BY <2>4, <2>5, <2>6, <2>7, <2>8, <2>9 DEF Good, t
<1> QED  BY <1>1, <1>2

\* What an import that is recorded adds: the path with an alias, at the end
\* of the order.
LEMMA RecordedShape ==
    ASSUME NEW s, NEW name, Good(s, name), NEW path \in Paths, path \notin DOMAIN s.aliases,
           path # s.self, NEW alias, alias # "", NEW t, t.self = s.self,
           t.order = Append(s.order, path), t.aliases = Put(s.aliases, path, alias),
           t.explicit = s.explicit
    PROVE  Shaped(t) /\ Listed(t) /\ Keeps(s, t)
<1>1. s.order \in Seq(Paths)
    BY DEF Good, Listed
<1>2. /\ t.order \in Seq(Paths)
      /\ DOMAIN t.order = DOMAIN s.order \cup {Len(s.order) + 1}
      /\ Len(s.order) + 1 \notin DOMAIN s.order
      /\ t.order[Len(s.order) + 1] = path
      /\ \A i \in DOMAIN s.order : t.order[i] = s.order[i]
  <2>1. t.order \in Seq(Paths) /\ Longer(s.order, path, t.order)
      BY <1>1, AppendFacts, Zenon
  <2> QED  BY <2>1 DEF Longer
<1>3. /\ DOMAIN t.aliases = DOMAIN s.aliases \cup {path} /\ t.aliases[path] = alias
      /\ \A p \in DOMAIN s.aliases : t.aliases[p] = s.aliases[p]
    BY DEF Put
<1>4. \A i \in DOMAIN s.order : s.order[i] \in DOMAIN s.aliases
    BY DEF Good, Listed
<1>5. \A i, j \in DOMAIN t.order : t.order[i] = t.order[j] => i = j
  <2>1. \A i, j \in DOMAIN s.order : s.order[i] = s.order[j] => i = j
      BY DEF Good, Listed
  <2> DEFINE last == Len(s.order) + 1
  <2>2. \A i \in DOMAIN s.order : t.order[i] # t.order[last]
      BY <1>2, <1>4
  <2>3. \A i, j \in DOMAIN s.order : t.order[i] = t.order[j] => i = j
      BY <1>2, <2>1
  <2> HIDE DEF last
  <2>4. DOMAIN t.order = DOMAIN s.order \cup {last}
      BY <1>2 DEF last
  <2> QED  BY <2>2, <2>3, <2>4
<1>6. ASSUME NEW i \in DOMAIN t.order PROVE t.order[i] \in DOMAIN t.aliases
    BY <1>2, <1>3, <1>4
<1>7. ASSUME NEW p \in DOMAIN t.aliases PROVE \E i \in DOMAIN t.order : t.order[i] = p
  <2>1. CASE p = path
      BY <2>1, <1>2
  <2>2. CASE p # path
    <3>1. PICK i \in DOMAIN s.order : s.order[i] = p
        BY <2>2, <1>3 DEF Good, Listed
    <3> QED  BY <3>1, <1>2
  <2> QED  BY <2>1, <2>2
<1>8. Listed(t)
    BY <1>2, <1>5, <1>6, <1>7 DEF Listed
<1>9. Shaped(t)
    BY <1>3 DEF Good, Shaped
<1> QED  BY <1>3, <1>8, <1>9 DEF Keeps

\* A blank or dot import uses up no name.
LEMMA RecordGood ==
    ASSUME NEW s, NEW name, Good(s, name), NEW path \in Paths, path \notin DOMAIN s.aliases,
           path # s.self, NEW alias \in {Blank, Dot}
    PROVE  LET t == Record(s, path, alias)
           IN  Good(t, name) /\ Keeps(s, t) /\ t.aliases = Put(s.aliases, path, alias)
<1> DEFINE t == Record(s, path, alias)
<1>1. PICK self, order, aliases, explicit, used, lastSfx :
          s = [self |-> self, order |-> order, aliases |-> aliases,
               explicit |-> explicit, used |-> used, lastSfx |-> lastSfx]
    BY DEF Good, IsSet
<1>2. PICK o, a : o = Append(s.order, path) /\ a = Put(s.aliases, path, alias)
    OBVIOUS
<1>3. t = [self |-> self, order |-> o, aliases |-> a,
           explicit |-> explicit, used |-> used, lastSfx |-> lastSfx]
  <2>1. t = [s EXCEPT !.order = o, !.aliases = a]
      BY <1>2 DEF Record
  <2> HIDE DEF t
  <2> QED  BY <1>1, <2>1
<1> HIDE DEF t
<1>4. IsSet(t)
    BY <1>3, Zenon DEF IsSet
<1>5. /\ t.self = s.self /\ t.order = o /\ t.aliases = a
      /\ t.explicit = s.explicit /\ t.used = s.used /\ t.lastSfx = s.lastSfx
    BY <1>1, <1>3
<1>6. Shaped(t) /\ Listed(t) /\ Keeps(s, t)
  <2>1. alias # ""
      BY DEF Blank, Dot
  <2> QED  BY <1>2, <1>5, <2>1, RecordedShape
<1>7. /\ DOMAIN a = DOMAIN s.aliases \cup {path} /\ a[path] = alias
      /\ \A p \in DOMAIN s.aliases : a[p] = s.aliases[p]
    BY <1>2 DEF Put
<1>8. Owned(t, name)
  <2>1. ASSUME NEW p \in DOMAIN a, a[p] \notin {Blank, Dot}
        PROVE  a[p] \in DOMAIN s.used /\ s.used[a[p]] = p
      BY <1>7, <2>1 DEF Good, Owned
  <2>2. ASSUME NEW x \in DOMAIN s.used
        PROVE  \/ x = name /\ s.used[x] = s.self
               \/ s.used[x] \in DOMAIN a /\ a[s.used[x]] = x
      BY <1>7 DEF Good, Owned
  <2>3. name # "" => name \in DOMAIN s.used /\ s.used[name] = s.self
      BY DEF Good, Owned
  <2>4. t.used = s.used /\ t.aliases = a /\ t.self = s.self
      BY <1>5
  <2> HIDE DEF Good
  <2>5. \A p \in DOMAIN t.aliases : t.aliases[p] \notin {Blank, Dot} =>
           t.aliases[p] \in DOMAIN t.used /\ t.used[t.aliases[p]] = p
      BY <2>1, <2>4
  <2>6. \A x \in DOMAIN t.used :
           \/ x = name /\ t.used[x] = t.self
           \/ t.used[x] \in DOMAIN t.aliases /\ t.aliases[t.used[x]] = x
      BY <2>2, <2>4
  <2> QED  BY <2>3, <2>4, <2>5, <2>6 DEF Owned
<1>9. Dense(t)
    BY <1>5 DEF Good, Dense
<1> QED  BY <1>2, <1>4, <1>5, <1>6, <1>8, <1>9 DEF Good, t

\* t is the set s with the path recorded under the base and its suffix n.
Recorded(s, path, base, n, t) ==
    /\ IsSet(t) /\ t.self = s.self /\ t.order = Append(s.order, path)
    /\ t.aliases = Put(s.aliases, path, Spell(base, n)) /\ t.explicit = s.explicit
    /\ t.used = Put(s.used, Spell(base, n), path)
    /\ t.lastSfx = IF n = 0 THEN s.lastSfx ELSE Put(s.lastSfx, base, n)

LEMMA RecordNameFields ==
    ASSUME NEW s, IsSet(s), NEW path, NEW base
    PROVE  Recorded(s, path, base, Suffix(s, path, base), RecordName(s, path, base))
<1> DEFINE n == Suffix(s, path, base)
           alias == Spell(base, n)
           sfx == IF n = 0 THEN s.lastSfx ELSE Put(s.lastSfx, base, n)
           t == RecordName(s, path, base)
<1>1. PICK self, order, aliases, explicit, used, lastSfx :
          s = [self |-> self, order |-> order, aliases |-> aliases,
               explicit |-> explicit, used |-> used, lastSfx |-> lastSfx]
    BY DEF IsSet
<1>2. PICK o, a, u, x : /\ o = Append(s.order, path) /\ a = Put(s.aliases, path, alias)
                        /\ u = Put(s.used, alias, path) /\ x = sfx
    OBVIOUS
<1>3. PICK r : r = Record(s, path, alias)
    OBVIOUS
<1>4. t = [r EXCEPT !.used = u, !.lastSfx = x]
    BY <1>2, <1>3 DEF RecordName
<1> HIDE DEF n, alias, sfx, t
<1>10. r = [self |-> self, order |-> o, aliases |-> a, explicit |-> explicit,
           used |-> used, lastSfx |-> lastSfx]
    BY <1>1, <1>2, <1>3 DEF Record
<1>11. t = [self |-> self, order |-> o, aliases |-> a, explicit |-> explicit,
           used |-> u, lastSfx |-> x]
    BY <1>4, <1>10
<1>5. IsSet(t)
    BY <1>11, Zenon DEF IsSet
<1>6. /\ t.self = self /\ t.order = o /\ t.aliases = a
      /\ t.explicit = explicit /\ t.used = u /\ t.lastSfx = x
    BY <1>11
<1>7. s.self = self /\ s.explicit = explicit
    BY <1>1
<1> QED  BY <1>2, <1>5, <1>6, <1>7 DEF n, alias, sfx, t, Recorded

\* An import that gets a name gets one nobody has.
LEMMA RecordNameGood ==
    ASSUME NEW s, NEW name, Good(s, name), NEW path \in Paths, path \notin DOMAIN s.aliases,
           path # s.self, NEW base, Suffixed(base), base \notin {"", Blank, Dot}
    PROVE  LET t == RecordName(s, path, base)
           IN  Good(t, name) /\ Keeps(s, t)
               /\ t.aliases = Put(s.aliases, path, Spell(base, Suffix(s, path, base)))
<1> DEFINE n == Suffix(s, path, base)
           alias == Spell(base, n)
           sfx == IF n = 0 THEN s.lastSfx ELSE Put(s.lastSfx, base, n)
           t == RecordName(s, path, base)
<1>0. /\ n \in SuffixNumbers /\ alias \notin DOMAIN s.used
      /\ \A m \in SuffixNumbers : m < n => Spell(base, m) \in DOMAIN s.used
    BY SuffixIsLeastFree
<1>1. /\ IsSet(t) /\ t.self = s.self /\ t.order = Append(s.order, path)
      /\ t.aliases = Put(s.aliases, path, alias) /\ t.explicit = s.explicit
      /\ t.used = Put(s.used, alias, path) /\ t.lastSfx = sfx
  <2>1. IsSet(s)
      BY DEF Good
  <2>2. Recorded(s, path, base, n, t)
      BY <2>1, RecordNameFields, Zenon
  <2> HIDE DEF n, t
  <2> QED  BY <2>2 DEF Recorded
<1>2. alias \notin {"", Blank, Dot}
    BY <1>0 DEF alias, Suffixed
<1>x. t.aliases = Put(s.aliases, path, Spell(base, Suffix(s, path, base)))
    BY <1>1
<1> HIDE DEF n, alias, sfx, t
<1>3. Shaped(t) /\ Listed(t) /\ Keeps(s, t)
    BY <1>1, <1>2, RecordedShape
<1>4. PICK a, u : a = t.aliases /\ u = t.used
    OBVIOUS
<1>7. /\ DOMAIN a = DOMAIN s.aliases \cup {path} /\ a[path] = alias
      /\ \A p \in DOMAIN s.aliases : a[p] = s.aliases[p]
    BY <1>1, <1>4 DEF Put
<1>8. /\ DOMAIN u = DOMAIN s.used \cup {alias} /\ u[alias] = path
      /\ \A x \in DOMAIN s.used : u[x] = s.used[x]
    BY <1>0, <1>1, <1>4 DEF Put
<1>9. Owned(t, name)
  <2>1. ASSUME NEW p \in DOMAIN a, a[p] \notin {Blank, Dot}
        PROVE  a[p] \in DOMAIN u /\ u[a[p]] = p
    <3>1. CASE p = path
        BY <3>1, <1>7, <1>8
    <3>2. CASE p # path
      <4>1. p \in DOMAIN s.aliases /\ a[p] = s.aliases[p]
          BY <3>2, <1>7
      <4>2. s.aliases[p] \in DOMAIN s.used /\ s.used[s.aliases[p]] = p
          BY <2>1, <4>1 DEF Good, Owned
      <4> QED  BY <4>1, <4>2, <1>8
    <3> QED  BY <3>1, <3>2
  <2>2. ASSUME NEW x \in DOMAIN u
        PROVE  \/ x = name /\ u[x] = s.self
               \/ u[x] \in DOMAIN a /\ a[u[x]] = x
    <3>1. CASE x = alias
        BY <3>1, <1>7, <1>8
    <3>2. CASE x # alias
      <4>1. x \in DOMAIN s.used /\ u[x] = s.used[x]
          BY <3>2, <1>8
      <4>2. \/ x = name /\ s.used[x] = s.self
            \/ s.used[x] \in DOMAIN s.aliases /\ s.aliases[s.used[x]] = x
          BY <4>1 DEF Good, Owned
      <4> QED  BY <4>1, <4>2, <1>7
    <3> QED  BY <3>1, <3>2
  <2>3. name # "" => name \in DOMAIN u /\ u[name] = s.self
      BY <1>8 DEF Good, Owned
  <2>4. t.used = u /\ t.aliases = a /\ t.self = s.self
      BY <1>1, <1>4
  <2>5. \A p \in DOMAIN t.aliases : t.aliases[p] \notin {Blank, Dot} =>
           t.aliases[p] \in DOMAIN t.used /\ t.used[t.aliases[p]] = p
      BY <2>1, <2>4
  <2>6. \A x \in DOMAIN t.used :
           \/ x = name /\ t.used[x] = t.self
           \/ t.used[x] \in DOMAIN t.aliases /\ t.aliases[t.used[x]] = x
      BY <2>2, <2>4
  <2> QED  BY <2>3, <2>4, <2>5, <2>6 DEF Owned
<1>10. Dense(t)
  <2>0. Dense(s)
      BY DEF Good
  <2> SUFFICES ASSUME NEW b \in DOMAIN sfx
               PROVE  /\ Suffixed(b) /\ sfx[b] \in SuffixNumbers \ {0}
                      /\ \A m \in SuffixNumbers : m < sfx[b] => Spell(b, m) \in DOMAIN u
      BY <1>1, <1>4 DEF Dense
  <2>1. CASE b = base /\ n # 0
    <3>1. sfx[b] = n
        BY <2>1 DEF sfx, Put
    <3> QED  BY <2>1, <3>1, <1>0, <1>8
  <2>2. CASE ~(b = base /\ n # 0)
    <3>1. b \in DOMAIN s.lastSfx /\ sfx[b] = s.lastSfx[b]
        BY <2>2 DEF sfx, Put
    <3> QED  BY <3>1, <2>0, <1>8 DEF Dense
  <2> QED  BY <2>1, <2>2
<1> QED  BY <1>1, <1>3, <1>9, <1>10, <1>x DEF Good, t

LEMMA DesiredSuffixed ==
    ASSUME NEW s, NEW name, Good(s, name), NEW path \in Paths, ~Refused(s, path),
           path \notin DOMAIN s.aliases, path # s.self
    PROVE  Suffixed(Desired(s, path)) /\ Desired(s, path) # ""
<1>1. Desired(s, path) # ""
    BY DEF Refused
<1>2. CASE path \in DOMAIN s.explicit /\ s.explicit[path] # ""
    BY <1>1, <1>2 DEF Desired, Good, Shaped
<1>3. CASE ~(path \in DOMAIN s.explicit /\ s.explicit[path] # "")
    BY <1>1, <1>3, SpellAssumption DEF Desired
<1> QED  BY <1>2, <1>3

\* Imp leaves a set in order that binds the path, unless it is the file's
\* own, under the qualifier returned.
LEMMA ImpGood ==
    ASSUME NEW s, NEW name, Good(s, name), NEW path \in Paths, ~Refused(s, path)
    PROVE  LET t == Imp(s, path)
           IN  /\ Good(t, name) /\ Keeps(s, t)
               /\ path # s.self => path \in DOMAIN t.aliases
               /\ Qualifier(s, path) = IF path = s.self THEN "" ELSE t.aliases[path]
<1> DEFINE t == Imp(s, path)
<1>1. Qualifier(s, path) = IF path = s.self THEN "" ELSE t.aliases[path]
    BY DEF Qualifier
<1>2. CASE path = s.self \/ path \in DOMAIN s.aliases
  <2>1. t = s
      BY <1>2 DEF Imp
  <2> HIDE DEF t
  <2>2. Keeps(s, t)
      BY <2>1 DEF Keeps
  <2> QED  BY <1>1, <1>2, <2>1, <2>2 DEF t
<1>3. CASE ~(path = s.self \/ path \in DOMAIN s.aliases)
  <2> DEFINE base == Desired(s, path)
  <2>1. Suffixed(base) /\ base # ""
      BY <1>3, DesiredSuffixed
  <2>2. ASSUME NEW x, t.aliases = Put(s.aliases, path, x) PROVE path \in DOMAIN t.aliases
    <3> HIDE DEF t
    <3> QED  BY <2>2 DEF Put
  <2>3. CASE base \in {Blank, Dot}
    <3>1. t = Record(s, path, base)
        BY <1>3, <2>3 DEF Imp
    <3> HIDE DEF base, t
    <3>2. Good(t, name) /\ Keeps(s, t) /\ t.aliases = Put(s.aliases, path, base)
        BY <1>3, <2>3, <3>1, RecordGood
    <3>3. path \in DOMAIN t.aliases
        BY <2>2, <3>2
    <3> QED  BY <1>1, <3>2, <3>3 DEF t
  <2>4. CASE base \notin {Blank, Dot}
    <3>1. t = RecordName(s, path, base)
        BY <1>3, <2>4 DEF Imp
    <3> HIDE DEF base, t
    <3>2. Good(t, name) /\ Keeps(s, t)
          /\ t.aliases = Put(s.aliases, path, Spell(base, Suffix(s, path, base)))
        BY <1>3, <2>1, <2>4, <3>1, RecordNameGood
    <3>3. path \in DOMAIN t.aliases
        BY <2>2, <3>2
    <3> QED  BY <1>1, <3>2, <3>3 DEF t
  <2> QED  BY <2>3, <2>4
<1> QED  BY <1>2, <1>3

\* A set that has been reset and told the file's package is in order.
SelfUsed(path, name) == IF name = "" THEN Empty ELSE Put(Empty, name, path)

LEMMA SelfFields ==
    ASSUME NEW s, NEW path \in Paths \cup {""}, NEW name
    PROVE  SetSelf(Reset(s), path, name) =
             [self |-> path, order |-> Empty, aliases |-> Empty, explicit |-> Empty,
              used |-> SelfUsed(path, name), lastSfx |-> Empty]
BY PathsAssumption DEF Reset, SetSelf, NewImportSet, SelfUsed

LEMMA SelfGood ==
    ASSUME NEW s, NEW path \in Paths \cup {""}, NEW name
    PROVE  Good(SetSelf(Reset(s), path, name), name)
<1> DEFINE t == SetSelf(Reset(s), path, name)
<1>1. PICK u : u = SelfUsed(path, name)
    OBVIOUS
<1>2. t = [self |-> path, order |-> Empty, aliases |-> Empty, explicit |-> Empty,
           used |-> u, lastSfx |-> Empty]
    BY <1>1, SelfFields
<1> HIDE DEF t
<1>3. IsSet(t)
    BY <1>2, Zenon DEF IsSet
<1>4. /\ t.self = path /\ t.order = Empty /\ t.aliases = Empty
      /\ t.explicit = Empty /\ t.lastSfx = Empty /\ t.used = u
    BY <1>2
<1>5. Shaped(t)
    BY <1>4, EmptyFacts DEF Shaped
<1>6. Listed(t)
    BY <1>4, EmptyFacts DEF Listed
<1>7. Dense(t)
    BY <1>4, EmptyFacts DEF Dense
<1>8. Owned(t, name)
  <2>1. CASE name = ""
      BY <2>1, <1>1, <1>4, EmptyFacts DEF Owned, SelfUsed
  <2>2. CASE name # ""
    <3>1. DOMAIN u = {name} /\ u[name] = path
        BY <1>1, <2>2, EmptyFacts DEF Put, SelfUsed
    <3> QED  BY <2>2, <3>1, <1>4, EmptyFacts DEF Owned
  <2> QED  BY <2>1, <2>2
<1>9. Good(t, name)
    BY <1>3, <1>5, <1>6, <1>7, <1>8 DEF Good
<1> QED  BY <1>9 DEF t

-----------------------------------------------------------------------------
(* One set, file after file (ImportFile). *)

SetInv == Good(set, own) /\ QualifiersHold

LEMMA InitSetInv == FileInit => SetInv
<1> SUFFICES ASSUME FileInit PROVE SetInv
    OBVIOUS
<1>1. set = SetSelf(Reset(set), "", "") /\ own = ""
    BY DEF FileInit, SetSelf, Reset
<1>2. Good(set, own)
  <2>1. Good(SetSelf(Reset(set), "", ""), "")
      BY SelfGood
  <2> QED  BY <1>1, <2>1, Zenon
<1> QED  BY <1>2, EmptyFacts DEF SetInv, QualifiersHold, FileInit

LEMMA NextSetInv == SetInv /\ [FileNext]_fileVars => SetInv'
<1> SUFFICES ASSUME SetInv, [FileNext]_fileVars PROVE SetInv'
    OBVIOUS
<1>1. ASSUME NEW p \in DOMAIN Own, StartFile(p) PROVE SetInv'
  <2>1. set' = SetSelf(Reset(set), p, Own[p]) /\ own' = Own[p] /\ given' = Empty
      BY <1>1 DEF StartFile
  <2>2. Good(set', own')
      BY <2>1, SelfGood, OwnAssumption
  <2> QED  BY <2>1, <2>2, EmptyFacts DEF SetInv, QualifiersHold
<1>2. ASSUME NEW p \in Paths, NEW a \in Aliases, RegisterAlias(p, a) PROVE SetInv'
  <2>1. set' = Alias(set, p, a) /\ own' = own /\ given' = given
      BY <1>2 DEF RegisterAlias
  <2>2. Good(set', own') /\ set'.self = set.self /\ set'.aliases = set.aliases
    <3>1. Good(set, own) /\ (a = "" \/ Suffixed(a)) /\ p \in Paths \cup {""}
        BY AliasSpelling DEF SetInv
    <3>2. LET t == Alias(set, p, a)
          IN  Good(t, own) /\ t.self = set.self /\ t.aliases = set.aliases
        BY <3>1, AliasGood
    <3> QED  BY <2>1, <3>2
  <2> QED  BY <2>1, <2>2 DEF SetInv, QualifiersHold
<1>3. ASSUME NEW q \in Paths \cup {""}, Import(q) PROVE SetInv'
  <2>1. q \in Paths /\ ~Refused(set, q) /\ set' = Imp(set, q) /\ own' = own
        /\ given' = Put(given, q, Qualifier(set, q))
      BY <1>3 DEF Import, Refused
  <2>2. /\ Good(set', own') /\ Keeps(set, set')
        /\ q # set.self => q \in DOMAIN set'.aliases
        /\ Qualifier(set, q) = IF q = set.self THEN "" ELSE set'.aliases[q]
      BY <2>1, ImpGood DEF SetInv
  <2>3. /\ set'.self = set.self /\ set.self \notin DOMAIN set'.aliases
        /\ \A p \in DOMAIN set'.aliases : set'.aliases[p] # ""
      BY <2>2 DEF Good, Shaped, Keeps
  <2>4. /\ DOMAIN given' = DOMAIN given \cup {q} /\ given'[q] = Qualifier(set, q)
        /\ \A p \in DOMAIN given \ {q} : given'[p] = given[p]
      BY <2>1 DEF Put
  <2>5. ASSUME NEW p \in DOMAIN given'
        PROVE (IF p = set.self THEN given'[p] = "" /\ p \notin DOMAIN set'.aliases
               ELSE p \in DOMAIN set'.aliases /\ set'.aliases[p] = given'[p] /\ given'[p] # "")
    <3>1. CASE p = q
        BY <3>1, <2>2, <2>3, <2>4
    <3>2. CASE p # q
      <4>1. p \in DOMAIN given /\ given'[p] = given[p]
          BY <3>2, <2>4
      <4>2. (IF p = set.self THEN given[p] = "" /\ p \notin DOMAIN set.aliases
             ELSE p \in DOMAIN set.aliases /\ set.aliases[p] = given[p] /\ given[p] # "")
          BY <4>1 DEF SetInv, QualifiersHold
      <4> QED  BY <4>1, <4>2, <2>2, <2>3 DEF Keeps
    <3> QED  BY <3>1, <3>2
  <2> QED  BY <2>2, <2>3, <2>5 DEF SetInv, QualifiersHold
<1>4. ASSUME UNCHANGED fileVars PROVE SetInv'
    BY <1>4 DEF SetInv, QualifiersHold, fileVars
<1> QED  BY <1>1, <1>2, <1>3, <1>4 DEF FileNext, ImportRefused

LEMMA SetInvariant == FileSpec => []SetInv
BY InitSetInv, NextSetInv, PTL DEF FileSpec

\* Imp, Alias, SetSelf and Reset keep the set in shape: every import is
\* listed once, and no mark is past the number of imports.
THEOREM ImportTypes == FileSpec => []FileTypeOK
<1>1. ASSUME SetInv PROVE FileTypeOK
  <2>1. Shaped(set) /\ Listed(set) /\ Dense(set)
      BY <1>1 DEF SetInv, Good
  <2>2. {set.order[i] : i \in DOMAIN set.order} = DOMAIN set.aliases
    <3>1. \A i \in DOMAIN set.order : set.order[i] \in DOMAIN set.aliases
        BY <2>1 DEF Listed
    <3>2. ASSUME NEW p \in DOMAIN set.aliases PROVE \E i \in DOMAIN set.order : p = set.order[i]
        BY <2>1 DEF Listed
    <3> QED  BY <3>1, <3>2
  <2>3. \A i, j \in DOMAIN set.order : set.order[i] = set.order[j] => i = j
      BY <2>1 DEF Listed
  <2>4. \A b \in DOMAIN set.lastSfx : set.lastSfx[b] \in SuffixNumbers \ {0}
      BY <2>1 DEF Dense
  <2> QED  BY <2>1, <2>2, <2>3, <2>4 DEF Shaped, FileTypeOK
<1> QED  BY <1>1, SetInvariant, PTL

\* However many paths share a last segment, and whatever aliases plugins
\* register, Imp never binds one name to two imports of a file, nor the name
\* SetSelf reserved for the file's package to any.
THEOREM NamesAreUnique == FileSpec => []NoNameTwice
<1>1. ASSUME SetInv, NEW p \in Named, own # "", set.aliases[p] = own PROVE FALSE
  <2>1. set.used[own] = p /\ set.used[own] = set.self
      BY <1>1 DEF SetInv, Good, Owned, Named
  <2> QED  BY <1>1, <2>1 DEF SetInv, Good, Shaped, Named
<1>2. ASSUME SetInv, NEW p \in Named, NEW q \in Named, set.aliases[p] = set.aliases[q] PROVE p = q
  <2>1. \A r \in Named : set.used[set.aliases[r]] = r
      BY <1>2 DEF SetInv, Good, Owned, Named
  <2> QED  BY <1>2, <2>1, Zenon
<1>3. SetInv => NoNameTwice
    BY <1>1, <1>2 DEF NoNameTwice
<1> QED  BY <1>3, SetInvariant, PTL

\* The qualifier Imp returned for a path is the name the import block binds
\* the path to, until the file is finished.
THEOREM QualifiersStayGood == FileSpec => []QualifiersHold
<1>1. SetInv => QualifiersHold
    BY DEF SetInv
<1> QED  BY <1>1, SetInvariant, PTL

\* Starting the search at the remembered suffix finds the name a search
\* from the bare base would have found.
THEOREM MarkSkipsNoFreeName == FileSpec => LowestFreeName
<1> DEFINE Step == \A p \in DOMAIN set'.aliases \ DOMAIN set.aliases :
                     LET base == Desired(set, p) IN
                     base \in {Blank, Dot} \/
                        \E n \in SuffixNumbers :
                            /\ set'.aliases[p] = Spell(base, n)
                            /\ \A m \in SuffixNumbers : m < n => Spell(base, m) \in DOMAIN set.used
<1>1. SetInv /\ [FileNext]_fileVars => [Step]_fileVars
  <2> SUFFICES ASSUME SetInv, FileNext, NEW p \in DOMAIN set'.aliases \ DOMAIN set.aliases,
                      Desired(set, p) \notin {Blank, Dot}
               PROVE  \E n \in SuffixNumbers :
                        /\ set'.aliases[p] = Spell(Desired(set, p), n)
                        /\ \A m \in SuffixNumbers : m < n => Spell(Desired(set, p), m) \in DOMAIN set.used
      BY DEF Step
  <2>0. Good(set, own) /\ IsSet(set)
      BY DEF SetInv, Good
  <2>1. ASSUME NEW q \in DOMAIN Own, StartFile(q) PROVE FALSE
      BY <2>1, EmptyFacts DEF StartFile, SetSelf, Reset, NewImportSet
  <2>2. ASSUME NEW q \in Paths, NEW a \in Aliases, RegisterAlias(q, a) PROVE FALSE
      BY <2>2, <2>0 DEF RegisterAlias, Alias, IsSet
  <2>3. ASSUME NEW q \in Paths \cup {""}, ImportRefused(q) PROVE FALSE
      BY <2>3 DEF ImportRefused, fileVars
  <2>4. ASSUME NEW q \in Paths \cup {""}, Import(q)
        PROVE  \E n \in SuffixNumbers :
                 /\ set'.aliases[p] = Spell(Desired(set, p), n)
                 /\ \A m \in SuffixNumbers : m < n => Spell(Desired(set, p), m) \in DOMAIN set.used
    <3>1. q \in Paths /\ ~Refused(set, q) /\ set' = Imp(set, q)
        BY <2>4 DEF Import, Refused
    <3>2. q # set.self /\ q \notin DOMAIN set.aliases
        BY <3>1 DEF Imp
    <3>4. CASE Desired(set, q) \in {Blank, Dot}
      <4>1. set' = Record(set, q, Desired(set, q))
          BY <3>1, <3>2, <3>4 DEF Imp
      <4>2. set'.aliases = Put(set.aliases, q, Desired(set, q))
          BY <2>0, <4>1 DEF Record, IsSet
      <4>3. p = q
          BY <4>2 DEF Put
      <4> QED  BY <3>4, <4>3
    <3>5. CASE Desired(set, q) \notin {Blank, Dot}
      <4> DEFINE base == Desired(set, q)
                 n == Suffix(set, q, base)
      <4>1. set' = RecordName(set, q, base)
          BY <3>1, <3>2, <3>5 DEF Imp
      <4>2. Recorded(set, q, base, n, set')
          BY <2>0, <4>1, RecordNameFields, Zenon
      <4>3. p = q /\ set'.aliases[p] = Spell(base, n)
        <5> HIDE DEF base, n
        <5> QED  BY <4>2 DEF Recorded, Put
      <4>4. Suffixed(base)
          BY <2>0, <3>1, <3>2, DesiredSuffixed
      <4>5. n \in SuffixNumbers /\ \A m \in SuffixNumbers : m < n => Spell(base, m) \in DOMAIN set.used
          BY <2>0, <3>1, <3>2, <4>4, SuffixIsLeastFree
      <4> QED  BY <4>3, <4>5
    <3> QED  BY <3>4, <3>5
  <2> QED  BY <2>1, <2>2, <2>3, <2>4 DEF FileNext
<1> QED  BY <1>1, SetInvariant, PTL DEF FileSpec, LowestFreeName

-----------------------------------------------------------------------------
(* The loops over a file's imports and references.  Along is one recursion *)
(* for all of them; that it has a value at every index is shown once, for  *)
(* the pass that is any of the three.                                      *)

LEMMA OnlyOne == ASSUME NEW x PROVE Only({x}) = x
BY DEF Only

KeepImport(out, imp, quals) ==
    IF imp.alias \in quals \cup {Blank, Dot} THEN Append(out, imp) ELSE out

Pass(kind, quals, b, x) ==
    IF kind = "pre" THEN PreImport(b, x)
    ELSE IF kind = "use" THEN Reference(b, x)
    ELSE KeepImport(b, x, quals)

Unrolls(g, kind, quals, base, list, n) ==
    g = [k \in 0 .. n |-> IF k = 0 THEN base ELSE Pass(kind, quals, g[k - 1], list[k])]

LEMMA LoopHasValues ==
    ASSUME NEW kind, NEW quals, NEW base, NEW list, NEW len \in Nat
    PROVE  \E g : Unrolls(g, kind, quals, base, list, len)
<1> DEFINE Step(b, k) == Pass(kind, quals, b, list[k])
           T == {n \in Nat : ~\E g : Unrolls(g, kind, quals, base, list, n)}
<1> SUFFICES ASSUME T # {} PROVE FALSE
    OBVIOUS
<1>1. \A g, n : Unrolls(g, kind, quals, base, list, n) <=>
                  g = [k \in 0 .. n |-> IF k = 0 THEN base ELSE Step(g[k - 1], k)]
    BY Zenon DEF Unrolls
<1> HIDE DEF Step
<1>2. PICK n \in T : \A m \in T : ~(m < n)
    BY LeastNatural
<1>3. CASE n = 0
  <2>0. PICK g : g = [k \in 0 .. 0 |-> base]
      OBVIOUS
  <2>1. g = [k \in 0 .. 0 |-> IF k = 0 THEN base ELSE Step(g[k - 1], k)]
      BY <2>0
  <2>2. Unrolls(g, kind, quals, base, list, 0)
      BY <1>1, <2>1, Zenon
  <2> QED  BY <1>2, <1>3, <2>2
<1>4. CASE n # 0
  <2>1. n - 1 \in Nat /\ n - 1 < n
      BY <1>2, <1>4
  <2>2. PICK g : Unrolls(g, kind, quals, base, list, n - 1)
      BY <1>2, <2>1
  <2>3. \A j \in 0 .. (n - 1) : g[j] = IF j = 0 THEN base ELSE Step(g[j - 1], j)
      BY <1>1, <2>2, SMTT(60)
  <2> DEFINE h == [k \in 0 .. n |-> IF k < n THEN g[k] ELSE Step(g[n - 1], n)]
  <2>4. ASSUME NEW k \in 0 .. n PROVE h[k] = IF k = 0 THEN base ELSE Step(h[k - 1], k)
    <3>1. k = 0 \/ k - 1 \in 0 .. (n - 1)
        BY <2>1
    <3>2. k # 0 => h[k - 1] = g[k - 1]
        BY <3>1
    <3>3. h[k] = IF k = 0 THEN base ELSE Step(g[k - 1], k)
        BY <2>1, <2>3
    <3> HIDE DEF h
    <3> QED  BY <3>2, <3>3
  <2>5. h = [k \in 0 .. n |-> h[k]]
      OBVIOUS
  <2> HIDE DEF h
  <2>6. h = [k \in 0 .. n |-> IF k = 0 THEN base ELSE Step(h[k - 1], k)]
      BY <2>4, <2>5
  <2>7. Unrolls(h, kind, quals, base, list, n)
      BY <1>1, <2>6, Zenon
  <2> QED  BY <1>2, <2>7
<1> QED  BY <1>3, <1>4

\* What a loop leaves is the last of a list of values, each made of the one
\* before it.
Looped(g, kind, quals, base, list, end_) ==
    /\ g[0] = base /\ end_ = g[Len(list)]
    /\ \A k \in 1 .. Len(list) : g[k] = Pass(kind, quals, g[k - 1], list[k])

LEMMA PreImportLoop ==
    ASSUME NEW base, NEW list, Len(list) \in Nat
    PROVE  \E g : Looped(g, "pre", {}, base, list, Along(PreImport, base, list))
<1> DEFINE Step(b, k) == PreImport(b, list[k])
           At(g) == g = [k \in 0 .. Len(list) |->
                          IF k = 0 THEN base ELSE Only({Step(b, k) : b \in {g[k - 1]}})]
<1>1. \A b, k : Pass("pre", {}, b, list[k]) = Step(b, k)
    BY DEF Pass
<1>2. PICK G : G = CHOOSE g : At(g)
    OBVIOUS
<1>3. Along(PreImport, base, list) = G[Len(list)]
    BY <1>2, Zenon DEF Along
<1> HIDE DEF Step
<1>4. \A b, k : Only({Step(x, k) : x \in {b}}) = Step(b, k)
    BY OnlyOne
<1>5. PICK g : Unrolls(g, "pre", {}, base, list, Len(list))
    BY LoopHasValues
<1>6. g = [k \in 0 .. Len(list) |-> IF k = 0 THEN base ELSE Step(g[k - 1], k)]
    BY <1>1, <1>5 DEF Unrolls
<1>7. At(g)
    BY <1>4, <1>6
<1>8. At(G)
    BY <1>2, <1>7, Zenon
<1>9. \A k \in 0 .. Len(list) : G[k] = IF k = 0 THEN base ELSE Step(G[k - 1], k)
    BY <1>4, <1>8
<1> QED  BY <1>1, <1>3, <1>9, SMTT(60) DEF Looped

LEMMA ReferenceLoop ==
    ASSUME NEW base, NEW list, Len(list) \in Nat
    PROVE  \E g : Looped(g, "use", {}, base, list, Along(Reference, base, list))
<1> DEFINE Step(b, k) == Reference(b, list[k])
           At(g) == g = [k \in 0 .. Len(list) |->
                          IF k = 0 THEN base ELSE Only({Step(b, k) : b \in {g[k - 1]}})]
<1>1. \A b, k : Pass("use", {}, b, list[k]) = Step(b, k)
    BY DEF Pass
<1>2. PICK G : G = CHOOSE g : At(g)
    OBVIOUS
<1>3. Along(Reference, base, list) = G[Len(list)]
    BY <1>2, Zenon DEF Along
<1> HIDE DEF Step
<1>4. \A b, k : Only({Step(x, k) : x \in {b}}) = Step(b, k)
    BY OnlyOne
<1>5. PICK g : Unrolls(g, "use", {}, base, list, Len(list))
    BY LoopHasValues
<1>6. g = [k \in 0 .. Len(list) |-> IF k = 0 THEN base ELSE Step(g[k - 1], k)]
    BY <1>1, <1>5 DEF Unrolls
<1>7. At(g)
    BY <1>4, <1>6
<1>8. At(G)
    BY <1>2, <1>7, Zenon
<1>9. \A k \in 0 .. Len(list) : G[k] = IF k = 0 THEN base ELSE Step(G[k - 1], k)
    BY <1>4, <1>8
<1> QED  BY <1>1, <1>3, <1>9, SMTT(60) DEF Looped

LEMMA PruneLoop ==
    ASSUME NEW list, Len(list) \in Nat, NEW quals
    PROVE  \E g : Looped(g, "prune", quals, <<>>, list, PruneImports(list, quals))
<1> DEFINE Step(b, k) == IF list[k].alias \in quals \cup {Blank, Dot} THEN Append(b, list[k]) ELSE b
           At(g) == g = [k \in 0 .. Len(list) |->
                          IF k = 0 THEN <<>> ELSE Only({Step(b, k) : b \in {g[k - 1]}})]
<1>1. \A b, k : Pass("prune", quals, b, list[k]) = Step(b, k)
    BY DEF Pass, KeepImport
<1>2. PICK G : G = CHOOSE g : At(g)
    OBVIOUS
<1>3. PruneImports(list, quals) = G[Len(list)]
    BY <1>2, Zenon DEF PruneImports, Along
<1> HIDE DEF Step
<1>4. \A b, k : Only({Step(x, k) : x \in {b}}) = Step(b, k)
    BY OnlyOne
<1>5. PICK g : Unrolls(g, "prune", quals, <<>>, list, Len(list))
    BY LoopHasValues
<1>6. g = [k \in 0 .. Len(list) |-> IF k = 0 THEN <<>> ELSE Step(g[k - 1], k)]
    BY <1>1, <1>5 DEF Unrolls
<1>7. At(g)
    BY <1>4, <1>6
<1>8. At(G)
    BY <1>2, <1>7, Zenon
<1>9. \A k \in 0 .. Len(list) : G[k] = IF k = 0 THEN <<>> ELSE Step(G[k - 1], k)
    BY <1>4, <1>8
<1> QED  BY <1>1, <1>3, <1>9, SMTT(60) DEF Looped

\* Pruning keeps the imports whose name is used, and the blank and dot ones.
LEMMA PruneKeeps ==
    ASSUME NEW S, NEW list \in Seq(S), NEW quals
    PROVE  LET out == PruneImports(list, quals) IN
           /\ \A k \in DOMAIN out : \E j \in DOMAIN list :
                out[k] = list[j] /\ list[j].alias \in quals \cup {Blank, Dot}
           /\ \A j \in DOMAIN list : list[j].alias \in quals \cup {Blank, Dot}
                => \E k \in DOMAIN out : out[k] = list[j]
<1>0. Len(list) \in Nat /\ DOMAIN list = 1 .. Len(list) /\ \A j \in 1 .. Len(list) : list[j] \in S
    OBVIOUS
<1>1. PICK g : Looped(g, "prune", quals, <<>>, list, PruneImports(list, quals))
    BY <1>0, PruneLoop
<1> DEFINE Used(j) == list[j].alias \in quals \cup {Blank, Dot}
           Sound(n) == \A k \in DOMAIN g[n] : \E j \in 1 .. n : g[n][k] = list[j] /\ Used(j)
           Whole(n) == \A j \in 1 .. n : Used(j) => \E k \in DOMAIN g[n] : g[n][k] = list[j]
           Held(n) == g[n] \in Seq(S) /\ Sound(n) /\ Whole(n)
           T == {n \in 0 .. Len(list) : ~Held(n)}
<1>2. /\ g[0] = <<>> /\ PruneImports(list, quals) = g[Len(list)]
      /\ \A n \in 1 .. Len(list) : g[n] = IF Used(n) THEN Append(g[n - 1], list[n]) ELSE g[n - 1]
    BY <1>1 DEF Looped, Pass, KeepImport
<1> HIDE DEF Used
<1>3. T = {}
  <2> SUFFICES ASSUME T # {} PROVE FALSE
      OBVIOUS
  <2>1. PICK n \in T : \A m \in T : ~(m < n)
    <3>1. T \subseteq Nat
        BY <1>0, SMTT(60)
    <3> QED  BY <3>1, LeastNatural
  <2>2. n \in 0 .. Len(list) /\ ~Held(n)
      BY <2>1
  <2>3. CASE n = 0
    <3>1. g[0] \in Seq(S) /\ DOMAIN g[0] = {}
        BY <1>2, SMTT(60)
    <3>2. Held(0)
        BY <3>1
    <3> QED  BY <2>2, <2>3, <3>2
  <2>4. CASE n # 0
    <3>1. n - 1 \in 0 .. Len(list) /\ n - 1 < n /\ n \in 1 .. Len(list)
        BY <1>0, <2>2, <2>4, SMTT(60)
    <3>2. Held(n - 1)
        BY <2>1, <3>1
    <3>3. \A j \in 1 .. n : j = n \/ j \in 1 .. (n - 1)
        BY <3>1
    <3>4. \A j \in 1 .. (n - 1) : j \in 1 .. n
        BY <3>1
    <3>5. PICK o, q : o = g[n - 1] /\ q = g[n]
        OBVIOUS
    <3>6. /\ o \in Seq(S)
          /\ \A k \in DOMAIN o : \E j \in 1 .. (n - 1) : o[k] = list[j] /\ Used(j)
          /\ \A j \in 1 .. (n - 1) : Used(j) => \E k \in DOMAIN o : o[k] = list[j]
        BY <3>2, <3>5
    <3>7. q \in Seq(S) /\ (\A k \in DOMAIN q : \E j \in 1 .. n : q[k] = list[j] /\ Used(j))
          /\ (\A j \in 1 .. n : Used(j) => \E k \in DOMAIN q : q[k] = list[j])
      <4>1. CASE ~Used(n)
        <5>1. q = o
            BY <1>2, <3>1, <3>5, <4>1
        <5> QED  BY <3>3, <3>4, <3>6, <4>1, <5>1, Zenon
      <4>2. CASE Used(n)
        <5>1. q = Append(o, list[n])
            BY <1>2, <3>1, <3>5, <4>2
        <5>2. q \in Seq(S) /\ Longer(o, list[n], q)
            BY <1>0, <3>1, <3>6, <5>1, AppendFacts
        <5>3. PICK l : l = Len(o) + 1
            OBVIOUS
        <5>4. /\ DOMAIN q = DOMAIN o \cup {l} /\ q[l] = list[n]
              /\ \A i \in DOMAIN o : q[i] = o[i]
            BY <5>2, <5>3 DEF Longer
        <5>5. n \in 1 .. n
            BY <3>1
        <5>6. ASSUME NEW k \in DOMAIN q PROVE \E j \in 1 .. n : q[k] = list[j] /\ Used(j)
            BY <3>4, <3>6, <4>2, <5>4, <5>5, Zenon
        <5>7. ASSUME NEW j \in 1 .. n, Used(j) PROVE \E k \in DOMAIN q : q[k] = list[j]
          <6>1. CASE j = n
              BY <5>4, <6>1, Zenon
          <6>2. CASE j # n
            <7>1. PICK k \in DOMAIN o : o[k] = list[j]
                BY <3>3, <3>6, <5>7, <6>2, Zenon
            <7> QED  BY <5>4, <7>1, Zenon
          <6> QED  BY <6>1, <6>2
        <5> QED  BY <5>2, <5>6, <5>7, Zenon
      <4> QED  BY <4>1, <4>2
    <3>8. Held(n)
        BY <3>5, <3>7, Zenon
    <3> QED  BY <2>2, <3>8
  <2> QED  BY <2>3, <2>4
<1>4. Held(Len(list))
    BY <1>0, <1>3, SMTT(60)
<1>5. PICK out : out = PruneImports(list, quals)
    OBVIOUS
<1>6. /\ \A k \in DOMAIN out : \E j \in DOMAIN list : out[k] = list[j] /\ Used(j)
      /\ \A j \in DOMAIN list : Used(j) => \E k \in DOMAIN out : out[k] = list[j]
    BY <1>0, <1>2, <1>4, <1>5, SMTT(60)
<1> QED  BY <1>5, <1>6 DEF Used

-----------------------------------------------------------------------------
(* One render, from the reset to the result. *)

LEMMA ResolveIsPath == ASSUME NEW path, IsPath(path) PROVE IsPath(Resolve(path))
BY BridgeAssumption DEF IsPath, Resolve

\* What holds while the file of package name, at the path self, is rendered:
\* the set is in order, and it binds every reference written so far.
BodyOK(b, name, self) ==
    /\ \E s, o, w : b = [set |-> s, ok |-> o, written |-> w]
    /\ b.ok \in BOOLEAN /\ Good(b.set, name) /\ b.set.self = self
    /\ \A w \in b.written : ~w.literal =>
         IF w.path = self THEN w.as = ""
         ELSE w.path \in DOMAIN b.set.aliases /\ w.as = b.set.aliases[w.path]

\* References written before stay bound.
LEMMA BodyKept ==
    ASSUME NEW b, NEW name, NEW self, BodyOK(b, name, self), NEW t, Good(t, name), Keeps(b.set, t),
           NEW ok \in BOOLEAN, NEW c, c = [b EXCEPT !.set = t, !.ok = ok]
    PROVE  BodyOK(c, name, self)
<1>1. PICK s, o, w : b = [set |-> s, ok |-> o, written |-> w]
    BY DEF BodyOK
<1>2. c = [set |-> t, ok |-> ok, written |-> w]
    BY <1>1
<1>3. c.set = t /\ c.written = b.written /\ b.set = s /\ c.ok = ok
    BY <1>1, <1>2
<1>4. t.self = self
    BY DEF Keeps, BodyOK
<1>5. \A x \in b.written : ~x.literal =>
         IF x.path = self THEN x.as = ""
         ELSE x.path \in DOMAIN t.aliases /\ x.as = t.aliases[x.path]
    BY DEF Keeps, BodyOK
<1>6. \E s2, o2, w2 : c = [set |-> s2, ok |-> o2, written |-> w2]
    BY <1>2, Zenon
<1> QED  BY <1>3, <1>4, <1>5, <1>6 DEF BodyOK

LEMMA KeepsItself == ASSUME NEW s PROVE Keeps(s, s)
BY DEF Keeps

LEMMA PreImportOK ==
    ASSUME NEW b, NEW name, NEW self, BodyOK(b, name, self), NEW imp,
           IsPath(imp.path), IsName(imp.alias)
    PROVE  BodyOK(PreImport(b, imp), name, self)
<1> DEFINE s == IF imp.alias = "" THEN b.set ELSE Alias(b.set, imp.path, imp.alias)
<1>1. Good(b.set, name)
    BY DEF BodyOK
<1>2. Good(s, name) /\ s.self = b.set.self /\ s.aliases = b.set.aliases
  <2>1. CASE imp.alias = ""
      BY <1>1, <2>1
  <2>2. CASE imp.alias # ""
    <3>1. LET t == Alias(b.set, imp.path, imp.alias)
          IN  Good(t, name) /\ t.self = b.set.self /\ t.aliases = b.set.aliases
      <4>1. PICK p, a : p = imp.path /\ a = imp.alias
          OBVIOUS
      <4>2. p \in Paths \cup {""} /\ (a = "" \/ Suffixed(a))
          BY <4>1 DEF IsPath, IsName
      <4>3. PICK g : g = b.set
          OBVIOUS
      <4>4. Good(g, name)
          BY <1>1, <4>3
      <4>5. LET t == Alias(g, p, a)
            IN  Good(t, name) /\ t.self = g.self /\ t.aliases = g.aliases
          BY <4>2, <4>4, AliasGood
      <4> QED  BY <4>1, <4>3, <4>5
    <3> QED  BY <2>2, <3>1
  <2> QED  BY <2>1, <2>2
<1>3. PreImport(b, imp) = IF ~b.ok THEN b
                          ELSE IF Refused(s, imp.path) THEN [b EXCEPT !.set = s, !.ok = FALSE]
                          ELSE [b EXCEPT !.set = Imp(s, imp.path)]
    BY DEF PreImport
<1> HIDE DEF s
<1>4. CASE ~b.ok
    BY <1>3, <1>4
<1>5. CASE b.ok /\ Refused(s, imp.path)
  <2>1. Keeps(b.set, s)
      BY <1>2 DEF Keeps
  <2>2. PreImport(b, imp) = [b EXCEPT !.set = s, !.ok = FALSE]
      BY <1>3, <1>5
  <2> QED  BY <1>2, <2>1, <2>2, BodyKept
<1>6. CASE b.ok /\ ~Refused(s, imp.path)
  <2> DEFINE t == Imp(s, imp.path)
  <2>1. imp.path \in Paths
      BY <1>6 DEF IsPath, Refused
  <2>2. Good(t, name) /\ Keeps(s, t)
      BY <1>2, <1>6, <2>1, ImpGood
  <2> HIDE DEF t
  <2>3. Keeps(b.set, t)
      BY <1>2, <2>2 DEF Keeps
  <2>4. PreImport(b, imp) = [b EXCEPT !.set = t]
      BY <1>3, <1>6 DEF t
  <2>5. [b EXCEPT !.set = t] = [b EXCEPT !.set = t, !.ok = b.ok] /\ b.ok \in BOOLEAN
    <3>1. PICK s2, o2, w2 : b = [set |-> s2, ok |-> o2, written |-> w2]
        BY DEF BodyOK
    <3> QED  BY <3>1 DEF BodyOK
  <2> QED  BY <2>2, <2>3, <2>4, <2>5, BodyKept
<1> QED  BY <1>4, <1>5, <1>6

LEMMA ReferenceOK ==
    ASSUME NEW b, NEW name, NEW self, BodyOK(b, name, self), NEW use, IsPath(use.path)
    PROVE  BodyOK(Reference(b, use), name, self)
<1> DEFINE p == Resolve(use.path)
           t == Imp(b.set, p)
           x == [path |-> p, literal |-> use.literal # "", typed |-> use.typed,
                 as |-> IF use.literal = "" THEN Qualifier(b.set, p) ELSE use.literal]
<1>1. Good(b.set, name) /\ IsPath(p)
    BY ResolveIsPath DEF BodyOK
<1>2. Reference(b, use) = IF ~b.ok THEN b
                          ELSE IF Refused(b.set, p) THEN [b EXCEPT !.ok = FALSE]
                          ELSE [b EXCEPT !.set = t, !.written = b.written \cup {x}]
    BY DEF Reference
<1>3. /\ x.path = p /\ x.literal = (use.literal # "")
      /\ use.literal = "" => x.as = Qualifier(b.set, p)
    OBVIOUS
<1> HIDE DEF p, t, x
<1>4. PICK s, o, w : b = [set |-> s, ok |-> o, written |-> w]
    BY DEF BodyOK
<1>5. CASE ~b.ok
    BY <1>2, <1>5
<1>6. CASE b.ok /\ Refused(b.set, p)
  <2>1. Reference(b, use) = [b EXCEPT !.ok = FALSE]
      BY <1>2, <1>6
  <2>2. [b EXCEPT !.ok = FALSE] = [b EXCEPT !.set = b.set, !.ok = FALSE]
      BY <1>4
  <2> QED  BY <1>1, <2>1, <2>2, BodyKept, KeepsItself
<1>7. CASE b.ok /\ ~Refused(b.set, p)
  <2>1. p \in Paths
      BY <1>1, <1>7 DEF IsPath, Refused
  <2>2. /\ Good(t, name) /\ Keeps(b.set, t)
        /\ p # b.set.self => p \in DOMAIN t.aliases
        /\ Qualifier(b.set, p) = IF p = b.set.self THEN "" ELSE t.aliases[p]
      BY <1>1, <1>7, <2>1, ImpGood DEF t
  <2>3. PICK c : c = Reference(b, use)
      OBVIOUS
  <2>4. PICK v : v = b.written \cup {x}
      OBVIOUS
  <2>5. c = [set |-> t, ok |-> o, written |-> v]
      BY <1>2, <1>4, <1>7, <2>3, <2>4
  <2>6. c.set = t /\ c.written = v /\ c.ok \in BOOLEAN
      BY <1>4, <2>5 DEF BodyOK
  <2>7. b.set.self = self /\ t.self = self
      BY <2>2 DEF BodyOK, Keeps
  <2>8. ASSUME NEW y \in v, ~y.literal
        PROVE (IF y.path = self THEN y.as = ""
               ELSE y.path \in DOMAIN t.aliases /\ y.as = t.aliases[y.path])
    <3>1. CASE y = x
        BY <1>3, <2>2, <2>7, <2>8, <3>1
    <3>2. CASE y # x
      <4>1. y \in b.written
          BY <2>4, <3>2
      <4> QED  BY <2>2, <2>8, <4>1 DEF BodyOK, Keeps
    <3> QED  BY <3>1, <3>2
  <2>9. \E s2, o2, w2 : c = [set |-> s2, ok |-> o2, written |-> w2]
      BY <2>5, Zenon
  <2>10. BodyOK(c, name, self)
      BY <2>2, <2>6, <2>7, <2>8, <2>9 DEF BodyOK
  <2> QED  BY <2>3, <2>10
<1> QED  BY <1>5, <1>6, <1>7

\* Both loops of renderFile.
LEMMA LoopOK ==
    ASSUME NEW g, NEW kind \in {"pre", "use"}, NEW base, NEW list, NEW last, Len(list) \in Nat,
           Looped(g, kind, {}, base, list, last), NEW name, NEW self, BodyOK(base, name, self),
           \A k \in 1 .. Len(list) :
               IsPath(list[k].path) /\ (kind = "pre" => IsName(list[k].alias))
    PROVE  BodyOK(last, name, self)
<1> DEFINE T == {n \in 0 .. Len(list) : ~BodyOK(g[n], name, self)}
<1>1. T = {}
  <2> SUFFICES ASSUME T # {} PROVE FALSE
      OBVIOUS
  <2>1. PICK n \in T : \A m \in T : ~(m < n)
    <3>1. T \subseteq Nat
        OBVIOUS
    <3> QED  BY <3>1, LeastNatural
  <2>2. n \in 0 .. Len(list) /\ ~BodyOK(g[n], name, self)
      BY <2>1
  <2>3. n # 0
      BY <2>2 DEF Looped
  <2>4. n \in 1 .. Len(list) /\ n - 1 \in 0 .. Len(list) /\ n - 1 < n
      BY <2>2, <2>3
  <2>5. BodyOK(g[n - 1], name, self)
      BY <2>1, <2>4
  <2>6. g[n] = Pass(kind, {}, g[n - 1], list[n])
      BY <2>4 DEF Looped
  <2>7. CASE kind = "pre"
    <3>1. g[n] = PreImport(g[n - 1], list[n])
        BY <2>6, <2>7 DEF Pass
    <3> QED  BY <2>2, <2>4, <2>5, <2>7, <3>1, PreImportOK
  <2>8. CASE kind = "use"
    <3>1. g[n] = Reference(g[n - 1], list[n])
        BY <2>6, <2>8 DEF Pass
    <3> QED  BY <2>2, <2>4, <2>5, <2>8, <3>1, ReferenceOK
  <2> QED  BY <2>7, <2>8
<1>2. BodyOK(g[Len(list)], name, self)
    BY <1>1
<1> QED  BY <1>2 DEF Looped

\* Some target of a list is the last that tells what its path is called.
LEMMA PackageIsName ==
    ASSUME NEW ks \in Runs, NEW p \in Written(ks)
    PROVE  IsName(PackageAt(ks, p))
<1> DEFINE at == {i \in Telling(ks) : ks[i].path = p}
           T == {Len(ks) - i : i \in at}
<1>1. Len(ks) \in Nat /\ DOMAIN ks = 1 .. Len(ks)
    BY RunsAssumption
<1>2. T \subseteq Nat /\ T # {}
  <2>1. at \subseteq DOMAIN ks /\ at # {}
      BY DEF Written, Telling
  <2> QED  BY <1>1, <2>1
<1>3. PICK x \in T : \A y \in T : ~(y < x)
    BY <1>2, LeastNatural
<1>4. PICK i \in at : x = Len(ks) - i
    BY <1>3
<1>5. ASSUME NEW j \in at PROVE j <= i
  <2>1. Len(ks) - j \in T
      OBVIOUS
  <2>2. i \in Nat /\ j \in Nat
    <3>1. i \in DOMAIN ks /\ j \in DOMAIN ks
        BY DEF Telling
    <3> QED  BY <1>1, <3>1
  <2>3. ~(Len(ks) - j < Len(ks) - i)
      BY <1>3, <1>4, <2>1
  <2> HIDE DEF T, at
  <2> QED  BY <1>1, <2>2, <2>3, SMTT(60)
<1>6. PICK c : c = CHOOSE k \in at : \A j \in at : j <= k
    OBVIOUS
<1>7. c \in at
    BY <1>4, <1>5, <1>6, Zenon
<1>8. PackageAt(ks, p) = ks[c].pkg
    BY <1>6 DEF PackageAt
<1> QED  BY <1>7, <1>8, TargetsAssumption DEF IsTarget, Telling

LEMMA BeginGood ==
    ASSUME NEW ks \in Runs, NEW i \in DOMAIN ks
    PROVE  LET t == Begin(NewImportSet, ks, i)
           IN  Good(t, ks[i].pkg) /\ t.self = Resolve(ks[i].path)
<1> DEFINE self == Resolve(ks[i].path)
           s == SetSelf(Reset(NewImportSet), self, ks[i].pkg)
           e == [p \in Renamed(ks) \ {self} |-> PackageAt(ks, p)]
           t == Begin(NewImportSet, ks, i)
<1>1. self \in Paths \cup {""}
    BY ResolveIsPath, TargetsAssumption DEF IsTarget, IsPath
<1>2. t = [s EXCEPT !.explicit = e]
    BY Zenon DEF Begin, ApplySelfAliases
<1>3. \A p \in DOMAIN e : p \in Paths /\ IsName(e[p])
  <2> SUFFICES ASSUME NEW p \in Renamed(ks) PROVE p \in Paths /\ IsName(PackageAt(ks, p))
      OBVIOUS
  <2>1. p \in Written(ks)
      BY DEF Renamed
  <2>2. p # "" /\ \E j \in DOMAIN ks : ks[j].path = p
      BY <2>1 DEF Written, Telling
  <2> QED  BY <2>1, <2>2, PackageIsName, TargetsAssumption DEF IsTarget, IsPath
<1>4. Good(s, ks[i].pkg)
    BY <1>1, SelfGood
<1>5. PICK u : s = [self |-> self, order |-> Empty, aliases |-> Empty,
                    explicit |-> Empty, used |-> u, lastSfx |-> Empty]
    BY <1>1, SelfFields, Zenon
<1> HIDE DEF self, s, e, t
<1>6. t = [self |-> self, order |-> Empty, aliases |-> Empty,
           explicit |-> e, used |-> u, lastSfx |-> Empty]
    BY <1>2, <1>5
<1>7. IsSet(t)
    BY <1>6, Zenon DEF IsSet
<1>8. /\ t.self = s.self /\ t.order = s.order /\ t.aliases = s.aliases
      /\ t.explicit = e /\ t.used = s.used /\ t.lastSfx = s.lastSfx
      /\ s.self = self /\ s.order = Empty /\ s.aliases = Empty
    BY <1>5, <1>6
<1>9. Shaped(t)
    BY <1>3, <1>4, <1>8 DEF Good, Shaped, IsName
<1>10. Listed(t)
    BY <1>4, <1>8, EmptyFacts DEF Listed
<1>11. Owned(t, ks[i].pkg)
    BY <1>4, <1>8, ZenonT(60) DEF Good, Owned
<1>12. Dense(t)
    BY <1>4, <1>8 DEF Good, Dense
<1>13. Good(t, ks[i].pkg)
    BY <1>7, <1>9, <1>10, <1>11, <1>12 DEF Good
<1> QED  BY <1>4, <1>8, <1>13 DEF t, self

\* When the templates are done, the set binds every reference in the body.
LEMMA BodyIsOK ==
    ASSUME NEW ks \in Runs, NEW i \in DOMAIN ks
    PROVE  BodyOK(Body(Begin(NewImportSet, ks, i), ks[i]), ks[i].pkg, Resolve(ks[i].path))
<1> DEFINE s == Begin(NewImportSet, ks, i)
           name == ks[i].pkg
           self == Resolve(ks[i].path)
           b0 == [set |-> s, ok |-> TRUE, written |-> {}]
           b1 == Along(PreImport, b0, ks[i].pre)
           b2 == Along(Reference, b1, ks[i].uses)
<1>1. Good(s, name) /\ s.self = self
    BY BeginGood
<1>2. Body(s, ks[i]) = b2
    BY Zenon DEF Body
<1> HIDE DEF s, name, self
<1>3. BodyOK(b0, name, self)
  <2>1. \E x, o, w : b0 = [set |-> x, ok |-> o, written |-> w]
      BY Zenon
  <2> QED  BY <1>1, <2>1 DEF BodyOK
<1>4. IsTarget(ks[i])
    BY TargetsAssumption
<1> HIDE DEF b0, b1, b2
<1>5. BodyOK(b1, name, self)
  <2> DEFINE list == ks[i].pre
  <2>1. Len(list) \in Nat /\ DOMAIN list = 1 .. Len(list)
      BY <1>4 DEF IsTarget
  <2>2. \A k \in 1 .. Len(list) : IsPath(list[k].path) /\ IsName(list[k].alias)
      BY <1>4, <2>1 DEF IsTarget
  <2> HIDE DEF list
  <2>3. PICK g : Looped(g, "pre", {}, b0, list, b1)
      BY <2>1, PreImportLoop DEF b1, list
  <2> QED  BY <1>3, <2>1, <2>2, <2>3, LoopOK, SMTT(60)
<1>6. BodyOK(b2, name, self)
  <2> DEFINE list == ks[i].uses
  <2>1. Len(list) \in Nat /\ DOMAIN list = 1 .. Len(list)
      BY <1>4 DEF IsTarget
  <2>2. \A k \in 1 .. Len(list) : IsPath(list[k].path)
      BY <1>4, <2>1 DEF IsTarget
  <2> HIDE DEF list
  <2>3. PICK g : Looped(g, "use", {}, b1, list, b2)
      BY <2>1, ReferenceLoop DEF b2, list
  <2> QED  BY <1>5, <2>1, <2>2, <2>3, LoopOK
<1> QED  BY <1>2, <1>6 DEF s, name, self

LEMMA AloneIsComposed ==
    ASSUME NEW ks, NEW i \in DOMAIN ks
    PROVE  Alone(ks)[i] = Compose(Body(Begin(NewImportSet, ks, i), ks[i]), ks[i])
<1> DEFINE b == Body(Begin(NewImportSet, ks, i), ks[i])
           f(x) == [set |-> x.set, res |-> Compose(x, ks[i])]
<1>1. RenderTarget(NewImportSet, ks, i) = Only({f(x) : x \in {b}})
    BY Zenon DEF RenderTarget
<1>2. f(b).res = Compose(b, ks[i])
    OBVIOUS
<1> HIDE DEF b, f
<1>3. Only({f(x) : x \in {b}}) = f(b)
    BY OnlyOne
<1>4. Alone(ks)[i] = RenderTarget(NewImportSet, ks, i).res
    BY DEF Alone
<1> QED  BY <1>1, <1>2, <1>3, <1>4 DEF b

QualsOf(b, t) == ({w.as : w \in b.written} \ {""}) \cup t.raw

\* What a result that has a file consists of.
Rendered(b, t, r) ==
    /\ b.ok /\ r.written = b.written /\ r.quals = QualsOf(b, t)
    /\ t.outcome \in {"unparsed", "renders"}
    /\ t.outcome = "unparsed" => r.imports = Imports(b.set) /\ r.topLevel = {}
    /\ t.outcome = "renders" =>
         /\ r.imports = PruneImports(Imports(b.set), QualsOf(b, t)) /\ r.topLevel = t.names
         /\ r.candidates = UnresolvedCandidates(r.imports, QualsOf(b, t), t.names \cup t.locals)

LEMMA ComposeShape ==
    ASSUME NEW b, b.ok \in BOOLEAN, NEW t, t.outcome \in {"fails", "empty", "unparsed", "renders"},
           ~Compose(b, t).skip
    PROVE  Rendered(b, t, Compose(b, t))
<1> DEFINE quals    == QualsOf(b, t)
           declared == t.names \cup t.locals
           all      == Imports(b.set)
           kept     == PruneImports(all, quals)
           diags    == ShadowedImports(kept, {w.as : w \in {v \in b.written : v.typed}}, declared)
           cands    == UnresolvedCandidates(kept, quals, declared)
<1>1. Compose(b, t) =
        CASE ~b.ok \/ t.outcome = "fails" -> Skipped({"render failed"})
          [] b.ok /\ t.outcome = "empty" -> Skipped({})
          [] b.ok /\ t.outcome = "unparsed" ->
               [skip |-> FALSE, diags |-> {"not valid Go"}, imports |-> all,
                written |-> b.written, quals |-> quals, candidates |-> {}, topLevel |-> {}]
          [] b.ok /\ t.outcome = "renders" ->
               [skip |-> FALSE, diags |-> diags, imports |-> kept, written |-> b.written,
                quals |-> quals, candidates |-> cands, topLevel |-> t.names]
    BY Zenon DEF Compose, QualsOf
<1>2. quals = QualsOf(b, t) /\ all = Imports(b.set) /\ kept = PruneImports(all, quals)
      /\ cands = UnresolvedCandidates(kept, quals, t.names \cup t.locals)
    OBVIOUS
<1> HIDE DEF quals, declared, all, kept, diags, cands
<1>3. b.ok /\ t.outcome \in {"unparsed", "renders"}
  <2>1. \A d : Skipped(d).skip
      BY DEF Skipped
  <2>2. ASSUME ~b.ok \/ t.outcome = "fails" PROVE FALSE
    <3>1. Compose(b, t) = Skipped({"render failed"})
        BY <1>1, <2>2
    <3> QED  BY <2>1, <3>1
  <2>3. ASSUME b.ok, t.outcome = "empty" PROVE FALSE
    <3>1. Compose(b, t) = Skipped({})
        BY <1>1, <2>3
    <3> QED  BY <2>1, <3>1
  <2> QED  BY <2>2, <2>3
<1>4. PICK r : r = Compose(b, t)
    OBVIOUS
<1>5. CASE t.outcome = "unparsed"
  <2>1. r = [skip |-> FALSE, diags |-> {"not valid Go"}, imports |-> all,
             written |-> b.written, quals |-> quals, candidates |-> {}, topLevel |-> {}]
      BY <1>1, <1>3, <1>4, <1>5
  <2>2. r.written = b.written /\ r.quals = quals /\ r.imports = all /\ r.topLevel = {}
      BY <2>1
  <2> QED  BY <1>2, <1>3, <1>4, <1>5, <2>2 DEF Rendered
<1>6. CASE t.outcome = "renders"
  <2>1. r = [skip |-> FALSE, diags |-> diags, imports |-> kept, written |-> b.written,
             quals |-> quals, candidates |-> cands, topLevel |-> t.names]
      BY <1>1, <1>3, <1>4, <1>6
  <2>2. /\ r.written = b.written /\ r.quals = quals /\ r.imports = kept
        /\ r.topLevel = t.names /\ r.candidates = cands
      BY <2>1
  <2> QED  BY <1>2, <1>3, <1>4, <1>6, <2>2 DEF Rendered
<1> QED  BY <1>3, <1>5, <1>6

\* The import block lists every path that has an alias, with its alias.
Item(imp, s) == imp.path \in DOMAIN s.aliases /\ imp.alias = s.aliases[imp.path]

LEMMA ImportsList ==
    ASSUME NEW s, Listed(s)
    PROVE  /\ \E S : Imports(s) \in Seq(S)
           /\ \A k \in DOMAIN Imports(s) : Item(Imports(s)[k], s)
           /\ \A p \in DOMAIN s.aliases : \E k \in DOMAIN Imports(s) : Imports(s)[k].path = p
<1> DEFINE all == Imports(s)
           S == {[path |-> s.order[i], alias |-> s.aliases[s.order[i]]] : i \in DOMAIN s.order}
<1>1. s.order \in Seq(Paths) /\ DOMAIN s.order = 1 .. Len(s.order) /\ Len(s.order) \in Nat
    BY SMTT(60) DEF Listed
<1>2. /\ DOMAIN all = DOMAIN s.order
      /\ \A k \in DOMAIN all : all[k] = [path |-> s.order[k], alias |-> s.aliases[s.order[k]]]
    BY DEF Imports
<1>3. all = [k \in DOMAIN s.order |-> all[k]]
    BY DEF Imports
<1> HIDE DEF all
<1>4. \A k \in DOMAIN all : all[k] \in S
    BY <1>2
<1>5. all \in Seq(S)
  <2>1. all \in [1 .. Len(s.order) -> S]
    <3> HIDE DEF S
    <3> QED  BY <1>1, <1>2, <1>3, <1>4
  <2> HIDE DEF S
  <2> QED  BY <1>1, <2>1
<1>6. ASSUME NEW k \in DOMAIN all
      PROVE  all[k].path = s.order[k] /\ all[k].alias = s.aliases[s.order[k]]
  <2>1. PICK x, p, a : x = all[k] /\ p = s.order[k] /\ a = s.aliases[s.order[k]]
      OBVIOUS
  <2>2. x = [path |-> p, alias |-> a]
      BY <1>2, <2>1
  <2>3. x.path = p /\ x.alias = a
      BY <2>2
  <2> QED  BY <2>1, <2>3
<1>7. \A k \in DOMAIN all : Item(all[k], s)
    BY <1>2, <1>6 DEF Listed, Item
<1>8. ASSUME NEW p \in DOMAIN s.aliases PROVE \E k \in DOMAIN all : all[k].path = p
  <2>1. PICK k \in DOMAIN s.order : s.order[k] = p
      BY DEF Listed
  <2> QED  BY <1>2, <1>6, <2>1
<1>9. \E U : all \in Seq(U)
    BY <1>5, Zenon
<1> QED  BY <1>7, <1>8, <1>9 DEF all

Bound(imports, name) ==
    {imports[k].path : k \in {k \in DOMAIN imports : imports[k].alias = name}}

\* A reference w, in the file of package name at the path self, reaches the
\* package it asked for.
Reaches(w, name, self, imports) ==
    ~w.literal =>
        \/ w.as = "" /\ w.path = self
        \/ w.as \in {Blank, Dot}
        \/ w.as # name /\ Bound(imports, w.as) = {w.path}

\* The references of a body reach their packages through its imports.
LEMMA ReferencesBound ==
    ASSUME NEW b, NEW name, NEW self, BodyOK(b, name, self), NEW t, NEW r, Rendered(b, t, r),
           NEW w \in r.written
    PROVE  Reaches(w, name, self, r.imports)
<1> SUFFICES ASSUME ~w.literal
             PROVE  \/ w.as = "" /\ w.path = self
                    \/ w.as \in {Blank, Dot}
                    \/ w.as # name /\ Bound(r.imports, w.as) = {w.path}
    BY DEF Reaches
<1> DEFINE s == b.set
           all == Imports(s)
<1>0. w \in b.written /\ Good(s, name) /\ s.self = self
    BY DEF Rendered, BodyOK
<1>1. CASE w.path = self
    BY <1>0, <1>1 DEF BodyOK
<1>2. CASE w.path # self /\ w.as \notin {Blank, Dot}
  <2>1. w.path \in DOMAIN s.aliases /\ w.as = s.aliases[w.path]
      BY <1>0, <1>2 DEF BodyOK
  <2> HIDE DEF s
  <2>2. w.as # "" /\ w.path # s.self
      BY <1>0, <1>2, <2>1 DEF Good, Shaped
  <2>3. \A p \in DOMAIN s.aliases : s.aliases[p] = w.as => p = w.path
    <3>1. \A p \in DOMAIN s.aliases : s.aliases[p] \notin {Blank, Dot} => s.used[s.aliases[p]] = p
        BY <1>0 DEF Good, Owned
    <3> QED  BY <1>2, <2>1, <3>1
  <2>4. w.as # name
    <3>1. name # "" => s.used[name] = s.self
        BY <1>0 DEF Good, Owned
    <3>2. s.used[w.as] = w.path
        BY <1>0, <1>2, <2>1 DEF Good, Owned
    <3> QED  BY <2>2, <3>1, <3>2
  <2>5. Listed(s)
      BY <1>0 DEF Good
  <2>6. PICK S : all \in Seq(S)
      BY <2>5, ImportsList
  <2>7. /\ \A k \in DOMAIN all : Item(all[k], s)
        /\ \A p \in DOMAIN s.aliases : \E k \in DOMAIN all : all[k].path = p
      BY <2>5, ImportsList
  <2> HIDE DEF all
  <2>8. PICK j \in DOMAIN all : all[j].path = w.path
      BY <2>1, <2>7
  <2>9. all[j].alias = w.as
      BY <2>1, <2>7, <2>8 DEF Item
  <2>10. /\ \A k \in DOMAIN r.imports : Item(r.imports[k], s)
         /\ \E k \in DOMAIN r.imports : r.imports[k] = all[j]
    <3>1. CASE t.outcome = "unparsed"
      <4>1. r.imports = all
          BY <3>1 DEF Rendered, all, s
      <4> QED  BY <2>7, <4>1
    <3>2. CASE t.outcome = "renders"
      <4> DEFINE quals == QualsOf(b, t)
      <4>1. r.imports = PruneImports(all, quals)
          BY <3>2 DEF Rendered, all, s
      <4>2. w.as \in quals
          BY <1>0, <2>2 DEF QualsOf
      <4> HIDE DEF quals
      <4>3. /\ \A k \in DOMAIN r.imports : \E m \in DOMAIN all : r.imports[k] = all[m]
            /\ \A m \in DOMAIN all : all[m].alias \in quals \cup {Blank, Dot}
                 => \E k \in DOMAIN r.imports : r.imports[k] = all[m]
          BY <2>6, <4>1, PruneKeeps, SMTT(60)
      <4>4. ASSUME NEW k \in DOMAIN r.imports PROVE Item(r.imports[k], s)
        <5>1. PICK m \in DOMAIN all : r.imports[k] = all[m]
            BY <4>3
        <5> QED  BY <2>7, <5>1
      <4> QED  BY <2>8, <2>9, <4>2, <4>3, <4>4
    <3> QED  BY <3>1, <3>2 DEF Rendered
  <2>11. PICK m \in DOMAIN r.imports : r.imports[m] = all[j]
      BY <2>10
  <2>12. r.imports[m].alias = w.as /\ r.imports[m].path = w.path
      BY <2>8, <2>9, <2>11
  <2>13. \A k \in DOMAIN r.imports : r.imports[k].alias = w.as => r.imports[k].path = w.path
      BY <2>3, <2>10 DEF Item
  <2>14. Bound(r.imports, w.as) = {w.path}
      BY <2>12, <2>13 DEF Bound
  <2> QED  BY <2>4, <2>14
<1> QED  BY <1>1, <1>2

\* The names the files of a package declare, as UnboundQualifiersAreReported
\* has them.
PackageNames(ks, i) ==
    UNION {ks[j].names : j \in {j \in DOMAIN ks :
             /\ ~Alone(ks)[j].skip /\ ks[j].outcome = "renders"
             /\ ks[j].dir = ks[i].dir /\ ks[j].pkg = ks[i].pkg}}

LEMMA AloneRendered ==
    ASSUME NEW ks \in Runs, NEW i \in DOMAIN ks, ~Alone(ks)[i].skip
    PROVE  \E b : BodyOK(b, ks[i].pkg, Resolve(ks[i].path)) /\ Rendered(b, ks[i], Alone(ks)[i])
<1>1. PICK b : b = Body(Begin(NewImportSet, ks, i), ks[i])
    OBVIOUS
<1>2. BodyOK(b, ks[i].pkg, Resolve(ks[i].path))
    BY <1>1, BodyIsOK
<1>3. Alone(ks)[i] = Compose(b, ks[i])
    BY <1>1, AloneIsComposed
<1>4. b.ok \in BOOLEAN /\ ks[i].outcome \in {"fails", "empty", "unparsed", "renders"}
    BY <1>2, TargetsAssumption DEF BodyOK, IsTarget
<1>5. Rendered(b, ks[i], Alone(ks)[i])
    BY <1>3, <1>4, ComposeShape, SMTT(60)
<1> QED  BY <1>2, <1>5

\* unionTopLevel collects the names of the package's rendered files.
LEMMA TopLevelIsPackageNames ==
    ASSUME NEW ks \in Runs, NEW i \in DOMAIN ks
    PROVE  TopLevelOf(ks, Alone(ks), i) = PackageNames(ks, i)
<1> DEFINE Same(j) == ~Alone(ks)[j].skip /\ ks[j].dir = ks[i].dir /\ ks[j].pkg = ks[i].pkg
<1>1. ASSUME NEW j \in DOMAIN ks, ~Alone(ks)[j].skip
      PROVE  /\ ks[j].outcome \in {"unparsed", "renders"}
             /\ Alone(ks)[j].topLevel = IF ks[j].outcome = "renders" THEN ks[j].names ELSE {}
  <2>1. PICK b : Rendered(b, ks[j], Alone(ks)[j])
      BY <1>1, AloneRendered
  <2> QED  BY <2>1 DEF Rendered
<1>2. \A x : x \in TopLevelOf(ks, Alone(ks), i) <=>
               \E j \in DOMAIN ks : Same(j) /\ x \in Alone(ks)[j].topLevel
    BY DEF TopLevelOf
<1>3. \A x : x \in PackageNames(ks, i) <=>
               \E j \in DOMAIN ks : Same(j) /\ ks[j].outcome = "renders" /\ x \in ks[j].names
    BY DEF PackageNames
<1>4. ASSUME NEW x, NEW j \in DOMAIN ks, Same(j)
      PROVE  x \in Alone(ks)[j].topLevel <=> ks[j].outcome = "renders" /\ x \in ks[j].names
    BY <1>1, <1>4
<1> HIDE DEF Same
<1>5. \A x : x \in TopLevelOf(ks, Alone(ks), i) <=> x \in PackageNames(ks, i)
    BY <1>2, <1>3, <1>4
<1> QED  BY <1>5

\* What a run shows of a key: the parts of Replayed.
LEMMA SeenFields ==
    ASSUME NEW ks, NEW i, NEW writes \in BOOLEAN, NEW e, e = AloneSeen(ks, i, writes),
           e.file.written
    PROVE  LET r == Alone(ks)[i] IN
           /\ ~r.skip /\ e.warned = r.candidates \ TopLevelOf(ks, Alone(ks), i)
           /\ e.file.imports = r.imports /\ e.file.body = r.written /\ e.file.quals = r.quals
<1> DEFINE r == Alone(ks)[i]
           File(x) == IF x.skip \/ ~writes THEN NoFile
                      ELSE [written |-> TRUE, imports |-> x.imports,
                            body |-> x.written, quals |-> x.quals]
           Warned(x) == IF x.skip THEN {} ELSE x.candidates \ TopLevelOf(ks, Alone(ks), i)
           f(x) == [key |-> i, diags |-> x.diags, warned |-> Warned(x), file |-> File(x)]
<1>1. e = Only({f(x) : x \in {r}})
    BY Zenon DEF AloneSeen, Replayed
<1>2. f(r).warned = Warned(r) /\ f(r).file = File(r)
    OBVIOUS
<1> HIDE DEF f
<1>3. e = f(r)
  <2> HIDE DEF r
  <2> QED  BY <1>1, OnlyOne
<1>4. e.warned = Warned(r) /\ e.file = File(r)
    BY <1>2, <1>3
<1>5. ~r.skip /\ writes
  <2>1. ~NoFile.written
      BY DEF NoFile
  <2> QED  BY <1>4, <2>1
<1> HIDE DEF r
<1>6. e.file = [written |-> TRUE, imports |-> r.imports, body |-> r.written, quals |-> r.quals]
    BY <1>4, <1>5
<1>7. e.file.imports = r.imports /\ e.file.body = r.written /\ e.file.quals = r.quals
    BY <1>6
<1> QED  BY <1>4, <1>5, <1>7 DEF r

\* Every file a run shows: its references reach their packages ...
LEMMA FileReferences ==
    ASSUME NEW ks \in Runs, NEW i \in DOMAIN ks, NEW writes \in BOOLEAN,
           NEW e, e = AloneSeen(ks, i, writes), e.file.written,
           NEW w \in e.file.body
    PROVE  Reaches(w, ks[i].pkg, Resolve(ks[i].path), e.file.imports)
<1>1. PICK r : r = Alone(ks)[i]
    OBVIOUS
<1>2. ~r.skip /\ e.file.imports = r.imports /\ e.file.body = r.written
    BY <1>1, SeenFields, SMTT(60)
<1>3. PICK b : BodyOK(b, ks[i].pkg, Resolve(ks[i].path)) /\ Rendered(b, ks[i], r)
    BY <1>1, <1>2, AloneRendered
<1>4. w \in r.written
    BY <1>2
<1>5. Reaches(w, ks[i].pkg, Resolve(ks[i].path), r.imports)
    BY <1>3, <1>4, ReferencesBound, Zenon
<1> QED  BY <1>2, <1>5

\* ... and the qualifiers nobody binds are reported.
LEMMA FileReports ==
    ASSUME NEW ks \in Runs, NEW i \in DOMAIN ks, NEW writes \in BOOLEAN,
           NEW e, e = AloneSeen(ks, i, writes), e.file.written, ks[i].outcome = "renders"
    PROVE  /\ \A q \in e.file.quals \ e.warned :
                \/ q \in PackageNames(ks, i) \cup ks[i].locals
                \/ Bound(e.file.imports, q) # {} \/ Bound(e.file.imports, Dot) # {}
           /\ e.warned \cap PackageNames(ks, i) = {}
           /\ \A q \in e.warned \ {Blank} : Bound(e.file.imports, q) = {}
<1>1. PICK r : r = Alone(ks)[i]
    OBVIOUS
<1>2. /\ ~r.skip /\ e.file.imports = r.imports /\ e.file.quals = r.quals
      /\ e.warned = r.candidates \ PackageNames(ks, i)
    BY <1>1, SeenFields, TopLevelIsPackageNames, SMTT(60)
<1>3. PICK b : Rendered(b, ks[i], r)
    BY <1>1, <1>2, AloneRendered
<1> DEFINE imports == r.imports
           declared == ks[i].names \cup ks[i].locals
<1>4. r.candidates = UnresolvedCandidates(imports, r.quals, declared)
    BY <1>3 DEF Rendered
<1>5. ks[i].names \subseteq PackageNames(ks, i)
    BY <1>1, <1>2 DEF PackageNames
<1> HIDE DEF imports
<1>6. \A k \in DOMAIN imports : Bound(imports, imports[k].alias) # {}
    BY DEF Bound
<1>7. \A q : (\A k \in DOMAIN imports : imports[k].alias # q) => Bound(imports, q) = {}
    BY DEF Bound
<1>8. CASE \E k \in DOMAIN imports : imports[k].alias = Dot
  <2>1. r.candidates = {} /\ Bound(imports, Dot) # {}
      BY <1>4, <1>6, <1>8 DEF UnresolvedCandidates
  <2> QED  BY <1>2, <2>1 DEF imports
<1>9. CASE ~\E k \in DOMAIN imports : imports[k].alias = Dot
  <2>1. r.candidates = r.quals \ (declared \cup BoundNames(imports))
      BY <1>4, <1>9 DEF UnresolvedCandidates
  <2>2. \A q : q \in BoundNames(imports) <=>
                 (\E k \in DOMAIN imports : imports[k].alias = q) /\ q \notin {Blank, Dot}
      BY DEF BoundNames
  <2>3. ASSUME NEW q \in r.quals, q \notin e.warned
        PROVE  q \in PackageNames(ks, i) \cup ks[i].locals \/ Bound(imports, q) # {}
      BY <1>2, <1>5, <1>6, <2>1, <2>2, <2>3, SMTT(60)
  <2>4. ASSUME NEW q \in e.warned, q # Blank PROVE Bound(imports, q) = {}
      BY <1>2, <1>7, <1>9, <2>1, <2>2, <2>4, SMTT(60)
  <2>5. e.warned \cap PackageNames(ks, i) = {}
      BY <1>2
  <2> QED  BY <1>2, <2>3, <2>4, <2>5 DEF imports
<1> QED  BY <1>8, <1>9

-----------------------------------------------------------------------------
(* The pool.                                                               *)

(* The inductive invariant.  A filled result is what the target gives by   *)
(* itself; a key handed out is being rendered or filled; a worker leaves   *)
(* only after its last key; so after the wait every result is filled.      *)

Shape ==
    /\ workers \in Nat /\ Len(keys) \in Nat /\ DOMAIN keys = 1 .. Len(keys)
    /\ workers = 0 => Len(keys) = 0
    /\ results = [i \in DOMAIN keys |-> results[i]]

Filled == \A i \in DOMAIN keys : results[i] = Pending \/ results[i] = Alone(keys)[i]

HandedOut ==
    \A i \in 1 .. sent :
        results[i] = Alone(keys)[i] \/ \E w \in 1 .. workers : job[w] = i

Order ==
    /\ workers <= 1 => \A w \in 1 .. workers : job[w] = 0
    /\ pc # "send" => sent = Len(keys)
    /\ pc = "send" => exited = {}
    /\ \A w \in exited : job[w] = 0

Complete == pc = "replay" => results = Alone(keys)

IInv == TypeOK /\ Shape /\ Filled /\ HandedOut /\ Order /\ Complete

-----------------------------------------------------------------------------

\* What a target renders to does not depend on the state the worker brings:
\* begin resets the import set first.
LEMMA StateIsForgotten ==
    ASSUME NEW ks, NEW i \in DOMAIN ks, NEW s
    PROVE  RenderTarget(s, ks, i).res = Alone(ks)[i]
  <1>1. Begin(s, ks, i) = Begin(NewImportSet, ks, i)
    BY DEF Begin, Reset
  <1>2. RenderTarget(s, ks, i) = RenderTarget(NewImportSet, ks, i)
    BY <1>1 DEF RenderTarget
  <1> QED BY <1>2 DEF Alone

\* Filling slot i writes the target's own result there and nothing else.
LEMMA FillIsAlone ==
    ASSUME IInv, NEW w \in 1 .. workers, NEW i \in 1 .. Len(keys), Fill(w, i)
    PROVE  results' = [results EXCEPT ![i] = Alone(keys)[i]]
  <1>1. PICK r \in {RenderTarget(st[w], keys, i)} : results' = [results EXCEPT ![i] = r.res]
    BY DEF Fill
  <1>2. i \in DOMAIN keys
    BY DEF IInv, Shape
  <1>3. r.res = Alone(keys)[i]
    BY <1>1, <1>2, StateIsForgotten
  <1> QED BY <1>1, <1>3

LEMMA InitIInv == Init => IInv
  <1> SUFFICES ASSUME Init PROVE IInv
    OBVIOUS
  <1>1. PICK n \in Procs : workers = Least(n, Len(keys))
    BY DEF Init
  <1>2. n \in Nat /\ n > 0
    BY ProcsAssumption
  <1>3. keys \in Seq(Range(keys))
    BY RunsAssumption DEF Init
  <1>4. Len(keys) \in Nat /\ DOMAIN keys = 1 .. Len(keys)
    BY <1>3
  <1>5. workers \in Nat /\ (workers = 0 => Len(keys) = 0)
    <2>1. workers = IF n < Len(keys) THEN n ELSE Len(keys)
      BY <1>1 DEF Least
    <2>2. CASE n < Len(keys)
      BY <1>2, <2>1, <2>2, SMTT(60)
    <2>3. CASE ~(n < Len(keys))
      BY <1>2, <1>4, <2>1, <2>3
    <2> QED BY <2>2, <2>3
  <1>6. TypeOK
    BY <1>4, <1>5, SMTT(60) DEF Init, TypeOK
  <1>7. Shape /\ Filled
    BY <1>4, <1>5 DEF Init, Shape, Filled
  <1>8. HandedOut /\ Order /\ Complete
    BY <1>4, <1>5, SMTT(60) DEF Init, HandedOut, Order, Complete
  <1> QED BY <1>6, <1>7, <1>8 DEF IInv

LEMMA RenderInlineIInv == IInv /\ RenderInline => IInv'
  <1> SUFFICES ASSUME IInv, RenderInline PROVE IInv'
    OBVIOUS
  <1> USE DEF IInv
  <1>1. sent + 1 \in 1 .. Len(keys) /\ 1 \in 1 .. workers
    BY SMTT(60) DEF RenderInline, TypeOK, Shape
  <1>2. results' = [results EXCEPT ![sent + 1] = Alone(keys)[sent + 1]]
    BY <1>1, FillIsAlone DEF RenderInline
  <1>3. TypeOK'
    BY <1>1, SMTT(60) DEF RenderInline, TypeOK, Shape, Order
  <1>4. Shape' /\ Filled'
    BY <1>1, <1>2 DEF RenderInline, Shape, Filled
  <1>5. HandedOut'
    <2> SUFFICES ASSUME NEW i \in 1 .. sent + 1 PROVE results'[i] = Alone(keys)[i]
      BY DEF RenderInline, HandedOut
    <2>1. i \in DOMAIN results /\ sent \in Nat
      BY <1>1, SMTT(60) DEF TypeOK, Shape
    <2>2. CASE i = sent + 1
      BY <1>2, <2>1, <2>2
    <2>3. CASE i # sent + 1
      <3>1. i \in 1 .. sent
        BY <2>1, <2>3, SMTT(60)
      <3>2. results[i] = Alone(keys)[i]
        BY <3>1, SMTT(60) DEF HandedOut, Order, RenderInline
      <3> QED BY <1>2, <2>1, <2>3, <3>2
    <2> QED BY <2>2, <2>3
  <1>6. Order' /\ Complete'
    BY DEF RenderInline, Order, Complete
  <1> QED BY <1>3, <1>4, <1>5, <1>6

LEMMA SendIInv == ASSUME NEW w \in 1 .. workers, IInv, Send(w) PROVE IInv'
  <1> USE DEF IInv
  <1>1. sent + 1 \in 1 .. Len(keys) /\ sent \in Nat
    BY SMTT(60) DEF Send, TypeOK, Shape
  <1>2. TypeOK'
    BY <1>1, SMTT(60) DEF Send, TypeOK, Shape
  <1>3. Shape' /\ Filled' /\ Complete'
    BY DEF Send, Shape, Filled, Complete
  <1>4. HandedOut'
    <2> SUFFICES ASSUME NEW i \in 1 .. sent + 1
                 PROVE  results[i] = Alone(keys)[i] \/ \E v \in 1 .. workers : job'[v] = i
      BY DEF Send, HandedOut
    <2>1. job'[w] = sent + 1 /\ \A v \in 1 .. workers : v # w => job'[v] = job[v]
      BY DEF Send, TypeOK
    <2>2. CASE i = sent + 1
      BY <2>1, <2>2
    <2>3. CASE i \in 1 .. sent
      BY <2>1, <2>3, SMTT(60) DEF HandedOut, Send
    <2> QED BY <1>1, <2>2, <2>3
  <1>5. Order'
    BY SMTT(60) DEF Send, Order, Shape, TypeOK
  <1> QED BY <1>2, <1>3, <1>4, <1>5

LEMMA RenderIInv == ASSUME NEW w \in 1 .. workers, IInv, Render(w) PROVE IInv'
  <1> USE DEF IInv
  <1>1. job[w] \in 1 .. Len(keys)
    BY SMTT(60) DEF Render, TypeOK, Shape
  <1>2. results' = [results EXCEPT ![job[w]] = Alone(keys)[job[w]]]
    BY <1>1, FillIsAlone DEF Render
  <1>3. TypeOK'
    BY SMTT(60) DEF Render, TypeOK, Shape
  <1>4. Shape' /\ Filled'
    BY <1>1, <1>2 DEF Render, Shape, Filled
  <1>5. HandedOut'
    <2> SUFFICES ASSUME NEW i \in 1 .. sent
                 PROVE  results'[i] = Alone(keys)[i] \/ \E v \in 1 .. workers : job'[v] = i
      BY DEF Render, HandedOut
    <2>1. i \in DOMAIN results
      BY SMTT(60) DEF TypeOK, Shape
    <2>2. CASE i = job[w]
      BY <1>2, <2>1, <2>2
    <2>3. CASE i # job[w]
      <3>1. results'[i] = results[i]
        BY <1>2, <2>1, <2>3
      <3>2. \A v \in 1 .. workers : v # w => job'[v] = job[v]
        BY DEF Render, TypeOK
      <3> QED BY <2>3, <3>1, <3>2 DEF HandedOut
    <2> QED BY <2>2, <2>3
  <1>6. Order'
    BY DEF Render, Order, TypeOK
  <1>7. Complete'
    BY <1>1, <1>2 DEF Render, Complete, Shape, Alone
  <1> QED BY <1>3, <1>4, <1>5, <1>6, <1>7

LEMMA InlineDoneIInv == IInv /\ InlineDone => IInv'
  <1> SUFFICES ASSUME IInv, InlineDone PROVE IInv'
    OBVIOUS
  <1> USE DEF IInv
  <1>1. TypeOK' /\ Shape' /\ Filled' /\ HandedOut' /\ Order'
    BY DEF InlineDone, TypeOK, Shape, Filled, HandedOut, Order
  <1>2. \A i \in DOMAIN keys : results[i] = Alone(keys)[i]
    BY SMTT(60) DEF InlineDone, HandedOut, Order, Shape, TypeOK
  <1>3. results = Alone(keys)
    BY <1>2 DEF Shape, Alone
  <1> QED BY <1>1, <1>3 DEF InlineDone, Complete

LEMMA JoinIInv == IInv /\ Join => IInv'
  <1> SUFFICES ASSUME IInv, Join PROVE IInv'
    OBVIOUS
  <1> USE DEF IInv
  <1>1. TypeOK' /\ Shape' /\ Filled' /\ HandedOut' /\ Order'
    BY DEF Join, TypeOK, Shape, Filled, HandedOut, Order
  <1>2. \A i \in DOMAIN keys : results[i] = Alone(keys)[i]
    BY SMTT(60) DEF Join, HandedOut, Order, Shape, TypeOK
  <1>3. results = Alone(keys)
    BY <1>2 DEF Shape, Alone
  <1> QED BY <1>1, <1>3 DEF Join, Complete

\* The steps that neither hand out nor fill.
LEMMA OtherIInv ==
    ASSUME IInv,
           \/ CloseChannel \/ Return
           \/ \E writes \in BOOLEAN : Replay(writes)
           \/ \E w \in 1 .. workers : Exit(w)
    PROVE  IInv'
  <1> USE DEF IInv
  <1>1. CASE CloseChannel
    BY <1>1 DEF CloseChannel, TypeOK, Shape, Filled, HandedOut, Order, Complete
  <1>2. CASE Return
    BY <1>2 DEF Return, TypeOK, Shape, Filled, HandedOut, Order, Complete
  <1>3. ASSUME NEW writes \in BOOLEAN, Replay(writes) PROVE IInv'
    BY <1>3 DEF Replay, TypeOK, Shape, Filled, HandedOut, Order, Complete
  <1>4. ASSUME NEW w \in 1 .. workers, Exit(w) PROVE IInv'
    <2>1. TypeOK'
      BY <1>4, SMTT(60) DEF Exit, TypeOK
    <2>2. Shape' /\ Filled' /\ HandedOut' /\ Complete'
      BY <1>4 DEF Exit, Shape, Filled, HandedOut, Complete
    <2>3. Order'
      BY <1>4 DEF Exit, Order
    <2> QED BY <2>1, <2>2, <2>3
  <1> QED BY <1>1, <1>2, <1>3, <1>4

LEMMA NextIInv == IInv /\ [Next]_vars => IInv'
  <1> SUFFICES ASSUME IInv, [Next]_vars PROVE IInv'
    OBVIOUS
  <1>1. CASE UNCHANGED vars
    BY <1>1 DEF vars, IInv, TypeOK, Shape, Filled, HandedOut, Order, Complete
  <1>2. CASE Next
    BY <1>2, RenderInlineIInv, InlineDoneIInv, JoinIInv, SendIInv, RenderIInv, OtherIInv
       DEF Next, Main, Worker
  <1> QED BY <1>1, <1>2

LEMMA Invariant == Spec => []IInv
  BY InitIInv, NextIInv, PTL DEF Spec

-----------------------------------------------------------------------------

\* The keys a run has handed out are counted exactly, and no two workers
\* of renderTargets ever render the same one.
THEOREM PoolTypes == Spec => []TypeOK
  <1>1. IInv => TypeOK
    BY DEF IInv
  <1> QED BY <1>1, Invariant, PTL

\* Every step of the pool is a step of the sequential loop, or invisible.
LEMMA StepSimulation ==
    IInv /\ [Next]_vars => [Sequential!Next]_<<keys, log, end>>
  <1> SUFFICES ASSUME IInv, [Next]_vars PROVE [Sequential!Next]_<<keys, log, end>>
    OBVIOUS
  <1>1. CASE UNCHANGED vars
    BY <1>1 DEF vars
  <1>2. CASE RenderInline \/ InlineDone \/ CloseChannel \/ Join
    BY <1>2 DEF RenderInline, InlineDone, CloseChannel, Join
  <1>3. ASSUME NEW w \in 1 .. workers, Send(w) \/ Worker(w)
        PROVE  UNCHANGED <<keys, log, end>>
    BY <1>3 DEF Send, Worker, Render, Exit
  <1>4. CASE Return
    BY <1>4 DEF Return, Sequential!Next, Sequential!Return
  <1>5. ASSUME NEW writes \in BOOLEAN, Replay(writes) PROVE Sequential!Write(writes)
    <2>1. results = Alone(keys)
      BY <1>5 DEF Replay, IInv, Complete
    <2> QED BY <1>5, <2>1 DEF Replay, Sequential!Write, AloneSkips, AloneSeen
  <1> QED BY <1>1, <1>2, <1>3, <1>4, <1>5 DEF Next, Main, Sequential!Next

\* "the observable sequence stays exactly what the sequential loop
\* produced": for every list of targets and every number of workers,
\* Render's diagnostics, warnings and files are those of the loop that
\* renders each target by itself.
THEOREM PoolImplementsLoop == Spec => RendersAsIfSequential
  <1>1. Init => Sequential!Init
    BY DEF Init, Sequential!Init
  <1> QED BY <1>1, Invariant, StepSimulation, PTL DEF Spec, RendersAsIfSequential, Sequential!Spec

-----------------------------------------------------------------------------
(* The files of a run. *)

SeenSet == {AloneSeen(keys, i, w) : i \in DOMAIN keys, w \in BOOLEAN}

\* What has been replayed is what the targets give by themselves.
LogInv ==
    /\ keys \in Runs /\ log \in Seq(SeenSet)
    /\ \A i \in DOMAIN log :
         i \in DOMAIN keys /\ \E w \in BOOLEAN : log[i] = AloneSeen(keys, i, w)

LEMMA InitLogInv == Init => LogInv
<1> SUFFICES ASSUME Init PROVE LogInv
    OBVIOUS
<1>1. keys \in Runs /\ log = <<>>
    BY DEF Init
<1>2. log \in Seq(SeenSet) /\ DOMAIN log = {}
    BY <1>1
<1> QED  BY <1>1, <1>2 DEF LogInv

LEMMA NextLogInv == IInv /\ LogInv /\ [Next]_vars => LogInv'
<1> SUFFICES ASSUME IInv, LogInv, [Next]_vars PROVE LogInv'
    OBVIOUS
<1>1. [Sequential!Next]_<<keys, log, end>>
    BY StepSimulation
<1>2. CASE UNCHANGED <<keys, log>>
    BY <1>2 DEF LogInv, SeenSet
<1>3. ASSUME NEW writes \in BOOLEAN, Sequential!Write(writes) PROVE LogInv'
  <2> DEFINE i == Len(log) + 1
             e == AloneSeen(keys, i, writes)
  <2>1. keys' = keys /\ log' = Append(log, e) /\ i <= Len(keys)
      BY <1>3 DEF Sequential!Write
  <2>2. log \in Seq(SeenSet) /\ Len(log) \in Nat
      BY DEF LogInv
  <2>3. i \in DOMAIN keys
      BY <2>1, <2>2 DEF IInv, Shape
  <2>4. e \in SeenSet
      BY <2>3 DEF SeenSet
  <2> HIDE DEF e
  <2>5. log' \in Seq(SeenSet) /\ Longer(log, e, log')
      BY <2>1, <2>2, <2>4, AppendFacts
  <2>6. SeenSet' = SeenSet
      BY <2>1 DEF SeenSet
  <2>7. /\ DOMAIN log' = DOMAIN log \cup {i} /\ log'[i] = e
        /\ \A k \in DOMAIN log : log'[k] = log[k]
      BY <2>5 DEF Longer
  <2> HIDE DEF i
  <2>8. ASSUME NEW k \in DOMAIN log'
        PROVE  k \in DOMAIN keys /\ \E w \in BOOLEAN : log'[k] = AloneSeen(keys, k, w)
    <3>1. CASE k = i
        BY <2>3, <2>7, <3>1 DEF e
    <3>2. CASE k # i
        BY <2>7, <3>2 DEF LogInv
    <3> QED  BY <3>1, <3>2
  <2> QED  BY <2>1, <2>5, <2>6, <2>8 DEF LogInv
<1> QED  BY <1>1, <1>2, <1>3 DEF Sequential!Next, Sequential!Return

\* For a name no wrong guess is about, the lines bind what the imports say.
LEMMA LinesBind ==
    ASSUME NEW i, NEW name, name \notin Guessed(i)
    PROVE  Bindings(i, name) = Bound(log[i].file.imports, name)
<1>1. PICK imps : imps = log[i].file.imports
    OBVIOUS
<1>2. ASSUME NEW k \in DOMAIN imps PROVE Binds(keys, imps[k]) = name <=> imps[k].alias = name
  <2>1. PICK x : x = imps[k]
      OBVIOUS
  <2>2. x \in Range(imps)
      BY <2>1 DEF Range
  <2>3. CASE Binds(keys, x) = x.alias
      BY <2>1, <2>3
  <2>4. CASE Binds(keys, x) # x.alias
    <3>1. x.alias \in Guessed(i) /\ DeclaredName(keys, x.path) \in Guessed(i)
        BY <1>1, <2>2, <2>4 DEF Guessed
    <3>2. Binds(keys, x) = DeclaredName(keys, x.path)
        BY <2>4 DEF Binds
    <3> QED  BY <2>1, <3>1, <3>2
  <2> QED  BY <2>3, <2>4
<1> QED  BY <1>1, <1>2 DEF Bindings, Bound

\* In every file Render writes, whatever targets a run has, whichever worker
\* renders them and whatever imports and references their templates ask for:
\* a reference reaches the package it asked for through the one import whose
\* line binds its qualifier, and a qualifier nothing binds is warned about -
\* for every name but those of packages that an import line without an alias
\* guesses wrong.
THEOREM FilesMeanWhatTheySay == Spec => []FilesNameTheirPackages
<1>1. ASSUME LogInv, NEW i \in Files
      PROVE  /\ keys \in Runs /\ i \in DOMAIN keys
             /\ \E writes \in BOOLEAN : log[i] = AloneSeen(keys, i, writes) /\ log[i].file.written
    BY <1>1 DEF LogInv, Files
<1>2. ASSUME NEW i, NEW name, name \notin Guessed(i)
      PROVE  Bindings(i, name) = Bound(log[i].file.imports, name)
    BY <1>2, LinesBind
<1>3. ASSUME LogInv PROVE ReferencesReachTheirPackage
  <2> SUFFICES ASSUME NEW i \in Files, NEW w \in log[i].file.body, w.as \notin Guessed(i)
               PROVE  ~w.literal =>
                          \/ w.as = "" /\ w.path = Resolve(keys[i].path)
                          \/ w.as \in {Blank, Dot}
                          \/ w.as # keys[i].pkg /\ Bindings(i, w.as) = {w.path}
      BY Zenon DEF ReferencesReachTheirPackage
  <2>1. PICK writes \in BOOLEAN : log[i] = AloneSeen(keys, i, writes) /\ log[i].file.written
      BY <1>1, <1>3
  <2>2. keys \in Runs /\ i \in DOMAIN keys
      BY <1>1, <1>3
  <2>3. PICK e : e = log[i]
      OBVIOUS
  <2>4. Reaches(w, keys[i].pkg, Resolve(keys[i].path), e.file.imports)
      BY <2>1, <2>2, <2>3, FileReferences, Zenon
  <2>5. Bindings(i, w.as) = Bound(e.file.imports, w.as)
      BY <1>2, <2>3
  <2> QED  BY <2>3, <2>4, <2>5 DEF Reaches
<1>4. ASSUME LogInv PROVE UnboundQualifiersAreReported
  <2> SUFFICES ASSUME NEW i \in Files, keys[i].outcome = "renders"
               PROVE  /\ \A q \in log[i].file.quals \ (log[i].warned \cup Guessed(i)) :
                           \/ q \in PackageNames(keys, i) \cup keys[i].locals
                           \/ Bindings(i, q) # {} \/ DotImported(i)
                      /\ log[i].warned \cap PackageNames(keys, i) = {}
                      /\ \A q \in log[i].warned \ ({Blank} \cup Guessed(i)) : Bindings(i, q) = {}
      BY ZenonT(60) DEF UnboundQualifiersAreReported, PackageNames
  <2>1. PICK writes \in BOOLEAN : log[i] = AloneSeen(keys, i, writes) /\ log[i].file.written
      BY <1>1, <1>4
  <2>2. keys \in Runs /\ i \in DOMAIN keys
      BY <1>1, <1>4
  <2>3. PICK e : e = log[i]
      OBVIOUS
  <2>4. /\ \A q \in e.file.quals \ e.warned :
             \/ q \in PackageNames(keys, i) \cup keys[i].locals
             \/ Bound(e.file.imports, q) # {} \/ Bound(e.file.imports, Dot) # {}
        /\ e.warned \cap PackageNames(keys, i) = {}
        /\ \A q \in e.warned \ {Blank} : Bound(e.file.imports, q) = {}
      BY <2>1, <2>2, <2>3, FileReports, SMTT(60)
  <2>5. Bound(e.file.imports, Dot) # {} => DotImported(i)
      BY <2>3 DEF Bound, DotImported, Range
  <2>6. \A q : q \notin Guessed(i) => Bindings(i, q) = Bound(e.file.imports, q)
      BY <1>2, <2>3
  <2> QED  BY <2>3, <2>4, <2>5, <2>6
<1>5. LogInv => FilesNameTheirPackages
    BY <1>3, <1>4 DEF FilesNameTheirPackages
<1>6. Spec => []LogInv
    BY InitLogInv, NextLogInv, Invariant, PTL DEF Spec
<1> QED  BY <1>5, <1>6, PTL
=============================================================================
