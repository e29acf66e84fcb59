----------------------------- MODULE ImportSet -----------------------------
(***************************************************************************)
(* writer.ImportSet: the import block of one generated file.               *)
(*                                                                         *)
(* The set is a record, and every method a function from a set to the set  *)
(* it leaves behind; the mutex makes each call one step.  Paths and names  *)
(* are strings, "" included.  How a path derives its alias (sanitising the *)
(* last segment) is the constant Derive; Spell(base, n) is the base with a *)
(* numeric suffix, about which only what Sprintf guarantees is assumed:    *)
(* one base gives different names for different suffixes, and a suffixed   *)
(* name is not empty, a blank or a dot.  Two bases may well meet           *)
(* ("db" with suffix 2 and the base "db2").                      *)
(***************************************************************************)
EXTENDS Naturals, Sequences, FiniteSets

CONSTANTS
    Paths,        \* import paths, "" not among them
    Derive,       \* Derive[p]: DefaultAlias of p, "" when nothing is left of it
    Spell(_, _)   \* Spell(base, n): the base with suffix n

Blank == "_"
Dot == "."

\* n counts as in the code: 0 for the bare name, then 2, 3, ...
SuffixNumbers == {0} \cup 2 .. Cardinality(Paths) + 2

ASSUME PathsAssumption ==
    /\ IsFiniteSet(Paths) /\ "" \notin Paths
    /\ DOMAIN Derive = Paths

\* A suffix is digits at the end of the base.
Suffixed(base) ==
    /\ Spell(base, 0) = base
    /\ \A m, n \in SuffixNumbers : m # n => Spell(base, m) # Spell(base, n)
    /\ \A n \in SuffixNumbers \ {0} : Spell(base, n) \notin {"", Blank, Dot}

ASSUME SpellAssumption == \A p \in Paths : Suffixed(Derive[p])

\* f with x mapped to y
Put(f, x, y) == [z \in DOMAIN f \cup {x} |-> IF z = x THEN y ELSE f[z]]

Empty == <<>>   \* the empty list and the empty map

NewImportSet ==
    [self |-> "", order |-> Empty, aliases |-> Empty, explicit |-> Empty,
     used |-> Empty, lastSfx |-> Empty]

-----------------------------------------------------------------------------
\* Every field is cleared; the derive function is a constant here.
Reset(s) == NewImportSet

SetSelf(s, path, name) ==
    LET t == IF path = "" THEN s ELSE [s EXCEPT !.self = path]
    IN  IF name = "" THEN t ELSE [t EXCEPT !.used = Put(t.used, name, t.self)]

\* A path that is imported already keeps its alias: ErrAliasAfterImp.
\* (Mutation: it takes the new one.)
AliasAnyTime(s, path, alias) ==
    [s EXCEPT !.explicit = Put(s.explicit, path, alias),
              !.aliases = IF path \in DOMAIN s.aliases
                          THEN Put(s.aliases, path, alias) ELSE s.aliases]

Alias(s, path, alias) ==
    IF path = "" \/ path \in DOMAIN s.aliases THEN s
    ELSE [s EXCEPT !.explicit = Put(s.explicit, path, alias)]

-----------------------------------------------------------------------------
(* Imp *)

Desired(s, path) ==
    IF path \in DOMAIN s.explicit /\ s.explicit[path] # "" THEN s.explicit[path]
    ELSE Derive[path]

\* Imp returns an error and records nothing.
Refused(s, path) ==
    \/ path = ""
    \/ /\ path \in Paths \ ({s.self} \cup DOMAIN s.aliases)
       /\ Desired(s, path) = ""

Taken(s, path, alias) == alias \in DOMAIN s.used /\ s.used[alias] # path

\* Where the search for a suffix starts.  (Mutation: past the mark, as if
\* every base had been handed out before.)
MarkNext(s, base) == IF base \in DOMAIN s.lastSfx THEN s.lastSfx[base] + 1 ELSE 2

Mark(s, base) == IF base \in DOMAIN s.lastSfx THEN s.lastSfx[base] ELSE 0

\* The loop: the first suffix from the mark on whose name no other path has.
\* (Mutation: the mark is believed without a look at the names in use.)
SuffixUnchecked(s, path, base) ==
    IF ~Taken(s, path, base) THEN 0
    ELSE IF base \in DOMAIN s.lastSfx THEN s.lastSfx[base] + 1 ELSE 2

Suffix(s, path, base) ==
    CHOOSE n \in SuffixNumbers :
        /\ Mark(s, base) <= n /\ ~Taken(s, path, Spell(base, n))
        /\ \A m \in SuffixNumbers :
             Mark(s, base) <= m /\ m < n => Taken(s, path, Spell(base, m))

\* `_` and `.` are not names: they are recorded without being used up.
Record(s, path, alias) ==
    [s EXCEPT !.order = Append(s.order, path), !.aliases = Put(s.aliases, path, alias)]

RecordName(s, path, base) ==
    LET n == Suffix(s, path, base)
    IN  [Record(s, path, Spell(base, n)) EXCEPT
            !.used = Put(s.used, Spell(base, n), path),
            !.lastSfx = IF n = 0 THEN s.lastSfx ELSE Put(s.lastSfx, base, n)]

Imp(s, path) ==
    IF Refused(s, path) \/ path = s.self \/ path \in DOMAIN s.aliases THEN s
    ELSE IF Desired(s, path) \in {Blank, Dot} THEN Record(s, path, Desired(s, path))
    ELSE RecordName(s, path, Desired(s, path))

\* What Imp returns when it does not refuse: "" for the file's own package.
Qualifier(s, path) == IF path = s.self THEN "" ELSE Imp(s, path).aliases[path]
=============================================================================
