----------------------------- MODULE ImportFile -----------------------------
(***************************************************************************)
(* One writer.ImportSet in use, file after file: the set is reset and told *)
(* the file's own package, then aliases are registered and imports asked   *)
(* for in any order.  This is how renderTarget uses it, with plugin        *)
(* templates and File.Imports entries making the calls.                    *)
(***************************************************************************)
EXTENDS ImportSet

CONSTANTS
    Own,      \* Own[p]: the name of package p, of the file rendered into it
    Aliases   \* what plugins register as explicit aliases

ASSUME OwnAssumption == DOMAIN Own \subseteq Paths \cup {""}
ASSUME AliasSpelling == \A a \in Aliases \ {""} : Suffixed(a)

VARIABLES
    set,     \* the ImportSet
    own,     \* the package name of the file being rendered
    given    \* given[p]: the qualifier Imp returned for p in this file

fileVars == <<set, own, given>>

FileInit == set = NewImportSet /\ own = "" /\ given = Empty

\* renderTarget: Reset and SetSelf are the first calls for a file.
StartFile(path) ==
    /\ set' = SetSelf(Reset(set), path, Own[path])
    /\ own' = Own[path] /\ given' = Empty

RegisterAlias(path, alias) ==
    /\ set' = Alias(set, path, alias)
    /\ UNCHANGED <<own, given>>

Import(path) ==
    /\ ~Refused(set, path)
    /\ set' = Imp(set, path)
    /\ given' = Put(given, path, Qualifier(set, path))
    /\ UNCHANGED own

ImportRefused(path) == Refused(set, path) /\ UNCHANGED fileVars

FileNext ==
    \/ \E p \in DOMAIN Own : StartFile(p)
    \/ \E p \in Paths, a \in Aliases : RegisterAlias(p, a)
    \/ \E p \in Paths \cup {""} : Import(p) \/ ImportRefused(p)

FileSpec == FileInit /\ [][FileNext]_fileVars

-----------------------------------------------------------------------------
(* Properties. *)

Named == {p \in DOMAIN set.aliases : set.aliases[p] \notin {Blank, Dot}}

FileTypeOK ==
    /\ DOMAIN set.aliases \subseteq Paths /\ DOMAIN set.explicit \subseteq Paths
    /\ {set.order[i] : i \in DOMAIN set.order} = DOMAIN set.aliases
    /\ \A i, j \in DOMAIN set.order : set.order[i] = set.order[j] => i = j
    /\ \A b \in DOMAIN set.lastSfx : set.lastSfx[b] \in SuffixNumbers \ {0}
    /\ set.self \in Paths \cup {""}

\* No two imports of a file bind one name, and none takes the name of the
\* file's own package (SetSelf: "falls back to a numeric-suffixed alias
\* rather than shadowing"), whatever paths share a last segment, which aliases
\* plugins registered, and although a suffixed name may be what another path
\* derives.
NoNameTwice ==
    \A p \in Named :
        /\ own # "" => set.aliases[p] # own
        /\ \A q \in Named : set.aliases[p] = set.aliases[q] => p = q

\* A qualifier handed to a template stays good to the end of the file: the
\* import block binds that path to that name, and only the file's own
\* package is written bare.
QualifiersHold ==
    \A p \in DOMAIN given :
        IF p = set.self THEN given[p] = "" /\ p \notin DOMAIN set.aliases
        ELSE p \in DOMAIN set.aliases /\ set.aliases[p] = given[p] /\ given[p] # ""

\* "the mark is an optimisation of where to start": the name an import gets
\* is the one a search from the bare name would have found.
LowestFreeName ==
    [][\A p \in DOMAIN set'.aliases \ DOMAIN set.aliases :
         LET base == Desired(set, p) IN
         base \in {Blank, Dot} \/
            \E n \in SuffixNumbers :
                /\ set'.aliases[p] = Spell(base, n)
                /\ \A m \in SuffixNumbers : m < n => Spell(base, m) \in DOMAIN set.used]_fileVars
=============================================================================
