---------------------------- MODULE MCRenderPool ----------------------------
(***************************************************************************)
(* RenderPool for TLC: runs of three targets, on one to three workers.     *)
(***************************************************************************)
EXTENDS RenderPool, TLC

MCDerive == [p \in Paths |-> CASE p = "x/db2" -> "db2" [] p = "///" -> "" [] p = "pb" -> "pb"
                               [] p = "f/kit" -> "kit" [] OTHER -> "db"]
MCSegment == MCDerive
MCDeclared == [p \in Paths |-> IF p = "f/kit" THEN "toolkit" ELSE MCDerive[p]]
MCSpell(base, n) == IF n = 0 THEN base ELSE base \o ToString(n)
MCBridge == [p \in {"pb"} |-> "b/db"]

Target(file, dir, pkg, path) ==
    [file |-> file, dir |-> dir, pkg |-> pkg, path |-> path, pre |-> <<>>, uses |-> <<>>,
     raw |-> {}, names |-> {}, locals |-> {}, outcome |-> "renders"]
Pre(path, alias) == [path |-> path, alias |-> alias]
Use(path) == [path |-> path, literal |-> "", typed |-> TRUE]

\* two files of one package, the second named by the first and referring to
\* a package it imports blank
Client == [Target("client", "a", "db", "a/db") EXCEPT
              !.uses = <<Use("b/db"), Use("a/db")>>, !.raw = {"helper", "lost"}, !.names = {"Client"}]
Helper == [Target("helper", "a", "db", "a/db") EXCEPT
              !.pre = <<Pre("b/db", "_")>>, !.uses = <<Use("b/db")>>,
              !.names = {"helper"}, !.locals = {"Client"}]
\* a file without a path that imports both packages called db
Main1 == [Target("main", "m", "main", "") EXCEPT
              !.pre = <<Pre("b/db", "db2")>>, !.uses = <<Use("a/db"), Use("x/db2"), Use("pb")>>]
\* its template writes a name by hand, and one a bridge spelled
Bridged == [Target("bridged", "b", "pb", "pb") EXCEPT
              !.uses = <<Use("a/db"), [path |-> "c/db", literal |-> "db", typed |-> FALSE]>>,
              !.locals = {"db"}]
Dotted == [Target("dotted", "m", "main", "") EXCEPT
              !.pre = <<Pre("a/db", ".")>>, !.raw = {"lost"}]
Failing == [Target("failing", "a", "db", "a/db") EXCEPT
              !.uses = <<Use("///")>>, !.names = {"lost"}]
Broken == [Target("broken", "m", "main", "") EXCEPT
              !.uses = <<Use("a/db")>>, !.raw = {"lost"}, !.outcome = "unparsed"]
Nothing == [Target("nothing", "a", "db", "a/db") EXCEPT !.outcome = "empty"]
Crashing == [Target("crashing", "c", "db", "c/db") EXCEPT !.outcome = "fails"]

\* an output in the directory db whose package is called store, and one in the
\* directory db2 whose package is called db
Store == Target("store", "c", "store", "c/db")
Versioned == Target("versioned", "x", "db", "x/db2")
\* files that refer to one of them and to other packages; no import line can
\* tell what the package in the directory kit is called
Uses == [Target("uses", "m", "main", "") EXCEPT
              !.uses = <<Use("a/db"), Use("c/db"), Use("f/kit")>>, !.raw = {"kit", "toolkit"}]
Both == [Target("both", "m", "main", "") EXCEPT
              !.uses = <<Use("a/db"), Use("x/db2"), Use("c/db")>>]

MCRuns == {<<>>, <<Client, Helper, Main1>>, <<Main1, Failing, Client>>,
           <<Broken, Nothing, Dotted>>, <<Bridged, Crashing, Main1>>,
           <<Store, Uses, Client>>, <<Versioned, Both>>}
=============================================================================
