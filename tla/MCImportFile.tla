---------------------------- MODULE MCImportFile ----------------------------
(***************************************************************************)
(* ImportFile for TLC: three paths with one last segment, one whose last   *)
(* segment is what a suffix makes of it, and one without an identifier.    *)
(***************************************************************************)
EXTENDS ImportFile, TLC

MCDerive == [p \in Paths |-> CASE p = "x/db2" -> "db2" [] p = "///" -> "" [] OTHER -> "db"]

MCSpell(base, n) == IF n = 0 THEN base ELSE base \o ToString(n)

\* "a/db" is rendered into under its own name, "b/db" under another; a
\* centralised file has no path
MCOwn == [p \in {"a/db", "b/db", ""} |-> IF p = "b/db" THEN "main" ELSE "db"]
=============================================================================
