----------------------------- MODULE MCEmbedding -----------------------------
(***************************************************************************)
(* Embedding for TLC: structs S, A, B, C with every way to embed a few of  *)
(* each other, cycles included; and interfaces I, J, K, L.                 *)
(***************************************************************************)
EXTENDS Embedding, TLC

Emb(to) == [to |-> to, as |-> to, ptr |-> FALSE, args |-> FALSE, term |-> FALSE]
Ptr(to) == [Emb(to) EXCEPT !.ptr = TRUE]
Gen(to) == [Emb(to) EXCEPT !.args = TRUE]
Term(to) == [Emb(to) EXCEPT !.term = TRUE]
As(alias, to) == [Emb(to) EXCEPT !.as = alias]
Decl(kind, pkg, fields, methods, embeds) ==
    [kind |-> kind, pkg |-> pkg, fields |-> fields, methods |-> methods, embeds |-> embeds]
Given(name, present) == IF present THEN <<name>> ELSE <<>>

\* x is a field, m a method, y a field of C and a method of K; E is an enum
\* with a method
StructProgram(s, a, b, c, xs) ==
    ("S" :> Decl("struct", "p", Given("x", "S" \in xs), Given("n", "S" \in xs), s)) @@
    ("A" :> Decl("struct", "p", Given("x", "A" \in xs), Given("m", "A" \in xs), a)) @@
    ("B" :> Decl("struct", "q", Given("x", "B" \in xs), Given("m", "B" \in xs), b)) @@
    ("C" :> Decl("struct", "q", <<"x", "y">>, <<"m", "n">>, c)) @@
    ("J" :> Decl("iface", "q", <<>>, <<"m">>, <<IF "S" \in xs THEN Gen("K") ELSE Emb("K")>>)) @@
    ("K" :> Decl("iface", "z", <<>>, <<"y">>, <<>>)) @@
    ("E" :> Decl("other", "p", <<>>, <<"k">>, <<>>))

StructPrograms ==
    {StructProgram(s, a, b, c, xs) :
       s \in {<<Emb("A"), Ptr("B")>>, <<Ptr("C"), Emb("A")>>, <<Emb("A"), Emb("J")>>},
       a \in {<<>>, <<Emb("C")>>, <<Ptr("B"), Emb("E")>>, <<Gen("C")>>, <<As("D", "C")>>},
       b \in {<<>>, <<Emb("C"), Emb("J")>>, <<Ptr("A")>>},
       c \in {<<>>, <<Emb("K")>>, <<Ptr("S")>>},
       xs \in {{}, {"A", "B"}, {"S", "B"}}}

IfaceProgram(i, j, k, kept) ==
    ("I" :> Decl("iface", "p", <<>>, Given("m", "I" \in kept), i)) @@
    ("J" :> Decl("iface", "q", <<>>, <<"j", "m">>, j)) @@
    ("K" :> Decl("iface", "q", <<>>, Given("k", "K" \in kept), k)) @@
    ("L" :> Decl("iface", "z", <<>>, Given("l", "L" \in kept), <<>>)) @@
    ("S" :> Decl("struct", "z", <<>>, <<"m", "l", "j">>, <<>>)) @@
    ("error" :> Decl("iface", "", <<>>, <<"Error">>, <<>>))

IfacePrograms ==
    {IfaceProgram(i, j, k, kept) :
       i \in {<<Emb("J"), Emb("K")>>, <<Emb("L"), Emb("J")>>, <<Term("S"), Emb("K")>>, <<Emb("S")>>},
       j \in {<<>>, <<Emb("L")>>, <<Emb("K")>>, <<Gen("L")>>, <<Emb("error")>>},
       k \in {<<>>, <<Emb("L")>>, <<Emb("J")>>, <<As("M", "L")>>},
       kept \in SUBSET {"I", "K", "L"}}

MCPrograms == StructPrograms \cup IfacePrograms
=============================================================================
