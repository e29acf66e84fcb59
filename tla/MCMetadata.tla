----------------------------- MODULE MCMetadata -----------------------------
(* Three names in a chain of prefixes, two annotators, two nodes in the    *)
(* buckets of the store and an embed, which is in none.  Parsers accept    *)
(* "true" and "x", reject "bad" and panic on "boom".                       *)
EXTENDS Metadata, TLC

MCNames == {"g", "g.a", "g.a.x"}
MCAbove == [m \in MCNames |-> CASE m = "g" -> {} [] m = "g.a" -> {"g"} [] OTHER -> {"g", "g.a"}]
MCRegistered == {"g.a", "g.a.x"}
MCRaws == {"true", "x", "bad", "boom"}
MCValues == MCRaws \union {"p1", "p2", "frontend", "harness"}
MCParse == [m \in MCRegistered |->
    [raw \in MCRaws |->
        CASE raw = "bad" -> "error" [] raw = "boom" -> "panic" [] OTHER -> "value"]]

MCNodeOrder == <<"n1", "n2">>
MCBefore == [p \in {"p1", "p2"} |-> IF p = "p2" THEN {"p1"} ELSE {}]

None == [m \in {} |-> "x"]
Plus(kv, args) == [negated |-> FALSE, kv |-> kv, args |-> args]
Minus(args) == [negated |-> TRUE, kv |-> None, args |-> args]

Sources == {
    <<>>,
    <<Minus(<<"g">>), Plus("g.a" :> "x", <<>>)>>,
    <<Plus("g.a" :> "x", <<>>), Minus(<<"g.a">>), Plus("g.a.x" :> "x", <<>>)>>,
    <<Minus(<<"g.a.x">>), Plus("g.a.x" :> "x" @@ "g" :> "x", <<"g.a", "g.a.x">>)>>,
    <<[negated |-> TRUE, kv |-> "g.a" :> "x", args |-> <<>>], Plus("g.a" :> "bad", <<>>)>>,
    <<Plus("g.a" :> "boom" @@ "g.a.x" :> "x", <<>>), Minus(<<"g.a.x">>)>>}

\* What a node carries at ingest: nothing, a key and a tombstone of the
\* frontend, or a value a harness set by hand.
Carried == {
    NewBag,
    [NewBag EXCEPT !["g.a"][Plugin] = Value("frontend"), !["g.a.x"][Plugin] = Tombstone],
    [NewBag EXCEPT !["g.a"][Manual] = Value("harness")]}

MCWorlds == {[parallel |-> par, metaIndex |-> idx, stamps |-> [n \in Nodes |-> st],
              directives |-> [n \in Nodes |-> IF n = "n1" THEN s ELSE <<Plus(None, <<"g.a">>)>>]] :
                par \in BOOLEAN, idx \in BOOLEAN, st \in Carried, s \in Sources}
=============================================================================
