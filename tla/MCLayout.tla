------------------------------ MODULE MCLayout ------------------------------
(* Small worlds for the layout phase: four generators (two outputs, one,    *)
(* none, two of one suffix) over two sources of one package, one in the     *)
(* root directory and one without a position.                               *)
EXTENDS Layout, TLC

Name(n) == [n |-> n, tests |-> 0]
P == [name |-> Name("p"), path |-> <<Name("m"), Name("p")>>]
Root == [name |-> Name("m"), path |-> <<Name("m")>>]

MCPlugins == {"A", "B", "C", "D"}
MCOutputs == [A |-> <<[tag |-> "", suffix |-> "_gen.go"], [tag |-> "t", suffix |-> "_gen_test.go"]>>,
              B |-> <<[tag |-> "", suffix |-> "_b.go"]>>,
              C |-> <<>>,
              D |-> <<[tag |-> "", suffix |-> "_d.go"], [tag |-> "t", suffix |-> "_d.go"]>>]
MCOrigins == [o |-> [pkg |-> P, dir |-> <<Name("p")>>, base |-> "x"],
              q |-> [pkg |-> P, dir |-> <<Name("p")>>, base |-> "y"],
              r |-> [pkg |-> Root, dir |-> <<>>, base |-> "z"],
              s |-> [pkg |-> NoPkg, dir |-> <<>>, base |-> ""]]
MCTestSuffixes == {"_gen_test.go"}

Decl(kind, plugin, tag, origin, emit) ==
    [kind |-> kind, plugin |-> plugin, tag |-> tag, origin |-> origin, emit |-> emit]

Sub == [name |-> Name("sub"), path |-> <<Name("m"), Name("sub")>>]

DeclSets ==
    {<<Decl("struct", "A", "", "o", NoPkg), Decl("struct", "B", "", "o", NoPkg),
       Decl("alias", "A", "t", "o", NoPkg)>>,
     <<Decl("struct", "A", "", "o", Sub), Decl("function", "B", "", "q", NoPkg),
       Decl("method", "B", "", "o", Sub), Decl("alias", "C", "", "o", NoPkg)>>,
     <<Decl("struct", "A", "u", "o", NoPkg), Decl("struct", "B", "", "r", Sub),
       Decl("struct", "B", "", "s", NoPkg), Decl("enum", "A", "", "r", NoPkg),
       Decl("alias", "B", "", NoOrigin, NoPkg)>>,
     <<Decl("struct", "D", "", "o", NoPkg), Decl("struct", "D", "t", "o", NoPkg)>>}

SlotSets == {<<>>, <<Decl("slot", "B", "", "o", NoPkg), Decl("slot", "A", "", "o", NoPkg)>>}

Path(dirs, file) == [dirs |-> dirs, file |-> file]
File == <<"x", "_gen.go">>
Dir(n, plugin, tag, pkg, path) ==
    [name |-> n, plugin |-> plugin, tag |-> tag, pkg |-> pkg, path |-> path]

Directives ==
    {Dir("out", "", "", NoName, Path(<<>>, File)),
     Dir("out", "B", "", Name("k"), Path(<<Up, Name("d")>>, File)),
     Dir("owned", "A", "", Name("k"), NoValue),
     Dir("owned", "A", "t", NoName, Path(<<Name("d")>>, NoFile)),
     Dir("owned", "B", "", NoName, Path(<<Name("d")>>, NoFile)),
     Dir("owned", "B", "", Name("k"), Path(<<Name("d")>>, NoFile)),
     Dir("out", "", "", NoName, NoValue),
     Dir("other", "", "", Name("k"), NoValue)}

Written == {<<>>} \cup {<<d>> : d \in Directives} \cup {<<d, e>> : d, e \in Directives}

Over0 == [layout |-> "", pkg |-> NoName, dir |-> <<>>]
Pin(n) == [Over0 EXCEPT !.pkg = Name(n)]
Central == [layout |-> "centralised", pkg |-> Name("c"), dir |-> <<>>]

Policies ==
    {[project |-> Over0, plugin |-> <<>>, tagged |-> <<>>, cli |-> Over0],
     [project |-> Central, plugin |-> [B |-> [Over0 EXCEPT !.dir = <<Name("p")>>]],
      tagged |-> <<>>, cli |-> Over0],
     [project |-> Over0, plugin |-> [A |-> Pin("k")], tagged |-> (<<"A", "t">> :> Central), cli |-> Over0],
     [project |-> Over0, plugin |-> <<>>, tagged |-> (<<"A", "t">> :> Pin("k")), cli |-> Pin("v")],
     [project |-> Over0, plugin |-> <<>>, tagged |-> <<>>, cli |-> [Over0 EXCEPT !.layout = "flat"]]}

Flags ==
    {[out |-> <<>>, outAll |-> NoValue],
     [out |-> <<>>, outAll |-> Path(<<Name("d")>>, File)],
     [out |-> (<<"A", "t">> :> Path(<<Up>>, File)) @@ (<<"A", "">> :> NoValue), outAll |-> NoValue]}

MCWorlds ==
    {[project |-> p.project, plugin |-> p.plugin, tagged |-> p.tagged, cli |-> p.cli,
      out |-> f.out, outAll |-> f.outAll, decls |-> d, slots |-> s,
      on |-> [o |-> w, q |-> <<Dir("out", "", "", NoName, Path(<<>>, File))>>, r |-> w, s |-> <<>>],
      above |-> (P :> a) @@ (Root :> <<>>) @@ (NoPkg :> <<>>)] :
        p \in Policies, f \in Flags, d \in DeclSets, s \in SlotSets, w \in Written,
        a \in {<<>>, <<Dir("out", "B", "", NoName, Path(<<Name("a")>>, File))>>}}
=============================================================================
