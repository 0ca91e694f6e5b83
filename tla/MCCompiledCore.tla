--------------------------- MODULE MCCompiledCore ---------------------------
(***************************************************************************)
(* Small programs for CompiledCore: main calls f, f calls g; f has one     *)
(* compound statement around short blocks.                                 *)
(***************************************************************************)
EXTENDS CompiledCore

MCTexts == {"", "true", "false", "item", "main", "f", "g", "b", "i", "v", "w",
            "boom", "again", "outer", "t", "other"}
MCNames == {"", "main", "f", "g", "@init", "@init_lib", "A", "B", "C", "D"}

Blocks(leaves) == {<<>>} \cup {<<a>> : a \in leaves} \cup {<<a, b>> : a, b \in leaves}

Leaves == {Println("x"), Assign("x", "b"), ThrowStmt("boom"), Call("g"), ReturnStmt}

Handlers == {<<>>, <<Println("e")>>, <<Println("e"), ThrowStmt("again")>>, <<ReturnStmt>>}

\* f: let x = "f"; the statements; println(x)
Body(stmts) == <<Let("x", "f")>> \o stmts \o <<Println("x")>>

MainBody == <<Let("x", "main"), Call("f"), Println("x")>>
GBodies == {<<Let("x", "g"), Println("x")>>, <<Let("x", "g"), ThrowStmt("g")>>,
            <<Let("x", "g"), ReturnStmt>>}

Tried == {Try(b, "e", h) : b \in Blocks(Leaves), h \in Handlers}

InLoops ==
  {For("i", <<Try(b, "e", h), s>>) :
     b \in Blocks(Leaves \ {ReturnStmt}), h \in Handlers \cup {<<Continue>>, <<Break>>},
     s \in {Break, Continue, Println("i")}}

InTries ==
  {Try(<<For("i", <<s, t>>)>>, "e", h) :
     s \in {Println("i"), Let("x", "i")}, t \in {ThrowStmt("boom"), Assign("x", "b")},
     h \in Handlers}
  \cup
  {Try(<<Try(b, "e", h), ThrowStmt("outer")>>, "e", <<Println("e")>>) :
     b \in Blocks(Leaves \ {ReturnStmt}), h \in Handlers}

Conditionals ==
  {If("x", v, b, c) : v \in {"f", "b"}, b, c \in {<<s>> : s \in Leaves}}
  \cup {Loop(<<If("x", "b", <<Break>>, <<Assign("x", "b"), s>>)>>) :
          s \in {Println("x"), Continue}}

Compounds == Tried \cup InLoops \cup InTries \cup Conditionals

Programs3(statements) ==
  {[fn \in {"main", "f", "g"} |->
      CASE fn = "main" -> MainBody [] fn = "f" -> Body(<<s>>) [] fn = "g" -> g] :
     s \in statements, g \in GBodies}

(* Init functions of an entry module and of one it imports.                *)

GlobalsOf(names) == {<<>>} \cup {<<Global(a, "v")>> : a \in names}
                    \cup {<<Global(a, "v"), Global(b, "w")>> : a, b \in names}

InitSources ==
  {[fn \in {"@init", "@init_lib"} |-> IF fn = "@init" THEN own ELSE lib] :
     own \in GlobalsOf({"A", "B"}), lib \in GlobalsOf({"C", "D"})}

MCSources == {s \in Programs3(Compounds) : Structured(s)} \cup InitSources
MCPrograms == {Compile(s) : s \in MCSources}

-----------------------------------------------------------------------------
(* Programs outside the structured ones, for what the code does to them.   *)

Three(f, g, main) ==
  [fn \in {"main", "f", "g"} |->
     CASE fn = "main" -> <<Let("x", "main")>> \o main
       [] fn = "f" -> <<Let("x", "f")>> \o f
       [] fn = "g" -> <<Let("x", "g")>> \o g]

\* f catches what g throws.
CatchCalleeSources ==
  {Three(<<Try(<<Call("g")>>, "e", h), Println("x")>>, <<ThrowStmt("boom")>>, <<Call("f")>>) :
     h \in Handlers}
CatchCalleePrograms == {Compile(s) : s \in CatchCalleeSources}

\* f returns out of its try; then main throws.
LeaveTrySources ==
  {Three(<<Try(<<s, ReturnStmt>>, "e", h)>>, <<>>, <<Call("f"), ThrowStmt("boom")>>) :
     s \in {Println("x"), Call("g")}, h \in Handlers}
LeaveTryPrograms == {Compile(s) : s \in LeaveTrySources}
=============================================================================
