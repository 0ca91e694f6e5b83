------------------------------ MODULE MCLimits ------------------------------
(***************************************************************************)
(* Programs that only the limits or the host stop; and the certificates of *)
(* the code that the programs of MCCompiledCore are compiled to.           *)
(***************************************************************************)
EXTENDS MCCompiledCore

One(main) == [fn \in {"main"} |-> main]

LimitSources ==
  {One(<<Let("x", "main"), Loop(b)>>) :
     b \in {<<>>, <<Assign("x", "b")>>, <<Let("y", "b")>>, <<Try(<<ThrowStmt("t")>>, "e", <<>>)>>}}
  \cup
  {[fn \in {"main", "f"} |->
      IF fn = "main" THEN <<Let("x", "main"), Call("f")>> ELSE <<Let("x", "f"), s>>] :
     s \in {Call("f"), Try(<<Call("f")>>, "e", <<>>), For("i", <<Call("f")>>)}}
  \cup
  {[fn \in {"main", "f"} |->
      IF fn = "main" THEN <<Let("x", "main"), Call("f")>>
      ELSE <<Let("x", "f"), Loop(<<Match("x", v, <<>>, <<>>)>>)>>] : v \in {"f", "b"}}
LimitPrograms == {Compile(s) : s \in LimitSources}

-----------------------------------------------------------------------------

\* The compiler emits code that keeps the discipline and sets what is declared, whatever
\* structured program it is given.
ASSUME CompiledCodeIsDisciplined ==
  \A s \in MCSources :
    LET p == Compile(s)
        cert == Certificate(p)
    IN  Disciplined(p, cert) /\ Assigns(p, cert, Declared(s))

\* Code that catches what a call throws, or leaves a try by a return, does not.
ASSUME StrayCodeIsNotDisciplined ==
  \A p \in CatchCalleePrograms \cup LeaveTryPrograms :
    LET cert == Certificate(p) IN ~Disciplined(p, cert)
=============================================================================
