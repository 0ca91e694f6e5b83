------------------------------- MODULE Fuzzer -------------------------------
(***************************************************************************)
(* What the semantic fuzzer may make of a function: it replaces each       *)
(* statement by one of its variants, chosen at random, which are meant to  *)
(* do the same.  Where the code chooses one, a set has all.                *)
(*                                                                         *)
(* Variants of operators and literals are left out, and so is the counter  *)
(* of the loop that goes round once: the condition Once stands for it.     *)
(***************************************************************************)
EXTENDS BlockTypes

Alone(n) == Block(<<n>>, <<>>)
Empty == Block(<<>>, <<>>)

CondOf(n) == IF n.cond = <<>> THEN Expr(Bool) ELSE n.cond[1]

-----------------------------------------------------------------------------
(* Does a break or continue inside the node address a loop around it?      *)

RECURSIVE CanControlLoop(_), BlockCanControlLoop(_)

BlockCanControlLoop(b) == \E n \in TopNodes(b) : CanControlLoop(n)

PartsCanControlLoop(n) == \E b \in Parts(n) : BlockCanControlLoop(b)

\* Of a match only the control value and the arms: the default action is kept apart.
MatchCanControlLoop(n) ==
  \/ n.cond # <<>> /\ BlockCanControlLoop(n.cond[1])
  \/ \E i \in DOMAIN n.parts :
       (n.k = "default" => i # Len(n.parts)) /\ BlockCanControlLoop(n.parts[i])

\* Mutated: what is in the else branch is not looked at.
CanControlLoopThen(n) ==
  CASE n.k \in {"break", "continue"} -> TRUE
    [] n.k \in {"loop", "for", "fn"} -> FALSE
    [] n.k = "if" -> BlockCanControlLoop(n.parts[1])
    [] n.k = "while" -> n.cond # <<>> /\ BlockCanControlLoop(n.cond[1])
    [] n.k \in {"match", "default"} -> MatchCanControlLoop(n)
    [] OTHER -> PartsCanControlLoop(n)

\* Of a loop only the condition of while counts; the iterator of for does not.
CanControlLoop(n) ==
  CASE n.k \in {"break", "continue"} -> TRUE
    [] n.k \in {"loop", "for", "fn"} -> FALSE
    [] n.k = "while" -> n.cond # <<>> /\ BlockCanControlLoop(n.cond[1])
    [] n.k \in {"match", "default"} -> MatchCanControlLoop(n)
    [] OTHER -> PartsCanControlLoop(n)

-----------------------------------------------------------------------------
(* Variants                                                                *)

RECURSIVE Blocks(_), Statements(_), StmtVariants(_), ExprVariants(_)

\* The choices for the statements of a block are independent.
Statements(stmts) ==
  IF stmts = <<>> THEN {<<>>}
  ELSE {<<n>> \o rest : n \in StmtVariants(Head(stmts)), rest \in Statements(Tail(stmts))}

Blocks(b) ==
  LET tails == IF b.tail = <<>> THEN {<<>>} ELSE {<<e>> : e \in ExprVariants(b.tail[1])}
  IN  {Block(stmts, tail) : stmts \in Statements(b.stmts), tail \in tails}

\* An expression that is a part of a node; a block expression is left as it is.
PartVariants(b) ==
  IF b.stmts = <<>> /\ b.tail # <<>> THEN {Expr(e) : e \in ExprVariants(b.tail[1])} ELSE {b}

ElseVariants(n) == IF Len(n.parts) = 2 THEN Blocks(n.parts[2]) ELSE {Empty}

\* The branches are rewritten; or they change places and the condition is negated.
IfVariants(n) ==
  {[n EXCEPT !.parts = IF Len(n.parts) = 2 THEN <<then, else>> ELSE <<then>>] :
     then \in Blocks(n.parts[1]), else \in ElseVariants(n)}
  \cup {On(Expr(Not(cond)), IfElse(else, then)) :
          cond \in PartVariants(CondOf(n)), then \in Blocks(n.parts[1]), else \in ElseVariants(n)}

ExprVariants(n) ==
  CASE n.k = "fn" -> {FnLiteral(n.t, b) : b \in Blocks(n.parts[1])}
    [] n.k = "if" -> {n} \cup IfVariants(n)
    [] OTHER -> {n}

\* A jump as a block, and as the condition of a loop that never begins.
JumpVariants(n) == {BlockExpr(Alone(n)), On(Alone(n), While(Empty))}

ReturnVariants(n) ==
  IF n.parts = <<>> THEN JumpVariants(n)
  ELSE UNION {JumpVariants(ReturnValue(b)) : b \in PartVariants(n.parts[1])}

LoopVariants(n) ==
  UNION {{Loop(b), On(Expr(True), While(b))} : b \in Blocks(n.parts[1])}

\* A condition that is never is not put into the loop; others are, with their breaks.
WhileStmtAsLoop(n) ==
  LET context == [ret |-> "unknown", depth |-> 1, terminated |-> TRUE, errors |-> FALSE]
      not == On(Expr(Not(CondOf(n))), If(Alone(Break)))
  IN  IF TypedBlock(CondOf(n), context).t = "never" THEN {n}
      ELSE UNION {{Loop(Block(<<not>> \o b.stmts \o b.tail, <<>>)),
                   Loop(Alone(On(CondOf(n), IfElse(b, Alone(Break)))))} :
                  b \in Blocks(n.parts[1])}

CondVariants(n) == IF n.cond = <<>> THEN {<<>>} ELSE {<<c>> : c \in PartVariants(n.cond[1])}

\* A while or for with rewritten condition and body.
SameLoop(n) ==
  {[n EXCEPT !.cond = cond, !.parts = <<b>>] : cond \in CondVariants(n), b \in Blocks(n.parts[1])}

OwnVariants(n) ==
  CASE n.k = "let" -> {Let(b) : b \in PartVariants(n.parts[1])}
    [] n.k = "return" -> ReturnVariants(n)
    [] n.k \in {"break", "continue"} -> JumpVariants(n)
    [] n.k = "loop" -> LoopVariants(n)
    [] n.k = "while" -> WhileStmtAsLoop(n) \cup SameLoop(n)
    [] n.k = "for" -> SameLoop(n)
    [] OTHER -> ExprVariants(n)

IterOnceWhileLoop(n) ==
  BlockExpr(Block(
    <<Let(Expr(Lit("int"))),
      On(Expr(Once("bool")), While(Block(<<Assign("int", Expr(Lit("int"))), n>>, <<>>)))>>, <<>>))

IterOnceForLoop(n) == On(Expr(Once("range")), For(Alone(n)))

\* A new scope would make a let useless.
StmtVariants(n) ==
  OwnVariants(n) \cup {n}
    \cup (IF n.k = "let" THEN {} ELSE {On(Expr(True), If(Alone(n)))})
    \cup (IF n.k = "let" \/ CanControlLoop(n) THEN {}
          ELSE {IterOnceWhileLoop(n), IterOnceForLoop(n)})

Transformed(fn) == {Function(fn.ret, b) : b \in Blocks(fn.body)}

-----------------------------------------------------------------------------
(* Conditions on functions                                                 *)

\* No break or continue in the condition or iterator of a loop.
ControlApart(fn) ==
  \A n \in NodesOf(fn.body) :
    n.k \in {"while", "for"} /\ n.cond # <<>> => ~BlockCanControlLoop(n.cond[1])

\* No break or continue in the default arm of a match that addresses a loop around it.
DefaultsStay(fn) ==
  \A n \in NodesOf(fn.body) :
    n.k = "default" => ~BlockCanControlLoop(n.parts[Len(n.parts)])

\* Looking for jumps in a return without value is a panic.
Fuzzable(fn) == \A n \in NodesOf(fn.body) : n.k = "return" => n.parts # <<>>
=============================================================================
