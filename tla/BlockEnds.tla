----------------------------- MODULE BlockEnds -----------------------------
(***************************************************************************)
(* Function bodies as far as control and the types of values go, and the   *)
(* ways in which the tree-walking interpreter can come to the end of one.  *)
(*                                                                         *)
(* A condition or an iterator that is not given is opaque: it may turn out *)
(* either way; so do the control values of matches.  An expression that is *)
(* a part of another node is written as the block that has it as its       *)
(* trailing expression.                                                    *)
(***************************************************************************)
EXTENDS Sequences

Block(stmts, tail) == [stmts |-> stmts, tail |-> tail]
Expr(e) == Block(<<>>, <<e>>)

Node(k, t, parts) == [k |-> k, t |-> t, cond |-> <<>>, parts |-> parts]

\* A branch or loop with a condition or iterator.
On(cond, node) == [node EXCEPT !.cond = <<cond>>]

\* Expressions.
Lit(t) == Node("lit", t, <<>>)                  \* a value of type t
Bool == Node("bool", "bool", <<>>)              \* either truth value
True == Node("true", "bool", <<>>)
Once(t) == Node("once", t, <<>>)                \* lets a loop go round once
Not(b) == Node("not", "bool", <<b>>)
Throw == Node("throw", "never", <<>>)           \* call of the interpreter's builtin
Exit == Node("exit", "never", <<>>)             \* call of one of the host
FnLiteral(t, body) == Node("fn", t, <<body>>)
Call(t, arg) == Node("call", t, <<arg>>)        \* a function from int to t
Assign(t, b) == Node("assign", t, <<b>>)        \* to a variable of type t
BlockExpr(b) == Node("block", "", <<b>>)
If(b) == Node("if", "", <<b>>)
IfElse(b, c) == Node("if", "", <<b, c>>)
Match(arms) == Node("match", "", arms)
MatchDefault(arms) == Node("default", "", arms) \* the last arm is the default
Try(b, c) == Node("try", "", <<b, c>>)

\* Statements.
Let(b) == Node("let", "", <<b>>)
Return == Node("return", "", <<>>)
ReturnValue(b) == Node("return", "", <<b>>)
Break == Node("break", "", <<>>)
Continue == Node("continue", "", <<>>)
Loop(b) == Node("loop", "", <<b>>)
While(b) == Node("while", "", <<b>>)
For(b) == Node("for", "", <<b>>)

StatementKinds == {"let", "return", "break", "continue", "loop", "while", "for"}

Parts(n) == {n.parts[i] : i \in DOMAIN n.parts} \cup {n.cond[i] : i \in DOMAIN n.cond}

TopNodes(b) == {b.stmts[i] : i \in DOMAIN b.stmts} \cup {b.tail[i] : i \in DOMAIN b.tail}

\* The nodes of every depth; OwnNodes leaves out what is inside function literals.
RECURSIVE NodesOf(_), OwnNodes(_)
NodesOf(b) ==
  TopNodes(b) \cup UNION {NodesOf(p) : p \in UNION {Parts(n) : n \in TopNodes(b)}}
OwnNodes(b) ==
  TopNodes(b) \cup
  UNION {OwnNodes(p) : p \in UNION {Parts(n) : n \in {m \in TopNodes(b) : m.k # "fn"}}}

-----------------------------------------------------------------------------
(* An end is a value or one of the interrupts; of values only the type is  *)
(* kept.                                                                   *)

End(kind, t) == [end |-> kind, t |-> t]
Value(t) == End("value", t)
Interrupt(kind) == End(kind, "")

Values(ends) == {e \in ends : e.end = "value"}

\* What follows first is run if first comes to a value, which it drops.
Sequence(first, second) ==
  IF Values(first) = {} THEN first ELSE (first \ Values(first)) \cup second

RECURSIVE Ends(_), BlockEnds(_)

BlockEnds(b) ==
  CASE b.stmts # <<>> ->
         Sequence(Ends(Head(b.stmts)), BlockEnds(Block(Tail(b.stmts), b.tail)))
    [] b.stmts = <<>> /\ b.tail # <<>> -> Ends(b.tail[1])
    [] OTHER -> {Value("null")}

PartEnds(n) == UNION {BlockEnds(n.parts[i]) : i \in DOMAIN n.parts}

Opaque == {Value("true"), Value("false")}
CondEnds(n) == IF n.cond = <<>> THEN Opaque ELSE BlockEnds(n.cond[1])

\* What follows one of the values of a condition.
After(cond, value, ends) == IF Value(value) \in cond THEN ends ELSE {}

NotEnds(n) ==
  LET ends == PartEnds(n)
  IN  (ends \ Opaque) \cup After(ends, "true", {Value("false")})
        \cup After(ends, "false", {Value("true")})

IfEnds(n) ==
  LET cond == CondEnds(n)
      else == IF Len(n.parts) = 2 THEN BlockEnds(n.parts[2]) ELSE {Value("null")}
  IN  (cond \ Values(cond)) \cup After(cond, "true", BlockEnds(n.parts[1]))
        \cup After(cond, "false", else)

MatchEnds(n) == PartEnds(n) \cup (IF n.k = "default" THEN {} ELSE {Value("null")})

TryEnds(n) ==
  LET ends == BlockEnds(n.parts[1])
  IN  IF Interrupt("throw") \in ends
      THEN (ends \ {Interrupt("throw")}) \cup BlockEnds(n.parts[2]) ELSE ends

CallEnds(n) == Sequence(PartEnds(n), {Value(n.t), Interrupt("throw")})
AssignEnds(n) == Sequence(PartEnds(n), {Value("null")})
LetEnds(n) == Sequence(PartEnds(n), {Value("null")})

ReturnEnds(n) ==
  IF n.parts = <<>> THEN {End("return", "null")}
  ELSE {IF e.end = "value" THEN End("return", e.t) ELSE e : e \in PartEnds(n)}

\* A loop goes on after a value or a continue, and ends with a break.
LoopEnds(n) ==
  LET ends == PartEnds(n)
  IN  {e \in ends : e.end \notin {"value", "continue", "break"}}
        \cup (IF Interrupt("break") \in ends THEN {Value("null")} ELSE {})

\* One that goes round once is over after that.
OnceEnds(n) ==
  LET ends == PartEnds(n)
      over == {e \in ends : e.end \in {"value", "continue", "break"}}
  IN  (ends \ over) \cup (IF over = {} THEN {} ELSE {Value("null")})

\* The condition is evaluated outside the loop: its break is that of another one.
WhileEnds(n) ==
  LET cond == CondEnds(n)
  IN  (cond \ Values(cond)) \cup After(cond, "true", LoopEnds(n))
        \cup After(cond, "false", {Value("null")}) \cup After(cond, "once", OnceEnds(n))

ForEnds(n) ==
  LET iter == IF n.cond = <<>> THEN {Value("list")} ELSE BlockEnds(n.cond[1])
  IN  (iter \ Values(iter)) \cup After(iter, "list", LoopEnds(n) \cup {Value("null")})
        \cup After(iter, "once", OnceEnds(n))

Ends(n) ==
  CASE n.k = "lit" -> {Value(n.t)}
    [] n.k = "bool" -> Opaque
    [] n.k \in {"true", "once"} -> {Value(n.k)}
    [] n.k = "not" -> NotEnds(n)
    [] n.k \in {"throw", "exit", "break", "continue"} -> {Interrupt(n.k)}
    [] n.k = "fn" -> {Value("fn")}
    [] n.k = "block" -> PartEnds(n)
    [] n.k = "if" -> IfEnds(n)
    [] n.k \in {"match", "default"} -> MatchEnds(n)
    [] n.k = "try" -> TryEnds(n)
    [] n.k = "call" -> CallEnds(n)
    [] n.k = "assign" -> AssignEnds(n)
    [] n.k = "let" -> LetEnds(n)
    [] n.k = "return" -> ReturnEnds(n)
    [] n.k = "loop" -> LoopEnds(n)
    [] n.k = "while" -> WhileEnds(n)
    [] n.k = "for" -> ForEnds(n)
=============================================================================
