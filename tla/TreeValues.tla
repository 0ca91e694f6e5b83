----------------------------- MODULE TreeValues -----------------------------
(***************************************************************************)
(* Expressions on the tree interpreter, which hands around pointers: the   *)
(* value of a name is a pointer to the variable, not what is in it.        *)
(*                                                                         *)
(* A state s has the cells on the heap, the scopes env from names to       *)
(* cells, what has been given to the host (out), whether evaluation is     *)
(* over (end), the cell at of the expression evaluated last, and the cells *)
(* of the elements or arguments evaluated so far.                          *)
(***************************************************************************)
EXTENDS Values

Null == [k |-> "null"]

\* A new cell with the value v.
New(s, v) == [s EXCEPT !.heap = Append(@, v), !.at = Len(s.heap) + 1]
At(s) == s.heap[s.at]
Copied(s) == IF s.end = "ok" THEN New(s, At(s)) ELSE s

Bind(s, x) == [s EXCEPT !.env = [y \in DOMAIN @ \cup {x} |-> IF y = x THEN s.at ELSE @[y]]]

\* expression and op of a compound assignment.
Arithmetic(op) ==
  CASE op = "+=" -> "+" [] op = "-=" -> "-" [] op = "*=" -> "*" [] op = "/=" -> "/"
    [] op = "%=" -> "%" [] op = "**=" -> "**" [] op = "<<=" -> "<<" [] op = ">>=" -> ">>"
    [] op = "|=" -> "|" [] op = "&=" -> "&" [] op = "^=" -> "^"

ShortCircuit == {"||", "&&"}

\* IndexValue: -1 is the last element.
Wrapped(i, els) == IF i < 0 THEN i + Len(els) ELSE i

\* The function of the host in the scripts: it keeps its arguments and returns the first.
HostCalled(s, args) ==
  [New(s, s.heap[args[1]]) EXCEPT !.out = Append(@, [i \in DOMAIN args |-> s.heap[args[i]]])]

-----------------------------------------------------------------------------

RECURSIVE Eval(_, _), EvalAll(_, _), EvalStmts(_, _)

\* The cells of the expressions es, in order.
EvalRest(cells, s, es) ==
  IF s.end = "ok" THEN EvalAll(es, [s EXCEPT !.cells = Append(cells, s.at)]) ELSE s
EvalAll(es, s) == IF es = <<>> THEN s ELSE EvalRest(s.cells, Eval(Head(es), s), Tail(es))

AfterBase(op, s) == IF s.end = "ok" THEN New(s, PrefixOperation(op, At(s))) ELSE s

\* Both operands have been evaluated, the left one to the cell l.
Combined(op, l, s) ==
  CASE s.end # "ok" -> s
    [] s.end = "ok" /\ Illegal(op, s.heap[l], At(s)) -> [s EXCEPT !.end = "panic"]
    [] OTHER -> New(s, Operation(op, s.heap[l], At(s)))

InfixHelper(op, s, r) ==
  CASE s.end # "ok" -> s
    [] s.end = "ok" /\ op \in ShortCircuit ->
         IF At(s).b = (op = "||") THEN Copied(s) ELSE Copied(Eval(r, s))
    [] OTHER -> Combined(op, s.at, Eval(r, s))

\* The value at s.at is written into the cell l.
Stored(l, s) == IF s.end = "ok" THEN New([s EXCEPT !.heap[l] = At(s)], Null) ELSE s

AssignTo(op, s, r) ==
  CASE s.end # "ok" -> s
    [] s.end = "ok" /\ op = "=" -> Stored(s.at, Eval(r, s))
    [] OTHER -> Stored(s.at, Combined(Arithmetic(op), s.at, Eval(r, s)))

Element(els, s) ==
  LET i == Wrapped(At(s).n, els)
  IN  IF i \in 0 .. Len(els) - 1 THEN [s EXCEPT !.at = els[i + 1]] ELSE [s EXCEPT !.end = "error"]
IndexValue(els, s) == IF s.end = "ok" THEN Element(els, s) ELSE s

AfterList(s, at) == IF s.end = "ok" THEN IndexValue(At(s).els, Eval(at, s)) ELSE s

AfterElements(s, cells) ==
  IF s.end = "ok" THEN [New(s, List(s.cells)) EXCEPT !.cells = cells] ELSE s

AfterArgs(s, cells) ==
  IF s.end = "ok" THEN [HostCalled(s, s.cells) EXCEPT !.cells = cells] ELSE s

AfterCast(t, s) == IF s.end = "ok" THEN New(s, DeepCast(At(s), t)) ELSE s

\* A block has a scope of its own.
AfterStmts(s, tail, env) ==
  IF s.end = "ok" THEN [Eval(tail, s) EXCEPT !.env = env] ELSE s

AfterLet(x, s) == IF s.end = "ok" THEN Bind(Copied(s), x) ELSE s

WhileTrue(stmt, s, rest) ==
  CASE s.end # "ok" -> s
    [] s.end = "ok" /\ At(s).b -> EvalStmts(stmt.body \o <<stmt>> \o rest, s)
    [] OTHER -> EvalStmts(rest, s)

\* The body of a loop declares no variables.
EvalStmt(stmt, s, rest) ==
  CASE stmt.k = "let" -> EvalStmts(rest, AfterLet(stmt.x, Eval(stmt.e, s)))
    [] stmt.k = "do" -> EvalStmts(rest, Eval(stmt.e, s))
    [] stmt.k = "while" -> WhileTrue(stmt, Eval(stmt.e, s), rest)
EvalStmts(stmts, s) ==
  IF stmts = <<>> \/ s.end # "ok" THEN s ELSE EvalStmt(Head(stmts), s, Tail(stmts))

Eval(e, s) ==
  CASE e.k \in {"int", "bool"} -> New(s, e)
    [] e.k = "ident" -> [s EXCEPT !.at = s.env[e.x]]
    [] e.k = "group" -> Eval(e.base, s)
    [] e.k = "prefix" -> AfterBase(e.op, Eval(e.base, s))
    [] e.k = "infix" -> InfixHelper(e.op, Eval(e.l, s), e.r)
    [] e.k = "assign" -> AssignTo(e.op, Eval(e.l, s), e.r)
    [] e.k = "index" -> AfterList(Eval(e.base, s), e.at)
    [] e.k = "list" -> AfterElements(EvalAll(e.els, [s EXCEPT !.cells = <<>>]), s.cells)
    [] e.k = "call" -> AfterArgs(EvalAll(e.args, [s EXCEPT !.cells = <<>>]), s.cells)
    [] e.k = "cast" -> AfterCast(e.t, Eval(e.base, s))
    [] e.k = "block" -> AfterStmts(EvalStmts(e.stmts, s), e.tail, s.env)
=============================================================================
