------------------------------ MODULE VmValues ------------------------------
(***************************************************************************)
(* Expressions on the VM: the code the compiler makes of them, and the     *)
(* data instructions of a core.  Its operand stack and its variables hold  *)
(* pointers, too, but an assignment to a variable replaces the pointer.    *)
(*                                                                         *)
(* A state v has heap, env, out and end as that of TreeValues, the operand *)
(* stack and ip.  Jumps are relative, and a name is a slot: the programs   *)
(* have no two variables of one name at a time.                            *)
(***************************************************************************)
EXTENDS TreeValues, SequencesExt

CONSTANT Globals   \* the variables that are global

Ins(i) == [i |-> i]
Push(v) == [i |-> "push", v |-> v]
Get(x) == [i |-> "get", x |-> x]
Set(x) == [i |-> "set", x |-> x]
Op(op) == [i |-> "op", op |-> op]
PrefixOp(op) == [i |-> "prefix", op |-> op]
Jump(n) == [i |-> "jump", n |-> n]
JumpIfFalse(n) == [i |-> "jumpiffalse", n |-> n]
CallVal(argc) == [i |-> "call", argc |-> argc]
CastTo(t) == [i |-> "cast", t |-> t]

-----------------------------------------------------------------------------
(* Code                                                                    *)

\* != is Eq and Not.
ArithmeticHelper(op) == IF op = "!=" THEN <<Op("=="), PrefixOp("!")>> ELSE <<Op(op)>>

Or(l, r) ==
  l \o <<PrefixOp("!"), JumpIfFalse(Len(r) + 2)>> \o r \o <<Jump(2), Push(Truth(TRUE))>>
And(l, r) == l \o <<JumpIfFalse(Len(r) + 2)>> \o r \o <<Jump(2), Push(Truth(FALSE))>>

WhileCode(cond, body) ==
  cond \o <<JumpIfFalse(Len(body) + 2)>> \o body \o <<Jump(-(Len(cond) + Len(body) + 1))>>

RECURSIVE Code(_), StmtCode(_)

Codes(es) == FlattenSeq([i \in DOMAIN es |-> Code(es[i])])

\* The operand on the stack is the left one.
InfixCode(op, l, r) ==
  CASE op = "||" -> Or(l, r)
    [] op = "&&" -> And(l, r)
    [] OTHER -> l \o r \o ArithmeticHelper(op)

AssignVariable(op, x, r) ==
  IF op = "=" THEN r \o <<Set(x)>> ELSE <<Get(x)>> \o r \o <<Op(Arithmetic(op)), Set(x)>>
AssignElement(op, l, r) ==
  IF op = "=" THEN l \o r \o <<Ins("assign")>>
  ELSE l \o <<Ins("duplicate")>> \o r \o <<Op(Arithmetic(op)), Ins("assign")>>

\* Mutated: the arguments are compiled in the order of the source.
CallCodeForward(args) == Codes(args) \o <<CallVal(Len(args))>>
CallCode(args) == Codes(Reverse(args)) \o <<CallVal(Len(args))>>

ListCode(els) ==
  <<Ins("list")>> \o FlattenSeq([i \in DOMAIN els |-> Code(els[i]) \o <<Ins("append")>>])

\* An assignment leaves nothing on the stack.
StmtCode(stmt) ==
  CASE stmt.k = "let" -> Code(stmt.e) \o <<Set(stmt.x)>>
    [] stmt.k = "while" ->
         WhileCode(Code(stmt.e), FlattenSeq([i \in DOMAIN stmt.body |-> StmtCode(stmt.body[i])]))
    [] stmt.k = "do" ->
         Code(stmt.e) \o (IF stmt.e.k = "assign" THEN <<>> ELSE <<Ins("drop")>>)

Code(e) ==
  CASE e.k \in {"int", "bool"} -> <<Push(e)>>
    [] e.k = "ident" -> <<Get(e.x)>>
    [] e.k = "group" -> Code(e.base)
    [] e.k = "prefix" -> Code(e.base) \o <<PrefixOp(e.op)>>
    [] e.k = "infix" -> InfixCode(e.op, Code(e.l), Code(e.r))
    [] e.k = "assign" /\ e.l.k = "ident" -> AssignVariable(e.op, e.l.x, Code(e.r))
    [] e.k = "assign" /\ e.l.k # "ident" -> AssignElement(e.op, Code(e.l), Code(e.r))
    [] e.k = "index" -> Code(e.base) \o Code(e.at) \o <<Ins("index")>>
    [] e.k = "list" -> ListCode(e.els)
    [] e.k = "call" -> CallCode(e.args)
    [] e.k = "cast" -> Code(e.base) \o <<CastTo(e.t)>>
    [] e.k = "block" ->
         FlattenSeq([i \in DOMAIN e.stmts |-> StmtCode(e.stmts[i])]) \o Code(e.tail)

-----------------------------------------------------------------------------
(* Instructions                                                            *)

Top(v) == v.heap[Last(v.stack)]
\* The cell n below the top of the stack, and a stack without the n topmost.
Below(v, n) == v.stack[Len(v.stack) - n]
Without(v, n) == SubSeq(v.stack, 1, Len(v.stack) - n)

\* Of n operands remains a pointer to a cell, or a new cell with value.
Replace(v, n, cell) == [v EXCEPT !.stack = Append(Without(v, n), cell)]
Compute(v, n, value) == [Replace(v, n, Len(v.heap) + 1) EXCEPT !.heap = Append(@, value)]

\* Only Div looks at its operand.
Fault(op) == IF op = "/" THEN "error" ELSE "panic"

RunOp(op, v) ==
  LET l == v.heap[Below(v, 1)] IN
  IF Illegal(op, l, Top(v)) THEN [v EXCEPT !.end = Fault(op)]
  ELSE Compute(v, 2, Operation(op, l, Top(v)))

\* A global variable is a value and is copied to and from the stack.
GetVar(x, v) ==
  IF x \in Globals THEN Compute(v, 0, v.heap[v.env[x]]) ELSE Replace(v, 0, v.env[x])
SetVar(x, v) ==
  IF x \in Globals THEN [v EXCEPT !.heap[v.env[x]] = Top(v), !.stack = Without(v, 1)]
  ELSE [Bind([v EXCEPT !.at = Last(v.stack)], x) EXCEPT !.stack = Without(v, 1)]

RunIndex(v) ==
  LET els == v.heap[Below(v, 1)].els
      i == Wrapped(Top(v).n, els)
  IN  IF i \in 0 .. Len(els) - 1 THEN Replace(v, 2, els[i + 1]) ELSE [v EXCEPT !.end = "error"]

\* The list stays on the stack; the cell of the element becomes a part of it.
RunAppend(v) ==
  [v EXCEPT !.heap[Below(v, 1)].els = Append(@, Last(v.stack)), !.stack = Without(v, 1)]

RunCall(argc, v) ==
  Compute([v EXCEPT !.out = Append(@, [i \in 1 .. argc |-> v.heap[Below(v, i - 1)]])],
          argc, Top(v))

Run(ins, v) ==
  CASE ins.i = "push" -> Compute(v, 0, ins.v)
    [] ins.i = "list" -> Compute(v, 0, List(<<>>))
    [] ins.i = "get" -> GetVar(ins.x, v)
    [] ins.i = "set" -> SetVar(ins.x, v)
    [] ins.i = "op" -> RunOp(ins.op, v)
    [] ins.i = "prefix" -> Compute(v, 1, PrefixOperation(ins.op, Top(v)))
    [] ins.i = "jump" -> [v EXCEPT !.ip = @ + ins.n - 1]
    [] ins.i = "jumpiffalse" ->
         [v EXCEPT !.stack = Without(v, 1), !.ip = @ + (IF Top(v).b THEN 0 ELSE ins.n - 1)]
    [] ins.i = "assign" -> [v EXCEPT !.heap[Below(v, 1)] = Top(v), !.stack = Without(v, 2)]
    [] ins.i = "duplicate" -> Replace(v, 0, Last(v.stack))
    [] ins.i = "drop" -> [v EXCEPT !.stack = Without(v, 1)]
    [] ins.i = "index" -> RunIndex(v)
    [] ins.i = "append" -> RunAppend(v)
    [] ins.i = "call" -> RunCall(ins.argc, v)
    [] ins.i = "cast" -> Compute(v, 1, DeepCast(Top(v), ins.t))

RECURSIVE Exec(_, _)
After(v) == IF v.end = "ok" THEN [v EXCEPT !.ip = @ + 1] ELSE v
Exec(code, v) ==
  IF v.end # "ok" \/ v.ip > Len(code) THEN v ELSE Exec(code, After(Run(code[v.ip], v)))

-----------------------------------------------------------------------------
(* Both engines on one expression                                          *)

\* A memory has values and the names of some of them.
Started(memory) ==
  [heap |-> memory.heap, env |-> memory.env, out |-> <<>>, end |-> "ok", at |-> 1, cells |-> <<>>,
   stack |-> <<>>, ip |-> 1]

RECURSIVE Display(_, _)
Display(heap, v) ==
  IF v.k = "list" THEN List([i \in DOMAIN v.els |-> Display(heap, heap[v.els[i]])]) ELSE v

\* What can be seen of a state: what was given to the host, how it ended, and if
\* it came to a value, this and the variables.
Outcome(s, cell) ==
  [end |-> s.end, out |-> s.out,
   value |-> IF s.end # "ok" THEN Null ELSE Display(s.heap, s.heap[cell]),
   vars |-> IF s.end # "ok" THEN <<>>
            ELSE [x \in DOMAIN s.env |-> Display(s.heap, s.heap[s.env[x]])]]

OnTree(e, memory) == LET s == Eval(e, Started(memory)) IN Outcome(s, s.at)

\* The variables of blocks are left out.
OnVm(e, memory) ==
  LET v == Exec(Code(e), Started(memory))
  IN  Outcome([v EXCEPT !.env = [x \in DOMAIN memory.env |-> @[x]]],
              IF v.stack = <<>> THEN 1 ELSE Last(v.stack))
=============================================================================
