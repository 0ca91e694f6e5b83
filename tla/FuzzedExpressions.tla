------------------------- MODULE FuzzedExpressions -------------------------
(***************************************************************************)
(* Expressions, what passes of the fuzzer make of them, and the texts it   *)
(* gives out: these are parsed again and evaluated, by the tree            *)
(* interpreter and by compiled code on the VM.                             *)
(***************************************************************************)
EXTENDS VmValues, OperatorVariants

CONSTANTS
  Scripts,    \* the expressions somebody may write
  Memories,   \* and the variables they find
  Passes

VARIABLES
  script,   \* the tree the parser finds in the script
  expr,     \* what the fuzzer has made of it
  static,   \* is it the initial value of a global variable?
  pass

vars == <<script, expr, static, pass>>

RECURSIVE Constant(_)
\* What may be the initial value of a global variable.
Constant(e) ==
  CASE e.k \in {"int", "bool", "range"} -> TRUE
    [] e.k \in {"group", "prefix", "cast", "index", "member"} -> Constant(e.base)
    [] e.k = "infix" -> Constant(e.l) /\ Constant(e.r)
    [] e.k = "list" -> \A i \in DOMAIN e.els : Constant(e.els[i])
    [] e.k = "block" -> e.stmts = <<>> /\ Constant(e.tail)
    [] OTHER -> FALSE

\* The parser makes no other trees than those that conform.
Init ==
  /\ script \in {e \in Scripts : Conforms(e)}
  /\ expr = script
  /\ static \in {FALSE, Constant(script)}
  /\ pass = 0

\* The next pass goes on with the tree, not with its text.
Pass ==
  /\ pass < Passes
  /\ pass' = pass + 1
  /\ expr' \in Variants(expr, static)
  /\ UNCHANGED <<script, static>>

Next == Pass
Spec == Init /\ [][Next]_vars

Text == Printed(expr)

-----------------------------------------------------------------------------
(* What an expression is made of                                           *)

Elements(s) == {s[i] : i \in DOMAIN s}

\* In the order in which the tree interpreter evaluates them.
Operands(e) ==
  CASE e.k \in {"infix", "assign", "range"} -> <<e.l, e.r>>
    [] e.k \in {"group", "prefix", "cast", "member"} -> <<e.base>>
    [] e.k = "index" -> <<e.base, e.at>>
    [] e.k = "call" -> <<e.base>> \o e.args
    [] e.k = "list" -> e.els
    [] e.k = "block" -> [i \in DOMAIN e.stmts |-> e.stmts[i].e] \o <<e.tail>>
    [] OTHER -> <<>>

RECURSIVE Within(_)
Within(e) == {e} \cup UNION {Within(p) : p \in Elements(Operands(e))}

Names(e) == {p \in Within(e) : p.k = "ident"}
Written(e) == UNION {Names(p.l) : p \in {q \in Within(e) : q.k = "assign"}}

\* Expressions whose values are modelled.
HasValue(e) ==
  \A p \in Within(e) : p.k \notin {"range", "member"} /\ (p.k = "call" => p.base = Ident("host"))

\* Calls are seen, and so is at which of two places a script fails.
Seen(e) ==
  \E p \in Within(e) :
    p.k \in {"call", "index"} \/ (p.k = "infix" /\ p.op \in {"/", "%", "<<", ">>"})

\* It does not matter which of the two is evaluated first.
Apart(d, e) ==
  /\ Written(d) \cap Names(e) = {} /\ Written(e) \cap Names(d) = {}
  /\ ~(Seen(d) /\ Seen(e))

\* The interpreter's value of a name is the variable itself, and the VM's element of a list
\* is the element itself: neither is kept while it is written.
KeepsCopies(e) ==
  /\ \A p \in Within(e) :
       /\ p.k \in {"infix", "index"} => Written(p) = {}
       /\ p.k = "list" => Elements(p.els) \cap Written(e) = {}
       /\ p.k = "block" => \A i \in DOMAIN p.stmts :
            p.stmts[i].k = "let" /\ p.stmts[i].e.k = "index" => Written(p) = {}

\* The VM evaluates arguments from right to left.
ArgumentsApart(e) ==
  \A p \in Within(e) : p.k = "call" =>
    \A i, j \in DOMAIN p.args : i # j => Apart(p.args[i], p.args[j])

-----------------------------------------------------------------------------
(* Properties                                                              *)

RECURSIVE Ungrouped(_)
\* The same without parentheses.
Ungrouped(e) ==
  CASE e.k = "group" -> Ungrouped(e.base)
    [] e.k = "infix" -> Infix(e.op, Ungrouped(e.l), Ungrouped(e.r))
    [] e.k \in {"prefix", "cast"} -> [e EXCEPT !.base = Ungrouped(@)]
    [] OTHER -> e

\* Of the trees that a sequence of tokens may stand for the parser (parser/expression.go)
\* finds the one in which each operator has the operands it binds more strongly than
\* its neighbours do, and so none other than the one that has been printed, if that is it.
ParsesByBindingPower ==
  \A e \in {expr, Ungrouped(expr)} :
    LET tree == Parse(Printed(e)) IN
    /\ Conforms(tree) /\ Printed(tree) = Printed(e)
    /\ Conforms(e) => tree = e

SameEnd(s, t) == s.out = t.out /\ (s.end = "ok") = (t.end = "ok") /\ s.value = t.value

\* Both engines come to the same: the compiler's code and the data instructions of
\* the VM (execute.go) do what the tree interpreter does (interpreter/expression.go).
EnginesAgree ==
  pass = 0 /\ HasValue(expr) /\ KeepsCopies(expr) /\ ArgumentsApart(expr) =>
    \A m \in Memories :
      LET tree == OnTree(expr, m)
          vm == OnVm(expr, m)
      IN  SameEnd(tree, vm) /\ tree.vars = vm.vars

\* The minus that is put before the operand applies to all of it.
Negatable(e) == LeftEdge(e) \cap {Left("**"), Left("as")} = {}

\* What may as well be the right operand of a product.
RECURSIVE PureProduct(_)
PureProduct(e) ==
  /\ e.k = "infix" => e.op \notin {"/", "%"}
  /\ e.k = "infix" /\ e.op = "*" => PureProduct(e.l)

Repeatable(e) == \A p \in Within(e) : p.k \notin {"call", "assign"}

\* The parts that may be replaced by their variants.
RECURSIVE Replaced(_)
Replaced(e) ==
  IF e.k = "infix" /\ e.op \in DOMAIN Reversed \cup DOMAIN Negated
  THEN {e} \cup Replaced(e.l) \cup Replaced(e.r) ELSE {e}

\* The operands may be swapped, sums and differences made each other, and products made
\* loops; passes do one after the other.
Rewritable(e) ==
  \A p \in Replaced(e) :
    /\ p.k = "infix" /\ p.op \in {"+", "-", "*"} \cup DOMAIN Reversed => Apart(p.l, p.r)
    /\ p.k = "infix" /\ p.op \in {"+", "-"} => Negatable(p.l) /\ Negatable(p.r)
    /\ p.k = "infix" /\ p.op = "*" => PureProduct(p.l) /\ Repeatable(p.l) /\ Repeatable(p.r)

\* A product is made a loop that counts up to its right operand, which before an earlier
\* pass may have been the left one.
Counts(e, m) == LET v == OnTree(e, m).value IN v.k = "int" => v.n >= 0
CountsUp(e, m) ==
  \A p \in Replaced(e) : p.k = "infix" /\ p.op = "*" => Counts(p.l, m) /\ Counts(p.r, m)

\* The text of each variant of an expression comes to the value of the expression
\* (fuzzer/README.md: the generated code does the same as the original).
RewritingKeepsValue ==
  pass > 0 /\ HasValue(script) /\ Rewritable(script) =>
    \A m \in Memories : CountsUp(script, m) =>
      SameEnd(OnTree(Parse(Text), m), OnTree(script, m))

\* The initial value of a global variable stays a constant, as the analyzer demands of it.
GlobalsStayConstant == static => Constant(Parse(Text))
=============================================================================
