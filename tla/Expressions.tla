---------------------------- MODULE Expressions ----------------------------
(***************************************************************************)
(* Expressions, the parser that finds their structure by the binding       *)
(* powers of tokens, and the printer of analysed trees, which adds no      *)
(* parentheses of its own.                                                 *)
(*                                                                         *)
(* A literal, name or block is one token: the statements of a block are    *)
(* read for themselves.                                                    *)
(***************************************************************************)
EXTENDS Sequences, Naturals

Number(n) == [k |-> "int", n |-> n]
Truth(b) == [k |-> "bool", b |-> b]
Ident(x) == [k |-> "ident", x |-> x]
List(els) == [k |-> "list", els |-> els]
Block(stmts, tail) == [k |-> "block", stmts |-> stmts, tail |-> tail]
Group(e) == [k |-> "group", base |-> e]
Prefix(op, base) == [k |-> "prefix", op |-> op, base |-> base]
Infix(op, l, r) == [k |-> "infix", op |-> op, l |-> l, r |-> r]
Assign(op, l, r) == [k |-> "assign", op |-> op, l |-> l, r |-> r]
RangeOf(l, r) == [k |-> "range", op |-> "..", l |-> l, r |-> r]
Call(base, args) == [k |-> "call", op |-> "(", base |-> base, args |-> args]
Index(base, at) == [k |-> "index", op |-> "[", base |-> base, at |-> at]
Member(base, x) == [k |-> "member", op |-> ".", base |-> base, x |-> x]
Cast(base, t) == [k |-> "cast", op |-> "as", base |-> base, t |-> t]
NoExpr == [k |-> "none"]

\* Statements of blocks.
Let(x, e) == [k |-> "let", x |-> x, e |-> e]
While(cond, body) == [k |-> "while", e |-> cond, body |-> body]
Do(e) == [k |-> "do", e |-> e]

Atoms == {"int", "bool", "ident", "block"}
InfixOps == {"||", "&&", "|", "^", "&", "==", "!=", "<", ">", "<=", ">=", "<<", ">>",
             "+", "-", "*", "/", "%", "**"}
AssignOps == {"=", "+=", "-=", "*=", "/=", "%=", "**=", "<<=", ">>=", "|=", "&=", "^="}
PrefixOps == {"-", "!"}

-----------------------------------------------------------------------------
(* Binding powers                                                          *)

\* To the left and to the right; a token that continues no expression has none.
Prec(t) ==
  CASE t \in AssignOps -> <<1, 2>>
    [] t = "||" -> <<3, 4>>
    [] t = "&&" -> <<5, 6>>
    [] t = "|" -> <<7, 8>>
    [] t = "^" -> <<9, 10>>
    [] t = "&" -> <<11, 12>>
    [] t \in {"==", "!="} -> <<13, 14>>
    [] t \in {"<", ">", "<=", ">="} -> <<15, 16>>
    [] t \in {"<<", ">>"} -> <<17, 18>>
    [] t \in {"+", "-"} -> <<19, 20>>
    [] t \in {"*", "/", "%"} -> <<21, 22>>
    [] t = "as" -> <<23, 24>>
    [] t = "**" -> <<26, 25>>
    [] t = ".." -> <<27, 28>>
    [] t \in {"(", "["} -> <<30, 31>>
    [] t = "." -> <<33, 32>>
    [] OTHER -> <<0, 0>>

Left(t) == Prec(t)[1]
Right(t) == Prec(t)[2]
PrefixPrec == 29

-----------------------------------------------------------------------------
(* Printing                                                                *)

Token(k) == <<[k |-> k]>>
Atom(e) == <<[k |-> "atom", e |-> e]>>
TypeToken(t) == <<[k |-> "type", t |-> t]>>
NameToken(x) == <<[k |-> "name", x |-> x]>>

RECURSIVE Printed(_), PrintedArgs(_), Parse(_), StmtRead(_)

\* A block after its statements have been printed and read.
StmtRead(stmt) ==
  IF stmt.k = "while"
  THEN [stmt EXCEPT !.e = Parse(Printed(@)), !.body = [i \in DOMAIN @ |-> StmtRead(@[i])]]
  ELSE [stmt EXCEPT !.e = Parse(Printed(@))]
BlockRead(e) ==
  Block([i \in DOMAIN e.stmts |-> StmtRead(e.stmts[i])], Parse(Printed(e.tail)))

PrintedArgs(args) ==
  IF Len(args) <= 1 THEN IF args = <<>> THEN <<>> ELSE Printed(args[1])
  ELSE Printed(Head(args)) \o Token(",") \o PrintedArgs(Tail(args))

Printed(e) ==
  CASE e.k = "block" -> Atom(BlockRead(e))
    [] e.k \in Atoms \ {"block"} -> Atom(e)
    [] e.k = "list" -> Token("[") \o PrintedArgs(e.els) \o Token("]")
    [] e.k = "group" -> Token("(") \o Printed(e.base) \o Token(")")
    [] e.k = "prefix" -> Token(e.op) \o Printed(e.base)
    [] e.k \in {"infix", "assign", "range"} -> Printed(e.l) \o Token(e.op) \o Printed(e.r)
    [] e.k = "call" -> Printed(e.base) \o Token("(") \o PrintedArgs(e.args) \o Token(")")
    [] e.k = "index" -> Printed(e.base) \o Token("[") \o Printed(e.at) \o Token("]")
    [] e.k = "member" -> Printed(e.base) \o Token(".") \o NameToken(e.x)
    [] e.k = "cast" -> Printed(e.base) \o Token("as") \o TypeToken(e.t)

-----------------------------------------------------------------------------
(* Parsing: an expression and the tokens after it.                         *)

Parsed(e, rest) == [e |-> e, rest |-> rest]
Failed == Parsed(NoExpr, <<>>)

Following(toks) == IF toks = <<>> THEN "eof" ELSE Head(toks).k

Places == {"ident", "index", "member", "cast"}

\* The token that has to come next is skipped.
Expected(k, e, toks) == IF Following(toks) = k THEN Parsed(e, Tail(toks)) ELSE Failed

RECURSIVE Expression(_, _), Continued(_, _, _), Args(_, _, _)

\* The elements or arguments so far and the one that has been parsed.
ArgsAfter(end, args, arg) ==
  CASE arg.e = NoExpr -> Failed
    [] Following(arg.rest) = "," -> Args(end, Append(args, arg.e), Tail(arg.rest))
    [] OTHER -> Expected(end, List(Append(args, arg.e)), arg.rest)

Args(end, args, toks) ==
  IF Following(toks) = end THEN Parsed(List(args), Tail(toks))
  ELSE ArgsAfter(end, args, Expression(0, toks))

Grouped(inner) == Expected(")", Group(inner.e), inner.rest)
Prefixed(op, base) == IF base.e = NoExpr THEN Failed ELSE Parsed(Prefix(op, base.e), base.rest)

\* What an expression begins with.
Start(toks) ==
  CASE Following(toks) = "atom" -> Parsed(Head(toks).e, Tail(toks))
    [] Following(toks) = "[" -> Args("]", <<>>, Tail(toks))
    [] Following(toks) = "(" -> Grouped(Expression(0, Tail(toks)))
    [] Following(toks) \in PrefixOps -> Prefixed(Following(toks), Expression(PrefixPrec, Tail(toks)))
    [] OTHER -> Failed

\* lhs with the right operand r of the operator op.
Joined(op, lhs, r) ==
  CASE r.e = NoExpr -> Failed
    [] op \in AssignOps ->
         IF lhs.k \in Places THEN Parsed(Assign(op, lhs, r.e), r.rest) ELSE Failed
    [] op = ".." -> Parsed(RangeOf(lhs, r.e), r.rest)
    [] OTHER -> Parsed(Infix(op, lhs, r.e), r.rest)

Called(base, args) ==
  IF args.e = NoExpr THEN Failed ELSE Parsed(Call(base, args.e.els), args.rest)

Indexed(base, at) == Expected("]", Index(base, at.e), at.rest)

\* The end of a range is parsed with no binding power at all.
Operand(op) == IF op = ".." THEN 0 ELSE Right(op)

\* One turn of the loop: what lhs becomes with the operator that follows it.
Extended(lhs, op, toks) ==
  CASE op \in InfixOps \cup AssignOps \cup {".."} ->
         Joined(op, lhs, Expression(Operand(op), toks))
    [] op = "(" -> Called(lhs, Args(")", <<>>, toks))
    [] op = "[" -> Indexed(lhs, Expression(0, toks))
    [] op = "." -> IF Following(toks) = "name" THEN Parsed(Member(lhs, Head(toks).x), Tail(toks))
                   ELSE Failed
    [] op = "as" -> IF Following(toks) = "type" THEN Parsed(Cast(lhs, Head(toks).t), Tail(toks))
                    ELSE Failed

\* Mutated: an operator of the same binding power is taken, too.
ContinuedWeakly(lhs, prec, toks) ==
  IF lhs = NoExpr \/ Left(Following(toks)) = 0 \/ Left(Following(toks)) + 1 < prec THEN Parsed(lhs, toks)
  ELSE LET longer == Extended(lhs, Following(toks), Tail(toks))
       IN  Continued(longer.e, prec, longer.rest)

\* Operators are taken as long as they bind more strongly than prec.
Continued(lhs, prec, toks) ==
  IF lhs = NoExpr \/ Left(Following(toks)) <= prec THEN Parsed(lhs, toks)
  ELSE LET longer == Extended(lhs, Following(toks), Tail(toks))
       IN  Continued(longer.e, prec, longer.rest)

From(start, prec) == Continued(start.e, prec, start.rest)
Expression(prec, toks) == From(Start(toks), prec)

\* The tree of tokens that are one expression.
Whole(p) == IF p.rest = <<>> THEN p.e ELSE NoExpr
Parse(toks) == Whole(Expression(0, toks))

-----------------------------------------------------------------------------
(* What the structure should be: an operator in an operand stays there iff *)
(* it binds more strongly than the one whose operand it is.                *)

TwoSided == {"infix", "assign", "range"}
Postfix == {"call", "index", "member", "cast"}

\* The operators whose operand an expression begins, and ends, with.
RECURSIVE LeftEdge(_), RightEdge(_)
LeftEdge(e) ==
  CASE e.k \in TwoSided -> {Left(e.op)} \cup LeftEdge(e.l)
    [] e.k \in Postfix -> {Left(e.op)} \cup LeftEdge(e.base)
    [] OTHER -> {}
RightEdge(e) ==
  CASE e.k \in TwoSided -> {Operand(e.op)} \cup RightEdge(e.r)
    [] e.k = "prefix" -> {PrefixPrec} \cup RightEdge(e.base)
    [] OTHER -> {}

FitsLeft(e, op) == \A p \in RightEdge(e) : p >= Left(op)
FitsRight(e, p) == \A q \in LeftEdge(e) : q > p

\* The tree needs no more parentheses than it has.
RECURSIVE Conforms(_), StmtConforms(_)
StmtConforms(stmt) ==
  /\ Conforms(stmt.e)
  /\ stmt.k = "while" => \A i \in DOMAIN stmt.body : StmtConforms(stmt.body[i])
Conforms(e) ==
  CASE e.k \in {"int", "bool", "ident"} -> TRUE
    [] e.k = "block" ->
         Conforms(e.tail) /\ \A i \in DOMAIN e.stmts : StmtConforms(e.stmts[i])
    [] e.k = "list" -> \A i \in DOMAIN e.els : Conforms(e.els[i])
    [] e.k = "group" -> Conforms(e.base)
    [] e.k = "prefix" -> FitsRight(e.base, PrefixPrec) /\ Conforms(e.base)
    [] e.k \in TwoSided ->
         /\ FitsLeft(e.l, e.op) /\ FitsRight(e.r, Operand(e.op))
         /\ e.k = "assign" => e.l.k \in Places
         /\ Conforms(e.l) /\ Conforms(e.r)
    [] e.k \in Postfix ->
         /\ FitsLeft(e.base, e.op) /\ Conforms(e.base)
         /\ e.k = "index" => Conforms(e.at)
         /\ e.k = "call" => \A i \in DOMAIN e.args : Conforms(e.args[i])
=============================================================================
