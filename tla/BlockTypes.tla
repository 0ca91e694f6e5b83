----------------------------- MODULE BlockTypes -----------------------------
(***************************************************************************)
(* The types the analyzer gives to the function bodies of BlockEnds, and   *)
(* the bodies it accepts.  The type never is that of a block which, the    *)
(* analyzer holds, does not come to a value.                               *)
(*                                                                         *)
(* A context c has the fields of analyzer.Module that the analysis reads   *)
(* and changes as it goes: the return type of CurrentFunction ("none"      *)
(* outside functions), LoopDepth, CurrentLoopIsTerminated, and whether an  *)
(* error has been reported.  The result of analysing a node is its type t  *)
(* and the context c after it.                                             *)
(***************************************************************************)
EXTENDS BlockEnds, Naturals

Result(t, c) == [t |-> t, c |-> c]

\* An error unless ok.
Expect(ok, c) == IF ok THEN c ELSE [c EXCEPT !.errors = TRUE]

\* Kinds of types only; any is left out.
TypeCheck(got, expected) ==
  \/ expected \in {"unknown", "never"}
  \/ got \in {"unknown", "never"}
  \/ got = expected

RECURSIVE Analyzed(_, _), TypedBlock(_, _), TypedStmts(_, _), TypedArms(_, _, _)

-----------------------------------------------------------------------------
(* Blocks                                                                  *)

\* never: is one of the statements of type never?
TypedStmts(stmts, c) ==
  IF stmts = <<>> THEN [never |-> FALSE, c |-> c]
  ELSE LET first == Analyzed(Head(stmts), c)
           rest == TypedStmts(Tail(stmts), first.c)
       IN  [never |-> first.t = "never" \/ rest.never, c |-> rest.c]

TypedBlock(b, c) ==
  LET stmts == TypedStmts(b.stmts, c)
      tail == IF b.tail = <<>> THEN Result("null", stmts.c)
              ELSE Analyzed(b.tail[1], stmts.c)
  IN  Result(IF stmts.never THEN "never" ELSE tail.t, tail.c)

-----------------------------------------------------------------------------
(* Expressions                                                             *)

\* An expression of type never counts as an end of the loop.
Terminating(e) == Result(e.t, [e.c EXCEPT !.terminated = @ \/ e.t = "never"])

\* An expression that is a part of a node.
TypedPart(b, c) == Terminating(TypedBlock(b, c))

ExpectType(e, types) == Expect(\E t \in types : TypeCheck(e.t, t), e.c)

\* The context after the condition or iterator of n, which is one of types.
AfterCond(n, types, c) ==
  IF n.cond = <<>> THEN c ELSE ExpectType(TypedPart(n.cond[1], c), types)

\* The branches of an if; c is the context after its condition.
\* Mutated: one branch that diverges is enough.
IfExpressionEither(n, c) ==
  LET then == TypedBlock(n.parts[1], c)
      else == TypedBlock(n.parts[2], then.c)
      ok == TypeCheck(else.t, then.t)
      t == CASE ~ok -> "unknown"
             [] then.t = "never" -> "never"
             [] OTHER -> else.t
  IN  IF Len(n.parts) = 2 THEN Result(t, Expect(ok, else.c))
      ELSE Result("null", Expect(TypeCheck(then.t, "null"), then.c))

IfExpression(n, c) ==
  LET then == TypedBlock(n.parts[1], c)
      else == TypedBlock(n.parts[2], then.c)
      ok == TypeCheck(else.t, then.t)
      t == CASE ~ok -> "unknown"
             [] then.t = "never" -> else.t
             [] else.t = "never" -> then.t
             [] OTHER -> else.t
      thenOk == TypeCheck(then.t, "null")
  IN  IF Len(n.parts) = 2 THEN Result(t, Expect(ok, else.c))
      ELSE Result(IF thenOk THEN "null" ELSE "unknown", Expect(thenOk, then.c))

\* Arms after some that gave the type r.t; r.err: was there a conflict?
TypedArms(arms, r, isDefault) ==
  IF arms = <<>> THEN r
  ELSE LET action == TypedPart(Head(arms), r.c)
           takes == ~r.err /\ r.t \in {"unknown", "never"}
           ok == takes \/ TypeCheck(action.t, r.t)
           \* The action of the default arm is analysed again.
           again == IF isDefault /\ Len(arms) = 1 THEN TypedPart(Head(arms), action.c)
                    ELSE action
       IN  TypedArms(Tail(arms),
                     [t |-> IF takes THEN action.t ELSE r.t, err |-> r.err \/ ~ok,
                      c |-> Expect(ok, again.c)],
                     isDefault)

MatchExpression(n, c) ==
  LET hasDefault == n.k = "default"
      arms == TypedArms(n.parts, [t |-> "unknown", err |-> FALSE, c |-> c], hasDefault)
  IN  Result(arms.t, Expect(hasDefault \/ TypeCheck("null", arms.t), arms.c))

TryExpression(n, c) ==
  LET try == TypedBlock(n.parts[1], c)
      catch == TypedBlock(n.parts[2], try.c)
      ok == TypeCheck(catch.t, try.t)
      t == CASE ~ok -> "unknown"
             [] try.t = "never" -> catch.t
             [] OTHER -> try.t
  IN  Result(t, Expect(ok, catch.c))

\* CurrentFunction stays the literal, LoopDepth that of the code around it.
FunctionLiteral(n, c) ==
  LET body == TypedBlock(n.parts[1], [c EXCEPT !.ret = n.t])
  IN  Result("fn", Expect(TypeCheck(body.t, n.t), body.c))

CallArgs(n, c) ==
  LET arg == TypedPart(n.parts[1], c)
  IN  Expect(arg.t # "null" /\ TypeCheck(arg.t, "int"), arg.c)

CallExpression(n, c) == Result(n.t, CallArgs(n, c))

AssignExpression(n, c) ==
  LET rhs == TypedPart(n.parts[1], c)
  IN  Result(IF rhs.t = "never" THEN "never" ELSE "null",
             Expect(TypeCheck(rhs.t, n.t), rhs.c))

NotExpression(n, c) ==
  LET base == TypedPart(n.parts[1], c)
  IN  Result(IF base.t \in {"int", "bool"} THEN base.t ELSE "unknown",
             Expect(base.t \in {"int", "bool", "unknown", "never"}, base.c))

TypedExpression(n, c) ==
  CASE n.k \in {"lit", "bool", "true", "once", "throw", "exit"} -> Result(n.t, c)
    [] n.k = "not" -> NotExpression(n, c)
    [] n.k = "block" -> TypedBlock(n.parts[1], c)
    [] n.k = "if" -> IfExpression(n, AfterCond(n, {"bool"}, c))
    [] n.k \in {"match", "default"} -> MatchExpression(n, c)
    [] n.k = "try" -> TryExpression(n, c)
    [] n.k = "fn" -> FunctionLiteral(n, c)
    [] n.k = "call" -> CallExpression(n, c)
    [] n.k = "assign" -> AssignExpression(n, c)

-----------------------------------------------------------------------------
(* Statements                                                              *)

LetStatement(n, c) == Result("null", TypedPart(n.parts[1], c).c)

ReturnStatement(n, c) ==
  LET value == IF n.parts = <<>> THEN Result("null", c) ELSE TypedPart(n.parts[1], c)
  IN  Result("never",
             Expect(value.c.ret # "none" /\ TypeCheck(value.t, value.c.ret), value.c))

BreakStatement(c) ==
  Result("never", Expect(c.depth > 0, [c EXCEPT !.terminated = TRUE]))

ContinueStatement(c) == Result("never", Expect(c.depth > 0, c))

\* loop, while and for after condition or iterator; only loop may be of type never.
\* Mutated: any loop that has no break is one that does not end.
LoopStatementAny(n, c) ==
  LET body == TypedBlock(n.parts[1], [c EXCEPT !.depth = @ + 1])
      after == [body.c EXCEPT !.depth = c.depth, !.terminated = c.terminated]
  IN  Result(IF body.c.terminated THEN "null" ELSE "never",
             Expect(body.t \in {"unknown", "never", "null"}, after))

LoopStatement(n, c) ==
  LET body == TypedBlock(n.parts[1], [c EXCEPT !.depth = @ + 1])
      after == [body.c EXCEPT !.depth = c.depth, !.terminated = c.terminated]
  IN  Result(IF n.k # "loop" \/ body.c.terminated THEN "null" ELSE "never",
             Expect(body.t \in {"unknown", "never", "null"}, after))

LoopHead(n) == IF n.k = "while" THEN {"bool"} ELSE {"list", "range"}

Analyzed(n, c) ==
  CASE n.k = "let" -> LetStatement(n, c)
    [] n.k = "return" -> ReturnStatement(n, c)
    [] n.k = "break" -> BreakStatement(c)
    [] n.k = "continue" -> ContinueStatement(c)
    [] n.k \in {"loop", "while", "for"} -> LoopStatement(n, AfterCond(n, LoopHead(n), c))
    [] OTHER -> Terminating(TypedExpression(n, c))

-----------------------------------------------------------------------------
(* Functions                                                               *)

Function(ret, body) == [ret |-> ret, body |-> body]

\* terminated is what the functions before this one have left behind.
FunctionContext(fn, terminated) ==
  [ret |-> fn.ret, depth |-> 0, terminated |-> terminated, errors |-> FALSE]

FunctionDefinition(fn, terminated) ==
  LET body == TypedBlock(fn.body, FunctionContext(fn, terminated))
  IN  Result(body.t, Expect(TypeCheck(body.t, fn.ret), body.c))

Accepted(fn, terminated) == ~FunctionDefinition(fn, terminated).c.errors

\* A function and the function literals in it.
FunctionsOf(fn) ==
  {fn} \cup {Function(n.t, n.parts[1]) : n \in {m \in NodesOf(fn.body) : m.k = "fn"}}

-----------------------------------------------------------------------------
(* The optimizer                                                           *)

\* Mutated: the statement that diverges is taken for unreachable itself.
OptimizedStmtsAll(stmts, c) ==
  LET reached == {i \in DOMAIN stmts : ~TypedStmts(SubSeq(stmts, 1, i), c).never}
  IN  [i \in reached |-> stmts[i]]

\* The statements up to the first of type never; what is inside them is kept.
OptimizedStmts(stmts, c) ==
  LET reached == {i \in DOMAIN stmts : ~TypedStmts(SubSeq(stmts, 1, i - 1), c).never}
  IN  [i \in reached |-> stmts[i]]

Optimized(fn, terminated) ==
  Function(fn.ret, Block(OptimizedStmts(fn.body.stmts, FunctionContext(fn, terminated)),
                         fn.body.tail))

-----------------------------------------------------------------------------
(* Properties                                                              *)

\* Every function ends with a value of its return type, if it comes to a value,
\* and no break or continue leaves it.
KeepsItsType(fn) ==
  \A e \in BlockEnds(fn.body) :
    /\ e.end \in {"value", "return"} => e.t = fn.ret
    /\ e.end \notin {"break", "continue"}

\* A match without default arm has an arm that can go on.
MatchesGoOn(fn) ==
  \A n \in NodesOf(fn.body) : n.k = "match" => Value("null") \in PartEnds(n)

\* In a function with function literals all jumps are returns of the literals.
LiteralsApart(fn) ==
  LET literals == {n \in NodesOf(fn.body) : n.k = "fn"}
  IN  literals = {} \/
      /\ \A n \in OwnNodes(fn.body) : n.k # "return"
      /\ \A f \in literals : \A n \in NodesOf(f.parts[1]) : n.k \notin {"break", "continue", "fn"}
=============================================================================
