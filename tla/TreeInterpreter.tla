-------------------------- MODULE TreeInterpreter --------------------------
(***************************************************************************)
(* The tree-walking interpreter, for the statements of Ast, as a function  *)
(* from a program to what it prints and how it ends.  It is the reference  *)
(* the bytecode back end is compared with.                                 *)
(*                                                                         *)
(* A state st has the scopes of the current module (innermost last), the   *)
(* output and the interrupt under way: "go" for none, "return", "break",   *)
(* "continue" or "throw" with its message.                                 *)
(***************************************************************************)
EXTENDS Ast, SequencesExt

Interrupt(st, kind, message) == [st EXCEPT !.kind = kind, !.message = message]
Cleared(st) == Interrupt(st, "go", "")

PushScope(st) == [st EXCEPT !.scopes = Append(@, <<>>)]
PopScope(st) == [st EXCEPT !.scopes = Front(@)]
ClearScope(st) == [st EXCEPT !.scopes[Len(st.scopes)] = <<>>]

AddVar(st, x, v) ==
  [st EXCEPT !.scopes[Len(st.scopes)] =
     [y \in DOMAIN @ \cup {x} |-> IF y = x THEN v ELSE @[y]]]

\* The innermost scope that has x.
ScopeOf(st, x) ==
  CHOOSE k \in 1..Len(st.scopes) :
    /\ x \in DOMAIN st.scopes[k]
    /\ \A j \in (k + 1)..Len(st.scopes) : x \notin DOMAIN st.scopes[j]
GetVar(st, x) == st.scopes[ScopeOf(st, x)][x]

RECURSIVE Statement(_, _, _), RunBlock(_, _, _), RunLoop(_, _, _), RunFor(_, _, _, _)

RunBlock(block, source, st) ==
  IF block = <<>> \/ st.kind # "go" THEN st
  ELSE RunBlock(Tail(block), source, Statement(Head(block), source, st))

Scoped(block, source, st) == PopScope(RunBlock(block, source, PushScope(st)))

\* The callee's scope is pushed on top of the caller's scopes.
CallFunc(fn, source, st) ==
  LET end == Scoped(source[fn], source, st)
  IN  IF end.kind = "return" THEN Cleared(end) ELSE end

RunLoop(body, source, st) ==
  LET end == Scoped(body, source, st)
  IN  CASE end.kind \in {"go", "continue"} -> RunLoop(body, source, Cleared(end))
        [] end.kind = "break" -> Cleared(end)
        [] OTHER -> end

RunFor(s, left, source, st) ==
  IF left = 0 THEN st
  ELSE LET end == RunBlock(s.body, source, AddVar(ClearScope(st), s.x, "item"))
       IN  CASE end.kind \in {"go", "continue"} -> RunFor(s, left - 1, source, Cleared(end))
             [] end.kind = "break" -> Cleared(end)
             [] OTHER -> end

TryExpression(s, source, st) ==
  LET end == Scoped(s.body, source, st)
  IN  IF end.kind # "throw" THEN end
      ELSE PopScope(RunBlock(s.other, source,
                             AddVar(PushScope(Cleared(end)), s.x, end.message)))

Statement(s, source, st) ==
  CASE s.k = "let" -> AddVar(st, s.x, s.v)
    [] s.k = "assign" -> [st EXCEPT !.scopes[ScopeOf(st, s.x)][s.x] = s.v]
    [] s.k = "print" -> [st EXCEPT !.out = Append(@, GetVar(st, s.x))]
    [] s.k = "throw" -> Interrupt(st, "throw", s.v)
    [] s.k \in {"return", "break", "continue"} -> Interrupt(st, s.k, "")
    [] s.k = "call" -> CallFunc(s.x, source, st)
    [] s.k = "loop" -> RunLoop(s.body, source, st)
    [] s.k = "for" -> PopScope(RunFor(s, LoopItems, source, PushScope(st)))
    [] s.k \in {"if", "match"} ->
         Scoped(IF GetVar(st, s.x) = s.v THEN s.body ELSE s.other, source, st)
    [] s.k = "try" -> TryExpression(s, source, st)

\* What running entry prints, and whether it ends or throws.
Execute(source, entry) ==
  LET end == CallFunc(entry, source,
                      [scopes |-> <<>>, out |-> <<>>, kind |-> "go", message |-> ""])
  IN  [out |-> end.out, status |-> IF end.kind = "throw" THEN "uncaught" ELSE "nil"]
=============================================================================
