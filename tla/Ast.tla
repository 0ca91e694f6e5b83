-------------------------------- MODULE Ast --------------------------------
(***************************************************************************)
(* The fragment of the analyzed syntax tree (analyzer/ast) that Compiler   *)
(* and TreeInterpreter share: functions without parameters whose bodies    *)
(* are blocks of statements over string variables.                         *)
(*                                                                         *)
(* A source maps function names to blocks; a block is a sequence of        *)
(* statements.  All statements have the same fields.                       *)
(***************************************************************************)
EXTENDS Sequences, Integers

Stmt(k, x, v, body, other) ==
  [k |-> k, x |-> x, v |-> v, body |-> body, other |-> other]

Let(x, v) == Stmt("let", x, v, <<>>, <<>>)
Assign(x, v) == Stmt("assign", x, v, <<>>, <<>>)
Println(x) == Stmt("print", x, "", <<>>, <<>>)
ThrowStmt(v) == Stmt("throw", "", v, <<>>, <<>>)
Call(fn) == Stmt("call", fn, "", <<>>, <<>>)
ReturnStmt == Stmt("return", "", "", <<>>, <<>>)
Break == Stmt("break", "", "", <<>>, <<>>)
Continue == Stmt("continue", "", "", <<>>, <<>>)
Loop(body) == Stmt("loop", "", "", body, <<>>)
\* A for loop over a list of LoopItems strings "item".
For(x, body) == Stmt("for", x, "", body, <<>>)
\* if x == v { body } else { other }
If(x, v, body, other) == Stmt("if", x, v, body, other)
Try(body, x, handler) == Stmt("try", x, "", body, handler)
\* A match on variable x with one arm, for literal v, and a default arm.
Match(x, v, arm, default) == Stmt("match", x, v, arm, default)

\* let at the top level of a module, which its init function runs.
Global(x, v) == Stmt("global", x, v, <<>>, <<>>)

LoopItems == 2

-----------------------------------------------------------------------------
(* Shapes of programs.                                                     *)

Statements(block) == {block[i] : i \in 1..Len(block)}

\* Can a throw leave this block, in a program without recursion?
RECURSIVE MayThrow(_, _)
MayThrow(block, source) ==
  \E s \in Statements(block) :
    CASE s.k = "throw" -> TRUE
      [] s.k = "call" -> MayThrow(source[s.x], source)
      [] s.k = "try" -> MayThrow(s.other, source)
      [] OTHER -> MayThrow(s.body, source) \/ MayThrow(s.other, source)

\* Does a statement of this block jump?
RECURSIVE Jumps(_)
Jumps(block) ==
  \E s \in Statements(block) :
    s.k \in {"return", "break", "continue"} \/ Jumps(s.body) \/ Jumps(s.other)

\* The statements of every depth of this block.
RECURSIVE AllOf(_)
AllOf(block) ==
  Statements(block) \cup
  UNION {AllOf(s.body) \cup AllOf(s.other) : s \in Statements(block)}

AllStatements(source) == UNION {AllOf(source[fn]) : fn \in DOMAIN source}
Tries(source) == {s \in AllStatements(source) : s.k = "try"}

\* No jump leaves a try block.
NoJumpOutOfTry(source) == \A s \in Tries(source) : ~Jumps(s.body)

\* A throw inside a try block is caught by the function that throws.
CaughtLocally(source) ==
  \A s \in Tries(source) : \A c \in AllOf(s.body) :
    c.k = "call" => ~MayThrow(source[c.x], source)

\* Catch variables are named apart from the other variables.
CatchNamesApart(source) ==
  \A s \in AllStatements(source) :
    /\ s.k = "try" => s.x = "e"
    /\ s.k \in {"let", "for"} => s.x # "e"

NoMatch(source) == \A s \in AllStatements(source) : s.k # "match"

\* The programs on which the two back ends are claimed to agree.
Structured(source) ==
  /\ NoJumpOutOfTry(source)
  /\ CaughtLocally(source)
  /\ CatchNamesApart(source)
  /\ NoMatch(source)
=============================================================================
