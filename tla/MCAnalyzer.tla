----------------------------- MODULE MCAnalyzer -----------------------------
(***************************************************************************)
(* Instances for the analyzer: the programs of MCImports, whose bodies are *)
(* empty, and programs of one module with the function fn.                 *)
(***************************************************************************)
EXTENDS MCImports

T == INSTANCE Fuzzer

CONSTANTS
  Functions,   \* what fn is in programs of one module
  Rewritten    \* those that are given to the fuzzer

VARIABLE fn

EmptyMain == T!Function("null", T!Block(<<>>, <<>>))

Alone(s) ==
  \A m \in Names : s[m].imports = <<>> /\ s[m].kind = IF m = Entry THEN "code" ELSE "absent"

AInit ==
  /\ Init
  /\ fn \in IF Alone(source) THEN Functions ELSE {EmptyMain}

ANext == Next /\ UNCHANGED fn

ASpec == AInit /\ [][ANext]_<<vars, fn>>

-----------------------------------------------------------------------------
(* Functions: one or two statements and a trailing expression, with at     *)
(* most three levels of blocks.                                            *)

Jumps == {T!Throw, T!Return, T!ReturnValue(T!Expr(T!Lit("int")))}
LoopJumps == {T!Break, T!Continue}
Trailing == {<<>>, <<T!Lit("int")>>}

\* Blocks without blocks.
Flat(jumps) ==
  {T!Block(<<>>, t) : t \in Trailing \cup {<<T!Throw>>}} \cup
  {T!Block(<<j>>, t) : j \in jumps, t \in Trailing}

Branches(blocks) ==
  {T!If(b) : b \in blocks} \cup {T!Match(<<b>>) : b \in blocks}
  \cup UNION {{T!IfElse(b, c), T!MatchDefault(<<b, c>>), T!Match(<<b, c>>), T!Try(b, c)} :
              b \in blocks, c \in blocks}

Wrapped(blocks) ==
  UNION {{T!BlockExpr(b), T!Let(b), T!Call("int", b), T!Assign("int", b),
          T!ReturnValue(b)} : b \in blocks}

LoopsOf(blocks) == UNION {{T!Loop(b), T!While(b), T!For(b)} : b \in blocks}

Simple == Branches(Flat(Jumps)) \cup Wrapped(Flat(Jumps)) \cup {T!Exit}

\* A branch in a loop, and a loop in a loop.
InLoop ==
  {T!Block(<<n>>, <<>>) : n \in Branches({T!Block(<<j>>, <<>>) : j \in Jumps \cup LoopJumps})}
  \cup {T!Block(<<n, j>>, <<>>) : n \in LoopsOf(Flat(LoopJumps)), j \in LoopJumps \cup {T!Exit}}
  \cup {T!Block(<<j, n>>, <<>>) : n \in LoopsOf(Flat(LoopJumps)), j \in LoopJumps}

Loops == LoopsOf(Flat(Jumps \cup LoopJumps) \cup InLoop)

Literals ==
  UNION {{T!FnLiteral(t, b) : b \in Flat(Jumps \cup LoopJumps)} : t \in {"int", "null"}}

Bodies ==
  {T!Block(<<n>>, t) : n \in Simple \cup Loops, t \in Trailing}
  \cup {T!Block(<<>>, <<n>>) : n \in Branches(Flat(Jumps))}
  \cup {T!Block(<<n, j>>, t) : n \in Simple \cup Loops, j \in Jumps, t \in Trailing}
  \cup {T!Block(<<f, j>>, t) : f \in Literals, j \in Jumps, t \in Trailing}
  \cup {T!Block(<<T!Loop(T!Block(<<f, T!Break>>, <<>>))>>, t) : f \in Literals, t \in Trailing}

FunctionsWith(bodies) == {T!Function(t, b) : t \in {"int", "null"}, b \in bodies}

(* For the fuzzer: loops and branches with conditions, in a loop and not.  *)

MaybeJump(j) == T!Block(<<T!If(T!Block(<<j>>, <<>>))>>, <<T!Bool>>)
Conds(jumps) == {T!Expr(T!Bool), T!Expr(T!True)} \cup {MaybeJump(j) : j \in jumps}
                \cup {T!Block(<<j>>, <<>>) : j \in jumps}
ReturnInt == T!ReturnValue(T!Expr(T!Lit("int")))
OneJump(jumps) == {T!Block(<<j>>, <<>>) : j \in jumps}

Conditioned(jumps, inner) ==
  UNION {{T!On(c, T!If(b)), T!On(c, T!While(b)), T!For(b), T!Loop(b), T!Match(<<b>>)} :
           c \in Conds(jumps), b \in OneJump(inner)}
  \cup UNION {{T!IfElse(b, c), T!Try(b, c), T!MatchDefault(<<b, c>>)} :
                b, c \in OneJump(inner)}
  \cup {T!Let(b) : b \in OneJump(inner)}

RewrittenBodies ==
  {T!Block(<<n>>, <<T!Lit("int")>>) :
     n \in Conditioned({T!Throw, ReturnInt}, {T!Throw, ReturnInt, T!Let(T!Expr(T!Lit("int")))})}
  \cup
  {T!Block(<<T!Loop(T!Block(<<n>>, <<>>))>>, <<T!Lit("int")>>) :
     n \in Conditioned({T!Throw, T!Break}, {ReturnInt} \cup LoopJumps)}

MCRewritten == FunctionsWith(RewrittenBodies)
MCFunctions == FunctionsWith(Bodies) \cup MCRewritten

-----------------------------------------------------------------------------

AcceptedFn(left) == frames = <<>> /\ T!Accepted(fn, left)

\* A function that is analysed without errors, whatever the functions before it
\* have left in CurrentLoopIsTerminated, ends with a value of its declared type
\* if it comes to a value (topLevel.go:152), and so does each literal in it.
FunctionsKeepTheirType ==
  \A left \in BOOLEAN : AcceptedFn(left) =>
    \A f \in T!FunctionsOf(fn) : T!KeepsItsType(f)

\* The same of functions whose matches without default have an arm that goes on,
\* and that do not jump after a function literal.
BodiesKeepTheirType ==
  T!MatchesGoOn(fn) /\ T!LiteralsApart(fn) => FunctionsKeepTheirType

\* What the optimizer removes as unreachable (optimizer.go:141) is unreachable.
OptimizerKeepsEnds ==
  T!MatchesGoOn(fn) =>
    \A left \in BOOLEAN : AcceptedFn(left) =>
      T!BlockEnds(T!Optimized(fn, left).body) = T!BlockEnds(fn.body)

\* Every variant the fuzzer makes of an accepted function ends in the ways the
\* function does ("preserves the output of the program").
VariantsKeepEnds ==
  fn \in Rewritten /\ T!Fuzzable(fn) /\ AcceptedFn(TRUE) =>
    \A v \in T!Transformed(fn) : T!BlockEnds(v.body) = T!BlockEnds(fn.body)

\* The same of functions with no break or continue in conditions, iterators and
\* default arms, where the search for jumps or the rewriting of loops goes wrong.
RewritingKeepsEnds == T!ControlApart(fn) /\ T!DefaultsStay(fn) => VariantsKeepEnds
=============================================================================
