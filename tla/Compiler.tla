------------------------------ MODULE Compiler ------------------------------
(***************************************************************************)
(* The compiler from analyzed functions to VM instructions, for the        *)
(* statements of Ast: compileFn, compileBlock, compileStmt, the try, match,*)
(* if and call expressions, then relocateLabels and renameVariables.       *)
(*                                                                         *)
(* A compilation threads a record c: the code so far, the visible          *)
(* variables (env, what the scope stack resolves each name to), the count  *)
(* that sizes the stack frame, a counter for fresh names, and the labels   *)
(* that break, continue and return jump to.                                *)
(***************************************************************************)
EXTENDS Ast, Instructions, SequencesExt

Insert(c, is) == [c EXCEPT !.code = @ \o is]

\* A new slot for name x in the current scope; the frame grows by one.
MangleVar(c, x) ==
  [c EXCEPT !.env = [y \in DOMAIN c.env \cup {x} |->
                       IF y = x THEN c.fresh ELSE c.env[y]],
            !.vars = @ + 1,
            !.fresh = @ + 1]

Fresh(c, n) == [c EXCEPT !.fresh = @ + n]
LeaveScope(c, outer) == [c EXCEPT !.env = outer.env]
LeaveLoop(c, outer) == [c EXCEPT !.brk = outer.brk, !.cont = outer.cont]

RECURSIVE CompileBlock(_, _), CompileStmt(_, _)

CompileBlock(block, c) ==
  IF block = <<>> THEN c
  ELSE CompileBlock(Tail(block), CompileStmt(Head(block), c))

ScopedBlock(block, c) == LeaveScope(CompileBlock(block, c), c)

CompileLet(s, c) ==
  LET bound == MangleVar(Insert(c, <<ValueInst(Str(s.v))>>), s.x)
  IN  [Insert(bound, <<IntInst("setvar", bound.env[s.x])>>) EXCEPT !.vars = @ + 1]

CompileLoop(s, c) ==
  LET head == c.fresh
      after == c.fresh + 1
      inside == [Insert(Fresh(c, 2), <<IntInst("label", head)>>)
                   EXCEPT !.brk = after, !.cont = head]
      body == ScopedBlock(s.body, inside)
  IN  LeaveLoop(Insert(body, <<IntInst("jump", head), IntInst("label", after)>>), c)

\* Mutated form of CompileFor: continue leaves the loop.
CompileForContinues(s, c) ==
  LET head == c.fresh
      after == c.fresh + 2
      iter == MangleVar(Insert(Fresh(c, 3), <<ValueInst(Iter(LoopItems))>>), "$iter_" \o s.x)
      iterSlot == iter.env["$iter_" \o s.x]
      ident == MangleVar(Insert(iter, <<IntInst("setvar", iterSlot)>>), s.x)
      inside == [Insert(ident, <<IntInst("label", head),
                                 IntInst("iterate", iterSlot),
                                 IntInst("setvar", ident.env[s.x]),
                                 IntInst("jumpiffalse", after)>>)
                   EXCEPT !.brk = after, !.cont = after]
      body == CompileBlock(s.body, inside)
      done == Insert(body, <<IntInst("jump", head), IntInst("label", after)>>)
  IN  LeaveScope(LeaveLoop(done, c), c)

\* The hidden iterator and the induction variable live in a scope of their own.
CompileFor(s, c) ==
  LET head == c.fresh
      update == c.fresh + 1
      after == c.fresh + 2
      iter == MangleVar(Insert(Fresh(c, 3), <<ValueInst(Iter(LoopItems))>>), "$iter_" \o s.x)
      iterSlot == iter.env["$iter_" \o s.x]
      ident == MangleVar(Insert(iter, <<IntInst("setvar", iterSlot)>>), s.x)
      inside == [Insert(ident, <<IntInst("label", head),
                                 IntInst("iterate", iterSlot),
                                 IntInst("setvar", ident.env[s.x]),
                                 IntInst("jumpiffalse", after)>>)
                   EXCEPT !.brk = after, !.cont = update]
      body == CompileBlock(s.body, inside)
      done == Insert(body, <<IntInst("label", update), IntInst("jump", head),
                             IntInst("label", after)>>)
  IN  LeaveScope(LeaveLoop(done, c), c)

\* Mutated form of CompileIf: the comparison leaves the compared value behind.
CompileIfPopOnce(s, c) ==
  LET after == c.fresh
      else == c.fresh + 1
      then == ScopedBlock(s.body,
                Insert(Fresh(c, 2), <<IntInst("getvar", c.env[s.x]), ValueInst(Str(s.v)),
                                      Prim("eqpoponce"), IntInst("jumpiffalse", else)>>))
      other == ScopedBlock(s.other,
                 Insert(then, <<IntInst("jump", after), IntInst("label", else)>>))
  IN  Insert(other, <<IntInst("label", after)>>)

CompileIf(s, c) ==
  LET after == c.fresh
      else == c.fresh + 1
      then == ScopedBlock(s.body,
                Insert(Fresh(c, 2), <<IntInst("getvar", c.env[s.x]), ValueInst(Str(s.v)),
                                      Prim("eq"), IntInst("jumpiffalse", else)>>))
      other == ScopedBlock(s.other,
                 Insert(then, <<IntInst("jump", after), IntInst("label", else)>>))
  IN  Insert(other, <<IntInst("label", after)>>)

\* The control value is compared with eqpoponce and stays on the stack; only
\* the arm drops it, the default branch does not.
CompileMatch(s, c) ==
  LET after == c.fresh
      case == c.fresh + 1
      default == c.fresh + 2
      arm == ScopedBlock(s.body,
               Insert(Fresh(c, 3),
                 <<IntInst("getvar", c.env[s.x]), ValueInst(Str(s.v)), Prim("eqpoponce"),
                   Prim("not"), IntInst("jumpiffalse", case),
                   IntInst("jump", default),
                   IntInst("label", case), Prim("drop")>>))
      other == ScopedBlock(s.other,
                 Insert(arm, <<IntInst("jump", after), IntInst("label", default)>>))
  IN  Insert(other, <<IntInst("jump", after), IntInst("label", after)>>)

\* Mutated form of CompileTry: the label stays when the block ends well.
CompileTryKeepsLabel(s, c) ==
  LET exception == c.fresh
      after == c.fresh + 1
      block == ScopedBlock(s.body,
                 Insert(Fresh(c, 2), <<Inst("settry", exception, c.fn, Nil)>>))
      bound == MangleVar(Insert(block, <<IntInst("jump", after)>>), s.x)
      handler == CompileBlock(s.other,
                   Insert(bound, <<IntInst("label", exception),
                                   IntInst("setvar", bound.env[s.x]),
                                   Prim("poptry")>>))
  IN  Insert(LeaveScope(handler, bound), <<IntInst("label", after)>>)

\* The catch variable is mangled in the scope around the try expression, before
\* the scope of the catch block is pushed.
CompileTry(s, c) ==
  LET exception == c.fresh
      after == c.fresh + 1
      block == ScopedBlock(s.body,
                 Insert(Fresh(c, 2), <<Inst("settry", exception, c.fn, Nil)>>))
      bound == MangleVar(Insert(block, <<Prim("poptry"), IntInst("jump", after)>>), s.x)
      handler == CompileBlock(s.other,
                   Insert(bound, <<IntInst("label", exception),
                                   IntInst("setvar", bound.env[s.x]),
                                   Prim("poptry")>>))
  IN  Insert(LeaveScope(handler, bound), <<IntInst("label", after)>>)

\* throw is an expression of type never, whose value the statement drops.
CompileStmt(s, c) ==
  CASE s.k = "let" -> CompileLet(s, c)
    [] s.k = "assign" -> Insert(c, <<ValueInst(Str(s.v)), IntInst("setvar", c.env[s.x])>>)
    [] s.k = "print" -> Insert(c, <<IntInst("getvar", c.env[s.x]), Prim("emit")>>)
    [] s.k = "throw" -> Insert(c, <<ValueInst(Str(s.v)), Prim("throw"), Prim("drop")>>)
    [] s.k = "call" -> Insert(c, <<FnInst("call", s.x)>>)
    [] s.k = "return" -> Insert(c, <<IntInst("jump", c.cleanup)>>)
    [] s.k = "break" -> Insert(c, <<IntInst("jump", c.brk)>>)
    [] s.k = "continue" -> Insert(c, <<IntInst("jump", c.cont)>>)
    [] s.k = "loop" -> CompileLoop(s, c)
    [] s.k = "for" -> CompileFor(s, c)
    [] s.k = "if" -> CompileIf(s, c)
    [] s.k = "match" -> CompileMatch(s, c)
    [] s.k = "try" -> CompileTry(s, c)

\* Mutated form of CompileFn: return jumps past the instruction that gives the
\* memory back.
CompileFnLeaks(fn, block) ==
  LET start == [code |-> <<IntInst("addmp", 0)>>, fn |-> fn, env |-> <<>>,
                vars |-> 0, fresh |-> 1, cleanup |-> 0, brk |-> 0, cont |-> 0]
      body == CompileBlock(block, start)
      done == Insert(body, <<IntInst("addmp", -body.vars),
                             IntInst("label", start.cleanup), Prim("return")>>)
  IN  [done.code EXCEPT ![1] = IntInst("addmp", body.vars)]

CompileFn(fn, block) ==
  LET start == [code |-> <<IntInst("addmp", 0)>>, fn |-> fn, env |-> <<>>,
                vars |-> 0, fresh |-> 1, cleanup |-> 0, brk |-> 0, cont |-> 0]
      body == CompileBlock(block, start)
      done == Insert(body, <<IntInst("label", start.cleanup),
                             IntInst("addmp", -body.vars), Prim("return")>>)
  IN  [done.code EXCEPT ![1] = IntInst("addmp", body.vars)]

-----------------------------------------------------------------------------

MainFunctionIdent == "main"
InitFunctionIdent == "@init"
OtherInit == "@init_lib"

\* Mutated form of CompileInit: the init functions of the other modules are not
\* called.
CompileInitAlone(fn, globals, source) ==
  LET sets == FoldLeft(LAMBDA code, s :
                         code \o <<ValueInst(Str(s.v)), FnInst("setglob", s.x)>>,
                       <<>>, globals)
  IN  IF fn = InitFunctionIdent THEN sets \o <<Prim("return")>> ELSE sets

\* The init function of a module sets its globals.  Only the one of the entry
\* module, which then calls the others, ends with a return.
CompileInit(fn, globals, source) ==
  LET sets == FoldLeft(LAMBDA code, s :
                         code \o <<ValueInst(Str(s.v)), FnInst("setglob", s.x)>>,
                       <<>>, globals)
      calls == IF OtherInit \in DOMAIN source THEN <<FnInst("call", OtherInit)>> ELSE <<>>
  IN  IF fn = InitFunctionIdent THEN sets \o calls \o <<Prim("return")>> ELSE sets

-----------------------------------------------------------------------------

IsLabel(i) == i.op = "label"

\* Labels take no room: a jump goes to the number of instructions before its label.
RelocateLabels(code) ==
  LET At(l) == CHOOSE k \in 1..Len(code) : IsLabel(code[k]) /\ code[k].n = l
      Index(l) == Cardinality({k \in 1..(At(l) - 1) : ~IsLabel(code[k])})
      Relocated(i) ==
        IF i.op \in {"jump", "jumpiffalse", "settry"}
        THEN [i EXCEPT !.n = Index(i.n)] ELSE i
      fnOut == SelectSeq(code, LAMBDA i : ~IsLabel(i))
  IN  [k \in 1..Len(fnOut) |-> Relocated(fnOut[k])]

UsesVar(i) == i.op \in {"setvar", "getvar", "iterate"}

\* The slot of a variable is the number of variables used before its first use.
RenameVariables(code) ==
  LET FirstUse(x) ==
        CHOOSE k \in 1..Len(code) :
          /\ UsesVar(code[k]) /\ code[k].n = x
          /\ \A j \in 1..(k - 1) : ~(UsesVar(code[j]) /\ code[j].n = x)
      Slot(x) ==
        Cardinality({code[j].n : j \in {j \in 1..(FirstUse(x) - 1) : UsesVar(code[j])}})
  IN  [k \in DOMAIN code |->
         IF UsesVar(code[k]) THEN [code[k] EXCEPT !.n = Slot(@)] ELSE code[k]]

CompileFunction(fn, source) ==
  IF fn \in {InitFunctionIdent, OtherInit} THEN CompileInit(fn, source[fn], source)
  ELSE RenameVariables(RelocateLabels(CompileFn(fn, source[fn])))

Compile(source) == [fn \in DOMAIN source |-> CompileFunction(fn, source)]
=============================================================================
