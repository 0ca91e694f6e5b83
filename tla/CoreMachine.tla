---------------------------- MODULE CoreMachine ----------------------------
(***************************************************************************)
(* One core of the bytecode VM: Core.Run with its vcycles, limits and      *)
(* exception handling, and the instructions of runInstruction that touch   *)
(* control: calls, jumps, memory pointer, variables, try labels, throw.    *)
(*                                                                         *)
(* A program maps function names to instruction sequences.  Instruction    *)
(* pointers count from 0 as in the code; At(fn, ip) adds the 1 of TLA+.    *)
(* Arithmetic, members, casts and host calls are left out; `emit` stands   *)
(* for a call of the builtin println, `throw` for the instruction and for  *)
(* any other instruction that raises a normal exception.                   *)
(***************************************************************************)
EXTENDS Instructions, SequencesExt

CONSTANTS
  Programs,      \* the programs to run
  Entries,       \* the functions a core may be spawned for
  VCycle,        \* NUM_INSTRUCTIONS_EXECUTE_PER_VCYCLE
  CallStackMax,  \* CoreLimits
  StackMax,
  MemoryMax

ASSUME LimitsAssumption ==
  /\ VCycle \in Nat \ {0}
  /\ CallStackMax \in Nat
  /\ StackMax \in Nat
  /\ MemoryMax \in Nat \ {0}

ASSUME ProgramsAssumption ==
  /\ Entries \subseteq Names
  /\ \A p \in Programs : \A fn \in DOMAIN p :
       /\ p[fn] \in Seq(InstructionSet)
       /\ \A k \in DOMAIN p[fn] :
            p[fn][k].op \in {"jump", "jumpiffalse", "settry"} => p[fn][k].n \in Nat

VARIABLES
  program,      \* Core.Program
  callStack,    \* frames [fn, ip], the innermost last
  stack,        \* operands
  memory,       \* Core.Memory
  mp,           \* MemoryPointer
  catchLabels,  \* ExceptionCatchLabels
  executed,     \* instructions executed in this vcycle
  globals,      \* VM.globals, by name
  cancelled,    \* is the context done?
  status,       \* "running", what Run sent on SignalHandle, or "panic"
  out           \* what the program printed

control == <<callStack, executed>>
data == <<stack, memory, mp, globals, out>>
vars == <<program, control, data, catchLabels, cancelled, status>>

Statuses == {"running", "nil", "uncaught", "stackoverflow", "outofmemory",
             "terminated", "panic"}

Top(n) == stack[Len(stack) - n]
Pop(n) == SubSeq(stack, 1, Len(stack) - n)

Frame == Last(callStack)
Code == program[Frame.fn]
Instr == Code[Frame.ip + 1]
HasCode == Frame.fn \in DOMAIN program /\ Code # <<>>

InitCore ==
  /\ \E entry \in Entries \cap DOMAIN program : callStack = <<[fn |-> entry, ip |-> 0]>>
  /\ stack = <<>>
  /\ memory = [i \in 0..(MemoryMax - 1) |-> Nil]
  /\ mp = 0
  /\ catchLabels = <<>>
  /\ globals = <<>>
  /\ executed = VCycle
  /\ cancelled = FALSE
  /\ status = "running"
  /\ out = <<>>

Init == program \in Programs /\ InitCore

-----------------------------------------------------------------------------
(* The outer loop of Run: what is checked between two vcycles.             *)

Stop(s) ==
  /\ status' = s
  /\ UNCHANGED <<program, control, data, catchLabels, cancelled>>

AtHead == status = "running" /\ callStack # <<>> /\ executed = VCycle

\* Both interrupts name the current instruction: SourceMap panics without code.
NoticeCancel ==
  /\ AtHead
  /\ cancelled
  /\ Stop(IF HasCode THEN "terminated" ELSE "panic")

\* The message names the caller of the current frame, which the first frame of
\* a core does not have: CallStack[len-2] is out of range.
StackOverflow ==
  /\ AtHead
  /\ ~cancelled
  /\ Len(stack) > StackMax
  /\ Stop(IF Len(callStack) = 1 THEN "panic" ELSE "stackoverflow")

\* Mutated form of CallStackOverflow: off by one, so that it and BeginVCycle miss
\* a case.
CallStackOverflowLate ==
  /\ AtHead
  /\ ~cancelled
  /\ Len(stack) <= StackMax
  /\ Len(callStack) > CallStackMax + 1
  /\ Stop(IF HasCode THEN "stackoverflow" ELSE "panic")

CallStackOverflow ==
  /\ AtHead
  /\ ~cancelled
  /\ Len(stack) <= StackMax
  /\ Len(callStack) > CallStackMax
  /\ Stop(IF HasCode THEN "stackoverflow" ELSE "panic")

\* Mutated forms of BeginVCycle: the call stack is not checked; neither is the
\* context.
BeginVCycleUnlimited ==
  /\ AtHead
  /\ ~cancelled
  /\ Len(stack) <= StackMax
  /\ executed' = 0
  /\ UNCHANGED <<program, callStack, data, catchLabels, cancelled, status>>

BeginVCycleCancelled ==
  /\ AtHead
  /\ Len(stack) <= StackMax
  /\ Len(callStack) <= CallStackMax
  /\ executed' = 0
  /\ UNCHANGED <<program, callStack, data, catchLabels, cancelled, status>>

BeginVCycle ==
  /\ AtHead
  /\ ~cancelled
  /\ Len(stack) <= StackMax
  /\ Len(callStack) <= CallStackMax
  /\ executed' = 0
  /\ UNCHANGED <<program, callStack, data, catchLabels, cancelled, status>>

\* Run leaves its loops and sends nil.
Finish ==
  /\ status = "running"
  /\ callStack = <<>>
  /\ Stop("nil")

-----------------------------------------------------------------------------
(* The inner loop of Run.                                                  *)

InVCycle == status = "running" /\ callStack # <<>> /\ executed < VCycle

MissingRoutine ==
  /\ InVCycle
  /\ ~HasCode
  /\ Stop("panic")

\* The frame has run past its code: pop it and go to the next vcycle.
FallOff ==
  /\ InVCycle
  /\ HasCode
  /\ Frame.ip >= Len(Code)
  /\ callStack' = Front(callStack)
  /\ executed' = VCycle
  /\ UNCHANGED <<program, data, catchLabels, cancelled, status>>

Executes(op) ==
  /\ InVCycle
  /\ HasCode
  /\ Frame.ip < Len(Code)
  /\ Instr.op = op
  /\ UNCHANGED <<program, cancelled>>

Advanced == [callStack EXCEPT ![Len(callStack)].ip = @ + 1]

\* The rest of an instruction that completes: where control goes next.
Goto(frames) ==
  /\ callStack' = frames
  /\ executed' = executed + 1
  /\ UNCHANGED status

\* An operand that is not there: Go panics on the slice bounds.
Panics ==
  /\ status' = "panic"
  /\ UNCHANGED <<control, data, catchLabels>>

Needs(n) == Len(stack) >= n

AddMempointer ==
  /\ Executes("addmp")
  /\ mp' = mp + Instr.n
  /\ UNCHANGED <<stack, memory, globals, out, catchLabels>>
  /\ IF mp + Instr.n >= MemoryMax
     THEN status' = "outofmemory" /\ UNCHANGED control
     ELSE Goto(Advanced)

Push ==
  /\ Executes("push")
  /\ stack' = Append(stack, Instr.v)
  /\ UNCHANGED <<memory, mp, globals, out, catchLabels>>
  /\ Goto(Advanced)

Drop ==
  /\ Executes("drop")
  /\ IF Needs(1)
     THEN /\ stack' = Pop(1)
          /\ UNCHANGED <<memory, mp, globals, out, catchLabels>>
          /\ Goto(Advanced)
     ELSE Panics

\* Mutated form of Absolute: the slots begin one below the memory pointer.
AbsoluteBelow == (mp - Instr.n) - 1

\* absolute(rel): slots count downwards from the memory pointer.
Absolute == mp - Instr.n

SetVar ==
  /\ Executes("setvar")
  /\ IF Needs(1) /\ Absolute \in DOMAIN memory
     THEN /\ memory' = [memory EXCEPT ![Absolute] = Top(0)]
          /\ stack' = Pop(1)
          /\ UNCHANGED <<mp, globals, out, catchLabels>>
          /\ Goto(Advanced)
     ELSE Panics

GetVar ==
  /\ Executes("getvar")
  /\ IF Absolute \in DOMAIN memory
     THEN /\ stack' = Append(stack, memory[Absolute])
          /\ UNCHANGED <<memory, mp, globals, out, catchLabels>>
          /\ Goto(Advanced)
     ELSE Panics

SetGlob ==
  /\ Executes("setglob")
  /\ IF Needs(1)
     THEN /\ globals' = [x \in DOMAIN globals \cup {Instr.fn} |->
                          IF x = Instr.fn THEN Top(0) ELSE globals[x]]
          /\ stack' = Pop(1)
          /\ UNCHANGED <<memory, mp, out, catchLabels>>
          /\ Goto(Advanced)
     ELSE Panics

\* Call of println: pops its argument; a nil argument is dereferenced.
Emit ==
  /\ Executes("emit")
  /\ IF Needs(1) /\ Top(0).kind # "nil"
     THEN /\ out' = Append(out, Top(0).val)
          /\ stack' = Pop(1)
          /\ UNCHANGED <<memory, mp, globals, catchLabels>>
          /\ Goto(Advanced)
     ELSE Panics

\* Pops an iterator, pushes whether it had a value, and the value.  Only the
\* hidden variable of its loop refers to an iterator, so advancing it is
\* advancing the content of that variable's memory cell.
IteratorAdvance ==
  /\ Executes("iterate")
  /\ IF Absolute \in DOMAIN memory /\ memory[Absolute].kind = "iter"
     THEN LET left == memory[Absolute].left
          IN  /\ memory' = [memory EXCEPT ![Absolute].left =
                              IF left > 0 THEN left - 1 ELSE 0]
              /\ stack' = stack \o
                          <<Bool(left > 0), IF left > 0 THEN Str("item") ELSE Nil>>
              /\ UNCHANGED <<mp, globals, out, catchLabels>>
              /\ Goto(Advanced)
     ELSE Panics

Eq ==
  /\ Executes("eq")
  /\ IF Needs(2)
     THEN /\ stack' = Append(Pop(2), Bool(Top(0) = Top(1)))
          /\ UNCHANGED <<memory, mp, globals, out, catchLabels>>
          /\ Goto(Advanced)
     ELSE Panics

\* Compares the popped operand with the one below, which stays.
EqPopOnce ==
  /\ Executes("eqpoponce")
  /\ IF Needs(2)
     THEN /\ stack' = Append(Pop(1), Bool(Top(0) = Top(1)))
          /\ UNCHANGED <<memory, mp, globals, out, catchLabels>>
          /\ Goto(Advanced)
     ELSE Panics

Not ==
  /\ Executes("not")
  /\ IF Needs(1) /\ Top(0).kind = "bool"
     THEN /\ stack' = Append(Pop(1), Bool(Top(0).val = "false"))
          /\ UNCHANGED <<memory, mp, globals, out, catchLabels>>
          /\ Goto(Advanced)
     ELSE Panics

CallImm ==
  /\ Executes("call")
  /\ UNCHANGED <<data, catchLabels>>
  /\ Goto(Append(Advanced, [fn |-> Instr.fn, ip |-> 0]))

Return ==
  /\ Executes("return")
  /\ UNCHANGED <<data, catchLabels>>
  /\ Goto(Front(callStack))

Jump ==
  /\ Executes("jump")
  /\ UNCHANGED <<data, catchLabels>>
  /\ Goto([callStack EXCEPT ![Len(callStack)].ip = Instr.n])

JumpIfFalse ==
  /\ Executes("jumpiffalse")
  /\ IF Needs(1) /\ Top(0).kind = "bool"
     THEN /\ stack' = Pop(1)
          /\ UNCHANGED <<memory, mp, globals, out, catchLabels>>
          /\ Goto(IF Top(0).val = "true" THEN Advanced
                  ELSE [callStack EXCEPT ![Len(callStack)].ip = Instr.n])
     ELSE Panics

SetTryLabel ==
  /\ Executes("settry")
  /\ catchLabels' = Append(catchLabels, [fn |-> Instr.fn, ip |-> Instr.n])
  /\ UNCHANGED data
  /\ Goto(Advanced)

PopTryLabel ==
  /\ Executes("poptry")
  /\ IF catchLabels # <<>>
     THEN /\ catchLabels' = Front(catchLabels)
          /\ UNCHANGED data
          /\ Goto(Advanced)
     ELSE Panics

\* Run's reaction to a normal exception.  The catch label stays on its stack
\* (the catch block pops it); at most one frame is popped; the memory pointer
\* and the operands below the thrown value stay as they are.
Unwound(label) ==
  IF Frame.fn # label.fn THEN Front(callStack) ELSE callStack

Throw ==
  /\ Executes("throw")
  /\ CASE ~Needs(1) -> Panics
       [] Needs(1) /\ catchLabels = <<>> ->
            /\ status' = "uncaught"
            /\ stack' = Pop(1)
            /\ UNCHANGED <<control, memory, mp, globals, out, catchLabels>>
       [] Needs(1) /\ catchLabels # <<>> /\ Unwound(Last(catchLabels)) = <<>> ->
            Panics
       [] OTHER ->
            LET frames == Unwound(Last(catchLabels))
            IN  /\ stack' = Append(Pop(1), Top(0))
                /\ UNCHANGED <<memory, mp, globals, out, catchLabels>>
                /\ Goto([frames EXCEPT ![Len(frames)] = Last(catchLabels)])

\* The host cancels the context at any moment.
Cancel ==
  /\ status = "running"
  /\ ~cancelled
  /\ cancelled' = TRUE
  /\ UNCHANGED <<program, control, data, catchLabels, status>>

-----------------------------------------------------------------------------

Instruction ==
  \/ AddMempointer \/ Push \/ Drop \/ SetVar \/ GetVar \/ SetGlob \/ Emit
  \/ IteratorAdvance \/ Eq \/ EqPopOnce \/ Not
  \/ CallImm \/ Return \/ Jump \/ JumpIfFalse
  \/ SetTryLabel \/ PopTryLabel \/ Throw

Boundary ==
  \/ NoticeCancel \/ StackOverflow \/ CallStackOverflow \/ BeginVCycle \/ Finish

Step == Boundary \/ MissingRoutine \/ FallOff \/ Instruction

Next == Step \/ Cancel

Spec == Init /\ [][Next]_vars

\* A core's goroutine runs as long as it can; nobody need cancel it.
FairSpec == Spec /\ WF_vars(Step)

-----------------------------------------------------------------------------
(* What every program is promised.                                         *)

\* Type invariant; executed counts at most one vcycle.
TypeOK ==
  /\ callStack \in Seq(Locations)
  /\ stack \in Seq(Values)
  /\ memory \in [0..(MemoryMax - 1) -> Values]
  /\ mp \in Int
  /\ catchLabels \in Seq(Locations)
  /\ executed \in 0..VCycle
  /\ \A x \in DOMAIN globals : globals[x] \in Values
  /\ cancelled \in BOOLEAN
  /\ status \in Statuses
  /\ out \in Seq(Texts)

\* The limits of CoreLimits are only checked between vcycles (call stack,
\* operands) or when a frame is made (memory), yet a running core never exceeds
\* them by more than one vcycle can add.
ResourcesBounded ==
  /\ Len(callStack) <= CallStackMax + executed
  /\ Len(stack) <= StackMax + 2 * executed
  /\ status # "outofmemory" => mp < MemoryMax

\* A cancelled core stops, whatever its program does: Run polls the context
\* after every vcycle.
CancelStops == cancelled ~> status # "running"
=============================================================================
