--------------------------- MODULE CodeDiscipline ---------------------------
(***************************************************************************)
(* What the registers of a core have to do with its call stack, and the    *)
(* discipline under which byte code keeps them that way.  A core checks    *)
(* nothing of it: the compiler must emit such code.                        *)
(***************************************************************************)
EXTENDS CoreMachine

\* The memory a frame holds: its first instruction takes it, the last but one
\* gives it back.
HoldsAt(code, ip) == IF 1 <= ip /\ ip <= Len(code) - 2 THEN code[1].n ELSE 0
Holds(frame) == HoldsAt(program[frame.fn], frame.ip)

\* The total of a sequence of natural numbers: the pairs of an index and a number
\* up to the one that is there.
Total(sizes) == Cardinality(UNION {{k} \X (1..sizes[k]) : k \in DOMAIN sizes})

\* The memory pointer is the end of the innermost frame ("Points to the start of
\* the current stackframe"): every way out of a frame, thrown or returned, gives
\* its slots back.
MpMatchesFrames ==
  status # "outofmemory" => mp = Total([k \in DOMAIN callStack |-> Holds(callStack[k])])

\* A label on the catch stack belongs to a function that is still running, so a
\* throw never enters the catch block of a try that is over.
CatchLabelsLive ==
  \A i \in DOMAIN catchLabels : \E k \in DOMAIN callStack :
    callStack[k].fn = catchLabels[i].fn

\* Every operand is consumed by the statement that pushed it.
OperandsDropped == callStack = <<>> => stack = <<>>

-----------------------------------------------------------------------------
(* The discipline.  A certificate gives for each instruction that can be   *)
(* reached what the frame of its function has at that point: the memory it *)
(* holds, how many operands of its own are on the stack, and the addresses *)
(* of its catch blocks on the stack of labels.  Of some functions it says  *)
(* that they are quiet: nothing is thrown out of them.                     *)

Clean == [held |-> 0, operands |-> 0, labels |-> <<>>]

\* The operands that an instruction needs, and by how many it makes the stack grow.
NeededBy(op) ==
  CASE op \in {"eq", "eqpoponce"} -> 2
    [] op \in {"drop", "setvar", "setglob", "emit", "not", "jumpiffalse", "throw"} -> 1
    [] OTHER -> 0

Effect(op) ==
  CASE op = "iterate" -> 2
    [] op \in {"push", "getvar"} -> 1
    [] op \in {"drop", "setvar", "setglob", "emit", "eq", "jumpiffalse"} -> -1
    [] OTHER -> 0

\* What a frame has after instruction i.
After(i, point) ==
  [held |-> point.held + (IF i.op = "addmp" THEN i.n ELSE 0),
   operands |-> point.operands + Effect(i.op),
   labels |-> CASE i.op = "settry" -> Append(point.labels, i.n)
                [] i.op = "poptry" -> Front(point.labels)
                [] OTHER -> point.labels]

\* Where control goes in the frame; a throw goes to the innermost catch block.
Successors(i, ip, point) ==
  CASE i.op = "jump" -> {i.n}
    [] i.op = "jumpiffalse" -> {i.n, ip + 1}
    [] i.op = "throw" -> IF point.labels = <<>> THEN {} ELSE {Last(point.labels)}
    [] i.op = "return" -> {}
    [] OTHER -> {ip + 1}

\* The rules for instruction i at a point of function fn.
Obeys(p, cert, fn, ip, i) ==
  LET point == cert.at[fn][ip]
  IN  /\ point.operands >= NeededBy(i.op)
      /\ i.op \in {"setvar", "getvar", "iterate"} => i.n \in 0..(point.held - 1)
      /\ i.op = "settry" => i.fn = fn
      /\ i.op = "poptry" => point.labels # <<>>
      /\ i.op = "return" => point = Clean
      /\ i.op = "call" =>
           /\ i.fn \in DOMAIN p
           /\ point.labels # <<>> \/ fn \in cert.quiet => i.fn \in cert.quiet
      /\ i.op = "throw" /\ point.labels = <<>> => fn \notin cert.quiet
      /\ \A to \in Successors(i, ip, point) :
           to \in DOMAIN cert.at[fn] /\ cert.at[fn][to] = After(i, point)

Disciplined(p, cert) ==
  \A fn \in DOMAIN p :
    /\ 0 \in DOMAIN cert.at[fn] /\ cert.at[fn][0] = Clean
    /\ \A ip \in DOMAIN cert.at[fn] :
         /\ ip \in 0..Len(p[fn])
         /\ cert.at[fn][ip] \in [held : Nat, operands : Nat, labels : Seq(Nat)]
         /\ cert.at[fn][ip].held = HoldsAt(p[fn], ip)
         /\ IF ip = Len(p[fn]) THEN cert.at[fn][ip] = Clean
            ELSE Obeys(p, cert, fn, ip, p[fn][ip + 1])

-----------------------------------------------------------------------------
(* What else such code can rely on.                                        *)

\* No instruction finds too few operands, no label to pop, no memory where its
\* variable should be, or no frame to go on in: of the panics of Go only those are
\* left that meet a value of the wrong kind.
OperandsAtHand ==
  InVCycle /\ HasCode /\ Frame.ip < Len(Code) =>
    /\ Needs(NeededBy(Instr.op))
    /\ Instr.op = "poptry" => catchLabels # <<>>
    /\ Instr.op \in {"setvar", "getvar", "iterate"} => Absolute \in DOMAIN memory
    /\ Instr.op = "throw" /\ catchLabels # <<>> => Frame.fn = Last(catchLabels).fn

\* No step changes a variable of a function that waits for a call.
CallersUntouched ==
  \A i \in 0..Total([k \in 1..(Len(callStack) - 1) |-> Holds(callStack[k])]) :
    memory'[i] = memory[i]
=============================================================================
