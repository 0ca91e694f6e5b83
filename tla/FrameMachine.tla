---------------------------- MODULE FrameMachine ----------------------------
(***************************************************************************)
(* What the code of a function may rely on: every call has variables,      *)
(* operands and catch blocks of its own, which are gone when it ends, and  *)
(* which no other call can see.  There is no memory pointer, no shared     *)
(* memory, no common stack of operands or of catch labels, and no          *)
(* instruction ever lacks an operand or a variable.                        *)
(***************************************************************************)
EXTENDS Instructions, SequencesExt

VARIABLES
  program,
  frames,   \* the calls that have not ended, the innermost last
  globals,
  status,   \* "running", or how the core has stopped
  out       \* what has been printed

vars == <<program, frames, globals, status, out>>

\* A call that begins.  `slots` are its variables, `handlers` its catch blocks.
Activation(fn) ==
  [fn |-> fn, ip |-> 0, slots |-> <<>>, operands |-> <<>>, handlers |-> <<>>]

Me == Last(frames)
Code == program[Me.fn]
Instr == Code[Me.ip + 1]
Operand(k) == Me.operands[Len(Me.operands) - k]

Init ==
  /\ \E fn \in DOMAIN program : frames = <<Activation(fn)>>
  /\ globals = <<>>
  /\ status = "running"
  /\ out = <<>>

-----------------------------------------------------------------------------

Active == status = "running" /\ frames # <<>> /\ UNCHANGED program

Executes(op) == Active /\ Me.ip < Len(Code) /\ Instr.op = op

Becomes(frame) == frames' = [frames EXCEPT ![Len(frames)] = frame]

\* The call pops n operands, pushes others and goes on.
Replaced(n, pushed) ==
  [Me EXCEPT !.ip = @ + 1, !.operands = SubSeq(@, 1, Len(@) - n) \o pushed]

Replaces(n, pushed) ==
  /\ Len(Me.operands) >= n
  /\ Becomes(Replaced(n, pushed))

\* Variables are numbered from the last one that was taken.  A new one has any value.
Shifted(n) == {s \in {d + n : d \in DOMAIN Me.slots} \cup 0..(n - 1) : s >= 0}

Resize ==
  /\ Executes("addmp")
  /\ LET slots == frames'[Len(frames)].slots
     IN  /\ slots \in [Shifted(Instr.n) -> Values]
         /\ \A s \in Shifted(Instr.n) :
              s - Instr.n \in DOMAIN Me.slots => slots[s] = Me.slots[s - Instr.n]
         /\ Becomes([Me EXCEPT !.ip = @ + 1, !.slots = slots])
  /\ UNCHANGED <<globals, status, out>>

Push == Executes("push") /\ Replaces(0, <<Instr.v>>) /\ UNCHANGED <<globals, status, out>>

Drop == Executes("drop") /\ Replaces(1, <<>>) /\ UNCHANGED <<globals, status, out>>

GetVar ==
  /\ Executes("getvar")
  /\ Instr.n \in DOMAIN Me.slots
  /\ Replaces(0, <<Me.slots[Instr.n]>>)
  /\ UNCHANGED <<globals, status, out>>

SetVar ==
  /\ Executes("setvar")
  /\ Instr.n \in DOMAIN Me.slots
  /\ Len(Me.operands) >= 1
  /\ Becomes([Replaced(1, <<>>) EXCEPT !.slots[Instr.n] = Operand(0)])
  /\ UNCHANGED <<globals, status, out>>

SetGlob ==
  /\ Executes("setglob")
  /\ Replaces(1, <<>>)
  /\ globals' = [x \in DOMAIN globals \cup {Instr.fn} |->
                   IF x = Instr.fn THEN Operand(0) ELSE globals[x]]
  /\ UNCHANGED <<status, out>>

Emit ==
  /\ Executes("emit")
  /\ Replaces(1, <<>>)
  /\ Operand(0).kind # "nil"
  /\ out' = Append(out, Operand(0).val)
  /\ UNCHANGED <<globals, status>>

IteratorAdvance ==
  /\ Executes("iterate")
  /\ Instr.n \in DOMAIN Me.slots
  /\ Me.slots[Instr.n].kind = "iter"
  /\ LET left == Me.slots[Instr.n].left
     IN  Becomes([Replaced(0, <<Bool(left > 0), IF left > 0 THEN Str("item") ELSE Nil>>)
                    EXCEPT !.slots[Instr.n].left = IF left > 0 THEN left - 1 ELSE 0])
  /\ UNCHANGED <<globals, status, out>>

Eq ==
  /\ Executes("eq")
  /\ Replaces(2, <<Bool(Operand(0) = Operand(1))>>)
  /\ UNCHANGED <<globals, status, out>>

EqPopOnce ==
  /\ Executes("eqpoponce")
  /\ Len(Me.operands) >= 2
  /\ Replaces(1, <<Bool(Operand(0) = Operand(1))>>)
  /\ UNCHANGED <<globals, status, out>>

Not ==
  /\ Executes("not")
  /\ Replaces(1, <<Bool(Operand(0).val = "false")>>)
  /\ Operand(0).kind = "bool"
  /\ UNCHANGED <<globals, status, out>>

Jump ==
  /\ Executes("jump")
  /\ Becomes([Me EXCEPT !.ip = Instr.n])
  /\ UNCHANGED <<globals, status, out>>

JumpIfFalse ==
  /\ Executes("jumpiffalse")
  /\ Len(Me.operands) >= 1
  /\ Operand(0).kind = "bool"
  /\ Becomes(IF Operand(0).val = "true" THEN Replaced(1, <<>>)
             ELSE [Replaced(1, <<>>) EXCEPT !.ip = Instr.n])
  /\ UNCHANGED <<globals, status, out>>

Call ==
  /\ Executes("call")
  /\ Instr.fn \in DOMAIN program
  /\ frames' = Append([frames EXCEPT ![Len(frames)].ip = @ + 1], Activation(Instr.fn))
  /\ UNCHANGED <<globals, status, out>>

\* A call that ends has nothing left.
Return ==
  /\ Executes("return") \/ (Active /\ Me.ip = Len(Code))
  /\ Me.slots = <<>> /\ Me.operands = <<>> /\ Me.handlers = <<>>
  /\ frames' = Front(frames)
  /\ UNCHANGED <<globals, status, out>>

SetTryLabel ==
  /\ Executes("settry")
  /\ Becomes([Me EXCEPT !.ip = @ + 1, !.handlers = Append(@, Instr.n)])
  /\ UNCHANGED <<globals, status, out>>

PopTryLabel ==
  /\ Executes("poptry")
  /\ Me.handlers # <<>>
  /\ Becomes([Me EXCEPT !.ip = @ + 1, !.handlers = Front(@)])
  /\ UNCHANGED <<globals, status, out>>

\* An exception is caught by the innermost catch block of the call that throws it,
\* which gets the value; if that has none, then by nobody.
Throw ==
  /\ Executes("throw")
  /\ Len(Me.operands) >= 1
  /\ Me.handlers # <<>>
  /\ Becomes([Me EXCEPT !.ip = Last(Me.handlers)])
  /\ UNCHANGED <<globals, status, out>>

Uncaught ==
  /\ Executes("throw")
  /\ Len(Me.operands) >= 1
  /\ \A k \in DOMAIN frames : frames[k].handlers = <<>>
  /\ Becomes([Me EXCEPT !.operands = Front(@)])
  /\ status' = "uncaught"
  /\ UNCHANGED <<globals, out>>

-----------------------------------------------------------------------------

Stops(s) == status' = s /\ UNCHANGED <<frames, globals, out>>

\* The host cancels, or a limit is exceeded.
Interrupted ==
  /\ Active
  /\ \E s \in {"terminated", "stackoverflow", "outofmemory"} : Stops(s)

Finish ==
  /\ status = "running"
  /\ frames = <<>>
  /\ UNCHANGED program
  /\ Stops("nil")

\* A value of a kind that the instruction cannot deal with.
IllTyped ==
  /\ Me.ip < Len(Code)
  /\ \/ Instr.op = "emit" /\ Operand(0).kind = "nil"
     \/ Instr.op \in {"not", "jumpiffalse"} /\ Operand(0).kind # "bool"
     \/ Instr.op = "iterate" /\ Me.slots[Instr.n].kind # "iter"

\* The other panics: of a function without code, and of the report that the operands of
\* the first call are too many.
Panic ==
  /\ Active
  /\ IllTyped \/ Code = <<>> \/ Len(frames) = 1
  /\ Stops("panic")

Next ==
  \/ Resize \/ Push \/ Drop \/ GetVar \/ SetVar \/ SetGlob \/ Emit \/ IteratorAdvance
  \/ Eq \/ EqPopOnce \/ Not \/ Jump \/ JumpIfFalse \/ Call \/ Return
  \/ SetTryLabel \/ PopTryLabel \/ Throw \/ Uncaught
  \/ Interrupted \/ Finish \/ Panic

Spec == Init /\ [][Next]_vars
=============================================================================
