----------------------------- MODULE CoreFrames -----------------------------
(***************************************************************************)
(* CoreMachine implements FrameMachine if its code is disciplined: the one *)
(* memory, the stack of operands and the stack of catch labels hold the    *)
(* variables, operands and catch blocks of the calls one above the other.  *)
(***************************************************************************)
EXTENDS CodeDiscipline

VARIABLE certificate  \* what is known of the code; never changes

PointOf(frame) == certificate.at[frame.fn][frame.ip]

Certified == Disciplined(program, certificate) /\ [][UNCHANGED certificate]_certificate

\* Where the memory of the k-th call ends, and where its operands begin.
MemoryEnd(k) == Total([j \in 1..k |-> Holds(callStack[j])])
OperandsStart(k) == Total([j \in 1..(k - 1) |-> PointOf(callStack[j]).operands])

SlotsOf(k) == [n \in 0..(Holds(callStack[k]) - 1) |-> memory[MemoryEnd(k) - n]]

OperandsOf(k) ==
  SubSeq(stack, OperandsStart(k) + 1,
         IF k = Len(callStack) THEN Len(stack) ELSE OperandsStart(k + 1))

ActivationOf(k) ==
  [fn |-> callStack[k].fn, ip |-> callStack[k].ip, slots |-> SlotsOf(k),
   operands |-> OperandsOf(k), handlers |-> PointOf(callStack[k]).labels]

Activations == [k \in DOMAIN callStack |-> ActivationOf(k)]

Frames == INSTANCE FrameMachine WITH frames <- Activations

\* Whatever it calls or throws, a function finds its variables, operands and catch blocks
\* as if they were its own, although all of them are in places that all functions share
\* (Core.Memory, Core.Stack, Core.ExceptionCatchLabels).
ImplementsFrames == Frames!Spec
=============================================================================
