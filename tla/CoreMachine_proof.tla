-------------------------- MODULE CoreMachine_proof --------------------------
(***************************************************************************)
(* Proofs about CoreMachine for every program and every limit: the types,  *)
(* and that no resource outgrows its limit by more than one vcycle adds.   *)
(***************************************************************************)
EXTENDS CoreMachine, SequenceTheorems, TLAPS

TypeInv == TypeOK /\ program \in Programs

\* Cutting a sequence at its end.
LEMMA PrefixType ==
  ASSUME NEW S, NEW s \in Seq(S), NEW n \in 0..Len(s)
  PROVE  SubSeq(s, 1, Len(s) - n) \in Seq(S) /\ Len(SubSeq(s, 1, Len(s) - n)) = Len(s) - n
<1>1. Len(s) \in Nat /\ Len(s) - n \in Int
  BY LenProperties
<1>2. \A i \in 1..(Len(s) - n) : s[i] \in S
  BY <1>1, ElementOfSeq
<1> QED
  BY <1>1, <1>2, SubSeqProperties

\* The last element and the rest of a sequence that is not empty.
LEMMA FrontLastType ==
  ASSUME NEW S, NEW s \in Seq(S), s # <<>>
  PROVE  /\ Len(s) \in Nat \ {0}
         /\ Last(s) = s[Len(s)] /\ Last(s) \in S
         /\ Front(s) \in Seq(S) /\ Len(Front(s)) = Len(s) - 1
<1>1. Len(s) \in Nat \ {0}
  BY EmptySeq
<1>2. s[Len(s)] \in S
  BY <1>1, ElementOfSeq
<1>3. 1 \in 0..Len(s)
  BY <1>1
<1>4. SubSeq(s, 1, Len(s) - 1) \in Seq(S) /\ Len(SubSeq(s, 1, Len(s) - 1)) = Len(s) - 1
  BY <1>3, PrefixType
<1> QED
  BY <1>1, <1>2, <1>4 DEF Front, Last

\* The operands that Top and Pop find.
LEMMA OperandType ==
  ASSUME TypeInv, NEW n \in Nat, Needs(n)
  PROVE  /\ Len(stack) \in Nat
         /\ Pop(n) \in Seq(Values) /\ Len(Pop(n)) = Len(stack) - n
         /\ \A k \in 0..(n - 1) : Top(k) \in Values
<1>1. Len(stack) \in Nat /\ n \in 0..Len(stack)
  BY LenProperties DEF TypeInv, TypeOK, Needs
<1>2. \A k \in 0..(n - 1) : Top(k) \in Values
  BY <1>1, ElementOfSeq DEF TypeInv, TypeOK, Top
<1> QED
  BY <1>1, <1>2, PrefixType DEF TypeInv, TypeOK, Pop

\* The instruction that the innermost frame is at.
LEMMA FetchType ==
  ASSUME TypeInv, callStack # <<>>, HasCode, Frame.ip < Len(Code)
  PROVE  /\ Frame \in Locations
         /\ Instr \in InstructionSet
         /\ Instr.op \in {"jump", "jumpiffalse", "settry"} => Instr.n \in Nat
<1>1. Frame \in Locations
  BY FrontLastType DEF Frame, TypeInv, TypeOK
<1>2. Code \in Seq(InstructionSet)
  BY ProgramsAssumption DEF TypeInv, HasCode, Code
<1>3. Frame.ip + 1 \in 1..Len(Code)
  BY <1>1, <1>2, LenProperties DEF Locations
<1>4. Frame.ip + 1 \in DOMAIN Code
  BY <1>2, <1>3, LenProperties
<1> QED
  BY <1>1, <1>2, <1>3, <1>4, ElementOfSeq, ProgramsAssumption
  DEF TypeInv, HasCode, Code, Instr

-----------------------------------------------------------------------------
(* What an instruction does to the resources that have a limit.            *)

Halts == callStack' = callStack /\ executed' = executed /\ Len(stack') <= Len(stack)

Proceeds ==
  /\ executed' = executed + 1
  /\ Len(callStack') <= Len(callStack) + 1
  /\ Len(stack') <= Len(stack) + 2

Shape ==
  /\ Halts \/ Proceeds
  /\ \/ mp' = mp /\ (status = "running" => status' # "outofmemory")
     \/ mp' < MemoryMax
     \/ status' = "outofmemory"

\* The innermost frame replaced, advanced or made to jump.
LEMMA FrameType ==
  ASSUME TypeInv, callStack # <<>>, Frame \in Locations
  PROVE  /\ Advanced \in Seq(Locations) /\ Len(Advanced) = Len(callStack)
         /\ \A n \in Nat :
              /\ [callStack EXCEPT ![Len(callStack)].ip = n] \in Seq(Locations)
              /\ Len([callStack EXCEPT ![Len(callStack)].ip = n]) = Len(callStack)
<1>1. callStack \in Seq(Locations) /\ Len(callStack) \in 1..Len(callStack)
  BY FrontLastType DEF TypeInv, TypeOK
<1>2. Frame = callStack[Len(callStack)]
  BY <1>1, FrontLastType DEF Frame
<1>3. ASSUME NEW n \in Nat
      PROVE  /\ [callStack EXCEPT ![Len(callStack)].ip = n] \in Seq(Locations)
             /\ Len([callStack EXCEPT ![Len(callStack)].ip = n]) = Len(callStack)
  <2>1. [Frame EXCEPT !.ip = n] \in Locations
    BY DEF Locations
  <2>2. [callStack EXCEPT ![Len(callStack)].ip = n]
          = [callStack EXCEPT ![Len(callStack)] = [Frame EXCEPT !.ip = n]]
    BY <1>2
  <2> QED
    BY <1>1, <2>1, <2>2, ExceptSeq
<1>4. Frame.ip + 1 \in Nat
  BY DEF Locations
<1>5. Advanced = [callStack EXCEPT ![Len(callStack)].ip = Frame.ip + 1]
  BY <1>2 DEF Advanced
<1> QED
  BY <1>3, <1>4, <1>5

LEMMA PanicsShape ==
  ASSUME TypeInv, InVCycle, UNCHANGED <<program, cancelled>>, Panics
  PROVE  TypeOK' /\ Shape
<1>1. Len(stack) \in Nat
  BY LenProperties DEF TypeInv, TypeOK
<1> QED
  BY <1>1 DEF TypeInv, TypeOK, Panics, InVCycle, control, data, Shape, Halts, Statuses

\* What is left to show of an instruction that completes.
LEMMA GotoShape ==
  ASSUME TypeInv, InVCycle, UNCHANGED <<program, cancelled>>,
         NEW frames \in Seq(Locations), Len(frames) <= Len(callStack) + 1, Goto(frames),
         stack' \in Seq(Values), Len(stack') <= Len(stack) + 2,
         memory' \in [0..(MemoryMax - 1) -> Values],
         mp' \in Int, mp' = mp \/ mp' < MemoryMax,
         catchLabels' \in Seq(Locations),
         \A x \in DOMAIN globals' : globals'[x] \in Values,
         out' \in Seq(Texts)
  PROVE  TypeOK' /\ Shape
<1>1. executed' = executed + 1 /\ callStack' = frames /\ status' = status
  BY DEF Goto
<1>2. executed' \in 0..VCycle
  BY <1>1, LimitsAssumption DEF InVCycle, TypeInv, TypeOK
<1> QED
  BY <1>1, <1>2 DEF TypeInv, TypeOK, Shape, Proceeds, InVCycle

LEMMA BoolType == \A b \in BOOLEAN : Bool(b) \in Values
<1>1. ASSUME NEW b \in BOOLEAN
      PROVE  (IF b THEN "true" ELSE "false") \in Texts
  BY TextsAssumption
<1>2. "bool" \in Kinds
  BY DEF Kinds
<1> QED
  BY <1>1, <1>2 DEF Bool, Value, Values

LEMMA ItemType == Str("item") \in Values /\ Nil \in Values
<1>1. "item" \in Texts /\ "" \in Texts
  BY TextsAssumption
<1>2. \A k \in Kinds, t \in Texts : Value(k, t, 0) \in Values
  BY DEF Value, Values
<1>3. "str" \in Kinds /\ "nil" \in Kinds
  BY DEF Kinds
<1> QED
  BY <1>1, <1>2, <1>3 DEF Str, Nil

\* An instruction that changes nothing but the operands.
LEMMA OperandShape ==
  ASSUME TypeInv, InVCycle, UNCHANGED <<program, cancelled>>,
         Advanced \in Seq(Locations), Len(Advanced) = Len(callStack), Goto(Advanced),
         UNCHANGED <<memory, mp, globals, out, catchLabels>>,
         stack' \in Seq(Values), Len(stack') <= Len(stack) + 2
  PROVE  TypeOK' /\ Shape
<1>1. /\ Len(Advanced) <= Len(callStack) + 1
      /\ memory' \in [0..(MemoryMax - 1) -> Values]
      /\ mp' \in Int /\ mp' = mp
      /\ catchLabels' \in Seq(Locations)
      /\ out' \in Seq(Texts)
  BY LenProperties DEF TypeInv, TypeOK
<1>2. \A x \in DOMAIN globals' : globals'[x] \in Values
  BY DEF TypeInv, TypeOK
<1> QED
  BY <1>1, <1>2, GotoShape

\* The instructions that only move operands.
LEMMA DataShape ==
  ASSUME TypeInv,
         InVCycle, HasCode, Frame.ip < Len(Code), UNCHANGED <<program, cancelled>>,
         Push \/ Drop \/ GetVar \/ SetVar \/ SetGlob \/ Emit
           \/ IteratorAdvance \/ Eq \/ EqPopOnce \/ Not
  PROVE  TypeOK' /\ Shape
<1>1. Instr \in InstructionSet /\ Frame \in Locations /\ callStack # <<>>
  BY FetchType DEF InVCycle
<1>2. /\ Advanced \in Seq(Locations) /\ Len(Advanced) = Len(callStack)
      /\ Len(callStack) \in Nat /\ Len(stack) \in Nat
      /\ Len(Advanced) <= Len(callStack) + 1
  BY <1>1, FrameType, LenProperties DEF TypeInv, TypeOK
<1>3. Instr.v \in Values /\ Instr.n \in Int /\ Instr.fn \in Names
  BY <1>1 DEF InstructionSet
<1>4. /\ stack \in Seq(Values) /\ memory \in [0..(MemoryMax - 1) -> Values] /\ mp \in Int
      /\ catchLabels \in Seq(Locations) /\ out \in Seq(Texts)
      /\ \A x \in DOMAIN globals : globals[x] \in Values
  BY DEF TypeInv, TypeOK
<1>5. \A n \in {1, 2} : Needs(n) =>
        /\ Pop(n) \in Seq(Values) /\ Len(Pop(n)) = Len(stack) - n
        /\ Top(0) \in Values
  BY OperandType
<1>6. CASE Panics
  BY <1>6, PanicsShape
<1>7. CASE Push
  <2>1. stack' = Append(stack, Instr.v) /\ Goto(Advanced)
    BY <1>7 DEF Push
  <2>2. stack' \in Seq(Values) /\ Len(stack') <= Len(stack) + 2
    BY <1>2, <1>3, <1>4, <2>1
  <2> QED
    BY <1>2, <1>7, <2>1, <2>2, OperandShape DEF Push
<1>8. CASE Drop /\ Needs(1)
  <2>1. stack' \in Seq(Values) /\ Len(stack') <= Len(stack) + 2
    BY <1>2, <1>5, <1>8 DEF Drop
  <2> QED
    BY <1>2, <1>8, <2>1, OperandShape DEF Drop
<1>9. CASE GetVar /\ Absolute \in DOMAIN memory
  <2>1. memory[Absolute] \in Values
    BY <1>4, <1>9
  <2>2. stack' = Append(stack, memory[Absolute])
    BY <1>9 DEF GetVar
  <2>3. stack' \in Seq(Values) /\ Len(stack') <= Len(stack) + 2
    BY <1>2, <1>4, <2>1, <2>2
  <2> QED
    BY <1>2, <1>9, <2>3, OperandShape DEF GetVar
<1>10. CASE SetVar /\ Needs(1) /\ Absolute \in DOMAIN memory
  <2>1. stack' = Pop(1) /\ memory' = [memory EXCEPT ![Absolute] = Top(0)]
        /\ UNCHANGED <<mp, globals, out, catchLabels>> /\ Goto(Advanced)
    BY <1>10 DEF SetVar
  <2>2. memory' \in [0..(MemoryMax - 1) -> Values]
    BY <1>4, <1>5, <1>10, <2>1
  <2>3. stack' \in Seq(Values) /\ Len(stack') <= Len(stack) + 2
    BY <1>2, <1>5, <1>10, <2>1
  <2> QED
    BY <1>2, <1>4, <2>1, <2>2, <2>3, GotoShape
<1>11. CASE SetGlob /\ Needs(1)
  <2>1. /\ stack' = Pop(1)
        /\ globals' = [x \in DOMAIN globals \cup {Instr.fn} |->
                         IF x = Instr.fn THEN Top(0) ELSE globals[x]]
        /\ UNCHANGED <<memory, mp, out, catchLabels>> /\ Goto(Advanced)
    BY <1>11 DEF SetGlob
  <2>2. \A x \in DOMAIN globals' : globals'[x] \in Values
    BY <1>4, <1>5, <1>11, <2>1
  <2>3. stack' \in Seq(Values) /\ Len(stack') <= Len(stack) + 2
    BY <1>2, <1>5, <1>11, <2>1
  <2> QED
    BY <1>2, <1>4, <2>1, <2>2, <2>3, GotoShape
<1>12. CASE Emit /\ Needs(1) /\ Top(0).kind # "nil"
  <2>1. /\ stack' = Pop(1) /\ out' = Append(out, Top(0).val)
        /\ UNCHANGED <<memory, mp, globals, catchLabels>> /\ Goto(Advanced)
    BY <1>12 DEF Emit
  <2>2. Top(0).val \in Texts
    BY <1>5, <1>12 DEF Values
  <2>3. out' \in Seq(Texts)
    BY <1>4, <2>1, <2>2
  <2>4. stack' \in Seq(Values) /\ Len(stack') <= Len(stack) + 2
    BY <1>2, <1>5, <1>12, <2>1
  <2> QED
    BY <1>2, <1>4, <2>1, <2>3, <2>4, GotoShape
<1>13. CASE IteratorAdvance /\ Absolute \in DOMAIN memory /\ memory[Absolute].kind = "iter"
  <2> DEFINE left == memory[Absolute].left
             rest == IF left > 0 THEN left - 1 ELSE 0
             pair == <<Bool(left > 0), IF left > 0 THEN Str("item") ELSE Nil>>
  <2>1. memory[Absolute] \in Values /\ left \in Int
    BY <1>4, <1>13 DEF Values
  <2>2. [memory[Absolute] EXCEPT !.left = rest] \in Values
    BY <2>1 DEF Values
  <2>3. /\ memory' = [memory EXCEPT ![Absolute] = [memory[Absolute] EXCEPT !.left = rest]]
        /\ stack' = stack \o pair
        /\ UNCHANGED <<mp, globals, out, catchLabels>> /\ Goto(Advanced)
    BY <1>13 DEF IteratorAdvance
  <2>4. memory' \in [0..(MemoryMax - 1) -> Values]
    BY <1>4, <2>2, <2>3
  <2>5. Str("item") \in Values /\ Nil \in Values /\ Bool(left > 0) \in Values
    <3>1. (left > 0) \in BOOLEAN
      BY <2>1
    <3> QED
      BY <3>1, BoolType, ItemType
  <2>6. pair \in Seq(Values) /\ Len(pair) = 2
    <3>1. (IF left > 0 THEN Str("item") ELSE Nil) \in Values
      BY <2>5
    <3>2. \A a, b \in Values : <<a, b>> \in Seq(Values) /\ Len(<<a, b>>) = 2
      OBVIOUS
    <3> HIDE DEF left
    <3> QED
      BY <2>5, <3>1, <3>2
  <2>7. stack' \in Seq(Values) /\ Len(stack') = Len(stack) + 2
    BY <1>4, <2>3, <2>6, ConcatProperties
  <2>8. Len(stack') <= Len(stack) + 2
    BY <1>2, <2>7
  <2>9. /\ mp' \in Int /\ mp' = mp /\ catchLabels' \in Seq(Locations) /\ out' \in Seq(Texts)
        /\ \A x \in DOMAIN globals' : globals'[x] \in Values
    BY <1>4, <2>3
  <2> QED
    BY <1>2, <2>3, <2>4, <2>7, <2>8, <2>9, GotoShape
<1>14. CASE Eq /\ Needs(2)
  <2>1. stack' = Append(Pop(2), Bool(Top(0) = Top(1)))
    BY <1>14 DEF Eq
  <2>2. Bool(Top(0) = Top(1)) \in Values
    BY BoolType
  <2>3. stack' \in Seq(Values) /\ Len(stack') <= Len(stack) + 2
    BY <1>2, <1>5, <1>14, <2>1, <2>2
  <2> QED
    BY <1>2, <1>14, <2>3, OperandShape DEF Eq
<1>15. CASE EqPopOnce /\ Needs(2)
  <2>1. stack' = Append(Pop(1), Bool(Top(0) = Top(1))) /\ Needs(1)
    BY <1>2, <1>15 DEF EqPopOnce, Needs
  <2>2. Bool(Top(0) = Top(1)) \in Values
    BY BoolType
  <2>3. stack' \in Seq(Values) /\ Len(stack') <= Len(stack) + 2
    BY <1>2, <1>5, <2>1, <2>2
  <2> QED
    BY <1>2, <1>15, <2>3, OperandShape DEF EqPopOnce
<1>16. CASE Not /\ Needs(1) /\ Top(0).kind = "bool"
  <2>1. stack' = Append(Pop(1), Bool(Top(0).val = "false"))
    BY <1>16 DEF Not
  <2>2. Bool(Top(0).val = "false") \in Values
    BY BoolType
  <2>3. stack' \in Seq(Values) /\ Len(stack') <= Len(stack) + 2
    BY <1>2, <1>5, <1>16, <2>1, <2>2
  <2> QED
    BY <1>2, <1>16, <2>3, OperandShape DEF Not
<1> QED
  BY <1>6, <1>7, <1>8, <1>9, <1>10, <1>11, <1>12, <1>13, <1>14, <1>15, <1>16
  DEF Drop, GetVar, SetVar, SetGlob, Emit, IteratorAdvance, Eq, EqPopOnce, Not

\* The instructions that move control.
LEMMA ControlShape ==
  ASSUME TypeInv,
         InVCycle, HasCode, Frame.ip < Len(Code), UNCHANGED <<program, cancelled>>,
         AddMempointer \/ CallImm \/ Return \/ Jump \/ JumpIfFalse
           \/ SetTryLabel \/ PopTryLabel \/ Throw
  PROVE  TypeOK' /\ Shape
<1>1. /\ Instr \in InstructionSet /\ Frame \in Locations /\ callStack # <<>>
      /\ Instr.op \in {"jump", "jumpiffalse", "settry"} => Instr.n \in Nat
  BY FetchType DEF InVCycle
<1>2. /\ Advanced \in Seq(Locations) /\ Len(Advanced) = Len(callStack)
      /\ Len(callStack) \in Nat \ {0} /\ Len(stack) \in Nat
      /\ Len(Advanced) <= Len(callStack) + 1
      /\ Front(callStack) \in Seq(Locations) /\ Len(Front(callStack)) = Len(callStack) - 1
  <2>1. callStack \in Seq(Locations) /\ stack \in Seq(Values)
    BY DEF TypeInv, TypeOK
  <2>2. Advanced \in Seq(Locations) /\ Len(Advanced) = Len(callStack)
    BY <1>1, FrameType
  <2>3. /\ Len(callStack) \in Nat \ {0}
        /\ Front(callStack) \in Seq(Locations) /\ Len(Front(callStack)) = Len(callStack) - 1
    BY <1>1, <2>1, FrontLastType
  <2> QED
    BY <2>1, <2>2, <2>3, LenProperties
<1>3. Instr.n \in Int /\ Instr.fn \in Names
  BY <1>1 DEF InstructionSet
<1>4. /\ callStack \in Seq(Locations) /\ stack \in Seq(Values)
      /\ memory \in [0..(MemoryMax - 1) -> Values] /\ mp \in Int
      /\ catchLabels \in Seq(Locations) /\ out \in Seq(Texts)
      /\ \A x \in DOMAIN globals : globals[x] \in Values
      /\ MemoryMax \in Nat
  BY LimitsAssumption DEF TypeInv, TypeOK
<1>5. Needs(1) => /\ Pop(1) \in Seq(Values) /\ Len(Pop(1)) = Len(stack) - 1
                  /\ Top(0) \in Values
  BY OperandType
<1>6. CASE Panics
  BY <1>6, PanicsShape
<1>7. CASE AddMempointer /\ mp + Instr.n >= MemoryMax
  <2>1. /\ mp' = mp + Instr.n /\ mp' \in Int /\ status' = "outofmemory"
        /\ UNCHANGED <<stack, memory, globals, out, catchLabels, callStack, executed>>
    BY <1>3, <1>4, <1>7 DEF AddMempointer, control
  <2> QED
    BY <1>2, <2>1 DEF TypeInv, TypeOK, Shape, Halts, Statuses
<1>8. CASE AddMempointer /\ ~(mp + Instr.n >= MemoryMax)
  <2>1. /\ mp' = mp + Instr.n /\ Goto(Advanced)
        /\ UNCHANGED <<stack, memory, globals, out, catchLabels>>
    BY <1>8 DEF AddMempointer
  <2>2. mp' \in Int /\ mp' < MemoryMax
    BY <1>3, <1>4, <1>8, <2>1
  <2>3. /\ stack' \in Seq(Values) /\ Len(stack') <= Len(stack) + 2
        /\ memory' \in [0..(MemoryMax - 1) -> Values]
        /\ catchLabels' \in Seq(Locations) /\ out' \in Seq(Texts)
        /\ \A x \in DOMAIN globals' : globals'[x] \in Values
    BY <1>2, <1>4, <2>1
  <2> QED
    BY <1>2, <2>1, <2>2, <2>3, GotoShape
<1> DEFINE Typed ==
      /\ stack' \in Seq(Values) /\ Len(stack') <= Len(stack) + 2
      /\ memory' \in [0..(MemoryMax - 1) -> Values]
      /\ mp' \in Int /\ mp' = mp
      /\ catchLabels' \in Seq(Locations) /\ out' \in Seq(Texts)
      /\ \A x \in DOMAIN globals' : globals'[x] \in Values
<1>9. ASSUME UNCHANGED data, catchLabels' \in Seq(Locations)
      PROVE  Typed
  BY <1>2, <1>4, <1>9 DEF data
<1>10. ASSUME stack' \in Seq(Values), Len(stack') <= Len(stack) + 2,
              UNCHANGED <<memory, mp, globals, out, catchLabels>>
       PROVE  Typed
  BY <1>4, <1>10
<1>11. ASSUME NEW frames \in Seq(Locations), Len(frames) <= Len(callStack) + 1,
              Goto(frames), Typed
       PROVE  TypeOK' /\ Shape
  BY <1>11, GotoShape
<1> HIDE DEF Typed
<1>12. CASE CallImm
  <2> DEFINE frames == Append(Advanced, [fn |-> Instr.fn, ip |-> 0])
  <2>1. [fn |-> Instr.fn, ip |-> 0] \in Locations
    BY <1>3 DEF Locations
  <2>2. frames \in Seq(Locations) /\ Len(frames) <= Len(callStack) + 1
    BY <1>2, <2>1
  <2>3. Goto(frames) /\ Typed
    BY <1>4, <1>9, <1>12 DEF CallImm
  <2> QED
    BY <1>11, <2>2, <2>3
<1>13. CASE Return
  <2>1. Goto(Front(callStack)) /\ Typed
    BY <1>4, <1>9, <1>13 DEF Return
  <2> QED
    BY <1>2, <1>11, <2>1
<1>14. CASE Jump
  <2>1. Instr.n \in Nat
    BY <1>1, <1>14 DEF Jump, Executes
  <2>2. /\ [callStack EXCEPT ![Len(callStack)].ip = Instr.n] \in Seq(Locations)
        /\ Len([callStack EXCEPT ![Len(callStack)].ip = Instr.n]) <= Len(callStack) + 1
    BY <1>1, <1>2, <2>1, FrameType
  <2>3. Goto([callStack EXCEPT ![Len(callStack)].ip = Instr.n]) /\ Typed
    BY <1>4, <1>9, <1>14 DEF Jump
  <2> QED
    BY <1>11, <2>2, <2>3
<1>15. CASE JumpIfFalse /\ Needs(1) /\ Top(0).kind = "bool"
  <2> DEFINE frames == IF Top(0).val = "true" THEN Advanced
                       ELSE [callStack EXCEPT ![Len(callStack)].ip = Instr.n]
  <2>1. Instr.n \in Nat
    BY <1>1, <1>15 DEF JumpIfFalse, Executes
  <2>2. frames \in Seq(Locations) /\ Len(frames) <= Len(callStack) + 1
    BY <1>1, <1>2, <2>1, FrameType
  <2>3. /\ Goto(frames) /\ stack' = Pop(1)
        /\ UNCHANGED <<memory, mp, globals, out, catchLabels>>
    BY <1>15 DEF JumpIfFalse
  <2>4. stack' \in Seq(Values) /\ Len(stack') <= Len(stack) + 2
    BY <1>2, <1>5, <1>15, <2>3
  <2>5. Typed
    BY <1>10, <2>3, <2>4
  <2> HIDE DEF frames
  <2> QED
    BY <1>11, <2>2, <2>3, <2>5
<1>16. CASE SetTryLabel
  <2>1. [fn |-> Instr.fn, ip |-> Instr.n] \in Locations
    BY <1>1, <1>3, <1>16 DEF SetTryLabel, Executes, Locations
  <2>2. catchLabels' \in Seq(Locations) /\ UNCHANGED data /\ Goto(Advanced)
    BY <1>4, <1>16, <2>1 DEF SetTryLabel
  <2> QED
    BY <1>2, <1>9, <1>11, <2>2
<1>17. CASE PopTryLabel /\ catchLabels # <<>>
  <2>1. catchLabels' \in Seq(Locations) /\ UNCHANGED data /\ Goto(Advanced)
    BY <1>4, <1>17, FrontLastType DEF PopTryLabel
  <2> QED
    BY <1>2, <1>9, <1>11, <2>1
<1>18. CASE Throw /\ Needs(1) /\ catchLabels = <<>>
  <2>1. /\ status' = "uncaught" /\ stack' = Pop(1)
        /\ UNCHANGED <<control, memory, mp, globals, out, catchLabels>>
    BY <1>18 DEF Throw
  <2> QED
    BY <1>2, <1>5, <1>18, <2>1 DEF TypeInv, TypeOK, Shape, Halts, Statuses, control
<1>19. CASE /\ Throw /\ Needs(1) /\ catchLabels # <<>>
            /\ Unwound(Last(catchLabels)) # <<>>
  <2> DEFINE label == Last(catchLabels)
             caught == Unwound(label)
             frames == [caught EXCEPT ![Len(caught)] = label]
  <2>1. /\ stack' = Append(Pop(1), Top(0))
        /\ UNCHANGED <<memory, mp, globals, out, catchLabels>>
        /\ Goto(frames)
    BY <1>19 DEF Throw
  <2>2. label \in Locations
    BY <1>4, <1>19, FrontLastType
  <2>3. caught \in Seq(Locations) /\ Len(caught) <= Len(callStack)
    BY <1>2, <1>4 DEF Unwound
  <2>4. Len(caught) \in 1..Len(caught)
    BY <1>19, <2>3, FrontLastType
  <2>5. frames \in Seq(Locations) /\ Len(frames) <= Len(callStack) + 1
    BY <1>2, <2>2, <2>3, <2>4, ExceptSeq
  <2>6. stack' \in Seq(Values) /\ Len(stack') <= Len(stack) + 2
    BY <1>2, <1>5, <1>19, <2>1
  <2>7. Typed
    BY <1>10, <2>1, <2>6
  <2> HIDE DEF frames
  <2> QED
    BY <1>11, <2>1, <2>5, <2>7
<1> QED
  BY <1>6, <1>7, <1>8, <1>12, <1>13, <1>14, <1>15, <1>16, <1>17, <1>18, <1>19
  DEF AddMempointer, JumpIfFalse, PopTryLabel, Throw

LEMMA InstructionShape ==
  ASSUME TypeInv, Instruction
  PROVE  TypeOK' /\ Shape /\ InVCycle /\ UNCHANGED program
<1>1. InVCycle /\ HasCode /\ Frame.ip < Len(Code) /\ UNCHANGED <<program, cancelled>>
  BY DEF Instruction, AddMempointer, Push, Drop, SetVar, GetVar, SetGlob, Emit,
         IteratorAdvance, Eq, EqPopOnce, Not, CallImm, Return, Jump, JumpIfFalse,
         SetTryLabel, PopTryLabel, Throw, Executes
<1> QED
  BY <1>1, DataShape, ControlShape DEF Instruction

LEMMA StopTypeOK ==
  ASSUME TypeInv, NEW s \in Statuses, Stop(s)
  PROVE  TypeOK' /\ UNCHANGED <<program, control, data>>
  BY DEF TypeInv, TypeOK, Stop, control, data

\* The steps of the outer loop that stop the core.
LEMMA StopSteps ==
  ASSUME TypeInv, NoticeCancel \/ StackOverflow \/ CallStackOverflow \/ Finish \/ MissingRoutine
  PROVE  /\ TypeOK' /\ UNCHANGED <<program, control, data>>
         /\ status = "running" /\ status' # "outofmemory"
<1>1. PICK s \in Statuses \ {"outofmemory"} : Stop(s)
  BY DEF NoticeCancel, StackOverflow, CallStackOverflow, Finish, MissingRoutine, Statuses
<1>2. status = "running"
  BY DEF NoticeCancel, StackOverflow, CallStackOverflow, Finish, MissingRoutine,
         AtHead, InVCycle
<1>3. status' = s
  BY <1>1 DEF Stop
<1> QED
  BY <1>1, <1>2, <1>3, StopTypeOK

LEMMA FallOffStep ==
  ASSUME TypeInv, FallOff
  PROVE  /\ TypeOK' /\ UNCHANGED <<program, stack, mp, status>>
         /\ Len(callStack) \in Nat /\ executed < VCycle
         /\ executed' = VCycle /\ Len(callStack') = Len(callStack) - 1
<1>1. /\ callStack # <<>> /\ callStack' = Front(callStack) /\ executed' = VCycle
      /\ executed < VCycle
      /\ UNCHANGED <<program, data, catchLabels, cancelled, status>>
  BY DEF FallOff, InVCycle
<1>2. /\ callStack' \in Seq(Locations) /\ Len(callStack') = Len(callStack) - 1
      /\ Len(callStack) \in Nat
  BY <1>1, FrontLastType DEF TypeInv, TypeOK
<1>3. executed' \in 0..VCycle
  BY <1>1, LimitsAssumption
<1> QED
  BY <1>1, <1>2, <1>3 DEF TypeInv, TypeOK, data

LEMMA BeginStep ==
  ASSUME TypeInv, BeginVCycle
  PROVE  /\ TypeOK' /\ UNCHANGED <<program, callStack, stack, mp, status>>
         /\ executed' = 0 /\ Len(callStack) <= CallStackMax /\ Len(stack) <= StackMax
<1>1. 0 \in 0..VCycle
  BY LimitsAssumption
<1> QED
  BY <1>1 DEF BeginVCycle, TypeInv, TypeOK, data

LEMMA CancelStep ==
  ASSUME TypeInv, Cancel
  PROVE  TypeOK' /\ UNCHANGED <<program, control, data, status>>
  BY DEF Cancel, TypeInv, TypeOK, control, data

LEMMA StepTypeInv == TypeInv /\ [Next]_vars => TypeInv'
<1> SUFFICES ASSUME TypeInv, [Next]_vars PROVE TypeInv'
  OBVIOUS
<1>1. CASE Instruction
  BY <1>1, InstructionShape DEF TypeInv
<1>2. CASE NoticeCancel \/ StackOverflow \/ CallStackOverflow \/ Finish \/ MissingRoutine
  BY <1>2, StopSteps DEF TypeInv
<1>3. CASE FallOff
  BY <1>3, FallOffStep DEF TypeInv
<1>4. CASE BeginVCycle
  BY <1>4, BeginStep DEF TypeInv
<1>5. CASE Cancel
  BY <1>5, CancelStep DEF TypeInv
<1>6. CASE UNCHANGED vars
  BY <1>6 DEF vars, control, data, TypeInv, TypeOK
<1> QED
  BY <1>1, <1>2, <1>3, <1>4, <1>5, <1>6 DEF Next, Step, Boundary

LEMMA InitTypeInv == Init => TypeInv
<1> SUFFICES ASSUME Init PROVE TypeInv
  OBVIOUS
<1>1. \A entry \in Entries : [fn |-> entry, ip |-> 0] \in Locations
  BY ProgramsAssumption DEF Locations
<1>2. callStack \in Seq(Locations)
  <2>1. PICK entry \in Entries : callStack = <<[fn |-> entry, ip |-> 0]>>
    BY DEF Init, InitCore
  <2>2. QED
    BY <1>1, <2>1
<1>3. memory \in [0..(MemoryMax - 1) -> Values]
  BY ItemType DEF Init, InitCore
<1>4. executed \in 0..VCycle /\ mp \in Int
  BY LimitsAssumption DEF Init, InitCore
<1>5. \A x \in DOMAIN globals : globals[x] \in Values
  BY DEF Init, InitCore
<1>6. stack \in Seq(Values) /\ catchLabels \in Seq(Locations) /\ out \in Seq(Texts)
  BY EmptySeq DEF Init, InitCore
<1>7. status \in Statuses /\ cancelled \in BOOLEAN /\ program \in Programs
  BY DEF Init, InitCore, Statuses
<1> QED
  BY <1>2, <1>3, <1>4, <1>5, <1>6, <1>7 DEF TypeInv, TypeOK

\* The registers of a core always have their types, whatever program it runs.
THEOREM TypeInvariant == Spec => []TypeInv
<1> QED
  BY InitTypeInv, StepTypeInv, PTL DEF Spec

\* No sequence of instructions makes Run leave its data structures malformed.
THEOREM TypeCorrect == Spec => []TypeOK
<1>1. TypeInv => TypeOK
  BY DEF TypeInv
<1>2. QED
  BY <1>1, TypeInvariant, PTL

-----------------------------------------------------------------------------

LEMMA InitBounded == Init => ResourcesBounded
<1> SUFFICES ASSUME Init PROVE ResourcesBounded
  OBVIOUS
<1>1. Len(callStack) = 1 /\ Len(stack) = 0 /\ executed = VCycle /\ mp = 0
  BY DEF Init, InitCore
<1>2. VCycle \in Nat \ {0} /\ CallStackMax \in Nat /\ StackMax \in Nat /\ MemoryMax \in Nat \ {0}
  BY LimitsAssumption
<1>3. 1 <= CallStackMax + VCycle /\ 0 <= StackMax + 2 * VCycle /\ 0 < MemoryMax
  BY <1>2
<1> QED
  BY <1>1, <1>3 DEF ResourcesBounded

LEMMA StepBounded ==
  ASSUME TypeInv, ResourcesBounded, [Next]_vars
  PROVE  ResourcesBounded'
<1>1. /\ Len(callStack) \in Nat /\ Len(stack) \in Nat /\ executed \in 0..VCycle
      /\ mp \in Int /\ VCycle \in Nat /\ CallStackMax \in Nat /\ StackMax \in Nat
  BY LenProperties, LimitsAssumption DEF TypeInv, TypeOK
<1>2. /\ Len(callStack') \in Nat /\ Len(stack') \in Nat /\ executed' \in 0..VCycle
  <2>1. callStack' \in Seq(Locations) /\ stack' \in Seq(Values) /\ executed' \in 0..VCycle
    BY StepTypeInv DEF TypeInv, TypeOK
  <2> QED
    BY <2>1, LenProperties
<1>3. CASE Instruction
  <2>1. Shape /\ status = "running"
    BY <1>3, InstructionShape DEF InVCycle
  <2>2. Len(callStack') <= CallStackMax + executed' /\ Len(stack') <= StackMax + 2 * executed'
    BY <1>1, <1>2, <2>1 DEF Shape, Halts, Proceeds, ResourcesBounded
  <2>3. status' # "outofmemory" => mp' < MemoryMax
    BY <2>1 DEF Shape, ResourcesBounded
  <2> QED
    BY <2>2, <2>3 DEF ResourcesBounded
<1>4. CASE NoticeCancel \/ StackOverflow \/ CallStackOverflow \/ Finish \/ MissingRoutine
  BY <1>4, StopSteps DEF ResourcesBounded, control, data
<1>5. CASE FallOff
  BY <1>1, <1>5, FallOffStep DEF ResourcesBounded
<1>6. CASE BeginVCycle
  BY <1>1, <1>6, BeginStep DEF ResourcesBounded
<1>7. CASE Cancel
  BY <1>7, CancelStep DEF ResourcesBounded, control, data
<1>8. CASE UNCHANGED vars
  BY <1>8 DEF vars, control, data, ResourcesBounded
<1> QED
  BY <1>3, <1>4, <1>5, <1>6, <1>7, <1>8 DEF Next, Step, Boundary

\* Whatever program it runs, a core's frames and operands exceed their limits by
\* no more than one vcycle can add (one frame, two operands per instruction), and
\* its frames never reach past the memory it was given: the checks that Run makes
\* only between vcycles are enough.
THEOREM LimitsHold == Spec => []ResourcesBounded
<1>1. ResourcesBounded /\ TypeInv /\ [Next]_vars => ResourcesBounded'
  BY StepBounded
<1> QED
  BY <1>1, InitBounded, TypeInvariant, PTL DEF Spec

-----------------------------------------------------------------------------
(* What of CancelStops is no matter of fairness.                           *)

\* The steps that a cancelled core can take at most: those of the vcycle it is in, and
\* the one that finds that the context is done.
StepsLeft == IF status = "running" THEN (VCycle - executed) + 1 ELSE 0

CountsDown == cancelled => cancelled' /\ StepsLeft' \in Nat /\ StepsLeft' < StepsLeft

LEMMA StepCountsDown ==
  ASSUME TypeInv, [Next]_vars
  PROVE  [CountsDown]_vars
<1> SUFFICES ASSUME cancelled, Next
             PROVE  cancelled' /\ StepsLeft' \in Nat /\ StepsLeft' < StepsLeft
  BY DEF CountsDown
<1>1. executed \in 0..VCycle /\ executed' \in 0..VCycle /\ VCycle \in Nat
  <2>1. TypeInv'
    BY StepTypeInv
  <2>2. QED
    BY <2>1, LimitsAssumption DEF TypeInv, TypeOK
<1>2. ASSUME status = "running", status' # "running" PROVE StepsLeft' = 0 /\ StepsLeft > 0
  BY <1>1, <1>2 DEF StepsLeft
<1>3. ASSUME status = "running", executed' > executed
      PROVE  StepsLeft' \in Nat /\ StepsLeft' < StepsLeft
  <2>1. StepsLeft = (VCycle - executed) + 1
    BY <1>3 DEF StepsLeft
  <2>2. StepsLeft' = IF status' = "running" THEN (VCycle - executed') + 1 ELSE 0
    BY DEF StepsLeft
  <2>3. CASE status' = "running"
    <3>1. StepsLeft' = (VCycle - executed') + 1
      BY <2>2, <2>3
    <3>2. \A v \in Nat : \A a, b \in 0..v :
            b > a => (v - b) + 1 \in Nat /\ (v - b) + 1 < (v - a) + 1
      OBVIOUS
    <3>3. /\ (VCycle - executed') + 1 \in Nat
          /\ (VCycle - executed') + 1 < (VCycle - executed) + 1
      BY <1>1, <1>3, <3>2
    <3>4. QED
      BY <2>1, <3>1, <3>3
  <2>4. CASE status' # "running"
    <3>1. StepsLeft' = 0
      BY <2>2, <2>4
    <3>2. QED
      BY <1>1, <2>1, <3>1
  <2>5. QED
    BY <2>3, <2>4
<1>4. CASE Instruction
  <2>1. /\ InVCycle /\ cancelled' = cancelled
        /\ status' # "running" \/ executed' = executed + 1
    BY <1>4
    DEF Instruction, AddMempointer, Push, Drop, SetVar, GetVar, SetGlob, Emit,
        IteratorAdvance, Eq, EqPopOnce, Not, CallImm, Return, Jump, JumpIfFalse,
        SetTryLabel, PopTryLabel, Throw, Executes, Goto, Panics
  <2>2. status = "running"
    BY <2>1 DEF InVCycle
  <2>3. executed' = executed + 1 => executed' > executed
    BY <1>1
  <2>4. QED
    BY <1>2, <1>3, <2>1, <2>2, <2>3
<1>5. CASE NoticeCancel \/ StackOverflow \/ CallStackOverflow \/ Finish \/ MissingRoutine
  <2>1. status = "running" /\ status' # "running" /\ cancelled' = cancelled
    BY <1>5 DEF NoticeCancel, StackOverflow, CallStackOverflow, Finish, MissingRoutine,
                AtHead, InVCycle, Stop
  <2>2. QED
    BY <1>2, <2>1
<1>6. CASE FallOff
  <2>1. status = "running" /\ executed < VCycle /\ executed' = VCycle /\ cancelled' = cancelled
    BY <1>6 DEF FallOff, InVCycle
  <2>2. QED
    BY <1>1, <1>3, <2>1
<1>7. ~BeginVCycle /\ ~Cancel
  BY DEF BeginVCycle, Cancel
<1>8. QED
  BY <1>4, <1>5, <1>6, <1>7 DEF Next, Step, Boundary

\* Whatever it executes, a core whose context is done takes no more steps than are left of
\* its vcycle and the one that notices: no path through the inner loop of Run goes on
\* without counting (CancelStops, but for the fairness that makes a core take steps).
THEOREM CancelledCoresCountDown == Spec => [][CountsDown]_vars
<1> QED
  BY TypeInvariant, StepCountsDown, PTL DEF Spec
=============================================================================
