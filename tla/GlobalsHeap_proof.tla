------------------------- MODULE GlobalsHeap_proof -------------------------
(***************************************************************************)
(* Theorems about Globals, for any programs and any number of cores: which *)
(* cells cores share and whose cells they change, and that a push is lost  *)
(* only if another came between.                                           *)
(***************************************************************************)
EXTENDS Globals_proof

-----------------------------------------------------------------------------
(* Whose cells a core may have pointers to.                                *)

\* The addresses that core c makes.
Own(c) == {c} \X Nat

Reach(c) == elements \cup Own(c)

StacksOwned ==
  /\ stack = [c \in Core |-> stack[c]]
  /\ \A c \in Core : stack[c] \in Seq(Reach(c))

SlotsOwned ==
  /\ slots = [c \in Core |-> slots[c]]
  /\ \A c \in Core : \A i \in DOMAIN slots[c] : slots[c][i] \in Reach(c)

\* What a list points to is an element; so is what a core is about to put into one.
ListsOfElements ==
  /\ elements \subseteq Address
  /\ \A l \in DOMAIN list : list[l] \in Seq(elements)
  /\ \A c \in Core : pc[c] = "appending" =>
       local[c].list \in DOMAIN list /\ local[c].header \in Seq(elements)

\* Addresses are used once.
AddressesMade ==
  /\ made \in [Core -> Nat]
  /\ \A c \in Core : pc[c] = "none" => made[c] = 0
  /\ \A a \in DOMAIN cell \cup DOMAIN list : a \in Address /\ a[2] \in 1..made[a[1]]

HeapInv == StacksOwned /\ SlotsOwned /\ ListsOfElements /\ AddressesMade

LEMMA HeapInvImplies == HeapInv => SharedCellsAreElements
<1> SUFFICES ASSUME HeapInv, NEW c \in Core, NEW d \in Core, c # d,
                    NEW a \in Held(c), a \in Held(d)
             PROVE  a \in elements
  BY DEF SharedCellsAreElements
<1>1. ASSUME NEW e \in Core, a \in Held(e)
      PROVE  a \in Reach(e)
  <2>1. stack[e] \in Seq(Reach(e)) /\ \A i \in DOMAIN slots[e] : slots[e][i] \in Reach(e)
    BY DEF HeapInv, StacksOwned, SlotsOwned
  <2>2. QED
    BY <1>1, <2>1 DEF Held
<1>2. a \in Reach(c) /\ a \in Reach(d)
  BY <1>1
<1>3. QED
  BY <1>2 DEF Reach, Own

LEMMA InitHeapInv == Init => HeapInv
BY DEF Init, HeapInv, StacksOwned, SlotsOwned, ListsOfElements, AddressesMade

-----------------------------------------------------------------------------
(* Sequences of addresses.                                                 *)

LEMMA SeqGrows ==
  ASSUME NEW S, NEW T, S \subseteq T, NEW s \in Seq(S)
  PROVE  s \in Seq(T)
OBVIOUS

LEMMA OperandsOwned ==
  ASSUME HeapInv, NEW c \in Core, NEW k \in Nat, Len(stack[c]) >= k
  PROVE  /\ Without(c, k) \in Seq(Reach(c))
         /\ \A i \in 1..k : Operand(c, i) \in Reach(c)
<1>1. stack[c] \in Seq(Reach(c))
  BY DEF HeapInv, StacksOwned
<1>2. Without(c, k) \in Seq(Reach(c))
  BY <1>1 DEF Without
<1>3. ASSUME NEW i \in 1..k
      PROVE  Operand(c, i) \in Reach(c)
  <2>1. Len(stack[c]) + 1 - i \in DOMAIN stack[c]
    BY <1>1
  <2>2. QED
    BY <1>1, <2>1 DEF Operand
<1>4. QED
  BY <1>2, <1>3

\* Others keep what they have while there are more elements.
LEMMA StacksKept ==
  ASSUME HeapInv, NEW c \in Core, elements \subseteq elements',
         NEW s \in Seq(Reach(c)'), stack' = [stack EXCEPT ![c] = s]
  PROVE  StacksOwned'
<1>1. \A d \in Core : Reach(d) \subseteq Reach(d)'
  BY DEF Reach, Own
<1>2. \A d \in Core : stack[d] \in Seq(Reach(d)')
  BY <1>1, SeqGrows DEF HeapInv, StacksOwned
<1>3. \A d \in Core : stack'[d] \in Seq(Reach(d)')
  BY <1>2 DEF HeapInv, StacksOwned
<1>4. QED
  BY <1>3 DEF HeapInv, StacksOwned

LEMMA SlotsKept ==
  ASSUME HeapInv, elements \subseteq elements', slots' = slots
  PROVE  SlotsOwned'
BY DEF HeapInv, SlotsOwned, Reach, Own

\* A push of a new cell.
LEMMA PushNewOwned ==
  ASSUME HeapInv, NEW c \in Core, NEW k \in Nat, Len(stack[c]) >= k, NEW v,
         PushNew(c, k, v)
  PROVE  /\ \E s \in Seq(Reach(c)) : stack' = [stack EXCEPT ![c] = s]
         /\ DOMAIN cell' = DOMAIN cell \cup {Fresh(c, 1)}
         /\ \A a \in DOMAIN cell : a # Fresh(c, 1) => cell'[a] = cell[a]
         /\ made' = [made EXCEPT ![c] = @ + 1]
         /\ Fresh(c, 1) \in Own(c) /\ Fresh(c, 1) \in Address
<1>1. made[c] \in Nat
  BY DEF HeapInv, AddressesMade
<1>2. Fresh(c, 1) \in Own(c) /\ Fresh(c, 1) \in Address
  BY <1>1 DEF Fresh, Own, Address
<1>3. Append(Without(c, k), Fresh(c, 1)) \in Seq(Reach(c))
  BY <1>2, OperandsOwned DEF Reach
<1>4. stack' = [stack EXCEPT ![c] = Append(Without(c, k), Fresh(c, 1))]
  BY DEF PushNew
<1>5. /\ DOMAIN cell' = DOMAIN cell \cup {Fresh(c, 1)}
      /\ \A a \in DOMAIN cell : a # Fresh(c, 1) => cell'[a] = cell[a]
      /\ made' = [made EXCEPT ![c] = @ + 1]
  BY DEF PushNew, With
<1>6. QED
  BY <1>2, <1>3, <1>4, <1>5

LEMMA AddressesKept ==
  ASSUME HeapInv, NEW c \in Core, pc[c] # "none",
         \A d \in Core : pc'[d] = "none" => pc[d] = "none",
         \/ made' = made /\ DOMAIN cell' \cup DOMAIN list' \subseteq DOMAIN cell \cup DOMAIN list
         \/ /\ made' = [made EXCEPT ![c] = @ + 1]
            /\ DOMAIN cell' \cup DOMAIN list'
                 \subseteq DOMAIN cell \cup DOMAIN list \cup {Fresh(c, 1)}
  PROVE  AddressesMade'
<1>1. CASE made' = made
           /\ DOMAIN cell' \cup DOMAIN list' \subseteq DOMAIN cell \cup DOMAIN list
  BY <1>1 DEF HeapInv, AddressesMade
<1>2. CASE /\ made' = [made EXCEPT ![c] = @ + 1]
           /\ DOMAIN cell' \cup DOMAIN list'
                \subseteq DOMAIN cell \cup DOMAIN list \cup {Fresh(c, 1)}
  <2>1. made' \in [Core -> Nat] /\ \A d \in Core : made[d] <= made'[d]
    BY <1>2 DEF HeapInv, AddressesMade
  <2>2. \A d \in Core : pc'[d] = "none" => made'[d] = 0
    BY <1>2 DEF HeapInv, AddressesMade
  <2>3. Fresh(c, 1) \in Address /\ Fresh(c, 1)[1] = c /\ Fresh(c, 1)[2] = made'[c]
        /\ made'[c] \in 1..made'[c]
    BY <1>2 DEF HeapInv, AddressesMade, Fresh, Address
  <2>4. ASSUME NEW a \in DOMAIN cell \cup DOMAIN list
        PROVE  a \in Address /\ a[2] \in 1..made'[a[1]]
    <3>1. a \in Address /\ a[1] \in Core /\ a[2] \in 1..made[a[1]]
      BY DEF HeapInv, AddressesMade, Address
    <3>2. made[a[1]] \in Nat /\ made'[a[1]] \in Nat /\ made[a[1]] <= made'[a[1]]
      BY <2>1, <3>1 DEF HeapInv, AddressesMade
    <3>3. QED
      BY <3>1, <3>2
  <2>5. QED
    BY <1>2, <2>1, <2>2, <2>3, <2>4 DEF AddressesMade
<1>3. QED
  BY <1>1, <1>2

-----------------------------------------------------------------------------
(* Steps of cores.                                                         *)

\* What a step of a core does to the heap, and what is left to show of it.
LEMMA HeapKept ==
  ASSUME HeapInv, NEW c \in Core, elements \subseteq elements', elements' \subseteq Address,
         NEW s \in Seq(Reach(c)'), stack' = [stack EXCEPT ![c] = s], SlotsOwned',
         DOMAIN list \subseteq DOMAIN list',
         \A l \in DOMAIN list' : list'[l] \in Seq(elements'),
         \A d \in Core : pc'[d] = "appending" =>
           \/ pc[d] = "appending" /\ local'[d] = local[d]
           \/ local'[d].list \in DOMAIN list' /\ local'[d].header \in Seq(elements'),
         AddressesMade'
  PROVE  HeapInv'
<1>1. StacksOwned'
  BY StacksKept
<1>2. \A d \in Core : pc[d] = "appending" =>
        local[d].list \in DOMAIN list' /\ local[d].header \in Seq(elements')
  BY SeqGrows DEF HeapInv, ListsOfElements
<1>3. ListsOfElements'
  BY <1>2 DEF ListsOfElements
<1>4. QED
  BY <1>1, <1>3 DEF HeapInv

\* Nobody's variables are changed by core c but its own.
OthersKept(c) == \A a \in DOMAIN cell : a \notin elements /\ a[1] # c => cell'[a] = cell[a]

LEMMA PushNewKeeps ==
  ASSUME Inv, HeapInv, NEW c \in Core, CopyPush(c) \/ CloningPush(c) \/ Add(c)
  PROVE  HeapInv' /\ OthersKept(c)
<1>1. PICK k \in Nat : Len(stack[c]) >= k /\ \E v : PushNew(c, k, v)
  <2>1. CASE CopyPush(c) \/ CloningPush(c)
    <3>1. Len(stack[c]) >= 0 /\ \E v : PushNew(c, 0, v)
      BY <2>1 DEF CopyPush, CloningPush, AtInstruction
    <3>2. QED
      BY <3>1
  <2>2. CASE Add(c)
    <3>1. Len(stack[c]) >= 2 /\ \E v : PushNew(c, 2, v)
      BY <2>2 DEF Add, AtInstruction
    <3>2. QED
      BY <3>1
  <2>3. QED
    BY <2>1, <2>2
<1>2. PICK s \in Seq(Reach(c)) : stack' = [stack EXCEPT ![c] = s]
  BY <1>1, PushNewOwned
<1>3. /\ DOMAIN cell' = DOMAIN cell \cup {Fresh(c, 1)}
      /\ \A a \in DOMAIN cell : a # Fresh(c, 1) => cell'[a] = cell[a]
      /\ made' = [made EXCEPT ![c] = @ + 1]
      /\ Fresh(c, 1) \in Own(c) /\ Fresh(c, 1) \in Address
  BY <1>1, PushNewOwned
<1>4. pc[c] = "run" /\ UNCHANGED <<pc, local, slots, elements>>
  BY DEF CopyPush, CloningPush, Add, AtInstruction, Outside, history
<1>5. list' = list \/ list' = With(list, Fresh(c, 1), <<>>)
  BY DEF CopyPush, CloningPush, Add
<1>6. /\ DOMAIN list \subseteq DOMAIN list'
      /\ DOMAIN list' \subseteq DOMAIN list \cup {Fresh(c, 1)}
      /\ \A l \in DOMAIN list' : list'[l] \in Seq(elements)
  <2>1. \A l \in DOMAIN list : list[l] \in Seq(elements)
    BY DEF HeapInv, ListsOfElements
  <2>2. CASE list' = With(list, Fresh(c, 1), <<>>)
    BY <2>1, <2>2 DEF With
  <2>3. QED
    BY <1>5, <2>1, <2>2
<1>7. AddressesMade'
  BY <1>3, <1>4, <1>6, AddressesKept
<1>8. SlotsOwned' /\ Reach(c)' = Reach(c) /\ elements \subseteq Address
  BY <1>4, SlotsKept DEF Reach, Own, HeapInv, ListsOfElements
<1>9. HeapInv'
  BY <1>2, <1>4, <1>6, <1>7, <1>8, HeapKept
<1>10. OthersKept(c)
  BY <1>3 DEF OthersKept, Own
<1>11. QED
  BY <1>9, <1>10

\* Instructions that leave cells, lists and addresses alone.
LEMMA StackStepKeeps ==
  ASSUME HeapInv, NEW c \in Core, pc[c] = "run",
         UNCHANGED <<pc, local, made, list, elements>>, DOMAIN cell' = DOMAIN cell,
         NEW s \in Seq(Reach(c)), stack' = [stack EXCEPT ![c] = s], SlotsOwned'
  PROVE  HeapInv'
<1>1. AddressesMade'
  BY AddressesKept
<1>2. /\ Reach(c)' = Reach(c) /\ elements \subseteq Address
      /\ \A l \in DOMAIN list : list[l] \in Seq(elements)
  BY DEF Reach, Own, HeapInv, ListsOfElements
<1>3. QED
  BY <1>1, <1>2, HeapKept

LEMMA RegistersKeep ==
  ASSUME Inv, HeapInv, NEW c \in Core,
         GetVarImm(c) \/ SetVarImm(c) \/ DropOperand(c) \/ Index(c) \/ Assign(c)
  PROVE  HeapInv' /\ OthersKept(c)
<1> USE DEF AtInstruction, Outside, history, heapVars
<1>1. stack[c] \in Seq(Reach(c)) /\ \A i \in DOMAIN slots[c] : slots[c][i] \in Reach(c)
  BY DEF HeapInv, StacksOwned, SlotsOwned
<1>2. CASE GetVarImm(c)
  <2>1. Append(stack[c], slots[c][Arg(c)]) \in Seq(Reach(c))
    BY <1>1, <1>2 DEF GetVarImm
  <2>2. /\ stack' = [stack EXCEPT ![c] = Append(stack[c], slots[c][Arg(c)])]
        /\ pc[c] = "run" /\ UNCHANGED <<pc, local, slots, made, cell, list, elements>>
    BY <1>2 DEF GetVarImm, HeapInv, StacksOwned
  <2>3. QED
    BY <2>1, <2>2, SlotsKept, StackStepKeeps DEF OthersKept
<1>3. CASE SetVarImm(c)
  <2>1. Without(c, 1) \in Seq(Reach(c)) /\ Operand(c, 1) \in Reach(c)
    BY <1>3, OperandsOwned DEF SetVarImm
  <2>2. /\ stack' = [stack EXCEPT ![c] = Without(c, 1)]
        /\ pc[c] = "run" /\ UNCHANGED <<pc, local, made, cell, list, elements>>
    BY <1>3 DEF SetVarImm
  <2> DEFINE f == [i \in DOMAIN slots[c] \cup {Arg(c)} |->
                     IF i = Arg(c) THEN Operand(c, 1) ELSE slots[c][i]]
  <2>3. slots' = [slots EXCEPT ![c] = f]
    BY <1>3 DEF SetVarImm
  <2>4. \A i \in DOMAIN f : f[i] \in Reach(c)
    BY <1>1, <2>1
  <2> HIDE DEF f
  <2>5. \A d \in Core : Reach(d)' = Reach(d)
    BY <2>2 DEF Reach, Own
  <2>6. SlotsOwned'
    BY <2>3, <2>4, <2>5 DEF HeapInv, SlotsOwned
  <2>7. QED
    BY <2>1, <2>2, <2>6, StackStepKeeps DEF OthersKept
<1>4. CASE DropOperand(c)
  <2>1. Without(c, 1) \in Seq(Reach(c))
    BY <1>4, OperandsOwned DEF DropOperand
  <2>2. /\ stack' = [stack EXCEPT ![c] = Without(c, 1)]
        /\ pc[c] = "run" /\ UNCHANGED <<pc, local, slots, made, cell, list, elements>>
    BY <1>4 DEF DropOperand
  <2>3. QED
    BY <2>1, <2>2, SlotsKept, StackStepKeeps DEF OthersKept
<1>5. CASE Index(c)
  <2>1. Without(c, 2) \in Seq(Reach(c))
    BY <1>5, OperandsOwned DEF Index
  <2>2. PICK l \in DOMAIN list : \E at \in DOMAIN list[l] :
          stack' = [stack EXCEPT ![c] = Append(Without(c, 2), list[l][at])]
    BY <1>5 DEF Index
  <2>3. PICK at \in DOMAIN list[l] :
          stack' = [stack EXCEPT ![c] = Append(Without(c, 2), list[l][at])]
    BY <2>2
  <2>4. list[l][at] \in Reach(c)
    BY <2>3 DEF HeapInv, ListsOfElements, Reach
  <2>5. Append(Without(c, 2), list[l][at]) \in Seq(Reach(c))
    BY <2>1, <2>4
  <2>6. pc[c] = "run" /\ UNCHANGED <<pc, local, slots, made, cell, list, elements>>
    BY <1>5 DEF Index
  <2>7. QED
    BY <2>3, <2>5, <2>6, SlotsKept, StackStepKeeps DEF OthersKept
<1>6. CASE Assign(c)
  <2>1. Without(c, 2) \in Seq(Reach(c)) /\ Operand(c, 2) \in Reach(c)
    BY <1>6, OperandsOwned DEF Assign
  <2>2. /\ stack' = [stack EXCEPT ![c] = Without(c, 2)]
        /\ cell' = [cell EXCEPT ![Operand(c, 2)] = cell[Operand(c, 1)]]
        /\ pc[c] = "run" /\ UNCHANGED <<pc, local, slots, made, list, elements>>
    BY <1>6 DEF Assign
  <2>3. DOMAIN cell' = DOMAIN cell
        /\ \A a \in DOMAIN cell : a # Operand(c, 2) => cell'[a] = cell[a]
    BY <2>2
  <2>4. OthersKept(c)
    BY <2>1, <2>3 DEF OthersKept, Reach, Own
  <2>5. QED
    BY <2>1, <2>2, <2>3, <2>4, SlotsKept, StackStepKeeps
<1>7. QED
  BY <1>2, <1>3, <1>4, <1>5, <1>6

LEMMA EndReadKeeps ==
  ASSUME Inv, HeapInv, NEW c \in Core, EndRead(c)
  PROVE  HeapInv' /\ OthersKept(c)
<1>1. PushNew(c, 0, local[c]) /\ pc[c] = "read" /\ pc' = [pc EXCEPT ![c] = "run"]
      /\ local' = [local EXCEPT ![c] = None] /\ UNCHANGED <<slots, list, elements>>
  BY DEF EndRead, history
<1>2. Len(stack[c]) >= 0
  BY DEF HeapInv, StacksOwned
<1>3. PICK s \in Seq(Reach(c)) : stack' = [stack EXCEPT ![c] = s]
  BY <1>1, <1>2, PushNewOwned
<1>4. /\ DOMAIN cell' = DOMAIN cell \cup {Fresh(c, 1)}
      /\ \A a \in DOMAIN cell : a # Fresh(c, 1) => cell'[a] = cell[a]
      /\ made' = [made EXCEPT ![c] = @ + 1] /\ Fresh(c, 1) \in Own(c)
  BY <1>1, <1>2, PushNewOwned
<1>5. pc \in [Core -> CorePC] /\ LocalTyped
  BY DEF Inv, TypeInv, TypeOK
<1>6. \A d \in Core : /\ pc'[d] = "none" => pc[d] = "none"
                      /\ pc'[d] = "appending" => pc[d] = "appending" /\ local'[d] = local[d]
  BY <1>1, <1>5 DEF LocalTyped
<1>7. AddressesMade'
  BY <1>1, <1>4, <1>6, AddressesKept
<1>8. /\ SlotsOwned' /\ Reach(c)' = Reach(c) /\ elements \subseteq Address
      /\ \A l \in DOMAIN list : list[l] \in Seq(elements)
  BY <1>1, SlotsKept DEF Reach, Own, HeapInv, ListsOfElements
<1>9. HeapInv'
  BY <1>1, <1>3, <1>6, <1>7, <1>8, HeapKept
<1>10. OthersKept(c)
  BY <1>4 DEF OthersKept, Own
<1>11. QED
  BY <1>9, <1>10

LEMMA ListPushKeeps ==
  ASSUME Inv, HeapInv, NEW c \in Core, ListPush(c)
  PROVE  HeapInv' /\ OthersKept(c)
<1>1. PICK l \in DOMAIN list : list' = [list EXCEPT ![l] = Append(@, Operand(c, 1))]
  BY DEF ListPush
<1>2. /\ elements' = elements \cup {Operand(c, 1)}
      /\ stack' = [stack EXCEPT ![c] = Without(c, 1)]
      /\ pc[c] = "run" /\ UNCHANGED <<pc, slots, made, local, cell>>
  BY DEF ListPush, AtInstruction
<1>3. Without(c, 1) \in Seq(Reach(c)) /\ Operand(c, 1) \in Reach(c)
  <2>1. Len(stack[c]) >= 1
    <3>1. Len(stack[c]) >= 2 /\ Len(stack[c]) \in Nat
      BY DEF ListPush, AtInstruction, HeapInv, StacksOwned
    <3>2. QED
      BY <3>1
  <2>2. QED
    BY <2>1, OperandsOwned
<1>4. elements \subseteq elements' /\ elements' \subseteq Address
  BY <1>2, <1>3 DEF Reach, Own, HeapInv, ListsOfElements, Address
<1>5. Without(c, 1) \in Seq(Reach(c)')
  BY <1>3, <1>4, SeqGrows DEF Reach, Own
<1>6. \A m \in DOMAIN list' : list'[m] \in Seq(elements')
  <2>1. \A m \in DOMAIN list : list[m] \in Seq(elements')
    BY <1>4, SeqGrows DEF HeapInv, ListsOfElements
  <2>2. Append(list[l], Operand(c, 1)) \in Seq(elements')
    BY <1>2, <2>1
  <2>3. QED
    BY <1>1, <2>1, <2>2
<1>7. DOMAIN list' = DOMAIN list
  BY <1>1
<1>8. AddressesMade'
  BY <1>2, <1>7, AddressesKept
<1>9. SlotsOwned'
  BY <1>2, <1>4, SlotsKept
<1>10. HeapInv'
  BY <1>2, <1>4, <1>5, <1>6, <1>7, <1>8, <1>9, HeapKept
<1>11. QED
  BY <1>2, <1>10 DEF OthersKept

LEMMA BeginPushKeeps ==
  ASSUME Inv, HeapInv, NEW c \in Core, BeginPush(c)
  PROVE  HeapInv' /\ OthersKept(c)
<1>1. PICK l \in DOMAIN list :
        local' = [local EXCEPT ![c] =
                    [list |-> l, header |-> list[l], arg |-> cell[Operand(c, 2)]]]
  BY DEF BeginPush
<1>2. /\ pc[c] = "run" /\ pc' = [pc EXCEPT ![c] = "appending"]
      /\ stack' = [stack EXCEPT ![c] = Without(c, 2)]
      /\ UNCHANGED <<slots, made, cell, list, elements>>
  BY DEF BeginPush, AtInstruction, heapVars
<1>3. Without(c, 2) \in Seq(Reach(c))
  BY OperandsOwned DEF BeginPush, AtInstruction
<1>4. pc \in [Core -> CorePC] /\ LocalTyped
  BY DEF Inv, TypeInv, TypeOK
<1>5. local'[c].list = l /\ local'[c].header = list[l] /\ list[l] \in Seq(elements)
  BY <1>1, <1>4 DEF LocalTyped, HeapInv, ListsOfElements
<1>6. \A d \in Core : pc'[d] = "appending" =>
           \/ pc[d] = "appending" /\ local'[d] = local[d]
           \/ local'[d].list \in DOMAIN list' /\ local'[d].header \in Seq(elements')
  <2>1. \A d \in Core \ {c} : pc'[d] = pc[d] /\ local'[d] = local[d]
    BY <1>1, <1>2, <1>4 DEF LocalTyped
  <2>2. QED
    BY <1>2, <1>5, <2>1
<1>7. AddressesMade'
  BY <1>2, <1>4, AddressesKept
<1>8. /\ SlotsOwned' /\ Reach(c)' = Reach(c) /\ elements \subseteq Address
      /\ \A m \in DOMAIN list : list[m] \in Seq(elements)
  BY <1>2, SlotsKept DEF Reach, Own, HeapInv, ListsOfElements
<1>9. HeapInv'
  BY <1>2, <1>3, <1>6, <1>7, <1>8, HeapKept
<1>10. QED
  BY <1>2, <1>9 DEF OthersKept

LEMMA EndPushKeeps ==
  ASSUME Inv, HeapInv, NEW c \in Core, EndPush(c)
  PROVE  HeapInv' /\ OthersKept(c)
<1>1. /\ pc[c] = "appending" /\ pc' = [pc EXCEPT ![c] = "run"]
      /\ list' = [list EXCEPT ![local[c].list] = Append(local[c].header, Fresh(c, 1))]
      /\ cell' = With(cell, Fresh(c, 1), local[c].arg)
      /\ elements' = elements \cup {Fresh(c, 1)}
      /\ made' = [made EXCEPT ![c] = @ + 1]
      /\ local' = [local EXCEPT ![c] = None]
      /\ UNCHANGED <<stack, slots>>
  BY DEF EndPush
<1>2. pc \in [Core -> CorePC] /\ LocalTyped
  BY DEF Inv, TypeInv, TypeOK
<1>3. Fresh(c, 1) \in Own(c) /\ Fresh(c, 1) \in Address
  BY DEF HeapInv, AddressesMade, Fresh, Own, Address
<1>4. elements \subseteq elements' /\ elements' \subseteq Address
  BY <1>1, <1>3 DEF HeapInv, ListsOfElements
<1>5. /\ DOMAIN cell' = DOMAIN cell \cup {Fresh(c, 1)}
      /\ \A a \in DOMAIN cell : a # Fresh(c, 1) => cell'[a] = cell[a]
      /\ DOMAIN list' = DOMAIN list
  BY <1>1 DEF With
<1>6. \A d \in Core : /\ pc'[d] = "none" => pc[d] = "none"
                      /\ pc'[d] = "appending" => pc[d] = "appending" /\ local'[d] = local[d]
  BY <1>1, <1>2 DEF LocalTyped
<1>7. AddressesMade'
  BY <1>1, <1>5, <1>6, AddressesKept
<1>8. \A l \in DOMAIN list' : list'[l] \in Seq(elements')
  <2>1. \A l \in DOMAIN list : list[l] \in Seq(elements')
    BY <1>4, SeqGrows DEF HeapInv, ListsOfElements
  <2>2. local[c].header \in Seq(elements')
    BY <1>1, <1>4, SeqGrows DEF HeapInv, ListsOfElements
  <2>3. Append(local[c].header, Fresh(c, 1)) \in Seq(elements')
    BY <1>1, <2>2
  <2>4. QED
    BY <1>1, <2>1, <2>3
<1>9. stack[c] \in Seq(Reach(c)') /\ stack' = [stack EXCEPT ![c] = stack[c]]
  <2>1. Reach(c) \subseteq Reach(c)'
    BY <1>4 DEF Reach, Own
  <2>2. QED
    BY <1>1, <2>1, SeqGrows DEF HeapInv, StacksOwned
<1>10. SlotsOwned'
  BY <1>1, <1>4, SlotsKept
<1>11. HeapInv'
  BY <1>4, <1>5, <1>6, <1>7, <1>8, <1>9, <1>10, HeapKept
<1>12. OthersKept(c)
  BY <1>3, <1>5 DEF OthersKept, Own
<1>13. QED
  BY <1>11, <1>12

\* A step that leaves the heap alone, and at most drops operands.
LEMMA QuietStepKeeps ==
  ASSUME HeapInv, UNCHANGED <<stack, slots, made, cell, list, elements>>,
         \A d \in Core : /\ pc'[d] = "none" => pc[d] = "none"
                         /\ pc'[d] = "appending" => pc[d] = "appending" /\ local'[d] = local[d]
  PROVE  HeapInv' /\ \A c : OthersKept(c)
<1>1. \A c : Reach(c)' = Reach(c)
  BY DEF Reach, Own
<1>2. StacksOwned' /\ SlotsOwned'
  BY <1>1 DEF HeapInv, StacksOwned, SlotsOwned
<1>3. ListsOfElements' /\ AddressesMade'
  BY DEF HeapInv, ListsOfElements, AddressesMade
<1>4. QED
  BY <1>2, <1>3 DEF HeapInv, OthersKept

LEMMA AnnounceKeeps ==
  ASSUME Inv, HeapInv, NEW c \in Core, Announce(c)
  PROVE  HeapInv' /\ OthersKept(c)
<1>1. /\ pc[c] = "run" /\ pc' = [pc EXCEPT ![c] = "announced"]
      /\ local' = [local EXCEPT ![c] = cell[Operand(c, 1)]]
      /\ stack' = [stack EXCEPT ![c] = Without(c, 1)]
      /\ UNCHANGED <<slots, made, cell, list, elements>>
  BY DEF Announce, AtInstruction, heapVars, history
<1>2. Without(c, 1) \in Seq(Reach(c))
  BY OperandsOwned DEF Announce, AtInstruction
<1>3. pc \in [Core -> CorePC] /\ LocalTyped
  BY DEF Inv, TypeInv, TypeOK
<1>4. \A d \in Core : /\ pc'[d] = "none" => pc[d] = "none"
                      /\ pc'[d] = "appending" => pc[d] = "appending" /\ local'[d] = local[d]
  BY <1>1, <1>3 DEF LocalTyped
<1>5. AddressesMade'
  BY <1>1, <1>4, AddressesKept
<1>6. /\ SlotsOwned' /\ Reach(c)' = Reach(c) /\ elements \subseteq Address
      /\ \A m \in DOMAIN list : list[m] \in Seq(elements)
  BY <1>1, SlotsKept DEF Reach, Own, HeapInv, ListsOfElements
<1>7. HeapInv'
  BY <1>1, <1>2, <1>4, <1>5, <1>6, HeapKept
<1>8. QED
  BY <1>1, <1>7 DEF OthersKept

LEMMA LockStepKeeps ==
  ASSUME Inv, HeapInv, NEW c \in Core,
         BeginRead(c) \/ Read(c) \/ BeginWrite(c) \/ Write(c) \/ EndWrite(c) \/ End(c)
  PROVE  HeapInv' /\ OthersKept(c)
<1>1. pc \in [Core -> CorePC] /\ LocalTyped
  BY DEF Inv, TypeInv, TypeOK
<1>2. /\ UNCHANGED <<stack, slots, made, cell, list, elements>>
      /\ pc[c] # "appending"
      /\ \E p \in CorePC \ {"none", "appending"} : pc' = [pc EXCEPT ![c] = p]
      /\ local' = local \/ \E v : local' = [local EXCEPT ![c] = v]
  BY DEF BeginRead, Read, BeginWrite, Write, EndWrite, End, AtInstruction, coreVars,
         heapVars, history, CorePC
<1>3. \A d \in Core : /\ pc'[d] = "none" => pc[d] = "none"
                      /\ pc'[d] = "appending" => pc[d] = "appending" /\ local'[d] = local[d]
  BY <1>1, <1>2 DEF LocalTyped
<1>4. QED
  BY <1>2, <1>3, QuietStepKeeps

LEMMA HostStepKeeps ==
  ASSUME Inv, HeapInv, HostStep
  PROVE  HeapInv'
<1>1. pc \in [Core -> CorePC]
  BY DEF Inv, TypeInv, TypeOK
<1>2. /\ UNCHANGED <<stack, slots, made, local, cell, list, elements>>
      /\ pc' = pc \/ \E d \in Core, p \in {"run", "done"} : pc' = [pc EXCEPT ![d] = p]
  BY DEF HostStep, HostSpawns, Receive, Drop, WaitReturns, ReturnVM, ReadGlobals, Start,
         coreVars, heapVars, history
<1>3. \A d \in Core : /\ pc'[d] = "none" => pc[d] = "none"
                      /\ pc'[d] = "appending" => pc[d] = "appending" /\ local'[d] = local[d]
  BY <1>1, <1>2
<1>4. QED
  BY <1>2, <1>3, QuietStepKeeps

\* The new core gets copies of the arguments, at its own addresses.
LEMMA SpawnKeeps ==
  ASSUME Inv, HeapInv, NEW c \in Core, NEW d \in Core, Spawn(c, d)
  PROVE  HeapInv' /\ OthersKept(c)
<1> DEFINE argc == Arg(c).argc
           copies == [k \in 1..argc |-> <<d, k>>]
           left == Append(Without(c, argc), Fresh(c, 1))
<1>1. /\ pc[c] = "run" /\ pc[d] = "none" /\ c # d /\ Len(stack[c]) >= argc
      /\ pc' = [pc EXCEPT ![d] = "run"]
      /\ stack' = [stack EXCEPT ![c] = left, ![d] = copies]
      /\ made' = [made EXCEPT ![c] = @ + 1, ![d] = argc]
      /\ cell' = [a \in DOMAIN cell \cup {Fresh(c, 1)} \cup {copies[k] : k \in 1..argc} |->
                   IF a[1] = d THEN cell[Operand(c, argc + 1 - a[2])]
                   ELSE IF a = Fresh(c, 1) THEN NullValue ELSE cell[a]]
      /\ UNCHANGED <<slots, local, list, elements>>
  BY DEF Spawn, Start, AtInstruction, history
<1>2. argc \in Nat
  <2>1. Head(code[c]) \in Code(program) /\ Head(code[c]).op = "Spawn"
    BY DEF Inv, TypeInv, CodeTyped, Spawn, AtInstruction
  <2>2. QED
    BY <2>1, ProgramsAssumption DEF Inv, TypeInv, Arg
<1>3. made \in [Core -> Nat] /\ made[d] = 0
  BY <1>1 DEF HeapInv, AddressesMade
<1>4. Fresh(c, 1) = <<c, made[c] + 1>> /\ Fresh(c, 1) \in Own(c)
  BY <1>3 DEF Fresh, Own
<1>5. left \in Seq(Reach(c)) /\ copies \in Seq(Reach(d))
  <2>1. Without(c, argc) \in Seq(Reach(c))
    BY <1>1, <1>2, OperandsOwned
  <2>2. left \in Seq(Reach(c))
    BY <1>4, <2>1 DEF Reach
  <2>3. copies \in Seq(Own(d))
    BY <1>2 DEF Own
  <2>4. QED
    BY <2>2, <2>3, SeqGrows DEF Reach
<1>6. DOMAIN cell' = DOMAIN cell \cup {Fresh(c, 1)} \cup {<<d, k>> : k \in 1..argc}
  <2>1. {copies[k] : k \in 1..argc} = {<<d, k>> : k \in 1..argc}
    OBVIOUS
  <2>2. QED
    BY <1>1, <2>1
<1> HIDE DEF left, copies, argc
<1>7. AddressesMade'
  <2>1. /\ made' \in [Core -> Nat] /\ made'[c] = made[c] + 1 /\ made'[d] = argc
        /\ \A e \in Core : made[e] <= made'[e]
    BY <1>1, <1>2, <1>3
  <2>2. \A e \in Core : pc'[e] = "none" => made'[e] = 0
    BY <1>1, <1>3 DEF HeapInv, AddressesMade, Inv, TypeInv, TypeOK
  <2>3. ASSUME NEW a \in DOMAIN cell \cup DOMAIN list
        PROVE  a \in Address /\ a[2] \in 1..made'[a[1]]
    <3>1. a \in Address /\ a[1] \in Core /\ a[2] \in 1..made[a[1]]
      BY DEF HeapInv, AddressesMade, Address
    <3>2. QED
      BY <1>3, <2>1, <3>1
  <2>4. Fresh(c, 1) \in Address /\ Fresh(c, 1)[2] \in 1..made'[Fresh(c, 1)[1]]
    BY <1>3, <1>4, <2>1 DEF Address
  <2>5. \A k \in 1..argc : <<d, k>> \in Address /\ <<d, k>>[2] \in 1..made'[<<d, k>>[1]]
    BY <1>2, <2>1 DEF Address
  <2>6. ASSUME NEW a \in DOMAIN cell' \cup DOMAIN list'
        PROVE  a \in Address /\ a[2] \in 1..made'[a[1]]
    <3>1. \/ a \in DOMAIN cell \cup DOMAIN list
          \/ a = Fresh(c, 1)
          \/ \E k \in 1..argc : a = <<d, k>>
      BY <1>1, <1>6
    <3>2. QED
      BY <2>3, <2>4, <2>5, <3>1
  <2>7. QED
    BY <2>1, <2>2, <2>6 DEF AddressesMade
<1>8. StacksOwned' /\ SlotsOwned'
  <2>1. \A e \in Core : Reach(e)' = Reach(e)
    BY <1>1 DEF Reach, Own
  <2>2. QED
    BY <1>1, <1>5, <2>1 DEF HeapInv, StacksOwned, SlotsOwned
<1>9. ListsOfElements'
  BY <1>1 DEF HeapInv, ListsOfElements, Inv, TypeInv, TypeOK
<1>10. OthersKept(c)
  <2>1. SUFFICES ASSUME NEW a \in DOMAIN cell, a[1] # c
                 PROVE  cell'[a] = cell[a]
    BY DEF OthersKept
  <2>2. a \in Address /\ a[1] \in Core /\ a[2] \in 1..made[a[1]]
    BY DEF HeapInv, AddressesMade, Address
  <2>3. a[1] # d
    BY <1>3, <2>2
  <2>4. a # Fresh(c, 1)
    BY <1>4, <2>1
  <2>5. QED
    BY <1>1, <2>3, <2>4
<1>11. QED
  BY <1>7, <1>8, <1>9, <1>10 DEF HeapInv

LEMMA CoreStepKeeps ==
  ASSUME Inv, HeapInv, NEW c \in Core, CoreStep(c)
  PROVE  HeapInv' /\ OthersKept(c)
BY PushNewKeeps, RegistersKeep, LockStepKeeps, EndReadKeeps, AnnounceKeeps, ListPushKeeps,
   BeginPushKeeps, EndPushKeeps, SpawnKeeps DEF CoreStep

LEMMA StepHeapInv == Inv /\ HeapInv /\ [Next]_vars => HeapInv'
<1> SUFFICES ASSUME Inv, HeapInv, [Next]_vars
             PROVE  HeapInv'
  OBVIOUS
<1>1. CASE UNCHANGED vars
  BY <1>1, QuietStepKeeps DEF vars, coreVars, heapVars, history
<1>2. QED
  BY <1>1, CoreStepKeeps, HostStepKeeps DEF Next, Stopped

-----------------------------------------------------------------------------
(* Theorems about cells.                                                   *)

LEMMA HeapInvHolds == Spec => []HeapInv
BY InitHeapInv, StepHeapInv, InvHolds, PTL DEF Spec

\* What Spawn, globals and lists hand over is copied (execute.go:70-75, 206-226): the
\* only cells to which two cores have pointers are elements of lists.
THEOREM SharedAreElements == Spec => []SharedCellsAreElements
BY HeapInvHolds, HeapInvImplies, PTL

\* No instruction changes a variable or an operand of another core: `*dest = *src`
\* (execute.go:250) reaches a core's own cells and elements of lists.
VariablesKept == \A c \in Core : CoreStep(c) => OthersKept(c)
THEOREM VariablesArePrivate == Spec => [][VariablesKept]_vars
<1>1. Inv /\ HeapInv /\ [Next]_vars => [VariablesKept]_vars
  BY CoreStepKeeps DEF VariablesKept
<1>2. QED
  BY <1>1, InvHolds, HeapInvHolds, PTL DEF Spec

-----------------------------------------------------------------------------
(* Pushes.                                                                 *)

\* No core has seen more writes than there were.
WritesCounted ==
  /\ DOMAIN writes = Name \cup DOMAIN list
  /\ \A o \in DOMAIN writes : writes[o] \in Nat
  /\ seen = [c \in Core |-> seen[c]]
  /\ \A c \in Core : \A o \in DOMAIN seen[c] :
       o \in DOMAIN writes /\ seen[c][o] \in Nat /\ seen[c][o] <= writes[o]

StoresNamed ==
  \A c \in Core : pc[c] \in {"announced", "writing", "written"} => Arg(c) \in Name

\* A core that appends to a header has read all pushes before, or the list is written
\* beside it and it will be seen.
PushesUnderway ==
  \A c \in Core : pc[c] = "appending" =>
    LET l == local[c].list
    IN /\ l \in DOMAIN seen[c]
       /\ l \notin overlapped /\ seen[c][l] = writes[l] => Len(local[c].header) = writes[l]

CountInv == WritesCounted /\ StoresNamed /\ PushesUnderway /\ PushesCount

LEMMA InitCountInv == Init => CountInv
BY DEF Init, CountInv, WritesCounted, StoresNamed, PushesUnderway, PushesCount

\* Cores that do not move keep the name at which they store.
LEMMA StoresNamedKept ==
  ASSUME Inv, StoresNamed,
         \A d \in Core : pc'[d] \in {"announced", "writing", "written"} =>
           \/ code'[d] = code[d] /\ pc[d] \in {"announced", "writing", "written"}
           \/ Arg(d)' \in Name
  PROVE  StoresNamed'
BY DEF StoresNamed, Arg

\* Steps that write nothing.
LEMMA UncountedKeeps ==
  ASSUME Inv, HeapInv, CountInv, StoresNamed', UNCHANGED <<list, writes, overlapped>>,
         \A d \in Core : pc'[d] = "appending" =>
           pc[d] = "appending" /\ local'[d] = local[d] /\ seen'[d] = seen[d],
         \/ seen' = seen
         \/ \E c \in Core : \E o : seen' = [seen EXCEPT ![c][o] = writes[o]]
  PROVE  CountInv'
<1>1. PushesCount' /\ PushesUnderway'
  BY DEF CountInv, PushesCount, PushesUnderway
<1>2. WritesCounted'
  <2>1. CASE seen' = seen
    BY <2>1 DEF CountInv, WritesCounted
  <2>2. ASSUME NEW c \in Core, NEW o, seen' = [seen EXCEPT ![c][o] = writes[o]]
        PROVE  WritesCounted'
    <3>1. seen = [d \in Core |-> seen[d]]
      BY DEF CountInv, WritesCounted
    <3>2. \A d \in Core \ {c} : seen'[d] = seen[d]
      BY <2>2, <3>1
    <3>3. seen'[c] = [seen[c] EXCEPT ![o] = writes[o]]
      BY <2>2, <3>1
    <3>4. DOMAIN seen'[c] = DOMAIN seen[c]
          /\ \A x \in DOMAIN seen[c] : seen'[c][x] = IF x = o THEN writes[o] ELSE seen[c][x]
      BY <3>3
    <3>5. seen' = [d \in Core |-> seen'[d]]
      BY <2>2, <3>1
    <3>6. ASSUME NEW d \in Core, NEW x \in DOMAIN seen'[d]
          PROVE  x \in DOMAIN writes /\ seen'[d][x] \in Nat /\ seen'[d][x] <= writes[x]
      <4>1. \A e \in Core : \A y \in DOMAIN seen[e] :
              y \in DOMAIN writes /\ writes[y] \in Nat /\ seen[e][y] \in Nat
                /\ seen[e][y] <= writes[y]
        BY DEF CountInv, WritesCounted
      <4>2. QED
        BY <3>2, <3>4, <4>1
    <3>7. QED
      BY <3>5, <3>6 DEF CountInv, WritesCounted
  <2>3. QED
    BY <2>1, <2>2
<1>3. QED
  BY <1>1, <1>2 DEF CountInv

\* A write of o by core c, that has seen all that others wrote before, or of a list by
\* one step.
LEMMA WriteKeeps ==
  ASSUME CountInv, NEW c \in Core, NEW o \in DOMAIN writes,
         writes' = [writes EXCEPT ![o] = @ + 1],
         seen' = [seen EXCEPT ![c] = With(@, o, writes[o] + 1)],
         DOMAIN list' = DOMAIN list
  PROVE  /\ WritesCounted'
         /\ writes'[o] = writes[o] + 1 /\ \A x \in DOMAIN writes : x # o => writes'[x] = writes[x]
         /\ \A d \in Core \ {c} : seen'[d] = seen[d]
         /\ \A d \in Core \ {c} : o \in DOMAIN seen[d] => seen[d][o] # writes'[o]
<1>1. writes'[o] = writes[o] + 1 /\ (\A x \in DOMAIN writes : x # o => writes'[x] = writes[x])
      /\ DOMAIN writes' = DOMAIN writes
  OBVIOUS
<1>2. seen = [d \in Core |-> seen[d]]
  BY DEF CountInv, WritesCounted
<1>3. seen'[c] = With(seen[c], o, writes[o] + 1) /\ \A d \in Core \ {c} : seen'[d] = seen[d]
  BY <1>2
<1>4. /\ DOMAIN seen'[c] = DOMAIN seen[c] \cup {o} /\ seen'[c][o] = writes[o] + 1
      /\ \A x \in DOMAIN seen[c] \ {o} : seen'[c][x] = seen[c][x]
  BY <1>3 DEF With
<1>5. seen' = [d \in Core |-> seen'[d]]
  BY <1>2
<1>6. \A x \in DOMAIN writes : writes[x] \in Nat /\ writes'[x] \in Nat /\ writes[x] <= writes'[x]
  BY <1>1 DEF CountInv, WritesCounted
<1>7. \A d \in Core : \A x \in DOMAIN seen[d] :
        x \in DOMAIN writes /\ seen[d][x] \in Nat /\ seen[d][x] <= writes[x]
  BY DEF CountInv, WritesCounted
<1>8. \A d \in Core : \A x \in DOMAIN seen'[d] :
        x \in DOMAIN writes /\ seen'[d][x] \in Nat /\ seen'[d][x] <= writes'[x]
  <2>1. ASSUME NEW d \in Core \ {c}, NEW x \in DOMAIN seen[d]
        PROVE  x \in DOMAIN writes /\ seen[d][x] \in Nat /\ seen[d][x] <= writes'[x]
    BY <1>6, <1>7
  <2>2. ASSUME NEW x \in DOMAIN seen'[c]
        PROVE  x \in DOMAIN writes /\ seen'[c][x] \in Nat /\ seen'[c][x] <= writes'[x]
    <3>1. CASE x = o
      BY <1>1, <1>4, <1>6, <3>1
    <3>2. CASE x \in DOMAIN seen[c] \ {o}
      BY <1>4, <1>6, <1>7, <3>2
    <3>3. QED
      BY <1>4, <3>1, <3>2
  <2>3. QED
    BY <1>3, <2>1, <2>2
<1>9. WritesCounted'
  BY <1>1, <1>5, <1>6, <1>8 DEF CountInv, WritesCounted
<1>10. \A d \in Core \ {c} : o \in DOMAIN seen[d] => seen[d][o] # writes'[o]
  BY <1>1, <1>6, <1>7
<1>11. QED
  BY <1>1, <1>3, <1>9, <1>10

LEMMA GlobalStoreKeeps ==
  ASSUME Inv, HeapInv, CountInv, NEW c \in Core, Write(c)
  PROVE  CountInv'
<1>1. /\ pc[c] = "writing" /\ pc' = [pc EXCEPT ![c] = "written"] /\ Counted(c, Arg(c))
      /\ UNCHANGED <<code, local, list>>
  BY DEF Write, coreVars, heapVars
<1>2. PICK x \in Name : x = Arg(c)
  BY <1>1 DEF CountInv, StoresNamed
<1>3. x \in DOMAIN writes /\ x \notin DOMAIN list
  BY ThreadsAssumption DEF CountInv, WritesCounted, HeapInv, AddressesMade, Address
<1>4. /\ WritesCounted'
      /\ \A y \in DOMAIN writes : y # x => writes'[y] = writes[y]
      /\ \A d \in Core \ {c} : seen'[d] = seen[d]
  BY <1>1, <1>2, <1>3, WriteKeeps DEF Counted
<1>5. pc \in [Core -> CorePC]
  BY DEF Inv, TypeInv, TypeOK
<1>6. StoresNamed'
  BY <1>1, <1>5, StoresNamedKept DEF CountInv
<1>7. overlapped' \in {overlapped, overlapped \cup {x}}
  BY <1>1, <1>2 DEF Counted
<1>8. PushesCount'
  BY <1>1, <1>3, <1>4, <1>7 DEF CountInv, PushesCount, WritesCounted
<1>9. PushesUnderway'
  <2>1. SUFFICES ASSUME NEW d \in Core, pc'[d] = "appending", NEW l, l = local[d].list
                 PROVE  /\ l \in DOMAIN seen'[d]
                        /\ l \notin overlapped' /\ seen'[d][l] = writes'[l]
                             => Len(local[d].header) = writes'[l]
    BY <1>1 DEF PushesUnderway
  <2>2. d # c /\ pc[d] = "appending"
    BY <1>1, <1>5, <2>1
  <2>3. l \in DOMAIN list
    BY <2>1, <2>2 DEF HeapInv, ListsOfElements
  <2>4. l # x /\ l \in DOMAIN writes
    BY <1>3, <2>3 DEF CountInv, WritesCounted
  <2>5. QED
    BY <1>4, <1>7, <2>1, <2>2, <2>4 DEF CountInv, PushesUnderway
<1>10. QED
  BY <1>4, <1>6, <1>8, <1>9 DEF CountInv

LEMMA ElementStoreKeeps ==
  ASSUME Inv, HeapInv, CountInv, NEW c \in Core, ListPush(c)
  PROVE  CountInv'
<1>1. PICK l \in DOMAIN list : /\ list' = [list EXCEPT ![l] = Append(@, Operand(c, 1))]
                              /\ writes' = [writes EXCEPT ![l] = @ + 1]
                              /\ seen' = [seen EXCEPT ![c] = With(@, l, writes[l] + 1)]
  BY DEF ListPush
<1>2. /\ pc[c] = "run" /\ UNCHANGED <<pc, local, overlapped>> /\ Continue(c)
  BY DEF ListPush, AtInstruction
<1>3. l \in DOMAIN writes /\ list[l] \in Seq(elements) /\ writes[l] \in Nat
  BY DEF CountInv, WritesCounted, HeapInv, ListsOfElements
<1>4. /\ WritesCounted' /\ writes'[l] = writes[l] + 1
      /\ \A x \in DOMAIN writes : x # l => writes'[x] = writes[x]
      /\ \A d \in Core \ {c} : seen'[d] = seen[d]
      /\ \A d \in Core \ {c} : l \in DOMAIN seen[d] => seen[d][l] # writes'[l]
  <2>1. DOMAIN list' = DOMAIN list
    BY <1>1
  <2>2. QED
    BY <1>1, <1>3, <2>1, WriteKeeps
<1>5. StoresNamed'
  <2>1. \A d \in Core \ {c} : code'[d] = code[d]
    BY <1>2 DEF Inv, TypeInv, CodeTyped, Continue
  <2>2. QED
    BY <1>2, <2>1, StoresNamedKept DEF CountInv
<1>6. PushesCount'
  <2>1. Len(list'[l]) = Len(list[l]) + 1
    <3>1. list'[l] = Append(list[l], Operand(c, 1))
      BY <1>1
    <3>2. QED
      BY <1>3, <3>1
  <2>2. \A m \in DOMAIN list : m # l => list'[m] = list[m] /\ m \in DOMAIN writes
    BY <1>1 DEF CountInv, WritesCounted
  <2>3. QED
    BY <1>1, <1>2, <1>4, <2>1, <2>2 DEF CountInv, PushesCount
<1>7. PushesUnderway'
  <2>1. SUFFICES ASSUME NEW d \in Core, pc[d] = "appending", NEW m, m = local[d].list
                 PROVE  /\ m \in DOMAIN seen'[d]
                        /\ m \notin overlapped /\ seen'[d][m] = writes'[m]
                             => Len(local[d].header) = writes'[m]
    BY <1>2 DEF PushesUnderway
  <2>2. d # c
    BY <1>2, <2>1
  <2>3. /\ m \in DOMAIN seen[d] /\ m \in DOMAIN writes
        /\ m \notin overlapped /\ seen[d][m] = writes[m] => Len(local[d].header) = writes[m]
    BY <2>1 DEF CountInv, PushesUnderway, WritesCounted
  <2>4. QED
    BY <1>4, <2>2, <2>3
<1>8. QED
  BY <1>4, <1>5, <1>6, <1>7 DEF CountInv

LEMMA NewListKeeps ==
  ASSUME Inv, HeapInv, CountInv, NEW c \in Core, CloningPush(c)
  PROVE  CountInv'
<1>1. /\ pc[c] = "run" /\ Continue(c) /\ list' = With(list, Fresh(c, 1), <<>>)
      /\ writes' = With(writes, Fresh(c, 1), 0)
      /\ UNCHANGED <<pc, local, seen, overlapped>>
  BY DEF CloningPush, AtInstruction, Outside
<1>2. PICK a \in Address : a = Fresh(c, 1)
  <2>1. Fresh(c, 1) \in Address
    BY DEF HeapInv, AddressesMade, Fresh, Address
  <2>2. QED
    BY <2>1
<1>3. a \notin DOMAIN list /\ a \notin Name
  <2>1. made[c] \in Nat /\ a[1] = c /\ a[2] = made[c] + 1
    BY <1>2 DEF HeapInv, AddressesMade, Fresh
  <2>2. a \notin DOMAIN list
    BY <2>1 DEF HeapInv, AddressesMade
  <2>3. QED
    BY <2>2, ThreadsAssumption DEF Address
<1>4. /\ DOMAIN list' = DOMAIN list \cup {a} /\ list'[a] = <<>>
      /\ \A l \in DOMAIN list : list'[l] = list[l]
      /\ DOMAIN writes' = DOMAIN writes \cup {a} /\ writes'[a] = 0
      /\ a \notin DOMAIN writes
      /\ \A o \in DOMAIN writes : writes'[o] = writes[o]
  BY <1>1, <1>2, <1>3 DEF With, CountInv, WritesCounted
<1>5. WritesCounted'
  <2>1. \A o \in DOMAIN writes' : writes'[o] \in Nat
    BY <1>4 DEF CountInv, WritesCounted
  <2>2. DOMAIN writes' = Name \cup DOMAIN list'
    BY <1>4 DEF CountInv, WritesCounted
  <2>3. \A d \in Core : \A o \in DOMAIN seen[d] :
          o \in DOMAIN writes' /\ seen[d][o] \in Nat /\ seen[d][o] <= writes'[o]
    BY <1>4 DEF CountInv, WritesCounted
  <2>4. QED
    BY <1>1, <2>1, <2>2, <2>3 DEF CountInv, WritesCounted
<1>6. StoresNamed'
  <2>1. \A d \in Core \ {c} : code'[d] = code[d]
    BY <1>1 DEF Inv, TypeInv, CodeTyped, Continue
  <2>2. QED
    BY <1>1, <2>1, StoresNamedKept DEF CountInv
<1>7. PushesCount'
  BY <1>1, <1>4 DEF CountInv, PushesCount, WritesCounted
<1>8. PushesUnderway'
  BY <1>1, <1>4 DEF CountInv, PushesUnderway, WritesCounted
<1>9. QED
  BY <1>5, <1>6, <1>7, <1>8 DEF CountInv

LEMMA HeaderReadKeeps ==
  ASSUME Inv, HeapInv, CountInv, NEW c \in Core, BeginPush(c)
  PROVE  CountInv'
<1>1. PICK l \in DOMAIN list :
        /\ local' = [local EXCEPT ![c] =
                      [list |-> l, header |-> list[l], arg |-> cell[Operand(c, 2)]]]
        /\ seen' = [seen EXCEPT ![c] = With(@, l, writes[l])]
  BY DEF BeginPush
<1>2. /\ pc[c] = "run" /\ pc' = [pc EXCEPT ![c] = "appending"]
      /\ UNCHANGED <<code, list, writes, overlapped>>
  BY DEF BeginPush, AtInstruction, heapVars
<1>3. pc \in [Core -> CorePC] /\ LocalTyped /\ seen = [d \in Core |-> seen[d]]
  BY DEF Inv, TypeInv, TypeOK, CountInv, WritesCounted
<1>4. /\ local'[c].list = l /\ local'[c].header = list[l]
      /\ \A d \in Core \ {c} : pc'[d] = pc[d] /\ local'[d] = local[d] /\ seen'[d] = seen[d]
  BY <1>1, <1>2, <1>3 DEF LocalTyped
<1>5. seen'[c] = With(seen[c], l, writes[l])
  BY <1>1, <1>3
<1>6. /\ DOMAIN seen'[c] = DOMAIN seen[c] \cup {l} /\ seen'[c][l] = writes[l]
      /\ \A o \in DOMAIN seen[c] \ {l} : seen'[c][o] = seen[c][o]
  BY <1>5 DEF With
<1>7. l \in DOMAIN writes /\ writes[l] \in Nat
  BY DEF CountInv, WritesCounted
<1>8. WritesCounted'
  <2>1. seen' = [d \in Core |-> seen'[d]]
    BY <1>1, <1>3
  <2>2. ASSUME NEW d \in Core, NEW o \in DOMAIN seen'[d]
        PROVE  o \in DOMAIN writes /\ seen'[d][o] \in Nat /\ seen'[d][o] <= writes[o]
    BY <1>4, <1>6, <1>7 DEF CountInv, WritesCounted
  <2>3. QED
    BY <1>2, <2>1, <2>2 DEF CountInv, WritesCounted
<1>9. StoresNamed'
  BY <1>2, <1>3, StoresNamedKept DEF CountInv
<1>10. PushesCount'
  BY <1>2 DEF CountInv, PushesCount
<1>11. PushesUnderway'
  <2>1. l \notin overlapped => Len(list[l]) = writes[l]
    BY DEF CountInv, PushesCount
  <2>2. ASSUME NEW d \in Core, d # c, pc'[d] = "appending"
        PROVE  LET m == local'[d].list
               IN /\ m \in DOMAIN seen'[d]
                  /\ m \notin overlapped' /\ seen'[d][m] = writes'[m]
                       => Len(local'[d].header) = writes'[m]
    BY <1>2, <1>4, <2>2 DEF CountInv, PushesUnderway
  <2>3. LET m == local'[c].list
        IN /\ m \in DOMAIN seen'[c]
           /\ m \notin overlapped' /\ seen'[c][m] = writes'[m]
                => Len(local'[c].header) = writes'[m]
    BY <1>2, <1>4, <1>6, <2>1
  <2>4. QED
    BY <2>2, <2>3 DEF PushesUnderway
<1>12. QED
  BY <1>8, <1>9, <1>10, <1>11 DEF CountInv

LEMMA HeaderWriteKeeps ==
  ASSUME Inv, HeapInv, CountInv, NEW c \in Core, EndPush(c)
  PROVE  CountInv'
<1>1. PICK l \in DOMAIN list : l = local[c].list
  BY DEF EndPush, HeapInv, ListsOfElements
<1>2. /\ pc[c] = "appending" /\ pc' = [pc EXCEPT ![c] = "run"]
      /\ list' = [list EXCEPT ![l] = Append(local[c].header, Fresh(c, 1))]
      /\ local' = [local EXCEPT ![c] = None]
      /\ Continue(c) /\ Counted(c, l)
  BY <1>1 DEF EndPush
<1>3. pc \in [Core -> CorePC] /\ LocalTyped
  BY DEF Inv, TypeInv, TypeOK
<1>4. /\ l \in DOMAIN writes /\ writes[l] \in Nat /\ local[c].header \in Seq(elements)
      /\ l \notin overlapped /\ seen[c][l] = writes[l] => Len(local[c].header) = writes[l]
  BY <1>1, <1>2 DEF CountInv, WritesCounted, PushesUnderway, HeapInv, ListsOfElements
<1>5. DOMAIN list' = DOMAIN list /\ \A m \in DOMAIN list : m # l => list'[m] = list[m]
  BY <1>2
<1>6. /\ WritesCounted' /\ writes'[l] = writes[l] + 1
      /\ \A x \in DOMAIN writes : x # l => writes'[x] = writes[x]
      /\ \A d \in Core \ {c} : seen'[d] = seen[d]
      /\ \A d \in Core \ {c} : l \in DOMAIN seen[d] => seen[d][l] # writes'[l]
  BY <1>2, <1>4, <1>5, WriteKeeps DEF Counted
<1>7. /\ overlapped \subseteq overlapped'
      /\ l \notin overlapped' => seen[c][l] = writes[l]
  BY <1>2 DEF Counted
<1>8. \A d \in Core \ {c} : pc'[d] = pc[d] /\ local'[d] = local[d] /\ code'[d] = code[d]
  BY <1>2, <1>3 DEF LocalTyped, Inv, TypeInv, CodeTyped, Continue
<1>9. StoresNamed'
  BY <1>2, <1>3, <1>8, StoresNamedKept DEF CountInv
<1>10. PushesCount'
  <2>1. list'[l] = Append(local[c].header, Fresh(c, 1))
    BY <1>2
  <2>2. Len(list'[l]) = Len(local[c].header) + 1
    BY <1>4, <2>1
  <2>3. \A m \in DOMAIN list : m \in DOMAIN writes
    BY DEF CountInv, WritesCounted
  <2>4. QED
    BY <1>4, <1>5, <1>6, <1>7, <2>2, <2>3 DEF CountInv, PushesCount
<1>11. PushesUnderway'
  <2>1. SUFFICES ASSUME NEW d \in Core, pc'[d] = "appending", NEW m, m = local'[d].list
                 PROVE  /\ m \in DOMAIN seen'[d]
                        /\ m \notin overlapped' /\ seen'[d][m] = writes'[m]
                             => Len(local'[d].header) = writes'[m]
    BY DEF PushesUnderway
  <2>2. d # c
    BY <1>2, <1>3, <2>1
  <2>3. /\ m = local[d].list /\ local'[d] = local[d] /\ seen'[d] = seen[d]
        /\ m \in DOMAIN seen[d] /\ m \in DOMAIN writes
        /\ m \notin overlapped /\ seen[d][m] = writes[m] => Len(local[d].header) = writes[m]
    BY <1>6, <1>8, <2>1, <2>2 DEF CountInv, PushesUnderway, WritesCounted
  <2>4. QED
    BY <1>6, <1>7, <2>2, <2>3
<1>12. QED
  BY <1>6, <1>9, <1>10, <1>11 DEF CountInv

\* All the other steps.
LEMMA OtherStepKeeps ==
  ASSUME Inv, HeapInv, CountInv,
         \/ \E c \in Core :
              \/ CopyPush(c) \/ Add(c) \/ GetVarImm(c) \/ SetVarImm(c)
              \/ DropOperand(c) \/ Index(c) \/ Assign(c)
              \/ BeginRead(c) \/ Read(c) \/ EndRead(c)
              \/ Announce(c) \/ BeginWrite(c) \/ EndWrite(c)
              \/ (\E d \in Core : Spawn(c, d))
              \/ End(c)
         \/ HostStep
         \/ UNCHANGED vars
  PROVE  CountInv'
<1> USE DEF history, coreVars, heapVars, Outside
<1>1. pc \in [Core -> CorePC] /\ LocalTyped /\ CodeTyped
  BY DEF Inv, TypeInv, TypeOK
<1>2. CASE HostStep
  <2>1. UNCHANGED <<local, list, writes, overlapped, seen>>
    BY <1>2 DEF HostStep, HostSpawns, Receive, Drop, WaitReturns, ReturnVM, ReadGlobals
  <2>2. \A d \in Core :
          \/ pc'[d] \in {"run", "done"}
          \/ pc'[d] = pc[d] /\ code'[d] = code[d]
    BY <1>1, <1>2 DEF HostStep, HostSpawns, Receive, Drop, WaitReturns, ReturnVM,
                      ReadGlobals, Start, CodeTyped
  <2>3. StoresNamed'
    BY <2>2, StoresNamedKept DEF CountInv
  <2>4. QED
    BY <2>1, <2>2, <2>3, UncountedKeeps
<1>3. CASE UNCHANGED vars
  BY <1>3, StoresNamedKept, UncountedKeeps DEF vars, CountInv
<1>4. ASSUME NEW c \in Core, NEW d \in Core, Spawn(c, d)
      PROVE  CountInv'
  <2>1. UNCHANGED <<local, list, writes, overlapped, seen>>
    BY <1>4 DEF Spawn
  <2>2. /\ pc[c] = "run" /\ pc' = [pc EXCEPT ![d] = "run"]
        /\ \A e \in Core \ {c, d} : code'[e] = code[e]
    BY <1>1, <1>4 DEF Spawn, AtInstruction, CodeTyped
  <2>3. StoresNamed'
    BY <1>1, <2>2, StoresNamedKept DEF CountInv
  <2>4. QED
    BY <1>1, <2>1, <2>2, <2>3, UncountedKeeps
<1>5. ASSUME NEW c \in Core,
             \/ CopyPush(c) \/ Add(c) \/ GetVarImm(c) \/ SetVarImm(c)
             \/ DropOperand(c) \/ Index(c) \/ Assign(c)
      PROVE  CountInv'
  <2>1. pc[c] = "run" /\ UNCHANGED <<pc, local, list, writes, overlapped, seen>> /\ Continue(c)
    BY <1>5 DEF CopyPush, Add, GetVarImm, SetVarImm, DropOperand, Index, Assign, AtInstruction
  <2>2. \A d \in Core \ {c} : code'[d] = code[d]
    BY <1>1, <2>1 DEF Continue, CodeTyped
  <2>3. StoresNamed'
    BY <2>1, <2>2, StoresNamedKept DEF CountInv
  <2>4. QED
    BY <2>1, <2>3, UncountedKeeps
<1>6. ASSUME NEW c \in Core,
             \/ BeginRead(c) \/ Read(c) \/ EndRead(c)
             \/ Announce(c) \/ BeginWrite(c) \/ EndWrite(c) \/ End(c)
      PROVE  CountInv'
  <2>1. /\ UNCHANGED <<list, writes, overlapped>>
        /\ pc[c] # "appending"
        /\ \E p \in CorePC \ {"appending"} : pc' = [pc EXCEPT ![c] = p]
        /\ local' = local \/ \E v : local' = [local EXCEPT ![c] = v]
        /\ \/ seen' = seen
           \/ seen' = [seen EXCEPT ![c][Arg(c)] = writes[Arg(c)]]
    BY <1>6 DEF BeginRead, Read, EndRead, Announce, BeginWrite, EndWrite, End,
                AtInstruction, CorePC
  <2>2. \A d \in Core \ {c} : pc'[d] = pc[d] /\ local'[d] = local[d] /\ seen'[d] = seen[d]
    BY <1>1, <2>1 DEF LocalTyped, CountInv, WritesCounted
  <2>3. pc'[c] # "appending"
    BY <1>1, <2>1
  <2>4. \A d \in Core \ {c} : code'[d] = code[d]
    BY <1>1, <1>6 DEF BeginRead, Read, EndRead, Announce, BeginWrite, EndWrite, End,
                      Continue, CodeTyped
  <2>5. pc'[c] \in {"announced", "writing", "written"} =>
          \/ code'[c] = code[c] /\ pc[c] \in {"announced", "writing", "written"}
          \/ Arg(c)' \in Name
    <3>1. CASE Announce(c)
      BY <3>1, InstructionNamesGlobal DEF Announce, Arg
    <3>2. CASE BeginWrite(c)
      BY <3>2 DEF BeginWrite
    <3>3. CASE BeginRead(c) \/ Read(c) \/ EndRead(c) \/ EndWrite(c) \/ End(c)
      BY <1>1, <3>3 DEF BeginRead, Read, EndRead, EndWrite, End
    <3>4. QED
      BY <1>6, <3>1, <3>2, <3>3
  <2>6. StoresNamed'
    BY <2>2, <2>4, <2>5, StoresNamedKept DEF CountInv
  <2>7. QED
    BY <2>1, <2>2, <2>3, <2>6, UncountedKeeps
<1>7. QED
  BY <1>2, <1>3, <1>4, <1>5, <1>6

LEMMA StepCountInv == Inv /\ HeapInv /\ CountInv /\ [Next]_vars => CountInv'
BY GlobalStoreKeeps, ElementStoreKeeps, NewListKeeps, HeaderReadKeeps, HeaderWriteKeeps,
   OtherStepKeeps DEF Next, CoreStep, Stopped

\* A push that vanishes from a list was beside another one: `append` to a header that
\* is older than the list (valueList.go:108).
THEOREM PushesAreLostOnlyByOverlap == Spec => []PushesCount
<1>1. CountInv => PushesCount
  BY DEF CountInv
<1>2. QED
  BY <1>1, InitCountInv, StepCountInv, InvHolds, HeapInvHolds, PTL DEF Spec
=============================================================================
