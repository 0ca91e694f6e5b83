------------------------ MODULE GlobalsStores_proof ------------------------
(***************************************************************************)
(* The theorem about stores to globals, for any programs that count and    *)
(* any number of cores: an update is lost only if another came between.    *)
(* What is stored is known from the instructions that come before the      *)
(* store, so the invariant says where in its routine each core is and what *)
(* that tells of its operands.                                             *)
(***************************************************************************)
EXTENDS GlobalsHeap_proof

-----------------------------------------------------------------------------
(* Stores.  What a core is about to store is known from the instructions   *)
(* that it has just run.                                                   *)

\* Core c is at instruction i of routine r.
At(c, r, i) ==
  /\ r \in DOMAIN program /\ i \in 1..(Len(program[r]) + 1)
  /\ code[c] = SubSeq(program[r], i, Len(program[r]))

\* A cell that nobody else can change.
Private(c, a) == a \in DOMAIN cell /\ a[1] = c /\ a \notin elements

\* Nobody has stored in x since core c has read it.
Current(c, x) == x \notin overlapped /\ seen[c][x] = writes[x]

Adds(routine, i, x) ==
  /\ i > 3 /\ Is(routine[i - 3], "GetGlobImm", x)
  /\ Is(routine[i - 2], "Copy_Push", 1) /\ routine[i - 1].op = "Add"

\* The operands that x += 1 has pushed so far, and those of literals.
OperandsKnown(c, r, i) ==
  LET p == program[r]
      top == Operand(c, 1)
      below == Operand(c, 2)
  IN  /\ \A x \in Tallies(program) :
           /\ i > 1 /\ Is(p[i - 1], "GetGlobImm", x) =>
                /\ Len(stack[c]) >= 1 /\ Private(c, top)
                /\ Current(c, x) => cell[top] = Int64(writes[x] - 1)
           /\ i > 2 /\ Is(p[i - 2], "GetGlobImm", x) /\ p[i - 1].op = "Copy_Push" =>
                /\ Len(stack[c]) >= 2 /\ Private(c, below) /\ below # top
                /\ Current(c, x) => cell[below] = Int64(writes[x] - 1)
           /\ Adds(p, i, x) =>
                /\ Len(stack[c]) >= 1 /\ Private(c, top)
                /\ Current(c, x) => cell[top] = Int64(writes[x])
      /\ i > 1 /\ p[i - 1].op = "Copy_Push" =>
           Len(stack[c]) >= 1 /\ Private(c, top) /\ cell[top] = Int64(p[i - 1].arg)
      /\ i > 1 /\ p[i - 1].op = "Cloning_Push" =>
           Len(stack[c]) >= 1 /\ Private(c, top) /\ "list" \in DOMAIN cell[top]
      /\ i > 2 /\ p[i - 2].op = "Cloning_Push" /\ p[i - 1].op = "Copy_Push" =>
           /\ Len(stack[c]) >= 2 /\ Private(c, below) /\ below # top
           /\ "list" \in DOMAIN cell[below]
      /\ StoresList(p, i) =>
           Len(stack[c]) >= 1 /\ Private(c, top) /\ "list" \in DOMAIN cell[top]

\* What has been read, and what is to be stored.
LocalKnown(c, r, i) ==
  LET p == program[r]
  IN  /\ \A x \in Tallies(program) :
           pc[c] = "read" /\ Is(p[i], "GetGlobImm", x) /\ Current(c, x)
             => local[c] = Int64(writes[x] - 1)
      /\ pc[c] \in {"announced", "writing"} =>
           /\ \A x \in Tallies(program) : Adds(p, i, x) /\ Current(c, x)
                => local[c] = Int64(writes[x])
           /\ StoresZero(p, i) => local[c] = Int64(0)
           /\ StoresList(p, i) => "list" \in DOMAIN local[c]

\* Globals that count are initialized once, before anything else is done with them.
OnceInitialized(c, r, i) ==
  /\ r # "init" => \A x \in Tallies(program) : writes[x] > 0
  /\ r = "init" =>
       /\ home[c] = "first"
       /\ \A x \in Name : \A j \in DOMAIN program["init"] : Initializes(program, x, j) =>
            IF j < i \/ (j = i /\ pc[c] = "written") THEN writes[x] > 0 ELSE writes[x] = 0

Located(c) ==
  \E r \in DOMAIN program : \E i \in 1..(Len(program[r]) + 1) :
    /\ At(c, r, i)
    /\ pc[c] = "run" => OperandsKnown(c, r, i)
    /\ LocalKnown(c, r, i)
    /\ OnceInitialized(c, r, i)

AllLocated == \A c \in Core : pc[c] # "none" => Located(c)

EndedAtEnd == \A c \in Core : pc[c] \in {"ended", "done"} => code[c] = <<>>

\* A core that accesses a global is at the instruction that does.
InsideAccess ==
  \A c \in Core :
    /\ pc[c] \in {"reading", "read"} => Head(code[c]).op = "GetGlobImm"
    /\ pc[c] \in {"announced", "writing", "written"} => Head(code[c]).op = "SetGlobImm"
    /\ pc[c] = "appending" => Head(code[c]).op = "push"

\* The init function has run when NewVM is done with it.
InitRun ==
  /\ host = "new" => \A x \in Name : writes[x] = 0
  /\ host # "new" => \E c \in Core : pc[c] # "none"
  /\ host = "copy" \/ vm = "returned" => \A x \in Tallies(program) : writes[x] > 0

MapsOfGlobals == DOMAIN data = Name /\ \A c \in Core : Name \subseteq DOMAIN seen[c]

\* Cells to which there are pointers have been made.
MadeAddresses == {a \in Address : a[2] <= made[a[1]]}
PointersMade ==
  /\ elements \subseteq MadeAddresses
  /\ \A c \in Core : /\ stack[c] \in Seq(MadeAddresses)
                     /\ \A k \in DOMAIN slots[c] : slots[c][k] \in MadeAddresses

StoreInv ==
  /\ AllLocated /\ EndedAtEnd /\ InsideAccess /\ InitRun /\ MapsOfGlobals /\ PointersMade
  /\ StoresCount

\* Sequences that agree everywhere are equal.
LEMMA SameSequence ==
  ASSUME NEW S, NEW s \in Seq(S), NEW t \in Seq(S), Len(s) = Len(t),
         \A k \in 1..Len(t) : s[k] = t[k]
  PROVE  s = t
<1>1. s = [k \in 1..Len(s) |-> s[k]]
  OBVIOUS
<1>2. t = [k \in 1..Len(t) |-> t[k]]
  OBVIOUS
<1>3. QED
  BY <1>1, <1>2

LEMMA Suffixes ==
  ASSUME NEW S, NEW s \in Seq(S), NEW i \in 1..(Len(s) + 1)
  PROVE  /\ i <= Len(s) =>
              /\ SubSeq(s, i, Len(s)) # <<>>
              /\ Head(SubSeq(s, i, Len(s))) = s[i]
              /\ Tail(SubSeq(s, i, Len(s))) = SubSeq(s, i + 1, Len(s))
         /\ i = Len(s) + 1 => SubSeq(s, i, Len(s)) = <<>>
<1>1. Len(s) \in Nat /\ i \in Nat
  OBVIOUS
<1>2. ASSUME i <= Len(s)
      PROVE  /\ SubSeq(s, i, Len(s)) # <<>>
             /\ Head(SubSeq(s, i, Len(s))) = s[i]
             /\ Tail(SubSeq(s, i, Len(s))) = SubSeq(s, i + 1, Len(s))
  <2> DEFINE t == SubSeq(s, i, Len(s))
             u == SubSeq(s, i + 1, Len(s))
  <2>1. t \in Seq(S) /\ Len(t) = Len(s) - i + 1 /\ \A k \in 1..Len(t) : t[k] = s[i + k - 1]
    BY <1>1, <1>2
  <2>2. u \in Seq(S) /\ Len(u) = Len(s) - i /\ \A k \in 1..Len(u) : u[k] = s[i + k]
    BY <1>1, <1>2
  <2> HIDE DEF t, u
  <2>3. t # <<>> /\ Head(t) = s[i]
    BY <1>1, <1>2, <2>1
  <2>4. Tail(t) \in Seq(S) /\ Len(Tail(t)) = Len(u) /\ \A k \in 1..Len(u) : Tail(t)[k] = u[k]
    <3>1. Len(t) \in Nat \ {0}
      BY <1>1, <1>2, <2>1
    <3>2. /\ Tail(t) \in Seq(S) /\ Len(Tail(t)) = Len(t) - 1
          /\ \A k \in 1..(Len(t) - 1) : Tail(t)[k] = t[k + 1]
      BY <2>1, <2>3, <3>1
    <3>3. ASSUME NEW k \in 1..Len(u)
          PROVE  Tail(t)[k] = u[k]
      <4>1. k \in 1..(Len(t) - 1) /\ k + 1 \in 1..Len(t) /\ i + (k + 1) - 1 = i + k
        BY <1>1, <2>1, <2>2, <3>1
      <4>2. Tail(t)[k] = s[i + k]
        BY <2>1, <3>2, <4>1
      <4>3. QED
        BY <2>2, <4>2
    <3>4. Len(Tail(t)) = Len(u)
      <4>1. (Len(s) - i + 1) - 1 = Len(s) - i
        BY <1>1
      <4>2. Len(Tail(t)) = (Len(s) - i + 1) - 1
        BY <2>1, <3>2
      <4>3. QED
        BY <2>2, <4>1, <4>2
    <3>5. Tail(t) \in Seq(S)
      BY <3>2
    <3>6. QED
      BY <3>3, <3>4, <3>5
  <2>5. Tail(t) = u
    BY <2>2, <2>4, SameSequence
  <2>6. QED
    BY <2>3, <2>5 DEF t, u
<1>3. QED
  BY <1>1, <1>2

\* The next instruction of a core, and where it is afterwards.
LEMMA AtInstructionOf ==
  ASSUME Inv, NEW c \in Core, NEW r, NEW i, At(c, r, i)
  PROVE  /\ r \in DOMAIN program /\ program[r] \in Seq(Code(program))
         /\ Len(program[r]) \in Nat /\ DOMAIN program[r] = 1..Len(program[r])
         /\ i \in Nat \ {0} /\ i <= Len(program[r]) + 1
         /\ code[c] = <<>> <=> i = Len(program[r]) + 1
         /\ code[c] # <<>> => i <= Len(program[r]) /\ Head(code[c]) = program[r][i]
         /\ code[c] # <<>> /\ code'[c] = Tail(code[c]) /\ program' = program
              => At(c, r, i + 1)'
<1>1. r \in DOMAIN program /\ i \in 1..(Len(program[r]) + 1)
      /\ code[c] = SubSeq(program[r], i, Len(program[r]))
  BY DEF At
<1>2. program[r] \in Seq(Code(program))
  BY <1>1, RoutineTyped
<1>3. Len(program[r]) \in Nat /\ DOMAIN program[r] = 1..Len(program[r])
  BY <1>2
<1>4. /\ i <= Len(program[r]) =>
           /\ code[c] # <<>> /\ Head(code[c]) = program[r][i]
           /\ Tail(code[c]) = SubSeq(program[r], i + 1, Len(program[r]))
      /\ i = Len(program[r]) + 1 => code[c] = <<>>
  BY <1>1, <1>2, Suffixes
<1>5. i \in Nat \ {0} /\ i <= Len(program[r]) + 1
      /\ (i = Len(program[r]) + 1 \/ i <= Len(program[r]))
  BY <1>1, <1>3
<1>6. ASSUME code[c] # <<>>, code'[c] = Tail(code[c]), program' = program
      PROVE  At(c, r, i + 1)'
  <2>1. i + 1 \in 1..(Len(program[r]) + 1)
    BY <1>3, <1>4, <1>5, <1>6
  <2>2. QED
    BY <1>1, <1>4, <1>5, <1>6, <2>1 DEF At
<1>7. QED
  BY <1>1, <1>2, <1>3, <1>4, <1>5, <1>6

LEMMA AtKept ==
  ASSUME NEW c \in Core, NEW r, NEW i, At(c, r, i), program' = program, code'[c] = code[c]
  PROVE  At(c, r, i)'
BY DEF At

-----------------------------------------------------------------------------
(* What a core knows stays true while others run.                          *)

Beside(d) ==
  /\ program' = program
  /\ \A x \in Name : Current(d, x)' => Current(d, x) /\ writes'[x] = writes[x]
  /\ \A a : Private(d, a) => Private(d, a)' /\ cell'[a] = cell[a]

LEMMA KnownBeside ==
  ASSUME NEW d \in Core, Beside(d), NEW r, NEW i,
         stack'[d] = stack[d], local'[d] = local[d], pc'[d] = pc[d]
  PROVE  /\ OperandsKnown(d, r, i) => OperandsKnown(d, r, i)'
         /\ LocalKnown(d, r, i) => LocalKnown(d, r, i)'
<1>1. Tallies(program)' = Tallies(program) /\ Tallies(program) \subseteq Name
  BY DEF Beside, Tallies, Initializes, StoresZero, Is
<1>2. Operand(d, 1)' = Operand(d, 1) /\ Operand(d, 2)' = Operand(d, 2)
  BY DEF Operand
<1>3. ASSUME OperandsKnown(d, r, i)
      PROVE  OperandsKnown(d, r, i)'
  BY <1>1, <1>2, <1>3 DEF Beside, OperandsKnown, Adds, Is, StoresList
<1>4. ASSUME LocalKnown(d, r, i)
      PROVE  LocalKnown(d, r, i)'
  BY <1>1, <1>4 DEF Beside, LocalKnown, Adds, Is, StoresZero, StoresList
<1>5. QED
  BY <1>3, <1>4

\* What a step of core c leaves to core d.
LEMMA NamesBeside ==
  ASSUME Inv, HeapInv, CountInv, MapsOfGlobals, NEW c \in Core, CoreStep(c), NEW d \in Core,
         d = c => ~Read(c) /\ ~Write(c), NEW x \in Name
  PROVE  /\ Current(d, x)' => Current(d, x) /\ writes'[x] = writes[x]
         /\ x \notin overlapped' => x \notin overlapped
<1>1. /\ x \in DOMAIN writes /\ x \notin DOMAIN list /\ x \notin Address /\ x \in DOMAIN seen[d]
      /\ seen = [e \in Core |-> seen[e]]
  BY ThreadsAssumption DEF CountInv, WritesCounted, HeapInv, AddressesMade, Address, MapsOfGlobals
<1>2. CASE Write(c)
  <2>1. PICK y \in Name : y = Arg(c)
    BY <1>2 DEF Write, CountInv, StoresNamed
  <2>2. y \in DOMAIN writes /\ list' = list /\ Counted(c, y)
    BY <1>2, <2>1 DEF CountInv, WritesCounted, Write, heapVars
  <2>3. /\ \A z \in DOMAIN writes : z # y => writes'[z] = writes[z]
        /\ \A e \in Core \ {c} : seen'[e] = seen[e]
        /\ \A e \in Core \ {c} : y \in DOMAIN seen[e] => seen[e][y] # writes'[y]
        /\ overlapped \subseteq overlapped'
    BY <2>2, WriteKeeps DEF Counted
  <2>4. QED
    BY <1>1, <1>2, <2>3 DEF Current
<1>3. CASE Read(c)
  <2>1. /\ UNCHANGED <<writes, overlapped>>
        /\ seen' = [seen EXCEPT ![c][Arg(c)] = writes[Arg(c)]]
    BY <1>3 DEF Read
  <2>2. seen'[d] = seen[d]
    BY <1>1, <1>3, <2>1
  <2>3. QED
    BY <2>1, <2>2 DEF Current
<1>4. CASE ListPush(c) \/ BeginPush(c)
  <2>1. PICK l \in DOMAIN list :
          /\ \E n : seen' = [seen EXCEPT ![c] = With(@, l, n)]
          /\ writes' = writes \/ writes' = [writes EXCEPT ![l] = @ + 1]
    BY <1>4 DEF ListPush, BeginPush
  <2>2. writes'[x] = writes[x] /\ seen'[d][x] = seen[d][x] /\ overlapped' = overlapped
    BY <1>1, <1>4, <2>1 DEF With, ListPush, BeginPush
  <2>3. QED
    BY <2>2 DEF Current
<1>5. CASE EndPush(c)
  <2>1. PICK l \in DOMAIN list : l = local[c].list
    BY <1>5 DEF EndPush, HeapInv, ListsOfElements
  <2>2. /\ writes' = [writes EXCEPT ![l] = @ + 1]
        /\ seen' = [seen EXCEPT ![c] = With(@, l, writes[l] + 1)]
        /\ overlapped \subseteq overlapped'
    BY <1>5, <2>1 DEF EndPush, Counted
  <2>3. writes'[x] = writes[x] /\ seen'[d][x] = seen[d][x]
    BY <1>1, <2>2 DEF With
  <2>4. QED
    BY <2>2, <2>3 DEF Current
<1>6. CASE CloningPush(c)
  <2>1. Fresh(c, 1) \in Address
    BY DEF HeapInv, AddressesMade, Fresh, Address
  <2>2. writes'[x] = writes[x] /\ UNCHANGED <<seen, overlapped>>
    BY <1>1, <1>6, <2>1 DEF CloningPush, With
  <2>3. QED
    BY <2>2 DEF Current
<1>7. CASE UNCHANGED <<seen, writes, overlapped>>
  BY <1>7 DEF Current
<1>8. QED
  BY <1>2, <1>3, <1>4, <1>5, <1>6, <1>7
     DEF CoreStep, CopyPush, Add, GetVarImm, SetVarImm, DropOperand, Index, Assign, BeginRead,
         EndRead, Announce, BeginWrite, EndWrite, Spawn, End, history

\* Globals are written only by Write.
LEMMA WritesGrow ==
  ASSUME Inv, HeapInv, CountInv, NEW c \in Core, CoreStep(c), NEW x \in Name
  PROVE  /\ writes[x] > 0 => writes'[x] > 0
         /\ ~Write(c) => writes'[x] = writes[x] /\ UNCHANGED data
<1>1. x \in DOMAIN writes /\ x \notin DOMAIN list /\ x \notin Address /\ writes[x] \in Nat
  BY ThreadsAssumption DEF CountInv, WritesCounted, HeapInv, AddressesMade, Address
<1>2. CASE Write(c)
  <2>1. writes' = [writes EXCEPT ![Arg(c)] = @ + 1]
    BY <1>2 DEF Write, Counted
  <2>2. QED
    BY <1>1, <1>2, <2>1
<1>3. CASE ListPush(c)
  <2>1. PICK l \in DOMAIN list : writes' = [writes EXCEPT ![l] = @ + 1]
    BY <1>3 DEF ListPush
  <2>2. QED
    BY <1>1, <1>3, <2>1 DEF ListPush
<1>4. CASE EndPush(c)
  <2>1. local[c].list \in DOMAIN list /\ writes' = [writes EXCEPT ![local[c].list] = @ + 1]
    BY <1>4 DEF EndPush, Counted, HeapInv, ListsOfElements
  <2>2. QED
    BY <1>1, <1>4, <2>1 DEF EndPush
<1>5. CASE CloningPush(c)
  <2>1. Fresh(c, 1) \in Address
    BY DEF HeapInv, AddressesMade, Fresh, Address
  <2>2. writes' = With(writes, Fresh(c, 1), 0) /\ UNCHANGED data
    BY <1>5 DEF CloningPush, Outside
  <2>3. QED
    BY <1>1, <2>1, <2>2 DEF With
<1>6. CASE UNCHANGED <<writes, data>>
  BY <1>6
<1>7. QED
  BY <1>2, <1>3, <1>4, <1>5, <1>6
     DEF CoreStep, CopyPush, Add, GetVarImm, SetVarImm, DropOperand, Index, Assign, BeginRead,
         Read, EndRead, Announce, BeginWrite, EndWrite, BeginPush, Spawn, End, history, Outside

\* Elements are added from what a core has pointers to, and cells are never taken away.
LEMMA PrivateBeside ==
  ASSUME Inv, HeapInv, NEW c \in Core, CoreStep(c), NEW d \in Core, d # c, NEW a, Private(d, a)
  PROVE  Private(d, a)' /\ cell'[a] = cell[a]
<1>1. cell'[a] = cell[a]
  BY CoreStepKeeps DEF OthersKept, Private
<1>2. DOMAIN cell \subseteq DOMAIN cell'
  BY DEF CoreStep, CopyPush, CloningPush, Add, GetVarImm, SetVarImm, DropOperand, Index, Assign,
         BeginRead, Read, EndRead, Announce, BeginWrite, Write, EndWrite, ListPush, BeginPush,
         EndPush, Spawn, End, PushNew, With, heapVars
<1>3. elements' \subseteq Reach(c)
  <2>1. CASE ListPush(c)
    <3>1. Len(stack[c]) >= 1
      BY <2>1 DEF ListPush, AtInstruction, HeapInv, StacksOwned
    <3>2. Operand(c, 1) \in Reach(c)
      BY <3>1, OperandsOwned
    <3>3. QED
      BY <2>1, <3>2 DEF ListPush, Reach
  <2>2. CASE EndPush(c)
    BY <2>2 DEF EndPush, Reach, Own, Fresh, HeapInv, AddressesMade
  <2>3. CASE UNCHANGED elements
    BY <2>3 DEF Reach
  <2>4. QED
    BY <2>1, <2>2, <2>3
       DEF CoreStep, CopyPush, CloningPush, Add, GetVarImm, SetVarImm, DropOperand, Index, Assign,
           BeginRead, Read, EndRead, Announce, BeginWrite, Write, EndWrite, BeginPush, Spawn, End,
           history
<1>4. QED
  BY <1>1, <1>2, <1>3 DEF Private, Reach, Own

LEMMA StepBeside ==
  ASSUME Inv, HeapInv, CountInv, MapsOfGlobals, NEW c \in Core, CoreStep(c),
         NEW d \in Core, d # c
  PROVE  Beside(d)
<1>1. program' = program
  BY DEF CoreStep, CopyPush, CloningPush, Add, GetVarImm, SetVarImm, DropOperand, Index, Assign,
         BeginRead, Read, EndRead, Announce, BeginWrite, Write, EndWrite, ListPush, BeginPush,
         EndPush, Spawn, End, Outside
<1>2. QED
  BY <1>1, NamesBeside, PrivateBeside DEF Beside

-----------------------------------------------------------------------------
(* Cores that do not move.                                                 *)

\* The init function runs alone.
LEMMA InitAlone ==
  ASSUME Inv, InitStartsNoCore(program),
         EndedAtEnd, NEW c \in Core, Live(c), NEW d \in Core, d # c, pc[d] # "none",
         home[d] = "first"
  PROVE  code[d] = <<>>
<1>1. vm = "returned"
  BY DEF Inv, CopiesInv, TypeInv, TypeOK, Copy, FirstCopy, Live
<1>2. ~Live(d)
  BY <1>1 DEF Inv, CopiesInv, NoneLeft, MayStray
<1>3. QED
  BY <1>2 DEF Live, EndedAtEnd

LEMMA OnceBeside ==
  ASSUME Inv, InitStartsNoCore(program),
         HeapInv, CountInv, MapsOfGlobals, EndedAtEnd, NEW c \in Core, CoreStep(c),
         program' = program, NEW d \in Core, d # c, pc[d] # "none",
         home'[d] = home[d], pc'[d] = pc[d], NEW r, NEW i, At(d, r, i), OnceInitialized(d, r, i)
  PROVE  OnceInitialized(d, r, i)'
<1>1. Tallies(program) \subseteq Name
  BY DEF Tallies
<1>2. \A x \in Name : writes[x] > 0 => writes'[x] > 0
  BY WritesGrow
<1>3. ASSUME r = "init", NEW x \in Name, NEW j \in DOMAIN program["init"],
             Initializes(program, x, j)
      PROVE  IF j < i \/ (j = i /\ pc[d] = "written") THEN writes'[x] > 0 ELSE writes'[x] = 0
  <2>1. Live(c)
    BY DEF Live, CoreStep, CopyPush, CloningPush, Add, GetVarImm, SetVarImm, DropOperand, Index,
           Assign, BeginRead, Read, EndRead, Announce, BeginWrite, Write, EndWrite, ListPush,
           BeginPush, EndPush, Spawn, End, AtInstruction
  <2>2. code[d] = <<>>
    BY <1>3, <2>1, InitAlone DEF OnceInitialized
  <2>3. j < i
    BY <1>3, <2>2, AtInstructionOf
  <2>4. QED
    BY <1>2, <1>3, <2>3 DEF OnceInitialized
<1>4. r # "init" => \A x \in Tallies(program) : writes'[x] > 0
  BY <1>1, <1>2 DEF OnceInitialized
<1>6. QED
  BY <1>3, <1>4 DEF OnceInitialized

LEMMA LocatedBeside ==
  ASSUME Inv, InitStartsNoCore(program),
         HeapInv, CountInv, MapsOfGlobals, EndedAtEnd, NEW c \in Core, CoreStep(c),
         NEW d \in Core, d # c, pc[d] # "none", Located(d)
  PROVE  Located(d)' /\ UNCHANGED <<pc[d], code[d]>>
<1>1. PICK r, i :
        /\ At(d, r, i)
        /\ pc[d] = "run" => OperandsKnown(d, r, i)
        /\ LocalKnown(d, r, i)
        /\ OnceInitialized(d, r, i)
  BY DEF Located
<1>2. Beside(d)
  BY StepBeside
<1>3. /\ pc \in [Core -> CorePC] /\ home \in [Core -> Copy] /\ CodeTyped /\ LocalTyped
      /\ stack = [e \in Core |-> stack[e]]
  BY DEF Inv, TypeInv, TypeOK, HeapInv, StacksOwned
<1>4. UNCHANGED <<pc[d], code[d], home[d], stack[d], local[d]>>
  <2>1. ASSUME NEW e \in Core, Spawn(c, e)
        PROVE  UNCHANGED <<pc[d], code[d], home[d], stack[d], local[d]>>
    BY <1>3, <2>1 DEF Spawn, Start, CodeTyped
  <2>2. CASE \/ CopyPush(c) \/ CloningPush(c) \/ Add(c) \/ GetVarImm(c) \/ SetVarImm(c)
             \/ DropOperand(c) \/ Index(c) \/ Assign(c) \/ ListPush(c)
    <3>1. UNCHANGED <<pc, home, local>> /\ Continue(c)
      BY <2>2 DEF CopyPush, CloningPush, Add, GetVarImm, SetVarImm, DropOperand, Index, Assign,
                  ListPush, Outside
    <3>2. \E s : stack' = [stack EXCEPT ![c] = s]
      BY <1>3, <2>2 DEF CopyPush, CloningPush, Add, GetVarImm, SetVarImm, DropOperand, Index,
                        Assign, ListPush, PushNew
    <3>3. QED
      BY <1>3, <3>1, <3>2 DEF Continue, CodeTyped
  <2>3. CASE \/ BeginRead(c) \/ Read(c) \/ EndRead(c)
             \/ Announce(c) \/ BeginWrite(c) \/ Write(c) \/ EndWrite(c)
             \/ BeginPush(c) \/ EndPush(c) \/ End(c)
    <3>1. /\ home' = home /\ (code' = code \/ Continue(c))
          /\ \E p : pc' = [pc EXCEPT ![c] = p]
          /\ local' = local \/ \E v : local' = [local EXCEPT ![c] = v]
      BY <2>3 DEF BeginRead, Read, EndRead, Announce, BeginWrite, Write, EndWrite, BeginPush,
                  EndPush, End, coreVars
    <3>2. stack' = stack \/ \E s : stack' = [stack EXCEPT ![c] = s]
      BY <2>3 DEF BeginRead, Read, EndRead, Announce, BeginWrite, Write, EndWrite, BeginPush,
                  EndPush, End, coreVars, PushNew
    <3>3. QED
      BY <1>3, <3>1, <3>2 DEF Continue, CodeTyped, LocalTyped
  <2>4. QED
    BY <2>1, <2>2, <2>3 DEF CoreStep
<1>5. At(d, r, i)'
  BY <1>1, <1>2, <1>4, AtKept DEF Beside
<1>6. /\ pc'[d] = "run" => OperandsKnown(d, r, i)'
      /\ LocalKnown(d, r, i)'
  BY <1>1, <1>2, <1>4, KnownBeside
<1>7. OnceInitialized(d, r, i)'
  BY <1>1, <1>2, <1>4, OnceBeside DEF Beside
<1>8. r \in DOMAIN program' /\ i \in 1..(Len(program'[r]) + 1)
  BY <1>5 DEF At
<1>9. Located(d)'
  BY <1>5, <1>6, <1>7, <1>8 DEF Located
<1>10. QED
  BY <1>4, <1>9

-----------------------------------------------------------------------------
(* Pointers.                                                               *)

LEMMA PointersKept ==
  ASSUME HeapInv, PointersMade, \A e \in Core : made'[e] \in Nat /\ made[e] <= made'[e],
         NEW c \in Core, NEW s \in Seq(MadeAddresses'), stack' = [stack EXCEPT ![c] = s],
         slots' = slots \/ \E f : /\ slots' = [slots EXCEPT ![c] = f]
                                  /\ \A k \in DOMAIN f : f[k] \in MadeAddresses',
         elements' \subseteq elements \cup MadeAddresses'
  PROVE  PointersMade'
<1>1. MadeAddresses \subseteq MadeAddresses'
  <2>1. SUFFICES ASSUME NEW a \in Address, a[2] <= made[a[1]]
                 PROVE  a[2] <= made'[a[1]]
    BY DEF MadeAddresses
  <2>2. a[1] \in Core /\ a[2] \in Nat
    BY DEF Address
  <2>3. QED
    BY <2>1, <2>2 DEF HeapInv, AddressesMade
<1>2. \A d \in Core : stack[d] \in Seq(MadeAddresses')
  BY <1>1, SeqGrows DEF PointersMade
<1>3. \A d \in Core : stack'[d] \in Seq(MadeAddresses')
  BY <1>2 DEF HeapInv, StacksOwned
<1>4. \A d \in Core : \A k \in DOMAIN slots'[d] : slots'[d][k] \in MadeAddresses'
  BY <1>1 DEF HeapInv, SlotsOwned, PointersMade
<1>5. elements' \subseteq MadeAddresses'
  BY <1>1 DEF PointersMade
<1>6. QED
  BY <1>3, <1>4, <1>5 DEF PointersMade

\* A new cell is nobody's.
LEMMA FreshIsNew ==
  ASSUME HeapInv, PointersMade, NEW c \in Core
  PROVE  /\ Fresh(c, 1) = <<c, made[c] + 1>> /\ made[c] \in Nat
         /\ Fresh(c, 1) \in Address /\ Fresh(c, 1)[1] = c
         /\ Fresh(c, 1) \notin DOMAIN cell /\ Fresh(c, 1) \notin elements
         /\ made' = [made EXCEPT ![c] = @ + 1] =>
              /\ Fresh(c, 1) \in MadeAddresses' /\ MadeAddresses \subseteq MadeAddresses'
              /\ \A e \in Core : made'[e] \in Nat /\ made[e] <= made'[e]
<1>1. made \in [Core -> Nat]
  BY DEF HeapInv, AddressesMade
<1>2. /\ Fresh(c, 1) = <<c, made[c] + 1>> /\ made[c] \in Nat
      /\ Fresh(c, 1) \in Address /\ Fresh(c, 1)[1] = c /\ Fresh(c, 1)[2] = made[c] + 1
  BY <1>1 DEF Fresh, Address
<1>3. Fresh(c, 1) \notin DOMAIN cell
  BY <1>2 DEF HeapInv, AddressesMade
<1>4. Fresh(c, 1) \notin elements
  BY <1>2 DEF PointersMade, MadeAddresses
<1>5. ASSUME made' = [made EXCEPT ![c] = @ + 1]
      PROVE  /\ Fresh(c, 1) \in MadeAddresses' /\ MadeAddresses \subseteq MadeAddresses'
             /\ \A e \in Core : made'[e] \in Nat /\ made[e] <= made'[e]
  <2>1. made'[c] = made[c] + 1 /\ \A e \in Core : made'[e] \in Nat /\ made[e] <= made'[e]
    BY <1>1, <1>5
  <2>2. Fresh(c, 1) \in MadeAddresses'
    <3>1. \A a \in Address : a[2] <= made'[a[1]] => a \in MadeAddresses'
      BY DEF MadeAddresses
    <3>2. QED
      BY <1>2, <2>1, <3>1
  <2>3. ASSUME NEW a \in MadeAddresses
        PROVE  a \in MadeAddresses'
    <3>1. a \in Address /\ a[1] \in Core /\ a[2] \in Nat /\ a[2] <= made[a[1]]
      BY DEF MadeAddresses, Address
    <3>2. a[2] <= made'[a[1]]
      BY <1>1, <2>1, <3>1
    <3>3. QED
      BY <3>1, <3>2 DEF MadeAddresses
  <2>4. QED
    BY <2>1, <2>2, <2>3
<1>6. QED
  BY <1>2, <1>3, <1>4, <1>5

LEMMA OperandsMade ==
  ASSUME HeapInv, PointersMade, NEW c \in Core, NEW k \in Nat, Len(stack[c]) >= k
  PROVE  /\ Without(c, k) \in Seq(MadeAddresses)
         /\ \A i \in 1..k : Operand(c, i) \in MadeAddresses
<1>1. stack[c] \in Seq(MadeAddresses)
  BY DEF PointersMade
<1>2. Without(c, k) \in Seq(MadeAddresses)
  BY <1>1 DEF Without
<1>3. ASSUME NEW i \in 1..k
      PROVE  Operand(c, i) \in MadeAddresses
  <2>1. Len(stack[c]) + 1 - i \in DOMAIN stack[c]
    BY <1>1
  <2>2. QED
    BY <1>1, <2>1 DEF Operand
<1>4. QED
  BY <1>2, <1>3

LEMMA PushNewMakes ==
  ASSUME HeapInv, PointersMade, NEW c \in Core, NEW k \in Nat, Len(stack[c]) >= k,
         \E v : PushNew(c, k, v), UNCHANGED <<slots, elements>>
  PROVE  PointersMade'
<1>1. made' = [made EXCEPT ![c] = @ + 1]
      /\ stack' = [stack EXCEPT ![c] = Append(Without(c, k), Fresh(c, 1))]
  BY DEF PushNew
<1>2. Fresh(c, 1) \in MadeAddresses' /\ MadeAddresses \subseteq MadeAddresses'
      /\ \A e \in Core : made'[e] \in Nat /\ made[e] <= made'[e]
  BY <1>1, FreshIsNew
<1>3. Without(c, k) \in Seq(MadeAddresses')
  BY <1>2, OperandsMade, SeqGrows
<1>4. Append(Without(c, k), Fresh(c, 1)) \in Seq(MadeAddresses')
  BY <1>2, <1>3
<1>5. QED
  BY <1>1, <1>2, <1>4, PointersKept

\* Nothing is made.
LEMMA PointersMove ==
  ASSUME HeapInv, PointersMade, made' = made, elements' \subseteq elements \cup MadeAddresses,
         NEW c \in Core, NEW s \in Seq(MadeAddresses), stack' = [stack EXCEPT ![c] = s],
         slots' = slots \/ \E f : /\ slots' = [slots EXCEPT ![c] = f]
                                  /\ \A k \in DOMAIN f : f[k] \in MadeAddresses
  PROVE  PointersMade'
<1>1. MadeAddresses' = MadeAddresses
  BY DEF MadeAddresses
<1>2. \A e \in Core : made'[e] \in Nat /\ made[e] <= made'[e]
  BY DEF HeapInv, AddressesMade
<1>3. QED
  BY <1>1, <1>2, PointersKept

LEMMA StackStepMakes ==
  ASSUME Inv, HeapInv, PointersMade, NEW c \in Core,
         \/ GetVarImm(c) \/ SetVarImm(c) \/ DropOperand(c) \/ Index(c) \/ Assign(c)
         \/ Announce(c) \/ BeginPush(c) \/ ListPush(c)
  PROVE  PointersMade'
<1> USE DEF AtInstruction, Outside, history, heapVars
<1>1. /\ stack[c] \in Seq(MadeAddresses) /\ elements \subseteq MadeAddresses
      /\ \A k \in DOMAIN slots[c] : slots[c][k] \in MadeAddresses
  BY DEF PointersMade
<1>2. CASE GetVarImm(c)
  <2>1. Append(stack[c], slots[c][Arg(c)]) \in Seq(MadeAddresses)
    BY <1>1, <1>2 DEF GetVarImm
  <2>2. /\ stack' = [stack EXCEPT ![c] = Append(stack[c], slots[c][Arg(c)])]
        /\ UNCHANGED <<slots, made, elements>>
    BY <1>2 DEF GetVarImm, HeapInv, StacksOwned
  <2>3. QED
    BY <2>1, <2>2, PointersMove
<1>3. CASE SetVarImm(c)
  <2>1. Without(c, 1) \in Seq(MadeAddresses) /\ Operand(c, 1) \in MadeAddresses
    BY <1>3, OperandsMade DEF SetVarImm
  <2> DEFINE f == [i \in DOMAIN slots[c] \cup {Arg(c)} |->
                     IF i = Arg(c) THEN Operand(c, 1) ELSE slots[c][i]]
  <2>2. /\ slots' = [slots EXCEPT ![c] = f]
        /\ stack' = [stack EXCEPT ![c] = Without(c, 1)]
        /\ UNCHANGED <<made, elements>>
    BY <1>3 DEF SetVarImm
  <2>3. \A i \in DOMAIN f : f[i] \in MadeAddresses
    BY <1>1, <2>1
  <2> HIDE DEF f
  <2>4. QED
    BY <2>1, <2>2, <2>3, PointersMove
<1>4. CASE Index(c)
  <2>1. Without(c, 2) \in Seq(MadeAddresses)
    BY <1>4, OperandsMade DEF Index
  <2>2. PICK l \in DOMAIN list : \E at \in DOMAIN list[l] :
          stack' = [stack EXCEPT ![c] = Append(Without(c, 2), list[l][at])]
    BY <1>4 DEF Index
  <2>3. PICK at \in DOMAIN list[l] :
          stack' = [stack EXCEPT ![c] = Append(Without(c, 2), list[l][at])]
    BY <2>2
  <2>4. list[l][at] \in MadeAddresses
    BY <1>1, <2>3 DEF HeapInv, ListsOfElements
  <2>5. Append(Without(c, 2), list[l][at]) \in Seq(MadeAddresses)
    BY <2>1, <2>4
  <2>6. UNCHANGED <<slots, made, elements>>
    BY <1>4 DEF Index
  <2>7. QED
    BY <2>3, <2>5, <2>6, PointersMove
<1>5. CASE DropOperand(c) \/ Announce(c) \/ ListPush(c)
  <2>1. Len(stack[c]) >= 1
    BY <1>1, <1>5 DEF DropOperand, Announce, ListPush
  <2>2. Without(c, 1) \in Seq(MadeAddresses) /\ Operand(c, 1) \in MadeAddresses
    BY <2>1, OperandsMade
  <2>3. /\ stack' = [stack EXCEPT ![c] = Without(c, 1)]
        /\ UNCHANGED <<slots, made>>
        /\ elements' \subseteq elements \cup {Operand(c, 1)}
    BY <1>5 DEF DropOperand, Announce, ListPush
  <2>4. QED
    BY <2>2, <2>3, PointersMove
<1>6. CASE Assign(c) \/ BeginPush(c)
  <2>1. Without(c, 2) \in Seq(MadeAddresses)
    BY <1>6, OperandsMade DEF Assign, BeginPush
  <2>2. /\ stack' = [stack EXCEPT ![c] = Without(c, 2)]
        /\ UNCHANGED <<slots, made, elements>>
    BY <1>6 DEF Assign, BeginPush
  <2>3. QED
    BY <2>1, <2>2, PointersMove
<1>7. QED
  BY <1>2, <1>3, <1>4, <1>5, <1>6

LEMMA SpawnMakes ==
  ASSUME Inv, HeapInv, PointersMade, NEW c \in Core, NEW d \in Core, Spawn(c, d)
  PROVE  PointersMade'
<1> DEFINE argc == Arg(c).argc
           copies == [k \in 1..argc |-> <<d, k>>]
           left == Append(Without(c, argc), Fresh(c, 1))
<1>1. /\ pc[c] = "run" /\ pc[d] = "none" /\ c # d /\ Len(stack[c]) >= argc
      /\ stack' = [stack EXCEPT ![c] = left, ![d] = copies]
      /\ made' = [made EXCEPT ![c] = @ + 1, ![d] = argc]
      /\ UNCHANGED <<slots, elements>>
  BY DEF Spawn, Start, AtInstruction, history
<1>2. argc \in Nat
  <2>1. Head(code[c]) \in Code(program) /\ Head(code[c]).op = "Spawn"
    BY DEF Inv, TypeInv, CodeTyped, Spawn, AtInstruction
  <2>2. QED
    BY <2>1, ProgramsAssumption DEF Inv, TypeInv, Arg
<1>3. made \in [Core -> Nat] /\ made[d] = 0 /\ Fresh(c, 1) = <<c, made[c] + 1>>
  BY <1>1 DEF HeapInv, AddressesMade, Fresh
<1>4. Without(c, argc) \in Seq(MadeAddresses)
  BY <1>1, <1>2, OperandsMade
<1> HIDE DEF argc
<1>5. /\ made'[c] = made[c] + 1 /\ made'[d] = argc
      /\ \A e \in Core : made'[e] \in Nat /\ made[e] <= made'[e]
  BY <1>1, <1>2, <1>3
<1>6. /\ \A a \in Address : a[2] <= made'[a[1]] => a \in MadeAddresses'
      /\ \A a \in MadeAddresses : a \in Address /\ a[2] <= made[a[1]]
  BY DEF MadeAddresses
<1>7. /\ Fresh(c, 1) \in MadeAddresses'
      /\ \A k \in 1..argc : <<d, k>> \in MadeAddresses'
  <2>1. <<c, made[c] + 1>> \in Address /\ \A k \in 1..argc : <<d, k>> \in Address
    BY <1>2, <1>3 DEF Address
  <2>2. QED
    BY <1>2, <1>3, <1>5, <1>6, <2>1
<1>8. MadeAddresses \subseteq MadeAddresses'
  <2>1. SUFFICES ASSUME NEW a \in MadeAddresses
                 PROVE  a[2] <= made'[a[1]]
    BY <1>6
  <2>2. a[1] \in Core /\ a[2] \in Nat /\ a[2] <= made[a[1]]
    BY <1>6 DEF Address
  <2>3. QED
    BY <1>3, <1>5, <2>2
<1>9. left \in Seq(MadeAddresses') /\ copies \in Seq(MadeAddresses')
  <2>1. Without(c, argc) \in Seq(MadeAddresses')
    BY <1>4, <1>8, SeqGrows
  <2>2. left \in Seq(MadeAddresses')
    BY <1>7, <2>1
  <2>3. copies \in Seq(MadeAddresses')
    BY <1>2, <1>7
  <2>4. QED
    BY <2>2, <2>3
<1> HIDE DEF left, copies
<1>10. \A e \in Core : stack[e] \in Seq(MadeAddresses')
  BY <1>8, SeqGrows DEF PointersMade
<1>11. \A e \in Core : stack'[e] \in Seq(MadeAddresses')
  BY <1>1, <1>9, <1>10 DEF HeapInv, StacksOwned
<1>12. QED
  BY <1>1, <1>8, <1>11 DEF PointersMade

LEMMA StepMakes ==
  ASSUME Inv, HeapInv, PointersMade, [Next]_vars
  PROVE  PointersMade'
<1>1. ASSUME UNCHANGED <<stack, slots, made, elements>>
      PROVE  PointersMade'
  BY <1>1 DEF PointersMade, MadeAddresses
<1>2. ASSUME NEW c \in Core, CopyPush(c) \/ CloningPush(c) \/ Add(c) \/ EndRead(c)
      PROVE  PointersMade'
  <2>1. UNCHANGED <<slots, elements>> /\ Len(stack[c]) >= 0
    BY <1>2 DEF CopyPush, CloningPush, Add, EndRead, history, HeapInv, StacksOwned
  <2>2. CASE Add(c)
    <3>1. Len(stack[c]) >= 2 /\ \E v : PushNew(c, 2, v)
      BY <2>2 DEF Add, AtInstruction
    <3>2. QED
      BY <2>1, <3>1, PushNewMakes
  <2>3. CASE CopyPush(c) \/ CloningPush(c) \/ EndRead(c)
    <3>1. \E v : PushNew(c, 0, v)
      BY <2>3 DEF CopyPush, CloningPush, EndRead
    <3>2. QED
      BY <2>1, <3>1, PushNewMakes
  <2>4. QED
    BY <1>2, <2>2, <2>3
<1>3. ASSUME NEW c \in Core, EndPush(c)
      PROVE  PointersMade'
  <2>1. /\ made' = [made EXCEPT ![c] = @ + 1] /\ elements' = elements \cup {Fresh(c, 1)}
        /\ stack' = [stack EXCEPT ![c] = stack[c]] /\ slots' = slots
    BY <1>3 DEF EndPush, HeapInv, StacksOwned
  <2>2. Fresh(c, 1) \in MadeAddresses' /\ MadeAddresses \subseteq MadeAddresses'
        /\ \A e \in Core : made'[e] \in Nat /\ made[e] <= made'[e]
    BY <2>1, FreshIsNew
  <2>3. stack[c] \in Seq(MadeAddresses')
    BY <2>2, SeqGrows DEF PointersMade
  <2>4. QED
    BY <2>1, <2>2, <2>3, PointersKept
<1>4. ASSUME NEW c \in Core,
             BeginRead(c) \/ Read(c) \/ BeginWrite(c) \/ Write(c) \/ EndWrite(c) \/ End(c)
      PROVE  UNCHANGED <<stack, slots, made, elements>>
  BY <1>4 DEF BeginRead, Read, BeginWrite, Write, EndWrite, End, coreVars, history
<1>5. ASSUME HostStep
      PROVE  UNCHANGED <<stack, slots, made, elements>>
  BY <1>5 DEF HostStep, HostSpawns, Receive, Drop, WaitReturns, ReturnVM, ReadGlobals,
              coreVars, history
<1>6. ASSUME UNCHANGED vars
      PROVE  UNCHANGED <<stack, slots, made, elements>>
  BY <1>6 DEF vars, coreVars, history
<1>7. QED
  BY <1>1, <1>2, <1>3, <1>4, <1>5, <1>6, StackStepMakes, SpawnMakes DEF Next, CoreStep, Stopped

-----------------------------------------------------------------------------
(* Operands.                                                               *)

\* A push of a new cell.
LEMMA FreshTop ==
  ASSUME Inv, HeapInv, PointersMade, NEW c \in Core, NEW k \in Nat, Len(stack[c]) >= k,
         NEW v, PushNew(c, k, v), elements' = elements, NEW top, top = Fresh(c, 1)
  PROVE  /\ Len(stack'[c]) >= 1 /\ Operand(c, 1)' = top
         /\ Private(c, top)' /\ cell'[top] = v
         /\ k = 0 /\ Len(stack[c]) >= 1 => Len(stack'[c]) >= 2 /\ Operand(c, 2)' = Operand(c, 1)
         /\ \A a : Private(c, a) => Private(c, a)' /\ cell'[a] = cell[a] /\ a # top
<1>1. stack[c] \in Seq(Reach(c)) /\ Len(stack[c]) \in Nat
  BY DEF HeapInv, StacksOwned
<1>2. Without(c, k) \in Seq(Reach(c)) /\ Len(Without(c, k)) = Len(stack[c]) - k
  BY <1>1 DEF Without
<1>3. stack'[c] = Append(Without(c, k), top)
  BY DEF PushNew, HeapInv, StacksOwned
<1>4. Len(stack'[c]) = Len(stack[c]) - k + 1 /\ stack'[c][Len(stack'[c])] = top
  BY <1>1, <1>2, <1>3
<1>5. Len(stack'[c]) >= 1 /\ Operand(c, 1)' = top
  <2>1. Len(stack'[c]) + 1 - 1 = Len(stack'[c])
    BY <1>1, <1>4
  <2>2. QED
    BY <1>1, <1>4, <2>1 DEF Operand
<1>6. ASSUME k = 0, Len(stack[c]) >= 1
      PROVE  Len(stack'[c]) >= 2 /\ Operand(c, 2)' = Operand(c, 1)
  <2>1. Without(c, k) = stack[c]
    BY <1>1, <1>6 DEF Without
  <2>2. Len(stack'[c]) = Len(stack[c]) + 1 /\ stack'[c][Len(stack[c])] = stack[c][Len(stack[c])]
    BY <1>1, <1>3, <1>6, <2>1
  <2>3. Len(stack'[c]) + 1 - 2 = Len(stack[c]) /\ Len(stack[c]) + 1 - 1 = Len(stack[c])
    BY <1>1, <2>2
  <2>4. QED
    BY <1>1, <1>6, <2>2, <2>3 DEF Operand
<1>7. /\ top[1] = c /\ top \notin DOMAIN cell /\ top \notin elements
  BY FreshIsNew
<1>8. cell' = With(cell, top, v)
  BY DEF PushNew
<1>9. DOMAIN cell' = DOMAIN cell \cup {top} /\ cell'[top] = v
      /\ \A a \in DOMAIN cell : a # top => cell'[a] = cell[a]
  BY <1>8 DEF With
<1>10. Private(c, top)'
  BY <1>7, <1>9 DEF Private
<1>11. \A a : Private(c, a) => Private(c, a)' /\ cell'[a] = cell[a] /\ a # top
  BY <1>7, <1>9 DEF Private
<1>12. QED
  BY <1>5, <1>6, <1>9, <1>10, <1>11

\* Positions of the instructions before the next one.
LEMMA Before ==
  ASSUME NEW i \in Nat
  PROVE  /\ (i + 1) - 1 = i /\ (i + 1) - 2 = i - 1 /\ (i + 1) - 3 = i - 2
         /\ (i + 1 > 2 <=> i > 1) /\ (i + 1 > 3 <=> i > 2)
OBVIOUS

LEMMA NothingPushed ==
  ASSUME NEW c \in Core, NEW r, NEW i \in Nat, program' = program,
         program[r][i].op \notin {"GetGlobImm", "Copy_Push", "Cloning_Push", "Add",
                                  "__internal_list_push"}
  PROVE  OperandsKnown(c, r, i + 1)'
BY Before DEF OperandsKnown, Is, Adds, StoresList

\* What was known of the operands is known of the new ones.
LEMMA NumberPushed ==
  ASSUME Inv, HeapInv, CountInv, MapsOfGlobals, PointersMade, NEW c \in Core, CopyPush(c),
         NEW r, NEW i, At(c, r, i), OperandsKnown(c, r, i)
  PROVE  OperandsKnown(c, r, i + 1)'
<1> DEFINE p == program[r]
           top == Fresh(c, 1)
<1>1. /\ i \in Nat \ {0} /\ p[i].op = "Copy_Push" /\ Arg(c) = p[i].arg /\ program' = program
      /\ PushNew(c, 0, Int64(p[i].arg)) /\ elements' = elements /\ Len(stack[c]) >= 0
  BY AtInstructionOf DEF CopyPush, AtInstruction, Outside, history, Arg
<1>2. PICK a : a = Fresh(c, 1)
  OBVIOUS
<1>3. /\ Len(stack'[c]) >= 1 /\ Operand(c, 1)' = a
      /\ Private(c, a)' /\ cell'[a] = Int64(p[i].arg)
      /\ Len(stack[c]) >= 1 => Len(stack'[c]) >= 2 /\ Operand(c, 2)' = Operand(c, 1)
      /\ \A b : Private(c, b) => Private(c, b)' /\ cell'[b] = cell[b] /\ b # a
  BY <1>1, <1>2, FreshTop
<1>4. \A x \in Name : Current(c, x)' => Current(c, x) /\ writes'[x] = writes[x]
  <2>1. ~Read(c) /\ ~Write(c)
    BY DEF CopyPush, AtInstruction, Read, Write
  <2>2. QED
    BY <2>1, NamesBeside DEF CoreStep
<1>5. Tallies(program)' = Tallies(program) /\ Tallies(program) \subseteq Name
  BY <1>1 DEF Tallies
<1> HIDE DEF p
<1>6. \A x \in Tallies(program) : i > 1 /\ Is(p[i - 1], "GetGlobImm", x) =>
        /\ Len(stack'[c]) >= 2 /\ Private(c, Operand(c, 2))' /\ Operand(c, 2)' # a
        /\ Current(c, x)' => cell'[Operand(c, 2)'] = Int64(writes'[x] - 1)
  BY <1>3, <1>4, <1>5 DEF OperandsKnown, p, Private
<1>7. i > 1 /\ p[i - 1].op = "Cloning_Push" =>
        /\ Len(stack'[c]) >= 2 /\ Private(c, Operand(c, 2))' /\ Operand(c, 2)' # a
        /\ "list" \in DOMAIN cell'[Operand(c, 2)']
  BY <1>3 DEF OperandsKnown, p, Private
<1>8. p = program'[r] /\ i \in Nat
  BY <1>1 DEF p
<1>9. QED
  BY <1>1, <1>3, <1>5, <1>6, <1>7, <1>8, Before DEF OperandsKnown, Adds, Is, StoresList

LEMMA SumPushed ==
  ASSUME Inv, HeapInv, CountInv, MapsOfGlobals, PointersMade, NEW c \in Core, Add(c),
         NEW r, NEW i, At(c, r, i), OperandsKnown(c, r, i)
  PROVE  OperandsKnown(c, r, i + 1)'
<1> DEFINE p == program[r]
           v == Int64(cell[Operand(c, 1)].int + cell[Operand(c, 2)].int)
<1>1. /\ i \in Nat \ {0} /\ p[i].op = "Add" /\ program' = program
      /\ PushNew(c, 2, v) /\ elements' = elements /\ Len(stack[c]) >= 2
  BY AtInstructionOf DEF Add, AtInstruction, Outside, history
<1>2. PICK a : a = Fresh(c, 1)
  OBVIOUS
<1>3. Len(stack'[c]) >= 1 /\ Operand(c, 1)' = a /\ Private(c, a)' /\ cell'[a] = v
  BY <1>1, <1>2, FreshTop
<1>4. \A x \in Name : Current(c, x)' => Current(c, x) /\ writes'[x] = writes[x]
  <2>1. ~Read(c) /\ ~Write(c)
    BY DEF Add, AtInstruction, Read, Write
  <2>2. QED
    BY <2>1, NamesBeside DEF CoreStep
<1>5. Tallies(program)' = Tallies(program) /\ Tallies(program) \subseteq Name
  BY <1>1 DEF Tallies
<1>6. ASSUME NEW x \in Tallies(program), i > 2, Is(p[i - 2], "GetGlobImm", x),
             Is(p[i - 1], "Copy_Push", 1), Current(c, x)
      PROVE  v = Int64(writes[x])
  <2>1. cell[Operand(c, 2)] = Int64(writes[x] - 1)
    BY <1>6 DEF OperandsKnown, Is
  <2>2. cell[Operand(c, 1)] = Int64(1)
    BY <1>1, <1>6 DEF OperandsKnown, Is
  <2>3. writes[x] \in Nat
    BY <1>5 DEF CountInv, WritesCounted
  <2>4. cell[Operand(c, 1)].int = 1 /\ cell[Operand(c, 2)].int = writes[x] - 1
    BY <2>1, <2>2 DEF Int64
  <2>5. cell[Operand(c, 1)].int + cell[Operand(c, 2)].int = writes[x]
    BY <2>3, <2>4
  <2>6. QED
    BY <2>5
<1>7. p = program'[r] /\ i \in Nat
  BY <1>1
<1> HIDE DEF p, v
<1>8. ASSUME NEW x \in Tallies(program), Adds(p, i + 1, x), Current(c, x)'
      PROVE  v = Int64(writes'[x])
  <2>1. i > 2 /\ Is(p[i - 2], "GetGlobImm", x) /\ Is(p[i - 1], "Copy_Push", 1)
    BY <1>7, <1>8, Before DEF Adds
  <2>2. QED
    BY <1>4, <1>5, <1>6, <1>8, <2>1
<1>9. QED
  BY <1>1, <1>3, <1>5, <1>7, <1>8, Before DEF OperandsKnown, Adds, Is, StoresList

LEMMA NewListPushed ==
  ASSUME Inv, HeapInv, CountInv, MapsOfGlobals, PointersMade, NEW c \in Core, CloningPush(c),
         NEW r, NEW i, At(c, r, i)
  PROVE  OperandsKnown(c, r, i + 1)'
<1> DEFINE p == program[r]
<1>1. /\ i \in Nat \ {0} /\ p[i].op = "Cloning_Push" /\ program' = program
      /\ PushNew(c, 0, ListAt(Fresh(c, 1))) /\ elements' = elements /\ Len(stack[c]) >= 0
  BY AtInstructionOf DEF CloningPush, AtInstruction, Outside
<1>2. PICK a : a = Fresh(c, 1)
  OBVIOUS
<1>3. /\ Len(stack'[c]) >= 1 /\ Operand(c, 1)' = a /\ Private(c, a)'
      /\ cell'[a] = ListAt(Fresh(c, 1))
  BY <1>1, <1>2, FreshTop
<1>4. "list" \in DOMAIN cell'[a]
  BY <1>3 DEF ListAt
<1>5. p = program'[r] /\ i \in Nat
  BY <1>1
<1> HIDE DEF p
<1>6. QED
  BY <1>1, <1>3, <1>4, <1>5, Before DEF OperandsKnown, Adds, Is, StoresList

LEMMA GlobalPushed ==
  ASSUME Inv, HeapInv, CountInv, MapsOfGlobals, PointersMade, InsideAccess, NEW c \in Core,
         EndRead(c), NEW r, NEW i, At(c, r, i), LocalKnown(c, r, i)
  PROVE  OperandsKnown(c, r, i + 1)'
<1> DEFINE p == program[r]
<1>1. /\ pc[c] = "read" /\ code[c] # <<>> /\ program' = program
      /\ PushNew(c, 0, local[c]) /\ elements' = elements /\ Len(stack[c]) >= 0
  BY DEF EndRead, history, Inv, Underway, HeapInv, StacksOwned
<1>2. i \in Nat \ {0} /\ p[i].op = "GetGlobImm"
  BY <1>1, AtInstructionOf DEF InsideAccess
<1>3. PICK a : a = Fresh(c, 1)
  OBVIOUS
<1>4. /\ Len(stack'[c]) >= 1 /\ Operand(c, 1)' = a /\ Private(c, a)' /\ cell'[a] = local[c]
  BY <1>1, <1>3, FreshTop
<1>5. \A x \in Name : Current(c, x)' => Current(c, x) /\ writes'[x] = writes[x]
  <2>1. ~Read(c) /\ ~Write(c)
    BY <1>1 DEF Read, Write
  <2>2. QED
    BY <2>1, NamesBeside DEF CoreStep
<1>6. Tallies(program)' = Tallies(program) /\ Tallies(program) \subseteq Name
  BY <1>1 DEF Tallies
<1>7. \A x \in Tallies(program) : Is(p[i], "GetGlobImm", x) /\ Current(c, x)' =>
        local[c] = Int64(writes'[x] - 1)
  BY <1>1, <1>5, <1>6 DEF LocalKnown
<1>8. p = program'[r] /\ i \in Nat
  BY <1>1, <1>2
<1> HIDE DEF p
<1>9. QED
  BY <1>2, <1>4, <1>6, <1>7, <1>8, Before DEF OperandsKnown, Adds, Is, StoresList

\* The element of a list literal is given away, the list is not.
LEMMA LiteralPushed ==
  ASSUME Inv, HeapInv, CountInv, MapsOfGlobals, PointersMade, NEW c \in Core, ListPush(c),
         NEW r, NEW i, At(c, r, i), OperandsKnown(c, r, i)
  PROVE  OperandsKnown(c, r, i + 1)'
<1> DEFINE p == program[r]
<1>1. /\ i \in Nat \ {0} /\ p[i].op = "__internal_list_push" /\ program' = program
      /\ stack' = [stack EXCEPT ![c] = Without(c, 1)] /\ cell' = cell
      /\ elements' = elements \cup {Operand(c, 1)} /\ Len(stack[c]) >= 2
  BY AtInstructionOf DEF ListPush, AtInstruction
<1>2. stack[c] \in Seq(Reach(c)) /\ Len(stack[c]) \in Nat
  BY DEF HeapInv, StacksOwned
<1>3. /\ stack'[c] = Without(c, 1) /\ Len(stack'[c]) = Len(stack[c]) - 1
      /\ stack'[c][Len(stack[c]) - 1] = stack[c][Len(stack[c]) - 1]
  BY <1>1, <1>2 DEF Without, HeapInv, StacksOwned
<1> DEFINE b == stack[c][Len(stack[c]) - 1]
<1>4. Len(stack'[c]) >= 1 /\ Operand(c, 1)' = b /\ Operand(c, 2) = b
  <2>1. Len(stack'[c]) + 1 - 1 = Len(stack[c]) - 1 /\ Len(stack[c]) + 1 - 2 = Len(stack[c]) - 1
    BY <1>2, <1>3
  <2>2. QED
    BY <1>1, <1>2, <1>3, <2>1 DEF Operand
<1>5. ASSUME i > 2, p[i - 2].op = "Cloning_Push", p[i - 1].op = "Copy_Push"
      PROVE  /\ b \in DOMAIN cell' /\ b[1] = c /\ b \notin elements'
             /\ "list" \in DOMAIN cell'[b]
  <2>1. /\ Private(c, Operand(c, 2)) /\ Operand(c, 2) # Operand(c, 1)
        /\ "list" \in DOMAIN cell[Operand(c, 2)]
    BY <1>5 DEF OperandsKnown
  <2>2. QED
    BY <1>1, <1>4, <2>1 DEF Private
<1>6. p = program'[r] /\ i \in Nat
  BY <1>1
<1> HIDE DEF p, b
<1>7. QED
  BY <1>1, <1>4, <1>5, <1>6, Before DEF OperandsKnown, Adds, Is, StoresList, Private

-----------------------------------------------------------------------------
(* Cores that move.                                                        *)

\* A core goes on to the next instruction.
LEMMA Moves ==
  ASSUME Inv, HeapInv, CountInv, NEW c \in Core, CoreStep(c), ~Write(c), program' = program,
         code[c] # <<>>, code'[c] = Tail(code[c]), pc'[c] = "run", home'[c] = home[c],
         NEW r, NEW i, At(c, r, i), OnceInitialized(c, r, i),
         pc[c] = "written" \/ program[r][i].op # "SetGlobImm",
         OperandsKnown(c, r, i + 1)'
  PROVE  Located(c)'
<1>1. /\ At(c, r, i + 1)' /\ i \in Nat \ {0} /\ r \in DOMAIN program
      /\ \A x \in DOMAIN program : DOMAIN program[x] = 1..Len(program[x])
  <2>1. \A x \in DOMAIN program : program[x] \in Seq(Code(program))
    BY RoutineTyped
  <2>2. QED
    BY <2>1, AtInstructionOf
<1>2. \A x \in Name : writes'[x] = writes[x]
  BY WritesGrow
<1>3. LocalKnown(c, r, i + 1)'
  BY DEF LocalKnown
<1>4. OnceInitialized(c, r, i + 1)'
  <2>1. r # "init" => \A x \in Tallies(program) : writes'[x] > 0
    BY <1>2 DEF OnceInitialized, Tallies
  <2>2. ASSUME r = "init", NEW x \in Name, NEW j \in DOMAIN program["init"],
               Initializes(program, x, j)
        PROVE  IF j < i + 1 THEN writes[x] > 0 ELSE writes[x] = 0
    <3>1. j \in Nat
      BY <1>1, <2>2
    <3>2. j = i => pc[c] = "written"
      BY <2>2 DEF Initializes, Is
    <3>3. j < i + 1 <=> j < i \/ j = i
      BY <1>1, <3>1
    <3>4. IF j < i \/ (j = i /\ pc[c] = "written") THEN writes[x] > 0 ELSE writes[x] = 0
      BY <2>2 DEF OnceInitialized
    <3>5. QED
      BY <3>2, <3>3, <3>4
  <2>3. QED
    BY <1>2, <2>1, <2>2 DEF OnceInitialized
<1>5. r \in DOMAIN program' /\ i + 1 \in 1..(Len(program'[r]) + 1)
  BY <1>1 DEF At
<1>6. QED
  BY <1>1, <1>3, <1>4, <1>5 DEF Located

\* A core stays inside an instruction.
LEMMA Stays ==
  ASSUME Inv, HeapInv, CountInv, NEW c \in Core, CoreStep(c), ~Write(c), program' = program,
         code'[c] = code[c], pc[c] # "written", pc'[c] \notin {"run", "written"},
         home'[c] = home[c],
         NEW r, NEW i, At(c, r, i), OnceInitialized(c, r, i), LocalKnown(c, r, i)'
  PROVE  Located(c)'
<1>1. At(c, r, i)'
  BY AtKept
<1>2. \A x \in Name : writes'[x] = writes[x]
  BY WritesGrow
<1>3. OnceInitialized(c, r, i)'
  BY <1>2 DEF OnceInitialized, Tallies
<1>4. r \in DOMAIN program' /\ i \in 1..(Len(program'[r]) + 1)
  BY <1>1 DEF At
<1>5. QED
  BY <1>1, <1>3, <1>4 DEF Located

\* The routine and the place where a core is.
LEMMA InstructionMoves ==
  ASSUME Inv, HeapInv, CountInv, MapsOfGlobals, PointersMade, NEW c \in Core, Located(c),
         \/ CopyPush(c) \/ CloningPush(c) \/ Add(c) \/ GetVarImm(c) \/ SetVarImm(c)
         \/ DropOperand(c) \/ Index(c) \/ Assign(c) \/ ListPush(c)
  PROVE  Located(c)'
<1>1. PICK r, i : /\ At(c, r, i) /\ (pc[c] = "run" => OperandsKnown(c, r, i))
                  /\ OnceInitialized(c, r, i)
  BY DEF Located
<1>2. /\ pc[c] = "run" /\ UNCHANGED <<program, pc, home>> /\ Continue(c) /\ code[c] # <<>>
      /\ CoreStep(c) /\ ~Write(c)
  BY DEF CopyPush, CloningPush, Add, GetVarImm, SetVarImm, DropOperand, Index, Assign, ListPush,
         AtInstruction, Outside, CoreStep, Write
<1>3. code'[c] = Tail(code[c])
  BY <1>2 DEF Continue, Inv, TypeInv, CodeTyped
<1>4. i \in Nat /\ Head(code[c]) = program[r][i]
  BY <1>1, <1>2, AtInstructionOf
<1>5. program[r][i].op # "SetGlobImm"
  BY <1>4 DEF CopyPush, CloningPush, Add, GetVarImm, SetVarImm, DropOperand, Index, Assign,
              ListPush, AtInstruction
<1>6. OperandsKnown(c, r, i + 1)'
  <2>1. CASE GetVarImm(c) \/ SetVarImm(c) \/ DropOperand(c) \/ Index(c) \/ Assign(c)
    <3>1. program[r][i].op \notin {"GetGlobImm", "Copy_Push", "Cloning_Push", "Add",
                                   "__internal_list_push"}
      BY <1>4, <2>1 DEF GetVarImm, SetVarImm, DropOperand, Index, Assign, AtInstruction
    <3>2. QED
      BY <1>2, <1>4, <3>1, NothingPushed
  <2>2. QED
    BY <1>1, <1>2, <2>1, NumberPushed, SumPushed, NewListPushed, LiteralPushed
<1>7. QED
  BY <1>1, <1>2, <1>3, <1>5, <1>6, Moves

\* Steps that end an instruction which locked, or start another core.
LEMMA AccessMoves ==
  ASSUME Inv, HeapInv, CountInv, MapsOfGlobals, PointersMade, InsideAccess, NEW c \in Core,
         Located(c),
         EndRead(c) \/ EndWrite(c) \/ EndPush(c) \/ \E d \in Core : Spawn(c, d)
  PROVE  Located(c)'
<1>1. PICK r, i : At(c, r, i) /\ LocalKnown(c, r, i) /\ OnceInitialized(c, r, i)
  BY DEF Located
<1>2. CoreStep(c) /\ ~Write(c) /\ program' = program /\ code[c] # <<>>
  BY DEF CoreStep, EndRead, EndWrite, EndPush, Spawn, Write, AtInstruction, Inv, Underway
<1>3. /\ pc \in [Core -> CorePC] /\ home \in [Core -> Copy] /\ CodeTyped
  BY DEF Inv, TypeInv, TypeOK
<1>4. code'[c] = Tail(code[c]) /\ pc'[c] = "run" /\ home'[c] = home[c]
  <2>1. CASE EndRead(c) \/ EndWrite(c) \/ EndPush(c)
    <3>1. Continue(c) /\ pc' = [pc EXCEPT ![c] = "run"] /\ home' = home
      BY <2>1 DEF EndRead, EndWrite, EndPush
    <3>2. QED
      BY <1>3, <3>1 DEF Continue, CodeTyped
  <2>2. ASSUME NEW d \in Core, Spawn(c, d)
        PROVE  code'[c] = Tail(code[c]) /\ pc'[c] = "run" /\ home'[c] = home[c]
    <3>1. /\ pc[c] = "run" /\ pc[d] = "none" /\ pc' = [pc EXCEPT ![d] = "run"]
          /\ code' = [code EXCEPT ![c] = Tail(@), ![d] = program[Arg(c).fn]]
          /\ home' = [home EXCEPT ![d] = home[c]]
      BY <2>2 DEF Spawn, Start, AtInstruction
    <3>2. QED
      BY <1>3, <3>1 DEF CodeTyped
  <2>3. QED
    BY <2>1, <2>2
<1>5. i \in Nat /\ Head(code[c]) = program[r][i]
  BY <1>1, <1>2, AtInstructionOf
<1>6. CASE EndRead(c)
  <2>1. program[r][i].op # "SetGlobImm"
    BY <1>5, <1>6 DEF EndRead, InsideAccess
  <2>2. OperandsKnown(c, r, i + 1)'
    BY <1>1, <1>6, GlobalPushed
  <2>3. QED
    BY <1>1, <1>2, <1>4, <2>1, <2>2, Moves
<1>7. CASE EndWrite(c) \/ EndPush(c) \/ \E d \in Core : Spawn(c, d)
  <2>1. /\ program[r][i].op \in {"SetGlobImm", "push", "Spawn"}
        /\ pc[c] = "written" \/ program[r][i].op # "SetGlobImm"
    BY <1>5, <1>7 DEF EndWrite, EndPush, Spawn, AtInstruction, InsideAccess
  <2>2. OperandsKnown(c, r, i + 1)'
    BY <1>2, <1>5, <2>1, NothingPushed
  <2>3. QED
    BY <1>1, <1>2, <1>4, <2>1, <2>2, Moves
<1>8. QED
  BY <1>6, <1>7

\* A global that counts has been written when it is read.
LEMMA ReadAfterInit ==
  ASSUME Inv, NEW c \in Core, NEW r, NEW i, At(c, r, i), code[c] # <<>>,
         OnceInitialized(c, r, i), NEW x \in Tallies(program), Is(program[r][i], "GetGlobImm", x)
  PROVE  writes[x] > 0
<1>1. CASE r # "init"
  BY <1>1 DEF OnceInitialized
<1>2. CASE r = "init"
  <2>1. PICK j \in DOMAIN program["init"] : Initializes(program, x, j)
    BY DEF Tallies
  <2>2. i \in Nat \ {0} /\ i <= Len(program[r]) /\ j \in Nat
    BY <1>2, <2>1, AtInstructionOf
  <2>3. ~(i \in 1..(j - 1)) /\ i # j
    BY <1>2, <2>1 DEF Initializes, Is
  <2>4. j < i
    BY <2>2, <2>3
  <2>5. QED
    BY <1>2, <2>1, <2>4 DEF OnceInitialized, Tallies
<1>3. QED
  BY <1>1, <1>2

LEMMA InsideMoves ==
  ASSUME Inv, InitStartsNoCore(program),
         HeapInv, CountInv, StoreInv, NEW c \in Core, Located(c),
         BeginRead(c) \/ Read(c) \/ Announce(c) \/ BeginWrite(c) \/ BeginPush(c) \/ End(c)
  PROVE  Located(c)'
<1>1. PICK r, i : /\ At(c, r, i) /\ (pc[c] = "run" => OperandsKnown(c, r, i))
                  /\ LocalKnown(c, r, i) /\ OnceInitialized(c, r, i)
  BY DEF Located
<1>2. /\ pc \in [Core -> CorePC] /\ CodeTyped /\ LocalTyped
  BY DEF Inv, TypeInv, TypeOK
<1>3. /\ CoreStep(c) /\ ~Write(c) /\ program' = program /\ code' = code /\ home' = home
      /\ pc[c] # "written" /\ pc'[c] \notin {"run", "written"}
  BY <1>2 DEF CoreStep, BeginRead, Read, Announce, BeginWrite, BeginPush, End, Write,
              AtInstruction, coreVars
<1>4. Tallies(program)' = Tallies(program) /\ Tallies(program) \subseteq Name
  BY <1>3 DEF Tallies
<1>5. \A x \in Name : writes'[x] = writes[x]
  BY <1>3, WritesGrow
<1>6. SUFFICES LocalKnown(c, r, i)'
  BY <1>1, <1>3, Stays
<1>7. CASE BeginRead(c) \/ BeginPush(c) \/ End(c)
  <2>1. pc'[c] \notin {"read", "announced", "writing"}
    BY <1>2, <1>7 DEF BeginRead, BeginPush, End
  <2>2. QED
    BY <2>1 DEF LocalKnown
<1>8. CASE Read(c)
  <2>1. pc'[c] = "read" /\ pc[c] = "reading" /\ code[c] # <<>>
    BY <1>2, <1>8 DEF Read, Inv, Underway
  <2>2. Head(code[c]) = program[r][i]
    BY <1>1, <2>1, AtInstructionOf
  <2>3. ~WriterBeside(c)
    BY <2>1, InvImplies DEF MapAccessesExclude, MayStray, WriterBeside
  <2>4. ASSUME NEW x \in Tallies(program), Is(program[r][i], "GetGlobImm", x), Current(c, x)'
        PROVE  local'[c] = Int64(writes'[x] - 1)
    <3>1. Arg(c) = x /\ x \notin overlapped
      BY <1>8, <2>2, <2>4 DEF Arg, Is, Current, Read
    <3>2. local'[c] = data[x]
      BY <1>2, <1>8, <2>3, <3>1 DEF Read, LocalTyped
    <3>3. writes[x] > 0
      BY <1>1, <2>1, <2>4, ReadAfterInit
    <3>4. QED
      BY <1>4, <1>5, <3>1, <3>2, <3>3 DEF StoreInv, StoresCount
  <2>5. QED
    BY <1>3, <1>4, <2>1, <2>4 DEF LocalKnown
<1>9. ASSUME Announce(c) \/ BeginWrite(c), NEW x \in Name, Current(c, x)'
      PROVE  Current(c, x)
  BY <1>3, <1>9, NamesBeside DEF Announce, BeginWrite, Current, history
<1>10. CASE Announce(c)
  <2>1. /\ pc[c] = "run" /\ pc'[c] = "announced" /\ code[c] # <<>>
        /\ local'[c] = cell[Operand(c, 1)]
    BY <1>2, <1>10 DEF Announce, AtInstruction, LocalTyped
  <2>2. OperandsKnown(c, r, i)
    BY <1>1, <2>1
  <2>3. \A x \in Tallies(program) : Adds(program[r], i, x) /\ Current(c, x)'
          => local'[c] = Int64(writes'[x])
    BY <1>4, <1>5, <1>9, <1>10, <2>1, <2>2 DEF OperandsKnown
  <2>4. /\ StoresZero(program[r], i) => local'[c] = Int64(0)
        /\ StoresList(program[r], i) => "list" \in DOMAIN local'[c]
    BY <2>1, <2>2 DEF OperandsKnown, StoresZero, Is
  <2>5. QED
    BY <1>3, <1>4, <2>1, <2>3, <2>4 DEF LocalKnown
<1>11. CASE BeginWrite(c)
  <2>1. pc[c] = "announced" /\ pc'[c] = "writing" /\ local'[c] = local[c]
    BY <1>2, <1>11 DEF BeginWrite, coreVars
  <2>2. \A x \in Tallies(program) : Adds(program[r], i, x) /\ Current(c, x)'
          => local'[c] = Int64(writes'[x])
    BY <1>1, <1>4, <1>5, <1>9, <1>11, <2>1 DEF LocalKnown
  <2>3. /\ StoresZero(program[r], i) => local'[c] = Int64(0)
        /\ StoresList(program[r], i) => "list" \in DOMAIN local'[c]
    BY <1>1, <2>1 DEF LocalKnown
  <2>4. QED
    BY <1>3, <1>4, <2>1, <2>2, <2>3 DEF LocalKnown
<1>12. QED
  BY <1>7, <1>8, <1>10, <1>11

-----------------------------------------------------------------------------
(* The store.                                                              *)

\* What is stored counts the store.
LEMMA WriteCounts ==
  ASSUME Inv, InitStartsNoCore(program),
         HeapInv, CountInv, StoreInv, Counting(program), NEW c \in Core, Write(c)
  PROVE  Located(c)' /\ StoresCount'
<1>1. /\ pc[c] = "writing" /\ code[c] # <<>> /\ pc'[c] = "written" /\ Counted(c, Arg(c))
      /\ UNCHANGED <<program, code, home>>
  BY DEF Write, Inv, TypeInv, TypeOK, Underway, coreVars
<1>2. PICK r, i : At(c, r, i) /\ LocalKnown(c, r, i) /\ OnceInitialized(c, r, i)
  BY <1>1 DEF StoreInv, AllLocated, Located
<1>3. /\ r \in DOMAIN program /\ i \in DOMAIN program[r] /\ i \in Nat \ {0}
      /\ Head(code[c]) = program[r][i] /\ program[r][i].op = "SetGlobImm"
      /\ \A j \in DOMAIN program[r] : j \in Nat \ {0}
  BY <1>1, <1>2, AtInstructionOf DEF StoreInv, InsideAccess
<1>4. PICK x \in Name : x = Arg(c) /\ x = program[r][i].arg
  BY <1>1, <1>3 DEF CountInv, StoresNamed, Arg
<1>5. /\ x \in DOMAIN writes /\ writes[x] \in Nat /\ writes'[x] = writes[x] + 1
      /\ \A y \in Name \ {x} : writes'[y] = writes[y]
  BY <1>1, <1>4 DEF Counted, CountInv, WritesCounted
<1>6. /\ overlapped \subseteq overlapped'
      /\ x \notin overlapped' => Current(c, x)
  BY <1>1, <1>4 DEF Counted, Current
<1>7. data'[x] = local[c] /\ \A y \in Name \ {x} : data'[y] = data[y]
  <2>1. ~WriterBeside(c)
    BY <1>1, InvImplies DEF MapAccessesExclude, MayStray, WriterBeside
  <2>2. data' = [data EXCEPT ![x] = local[c]]
    BY <1>4, <2>1 DEF Write
  <2>3. QED
    BY <2>2 DEF StoreInv, MapsOfGlobals
<1>8. Tallies(program)' = Tallies(program) /\ Tallies(program) \subseteq Name
  BY <1>1 DEF Tallies
<1>9. ASSUME x \notin overlapped'
      PROVE  IF x \in Tallies(program) THEN data'[x] = Int64(writes'[x] - 1)
             ELSE "list" \in DOMAIN data'[x]
  <2>1. CASE x \notin Tallies(program)
    <3>1. StoresList(program[r], i)
      BY <1>3, <1>4, <2>1 DEF Counting
    <3>2. QED
      BY <1>1, <1>2, <1>7, <2>1, <3>1 DEF LocalKnown
  <2>2. CASE x \in Tallies(program) /\ Increments(program[r], i)
    <3>1. Adds(program[r], i, x)
      BY <1>4, <2>2 DEF Increments, Adds
    <3>2. local[c] = Int64(writes[x])
      BY <1>1, <1>2, <1>6, <1>9, <2>2, <3>1 DEF LocalKnown
    <3>3. QED
      BY <1>5, <1>7, <2>2, <3>2
  <2>3. CASE x \in Tallies(program) /\ r = "init" /\ Initializes(program, x, i)
    <3>1. local[c] = Int64(0)
      BY <1>1, <1>2, <2>3 DEF LocalKnown, Initializes
    <3>2. writes[x] = 0
      BY <1>1, <1>2, <1>3, <2>3 DEF OnceInitialized
    <3>3. QED
      BY <1>5, <1>7, <2>3, <3>1, <3>2
  <2>4. QED
    BY <1>3, <1>4, <2>1, <2>2, <2>3 DEF Counting
<1>10. StoresCount'
  BY <1>5, <1>6, <1>7, <1>8, <1>9 DEF StoreInv, StoresCount
<1>11. OnceInitialized(c, r, i)'
  <2>1. r # "init" => \A y \in Tallies(program) : writes'[y] > 0
    BY <1>2, <1>5, <1>8 DEF OnceInitialized
  <2>2. ASSUME r = "init", NEW y \in Name, NEW j \in DOMAIN program["init"],
               Initializes(program, y, j)
        PROVE  IF j < i \/ j = i THEN writes'[y] > 0 ELSE writes'[y] = 0
    <3>1. IF j < i THEN writes[y] > 0 ELSE writes[y] = 0
      BY <1>1, <1>2, <2>2 DEF OnceInitialized
    <3>2. CASE y = x
      <4>1. j \in Nat \ {0}
        BY <1>3, <2>2
      <4>2. ~(i \in 1..(j - 1))
        BY <1>3, <1>4, <2>2, <3>2 DEF Initializes, Is
      <4>3. j < i \/ j = i
        BY <1>3, <4>1, <4>2
      <4>4. QED
        BY <1>5, <3>2, <4>3
    <3>3. CASE y # x
      <4>1. j # i
        BY <1>4, <2>2, <3>3 DEF Initializes, Is
      <4>2. QED
        BY <1>5, <3>1, <3>3, <4>1
    <3>4. QED
      BY <3>2, <3>3
  <2>3. QED
    BY <1>1, <1>2, <1>8, <2>1, <2>2 DEF OnceInitialized
<1>12. At(c, r, i)' /\ LocalKnown(c, r, i)'
  BY <1>1, <1>2, AtKept DEF LocalKnown
<1>13. r \in DOMAIN program' /\ i \in 1..(Len(program'[r]) + 1)
  BY <1>12 DEF At
<1>14. Located(c)'
  BY <1>1, <1>11, <1>12, <1>13 DEF Located
<1>15. QED
  BY <1>10, <1>14

-----------------------------------------------------------------------------
(* Steps.                                                                  *)

\* A new core is at the start of its routine.
LEMMA StartsLocated ==
  ASSUME Inv, NEW d \in Core, NEW r \in DOMAIN program, program' = program,
         code'[d] = program[r], pc'[d] = "run", OnceInitialized(d, r, 1)'
  PROVE  Located(d)'
<1>1. program[r] \in Seq(Code(program))
  BY RoutineTyped
<1>2. program[r] = SubSeq(program[r], 1, Len(program[r])) /\ 1 \in 1..(Len(program[r]) + 1)
  BY <1>1
<1>3. At(d, r, 1)'
  BY <1>2 DEF At
<1>4. OperandsKnown(d, r, 1)' /\ LocalKnown(d, r, 1)'
  BY DEF OperandsKnown, LocalKnown, Adds, StoresList
<1>5. QED
  BY <1>2, <1>3, <1>4 DEF Located

LEMMA CoreStepLocates ==
  ASSUME Inv, InitStartsNoCore(program),
         HeapInv, CountInv, StoreInv, Counting(program), NEW c \in Core, CoreStep(c)
  PROVE  AllLocated' /\ EndedAtEnd' /\ InsideAccess'
<1> USE DEF StoreInv
<1>1. pc \in [Core -> CorePC] /\ CodeTyped
  BY DEF Inv, TypeInv, TypeOK
<1>2. pc[c] # "none" /\ Located(c)
  BY DEF AllLocated, CoreStep, CopyPush, CloningPush, Add, GetVarImm, SetVarImm, DropOperand,
         Index, Assign, BeginRead, Read, EndRead, Announce, BeginWrite, Write, EndWrite, ListPush,
         BeginPush, EndPush, Spawn, End, AtInstruction
<1>3. Located(c)'
  BY <1>2, InstructionMoves, AccessMoves, InsideMoves, WriteCounts DEF CoreStep
<1>4. ASSUME NEW d \in Core, d # c, pc[d] # "none"
      PROVE  Located(d)' /\ pc'[d] = pc[d] /\ code'[d] = code[d]
  BY <1>4, LocatedBeside DEF AllLocated
<1>5. ASSUME NEW d \in Core, d # c, pc[d] = "none"
      PROVE  pc'[d] = "none" \/ (pc'[d] = "run" /\ Located(d)')
  <2>1. CASE \E e \in Core : Spawn(c, e)
    <3>1. PICK e \in Core : Spawn(c, e)
      BY <2>1
    <3>2. /\ AtInstruction(c, "Spawn", Arg(c).argc) /\ pc[e] = "none" /\ c # e
          /\ pc' = [pc EXCEPT ![e] = "run"]
          /\ code' = [code EXCEPT ![c] = Tail(@), ![e] = program[Arg(c).fn]]
          /\ UNCHANGED <<program, writes>>
      BY <3>1 DEF Spawn, Start, history, AtInstruction
    <3>3. CASE d # e
      BY <1>1, <1>5, <3>2, <3>3
    <3>4. CASE d = e
      <4>1. pc'[e] = "run" /\ code'[e] = program[Arg(c).fn]
        BY <1>1, <3>2 DEF CodeTyped
      <4>2. Head(code[c]) \in Code(program) /\ Head(code[c]).op = "Spawn"
        BY <1>1, <3>2 DEF CodeTyped, AtInstruction
      <4>3. Arg(c).fn \in DOMAIN program /\ Arg(c).fn # "init"
        BY <4>2, ProgramsAssumption DEF Inv, TypeInv, Counting, Arg
      <4>4. vm = "returned"
        <5>1. ~NoSpawn(code[c])
          BY <1>1, <3>2 DEF NoSpawn, CodeTyped, AtInstruction
        <5>2. QED
          BY <5>1 DEF Inv, CopiesInv, FirstCopy, TypeInv, TypeOK, Copy
      <4>5. PICK r \in DOMAIN program : r = Arg(c).fn
        BY <4>3
      <4>6. OnceInitialized(e, r, 1)'
        BY <3>2, <4>3, <4>4, <4>5 DEF InitRun, OnceInitialized, Tallies
      <4>7. QED
        BY <3>2, <3>4, <4>1, <4>5, <4>6, StartsLocated
    <3>5. QED
      BY <3>3, <3>4
  <2>2. CASE ~(\E e \in Core : Spawn(c, e))
    <3>1. pc' = pc \/ \E p : pc' = [pc EXCEPT ![c] = p]
      BY <2>2 DEF CoreStep, CopyPush, CloningPush, Add, GetVarImm, SetVarImm, DropOperand, Index,
                  Assign, BeginRead, Read, EndRead, Announce, BeginWrite, Write, EndWrite,
                  ListPush, BeginPush, EndPush, End, Outside
    <3>2. QED
      BY <1>1, <1>5, <3>1
  <2>3. QED
    BY <2>1, <2>2
<1>6. AllLocated'
  BY <1>3, <1>4, <1>5 DEF AllLocated
<1>7. /\ pc'[c] \in {"ended", "done"} => code'[c] = <<>>
      /\ pc'[c] \in {"reading", "read"} => Head(code'[c]).op = "GetGlobImm"
      /\ pc'[c] \in {"announced", "writing", "written"} => Head(code'[c]).op = "SetGlobImm"
      /\ pc'[c] = "appending" => Head(code'[c]).op = "push"
  <2>1. CASE \/ BeginRead(c) \/ Read(c) \/ Announce(c) \/ BeginWrite(c) \/ Write(c)
             \/ BeginPush(c) \/ End(c)
    BY <1>1, <2>1 DEF BeginRead, Read, Announce, BeginWrite, Write, BeginPush, End, coreVars,
                      AtInstruction, InsideAccess
  <2>2. CASE \/ CopyPush(c) \/ CloningPush(c) \/ Add(c) \/ GetVarImm(c) \/ SetVarImm(c)
             \/ DropOperand(c) \/ Index(c) \/ Assign(c) \/ ListPush(c)
             \/ EndRead(c) \/ EndWrite(c) \/ EndPush(c) \/ \E d \in Core : Spawn(c, d)
    <3>1. pc'[c] = "run"
      BY <1>1, <2>2 DEF CopyPush, CloningPush, Add, GetVarImm, SetVarImm, DropOperand, Index,
                        Assign, ListPush, EndRead, EndWrite, EndPush, Spawn, Start, Outside,
                        AtInstruction
    <3>2. QED
      BY <3>1
  <2>3. QED
    BY <2>1, <2>2 DEF CoreStep
<1>8. EndedAtEnd' /\ InsideAccess'
  BY <1>4, <1>5, <1>7 DEF EndedAtEnd, InsideAccess
<1>9. QED
  BY <1>6, <1>8

LEMMA CoreStepStores ==
  ASSUME Inv, InitStartsNoCore(program),
         HeapInv, CountInv, StoreInv, Counting(program), NEW c \in Core, CoreStep(c)
  PROVE  InitRun' /\ MapsOfGlobals' /\ StoresCount'
<1> USE DEF StoreInv
<1>1. pc \in [Core -> CorePC]
  BY DEF Inv, TypeInv, TypeOK
<1>2. UNCHANGED <<program, host, vm>> /\ pc[c] # "none"
  BY DEF CoreStep, CopyPush, CloningPush, Add, GetVarImm, SetVarImm, DropOperand, Index, Assign,
         BeginRead, Read, EndRead, Announce, BeginWrite, Write, EndWrite, ListPush, BeginPush,
         EndPush, Spawn, End, AtInstruction, Outside, hostVars
<1>3. Tallies(program)' = Tallies(program) /\ Tallies(program) \subseteq Name
  BY <1>2 DEF Tallies
<1>4. InitRun'
  <2>1. host # "new"
    BY <1>2 DEF Inv, CopiesInv, TypeInv, TypeOK, Copy, FirstCopy, CopiesInTurn
  <2>2. pc'[c] # "none"
    BY <1>1 DEF CoreStep, CopyPush, CloningPush, Add, GetVarImm, SetVarImm, DropOperand, Index,
         Assign, BeginRead, Read, EndRead, Announce, BeginWrite, Write, EndWrite, ListPush,
         BeginPush, EndPush, Spawn, Start, End, AtInstruction, Outside
  <2>3. \A x \in Name : writes[x] > 0 => writes'[x] > 0
    BY WritesGrow
  <2>4. QED
    BY <1>2, <1>3, <2>1, <2>2, <2>3 DEF InitRun
<1>5. MapsOfGlobals'
  <2>1. DOMAIN data' = DOMAIN data
    <3>1. CASE Write(c)
      BY <3>1 DEF Write
    <3>2. CASE UNCHANGED data
      BY <3>2
    <3>3. QED
      BY <3>1, <3>2 DEF CoreStep, CopyPush, CloningPush, Add, GetVarImm, SetVarImm, DropOperand,
           Index, Assign, BeginRead, Read, EndRead, Announce, BeginWrite, EndWrite, ListPush,
           BeginPush, EndPush, Spawn, End, Outside
  <2>2. \/ UNCHANGED seen
        \/ \E o, n : \/ seen' = [seen EXCEPT ![c] = With(@, o, n)]
                     \/ seen' = [seen EXCEPT ![c][o] = n]
    <3>1. CASE Write(c) \/ EndPush(c)
      BY <3>1 DEF Write, EndPush, Counted
    <3>2. CASE ListPush(c) \/ BeginPush(c)
      BY <3>2 DEF ListPush, BeginPush
    <3>3. CASE Read(c)
      BY <3>3 DEF Read
    <3>4. CASE UNCHANGED seen
      BY <3>4
    <3>5. QED
      BY <3>1, <3>2, <3>3, <3>4
         DEF CoreStep, CopyPush, CloningPush, Add, GetVarImm, SetVarImm, DropOperand, Index,
             Assign, BeginRead, EndRead, Announce, BeginWrite, EndWrite, Spawn, End, history
  <2>3. seen = [d \in Core |-> seen[d]]
    BY DEF CountInv, WritesCounted
  <2>4. ASSUME NEW d \in Core
        PROVE  DOMAIN seen[d] \subseteq DOMAIN seen'[d]
    BY <2>2, <2>3 DEF With
  <2>5. QED
    BY <2>1, <2>4 DEF MapsOfGlobals
<1>6. StoresCount'
  <2>1. CASE Write(c)
    BY <2>1, WriteCounts
  <2>2. CASE ~Write(c)
    <3>1. UNCHANGED data /\ \A x \in Name : writes'[x] = writes[x]
      <4>1. CASE \E x \in Name : TRUE
        BY <2>2, <4>1, WritesGrow
      <4>2. CASE Name = {}
        BY <2>2, <4>2 DEF CoreStep, CopyPush, CloningPush, Add, GetVarImm, SetVarImm, DropOperand,
             Index, Assign, BeginRead, Read, EndRead, Announce, BeginWrite, EndWrite, ListPush,
             BeginPush, EndPush, Spawn, End, Outside
      <4>3. QED
        BY <4>1, <4>2
    <3>2. \A x \in Name : x \notin overlapped' => x \notin overlapped
      <4>1. overlapped \subseteq overlapped'
        BY DEF CoreStep, CopyPush, CloningPush, Add, GetVarImm, SetVarImm, DropOperand, Index,
             Assign, BeginRead, Read, EndRead, Announce, BeginWrite, Write, EndWrite, ListPush,
             BeginPush, EndPush, Spawn, End, history, Counted
      <4>2. QED
        BY <4>1
    <3>3. QED
      BY <1>3, <3>1, <3>2 DEF StoresCount
  <2>3. QED
    BY <2>1, <2>2
<1>7. QED
  BY <1>4, <1>5, <1>6

LEMMA HostStepStores ==
  ASSUME Inv, InitStartsNoCore(program),
         HeapInv, CountInv, StoreInv, HostStep
  PROVE  /\ AllLocated' /\ EndedAtEnd' /\ InsideAccess' /\ InitRun'
         /\ MapsOfGlobals' /\ StoresCount'
<1> USE DEF StoreInv
<1>1. pc \in [Core -> CorePC] /\ home \in [Core -> Copy] /\ CodeTyped
  BY DEF Inv, TypeInv, TypeOK
<1>2. UNCHANGED <<program, data, stack, slots, made, local, cell, list, seen, writes, overlapped,
                  elements>>
  BY DEF HostStep, HostSpawns, Receive, Drop, WaitReturns, ReturnVM, ReadGlobals, coreVars,
         heapVars, history
<1>3. MapsOfGlobals' /\ StoresCount' /\ Tallies(program)' = Tallies(program)
  BY <1>2 DEF MapsOfGlobals, StoresCount, Tallies
<1>4. ASSUME NEW d \in Core, pc[d] # "none", UNCHANGED <<code[d], home[d]>>,
             pc'[d] = pc[d] \/ (pc'[d] = "done" /\ pc[d] = "ended")
      PROVE  Located(d)'
  <2>1. PICK r, i : /\ At(d, r, i) /\ (pc[d] = "run" => OperandsKnown(d, r, i))
                    /\ LocalKnown(d, r, i) /\ OnceInitialized(d, r, i)
    BY <1>4 DEF AllLocated, Located
  <2>2. At(d, r, i)'
    BY <1>2, <1>4, <2>1, AtKept
  <2>3. Beside(d)
    BY <1>2 DEF Beside, Current, Private
  <2>4. CASE pc'[d] = pc[d]
    <3>1. (pc'[d] = "run" => OperandsKnown(d, r, i)') /\ LocalKnown(d, r, i)'
      BY <1>2, <2>1, <2>3, <2>4, KnownBeside
    <3>2. OnceInitialized(d, r, i)'
      BY <1>2, <1>4, <2>1, <2>4 DEF OnceInitialized, Tallies
    <3>3. QED
      BY <2>2, <3>1, <3>2 DEF Located, At
  <2>5. CASE pc'[d] = "done" /\ pc[d] = "ended"
    <3>1. LocalKnown(d, r, i)'
      BY <2>5 DEF LocalKnown
    <3>2. OnceInitialized(d, r, i)'
      BY <1>2, <1>4, <2>1, <2>5 DEF OnceInitialized, Tallies
    <3>3. QED
      BY <2>2, <2>5, <3>1, <3>2 DEF Located, At
  <2>6. QED
    BY <1>4, <2>4, <2>5
<1>5. ASSUME NEW d \in Core, HostSpawns(d)
      PROVE  AllLocated' /\ EndedAtEnd' /\ InsideAccess' /\ InitRun'
  <2> PICK r : r = IF host = "new" THEN "init" ELSE "main"
    OBVIOUS
  <2>1. /\ pc[d] = "none" /\ host \in {"new", "idle"} /\ host' = "wait" /\ vm' = vm
        /\ pc' = [pc EXCEPT ![d] = "run"] /\ home' = [home EXCEPT ![d] = vm]
        /\ code' = [code EXCEPT ![d] = program[r]]
    BY <1>5 DEF HostSpawns, Start
  <2>2. /\ pc'[d] = "run" /\ home'[d] = vm /\ code'[d] = program[r]
        /\ \A e \in Core \ {d} : UNCHANGED <<pc[e], home[e], code[e]>>
    BY <1>1, <2>1 DEF CodeTyped
  <2>3. r \in DOMAIN program
    BY ProgramsAssumption DEF Inv, TypeInv
  <2>4. OnceInitialized(d, r, 1)'
    <3>1. CASE host = "new"
      <4>1. vm = "first" /\ \A x \in Name : writes[x] = 0
        BY <3>1 DEF InitRun, Inv, CopiesInv, TypeInv, TypeOK, Copy, CopiesInTurn
      <4>2. \A j \in DOMAIN program["init"] : ~(j < 1)
        <5>1. program["init"] \in Seq(Code(program))
          BY <2>3, <3>1, RoutineTyped
        <5>2. QED
          BY <5>1
      <4>3. QED
        BY <1>2, <2>2, <3>1, <4>1, <4>2 DEF OnceInitialized
    <3>2. CASE host = "idle"
      <4>1. vm = "returned"
        BY <3>2 DEF Inv, CopiesInv, TypeInv, TypeOK, Copy, CopiesInTurn
      <4>2. QED
        BY <1>2, <1>3, <3>2, <4>1 DEF OnceInitialized, InitRun
    <3>3. QED
      BY <2>1, <3>1, <3>2
  <2>5. Located(d)'
    BY <1>2, <2>2, <2>3, <2>4, StartsLocated
  <2>6. AllLocated'
    BY <1>4, <2>2, <2>5 DEF AllLocated
  <2>7. EndedAtEnd' /\ InsideAccess'
    BY <2>2 DEF EndedAtEnd, InsideAccess
  <2>8. InitRun'
    BY <1>2, <1>3, <2>1, <2>2 DEF InitRun
  <2>9. QED
    BY <2>6, <2>7, <2>8
<1>6. ASSUME UNCHANGED <<code, home>>,
             \A d \in Core : pc'[d] = pc[d] \/ (pc'[d] = "done" /\ pc[d] = "ended")
      PROVE  AllLocated' /\ EndedAtEnd' /\ InsideAccess'
  <2>1. AllLocated'
    BY <1>4, <1>6 DEF AllLocated
  <2>2. EndedAtEnd' /\ InsideAccess'
    BY <1>6 DEF EndedAtEnd, InsideAccess
  <2>3. QED
    BY <2>1, <2>2
<1>7. ASSUME NEW c \in Core, Receive(c)
      PROVE  AllLocated' /\ EndedAtEnd' /\ InsideAccess' /\ InitRun'
  <2>1. /\ UNCHANGED <<code, home, vm>> /\ host = "wait" /\ host' = "drop"
        /\ pc[c] = "ended" /\ pc' = [pc EXCEPT ![c] = "done"]
    BY <1>7 DEF Receive, coreVars
  <2>2. AllLocated' /\ EndedAtEnd' /\ InsideAccess'
    BY <1>1, <1>6, <2>1
  <2>3. InitRun'
    BY <1>1, <1>2, <1>3, <2>1 DEF InitRun
  <2>4. QED
    BY <2>2, <2>3
<1>8. CASE WaitReturns
  <2>1. UNCHANGED <<code, home, pc, vm>> /\ host = "wait" /\ registered[vm] = {}
        /\ host' = IF vm = "first" THEN "copy" ELSE "reading"
    BY <1>8 DEF WaitReturns, coreVars
  <2>2. AllLocated' /\ EndedAtEnd' /\ InsideAccess'
    BY <1>6, <2>1
  <2>3. ASSUME vm = "first", NEW x \in Tallies(program)
        PROVE  writes[x] > 0
    <3>1. PICK c \in Core : pc[c] # "none"
      BY <2>1 DEF InitRun
    <3>2. pc[c] = "done"
      BY <2>1, <2>3, <3>1 DEF Inv, CopiesInv, FirstCopy, Live
    <3>3. PICK r, i : At(c, r, i) /\ OnceInitialized(c, r, i)
      BY <3>1 DEF AllLocated, Located
    <3>4. CASE r # "init"
      BY <3>3, <3>4 DEF OnceInitialized
    <3>5. CASE r = "init"
      <4>1. PICK j \in DOMAIN program["init"] : x \in Name /\ Initializes(program, x, j)
        BY DEF Tallies
      <4>2. j < i
        <5>1. code[c] = <<>>
          BY <3>2 DEF EndedAtEnd
        <5>2. /\ i = Len(program["init"]) + 1 /\ Len(program["init"]) \in Nat
              /\ DOMAIN program["init"] = 1..Len(program["init"])
          BY <3>3, <3>5, <5>1, AtInstructionOf
        <5>3. QED
          BY <4>1, <5>2
      <4>3. QED
        BY <3>3, <3>5, <4>1, <4>2 DEF OnceInitialized
    <3>6. QED
      BY <3>4, <3>5
  <2>4. InitRun'
    BY <1>1, <1>2, <1>3, <2>1, <2>3 DEF InitRun, Inv, TypeInv, TypeOK, Copy
  <2>5. QED
    BY <1>3, <2>2, <2>4
<1>9. CASE Drop \/ ReturnVM \/ ReadGlobals
  <2>1. UNCHANGED <<code, home, pc>>
    BY <1>9 DEF Drop, ReturnVM, ReadGlobals, coreVars
  <2>2. AllLocated' /\ EndedAtEnd' /\ InsideAccess'
    BY <1>6, <2>1
  <2>3. InitRun'
    BY <1>2, <1>3, <1>9, <2>1 DEF Drop, ReturnVM, ReadGlobals, InitRun
  <2>4. QED
    BY <1>3, <2>2, <2>3
<1>10. QED
  BY <1>3, <1>5, <1>7, <1>8, <1>9 DEF HostStep

LEMMA InitStoreInv == Init => StoreInv
BY DEF Init, StoreInv, AllLocated, EndedAtEnd, InsideAccess, InitRun, MapsOfGlobals, PointersMade,
       MadeAddresses, StoresCount

LEMMA StepStoreInv ==
  Inv /\ HeapInv /\ CountInv /\ StoreInv /\ Counting(program) /\ [Next]_vars => StoreInv'
<1> SUFFICES ASSUME Inv, HeapInv, CountInv, StoreInv, Counting(program), [Next]_vars
             PROVE  StoreInv'
  OBVIOUS
<1> InitStartsNoCore(program)
  BY DEF Counting
<1>1. PointersMade'
  BY StepMakes DEF StoreInv
<1>2. CASE \E c \in Core : CoreStep(c)
  BY <1>1, <1>2, CoreStepLocates, CoreStepStores DEF StoreInv
<1>3. CASE HostStep
  BY <1>1, <1>3, HostStepStores DEF StoreInv
<1>4. CASE UNCHANGED vars
  <2>1. \A d : Beside(d)
    BY <1>4 DEF vars, Beside, Current, Private, heapVars, history
  <2>2. ASSUME NEW d \in Core, Located(d)
        PROVE  Located(d)'
    <3>1. PICK r, i : /\ At(d, r, i) /\ (pc[d] = "run" => OperandsKnown(d, r, i))
                      /\ LocalKnown(d, r, i) /\ OnceInitialized(d, r, i)
      BY <2>2 DEF Located
    <3>2. At(d, r, i)' /\ OnceInitialized(d, r, i)'
      BY <1>4, <3>1, AtKept DEF vars, coreVars, history, OnceInitialized, Tallies
    <3>3. (pc'[d] = "run" => OperandsKnown(d, r, i)') /\ LocalKnown(d, r, i)'
      BY <1>4, <2>1, <3>1, KnownBeside DEF vars, coreVars
    <3>4. QED
      BY <3>2, <3>3 DEF Located, At
  <2>3. QED
    BY <1>1, <1>4, <2>2 DEF vars, coreVars, hostVars, history, StoreInv, AllLocated, EndedAtEnd,
                            InsideAccess, InitRun, MapsOfGlobals, StoresCount, Tallies
<1>5. QED
  BY <1>2, <1>3, <1>4 DEF Next, Stopped

\* The program does not change.
LEMMA StillCounting == Counting(program) /\ [Next]_vars => Counting(program)'
<1> SUFFICES ASSUME Counting(program), [Next]_vars
             PROVE  Counting(program)'
  OBVIOUS
<1>1. program' = program
  BY ProgramStays
<1>2. Tallies(program)' = Tallies(program) /\ Code(program)' = Code(program)
  BY <1>1 DEF Tallies, Code
<1>3. QED
  BY <1>1, <1>2 DEF Counting, InitStartsNoCore

\* Between GetGlobImm and SetGlobImm (execute.go:206-226) the lock is given up, so that an
\* increment of a global can vanish; but no more vanishes than what another core stored in
\* between, and no push vanishes from a list but beside another.
THEOREM UpdatesAreLostOnlyByOverlap == Spec /\ Counting(program) => []LostOnlyByOverlap
<1>1. Init /\ Counting(program) => StoreInv /\ Counting(program)
  BY InitStoreInv
<1>2. /\ Inv /\ HeapInv /\ CountInv /\ StoreInv /\ Counting(program) /\ [Next]_vars
           => StoreInv' /\ Counting(program)'
  BY StepStoreInv, StillCounting
<1>3. CountInv /\ StoreInv => LostOnlyByOverlap
  BY DEF CountInv, StoreInv, LostOnlyByOverlap
<1>4. Spec => []CountInv
  BY InitCountInv, StepCountInv, InvHolds, HeapInvHolds, PTL DEF Spec
<1>5. QED
  BY <1>1, <1>2, <1>3, <1>4, InvHolds, HeapInvHolds, PTL DEF Spec
=============================================================================
