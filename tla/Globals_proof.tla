--------------------------- MODULE Globals_proof ---------------------------
(***************************************************************************)
(* Theorems about Globals, for any programs and any number of cores: who   *)
(* may touch the map of globals when, that the VM is copied when nobody    *)
(* uses it unless Wait has forgotten a core, and, of programs whose init   *)
(* function starts no core, that the lock makes of every access to a       *)
(* global one step.                                                        *)
(***************************************************************************)
EXTENDS GlobalsAtomic, TLAPS

-----------------------------------------------------------------------------
(* The inductive invariant.                                                *)

CodeTyped == code \in [Core -> Seq(Code(program))]

\* A core inside an instruction has the instruction.
Underway ==
  \A c \in Core :
    pc[c] \in {"reading", "read", "announced", "writing", "written", "appending"}
      => code[c] # <<>>

LocalTyped == local = [c \in Core |-> local[c]]

TypeInv == TypeOK /\ program \in Programs /\ CodeTyped /\ LocalTyped

\* Who stands where in the code of an instruction, and what it holds there.  What the
\* mutex of the returned copy holds may have been copied from the first.
LocksHeld ==
  /\ \A c \in Core :
       /\ pc[c] \in {"announced", "writing", "written"} => writer[home[c]] = c
       /\ pc[c] \in {"reading", "read"} => c \in readers[home[c]]
       /\ pc[c] \in {"writing", "written"} => readers[home[c]] = {}
  /\ writer["first"] # None => /\ writer["first"] \in Core
                               /\ pc[writer["first"]] \in {"announced", "writing", "written"}
                               /\ home[writer["first"]] = "first"
  /\ \A c \in readers["first"] : pc[c] \in {"reading", "read"} /\ home[c] = "first"

\* The host goes from the first copy to the other, and so do the cores it starts.
CopiesInTurn ==
  /\ vm = "first" => /\ host \in {"new", "wait", "drop", "copy"}
                     /\ \A c \in Core : home[c] = "first"
                     /\ registered["returned"] = {}
  /\ vm = "returned" => host \notin {"new", "copy"}

\* A core is in the slice of its own copy, or in the copy made of that.
RegisteredAtHome ==
  /\ \A v \in Copy : \A c \in registered[v] :
       home[c] = v \/ (v = "returned" /\ c \in registered["first"])
  /\ newCores \subseteq registered[vm]

NoSpawn(s) == \A i \in DOMAIN s : s[i].op # "Spawn"

\* While NewVM runs an init function that starts no core, there is one core at most,
\* and Wait cannot forget it.
FirstCopy ==
  InitStartsNoCore(program) /\ vm = "first" =>
    /\ host = "new" => \A c \in Core : pc[c] = "none"
    /\ host \in {"drop", "copy"} => \A c \in Core : ~Live(c)
    /\ \A c, d \in Core : pc[c] # "none" /\ pc[d] # "none" => c = d
    /\ \A c \in Core : /\ Live(c) => c \in registered["first"]
                       /\ NoSpawn(code[c])

\* Nobody outlives NewVM, and nobody Wait, but for cores that were forgotten and
\* those they have started.
NoneLeft ==
  /\ ~MayStray => /\ host = "copy" => \A c \in Core : ~Live(c)
                  /\ vm = "returned" => \A c \in Core : Live(c) => home[c] = "returned"
  /\ Forgotten = {} /\ host = "reading" => \A c \in Core : ~Live(c)

\* Only cores that were started are in the slices of cores.
StartedOnly ==
  /\ \A v \in Copy : \A c \in registered[v] : pc[c] # "none"
  /\ \A c \in newCores : pc[c] # "none"

CopiesInv == CopiesInTurn /\ RegisteredAtHome /\ FirstCopy /\ NoneLeft

Inv == TypeInv /\ Underway /\ LocksHeld /\ StartedOnly /\ CopiesInv

LEMMA InvImplies == Inv => MapAccessesExclude /\ CopiedAtRest
<1> SUFFICES ASSUME Inv
             PROVE  MapAccessesExclude /\ CopiedAtRest
  OBVIOUS
<1> USE DEF Inv, TypeInv, TypeOK, CopiesInv, Live, CorePC, HostPC, Copy
<1>1. ASSUME NEW c \in Core, NEW d \in Core, c # d, pc[c] = "writing",
             pc[d] \in {"reading", "writing"}
      PROVE  home[d] # home[c] /\ MayStray
  <2>1. home[d] # home[c]
    BY <1>1 DEF LocksHeld
  <2>2. vm = "returned"
    BY <2>1 DEF CopiesInTurn
  <2>3. Live(c) /\ Live(d)
    BY <1>1
  <2>4. QED
    BY <2>1, <2>2, <2>3 DEF NoneLeft
<1>2. ASSUME NEW c \in Core, pc[c] = "writing", host = "reading"
      PROVE  Forgotten # {}
  BY <1>2 DEF NoneLeft
<1>3. MapAccessesExclude
  BY <1>1, <1>2 DEF MapAccessesExclude
<1>4. CopiedAtRest
  <2>1. ASSUME ~MayStray, host = "copy"
        PROVE  /\ \A c \in Core : ~Live(c)
               /\ writer["first"] = None
               /\ readers["first"] = {}
    BY <2>1 DEF NoneLeft, LocksHeld
  <2>2. QED
    BY <2>1 DEF CopiedAtRest, NoneLeft
<1>5. QED
  BY <1>3, <1>4

LEMMA InitInv == Init => Inv
<1> SUFFICES ASSUME Init
             PROVE  Inv
  OBVIOUS
<1> USE DEF Init
<1>1. TypeInv
  BY DEF TypeInv, TypeOK, CodeTyped, LocalTyped, CorePC, HostPC, Copy
<1>2. Underway /\ LocksHeld /\ StartedOnly /\ CopiesInTurn /\ RegisteredAtHome
  BY DEF LocksHeld, StartedOnly, CopiesInTurn, RegisteredAtHome, Underway, Copy
<1>3. FirstCopy /\ NoneLeft
  BY DEF FirstCopy, NoneLeft, Live, NoSpawn, Copy
<1>4. QED
  BY <1>1, <1>2, <1>3 DEF Inv, CopiesInv

-----------------------------------------------------------------------------
(* It is preserved.                                                        *)

LEMMA TailKept ==
  ASSUME NEW S, NEW s \in Seq(S), s # <<>>
  PROVE  Tail(s) \in Seq(S) /\ (NoSpawn(s) => NoSpawn(Tail(s)))
BY DEF NoSpawn

\* The code of a routine is code of the program.
LEMMA RoutineTyped ==
  ASSUME Inv, NEW r \in DOMAIN program
  PROVE  program[r] \in Seq(Code(program))
BY ProgramsAssumption DEF Inv, TypeInv

\* An instruction goes by, or part of it: code gets shorter by one at most.
Shorter(c) == code' = code \/ (code[c] # <<>> /\ Continue(c))

LEMMA ShorterKeeps ==
  ASSUME Inv, NEW c \in Core, Shorter(c), program' = program
  PROVE  /\ CodeTyped'
         /\ \A d \in Core : NoSpawn(code[d]) => NoSpawn(code'[d])
<1>1. CASE code' = code
  BY <1>1 DEF Inv, TypeInv, CodeTyped
<1>2. CASE code[c] # <<>> /\ Continue(c)
  <2>1. code[c] \in Seq(Code(program))
    BY DEF Inv, TypeInv, CodeTyped
  <2>2. /\ Tail(code[c]) \in Seq(Code(program))
        /\ NoSpawn(code[c]) => NoSpawn(Tail(code[c]))
    BY <1>2, <2>1, TailKept
  <2>3. \A d \in Core : code'[d] = code[d] \/ (d = c /\ code'[d] = Tail(code[d]))
    BY <1>2 DEF Continue
  <2>4. CodeTyped'
    BY <1>2, <2>2 DEF Inv, TypeInv, CodeTyped, Continue
  <2>5. QED
    BY <2>2, <2>3, <2>4
<1>3. QED
  BY <1>1, <1>2 DEF Shorter

Shared == <<program, lockVars, hostVars, registered, home>>

\* A core that Wait has forgotten lives on, and nobody finds it again.
LEMMA ForgottenStay ==
  ASSUME Inv, program' = program,
         \A c \in Forgotten : pc'[c] \notin {"none", "done"} /\ home'[c] = home[c]
                            /\ c \notin registered'[home[c]]
  PROVE  Forgotten \subseteq Forgotten' /\ (MayStray => MayStray')
BY DEF Forgotten, MayStray, Live

\* Instructions that leave locks, cores and the host alone.
LEMMA LocalStep ==
  ASSUME Inv, NEW c \in Core, Shorter(c), pc[c] = "run",
         UNCHANGED <<Shared, pc, local>>
  PROVE  Inv'
<1>1. CodeTyped' /\ (\A d \in Core : NoSpawn(code[d]) => NoSpawn(code'[d]))
  BY ShorterKeeps DEF Shared
<1> USE DEF Inv, TypeInv, CopiesInv, Shared, lockVars, hostVars
<1>2. TypeInv' /\ LocksHeld' /\ StartedOnly' /\ CopiesInTurn' /\ RegisteredAtHome'
  BY <1>1 DEF TypeOK, LocalTyped, LocksHeld, StartedOnly, CopiesInTurn, RegisteredAtHome
<1>3. Underway'
  BY DEF TypeOK, Underway, Shorter, Continue, CodeTyped
<1>4. FirstCopy'
  BY <1>1 DEF FirstCopy, Live
<1>5. NoneLeft'
  BY DEF NoneLeft, MayStray, Forgotten, Live
<1>6. QED
  BY <1>1, <1>2, <1>3, <1>4, <1>5

\* Steps of a started core that moves on, with or without a lock.
LEMMA CoreMoves ==
  ASSUME Inv, NEW c \in Core, Shorter(c), Live(c),
         UNCHANGED <<program, hostVars, registered, home>>,
         NEW p \in CorePC \ {"none", "done"}, pc' = [pc EXCEPT ![c] = p],
         writer' \in [Copy -> Core \cup {None}], readers' \in [Copy -> SUBSET Core],
         LocksHeld', Underway', LocalTyped'
  PROVE  Inv'
<1>1. CodeTyped' /\ (\A d \in Core : NoSpawn(code[d]) => NoSpawn(code'[d]))
  BY ShorterKeeps
<1> USE DEF Inv, TypeInv, TypeOK, CopiesInv, CorePC
<1>2. TypeInv'
  BY <1>1 DEF hostVars
<1>3. StartedOnly' /\ CopiesInTurn' /\ RegisteredAtHome'
  BY DEF StartedOnly, CopiesInTurn, RegisteredAtHome, hostVars
<1>4. \A d \in Core : (Live(d)' <=> Live(d)) /\ (pc'[d] = "none" <=> pc[d] = "none")
  BY DEF Live
<1>5. FirstCopy'
  BY <1>1, <1>4 DEF FirstCopy, hostVars
<1>6. Forgotten' = Forgotten
  BY <1>4 DEF Forgotten
<1>7. NoneLeft'
  BY <1>4, <1>6 DEF NoneLeft, MayStray, hostVars
<1>8. QED
  BY <1>1, <1>2, <1>3, <1>5, <1>7

LEMMA InstructionKeepsInv ==
  ASSUME Inv, NEW c \in Core,
         \/ CopyPush(c) \/ CloningPush(c) \/ Add(c) \/ GetVarImm(c) \/ SetVarImm(c)
         \/ DropOperand(c) \/ Index(c) \/ Assign(c) \/ ListPush(c)
  PROVE  Inv'
<1>1. Shorter(c) /\ pc[c] = "run" /\ UNCHANGED <<Shared, pc, local>>
  BY DEF CopyPush, CloningPush, Add, GetVarImm, SetVarImm, DropOperand, Index, Assign,
         ListPush, AtInstruction, Shorter, Outside, Shared, hostVars
<1>2. QED
  BY <1>1, LocalStep

\* A core that stands in the code of an instruction stays in it or ends it.
LEMMA StaysUnderway ==
  ASSUME Inv, NEW c \in Core, NEW p \in CorePC, pc' = [pc EXCEPT ![c] = p],
         \/ p \in {"run", "ended"} /\ Shorter(c)
         \/ code' = code /\ code[c] # <<>>
  PROVE  Underway'
BY DEF Inv, TypeInv, TypeOK, CodeTyped, Underway, Shorter, Continue

LEMMA LockStepKeepsInv ==
  ASSUME Inv, NEW c \in Core,
         \/ BeginRead(c) \/ Read(c) \/ EndRead(c)
         \/ Announce(c) \/ BeginWrite(c) \/ Write(c) \/ EndWrite(c)
         \/ BeginPush(c) \/ EndPush(c) \/ End(c)
  PROVE  Inv'
<1> DEFINE Step(p) ==
      /\ Shorter(c) /\ Live(c) /\ pc' = [pc EXCEPT ![c] = p]
      /\ p \in {"run", "ended"} \/ (code' = code /\ code[c] # <<>>)
      /\ UNCHANGED <<program, hostVars, registered, home>>
      /\ writer' \in [Copy -> Core \cup {None}] /\ readers' \in [Copy -> SUBSET Core]
      /\ LocksHeld'
<1>1. LocalTyped'
  <2>1. LocalTyped
    BY DEF Inv, TypeInv
  <2>2. local' = local \/ \E v : local' = [local EXCEPT ![c] = v]
    BY DEF BeginRead, Read, EndRead, Announce, BeginWrite, Write, EndWrite, BeginPush,
           EndPush, End, coreVars
  <2>3. QED
    BY <2>1, <2>2 DEF LocalTyped
<1>2. ASSUME NEW p \in CorePC \ {"none", "done"}, Step(p)
      PROVE  Inv'
  <2>1. Underway'
    BY <1>2, StaysUnderway
  <2>2. QED
    BY <1>1, <1>2, <2>1, CoreMoves
<1> USE DEF Inv, TypeInv, TypeOK, CorePC, Copy, LocksHeld, Underway, Shorter, Live,
            AtInstruction, lockVars, coreVars
<1>3. CASE BeginRead(c)
  <2>1. Step("reading")
    BY <1>3, ThreadsAssumption DEF BeginRead
  <2>2. QED
    BY <1>2, <2>1
<1>4. CASE Read(c)
  <2>1. Step("read")
    BY <1>4 DEF Read
  <2>2. QED
    BY <1>2, <2>1
<1>5. CASE EndRead(c)
  <2>1. Step("run")
    BY <1>5 DEF EndRead
  <2>2. QED
    BY <1>2, <2>1
<1>6. CASE Announce(c)
  <2>1. /\ pc[c] = "run" /\ code[c] # <<>> /\ code' = code /\ writer[home[c]] = None
        /\ pc' = [pc EXCEPT ![c] = "announced"]
        /\ writer' = [writer EXCEPT ![home[c]] = c]
        /\ UNCHANGED <<program, readers, hostVars, registered, home>>
    BY <1>6 DEF Announce
  <2>2. Step("announced")
    BY <2>1, ThreadsAssumption
  <2>3. QED
    BY <1>2, <2>2
<1>7. CASE BeginWrite(c)
  <2>1. Step("writing")
    BY <1>7 DEF BeginWrite
  <2>2. QED
    BY <1>2, <2>1
<1>8. CASE Write(c)
  <2>1. Step("written")
    BY <1>8 DEF Write
  <2>2. QED
    BY <1>2, <2>1
<1>9. CASE EndWrite(c)
  <2>1. Step("run")
    BY <1>9, ThreadsAssumption DEF EndWrite
  <2>2. QED
    BY <1>2, <2>1
<1>10. CASE BeginPush(c)
  <2>1. Step("appending")
    BY <1>10 DEF BeginPush
  <2>2. QED
    BY <1>2, <2>1
<1>11. CASE EndPush(c)
  <2>1. Step("run")
    BY <1>11 DEF EndPush
  <2>2. QED
    BY <1>2, <2>1
<1>12. CASE End(c)
  <2>1. Step("ended")
    BY <1>12 DEF End
  <2>2. QED
    BY <1>2, <2>1
<1>13. QED
  BY <1>3, <1>4, <1>5, <1>6, <1>7, <1>8, <1>9, <1>10, <1>11, <1>12

\* A new core comes in, with the copy of the core that starts it.
LEMMA SpawnKeepsInv ==
  ASSUME Inv, NEW c \in Core, NEW d \in Core, Spawn(c, d)
  PROVE  Inv'
<1> USE DEF Inv, TypeInv, TypeOK, CopiesInv, CorePC, HostPC, Copy
<1>1. /\ pc[c] = "run" /\ pc[d] = "none" /\ c # d /\ Live(c)
      /\ code[c] # <<>> /\ Head(code[c]).op = "Spawn"
      /\ pc' = [pc EXCEPT ![d] = "run"]
      /\ home' = [home EXCEPT ![d] = home[c]]
      /\ registered' = [registered EXCEPT ![home[c]] = @ \cup {d}]
      /\ code' = [code EXCEPT ![c] = Tail(@), ![d] = program[Arg(c).fn]]
      /\ UNCHANGED <<program, lockVars, hostVars, local>>
  BY DEF Spawn, Start, AtInstruction, Live
<1>2. code[c] \in Seq(Code(program)) /\ Head(code[c]) \in Code(program)
  BY <1>1 DEF CodeTyped
<1>3. Arg(c).fn \in DOMAIN program
  BY <1>1, <1>2, ProgramsAssumption DEF Arg
<1>4. TypeInv'
  <2>1. program[Arg(c).fn] \in Seq(Code(program)) /\ Tail(code[c]) \in Seq(Code(program))
    BY <1>1, <1>2, <1>3, RoutineTyped, TailKept
  <2>2. CodeTyped'
    BY <1>1, <2>1 DEF CodeTyped
  <2>3. QED
    BY <1>1, <2>2 DEF LocalTyped, lockVars, hostVars
<1>5. Underway' /\ LocksHeld' /\ StartedOnly'
  BY <1>1 DEF Underway, LocksHeld, StartedOnly, lockVars, hostVars, CodeTyped
<1>6. CopiesInTurn' /\ RegisteredAtHome'
  <2>1. \A v \in Copy : d \notin registered[v]
    BY <1>1 DEF StartedOnly
  <2>2. QED
    BY <1>1, <2>1 DEF CopiesInTurn, RegisteredAtHome, hostVars
<1>7. FirstCopy'
  <2>1. ~NoSpawn(code[c])
    BY <1>1, <1>2 DEF NoSpawn
  <2>2. ~(InitStartsNoCore(program) /\ vm = "first")
    BY <1>1, <2>1 DEF FirstCopy
  <2>3. QED
    BY <1>1, <2>2 DEF FirstCopy, hostVars
<1>8. NoneLeft'
  <2>1. \A e \in Core \ {d} : (Live(e)' <=> Live(e)) /\ home'[e] = home[e]
    BY <1>1 DEF Live
  <2>2. \A e \in Forgotten : e # d /\ Live(e)
    BY <1>1 DEF Forgotten, Live
  <2>3. Forgotten \subseteq Forgotten' /\ (MayStray => MayStray')
    BY <1>1, <2>1, <2>2, ForgottenStay DEF Forgotten, Live
  <2>4. QED
    BY <1>1, <2>1, <2>3 DEF NoneLeft, hostVars
<1>9. QED
  BY <1>4, <1>5, <1>6, <1>7, <1>8

\* A core that the host starts.
LEMMA HostSpawnsKeepsInv ==
  ASSUME Inv, NEW d \in Core, HostSpawns(d)
  PROVE  Inv'
<1> USE DEF Inv, TypeInv, TypeOK, CopiesInv, CorePC, HostPC, Copy, lockVars
<1> DEFINE routine == IF host = "new" THEN "init" ELSE "main"
<1>1. /\ pc[d] = "none" /\ host \in {"new", "idle"} /\ host' = "wait"
      /\ pc' = [pc EXCEPT ![d] = "run"]
      /\ home' = [home EXCEPT ![d] = vm]
      /\ registered' = [registered EXCEPT ![vm] = @ \cup {d}]
      /\ code' = [code EXCEPT ![d] = program[routine]]
      /\ UNCHANGED <<program, writer, readers, vm, newCores, local>>
  BY DEF HostSpawns, Start
<1>2. routine \in DOMAIN program /\ program[routine] \in Seq(Code(program))
  BY ProgramsAssumption, RoutineTyped
<1>3. TypeInv'
  BY <1>1, <1>2 DEF CodeTyped, LocalTyped
<1>4. Underway' /\ LocksHeld' /\ StartedOnly'
  BY <1>1 DEF Underway, LocksHeld, StartedOnly, CodeTyped
<1>5. CopiesInTurn' /\ RegisteredAtHome'
  <2>1. \A v \in Copy : d \notin registered[v]
    BY <1>1 DEF StartedOnly
  <2>2. QED
    BY <1>1, <2>1 DEF CopiesInTurn, RegisteredAtHome
<1>6. FirstCopy'
  <2>1. InitStartsNoCore(program) => NoSpawn(program["init"])
    BY DEF InitStartsNoCore, NoSpawn
  <2>2. vm = "first" => host = "new"
    BY <1>1 DEF CopiesInTurn
  <2>3. QED
    BY <1>1, <2>1, <2>2 DEF FirstCopy, CodeTyped, Live
<1>7. NoneLeft'
  <2>1. \A e \in Core \ {d} : (Live(e)' <=> Live(e)) /\ home'[e] = home[e]
    BY <1>1 DEF Live
  <2>2. \A e \in Forgotten : e # d /\ Live(e)
    BY <1>1 DEF Forgotten, Live
  <2>3. Forgotten \subseteq Forgotten' /\ (MayStray => MayStray')
    BY <1>1, <2>1, <2>2, ForgottenStay DEF Forgotten, Live
  <2>4. QED
    BY <1>1, <2>1, <2>3 DEF NoneLeft
<1>8. QED
  BY <1>3, <1>4, <1>5, <1>6, <1>7

LEMMA WaitKeepsInv ==
  ASSUME Inv, (\E c \in Core : Receive(c)) \/ Drop \/ WaitReturns
  PROVE  Inv'
<1> USE DEF Inv, TypeInv, TypeOK, CopiesInv, CorePC, HostPC, Copy, lockVars
<1>1. TypeInv' /\ Underway' /\ LocksHeld' /\ StartedOnly'
  <2>1. ASSUME NEW c \in Core, Receive(c)
        PROVE  TypeInv' /\ Underway' /\ LocksHeld' /\ StartedOnly'
    BY <2>1 DEF Receive, CodeTyped, LocalTyped, Underway, LocksHeld, StartedOnly, coreVars
  <2>2. CASE Drop
    BY <2>2 DEF Drop, CodeTyped, LocalTyped, Underway, LocksHeld, StartedOnly, coreVars
  <2>3. CASE WaitReturns
    BY <2>3 DEF WaitReturns, CodeTyped, LocalTyped, Underway, LocksHeld, StartedOnly,
                coreVars
  <2>4. QED
    BY <2>1, <2>2, <2>3
<1>2. ASSUME NEW c \in Core, Receive(c)
      PROVE  CopiesInv'
  <2>1. /\ host = "wait" /\ host' = "drop" /\ c \in registered[vm] /\ pc[c] = "ended"
        /\ pc' = [pc EXCEPT ![c] = "done"] /\ newCores' = registered[vm] \ {c}
        /\ UNCHANGED <<program, vm, registered, home, code>>
    BY <1>2 DEF Receive, coreVars
  <2>2. CopiesInTurn' /\ RegisteredAtHome' /\ FirstCopy'
    BY <2>1 DEF CopiesInTurn, RegisteredAtHome, FirstCopy, Live
  <2>3. c \in registered[home[c]]
    BY <2>1 DEF RegisteredAtHome
  <2>4. Forgotten \subseteq Forgotten' /\ (MayStray => MayStray')
    BY <2>1, <2>3, ForgottenStay DEF Forgotten, Live
  <2>5. NoneLeft'
    BY <2>1, <2>4 DEF NoneLeft, Live
  <2>6. QED
    BY <2>2, <2>5
<1>3. CASE Drop
  <2>1. /\ host = "drop" /\ host' = "wait"
        /\ registered' = [registered EXCEPT ![vm] = newCores] /\ newCores' = {}
        /\ UNCHANGED <<program, vm, pc, home, code>>
    BY <1>3 DEF Drop, coreVars
  <2>2. CopiesInTurn' /\ RegisteredAtHome' /\ FirstCopy'
    BY <2>1 DEF CopiesInTurn, RegisteredAtHome, FirstCopy, Live
  <2>3. Forgotten \subseteq Forgotten' /\ (MayStray => MayStray')
    BY <2>1, ForgottenStay DEF Forgotten, Live, RegisteredAtHome
  <2>4. NoneLeft'
    BY <2>1, <2>3 DEF NoneLeft, Live
  <2>5. QED
    BY <1>1, <2>2, <2>4
<1>4. CASE WaitReturns
  <2>1. /\ host = "wait" /\ registered[vm] = {}
        /\ host' = IF vm = "first" THEN "copy" ELSE "reading"
        /\ UNCHANGED <<program, vm, newCores, registered, pc, home, code>>
    BY <1>4 DEF WaitReturns, coreVars
  <2>2. Forgotten' = Forgotten /\ (MayStray' <=> MayStray)
    BY <2>1 DEF Forgotten, MayStray, Live
  <2>3. vm = "first" /\ ~MayStray => \A c \in Core : ~Live(c)
    BY <2>1 DEF MayStray, Forgotten, FirstCopy, CopiesInTurn
  <2>4. vm = "returned" /\ Forgotten = {} => \A c \in Core : ~Live(c)
    BY <2>1 DEF MayStray, Forgotten, NoneLeft
  <2>5. CopiesInTurn' /\ RegisteredAtHome' /\ FirstCopy'
    BY <2>1, <2>3 DEF CopiesInTurn, RegisteredAtHome, FirstCopy, MayStray, Live
  <2>6. NoneLeft'
    BY <2>1, <2>2, <2>3, <2>4 DEF NoneLeft, Live
  <2>7. QED
    BY <1>1, <2>5, <2>6
<1>5. QED
  BY <1>1, <1>2, <1>3, <1>4

LEMMA HostStepKeepsInv ==
  ASSUME Inv, HostStep
  PROVE  Inv'
<1> USE DEF Inv, TypeInv, TypeOK, CopiesInv, CorePC, HostPC, Copy, lockVars
<1>1. CASE ReturnVM
  <2>1. /\ host = "copy" /\ host' = "idle" /\ vm' = "returned" /\ vm = "first"
        /\ writer' = [writer EXCEPT !["returned"] = writer["first"]]
        /\ readers' = [readers EXCEPT !["returned"] = readers["first"]]
        /\ registered' = [registered EXCEPT !["returned"] = registered["first"]]
        /\ UNCHANGED <<program, newCores, pc, home, code, local>>
    BY <1>1 DEF ReturnVM, CopiesInTurn, coreVars
  <2>2. \A c \in Core : home[c] = "first"
    BY <2>1 DEF CopiesInTurn
  <2>3. TypeInv' /\ Underway' /\ LocksHeld' /\ StartedOnly'
    BY <2>1, <2>2 DEF CodeTyped, LocalTyped, Underway, LocksHeld, StartedOnly
  <2>4. CopiesInTurn' /\ RegisteredAtHome' /\ FirstCopy'
    BY <2>1, <2>2 DEF CopiesInTurn, RegisteredAtHome, FirstCopy
  <2>5. Forgotten \subseteq Forgotten' /\ (MayStray => MayStray')
    BY <2>1, <2>2, ForgottenStay DEF Forgotten, Live
  <2>6. NoneLeft'
    BY <2>1, <2>5 DEF NoneLeft, Live
  <2>7. QED
    BY <2>3, <2>4, <2>6
<1>2. CASE ReadGlobals
  <2>1. /\ host = "reading" /\ host' = "returned"
        /\ UNCHANGED <<program, vm, writer, readers, registered, newCores, pc, home, code,
                       local>>
    BY <1>2 DEF ReadGlobals, coreVars
  <2>2. TypeInv' /\ Underway' /\ LocksHeld' /\ StartedOnly'
    BY <2>1 DEF CodeTyped, LocalTyped, Underway, LocksHeld, StartedOnly
  <2>3. CopiesInTurn' /\ RegisteredAtHome' /\ FirstCopy'
    BY <2>1 DEF CopiesInTurn, RegisteredAtHome, FirstCopy, Live
  <2>4. NoneLeft'
    BY <2>1 DEF NoneLeft, MayStray, Forgotten, Live
  <2>5. QED
    BY <2>2, <2>3, <2>4
<1>3. QED
  BY <1>1, <1>2, HostSpawnsKeepsInv, WaitKeepsInv DEF HostStep

LEMMA StepInv == Inv /\ [Next]_vars => Inv'
<1> SUFFICES ASSUME Inv, [Next]_vars
             PROVE  Inv'
  OBVIOUS
<1>1. ASSUME NEW c \in Core, CoreStep(c)
      PROVE  Inv'
  BY <1>1, InstructionKeepsInv, LockStepKeepsInv, SpawnKeepsInv DEF CoreStep
<1>2. CASE HostStep
  BY <1>2, HostStepKeepsInv
<1>3. CASE UNCHANGED vars
  <2>1. UNCHANGED <<program, writer, readers, vm, newCores, host, registered, pc, home,
                    code, local>>
    BY <1>3 DEF vars, coreVars, lockVars, hostVars
  <2>2. TypeInv' /\ Underway' /\ LocksHeld' /\ StartedOnly'
    BY <2>1 DEF Inv, TypeInv, TypeOK, CodeTyped, LocalTyped, Underway, LocksHeld,
                StartedOnly
  <2>3. CopiesInv'
    BY <2>1 DEF Inv, CopiesInv, CopiesInTurn, RegisteredAtHome, FirstCopy, NoneLeft,
                MayStray, Forgotten, Live
  <2>4. QED
    BY <2>2, <2>3 DEF Inv
<1>4. QED
  BY <1>1, <1>2, <1>3 DEF Next, Stopped

-----------------------------------------------------------------------------
(* The theorems.                                                           *)

LEMMA InvHolds == Spec => []Inv
BY InitInv, StepInv, PTL DEF Spec

\* The types of locks, cores and host, for any programs and any number of cores.
THEOREM TypeCorrect == Spec => []TypeOK
<1>1. Inv => TypeOK
  BY DEF Inv, TypeInv
<1>2. QED
  BY <1>1, InvHolds, PTL

\* The RWMutex that is copied with the VM does exclude, whatever the cores run: the map
\* is not written beside another access, but by a core of the first copy or beside the
\* host reading it, and for either Wait must have forgotten a core.
THEOREM AccessesExclude == Spec => []MapAccessesExclude
BY InvHolds, InvImplies, PTL

\* NewVM copies the VM when no core lives and nobody holds the mutex, whatever the init
\* function does, unless Wait has forgotten a core that the init function has started.
THEOREM CopyIsClean == Spec => []CopiedAtRest
BY InvHolds, InvImplies, PTL

-----------------------------------------------------------------------------
(* Every step is a step of the atomic memory, or stutters.                 *)

LEMMA RequestsStutter ==
  ASSUME data' = data, \A d \in Core : RequestOf(d)' = RequestOf(d)
  PROVE  UNCHANGED Atomic!vars
BY DEF Atomic!vars, Requests

\* When core c alone goes on, the others' requests stay as they are.
LEMMA RequestsChange ==
  ASSUME NEW c \in Core,
         \A d \in Core \ {c} : RequestOf(d)' = RequestOf(d)
  PROVE  Requests' = [Requests EXCEPT ![c] = RequestOf(c)']
BY DEF Requests

\* Another core's request does not change with what core c does to its own registers.
LEMMA OthersKeepRequests ==
  ASSUME Inv, NEW c \in Core, NEW d \in Core \ {c},
         pc'[d] = pc[d], local'[d] = local[d], code'[d] = code[d]
  PROVE  RequestOf(d)' = RequestOf(d)
BY DEF RequestOf, Arg

LEMMA InstructionStutters ==
  ASSUME Inv, NEW c \in Core,
         \/ CopyPush(c) \/ CloningPush(c) \/ Add(c) \/ GetVarImm(c) \/ SetVarImm(c)
         \/ DropOperand(c) \/ Index(c) \/ Assign(c) \/ ListPush(c)
         \/ End(c)
  PROVE  UNCHANGED Atomic!vars
<1>1. /\ data' = data /\ local' = local /\ pc[c] = "run" /\ pc'[c] \in {"run", "ended"}
      /\ \A d \in Core \ {c} : pc'[d] = pc[d] /\ code'[d] = code[d]
  BY DEF Inv, TypeInv, TypeOK, CodeTyped, CopyPush, CloningPush, Add, GetVarImm,
         SetVarImm, DropOperand, Index, Assign, ListPush, End, AtInstruction, Continue,
         Outside, coreVars
<1>2. RequestOf(c)' = RequestOf(c)
  BY <1>1 DEF RequestOf
<1>3. \A d \in Core \ {c} : RequestOf(d)' = RequestOf(d)
  BY <1>1, OthersKeepRequests
<1>4. QED
  BY <1>1, <1>2, <1>3, RequestsStutter

LEMMA PushStutters ==
  ASSUME Inv, NEW c \in Core, BeginPush(c) \/ EndPush(c)
  PROVE  UNCHANGED Atomic!vars
<1> USE DEF Inv, TypeInv, TypeOK, CodeTyped
<1>1. /\ data' = data
      /\ pc[c] \in {"run", "appending"} /\ pc'[c] \in {"run", "appending"}
      /\ \A d \in Core \ {c} : pc'[d] = pc[d] /\ code'[d] = code[d]
      /\ \E v : local' = [local EXCEPT ![c] = v]
  BY DEF BeginPush, EndPush, AtInstruction, Continue
<1>2. RequestOf(c)' = RequestOf(c)
  BY <1>1 DEF RequestOf
<1>3. \A d \in Core \ {c} : RequestOf(d)' = RequestOf(d)
  BY <1>1, OthersKeepRequests
<1>4. QED
  BY <1>1, <1>2, <1>3, RequestsStutter

LEMMA CoresStutter ==
  ASSUME Inv, HostStep \/ (\E c, d \in Core : Spawn(c, d))
  PROVE  UNCHANGED Atomic!vars
<1> USE DEF Inv, TypeInv, TypeOK, CodeTyped
<1>1. ASSUME NEW c \in Core, NEW d \in Core, Spawn(c, d)
      PROVE  UNCHANGED Atomic!vars
  <2>1. /\ data' = data /\ local' = local /\ pc[c] = "run" /\ pc[d] = "none"
        /\ pc' = [pc EXCEPT ![d] = "run"]
        /\ \A e \in Core \ {c, d} : code'[e] = code[e]
    <3>1. code' = [code EXCEPT ![c] = Tail(@), ![d] = program[Arg(c).fn]]
      BY <1>1 DEF Spawn
    <3>2. \A e \in Core \ {c, d} : code'[e] = code[e]
      BY <3>1
    <3>3. QED
      BY <1>1, <3>2 DEF Spawn, Start, AtInstruction
  <2>2. RequestOf(c)' = RequestOf(c) /\ RequestOf(d)' = RequestOf(d)
    <3>1. pc'[c] = "run" /\ pc'[d] = "run"
      BY <2>1
    <3>2. QED
      BY <2>1, <3>1 DEF RequestOf
  <2>3. \A e \in Core \ {c, d} : RequestOf(e)' = RequestOf(e)
    BY <2>1, OthersKeepRequests
  <2>4. QED
    BY <2>1, <2>2, <2>3, RequestsStutter
<1>2. ASSUME NEW d \in Core, HostSpawns(d)
      PROVE  UNCHANGED Atomic!vars
  <2>1. /\ data' = data /\ local' = local /\ pc[d] = "none"
        /\ pc' = [pc EXCEPT ![d] = "run"]
        /\ \A e \in Core \ {d} : code'[e] = code[e]
    BY <1>2 DEF HostSpawns, Start
  <2>2. RequestOf(d)' = RequestOf(d)
    BY <2>1 DEF RequestOf
  <2>3. \A e \in Core \ {d} : RequestOf(e)' = RequestOf(e)
    BY <2>1, OthersKeepRequests
  <2>4. QED
    BY <2>1, <2>2, <2>3, RequestsStutter
<1>3. ASSUME NEW c \in Core, Receive(c)
      PROVE  UNCHANGED Atomic!vars
  <2>1. /\ data' = data /\ local' = local /\ code' = code /\ pc[c] = "ended"
        /\ pc' = [pc EXCEPT ![c] = "done"]
    BY <1>3 DEF Receive, coreVars
  <2>2. RequestOf(c)' = RequestOf(c)
    BY <2>1 DEF RequestOf
  <2>3. \A e \in Core \ {c} : RequestOf(e)' = RequestOf(e)
    BY <2>1, OthersKeepRequests
  <2>4. QED
    BY <2>1, <2>2, <2>3, RequestsStutter
<1>4. CASE Drop \/ WaitReturns \/ ReturnVM \/ ReadGlobals
  <2>1. data' = data /\ local' = local /\ code' = code /\ pc' = pc
    BY <1>4 DEF Drop, WaitReturns, ReturnVM, ReadGlobals, coreVars
  <2>2. \A e \in Core : RequestOf(e)' = RequestOf(e)
    BY <2>1 DEF RequestOf, Arg
  <2>3. QED
    BY <2>1, <2>2, RequestsStutter
<1>5. QED
  BY <1>1, <1>2, <1>3, <1>4 DEF HostStep

LEMMA InstructionNamesGlobal ==
  ASSUME Inv, NEW c \in Core,
         AtInstruction(c, "GetGlobImm", 0) \/ AtInstruction(c, "SetGlobImm", 1)
  PROVE  Arg(c) \in Name
<1>1. Head(code[c]) \in Code(program)
  BY DEF Inv, TypeInv, CodeTyped, AtInstruction
<1>2. QED
  BY <1>1, ProgramsAssumption DEF Inv, TypeInv, AtInstruction, Arg

LEMMA AccessImplements ==
  ASSUME Inv, InitStartsNoCore(program), NEW c \in Core,
         \/ BeginRead(c) \/ Read(c) \/ EndRead(c)
         \/ Announce(c) \/ BeginWrite(c) \/ Write(c) \/ EndWrite(c)
  PROVE  Atomic!Next \/ UNCHANGED Atomic!vars
<1> USE DEF Inv, TypeInv, TypeOK, CodeTyped, LocalTyped
<1>1. /\ \A d \in Core \ {c} : /\ pc'[d] = pc[d]
                               /\ code'[d] = code[d]
                               /\ local'[d] = local[d]
  BY DEF BeginRead, Read, EndRead, Announce, BeginWrite, Write, EndWrite, Continue,
         coreVars
<1>2. /\ \A d \in Core \ {c} : RequestOf(d)' = RequestOf(d)
      /\ Requests' = [Requests EXCEPT ![c] = RequestOf(c)']
  BY <1>1, OthersKeepRequests, RequestsChange
<1>3. Requests[c] = RequestOf(c)
  BY DEF Requests
<1>4. pc[c] \in {"reading", "writing"} => ~WriterBeside(c)
  BY InvImplies DEF MapAccessesExclude, WriterBeside, MayStray
<1> USE DEF Atomic!Next, Atomic!Idle, Atomic!Get, Atomic!Got, Atomic!Set
<1>5. CASE BeginRead(c)
  <2>1. /\ pc[c] = "run" /\ pc'[c] = "reading" /\ Arg(c) \in Name
        /\ code' = code /\ data' = data
    BY <1>5, InstructionNamesGlobal DEF BeginRead, AtInstruction, coreVars
  <2>2. RequestOf(c) = Atomic!Idle /\ RequestOf(c)' = Atomic!Get(Arg(c))
    BY <2>1 DEF RequestOf, Arg
  <2>3. Atomic!Ask(c)
    BY <1>2, <1>3, <2>1, <2>2 DEF Atomic!Ask
  <2>4. QED
    BY <2>3
<1>6. CASE Announce(c)
  <2>1. /\ pc[c] = "run" /\ pc'[c] = "announced" /\ Arg(c) \in Name
        /\ code' = code /\ data' = data
    BY <1>6, InstructionNamesGlobal DEF Announce, AtInstruction
  <2>2. RequestOf(c) = Atomic!Idle /\ RequestOf(c)' = Atomic!Set(Arg(c), local'[c])
    BY <2>1 DEF RequestOf, Arg
  <2>3. Requests'[c] = RequestOf(c)'
    BY DEF Requests
  <2>4. /\ Requests'[c].op = "set" /\ Requests'[c].value = local'[c]
        /\ Requests' = [Requests EXCEPT ![c] = Atomic!Set(Arg(c), local'[c])]
    BY <1>2, <2>2, <2>3
  <2>5. Atomic!Ask(c)
    BY <1>3, <2>1, <2>2, <2>4 DEF Atomic!Ask
  <2>6. QED
    BY <2>5
<1>7. CASE Read(c)
  <2>1. /\ pc[c] = "reading" /\ pc'[c] = "read" /\ data' = data
        /\ local'[c] = data[Arg(c)]
    BY <1>4, <1>7 DEF Read
  <2>2. RequestOf(c) = Atomic!Get(Arg(c)) /\ RequestOf(c)' = Atomic!Got(data[Arg(c)])
    BY <2>1 DEF RequestOf
  <2>3. Atomic!Read(c)
    BY <1>2, <1>3, <2>1, <2>2 DEF Atomic!Read
  <2>4. QED
    BY <2>3
<1>8. CASE EndRead(c)
  <2>1. pc[c] = "read" /\ pc'[c] = "run" /\ data' = data
    BY <1>8 DEF EndRead
  <2>2. RequestOf(c) = Atomic!Got(local[c]) /\ RequestOf(c)' = Atomic!Idle
    BY <2>1 DEF RequestOf
  <2>3. Atomic!Take(c)
    BY <1>2, <1>3, <2>1, <2>2 DEF Atomic!Take
  <2>4. QED
    BY <2>3
<1>9. CASE BeginWrite(c)
  <2>1. /\ pc[c] = "announced" /\ pc'[c] = "writing" /\ data' = data /\ local' = local
        /\ code' = code
    BY <1>9 DEF BeginWrite, coreVars
  <2>2. RequestOf(c)' = RequestOf(c)
    BY <2>1 DEF RequestOf, Arg
  <2>3. QED
    BY <1>2, <2>1, <2>2, RequestsStutter
<1>10. CASE Write(c)
  <2>1. /\ pc[c] = "writing" /\ pc'[c] = "written"
        /\ data' = [data EXCEPT ![Arg(c)] = local[c]]
    BY <1>4, <1>10 DEF Write
  <2>2. RequestOf(c) = Atomic!Set(Arg(c), local[c]) /\ RequestOf(c)' = Atomic!Idle
    BY <2>1 DEF RequestOf
  <2>3. Atomic!Write(c)
    BY <1>2, <1>3, <2>1, <2>2 DEF Atomic!Write
  <2>4. QED
    BY <2>3
<1>11. CASE EndWrite(c)
  <2>1. pc[c] = "written" /\ pc'[c] = "run" /\ data' = data
    BY <1>11 DEF EndWrite
  <2>2. RequestOf(c)' = RequestOf(c)
    BY <2>1 DEF RequestOf
  <2>3. QED
    BY <1>2, <2>1, <2>2, RequestsStutter
<1>12. QED
  BY <1>5, <1>6, <1>7, <1>8, <1>9, <1>10, <1>11

LEMMA InitImplements == Init => Atomic!Init
BY DEF Init, Atomic!Init, Atomic!Idle, Requests, RequestOf

LEMMA StepImplements ==
  Inv /\ InitStartsNoCore(program) /\ [Next]_vars => [Atomic!Next]_(Atomic!vars)
<1> SUFFICES ASSUME Inv, InitStartsNoCore(program), [Next]_vars
             PROVE  Atomic!Next \/ UNCHANGED Atomic!vars
  OBVIOUS
<1>1. ASSUME NEW c \in Core, CoreStep(c)
      PROVE  Atomic!Next \/ UNCHANGED Atomic!vars
  BY <1>1, InstructionStutters, PushStutters, CoresStutter, AccessImplements
     DEF CoreStep
<1>2. CASE HostStep
  BY <1>2, CoresStutter
<1>3. CASE UNCHANGED vars
  <2>1. \A d \in Core : RequestOf(d)' = RequestOf(d)
    BY <1>3 DEF RequestOf, Arg, vars, coreVars
  <2>2. QED
    BY <1>3, <2>1, RequestsStutter DEF vars
<1>4. QED
  BY <1>1, <1>2, <1>3 DEF Next, Stopped

\* No step writes a program.
LEMMA ProgramStays == [Next]_vars => program' = program
<1> SUFFICES ASSUME [Next]_vars
             PROVE  program' = program
  OBVIOUS
<1> USE DEF Outside
<1>1. ASSUME NEW c \in Core, CoreStep(c)
      PROVE  program' = program
  BY <1>1 DEF CoreStep, CopyPush, CloningPush, Add, GetVarImm, SetVarImm, DropOperand,
              Index, Assign, BeginRead, Read, EndRead, Announce, BeginWrite, Write,
              EndWrite, ListPush, BeginPush, EndPush, Spawn, End
<1>2. CASE HostStep
  BY <1>2 DEF HostStep, HostSpawns, Receive, Drop, WaitReturns, ReturnVM, ReadGlobals
<1>3. QED
  BY <1>1, <1>2 DEF Next, Stopped, vars

\* Cores that share globals share a memory of atomic registers, whatever they run, if
\* the init function starts none of them.
THEOREM Implements == Spec /\ InitStartsNoCore(program) => ImplementsAtomic
<1>1. InitStartsNoCore(program) /\ [Next]_vars => InitStartsNoCore(program)'
  BY ProgramStays DEF InitStartsNoCore
<1>2. Spec => Atomic!Init
  BY InitImplements DEF Spec
<1>3. QED
  BY <1>1, <1>2, InvHolds, StepImplements, PTL DEF Spec, ImplementsAtomic, Atomic!Spec

=============================================================================
