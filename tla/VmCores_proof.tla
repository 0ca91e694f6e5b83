--------------------------- MODULE VmCores_proof ---------------------------
(***************************************************************************)
(* Theorems about VmCores, for every number of cores and whether or not    *)
(* scripts spawn; and that it implements CoreJoin.                         *)
(***************************************************************************)
EXTENDS VmCoresJoin, TLAPS

USE MaxCoresAssumption, ThreadsAssumption DEF Core

-----------------------------------------------------------------------------
(* Type correctness.                                                       *)

\* Every variable keeps its type; in particular the read lock is never held
\* twice and no step unlocks what is not locked.
ReadersCount == readers = IF host \in {"scan", "stopped"} THEN 1 ELSE 0

TypeInv == TypeOK /\ ReadersCount

LEMMA InitTypeInv == Init => TypeInv
<1> SUFFICES ASSUME Init
             PROVE  TypeInv
  OBVIOUS
<1>1. report \in Report
  BY DEF Init, NilReport, Report, Signal
<1>2. /\ pc \in [Core -> CorePC]
      /\ signal \in [Core -> Signal]
      /\ parent \in [Core -> Core \cup {Host, None}]
  BY DEF Init, CorePC, Signal
<1>3. QED
  BY <1>1, <1>2 DEF Init, TypeInv, TypeOK, ReadersCount, HostPC

LEMMA StepTypeInv == TypeInv /\ [Next]_vars => TypeInv'
<1> SUFFICES ASSUME TypeInv, [Next]_vars
             PROVE  TypeInv'
  OBVIOUS
<1> USE DEF TypeInv, TypeOK, ReadersCount, CorePC, Signal, HostPC, lockVars,
            coreVars, waitVars
<1>1. ASSUME NEW c \in Core, CoreStep(c)
      PROVE  TypeInv'
  <2>1. CASE CoreCallSpawn(c)
    BY <2>1 DEF CoreCallSpawn
  <2>2. CASE CoreAnnounce(c)
    BY <2>2 DEF CoreAnnounce, Announce
  <2>3. CASE CoreSpawns(c)
    <3>1. /\ coreCnt \in Core /\ coreCnt' = coreCnt + 1 /\ cores' = cores \cup {coreCnt}
          /\ parent' = [parent EXCEPT ![coreCnt] = c]
          /\ pc' = [pc EXCEPT ![c] = "run", ![coreCnt] = "run"]
          /\ writer' = None
          /\ UNCHANGED <<readers, cancelled, signal, host, exitCore, waitVars, budget>>
      BY <2>3 DEF CoreSpawns, Register, Unlock
    <3>2. coreCnt' \in 0..MaxCores /\ cores' \subseteq Core
      BY <3>1
    <3>3. pc' \in [Core -> CorePC] /\ parent' \in [Core -> Core \cup {Host, None}]
      BY <3>1
    <3>4. QED
      BY <3>1, <3>2, <3>3
  <2>4. CASE CoreFinish(c) \/ CoreFail(c) \/ CoreNoticesCancel(c)
    <3>1. /\ pc' = [pc EXCEPT ![c] = "send"]
          /\ \E s \in Signal : signal' = [signal EXCEPT ![c] = s]
      BY <2>4 DEF CoreFinish, CoreFail, CoreNoticesCancel, Send
    <3>2. UNCHANGED <<coreCnt, cores, lockVars, cancelled, parent, host, exitCore,
                      waitVars, budget>>
      BY <2>4 DEF CoreFinish, CoreFail, CoreNoticesCancel, Send
    <3>3. QED
      BY <3>1, <3>2
  <2>5. QED
    BY <1>1, <2>1, <2>2, <2>3, <2>4 DEF CoreStep
<1>2. CASE Timeout
  BY <1>2 DEF Timeout
<1>3. CASE HostCallSpawn
  BY <1>3 DEF HostCallSpawn
<1>4. CASE HostCallWait
  BY <1>4 DEF HostCallWait
<1>5. CASE HostAnnounce
  BY <1>5 DEF HostAnnounce, Announce
<1>6. ASSUME NEW sync \in BOOLEAN, HostSpawns(sync)
      PROVE  TypeInv'
  BY <1>6 DEF HostSpawns, Register, Unlock
<1>7. CASE HandleTermination
  BY <1>7 DEF HandleTermination
<1>8. CASE BeginScan
  BY <1>8 DEF BeginScan, RLock
<1>9. ASSUME NEW c \in Core, ScanNothing(c)
      PROVE  TypeInv'
  BY <1>9 DEF ScanNothing, Scanned
<1>10. ASSUME NEW c \in Core, ScanNil(c)
       PROVE  TypeInv'
  BY <1>10 DEF ScanNil, Scanned, RUnlock
<1>11. ASSUME NEW c \in Core, ScanInterrupt(c)
       PROVE  TypeInv'
  BY <1>11 DEF ScanInterrupt, Scanned, RUnlock, Report
<1>12. CASE EndScan
  BY <1>12 DEF EndScan, RUnlock
<1>13. CASE Drop
  BY <1>13 DEF Drop, Unlock
<1>14. CASE Rescan
  BY <1>14 DEF Rescan, RLock
<1>15. CASE CancelAll
  BY <1>15 DEF CancelAll, Unlock
<1>16. CASE ReturnInterrupt
  BY <1>16 DEF ReturnInterrupt, RLock
<1>17. CASE UNCHANGED vars
  BY <1>17 DEF vars
<1>18. QED
  BY <1>1, <1>2, <1>3, <1>4, <1>5, <1>6, <1>7, <1>8, <1>9, <1>10, <1>11, <1>12,
     <1>13, <1>14, <1>15, <1>16, <1>17 DEF Next, HostStep, Scan

\* TypeOK, together with the count of read locks, is invariant.
THEOREM TypeInvariant == Spec => []TypeInv
<1>1. QED
  BY InitTypeInv, StepTypeInv, PTL DEF Spec

\* Every state of the VM's cores is well typed.
THEOREM TypeCorrect == Spec => []TypeOK
<1>1. TypeInv => TypeOK
  BY DEF TypeInv
<1>2. QED
  BY <1>1, TypeInvariant, PTL


-----------------------------------------------------------------------------
(* Joining.                                                                *)

LEMMA InitJoinInv == Init => JoinInv
BY DEF Init, JoinInv, WriterIsAppending, SpawnedBelowCount, HostCoresRegistered,
       OnlySpawnedRegistered, EndedWellBeforeInterrupt, CancelledWhenInterrupted,
       NoEndedCoreRegistered, DropKeepsHostCores, HostCoresJoined, Ended

LEMMA StepJoinInv == TypeInv /\ JoinInv /\ [Next]_vars => JoinInv'
<1> SUFFICES ASSUME TypeInv, JoinInv, [Next]_vars
             PROVE  JoinInv'
  OBVIOUS
<1> USE DEF TypeInv, TypeOK, ReadersCount, CorePC, Signal, HostPC, lockVars,
            coreVars, waitVars, JoinInv, WriterIsAppending, SpawnedBelowCount,
            HostCoresRegistered, OnlySpawnedRegistered, EndedWellBeforeInterrupt,
            CancelledWhenInterrupted, NoEndedCoreRegistered, DropKeepsHostCores,
            HostCoresJoined, Ended
<1>1. ASSUME NEW c \in Core, CoreStep(c)
      PROVE  JoinInv'
  <2>1. CASE CoreCallSpawn(c)
    BY <2>1 DEF CoreCallSpawn
  <2>2. CASE CoreAnnounce(c)
    BY <2>2 DEF CoreAnnounce, Announce
  <2>3. CASE CoreSpawns(c)
    BY <2>3 DEF CoreSpawns, Register, Unlock
  <2>4. CASE CoreFinish(c) \/ CoreFail(c) \/ CoreNoticesCancel(c)
    <3>1. /\ pc[c] = "run"
          /\ pc' = [pc EXCEPT ![c] = "send"]
          /\ \A d \in Core : d # c => signal'[d] = signal[d]
      BY <2>4 DEF CoreFinish, CoreFail, CoreNoticesCancel, Send
    <3>2. UNCHANGED <<coreCnt, cores, lockVars, cancelled, parent, host, exitCore,
                      waitVars, budget>>
      BY <2>4 DEF CoreFinish, CoreFail, CoreNoticesCancel, Send
    <3>3. QED
      BY <3>1, <3>2
  <2>5. QED
    BY <1>1, <2>1, <2>2, <2>3, <2>4 DEF CoreStep
<1>2. CASE Timeout
  BY <1>2 DEF Timeout
<1>3. CASE HostCallSpawn
  BY <1>3 DEF HostCallSpawn
<1>4. CASE HostCallWait
  BY <1>4 DEF HostCallWait
<1>5. CASE HostAnnounce
  BY <1>5 DEF HostAnnounce, Announce
<1>6. ASSUME NEW sync \in BOOLEAN, HostSpawns(sync)
      PROVE  JoinInv'
  BY <1>6 DEF HostSpawns, Register, Unlock
<1>7. CASE HandleTermination
  BY <1>7 DEF HandleTermination
<1>8. CASE BeginScan
  BY <1>8 DEF BeginScan, RLock
<1>9. ASSUME NEW c \in Core, ScanNothing(c)
      PROVE  JoinInv'
  BY <1>9 DEF ScanNothing, Scanned
<1>10. ASSUME NEW c \in Core, ScanNil(c)
       PROVE  JoinInv'
  BY <1>10 DEF ScanNil, Scanned, RUnlock
<1>11. ASSUME NEW c \in Core, ScanInterrupt(c)
       PROVE  JoinInv'
  BY <1>11 DEF ScanInterrupt, Scanned, RUnlock
<1>12. CASE EndScan
  BY <1>12 DEF EndScan, RUnlock
<1>13. CASE Drop
  BY <1>13 DEF Drop, Unlock
<1>14. CASE Rescan
  BY <1>14 DEF Rescan, RLock
<1>15. CASE CancelAll
  BY <1>15 DEF CancelAll, Unlock
<1>16. CASE ReturnInterrupt
  BY <1>16 DEF ReturnInterrupt, RLock
<1>17. CASE UNCHANGED vars
  BY <1>17 DEF vars
<1>18. QED
  BY <1>1, <1>2, <1>3, <1>4, <1>5, <1>6, <1>7, <1>8, <1>9, <1>10, <1>11, <1>12,
     <1>13, <1>14, <1>15, <1>16, <1>17 DEF Next, HostStep, Scan

\* JoinInv is an invariant, and with it each of its parts.
THEOREM JoinInvariant == Spec => []JoinInv
<1>1. QED
  BY InitTypeInv, StepTypeInv, InitJoinInv, StepJoinInv, PTL DEF Spec

\* VM.HandleTermination never reads the stack of a core that has not ended well.
THEOREM HostCoresAreJoined == Spec => []HostCoresJoined
<1>1. JoinInv => HostCoresJoined
  BY DEF JoinInv
<1>2. QED
  BY <1>1, JoinInvariant, PTL

\* Wait forgets a core before it polls the slice again.
THEOREM EndedCoresAreForgotten == Spec => []NoEndedCoreRegistered
<1>1. JoinInv => NoEndedCoreRegistered
  BY DEF JoinInv
<1>2. QED
  BY <1>1, JoinInvariant, PTL

\* The write-back of the shortened slice loses none of the host's cores.
THEOREM DropIsSafeForHostCores == Spec => []DropKeepsHostCores
<1>1. JoinInv => DropKeepsHostCores
  BY DEF JoinInv
<1>2. QED
  BY <1>1, JoinInvariant, PTL

\* After an interrupt has reached the caller no core is spawned: the read lock
\* Wait returns with keeps every spawnCore out.
THEOREM InterruptIsFinal == Spec => NoCoreAfterInterrupt
<1> USE DEF TypeInv, TypeOK, ReadersCount, JoinInv, CancelledWhenInterrupted
<1>1. TypeInv /\ JoinInv /\ [Next]_vars
        => [host = "stopped" => cancelled /\ UNCHANGED <<cores, coreCnt>>]_vars
  <2> SUFFICES ASSUME TypeInv, JoinInv, host = "stopped", Next
               PROVE  cancelled /\ UNCHANGED <<cores, coreCnt>>
    OBVIOUS
  <2>1. readers = 1 /\ cancelled
    OBVIOUS
  <2>2. ASSUME NEW c \in Core, CoreStep(c)
        PROVE  UNCHANGED <<cores, coreCnt>>
    <3>1. ~CoreSpawns(c)
      BY <2>1 DEF CoreSpawns, Register
    <3>2. QED
      BY <3>1, <2>2 DEF CoreStep, CoreCallSpawn, CoreAnnounce, CoreFinish,
                        CoreFail, CoreNoticesCancel, Send
  <2>3. ~HostStep /\ ~HostCallSpawn /\ ~HostCallWait
    BY DEF HostStep, HostAnnounce, HostSpawns, HandleTermination, BeginScan, Scan,
           ScanNothing, ScanNil, ScanInterrupt, Scanned, EndScan, Drop, Rescan,
           CancelAll, ReturnInterrupt, HostCallSpawn, HostCallWait
  <2>4. ~Timeout
    BY <2>1 DEF Timeout
  <2>5. QED
    BY <2>1, <2>2, <2>3, <2>4 DEF Next
<1>2. QED
  BY <1>1, TypeInvariant, JoinInvariant, PTL DEF Spec, NoCoreAfterInterrupt

-----------------------------------------------------------------------------
(* Scripts that do not spawn.                                              *)

\* As long as scripts do not spawn, so that every core is the host's, a Wait that
\* returns (0, nil) has joined every core.  This is as far as the claim goes: TLC
\* refutes WaitJoinsEveryCore itself.
THEOREM EveryCoreJoinedWithoutSpawn ==
  Spec => []((\A c \in Spawned : parent[c] = Host) => WaitJoinsEveryCore)
<1>1. HostCoresJoined => ((\A c \in Spawned : parent[c] = Host) => WaitJoinsEveryCore)
  BY DEF HostCoresJoined, WaitJoinsEveryCore, Spawned, Ended
<1>2. QED
  BY <1>1, HostCoresAreJoined, PTL

-----------------------------------------------------------------------------
(* VmCores implements CoreJoin.  The invariant JoinInv supplies what the   *)
(* abstract guards ask for: that a new core is fresh, that no interrupt is *)
(* pending when a core starts, and that none of the host's cores is alive  *)
(* when a Wait returns.                                                    *)

\* The part of the invariant that also relates the interrupt taken by Wait to
\* the point the host has reached.
RaisedInv ==
  /\ host \in {"cancelCall", "cancel", "relock", "stopped"} <=> Raised # {}

LEMMA StepRaisedInv ==
  TypeInv /\ JoinInv /\ RaisedInv /\ [Next]_vars => RaisedInv'
<1> SUFFICES ASSUME TypeInv, JoinInv, RaisedInv, [Next]_vars
             PROVE  RaisedInv'
  OBVIOUS
<1> USE DEF TypeInv, TypeOK, RaisedInv, Raised, coreVars, CorePC, HostPC, Signal
<1>1. ASSUME NEW c \in Core, CoreStep(c)
      PROVE  RaisedInv'
  <2>1. /\ pc[c] # "done"
        /\ host' = host
        /\ \A d \in Core : /\ d # c => signal'[d] = signal[d]
                           /\ pc'[d] = "done" <=> pc[d] = "done"
    <3>1. CASE CoreSpawns(c)
      BY <3>1 DEF CoreSpawns, Register, JoinInv, SpawnedBelowCount
    <3>2. CASE ~CoreSpawns(c)
      BY <1>1, <3>2 DEF CoreStep, CoreCallSpawn, CoreAnnounce, CoreFinish,
                        CoreFail, CoreNoticesCancel, Send
    <3>3. QED
      BY <3>1, <3>2
  <2>2. QED
    BY <2>1
<1>2. ASSUME NEW sync \in BOOLEAN, HostSpawns(sync)
      PROVE  RaisedInv'
  BY <1>2 DEF HostSpawns, Register, JoinInv, SpawnedBelowCount
<1>3. ASSUME NEW c \in Core, ScanNil(c)
      PROVE  RaisedInv'
  BY <1>3 DEF ScanNil, Scanned
<1>4. ASSUME NEW c \in Core, ScanInterrupt(c)
      PROVE  RaisedInv'
  BY <1>4 DEF ScanInterrupt, Scanned
<1>5. CASE /\ UNCHANGED <<pc, signal>>
           /\ host' \in {"cancelCall", "cancel", "relock", "stopped"}
                <=> host \in {"cancelCall", "cancel", "relock", "stopped"}
  BY <1>5
<1>6. QED
  BY <1>1, <1>2, <1>3, <1>4, <1>5
     DEF Next, HostStep, HostAnnounce, HandleTermination, BeginScan, Scan,
         ScanNothing, Scanned, EndScan, Drop, Rescan, CancelAll, ReturnInterrupt,
         HostCallSpawn, HostCallWait, Timeout, vars

-----------------------------------------------------------------------------

\* A step that moves no core between the sets and keeps the outcome stutters.
LEMMA Stutter ==
  ASSUME \A d \in Core : /\ parent'[d] = parent[d]
                         /\ pc'[d] \in {"none", "done"} \/ pc[d] \in {"none", "done"}
                              => pc'[d] = pc[d]
                         /\ pc[d] = "done" => signal'[d] = signal[d],
         Outcome' = Outcome
  PROVE  UNCHANGED Join!vars
BY DEF Join!vars, Own, Live, EndedWell, Raised

LEMMA StepImplements ==
  TypeInv /\ JoinInv /\ RaisedInv /\ [Next]_vars => [Join!Next]_(Join!vars)
<1> SUFFICES ASSUME TypeInv, JoinInv, RaisedInv, Next
             PROVE  Join!Next \/ UNCHANGED Join!vars
  BY DEF Join!vars, vars, coreVars, Own, Live, EndedWell, Raised, Outcome
<1> USE DEF TypeInv, TypeOK, CorePC, HostPC, Signal, coreVars
<1>1. ASSUME NEW c \in Core, CoreSpawns(c)
      PROVE  Join!Fork(coreCnt)
  <2>1. /\ coreCnt \in Core /\ readers = 0 /\ pc[c] = "append"
        /\ pc[coreCnt] = "none" /\ c # coreCnt
        /\ parent' = [parent EXCEPT ![coreCnt] = c]
        /\ pc' = [pc EXCEPT ![c] = "run", ![coreCnt] = "run"]
        /\ UNCHANGED <<signal, host>>
    BY <1>1 DEF CoreSpawns, Register, JoinInv, SpawnedBelowCount
  <2>2. c # Host /\ parent[coreCnt] = None /\ None # Host
    BY <2>1, ThreadsAssumption, MaxCoresAssumption DEF JoinInv, SpawnedBelowCount, Core
  <2>3. /\ Outcome # "interrupted" /\ Outcome' = Outcome
    BY <2>1 DEF Outcome, ReadersCount
  <2>4. Live # {} /\ Join!Fresh(coreCnt)
    BY <2>1 DEF Live, Join!Fresh, EndedWell, Raised
  <2>5. /\ Own' = Own /\ Live' = Live \cup {coreCnt}
        /\ EndedWell' = EndedWell /\ Raised' = Raised
    BY <2>1, <2>2 DEF Own, Live, EndedWell, Raised
  <2>6. QED
    BY <2>3, <2>4, <2>5 DEF Join!Fork
<1>2. ASSUME NEW sync \in BOOLEAN, HostSpawns(sync)
      PROVE  Join!Start(coreCnt)
  <2>1. /\ coreCnt \in Core /\ host = "append" /\ host' \in {"wait", "idle"}
        /\ pc[coreCnt] = "none"
        /\ parent' = [parent EXCEPT ![coreCnt] = Host]
        /\ pc' = [pc EXCEPT ![coreCnt] = "run"]
        /\ UNCHANGED <<signal>>
    BY <1>2 DEF HostSpawns, Register, JoinInv, SpawnedBelowCount
  <2>2. Outcome = "open" /\ Outcome' = Outcome /\ Raised = {}
    BY <2>1 DEF Outcome, RaisedInv
  <2>3. Join!Fresh(coreCnt)
    BY <2>1 DEF Live, Join!Fresh, EndedWell, Raised
  <2>4. /\ Own' = Own \cup {coreCnt} /\ Live' = Live \cup {coreCnt}
        /\ EndedWell' = EndedWell /\ Raised' = Raised
    BY <2>1 DEF Own, Live, EndedWell, Raised
  <2>5. QED
    BY <2>2, <2>3, <2>4 DEF Join!Start
<1>3. ASSUME NEW c \in Core, ScanNil(c)
      PROVE  Join!End(c)
  <2>1. /\ host = "scan" /\ host' = "dropCall"
        /\ pc[c] = "send" /\ signal[c] = "nil"
        /\ pc' = [pc EXCEPT ![c] = "done"]
        /\ UNCHANGED <<signal, parent>>
    BY <1>3 DEF ScanNil, Scanned
  <2>2. /\ Own' = Own /\ Live' = Live \ {c}
        /\ EndedWell' = EndedWell \cup {c} /\ Raised' = Raised
    BY <2>1 DEF Own, Live, EndedWell, Raised
  <2>3. QED
    BY <2>1, <2>2 DEF Join!End, Outcome, Live
<1>4. ASSUME NEW c \in Core, ScanInterrupt(c)
      PROVE  Join!Raise(c)
  <2>1. /\ host = "scan" /\ host' = "cancelCall"
        /\ pc[c] = "send" /\ signal[c] # "nil"
        /\ pc' = [pc EXCEPT ![c] = "done"]
        /\ UNCHANGED <<signal, parent>>
    BY <1>4 DEF ScanInterrupt, Scanned
  <2>2. Raised = {}
    BY <2>1 DEF RaisedInv
  <2>3. /\ Own' = Own /\ Live' = Live \ {c}
        /\ EndedWell' = EndedWell /\ Raised' = {c}
    BY <2>1, <2>2 DEF Own, Live, EndedWell, Raised
  <2>4. QED
    BY <2>1, <2>2, <2>3 DEF Join!Raise, Outcome, Live
<1>5. CASE EndScan
  <2>1. CASE cores = {}
    <3>1. Own \cap Live = {}
      BY <1>5, <2>1 DEF EndScan, JoinInv, HostCoresRegistered, Own, Live
    <3>2. Raised = {}
      BY <1>5 DEF EndScan, RaisedInv
    <3>3. Join!Join
      BY <1>5, <2>1, <3>1, <3>2
         DEF EndScan, Join!Join, Outcome, Own, Live, EndedWell, Raised
    <3>4. QED
      BY <3>3 DEF Join!Next
  <2>2. CASE cores # {}
    BY <1>5, <2>2, Stutter DEF EndScan, Outcome
  <2>3. QED
    BY <2>1, <2>2
<1>6. CASE HandleTermination
  <2>1. Join!Resume
    BY <1>6 DEF HandleTermination, Join!Resume, Outcome, Own, Live, EndedWell, Raised
  <2>2. QED
    BY <2>1 DEF Join!Next
<1>7. CASE ReturnInterrupt
  <2>1. Raised # {}
    BY <1>7 DEF ReturnInterrupt, RaisedInv
  <2>2. Join!Interrupt
    BY <1>7, <2>1
       DEF ReturnInterrupt, Join!Interrupt, Outcome, Own, Live, EndedWell, Raised
  <2>3. QED
    BY <2>2 DEF Join!Next
<1>8. ASSUME NEW c \in Core,
             \/ CoreCallSpawn(c) \/ CoreAnnounce(c) \/ CoreFinish(c)
             \/ CoreFail(c) \/ CoreNoticesCancel(c)
      PROVE  UNCHANGED Join!vars
  <2>1. Outcome' = Outcome /\ UNCHANGED parent
    BY <1>8 DEF CoreCallSpawn, CoreAnnounce, CoreFinish, CoreFail,
                CoreNoticesCancel, Send, Outcome
  <2>2. /\ pc[c] \in {"run", "call"}
        /\ pc' \in {[pc EXCEPT ![c] = "call"], [pc EXCEPT ![c] = "append"],
                    [pc EXCEPT ![c] = "send"]}
        /\ \A d \in Core : d # c => signal'[d] = signal[d]
    BY <1>8 DEF CoreCallSpawn, CoreAnnounce, CoreFinish, CoreFail,
                CoreNoticesCancel, Send
  <2>3. QED
    BY <2>1, <2>2, Stutter
<1>9. CASE /\ UNCHANGED <<pc, signal, parent>>
           /\ Outcome' = Outcome
  BY <1>9, Stutter
<1>10. ASSUME \/ Timeout \/ HostCallSpawn \/ HostCallWait \/ HostAnnounce
              \/ BeginScan \/ (\E c \in Core : ScanNothing(c)) \/ Drop \/ Rescan
              \/ CancelAll
       PROVE  UNCHANGED <<pc, signal, parent>> /\ Outcome' = Outcome
  BY <1>10 DEF Timeout, HostCallSpawn, HostCallWait, HostAnnounce, BeginScan,
               ScanNothing, Scanned, Drop, Rescan, CancelAll, Outcome
<1>11. ASSUME NEW c \in Core, CoreStep(c)
       PROVE  Join!Next \/ UNCHANGED Join!vars
  <2>1. CASE CoreSpawns(c)
    BY <1>1, <2>1 DEF Join!Next, CoreSpawns, Register
  <2>2. CASE ~CoreSpawns(c)
    BY <1>8, <1>11, <2>2 DEF CoreStep
  <2>3. QED
    BY <2>1, <2>2
<1>12. CASE \E sync \in BOOLEAN : HostSpawns(sync)
  BY <1>2, <1>12 DEF Join!Next, HostSpawns, Register
<1>13. CASE Scan
  BY <1>3, <1>4, <1>5, <1>9, <1>10, <1>13 DEF Scan, Join!Next
<1>14. QED
  BY <1>5, <1>6, <1>7, <1>9, <1>10, <1>11, <1>12, <1>13 DEF Next, HostStep

\* The detailed machine of goroutines, RWMutex and slices implements the
\* abstract contract of joining.
THEOREM VmCoresImplementsJoin == Spec => ImplementsJoin
<1>1. Init => Join!Init
  BY ThreadsAssumption
     DEF Init, Join!Init, Own, Live, EndedWell, Raised, Outcome
<1>2. Init => RaisedInv
  BY DEF Init, RaisedInv, Raised
<1>3. QED
  BY <1>1, <1>2, StepRaisedInv, StepImplements, TypeInvariant, JoinInvariant, PTL
     DEF Spec, ImplementsJoin, Join!Spec

=============================================================================
