------------------------------ MODULE VmCores ------------------------------
(***************************************************************************)
(* The life cycle of the cores of one bytecode VM (homescript/runtime):    *)
(* spawning a core, the rendezvous on its SignalHandle when it ends, and   *)
(* the host thread that joins the cores in VM.Wait.                        *)
(*                                                                         *)
(* Threads: the host (the goroutine that calls SpawnSync, SpawnAsync and   *)
(* Wait) and one goroutine per core.  Shared state: the slice of cores,    *)
(* its RWMutex, the counter coreCnt and the cancellation context.          *)
(*                                                                         *)
(* What a core computes is left out: it may spawn, end, fail, or notice    *)
(* the cancellation of its context, in any order (module CoreMachine looks *)
(* inside).  A slice of cores is a set of core numbers: spawnCore appends  *)
(* under the write lock with a growing number, so the slice is always in   *)
(* ascending order.                                                        *)
(***************************************************************************)
EXTENDS Integers

CONSTANTS
  MaxCores,    \* bound: how many cores are ever requested
  Host,        \* the host goroutine
  None         \* no thread, no core

ASSUME MaxCoresAssumption == MaxCores \in Nat \ {0}
ASSUME ThreadsAssumption ==
  /\ Host # None
  /\ Host \notin Int
  /\ None \notin Int

Core == 0..(MaxCores - 1)

VARIABLES
  coreCnt,    \* VM.coreCnt: the number the next core gets
  cores,      \* Cores.Cores, the registered cores
  writer,     \* the thread that called Lock on Cores.Lock and has not unlocked
  readers,    \* how many times Cores.Lock is held for reading
  cancelled,  \* is the cancellation context done?
  pc,         \* where each core's goroutine is
  signal,     \* what the core sends on its SignalHandle
  parent,     \* history: the thread that spawned the core
  host,       \* where the host is
  exitCore,   \* the core SpawnSync is waiting for, if any
  unscanned,  \* the rest of the slice Wait's inner loop ranges over
  newCores,   \* Wait's local of that name
  report,     \* the core and interrupt Wait returns, if any
  budget      \* bound: how many spawn calls may still be made

lockVars == <<writer, readers>>
coreVars == <<pc, signal, parent>>
waitVars == <<unscanned, newCores, report>>
vars == <<coreCnt, cores, lockVars, cancelled, coreVars, host, exitCore,
          waitVars, budget>>

\* "call" is inside Lock, before the writer mutex is obtained; "append" holds
\* that mutex and waits for the readers to leave; "send" is parked in the send
\* on the unbuffered SignalHandle.
CorePC == {"none", "run", "call", "append", "send", "done"}
Signal == {"nil", "exception", "termination"}
HostPC == {"idle", "call", "append", "wait", "scan", "dropCall", "drop",
           "rescan", "cancelCall", "cancel", "relock", "stopped", "returned"}

\* Wait returns (0, nil), or the number and interrupt of the core that raised it.
NilReport == [core |-> None, kind |-> "nil"]
Report == [core : Core \cup {None}, kind : Signal]

TypeOK ==
  /\ coreCnt \in 0..MaxCores
  /\ cores \subseteq Core
  /\ writer \in Core \cup {Host, None}
  /\ readers \in {0, 1}
  /\ cancelled \in BOOLEAN
  /\ pc \in [Core -> CorePC]
  /\ signal \in [Core -> Signal]
  /\ parent \in [Core -> Core \cup {Host, None}]
  /\ host \in HostPC
  /\ exitCore \in Core \cup {None}
  /\ unscanned \subseteq Core
  /\ newCores \subseteq Core
  /\ report \in Report
  /\ budget \in 0..MaxCores

Init ==
  /\ coreCnt = 0
  /\ cores = {}
  /\ writer = None
  /\ readers = 0
  /\ cancelled = FALSE
  /\ pc = [c \in Core |-> "none"]
  /\ signal = [c \in Core |-> "nil"]
  /\ parent = [c \in Core |-> None]
  /\ host = "idle"
  /\ exitCore = None
  /\ unscanned = {}
  /\ newCores = {}
  /\ report = NilReport
  /\ budget = MaxCores

-----------------------------------------------------------------------------
(* sync.RWMutex: a writer first excludes other writers and new readers,    *)
(* then waits until the readers it found have left.                        *)

Announce(t) ==
  /\ writer = None
  /\ writer' = t

Unlock == writer' = None

RLock ==
  /\ writer = None
  /\ readers' = readers + 1

RUnlock == readers' = readers - 1

\* Mutated form of Register: the unlock is forgotten.
RegisterKeepsLock(t) ==
  /\ readers = 0
  /\ coreCnt \in Core
  /\ cores' = cores \cup {coreCnt}
  /\ coreCnt' = coreCnt + 1
  /\ parent' = [parent EXCEPT ![coreCnt] = t]
  /\ UNCHANGED writer

\* The body of spawnCore, under the write lock, and the start of the goroutine
\* that runs the core (spawnCoreInternal).
Register(t) ==
  /\ readers = 0
  /\ coreCnt \in Core
  /\ cores' = cores \cup {coreCnt}
  /\ coreCnt' = coreCnt + 1
  /\ parent' = [parent EXCEPT ![coreCnt] = t]
  /\ Unlock

-----------------------------------------------------------------------------
(* The goroutine of core c: Core.Run, seen from outside.                   *)

\* The Spawn instruction calls spawnCoreInternal, which enters Lock.
CoreCallSpawn(c) ==
  /\ pc[c] = "run"
  /\ budget > 0
  /\ budget' = budget - 1
  /\ pc' = [pc EXCEPT ![c] = "call"]
  /\ UNCHANGED <<coreCnt, cores, lockVars, cancelled, signal, parent, host,
                 exitCore, waitVars>>

CoreAnnounce(c) ==
  /\ pc[c] = "call"
  /\ Announce(c)
  /\ pc' = [pc EXCEPT ![c] = "append"]
  /\ UNCHANGED <<coreCnt, cores, readers, cancelled, signal, parent, host,
                 exitCore, waitVars, budget>>

CoreSpawns(c) ==
  /\ pc[c] = "append"
  /\ Register(c)
  /\ pc' = [pc EXCEPT ![c] = "run", ![coreCnt] = "run"]
  /\ UNCHANGED <<readers, cancelled, signal, host, exitCore, waitVars, budget>>

\* Run reaches one of its `SignalHandle <-` statements and parks there.
Send(c, s) ==
  /\ pc[c] = "run"
  /\ pc' = [pc EXCEPT ![c] = "send"]
  /\ signal' = [signal EXCEPT ![c] = s]
  /\ UNCHANGED <<coreCnt, cores, lockVars, cancelled, parent, host, exitCore,
                 waitVars, budget>>

CoreFinish(c) == Send(c, "nil")

\* An uncaught throw, a fatal exception, or an exceeded limit.
CoreFail(c) == Send(c, "exception")

\* Mutated form of CoreNoticesCancel: a core spawned by a core is given a context
\* of its own.
CoreNoticesOwnCancel(c) ==
  /\ cancelled
  /\ parent[c] = Host
  /\ Send(c, "termination")

\* checkCancelation, at the start of every vcycle.
CoreNoticesCancel(c) ==
  /\ cancelled
  /\ Send(c, "termination")

\* The context every caller of NewVM passes has a timeout.
Timeout ==
  /\ ~cancelled
  /\ cancelled' = TRUE
  /\ UNCHANGED <<coreCnt, cores, lockVars, coreVars, host, exitCore, waitVars,
                 budget>>

-----------------------------------------------------------------------------
(* The host: SpawnAsync, SpawnSync.                                        *)

HostCallSpawn ==
  /\ host = "idle"
  /\ budget > 0
  /\ budget' = budget - 1
  /\ host' = "call"
  /\ UNCHANGED <<coreCnt, cores, lockVars, cancelled, coreVars, exitCore,
                 waitVars>>

\* Whether the call was SpawnSync, which goes on to Wait, or SpawnAsync.
HostSpawns(sync) ==
  /\ host = "append"
  /\ Register(Host)
  /\ pc' = [pc EXCEPT ![coreCnt] = "run"]
  /\ host' = IF sync THEN "wait" ELSE "idle"
  /\ exitCore' = IF sync THEN coreCnt ELSE None
  /\ UNCHANGED <<readers, cancelled, signal, waitVars, budget>>

\* HandleTermination reads the result from the stack of the exit core.
HandleTermination ==
  /\ host = "returned"
  /\ host' = "idle"
  /\ exitCore' = None
  /\ UNCHANGED <<coreCnt, cores, lockVars, cancelled, coreVars, waitVars, budget>>

-----------------------------------------------------------------------------
(* The host: Wait.                                                         *)

HostCallWait ==
  /\ host = "idle"
  /\ host' = "wait"
  /\ UNCHANGED <<coreCnt, cores, lockVars, cancelled, coreVars, exitCore,
                 waitVars, budget>>

\* The head of the outer loop; `range` fixes the slice it will look at.
BeginScan ==
  /\ host = "wait"
  /\ RLock
  /\ unscanned' = cores
  /\ host' = "scan"
  /\ UNCHANGED <<coreCnt, cores, writer, cancelled, coreVars, exitCore, newCores,
                 report, budget>>

\* The next core of the slice, in ascending order.
Scanned(c) ==
  /\ host = "scan"
  /\ c \in unscanned
  /\ \A d \in unscanned : c <= d
  /\ unscanned' = unscanned \ {c}

\* The non-blocking receive finds no sender: the `default` case.
ScanNothing(c) ==
  /\ Scanned(c)
  /\ pc[c] # "send"
  /\ UNCHANGED <<coreCnt, cores, lockVars, cancelled, coreVars, host, exitCore,
                 newCores, report, budget>>

\* Mutated forms of ScanNil: the cores before c are cut off with it; the signal is
\* taken without a look at it; the read lock is kept.
ScanNilCutting(c) ==
  /\ Scanned(c)
  /\ pc[c] = "send"
  /\ signal[c] = "nil"
  /\ pc' = [pc EXCEPT ![c] = "done"]
  /\ newCores' = {d \in cores : d > c}
  /\ RUnlock
  /\ host' = "dropCall"
  /\ UNCHANGED <<coreCnt, cores, writer, cancelled, signal, parent, exitCore,
                 report, budget>>

ScanNilUnlooked(c) ==
  /\ Scanned(c)
  /\ pc[c] = "send"
  /\ pc' = [pc EXCEPT ![c] = "done"]
  /\ newCores' = cores \ {c}
  /\ RUnlock
  /\ host' = "dropCall"
  /\ UNCHANGED <<coreCnt, cores, writer, cancelled, signal, parent, exitCore,
                 report, budget>>

ScanNilLocked(c) ==
  /\ Scanned(c)
  /\ pc[c] = "send"
  /\ signal[c] = "nil"
  /\ pc' = [pc EXCEPT ![c] = "done"]
  /\ newCores' = cores \ {c}
  /\ host' = "dropCall"
  /\ UNCHANGED <<coreCnt, cores, lockVars, cancelled, signal, parent, exitCore,
                 report, budget>>

\* The core ended well: compute the slice without it, then give up the read
\* lock in order to take the write lock.
ScanNil(c) ==
  /\ Scanned(c)
  /\ pc[c] = "send"
  /\ signal[c] = "nil"
  /\ pc' = [pc EXCEPT ![c] = "done"]
  /\ newCores' = cores \ {c}
  /\ RUnlock
  /\ host' = "dropCall"
  /\ UNCHANGED <<coreCnt, cores, writer, cancelled, signal, parent, exitCore,
                 report, budget>>

\* Mutated form of Drop: the new slice is not stored.
DropNothing ==
  /\ host = "drop"
  /\ readers = 0
  /\ Unlock
  /\ host' = "rescan"
  /\ newCores' = {}
  /\ UNCHANGED <<coreCnt, cores, readers, cancelled, coreVars, exitCore, unscanned,
                 report, budget>>

Drop ==
  /\ host = "drop"
  /\ readers = 0
  /\ cores' = newCores
  /\ Unlock
  /\ host' = "rescan"
  /\ newCores' = {}
  /\ UNCHANGED <<coreCnt, readers, cancelled, coreVars, exitCore, unscanned, report,
                 budget>>

Rescan ==
  /\ host = "rescan"
  /\ RLock
  /\ host' = "scan"
  /\ UNCHANGED <<coreCnt, cores, writer, cancelled, coreVars, exitCore, waitVars,
                 budget>>

\* The core raised an interrupt: give up the read lock, take the write lock,
\* cancel everything and forget all cores.
ScanInterrupt(c) ==
  /\ Scanned(c)
  /\ pc[c] = "send"
  /\ signal[c] # "nil"
  /\ pc' = [pc EXCEPT ![c] = "done"]
  /\ report' = [core |-> c, kind |-> signal[c]]
  /\ RUnlock
  /\ host' = "cancelCall"
  /\ UNCHANGED <<coreCnt, cores, writer, cancelled, signal, parent, exitCore,
                 newCores, budget>>

CancelAll ==
  /\ host = "cancel"
  /\ readers = 0
  /\ cancelled' = TRUE
  /\ cores' = {}
  /\ Unlock
  /\ host' = "relock"
  /\ UNCHANGED <<coreCnt, readers, coreVars, exitCore, waitVars, budget>>

\* Mutated forms of ReturnInterrupt: Wait returns without the read lock; Wait
\* returns no error.
ReturnInterruptUnlocked ==
  /\ host = "relock"
  /\ host' = "stopped"
  /\ UNCHANGED <<coreCnt, cores, lockVars, cancelled, coreVars, exitCore, waitVars,
                 budget>>

ReturnInterruptAsNil ==
  /\ host = "relock"
  /\ RLock
  /\ host' = "returned"
  /\ UNCHANGED <<coreCnt, cores, writer, cancelled, coreVars, exitCore, waitVars,
                 budget>>

\* Wait takes the read lock once more and returns with it.  All callers panic
\* or return when they are handed an interrupt.
ReturnInterrupt ==
  /\ host = "relock"
  /\ RLock
  /\ host' = "stopped"
  /\ UNCHANGED <<coreCnt, cores, writer, cancelled, coreVars, exitCore, waitVars,
                 budget>>

\* Mutated forms of EndScan: return after the first scan; keep the read lock.
EndScanReturns ==
  /\ host = "scan"
  /\ unscanned = {}
  /\ RUnlock
  /\ host' = "returned"
  /\ UNCHANGED <<coreCnt, cores, writer, cancelled, coreVars, exitCore, waitVars,
                 budget>>

EndScanLocked ==
  /\ host = "scan"
  /\ unscanned = {}
  /\ host' = IF cores = {} THEN "returned" ELSE "wait"
  /\ UNCHANGED <<coreCnt, cores, lockVars, cancelled, coreVars, exitCore, waitVars,
                 budget>>

\* The slice is exhausted: return (0, nil) if no core is left, else sleep.
EndScan ==
  /\ host = "scan"
  /\ unscanned = {}
  /\ RUnlock
  /\ host' = IF cores = {} THEN "returned" ELSE "wait"
  /\ UNCHANGED <<coreCnt, cores, writer, cancelled, coreVars, exitCore, waitVars,
                 budget>>

\* The host enters Lock, for SpawnSync, SpawnAsync or Wait.
HostAnnounce ==
  /\ \/ host = "call" /\ host' = "append"
     \/ host = "dropCall" /\ host' = "drop"
     \/ host = "cancelCall" /\ host' = "cancel"
  /\ Announce(Host)
  /\ UNCHANGED <<coreCnt, cores, readers, cancelled, coreVars, exitCore, waitVars,
                 budget>>

-----------------------------------------------------------------------------

CoreStep(c) ==
  \/ CoreCallSpawn(c)
  \/ CoreAnnounce(c)
  \/ CoreSpawns(c)
  \/ CoreFinish(c)
  \/ CoreFail(c)
  \/ CoreNoticesCancel(c)

Scan ==
  \/ \E c \in Core : ScanNothing(c) \/ ScanNil(c) \/ ScanInterrupt(c)
  \/ EndScan

\* What the host does without a decision of its caller.
HostStep ==
  \/ HostAnnounce
  \/ \E sync \in BOOLEAN : HostSpawns(sync)
  \/ HandleTermination
  \/ BeginScan
  \/ Scan
  \/ Drop
  \/ Rescan
  \/ CancelAll
  \/ ReturnInterrupt

Next ==
  \/ \E c \in Core : CoreStep(c)
  \/ Timeout
  \/ HostCallSpawn
  \/ HostCallWait
  \/ HostStep

\* The Go scheduler runs every goroutine that can run, a core looks at its
\* context at least every 50 instructions, and the context's timer fires.
\* Scripts need not end, nor callers call.
Fairness ==
  /\ WF_vars(HostStep)
  /\ WF_vars(Timeout)
  /\ \A c \in Core : /\ WF_vars(CoreAnnounce(c))
                     /\ WF_vars(CoreSpawns(c))
                     /\ WF_vars(CoreNoticesCancel(c))

Spec == Init /\ [][Next]_vars

FairSpec == Spec /\ Fairness

-----------------------------------------------------------------------------
(* Properties.                                                             *)

Spawned == {c \in Core : pc[c] # "none"}
Ended == {c \in Core : pc[c] = "done"}
Waiting == host \notin {"idle", "call", "append", "stopped", "returned"}

\* When Wait returns (0, nil), every core the host ever spawned has run to its
\* end and has signalled success: the precondition of HandleTermination, which
\* reads the result off the exit core's stack with no lock and no check.
HostCoresJoined ==
  host = "returned" =>
    \A c \in Core : parent[c] = Host => pc[c] = "done" /\ signal[c] = "nil"

\* A core whose signal has been taken is forgotten before the next scan begins:
\* Wait never goes on polling the channel of a core that will not send again.
NoEndedCoreRegistered ==
  host \notin {"dropCall", "drop", "cancelCall", "cancel"} => cores \cap Ended = {}

\* The slice Wait is about to store never brings back a core it has joined, and
\* omits no core the host spawned that is still alive.
DropKeepsHostCores ==
  host \in {"dropCall", "drop"} =>
    /\ newCores \cap Ended = {}
    /\ \A c \in Core : parent[c] = Host /\ pc[c] # "done" => c \in newCores

\* The facts the safety properties rest on; JoinInv is inductive.
WriterIsAppending ==
  /\ writer = Host <=> host \in {"append", "drop", "cancel"}
  /\ \A c \in Core : writer = c <=> pc[c] = "append"

SpawnedBelowCount ==
  \A c \in Core : /\ pc[c] = "none" <=> c >= coreCnt
                  /\ pc[c] = "none" => parent[c] = None

HostCoresRegistered ==
  host \notin {"relock", "stopped"} =>
    \A c \in Core : parent[c] = Host /\ pc[c] # "done" => c \in cores

OnlySpawnedRegistered ==
  \A c \in cores \cup newCores \cup unscanned : pc[c] # "none"

EndedWellBeforeInterrupt ==
  host \notin {"cancelCall", "cancel", "relock", "stopped"} =>
    \A c \in Ended : signal[c] = "nil"

CancelledWhenInterrupted == host \in {"relock", "stopped"} => cancelled

JoinInv ==
  /\ WriterIsAppending
  /\ SpawnedBelowCount
  /\ HostCoresRegistered
  /\ OnlySpawnedRegistered
  /\ EndedWellBeforeInterrupt
  /\ CancelledWhenInterrupted
  /\ NoEndedCoreRegistered
  /\ DropKeepsHostCores
  /\ HostCoresJoined

\* Once Wait has handed an interrupt to its caller, the context is done and no
\* further core comes into being: the script cannot restart itself.
NoCoreAfterInterrupt ==
  [][host = "stopped" => cancelled /\ UNCHANGED <<cores, coreCnt>>]_vars

\* Every Wait returns: each registered core is, at the latest when the context
\* is done, found in its send and joined, and no lock is waited for forever.
WaitReturns == Waiting ~> ~Waiting

\* An interrupt raised by a core the host spawned and waits for is not lost: it
\* (or that of another core) ends the Wait.
InterruptReachesHost ==
  \A c \in Core :
    (Waiting /\ parent[c] = Host /\ pc[c] = "send" /\ signal[c] # "nil")
      ~> host = "stopped"

\* After the context is done there is a moment from which no core executes
\* instructions, including cores spawned while the cancellation was under way.
CancelQuiesces == cancelled ~> [](\A c \in Core : pc[c] # "run")

\* A core inside `spawn` gets past the lock, unless an interrupt ended the VM.
SpawnReturns ==
  \A c \in Core : pc[c] \in {"call", "append"} ~> (pc[c] = "run" \/ host = "stopped")

\* What the callers of Wait rely on when they read the program's output and its
\* globals: a Wait that returned (0, nil) has joined every core of the VM.
WaitJoinsEveryCore == host = "returned" => Spawned = Ended

=============================================================================
