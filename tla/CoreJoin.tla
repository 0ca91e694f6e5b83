------------------------------ MODULE CoreJoin ------------------------------
(***************************************************************************)
(* What the caller of a VM is promised about its cores, with no lock, no   *)
(* slice and no scan: cores are started by the host or forked by a live    *)
(* core; a Wait is over when either all cores the host started have ended  *)
(* well, or some core has raised an interrupt, which ends the VM.          *)
(*                                                                         *)
(* VmCores implements this specification (VmCoresJoin); it does NOT        *)
(* implement the one where Join demands live = {}.                         *)
(***************************************************************************)
CONSTANT Core

VARIABLES
  own,     \* cores started by the host
  live,    \* cores started or forked, and not yet joined
  ended,   \* cores joined after they ended well
  raised,  \* cores whose interrupt ended a Wait
  outcome  \* "open", or how the last Wait ended

vars == <<own, live, ended, raised, outcome>>

Fresh(c) == c \in Core \ (live \cup ended \cup raised)

Init ==
  /\ own = {}
  /\ live = {}
  /\ ended = {}
  /\ raised = {}
  /\ outcome = "open"

Start(c) ==
  /\ outcome = "open"
  /\ raised = {}
  /\ Fresh(c)
  /\ own' = own \cup {c}
  /\ live' = live \cup {c}
  /\ UNCHANGED <<ended, raised, outcome>>

\* A core that was never joined may outlive the Wait, so forks may come late,
\* but never after an interrupt.
Fork(c) ==
  /\ outcome # "interrupted"
  /\ live # {}
  /\ Fresh(c)
  /\ live' = live \cup {c}
  /\ UNCHANGED <<own, ended, raised, outcome>>

End(c) ==
  /\ outcome = "open"
  /\ c \in live
  /\ live' = live \ {c}
  /\ ended' = ended \cup {c}
  /\ UNCHANGED <<own, raised, outcome>>

Raise(c) ==
  /\ outcome = "open"
  /\ raised = {}
  /\ c \in live
  /\ live' = live \ {c}
  /\ raised' = {c}
  /\ UNCHANGED <<own, ended, outcome>>

Join ==
  /\ outcome = "open"
  /\ raised = {}
  /\ own \cap live = {}
  /\ outcome' = "joined"
  /\ UNCHANGED <<own, live, ended, raised>>

Interrupt ==
  /\ outcome = "open"
  /\ raised # {}
  /\ outcome' = "interrupted"
  /\ UNCHANGED <<own, live, ended, raised>>

Resume ==
  /\ outcome = "joined"
  /\ outcome' = "open"
  /\ UNCHANGED <<own, live, ended, raised>>

Next ==
  \/ \E c \in Core : Start(c) \/ Fork(c) \/ End(c) \/ Raise(c)
  \/ Join
  \/ Interrupt
  \/ Resume

Spec == Init /\ [][Next]_vars
=============================================================================
