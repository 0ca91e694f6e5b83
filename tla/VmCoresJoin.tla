---------------------------- MODULE VmCoresJoin ----------------------------
(***************************************************************************)
(* VmCores implements CoreJoin.                                            *)
(***************************************************************************)
EXTENDS VmCores

Own == {c \in Core : parent[c] = Host}
Live == {c \in Core : pc[c] \notin {"none", "done"}}
EndedWell == {c \in Core : pc[c] = "done" /\ signal[c] = "nil"}
Raised == {c \in Core : pc[c] = "done" /\ signal[c] # "nil"}
Outcome ==
  CASE host = "returned" -> "joined"
    [] host = "stopped" -> "interrupted"
    [] OTHER -> "open"

Join == INSTANCE CoreJoin
          WITH own <- Own, live <- Live, ended <- EndedWell, raised <- Raised,
               outcome <- Outcome

\* Whatever the interleaving of spawns, sends, the two-step exchange of the
\* slice and the cancellation, the host sees no more than CoreJoin allows.
ImplementsJoin == Join!Spec
=============================================================================
