---------------------------- MODULE GlobalsAtomic ----------------------------
(***************************************************************************)
(* Globals implements AtomicGlobals: the lock makes each GetGlobImm and    *)
(* SetGlobImm, taken alone, one step.                                      *)
(***************************************************************************)
EXTENDS Globals

RequestOf(c) ==
  CASE pc[c] = "reading" -> [op |-> "get", name |-> Arg(c)]
    [] pc[c] = "read" -> [op |-> "got", value |-> local[c]]
    [] pc[c] \in {"announced", "writing"} ->
         [op |-> "set", name |-> Arg(c), value |-> local[c]]
    [] OTHER -> [op |-> "idle"]

Requests == [c \in Core |-> RequestOf(c)]

Atomic == INSTANCE AtomicGlobals WITH memory <- data, request <- Requests

\* Whatever the interleaving, a core that reads a global gets the value that was stored
\* last, and a store takes effect at one moment between its request and its end, in
\* the map that both copies of the VM share.
ImplementsAtomic == Atomic!Spec
=============================================================================
