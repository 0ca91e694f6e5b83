---------------------------- MODULE AtomicGlobals ----------------------------
(***************************************************************************)
(* What the cores of a VM may rely on when they share globals: a memory of *)
(* atomic registers.  A core asks for the value of a global or for a new   *)
(* value to be stored; at one moment between the request and the answer    *)
(* the memory is read or written.  No locks, no cores' instructions.       *)
(***************************************************************************)
CONSTANTS Core, Name, None

VARIABLES
  memory,    \* the value of each global
  request    \* what each core is waiting for

vars == <<memory, request>>

Idle == [op |-> "idle"]
Get(x) == [op |-> "get", name |-> x]
Got(v) == [op |-> "got", value |-> v]
Set(x, v) == [op |-> "set", name |-> x, value |-> v]

Init ==
  /\ memory = [x \in Name |-> None]
  /\ request = [c \in Core |-> Idle]

\* A request for a value, or with a value of any kind to be stored.
Ask(c) ==
  /\ request[c] = Idle
  /\ \E x \in Name :
       \/ request' = [request EXCEPT ![c] = Get(x)]
       \/ /\ request'[c].op = "set"
          /\ request' = [request EXCEPT ![c] = Set(x, request'[c].value)]
  /\ UNCHANGED memory

Read(c) ==
  /\ request[c].op = "get"
  /\ request' = [request EXCEPT ![c] = Got(memory[request[c].name])]
  /\ UNCHANGED memory

\* The core goes on with the answer.
Take(c) ==
  /\ request[c].op = "got"
  /\ request' = [request EXCEPT ![c] = Idle]
  /\ UNCHANGED memory

Write(c) ==
  /\ request[c].op = "set"
  /\ memory' = [memory EXCEPT ![request[c].name] = request[c].value]
  /\ request' = [request EXCEPT ![c] = Idle]

Next == \E c \in Core : Ask(c) \/ Read(c) \/ Take(c) \/ Write(c)

Spec == Init /\ [][Next]_vars

=============================================================================
