---------------------------- MODULE CodeAssigns ----------------------------
(***************************************************************************)
(* What disciplined code has set when it ends: the globals that an entry   *)
(* function, and the functions it calls, assign on every way through them. *)
(***************************************************************************)
EXTENDS CodeDiscipline

VARIABLE declared  \* the globals that the source declares; never changes

\* What is set when instruction i has been done; a call has done what its function has.
SetBy(i, cert) ==
  CASE i.op = "setglob" -> {i.fn}
    [] i.op = "call" -> cert.ends[i.fn]
    [] OTHER -> {}

\* The certificate also gives, for each point, globals that have been set on every way
\* to it since its function was called and, for each function, those when it has ended.
Assigns(p, cert, names) ==
  \A fn \in DOMAIN p :
    /\ cert.set[fn][0] = {}
    /\ fn \in Entries => names \subseteq cert.ends[fn]
    /\ \A ip \in DOMAIN cert.at[fn] :
         IF ip = Len(p[fn]) \/ p[fn][ip + 1].op = "return"
         THEN cert.ends[fn] \subseteq cert.set[fn][ip]
         ELSE \A to \in Successors(p[fn][ip + 1], ip, cert.at[fn][ip]) :
                cert.set[fn][to] \subseteq cert.set[fn][ip] \cup SetBy(p[fn][ip + 1], cert)

\* When the init core has ended, every global of every module is there.
GlobalsInitialised == status = "nil" => declared \subseteq DOMAIN globals
=============================================================================
