------------------------------- MODULE Globals -------------------------------
(***************************************************************************)
(* What the cores of a VM share: the map of globals under its RWMutex      *)
(* (runtime/vm.go, Globals), and the lists that values point to, under no  *)
(* lock at all (runtime/execute.go).                                       *)
(*                                                                         *)
(* Threads are the host and one goroutine per core.  The host makes a VM   *)
(* (NewVM runs the init function on a first core and returns the VM by     *)
(* value, so that there are two copies, each with a mutex and a slice of   *)
(* cores, but one map), calls `main`, waits, and reads the globals without *)
(* a lock.  Of Wait only its two halves are left: module VmCores has the   *)
(* rest.                                                                   *)
(***************************************************************************)
EXTENDS Integers, Sequences

CONSTANTS
  Core,        \* the goroutines that can be started
  Name,        \* the globals
  Programs,    \* functions from routine names to instructions
  None         \* no value, nobody

ASSUME ThreadsAssumption ==
  /\ Core \subseteq Int
  /\ None \notin Core
  /\ \A x \in Name : x \notin Core \X Nat

\* The instructions of a program.
Code(p) == UNION {{p[r][i] : i \in DOMAIN p[r]} : r \in DOMAIN p}

\* What the compiler gives a VM: the globals and the functions that the code names
\* are there.
ASSUME ProgramsAssumption ==
  \A p \in Programs :
    /\ {"init", "main"} \subseteq DOMAIN p
    /\ \A r \in DOMAIN p : p[r] \in Seq(Code(p))
    /\ \A s \in Code(p) :
         /\ s.op \in {"GetGlobImm", "SetGlobImm"} => s.arg \in Name
         /\ s.op = "Spawn" => s.arg.fn \in DOMAIN p /\ s.arg.argc \in Nat

Copy == {"first", "returned"}

\* A cell is a Go variable of type Value; a list is the slice header that every
\* copy of the list's value points to.  Their addresses are pairs: who made it,
\* and a number.
Address == Core \X Nat

VARIABLES
  program,
  data,        \* Globals.Data, one map for both copies of the VM
  writer,      \* per copy, who is inside Lock of Globals.Mutex
  readers,     \* per copy, who holds it for reading
  vm,          \* the copy the host uses
  registered,  \* per copy, Cores.Cores
  newCores,    \* Wait's local of that name
  host,
  pc,          \* where the goroutine of each core is
  home,        \* the core's parent: the copy of the VM it was given
  code,        \* the instructions a core still has to run
  stack, slots,\* addresses on its operand stack and in its variables
  made,        \* how many addresses it has used
  local,       \* the local variable of the instruction in progress
  cell,        \* the value of each cell
  list,        \* the elements of each list: addresses of cells
  seen,        \* history: writes of a global or list that a core has seen
  writes,      \* history: how often each was written
  overlapped,  \* history: written by a core that had not seen the last write
  elements     \* history: the cells that have been made elements of lists

lockVars == <<writer, readers>>
hostVars == <<vm, newCores, host>>
coreVars == <<code, stack, slots, made, local>>
heapVars == <<cell, list>>
history == <<seen, writes, overlapped, elements>>
vars == <<program, data, lockVars, hostVars, registered, pc, home, coreVars,
          heapVars, history>>

CorePC == {"none", "run", "reading", "read", "announced", "writing", "written",
           "appending", "ended", "done"}
HostPC == {"new", "wait", "drop", "copy", "idle", "reading", "returned"}

TypeOK ==
  /\ writer \in [Copy -> Core \cup {None}]
  /\ readers \in [Copy -> SUBSET Core]
  /\ vm \in Copy
  /\ registered \in [Copy -> SUBSET Core]
  /\ newCores \subseteq Core
  /\ host \in HostPC
  /\ pc \in [Core -> CorePC]
  /\ home \in [Core -> Copy]

Init ==
  /\ program \in Programs
  /\ data = [x \in Name |-> None]
  /\ writer = [v \in Copy |-> None]
  /\ readers = [v \in Copy |-> {}]
  /\ vm = "first"
  /\ registered = [v \in Copy |-> {}]
  /\ newCores = {}
  /\ host = "new"
  /\ pc = [c \in Core |-> "none"]
  /\ home = [c \in Core |-> "first"]
  /\ code = [c \in Core |-> <<>>]
  /\ stack = [c \in Core |-> <<>>]
  /\ slots = [c \in Core |-> <<>>]
  /\ made = [c \in Core |-> 0]
  /\ local = [c \in Core |-> None]
  /\ cell = <<>>
  /\ list = <<>>
  /\ seen = [c \in Core |-> [x \in Name |-> 0]]
  /\ writes = [x \in Name |-> 0]
  /\ overlapped = {}
  /\ elements = {}

-----------------------------------------------------------------------------
(* Instructions that touch nothing but the core's own registers and cells. *)

Int64(n) == [int |-> n]
ListAt(l) == [list |-> l]
NullValue == [null |-> TRUE]

\* The k-th operand from the top.
Operand(c, k) == stack[c][Len(stack[c]) + 1 - k]
Without(c, k) == SubSeq(stack[c], 1, Len(stack[c]) - k)
Fresh(c, k) == <<c, made[c] + k>>

\* To pop from an empty stack, to use a variable that is not set or a value of
\* another kind than the instruction expects is a panic of Go that ends the process:
\* there is no step then.
AtInstruction(c, op, operands) ==
  /\ pc[c] = "run"
  /\ code[c] # <<>>
  /\ Head(code[c]).op = op
  /\ Len(stack[c]) >= operands

Arg(c) == Head(code[c]).arg

\* A map with one entry set.
With(f, x, v) == [y \in {x} \cup DOMAIN f |-> IF y = x THEN v ELSE f[y]]

Continue(c) == code' = [code EXCEPT ![c] = Tail(@)]

\* Push a new cell that holds v, after dropping k operands.
PushNew(c, k, v) ==
  /\ cell' = With(cell, Fresh(c, 1), v)
  /\ stack' = [stack EXCEPT ![c] = Append(Without(c, k), Fresh(c, 1))]
  /\ made' = [made EXCEPT ![c] = @ + 1]

Outside == <<program, data, lockVars, hostVars, registered, pc, home>>

CopyPush(c) ==
  /\ AtInstruction(c, "Copy_Push", 0)
  /\ PushNew(c, 0, Int64(Arg(c)))
  /\ Continue(c)
  /\ UNCHANGED <<Outside, history, slots, local, list>>

\* Cloning_Push of an empty list: a new header.
CloningPush(c) ==
  /\ AtInstruction(c, "Cloning_Push", 0)
  /\ PushNew(c, 0, ListAt(Fresh(c, 1)))
  /\ list' = With(list, Fresh(c, 1), <<>>)
  /\ writes' = With(writes, Fresh(c, 1), 0)
  /\ Continue(c)
  /\ UNCHANGED <<Outside, slots, local, seen, overlapped, elements>>

Add(c) ==
  /\ AtInstruction(c, "Add", 2)
  /\ PushNew(c, 2, Int64(cell[Operand(c, 1)].int + cell[Operand(c, 2)].int))
  /\ Continue(c)
  /\ UNCHANGED <<Outside, history, slots, local, list>>

GetVarImm(c) ==
  /\ AtInstruction(c, "GetVarImm", 0)
  /\ Arg(c) \in DOMAIN slots[c]
  /\ stack' = [stack EXCEPT ![c] = Append(@, slots[c][Arg(c)])]
  /\ Continue(c)
  /\ UNCHANGED <<Outside, history, slots, made, local, heapVars>>

SetVarImm(c) ==
  /\ AtInstruction(c, "SetVarImm", 1)
  /\ slots' = [slots EXCEPT ![c] =
                 [i \in DOMAIN @ \cup {Arg(c)} |->
                    IF i = Arg(c) THEN Operand(c, 1) ELSE @[i]]]
  /\ stack' = [stack EXCEPT ![c] = Without(c, 1)]
  /\ Continue(c)
  /\ UNCHANGED <<Outside, history, made, local, heapVars>>

DropOperand(c) ==
  /\ AtInstruction(c, "Drop", 1)
  /\ stack' = [stack EXCEPT ![c] = Without(c, 1)]
  /\ Continue(c)
  /\ UNCHANGED <<Outside, history, slots, made, local, heapVars>>

\* The pointer to the element itself is pushed.  (An index out of range is an
\* exception, that ends the core: left out.)
Index(c) ==
  /\ AtInstruction(c, "Index", 2)
  /\ \E l \in DOMAIN list :
       LET index == cell[Operand(c, 1)].int
           at == IF index < 0 THEN index + Len(list[l]) + 1 ELSE index + 1
       IN /\ cell[Operand(c, 2)] = ListAt(l)
          /\ at \in DOMAIN list[l]
          /\ stack' = [stack EXCEPT ![c] = Append(Without(c, 2), list[l][at])]
  /\ Continue(c)
  /\ UNCHANGED <<Outside, history, slots, made, local, heapVars>>

\* *dest = *src.
Assign(c) ==
  /\ AtInstruction(c, "Assign", 2)
  /\ cell' = [cell EXCEPT ![Operand(c, 2)] = cell[Operand(c, 1)]]
  /\ stack' = [stack EXCEPT ![c] = Without(c, 2)]
  /\ Continue(c)
  /\ UNCHANGED <<Outside, history, slots, made, local, list>>

-----------------------------------------------------------------------------
(* Globals.  A map of Go may not be read or written while it is written:   *)
(* what then comes out, or stays in, is Corrupt.                           *)

Corrupt == [corrupt |-> TRUE]
WriterBeside(c) == \E d \in Core \ {c} : pc[d] = "writing"

\* Mutated form: RLock is missing its wait for the writer.
BeginReadUnasked(c) ==
  /\ AtInstruction(c, "GetGlobImm", 0)
  /\ readers' = [readers EXCEPT ![home[c]] = @ \cup {c}]
  /\ pc' = [pc EXCEPT ![c] = "reading"]
  /\ UNCHANGED <<program, data, writer, hostVars, registered, home, coreVars,
                 heapVars, history>>

\* GetGlobImm enters RLock, which waits for a writer that has announced itself.
BeginRead(c) ==
  /\ AtInstruction(c, "GetGlobImm", 0)
  /\ writer[home[c]] = None
  /\ readers' = [readers EXCEPT ![home[c]] = @ \cup {c}]
  /\ pc' = [pc EXCEPT ![c] = "reading"]
  /\ UNCHANGED <<program, data, writer, hostVars, registered, home, coreVars,
                 heapVars, history>>

Read(c) ==
  /\ pc[c] = "reading"
  /\ local' = [local EXCEPT ![c] = IF WriterBeside(c) THEN Corrupt ELSE data[Arg(c)]]
  /\ pc' = [pc EXCEPT ![c] = "read"]
  /\ seen' = [seen EXCEPT ![c][Arg(c)] = writes[Arg(c)]]
  /\ UNCHANGED <<program, data, lockVars, hostVars, registered, home, code, stack,
                 slots, made, heapVars, writes, overlapped, elements>>

\* The local variable of the instruction is a new cell.
EndRead(c) ==
  /\ pc[c] = "read"
  /\ PushNew(c, 0, local[c])
  /\ readers' = [readers EXCEPT ![home[c]] = @ \ {c}]
  /\ pc' = [pc EXCEPT ![c] = "run"]
  /\ local' = [local EXCEPT ![c] = None]
  /\ Continue(c)
  /\ UNCHANGED <<program, data, writer, hostVars, registered, home, slots, list,
                 history>>

\* Mutated form: the store takes the lock for reading.
AnnounceShared(c) ==
  /\ AtInstruction(c, "SetGlobImm", 1)
  /\ writer' = [writer EXCEPT ![home[c]] = c]
  /\ pc' = [pc EXCEPT ![c] = "announced"]
  /\ local' = [local EXCEPT ![c] = cell[Operand(c, 1)]]
  /\ stack' = [stack EXCEPT ![c] = Without(c, 1)]
  /\ UNCHANGED <<program, data, readers, hostVars, registered, home, code, slots,
                 made, heapVars, history>>

\* SetGlobImm enters Lock: from now on nobody else gets in.
Announce(c) ==
  /\ AtInstruction(c, "SetGlobImm", 1)
  /\ writer[home[c]] = None
  /\ writer' = [writer EXCEPT ![home[c]] = c]
  /\ pc' = [pc EXCEPT ![c] = "announced"]
  /\ local' = [local EXCEPT ![c] = cell[Operand(c, 1)]]
  /\ stack' = [stack EXCEPT ![c] = Without(c, 1)]
  /\ UNCHANGED <<program, data, readers, hostVars, registered, home, code, slots,
                 made, heapVars, history>>

BeginWrite(c) ==
  /\ pc[c] = "announced"
  /\ readers[home[c]] = {}
  /\ pc' = [pc EXCEPT ![c] = "writing"]
  /\ UNCHANGED <<program, data, lockVars, hostVars, registered, home, coreVars,
                 heapVars, history>>

Counted(c, o) ==
  /\ writes' = [writes EXCEPT ![o] = @ + 1]
  /\ seen' = [seen EXCEPT ![c] = With(@, o, writes[o] + 1)]
  /\ overlapped' = IF seen[c][o] = writes[o] THEN overlapped
                   ELSE overlapped \cup {o}

\* Mutated form: a global that has a value keeps it.
WriteOnce(c) ==
  /\ pc[c] = "writing"
  /\ data' = [data EXCEPT ![Arg(c)] = IF @ # None THEN @
                                      ELSE IF WriterBeside(c) THEN Corrupt ELSE local[c]]
  /\ pc' = [pc EXCEPT ![c] = "written"]
  /\ Counted(c, Arg(c))
  /\ UNCHANGED <<program, lockVars, hostVars, registered, home, coreVars, heapVars,
                 elements>>

Write(c) ==
  /\ pc[c] = "writing"
  /\ data' = [data EXCEPT ![Arg(c)] = IF WriterBeside(c) THEN Corrupt ELSE local[c]]
  /\ pc' = [pc EXCEPT ![c] = "written"]
  /\ Counted(c, Arg(c))
  /\ UNCHANGED <<program, lockVars, hostVars, registered, home, coreVars, heapVars,
                 elements>>

EndWrite(c) ==
  /\ pc[c] = "written"
  /\ writer' = [writer EXCEPT ![home[c]] = None]
  /\ pc' = [pc EXCEPT ![c] = "run"]
  /\ local' = [local EXCEPT ![c] = None]
  /\ Continue(c)
  /\ UNCHANGED <<program, data, readers, hostVars, registered, home, stack, slots,
                 made, heapVars, history>>

-----------------------------------------------------------------------------
(* Lists.                                                                  *)

\* A list literal is filled by a host call: the element is the pointer itself.
ListPush(c) ==
  /\ AtInstruction(c, "__internal_list_push", 2)
  /\ elements' = elements \cup {Operand(c, 1)}
  /\ \E l \in DOMAIN list :
       /\ cell[Operand(c, 2)] = ListAt(l)
       /\ list' = [list EXCEPT ![l] = Append(@, Operand(c, 1))]
       /\ writes' = [writes EXCEPT ![l] = @ + 1]
       /\ seen' = [seen EXCEPT ![c] = With(@, l, writes[l] + 1)]
  /\ stack' = [stack EXCEPT ![c] = Without(c, 1)]
  /\ Continue(c)
  /\ UNCHANGED <<program, data, lockVars, hostVars, registered, pc, home, slots,
                 made, local, cell, overlapped>>

\* The method `push` of a list, in which nothing is locked: the header is read,
\* then written back with one element more.  Member takes the list out of its cell,
\* Call_Val the argument.
BeginPush(c) ==
  /\ AtInstruction(c, "push", 2)
  /\ \E l \in DOMAIN list :
       /\ cell[Operand(c, 1)] = ListAt(l)
       /\ local' = [local EXCEPT ![c] =
                      [list |-> l, header |-> list[l], arg |-> cell[Operand(c, 2)]]]
       /\ seen' = [seen EXCEPT ![c] = With(@, l, writes[l])]
  /\ stack' = [stack EXCEPT ![c] = Without(c, 2)]
  /\ pc' = [pc EXCEPT ![c] = "appending"]
  /\ UNCHANGED <<program, data, lockVars, hostVars, registered, home, code, slots,
                 made, heapVars, writes, overlapped, elements>>

\* The argument is a copy, so the element is a new cell.
EndPush(c) ==
  /\ pc[c] = "appending"
  /\ list' = [list EXCEPT ![local[c].list] = Append(local[c].header, Fresh(c, 1))]
  /\ cell' = With(cell, Fresh(c, 1), local[c].arg)
  /\ elements' = elements \cup {Fresh(c, 1)}
  /\ made' = [made EXCEPT ![c] = @ + 1]
  /\ pc' = [pc EXCEPT ![c] = "run"]
  /\ local' = [local EXCEPT ![c] = None]
  /\ Continue(c)
  /\ Counted(c, local[c].list)
  /\ UNCHANGED <<program, data, lockVars, hostVars, registered, home, stack, slots>>

-----------------------------------------------------------------------------
(* Cores.                                                                  *)

Start(d, v) ==
  /\ pc[d] = "none"
  /\ \A e \in Core : pc[e] = "none" => d <= e
  /\ home' = [home EXCEPT ![d] = v]
  /\ registered' = [registered EXCEPT ![v] = @ \cup {d}]

\* Mutated form: the new core is given the pointers that were popped.
SpawnPointers(c, d) ==
  /\ AtInstruction(c, "Spawn", Arg(c).argc)
  /\ Start(d, home[c])
  /\ pc' = [pc EXCEPT ![d] = "run"]
  /\ LET argc == Arg(c).argc
         copies == [k \in 1..argc |-> <<d, k>>]
     IN /\ cell' = [a \in DOMAIN cell \cup {Fresh(c, 1)} \cup {copies[k] : k \in 1..argc} |->
                      IF a[1] = d THEN cell[Operand(c, argc + 1 - a[2])]
                      ELSE IF a = Fresh(c, 1) THEN NullValue ELSE cell[a]]
        /\ stack' = [stack EXCEPT ![c] = Append(Without(c, argc), Fresh(c, 1)),
                                  ![d] = [k \in 1..argc |-> Operand(c, argc + 1 - k)]]
        /\ made' = [made EXCEPT ![c] = @ + 1, ![d] = argc]
  /\ code' = [code EXCEPT ![c] = Tail(@), ![d] = program[Arg(c).fn]]
  /\ UNCHANGED <<program, data, lockVars, hostVars, slots, local, list, history>>

\* Spawn: the arguments are popped as values, and spawnCoreInternal pushes
\* pointers to these copies.
Spawn(c, d) ==
  /\ AtInstruction(c, "Spawn", Arg(c).argc)
  /\ Start(d, home[c])
  /\ pc' = [pc EXCEPT ![d] = "run"]
  /\ LET argc == Arg(c).argc
         copies == [k \in 1..argc |-> <<d, k>>]
     IN /\ cell' = [a \in DOMAIN cell \cup {Fresh(c, 1)} \cup {copies[k] : k \in 1..argc} |->
                      IF a[1] = d THEN cell[Operand(c, argc + 1 - a[2])]
                      ELSE IF a = Fresh(c, 1) THEN NullValue ELSE cell[a]]
        /\ stack' = [stack EXCEPT ![c] = Append(Without(c, argc), Fresh(c, 1)),
                                  ![d] = copies]
        /\ made' = [made EXCEPT ![c] = @ + 1, ![d] = argc]
  /\ code' = [code EXCEPT ![c] = Tail(@), ![d] = program[Arg(c).fn]]
  /\ UNCHANGED <<program, data, lockVars, hostVars, slots, local, list, history>>

\* The routine returns and the core parks in the send on its SignalHandle.
End(c) ==
  /\ pc[c] = "run"
  /\ code[c] = <<>>
  /\ pc' = [pc EXCEPT ![c] = "ended"]
  /\ UNCHANGED <<program, data, lockVars, hostVars, registered, home, coreVars,
                 heapVars, history>>

-----------------------------------------------------------------------------
(* The host.                                                               *)

\* SpawnSync starts the init function (in NewVM), or `main`.
HostSpawns(d) ==
  /\ host \in {"new", "idle"}
  /\ Start(d, vm)
  /\ pc' = [pc EXCEPT ![d] = "run"]
  /\ code' = [code EXCEPT ![d] = program[IF host = "new" THEN "init" ELSE "main"]]
  /\ host' = "wait"
  /\ UNCHANGED <<program, data, lockVars, vm, newCores, stack, slots, made, local,
                 heapVars, history>>

\* Wait receives the nil of core c and computes the slice without it; the read
\* lock on the slice is given up, and the slice is replaced under the write lock.
Receive(c) ==
  /\ host = "wait"
  /\ c \in registered[vm]
  /\ pc[c] = "ended"
  /\ pc' = [pc EXCEPT ![c] = "done"]
  /\ newCores' = registered[vm] \ {c}
  /\ host' = "drop"
  /\ UNCHANGED <<program, data, lockVars, vm, registered, home, coreVars,
                 heapVars, history>>

Drop ==
  /\ host = "drop"
  /\ registered' = [registered EXCEPT ![vm] = newCores]
  /\ newCores' = {}
  /\ host' = "wait"
  /\ UNCHANGED <<program, data, lockVars, vm, pc, home, coreVars, heapVars, history>>

\* Mutated form: Wait does not look at the slice of cores.
WaitReturnsEarly ==
  /\ host = "wait"
  /\ host' = IF vm = "first" THEN "copy" ELSE "reading"
  /\ UNCHANGED <<program, data, lockVars, vm, newCores, registered, pc, home,
                 coreVars, heapVars, history>>

\* Wait returns nil, to NewVM or to the caller of `main`.
WaitReturns ==
  /\ host = "wait"
  /\ registered[vm] = {}
  /\ host' = IF vm = "first" THEN "copy" ELSE "reading"
  /\ UNCHANGED <<program, data, lockVars, vm, newCores, registered, pc, home,
                 coreVars, heapVars, history>>

\* NewVM returns the struct: map and channels are shared with the first copy,
\* the state of the mutex and the slice of cores are duplicated.
ReturnVM ==
  /\ host = "copy"
  /\ vm' = "returned"
  /\ writer' = [writer EXCEPT !["returned"] = writer["first"]]
  /\ readers' = [readers EXCEPT !["returned"] = readers["first"]]
  /\ registered' = [registered EXCEPT !["returned"] = registered["first"]]
  /\ host' = "idle"
  /\ UNCHANGED <<program, data, newCores, pc, home, coreVars, heapVars, history>>

\* GetGlobals has been called, without a lock, and the map read.
ReadGlobals ==
  /\ host = "reading"
  /\ host' = "returned"
  /\ UNCHANGED <<program, data, lockVars, vm, newCores, registered, pc, home,
                 coreVars, heapVars, history>>

-----------------------------------------------------------------------------
CoreStep(c) ==
  \/ CopyPush(c) \/ CloningPush(c) \/ Add(c) \/ GetVarImm(c) \/ SetVarImm(c)
  \/ DropOperand(c) \/ Index(c) \/ Assign(c)
  \/ BeginRead(c) \/ Read(c) \/ EndRead(c)
  \/ Announce(c) \/ BeginWrite(c) \/ Write(c) \/ EndWrite(c)
  \/ ListPush(c) \/ BeginPush(c) \/ EndPush(c)
  \/ \E d \in Core : Spawn(c, d)
  \/ End(c)

HostStep ==
  \/ \E d \in Core : HostSpawns(d)
  \/ \E c \in Core : Receive(c)
  \/ Drop \/ WaitReturns \/ ReturnVM \/ ReadGlobals

\* Nothing is left to do; cores that Wait has forgotten are parked for ever.
Stopped ==
  /\ host = "returned"
  /\ \A c \in Core : pc[c] \in {"none", "ended", "done"}
  /\ UNCHANGED vars

Next == HostStep \/ (\E c \in Core : CoreStep(c)) \/ Stopped

Spec == Init /\ [][Next]_vars

-----------------------------------------------------------------------------
(* Properties.                                                             *)

Live(c) == pc[c] \notin {"none", "done"}

\* Cores that Wait has lost sight of between its two locks (VmCores, run cores_lost).
Forgotten == {c \in Core : Live(c) /\ c \notin registered[home[c]]}

\* Initializers are to be constant, so that the init function should start no core;
\* Expression.Constant misses some that do.
InitStartsNoCore(p) == \A i \in DOMAIN p["init"] : p["init"][i].op # "Spawn"

\* A core of the init function may have outlived NewVM: Wait must have forgotten one.
MayStray == ~InitStartsNoCore(program) /\ Forgotten # {}

\* The map of globals is never written by a core while another core reads or writes
\* it, unless one of them uses the mutex of the first copy still; nor while the host
\* reads it without a lock (GetGlobals, after Wait has returned), unless Wait has
\* forgotten a core.
MapAccessesExclude ==
  \A c \in Core : pc[c] = "writing" =>
    /\ \A d \in Core \ {c} :
         pc[d] \in {"reading", "writing"} => home[d] # home[c] /\ MayStray
    /\ host = "reading" => Forgotten # {}

\* When NewVM duplicates the struct, the mutex is free and nobody goes on using the
\* first copy: a core left behind would lock another mutex than the cores to come,
\* and a mutex copied while it is held would stay held.  So it is whatever the init
\* function does, unless Wait has forgotten a core that the init function started.
CopiedAtRest ==
  ~MayStray =>
    /\ host = "copy" => /\ \A c \in Core : ~Live(c)
                        /\ writer["first"] = None
                        /\ readers["first"] = {}
    /\ vm = "returned" => \A c \in Core : Live(c) => home[c] = "returned"

\* Variables and operands of a core are its own: a cell that two cores have a pointer
\* to is, or has been, an element of a list.  So a number that is passed to Spawn, or
\* read from a global, cannot change later; an element of a list can.
Held(c) == {stack[c][i] : i \in DOMAIN stack[c]} \cup {slots[c][i] : i \in DOMAIN slots[c]}
SharedCellsAreElements ==
  \A c, d \in Core : c # d => Held(c) \cap Held(d) \subseteq elements

-----------------------------------------------------------------------------
(* Lost updates.  Programs that count make every store to a global add one *)
(* to what was read, and every push add one element.                       *)

Is(s, op, arg) == s.op = op /\ s.arg = arg

\* The store at i of a routine is that of `x += 1`, of `let x = 0` or of a list
\* literal.
Increments(routine, i) ==
  /\ i > 3
  /\ Is(routine[i - 3], "GetGlobImm", routine[i].arg)
  /\ Is(routine[i - 2], "Copy_Push", 1)
  /\ routine[i - 1].op = "Add"
StoresZero(routine, i) == i > 1 /\ Is(routine[i - 1], "Copy_Push", 0)
StoresList(routine, i) ==
  /\ i > 3
  /\ routine[i - 3].op = "Cloning_Push"
  /\ routine[i - 2].op = "Copy_Push"
  /\ routine[i - 1].op = "__internal_list_push"

\* Global x is set to zero by instruction i of the init function, before which it is
\* not used.
Initializes(p, x, i) ==
  /\ i \in DOMAIN p["init"]
  /\ Is(p["init"][i], "SetGlobImm", x)
  /\ StoresZero(p["init"], i)
  /\ \A j \in 1..(i - 1) : ~Is(p["init"][j], "GetGlobImm", x) /\ ~Is(p["init"][j], "SetGlobImm", x)
Tallies(p) == {x \in Name : \E i \in DOMAIN p["init"] : Initializes(p, x, i)}

\* Other globals are lists.  No script can call the init function.
Counting(p) ==
  /\ InitStartsNoCore(p)
  /\ \A r \in DOMAIN p : \A i \in DOMAIN p[r] : p[r][i].op = "SetGlobImm" =>
       IF p[r][i].arg \in Tallies(p)
       THEN Increments(p[r], i) \/ (r = "init" /\ Initializes(p, p[r][i].arg, i))
       ELSE StoresList(p[r], i)
  /\ \A s \in Code(p) : s.op = "Spawn" => s.arg.fn # "init"

\* Reading and storing lock separately, so an update can be lost; but only if somebody
\* else stored in between.
StoresCount ==
  \A x \in Name : writes[x] > 0 /\ x \notin overlapped =>
    IF x \in Tallies(program) THEN data[x] = Int64(writes[x] - 1)
    ELSE "list" \in DOMAIN data[x]
PushesCount ==
  \A l \in DOMAIN list : l \notin overlapped => Len(list[l]) = writes[l]
LostOnlyByOverlap == StoresCount /\ PushesCount

=============================================================================
