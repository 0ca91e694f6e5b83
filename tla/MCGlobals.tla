------------------------------ MODULE MCGlobals ------------------------------
(***************************************************************************)
(* Small programs for Globals, as the compiler emits them.                 *)
(***************************************************************************)
EXTENDS GlobalsAtomic

\* Two globals: a number and a list.
CONSTANTS total, items

I(op, arg) == [op |-> op, arg |-> arg]
Do(op) == [op |-> op]
Num(n) == <<I("Copy_Push", n)>>
Glob(x) == <<I("GetGlobImm", x)>>
SetGlob(x) == <<I("SetGlobImm", x)>>
Var(i) == <<I("GetVarImm", i)>>
SetVar(i) == <<I("SetVarImm", i)>>
Spawned(fn, argc) == <<I("Spawn", [fn |-> fn, argc |-> argc]), Do("Drop")>>
ListOf(n) == <<Do("Cloning_Push")>> \o Num(n) \o <<Do("__internal_list_push")>>
\* Arguments come before what is called.
PushOn(base, value) == value \o base \o <<Do("push")>>

\* x += 1, for a global and for a variable.
BumpGlobal(x) == Glob(x) \o Num(1) \o <<Do("Add")>> \o SetGlob(x)
BumpVar(i) == Var(i) \o Num(1) \o <<Do("Add")>> \o SetVar(i)
\* base[0] = value
SetFirst(base, value) == base \o Num(0) \o <<Do("Index")>> \o value \o <<Do("Assign")>>

\* let total = 0; let items = [4];
Initialized == Num(0) \o SetGlob(total) \o ListOf(4) \o SetGlob(items)

\* Cores that count in total.
Counters ==
  [init |-> Initialized,
   main |-> Spawned("bump", 0) \o Spawned("bump", 0) \o BumpGlobal(total),
   bump |-> BumpGlobal(total)]

\* A number and a list are handed over; both cores go on to change theirs.
Handing ==
  [init |-> Initialized,
   main |-> Num(2) \o SetVar(1) \o ListOf(3) \o SetVar(2)
            \o Var(2) \o Var(1) \o Spawned("take", 2)
            \o BumpVar(1) \o SetFirst(Var(2), Var(1)) \o PushOn(Var(2), Var(1)),
   take |-> SetVar(1) \o SetVar(2) \o BumpVar(1) \o SetFirst(Var(2), Var(1))
            \o PushOn(Var(2), Var(1))]

\* `let first = items[0]` is the element of the list of the global, not a copy of it.
Elementary ==
  [init |-> Initialized,
   main |-> Spawned("use", 0) \o Glob(items) \o Num(0) \o <<Do("Index")>> \o SetVar(1)
            \o PushOn(Glob(items), Var(1)),
   use |-> SetFirst(Glob(items), Glob(total)) \o BumpGlobal(total)]

\* A core spawns a core: Wait may forget the second.
Nested ==
  [init |-> Initialized,
   main |-> Spawned("spawner", 0) \o BumpGlobal(total),
   spawner |-> Spawned("bump", 0),
   bump |-> BumpGlobal(total)]

\* Two cores with two tasks and one, in every combination.
Tasks ==
  {BumpGlobal(total), PushOn(Glob(items), Glob(total)),
   SetFirst(Glob(items), Glob(total)),
   Glob(items) \o Num(0) \o <<Do("Index")>> \o SetVar(1) \o SetFirst(Glob(items), Var(1))}

Pairs ==
  {[init |-> Initialized, main |-> Spawned("work", 0) \o a \o b, work |-> d] :
     a, b, d \in Tasks}

\* The core that is forgotten spawns, after Wait has returned.
Chain ==
  [init |-> Initialized,
   main |-> Spawned("outer", 0),
   outer |-> Spawned("spawner", 0),
   spawner |-> Spawned("bump", 0),
   bump |-> BumpGlobal(total)]

Regular == {Counters, Handing, Elementary, Nested, Chain} \cup Pairs

\* Initializers that start a core; of the second, Wait may forget the inner core.
Starting ==
  {[init |-> Initialized \o Spawned("bump", 0),
    main |-> BumpGlobal(total),
    bump |-> BumpGlobal(total)],
   [init |-> Initialized \o Spawned("outer", 0),
    main |-> <<>>,
    outer |-> Spawned("bump", 0),
    bump |-> BumpGlobal(total)]}

MCPrograms == Regular \cup Starting

\* The others store to globals as LostOnlyByOverlap and its theorem suppose.
ASSUME ProgramsCount == \A p \in MCPrograms : Counting(p) <=> p \in Regular
=============================================================================
