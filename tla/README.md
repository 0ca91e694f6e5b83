# A TLA+ model of Homescript

Homescript is a small scripting language written in Go. A program is lexed, parsed and
analysed; it is then either run by a tree-walking interpreter or compiled to byte code for a
virtual machine whose *cores* are goroutines. The modules in this directory model the parts of
that pipeline whose mistakes are hard to see and hard to test: the concurrent life cycle of the
cores, what they share, the registers of one core under exceptions and limits, the code generator that must keep
those registers balanced, the analysis of imports, the analysis of control flow that decides
what the optimizer may throw away, types and the casts that keep their promises at run time, and expressions
from the parser to their values on both engines.

All paths below are relative to `src/homescript/`.

## 1. The system

| Component | Where | State it keeps | Operations |
|---|---|---|---|
| Lexer | `lexer/` | position, current character | `NextToken` |
| Parser | `parser/` | current and previous token, soft errors | recursive descent with binding powers |
| Analyzer, modules | `analyzer/analyzer.go`, `topLevel.go`, `importGraph.go` | map of modules, per module its scopes, `ImportsModules`, current function, loop depth; diagnostics | `Analyze`, `analyzeModule`, `importItem`, `importGraphIsCyclic` |
| Analyzer, types | `analyzer/expression.go`, `statement.go`, `typing.go` | the scopes, `CurrentFunction`, `LoopDepth`, `CurrentLoopIsTerminated` | one function per construct, `TypeCheck`, `ConvertType` |
| Optimizer | `optimizer/` | none | removes statements after one of type `never` |
| Tree interpreter | `interpreter/` | scopes, modules, kill event | one function per construct; interrupts as return values |
| Compiler | `compiler/` | labels, slots, variable scopes, loops, mangled names | one function per construct, then relocation and renaming |
| VM | `runtime/vm.go` | slice of cores with an RWMutex, `coreCnt`, globals with an RWMutex, cancellation context | `SpawnAsync`, `SpawnSync`, `Wait`, `HandleTermination` |
| Core | `runtime/core.go`, `execute.go` | call stack, operand stack, memory and memory pointer, catch labels | `Run`, one case per instruction |
| Values | `runtime/value/`, `interpreter/value/` | objects on the Go heap, shared by pointer | casts, fields, operators, iterators |
| Debugger | `runtime/debugger.go` | break points, a pair of channels | compiled out (`VM_DEBUGGER` is false) |
| Fuzzer | `fuzzer/` | set of seen hashes, worker pool | rewritings that keep the meaning of a program |
| Diagnostics, executors, command line | `diagnostic/`, `errors/`, `cmd/`, `*_executor.go` | none | formatting, glue |

How they interact. The analyzer asks its host for the source of every imported module and calls
lexer and parser from inside the analysis of the importing module, so analysis is a depth first
walk of the import graph with the Go stack as its memory. The tree of typed nodes goes through
the optimizer to the compiler or to the tree interpreter. `NewVM` runs the init functions on a
first core; the host then calls `SpawnSync`, or `SpawnAsync` and `Wait`. Every core is one
goroutine that reports its end on an unbuffered channel of its own, its `SignalHandle`; `Wait`
polls these channels. Cores start other cores by the `Spawn` instruction. One context with a
timeout, given by the host, is polled by all cores.

What is hard here:

- **Concurrency.** The slice of cores is read under a read lock, and replaced under a write lock
  that is taken after the read lock was given up. The waiting thread iterates over a copy of the
  slice that it replaces itself. A core that nobody polls never ends.
- **Cancellation, timeouts.** They race the normal end of cores and each other. Polled every 50
  instructions only.
- **Exceptions.** A throw has to restore four registers (call stack, memory pointer, operand
  stack, catch labels), whose balance is otherwise the work of code generated elsewhere.
- **Limits.** Checked after the fact, at intervals.
- **Order.** Modules are analysed in the order of imports; import cycles are looked for with what
  has been recorded so far; init functions run in the random order of a Go map.
- **Types.** `any` is compatible with everything, in both directions; what a static type then promises rests on casts
  that the analyzer has the compiler insert, and on lists and objects that are shared under one type only.
- **State of the analyzer** that some constructs save and restore and others do not.

`PROJECT.json` lists these hazards one by one, each at its line.

## 2. The modules

| Module | Models | Uses |
|---|---|---|
| `VmCores` | the cores of a VM from spawn to join | |
| `CoreJoin` | what the caller of `Wait` is promised; no locks, no slice | |
| `VmCoresJoin` | the refinement mapping from `VmCores` to `CoreJoin` | both |
| `VmCores_proof` | theorems, the refinement of `CoreJoin` among them | |
| `Globals` | what cores share: the map of globals under its lock, lists under none | |
| `AtomicGlobals` | what cores may rely on: a memory of atomic registers | |
| `GlobalsAtomic` | the refinement mapping from `Globals` to `AtomicGlobals` | both |
| `Globals_proof`, `GlobalsHeap_proof`, `GlobalsStores_proof` | theorems | |
| `MCGlobals` | small programs for several cores | `GlobalsAtomic` |
| `Instructions` | the control instructions of the VM | |
| `CoreMachine` | `Core.Run`: registers, vcycles, limits, cancellation, exceptions | `Instructions` |
| `CoreMachine_proof` | theorems | |
| `CodeDiscipline` | what the registers have to do with the call stack, and the discipline of byte code that keeps them so | `CoreMachine` |
| `CodeAssigns` | what disciplined code has set when it ends | `CodeDiscipline` |
| `CodeDiscipline_proof` | theorems | |
| `FrameMachine` | what the code of a function may rely on: calls with variables, operands and catch blocks of their own | `Instructions` |
| `CoreFrames` | the refinement mapping from `CoreMachine` to `FrameMachine` | `CodeDiscipline`, `FrameMachine` |
| `CoreFrames_proof` | theorem: the refinement, for disciplined code | |
| `Ast` | source programs: statements as records | |
| `Compiler` | code generation, label relocation, slots | `Ast`, `Instructions` |
| `TreeInterpreter` | what a program prints and how it ends on the tree interpreter | `Ast` |
| `CompiledCore` | a core running what the compiler emits | `CoreFrames`, `CodeAssigns`, `Compiler`, `TreeInterpreter` |
| `MCCompiledCore` | small programs | `CompiledCore` |
| `MCLimits` | endless programs; certificates of the compiled ones | `MCCompiledCore` |
| `Imports` | the analysis of modules and imports, one step per import statement | |
| `Imports_proof` | theorems | |
| `BlockEnds` | function bodies and the ways in which running one can end | |
| `BlockTypes` | the types the analyzer gives these, and the optimizer | `BlockEnds` |
| `Fuzzer` | the variants the fuzzer makes of statements | `BlockTypes` |
| `MCImports`, `MCAnalyzer` | small programs and function bodies | `Imports`, `BlockTypes`, `Fuzzer` |
| `Expressions` | expressions, binding powers, printer and parser | |
| `Values` | integers, truth values, lists and the operators on them | `Expressions` |
| `TreeValues` | expressions on the tree interpreter | `Values` |
| `VmValues` | the code of expressions and the data instructions of the VM | `TreeValues` |
| `OperatorVariants` | the variants the fuzzer makes of expressions | `Expressions` |
| `FuzzedExpressions` | scripts, passes of the fuzzer, and the properties of both | the two above |
| `MCExpressions` | small expressions and memories | `FuzzedExpressions` |
| `Types` | types, what is compatible with what, casts, members | |
| `Casts` | values on a heap, and the `DeepCast` of either engine | `Types` |
| `TypedScripts` | accepted scripts, statement by statement, on the VM | `Casts` |
| `MCTypedScripts` | types, and how scripts begin | `TypedScripts` |

### 2.1 Cores of a VM: `VmCores`, `CoreJoin`

Threads are the host goroutine and one goroutine per core. `host` and `pc[c]` are program
counters, with one value per point at which another thread can come in between: before `Lock`,
inside `Lock` (a Go `RWMutex` excludes new readers as soon as a writer waits: `Announce`), under
the lock, between `RUnlock` and `Lock`.

| Code | Model |
|---|---|
| `VM.Cores.Cores`, `VM.coreCnt`, `Cores.Lock` | `cores`, `coreCnt`, `writer` and `readers` |
| `spawnCore` (vm.go:152) under the lock, and the `go` statement of `spawnCoreInternal` | `Register`, used by `HostSpawns` and `CoreSpawns` |
| `SignalHandle <-` in `Core.Run` | `CoreFinish`, `CoreFail`, `CoreNoticesCancel` park in `"send"` |
| one `select` with `default` of `Wait`'s inner loop | `ScanNothing`, `ScanNil`, `ScanInterrupt`: rendezvous and decision |
| vm.go:466-471, replacing the slice | `HostAnnounce`, `Drop`, `Rescan` |
| vm.go:473-484, the interrupt | `HostAnnounce`, `CancelAll`, `ReturnInterrupt` |
| end of the inner loop | `EndScan` |
| `HandleTermination` | `HandleTermination` |

The slice is a *set* of core numbers: cores are appended under the write lock with a growing
number, so the slice is sorted, and the scan goes up. `newCores` is the local of `Wait` that is
stored later, after the lock was free; `unscanned` is the rest of the slice that `range` fixed.
`Wait` returns an interrupt with the read lock held; all its callers then panic or return
without using the VM again, so the host ends in `"stopped"`. `WaitNonConsuming` has no caller and
`onFinish` is nil at every call, so neither is modelled. What a core computes is left out; it may
spawn, end, fail or notice the cancellation in any order.

`CoreJoin` says what a caller can rely on: it knows cores the host started (`own`), cores that
live, and how a `Wait` ended. `Join` requires that no core *of the host* lives. The natural
promise, that no core at all lives, is not kept by the code (run `cores_lost`): a core that is
appended between the `RUnlock` and the `Lock` is overwritten. The cores of the host are safe
because the host itself is the thread inside `Wait`.

### 2.2 What cores share: `Globals`, `AtomicGlobals`

The globals of all cores are one Go map behind an `RWMutex`; lists, and the elements of lists, are
reached through pointers and have no lock. `Globals` runs short routines of byte code on several
cores. An instruction that touches a lock or a shared list is several steps, all others are one:

| Code | Model |
|---|---|
| `Globals.Data`, `Globals.Mutex` of each copy of the `VM` struct | `data`, `writer` and `readers` per `Copy` |
| `GetGlobImm` (execute.go:206): `RLock`, read, `RUnlock` and push | `BeginRead`, `Read`, `EndRead` |
| `SetGlobImm`: pop, `Lock`, store, `Unlock` | `Announce`, `BeginWrite`, `Write`, `EndWrite` |
| the method `push` of a list: read the slice header, write it back | `BeginPush`, `EndPush` |
| `NewVM`: init core, `Wait`, return of the struct by value | `HostSpawns`, `Receive`, `Drop`, `WaitReturns`, `ReturnVM` |
| `SpawnSync` of `main` and then `GetGlobals` without a lock | the same, with `vm = "returned"`, and `ReadGlobals` |

`BeginPush` pops the list and the argument and keeps both, with the header it has read, as the closure that
`Member` and `Call_Val` make does. An instruction that finds too few operands, a value of the wrong kind
or a variable that was never set has no step: there the Go code panics.

`cell` is a Go variable of type `Value`, `list` a slice header; an address is the core that made it
and a number. `NewVM` returns the struct by value after its init core has run on the first copy: the
map is shared by both copies, the mutex and the slice of cores are duplicated. The host calls
`main` once, cores are numbered in the order in which they are started, and of `Wait` only its two
halves are left, enough to forget a core. Four variables are history: how often a global or list was
written, which of these writes each core has seen, and what was written by a core that had not seen the last.

What a program should find in its globals depends on what it stores. `LostOnlyByOverlap` is about programs that count
(`Counting`): each store to a global is that of `x += 1`, of `let x = 0` at the top of the module, or of a list literal, and
the init function starts no core.
The globals of the second kind (`Tallies`) then have the number of additions as their value. `MCGlobals` assumes
`Counting` of its programs (`ProgramsCount`), so TLC evaluates it.

That the init function starts no core (`InitStartsNoCore`) should follow from the language, since initializers are to be constant, but the analyzer lets some
through that do. `Globals` has programs of both kinds. `MayStray` is the case in which a core can outlive `NewVM`: the init
function has started cores and `Wait` has forgotten one.

`AtomicGlobals` is a memory in which each core has at most one request, that takes effect at one moment
between asking and being answered. It promises nothing for two instructions together.

### 2.3 One core: `Instructions`, `CoreMachine`, `FrameMachine`, `Compiler`, `TreeInterpreter`, `CompiledCore`

`CoreMachine` has one action per control instruction, one per boundary condition of the run loop
(`NoticeCancel`, `StackOverflow`, `CallStackOverflow`, `BeginVCycle`, `Finish`), and the Go
panics that the code can meet (`MissingRoutine`, `Panics`, the index -1 in `StackOverflow`). The
registers keep their names: `callStack`, `stack`, `memory`, `mp`, `catchLabels`. `executed`
counts instructions in the current vcycle. Values are texts, Booleans and iterators; an object
that is thrown is its message. A call of `println` is the instruction `emit`; `GetVar` and
`IteratorAdvance`, always emitted together, are one instruction `iterate`.

`Compiler` is the code generator as functions on `Ast`: every construct's instruction sequence with
its labels, `relocateLabels` and `renameVariables`, and the prologue and cleanup of functions
that take and give back memory slots. `TreeInterpreter` computes what the program prints and how it ends when
the tree is walked, with its scopes and interrupts. `CompiledCore` puts a source program, its
code and the core together; `AgreesWithTree` compares the two execution engines.

The balance of the registers is a property of any byte code, and `CodeDiscipline` states it without the
compiler. Code is `Disciplined` if there is a certificate for it, which says of every instruction that control reaches
what the frame of its function has there: the memory, the number of operands, the open catch labels. The rules are
local, one instruction and its successors at a time, as in a verifier of byte code: both ways to an instruction bring the same, a
function returns with nothing, and where a label is open only *quiet* functions are called, out of which nothing
is thrown. Programs with a catch around a call that throws, with a jump out of a try, or with a match whose default
runs have no certificate. `CompiledCore` computes the certificate of its program, by following control, and keeps it in the variable `certificate`.
`CodeAssigns` adds which globals each point finds set on every way to it (`Assigns`), a call adding what its function has set at its end;
`CompiledCore` finds them by taking away from all globals that the code names (`Narrowed`), and `declared` are the globals of the source.

`FrameMachine` is the machine that the authors of `compiler/function.go` have in mind: a stack of calls, each with its own variables (`slots`, numbered
from the last one taken, as `absolute` does), `operands` and `handlers`. Its instructions have no memory pointer to miss and its `Throw` only the
catch blocks of its own call. `CoreFrames` finds these calls in the registers of `CoreMachine`: `SlotsOf`, `OperandsOf` and the labels of the k-th call are
the k-th parts of the memory, of the stack and of the labels, divided as the certificate says (`Activations`). Boundaries of vcycles are steps without effect; limits and
cancellation are `Interrupted`.

In the tree interpreter the scope of a callee is pushed over the scopes of its caller, so every
modelled function starts with a `let x`, as otherwise it would see the variable of its caller.
An init function of a module other than the entry has no `return` (`FallOff`).

### 2.4 Imports: `Imports`

One action per import statement and outcome (`ImportUnresolved`, `ImportBuiltin`, `ImportBroken`,
`ImportKnown`, `ImportNew`), `FinishModule`, and the steps of the recursive search for cycles
(`SearchFound`, `SearchDeeper`, `SearchReturns`, `SearchFails`, `SearchOverflow`). `frames` is the
recursion of `analyzeModule`, `search` that of `importGraphIsCyclicInner`, `importsModules` what
is recorded per module, including names of modules that turned out not to exist. A program is a
function from names to a kind (code, broken, builtin, absent) and a list of imports; what an import names decides
only whether it fails. Bodies of modules are empty here and have no errors of their own.

`SearchDepthMax` is the number of names. The search has no memory, so a module that occurs twice
on its path occurs for ever; a path longer than the number of names repeats a module. The bound
is therefore exact and not an approximation of the Go stack.

### 2.5 Types of blocks: `BlockEnds`, `BlockTypes`, `Fuzzer`

`BlockEnds` defines typed trees of blocks, expressions and statements, and the set of ends each
can have when it is interpreted: a value of some type, or a return with a value of some type, a
break, a continue, a throw, an exit. The condition of an `if` or `while` and the iterator of a `for`
is a block (`cond`), whose value is known (`True`, `Not`), true a fixed number of times (`Once`), or
any; without `cond`, and in the control values of matches, it is opaque. `BlockTypes` is the analyzer on the same trees: the kind of type it gives to each node,
the diagnostics, and the state it drags along (`ret` for `CurrentFunction`, `depth` for
`LoopDepth`, `terminated` for `CurrentLoopIsTerminated`), and the optimizer on the analysed tree.
The initial `terminated` is either value, since earlier functions of the module leave it behind.

`Fuzzer` has, for each statement, the set of all variants from which `fuzzer/` chooses one at random:
branches that change places, jumps wrapped into blocks, `while` as `loop`, and every
statement put into a loop that goes round once, unless `stmtCanControlLoop` finds a jump in it. That search
is modelled with its gaps (`CanControlLoop`, `MatchCanControlLoop`): of a `for` it looks at nothing, and of a `match` at the
control value and the arms, among which the default arm is not.

### 2.6 Expressions: `Expressions`, `Values`, `TreeValues`, `VmValues`, `OperatorVariants`, `FuzzedExpressions`

`Expressions` has trees, `Prec` with its pairs of numbers, and two functions between trees and
tokens. `Printed` is the `String` methods of the analysed tree, which write no parentheses but those of a
`Group`. `Expression` is the parser's function of that name: `Start` its first switch, `Continued`
the condition of its loop and `Extended` the loop's body, one operator of TLA+ for each method that
is called there. Soft errors, after which the parser goes on, count as failure. What the result
should be is defined without it: in a tree that `Conforms`, an operator inside an operand binds more
strongly than the one whose operand it is.

A value is a cell on a heap, since both engines hand around pointers. In `TreeValues` a name has
the cell of the variable as its value, operators make new cells, and an assignment writes into the
cell. `VmValues` has `compileExpr` as `Code`, with relative jumps instead of labels, and a machine that runs
the code: there an assignment to a local variable replaces the pointer, one to a global copies the
value, and one to an element writes into its cell. `HostCalled` stands for a builtin function of
the host that records its arguments and returns the first; it is the only function, and it makes
the order of evaluation visible. `**` goes by way of floats, as in the code; an int that does not
fit is the least int, which is what the conversion gives on amd64.

`OperatorVariants` has what `infixExpr` and `expressionVariants` may return. In
`FuzzedExpressions` one step is one pass. Passes rewrite the tree, and the text is parsed only
when the result is used, so a tree may be one thing and its text another: `RewritingKeepsValue` looks at the text.

### 2.7 Types at run time: `Types`, `Casts`, `TypedScripts`

`Types` has the analyzer's functions on types (`CheckAny`, `TypeCheck`, the rule of `castExpression`, `Fields` of each
type). `Strict` is the check at the end of `expression` that asks for an annotation where `any` occurs. Values are on a
heap of cells (Go variables), slice headers and maps, since lists and objects are shared and `as` copies them.
`DeepCast` has an argument that says whose it is, as the two engines differ in a few branches only.

A script grows by one statement at a time, whichever the analyzer accepts then: `Let` (with or without annotation),
`Assign` to a variable, an element or a field, and `Do`, the call of a method. Operands are variables and literals;
larger expressions are sequences of lets. `TypeOf` is the analyzer, `Eval` the code and its instructions, and `Let`
brings both together: `LetAccepts` and the type of the new variable, `Validated` for the cast that
`compileLetStmt` inserts. The heap is never cleaned up. All keys and fields are named f, all indices are 0. A script
that ended in an exception or a panic goes no further.

## 3. The runs

| Run | Question | Size |
|---|---|---|
| `cores` | are the cores of the host joined, is nothing started after an interrupt, is `CoreJoin` implemented? | 4 cores, 850,000 states |
| `cores_live` | do waits and spawns return, do interrupts arrive, does a cancelled VM come to rest? | 3 cores, 29,000 states |
| `cores_lost` | *violation*: is every core joined? | 3 cores |
| `globals` | does the lock make each access to a global atomic, although there are two copies of the VM; is nothing shared but elements of lists? | 5 cores, 71 programs, 41,000 states |
| `compiled` | is generated code balanced, does it do what the tree does, and does a core that runs it implement `FrameMachine`? | 1,628 programs, 153,000 states |
| `limits` | do limits, cancellation and plain recursion stop a core? Does the code of the 1,628 programs of `compiled` keep the discipline, and that of `catch_callee` and `leave_try` not (assumptions of `MCLimits`)? | endless programs, 427 states |
| `catch_callee`, `leave_try` | *violations* of the exception discipline | a handful of programs |
| `analyzer` | are accepted programs acyclic and cycles reported; do accepted bodies keep their type, do the optimizer and the fuzzer keep their meaning? | 66,000 programs, 500,000 states |
| `imports_cycle` | *violation*: does the search end? | 3 names |
| `expressions` | is the printed text read as the tree, do the engines come to the same, does the fuzzer keep values and constants? | 1,004 expressions, 13,000 states |
| `typed` | do variables keep values of their types, can an instruction panic, do casts validate and copy, are they the same in both engines? | 9 openings and two statements, 51,000 states |

**Why the bounds are enough.** Three cores are the fewest for the lost core (one that is joined,
one that spawns, one that is lost); the fourth allows a lost core that spawns again while the host
waits on another one. Sleeping, and the number of polls, are not bounded. The programs of `globals` have
up to three cores that store to the same global, push to the same list or write the same element, in every pair
of tasks, a list and a number handed to `Spawn`, and two chains of spawns in which `Wait` forgets a core.
Two more have an init function that starts a core: in one nobody can be forgotten, in the other a core is, and
goes on with the first copy of the VM after `NewVM` has returned the second;
five cores are the init core, `main` and three that scripts start. `compiled` has two call
depths, each compound statement with up to two statements inside, and nestings of loop in try, try
in loop and try in try: every pair of a jump and a construct it jumps out of occurs. Values are a
handful of texts, since the code never looks into them. A vcycle is 3 or 4 instructions instead
of 50, so that boundaries fall inside every construct; the limits are 2 to 4 frames and operands,
so that they are hit. Three module names with at most two imports each allow a self import, cycles of two
and three modules, and a cycle away from the entry module. Names other than the entry are
symmetric. The functions of `analyzer` have one branch or loop with all pairs of jumps in it, nested
once, followed by a jump or a value. The expressions of `expressions` have every pair of
operators of sums, products, shifts and bits next to each other, on either side, with and without parentheses, and
samples of the others: two is all that the parser's loop can tell apart at a time. Nine memories have a
negative, a zero and a positive value for each of two variables. `int` has 5 bits, so that sums and products overflow
and the bit operators have a sign to carry. `Useless` stands for 42, 69 and 4711, small enough not to overflow. The second
pass is the first that can rewrite what a pass has made. The scripts of `typed` begin in one of nine ways: a list, an
object, a nested list, a list of truth values or a function behind `any`, an element that is also a variable, a list of mixed kinds, an option in a list,
a list in a `{?}`. To break a type takes two statements from there: one that makes a second path to a value,
or a second type for it, and one that writes through the other. Longer scripts, of three statements from
the empty one, were explored for half a million states without finding more.

`CHECK_DEADLOCK FALSE` is used where the program legitimately stops: cores end, the host returns or is
stopped, an analysis is finished.

### Fairness

`cores_live` assumes weak fairness of each host step, of each core's steps inside `spawn`, of a
core's poll of a cancelled context, and of `Timeout`. The first two are the Go scheduler and Go's
`RWMutex` (a waiting writer keeps out new readers, so it is served once the readers it found have
left; a reader or writer at the mutex is not overtaken for ever). The poll is the head of the
vcycle loop, which `limits` (`CancelStops`) shows is always reached. `Timeout` is fair since every
caller passes `context.WithTimeout`. There is no fairness for the end of a core or for spawning:
scripts may loop for ever. `limits` assumes only that the core goes on executing.

## 4. What holds, and what does not

Shown by the passing runs:

- A `Wait` that returns nil has joined every core the host started (`HostCoresJoined`), also
  those it had to re-read from a replaced slice; a joined core is never polled again
  (`NoEndedCoreRegistered`); once an interrupt was returned no core is registered
  (`NoCoreAfterInterrupt`); every wait and spawn returns.
- No core reads or writes the map of globals while another writes it (`MapAccessesExclude`), and the copy of
  the VM that `NewVM` returns is made when its mutex is free and no core uses the other (`CopiedAtRest`). Both hold whatever the
  init function does, with one exception: it has started cores, and `Wait` has forgotten one of them or of those that they
  have started (`MayStray`). A core that lives on locks the mutex of the first copy then. Otherwise every
  single read and store is atomic (`ImplementsAtomic`). The host's `GetGlobals` takes no lock; it is alone unless `Wait` has forgotten a core, which is what the
  comment of `GetGlobals` (`runtime/vm.go:148`) warns of.
- Two cores hold pointers to the same cell only if it is an element of a list (`SharedCellsAreElements`): the arguments
  of `Spawn` and the values of globals are copied, but a copied list still has its elements in common.
- An update of a global or of a list is lost only if somebody else wrote between the reading and the writing of the
  one who lost it (`LostOnlyByOverlap`). That does happen: `total += 1` on two cores, and `push` on two cores.
- Generated code runs as if every call had variables, operands and catch blocks of its own (`ImplementsFrames`), although all
  calls of a core share one memory, one stack of operands and one of catch labels: nobody else changes what a call
  has, an exception that the calling function catches finds its variables, and no call leaves anything behind.
- In structured programs, exceptions included, the memory pointer is the sum of the live frames,
  catch labels belong to running functions, no operand is left over, and VM and tree interpreter
  print the same and end the same way. *Structured* (`Compiler!Structured`) excludes what the
  violation runs exhibit: a catch around a call that throws, jumps out of a try, a match whose default runs,
  and a catch variable whose name is used elsewhere in its function.
- No limit is exceeded by more than a vcycle; a cancelled core stops.
- A program accepted by the analyzer has no import cycle, modules that import each other are
  reported, and every path in a report is real.
- An accepted function body ends with a value of its declared type if it ends with a value; the
  optimizer removes only what is unreachable. Excluded are matches without default whose arms all
  diverge (see below), and jumps after a function literal.
- A rewritten function ends in the ways the function did (`RewritingKeepsEnds`). Excluded are a `break`
  or `continue` in the iterator of a `for` or the condition of a `while` (`ControlApart`), or in the default arm of a `match`
  if it addresses a loop outside it (`DefaultsStay`; for both see below), and a `return` without value, on which
  `stmtCanControlLoop` dereferences nil (`fuzzer/nodeHelper.go:20`).
- The parser reads a printed expression as the tree it was printed from, if that tree has the
  parentheses it needs, and otherwise as the only tree that fits the binding powers (`ParsesByBindingPower`).
- An expression comes to the same value, effects and variables on both engines, or fails on both
  (`EnginesAgree`). Excluded are expressions that assign to a variable or element they hold a pointer to
  (`KeepsCopies`), and calls one of whose arguments matters to another (`ArgumentsApart`).
- In an accepted script every variable has a value of its type, down to the last element, whatever went through `any`
  and whoever else knows a part of it (`TypesHold`), and no instruction meets a kind of value it cannot deal with
  (`NeverPanics`). A cast that may not convert accepts exactly the values of its type, every cast
  validates (`CastsValidate`), and its lists and objects are new (`CastsCopy`). Where both engines cast, they cast alike, and the
  VM accepts more only where `any` or `{?}` occurs (`EnginesCastAlike`). Excluded are values stored without
  a cast under a type that differs from theirs (`Unchanged`), results of `DeepCast` that it has wrapped into an option or opened to a `{?}`
  unvalidated, results of calls that push none, and fields that are functions; see below.
- The text of a rewritten expression has the value of the expression (`RewritingKeepsValue`), and the initial value of a
  global stays constant (`GlobalsStayConstant`). Excluded are operands that matter to each other
  and what is listed below.

Disagreements between the code and what it says of itself, each with a run:

1. `cores_lost`: `Wait` forgets a core that is registered between its two locks.
2. `catch_callee`: catching what a callee throws keeps the callee's memory pointer. The frame
   that is popped is always exactly one: a throw two calls below its catch leaves the catching
   function on the call stack twice, and it returns twice.
3. `leave_try`: `return`, `break` and `continue` out of a try leave its label behind; a later throw
   enters a catch block that is over.
4. `imports_cycle`: a cycle of imports that does not contain the module where the search starts
   makes the search recurse until the process dies.

Found on the way and not given a run of its own: `functionLiteral` sets `CurrentFunction` to the literal
(`analyzer/expression.go:455`) and never sets it back, so that a `return` after it is checked against the literal's type
(`LiteralsApart` leaves such functions out). The compiler puts the catch variable into the
scope that surrounds the try, so that after the try its name still means the caught object. The check
of the operand stack itself panics, with the index -1, in the first function of a core (`StackOverflow`);
the stack grows through matches whose default arm runs, as only the other arms drop the control value.
`Expression.Constant` looks only at the base of an index or a member, so that the initializer of a global can start a
core (`[1][{ spawn f(); 0 }]`); if `Wait` forgets that core, or one that it starts, it goes on with the mutex of the first copy of the VM, and if it holds
that mutex at the moment of the copy, the other stays locked for ever.
`MapAccessesExclude` and `CopiedAtRest` set this case aside. And the fuzzer takes a loop for closed: a `break` in the iterator of a `for` belongs to the loop
around it, as the iterator is evaluated before the loop begins, but `stmtCanControlLoop`
(`fuzzer/nodeHelper.go:31-36`) does not look there, and the rewriting puts it into a loop of its own. Likewise a `while` that becomes a
`loop` takes the jumps of its condition into that loop. And a statement may be wrapped into a loop that goes round once
although a jump in it leaves a loop outside: the analyzer keeps the action of a default arm in `DefaultArmAction`, apart from
`Arms` (`analyzer/expression.go:1426-1446`), and `exprCanControlLoop` searches `Arms` only (`fuzzer/nodeHelper.go:143-155`). So in
`loop { match x { 1 => null, _ => { break; } } }` the match may be wrapped (`fuzzer/statement.go:251-281`); the `break` then leaves the new
loop, and the loop of the program goes on. Without `DefaultsStay` in `RewritingKeepsEnds`, TLC finds such a function.

A match without default whose arms all diverge is typed `never`, although no arm may match
(`analyzer/expression.go:1492`).

With types: `any` inside the type of a value is accepted as "handled elsewhere" (`analyzer/typing.go:325`), but only a
let inserts a cast, so a `?any` can be assigned or passed to a `?int` as it is, and a `[int]` that becomes a `[any]` is
still the same list, to which anything can be pushed. `DeepCast` makes an option of a value that is none
without looking at it (`runtime/value/cast.go:123`), and a `{?}` made of an object has the object's
map. A builtin function that returns null pushes nothing (`runtime/execute.go:122`), so that
`let y = l.push(1)`, which is accepted, pops a value that is not there. A function cannot be cast to its own type: the VM fails, the
tree interpreter panics with "Unreachable" (`interpreter/value/cast.go:219`). An object with a field that is a
function makes the compiler panic in `ZeroValue`. `Member_Anyobj` pushes two options for a missing field (`runtime/execute.go:610`). The tree interpreter
fails every cast to `any`, and of a `{?}` to `{?}`.

Between the engines: the tree interpreter hands out pointers to variables, so that in `host(x, { x = y; g })` the
first argument changes before the call, and an element that was a name changes with the variable; the VM
does the same with the elements of lists (`let z = l[0]`). The VM evaluates arguments from right to
left (`compiler/expression.go:59`). By zero, the tree interpreter panics where the VM reports an error for `/`
and panics for `%`; `EnginesAgree` compares only whether an expression fails.

In the fuzzer's operators: `x - y ** 2` becomes `x + -y ** 2`, in which the minus belongs to `y` alone (`Negatable`);
`x / y * b` is swapped as a tree, but its text is `b * x / y` (`PureProduct`); a product becomes a loop that
gives 0 if its second operand is negative (`CountsUp`) and evaluates it more than once (`Repeatable`); and a
large literal multiplied by 4711 overflows.

## 5. Proofs

The theorems hold for every value of the constants, under the named `ASSUME`s of the modules.

- `VmCores_proof`. `JoinInv` is inductive: besides the types and the number of readers it relates
  program counters, the slice and the locals of `Wait`. `cores` alone does not say where a core of the host
  is between the computation of the new slice and its storing; the invariant says that every live
  core *of the host* is in `newCores` at that moment, which holds because the host cannot spawn while
  it waits. From it follow `HostCoresAreJoined`, `EndedCoresAreForgotten`, `DropIsSafeForHostCores` and
  `InterruptIsFinal` (an action property). `EveryCoreJoinedWithoutSpawn` proves the stronger promise for scripts that do not
  spawn. `VmCoresImplementsJoin` is the refinement of `CoreJoin`, step by step under the mapping of `VmCoresJoin`.
- `Globals_proof`: `TypeCorrect`, `AccessesExclude` and `CopyIsClean`, for any number of cores and any programs, and `Implements` (that `Globals`
  implements `AtomicGlobals`), for those whose init function starts no core. The
  invariant behind them relates program counters to locks. `LocksHeld` alone does not exclude anybody, because a mutex protects only those who use the same
  one: `CopiesInTurn` and `RegisteredAtHome` say which copy a core has and in whose slice it is, and `NoneLeft` that nobody has
  the first copy any more when the host has the other. That rests on `ForgottenStay`: a core that `Wait` has forgotten stays forgotten, so when
  `Wait` returns and none is, every live core was in the slice that `Wait` found empty. If the init function starts no core, `FirstCopy` says that
  there is but the init core while the host is inside `NewVM`, and then `Wait` cannot forget one. For the refinement, `Underway` says at which
  instruction a core is while it is inside one.
- `GlobalsHeap_proof`: `SharedAreElements` (`SharedCellsAreElements`), from an invariant about ownership: a core
  has pointers to elements of lists and to cells it has made itself, and to nothing else (`Reach`). That the
  cell of a literal, a global that is read or an argument of `Spawn` is new needs one more part, `AddressesMade`: addresses
  are numbered, and no core uses a number twice. `VariablesArePrivate` says the same of steps: no step of a core changes
  a cell that another core has made and that is no element. `PushesAreLostOnlyByOverlap` counts on top of that: a list is shorter than the number of
  pushes only by those that were underway when another one came, and `PushesUnderway` says which header a core in the middle of one still holds.
- `GlobalsStores_proof`: `UpdatesAreLostOnlyByOverlap` (`LostOnlyByOverlap`, both halves), for every program that counts
  (`Counting`), any number of cores and any schedule. `SetGlobImm` stores whatever is on the operand stack, so that
  the number of stores says nothing of the value unless one knows which instructions came before. The invariant `StoreInv` says at which
  instruction of which routine each core is (`At`) and what the last three instructions have left on its stack: a copy of
  the global, the same and a one, or their sum. The copy has the value that the global had when it was read, and still has
  it if nobody stored in between (`Current`); no other core can change it meanwhile, since it is no element of a list (`Private`, which
  rests on `HeapInv` of `GlobalsHeap_proof`). That the init function runs once, before all other cores, is why `let x = 0`
  is not an increment that lost everything: before its store nobody has read or written `x`.
- `CoreMachine_proof`: `TypeCorrect` and `LimitsHold`, for every program and all limits. The
  strengthening couples the length of the stacks to `executed`: within a vcycle a stack is at
  most its limit plus the number of instructions executed since the last check. `CancelledCoresCountDown` is the half of
  `CancelStops` that needs no fairness: each step of a cancelled core ends it or leaves it one step fewer
  (`StepsLeft`), so that what a program does cannot keep it from noticing.
- `CodeDiscipline_proof`, for every program with a certificate, whatever the limits: `MemoryIsGivenBack`
  (`MpMatchesFrames`), `LabelsAreOfRunningFunctions` (`CatchLabelsLive`), `OperandsAreConsumed` (`OperandsDropped`), `NothingIsMissing`
  (no instruction finds too few operands or no variable, and a throw returns to its own function) and `CallersKeepTheirVariables` (no step
  changes a variable of a function that waits for a call). The invariant `Matches` says that the memory pointer and the number of operands
  are the totals, and the labels the concatenation, of what the certificate promises for the frames one by one; and that where a frame with an open
  label waits for a call, every frame above it belongs to a quiet function. The last part is what makes the pop of a throw, which
  removes no frame or one, come out right. `Total` is a cardinality and not a sum, so that it needs no induction. A core that has stopped
  with an uncaught exception or out of memory leaves its registers as they were, and is treated apart. The
  hypothesis `Disciplined(program, Certificate)` is met by what the compiler emits, as far as TLC sees it: in `limits` it
  evaluates it for every program of `compiled`. The proof found a mistake in the first statement of the rules
  (`eqpoponce` pops one operand of two and pushes one, so its effect is 0).
  `GlobalsAreSet` (`GlobalsInitialised`): at the end of an init core every declared global is set. The certificate here also says which globals each
  point finds set (`Assigns`), and the invariant `AssignedIn` says of a frame that waits for a call that it finds them once
  the frame above it has done its part (`Awaited`). Without that, nothing relates `@init` to the init functions of the modules that it calls. No
  exception skips an assignment unnoticed: it goes on in a catch block of its own function, which is a way of the certificate, or ends the core.
- `CoreFrames_proof`: `ActivationsArePrivate` (`ImplementsFrames`): a core that runs disciplined code implements `FrameMachine`,
  for every program with a certificate and all limits. The invariant is that of `CodeDiscipline_proof`; with it the places of the k-th call are
  where the totals of the calls below it end (`HeldEnd`, `OperandsEnd`), and a call that waits is the same after a step if that far nothing has changed
  (`Below`). `TopReplaced` is the step that nearly all instructions take, in the innermost call, whose operands are the end of the stack (`UpperReplaced`).
  A call begins with nothing and returns with nothing (`CallStep`, `ReturnStep`). An exception never leaves a call and finds a catch block elsewhere:
  the certificate promises it (`ThrowStep`), and without labels no call has a handler (`UncaughtStep`). Of the panics of `runInstruction` only those for a value of the wrong
  kind are left (`PanicStep`), which is `NothingIsMissing` seen from the abstract machine.
- `Imports_proof`: `ImportInvariant` (recorded imports are imports of the program, the search is a
  path of recorded imports that starts at the module being analysed), hence `CycleErrorsAreReal`. Then
  `AcceptedProgramsAreAcyclic` (`AcceptedIsAcyclic`) and `CyclesAreDiagnosed` (`CyclesDiagnosed`), for any number of modules.
  Instead of paths, which would need induction, reachability is by closed sets: `RecordInv` says what has been recorded by whom
  (an analysed module all its imports, a module under analysis those it has come to, and the modules under analysis are a chain),
  `SearchComplete` that what the search has left behind cannot lead back to its start (`Avoiding`, the union of the closed sets without the start). So a
  search that finds nothing leaves a closed set behind (`AnalyzedClosed`), and analysed modules are ordered: there is a set that is closed and has
  one of any two of them but not the other (`AnalyzedOrdered`), unless a cycle was reported.

Only model-checked:

- liveness under fairness (`cores_live`, `LooplessStops` and the rest of `CancelStops` of `limits`), which is out of the prover's reach;
- that the compiler emits disciplined code that sets what is declared (`CompiledCodeIsDisciplined`, evaluated in `limits`), `AgreesWithTree`, and everything about `TreeInterpreter`,
  `BlockEnds`, `BlockTypes`, `Fuzzer`, the modules of expressions and those of types. Their definitions are recursive, over trees,
  and the prover has no induction over data.

## 6. What is left out

Values shared by cores other than numbers and lists; strings, floats and ranges; methods that only read, among them
equality and `contains`; strings as indices of objects; how types are converted from the syntax (`ConvertType`); the lexer, the parser's statements and items and its error recovery, name mangling, the
debugger, the fuzzer's worker pool, and all formatting. `PROJECT.json` says for each component
what of it is modelled, and which hazards still lack a property.

## 7. Plan

In this order:

1. *Done*: cores and their join; one core with exceptions and limits; compiler against tree
   interpreter; imports; types of blocks, the optimizer and the rewriting of statements; expressions
   from the parser to both engines and the fuzzer; first theorems.
2. *Done*: `Globals`, cores that read and write globals and share lists through pointers, against a memory in
   which each instruction is atomic.
3. *Done*: `Types` and `Casts`, and scripts that depend on them.
4. *Done*: proofs of `AcceptedIsAcyclic` and `CyclesDiagnosed` for arbitrary programs, of who shares which cells in `Globals`, and that
   disciplined code keeps the registers of a core; that updates of globals and of lists are lost only by overlap; that
   a core implements `FrameMachine`.
5. `Mangling`: names of functions and variables after mangling are distinct.
6. `Modules` of the tree interpreter: how often a module is executed.

Algorithms without state share one model with the analyzer's functions: their inputs are further
alternatives of the initial state.
