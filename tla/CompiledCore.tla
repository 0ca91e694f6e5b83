---------------------------- MODULE CompiledCore ----------------------------
(***************************************************************************)
(* A core running what Compiler emits for a source program: the discipline *)
(* that the generated code keeps with the core's registers, and its        *)
(* agreement with the tree-walking interpreter.                            *)
(***************************************************************************)
EXTENDS CoreFrames, CodeAssigns, Compiler

Tree == INSTANCE TreeInterpreter

CONSTANT Sources

ASSUME ProgramsAreCompiled == Programs = {Compile(s) : s \in Sources}

-----------------------------------------------------------------------------
(* The certificate of the code, found by following control.                *)

\* The points of a function that control can reach, found by following it.
RECURSIVE Followed(_, _, _)
Followed(code, at, todo) ==
  IF todo = {} THEN at
  ELSE LET ip == CHOOSE ip \in todo : TRUE
           new == IF ip >= Len(code) THEN {}
                  ELSE {to \in Successors(code[ip + 1], ip, at[ip]) : to \notin DOMAIN at}
       IN  Followed(code,
                    [to \in DOMAIN at \cup new |->
                       IF to \in new THEN After(code[ip + 1], at[ip]) ELSE at[to]],
                    (todo \ {ip}) \cup new)

Points(p) == [fn \in DOMAIN p |-> Followed(p[fn], [ip \in {0} |-> Clean], {0})]

\* The functions out of which something may be thrown.
RECURSIVE Noisy(_, _, _)
Noisy(p, at, known) ==
  LET Lets(fn, ip) ==
        LET i == p[fn][ip + 1]
        IN  at[fn][ip].labels = <<>> /\ (i.op = "throw" \/ (i.op = "call" /\ i.fn \in known))
      found == {fn \in DOMAIN p : \E ip \in DOMAIN at[fn] : ip < Len(p[fn]) /\ Lets(fn, ip)}
  IN  IF found \subseteq known THEN known ELSE Noisy(p, at, known \cup found)

\* The globals set on every way to a point: at first all that the code names, of which
\* those are taken away that one of the ways there has not set.
RECURSIVE Narrowed(_, _, _)
Narrowed(p, at, known) ==
  LET leads(fn, from, to) ==
        from < Len(p[fn]) /\ to \in Successors(p[fn][from + 1], from, at[fn][from])
      leaves(fn, ip) == ip = Len(p[fn]) \/ p[fn][ip + 1].op = "return"
      next ==
        [set |-> [fn \in DOMAIN p |-> [to \in DOMAIN at[fn] |->
                    {x \in known.set[fn][to] :
                       \A from \in DOMAIN at[fn] : leads(fn, from, to) =>
                         x \in known.set[fn][from] \cup SetBy(p[fn][from + 1], known)}]],
         ends |-> [fn \in DOMAIN p |->
                     {x \in known.ends[fn] :
                        \A ip \in DOMAIN at[fn] : leaves(fn, ip) => x \in known.set[fn][ip]}]]
  IN  IF next = known THEN known ELSE Narrowed(p, at, next)

\* At the beginning of a function it has set nothing.
SetOnEveryWay(p, at) ==
  LET named == {i.fn : i \in {c \in UNION {Range(p[fn]) : fn \in DOMAIN p} : c.op = "setglob"}}
  IN  Narrowed(p, at, [set |-> [fn \in DOMAIN p |-> [ip \in DOMAIN at[fn] |->
                                  IF ip = 0 THEN {} ELSE named]],
                       ends |-> [fn \in DOMAIN p |-> named]])

Certificate(p) ==
  LET at == Points(p)
      known == SetOnEveryWay(p, at)
  IN  [at |-> at, quiet |-> DOMAIN p \ Noisy(p, at, {}), set |-> known.set, ends |-> known.ends]

-----------------------------------------------------------------------------

VARIABLE source

\* The globals of all modules.
Declared(s) == {g.x : g \in {d \in AllStatements(s) : d.k = "global"}}

CInit ==
  /\ source \in Sources
  /\ program = Compile(source)
  /\ certificate = Certificate(program)
  /\ declared = Declared(source)
  /\ InitCore

given == <<source, certificate, declared>>

CNext == Next /\ UNCHANGED given

CSpec == CInit /\ [][CNext]_<<vars, given>>

CFairSpec == CSpec /\ WF_<<vars, given>>(Step /\ UNCHANGED given)

-----------------------------------------------------------------------------

\* A program that prints and ends on the tree interpreter prints and ends the
\* same way on the VM.
AgreesWithTree ==
  MainFunctionIdent \in DOMAIN source /\ status \in {"nil", "uncaught", "panic"} =>
    [out |-> out, status |-> status] = Tree!Execute(source, MainFunctionIdent)

\* A throw that no try of the source encloses terminates the core with the
\* uncaught exception.
UncaughtTerminates ==
  status \in {"nil", "panic"} => Tree!Execute(source, MainFunctionIdent).status # "uncaught"

\* A program without loop statement stops: it comes to its end or recurses into
\* a limit.
LooplessStops ==
  (\A s \in AllStatements(source) : s.k # "loop") => <>(status # "running")
=============================================================================
