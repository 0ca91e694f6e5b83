---------------------------- MODULE TypedScripts ----------------------------
(***************************************************************************)
(* Scripts that the analyzer accepts, statement by statement, on the VM:   *)
(* what the static types of variables promise of the values that the       *)
(* variables have, when lists and objects are shared, hidden behind `any`, *)
(* and cast back.                                                          *)
(***************************************************************************)
EXTENDS Casts

CONSTANTS
  Literals,        \* the literals that a script may use after its opening
  Annotations,     \* the types that may be written into the script
  Openings,        \* sequences of statements with which a script begins
  MaxStatements    \* how many may follow

VARIABLES
  opening,
  scope,       \* per variable its static type and the address of its cell
  heap,
  outcome,     \* how the last statement ended: "value", "error" or "panic"
  statements   \* how many have been executed

vars == <<opening, scope, heap, outcome, statements>>

NoAnnotation == Type("none")
Rejected == Type("rejected")

Init ==
  /\ opening \in Openings
  /\ scope = <<>>
  /\ heap = EmptyHeap
  /\ outcome = "value"
  /\ statements = 0

-----------------------------------------------------------------------------
(* Expressions.  Their operands are variables or literals: everything      *)
(* larger is a sequence of lets.  Fields and keys are all called f, an     *)
(* index is 0.                                                             *)

Literal == [op : Literals]
Variables == {[op |-> "var", x |-> x] : x \in DOMAIN scope}
Operands == Literal \cup Variables

LiteralType(op) ==
  CASE op = "0" -> IntType
    [] op = "true" -> BoolType
    [] op = "str" -> StringType
    [] op = "null" -> NullType
    [] op = "none" -> OptionType(AnyType)
    [] op = "[]" -> ListType(AnyType)
    [] op = "new {?}" -> AnyObjectType
    [] op = "function" -> FunctionType(<<>>, IntType)

OperandType(e) == IF e.op = "var" THEN scope[e.x].type ELSE LiteralType(e.op)

IndexType(base) == IF base.kind = "list" /\ Strict(base) THEN base.inner ELSE Rejected

\* `e.f` with the operators `.`, `->` and `~>`, for data.
MemberType(base, operator) ==
  CASE operator = "." /\ base.kind = "object" /\ "f" \in DOMAIN base.fields -> base.fields["f"]
    [] operator = "->" /\ base.kind = "anyobject" -> OptionType(AnyType)
    [] operator = "~>" /\ base.kind = "anyobject" -> AnyType
    [] OTHER -> Rejected

\* callArgs: an argument is neither null nor `any`.
ArgumentFits(arg, param) ==
  Strict(arg) /\ arg.kind # "null" /\ TypeCheck(arg, param, TRUE)

MethodResult(method, args) ==
  IF /\ Len(args) = Len(method.params)
     /\ \A i \in DOMAIN args : ArgumentFits(OperandType(args[i]), method.params[i])
  THEN method.ret
  ELSE Rejected

CallType(members, method, args) ==
  IF method \in DOMAIN members THEN MethodResult(members[method], args) ELSE Rejected

TypeOn(t, e) ==
  CASE e.op = "operand" -> t
    [] e.op \in {"[x]", "{f: x}", "?x"} /\ ~Strict(t) -> Rejected
    [] e.op = "[x]" /\ Strict(t) -> ListType(t)
    [] e.op = "{f: x}" /\ Strict(t) -> ObjectType("f" :> t)
    [] e.op = "?x" /\ Strict(t) -> OptionType(t)
    [] e.op = "index" -> IndexType(t)
    [] e.op = "member" -> MemberType(t, e.operator)
    [] e.op = "call" -> IF t.kind = "object" THEN Rejected ELSE CallType(Members(t), e.method, e.args)
    [] e.op = "as" -> IF Castable(t, e.to) THEN e.to ELSE Rejected

TypeOf(e) == TypeOn(OperandType(e.base), e)

\* The arguments that a method can have.
ArgumentLists(method) ==
  CASE method \in {"pop", "pop_front", "last", "sort", "unwrap"} -> {<<>>}
    [] method \in {"push", "push_front", "concat", "unwrap_or"} -> {<<a>> : a \in Operands}
    [] method = "remove" -> {<<[op |-> "0"]>>}
    [] method = "insert" -> {<<[op |-> "0"], a>> : a \in Operands}
    [] method = "get" -> {<<[op |-> "str"]>>}
    [] method = "set" -> {<<[op |-> "str"], a>> : a \in Operands}

Calls ==
  UNION {UNION {{[op |-> "call", base |-> b, method |-> m, args |-> a] : a \in ArgumentLists(m)} :
                m \in IF OperandType(b).kind = "object" THEN {} ELSE DOMAIN Members(OperandType(b))} :
         b \in Variables}

Places ==
  {[op |-> "operand", base |-> b] : b \in Variables}
  \cup {[op |-> "index", base |-> b] : b \in Variables}
  \cup {[op |-> "member", base |-> b, operator |-> "."] : b \in Variables}

Expressions ==
  Places \cup Calls
  \cup {[op |-> "operand", base |-> b] : b \in Literal}
  \cup {[op |-> o, base |-> b] : o \in {"[x]", "{f: x}", "?x"}, b \in Operands}
  \cup {[op |-> "member", base |-> b, operator |-> o] : b \in Variables, o \in {"->", "~>"}}
  \cup {[op |-> "as", base |-> b, to |-> t] : b \in Variables, t \in Annotations}

-----------------------------------------------------------------------------
(* Values on the VM.  An expression pushes the address of a cell: of a new *)
(* one, or that of a variable, element or field.                           *)

At(h, a) == [out |-> "value", heap |-> h, at |-> a, notes |-> {}]
NewAt(h, v) == At(WithCell(h, v), Len(h.cell) + 1)
Stop(h, out) == [out |-> out, heap |-> h, at |-> Nothing, notes |-> {}]
Noted(r, notes) == [r EXCEPT !.notes = @ \cup notes]

\* A cast's result is in a new cell.
Pushing(r) ==
  [out |-> r.out, heap |-> WithCell(r.heap, r.value), at |-> Len(r.heap.cell) + 1,
   notes |-> r.notes]

CastAt(h, a, t, allow) ==
  Pushing(DeepCast("vm", h, h.cell[a], t, allow))

EvalLiteral(h, op) ==
  CASE op = "0" -> NewAt(h, Int64(0))
    [] op = "true" -> NewAt(h, Bool(TRUE))
    [] op \in {"str", "null", "function"} -> NewAt(h, Plain(op))
    [] op = "none" -> NewAt(h, None)
    [] op = "[]" -> NewAt(WithList(h, <<>>), ListAt(Len(h.list) + 1))
    [] op = "new {?}" -> NewAt(WithMap(h, <<>>), MapAt("anyobject", Len(h.map) + 1))

EvalOperand(h, e) == IF e.op = "var" THEN At(h, scope[e.x].at) ELSE EvalLiteral(h, e.op)

\* ZeroValue panics for functions, so the compiler does for fields of that type.
RECURSIVE HasZero(_)
HasZero(t) ==
  /\ t.kind # "function"
  /\ t.kind = "object" => \A f \in DOMAIN t.fields : HasZero(t.fields[f])

EvalIndex(h, v) ==
  CASE v.kind # "list" -> Stop(h, "panic")
    [] v.kind = "list" /\ h.list[v.at] = <<>> -> Stop(h, "error")
    [] OTHER -> At(h, h.list[v.at][1])

\* Member, Member_Anyobj and Member_Unwrap.  (For a missing key the second of these
\* leaves an option below the one it pushes.)
MemberAt(h, fields, operator) ==
  CASE operator = "." /\ "f" \in DOMAIN fields -> At(h, fields["f"])
    [] operator = "." /\ "f" \notin DOMAIN fields -> Stop(h, "panic")
    [] operator = "->" -> NewAt(h, IF "f" \in DOMAIN fields THEN Some(fields["f"]) ELSE None)
    [] operator = "~>" -> IF "f" \in DOMAIN fields THEN At(h, fields["f"]) ELSE Stop(h, "error")

EvalMember(h, v, operator) ==
  IF v.kind = (IF operator = "." THEN "object" ELSE "anyobject")
  THEN MemberAt(h, h.map[v.at], operator)
  ELSE Stop(h, "panic")

\* Methods.  Arguments are copied into new cells; a result that is null is not pushed.
NoResult(h) == Noted(NewAt(h, Plain("null")), {"nothing"})
Pushed(h, a) == IF h.cell[a].kind = "null" THEN Noted(At(h, a), {"nothing"}) ELSE At(h, a)
SetList(h, a, elements) == NoResult([h EXCEPT !.list[a] = elements])

\* The kind of the first element decides; then all have to be of that kind.
Sorted(h, elements) ==
  SelectSeq(elements, LAMBDA a : h.cell[a].int = 0)
  \o SelectSeq(elements, LAMBDA a : h.cell[a].int = 1)

SortList(h, a) ==
  LET elements == h.list[a]
      kinds == {h.cell[elements[i]].kind : i \in DOMAIN elements}
  IN CASE kinds \in {{}, {"str"}} -> NoResult(h)
       [] kinds = {"int"} -> SetList(h, a, Sorted(h, elements))
       [] OTHER -> Stop(h, "panic")

ListMethod(h, a, method, args) ==
  LET elements == h.list[a]
      n == Len(elements)
  IN CASE method = "push" -> SetList(h, a, Append(elements, args[1]))
       [] method = "push_front" -> SetList(h, a, <<args[1]>> \o elements)
       [] method = "insert" -> SetList(h, a, <<args[2]>> \o elements)
       [] method = "remove" -> IF n = 0 THEN Stop(h, "error") ELSE SetList(h, a, Tail(elements))
       [] method = "concat" -> SetList(h, a, elements \o h.list[h.cell[args[1]].at])
       [] method = "sort" -> SortList(h, a)
       [] method \in {"pop", "pop_front", "last"} /\ n = 0 -> NewAt(h, None)
       [] method = "last" /\ n > 0 -> NewAt(h, Some(elements[n]))
       [] method = "pop" /\ n > 0 ->
            NewAt([h EXCEPT !.list[a] = SubSeq(elements, 1, n - 1)], Some(elements[n]))
       [] method = "pop_front" /\ n > 0 ->
            NewAt([h EXCEPT !.list[a] = Tail(elements)], Some(elements[1]))

OptionMethod(h, v, method, args) ==
  CASE v.inner # Nothing -> Pushed(h, v.inner)
    [] v.inner = Nothing /\ method = "unwrap" -> Stop(h, "error")
    [] v.inner = Nothing /\ method = "unwrap_or" -> Pushed(h, args[1])

AnyObjectMethod(h, a, method, args) ==
  CASE method = "set" -> NoResult([h EXCEPT !.map[a] = ("f" :> args[2]) @@ @])
    [] method = "get" ->
         NewAt(h, IF "f" \in DOMAIN h.map[a] THEN Some(h.map[a]["f"]) ELSE None)

EvalCall(c, v, method) ==
  CASE v.kind = "list" -> ListMethod(c.heap, v.at, method, c.cells)
    [] v.kind = "option" -> OptionMethod(c.heap, v, method, c.cells)
    [] v.kind = "anyobject" -> AnyObjectMethod(c.heap, v.at, method, c.cells)
    [] OTHER -> Stop(c.heap, "panic")

\* The cells of the copies of all arguments, and the heap with them.
RECURSIVE Copies(_, _, _)
CopiesAfter(r, args, cells) ==
  Copies(WithCell(r.heap, r.heap.cell[r.at]), args, Append(cells, Len(r.heap.cell) + 1))
Copies(h, args, cells) ==
  IF args = <<>> THEN [heap |-> h, cells |-> cells]
  ELSE CopiesAfter(EvalOperand(h, Head(args)), Tail(args), cells)

\* From the operand's value.
EvalFrom(b, v, e) ==
  CASE e.op = "operand" -> b
    [] e.op = "[x]" -> NewAt(WithList(b.heap, <<b.at>>), ListAt(Len(b.heap.list) + 1))
    [] e.op = "{f: x}" ->
         Noted(NewAt(WithMap(WithCell(b.heap, v), "f" :> Len(b.heap.cell) + 1),
                     MapAt("object", Len(b.heap.map) + 1)),
               IF HasZero(OperandType(e.base)) THEN {} ELSE {"zero"})
    [] e.op = "?x" -> NewAt(WithCell(b.heap, v), Some(Len(b.heap.cell) + 1))
    [] e.op = "index" -> EvalIndex(b.heap, v)
    [] e.op = "member" -> EvalMember(b.heap, v, e.operator)
    [] e.op = "call" -> EvalCall(Copies(b.heap, e.args, <<>>), v, e.method)
    [] e.op = "as" -> CastAt(b.heap, b.at, e.to, TRUE)

EvalOn(b, e) == EvalFrom(b, b.heap.cell[b.at], e)
Eval(h, e) == EvalOn(EvalOperand(h, e.base), e)

-----------------------------------------------------------------------------
(* Statements.  A script is modelled as long as it keeps away from what is *)
(* known to break the promise of a type:                                   *)
(*   - values stored without validation under a type from which theirs     *)
(*     differs (Unchanged): `any` inside the type of the value is "handled *)
(*     elsewhere" (typing.go:325), but only a let handles it, and `any`    *)
(*     inside the expected type lets one list have two types;              *)
(*   - the notes of DeepCast, and those of Eval: `nothing`, a call that    *)
(*     pushes no value where one is used, and `zero`.                      *)

RECURSIVE Unchanged(_, _)
Unchanged(got, expected) ==
  \/ got = expected
  \/ expected.kind \in {"any", "unknown"}
  \/ got.kind = "option" /\ expected.kind = "option" /\ Unchanged(got.inner, expected.inner)

Ready == outcome = "value" /\ statements < Len(opening) + MaxStatements

Finish(r) ==
  /\ outcome' = r.out
  /\ heap' = r.heap
  /\ statements' = statements + 1
  /\ UNCHANGED opening

\* letStatement: which types are accepted, and which type the variable then has.
LetAccepts(rhs, annotation) ==
  /\ rhs # Rejected
  /\ IF annotation = NoAnnotation THEN ~CheckAny(rhs)
     ELSE TypeCheck(rhs, annotation, ~CheckAny(rhs))

\* Mutated form: the value is validated, and stored as it was.
ValidatedOnly(r, annotation) ==
  IF r.out = "value"
  THEN Noted([CastAt(r.heap, r.at, annotation, FALSE) EXCEPT !.at = r.at], r.notes)
  ELSE r

\* compileLetStmt: NeedsRuntimeTypeValidation inserts a cast that converts nothing.
Validated(r, annotation) ==
  IF r.out = "value"
  THEN Noted(CastAt(r.heap, r.at, annotation, FALSE), r.notes)
  ELSE r

LetValue(e, annotation) ==
  IF CheckAny(TypeOf(e)) THEN Validated(Eval(heap, e), annotation) ELSE Eval(heap, e)

Bind(r, type) ==
  /\ r.notes = {}
  /\ Finish(r)
  /\ scope' = IF r.out = "value" THEN Append(scope, [type |-> type, at |-> r.at]) ELSE scope

Let(e, annotation) ==
  /\ LetAccepts(TypeOf(e), annotation)
  /\ CheckAny(TypeOf(e)) \/ annotation = NoAnnotation \/ Unchanged(TypeOf(e), annotation)
  /\ Bind(LetValue(e, annotation), IF annotation = NoAnnotation THEN TypeOf(e) ELSE annotation)

\* assignExpression.
AssignAccepts(place, e) ==
  /\ TypeOf(place) # Rejected /\ Strict(TypeOf(place))
  /\ TypeOf(e) # Rejected /\ Strict(TypeOf(e))
  /\ TypeCheck(TypeOf(e), TypeOf(place), FALSE)

\* A variable gets the other pointer.
Repoint(x, src) ==
  /\ src.notes = {}
  /\ Finish(src)
  /\ scope' = IF src.out = "value" THEN [scope EXCEPT ![x].at = src.at] ELSE scope

\* Into an element or a field the value is copied.
Store(dest, src) ==
  /\ src.notes = {}
  /\ Finish(IF src.out = "value"
            THEN [src EXCEPT !.heap.cell[dest] = src.heap.cell[src.at]] ELSE src)
  /\ UNCHANGED scope

AssignTo(dest, e) ==
  IF dest.out = "value" THEN Store(dest.at, Eval(dest.heap, e))
  ELSE Finish(dest) /\ UNCHANGED scope

Assign(place, e) ==
  /\ AssignAccepts(place, e)
  /\ Unchanged(TypeOf(e), TypeOf(place)) \/ e.base.op = "none"
  /\ IF place.op = "operand" THEN Repoint(place.base.x, Eval(heap, e))
     ELSE AssignTo(Eval(heap, place), e)

\* A call as a statement.  What it leaves on the stack is dropped.
Drop(r, tolerated) ==
  /\ r.notes \subseteq tolerated
  /\ Finish(r)
  /\ UNCHANGED scope

Do(call) ==
  /\ TypeOf(call) # Rejected /\ Strict(TypeOf(call))
  /\ \A i \in DOMAIN call.args :
       \/ Unchanged(OperandType(call.args[i]),
                    Members(OperandType(call.base))[call.method].params[i])
       \/ call.args[i].op = "none"
  /\ Drop(Eval(heap, call), IF TypeOf(call) = NullType THEN {"nothing"} ELSE {})

Execute(s) ==
  \/ s.op = "let" /\ Let(s.e, s.type)
  \/ s.op = "=" /\ Assign(s.place, s.e)
  \/ s.op = "call" /\ Do(s)

LetStatement(e, type) == [op |-> "let", e |-> e, type |-> type]

Statements ==
  {LetStatement(e, t) : e \in Expressions, t \in Annotations \cup {NoAnnotation}}
  \cup {[op |-> "=", place |-> p, e |-> e] : p \in Places, e \in Expressions}
  \cup Calls

Next ==
  /\ Ready
  /\ \E s \in IF statements < Len(opening) THEN {opening[statements + 1]} ELSE Statements :
       Execute(s)

Spec == Init /\ [][Next]_vars

-----------------------------------------------------------------------------
(* Properties.                                                             *)

ValueOf(x) == heap.cell[scope[x].at]

\* Every variable has a value of its type, down to the elements of lists and the fields
\* of objects, however many lists it shares with others and whatever went through `any`.
TypesHold == \A x \in DOMAIN scope : Inhabits(heap, ValueOf(x), scope[x].type)

\* An accepted script ends in an exception at worst: no instruction meets a value of a
\* kind it cannot deal with.
NeverPanics == outcome # "panic"

Casts(engine, x, t, allow) == DeepCast(engine, heap, ValueOf(x), t, allow)

RECURSIVE Alike(_, _, _, _)
Alike(g, v, h, w) ==
  /\ v.kind = w.kind
  /\ v.kind \notin {"list", "option", "object"} => v = w
  /\ v.kind = "list" => LET l == g.list[v.at]  m == h.list[w.at]
                        IN /\ Len(l) = Len(m)
                           /\ \A i \in DOMAIN l : Alike(g, g.cell[l[i]], h, h.cell[m[i]])
  /\ v.kind = "option" => /\ (v.inner = Nothing) = (w.inner = Nothing)
                          /\ v.inner # Nothing => Alike(g, g.cell[v.inner], h, h.cell[w.inner])
  /\ v.kind = "object" => LET l == g.map[v.at]  m == h.map[w.at]
                          IN /\ DOMAIN l = DOMAIN m
                             /\ \A f \in DOMAIN l : Alike(g, g.cell[l[f]], h, h.cell[m[f]])

Functional(t) == t.kind = "function" \/ (t.kind = "option" /\ t.inner.kind = "function")

\* A cast gives a value of the type that was asked for or fails; one that may not
\* convert accepts exactly the values of that type and changes nothing.  Two exceptions
\* are noted, and functions cannot be cast, not even to their own type.
CastsValidate ==
  \A x \in DOMAIN scope, t \in Annotations :
    /\ \A allow \in BOOLEAN :
         LET r == Casts("vm", x, t, allow)
         IN r.out = "value" /\ "wrapped" \notin r.notes => Inhabits(r.heap, r.value, t)
    /\ LET r == Casts("vm", x, t, FALSE)
       IN /\ r.out = "value" /\ r.notes = {} => Alike(heap, ValueOf(x), r.heap, r.value)
          /\ Inhabits(heap, ValueOf(x), t) /\ ~Functional(t) => r.out = "value" /\ r.notes = {}

\* The lists and objects of a type that a cast gives are new ones, so that the value
\* that was cast, still known under its other type, cannot change them.
RECURSIVE Typed(_, _, _)
Typed(h, v, t) ==
  CASE t.kind = "list" -> {v} \cup UNION {Typed(h, h.cell[a], t.inner) : a \in ToSet(h.list[v.at])}
    [] t.kind = "object" -> {v} \cup UNION {Typed(h, h.cell[h.map[v.at][f]], t.fields[f]) :
                                            f \in DOMAIN t.fields}
    [] t.kind = "option" /\ v.inner # Nothing -> Typed(h, h.cell[v.inner], t.inner)
    [] OTHER -> {}

CastsCopy ==
  \A x \in DOMAIN scope, t \in Annotations :
    LET r == Casts("vm", x, t, TRUE)
    IN r.out = "value" /\ "wrapped" \notin r.notes =>
         \A v \in Typed(r.heap, r.value, t) :
           v.at > IF v.kind = "list" THEN Len(heap.list) ELSE Len(heap.map)

\* Does `{?}` occur in the type?
RECURSIVE Opens(_)
Opens(t) ==
  \/ t.kind = "anyobject"
  \/ t.kind \in {"list", "option"} /\ Opens(t.inner)
  \/ t.kind = "object" /\ \E f \in DOMAIN t.fields : Opens(t.fields[f])

\* What the tree interpreter casts, the VM casts to the same value.  The other way
\* round, it refuses `any` and `{?}`, and panics for functions.
EnginesCastAlike ==
  \A x \in DOMAIN scope, t \in Annotations, allow \in BOOLEAN :
    LET tree == Casts("tree", x, t, allow)
        vm == Casts("vm", x, t, allow)
    IN /\ tree.out = "value" => /\ vm.out = "value"
                                /\ Alike(tree.heap, tree.value, vm.heap, vm.value)
       /\ vm.out = "value" /\ tree.out # "value" => CheckAny(t) \/ Opens(t)

=============================================================================
