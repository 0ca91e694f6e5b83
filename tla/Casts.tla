-------------------------------- MODULE Casts --------------------------------
(***************************************************************************)
(* DeepCast, which validates and converts values at run time, in the VM    *)
(* (runtime/value/cast.go) and in the tree interpreter                     *)
(* (interpreter/value/cast.go).                                            *)
(*                                                                         *)
(* A heap has cells (Go variables of type Value), slice headers and maps.  *)
(* Lists have the address of a header, objects that of a map, and both     *)
(* hold addresses of cells; options point to a cell.                       *)
(***************************************************************************)
EXTENDS Types, Integers, SequencesExt

EmptyHeap == [cell |-> <<>>, list |-> <<>>, map |-> <<>>]

Int64(n) == [kind |-> "int", int |-> n]
Bool(b) == [kind |-> "bool", bool |-> b]
Plain(kind) == [kind |-> kind]               \* str, null, function
ListAt(a) == [kind |-> "list", at |-> a]
MapAt(kind, a) == [kind |-> kind, at |-> a]  \* object, anyobject
Some(a) == [kind |-> "option", inner |-> a]
Nothing == 0
None == Some(Nothing)

WithCell(h, v) == [h EXCEPT !.cell = Append(@, v)]
WithList(h, elements) == [h EXCEPT !.list = Append(@, elements)]
WithMap(h, fields) == [h EXCEPT !.map = Append(@, fields)]

\* Is v a value of type t?  Behind `any` and `{?}` everything is.
RECURSIVE Inhabits(_, _, _)
Inhabits(h, v, t) ==
  \/ t.kind = "any"
  \/ /\ v.kind = t.kind
     /\ v.kind = "list" =>
          \A i \in DOMAIN h.list[v.at] : Inhabits(h, h.cell[h.list[v.at][i]], t.inner)
     /\ v.kind = "option" => v.inner = Nothing \/ Inhabits(h, h.cell[v.inner], t.inner)
     /\ v.kind = "object" =>
          /\ DOMAIN h.map[v.at] = DOMAIN t.fields
          /\ \A f \in DOMAIN t.fields : Inhabits(h, h.cell[h.map[v.at][f]], t.fields[f])

-----------------------------------------------------------------------------
(* Results: a value and the heap, an exception, or a panic of the process. *)
(* `notes` says which unchecked steps were taken:                          *)
(*   wrapped   a value that is no option was put into one as it is         *)
(*   opened    an object has become a `{?}` with the same map              *)

Success(h, v) == [out |-> "value", heap |-> h, value |-> v, notes |-> {}]
Failure(h, out) == [out |-> out, heap |-> h, value |-> Plain("null"), notes |-> {}]
Error(h) == Failure(h, "error")

\* Mutated form: the VM converts without being allowed to.
CastNumberFreely(engine, h, v, t, allow) ==
  CASE v.kind = t.kind -> Success(h, v)
    [] (allow \/ engine = "vm") /\ v.kind = "bool" /\ t.kind = "int" ->
         Success(h, Int64(IF v.bool THEN 1 ELSE 0))
    [] allow /\ v.kind = "int" /\ t.kind = "bool" -> Success(h, Bool(v.int # 0))
    [] OTHER -> Error(h)

\* Truth values and ints, to each other only where casts are allowed.
CastNumber(engine, h, v, t, allow) ==
  CASE v.kind = t.kind -> Success(h, v)
    [] allow /\ v.kind = "bool" /\ t.kind = "int" -> Success(h, Int64(IF v.bool THEN 1 ELSE 0))
    [] allow /\ v.kind = "int" /\ t.kind = "bool" -> Success(h, Bool(v.int # 0))
    [] OTHER -> Error(h)

RECURSIVE DeepCast(_, _, _, _, _)

\* Casts several cells one after the other; `value` is the sequence of the new cells.
\* (Fields come in the random order of a map, which decides only which one fails.)
CastCells(engine, h, cells, types, allow) ==
  FoldLeft(LAMBDA r, i :
             IF r.out # "value" THEN r
             ELSE LET s == DeepCast(engine, r.heap, r.heap.cell[cells[i]], types[i], allow)
                  IN IF s.out # "value" THEN s
                     ELSE [out |-> "value",
                           heap |-> WithCell(s.heap, s.value),
                           value |-> Append(r.value, Len(s.heap.cell) + 1),
                           notes |-> r.notes \cup s.notes],
           Success(h, <<>>), [i \in DOMAIN cells |-> i])

\* Mutated form: the elements are converted in place.
CastListInPlace(engine, h, v, t, allow) ==
  LET elements == h.list[v.at]
      r == CastCells(engine, h, elements, [i \in DOMAIN elements |-> t.inner], allow)
  IN IF r.out # "value" THEN r
     ELSE [r EXCEPT !.heap = [@ EXCEPT !.list[v.at] = r.value], !.value = v]

\* A list of new cells.
CastList(engine, h, v, t, allow) ==
  LET elements == h.list[v.at]
      r == CastCells(engine, h, elements, [i \in DOMAIN elements |-> t.inner], allow)
  IN IF r.out # "value" THEN r
     ELSE [r EXCEPT !.heap = WithList(r.heap, r.value),
                    !.value = ListAt(Len(r.heap.list) + 1)]

\* A map of new cells, if the fields are the same.
CastObject(engine, h, v, t, allow) ==
  LET fields == h.map[v.at]
      names == SetToSeq(DOMAIN fields)
      r == CastCells(engine, h, [i \in DOMAIN names |-> fields[names[i]]],
                     [i \in DOMAIN names |-> t.fields[names[i]]], allow)
  IN IF DOMAIN fields # DOMAIN t.fields THEN Error(h)
     ELSE IF r.out # "value" THEN r
     ELSE [r EXCEPT !.heap = WithMap(r.heap, [f \in DOMAIN fields |->
                               r.value[CHOOSE i \in DOMAIN names : names[i] = f]]),
                    !.value = MapAt("object", Len(r.heap.map) + 1)]

\* IntoAnyObject.  The tree interpreter wants a cast for it.
OpenObject(engine, h, v, allow) ==
  IF engine = "tree" /\ ~allow THEN Error(h)
  ELSE [Success(h, MapAt("anyobject", v.at)) EXCEPT !.notes = {"opened"}]

\* Mutated form: an option is taken over without looking at what it holds.
CastOptionShallow(engine, h, v, t, allow) ==
  IF v.kind # "option"
  THEN [Success(WithCell(h, v), Some(Len(h.cell) + 1)) EXCEPT !.notes = {"wrapped"}]
  ELSE Success(h, v)

\* What an option holds is cast; anything else is put into an option.
CastOption(engine, h, v, t, allow) ==
  IF v.kind # "option"
  THEN [Success(WithCell(h, v), Some(Len(h.cell) + 1)) EXCEPT !.notes = {"wrapped"}]
  ELSE IF v.inner = Nothing THEN Success(h, None)
  ELSE LET r == DeepCast(engine, h, h.cell[v.inner], t.inner, allow)
       IN IF r.out # "value" THEN r
          ELSE [r EXCEPT !.heap = WithCell(r.heap, r.value),
                         !.value = Some(Len(r.heap.cell) + 1)]

\* Only the VM knows casts to `any`, and lets a `{?}` be one.
DeepCast(engine, h, v, t, allow) ==
  CASE engine = "vm" /\ t.kind = "any" -> Success(h, v)
    [] t.kind = "option" -> CastOption(engine, h, v, t, allow)
    [] v.kind \in {"bool", "int"} /\ t.kind \notin {"any", "option"} -> CastNumber(engine, h, v, t, allow)
    [] v.kind = "list" /\ t.kind = "list" -> CastList(engine, h, v, t, allow)
    [] v.kind = "object" /\ t.kind = "object" -> CastObject(engine, h, v, t, allow)
    [] v.kind = "object" /\ t.kind = "anyobject" -> OpenObject(engine, h, v, allow)
    [] v.kind = "anyobject" /\ t.kind = "anyobject" /\ engine = "vm" -> Success(h, v)
    [] v.kind = "function" /\ t.kind # "option" ->
         IF engine = "tree" THEN Failure(h, "panic") ELSE Error(h)
    [] v.kind \in {"null", "str"} /\ t.kind = v.kind -> Success(h, v)
    [] OTHER -> Error(h)

=============================================================================
