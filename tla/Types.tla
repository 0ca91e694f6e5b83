-------------------------------- MODULE Types --------------------------------
(***************************************************************************)
(* The types of Homescript as the analyzer handles them: what is           *)
(* compatible with what (analyzer/typing.go), what can be cast             *)
(* (analyzer/expression.go), and which members a type has                  *)
(* (analyzer/ast/types.go).  Numbers other than int, and ranges, are left  *)
(* out: they behave like int and str here.                                 *)
(***************************************************************************)
EXTENDS Sequences, TLC

Type(kind) == [kind |-> kind]
AnyType == Type("any")
UnknownType == Type("unknown")
NullType == Type("null")
IntType == Type("int")
BoolType == Type("bool")
StringType == Type("str")
AnyObjectType == Type("anyobject")
ListType(inner) == [kind |-> "list", inner |-> inner]
OptionType(inner) == [kind |-> "option", inner |-> inner]
ObjectType(fields) == [kind |-> "object", fields |-> fields]
FunctionType(params, ret) == [kind |-> "function", params |-> params, ret |-> ret]

-----------------------------------------------------------------------------
\* Does `any` occur in the type?
RECURSIVE CheckAny(_)
CheckAny(t) ==
  \/ t.kind = "any"
  \/ t.kind \in {"list", "option"} /\ CheckAny(t.inner)
  \/ t.kind = "object" /\ \E f \in DOMAIN t.fields : CheckAny(t.fields[f])
  \/ t.kind = "function" /\ \/ \E i \in DOMAIN t.params : CheckAny(t.params[i])
                            \/ CheckAny(t.ret)

\* May a value of type `got` be used where `expected` is?  `any` and `unknown` go
\* with everything, on either side.  `functions` is AllowFunctionTypes; inside an
\* option it is switched on.  Names of parameters are left out.
RECURSIVE TypeCheck(_, _, _)
TypeCheck(got, expected, functions) ==
  \/ expected.kind \in {"any", "unknown"}
  \/ got.kind \in {"any", "unknown"}
  \/ /\ got.kind = expected.kind
     /\ got.kind = "list" => TypeCheck(got.inner, expected.inner, functions)
     /\ got.kind = "option" => TypeCheck(got.inner, expected.inner, TRUE)
     /\ got.kind = "object" =>
          /\ DOMAIN got.fields = DOMAIN expected.fields
          /\ \A f \in DOMAIN got.fields :
               TypeCheck(got.fields[f], expected.fields[f], functions)
     /\ got.kind = "function" =>
          /\ functions
          /\ TypeCheck(got.ret, expected.ret, functions)
          /\ Len(got.params) = Len(expected.params)
          /\ \A i \in DOMAIN got.params :
               TypeCheck(got.params[i], expected.params[i], functions)

\* castExpression: conversions at the top, otherwise what TypeCheck allows.
Castable(base, to) ==
  \/ {base.kind, to.kind} = {"bool", "int"}
  \/ base.kind = "object" /\ to.kind = "anyobject"
  \/ TypeCheck(base, to, FALSE) /\ to.kind # "function"

\* The end of `expression`: `any` needs an annotation, unless it is inside an option
\* or a function.  Directly under a let, a cast or a member it is not asked for.
Strict(t) == CheckAny(t) => t.kind \in {"option", "function"}

-----------------------------------------------------------------------------
(* Members.  Methods that only read (len, contains, keys, to_string, ...)   *)
(* are left out.                                                           *)

Method(params, ret) == FunctionType(params, ret)

\* Mutated form: every list can be sorted.
ListMembersSorting(inner) ==
  [m \in {"push", "push_front"} |-> Method(<<inner>>, NullType)]
  @@ [m \in {"pop", "pop_front", "last"} |-> Method(<<>>, OptionType(inner))]
  @@ ("sort" :> Method(<<>>, NullType))

ListMembers(inner) ==
  [m \in {"push", "push_front"} |-> Method(<<inner>>, NullType)]
  @@ [m \in {"pop", "pop_front", "last"} |-> Method(<<>>, OptionType(inner))]
  @@ ("insert" :> Method(<<IntType, inner>>, NullType))
  @@ ("remove" :> Method(<<IntType>>, NullType))
  @@ ("concat" :> Method(<<ListType(inner)>>, NullType))
  @@ IF inner.kind \in {"int", "str"} THEN "sort" :> Method(<<>>, NullType) ELSE <<>>

OptionMembers(inner) ==
  ("unwrap" :> Method(<<>>, inner)) @@ ("unwrap_or" :> Method(<<inner>>, inner))

AnyObjectMembers ==
  ("set" :> Method(<<StringType, UnknownType>>, NullType))
  @@ ("get" :> Method(<<StringType>>, OptionType(AnyType)))

Members(t) ==
  CASE t.kind = "list" -> ListMembers(t.inner)
    [] t.kind = "option" -> OptionMembers(t.inner)
    [] t.kind = "anyobject" -> AnyObjectMembers
    [] t.kind = "object" -> t.fields
    [] OTHER -> <<>>

=============================================================================
