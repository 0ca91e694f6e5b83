--------------------------- MODULE MCTypedScripts ---------------------------
(***************************************************************************)
(* Types for TypedScripts, and ways for its scripts to begin.              *)
(***************************************************************************)
EXTENDS TypedScripts

MCAnnotations ==
  {AnyType, IntType, AnyObjectType, ListType(IntType), ListType(AnyType),
   OptionType(IntType), OptionType(AnyType), ObjectType("f" :> IntType)}

MCLiterals == {"0", "none", "[]"}

Lit(op) == [op |-> op]
Var(x) == [op |-> "var", x |-> x]
Of(op, base) == [op |-> op, base |-> base]
Let0(op, base) == LetStatement(Of(op, base), NoAnnotation)
LetAs(op, base, type) == LetStatement(Of(op, base), type)
CallOf(x, method, args) == [op |-> "call", base |-> Var(x), method |-> method, args |-> args]

MCOpenings ==
  {\* let l = [0]; let a: any = l
   <<Let0("[x]", Lit("0")), LetAs("operand", Var(1), AnyType)>>,
   \* let x = 0; let l = [x]; let m: [any] = []
   <<Let0("operand", Lit("0")), Let0("[x]", Var(1)), LetAs("operand", Lit("[]"), ListType(AnyType))>>,
   \* let m: [any] = []; m.push(0); m.push("")
   <<LetAs("operand", Lit("[]"), ListType(AnyType)),
     CallOf(1, "push", <<Lit("0")>>), CallOf(1, "push", <<Lit("str")>>)>>,
   \* let x: ?int = none; let l = [x]
   <<LetAs("operand", Lit("none"), OptionType(IntType)), Let0("[x]", Var(1))>>,
   \* let l = [0]; let o = new {?}; o.set("f", l); let y = o.get("f")
   <<Let0("[x]", Lit("0")), Let0("operand", Lit("new {?}")),
     CallOf(2, "set", <<Lit("str"), Var(1)>>),
     LetStatement(CallOf(2, "get", <<Lit("str")>>), OptionType(AnyType))>>,
   \* let x = 0; let p = new {f: x}; let a: any = p
   <<Let0("operand", Lit("0")), Let0("{f: x}", Var(1)), LetAs("operand", Var(2), AnyType)>>,
   \* let l = [0]; let n = [l]; let a: any = n
   <<Let0("[x]", Lit("0")), Let0("[x]", Var(1)), LetAs("operand", Var(2), AnyType)>>,
   \* let f = function; let a: any = f
   <<Let0("operand", Lit("function")), LetAs("operand", Var(1), AnyType)>>,
   \* let b = true; let a: any = [b]
   <<Let0("operand", Lit("true")), LetAs("[x]", Var(1), AnyType)>>}

=============================================================================
