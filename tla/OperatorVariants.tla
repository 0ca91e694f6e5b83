-------------------------- MODULE OperatorVariants --------------------------
(***************************************************************************)
(* What the semantic fuzzer may make of an expression: its variants are    *)
(* other literals, operators and groupings that are meant to come to the   *)
(* same value.  Where the code chooses one, a set has all.                 *)
(*                                                                         *)
(* The fuzzer rewrites trees and prints them; a script is the text, so it  *)
(* is the tree that the parser finds in it that counts.                    *)
(***************************************************************************)
EXTENDS Expressions

CONSTANT Useless   \* the values added, subtracted or multiplied, and taken back again

Undone == {<<"+", "-">>, <<"-", "+">>, <<"*", "/">>}
Literals(e) ==
  {Group(Infix(op[2], Infix(op[1], e, Number(u)), Number(u))) : op \in Undone, u \in Useless}

\* Mutated: a difference is turned round like a sum.
SumVariantsTurned(e) ==
  {Infix(IF e.op = "+" THEN "-" ELSE "+", e.l, Prefix("-", e.r)), Infix(e.op, e.r, e.l)}

\* a + b and a - -b are the same, and so are a - b and a + -b.
SumVariants(e) ==
  IF e.op = "+" THEN {Infix("-", e.l, Prefix("-", e.r)), Infix("+", e.r, e.l)}
  ELSE {Infix("+", e.l, Prefix("-", e.r))}

\* The product as a loop, which adds the left operand as often as the right one says.
Unrolled(e) ==
  Block(<<Let("lhs_init", e.l), Let("mul_res", Number(0)), Let("mul_count", Number(0)),
          While(Infix("<", Ident("mul_count"), e.r),
                <<Do(Assign("+=", Ident("mul_res"), Ident("lhs_init"))),
                  Do(Assign("+=", Ident("mul_count"), Number(1)))>>)>>,
        Ident("mul_res"))

\* Mutated: the loop is made of initial values of global variables, too.
ProductVariantsAnywhere(e, static) == {Infix("*", e.r, e.l), Unrolled(e)}

\* The initial value of a global variable has to stay constant.
ProductVariants(e, static) ==
  {Infix("*", e.r, e.l)} \cup (IF static THEN {} ELSE {Unrolled(e)})

Negated == [op \in {"==", "!="} |-> IF op = "==" THEN "!=" ELSE "=="]
Reversed == [op \in {"<", ">", "<=", ">="} |->
  CASE op = "<" -> ">" [] op = ">" -> "<" [] op = "<=" -> ">=" [] op = ">=" -> "<="]

RECURSIVE Variants(_, _)

EqualityVariants(e, static) ==
  LET inner == {Group(Infix(Negated[e.op], l, r)) : l \in Variants(e.l, static), r \in Variants(e.r, static)}
  IN  {Prefix("!", g) : g \in inner} \cup {Prefix("!", Group(g)) : g \in inner}

RelationVariants(e, static) ==
  {Infix(Reversed[e.op], l, r) : l \in Variants(e.r, static), r \in Variants(e.l, static)}

InfixVariants(e, static) ==
  CASE e.op \in {"+", "-"} -> SumVariants(e)
    [] e.op = "*" -> ProductVariants(e, static)
    [] e.op \in DOMAIN Negated -> EqualityVariants(e, static)
    [] e.op \in DOMAIN Reversed -> RelationVariants(e, static)
    [] OTHER -> {}

\* An expression is always a variant of itself.
Variants(e, static) ==
  {e} \cup
  CASE e.k = "int" -> Literals(e)
    [] e.k = "bool" -> {Prefix("!", Prefix("!", Group(e)))}
    [] e.k = "group" -> {Group(e), Group(Block(<<>>, e))}
    [] e.k = "infix" -> InfixVariants(e, static)
    [] e.k = "cast" -> {Cast(e, e.t)}
    [] OTHER -> {}
=============================================================================
