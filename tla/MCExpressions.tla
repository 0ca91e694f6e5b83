--------------------------- MODULE MCExpressions ---------------------------
(***************************************************************************)
(* Small expressions as somebody may write them, and the memories they are *)
(* evaluated in.                                                           *)
(***************************************************************************)
EXTENDS FuzzedExpressions

x == Ident("x")
y == Ident("y")
g == Ident("g")
b == Ident("b")
l == Ident("l")
Host(args) == Call(Ident("host"), args)

Arith == {"|", "^", "&", "<<", ">>", "+", "-", "*", "/", "%", "**"}
Relations == {"==", "!=", "<", ">", "<=", ">="}
Sums == {"+", "-", "*", "/", "**"}

\* Two operators next to each other, with and without parentheses.
Two(ops1, ops2) ==
  UNION {{Infix(o, Infix(p, x, y), g), Infix(p, x, Infix(o, y, g)),
          Infix(o, Group(Infix(p, x, y)), g), Infix(p, x, Group(Infix(o, y, g)))} :
         p \in ops1, o \in ops2}

Compared ==
  UNION {{Infix(o, Infix(p, x, y), g), Infix(o, x, Infix(p, y, g)), Infix("==", Infix(o, x, y), b),
          Infix(o, Group(Infix(p, y, x)), Number(1))} :
         p \in Sums, o \in Relations}

Signed ==
  UNION {{Infix(o, Prefix(s, x), y), Infix(o, x, Prefix(s, y)), Prefix(s, Group(Infix(o, x, y))),
          Infix(o, Prefix(s, Cast(b, "int")), x), Cast(Infix(o, x, Cast(b, "int")), "bool"),
          Infix(o, Cast(b, "int"), y)} :
         o \in Arith, s \in PrefixOps}

\* What a short circuit guards fails without it.
Guarded ==
  {Infix(s, Infix(o, x, Number(0)), Infix(q, Infix("/", y, x), g)) :
     s \in ShortCircuit, o \in {"==", "!="}, q \in Relations}
  \cup {Infix(s, Infix(o, Truth(t), b), Prefix("!", b)) :
     s \in ShortCircuit, t \in BOOLEAN, o \in {"==", "|", "^"}}

\* Calls, lists and assignments.
Effects ==
  {Infix(o, Host(<<e, Infix("-", x, y)>>), Index(List(<<x, f, Number(1)>>), x)) :
     o \in {"-", "<<", "=="}, e \in {x, Number(1)}, f \in {Infix("/", x, y), Host(<<y>>)}}
  \cup {Block(<<Do(Assign(a, p, e))>>, q) :
     a \in AssignOps, p \in {x, g, Index(l, Number(0)), Index(l, y)}, e \in {y, Infix("-", g, x)},
     q \in {x, l, Infix("-", Index(l, Prefix("-", Number(1))), g)}}
  \cup {Block(<<Let("z", e), Do(Assign(a, Ident("z"), Infix("*", x, Ident("z"))))>>,
              Infix("-", Ident("z"), x)) :
     a \in AssignOps, e \in {Number(2), Infix("+", y, g), Host(<<y>>)}}

\* Operands, arguments and elements of which one changes what another is made of.
Entangled ==
  LET changed == Block(<<Do(Assign("=", x, y))>>, g) IN
  {Host(<<x, changed>>), Infix("-", x, changed), Index(List(<<x, changed>>), Number(0)),
   Host(<<Infix("/", y, x), Index(l, y)>>), Infix("-", Host(<<x>>), Host(<<y>>)),
   Block(<<Let("z", List(<<x, y>>)), Do(Assign("=", x, g))>>, Ident("z")),
   Block(<<Let("z", Index(l, Number(0))), Do(Assign("=", Index(l, Number(0)), y))>>, Ident("z"))}

\* Calls, indices, members and casts of operands, ranges and assignments of them.
Postfixes ==
  LET p == Member(Index(Host(<<x, y>>), Infix("-", y, g)), "m") IN
  UNION {{Prefix(s, p), Infix(o, p, Cast(Cast(x, "int"), "int")), Infix(o, Prefix(s, x), p),
          RangeOf(Infix(o, x, y), p), RangeOf(Group(Infix(o, x, y)), Infix(o, g, p)),
          RangeOf(x, Prefix(s, p)), Call(Group(Infix(o, p, x)), <<RangeOf(x, y)>>),
          Assign(a, p, Infix(o, x, Call(p, <<>>))), Assign(a, x, Assign(a, p, y))} :
         s \in PrefixOps, o \in {"||", "==", "-", "**"}, a \in {"=", "**="}}

Constants ==
  {Infix(o, Number(3), Number(2)) : o \in Arith \cup Relations}
  \cup {Infix(o, Infix("*", Number(2), Number(1)), Group(Number(3))) : o \in Relations}
  \cup {Truth(TRUE), Number(1), Group(Infix("*", Number(2), Number(3)))}

MCScripts ==
  Two(Arith, Arith) \cup Compared \cup Signed \cup Guarded \cup Effects \cup Entangled \cup Postfixes
  \cup Constants

\* Two variables, a global one, a truth value that goes with y, and a list.
MCMemories ==
  {[heap |-> <<Number(i), Number(j), Number(2), Truth(j > 0), List(<<6, 7>>), Number(3), Number(i)>>,
    env |-> [v \in {"x", "y", "g", "b", "l"} |->
      CASE v = "x" -> 1 [] v = "y" -> 2 [] v = "g" -> 3 [] v = "b" -> 4 [] v = "l" -> 5]] :
   i \in {-3, 0, 2}, j \in {-1, 0, 3}}

MCUseless == {2, 3}
MCGlobals == {"g"}
=============================================================================
