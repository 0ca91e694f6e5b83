---------------------------- MODULE Instructions ----------------------------
(***************************************************************************)
(* The values and instructions that Compiler emits and CoreMachine runs.   *)
(* An instruction has an opcode, an integer operand (slot, size of a       *)
(* frame, label or instruction pointer), a function and a value; each      *)
(* opcode uses the operands it needs.                                      *)
(***************************************************************************)
EXTENDS Integers, Sequences

CONSTANTS
  Texts,  \* the strings of a program
  Names   \* its functions and globals

ASSUME TextsAssumption == {"", "true", "false", "item"} \subseteq Texts

\* nil; a string; a Boolean "true"/"false"; an iterator with some items left.
Value(kind, val, left) == [kind |-> kind, val |-> val, left |-> left]
Nil == Value("nil", "", 0)
Str(s) == Value("str", s, 0)
Bool(b) == Value("bool", IF b THEN "true" ELSE "false", 0)
Iter(n) == Value("iter", "", n)

Kinds == {"nil", "str", "bool", "iter"}
Opcodes == {"addmp", "push", "drop", "setvar", "getvar", "setglob", "emit",
            "iterate", "eq", "eqpoponce", "not", "call", "return", "jump",
            "jumpiffalse", "settry", "poptry", "throw"}

Values == [kind : Kinds, val : Texts, left : Int]
Locations == [fn : Names, ip : Nat]
InstructionSet == [op : Opcodes, n : Int, fn : Names, v : Values]

Inst(op, n, fn, v) == [op |-> op, n |-> n, fn |-> fn, v |-> v]
Prim(op) == Inst(op, 0, "", Nil)
IntInst(op, n) == Inst(op, n, "", Nil)
FnInst(op, fn) == Inst(op, 0, fn, Nil)
ValueInst(v) == Inst("push", 0, "", v)
=============================================================================
