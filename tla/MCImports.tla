----------------------------- MODULE MCImports -----------------------------
(***************************************************************************)
(* Instances of Imports: every program of three module names in which a    *)
(* module has at most two import statements.                               *)
(***************************************************************************)
EXTENDS Imports, TLC

ImportLists == {<<>>} \cup [1..1 -> Statement] \cup [1..2 -> Statement]

Code == [kind : {"code"}, imports : ImportLists]
NoCode == [kind : Kinds \ {"code"}, imports : {<<>>}]

MCSources == {s \in [Names -> Code \cup NoCode] : s[Entry].kind = "code"}

\* The names other than the entry module's are interchangeable.
NameSymmetry == Permutations(Names \ {Entry})
=============================================================================
