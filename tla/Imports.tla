------------------------------ MODULE Imports ------------------------------
(***************************************************************************)
(* How the analyzer resolves import statements (homescript/analyzer:       *)
(* analyzeModule, importItem and the search for cycles in importGraph.go). *)
(*                                                                         *)
(* Analysing a module analyses what it imports first, recursively; after   *)
(* every module that was new, importGraphIsCyclic looks for a way back to  *)
(* the module that imported it.  The two recursions are two stacks here:   *)
(* frames, one frame per module under analysis, and search, one frame per  *)
(* call of importGraphIsCyclicInner.                                       *)
(*                                                                         *)
(* The body of a module is left out: the only diagnostics are those of     *)
(* its imports.  Each import statement imports one item, under a name that *)
(* is free, or the template T.  Modules do not define templates, they only *)
(* get them from the host, so a template is the one item that a module can *)
(* give away before its analysis has ended.                                *)
(***************************************************************************)
EXTENDS Naturals, Sequences, FiniteSets

CONSTANTS
  Names,      \* names of modules, the entry module's among them
  Entry,      \* the name the entry module is analysed under
  Sources     \* the programs: what the host and the parser make of each name

\* "code" is parsed, "broken" has a critical syntax error, "builtin" is a module
\* of the host, "absent" is no module at all, for "failing" the host fails.
Kinds == {"code", "broken", "builtin", "absent", "failing"}
Items == {"value", "template"}
Statement == [from : Names, item : Items]
Source == [kind : Kinds, imports : Seq(Statement)]

ASSUME EntryAssumption == Entry \in Names
ASSUME NamesAssumption == IsFiniteSet(Names)
ASSUME SourcesAssumption ==
  \A s \in Sources : s \in [Names -> Source] /\ s[Entry].kind = "code"

VARIABLES
  source,         \* the program
  modules,        \* the keys of Analyzer.modules
  importsModules, \* Module.ImportsModules
  templates,      \* the modules whose map Templates has T
  analyzed,       \* the keys of Analyzer.analyzedModules
  diagnostics,    \* errors: those of Analyzer.diagnostics and .syntaxErrors
  frames,         \* calls of analyzeModule: the module and its next import
  search,         \* calls of importGraphIsCyclicInner: start and next neighbor
  crashed         \* has the search exhausted the stack of the process?

vars == <<source, modules, importsModules, templates, analyzed, diagnostics,
          frames, search, crashed>>

Diagnostic == [kind : {"cyclic", "item", "unresolved", "syntax"}, in : Names,
               path : Seq(Names)]
Frame == [name : Names, next : Nat \ {0}]

TypeOK ==
  /\ source \in Sources
  /\ modules \subseteq Names
  /\ importsModules \in [Names -> Seq(Names)]
  /\ templates \subseteq Names
  /\ analyzed \subseteq modules
  /\ diagnostics \subseteq Diagnostic
  /\ frames \in Seq(Frame)
  /\ search \in Seq(Frame)
  /\ crashed \in BOOLEAN

Imported(m) == {s.from : s \in {source[m].imports[i] : i \in DOMAIN source[m].imports}}

-----------------------------------------------------------------------------
(* The call of analyzeModule for the entry module *)

Init ==
  /\ source \in Sources
  /\ modules = {Entry}
  /\ importsModules = [m \in Names |-> <<>>]
  /\ templates = {}
  /\ analyzed = {}
  /\ diagnostics = {}
  /\ frames = <<[name |-> Entry, next |-> 1]>>
  /\ search = <<>>
  /\ crashed = FALSE

-----------------------------------------------------------------------------
(* importItem *)

Current == frames[Len(frames)].name                    \* currentModuleName
CurrentImports == source[Current].imports
Node == CurrentImports[frames[Len(frames)].next]       \* the statement at hand

AtImport(kinds) ==
  /\ ~crashed
  /\ frames # <<>>
  /\ search = <<>>
  /\ frames[Len(frames)].next \in DOMAIN CurrentImports
  /\ source[Node.from].kind \in kinds

NextImport == frames' = [frames EXCEPT ![Len(frames)].next = @ + 1]

Error(kind, path) == {[kind |-> kind, in |-> Current, path |-> path]}
ErrorIf(failed, kind) == IF failed THEN Error(kind, <<>>) ELSE {}

AddImportsModule ==
  importsModules' = [importsModules EXCEPT ![Current] = Append(@, Node.from)]

\* A template is added to the module's map, found or not; one that is already
\* there is an error.
AddTemplate(found, errors) ==
  /\ templates' = templates \cup {Current}
  /\ diagnostics' =
       diagnostics \cup errors \cup ErrorIf(~found \/ Current \in templates, "item")

\* importDummyFields: the items get the unknown type.
DummyFields(errors) ==
  IF Node.item = "template" THEN AddTemplate(TRUE, errors)
  ELSE templates' = templates /\ diagnostics' = diagnostics \cup errors

\* The loop over ToImport for a module of the program.  A value or type must be
\* there and be pub, and nothing is there before the module's own imports are
\* done; a template only has to be in the map.
TakeItem(errors) ==
  IF Node.item = "template" THEN AddTemplate(Node.from \in templates, errors)
  ELSE /\ templates' = templates
       /\ \E isPub \in BOOLEAN :
            diagnostics' =
              diagnostics \cup errors
                \cup ErrorIf(~isPub \/ Node.from \notin analyzed, "item")

\* The host fails, or knows no module of that name.
ImportUnresolved ==
  /\ AtImport({"failing", "absent"})
  /\ DummyFields(Error("unresolved", <<>>))
  /\ NextImport
  /\ UNCHANGED <<source, modules, importsModules, analyzed, search, crashed>>

\* GetBuiltinImport; an item the module does not have is added as a value.
ImportBuiltin ==
  /\ AtImport({"builtin"})
  /\ \E valueFound \in BOOLEAN :
       IF valueFound THEN DummyFields({})
       ELSE templates' = templates /\ diagnostics' = diagnostics \cup Error("item", <<>>)
  /\ NextImport
  /\ UNCHANGED <<source, modules, importsModules, analyzed, search, crashed>>

ImportBroken ==
  /\ AtImport({"broken"})
  /\ AddImportsModule
  /\ DummyFields(Error("syntax", <<>>))
  /\ NextImport
  /\ UNCHANGED <<source, modules, analyzed, search, crashed>>

\* Mutated: only the import that is new is recorded.
ImportKnownUnrecorded ==
  /\ AtImport({"code"})
  /\ Node.from \in modules
  /\ importsModules' = importsModules
  /\ TakeItem({})
  /\ NextImport
  /\ UNCHANGED <<source, modules, analyzed, search, crashed>>

ImportKnown ==
  /\ AtImport({"code"})
  /\ Node.from \in modules
  /\ AddImportsModule
  /\ TakeItem({})
  /\ NextImport
  /\ UNCHANGED <<source, modules, analyzed, search, crashed>>

\* Mutated: a module is in the map only once it has been analysed.
ImportNewUnregistered ==
  /\ AtImport({"code"})
  /\ Node.from \notin modules
  /\ AddImportsModule
  /\ frames' = Append(frames, [name |-> Node.from, next |-> 1])
  /\ UNCHANGED <<source, modules, templates, analyzed, diagnostics, search, crashed>>

\* The call of analyzeModule; the statement is at hand again when it returns.
ImportNew ==
  /\ AtImport({"code"})
  /\ Node.from \notin modules
  /\ AddImportsModule
  /\ modules' = modules \cup {Node.from}
  /\ frames' = Append(frames, [name |-> Node.from, next |-> 1])
  /\ UNCHANGED <<source, templates, analyzed, diagnostics, search, crashed>>

\* Mutated: no search for cycles.
FinishModuleUnchecked ==
  /\ ~crashed
  /\ frames # <<>>
  /\ frames[Len(frames)].next > Len(CurrentImports)
  /\ analyzed' = analyzed \cup {Current}
  /\ frames' = SubSeq(frames, 1, Len(frames) - 1)
  /\ UNCHANGED <<source, modules, importsModules, templates, diagnostics, search,
                 crashed>>

\* The body of the module, after its imports; if it was imported, the importer
\* goes on with importGraphIsCyclic(currentModuleName).
FinishModule ==
  /\ ~crashed
  /\ frames # <<>>
  /\ search = <<>>
  /\ frames[Len(frames)].next > Len(CurrentImports)
  /\ analyzed' = analyzed \cup {Current}
  /\ frames' = SubSeq(frames, 1, Len(frames) - 1)
  /\ search' = IF Len(frames) = 1 THEN <<>>
               ELSE <<[name |-> frames[Len(frames) - 1].name, next |-> 1]>>
  /\ UNCHANGED <<source, modules, importsModules, templates, diagnostics, crashed>>

-----------------------------------------------------------------------------
(* importGraphIsCyclicInner *)

Start == search[Len(search)].name
OriginalStart == search[1].name
Neighbors == IF Start \in modules THEN importsModules[Start] ELSE <<>>
Neighbor == Neighbors[search[Len(search)].next]

Searching == ~crashed /\ search # <<>>
HasNeighbor == search[Len(search)].next \in DOMAIN Neighbors

\* A search that keeps no set of visited modules and is deeper than there are
\* modules is in a cycle that it never leaves: the stack of the process grows
\* until it is exhausted.
SearchDepthMax == Cardinality(Names)

Path == [i \in 1..Len(search) |-> search[i].name]

\* Mutated: the search stops at any module it has come through.
SearchFoundOnPath ==
  /\ Searching
  /\ HasNeighbor
  /\ \E i \in DOMAIN Path : Path[i] = Neighbor
  /\ search' = <<>>
  /\ TakeItem(Error("cyclic", Append(Path, Neighbor)))
  /\ NextImport
  /\ UNCHANGED <<source, modules, importsModules, analyzed, crashed>>

SearchFound ==
  /\ Searching
  /\ HasNeighbor
  /\ Neighbor = OriginalStart
  /\ search' = <<>>
  /\ TakeItem(Error("cyclic", Append(Path, Neighbor)))
  /\ NextImport
  /\ UNCHANGED <<source, modules, importsModules, analyzed, crashed>>

SearchDeeper ==
  /\ Searching
  /\ HasNeighbor
  /\ Neighbor # OriginalStart
  /\ Len(search) < SearchDepthMax
  /\ search' = Append([search EXCEPT ![Len(search)].next = @ + 1],
                      [name |-> Neighbor, next |-> 1])
  /\ UNCHANGED <<source, modules, importsModules, templates, analyzed, diagnostics,
                 frames, crashed>>

SearchOverflow ==
  /\ Searching
  /\ HasNeighbor
  /\ Neighbor # OriginalStart
  /\ Len(search) = SearchDepthMax
  /\ crashed' = TRUE
  /\ UNCHANGED <<source, modules, importsModules, templates, analyzed, diagnostics,
                 frames, search>>

SearchReturns ==
  /\ Searching
  /\ ~HasNeighbor
  /\ Len(search) > 1
  /\ search' = SubSeq(search, 1, Len(search) - 1)
  /\ UNCHANGED <<source, modules, importsModules, templates, analyzed, diagnostics,
                 frames, crashed>>

SearchFails ==
  /\ Searching
  /\ ~HasNeighbor
  /\ Len(search) = 1
  /\ search' = <<>>
  /\ TakeItem({})
  /\ NextImport
  /\ UNCHANGED <<source, modules, importsModules, analyzed, crashed>>

-----------------------------------------------------------------------------

Next ==
  \/ ImportUnresolved \/ ImportBuiltin \/ ImportBroken \/ ImportKnown
  \/ ImportNew \/ FinishModule
  \/ SearchFound \/ SearchDeeper \/ SearchOverflow \/ SearchReturns \/ SearchFails

Spec == Init /\ [][Next]_vars

-----------------------------------------------------------------------------
(* Properties *)

Done == frames = <<>> /\ ~crashed

\* A program without errors has no cyclic imports, not even a module that
\* imports itself: every set of analysed modules has one that needs none of the
\* set, so there is an order in which each module comes after what it imports.
\* The cycle check reports only some cycles (topLevel.go:389-400), the checks of
\* the items (topLevel.go:406-533) must catch the rest.
AcceptedIsAcyclic ==
  Done /\ diagnostics = {} =>
    \A S \in (SUBSET analyzed) \ {{}} : \E m \in S : Imported(m) \cap S = {}

\* When the analysis ends, modules that import each other in a circle have been
\* reported as such (topLevel.go:395), wherever in the program the circle is and
\* whichever of its modules is imported first.
CyclesDiagnosed ==
  Done /\ (\E S \in (SUBSET analyzed) \ {{}} :
             \A m \in S : (Imported(m) \ {m}) \cap S # {})
    => \E d \in diagnostics : d.kind = "cyclic"

\* The path in the message of a cyclic import (topLevel.go:394) leads from the
\* importing module along import statements of the program back to it.
CyclePathsAreReal ==
  \A d \in diagnostics : d.kind = "cyclic" =>
    /\ Len(d.path) > 1
    /\ d.path[1] = d.in
    /\ d.path[Len(d.path)] = d.in
    /\ \A i \in 1..(Len(d.path) - 1) : d.path[i + 1] \in Imported(d.path[i])

\* A cyclic import is an error with a message (topLevel.go:392-400): looking for
\* it ends.
SearchEnds == ~crashed
=============================================================================
