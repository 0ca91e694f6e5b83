--------------------------- MODULE Imports_proof ---------------------------
(***************************************************************************)
(* Theorems about Imports, for every set of modules and every program: the *)
(* types; that the path of a cyclic import error is a cycle; and that when *)
(* the analysis ends, cycles of imports have been reported, and a program  *)
(* without errors has none.                                                *)
(***************************************************************************)
EXTENDS Imports, TLAPS

USE EntryAssumption, SourcesAssumption

-----------------------------------------------------------------------------
(* The inductive invariant.                                                *)

\* Modules under analysis are in the map of modules.
FramesKnown == \A i \in DOMAIN frames : frames[i].name \in modules

\* A search runs on behalf of the module that is being analysed.
SearchRooted == search # <<>> => frames # <<>> /\ search[1].name = Current

\* What importGraphIsCyclic takes for edges are import statements.
EdgesReal == \A m \in Names : \A i \in DOMAIN importsModules[m] :
               importsModules[m][i] \in Imported(m)

\* The calls of importGraphIsCyclicInner follow such edges.
SearchIsPath == \A i \in 1..(Len(search) - 1) :
                  search[i + 1].name \in Imported(search[i].name)

TypeInv == TypeOK /\ FramesKnown

ImportInv == TypeInv /\ SearchRooted /\ EdgesReal /\ SearchIsPath /\ CyclePathsAreReal

-----------------------------------------------------------------------------
(* Lemmas                                                                  *)

LEMMA CurrentType ==
  ASSUME TypeInv, frames # <<>>
  PROVE  /\ Len(frames) \in DOMAIN frames
         /\ Current \in Names
         /\ Current \in modules
         /\ CurrentImports \in Seq(Statement)
BY DEF TypeInv, TypeOK, FramesKnown, Current, CurrentImports, Frame, Source

LEMMA NodeType ==
  ASSUME TypeInv, NEW kinds, AtImport(kinds)
  PROVE  /\ frames # <<>>
         /\ Node.from \in Names
         /\ Node.from \in Imported(Current)
<1>1. frames # <<>> /\ frames[Len(frames)].next \in DOMAIN CurrentImports
  BY DEF AtImport
<1>2. CurrentImports \in Seq(Statement)
  BY <1>1, CurrentType
<1>3. Node \in Statement
  BY <1>1, <1>2 DEF Node
<1>4. QED
  BY <1>1, <1>3 DEF Statement, Imported, Node, CurrentImports

LEMMA NextImportType ==
  ASSUME TypeInv, frames # <<>>, NextImport
  PROVE  /\ frames' \in Seq(Frame)
         /\ Len(frames') = Len(frames)
         /\ frames' # <<>>
         /\ \A i \in DOMAIN frames' : frames'[i].name = frames[i].name
<1> DEFINE n == Len(frames)
           f == [frames[n] EXCEPT !.next = @ + 1]
<1>1. frames \in Seq(Frame) /\ n \in 1..Len(frames)
  BY DEF TypeInv, TypeOK
<1>2. frames[n] \in Frame
  BY <1>1
<1>3. f \in Frame /\ f.name = frames[n].name
  BY <1>2 DEF Frame
<1>4. frames' = [frames EXCEPT ![n] = f]
  BY DEF NextImport
<1> HIDE DEF f, n
<1>5. QED
  BY <1>1, <1>3, <1>4

LEMMA ErrorType ==
  ASSUME TypeInv, frames # <<>>, NEW path \in Seq(Names),
         NEW kind \in {"cyclic", "item", "unresolved", "syntax"}
  PROVE  Error(kind, path) \subseteq Diagnostic
BY CurrentType DEF Error, Diagnostic

\* What an import statement changes, whatever its item.
ItemTaken(errors) ==
  /\ templates' \subseteq Names
  /\ diagnostics' \subseteq Diagnostic
  /\ \A d \in diagnostics' : d \in diagnostics \cup errors \/ d.kind # "cyclic"

LEMMA ItemTakenIf ==
  ASSUME TypeInv, frames # <<>>, NEW errors \in SUBSET Diagnostic,
         templates' \subseteq templates \cup {Current},
         diagnostics' \subseteq diagnostics \cup errors \cup Error("item", <<>>)
  PROVE  ItemTaken(errors)
<1>1. <<>> \in Seq(Names)
  OBVIOUS
<1>2. Error("item", <<>>) \subseteq Diagnostic
  BY <1>1, ErrorType
<1>3. \A d \in Error("item", <<>>) : d.kind # "cyclic"
  BY DEF Error
<1>4. QED
  BY <1>2, <1>3, CurrentType DEF ItemTaken, TypeInv, TypeOK

LEMMA DummyTaken ==
  ASSUME TypeInv, frames # <<>>, NEW errors \in SUBSET Diagnostic,
         DummyFields(errors)
  PROVE  ItemTaken(errors)
<1>1. /\ templates' \subseteq templates \cup {Current}
      /\ diagnostics' \subseteq diagnostics \cup errors \cup Error("item", <<>>)
  BY DEF DummyFields, AddTemplate, ErrorIf
<1>2. QED
  BY <1>1, ItemTakenIf

LEMMA ItemIsTaken ==
  ASSUME TypeInv, frames # <<>>, NEW errors \in SUBSET Diagnostic,
         TakeItem(errors)
  PROVE  ItemTaken(errors)
<1>1. /\ templates' \subseteq templates \cup {Current}
      /\ diagnostics' \subseteq diagnostics \cup errors \cup Error("item", <<>>)
  BY DEF TakeItem, AddTemplate, ErrorIf
<1>2. QED
  BY <1>1, ItemTakenIf

LEMMA AddImportsModuleType ==
  ASSUME TypeInv, NEW kinds, AtImport(kinds), AddImportsModule
  PROVE  /\ importsModules' \in [Names -> Seq(Names)]
         /\ source' = source /\ EdgesReal => EdgesReal'
<1>1. Current \in Names /\ Node.from \in Names /\ Node.from \in Imported(Current)
  BY NodeType, CurrentType
<1>2. importsModules \in [Names -> Seq(Names)]
  BY DEF TypeInv, TypeOK
<1>3. importsModules' \in [Names -> Seq(Names)]
  BY <1>1, <1>2 DEF AddImportsModule
<1>4. ASSUME source' = source, EdgesReal, NEW m \in Names,
             NEW i \in DOMAIN importsModules'[m]
      PROVE  importsModules'[m][i] \in Imported(m)'
  <2>1. Imported(m)' = Imported(m)
    BY <1>4 DEF Imported
  <2>2. CASE m # Current
    BY <1>2, <1>4, <2>1, <2>2 DEF AddImportsModule, EdgesReal
  <2>3. CASE m = Current
    <3>1. importsModules'[m] = Append(importsModules[m], Node.from)
      BY <1>1, <1>2, <2>3 DEF AddImportsModule
    <3>2. importsModules[m] \in Seq(Names)
      BY <1>2
    <3>3. CASE i = Len(importsModules[m]) + 1
      BY <1>1, <2>1, <2>3, <3>1, <3>2, <3>3
    <3>4. CASE i \in DOMAIN importsModules[m]
      BY <1>4, <2>1, <3>1, <3>2, <3>4 DEF EdgesReal
    <3>5. QED
      BY <1>1, <1>4, <3>1, <3>2, <3>3, <3>4
  <2>4. QED
    BY <2>2, <2>3
<1>5. QED
  BY <1>3, <1>4 DEF EdgesReal

-----------------------------------------------------------------------------
(* The steps                                                               *)

LEMMA InitImportInv == Init => ImportInv
<1> SUFFICES ASSUME Init
             PROVE  ImportInv
  OBVIOUS
<1>1. frames \in Seq(Frame) /\ search \in Seq(Frame)
  BY DEF Init, Frame
<1>2. importsModules \in [Names -> Seq(Names)]
  BY DEF Init
<1>3. TypeOK
  BY <1>1, <1>2 DEF Init, TypeOK
<1>4. FramesKnown
  BY DEF Init, FramesKnown
<1>5. QED
  BY <1>3, <1>4 DEF Init, TypeInv, ImportInv, SearchRooted, EdgesReal, SearchIsPath,
              CyclePathsAreReal

\* A diagnostic whose path, if it is a cyclic import, is a cycle.
CyclePathIsReal(d) ==
  d.kind = "cyclic" =>
    /\ Len(d.path) > 1
    /\ d.path[1] = d.in
    /\ d.path[Len(d.path)] = d.in
    /\ \A i \in 1..(Len(d.path) - 1) : d.path[i + 1] \in Imported(d.path[i])

\* Every step that is done with the statement at hand.
LEMMA StatementStep ==
  ASSUME ImportInv, frames # <<>>, search' = <<>>, NextImport,
         NEW errors \in SUBSET Diagnostic, ItemTaken(errors),
         \A d \in errors : CyclePathIsReal(d),
         importsModules' \in [Names -> Seq(Names)], EdgesReal',
         UNCHANGED <<source, modules, analyzed, crashed>>
  PROVE  ImportInv'
<1> USE DEF ImportInv
<1>0. /\ frames' \in Seq(Frame)
      /\ Len(frames') = Len(frames)
      /\ \A i \in DOMAIN frames' : frames'[i].name = frames[i].name
  BY NextImportType
<1>1. TypeInv'
  <2>1. TypeOK'
    BY <1>0 DEF TypeInv, TypeOK, ItemTaken
  <2>2. DOMAIN frames' = DOMAIN frames
    BY <1>0 DEF TypeInv, TypeOK
  <2>3. FramesKnown'
    BY <1>0, <2>2 DEF TypeInv, FramesKnown
  <2>4. QED
    BY <2>1, <2>3 DEF TypeInv
<1>2. \A m : Imported(m)' = Imported(m)
  BY DEF Imported
<1>3. CyclePathsAreReal'
  BY <1>2 DEF CyclePathsAreReal, CyclePathIsReal, ItemTaken
<1>4. QED
  BY <1>1, <1>3 DEF SearchRooted, SearchIsPath

LEMMA ImportStep ==
  ASSUME ImportInv,
         ImportUnresolved \/ ImportBuiltin \/ ImportBroken \/ ImportKnown
  PROVE  ImportInv'
<1> DEFINE Harmless(errors) ==
             errors \in SUBSET Diagnostic /\ \A d \in errors : CyclePathIsReal(d)
<1>1. TypeInv /\ EdgesReal
  BY DEF ImportInv
<1>2. /\ frames # <<>> => Harmless(Error("unresolved", <<>>))
      /\ frames # <<>> => Harmless(Error("syntax", <<>>))
      /\ frames # <<>> => Harmless(Error("item", <<>>))
      /\ Harmless({})
  <2>1. <<>> \in Seq(Names)
    OBVIOUS
  <2>2. ASSUME NEW kind \in {"unresolved", "syntax", "item"}, frames # <<>>
        PROVE  Harmless(Error(kind, <<>>))
    <3>1. Error(kind, <<>>) \in SUBSET Diagnostic
      BY <1>1, <2>1, <2>2, ErrorType
    <3>2. \A d \in Error(kind, <<>>) : d.kind # "cyclic"
      BY <2>2 DEF Error
    <3>3. QED
      BY <3>1, <3>2 DEF CyclePathIsReal
  <2>3. QED
    BY <2>2
<1> HIDE DEF Harmless
<1>3. ASSUME search = <<>>, NEW errors, Harmless(errors), ItemTaken(errors),
             frames # <<>>, NextImport,
             UNCHANGED <<source, modules, analyzed, search, crashed>>,
             importsModules' \in [Names -> Seq(Names)], EdgesReal'
      PROVE  ImportInv'
  BY <1>3, StatementStep DEF Harmless
<1>4. importsModules' = importsModules /\ source' = source =>
        importsModules' \in [Names -> Seq(Names)] /\ EdgesReal'
  BY <1>1 DEF TypeInv, TypeOK, EdgesReal, Imported
<1>5. CASE ImportUnresolved
  <2>1. frames # <<>> /\ search = <<>>
    BY <1>5 DEF ImportUnresolved, AtImport
  <2>2. ItemTaken(Error("unresolved", <<>>))
    BY <1>1, <1>2, <1>5, <2>1, DummyTaken DEF ImportUnresolved, Harmless
  <2>3. QED
    BY <1>2, <1>3, <1>4, <1>5, <2>1, <2>2 DEF ImportUnresolved
<1>6. CASE ImportBuiltin
  <2>1. frames # <<>> /\ search = <<>>
    BY <1>6 DEF ImportBuiltin, AtImport
  <2>2. CASE DummyFields({})
    <3>1. ItemTaken({})
      BY <1>1, <1>2, <2>1, <2>2, DummyTaken DEF Harmless
    <3>2. QED
      BY <1>2, <1>3, <1>4, <1>6, <2>1, <3>1 DEF ImportBuiltin
  <2>3. CASE templates' = templates /\ diagnostics' = diagnostics \cup Error("item", <<>>)
    <3>1. ItemTaken({})
      BY <1>1, <1>2, <2>1, <2>3, ItemTakenIf DEF Harmless
    <3>2. QED
      BY <1>2, <1>3, <1>4, <1>6, <2>1, <3>1 DEF ImportBuiltin
  <2>4. QED
    BY <1>6, <2>2, <2>3 DEF ImportBuiltin
<1>7. CASE ImportBroken
  <2>1. frames # <<>> /\ search = <<>> /\ source' = source
    BY <1>7 DEF ImportBroken, AtImport
  <2>2. ItemTaken(Error("syntax", <<>>))
    BY <1>1, <1>2, <1>7, <2>1, DummyTaken DEF ImportBroken, Harmless
  <2>3. importsModules' \in [Names -> Seq(Names)] /\ EdgesReal'
    BY <1>1, <1>7, <2>1, AddImportsModuleType DEF ImportBroken
  <2>4. QED
    BY <1>2, <1>3, <1>7, <2>1, <2>2, <2>3 DEF ImportBroken
<1>8. CASE ImportKnown
  <2>1. frames # <<>> /\ search = <<>> /\ source' = source
    BY <1>8 DEF ImportKnown, AtImport
  <2>2. ItemTaken({})
    BY <1>1, <1>2, <1>8, <2>1, ItemIsTaken DEF ImportKnown, Harmless
  <2>3. importsModules' \in [Names -> Seq(Names)] /\ EdgesReal'
    BY <1>1, <1>8, <2>1, AddImportsModuleType DEF ImportKnown
  <2>4. QED
    BY <1>2, <1>3, <1>8, <2>1, <2>2, <2>3 DEF ImportKnown
<1>9. QED
  BY <1>5, <1>6, <1>7, <1>8

\* Steps that report nothing leave the paths of the messages as they are.
LEMMA QuietPaths ==
  ASSUME ImportInv, diagnostics' = diagnostics, source' = source
  PROVE  CyclePathsAreReal'
<1>1. \A m : Imported(m)' = Imported(m)
  BY DEF Imported
<1>2. QED
  BY <1>1 DEF ImportInv, CyclePathsAreReal

LEMMA ImportNewStep == ImportInv /\ ImportNew => ImportInv'
<1> SUFFICES ASSUME ImportInv, ImportNew
             PROVE  ImportInv'
  OBVIOUS
<1>1. TypeInv /\ EdgesReal /\ frames # <<>> /\ search = <<>> /\ Node.from \in Names
  BY NodeType DEF ImportInv, ImportNew, AtImport
<1>2. importsModules' \in [Names -> Seq(Names)] /\ EdgesReal'
  BY <1>1, AddImportsModuleType DEF ImportNew
<1> DEFINE new == [name |-> Node.from, next |-> 1]
<1>3. new \in Frame /\ new.name = Node.from
  BY <1>1 DEF Frame
<1> HIDE DEF new
<1>4. frames \in Seq(Frame) /\ frames' = Append(frames, new)
  BY <1>1 DEF ImportNew, TypeInv, TypeOK, new
<1>5. TypeOK'
  BY <1>1, <1>2, <1>3, <1>4 DEF ImportNew, TypeInv, TypeOK
<1>6. FramesKnown'
  <2>1. ASSUME NEW i \in DOMAIN frames'
        PROVE  frames'[i].name \in modules'
    <3>1. (i \in DOMAIN frames /\ frames'[i] = frames[i]) \/ frames'[i] = new
      BY <1>3, <1>4
    <3>2. QED
      BY <1>1, <1>3, <3>1 DEF TypeInv, FramesKnown, ImportNew
  <2>2. QED
    BY <2>1 DEF FramesKnown
<1>7. CyclePathsAreReal'
  BY QuietPaths DEF ImportNew
<1>8. QED
  BY <1>1, <1>2, <1>5, <1>6, <1>7
  DEF ImportNew, ImportInv, TypeInv, SearchRooted, SearchIsPath

LEMMA FinishModuleStep == ImportInv /\ FinishModule => ImportInv'
<1> SUFFICES ASSUME ImportInv, FinishModule
             PROVE  ImportInv'
  OBVIOUS
<1> DEFINE n == Len(frames)
<1>1. /\ TypeInv /\ EdgesReal /\ frames # <<>> /\ frames \in Seq(Frame)
      /\ n \in Nat /\ n >= 1
  BY DEF ImportInv, FinishModule, TypeInv, TypeOK
<1>2. frames' \in Seq(Frame) /\ Len(frames') = n - 1
  BY <1>1 DEF FinishModule
<1>3. \A i \in DOMAIN frames' : i \in DOMAIN frames /\ frames'[i] = frames[i]
  BY <1>1 DEF FinishModule
<1>4. search' \in Seq(Frame) /\ SearchIsPath'
  <2>1. CASE n = 1
    BY <2>1 DEF FinishModule, SearchIsPath
  <2>2. CASE n # 1
    <3>1. n \in Nat /\ n > 1
      <4>1. n \in Nat /\ n >= 1 /\ n # 1
        BY <1>1, <2>2
      <4> HIDE DEF n
      <4>2. QED
        BY <4>1
    <3> DEFINE call == [name |-> frames[n - 1].name, next |-> 1]
    <3>2. frames[n - 1] \in Frame
      BY <1>1, <3>1
    <3>3. call \in Frame
      BY <3>2 DEF Frame
    <3>4. search' = <<call>>
      BY <2>2 DEF FinishModule
    <3> HIDE DEF call
    <3>5. QED
      BY <3>3, <3>4 DEF SearchIsPath
  <2>3. QED
    BY <2>1, <2>2
<1>5. TypeOK'
  BY <1>1, <1>2, <1>4, CurrentType DEF FinishModule, TypeInv, TypeOK
<1>6. FramesKnown'
  BY <1>1, <1>3 DEF TypeInv, FramesKnown, FinishModule
<1>7. SearchRooted'
  <2>1. CASE n = 1
    BY <2>1 DEF FinishModule, SearchRooted
  <2>2. CASE n # 1
    <3>1. n - 1 \in DOMAIN frames' /\ frames' # <<>>
      BY <1>1, <1>2, <2>2
    <3>2. Current' = frames[n - 1].name
      BY <1>2, <1>3, <3>1 DEF Current
    <3>3. search'[1].name = frames[n - 1].name
      BY <2>2 DEF FinishModule
    <3>4. QED
      BY <3>1, <3>2, <3>3 DEF SearchRooted
  <2>3. QED
    BY <2>1, <2>2
<1>8. EdgesReal' /\ CyclePathsAreReal'
  BY <1>1, QuietPaths DEF FinishModule, EdgesReal, Imported
<1>9. QED
  BY <1>4, <1>5, <1>6, <1>7, <1>8 DEF ImportInv, TypeInv

LEMMA NeighborType ==
  ASSUME ImportInv, Searching, HasNeighbor
  PROVE  /\ Len(search) \in Nat \ {0}
         /\ Neighbor \in Names
         /\ Neighbor \in Imported(search[Len(search)].name)
<1>1. search \in Seq(Frame) /\ search # <<>> /\ importsModules \in [Names -> Seq(Names)]
  BY DEF ImportInv, TypeInv, TypeOK, Searching
<1>2. Len(search) \in Nat \ {0} /\ search[Len(search)] \in Frame
  BY <1>1
<1>3. Start \in Names /\ Start = search[Len(search)].name
  BY <1>2 DEF Start, Frame
<1>4. Neighbors = importsModules[Start]
  BY DEF HasNeighbor, Neighbors
<1>5. QED
  BY <1>1, <1>2, <1>3, <1>4 DEF ImportInv, EdgesReal, HasNeighbor, Neighbor

LEMMA SearchFoundStep == ImportInv /\ SearchFound => ImportInv'
<1> SUFFICES ASSUME ImportInv, SearchFound
             PROVE  ImportInv'
  OBVIOUS
<1> DEFINE n == Len(search)
           path == Append(Path, Neighbor)
<1>1. Searching /\ HasNeighbor /\ Neighbor = OriginalStart
  BY DEF SearchFound
<1>2. n \in Nat \ {0} /\ Neighbor \in Names /\ Neighbor \in Imported(search[n].name)
  BY <1>1, NeighborType
<1>3. search \in Seq(Frame) /\ search # <<>> /\ frames # <<>> /\ TypeInv
  BY <1>1 DEF ImportInv, TypeInv, TypeOK, SearchRooted, Searching
<1>4. Path \in Seq(Names) /\ Len(Path) = n /\ \A i \in 1..n : Path[i] = search[i].name
  <2>1. \A i \in 1..n : search[i] \in Frame
    BY <1>3
  <2>2. \A i \in 1..n : search[i].name \in Names
    BY <2>1 DEF Frame
  <2>3. QED
    BY <1>2, <2>2 DEF Path
<1>5. /\ path \in Seq(Names) /\ Len(path) = n + 1
      /\ path[n + 1] = Neighbor
      /\ \A i \in 1..n : path[i] = search[i].name
  BY <1>2, <1>4
<1> HIDE DEF path
<1>6. path[1] = Current /\ path[n + 1] = Current
  BY <1>1, <1>2, <1>3, <1>5 DEF ImportInv, SearchRooted, OriginalStart
<1>7. ASSUME NEW i \in 1..n
      PROVE  path[i + 1] \in Imported(path[i])
  <2>1. CASE i = n
    BY <1>2, <1>5, <2>1
  <2>2. CASE i # n
    BY <1>2, <1>5, <2>2 DEF ImportInv, SearchIsPath
  <2>3. QED
    BY <2>1, <2>2
<1>8. /\ Error("cyclic", path) \in SUBSET Diagnostic
      /\ \A d \in Error("cyclic", path) : CyclePathIsReal(d)
  <2>1. Error("cyclic", path) \in SUBSET Diagnostic
    BY <1>3, <1>5, ErrorType
  <2>2. ASSUME NEW d \in Error("cyclic", path)
        PROVE  CyclePathIsReal(d)
    <3>1. d.path = path /\ d.in = Current
      BY DEF Error
    <3>2. QED
      BY <1>2, <1>5, <1>6, <1>7, <3>1 DEF CyclePathIsReal
  <2>3. QED
    BY <2>1, <2>2
<1>9. TakeItem(Error("cyclic", path))
  BY DEF SearchFound, path
<1>10. ItemTaken(Error("cyclic", path))
  BY <1>3, <1>8, <1>9, ItemIsTaken
<1>11. importsModules' \in [Names -> Seq(Names)] /\ EdgesReal'
  BY <1>3 DEF SearchFound, ImportInv, TypeInv, TypeOK, EdgesReal, Imported
<1>12. QED
  BY <1>3, <1>8, <1>10, <1>11, StatementStep DEF SearchFound

LEMMA SearchFailsStep == ImportInv /\ SearchFails => ImportInv'
<1> SUFFICES ASSUME ImportInv, SearchFails
             PROVE  ImportInv'
  OBVIOUS
<1>1. frames # <<>> /\ TypeInv
  BY DEF ImportInv, SearchFails, SearchRooted, Searching
<1>2. {} \in SUBSET Diagnostic
  OBVIOUS
<1>3. ItemTaken({})
  BY <1>1, <1>2, ItemIsTaken DEF SearchFails
<1>4. importsModules' \in [Names -> Seq(Names)] /\ EdgesReal'
  BY <1>1 DEF SearchFails, ImportInv, TypeInv, TypeOK, EdgesReal, Imported
<1>5. QED
  BY <1>1, <1>2, <1>3, <1>4, StatementStep DEF SearchFails

\* Steps of the search that only change the search.
LEMMA SearchStep ==
  ASSUME ImportInv, search' \in Seq(Frame), search' # <<>>, frames # <<>>,
         search'[1].name = search[1].name, search # <<>>, SearchIsPath',
         crashed' \in BOOLEAN,
         UNCHANGED <<source, modules, importsModules, templates, analyzed,
                     diagnostics, frames>>
  PROVE  ImportInv'
<1>1. TypeInv'
  BY DEF ImportInv, TypeInv, TypeOK, FramesKnown
<1>2. SearchRooted' /\ EdgesReal'
  BY DEF ImportInv, SearchRooted, EdgesReal, Imported, Current
<1>3. QED
  BY <1>1, <1>2, QuietPaths DEF ImportInv

LEMMA SearchDeeperStep == ImportInv /\ SearchDeeper => ImportInv'
<1> SUFFICES ASSUME ImportInv, SearchDeeper
             PROVE  ImportInv'
  OBVIOUS
<1> DEFINE n == Len(search)
           top == [search[n] EXCEPT !.next = @ + 1]
           rest == [search EXCEPT ![n] = top]
           call == [name |-> Neighbor, next |-> 1]
<1>1. n \in Nat \ {0} /\ Neighbor \in Names /\ Neighbor \in Imported(search[n].name)
  BY NeighborType DEF SearchDeeper
<1>2. search \in Seq(Frame) /\ search # <<>> /\ frames # <<>>
  BY DEF ImportInv, TypeInv, TypeOK, SearchRooted, Searching, SearchDeeper
<1>3. search[n] \in Frame
  BY <1>1, <1>2
<1>4. top \in Frame /\ top.name = search[n].name
  BY <1>3 DEF Frame
<1>5. call \in Frame /\ call.name = Neighbor
  BY <1>1 DEF Frame
<1>6. search' = Append(rest, call)
  BY DEF SearchDeeper
<1> HIDE DEF top, call
<1>7. rest \in Seq(Frame) /\ Len(rest) = n /\ \A i \in 1..n : rest[i].name = search[i].name
  BY <1>1, <1>2, <1>4
<1> HIDE DEF rest
<1>8. /\ search' \in Seq(Frame)
      /\ Len(search') = n + 1
      /\ search'[n + 1].name = Neighbor
      /\ \A i \in 1..n : search'[i].name = search[i].name
  BY <1>1, <1>5, <1>6, <1>7
<1>9. SearchIsPath'
  <2>1. ASSUME NEW i \in 1..n
        PROVE  search'[i + 1].name \in Imported(search'[i].name)
    <3>1. CASE i = n
      BY <1>1, <1>8, <3>1
    <3>2. CASE i # n
      BY <1>1, <1>8, <3>2 DEF ImportInv, SearchIsPath
    <3>3. QED
      BY <3>1, <3>2
  <2>2. \A m : Imported(m)' = Imported(m)
    BY DEF Imported, SearchDeeper
  <2>3. QED
    BY <1>1, <1>8, <2>1, <2>2 DEF SearchIsPath
<1>10. search' # <<>> /\ search'[1].name = search[1].name
  BY <1>1, <1>8
<1>11. QED
  BY <1>2, <1>8, <1>9, <1>10, SearchStep DEF SearchDeeper, ImportInv, TypeInv, TypeOK

LEMMA SearchReturnsStep == ImportInv /\ SearchReturns => ImportInv'
<1> SUFFICES ASSUME ImportInv, SearchReturns
             PROVE  ImportInv'
  OBVIOUS
<1> DEFINE n == Len(search)
<1>1. search \in Seq(Frame) /\ n \in Nat /\ n > 1 /\ frames # <<>> /\ search # <<>>
  BY DEF ImportInv, TypeInv, TypeOK, SearchRooted, Searching, SearchReturns
<1>2. /\ search' \in Seq(Frame)
      /\ Len(search') = n - 1
      /\ \A i \in 1..(n - 1) : search'[i] = search[i]
  BY <1>1 DEF SearchReturns
<1>3. SearchIsPath'
  <2>1. \A m : Imported(m)' = Imported(m)
    BY DEF Imported, SearchReturns
  <2>2. QED
    BY <1>1, <1>2, <2>1 DEF ImportInv, SearchIsPath
<1>4. search' # <<>> /\ search'[1].name = search[1].name
  BY <1>1, <1>2
<1>5. QED
  BY <1>1, <1>2, <1>3, <1>4, SearchStep DEF SearchReturns, ImportInv, TypeInv, TypeOK

LEMMA SearchOverflowStep == ImportInv /\ SearchOverflow => ImportInv'
<1> SUFFICES ASSUME ImportInv, SearchOverflow
             PROVE  ImportInv'
  OBVIOUS
<1>1. search \in Seq(Frame) /\ frames # <<>> /\ search # <<>>
  BY DEF ImportInv, TypeInv, TypeOK, SearchRooted, Searching, SearchOverflow
<1>2. SearchIsPath'
  <2>1. \A m : Imported(m)' = Imported(m)
    BY DEF Imported, SearchOverflow
  <2>2. search' = search
    BY DEF SearchOverflow
  <2>3. QED
    BY <2>1, <2>2 DEF ImportInv, SearchIsPath
<1>3. QED
  BY <1>1, <1>2, SearchStep DEF SearchOverflow

LEMMA StutterStep == ImportInv /\ UNCHANGED vars => ImportInv'
<1> SUFFICES ASSUME ImportInv, UNCHANGED vars
             PROVE  ImportInv'
  OBVIOUS
<1>1. TypeInv'
  BY DEF vars, ImportInv, TypeInv, TypeOK, FramesKnown
<1>2. SearchRooted' /\ EdgesReal' /\ SearchIsPath'
  BY DEF vars, ImportInv, SearchRooted, EdgesReal, SearchIsPath, Imported, Current
<1>3. QED
  BY <1>1, <1>2, QuietPaths DEF vars, ImportInv

\* The invariant the theorems below rest on: what the search walks along are
\* import statements of the program (importsModules, importGraph.go:16), and it
\* started from the module that is importing.
THEOREM ImportInvariant == Spec => []ImportInv
<1>1. Init => ImportInv
  BY InitImportInv
<1>2. ImportInv /\ [Next]_vars => ImportInv'
  BY ImportStep, ImportNewStep, FinishModuleStep, SearchFoundStep,
     SearchFailsStep, SearchDeeperStep, SearchReturnsStep, SearchOverflowStep,
     StutterStep DEF Next
<1>3. QED
  BY <1>1, <1>2, PTL DEF Spec

-----------------------------------------------------------------------------
(* Theorems                                                                *)

\* Every variable keeps its type, for every program: no statement is read past
\* the end of its list and only modules in the map are ever analysed.
THEOREM TypeCorrect == Spec => []TypeOK
<1>1. ImportInv => TypeOK
  BY DEF ImportInv, TypeInv
<1>2. QED
  BY <1>1, ImportInvariant, PTL

\* A cyclic import error is never wrong (topLevel.go:393-397): its path is made
\* of import statements, begins and ends with the module it is reported for.
THEOREM CycleErrorsAreReal == Spec => []CyclePathsAreReal
<1>1. ImportInv => CyclePathsAreReal
  BY DEF ImportInv
<1>2. QED
  BY <1>1, ImportInvariant, PTL

-----------------------------------------------------------------------------
(* What is recorded of the modules.                                        *)

UnderAnalysis == {frames[i].name : i \in DOMAIN frames}

\* A module of the program is being analysed or has been, and on the stack of
\* analyzeModule once at most.
ModulesSplit ==
  /\ \A m \in modules : source[m].kind = "code"
  /\ modules \subseteq analyzed \cup UnderAnalysis
  /\ analyzed \cap UnderAnalysis = {}
  /\ \A i, j \in DOMAIN frames : frames[i].name = frames[j].name => i = j

Recorded(m) == {importsModules[m][i] : i \in DOMAIN importsModules[m]}

UnknownUnrecorded == \A m \in Names \ modules : importsModules[m] = <<>>

\* An import of a module of the program, once it has been dealt with, is recorded,
\* and it is an error if a module imports itself.
Handled(m, x) ==
  source[x].kind = "code" =>
    /\ x \in modules
    /\ x \in Recorded(m)
    /\ diagnostics = {} => x # m

AnalyzedHandled == \A m \in analyzed : \A x \in Imported(m) : Handled(m, x)

FramesHandled ==
  \A i \in DOMAIN frames : \A j \in DOMAIN source[frames[i].name].imports :
    j < frames[i].next => Handled(frames[i].name, source[frames[i].name].imports[j].from)

\* A call of analyzeModule that waits is at the import of the module above it.
FramesChain ==
  \A i \in 1..(Len(frames) - 1) :
    /\ frames[i].next \in DOMAIN source[frames[i].name].imports
    /\ source[frames[i].name].imports[frames[i].next].from = frames[i + 1].name
    /\ frames[i + 1].name \in Recorded(frames[i].name)

-----------------------------------------------------------------------------
(* Reachability, said with sets that are closed under what is recorded.    *)

Closed(C) == \A m \in C : Recorded(m) \subseteq C

\* From each module on the stack one reaches those above it.
FramesReach ==
  \A C \in SUBSET Names : Closed(C) =>
    \A i, j \in DOMAIN frames :
      i <= j /\ frames[i].name \in C => frames[j].name \in C

\* The search goes on at an import whose module has been analysed.
SearchAtImport ==
  search # <<>> =>
    /\ frames[Len(frames)].next \in DOMAIN CurrentImports
    /\ Node.from \in analyzed
    /\ Node.from \in Recorded(Current)

\* The modules from which no way leads to the one the search began with.
Avoiding == UNION {C \in SUBSET Names : OriginalStart \notin C /\ Closed(C)}

\* A neighbor that the search has passed by leads nowhere.
SearchComplete ==
  \A i \in DOMAIN search :
    /\ i > 1 => search[i].name # OriginalStart
    /\ \A j \in DOMAIN importsModules[search[i].name] : j < search[i].next =>
         \/ importsModules[search[i].name][j] \in Avoiding
         \/ /\ i < Len(search)
            /\ j = search[i].next - 1
            /\ search[i + 1].name = importsModules[search[i].name][j]

-----------------------------------------------------------------------------
(* The inductive invariant.                                                *)

NoCycleReported == \A d \in diagnostics : d.kind # "cyclic"

\* As long as no cycle is reported, an analysed module does not import one that
\* is still being analysed; only for the last module this is being searched for.
AnalyzedClosed ==
  NoCycleReported =>
    \A m \in analyzed :
      \/ search # <<>> /\ m = Node.from
      \/ \A x \in Imported(m) \ {m} : source[x].kind = "code" => x \in analyzed

\* Every set of analysed modules has one that needs none of the others.
AnalyzedOrdered ==
  NoCycleReported =>
    \A S \in (SUBSET analyzed) \ {{}} : \E m \in S : (Imported(m) \ {m}) \cap S = {}

RecordInv ==
  /\ ModulesSplit /\ UnknownUnrecorded
  /\ AnalyzedHandled /\ FramesHandled /\ FramesChain /\ FramesReach

CycleInv ==
  /\ RecordInv
  /\ SearchAtImport /\ SearchComplete
  /\ AnalyzedClosed /\ AnalyzedOrdered

-----------------------------------------------------------------------------
(* What grows, and what lasts while it grows.                              *)

Grows ==
  /\ source' = source
  /\ modules \subseteq modules'
  /\ analyzed \subseteq analyzed'
  /\ diagnostics \subseteq diagnostics'
  /\ \A m \in Names : Recorded(m) \subseteq Recorded(m)'

LEMMA GrowsKeeps ==
  ASSUME Grows
  PROVE  /\ \A m \in Names : Imported(m)' = Imported(m)
         /\ \A m \in Names : \A x : Handled(m, x) => Handled(m, x)'
         /\ \A C \in SUBSET Names : Closed(C)' => Closed(C)
         /\ NoCycleReported' => NoCycleReported
<1>1. \A m \in Names : Imported(m)' = Imported(m)
  BY DEF Grows, Imported
<1>2. \A m \in Names : \A x : Handled(m, x) => Handled(m, x)'
  BY DEF Grows, Handled
<1>3. \A C \in SUBSET Names : Closed(C)' => Closed(C)
  BY DEF Grows, Closed
<1>4. NoCycleReported' => NoCycleReported
  BY DEF Grows, NoCycleReported
<1>5. QED
  BY <1>1, <1>2, <1>3, <1>4

\* What importItem records.
LEMMA RecordingGrows ==
  ASSUME TypeInv, NEW k \in Names, k = Current, NEW x \in Names, x = Node.from,
         AddImportsModule
  PROVE  /\ Recorded(k)' = Recorded(k) \cup {x}
         /\ \A m \in Names \ {k} : importsModules'[m] = importsModules[m]
         /\ \A m \in Names : Recorded(m) \subseteq Recorded(m)'
<1>1. importsModules \in [Names -> Seq(Names)]
  BY DEF TypeInv, TypeOK
<1>2. /\ importsModules'[k] = Append(importsModules[k], x)
      /\ \A m \in Names \ {k} : importsModules'[m] = importsModules[m]
  BY <1>1 DEF AddImportsModule
<1>3. importsModules[k] \in Seq(Names)
  BY <1>1
<1> DEFINE s == importsModules[k]
<1>4. /\ DOMAIN Append(s, x) = DOMAIN s \cup {Len(s) + 1}
      /\ \A i \in DOMAIN s : Append(s, x)[i] = s[i]
      /\ Append(s, x)[Len(s) + 1] = x
  BY <1>3
<1>5. Recorded(k)' = Recorded(k) \cup {x}
  BY <1>2, <1>4 DEF Recorded
<1>6. QED
  BY <1>2, <1>5 DEF Recorded

\* The statement is done with: the frames but for the next one of the last.
LEMMA NextImportFrames ==
  ASSUME TypeInv, frames # <<>>, NextImport
  PROVE  /\ DOMAIN frames' = DOMAIN frames /\ Len(frames') = Len(frames)
         /\ \A i \in DOMAIN frames : frames'[i].name = frames[i].name
         /\ \A i \in DOMAIN frames : i # Len(frames) => frames'[i].next = frames[i].next
         /\ frames'[Len(frames)].next = frames[Len(frames)].next + 1
<1>1. /\ frames' \in Seq(Frame) /\ Len(frames') = Len(frames)
      /\ \A i \in DOMAIN frames' : frames'[i].name = frames[i].name
  BY NextImportType
<1>2. frames \in Seq(Frame) /\ Len(frames) \in DOMAIN frames
  BY CurrentType DEF TypeInv, TypeOK
<1>3. DOMAIN frames' = DOMAIN frames
  BY <1>1, <1>2
<1>4. \A i \in DOMAIN frames : i # Len(frames) => frames'[i] = frames[i]
  BY <1>2 DEF NextImport
<1>5. frames[Len(frames)] \in Frame
  BY <1>2
<1>6. frames'[Len(frames)] = [frames[Len(frames)] EXCEPT !.next = @ + 1]
  BY <1>2 DEF NextImport
<1>7. frames'[Len(frames)].next = frames[Len(frames)].next + 1
  BY <1>5, <1>6 DEF Frame
<1>8. QED
  BY <1>1, <1>3, <1>4, <1>7

LEMMA FramesTyped ==
  ASSUME TypeInv
  PROVE  /\ frames \in Seq(Frame) /\ Len(frames) \in Nat
         /\ DOMAIN frames = 1..Len(frames)
         /\ \A i \in DOMAIN frames : /\ frames[i].name \in Names
                                     /\ frames[i].next \in Nat \ {0}
                                     /\ source[frames[i].name].imports \in Seq(Statement)
<1>1. frames \in Seq(Frame)
  BY DEF TypeInv, TypeOK
<1>2. \A i \in DOMAIN frames : frames[i] \in Frame
  BY <1>1
<1>3. \A i \in DOMAIN frames : frames[i].name \in Names /\ frames[i].next \in Nat \ {0}
  BY <1>2 DEF Frame
<1>4. source \in [Names -> Source]
  BY DEF TypeInv, TypeOK
<1>5. \A m \in Names : source[m].imports \in Seq(Statement)
  BY <1>4 DEF Source
<1>6. QED
  BY <1>1, <1>3, <1>5

-----------------------------------------------------------------------------
(* RecordInv                                                               *)

LEMMA InitRecordInv == Init => RecordInv
<1> SUFFICES ASSUME Init
             PROVE  RecordInv
  OBVIOUS
<1> DEFINE first == [name |-> Entry, next |-> 1]
<1>1. frames = <<first>> /\ DOMAIN frames = {1} /\ frames[1] = first /\ Len(frames) = 1
  BY DEF Init
<1>2. ModulesSplit
  <2>1. UnderAnalysis = {Entry}
    BY <1>1 DEF UnderAnalysis
  <2>2. modules = {Entry} /\ analyzed = {} /\ source[Entry].kind = "code"
    BY DEF Init
  <2>3. QED
    BY <1>1, <2>1, <2>2 DEF ModulesSplit
<1>3. UnknownUnrecorded /\ AnalyzedHandled /\ FramesChain
  BY <1>1 DEF Init, UnknownUnrecorded, AnalyzedHandled, FramesChain
<1>4. FramesReach
  BY <1>1 DEF FramesReach
<1>5. FramesHandled
  <2>1. source[Entry].imports \in Seq(Statement)
    BY DEF Init, Source
  <2>2. \A j \in DOMAIN source[Entry].imports : ~(j < 1)
    BY <2>1
  <2>3. QED
    BY <1>1, <2>2 DEF FramesHandled
<1>6. QED
  BY <1>2, <1>3, <1>4, <1>5 DEF RecordInv

\* Every step that is done with the statement at hand.
LEMMA StatementKeepsRecords ==
  ASSUME TypeInv, RecordInv, Grows, frames # <<>>, NextImport,
         UNCHANGED <<source, modules, analyzed>>,
         \A m \in Names \ modules : importsModules'[m] = <<>>,
         frames[Len(frames)].next \in DOMAIN CurrentImports,
         NEW k \in Names, k = Current, NEW x \in Names, x = Node.from, Handled(k, x)'
  PROVE  RecordInv'
<1> DEFINE n == Len(frames)
<1>1. /\ DOMAIN frames' = DOMAIN frames /\ Len(frames') = Len(frames)
      /\ \A i \in DOMAIN frames : frames'[i].name = frames[i].name
      /\ \A i \in DOMAIN frames : i # n => frames'[i].next = frames[i].next
      /\ frames'[n].next = frames[n].next + 1
  BY NextImportFrames
<1>2. /\ n \in Nat /\ DOMAIN frames = 1..n /\ n \in DOMAIN frames
      /\ \A i \in DOMAIN frames : /\ frames[i].name \in Names
                                  /\ frames[i].next \in Nat \ {0}
                                  /\ source[frames[i].name].imports \in Seq(Statement)
  BY FramesTyped, CurrentType
<1>3. /\ \A m \in Names : Imported(m)' = Imported(m)
      /\ \A m \in Names : \A y : Handled(m, y) => Handled(m, y)'
      /\ \A C \in SUBSET Names : Closed(C)' => Closed(C)
  BY GrowsKeeps
<1> USE DEF RecordInv
<1>4. ModulesSplit'
  <2>1. UnderAnalysis' = UnderAnalysis
    BY <1>1 DEF UnderAnalysis
  <2>2. QED
    BY <1>1, <2>1 DEF ModulesSplit
<1>5. UnknownUnrecorded'
  BY DEF UnknownUnrecorded
<1>6. AnalyzedHandled'
  BY <1>3 DEF AnalyzedHandled, TypeInv, TypeOK
<1>7. FramesHandled'
  <2>1. SUFFICES ASSUME NEW i \in DOMAIN frames,
                        NEW j \in DOMAIN source[frames[i].name].imports,
                        j < frames'[i].next
                 PROVE  Handled(frames[i].name, source[frames[i].name].imports[j].from)'
    BY <1>1 DEF FramesHandled
  <2> DEFINE m == frames[i].name
             y == source[m].imports[j].from
  <2>2. CASE j < frames[i].next
    <3>1. Handled(m, y)
      BY <2>2 DEF FramesHandled
    <3>2. QED
      BY <1>1, <1>2, <1>3, <3>1 DEF Handled
  <2>3. CASE ~(j < frames[i].next)
    <3>1. j \in Nat
      BY <1>2
    <3>2. i = n
      BY <1>1, <2>1, <2>3
    <3>3. j = frames[n].next
      BY <1>1, <1>2, <2>1, <2>3, <3>1, <3>2
    <3>4. m = k /\ y = x
      BY <3>2, <3>3 DEF Current, Node, CurrentImports
    <3>5. QED
      BY <1>1, <3>4 DEF Handled
  <2>4. QED
    BY <2>2, <2>3
<1>8. FramesChain'
  <2>1. SUFFICES ASSUME NEW i \in 1..(n - 1)
                 PROVE  /\ frames'[i].next \in DOMAIN source[frames'[i].name].imports
                        /\ source[frames'[i].name].imports[frames'[i].next].from = frames'[i + 1].name
                        /\ (frames[i + 1].name \in Recorded(frames[i].name))'
    BY <1>1 DEF FramesChain
  <2>2. i \in DOMAIN frames /\ i + 1 \in DOMAIN frames /\ i # n
    BY <1>2
  <2>3. /\ frames[i].next \in DOMAIN source[frames[i].name].imports
        /\ source[frames[i].name].imports[frames[i].next].from = frames[i + 1].name
        /\ frames[i + 1].name \in Recorded(frames[i].name)
    BY DEF FramesChain
  <2>4. PICK m \in Names : m = frames[i].name
    BY <1>2, <2>2
  <2>5. frames'[i + 1].name \in Recorded(m)'
    BY <1>1, <2>2, <2>3, <2>4 DEF Grows
  <2>6. frames'[i].name = m
    BY <1>1, <2>2, <2>4
  <2>7. (frames[i + 1].name \in Recorded(frames[i].name))'
    BY <2>5, <2>6 DEF Recorded
  <2>8. QED
    BY <1>1, <2>2, <2>3, <2>7
<1>9. FramesReach'
  BY <1>1, <1>3 DEF FramesReach
<1>10. QED
  BY <1>4, <1>5, <1>6, <1>7, <1>8, <1>9

-----------------------------------------------------------------------------
(* Import statements                                                       *)

LEMMA InitCycleInv == Init => CycleInv
<1> SUFFICES ASSUME Init
             PROVE  CycleInv
  OBVIOUS
<1>1. search = <<>> /\ analyzed = {}
  BY DEF Init
<1>2. SearchAtImport /\ SearchComplete /\ AnalyzedClosed /\ AnalyzedOrdered
  BY <1>1 DEF SearchAtImport, SearchComplete, AnalyzedClosed, AnalyzedOrdered
<1>3. QED
  BY <1>2, InitRecordInv DEF CycleInv

\* What is left to show of a step that is done with the statement at hand.
LEMMA StatementKeepsCycleInv ==
  ASSUME TypeInv, CycleInv, frames # <<>>, NextImport, search' = <<>>,
         UNCHANGED <<source, modules, analyzed>>, diagnostics \subseteq diagnostics',
         frames[Len(frames)].next \in DOMAIN CurrentImports,
         NEW k \in Names, k = Current, NEW x \in Names, x = Node.from,
         importsModules' = importsModules \/ AddImportsModule,
         Handled(k, x)',
         NoCycleReported' =>
           \/ search = <<>>
           \/ \A y \in Imported(x) \ {x} : source[y].kind = "code" => y \in analyzed
  PROVE  CycleInv'
<1>1. Grows /\ \A m \in Names \ modules : importsModules'[m] = <<>>
  <2>1. k \in modules
    BY CurrentType
  <2>2. CASE importsModules' = importsModules
    BY <2>2 DEF Grows, Recorded, CycleInv, RecordInv, UnknownUnrecorded
  <2>3. CASE AddImportsModule
    BY <2>1, <2>3, RecordingGrows DEF Grows, CycleInv, RecordInv, UnknownUnrecorded
  <2>4. QED
    BY <2>2, <2>3
<1>2. RecordInv'
  BY <1>1, StatementKeepsRecords DEF CycleInv
<1>3. /\ \A m \in Names : Imported(m)' = Imported(m)
      /\ NoCycleReported' => NoCycleReported
  BY <1>1, GrowsKeeps
<1>4. analyzed \subseteq Names
  BY DEF TypeInv, TypeOK
<1>5. SearchAtImport' /\ SearchComplete'
  BY DEF SearchAtImport, SearchComplete
<1>6. AnalyzedClosed'
  <2>1. SUFFICES ASSUME NoCycleReported', NEW m \in analyzed,
                        NEW y \in Imported(m) \ {m}, source[y].kind = "code"
                 PROVE  y \in analyzed
    BY <1>3, <1>4 DEF AnalyzedClosed
  <2>2. CASE search # <<>> /\ m = Node.from
    BY <2>1, <2>2
  <2>3. CASE ~(search # <<>> /\ m = Node.from)
    BY <1>3, <2>1, <2>3 DEF CycleInv, AnalyzedClosed
  <2>4. QED
    BY <2>2, <2>3
<1>7. AnalyzedOrdered'
  <2>1. SUFFICES ASSUME NoCycleReported', NEW S \in SUBSET analyzed, S # {}
                 PROVE  \E m \in S : (Imported(m)' \ {m}) \cap S = {}
    BY DEF AnalyzedOrdered
  <2>2. PICK m \in S : (Imported(m) \ {m}) \cap S = {}
    BY <1>3, <2>1 DEF CycleInv, AnalyzedOrdered
  <2>3. QED
    BY <1>3, <1>4, <2>2
<1>8. QED
  BY <1>2, <1>5, <1>6, <1>7 DEF CycleInv

\* Diagnostics are only added, and an item a module takes from itself is an error.
LEMMA ItemsApart ==
  ASSUME NEW errors, TakeItem(errors)
  PROVE  /\ diagnostics \cup errors \subseteq diagnostics'
         /\ Current \notin analyzed /\ diagnostics' = {} => Node.from # Current
BY DEF TakeItem, AddTemplate, ErrorIf, Error

LEMMA ImportKeepsCycleInv ==
  ASSUME ImportInv, CycleInv,
         ImportUnresolved \/ ImportBuiltin \/ ImportBroken \/ ImportKnown
  PROVE  CycleInv'
<1>1. TypeInv
  BY DEF ImportInv
<1>2. PICK kinds : AtImport(kinds)
  BY DEF ImportUnresolved, ImportBuiltin, ImportBroken, ImportKnown
<1>3. /\ frames # <<>> /\ search = <<>>
      /\ frames[Len(frames)].next \in DOMAIN CurrentImports
  BY <1>2 DEF AtImport
<1>4. PICK k \in Names : k = Current
  BY <1>1, <1>3, CurrentType
<1>5. PICK x \in Names : x = Node.from
  BY <1>1, <1>2, NodeType
<1>6. /\ NextImport /\ search' = <<>>
      /\ UNCHANGED <<source, modules, analyzed>>
      /\ importsModules' = importsModules \/ AddImportsModule
  BY <1>3 DEF ImportUnresolved, ImportBuiltin, ImportBroken, ImportKnown
<1>7. diagnostics \subseteq diagnostics'
  BY DEF ImportUnresolved, ImportBuiltin, ImportBroken, ImportKnown, DummyFields,
         AddTemplate, TakeItem
<1>8. Handled(k, x)'
  <2>1. CASE ImportUnresolved \/ ImportBuiltin \/ ImportBroken
    <3>1. source[x].kind # "code"
      BY <1>5, <2>1 DEF ImportUnresolved, ImportBuiltin, ImportBroken, AtImport
    <3>2. QED
      BY <1>6, <3>1 DEF Handled
  <2>2. CASE ImportKnown
    <3>1. x \in modules /\ AddImportsModule /\ TakeItem({})
      BY <1>5, <2>2 DEF ImportKnown
    <3>2. x \in Recorded(k)'
      BY <1>1, <1>4, <1>5, <3>1, RecordingGrows
    <3>3. k \notin analyzed
      <4>1. k \in UnderAnalysis
        BY <1>1, <1>3, <1>4, CurrentType DEF UnderAnalysis, Current
      <4>2. QED
        BY <4>1 DEF CycleInv, RecordInv, ModulesSplit
    <3>4. diagnostics' = {} => x # k
      BY <1>4, <1>5, <3>1, <3>3, ItemsApart
    <3>5. QED
      BY <1>6, <3>1, <3>2, <3>4 DEF Handled
  <2>3. QED
    BY <2>1, <2>2
<1>9. QED
  BY <1>1, <1>3, <1>4, <1>5, <1>6, <1>7, <1>8, StatementKeepsCycleInv

\* What a step leaves of CycleInv that only moves the stack of analyzeModule.
LEMMA QuietKeepsAnalyzed ==
  ASSUME TypeInv, CycleInv, Grows, UNCHANGED <<analyzed, diagnostics>>, search = <<>>
  PROVE  AnalyzedHandled' /\ AnalyzedClosed' /\ AnalyzedOrdered'
<1>1. /\ \A m \in Names : Imported(m)' = Imported(m)
      /\ \A m \in Names : \A x : Handled(m, x) => Handled(m, x)'
      /\ NoCycleReported' => NoCycleReported
  BY GrowsKeeps
<1>2. analyzed \subseteq Names /\ source' = source
  BY DEF TypeInv, TypeOK, Grows
<1>3. AnalyzedHandled'
  BY <1>1, <1>2 DEF CycleInv, RecordInv, AnalyzedHandled
<1>4. AnalyzedClosed'
  BY <1>1, <1>2 DEF CycleInv, AnalyzedClosed
<1>5. AnalyzedOrdered'
  <2>1. SUFFICES ASSUME NoCycleReported', NEW S \in SUBSET analyzed, S # {}
                 PROVE  \E m \in S : (Imported(m)' \ {m}) \cap S = {}
    BY DEF AnalyzedOrdered
  <2>2. PICK m \in S : (Imported(m) \ {m}) \cap S = {}
    BY <1>1, <2>1 DEF CycleInv, AnalyzedOrdered
  <2>3. QED
    BY <1>1, <1>2, <2>2
<1>6. QED
  BY <1>3, <1>4, <1>5

LEMMA ImportNewKeepsCycleInv ==
  ASSUME ImportInv, CycleInv, ImportNew
  PROVE  CycleInv'
<1>1. TypeInv
  BY DEF ImportInv
<1>2. /\ frames # <<>> /\ search = <<>> /\ search' = <<>>
      /\ frames[Len(frames)].next \in DOMAIN CurrentImports
  BY DEF ImportNew, AtImport
<1>3. PICK k \in Names : k = Current
  BY <1>1, <1>2, CurrentType
<1>4. PICK x \in Names : x = Node.from
  BY <1>1, NodeType DEF ImportNew
<1> DEFINE n == Len(frames)
           new == [name |-> x, next |-> 1]
<1>5. /\ x \notin modules /\ source[x].kind = "code" /\ AddImportsModule
      /\ modules' = modules \cup {x} /\ frames' = Append(frames, new)
      /\ UNCHANGED <<source, analyzed, diagnostics>>
  BY <1>4 DEF ImportNew, AtImport
<1>6. /\ Recorded(k)' = Recorded(k) \cup {x}
      /\ \A m \in Names \ {k} : importsModules'[m] = importsModules[m]
      /\ \A m \in Names : Recorded(m) \subseteq Recorded(m)'
  BY <1>1, <1>3, <1>4, <1>5, RecordingGrows
<1>7. Grows
  BY <1>5, <1>6 DEF Grows
<1>8. /\ \A m \in Names : \A y : Handled(m, y) => Handled(m, y)'
      /\ \A C \in SUBSET Names : Closed(C)' => Closed(C)
  BY <1>7, GrowsKeeps
<1>9. /\ n \in Nat /\ n \in DOMAIN frames /\ DOMAIN frames = 1..n /\ frames[n].name = k
      /\ \A i \in DOMAIN frames : /\ frames[i].name \in Names /\ frames[i].name \in modules
                                  /\ frames[i].next \in Nat \ {0}
                                  /\ source[frames[i].name].imports \in Seq(Statement)
  BY <1>1, <1>2, <1>3, FramesTyped, CurrentType DEF TypeInv, FramesKnown, Current
<1>10. /\ Len(frames') = n + 1 /\ DOMAIN frames' = 1..(n + 1)
       /\ \A i \in DOMAIN frames : frames'[i] = frames[i]
       /\ frames'[n + 1] = new
       /\ frames'[n + 1].name = x /\ frames'[n + 1].next = 1
  BY <1>5, <1>9, FramesTyped, <1>1
<1> HIDE DEF new
<1> USE DEF CycleInv, RecordInv
<1>11. ModulesSplit'
  <2>1. UnderAnalysis' = UnderAnalysis \cup {x}
    BY <1>9, <1>10 DEF UnderAnalysis
  <2>2. analyzed \subseteq modules
    BY <1>1 DEF TypeInv, TypeOK
  <2>3. \A i, j \in DOMAIN frames' : frames'[i].name = frames'[j].name => i = j
    <3>1. SUFFICES ASSUME NEW i \in DOMAIN frames', NEW j \in DOMAIN frames',
                          frames'[i].name = frames'[j].name
                   PROVE  i = j
      OBVIOUS
    <3>2. /\ i \in DOMAIN frames \/ i = n + 1
          /\ j \in DOMAIN frames \/ j = n + 1
      BY <1>9, <1>10
    <3>3. QED
      BY <1>5, <1>9, <1>10, <3>1, <3>2 DEF ModulesSplit
  <2>4. QED
    BY <1>5, <2>1, <2>2, <2>3 DEF ModulesSplit
<1>12. UnknownUnrecorded'
  <2>1. k \in modules
    BY <1>9
  <2>2. QED
    BY <1>5, <1>6, <2>1 DEF UnknownUnrecorded
<1>13. FramesHandled'
  <2>1. SUFFICES ASSUME NEW i \in DOMAIN frames',
                        NEW j \in DOMAIN source[frames'[i].name].imports,
                        j < frames'[i].next
                 PROVE  Handled(frames[i].name, source[frames[i].name].imports[j].from)'
    BY <1>5 DEF FramesHandled
  <2>2. CASE i \in DOMAIN frames
    <3>1. PICK m \in Names : m = frames[i].name
      BY <1>9, <2>2
    <3>2. PICK y : y = source[m].imports[j].from
      OBVIOUS
    <3>3. Handled(m, y)
      BY <1>10, <2>1, <2>2, <3>1, <3>2 DEF FramesHandled
    <3>4. Handled(m, y)' /\ frames'[i].name = m /\ source'[m].imports[j].from = y
      BY <1>5, <1>8, <1>10, <2>2, <3>1, <3>2, <3>3
    <3>5. QED
      BY <3>4 DEF Handled, Recorded
  <2>3. CASE i = n + 1
    <3>1. source[x].imports \in Seq(Statement)
      <4>1. source \in [Names -> Source]
        BY <1>1 DEF TypeInv, TypeOK
      <4>2. QED
        BY <4>1 DEF Source
    <3>2. j \in 1..Len(source[x].imports) /\ j < 1
      BY <1>10, <2>1, <2>3, <3>1
    <3>3. QED
      BY <3>1, <3>2
  <2>4. QED
    BY <1>9, <1>10, <2>2, <2>3
<1>14. FramesChain'
  <2>1. SUFFICES ASSUME NEW i \in 1..n
                 PROVE  /\ frames'[i].next \in DOMAIN source[frames'[i].name].imports
                        /\ source[frames'[i].name].imports[frames'[i].next].from = frames'[i + 1].name
                        /\ (frames[i + 1].name \in Recorded(frames[i].name))'
    BY <1>5, <1>9, <1>10 DEF FramesChain
  <2>2. PICK m \in Names : m = frames[i].name
    BY <1>9
  <2>3. frames'[i] = frames[i] /\ frames'[i].name = m
    BY <1>9, <1>10, <2>2
  <2>4. CASE i = n
    <3>1. frames'[i + 1].name \in Recorded(m)'
      BY <1>6, <1>9, <1>10, <2>2, <2>4
    <3>2. (frames[i + 1].name \in Recorded(frames[i].name))'
      BY <2>3, <3>1 DEF Recorded
    <3>3. QED
      BY <1>2, <1>4, <1>10, <2>3, <2>4, <3>2 DEF Node, CurrentImports, Current
  <2>5. CASE i # n
    <3>1. i \in 1..(n - 1) /\ i + 1 \in DOMAIN frames
      BY <1>9, <2>5
    <3>2. /\ frames[i].next \in DOMAIN source[frames[i].name].imports
          /\ source[frames[i].name].imports[frames[i].next].from = frames[i + 1].name
          /\ frames[i + 1].name \in Recorded(frames[i].name)
      BY <3>1 DEF FramesChain
    <3>3. frames'[i + 1].name \in Recorded(m)'
      BY <1>6, <1>10, <2>2, <3>1, <3>2
    <3>4. (frames[i + 1].name \in Recorded(frames[i].name))'
      BY <2>3, <3>3 DEF Recorded
    <3>5. QED
      BY <1>10, <2>3, <3>1, <3>2, <3>4
  <2>6. QED
    BY <2>4, <2>5
<1>15. FramesReach'
  <2>1. SUFFICES ASSUME NEW C \in SUBSET Names, Closed(C)',
                        NEW i \in DOMAIN frames', NEW j \in DOMAIN frames',
                        i <= j, frames'[i].name \in C
                 PROVE  frames'[j].name \in C
    BY DEF FramesReach
  <2>2. Closed(C)
    BY <1>8, <2>1
  <2>3. CASE j \in DOMAIN frames
    <3>1. i \in DOMAIN frames
      BY <1>9, <1>10, <2>1, <2>3
    <3>2. QED
      BY <1>10, <2>1, <2>2, <2>3, <3>1 DEF FramesReach
  <2>4. CASE j = n + 1 /\ i \in DOMAIN frames
    <3>1. k \in C
      BY <1>9, <1>10, <2>1, <2>2, <2>4 DEF FramesReach
    <3>2. x \in C
      BY <1>6, <2>1, <3>1 DEF Closed
    <3>3. QED
      BY <1>10, <2>4, <3>2
  <2>5. CASE j = n + 1 /\ i = n + 1
    BY <2>1, <2>5
  <2>6. QED
    BY <1>9, <1>10, <2>3, <2>4, <2>5
<1>16. SearchAtImport' /\ SearchComplete'
  BY <1>2 DEF SearchAtImport, SearchComplete
<1>17. QED
  BY <1>1, <1>2, <1>5, <1>7, <1>11, <1>12, <1>13, <1>14, <1>15, <1>16, QuietKeepsAnalyzed

\* The body of a module comes after its imports: the module is analysed.
LEMMA FinishModuleKeepsCycleInv ==
  ASSUME ImportInv, CycleInv, FinishModule
  PROVE  CycleInv'
<1>1. TypeInv /\ frames # <<>> /\ search = <<>>
  BY DEF ImportInv, FinishModule
<1> DEFINE n == Len(frames)
<1>2. PICK k \in Names : k = Current
  BY <1>1, CurrentType
<1>3. /\ analyzed' = analyzed \cup {k}
      /\ frames[n].next > Len(source[k].imports)
      /\ UNCHANGED <<source, modules, importsModules, diagnostics>>
  BY <1>2 DEF FinishModule, CurrentImports
<1>4. /\ n \in Nat /\ n \in DOMAIN frames /\ DOMAIN frames = 1..n /\ frames[n].name = k
      /\ \A i \in DOMAIN frames : /\ frames[i].name \in Names
                                  /\ frames[i].next \in Nat \ {0}
                                  /\ source[frames[i].name].imports \in Seq(Statement)
      /\ k \in modules
  BY <1>1, <1>2, FramesTyped, CurrentType DEF Current
<1>5. /\ Len(frames') = n - 1 /\ DOMAIN frames' = 1..(n - 1)
      /\ \A i \in 1..(n - 1) : i \in DOMAIN frames /\ frames'[i] = frames[i]
  BY <1>1, <1>4, FramesTyped DEF FinishModule
<1>6. Grows
  BY <1>3 DEF Grows, Recorded
<1>7. /\ \A m \in Names : Imported(m)' = Imported(m)
      /\ \A m \in Names : \A y : Handled(m, y) => Handled(m, y)'
      /\ \A C \in SUBSET Names : Closed(C)' => Closed(C)
      /\ NoCycleReported' = NoCycleReported
      /\ \A m \in Names : Recorded(m)' = Recorded(m)
  BY <1>3, <1>6, GrowsKeeps DEF NoCycleReported, Recorded
<1>8. analyzed \subseteq Names /\ analyzed \subseteq modules /\ modules \subseteq Names
  BY <1>1 DEF TypeInv, TypeOK
<1> USE DEF CycleInv, RecordInv
<1>9. \A x \in Imported(k) : Handled(k, x)
  <2>1. SUFFICES ASSUME NEW j \in DOMAIN source[k].imports
                 PROVE  Handled(k, source[k].imports[j].from)
    BY DEF Imported
  <2>2. source[k].imports \in Seq(Statement)
    BY <1>4
  <2>3. j < frames[n].next
    BY <1>3, <1>4, <2>2
  <2>4. QED
    BY <1>4, <2>3 DEF FramesHandled
<1>10. k \in UnderAnalysis /\ k \notin analyzed /\ source[k].kind = "code"
  BY <1>4 DEF UnderAnalysis, ModulesSplit
<1>11. ModulesSplit'
  <2>1. UnderAnalysis' = UnderAnalysis \ {k}
    <3>1. \A i \in 1..(n - 1) : frames[i].name # k
      <4>1. n \in Nat /\ n \in DOMAIN frames /\ DOMAIN frames = 1..n /\ frames[n].name = k
        BY <1>4
      <4> HIDE DEF n
      <4>2. \A i \in 1..(n - 1) : i \in DOMAIN frames /\ i # n
        BY <4>1
      <4>3. QED
        BY <4>1, <4>2 DEF ModulesSplit
    <3>2. UnderAnalysis' \subseteq UnderAnalysis \ {k}
      <4>1. ASSUME NEW i \in DOMAIN frames'
            PROVE  frames'[i].name \in UnderAnalysis \ {k}
        BY <1>5, <3>1, <4>1 DEF UnderAnalysis
      <4>2. QED
        BY <4>1 DEF UnderAnalysis
    <3>3. ASSUME NEW i \in DOMAIN frames, frames[i].name # k
          PROVE  frames[i].name \in UnderAnalysis'
      <4>1. i \in 1..(n - 1)
        BY <1>4, <3>3
      <4>2. QED
        BY <1>5, <4>1 DEF UnderAnalysis
    <3>4. QED
      BY <3>2, <3>3 DEF UnderAnalysis
  <2>2. QED
    BY <1>3, <1>5, <1>10, <2>1 DEF ModulesSplit
<1>12. UnknownUnrecorded' /\ AnalyzedHandled'
  BY <1>3, <1>7, <1>8, <1>9 DEF UnknownUnrecorded, AnalyzedHandled
<1>13. FramesHandled'
  <2>1. SUFFICES ASSUME NEW i \in 1..(n - 1),
                        NEW j \in DOMAIN source[frames[i].name].imports,
                        j < frames[i].next
                 PROVE  Handled(frames[i].name, source[frames[i].name].imports[j].from)'
    BY <1>3, <1>5 DEF FramesHandled
  <2>2. Handled(frames[i].name, source[frames[i].name].imports[j].from)
    BY <1>5, <2>1 DEF FramesHandled
  <2>3. QED
    BY <1>3, <1>5, <2>2 DEF Handled, Recorded
<1>14. FramesChain'
  <2>1. SUFFICES ASSUME NEW i \in 1..(n - 1 - 1)
                 PROVE  /\ frames'[i].next \in DOMAIN source[frames'[i].name].imports
                        /\ source[frames'[i].name].imports[frames'[i].next].from = frames'[i + 1].name
                        /\ (frames[i + 1].name \in Recorded(frames[i].name))'
    BY <1>3, <1>4, <1>5 DEF FramesChain
  <2>2. i \in 1..(n - 1) /\ i + 1 \in 1..(n - 1)
    BY <1>4
  <2>3. frames'[i] = frames[i] /\ frames'[i + 1] = frames[i + 1]
    BY <1>5, <2>2
  <2>4. /\ frames[i].next \in DOMAIN source[frames[i].name].imports
        /\ source[frames[i].name].imports[frames[i].next].from = frames[i + 1].name
        /\ frames[i + 1].name \in Recorded(frames[i].name)
    BY <2>2 DEF FramesChain
  <2>5. QED
    BY <1>3, <2>3, <2>4 DEF Recorded
<1>15. FramesReach'
  BY <1>5, <1>7 DEF FramesReach
<1>16. \/ n = 1 /\ search' = <<>>
       \/ /\ n - 1 \in 1..(n - 1) /\ n # 1
          /\ search' = <<[name |-> frames[n - 1].name, next |-> 1]>> /\ search' # <<>>
          /\ frames[n - 1].next \in DOMAIN source[frames[n - 1].name].imports
          /\ source[frames[n - 1].name].imports[frames[n - 1].next].from = k
          /\ k \in Recorded(frames[n - 1].name)
  <2>1. CASE n = 1
    BY <2>1 DEF FinishModule
  <2>2. CASE n # 1
    <3>1. n - 1 \in 1..(n - 1) /\ n - 1 + 1 = n
      BY <1>4, <2>2
    <3>2. /\ frames[n - 1].next \in DOMAIN source[frames[n - 1].name].imports
          /\ source[frames[n - 1].name].imports[frames[n - 1].next].from = frames[n].name
          /\ frames[n].name \in Recorded(frames[n - 1].name)
      BY <3>1 DEF FramesChain
    <3>3. QED
      BY <1>4, <2>2, <3>1, <3>2 DEF FinishModule
  <2>3. QED
    BY <2>1, <2>2
<1>17. n # 1 => /\ Current' = frames[n - 1].name
                /\ Node'.from = k
                /\ CurrentImports' = source[frames[n - 1].name].imports
                /\ frames'[Len(frames')].next = frames[n - 1].next
  BY <1>3, <1>5, <1>16 DEF Current, Node, CurrentImports
<1>18. SearchAtImport'
  <2>1. CASE n # 1
    <3>1. PICK p \in Names : p = frames[n - 1].name
      BY <1>4, <1>5, <1>16, <2>1
    <3>2. k \in Recorded(p)'
      BY <1>7, <1>16, <2>1, <3>1
    <3>3. Current' = p /\ Node'.from = k
      BY <1>17, <2>1, <3>1
    <3>4. (Node.from \in Recorded(Current))'
      BY <3>2, <3>3 DEF Recorded
    <3>5. QED
      BY <1>3, <1>16, <1>17, <2>1, <3>3, <3>4 DEF SearchAtImport
  <2>2. QED
    BY <1>16, <2>1 DEF SearchAtImport
<1>19. SearchComplete'
  <2>1. CASE search' = <<>>
    BY <2>1 DEF SearchComplete
  <2>2. CASE n # 1
    <3> DEFINE p == frames[n - 1].name
               call == [name |-> p, next |-> 1]
    <3>1. p \in Names /\ search' = <<call>>
      BY <1>4, <1>5, <1>16, <2>2
    <3>2. DOMAIN search' = {1} /\ search'[1].name = p /\ search'[1].next = 1
      BY <3>1
    <3>3. importsModules'[p] \in Seq(Names)
      BY <1>1, <1>3, <3>1 DEF TypeInv, TypeOK
    <3> HIDE DEF p, call
    <3>4. \A j \in DOMAIN importsModules'[p] : ~(j < 1)
      BY <3>3
    <3>5. QED
      BY <3>2, <3>4 DEF SearchComplete
  <2>3. QED
    BY <1>16, <2>1, <2>2
<1>20. AnalyzedClosed'
  <2>1. SUFFICES ASSUME NoCycleReported, NEW m \in analyzed',
                        ~(search' # <<>> /\ m = Node'.from),
                        NEW x \in Imported(m) \ {m}, source[x].kind = "code"
                 PROVE  x \in analyzed'
    BY <1>3, <1>7, <1>8 DEF AnalyzedClosed
  <2>2. CASE m \in analyzed
    BY <1>1, <1>3, <2>1, <2>2 DEF AnalyzedClosed
  <2>3. CASE m = k
    <3>1. n = 1
      BY <1>16, <1>17, <2>1, <2>3
    <3>2. x \in modules
      BY <1>9, <2>1, <2>3 DEF Handled
    <3>3. UnderAnalysis = {k}
      BY <1>4, <3>1 DEF UnderAnalysis
    <3>4. QED
      BY <1>3, <3>2, <3>3 DEF ModulesSplit
  <2>4. QED
    BY <1>3, <2>2, <2>3
<1>21. AnalyzedOrdered'
  <2>1. SUFFICES ASSUME NoCycleReported, NEW S \in SUBSET (analyzed \cup {k}), S # {}
                 PROVE  \E m \in S : (Imported(m) \ {m}) \cap S = {}
    BY <1>2, <1>3, <1>7, <1>8 DEF AnalyzedOrdered
  <2>2. CASE S = {k}
    BY <2>2
  <2>3. CASE S # {k}
    <3>1. S \ {k} \in (SUBSET analyzed) \ {{}}
      BY <2>1, <2>3
    <3>2. PICK m \in S \ {k} : (Imported(m) \ {m}) \cap (S \ {k}) = {}
      BY <2>1, <3>1 DEF AnalyzedOrdered
    <3>3. m \in analyzed
      BY <2>1, <3>2
    <3>4. k \notin Imported(m) \ {m}
      BY <1>1, <1>10, <2>1, <3>3 DEF AnalyzedClosed
    <3>5. QED
      BY <3>2, <3>4
  <2>4. QED
    BY <2>2, <2>3
<1>22. QED
  BY <1>11, <1>12, <1>13, <1>14, <1>15, <1>18, <1>19, <1>20, <1>21

-----------------------------------------------------------------------------
(* The search                                                              *)

LEMMA SearchTyped ==
  ASSUME ImportInv, CycleInv, Searching
  PROVE  /\ frames # <<>> /\ OriginalStart = Current /\ OriginalStart \in Names
         /\ frames[Len(frames)].next \in DOMAIN CurrentImports
         /\ Len(search) \in Nat \ {0} /\ DOMAIN search = 1..Len(search)
         /\ Start \in Names /\ Start = search[Len(search)].name
         /\ Neighbors = importsModules[Start]
         /\ \A i \in DOMAIN search : /\ search[i].name \in Names
                                     /\ search[i].next \in Nat \ {0}
                                     /\ importsModules[search[i].name] \in Seq(Names)
         /\ Node.from \in analyzed /\ Node.from \in Names
<1>1. /\ search \in Seq(Frame) /\ importsModules \in [Names -> Seq(Names)]
      /\ search # <<>> /\ frames # <<>> /\ OriginalStart = Current
      /\ analyzed \subseteq Names
  BY DEF ImportInv, TypeInv, TypeOK, SearchRooted, Searching, OriginalStart
<1>2. \A i \in DOMAIN search : search[i] \in Frame
  BY <1>1
<1>3. \A i \in DOMAIN search : search[i].name \in Names /\ search[i].next \in Nat \ {0}
  BY <1>2 DEF Frame
<1>4. Len(search) \in Nat \ {0} /\ DOMAIN search = 1..Len(search)
  BY <1>1
<1>5. Start \in Names /\ Start = search[Len(search)].name /\ OriginalStart \in Names
  BY <1>3, <1>4 DEF Start, OriginalStart
<1>6. Neighbors = importsModules[Start]
  BY <1>5 DEF Neighbors, CycleInv, RecordInv, UnknownUnrecorded
<1>7. /\ frames[Len(frames)].next \in DOMAIN CurrentImports
      /\ Node.from \in analyzed
  BY <1>1 DEF CycleInv, SearchAtImport
<1>8. QED
  BY <1>1, <1>3, <1>4, <1>5, <1>6, <1>7

\* If there is no way back to the importer, what has been imported does not import
\* anything that is still being analysed: from there, the stack leads to the importer.
LEMMA SearchFailsClosed ==
  ASSUME ImportInv, CycleInv, SearchFails, NEW x, x = Node.from,
         NEW y \in Imported(x) \ {x}, source[y].kind = "code"
  PROVE  y \in analyzed
<1> USE DEF CycleInv, RecordInv
<1>1. Searching /\ ~HasNeighbor /\ Len(search) = 1
  BY DEF SearchFails
<1>2. PICK k \in Names : k = Current /\ k = OriginalStart /\ k = search[1].name
  <2>1. Current \in Names /\ OriginalStart = Current /\ search[1].name = OriginalStart
    BY <1>1, SearchTyped DEF OriginalStart
  <2>2. QED
    BY <2>1
<1>3. /\ importsModules[k] \in Seq(Names) /\ search[1].next \in Nat \ {0}
      /\ search[1].next \notin DOMAIN importsModules[k]
      /\ 1 \in DOMAIN search /\ x \in analyzed /\ frames # <<>>
  BY <1>1, <1>2, SearchTyped DEF HasNeighbor
<1>4. \A j \in DOMAIN importsModules[k] : j < search[1].next
  BY <1>3
<1>5. \A j \in DOMAIN importsModules[k] : importsModules[k][j] \in Avoiding
  BY <1>1, <1>2, <1>3, <1>4 DEF SearchComplete
<1>6. x \in Recorded(k)
  BY <1>1, <1>2 DEF SearchAtImport, Searching
<1>7. PICK C \in SUBSET Names : x \in C /\ k \notin C /\ Closed(C)
  BY <1>2, <1>5, <1>6 DEF Recorded, Avoiding
<1>8. y \in modules /\ y \in Recorded(x)
  BY <1>3 DEF AnalyzedHandled, Handled
<1>9. y \in C
  BY <1>7, <1>8 DEF Closed
<1>10. SUFFICES ASSUME y \notin analyzed
                PROVE  FALSE
  OBVIOUS
<1>11. PICK i \in DOMAIN frames : y = frames[i].name
  BY <1>8, <1>10 DEF ModulesSplit, UnderAnalysis
<1>12. Len(frames) \in DOMAIN frames /\ i <= Len(frames) /\ frames[Len(frames)].name = k
  BY <1>2, <1>3, <1>11, FramesTyped, CurrentType DEF Current, ImportInv
<1>13. QED
  BY <1>7, <1>9, <1>11, <1>12 DEF FramesReach

LEMMA SearchFailsKeepsCycleInv ==
  ASSUME ImportInv, CycleInv, SearchFails
  PROVE  CycleInv'
<1>1. Searching /\ TypeInv
  BY DEF ImportInv, SearchFails
<1>2. PICK k \in Names : k = Current
  BY <1>1, SearchTyped
<1>3. PICK x \in Names : x = Node.from
  BY <1>1, SearchTyped
<1>4. /\ frames # <<>> /\ x \in analyzed /\ search # <<>>
      /\ frames[Len(frames)].next \in DOMAIN CurrentImports
  BY <1>1, <1>3, SearchTyped DEF Searching
<1>5. /\ NextImport /\ search' = <<>> /\ TakeItem({})
      /\ UNCHANGED <<source, modules, importsModules, analyzed>>
  BY DEF SearchFails
<1>6. Handled(k, x)'
  <2>1. k \in UnderAnalysis
    BY <1>1, <1>2, <1>4, CurrentType DEF UnderAnalysis, Current
  <2>2. x # k
    BY <1>4, <2>1 DEF CycleInv, RecordInv, ModulesSplit
  <2>3. x \in Recorded(k) /\ x \in modules
    BY <1>1, <1>2, <1>3, <1>4 DEF CycleInv, SearchAtImport, TypeInv, TypeOK
  <2>4. QED
    BY <1>5, <2>2, <2>3 DEF Handled, Recorded
<1>7. diagnostics \subseteq diagnostics'
  BY <1>5, ItemsApart
<1>8. \A y \in Imported(x) \ {x} : source[y].kind = "code" => y \in analyzed
  BY <1>3, SearchFailsClosed
<1>9. QED
  BY <1>1, <1>2, <1>3, <1>4, <1>5, <1>6, <1>7, <1>8, StatementKeepsCycleInv

LEMMA SearchFoundKeepsCycleInv ==
  ASSUME ImportInv, CycleInv, SearchFound
  PROVE  CycleInv'
<1>1. Searching /\ TypeInv
  BY DEF ImportInv, SearchFound
<1>2. PICK k \in Names : k = Current
  BY <1>1, SearchTyped
<1>3. PICK x \in Names : x = Node.from
  BY <1>1, SearchTyped
<1>4. /\ frames # <<>> /\ x \in analyzed /\ search # <<>>
      /\ frames[Len(frames)].next \in DOMAIN CurrentImports
  BY <1>1, <1>3, SearchTyped DEF Searching
<1> DEFINE errors == Error("cyclic", Append(Path, Neighbor))
<1>5. /\ NextImport /\ search' = <<>> /\ TakeItem(errors)
      /\ UNCHANGED <<source, modules, importsModules, analyzed>>
  BY DEF SearchFound
<1>6. diagnostics \subseteq diagnostics' /\ diagnostics' # {} /\ ~NoCycleReported'
  <2>1. diagnostics \cup errors \subseteq diagnostics'
    BY <1>5, ItemsApart
  <2>2. \E d \in errors : d.kind = "cyclic"
    BY DEF Error
  <2>3. QED
    BY <2>1, <2>2 DEF NoCycleReported
<1>7. Handled(k, x)'
  <2>1. x \in Recorded(k) /\ x \in modules
    BY <1>1, <1>2, <1>3, <1>4 DEF CycleInv, SearchAtImport, TypeInv, TypeOK
  <2>2. QED
    BY <1>5, <1>6, <2>1 DEF Handled, Recorded
<1>8. QED
  BY <1>1, <1>2, <1>3, <1>4, <1>5, <1>6, <1>7, StatementKeepsCycleInv

\* Steps of the search that only change the search.
LEMMA SearchKeepsCycleInv ==
  ASSUME ImportInv, CycleInv, search # <<>>, search' # <<>>, SearchComplete',
         UNCHANGED <<source, modules, importsModules, analyzed, diagnostics, frames>>
  PROVE  CycleInv'
<1>1. \A m : Imported(m)' = Imported(m) /\ Recorded(m)' = Recorded(m)
  BY DEF Imported, Recorded
<1>2. /\ Current' = Current /\ CurrentImports' = CurrentImports /\ Node' = Node
      /\ UnderAnalysis' = UnderAnalysis /\ NoCycleReported' = NoCycleReported
  BY DEF Current, CurrentImports, Node, UnderAnalysis, NoCycleReported
<1>3. \A m, x : Handled(m, x)' = Handled(m, x)
  BY <1>1 DEF Handled
<1>4. \A C : Closed(C)' = Closed(C)
  BY <1>1 DEF Closed
<1> USE DEF CycleInv, RecordInv
<1>5. ModulesSplit' /\ UnknownUnrecorded' /\ FramesChain'
  <2>1. ModulesSplit' /\ UnknownUnrecorded'
    BY <1>2 DEF ModulesSplit, UnknownUnrecorded
  <2>2. FramesChain'
    BY <1>1 DEF FramesChain
  <2>3. QED
    BY <2>1, <2>2
<1>6. AnalyzedHandled' /\ FramesHandled'
  <2>1. AnalyzedHandled'
    BY <1>1, <1>3 DEF AnalyzedHandled
  <2>2. FramesHandled'
    BY <1>3 DEF FramesHandled
  <2>3. QED
    BY <2>1, <2>2
<1>7. FramesReach'
  BY <1>4 DEF FramesReach
<1>8. SearchAtImport'
  BY <1>2 DEF SearchAtImport, Recorded, Node, Current, CurrentImports
<1>9. AnalyzedClosed' /\ AnalyzedOrdered'
  BY <1>1, <1>2 DEF AnalyzedClosed, AnalyzedOrdered
<1>10. QED
  BY <1>5, <1>6, <1>7, <1>8, <1>9

LEMMA AvoidingKept ==
  ASSUME UNCHANGED importsModules, OriginalStart' = OriginalStart
  PROVE  Avoiding' = Avoiding
BY DEF Avoiding, Closed, Recorded

LEMMA SearchDeeperKeepsCycleInv ==
  ASSUME ImportInv, CycleInv, SearchDeeper
  PROVE  CycleInv'
<1>1. Searching /\ HasNeighbor /\ Neighbor # OriginalStart
  BY DEF SearchDeeper
<1> DEFINE n == Len(search)
           call == [name |-> Neighbor, next |-> 1]
           top == [search[n] EXCEPT !.next = @ + 1]
           rest == [search EXCEPT ![n] = top]
<1>2. /\ n \in Nat \ {0} /\ DOMAIN search = 1..n /\ search \in Seq(Frame)
      /\ \A i \in DOMAIN search : /\ search[i].name \in Names
                                  /\ search[i].next \in Nat \ {0}
                                  /\ importsModules[search[i].name] \in Seq(Names)
      /\ Neighbors = importsModules[search[n].name]
      /\ Neighbor = importsModules[search[n].name][search[n].next]
      /\ Neighbor \in Names
  BY <1>1, SearchTyped, NeighborType DEF Neighbor, ImportInv, TypeInv, TypeOK
<1>3. search[n] \in Frame
  <2>1. search \in Seq(Frame) /\ n \in DOMAIN search
    BY <1>2
  <2>2. QED
    BY <2>1
<1>4. /\ top \in Frame /\ top.name = search[n].name /\ top.next = search[n].next + 1
      /\ call \in Frame /\ call.name = Neighbor /\ call.next = 1
  <2>1. Neighbor \in Names
    BY <1>2
  <2> HIDE DEF n
  <2>2. QED
    BY <1>3, <2>1 DEF Frame
<1>5. search' = Append(rest, call)
  BY DEF SearchDeeper
<1>6. /\ rest \in Seq(Frame) /\ Len(rest) = n /\ rest[n] = top
      /\ \A i \in 1..(n - 1) : rest[i] = search[i]
  <2> HIDE DEF top, call, n
  <2>1. search \in [1..n -> Frame] /\ n \in 1..n
    BY <1>2
  <2>2. rest \in [1..n -> Frame] /\ rest[n] = top
    BY <1>4, <2>1
  <2>3. \A i \in 1..(n - 1) : i \in 1..n /\ i # n
    BY <1>2
  <2>4. \A i \in 1..(n - 1) : rest[i] = search[i]
    BY <2>1, <2>3
  <2>5. rest \in Seq(Frame) /\ Len(rest) = n
    BY <1>2, <2>2
  <2>6. QED
    BY <2>2, <2>4, <2>5
<1> HIDE DEF top, call, rest, n
<1>7. /\ Len(search') = n + 1 /\ DOMAIN search' = 1..(n + 1)
      /\ \A i \in 1..n : search'[i] = rest[i]
      /\ search'[n + 1] = call
  BY <1>2, <1>4, <1>5, <1>6
<1>8. /\ \A i \in 1..(n - 1) : search'[i] = search[i]
      /\ search'[n].name = search[n].name /\ search'[n].next = search[n].next + 1
      /\ search'[n + 1].name = Neighbor /\ search'[n + 1].next = 1
  <2>1. \A i \in 1..(n - 1) : i \in 1..n
    BY <1>2
  <2>2. n \in 1..n
    BY <1>2
  <2>3. QED
    BY <1>4, <1>6, <1>7, <2>1, <2>2
<1>9. UNCHANGED <<source, modules, importsModules, analyzed, diagnostics, frames>>
  BY DEF SearchDeeper
<1>10. \A i \in 1..n : search'[i].name = search[i].name
  <2>1. \A i \in 1..n : i \in 1..(n - 1) \/ i = n
    BY <1>2
  <2>2. QED
    BY <1>8, <2>1
<1>11. Avoiding' = Avoiding /\ OriginalStart' = OriginalStart
  <2>1. 1 \in 1..n
    BY <1>2
  <2>2. QED
    BY <1>9, <1>10, <2>1, AvoidingKept DEF OriginalStart
<1>12. SearchComplete'
  <2>1. SUFFICES ASSUME NEW i \in 1..(n + 1)
                 PROVE  /\ i > 1 => search'[i].name # OriginalStart
                        /\ \A j \in DOMAIN importsModules[search'[i].name] : j < search'[i].next =>
                             \/ importsModules[search'[i].name][j] \in Avoiding
                             \/ /\ i < n + 1
                                /\ j = search'[i].next - 1
                                /\ search'[i + 1].name = importsModules[search'[i].name][j]
    BY <1>7, <1>9, <1>11 DEF SearchComplete
  <2>2. CASE i = n + 1
    <3>1. importsModules[Neighbor] \in Seq(Names)
      BY <1>2 DEF ImportInv, TypeInv, TypeOK
    <3>2. \A j \in DOMAIN importsModules[Neighbor] : ~(j < 1)
      BY <3>1
    <3>3. QED
      BY <1>1, <1>8, <2>2, <3>2
  <2>3. CASE i \in 1..n
    <3>1. i > 1 => search'[i].name # OriginalStart
      BY <1>2, <1>10, <2>3 DEF CycleInv, SearchComplete
    <3>2. \A j \in DOMAIN importsModules[search[i].name] : j < search[i].next =>
            \/ importsModules[search[i].name][j] \in Avoiding
            \/ /\ i < n
               /\ j = search[i].next - 1
               /\ search[i + 1].name = importsModules[search[i].name][j]
      BY <1>2, <2>3 DEF CycleInv, SearchComplete, n
    <3>3. CASE i < n
      <4>1. i \in 1..(n - 1) /\ i + 1 \in 1..n
        BY <1>2, <2>3, <3>3
      <4>2. search'[i] = search[i] /\ search'[i + 1].name = search[i + 1].name
        BY <1>8, <1>10, <4>1
      <4>3. i < n + 1
        BY <1>2, <2>3
      <4>4. QED
        BY <3>1, <3>2, <4>2, <4>3
    <3>4. CASE i = n
      <4>1. n \in DOMAIN search /\ n < n + 1 /\ n \in 1..n
        BY <1>2
      <4>2. search[n].next \in Nat /\ search[n].next + 1 - 1 = search[n].next
        BY <1>2, <4>1
      <4>3. \A j \in DOMAIN importsModules[search[n].name] :
              j < search[n].next + 1 => j < search[n].next \/ j = search[n].next
        BY <1>2, <4>1, <4>2
      <4>4. \A j \in DOMAIN importsModules[search[n].name] : j < search[n].next =>
              importsModules[search[n].name][j] \in Avoiding
        BY <1>2, <3>2, <3>4
      <4>5. search'[n].name = search[n].name /\ search'[n].next = search[n].next + 1
            /\ search'[n + 1].name = importsModules[search[n].name][search[n].next]
        BY <1>2, <1>8
      <4>6. QED
        BY <3>1, <3>4, <4>1, <4>2, <4>3, <4>4, <4>5
    <3>5. QED
      BY <1>2, <2>3, <3>3, <3>4
  <2>4. QED
    BY <1>2, <2>2, <2>3
<1>13. search # <<>> /\ search' # <<>>
  BY <1>1, <1>2, <1>7 DEF Searching
<1>14. QED
  BY <1>9, <1>12, <1>13, SearchKeepsCycleInv

\* A module all of whose neighbors lead nowhere leads nowhere.
LEMMA AvoidingAll ==
  ASSUME NEW t \in Names, t # OriginalStart,
         \A j \in DOMAIN importsModules[t] : importsModules[t][j] \in Avoiding
  PROVE  t \in Avoiding
<1> DEFINE D == {t} \cup Avoiding
<1>1. Recorded(t) \subseteq Avoiding
  BY DEF Recorded
<1>2. Closed(D)
  BY <1>1 DEF Avoiding, Closed
<1>3. D \in SUBSET Names /\ t \in D /\ OriginalStart \notin D
  BY DEF Avoiding
<1>4. QED
  BY <1>2, <1>3 DEF Avoiding

LEMMA SearchReturnsKeepsCycleInv ==
  ASSUME ImportInv, CycleInv, SearchReturns
  PROVE  CycleInv'
<1>1. Searching /\ ~HasNeighbor /\ Len(search) > 1
  BY DEF SearchReturns
<1> DEFINE n == Len(search)
<1>2. /\ n \in Nat \ {0} /\ DOMAIN search = 1..n /\ search \in Seq(Frame)
      /\ \A i \in DOMAIN search : /\ search[i].name \in Names
                                  /\ search[i].next \in Nat \ {0}
                                  /\ importsModules[search[i].name] \in Seq(Names)
      /\ Neighbors = importsModules[search[n].name]
      /\ importsModules \in [Names -> Seq(Names)]
  BY <1>1, SearchTyped DEF ImportInv, TypeInv, TypeOK
<1>3. /\ Len(search') = n - 1 /\ DOMAIN search' = 1..(n - 1)
      /\ \A i \in 1..(n - 1) : search'[i] = search[i] /\ i \in DOMAIN search
  BY <1>1, <1>2 DEF SearchReturns
<1>4. UNCHANGED <<source, modules, importsModules, analyzed, diagnostics, frames>>
  BY DEF SearchReturns
<1> HIDE DEF n
<1>5. Avoiding' = Avoiding /\ OriginalStart' = OriginalStart
  <2>1. 1 \in 1..(n - 1)
    BY <1>1, <1>2 DEF n
  <2>2. search'[1] = search[1]
    BY <1>3, <2>1
  <2>3. QED
    BY <1>4, <2>2, AvoidingKept DEF OriginalStart
<1>6. PICK t \in Names : t = search[n].name
  <2>1. n \in DOMAIN search
    BY <1>2
  <2>2. QED
    BY <1>2, <2>1
<1>7. n \in DOMAIN search /\ n > 1
  BY <1>1, <1>2 DEF n
<1>8. \A j \in DOMAIN importsModules[t] : j < search[n].next
  <2>1. search[n].next \notin DOMAIN importsModules[t]
    BY <1>1, <1>2, <1>6 DEF HasNeighbor, n
  <2>2. importsModules[t] \in Seq(Names) /\ search[n].next \in Nat \ {0}
    BY <1>2, <1>6, <1>7
  <2>3. QED
    BY <2>1, <2>2
<1>9. /\ t # OriginalStart
      /\ \A j \in DOMAIN importsModules[t] : importsModules[t][j] \in Avoiding
  <2>1. /\ n > 1 => search[n].name # OriginalStart
        /\ \A j \in DOMAIN importsModules[search[n].name] : j < search[n].next =>
             importsModules[search[n].name][j] \in Avoiding
    <3>1. ~(n < Len(search))
      BY <1>2 DEF n
    <3>2. QED
      BY <1>7, <3>1 DEF CycleInv, SearchComplete
  <2>2. QED
    BY <1>6, <1>7, <1>8, <2>1
<1>10. t \in Avoiding
  BY <1>9, AvoidingAll
<1>11. SearchComplete'
  <2>1. SUFFICES ASSUME NEW i \in 1..(n - 1)
                 PROVE  /\ i > 1 => search[i].name # OriginalStart
                        /\ \A j \in DOMAIN importsModules[search[i].name] : j < search[i].next =>
                             \/ importsModules[search[i].name][j] \in Avoiding
                             \/ /\ i < n - 1
                                /\ j = search[i].next - 1
                                /\ search'[i + 1].name = importsModules[search[i].name][j]
    BY <1>3, <1>4, <1>5 DEF SearchComplete
  <2>2. /\ i > 1 => search[i].name # OriginalStart
        /\ \A j \in DOMAIN importsModules[search[i].name] : j < search[i].next =>
             \/ importsModules[search[i].name][j] \in Avoiding
             \/ /\ i < n
                /\ j = search[i].next - 1
                /\ search[i + 1].name = importsModules[search[i].name][j]
    BY <1>3 DEF CycleInv, SearchComplete, n
  <2>3. CASE i = n - 1
    <3>1. i + 1 = n
      BY <1>2, <2>3
    <3>2. QED
      BY <1>6, <1>10, <2>2, <3>1
  <2>4. CASE i # n - 1
    <3>1. i < n - 1 /\ i + 1 \in 1..(n - 1)
      BY <1>2, <2>4
    <3>2. search'[i + 1] = search[i + 1]
      BY <1>3, <3>1
    <3>3. QED
      BY <2>2, <3>1, <3>2
  <2>5. QED
    BY <2>3, <2>4
<1>12. search # <<>> /\ search' # <<>>
  BY <1>1, <1>2, <1>3 DEF Searching, n
<1>13. QED
  BY <1>4, <1>11, <1>12, SearchKeepsCycleInv

LEMMA UnchangedKeepsCycleInv ==
  ASSUME CycleInv,
         UNCHANGED <<source, modules, importsModules, analyzed, diagnostics, frames, search>>
  PROVE  CycleInv'
<1> USE DEF CycleInv, RecordInv
<1>1. Current' = Current /\ CurrentImports' = CurrentImports /\ Node' = Node
  BY DEF Current, CurrentImports, Node
<1>2. ModulesSplit' /\ UnknownUnrecorded' /\ FramesChain'
  <2>1. ModulesSplit' /\ UnknownUnrecorded'
    BY DEF ModulesSplit, UnderAnalysis, UnknownUnrecorded
  <2>2. FramesChain'
    BY DEF FramesChain, Recorded
  <2>3. QED
    BY <2>1, <2>2
<1>3. AnalyzedHandled' /\ FramesHandled'
  <2>1. \A m, x : Handled(m, x)' = Handled(m, x)
    BY DEF Handled, Recorded
  <2>2. AnalyzedHandled'
    BY <2>1 DEF AnalyzedHandled, Imported
  <2>3. FramesHandled'
    BY <2>1 DEF FramesHandled
  <2>4. QED
    BY <2>2, <2>3
<1>4. FramesReach'
  BY DEF FramesReach, Closed, Recorded
<1>5. SearchAtImport'
  BY <1>1 DEF SearchAtImport, Recorded
<1>6. SearchComplete'
  <2>1. Avoiding' = Avoiding /\ OriginalStart' = OriginalStart
    BY AvoidingKept DEF OriginalStart
  <2>2. QED
    BY <2>1 DEF SearchComplete
<1>7. (\A m : Imported(m)' = Imported(m)) /\ NoCycleReported' = NoCycleReported
  BY DEF Imported, NoCycleReported
<1>8. AnalyzedClosed'
  BY <1>1, <1>7 DEF AnalyzedClosed
<1>9. AnalyzedOrdered'
  <2> SUFFICES ASSUME NoCycleReported', NEW S \in (SUBSET analyzed) \ {{}}
               PROVE  \E m \in S : (Imported(m) \ {m}) \cap S = {}
    BY <1>7 DEF AnalyzedOrdered
  <2>1. QED
    BY <1>7 DEF AnalyzedOrdered
<1>10. QED
  BY <1>2, <1>3, <1>4, <1>5, <1>6, <1>8, <1>9

\* The invariant behind both theorems: what the search has passed by leads nowhere,
\* and so an analysed module imports analysed modules only.
THEOREM CycleInvariant == Spec => []CycleInv
<1>1. Init => CycleInv
  BY InitCycleInv
<1>2. ImportInv /\ CycleInv /\ [Next]_vars => CycleInv'
  <2> SUFFICES ASSUME ImportInv, CycleInv, [Next]_vars
               PROVE  CycleInv'
    OBVIOUS
  <2>1. CASE SearchOverflow
    BY <2>1, UnchangedKeepsCycleInv DEF SearchOverflow
  <2>2. CASE UNCHANGED vars
    BY <2>2, UnchangedKeepsCycleInv DEF vars
  <2>3. QED
    BY <2>1, <2>2, ImportKeepsCycleInv, ImportNewKeepsCycleInv, FinishModuleKeepsCycleInv,
       SearchFoundKeepsCycleInv, SearchFailsKeepsCycleInv, SearchDeeperKeepsCycleInv,
       SearchReturnsKeepsCycleInv DEF Next
<1>3. QED
  BY <1>1, <1>2, ImportInvariant, PTL DEF Spec

-----------------------------------------------------------------------------
(* Theorems                                                                *)

\* A program that the analyzer accepts has no import cycle (topLevel.go:389-400 and
\* 406-533 together), however many modules it has.
THEOREM AcceptedProgramsAreAcyclic == Spec => []AcceptedIsAcyclic
<1>1. ImportInv /\ CycleInv => AcceptedIsAcyclic
  <2>1. SUFFICES ASSUME ImportInv, CycleInv, diagnostics = {},
                        NEW S \in SUBSET analyzed, S # {}
                 PROVE  \E m \in S : Imported(m) \cap S = {}
    BY DEF AcceptedIsAcyclic
  <2>2. PICK m \in S : (Imported(m) \ {m}) \cap S = {}
    BY <2>1 DEF CycleInv, AnalyzedOrdered, NoCycleReported
  <2>3. m \notin Imported(m)
    <3>1. source[m].kind = "code"
      BY <2>1, <2>2 DEF ImportInv, TypeInv, TypeOK, CycleInv, RecordInv, ModulesSplit
    <3>2. QED
      BY <2>1, <2>2, <3>1 DEF CycleInv, RecordInv, AnalyzedHandled, Handled
  <2>4. QED
    BY <2>2, <2>3
<1>2. QED
  BY <1>1, ImportInvariant, CycleInvariant, PTL

\* When the analysis has ended, a circle of imports has been reported (topLevel.go:393),
\* wherever it is and in whatever order its modules were imported.
THEOREM CyclesAreDiagnosed == Spec => []CyclesDiagnosed
<1>1. CycleInv => CyclesDiagnosed
  BY DEF CycleInv, AnalyzedOrdered, NoCycleReported, CyclesDiagnosed
<1>2. QED
  BY <1>1, CycleInvariant, PTL
=============================================================================
