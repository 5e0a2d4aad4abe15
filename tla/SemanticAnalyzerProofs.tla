----------------------- MODULE SemanticAnalyzerProofs -----------------------
(***************************************************************************)
(* Proofs about SemanticAnalyzer, for every set of parsed units: types,    *)
(* the size of the table, what an accepted unit is, and that the error     *)
(* list is exactly the faults of the program.                              *)
(***************************************************************************)
EXTENDS SemanticAnalyzer, FiniteSetTheorems, SequenceTheorems, TLAPS

NameAt(l) == unit.labels[l].name

LEMMA UnitFacts ==
  ASSUME IsParsed(unit)
  PROVE  /\ Len(unit.labels) \in Nat
         /\ unit.instruction_labels \in Nat /\ unit.instruction_labels <= Len(unit.labels)
         /\ \A l \in 1 .. Len(unit.labels) :
              /\ NameAt(l) \in Name \union {NoName}
              /\ l <= unit.instruction_labels => NameAt(l) # NoName
              /\ Len(unit.labels[l].nodes) \in Nat
         /\ Len(unit.externals) \in Nat
         /\ \A x \in 1 .. Len(unit.externals) : unit.externals[x] \in Name
         /\ Len(unit.entries) \in Nat
<1> DEFINE low == Lowered(unit)
<1>1. /\ Len(unit.labels) \in Nat
      /\ IsTranslationUnit(low)
      /\ unit.externals \in Seq(Name)
      /\ \A l \in 1 .. Len(unit.labels) :
           /\ l <= unit.instruction_labels => unit.labels[l].name # NoName
           /\ Len(unit.labels[l].nodes) \in Nat
  BY DEF IsParsed
<1>2. /\ low.instruction_labels = unit.instruction_labels
      /\ low.entries = unit.entries
      /\ low.labels = [l \in 1 .. Len(unit.labels) |->
                 [name |-> unit.labels[l].name,
                  nodes |-> [n \in 1 .. Len(unit.labels[l].nodes) |->
                               LoweredNode(unit.labels[l].nodes[n])]]]
  BY DEF Lowered
<1>3. Len(low.labels) = Len(unit.labels)
  BY <1>1, <1>2
<1>4. \A l \in 1 .. Len(unit.labels) : low.labels[l].name = unit.labels[l].name
  BY <1>2
<1> HIDE DEF low
<1>5. /\ low.instruction_labels \in 0 .. Len(low.labels)
      /\ \A l \in 1 .. Len(low.labels) : low.labels[l].name \in Name \union {NoName}
      /\ low.entries \in Seq(Name)
  BY <1>1 DEF IsTranslationUnit
<1>6. /\ Len(unit.externals) \in Nat
      /\ \A x \in 1 .. Len(unit.externals) : unit.externals[x] \in Name
      /\ Len(unit.entries) \in Nat
  BY <1>1, <1>2, <1>5, LenProperties, ElementOfSeq
<1>7. low.instruction_labels \in 0 .. Len(unit.labels)
  BY <1>3, <1>5
<1>8. unit.instruction_labels \in Nat /\ unit.instruction_labels <= Len(unit.labels)
  BY <1>1, <1>2, <1>7
<1>9. \A l \in 1 .. Len(unit.labels) : NameAt(l) \in Name \union {NoName}
  BY <1>3, <1>4, <1>5 DEF NameAt
<1>10. \A l \in 1 .. Len(unit.labels) :
         l <= unit.instruction_labels => NameAt(l) # NoName
  BY <1>1 DEF NameAt
<1>11. QED
  BY <1>1, <1>6, <1>8, <1>9, <1>10

-----------------------------------------------------------------------------
(* Types *)

Lists == {"labels", "externals", "entries"}
Errors == [list : Lists \union {"nodes"}, index : Nat, node : Nat]

LEMMA ListLength ==
  ASSUME IsParsed(unit)
  PROVE  /\ DOMAIN Declarations = Lists
         /\ Declarations["labels"] = unit.labels
         /\ Declarations["externals"] = unit.externals
         /\ Declarations["entries"] = unit.entries
         /\ \A l \in Lists : Len(Declarations[l]) \in Nat
<1>1. /\ DOMAIN Declarations = Lists
      /\ Declarations["labels"] = unit.labels
      /\ Declarations["externals"] = unit.externals
      /\ Declarations["entries"] = unit.entries
  BY DEF Declarations, Lists
<1>2. \A l \in Lists : Len(Declarations[l]) \in Nat
  BY <1>1, UnitFacts DEF Lists
<1>3. QED
  BY <1>1, <1>2

\* Where the walk is.
Walks ==
  /\ pc \in {"initialize", "labels", "externals", "entries", "nodes", "done"}
  /\ at \in Nat /\ node \in Nat /\ size \in Nat /\ inserts \in Nat
  /\ pc = "initialize" => at = 1 /\ inserts = 0
  /\ pc = "labels" => at \in 1 .. Len(unit.labels) + 1
  /\ pc = "externals" => at \in 1 .. Len(unit.externals) + 1
  /\ pc = "entries" => at \in 1 .. Len(unit.entries) + 1
  /\ pc = "nodes" => at \in 1 .. Len(unit.labels) + 1
  /\ pc = "nodes" /\ at <= Len(unit.labels) =>
       node \in 1 .. Len(unit.labels[at].nodes) + 1

TypeInv ==
  /\ IsParsed(unit)
  /\ Walks
  /\ table \subseteq CellType
  /\ error_list \subseteq Errors

LEMMA TypesHold == TypeInv => TypeOK
<1> SUFFICES ASSUME TypeInv PROVE TypeOK
  OBVIOUS
<1>1. pc \in DOMAIN Declarations => at \in 1 .. Len(Declarations[pc]) + 1
  BY ListLength DEF TypeInv, Walks, Lists
<1>2. QED
  BY <1>1 DEF TypeInv, Walks, TypeOK, Errors, Lists

LEMMA InitTypes == Init => TypeInv
<1> SUFFICES ASSUME Init PROVE TypeInv
  OBVIOUS
<1>1. IsParsed(unit)
  BY ParsedAssumption DEF Init
<1>2. QED
  BY <1>1 DEF Init, TypeInv, Walks

LEMMA ReportTypes ==
  ASSUME TypeInv, pc \in Lists \union {"nodes"}, NEW condition
  PROVE  Report(condition) \subseteq Errors
<1>1. Place(pc, at, node) \in Errors
  BY DEF TypeInv, Walks, Place, Errors
<1>2. QED
  BY <1>1 DEF Report, TypeInv

LEMMA CountedType ==
  ASSUME IsParsed(unit)
  PROVE  /\ IsFiniteSet({l \in 1 .. Len(unit.labels) :
                           l <= unit.instruction_labels \/ unit.labels[l].name # NoName})
         /\ Counted(unit) \in Nat
<1> DEFINE S == {l \in 1 .. Len(unit.labels) :
                   l <= unit.instruction_labels \/ unit.labels[l].name # NoName}
<1>1. IsFiniteSet(1 .. Len(unit.labels))
  <2>1. Len(unit.labels) \in Int /\ 1 \in Int
    BY UnitFacts
  <2>2. QED
    BY <2>1, FS_Interval
<1>2. IsFiniteSet(S)
  BY <1>1, FS_Subset
<1>3. Cardinality(S) \in Nat
  BY <1>2, FS_CardinalityType
<1>4. Len(unit.externals) \in Nat
  BY UnitFacts
<1>5. QED
  BY <1>2, <1>3, <1>4 DEF Counted

LEMMA InsertTypes ==
  ASSUME TypeInv, NEW name \in Name, NEW type \in {"label", "external"},
         Insert(name, type)
  PROVE  table' \subseteq CellType /\ inserts' \in Nat
BY DEF Insert, Cell, CellType, TypeInv, Walks

LEMMA StepTypes == TypeInv /\ [Next]_vars => TypeInv'
<1> SUFFICES ASSUME TypeInv, [Next]_vars PROVE TypeInv'
  OBVIOUS
<1> USE DEF TypeInv
<1>1. CASE Initialize
  <2>1. Walks'
    BY <1>1, CountedType, UnitFacts DEF Initialize, Walks
  <2>2. QED
    BY <1>1, <2>1 DEF Initialize
<1>2. CASE ValidateLabel
  <2>1. pc = "labels" /\ at <= Len(unit.labels)
    BY <1>2 DEF ValidateLabel
  <2>2. at \in 1 .. Len(unit.labels)
    BY <2>1, UnitFacts DEF Walks
  <2>3. table' \subseteq CellType /\ inserts' \in Nat /\ error_list' \subseteq Errors
    <3>1. CASE UNCHANGED <<table, inserts, error_list>>
      BY <3>1 DEF Walks
    <3>2. CASE /\ at <= unit.instruction_labels \/ NameAt(at) # NoName
               /\ Insert(NameAt(at), "label")
               /\ error_list' = Report(Known(NameAt(at)))
      <4>1. NameAt(at) \in Name
        BY <2>2, <3>2, UnitFacts
      <4>2. QED
        BY <2>1, <3>2, <4>1, InsertTypes, ReportTypes DEF Lists
    <3>3. QED
      BY <1>2, <3>1, <3>2 DEF ValidateLabel, NameAt
  <2>4. Walks'
    BY <1>2, <2>1, <2>2, <2>3, UnitFacts DEF ValidateLabel, Walks
  <2>5. QED
    BY <1>2, <2>3, <2>4 DEF ValidateLabel
<1>3. CASE ValidateExternal
  <2>1. pc = "externals" /\ at <= Len(unit.externals)
    BY <1>3 DEF ValidateExternal
  <2>2. at \in 1 .. Len(unit.externals) /\ unit.externals[at] \in Name
    BY <2>1, UnitFacts DEF Walks
  <2>3. table' \subseteq CellType /\ inserts' \in Nat /\ error_list' \subseteq Errors
    <3>1. CASE Insert(unit.externals[at], "external") /\ UNCHANGED error_list
      BY <3>1, <2>2, InsertTypes
    <3>2. CASE error_list' = Report(TRUE) /\ UNCHANGED <<table, inserts>>
      BY <3>2, <2>1, ReportTypes DEF Walks, Lists
    <3>3. QED
      BY <1>3, <3>1, <3>2 DEF ValidateExternal
  <2>4. Walks'
    BY <1>3, <2>1, <2>2, <2>3, UnitFacts DEF ValidateExternal, Walks
  <2>5. QED
    BY <1>3, <2>3, <2>4 DEF ValidateExternal
<1>4. CASE ValidateEntry
  <2>1. pc = "entries" /\ at <= Len(unit.entries)
    BY <1>4 DEF ValidateEntry
  <2>2. error_list' \subseteq Errors
    BY <1>4, <2>1, ReportTypes DEF ValidateEntry, Lists
  <2>3. Walks'
    BY <1>4, <2>1, UnitFacts DEF ValidateEntry, Walks
  <2>4. QED
    BY <1>4, <2>2, <2>3 DEF ValidateEntry
<1>5. CASE FinishList
  <2>1. Walks'
    <3>1. /\ pc \in Lists /\ UNCHANGED <<unit, size, inserts>>
          /\ at' = 1 /\ node' = IF pc = "entries" THEN 1 ELSE 0
          /\ pc' = CASE pc = "labels" -> "externals"
                      [] pc = "externals" -> "entries"
                      [] pc = "entries" -> "nodes"
      BY <1>5, ListLength DEF FinishList
    <3>2. CASE pc = "labels"
      BY <3>1, <3>2, UnitFacts DEF Walks
    <3>3. CASE pc = "externals"
      BY <3>1, <3>3, UnitFacts DEF Walks
    <3>4. CASE pc = "entries"
      <4>1. pc' = "nodes" /\ node' = 1
        BY <3>1, <3>4
      <4>2. 1 <= Len(unit.labels) => Len(unit.labels[1].nodes) \in Nat
        BY UnitFacts
      <4>3. QED
        BY <3>1, <4>1, <4>2, UnitFacts DEF Walks
    <3>5. QED
      BY <3>1, <3>2, <3>3, <3>4 DEF Lists
  <2>2. QED
    BY <1>5, <2>1 DEF FinishList
<1>6. CASE AnalyzeNode
  <2>1. pc = "nodes" /\ at <= Len(unit.labels) /\ node <= Len(unit.labels[at].nodes)
    BY <1>6 DEF AnalyzeNode
  <2>2. error_list' \subseteq Errors
    BY <1>6, <2>1, ReportTypes DEF AnalyzeNode
  <2>3. Walks'
    BY <1>6, <2>1, UnitFacts DEF AnalyzeNode, Walks
  <2>4. QED
    BY <1>6, <2>2, <2>3 DEF AnalyzeNode
<1>7. CASE FinishLabel
  <2>1. Walks'
    BY <1>7, UnitFacts DEF FinishLabel, Walks
  <2>2. QED
    BY <1>7, <2>1 DEF FinishLabel
<1>8. CASE FinishAnalysis
  BY <1>8 DEF FinishAnalysis, Walks
<1>9. CASE UNCHANGED vars
  BY <1>9 DEF vars, Walks
<1>10. QED
  BY <1>1, <1>2, <1>3, <1>4, <1>5, <1>6, <1>7, <1>8, <1>9 DEF Next

\* The walk stays within its lists and the table holds declarations.
THEOREM TypeCorrect == Spec => []TypeOK
<1>1. Spec => []TypeInv
  BY InitTypes, StepTypes, PTL DEF Spec
<1>2. QED
  BY <1>1, TypesHold, PTL

-----------------------------------------------------------------------------
(* The size of the table *)

Labelled == {l \in 1 .. Len(unit.labels) :
               l <= unit.instruction_labels \/ unit.labels[l].name # NoName}
LabelledBefore(n) == {l \in Labelled : l < n}

\* The insertions so far, against the declarations read so far.
CountInv ==
  /\ pc # "initialize" => size = Counted(unit)
  /\ pc = "initialize" => inserts = 0
  /\ pc = "labels" => inserts <= Cardinality(LabelledBefore(at))
  /\ pc = "externals" => inserts <= Cardinality(Labelled) + (at - 1)
  /\ pc \in {"entries", "nodes", "done"} =>
       inserts <= Cardinality(Labelled) + Len(unit.externals)

LEMMA LabelledFinite ==
  ASSUME IsParsed(unit)
  PROVE  /\ IsFiniteSet(Labelled) /\ Cardinality(Labelled) \in Nat
         /\ \A n \in Nat : /\ IsFiniteSet(LabelledBefore(n))
                           /\ Cardinality(LabelledBefore(n)) \in Nat
         /\ Counted(unit) = Cardinality(Labelled) + Len(unit.externals)
<1>1. IsFiniteSet(Labelled)
  BY CountedType DEF Labelled
<1>2. \A n \in Nat : IsFiniteSet(LabelledBefore(n))
  BY <1>1, FS_Subset DEF LabelledBefore
<1>3. QED
  BY <1>1, <1>2, FS_CardinalityType DEF Counted, Labelled

LEMMA LabelledStep ==
  ASSUME IsParsed(unit), NEW n \in 1 .. Len(unit.labels)
  PROVE  /\ n \in Labelled => Cardinality(LabelledBefore(n + 1)) =
                                Cardinality(LabelledBefore(n)) + 1
         /\ n \notin Labelled => LabelledBefore(n + 1) = LabelledBefore(n)
<1>1. n \in Nat /\ Len(unit.labels) \in Nat
  BY UnitFacts
<1>2. \A l \in Labelled : l < n + 1 <=> l < n \/ l = n
  BY <1>1 DEF Labelled
<1>3. LabelledBefore(n + 1) = LabelledBefore(n) \union (Labelled \intersect {n})
  BY <1>2 DEF LabelledBefore
<1>4. n \notin LabelledBefore(n)
  BY <1>1 DEF LabelledBefore
<1>5. ASSUME n \in Labelled
      PROVE  Cardinality(LabelledBefore(n + 1)) = Cardinality(LabelledBefore(n)) + 1
  <2>1. LabelledBefore(n + 1) = LabelledBefore(n) \union {n}
    BY <1>3, <1>5
  <2>2. IsFiniteSet(LabelledBefore(n))
    BY <1>1, LabelledFinite
  <2>3. QED
    BY <2>1, <2>2, <1>4, FS_AddElement
<1>6. QED
  BY <1>3, <1>5

LEMMA StepCount == TypeInv /\ CountInv /\ [Next]_vars => CountInv'
<1> SUFFICES ASSUME TypeInv, CountInv, [Next]_vars PROVE CountInv'
  OBVIOUS
<1> USE DEF CountInv
<1>1. /\ IsParsed(unit) /\ at \in Nat /\ inserts \in Nat
      /\ Len(unit.labels) \in Nat /\ Len(unit.externals) \in Nat
      /\ Cardinality(Labelled) \in Nat
      /\ Cardinality(LabelledBefore(at)) \in Nat
  BY UnitFacts, LabelledFinite DEF TypeInv, Walks
<1>2. unit' = unit
  BY DEF Next, vars, Initialize, ValidateLabel, ValidateExternal, ValidateEntry,
         FinishList, AnalyzeNode, FinishLabel, FinishAnalysis
<1>3. /\ Labelled' = Labelled /\ Counted(unit)' = Counted(unit)
      /\ LabelledBefore(at)' = LabelledBefore(at')
  BY <1>2 DEF Labelled, LabelledBefore, Counted
<1>4. CASE Initialize
  <2>1. pc' = "labels" /\ size' = Counted(unit) /\ inserts' = 0 /\ at' = at
    BY <1>4 DEF Initialize
  <2>2. QED
    BY <2>1, <1>1, <1>3
<1>5. CASE ValidateLabel
  <2>1. pc = "labels" /\ pc' = "labels" /\ size' = size /\ at' = at + 1
          /\ at \in 1 .. Len(unit.labels)
    BY <1>5, <1>1 DEF ValidateLabel, TypeInv, Walks
  <2>2. inserts' = IF at \in Labelled THEN inserts + 1 ELSE inserts
    <3>1. at \in Labelled <=>
            at <= unit.instruction_labels \/ unit.labels[at].name # NoName
      BY <2>1 DEF Labelled
    <3>2. \/ /\ at <= unit.instruction_labels \/ unit.labels[at].name # NoName
             /\ inserts' = inserts + 1
          \/ /\ at > unit.instruction_labels /\ unit.labels[at].name = NoName
             /\ inserts' = inserts
      BY <1>5 DEF ValidateLabel, Insert
    <3>3. ~(at > unit.instruction_labels /\ at <= unit.instruction_labels)
      BY <1>1, UnitFacts
    <3>4. QED
      BY <3>1, <3>2, <3>3
  <2>3. inserts' <= Cardinality(LabelledBefore(at + 1))
    BY <1>1, <2>1, <2>2, LabelledStep
  <2>4. QED
    BY <1>3, <2>1, <2>3
<1>6. CASE ValidateExternal
  <2>1. /\ pc = "externals" /\ pc' = "externals" /\ size' = size /\ at' = at + 1
        /\ inserts' = inserts + 1 \/ inserts' = inserts
    BY <1>6 DEF ValidateExternal, Insert
  <2>2. QED
    BY <1>1, <1>3, <2>1
<1>7. CASE ValidateEntry \/ AnalyzeNode \/ FinishLabel \/ FinishAnalysis
  <2>1. /\ pc \in {"entries", "nodes", "done"} /\ pc' \in {"entries", "nodes", "done"}
        /\ size' = size /\ inserts' = inserts
    BY <1>7 DEF ValidateEntry, AnalyzeNode, FinishLabel, FinishAnalysis
  <2>2. QED
    BY <1>2, <1>3, <2>1
<1>8. CASE FinishList
  <2>1. /\ pc \in Lists /\ at > Len(Declarations[pc])
        /\ size' = size /\ inserts' = inserts /\ at' = 1
        /\ pc' = CASE pc = "labels" -> "externals"
                   [] pc = "externals" -> "entries"
                   [] pc = "entries" -> "nodes"
    BY <1>8, <1>1, ListLength DEF FinishList
  <2>2. CASE pc = "labels"
    <3>1. at = Len(unit.labels) + 1
      BY <1>1, <2>1, <2>2, ListLength DEF TypeInv, Walks
    <3>2. LabelledBefore(at) = Labelled
      BY <1>1, <3>1 DEF LabelledBefore, Labelled
    <3>3. QED
      BY <1>1, <1>3, <2>1, <2>2, <3>2
  <2>3. CASE pc = "externals"
    <3>1. at = Len(unit.externals) + 1
      BY <1>1, <2>1, <2>3, ListLength DEF TypeInv, Walks
    <3>2. QED
      BY <1>1, <1>2, <1>3, <2>1, <2>3, <3>1
  <2>4. CASE pc = "entries"
    BY <1>2, <1>3, <2>1, <2>4
  <2>5. QED
    BY <2>1, <2>2, <2>3, <2>4 DEF Lists
<1>9. CASE UNCHANGED vars
  BY <1>2, <1>3, <1>9 DEF vars
<1>10. QED
  BY <1>4, <1>5, <1>6, <1>7, <1>8, <1>9 DEF Next

\* The table never takes more insertions than the count it was allocated for:
\* semantic_analyzer_insert_identifier always finds a free slot.
THEOREM InsertsFit == Spec => []InsertsCounted
<1>1. Init => CountInv
  BY DEF Init, CountInv
<1>2. TypeInv /\ CountInv => InsertsCounted
  <2> SUFFICES ASSUME TypeInv, CountInv, pc # "initialize" PROVE inserts <= size
    BY DEF InsertsCounted
  <2>1. /\ IsParsed(unit) /\ at \in Nat /\ inserts \in Nat
        /\ pc \in Lists \union {"nodes", "done"}
    BY DEF TypeInv, Walks, Lists
  <2>2. /\ size = Cardinality(Labelled) + Len(unit.externals)
        /\ Cardinality(Labelled) \in Nat /\ Len(unit.externals) \in Nat
    BY <2>1, LabelledFinite, UnitFacts DEF CountInv
  <2>3. CASE pc = "labels"
    <3>1. LabelledBefore(at) \subseteq Labelled
      BY DEF LabelledBefore
    <3>2. Cardinality(LabelledBefore(at)) <= Cardinality(Labelled)
      BY <2>1, <3>1, LabelledFinite, FS_Subset
    <3>3. Cardinality(LabelledBefore(at)) \in Nat
      BY <2>1, LabelledFinite
    <3>4. QED
      BY <2>1, <2>2, <2>3, <3>2, <3>3 DEF CountInv
  <2>4. CASE pc = "externals"
    BY <2>1, <2>2, <2>4 DEF CountInv, TypeInv, Walks
  <2>5. CASE pc \in {"entries", "nodes", "done"}
    BY <2>2, <2>5 DEF CountInv
  <2>6. QED
    BY <2>1, <2>3, <2>4, <2>5 DEF Lists
<1>3. QED
  BY <1>1, <1>2, InitTypes, StepTypes, StepCount, PTL DEF Spec

-----------------------------------------------------------------------------
(* Accepted units *)

LabelIndex == 1 .. Len(unit.labels)
ExternalIndex == 1 .. Len(unit.externals)
EntryIndex == 1 .. Len(unit.entries)
NodeIndex(l) == 1 .. Len(unit.labels[l].nodes)

\* What the walk has passed, and what a step passes.
LabelRead(l) == \/ pc \in {"externals", "entries", "nodes", "done"}
                \/ pc = "labels" /\ l < at
ExternalRead(x) == \/ pc \in {"entries", "nodes", "done"}
                   \/ pc = "externals" /\ x < at
EntryRead(e) == \/ pc \in {"nodes", "done"}
                \/ pc = "entries" /\ e < at
NodeRead(l, n) == \/ pc = "done"
                  \/ pc = "nodes" /\ (l < at \/ (l = at /\ n < node))

Passes(list) == pc = list /\ at' = at + 1
PassesNode == pc = "nodes" /\ node' = node + 1

LEMMA WalkFacts ==
  ASSUME TypeInv
  PROVE  /\ IsParsed(unit) /\ at \in Nat /\ node \in Nat
         /\ pc \in {"initialize", "labels", "externals", "entries", "nodes", "done"}
         /\ Len(unit.labels) \in Nat /\ Len(unit.externals) \in Nat
         /\ Len(unit.entries) \in Nat
         /\ LabelIndex \subseteq Nat /\ ExternalIndex \subseteq Nat
         /\ EntryIndex \subseteq Nat /\ \A l \in LabelIndex : NodeIndex(l) \subseteq Nat
BY UnitFacts DEF TypeInv, Walks, LabelIndex, ExternalIndex, EntryIndex, NodeIndex

\* Which action passes an element.
LEMMA Passing ==
  ASSUME TypeInv, [Next]_vars
  PROVE  /\ unit' = unit /\ error_list \subseteq error_list' /\ table \subseteq table'
         /\ Passes("labels") => ValidateLabel /\ at \in LabelIndex
         /\ Passes("externals") => ValidateExternal /\ at \in ExternalIndex
         /\ Passes("entries") => ValidateEntry /\ at \in EntryIndex
         /\ PassesNode => AnalyzeNode /\ at \in LabelIndex /\ node \in NodeIndex(at)
         /\ table' # table => Passes("labels") \/ Passes("externals")
<1> USE WalkFacts DEF Passes, PassesNode
<1>1. CASE Initialize
  BY <1>1 DEF Initialize
<1>2. CASE ValidateLabel
  BY <1>2 DEF ValidateLabel, Insert, Report, TypeInv, Walks, LabelIndex
<1>3. CASE ValidateExternal
  BY <1>3 DEF ValidateExternal, Insert, Report, TypeInv, Walks, ExternalIndex
<1>4. CASE ValidateEntry
  BY <1>4 DEF ValidateEntry, Report, TypeInv, Walks, EntryIndex
<1>5. CASE FinishList
  BY <1>5 DEF FinishList, Declarations, TypeInv, Walks
<1>6. CASE AnalyzeNode
  BY <1>6 DEF AnalyzeNode, Report, TypeInv, Walks, LabelIndex, NodeIndex
<1>7. CASE FinishLabel
  BY <1>7 DEF FinishLabel, TypeInv, Walks
<1>8. CASE FinishAnalysis
  BY <1>8 DEF FinishAnalysis
<1>9. CASE UNCHANGED vars
  BY <1>9 DEF vars
<1>10. QED
  BY <1>1, <1>2, <1>3, <1>4, <1>5, <1>6, <1>7, <1>8, <1>9 DEF Next

LEMMA ListsRead ==
  ASSUME TypeInv, [Next]_vars, NEW i \in Nat
  PROVE  /\ i \in LabelIndex =>
              (LabelRead(i)' <=> LabelRead(i) \/ (Passes("labels") /\ i = at))
         /\ i \in ExternalIndex =>
              (ExternalRead(i)' <=> ExternalRead(i) \/ (Passes("externals") /\ i = at))
         /\ i \in EntryIndex =>
              (EntryRead(i)' <=> EntryRead(i) \/ (Passes("entries") /\ i = at))
<1> USE WalkFacts DEF Passes, LabelRead, ExternalRead, EntryRead
<1>1. CASE Initialize
  BY <1>1 DEF Initialize, TypeInv, Walks, LabelIndex
<1>2. CASE ValidateLabel
  BY <1>2 DEF ValidateLabel
<1>3. CASE ValidateExternal
  BY <1>3 DEF ValidateExternal
<1>4. CASE ValidateEntry
  BY <1>4 DEF ValidateEntry
<1>5. CASE FinishList
  <2>1. /\ pc \in Lists /\ at' = 1
        /\ pc = "labels" => pc' = "externals" /\ at > Len(unit.labels)
        /\ pc = "externals" => pc' = "entries" /\ at > Len(unit.externals)
        /\ pc = "entries" => pc' = "nodes" /\ at > Len(unit.entries)
    BY <1>5, ListLength DEF FinishList
  <2>2. CASE pc = "labels"
    BY <2>1, <2>2 DEF LabelIndex, ExternalIndex
  <2>3. CASE pc = "externals"
    BY <2>1, <2>3 DEF ExternalIndex, EntryIndex
  <2>4. CASE pc = "entries"
    BY <2>1, <2>4 DEF EntryIndex
  <2>5. QED
    BY <2>1, <2>2, <2>3, <2>4 DEF Lists
<1>6. CASE AnalyzeNode
  BY <1>6 DEF AnalyzeNode
<1>7. CASE FinishLabel
  BY <1>7 DEF FinishLabel
<1>8. CASE FinishAnalysis
  BY <1>8 DEF FinishAnalysis
<1>9. CASE UNCHANGED vars
  BY <1>9 DEF vars
<1>10. QED
  BY <1>1, <1>2, <1>3, <1>4, <1>5, <1>6, <1>7, <1>8, <1>9 DEF Next

LEMMA NodesRead ==
  ASSUME TypeInv, [Next]_vars, NEW l \in LabelIndex, NEW n \in NodeIndex(l)
  PROVE  NodeRead(l, n)' <=> NodeRead(l, n) \/ (PassesNode /\ l = at /\ n = node)
<1> USE WalkFacts DEF PassesNode, NodeRead
<1>1. CASE Initialize \/ ValidateLabel \/ ValidateExternal \/ ValidateEntry
  BY <1>1 DEF Initialize, ValidateLabel, ValidateExternal, ValidateEntry
<1>2. CASE FinishList
  <2>1. pc \in Lists /\ (pc' = "nodes" => at' = 1 /\ node' = 1) /\ pc' # "done"
    BY <1>2, ListLength DEF FinishList, Lists
  <2>2. l >= 1 /\ n >= 1
    BY DEF LabelIndex, NodeIndex
  <2>3. QED
    BY <2>1, <2>2 DEF Lists
<1>3. CASE AnalyzeNode
  BY <1>3 DEF AnalyzeNode
<1>4. CASE FinishLabel
  <2>1. /\ pc = "nodes" /\ pc' = "nodes" /\ at' = at + 1 /\ node' = 1
        /\ node > Len(unit.labels[at].nodes) /\ node >= 1
    BY <1>4 DEF FinishLabel, TypeInv, Walks
  <2>2. l = at => n < node
    BY <2>1, UnitFacts DEF NodeIndex, LabelIndex
  <2>3. n >= 1
    BY DEF NodeIndex
  <2>4. QED
    BY <2>1, <2>2, <2>3
<1>5. CASE FinishAnalysis
  BY <1>5 DEF FinishAnalysis, LabelIndex
<1>6. CASE UNCHANGED vars
  BY <1>6 DEF vars
<1>7. QED
  BY <1>1, <1>2, <1>3, <1>4, <1>5, <1>6 DEF Next

\* The table holds the declarations passed, and no others.
TableInv ==
  /\ \A l \in LabelIndex :
       LabelRead(l) /\ NameAt(l) # NoName => Known(NameAt(l))
  /\ \A c \in table :
       \/ /\ c.type = "label"
          /\ \E l \in LabelIndex : LabelRead(l) /\ NameAt(l) = c.key
       \/ /\ c.type = "external"
          /\ \E x \in ExternalIndex : ExternalRead(x) /\ unit.externals[x] = c.key

LEMMA StepTable == TypeInv /\ TableInv /\ [Next]_vars => TableInv'
<1> SUFFICES ASSUME TypeInv, TableInv, [Next]_vars PROVE TableInv'
  OBVIOUS
<1>1. /\ unit' = unit /\ LabelIndex' = LabelIndex /\ ExternalIndex' = ExternalIndex
      /\ \A l : NameAt(l)' = NameAt(l)
  BY Passing DEF LabelIndex, ExternalIndex, NameAt
<1>2. \A l \in LabelIndex :
        LabelRead(l)' <=> LabelRead(l) \/ (Passes("labels") /\ l = at)
  BY ListsRead, WalkFacts
<1>3. \A x \in ExternalIndex :
        ExternalRead(x)' <=> ExternalRead(x) \/ (Passes("externals") /\ x = at)
  BY ListsRead, WalkFacts
<1>4. \A name : Known(name) => Known(name)'
  BY Passing DEF Known
<1>5. \A l \in LabelIndex : LabelRead(l)' /\ NameAt(l) # NoName => Known(NameAt(l))'
  <2> SUFFICES ASSUME NEW l \in LabelIndex, LabelRead(l)', NameAt(l) # NoName
               PROVE  Known(NameAt(l))'
    OBVIOUS
  <2>1. CASE LabelRead(l)
    <3>1. Known(NameAt(l))
      BY <2>1 DEF TableInv
    <3>2. QED
      BY <3>1, <1>1, Passing DEF Known
  <2>2. CASE Passes("labels") /\ l = at
    <3>1. ValidateLabel
      BY <2>2, Passing
    <3>2. Insert(NameAt(l), "label")
      BY <2>2, <3>1 DEF ValidateLabel, NameAt
    <3>3. Known(NameAt(l)) \/ Cell(NameAt(l), "label") \in table'
      BY <3>2 DEF Insert
    <3>4. \E c \in table' : c.key = NameAt(l)
      <4>1. CASE Known(NameAt(l))
        BY <4>1, Passing DEF Known
      <4>2. CASE Cell(NameAt(l), "label") \in table'
        <5>1. Cell(NameAt(l), "label").key = NameAt(l)
          BY DEF Cell
        <5>2. QED
          BY <4>2, <5>1
      <4>3. QED
        BY <3>3, <4>1, <4>2
    <3>5. QED
      BY <1>1, <3>4 DEF Known
  <2>3. QED
    BY <1>2, <2>1, <2>2
<1>6. ASSUME NEW c \in table'
      PROVE  \/ /\ c.type = "label"
                /\ \E l \in LabelIndex : LabelRead(l)' /\ NameAt(l) = c.key
             \/ /\ c.type = "external"
                /\ \E x \in ExternalIndex : ExternalRead(x)' /\ unit.externals[x] = c.key
  <2>1. CASE c \in table
    BY <2>1, <1>2, <1>3 DEF TableInv
  <2>2. CASE c \notin table /\ Passes("labels")
    <3>1. ValidateLabel /\ at \in LabelIndex
      BY <2>2, Passing
    <3>2. c = Cell(NameAt(at), "label")
      BY <2>2, <3>1 DEF ValidateLabel, Insert, NameAt
    <3>3. c.type = "label" /\ NameAt(at) = c.key
      BY <3>2 DEF Cell
    <3>4. QED
      BY <1>2, <2>2, <3>1, <3>3
  <2>3. CASE c \notin table /\ Passes("externals")
    <3>1. ValidateExternal /\ at \in ExternalIndex
      BY <2>3, Passing
    <3>2. c = Cell(unit.externals[at], "external")
      BY <2>3, <3>1 DEF ValidateExternal, Insert
    <3>3. c.type = "external" /\ unit.externals[at] = c.key
      BY <3>2 DEF Cell
    <3>4. QED
      BY <1>3, <2>3, <3>1, <3>3
  <2>4. QED
    BY <2>1, <2>2, <2>3, Passing
<1>7. QED
  BY <1>1, <1>5, <1>6 DEF TableInv

Distinct ==
  \A k, l \in LabelIndex :
    LabelRead(k) /\ LabelRead(l) /\ NameAt(k) = NameAt(l) /\ NameAt(k) # NoName => k = l
Foreign ==
  \A x \in ExternalIndex : ExternalRead(x) =>
    \A l \in LabelIndex : NameAt(l) # unit.externals[x]
Entered ==
  \A e \in EntryIndex : EntryRead(e) =>
    \E l \in LabelIndex : NameAt(l) = unit.entries[e]

\* A node without an error names declarations only.
Declared(n) ==
  n.kind = "instruction" =>
    \A k \in 1 .. Len(n.operands) :
      n.operands[k].type = "identifier" => Known(n.operands[k].name)
Used ==
  \A l \in LabelIndex : \A n \in NodeIndex(l) :
    NodeRead(l, n) => Declared(unit.labels[l].nodes[n])

\* As long as no error is reported, what was passed is in order.
CleanInv == error_list = {} => Distinct /\ Foreign /\ Entered /\ Used

LEMMA StepClean == TypeInv /\ TableInv /\ CleanInv /\ [Next]_vars => CleanInv'
<1> SUFFICES ASSUME TypeInv, TableInv, CleanInv, [Next]_vars, error_list' = {}
             PROVE  (Distinct /\ Foreign /\ Entered /\ Used)'
  BY DEF CleanInv
<1>1. /\ unit' = unit /\ LabelIndex' = LabelIndex /\ ExternalIndex' = ExternalIndex
      /\ EntryIndex' = EntryIndex /\ \A l : NameAt(l)' = NameAt(l)
      /\ \A l : NodeIndex(l)' = NodeIndex(l)
  BY Passing DEF LabelIndex, ExternalIndex, EntryIndex, NameAt, NodeIndex
<1>2. Distinct /\ Foreign /\ Entered /\ Used
  BY Passing DEF CleanInv
<1>3. \A name : Known(name) => Known(name)'
  BY Passing DEF Known
<1>4. Distinct'
  <2>1. ASSUME Passes("labels"), NEW l \in LabelIndex, LabelRead(l), NameAt(l) # NoName
        PROVE  NameAt(l) # NameAt(at)
    <3>1. ValidateLabel /\ Known(NameAt(l))
      BY <2>1, Passing DEF TableInv
    <3>2. NameAt(at) = NoName \/ ~Known(NameAt(at))
      BY <3>1 DEF ValidateLabel, Report, NameAt
    <3>3. QED
      BY <2>1, <3>1, <3>2
  <2>2. \A l \in LabelIndex :
          LabelRead(l)' <=> LabelRead(l) \/ (Passes("labels") /\ l = at)
    BY ListsRead, WalkFacts
  <2>3. ASSUME NEW k \in LabelIndex, NEW l \in LabelIndex, LabelRead(k)', LabelRead(l)',
               NameAt(k) = NameAt(l), NameAt(k) # NoName
        PROVE  k = l
    BY <1>2, <2>1, <2>2, <2>3 DEF Distinct
  <2>4. QED
    BY <1>1, <2>3 DEF Distinct
<1>5. Foreign'
  <2>1. ASSUME Passes("externals"), NEW l \in LabelIndex
        PROVE  NameAt(l) # unit.externals[at]
    <3>1. ValidateExternal /\ at \in ExternalIndex /\ LabelRead(l)
      BY <2>1, Passing DEF LabelRead, Passes
    <3>2. ~Known(unit.externals[at])
      BY <3>1 DEF ValidateExternal, Report
    <3>3. unit.externals[at] # NoName
      BY <3>1, UnitFacts, NameAssumption DEF TypeInv, ExternalIndex
    <3>4. QED
      BY <3>1, <3>2, <3>3 DEF TableInv
  <2>2. \A x \in ExternalIndex :
          ExternalRead(x)' <=> ExternalRead(x) \/ (Passes("externals") /\ x = at)
    BY ListsRead, WalkFacts
  <2>3. \A x \in ExternalIndex : ExternalRead(x)' =>
          \A l \in LabelIndex : NameAt(l) # unit.externals[x]
    BY <1>2, <2>1, <2>2 DEF Foreign
  <2>4. QED
    BY <1>1, <2>3 DEF Foreign
<1>6. Entered'
  <2>1. ASSUME Passes("entries")
        PROVE  \E l \in LabelIndex : NameAt(l) = unit.entries[at]
    <3>1. ValidateEntry
      BY <2>1, Passing
    <3>2. Known(unit.entries[at]) /\ Cell(unit.entries[at], "external") \notin table
      BY <3>1 DEF ValidateEntry, Report
    <3>3. PICK c \in table : c.key = unit.entries[at]
      BY <3>2 DEF Known
    <3>4. c \in CellType
      BY <3>3 DEF TypeInv
    <3>5. c.type # "external"
      BY <3>2, <3>3, <3>4 DEF Cell, CellType
    <3>6. QED
      BY <3>3, <3>5 DEF TableInv
  <2>2. \A e \in EntryIndex :
          EntryRead(e)' <=> EntryRead(e) \/ (Passes("entries") /\ e = at)
    BY ListsRead, WalkFacts
  <2>3. \A e \in EntryIndex : EntryRead(e)' =>
          \E l \in LabelIndex : NameAt(l) = unit.entries[e]
    BY <1>2, <2>1, <2>2 DEF Entered
  <2>4. QED
    BY <1>1, <2>3 DEF Entered
<1>7. Used'
  <2>1. ASSUME PassesNode
        PROVE  Declared(unit.labels[at].nodes[node])
    <3> DEFINE n == unit.labels[at].nodes[node]
    <3>1. n.kind # "instruction" \/ ~BadInstruction(n)
      BY <2>1, Passing DEF AnalyzeNode, Report
    <3> HIDE DEF n
    <3>2. ASSUME NEW k \in 1 .. Len(n.operands), n.kind = "instruction",
                 n.operands[k].type = "identifier"
          PROVE  Known(n.operands[k].name)
      <4>1. ~BadOperand(n.operands[k])
        BY <3>1, <3>2 DEF BadInstruction
      <4>2. QED
        BY <3>2, <4>1 DEF BadOperand
    <3>3. Declared(n)
      BY <3>2 DEF Declared
    <3>4. QED
      BY <3>3 DEF n
  <2>2. ASSUME NEW l \in LabelIndex, NEW n \in NodeIndex(l), NodeRead(l, n)'
        PROVE  Declared(unit.labels[l].nodes[n])
    <3>1. NodeRead(l, n) \/ (PassesNode /\ l = at /\ n = node)
      BY <2>2, NodesRead
    <3>2. QED
      BY <1>2, <2>1, <3>1 DEF Used
  <2>3. \A n : Declared(n) => Declared(n)'
    BY <1>3 DEF Declared
  <2>4. ASSUME NEW l \in LabelIndex, NEW n \in NodeIndex(l), NodeRead(l, n)'
        PROVE  Declared(unit.labels[l].nodes[n])'
    <3>1. Declared(unit.labels[l].nodes[n])
      BY <2>2, <2>4
    <3>2. QED
      BY <1>1, <1>3, <3>1 DEF Declared, Known
  <2>5. QED
    BY <1>1, <2>4 DEF Used
<1>8. QED
  BY <1>4, <1>5, <1>6, <1>7

\* Lowering keeps names, externals, entries and identifier operands.
LEMMA LoweredFacts ==
  ASSUME IsParsed(unit)
  PROVE  LET low == Lowered(unit) IN
         /\ Len(low.labels) = Len(unit.labels)
         /\ low.instruction_labels = unit.instruction_labels
         /\ low.externals = {unit.externals[x] : x \in ExternalIndex}
         /\ low.entries = unit.entries
         /\ \A l \in LabelIndex :
              /\ low.labels[l].name = NameAt(l)
              /\ Len(low.labels[l].nodes) = Len(unit.labels[l].nodes)
              /\ \A n \in NodeIndex(l) :
                   low.labels[l].nodes[n] = LoweredNode(unit.labels[l].nodes[n])
<1>1. /\ Len(unit.labels) \in Nat
      /\ \A l \in LabelIndex : Len(unit.labels[l].nodes) \in Nat
  BY DEF IsParsed, LabelIndex
<1>2. QED
  BY <1>1 DEF Lowered, LabelIndex, ExternalIndex, NodeIndex, NameAt

LEMMA OperandFacts ==
  ASSUME IsParsed(unit), NEW l \in LabelIndex, NEW n \in NodeIndex(l),
         Declared(unit.labels[l].nodes[n])
  PROVE  LET operands == LoweredNode(unit.labels[l].nodes[n]).operands IN
         \A k \in 1 .. Len(operands) :
           operands[k].mode = DIRECT => operands[k].name # NoName /\ Known(operands[k].name)
<1> DEFINE m == unit.labels[l].nodes[n]
<1>1. IsParsedNode(m)
  BY DEF IsParsed, LabelIndex, NodeIndex
<1>2. Declared(m)
  OBVIOUS
<1> HIDE DEF m
<1>3. m.operands \in Seq(OperandToken)
  BY <1>1 DEF IsParsedNode
<1>4. Len(m.operands) \in Nat
  BY <1>3, LenProperties
<1> DEFINE operands == LoweredNode(m).operands
<1>5. /\ Len(operands) = Len(m.operands)
      /\ \A k \in 1 .. Len(m.operands) :
           /\ operands[k].mode = Mode(m.operands[k])
           /\ operands[k].name = m.operands[k].name
  BY <1>4 DEF LoweredNode
<1> HIDE DEF operands
<1>6. ASSUME NEW k \in 1 .. Len(m.operands), Mode(m.operands[k]) = DIRECT
      PROVE  m.operands[k].name # NoName /\ Known(m.operands[k].name)
  <2>1. m.operands[k] \in OperandToken
    BY <1>3, ElementOfSeq
  <2>2. m.operands[k].type = "identifier"
    BY <1>6, <2>1 DEF OperandToken, Mode, DIRECT, IMMEDIATE, INDIRECT_REGISTER, DIRECT_REGISTER
  <2>3. m.kind = "instruction"
    BY <1>1, <1>4 DEF IsParsedNode
  <2>4. m.operands[k].name # NoName
    BY <1>1, <2>2, NameAssumption DEF IsParsedNode
  <2>5. QED
    BY <1>2, <2>2, <2>3, <2>4 DEF Declared
<1>7. QED
  BY <1>5, <1>6 DEF operands, m

LEMMA CleanIsAnalyzed ==
  TypeInv /\ TableInv /\ CleanInv => AcceptedIsAnalyzed
<1> SUFFICES ASSUME TypeInv, TableInv, CleanInv, pc = "done", error_list = {}
             PROVE  IsAnalyzed(Lowered(unit))
  BY DEF AcceptedIsAnalyzed
<1> DEFINE low == Lowered(unit)
<1>1. /\ IsParsed(unit) /\ Distinct /\ Foreign /\ Entered /\ Used
  BY DEF TypeInv, CleanInv
<1>2. /\ Len(low.labels) = Len(unit.labels)
      /\ low.instruction_labels = unit.instruction_labels
      /\ low.externals = {unit.externals[x] : x \in ExternalIndex}
      /\ low.entries = unit.entries
      /\ \A l \in LabelIndex :
           /\ low.labels[l].name = NameAt(l)
           /\ Len(low.labels[l].nodes) = Len(unit.labels[l].nodes)
           /\ \A n \in NodeIndex(l) :
                low.labels[l].nodes[n] = LoweredNode(unit.labels[l].nodes[n])
  BY <1>1, LoweredFacts
<1> HIDE DEF low
<1>3. /\ \A l : LabelRead(l)
      /\ \A x : ExternalRead(x)
      /\ \A e : EntryRead(e)
      /\ \A l, n : NodeRead(l, n)
  BY DEF LabelRead, ExternalRead, EntryRead, NodeRead
<1>4. \A k, l \in LabelIndex : NameAt(k) = NameAt(l) /\ NameAt(k) # NoName => k = l
  BY <1>1, <1>3 DEF Distinct
<1>5. \A l \in LabelIndex : NameAt(l) \notin low.externals
  BY <1>1, <1>2, <1>3 DEF Foreign
<1>6. \A l \in LabelIndex : l <= unit.instruction_labels => NameAt(l) # NoName
  BY <1>1, UnitFacts DEF LabelIndex
<1>7. \A e \in EntryIndex : \E l \in LabelIndex : NameAt(l) = unit.entries[e]
  BY <1>1, <1>3 DEF Entered
<1>8. ASSUME NEW name, Known(name)
      PROVE  name \in low.externals \/ \E l \in LabelIndex : NameAt(l) = name
  <2>1. PICK c \in table : c.key = name
    BY <1>8 DEF Known
  <2>2. QED
    BY <1>2, <2>1 DEF TableInv
<1>9. ASSUME NEW l \in LabelIndex, NEW n \in NodeIndex(l),
             NEW k \in 1 .. Len(low.labels[l].nodes[n].operands),
             low.labels[l].nodes[n].operands[k].mode = DIRECT
      PROVE  LET name == low.labels[l].nodes[n].operands[k].name IN
             name # NoName /\ (name \in low.externals \/ \E m \in LabelIndex : NameAt(m) = name)
  <2>1. Declared(unit.labels[l].nodes[n])
    BY <1>1, <1>3 DEF Used
  <2>2. low.labels[l].nodes[n] = LoweredNode(unit.labels[l].nodes[n])
    BY <1>2
  <2>3. /\ low.labels[l].nodes[n].operands[k].name # NoName
        /\ Known(low.labels[l].nodes[n].operands[k].name)
    BY <1>1, <1>9, <2>1, <2>2, OperandFacts
  <2>4. QED
    BY <1>8, <2>3
<1>10. IsAnalyzed(low)
  <2>1. 1 .. Len(low.labels) = LabelIndex /\ 1 .. Len(low.entries) = EntryIndex
    BY <1>2 DEF LabelIndex, EntryIndex
  <2>2. \A l \in LabelIndex : 1 .. Len(low.labels[l].nodes) = NodeIndex(l)
    BY <1>2 DEF NodeIndex
  <2>3. \A k, l \in LabelIndex :
          low.labels[k].name = low.labels[l].name /\ low.labels[k].name # NoName => k = l
    BY <1>2, <1>4
  <2>4. \A l \in LabelIndex :
          /\ low.labels[l].name \notin low.externals
          /\ l <= low.instruction_labels => low.labels[l].name # NoName
    BY <1>2, <1>5, <1>6
  <2>5. \A e \in EntryIndex : \E l \in LabelIndex : low.labels[l].name = low.entries[e]
    BY <1>2, <1>7
  <2> DEFINE Resolved(l, n) ==
               LET operands == low.labels[l].nodes[n].operands IN
               \A k \in 1 .. Len(operands) :
                 operands[k].mode = DIRECT =>
                   /\ operands[k].name # NoName
                   /\ \/ operands[k].name \in low.externals
                      \/ \E m \in 1 .. Len(low.labels) : low.labels[m].name = operands[k].name
  <2>6. ASSUME NEW l \in LabelIndex, NEW n \in NodeIndex(l)
        PROVE  Resolved(l, n)
    <3> DEFINE name(k) == low.labels[l].nodes[n].operands[k].name
    <3> SUFFICES ASSUME NEW k \in 1 .. Len(low.labels[l].nodes[n].operands),
                        low.labels[l].nodes[n].operands[k].mode = DIRECT
                 PROVE  /\ name(k) # NoName
                        /\ \/ name(k) \in low.externals
                           \/ \E m \in 1 .. Len(low.labels) : low.labels[m].name = name(k)
      OBVIOUS
    <3>1. name(k) # NoName /\ (name(k) \in low.externals \/ \E m \in LabelIndex : NameAt(m) = name(k))
      BY <1>9
    <3>2. \A m \in LabelIndex : low.labels[m].name = NameAt(m)
      BY <1>2
    <3> HIDE DEF name
    <3>3. QED
      BY <2>1, <3>1, <3>2
  <2> HIDE DEF Resolved
  <2>7. \A l \in 1 .. Len(low.labels) : \A n \in 1 .. Len(low.labels[l].nodes) :
          Resolved(l, n)
    BY <2>1, <2>2, <2>6
  <2>8. /\ \A k, l \in 1 .. Len(low.labels) :
             low.labels[k].name = low.labels[l].name /\ low.labels[k].name # NoName => k = l
        /\ \A l \in 1 .. Len(low.labels) :
             /\ low.labels[l].name \notin low.externals
             /\ l <= low.instruction_labels => low.labels[l].name # NoName
        /\ \A e \in 1 .. Len(low.entries) :
             \E l \in 1 .. Len(low.labels) : low.labels[l].name = low.entries[e]
    BY <2>1, <2>3, <2>4, <2>5
  <2>9. QED
    BY <2>7, <2>8 DEF IsAnalyzed, Resolved
<1>11. QED
  BY <1>10 DEF low

\* A program accepted by semantic_analyzer_analyze_translation_unit is one the
\* code generator is written for, whatever its length: names unique, entries
\* labels, operands declared.
THEOREM Accepted == Spec => []AcceptedIsAnalyzed
<1>1. Init => TableInv /\ CleanInv
  <2> SUFFICES ASSUME Init PROVE TableInv /\ CleanInv
    OBVIOUS
  <2>1. pc = "initialize" /\ table = {}
    BY DEF Init
  <2>2. QED
    BY <2>1 DEF TableInv, CleanInv, Distinct, Foreign, Entered, Used,
                LabelRead, ExternalRead, EntryRead, NodeRead
<1>2. QED
  BY <1>1, InitTypes, StepTypes, StepTable, StepClean, CleanIsAnalyzed, PTL DEF Spec

-----------------------------------------------------------------------------
(* What is looked up *)

External(x) == unit.externals[x]

\* The rest of what the table knows: externals that were passed, and labels
\* rather than externals where a name is both.
CellsInv ==
  /\ \A x \in ExternalIndex : ExternalRead(x) => Known(External(x))
  /\ \A c \in table : c.type = "external" => c.key \notin LabelNames

\* The place of an error in a list has no node.
NodeZero == pc \in Lists => node = 0

NodeInitially == pc = "initialize" => node = 0

LEMMA LabelNamesFacts ==
  /\ \A l \in LabelIndex : NameAt(l) # NoName => NameAt(l) \in LabelNames
  /\ \A name \in LabelNames :
       name # NoName /\ \E l \in LabelIndex : NameAt(l) = name
  /\ NoName \notin LabelNames
BY DEF LabelNames, LabelIndex, NameAt

LEMMA StepZero == TypeInv /\ NodeZero /\ NodeInitially /\ [Next]_vars => (NodeZero /\ NodeInitially)'
<1> SUFFICES ASSUME TypeInv, NodeZero, NodeInitially, [Next]_vars
             PROVE  NodeZero' /\ NodeInitially'
  OBVIOUS
<1> USE WalkFacts DEF NodeZero, NodeInitially, Lists
<1>1. CASE Initialize
  BY <1>1 DEF Initialize
<1>2. CASE ValidateLabel \/ ValidateExternal \/ ValidateEntry
  BY <1>2 DEF ValidateLabel, ValidateExternal, ValidateEntry
<1>3. CASE FinishList
  <2>1. pc \in Lists
    BY <1>3, ListLength DEF FinishList
  <2>2. QED
    BY <1>3, <2>1 DEF FinishList
<1>4. CASE AnalyzeNode \/ FinishLabel \/ FinishAnalysis
  BY <1>4 DEF AnalyzeNode, FinishLabel, FinishAnalysis
<1>5. CASE UNCHANGED vars
  BY <1>5 DEF vars
<1> QED  BY <1>1, <1>2, <1>3, <1>4, <1>5 DEF Next

LEMMA StepCells == TypeInv /\ TableInv /\ CellsInv /\ [Next]_vars => CellsInv'
<1> SUFFICES ASSUME TypeInv, TableInv, CellsInv, [Next]_vars PROVE CellsInv'
  OBVIOUS
<1>1. /\ unit' = unit /\ ExternalIndex' = ExternalIndex /\ table \subseteq table'
      /\ LabelNames' = LabelNames /\ \A x : External(x)' = External(x)
  BY Passing DEF ExternalIndex, LabelNames, External
<1>2. \A name : Known(name) => \E c \in table' : c.key = name
  BY <1>1 DEF Known
<1>3. ASSUME NEW x \in ExternalIndex, ExternalRead(x)'
      PROVE  \E c \in table' : c.key = External(x)
  <2>1. ExternalRead(x) \/ (Passes("externals") /\ x = at)
    BY <1>3, ListsRead, WalkFacts
  <2>2. CASE ExternalRead(x)
    BY <1>2, <2>2 DEF CellsInv
  <2>3. CASE Passes("externals") /\ x = at
    <3>1. ValidateExternal
      BY <2>3, Passing
    <3>2. Known(External(x)) \/ Cell(External(x), "external") \in table'
      BY <2>3, <3>1 DEF ValidateExternal, Insert, External
    <3>3. Cell(External(x), "external").key = External(x)
      BY DEF Cell
    <3> QED  BY <1>2, <3>2, <3>3
  <2> QED  BY <2>1, <2>2, <2>3
<1>4. ASSUME NEW c \in table', c.type = "external"
      PROVE  c.key \notin LabelNames
  <2>1. CASE c \in table
    BY <1>4, <2>1 DEF CellsInv
  <2>2. CASE c \notin table /\ Passes("labels")
    <3>1. ValidateLabel
      BY <2>2, Passing
    <3>2. c = Cell(unit.labels[at].name, "label")
      BY <2>2, <3>1 DEF ValidateLabel, Insert
    <3> QED  BY <1>4, <3>2 DEF Cell
  <2>3. CASE c \notin table /\ Passes("externals")
    <3>1. ValidateExternal /\ pc = "externals"
      BY <2>3, Passing DEF Passes
    <3>2. c = Cell(External(at), "external") /\ ~Known(External(at))
      BY <2>3, <3>1 DEF ValidateExternal, Insert, External
    <3>3. \A l \in LabelIndex : NameAt(l) # NoName => Known(NameAt(l))
      BY <3>1 DEF TableInv, LabelRead
    <3>4. \A name \in LabelNames : Known(name)
      BY <3>3, LabelNamesFacts
    <3>5. c.key = External(at)
      BY <3>2 DEF Cell
    <3> QED  BY <3>2, <3>4, <3>5
  <2> QED  BY <2>1, <2>2, <2>3, Passing
<1> QED  BY <1>1, <1>3, <1>4 DEF CellsInv, Known

-----------------------------------------------------------------------------
(* What each stage knows of a name *)

KnownName(name) ==
  \/ \E l \in LabelIndex : LabelRead(l) /\ NameAt(l) = name
  \/ \E x \in ExternalIndex : ExternalRead(x) /\ External(x) = name

LEMMA KnownNames ==
  ASSUME TypeInv, TableInv, CellsInv, NEW name, name # NoName
  PROVE  Known(name) <=> KnownName(name)
<1>1. ASSUME Known(name) PROVE KnownName(name)
  <2>1. PICK c \in table : c.key = name
    BY <1>1 DEF Known
  <2> QED  BY <2>1 DEF TableInv, KnownName, External
<1>2. ASSUME KnownName(name) PROVE Known(name)
  BY <1>2 DEF KnownName, TableInv, CellsInv
<1> QED  BY <1>1, <1>2

FaultyLabel(b) ==
  NameAt(b) # NoName /\ \E a \in 1 .. b - 1 : NameAt(a) = NameAt(b)
FaultyExternal(b) ==
  External(b) \in LabelNames \/ \E a \in 1 .. b - 1 : External(a) = External(b)
FaultyEntry(b) == unit.entries[b] \notin LabelNames

LEMMA LabelLookup ==
  ASSUME TypeInv, TableInv, CellsInv, pc = "labels", at \in LabelIndex, NameAt(at) # NoName
  PROVE  Known(NameAt(at)) <=> FaultyLabel(at)
<1>1. Known(NameAt(at)) <=> KnownName(NameAt(at))
  BY KnownNames
<1>2. /\ \A l \in LabelIndex : LabelRead(l) <=> l < at
      /\ \A x : ~ExternalRead(x)
  BY DEF LabelRead, ExternalRead
<1>3. \A l : l \in LabelIndex /\ l < at <=> l \in 1 .. at - 1
  BY WalkFacts DEF LabelIndex
<1> QED  BY <1>1, <1>2, <1>3 DEF KnownName, FaultyLabel

LEMMA ExternalLookup ==
  ASSUME TypeInv, TableInv, CellsInv, pc = "externals", at \in ExternalIndex
  PROVE  Known(External(at)) <=> FaultyExternal(at)
<1>1. External(at) # NoName
  BY UnitFacts, NameAssumption DEF TypeInv, ExternalIndex, External
<1>2. Known(External(at)) <=> KnownName(External(at))
  BY <1>1, KnownNames
<1>3. /\ \A l : LabelRead(l)
      /\ \A x \in ExternalIndex : ExternalRead(x) <=> x < at
  BY DEF LabelRead, ExternalRead
<1>4. \A x : x \in ExternalIndex /\ x < at <=> x \in 1 .. at - 1
  BY WalkFacts DEF ExternalIndex
<1>5. External(at) \in LabelNames <=> \E l \in LabelIndex : NameAt(l) = External(at)
  BY <1>1, LabelNamesFacts
<1> QED  BY <1>2, <1>3, <1>4, <1>5 DEF KnownName, FaultyExternal

LEMMA EntryLookup ==
  ASSUME TypeInv, TableInv, CellsInv, pc = "entries", at \in EntryIndex
  PROVE  ~Known(unit.entries[at]) \/ Cell(unit.entries[at], "external") \in table
           <=> FaultyEntry(at)
<1> DEFINE name == unit.entries[at]
<1>1. \A l : LabelRead(l)
  BY DEF LabelRead
<1>2. ASSUME name \in LabelNames
      PROVE  Known(name) /\ Cell(name, "external") \notin table
  <2>1. Known(name)
    BY <1>1, <1>2, LabelNamesFacts DEF TableInv
  <2>2. Cell(name, "external").type = "external" /\ Cell(name, "external").key = name
    BY DEF Cell
  <2>3. Cell(name, "external") \notin table
    BY <1>2, <2>2 DEF CellsInv
  <2> QED  BY <2>1, <2>3
<1>3. ASSUME Known(name), Cell(name, "external") \notin table
      PROVE  name \in LabelNames
  <2>1. PICK c \in table : c.key = name
    BY <1>3 DEF Known
  <2>2. c \in CellType
    BY <2>1 DEF TypeInv
  <2>3. c.type # "external" /\ c.key # NoName
    BY <1>3, <2>1, <2>2, NameAssumption DEF Cell, CellType
  <2> QED  BY <2>1, <2>3, LabelNamesFacts DEF TableInv
<1> QED  BY <1>2, <1>3 DEF FaultyEntry

LEMMA NodeLookup ==
  ASSUME TypeInv, TableInv, CellsInv, pc = "nodes", NEW name \in Name
  PROVE  Known(name) <=> name \in LabelNames \union Externals
<1>1. name # NoName
  BY NameAssumption
<1>2. Known(name) <=> KnownName(name)
  BY <1>1, KnownNames
<1>3. \A i : LabelRead(i) /\ ExternalRead(i)
  BY DEF LabelRead, ExternalRead
<1>4. name \in Externals <=> \E x \in ExternalIndex : External(x) = name
  BY DEF Externals, ExternalIndex, External
<1> QED  BY <1>1, <1>2, <1>3, <1>4, LabelNamesFacts DEF KnownName

-----------------------------------------------------------------------------
(* What is checked of a node *)

NodesModes(n) == [k \in 1 .. Len(n.operands) |-> Mode(n.operands[k])]

LEMMA ModeType ==
  ASSUME NEW o \in OperandToken
  PROVE  Mode(o) \in AnyMode
BY DEF OperandToken, Mode, AnyMode, NotImmediate

LEMMA Expected ==
  /\ \A operation \in TwoOperands : ExpectedOperands(operation) = 2
  /\ \A operation \in OneOperand : ExpectedOperands(operation) = 1
  /\ \A operation \in NoOperand : ExpectedOperands(operation) = 0
BY DEF ExpectedOperands, TwoOperands, OneOperand, NoOperand

Pairs == (AnyMode \X NotImmediate) \union (NotImmediate \X AnyMode)

LEMMA Legal ==
  /\ \A operation \in {"mov", "add", "sub", "cmp"} : LegalModes(operation) = Pairs
  /\ LegalModes("lea") = {DIRECT} \X {INDIRECT_REGISTER, DIRECT_REGISTER}
  /\ \A operation \in {"not", "clr", "inc", "dec", "red"} :
       LegalModes(operation) = {<<m>> : m \in NotImmediate}
  /\ \A operation \in {"jmp", "bne", "jsr"} :
       LegalModes(operation) = {<<DIRECT>>, <<INDIRECT_REGISTER>>}
  /\ LegalModes("prn") = {<<m>> : m \in AnyMode}
  /\ \A operation \in NoOperand : LegalModes(operation) = {<<>>}
<1> DEFINE lea == {DIRECT} \X {INDIRECT_REGISTER, DIRECT_REGISTER}
           one == {<<m>> : m \in NotImmediate}
           jump == {<<DIRECT>>, <<INDIRECT_REGISTER>>}
           any == {<<m>> : m \in AnyMode}
           none == {<<>>}
<1>1. \A operation :
        LegalModes(operation) =
          CASE operation \in {"mov", "add", "sub", "cmp"} -> Pairs
            [] operation = "lea" -> lea
            [] operation \in {"not", "clr", "inc", "dec", "red"} -> one
            [] operation \in {"jmp", "bne", "jsr"} -> jump
            [] operation = "prn" -> any
            [] operation \in NoOperand -> none
  BY Zenon DEF LegalModes, Pairs
<1> HIDE DEF lea, one, jump, any, none
<1>2. /\ \A operation \in {"mov", "add", "sub", "cmp"} : LegalModes(operation) = Pairs
      /\ LegalModes("lea") = lea
      /\ \A operation \in {"not", "clr", "inc", "dec", "red"} : LegalModes(operation) = one
      /\ \A operation \in {"jmp", "bne", "jsr"} : LegalModes(operation) = jump
      /\ LegalModes("prn") = any
      /\ \A operation \in NoOperand : LegalModes(operation) = none
  BY <1>1 DEF NoOperand
<1> QED  BY <1>2 DEF lea, one, jump, any, none

\* As many modes as the operation has operands.
LEMMA LegalLength ==
  ASSUME NEW n, n.operation \in Operation, Len(n.operands) \in Nat,
         NodesModes(n) \in LegalModes(n.operation)
  PROVE  Len(n.operands) = ExpectedOperands(n.operation)
<1> DEFINE m == NodesModes(n)
           op == n.operation
<1>1. DOMAIN m = 1 .. Len(n.operands)
  BY DEF NodesModes
<1>2. Len(n.operands) = Len(m)
  BY <1>1 DEF NodesModes
<1>3. m \in LegalModes(op) /\ op \in Operation
  OBVIOUS
<1> HIDE DEF m, op
<1>4. CASE op \in TwoOperands
  <2>1. LegalModes(op) = Pairs
          \/ LegalModes(op) = {DIRECT} \X {INDIRECT_REGISTER, DIRECT_REGISTER}
    BY <1>4, Legal DEF TwoOperands
  <2>2. \E a, b : m = <<a, b>>
    BY <1>3, <2>1 DEF Pairs
  <2>3. Len(m) = 2
    BY <2>2
  <2> QED  BY <1>2, <1>4, <2>3, Expected DEF op
<1>5. CASE op \in OneOperand
  <2>1. \/ LegalModes(op) = {<<a>> : a \in NotImmediate}
        \/ LegalModes(op) = {<<DIRECT>>, <<INDIRECT_REGISTER>>}
        \/ LegalModes(op) = {<<a>> : a \in AnyMode}
    BY <1>5, Legal DEF OneOperand
  <2>2. \E a : m = <<a>>
    BY <1>3, <2>1
  <2>3. Len(m) = 1
    BY <2>2
  <2> QED  BY <1>2, <1>5, <2>3, Expected DEF op
<1>6. CASE op \in NoOperand
  <2>1. m = <<>>
    BY <1>3, <1>6, Legal
  <2>2. Len(m) = 0
    BY <2>1
  <2> QED  BY <1>2, <1>6, <2>2, Expected DEF op
<1> QED  BY <1>3, <1>4, <1>5, <1>6 DEF Operation

LEMMA TwoModes ==
  ASSUME NEW operation \in TwoOperands, NEW a \in AnyMode, NEW b \in AnyMode
  PROVE  <<a, b>> \in LegalModes(operation) <=> ~BadModes(operation, a, b)
<1>1. CASE operation = "lea"
  <2>1. <<a, b>> \in LegalModes(operation)
          <=> a = DIRECT /\ b \in {INDIRECT_REGISTER, DIRECT_REGISTER}
    BY <1>1, Legal
  <2> QED  BY <1>1, <2>1 DEF BadModes
<1>2. CASE operation \in {"mov", "add", "sub", "cmp"}
  <2>1. <<a, b>> \in Pairs <=> a \in NotImmediate \/ b \in NotImmediate
    BY DEF Pairs, AnyMode
  <2>2. \A c \in AnyMode : c \in NotImmediate <=> c # IMMEDIATE
    BY DEF AnyMode, NotImmediate, IMMEDIATE, DIRECT, INDIRECT_REGISTER, DIRECT_REGISTER
  <2>3. LegalModes(operation) = Pairs
    BY <1>2, Legal
  <2>4. BadModes(operation, a, b) <=> a = IMMEDIATE /\ b = IMMEDIATE
    BY <1>2 DEF BadModes
  <2> QED  BY <2>1, <2>2, <2>3, <2>4
<1> QED  BY <1>1, <1>2 DEF TwoOperands

LEMMA OneMode ==
  ASSUME NEW operation \in OneOperand, NEW a \in AnyMode
  PROVE  <<a>> \in LegalModes(operation) <=> ~BadModes(operation, a, IMMEDIATE)
<1>1. \A x, y : <<x>> = <<y>> <=> x = y
  OBVIOUS
<1>2. CASE operation \in {"not", "clr", "inc", "dec", "red"}
  <2>1. <<a>> \in LegalModes(operation) <=> a \in NotImmediate
    BY <1>1, <1>2, Legal
  <2>2. a \in NotImmediate <=> a # IMMEDIATE
    BY DEF AnyMode, NotImmediate, IMMEDIATE, DIRECT, INDIRECT_REGISTER, DIRECT_REGISTER
  <2>3. BadModes(operation, a, IMMEDIATE) <=> a = IMMEDIATE
    BY <1>2 DEF BadModes
  <2> QED  BY <2>1, <2>2, <2>3
<1>3. CASE operation \in {"jmp", "bne", "jsr"}
  <2>1. <<a>> \in LegalModes(operation) <=> a = DIRECT \/ a = INDIRECT_REGISTER
    BY <1>1, <1>3, Legal
  <2>2. BadModes(operation, a, IMMEDIATE) <=> a # DIRECT /\ a # INDIRECT_REGISTER
    BY <1>3 DEF BadModes
  <2> QED  BY <2>1, <2>2
<1>4. CASE operation = "prn"
  <2>1. <<a>> \in LegalModes(operation)
    BY <1>4, Legal
  <2>2. ~BadModes(operation, a, IMMEDIATE)
    BY <1>4 DEF BadModes
  <2> QED  BY <2>1, <2>2
<1> QED  BY <1>2, <1>3, <1>4 DEF OneOperand

LEMMA NoMode ==
  ASSUME NEW operation \in NoOperand
  PROVE  <<>> \in LegalModes(operation) /\ ~BadModes(operation, IMMEDIATE, IMMEDIATE)
BY Legal DEF NoOperand, BadModes

\* The switch on the operation and the table of legal modes are the same rule.
LEMMA ModesAgree ==
  ASSUME NEW n, n.operation \in Operation, n.operands \in Seq(OperandToken),
         Len(n.operands) = ExpectedOperands(n.operation)
  PROVE  NodesModes(n) \in LegalModes(n.operation)
           <=> ~BadModes(n.operation, ModeOf(n.operands, 1), ModeOf(n.operands, 2))
<1>1. \A k \in 1 .. Len(n.operands) : Mode(n.operands[k]) \in AnyMode
  BY ModeType, ElementOfSeq
<1>2. CASE n.operation \in TwoOperands
  <2>1. Len(n.operands) = 2
    BY <1>2, Expected
  <2>2. NodesModes(n) = <<Mode(n.operands[1]), Mode(n.operands[2])>>
    BY <2>1 DEF NodesModes
  <2>3. /\ ModeOf(n.operands, 1) = Mode(n.operands[1])
        /\ ModeOf(n.operands, 2) = Mode(n.operands[2])
    BY <2>1 DEF ModeOf
  <2> QED  BY <1>1, <1>2, <2>1, <2>2, <2>3, TwoModes
<1>3. CASE n.operation \in OneOperand
  <2>1. Len(n.operands) = 1
    BY <1>3, Expected
  <2>2. NodesModes(n) = <<Mode(n.operands[1])>>
    BY <2>1 DEF NodesModes
  <2>3. /\ ModeOf(n.operands, 1) = Mode(n.operands[1])
        /\ ModeOf(n.operands, 2) = IMMEDIATE
    BY <2>1 DEF ModeOf
  <2> QED  BY <1>1, <1>3, <2>1, <2>2, <2>3, OneMode
<1>4. CASE n.operation \in NoOperand
  <2>1. Len(n.operands) = 0
    BY <1>4, Expected
  <2>2. NodesModes(n) = <<>>
    BY <2>1 DEF NodesModes
  <2>3. ModeOf(n.operands, 1) = IMMEDIATE /\ ModeOf(n.operands, 2) = IMMEDIATE
    BY <2>1 DEF ModeOf
  <2> QED  BY <1>4, <2>2, <2>3, NoMode
<1> QED  BY <1>2, <1>3, <1>4 DEF Operation

FaultyOperand(o) ==
  \/ o.is_dereferenced /\ o.type # "register"
  \/ o.type = "number" /\ o.number \notin -2048 .. 2047
  \/ o.type = "identifier" /\ o.name \notin LabelNames \union Externals

BadNode(n) ==
  \/ n.kind = "instruction" /\ BadInstruction(n)
  \/ n.kind = "data" /\ BadData(n)

\* The limits as the code compares with them, and as ranges.
Beyond12(x) == x > MAX_12BIT_SIGNED_INT \/ x < MIN_12BIT_SIGNED_INT
Beyond15(x) == x > MAX_15BIT_SIGNED_INT \/ x < MIN_15BIT_SIGNED_INT
Outside12(x) == x \notin -2048 .. 2047
Outside15(x) == x \notin -16384 .. 16383

LEMMA Ranges ==
  ASSUME NEW number \in Int
  PROVE  /\ Beyond12(number) <=> Outside12(number)
         /\ Beyond15(number) <=> Outside15(number)
<1>1. /\ MAX_12BIT_SIGNED_INT = 2047 /\ MIN_12BIT_SIGNED_INT = -2048
      /\ MAX_15BIT_SIGNED_INT = 16383 /\ MIN_15BIT_SIGNED_INT = -16384
  BY DEF MAX_12BIT_SIGNED_INT, MIN_12BIT_SIGNED_INT, MAX_15BIT_SIGNED_INT,
         MIN_15BIT_SIGNED_INT
<1>2. \A low, high \in Int : number \in low .. high <=> low <= number /\ number <= high
  OBVIOUS
<1>3. /\ -2048 \in Int /\ 2047 \in Int /\ -16384 \in Int /\ 16383 \in Int
  OBVIOUS
<1>4. /\ number \in -2048 .. 2047 <=> -2048 <= number /\ number <= 2047
      /\ number \in -16384 .. 16383 <=> -16384 <= number /\ number <= 16383
  BY <1>2, <1>3
<1> QED  BY <1>1, <1>4 DEF Beyond12, Beyond15, Outside12, Outside15

\* A node is reported exactly if it is at fault.
LEMMA NodeJudged ==
  ASSUME NEW n, IsParsedNode(n),
         \A name \in Name : Known(name) <=> name \in LabelNames \union Externals
  PROVE  BadNode(n) <=> FaultyNode(n)
<1>1. n.operands \in Seq(OperandToken) /\ n.numbers \in Seq(Int)
  BY DEF IsParsedNode
<1>2. ASSUME NEW k \in 1 .. Len(n.operands)
      PROVE  BadOperand(n.operands[k]) <=> FaultyOperand(n.operands[k])
  <2> DEFINE o == n.operands[k]
  <2>1. o \in OperandToken
    BY <1>1, ElementOfSeq
  <2>2. o.type = "identifier" => o.name \in Name
    BY DEF IsParsedNode
  <2> HIDE DEF o
  <2>3. o.number \in Int
    BY <2>1 DEF OperandToken
  <2>4. Beyond12(o.number) <=> Outside12(o.number)
    BY <2>3, Ranges, Zenon
  <2>5. o.type = "identifier" => (~Known(o.name) <=> o.name \notin LabelNames \union Externals)
    BY <2>2
  <2>6. BadOperand(o) <=>
          \/ o.is_dereferenced /\ o.type # "register"
          \/ o.type = "number" /\ Beyond12(o.number)
          \/ o.type = "identifier" /\ ~Known(o.name)
    BY Zenon DEF BadOperand, Beyond12
  <2>7. FaultyOperand(o) <=>
          \/ o.is_dereferenced /\ o.type # "register"
          \/ o.type = "number" /\ Outside12(o.number)
          \/ o.type = "identifier" /\ o.name \notin LabelNames \union Externals
    BY Zenon DEF FaultyOperand, Outside12
  <2>8. BadOperand(o) <=> FaultyOperand(o)
    BY <2>4, <2>5, <2>6, <2>7, Zenon
  <2> QED  BY <2>8, Zenon DEF o
<1>3. ASSUME NEW k \in 1 .. Len(n.numbers)
      PROVE  Beyond15(n.numbers[k]) <=> Outside15(n.numbers[k])
  <2>1. n.numbers[k] \in Int
    BY <1>1, ElementOfSeq
  <2> QED  BY <2>1, Ranges, Zenon
<1> DEFINE Exceeds == \E k \in 1 .. Len(n.numbers) : Outside15(n.numbers[k])
<1>4. BadData(n) <=> Exceeds
  <2>1. BadData(n) <=> \E k \in 1 .. Len(n.numbers) : Beyond15(n.numbers[k])
    BY Zenon DEF BadData, Beyond15
  <2> QED  BY <1>3, <2>1, Zenon
<1> DEFINE Wrong == \/ NodesModes(n) \notin LegalModes(n.operation)
                    \/ \E k \in 1 .. Len(n.operands) : FaultyOperand(n.operands[k])
<1>5. n.kind = "instruction" => (BadInstruction(n) <=> Wrong)
  <2> SUFFICES ASSUME n.kind = "instruction" PROVE BadInstruction(n) <=> Wrong
    OBVIOUS
  <2>1. n.operation \in Operation
    BY DEF IsParsedNode
  <2>2. Len(n.operands) \in Nat
    BY <1>1, LenProperties
  <2>3. CASE Len(n.operands) # ExpectedOperands(n.operation)
    BY <2>1, <2>2, <2>3, LegalLength DEF BadInstruction
  <2>4. CASE Len(n.operands) = ExpectedOperands(n.operation)
    BY <1>1, <1>2, <2>1, <2>4, ModesAgree DEF BadInstruction
  <2> QED  BY <2>3, <2>4
<1>6. FaultyNode(n) <=> (n.kind = "data" /\ Exceeds) \/ (n.kind = "instruction" /\ Wrong)
  BY DEF FaultyNode, NodesModes, FaultyOperand, Outside15
<1> HIDE DEF Wrong, Exceeds
<1> QED  BY <1>4, <1>5, <1>6, Zenon DEF BadNode

-----------------------------------------------------------------------------
(* What is reported *)

NodeOf(l, n) == unit.labels[l].nodes[n]

\* e is a fault of the part of the program that was passed.
FaultPassed(e) ==
  \/ \E l \in LabelIndex : LabelRead(l) /\ FaultyLabel(l) /\ e = Place("labels", l, 0)
  \/ \E x \in ExternalIndex :
       ExternalRead(x) /\ FaultyExternal(x) /\ e = Place("externals", x, 0)
  \/ \E i \in EntryIndex : EntryRead(i) /\ FaultyEntry(i) /\ e = Place("entries", i, 0)
  \/ \E l \in LabelIndex : \E n \in NodeIndex(l) :
       NodeRead(l, n) /\ FaultyNode(NodeOf(l, n)) /\ e = Place("nodes", l, n)

\* As far as the program was passed, the errors are its faults.
ReportInv == \A e : e \in error_list <=> FaultPassed(e)

\* e is the fault that a step passes.
FaultMet(e) ==
  \/ Passes("labels") /\ FaultyLabel(at) /\ e = Place("labels", at, 0)
  \/ Passes("externals") /\ FaultyExternal(at) /\ e = Place("externals", at, 0)
  \/ Passes("entries") /\ FaultyEntry(at) /\ e = Place("entries", at, 0)
  \/ PassesNode /\ FaultyNode(NodeOf(at, node)) /\ e = Place("nodes", at, node)

LEMMA FaultsPass ==
  ASSUME TypeInv, [Next]_vars, NEW e
  PROVE  FaultPassed(e)' <=> FaultPassed(e) \/ FaultMet(e)
<1>1. unit' = unit
  BY Passing
<1>2. /\ LabelIndex' = LabelIndex /\ ExternalIndex' = ExternalIndex
      /\ EntryIndex' = EntryIndex /\ \A l : NodeIndex(l)' = NodeIndex(l)
  BY <1>1 DEF LabelIndex, ExternalIndex, EntryIndex, NodeIndex
<1>3. /\ \A l : FaultyLabel(l)' <=> FaultyLabel(l)
      /\ \A x : FaultyExternal(x)' <=> FaultyExternal(x)
      /\ \A i : FaultyEntry(i)' <=> FaultyEntry(i)
      /\ \A l, n : FaultyNode(NodeOf(l, n))' <=> FaultyNode(NodeOf(l, n))
  BY <1>1 DEF FaultyLabel, FaultyExternal, FaultyEntry, FaultyNode, NodeOf, NameAt,
              External, LabelNames, Externals
<1>4. /\ \A l \in LabelIndex :
           LabelRead(l)' <=> LabelRead(l) \/ (Passes("labels") /\ l = at)
      /\ \A x \in ExternalIndex :
           ExternalRead(x)' <=> ExternalRead(x) \/ (Passes("externals") /\ x = at)
      /\ \A i \in EntryIndex :
           EntryRead(i)' <=> EntryRead(i) \/ (Passes("entries") /\ i = at)
  BY ListsRead, WalkFacts
<1>5. \A l \in LabelIndex : \A n \in NodeIndex(l) :
        NodeRead(l, n)' <=> NodeRead(l, n) \/ (PassesNode /\ l = at /\ n = node)
  BY NodesRead
<1>6. /\ Passes("labels") => at \in LabelIndex
      /\ Passes("externals") => at \in ExternalIndex
      /\ Passes("entries") => at \in EntryIndex
      /\ PassesNode => at \in LabelIndex /\ node \in NodeIndex(at)
  BY Passing
<1>7. FaultPassed(e)' <=>
        \/ \E l \in LabelIndex : LabelRead(l)' /\ FaultyLabel(l) /\ e = Place("labels", l, 0)
        \/ \E x \in ExternalIndex :
             ExternalRead(x)' /\ FaultyExternal(x) /\ e = Place("externals", x, 0)
        \/ \E i \in EntryIndex : EntryRead(i)' /\ FaultyEntry(i) /\ e = Place("entries", i, 0)
        \/ \E l \in LabelIndex : \E n \in NodeIndex(l) :
             NodeRead(l, n)' /\ FaultyNode(NodeOf(l, n)) /\ e = Place("nodes", l, n)
  BY <1>2, <1>3, Zenon DEF FaultPassed, Place
<1>8. (\E l \in LabelIndex : LabelRead(l)' /\ FaultyLabel(l) /\ e = Place("labels", l, 0))
        <=> \/ \E l \in LabelIndex : LabelRead(l) /\ FaultyLabel(l) /\ e = Place("labels", l, 0)
            \/ Passes("labels") /\ FaultyLabel(at) /\ e = Place("labels", at, 0)
  BY <1>4, <1>6, Zenon
<1>9. (\E x \in ExternalIndex :
         ExternalRead(x)' /\ FaultyExternal(x) /\ e = Place("externals", x, 0))
        <=> \/ \E x \in ExternalIndex :
                 ExternalRead(x) /\ FaultyExternal(x) /\ e = Place("externals", x, 0)
            \/ Passes("externals") /\ FaultyExternal(at) /\ e = Place("externals", at, 0)
  BY <1>4, <1>6, Zenon
<1>10. (\E i \in EntryIndex : EntryRead(i)' /\ FaultyEntry(i) /\ e = Place("entries", i, 0))
        <=> \/ \E i \in EntryIndex : EntryRead(i) /\ FaultyEntry(i) /\ e = Place("entries", i, 0)
            \/ Passes("entries") /\ FaultyEntry(at) /\ e = Place("entries", at, 0)
  BY <1>4, <1>6, Zenon
<1>11. (\E l \in LabelIndex : \E n \in NodeIndex(l) :
          NodeRead(l, n)' /\ FaultyNode(NodeOf(l, n)) /\ e = Place("nodes", l, n))
        <=> \/ \E l \in LabelIndex : \E n \in NodeIndex(l) :
                 NodeRead(l, n) /\ FaultyNode(NodeOf(l, n)) /\ e = Place("nodes", l, n)
            \/ PassesNode /\ FaultyNode(NodeOf(at, node)) /\ e = Place("nodes", at, node)
  BY <1>5, <1>6, Zenon
<1> QED  BY <1>7, <1>8, <1>9, <1>10, <1>11, Zenon DEF FaultPassed, FaultMet

\* A step reports the fault it passes and no other.
LEMMA StepReports ==
  ASSUME TypeInv, TableInv, CellsInv, NodeZero, [Next]_vars, NEW e
  PROVE  e \in error_list' <=> e \in error_list \/ FaultMet(e)
<1>1. /\ pc \in {"initialize", "labels", "externals", "entries", "nodes", "done"}
      /\ at \in Nat /\ node \in Nat
  BY WalkFacts
<1>2. ASSUME NEW condition \in BOOLEAN, error_list' = Report(condition)
      PROVE  e \in error_list' <=>
               e \in error_list \/ (condition /\ e = Place(pc, at, node))
  BY <1>2 DEF Report
<1>3. CASE ValidateLabel
  <2>1. pc = "labels" /\ at \in LabelIndex /\ at' = at + 1 /\ node = 0
    BY <1>1, <1>3 DEF ValidateLabel, TypeInv, Walks, LabelIndex, NodeZero, Lists
  <2>2. FaultMet(e) <=> FaultyLabel(at) /\ e = Place(pc, at, node)
    BY <2>1 DEF FaultMet, Passes, PassesNode
  <2>3. CASE NameAt(at) # NoName
    <3>1. error_list' = Report(Known(NameAt(at)))
      BY <1>3, <2>3 DEF ValidateLabel, NameAt
    <3>2. Known(NameAt(at)) \in BOOLEAN
      BY DEF Known
    <3>3. e \in error_list' <=>
            e \in error_list \/ (Known(NameAt(at)) /\ e = Place(pc, at, node))
      BY <1>2, <3>1, <3>2
    <3> QED  BY <2>1, <2>2, <2>3, <3>3, LabelLookup
  <2>4. CASE NameAt(at) = NoName
    <3>1. at > unit.instruction_labels
      BY <1>1, <2>1, <2>4, UnitFacts DEF TypeInv, LabelIndex
    <3>2. error_list' = error_list
      BY <1>1, <1>3, <2>4, <3>1, UnitFacts DEF ValidateLabel, NameAt, TypeInv
    <3> QED  BY <2>2, <2>4, <3>2 DEF FaultyLabel
  <2> QED  BY <2>3, <2>4
<1>4. CASE ValidateExternal
  <2>1. pc = "externals" /\ at \in ExternalIndex /\ at' = at + 1 /\ node = 0
    BY <1>1, <1>4 DEF ValidateExternal, TypeInv, Walks, ExternalIndex, NodeZero, Lists
  <2>2. FaultMet(e) <=> FaultyExternal(at) /\ e = Place(pc, at, node)
    BY <2>1 DEF FaultMet, Passes, PassesNode
  <2>3. Known(External(at)) <=> FaultyExternal(at)
    BY <2>1, ExternalLookup
  <2>4. CASE Known(External(at))
    <3>1. error_list' = Report(TRUE)
      BY <1>4, <2>4 DEF ValidateExternal, External
    <3> QED  BY <1>2, <2>2, <2>3, <2>4, <3>1
  <2>5. CASE ~Known(External(at))
    <3>1. error_list' = error_list
      BY <1>4, <2>5 DEF ValidateExternal, External
    <3> QED  BY <2>2, <2>3, <2>5, <3>1
  <2> QED  BY <2>4, <2>5
<1>5. CASE ValidateEntry
  <2>1. pc = "entries" /\ at \in EntryIndex /\ at' = at + 1 /\ node = 0
    BY <1>1, <1>5 DEF ValidateEntry, TypeInv, Walks, EntryIndex, NodeZero, Lists
  <2>2. FaultMet(e) <=> FaultyEntry(at) /\ e = Place(pc, at, node)
    BY <2>1 DEF FaultMet, Passes, PassesNode
  <2> DEFINE condition == ~Known(unit.entries[at])
                            \/ Cell(unit.entries[at], "external") \in table
  <2>3. error_list' = Report(condition)
    BY <1>5 DEF ValidateEntry
  <2>4. condition <=> FaultyEntry(at)
    BY <2>1, EntryLookup
  <2>5. condition \in BOOLEAN
    BY DEF Known
  <2> HIDE DEF condition
  <2> QED  BY <1>2, <2>2, <2>3, <2>4, <2>5
<1>6. CASE AnalyzeNode
  <2>1. pc = "nodes" /\ at \in LabelIndex /\ node \in NodeIndex(at) /\ node' = node + 1
        /\ at' = at
    BY <1>1, <1>6 DEF AnalyzeNode, TypeInv, Walks, LabelIndex, NodeIndex
  <2>2. FaultMet(e) <=> FaultyNode(NodeOf(at, node)) /\ e = Place(pc, at, node)
    BY <2>1 DEF FaultMet, Passes, PassesNode
  <2>3. error_list' = Report(BadNode(NodeOf(at, node)))
    BY <1>6 DEF AnalyzeNode, NodeOf, BadNode
  <2>4. IsParsedNode(NodeOf(at, node))
    BY <2>1 DEF TypeInv, IsParsed, LabelIndex, NodeIndex, NodeOf
  <2>5. \A name \in Name : Known(name) <=> name \in LabelNames \union Externals
    BY <2>1, NodeLookup
  <2>6. BadNode(NodeOf(at, node)) <=> FaultyNode(NodeOf(at, node))
    BY <2>4, <2>5, NodeJudged
  <2>7. BadNode(NodeOf(at, node)) \in BOOLEAN
    BY DEF BadNode
  <2> QED  BY <1>2, <2>2, <2>3, <2>6, <2>7
<1>7. CASE Initialize \/ FinishList \/ FinishLabel \/ FinishAnalysis \/ UNCHANGED vars
  <2>1. error_list' = error_list
    BY <1>7 DEF Initialize, FinishList, FinishLabel, FinishAnalysis, vars
  <2>2. ~Passes("labels") /\ ~Passes("externals") /\ ~Passes("entries") /\ ~PassesNode
    <3>1. CASE Initialize
      BY <1>1, <3>1 DEF Initialize, Passes, PassesNode
    <3>2. CASE FinishList
      <4>0. DOMAIN Declarations = Lists
        BY ListLength DEF TypeInv
      <4>1. pc \in Lists /\ at' = 1 /\ at > Len(Declarations[pc])
        BY <3>2, <4>0 DEF FinishList
      <4>2. pc # "nodes" /\ at >= 1 /\ at # 0
        BY <4>1, <1>1, ListLength, UnitFacts DEF TypeInv, Walks, Lists
      <4> QED  BY <1>1, <4>1, <4>2 DEF Passes, PassesNode
    <3>3. CASE FinishLabel
      <4>1. pc = "nodes" /\ node' = 1 /\ node >= 1
        BY <3>3 DEF FinishLabel, TypeInv, Walks
      <4> QED  BY <1>1, <4>1 DEF Passes, PassesNode
    <3>4. CASE FinishAnalysis \/ UNCHANGED vars
      BY <1>1, <3>4 DEF FinishAnalysis, vars, Passes, PassesNode
    <3> QED  BY <1>7, <3>1, <3>2, <3>3, <3>4
  <2> QED  BY <2>1, <2>2 DEF FaultMet
<1> QED  BY <1>3, <1>4, <1>5, <1>6, <1>7 DEF Next

LEMMA StepReport == TypeInv /\ TableInv /\ CellsInv /\ NodeZero /\ ReportInv /\ [Next]_vars => ReportInv'
<1> SUFFICES ASSUME TypeInv, TableInv, CellsInv, NodeZero, ReportInv, [Next]_vars
             PROVE  ReportInv'
  OBVIOUS
<1>1. ASSUME NEW e PROVE e \in error_list' <=> FaultPassed(e)'
  BY StepReports, FaultsPass, Zenon DEF ReportInv
<1> QED  BY <1>1, Zenon DEF ReportInv

-----------------------------------------------------------------------------
\* When all is passed, the faults passed are the faults.
LEMMA AllReported == TypeInv /\ ReportInv => FaultsReported
<1> SUFFICES ASSUME TypeInv, ReportInv, pc = "done" PROVE error_list = Faults
  BY DEF FaultsReported
<1>1. \A i, n : LabelRead(i) /\ ExternalRead(i) /\ EntryRead(i) /\ NodeRead(i, n)
  BY DEF LabelRead, ExternalRead, EntryRead, NodeRead
<1> DEFINE L == {Place("labels", l, 0) : l \in {b \in LabelIndex : FaultyLabel(b)}}
           X == {Place("externals", x, 0) : x \in {b \in ExternalIndex : FaultyExternal(b)}}
           E == {Place("entries", i, 0) : i \in {b \in EntryIndex : FaultyEntry(b)}}
           N(l) == {Place("nodes", l, n) : n \in {b \in NodeIndex(l) : FaultyNode(NodeOf(l, b))}}
<1>2. Faults = L \union X \union E \union UNION {N(l) : l \in LabelIndex}
  BY DEF Faults, FaultyLabel, FaultyExternal, FaultyEntry, NodeOf,
         LabelIndex, ExternalIndex, EntryIndex, NodeIndex, NameAt, External
<1>3. ASSUME NEW e PROVE e \in Faults <=> FaultPassed(e)
  <2>1. e \in L <=> \E l \in LabelIndex : FaultyLabel(l) /\ e = Place("labels", l, 0)
    BY Zenon
  <2>2. e \in X <=> \E x \in ExternalIndex : FaultyExternal(x) /\ e = Place("externals", x, 0)
    BY Zenon
  <2>3. e \in E <=> \E i \in EntryIndex : FaultyEntry(i) /\ e = Place("entries", i, 0)
    BY Zenon
  <2>4. e \in UNION {N(l) : l \in LabelIndex} <=>
          \E l \in LabelIndex : \E n \in NodeIndex(l) :
            FaultyNode(NodeOf(l, n)) /\ e = Place("nodes", l, n)
    <3>1. \A l : e \in N(l) <=>
            \E n \in NodeIndex(l) : FaultyNode(NodeOf(l, n)) /\ e = Place("nodes", l, n)
      BY Zenon
    <3> HIDE DEF N
    <3>2. e \in UNION {N(l) : l \in LabelIndex} <=> \E l \in LabelIndex : e \in N(l)
      OBVIOUS
    <3> QED  BY <3>1, <3>2, Zenon
  <2> HIDE DEF L, X, E, N
  <2> QED  BY <1>1, <1>2, <2>1, <2>2, <2>3, <2>4, Zenon DEF FaultPassed
<1> QED  BY <1>3 DEF ReportInv

\* Whatever the order of declarations, uses and exports, a program of any length
\* has exactly its faults reported by semantic_analyzer_analyze_translation_unit:
\* each duplicate, each entry that is no label, each node with an operand or a
\* mode that is not allowed.
THEOREM ExactlyTheFaults == Spec => []FaultsReported
<1>1. Init => TableInv /\ CellsInv /\ NodeZero /\ NodeInitially /\ ReportInv
  <2> SUFFICES ASSUME Init PROVE TableInv /\ CellsInv /\ NodeZero /\ NodeInitially /\ ReportInv
    OBVIOUS
  <2>1. pc = "initialize" /\ table = {} /\ node = 0 /\ error_list = {}
    BY DEF Init
  <2>2. \A i, n : ~LabelRead(i) /\ ~ExternalRead(i) /\ ~EntryRead(i) /\ ~NodeRead(i, n)
    BY <2>1 DEF LabelRead, ExternalRead, EntryRead, NodeRead
  <2>3. TableInv /\ CellsInv
    BY <2>1, <2>2 DEF TableInv, CellsInv
  <2>4. NodeZero /\ NodeInitially
    BY <2>1 DEF NodeZero, NodeInitially
  <2>5. ReportInv
    BY <2>1, <2>2 DEF ReportInv, FaultPassed
  <2> QED  BY <2>3, <2>4, <2>5
<1> QED
  BY <1>1, InitTypes, StepTypes, StepTable, StepCells, StepZero, StepReport, AllReported,
     PTL DEF Spec
=============================================================================
