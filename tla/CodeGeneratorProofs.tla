------------------------ MODULE CodeGeneratorProofs ------------------------
(***************************************************************************)
(* Proofs about CodeGenerator, for every set of analyzed translation       *)
(* units: types, the agreement of the two passes, what is published, that  *)
(* the object file is the program, and that the lists for the linker are   *)
(* complete.                                                               *)
(***************************************************************************)
EXTENDS CodeGenerator, FiniteSetTheorems, SequenceTheorems, TLAPS

-----------------------------------------------------------------------------
(* What the second pass writes for a node is what the first has counted *)

LEMMA NodeSizeType ==
  ASSUME NEW n, IsNode(n)
  PROVE  NodeSize(n) \in Nat
<1>1. /\ n.length \in Nat
      /\ \/ n.kind = "instruction"
         \/ n.kind = "string" /\ n.length >= 2
         \/ n.kind = "data"
  BY DEF IsNode
<1>2. Len(n.operands) \in Nat
  BY LenProperties DEF IsNode
<1>3. QED
  BY <1>1, <1>2 DEF NodeSize

LEMMA GuidanceAgrees ==
  ASSUME NEW n, IsNode(n), n.kind # "instruction"
  PROVE  GuidanceWords(n) = NodeSize(n)
BY DEF IsNode, NodeSize, GuidanceWords

LEMMA WordCounts ==
  /\ Len(NoOperandWords) = 1
  /\ \A first : Len(OneOperandWords(first)) = 2
  /\ \A first, second : Len(RegisterPairWords(first, second)) = 2
  /\ \A first, second : Len(TwoOperandWords(first, second)) = 3
BY DEF NoOperandWords, OneOperandWords, RegisterPairWords, TwoOperandWords

LEMMA InstructionAgrees ==
  ASSUME NEW n, IsNode(n), n.kind = "instruction"
  PROVE  Len(InstructionWords(n.operands)) = NodeSize(n)
<1>1. Len(n.operands) \in {0, 1, 2}
  <2>1. Len(n.operands) \in Nat /\ Len(n.operands) <= 2
    BY LenProperties DEF IsNode
  <2>2. \A m \in Nat : m <= 2 => m \in {0, 1, 2}
    OBVIOUS
  <2>3. QED
    BY <2>1, <2>2
<1>2. CASE Len(n.operands) = 0
  BY <1>2, WordCounts DEF InstructionWords, NodeSize
<1>3. CASE Len(n.operands) = 1
  BY <1>3, WordCounts DEF InstructionWords, NodeSize
<1>4. CASE Len(n.operands) = 2 /\ BothRegisters(n.operands)
  BY <1>4, WordCounts DEF InstructionWords, NodeSize
<1>5. CASE Len(n.operands) = 2 /\ ~BothRegisters(n.operands)
  BY <1>5, WordCounts DEF InstructionWords, NodeSize
<1>6. QED
  BY <1>1, <1>2, <1>3, <1>4, <1>5

-----------------------------------------------------------------------------
(* Types of what is written *)

\* The bit-fields hold what fits in them.
LEMMA OperandFieldType ==
  ASSUME NEW v \in Int
  PROVE  OperandField(v) \in FieldValues
BY DEF OperandField, OPERAND_VALUES, FieldValues

LEMMA RegisterFieldsType ==
  ASSUME NEW v \in FieldValues, NEW r \in Int, NEW isDst \in BOOLEAN
  PROVE  RegisterFields(v, r, isDst) \in FieldValues
<1>1. CASE isDst
  BY <1>1 DEF RegisterFields, OPERAND_VALUES, FieldValues
<1>2. CASE ~isDst
  BY <1>2 DEF RegisterFields, OPERAND_VALUES, FieldValues
<1>3. QED
  BY <1>1, <1>2

LEMMA RegisterMemoryType ==
  ASSUME NEW memory \in Memory, NEW operand \in Operand, NEW isDst \in BOOLEAN
  PROVE  WithRegister(memory, operand, isDst) \in Memory
<1>1. memory.value \in FieldValues /\ operand.number \in Int
  BY DEF Memory, Operand
<1>2. RegisterFields(memory.value, operand.number, isDst) \in FieldValues
  BY <1>1, RegisterFieldsType
<1>3. QED
  BY <1>2 DEF WithRegister, Memory

LEMMA NoMemoryType == NoMemory \in Memory
BY DEF NoMemory, Memory, FieldValues, OPERAND_VALUES

LEMMA DirectMemoryType ==
  ASSUME TypeOK, NEW name
  PROVE  DirectMemory(name) \in Memory
<1> DEFINE l == CHOOSE i \in LabelsNamed(name) : TRUE
<1>1. CASE LabelsNamed(name) # {}
  <2>1. l \in LabelIndex
    BY <1>1 DEF LabelsNamed
  <2>2. label_position[l] \in Int
    BY <2>1 DEF TypeOK, LayoutTypes
  <2>3. OperandField(label_position[l]) \in FieldValues
    BY <2>2, OperandFieldType
  <2>4. DirectMemory(name) = [ARE |-> 2, value |-> OperandField(label_position[l])]
    BY <1>1 DEF DirectMemory
  <2>5. QED
    BY <2>3, <2>4 DEF Memory
<1>2. CASE LabelsNamed(name) = {}
  BY <1>2, NoMemoryType DEF DirectMemory, Memory, FieldValues, OPERAND_VALUES
<1>3. QED
  BY <1>1, <1>2

LEMMA OperandMemoryType ==
  ASSUME TypeOK, NEW operand \in Operand, NEW isDst \in BOOLEAN
  PROVE  OperandMemory(operand, isDst) \in Memory
<1>1. CASE operand.mode = IMMEDIATE
  <2>1. operand.number \in Int
    BY DEF Operand
  <2>2. OperandField(operand.number) \in FieldValues
    BY <2>1, OperandFieldType
  <2>3. OperandMemory(operand, isDst) =
          [ARE |-> 4, value |-> OperandField(operand.number)]
    BY <1>1 DEF OperandMemory, DIRECT, IMMEDIATE, INDIRECT_REGISTER, DIRECT_REGISTER
  <2>4. QED
    BY <2>2, <2>3 DEF Memory
<1>2. CASE operand.mode = DIRECT
  BY <1>2, DirectMemoryType
  DEF OperandMemory, DIRECT, IMMEDIATE, INDIRECT_REGISTER, DIRECT_REGISTER
<1>3. CASE operand.mode \in {INDIRECT_REGISTER, DIRECT_REGISTER}
  BY <1>3, NoMemoryType, RegisterMemoryType
  DEF OperandMemory, DIRECT, IMMEDIATE, INDIRECT_REGISTER, DIRECT_REGISTER
<1>4. QED
  BY <1>1, <1>2, <1>3 DEF Operand

\* An operand list of an instruction: at most two operands.
LEMMA OperandCount ==
  ASSUME NEW n, IsNode(n)
  PROVE  /\ n.operands \in Seq(Operand)
         /\ Len(n.operands) \in {0, 1, 2}
         /\ Len(n.operands) > 0 => n.operands[1] \in Operand
         /\ Len(n.operands) > 1 => n.operands[2] \in Operand
<1>1. n.operands \in Seq(Operand) /\ Len(n.operands) <= 2
  BY DEF IsNode
<1>2. Len(n.operands) \in Nat
  BY <1>1, LenProperties
<1>3. \A m \in Nat : m <= 2 => m \in {0, 1, 2}
  OBVIOUS
<1>4. Len(n.operands) \in {0, 1, 2}
  BY <1>1, <1>2, <1>3
<1>5. \A m \in Nat : (m > 0 => 1 \in 1 .. m) /\ (m > 1 => 2 \in 1 .. m)
  OBVIOUS
<1>6. \A i \in 1 .. Len(n.operands) : n.operands[i] \in Operand
  BY <1>1, ElementOfSeq
<1>7. Len(n.operands) > 0 => n.operands[1] \in Operand
  BY <1>2, <1>5, <1>6
<1>8. Len(n.operands) > 1 => n.operands[2] \in Operand
  BY <1>2, <1>5, <1>6
<1>9. QED
  BY <1>1, <1>4, <1>7, <1>8

LEMMA Tuples ==
  ASSUME NEW S, NEW x \in S, NEW y \in S, NEW z \in S
  PROVE  <<x>> \in Seq(S) /\ <<x, y>> \in Seq(S) /\ <<x, y, z>> \in Seq(S)
OBVIOUS

LEMMA WordTypes ==
  /\ \A src, dst \in 0 .. 8 : InstructionWord(src, dst) \in Word
  /\ \A memory \in Memory, operands \in Seq(Operand) :
       OperandWord(memory, operands) \in Word
  /\ DataWords \in Word
BY DEF Word, InstructionWord, OperandWord

LEMMA OperandWordType ==
  ASSUME TypeOK, NEW operand \in Operand, NEW isDst \in BOOLEAN
  PROVE  OperandWord(OperandMemory(operand, isDst), <<operand>>) \in Word
<1>1. <<operand>> \in Seq(Operand)
  BY Tuples
<1>2. OperandMemory(operand, isDst) \in Memory
  BY OperandMemoryType
<1>3. QED
  BY <1>1, <1>2, WordTypes

LEMMA InstructionWordType ==
  ASSUME NEW first \in Operand, NEW second \in Operand
  PROVE  /\ InstructionWord(0, first.mode) \in Word
         /\ InstructionWord(first.mode, second.mode) \in Word
<1>1. first.mode \in 0 .. 8 /\ second.mode \in 0 .. 8 /\ 0 \in 0 .. 8
  BY DEF Operand, IMMEDIATE, DIRECT, INDIRECT_REGISTER, DIRECT_REGISTER
<1>2. QED
  BY <1>1, WordTypes

LEMMA InstructionWordsType ==
  ASSUME TypeOK, NEW n, IsNode(n)
  PROVE  InstructionWords(n.operands) \in Seq(Word)
<1> DEFINE first == n.operands[1]
           second == n.operands[2]
<1>1. /\ n.operands \in Seq(Operand)
      /\ Len(n.operands) \in {0, 1, 2}
      /\ Len(n.operands) > 0 => first \in Operand
      /\ Len(n.operands) > 1 => second \in Operand
  BY OperandCount
<1> HIDE DEF first, second
<1>2. NoOperandWords \in Seq(Word)
  <2>1. InstructionWord(0, 0) \in Word
    BY WordTypes
  <2>2. QED
    BY <2>1, Tuples DEF NoOperandWords
<1>3. ASSUME first \in Operand
      PROVE  OneOperandWords(first) \in Seq(Word)
  <2>1. InstructionWord(0, first.mode) \in Word
    BY <1>3, InstructionWordType
  <2>2. OperandWord(OperandMemory(first, TRUE), <<first>>) \in Word
    BY <1>3, OperandWordType
  <2>3. QED
    BY <2>1, <2>2, Tuples DEF OneOperandWords
<1>4. ASSUME first \in Operand, second \in Operand
      PROVE  RegisterPairWords(first, second) \in Seq(Word)
  <2> DEFINE pair == WithRegister(WithRegister(NoMemory, first, FALSE), second, TRUE)
  <2>1. pair \in Memory
    BY <1>4, NoMemoryType, RegisterMemoryType
  <2> HIDE DEF pair
  <2>2. <<first, second>> \in Seq(Operand)
    BY <1>4, Tuples
  <2>3. OperandWord(pair, <<first, second>>) \in Word
    BY <2>1, <2>2, WordTypes
  <2>4. InstructionWord(first.mode, second.mode) \in Word
    BY <1>4, InstructionWordType
  <2>5. QED
    BY <2>3, <2>4, Tuples DEF RegisterPairWords, pair
<1>5. ASSUME first \in Operand, second \in Operand
      PROVE  TwoOperandWords(first, second) \in Seq(Word)
  <2>1. InstructionWord(first.mode, second.mode) \in Word
    BY <1>5, InstructionWordType
  <2>2. OperandWord(OperandMemory(first, FALSE), <<first>>) \in Word
    BY <1>5, OperandWordType
  <2>3. OperandWord(OperandMemory(second, TRUE), <<second>>) \in Word
    BY <1>5, OperandWordType
  <2>4. QED
    BY <2>1, <2>2, <2>3, Tuples DEF TwoOperandWords
<1>6. CASE Len(n.operands) = 0
  BY <1>2, <1>6 DEF InstructionWords
<1>7. CASE Len(n.operands) = 1
  BY <1>1, <1>3, <1>7 DEF InstructionWords, first
<1>8. CASE Len(n.operands) = 2
  BY <1>1, <1>4, <1>5, <1>8 DEF InstructionWords, first, second
<1>9. QED
  BY <1>1, <1>6, <1>7, <1>8

LEMMA ReferenceType ==
  ASSUME TypeOK, NEW operand, NEW p \in Nat
  PROVE  Reference(operand, p) \in Seq(AddressLine)
<1>1. operand.name \in unit.externals => [name |-> operand.name, at |-> p + 1] \in AddressLine
  BY DEF TypeOK, IsTranslationUnit, AddressLine
<1>2. QED
  BY <1>1 DEF Reference

LEMMA ReferencesType ==
  ASSUME TypeOK, NEW n, IsNode(n), NEW at \in Nat
  PROVE  References(n.operands, at) \in Seq(AddressLine)
<1>1. \A operand : \A p \in Nat : Reference(operand, p) \in Seq(AddressLine)
  BY ReferenceType
<1>2. Len(n.operands) \in {0, 1, 2}
  BY OperandCount
<1>3. CASE Len(n.operands) = 0
  BY <1>3 DEF References
<1>4. CASE Len(n.operands) = 1
  BY <1>1, <1>4 DEF References
<1>5. CASE Len(n.operands) = 2
  BY <1>1, <1>5 DEF References
<1>6. QED
  BY <1>2, <1>3, <1>4, <1>5

-----------------------------------------------------------------------------
(* Types *)

\* The second pass never falls behind the lines it has counted.
PositionAhead == position >= 100 + instruction_lines

TypeInv == TypeOK /\ PositionAhead

LEMMA UnitTypes ==
  ASSUME IsTranslationUnit(unit)
  PROVE  /\ Len(unit.labels) \in Nat
         /\ \A l \in LabelIndex : Len(Nodes(l)) \in Nat
         /\ \A l \in LabelIndex : \A n \in 1 .. Len(Nodes(l)) :
              /\ IsNode(Nodes(l)[n])
              /\ l <= unit.instruction_labels <=> Nodes(l)[n].kind = "instruction"
         /\ unit.instruction_labels \in 0 .. Len(unit.labels)
         /\ unit.entries \in Seq(Name)
BY DEF IsTranslationUnit, LabelIndex, Nodes

LEMMA Frames ==
  /\ LayoutTypes /\ UNCHANGED <<unit, pass1>> => LayoutTypes'
  /\ EntryTypes /\ UNCHANGED entries => EntryTypes'
  /\ ObjectTypes /\ UNCHANGED pass2 => ObjectTypes'
  /\ WalkTypes /\ UNCHANGED <<pc, label, node, errors, files>> => WalkTypes'
  /\ IsTranslationUnit(unit) /\ UNCHANGED unit => IsTranslationUnit(unit)'
  /\ PositionAhead /\ UNCHANGED pass2 => PositionAhead'
<1>1. LayoutTypes /\ UNCHANGED <<unit, pass1>> => LayoutTypes'
  BY DEF LayoutTypes, LabelIndex, Nodes, pass1
<1>2. EntryTypes /\ UNCHANGED entries => EntryTypes'
  BY DEF EntryTypes, entries
<1>3. ObjectTypes /\ UNCHANGED pass2 => ObjectTypes'
  BY DEF ObjectTypes, pass2
<1>4. WalkTypes /\ UNCHANGED <<pc, label, node, errors, files>> => WalkTypes'
  BY DEF WalkTypes
<1>5. IsTranslationUnit(unit) /\ UNCHANGED unit => IsTranslationUnit(unit)'
  OBVIOUS
<1>6. PositionAhead /\ UNCHANGED pass2 => PositionAhead'
  BY DEF PositionAhead, pass2
<1>7. QED
  BY <1>1, <1>2, <1>3, <1>4, <1>5, <1>6

LEMMA InitTypes == Init => TypeInv
<1> SUFFICES ASSUME Init PROVE TypeInv
  OBVIOUS
<1>1. IsTranslationUnit(unit)
  BY UnitsAssumption DEF Init
<1>2. WalkTypes
  <2>1. files \in [{"ext", "ent", "ob"} -> {"untouched", "written", "failed"}]
    <3> DEFINE F == {"ext", "ent", "ob"}
    <3>1. files = [f \in F |-> "untouched"]
      BY DEF Init
    <3>2. "untouched" \in {"untouched", "written", "failed"}
      OBVIOUS
    <3> HIDE DEF F
    <3>3. files \in [F -> {"untouched", "written", "failed"}]
      BY <3>1, <3>2
    <3>4. QED
      BY <3>3 DEF F
  <2>2. /\ pc \in {"update_labels", "entries", "object", "ext", "ent", "ob", "done", "crashed"}
        /\ label \in Nat \ {0} /\ node \in Nat \ {0}
    BY DEF Init
  <2>3. errors \in BOOLEAN
    BY Zenon DEF Init
  <2>4. QED
    BY <2>1, <2>2, <2>3, Zenon DEF WalkTypes
<1>3. LayoutTypes
  BY DEF Init, LayoutTypes, STARTING_POSITION
<1>4. EntryTypes
  BY DEF Init, EntryTypes
<1>5. ObjectTypes
  BY DEF Init, ObjectTypes, OBJECT_START
<1>6. PositionAhead
  BY DEF Init, PositionAhead, OBJECT_START
<1>7. QED
  BY <1>1, <1>2, <1>3, <1>4, <1>5, <1>6 DEF TypeInv, TypeOK

\* The pass over the entries, the object file and the files leaves the layout.
LEMMA MeasureNodeTypes == TypeInv /\ MeasureNode => TypeInv'
<1> SUFFICES ASSUME TypeInv, MeasureNode PROVE TypeInv'
  OBVIOUS
<1>1. /\ IsTranslationUnit(unit) /\ WalkTypes /\ LayoutTypes /\ EntryTypes
      /\ ObjectTypes /\ PositionAhead
  BY DEF TypeInv, TypeOK
<1>2. label \in LabelIndex /\ Len(Nodes(label)) \in Nat /\ node \in 1 .. Len(Nodes(label))
  BY <1>1, UnitTypes DEF MeasureNode, AtNode, WalkTypes
<1>3. NodeSize(Node) \in Nat
  BY <1>1, <1>2, UnitTypes, NodeSizeType DEF Node
<1>4. WalkTypes'
  BY <1>1 DEF MeasureNode, WalkTypes
<1>5. LayoutTypes'
  <2>1. totalSize' \in Nat /\ currentPosition' \in Nat
    BY <1>1, <1>3 DEF MeasureNode, LayoutTypes
  <2>2. label_position' \in [LabelIndex' -> Nat]
    BY <1>1 DEF MeasureNode, LayoutTypes, LabelIndex
  <2>3. DOMAIN layout' = LabelIndex'
    BY <1>1 DEF MeasureNode, LayoutTypes, LabelIndex
  <2>4. ASSUME NEW l \in LabelIndex
        PROVE  layout'[l] \in [1 .. Len(Nodes(l)) -> Nat]
    <3> DEFINE at == currentPosition + totalSize
    <3>1. at \in Nat /\ layout[l] \in [1 .. Len(Nodes(l)) -> Nat]
      BY <1>1 DEF LayoutTypes
    <3> HIDE DEF at
    <3>2. layout'[l] = IF l = label THEN [layout[l] EXCEPT ![node] = at] ELSE layout[l]
      BY <1>1 DEF MeasureNode, LayoutTypes, at
    <3>3. QED
      BY <3>1, <3>2
  <2>5. \A l : Nodes(l)' = Nodes(l)
    BY DEF MeasureNode, Nodes
  <2>6. LabelIndex' = LabelIndex
    BY DEF MeasureNode, LabelIndex
  <2>7. QED
    BY <2>1, <2>2, <2>3, <2>4, <2>5, <2>6 DEF LayoutTypes
<1>6. UNCHANGED <<unit, entries, pass2>>
  BY DEF MeasureNode
<1>7. QED
  BY <1>1, <1>4, <1>5, <1>6, Frames DEF TypeInv, TypeOK

LEMMA PlaceLabelTypes == TypeInv /\ PlaceLabel => TypeInv'
<1> SUFFICES ASSUME TypeInv, PlaceLabel PROVE TypeInv'
  OBVIOUS
<1>1. /\ IsTranslationUnit(unit) /\ WalkTypes /\ LayoutTypes /\ EntryTypes
      /\ ObjectTypes /\ PositionAhead
  BY DEF TypeInv, TypeOK
<1>2. WalkTypes'
  <2>1. /\ pc' \in {"update_labels", "entries", "crashed"}
        /\ label' \in Nat \ {0} /\ node' \in Nat \ {0}
    BY <1>1 DEF PlaceLabel, WalkTypes
  <2>2. errors' \in BOOLEAN
    BY <1>1, Zenon DEF PlaceLabel, WalkTypes
  <2>3. files' = files
    BY DEF PlaceLabel
  <2>4. QED
    BY <1>1, <2>1, <2>2, <2>3, Zenon DEF WalkTypes
<1>3. LayoutTypes'
  <2>1. UNCHANGED <<unit, layout>>
    BY DEF PlaceLabel
  <2>2. \A l : Nodes(l)' = Nodes(l)
    BY <2>1 DEF Nodes
  <2>3. LabelIndex' = LabelIndex
    BY <2>1 DEF LabelIndex
  <2>4. totalSize' \in Nat /\ currentPosition' \in Nat
    BY <1>1 DEF PlaceLabel, LayoutTypes
  <2>5. label_position' = [label_position EXCEPT ![label] = currentPosition]
    BY DEF PlaceLabel
  <2>6. label_position' \in [LabelIndex -> Nat]
    BY <1>1, <2>5 DEF LayoutTypes
  <2>7. QED
    BY <1>1, <2>1, <2>2, <2>3, <2>4, <2>6 DEF LayoutTypes
<1>4. UNCHANGED <<unit, entries, pass2>>
  BY DEF PlaceLabel
<1>5. QED
  BY <1>1, <1>2, <1>3, <1>4, Frames DEF TypeInv, TypeOK

LEMMA FinishLabelsTypes == TypeInv /\ FinishLabels => TypeInv'
<1> SUFFICES ASSUME TypeInv, FinishLabels PROVE TypeInv'
  OBVIOUS
<1>1. /\ IsTranslationUnit(unit) /\ WalkTypes /\ LayoutTypes /\ EntryTypes
      /\ ObjectTypes /\ PositionAhead
  BY DEF TypeInv, TypeOK
<1>2. WalkTypes'
  BY <1>1 DEF FinishLabels, WalkTypes
<1>3. UNCHANGED <<unit, pass1, entries, pass2>>
  BY DEF FinishLabels
<1>4. QED
  BY <1>1, <1>2, <1>3, Frames DEF TypeInv, TypeOK

LEMMA ListEntryTypes == TypeInv /\ ListEntry => TypeInv'
<1> SUFFICES ASSUME TypeInv, ListEntry PROVE TypeInv'
  OBVIOUS
<1>1. /\ IsTranslationUnit(unit) /\ WalkTypes /\ LayoutTypes /\ EntryTypes
      /\ ObjectTypes /\ PositionAhead
  BY DEF TypeInv, TypeOK
<1>2. unit.entries[entry] \in Name
  <2>1. unit.entries \in Seq(Name)
    BY <1>1, UnitTypes
  <2>2. entry \in 1 .. Len(unit.entries)
    BY <1>1, <2>1, LenProperties DEF ListEntry, EntryTypes
  <2>3. QED
    BY <2>1, <2>2, ElementOfSeq
<1>3. EntryTypes'
  <2> DEFINE name == unit.entries[entry]
             line(l) == [name |-> name, at |-> label_position[l] + STARTING_POSITION]
  <2>1. entry' \in Nat \ {0}
    BY <1>1 DEF ListEntry, EntryTypes
  <2>2. \A l \in LabelIndex : line(l) \in AddressLine
    BY <1>1, <1>2 DEF AddressLine, LayoutTypes, STARTING_POSITION
  <2>3. \/ UNCHANGED <<entry_file, has_entry>>
        \/ /\ has_entry' = has_entry \union {name}
           /\ \E l \in LabelIndex : entry_file' = Append(entry_file, line(l))
    BY DEF ListEntry, LabelsNamed
  <2> HIDE DEF line
  <2>4. entry_file' \in Seq(AddressLine) /\ has_entry' \subseteq Name
    BY <1>1, <1>2, <2>2, <2>3 DEF EntryTypes
  <2>5. QED
    BY <2>1, <2>4 DEF EntryTypes
<1>4. UNCHANGED <<unit, pc, label, node, errors, files, pass1, pass2>>
  BY DEF ListEntry
<1>5. QED
  BY <1>1, <1>3, <1>4, Frames DEF TypeInv, TypeOK

LEMMA FinishEntriesTypes == TypeInv /\ FinishEntries => TypeInv'
<1> SUFFICES ASSUME TypeInv, FinishEntries PROVE TypeInv'
  OBVIOUS
<1>1. /\ IsTranslationUnit(unit) /\ WalkTypes /\ LayoutTypes /\ EntryTypes
      /\ ObjectTypes /\ PositionAhead
  BY DEF TypeInv, TypeOK
<1>2. WalkTypes'
  BY <1>1 DEF FinishEntries, WalkTypes
<1>3. UNCHANGED <<unit, pass1, entries, pass2>>
  BY DEF FinishEntries
<1>4. QED
  BY <1>1, <1>2, <1>3, Frames DEF TypeInv, TypeOK

LEMMA EmitInstructionTypes == TypeInv /\ EmitInstruction => TypeInv'
<1> SUFFICES ASSUME TypeInv, EmitInstruction PROVE TypeInv'
  OBVIOUS
<1>1. /\ IsTranslationUnit(unit) /\ WalkTypes /\ LayoutTypes /\ EntryTypes
      /\ ObjectTypes /\ PositionAhead /\ TypeOK
  BY DEF TypeInv, TypeOK
<1>2. label \in LabelIndex /\ node \in 1 .. Len(Nodes(label)) /\ IsNode(Node)
  BY <1>1, UnitTypes DEF EmitInstruction, AtNode, WalkTypes, Node
<1> DEFINE words == InstructionWords(Node.operands)
           line(k) == Line(position + k - 1, 1, words[k])
           lines == [k \in 1 .. Len(words) |-> line(k)]
<1>3. words \in Seq(Word)
  BY <1>1, <1>2, InstructionWordsType
<1>4. /\ object_file' = object_file \o lines
      /\ external_file' = external_file \o References(Node.operands, position)
      /\ position' = position + Len(words)
  BY DEF EmitInstruction
<1> HIDE DEF words
<1>5. Len(words) \in Nat
  BY <1>3, LenProperties
<1>6. lines \in Seq(ObjectLine)
  <2>1. ASSUME NEW k \in 1 .. Len(words)
        PROVE  line(k) \in ObjectLine
    <3>1. words[k] \in Word
      BY <1>3, ElementOfSeq
    <3>2. position + k - 1 \in Nat /\ label \in Nat /\ node \in Nat
      BY <1>1, <1>5 DEF ObjectTypes, WalkTypes
    <3>3. QED
      BY <3>1, <3>2 DEF Line, ObjectLine
  <2> HIDE DEF line
  <2>2. QED
    BY <1>5, <2>1
<1> HIDE DEF lines
<1>7. object_file' \in Seq(ObjectLine)
  BY <1>1, <1>4, <1>6, ConcatProperties DEF ObjectTypes
<1>8. external_file' \in Seq(AddressLine)
  <2>1. References(Node.operands, position) \in Seq(AddressLine)
    BY <1>1, <1>2, ReferencesType DEF ObjectTypes
  <2>2. QED
    BY <1>1, <1>4, <2>1, ConcatProperties DEF ObjectTypes
<1>9. ObjectTypes' /\ PositionAhead'
  BY <1>1, <1>4, <1>5, <1>7, <1>8 DEF ObjectTypes, PositionAhead, EmitInstruction
<1>10. WalkTypes'
  BY <1>1 DEF EmitInstruction, WalkTypes
<1>11. UNCHANGED <<unit, pass1, entries>>
  BY DEF EmitInstruction
<1>12. QED
  BY <1>1, <1>9, <1>10, <1>11, Frames DEF TypeInv, TypeOK

LEMMA EmitGuidanceTypes == TypeInv /\ EmitGuidance => TypeInv'
<1> SUFFICES ASSUME TypeInv, EmitGuidance PROVE TypeInv'
  OBVIOUS
<1>1. /\ IsTranslationUnit(unit) /\ WalkTypes /\ LayoutTypes /\ EntryTypes
      /\ ObjectTypes /\ PositionAhead
  BY DEF TypeInv, TypeOK
<1>2. /\ label \in LabelIndex /\ node \in 1 .. Len(Nodes(label)) /\ IsNode(Node)
      /\ Node.kind # "instruction"
  BY <1>1, UnitTypes DEF EmitGuidance, AtNode, WalkTypes, Node
<1>3. GuidanceWords(Node) \in Nat
  BY <1>2, NodeSizeType, GuidanceAgrees
<1>4. Line(position, GuidanceWords(Node), DataWords) \in ObjectLine
  BY <1>1, <1>3, WordTypes DEF Line, ObjectLine, ObjectTypes, WalkTypes
<1>5. ObjectTypes' /\ PositionAhead'
  BY <1>1, <1>3, <1>4 DEF EmitGuidance, ObjectTypes, PositionAhead
<1>6. WalkTypes'
  BY <1>1 DEF EmitGuidance, WalkTypes
<1>7. UNCHANGED <<unit, pass1, entries>>
  BY DEF EmitGuidance
<1>8. QED
  BY <1>1, <1>5, <1>6, <1>7, Frames DEF TypeInv, TypeOK

LEMMA NextLabelTypes == TypeInv /\ NextLabel => TypeInv'
<1> SUFFICES ASSUME TypeInv, NextLabel PROVE TypeInv'
  OBVIOUS
<1>1. /\ IsTranslationUnit(unit) /\ WalkTypes /\ LayoutTypes /\ EntryTypes
      /\ ObjectTypes /\ PositionAhead
  BY DEF TypeInv, TypeOK
<1>2. ObjectTypes' /\ PositionAhead'
  BY <1>1 DEF NextLabel, ObjectTypes, PositionAhead
<1>3. WalkTypes'
  BY <1>1 DEF NextLabel, WalkTypes
<1>4. UNCHANGED <<unit, pass1, entries>>
  BY DEF NextLabel
<1>5. QED
  BY <1>1, <1>2, <1>3, <1>4, Frames DEF TypeInv, TypeOK

LEMMA FinishObjectTypes == TypeInv /\ FinishObject => TypeInv'
<1> SUFFICES ASSUME TypeInv, FinishObject PROVE TypeInv'
  OBVIOUS
<1>1. /\ IsTranslationUnit(unit) /\ WalkTypes /\ LayoutTypes /\ EntryTypes
      /\ ObjectTypes /\ PositionAhead
  BY DEF TypeInv, TypeOK
<1>2. ObjectTypes' /\ PositionAhead'
  BY <1>1 DEF FinishObject, ObjectTypes, PositionAhead
<1>3. WalkTypes'
  BY <1>1 DEF FinishObject, WalkTypes
<1>4. UNCHANGED <<unit, pass1, entries>>
  BY DEF FinishObject
<1>5. QED
  BY <1>1, <1>2, <1>3, <1>4, Frames DEF TypeInv, TypeOK

WriteFiles == WriteExternals \/ WriteEntries \/ WriteObject

\* What writing a file does, whichever it is.
LEMMA WriteEffect ==
  ASSUME TypeInv, WriteFiles
  PROVE  /\ UNCHANGED <<unit, label, node, errors, pass1, entries, pass2>>
         /\ pc \in {"ext", "ent", "ob"} /\ pc' \in {"ent", "ob", "done"}
         /\ \/ UNCHANGED files
            \/ /\ ~errors
               /\ \E f \in DOMAIN files, outcome \in {"written", "failed"} :
                    files' = [files EXCEPT ![f] = outcome]
<1>1. DOMAIN files = {"ext", "ent", "ob"}
  BY DEF TypeInv, TypeOK, WalkTypes
<1>2. ASSUME NEW file \in {"ext", "ent", "ob"}, NEW content,
             NEW next \in {"ent", "ob", "done"}, WriteFile(file, content, next)
      PROVE  /\ UNCHANGED <<unit, label, node, errors, pass1, entries, pass2>>
             /\ pc \in {"ext", "ent", "ob"} /\ pc' \in {"ent", "ob", "done"}
             /\ \/ UNCHANGED files
                \/ /\ ~errors
                   /\ \E f \in DOMAIN files, outcome \in {"written", "failed"} :
                        files' = [files EXCEPT ![f] = outcome]
  BY <1>1, <1>2, Zenon DEF WriteFile
<1>3. CASE WriteExternals
  BY <1>2, <1>3 DEF WriteExternals
<1>4. CASE WriteEntries
  BY <1>2, <1>4 DEF WriteEntries
<1>5. CASE WriteObject
  BY <1>2, <1>5 DEF WriteObject
<1>6. QED
  BY <1>3, <1>4, <1>5 DEF WriteFiles

LEMMA WriteFilesTypes == TypeInv /\ WriteFiles => TypeInv'
<1> SUFFICES ASSUME TypeInv, WriteFiles PROVE TypeInv'
  OBVIOUS
<1>1. /\ IsTranslationUnit(unit) /\ WalkTypes /\ LayoutTypes /\ EntryTypes
      /\ ObjectTypes /\ PositionAhead
  BY DEF TypeInv, TypeOK
<1>2. files' \in [{"ext", "ent", "ob"} -> {"untouched", "written", "failed"}]
  <2>1. CASE UNCHANGED files
    BY <1>1, <2>1 DEF WalkTypes
  <2>2. ASSUME NEW f \in DOMAIN files, NEW outcome \in {"written", "failed"},
               files' = [files EXCEPT ![f] = outcome]
        PROVE  files' \in [{"ext", "ent", "ob"} -> {"untouched", "written", "failed"}]
    <3>1. outcome \in {"untouched", "written", "failed"}
      OBVIOUS
    <3>2. \A D, V, g, v : g \in [D -> V] /\ v \in V => [g EXCEPT ![f] = v] \in [D -> V]
      OBVIOUS
    <3>3. QED
      BY <1>1, <2>2, <3>1, <3>2, Zenon DEF WalkTypes
  <2>3. QED
    BY <2>1, <2>2, WriteEffect
<1>3. UNCHANGED <<unit, label, node, errors, pass1, entries, pass2>>
  BY WriteEffect
<1>4. pc' \in {"ent", "ob", "done"}
  BY WriteEffect
<1>5. WalkTypes'
  BY <1>1, <1>2, <1>3, <1>4 DEF WalkTypes
<1>6. QED
  BY <1>1, <1>3, <1>5, Frames DEF TypeInv, TypeOK

LEMMA StepTypes == TypeInv /\ [Next]_vars => TypeInv'
<1> SUFFICES ASSUME TypeInv, [Next]_vars PROVE TypeInv'
  OBVIOUS
<1>1. CASE MeasureNode
  BY <1>1, MeasureNodeTypes
<1>2. CASE PlaceLabel
  BY <1>2, PlaceLabelTypes
<1>3. CASE FinishLabels
  BY <1>3, FinishLabelsTypes
<1>4. CASE ListEntry
  BY <1>4, ListEntryTypes
<1>5. CASE FinishEntries
  BY <1>5, FinishEntriesTypes
<1>6. CASE EmitInstruction
  BY <1>6, EmitInstructionTypes
<1>7. CASE EmitGuidance
  BY <1>7, EmitGuidanceTypes
<1>8. CASE NextLabel
  BY <1>8, NextLabelTypes
<1>9. CASE FinishObject
  BY <1>9, FinishObjectTypes
<1>10. CASE WriteFiles
  BY <1>10, WriteFilesTypes
<1>11. CASE UNCHANGED vars
  <2>1. UNCHANGED <<unit, pc, label, node, errors, files, pass1, entries, pass2>>
    BY <1>11 DEF vars
  <2>2. QED
    BY <2>1, Frames DEF TypeInv, TypeOK
<1>12. QED
  BY <1>1, <1>2, <1>3, <1>4, <1>5, <1>6, <1>7, <1>8, <1>9, <1>10, <1>11
  DEF Next, WriteFiles

\* Every variable keeps its type: every address, size and count of both passes
\* is a natural number, every word fits in its fields, and every line of the
\* three files is well formed.
THEOREM TypeCorrect == Spec => []TypeOK
<1>1. TypeInv => TypeOK
  BY DEF TypeInv
<1>2. QED
  BY InitTypes, StepTypes, <1>1, PTL DEF Spec

-----------------------------------------------------------------------------
(* The layout of the first pass, and the second pass along it *)

\* The address after the first n - 1 nodes of label l, which starts at base.
After(l, n, base) ==
  IF n = 1 THEN base ELSE layout[l][n - 1] + NodeSize(Nodes(l)[n - 1])

Chained(l, base, count) == \A n \in 1 .. count : layout[l][n] = After(l, n, base)

EndOf(l) == After(l, Len(Nodes(l)) + 1, label_position[l])
StartOf(l) == IF l = 1 THEN STARTING_POSITION ELSE EndOf(l - 1)

Placed(l) ==
  /\ label_position[l] = StartOf(l) /\ label_position[l] >= STARTING_POSITION
  /\ Chained(l, label_position[l], Len(Nodes(l)))

InMemory == STARTING_POSITION <= currentPosition /\ currentPosition <= MAX_POSITION

\* The labels before the current one are placed, and the nodes of the current
\* one before the current node.
FirstPass ==
  pc = "update_labels" =>
    /\ ~errors
    /\ label <= Len(unit.labels) + 1
    /\ currentPosition = StartOf(label) /\ InMemory
    /\ \A l \in LabelIndex : l < label => Placed(l)
    /\ label \in LabelIndex =>
         /\ node <= Len(Nodes(label)) + 1
         /\ Chained(label, currentPosition, node - 1)
         /\ currentPosition + totalSize = After(label, node, currentPosition)

\* A first pass that ended without an error has placed every label.
AllPlaced ==
  pc \notin {"update_labels", "crashed"} /\ ~errors =>
    /\ \A l \in LabelIndex : Placed(l)
    /\ currentPosition = StartOf(Len(unit.labels) + 1) /\ InMemory

\* The second pass is where the layout says.
SecondPass ==
  /\ pc \in {"update_labels", "entries"} => position = OBJECT_START
  /\ pc = "object" /\ ~errors =>
       /\ label <= Len(unit.labels) + 1
       /\ label \in LabelIndex =>
            /\ node <= Len(Nodes(label)) + 1
            /\ position = After(label, node, label_position[label])
       /\ label \notin LabelIndex => position = StartOf(label)

\* A file is touched only after both passes, and not after an error.
FilesLast ==
  (\E f \in DOMAIN files : files[f] # "untouched") =>
    pc \in {"ent", "ob", "done"} /\ ~errors

\* The counts are those of the memory laid out.
Counted ==
  ObjectComplete /\ ~errors => 100 + instruction_lines + guidance_lines = currentPosition

LayoutInv == TypeInv /\ FirstPass /\ AllPlaced /\ SecondPass /\ FilesLast /\ Counted

LEMMA LayoutInvParts ==
  ASSUME LayoutInv
  PROVE  /\ TypeInv /\ FirstPass /\ AllPlaced /\ SecondPass /\ FilesLast /\ Counted
         /\ IsTranslationUnit(unit) /\ WalkTypes /\ LayoutTypes /\ ObjectTypes
BY DEF LayoutInv, TypeInv, TypeOK

LEMMA InitLayout == Init => LayoutInv
<1> SUFFICES ASSUME Init PROVE LayoutInv
  OBVIOUS
<1>1. TypeInv
  BY InitTypes
<1>2. Len(unit.labels) \in Nat
  BY <1>1, UnitTypes DEF TypeInv, TypeOK
<1>3. \A l \in LabelIndex : Len(Nodes(l)) \in Nat
  BY <1>1, UnitTypes DEF TypeInv, TypeOK
<1>4. FirstPass
  <2>1. ~errors
    BY DEF Init
  <2>2. /\ label <= Len(unit.labels) + 1
        /\ currentPosition = StartOf(label) /\ InMemory
        /\ \A l \in LabelIndex : l < label => Placed(l)
    BY <1>2 DEF Init, StartOf, InMemory, STARTING_POSITION, MAX_POSITION, LabelIndex
  <2>3. ASSUME label \in LabelIndex
        PROVE  /\ node <= Len(Nodes(label)) + 1
               /\ Chained(label, currentPosition, node - 1)
               /\ currentPosition + totalSize = After(label, node, currentPosition)
    BY <1>3, <2>3 DEF Init, Chained, After, STARTING_POSITION
  <2>4. QED
    BY <2>1, <2>2, <2>3 DEF FirstPass
<1>5. AllPlaced /\ SecondPass
  BY DEF Init, AllPlaced, SecondPass
<1>6. FilesLast
  BY DEF Init, FilesLast
<1>7. Counted
  BY DEF Init, Counted, ObjectComplete
<1>8. QED
  BY <1>1, <1>4, <1>5, <1>6, <1>7 DEF LayoutInv

\* The layout does not change after the first pass.
Laid ==
  /\ \A l \in LabelIndex : Placed(l)
  /\ currentPosition = StartOf(Len(unit.labels) + 1) /\ InMemory

LEMMA LaidFrame ==
  ASSUME UNCHANGED <<unit, layout, label_position, currentPosition>>
  PROVE  /\ Laid => Laid'
         /\ LabelIndex' = LabelIndex
         /\ \A l : Nodes(l)' = Nodes(l) /\ (Placed(l) => Placed(l)') /\ StartOf(l)' = StartOf(l)
<1>1. \A l : Nodes(l)' = Nodes(l)
  BY DEF Nodes
<1>2. \A l : EndOf(l)' = EndOf(l)
  BY <1>1 DEF EndOf, After
<1>3. \A l : StartOf(l)' = StartOf(l)
  BY <1>2 DEF StartOf
<1>4. \A l : Placed(l) => Placed(l)'
  BY <1>1, <1>3 DEF Placed, Chained, After
<1>5. LabelIndex' = LabelIndex
  BY DEF LabelIndex
<1>6. StartOf(Len(unit.labels) + 1)' = StartOf(Len(unit.labels) + 1)
  BY <1>1 DEF StartOf, EndOf, After
<1>7. Laid => Laid'
  BY <1>4, <1>5, <1>6 DEF Laid, InMemory
<1>8. QED
  BY <1>1, <1>3, <1>4, <1>5, <1>7

LEMMA AllPlacedIsLaid ==
  AllPlaced <=> (pc \notin {"update_labels", "crashed"} /\ ~errors => Laid)
BY DEF AllPlaced, Laid

LEMMA MeasureNodeLayout == LayoutInv /\ MeasureNode => FirstPass'
<1> SUFFICES ASSUME LayoutInv, MeasureNode PROVE FirstPass'
  OBVIOUS
<1>1. IsTranslationUnit(unit) /\ WalkTypes /\ LayoutTypes /\ FirstPass
  BY LayoutInvParts
<1>2. label \in LabelIndex /\ Len(Nodes(label)) \in Nat /\ node \in 1 .. Len(Nodes(label))
  BY <1>1, UnitTypes DEF MeasureNode, AtNode, WalkTypes
<1>3. /\ ~errors
      /\ label <= Len(unit.labels) + 1
      /\ currentPosition = StartOf(label) /\ InMemory
      /\ \A l \in LabelIndex : l < label => Placed(l)
      /\ Chained(label, currentPosition, node - 1)
      /\ currentPosition + totalSize = After(label, node, currentPosition)
  BY <1>1, <1>2 DEF FirstPass, MeasureNode
<1>4. /\ UNCHANGED <<unit, pc, label, errors, currentPosition, label_position>>
      /\ node' = node + 1
      /\ totalSize' = totalSize + NodeSize(Node)
  BY DEF MeasureNode
<1>5. /\ LabelIndex' = LabelIndex
      /\ \A l : Nodes(l)' = Nodes(l)
  BY <1>4 DEF LabelIndex, Nodes
<1> DEFINE at == currentPosition + totalSize
<1>6. at \in Nat /\ layout[label] \in [1 .. Len(Nodes(label)) -> Nat]
  BY <1>1, <1>2 DEF LayoutTypes
<1>7. layout' = [layout EXCEPT ![label][node] = at]
  BY DEF MeasureNode
<1> HIDE DEF at
<1>8. \A l \in LabelIndex : l # label => layout'[l] = layout[l]
  BY <1>1, <1>7 DEF LayoutTypes
<1>9. layout'[label] = [layout[label] EXCEPT ![node] = at]
  BY <1>1, <1>2, <1>7 DEF LayoutTypes
<1>10. \A n \in 1 .. Len(Nodes(label)) : n # node => layout'[label][n] = layout[label][n]
  BY <1>6, <1>9
<1>11. layout'[label][node] = at
  BY <1>2, <1>6, <1>9
<1>12. \A l \in LabelIndex : l # label => EndOf(l)' = EndOf(l)
  BY <1>4, <1>5, <1>8 DEF EndOf, After
<1>13. \A l \in LabelIndex : l <= label => StartOf(l)' = StartOf(l)
  <2>1. \A l \in LabelIndex : l <= label /\ l # 1 => l - 1 \in LabelIndex /\ l - 1 # label
    BY <1>1, UnitTypes DEF LabelIndex, WalkTypes
  <2>2. QED
    BY <1>12, <2>1 DEF StartOf
<1>14. \A l \in LabelIndex : l < label => Placed(l)'
  <2> SUFFICES ASSUME NEW l \in LabelIndex, l < label PROVE Placed(l)'
    OBVIOUS
  <2>1. Placed(l)
    BY <1>3
  <2>2. l # label /\ l <= label
    BY <1>2, UnitTypes DEF LabelIndex
  <2>3. StartOf(l)' = StartOf(l) /\ layout'[l] = layout[l]
    BY <1>8, <1>13, <2>2
  <2>4. QED
    BY <1>4, <1>5, <2>1, <2>3 DEF Placed, Chained, After
<1>15. currentPosition' = StartOf(label)' /\ InMemory'
  <2>1. StartOf(label)' = StartOf(label)
    <3>1. CASE label = 1
      BY <1>4, <3>1 DEF StartOf
    <3>2. CASE label # 1
      <4>1. label - 1 \in LabelIndex /\ label - 1 # label
        BY <1>1, <1>2, <3>2, UnitTypes DEF LabelIndex
      <4>2. layout'[label - 1] = layout[label - 1]
        BY <1>8, <4>1
      <4>3. QED
        BY <1>4, <3>2, <4>2 DEF StartOf, EndOf, After, Nodes
    <3>3. QED
      BY <3>1, <3>2
  <2>2. QED
    BY <1>3, <1>4, <2>1 DEF InMemory
<1>16. Chained(label, currentPosition, node - 1)'
  <2> SUFFICES ASSUME NEW n \in 1 .. node
               PROVE  layout'[label][n] =
                        IF n = 1 THEN currentPosition
                        ELSE layout'[label][n - 1] + NodeSize(Nodes(label)[n - 1])
    BY <1>2, <1>4 DEF Chained, After, Nodes
  <2>1. n \in 1 .. Len(Nodes(label))
        /\ (n # 1 => n - 1 \in 1 .. Len(Nodes(label)) /\ n - 1 # node)
    BY <1>2
  <2>2. n # 1 => layout'[label][n - 1] = layout[label][n - 1]
    BY <1>10, <2>1
  <2>3. layout'[label][n] = After(label, n, currentPosition)
    <3>1. CASE n = node
      BY <1>3, <1>11, <3>1 DEF at
    <3>2. CASE n # node
      <4>1. n \in 1 .. node - 1
        BY <1>2, <3>2
      <4>2. QED
        BY <1>3, <1>10, <2>1, <3>2, <4>1 DEF Chained
    <3>3. QED
      BY <3>1, <3>2
  <2>4. QED
    BY <2>2, <2>3 DEF After
<1>17. (currentPosition + totalSize = After(label, node, currentPosition))'
  <2>1. node' - 1 = node /\ node' # 1
    BY <1>2, <1>4
  <2>2. currentPosition + totalSize' = at + NodeSize(Node)
    <3>1. IsNode(Node)
      BY <1>1, <1>2, UnitTypes DEF Node
    <3>2. NodeSize(Node) \in Nat
      BY <3>1, NodeSizeType
    <3>3. QED
      BY <1>1, <1>4, <3>2 DEF at, LayoutTypes
  <2>3. QED
    BY <1>4, <1>11, <2>1, <2>2 DEF After, Node, Nodes
<1>18. node' <= Len(Nodes(label)') + 1
  BY <1>2, <1>4, <1>5
<1>19. QED
  BY <1>3, <1>4, <1>5, <1>14, <1>15, <1>16, <1>17, <1>18 DEF FirstPass, Nodes


\* Placing a label: its address is where the one before it ends.
LEMMA PlaceLabelLayout == LayoutInv /\ PlaceLabel => FirstPass' /\ AllPlaced'
<1> SUFFICES ASSUME LayoutInv, PlaceLabel PROVE FirstPass' /\ AllPlaced'
  OBVIOUS
<1>1. IsTranslationUnit(unit) /\ WalkTypes /\ LayoutTypes /\ FirstPass
  BY LayoutInvParts
<1>2. /\ label \in LabelIndex /\ Len(Nodes(label)) \in Nat /\ Len(unit.labels) \in Nat
      /\ node > Len(Nodes(label)) /\ node \in Nat
  BY <1>1, UnitTypes DEF PlaceLabel, AtEndOfLabel, WalkTypes
<1>3. /\ ~errors
      /\ currentPosition = StartOf(label) /\ InMemory
      /\ \A l \in LabelIndex : l < label => Placed(l)
      /\ node <= Len(Nodes(label)) + 1
      /\ Chained(label, currentPosition, node - 1)
      /\ currentPosition + totalSize = After(label, node, currentPosition)
  BY <1>1, <1>2 DEF FirstPass, PlaceLabel
<1>4. node = Len(Nodes(label)) + 1 /\ node - 1 = Len(Nodes(label))
  BY <1>2, <1>3
<1>5. CASE currentPosition + totalSize > MAX_POSITION
  BY <1>5 DEF PlaceLabel, FirstPass, AllPlaced
<1>6. CASE ~(currentPosition + totalSize > MAX_POSITION)
  <2>1. /\ label' = label + 1 /\ node' = 1 /\ totalSize' = 0
        /\ UNCHANGED <<pc, errors, unit, layout>>
        /\ currentPosition' = currentPosition + totalSize
        /\ label_position' = [label_position EXCEPT ![label] = currentPosition]
        /\ pc = "update_labels"
    BY <1>6 DEF PlaceLabel
  <2>2. /\ LabelIndex' = LabelIndex
        /\ \A l : Nodes(l)' = Nodes(l)
    BY <2>1 DEF LabelIndex, Nodes
  <2>3. /\ label_position'[label] = currentPosition
        /\ \A l \in LabelIndex : l # label => label_position'[l] = label_position[l]
    BY <1>1, <1>2, <2>1 DEF LayoutTypes
  <2> DEFINE last == Len(Nodes(label))
  <2>4. last \in Nat /\ last + 1 - 1 = last /\ (last + 1 = 1 <=> last = 0)
    BY <1>2
  <2>5. (IF last + 1 = 1 THEN label_position'[label]
         ELSE layout[label][last + 1 - 1] + NodeSize(Nodes(label)[last + 1 - 1]))
          = currentPosition'
    BY <1>3, <1>4, <2>1, <2>3 DEF After
  <2>6. PICK k : k = label
    OBVIOUS
  <2>7. EndOf(k)' = currentPosition'
    BY <2>1, <2>5, <2>6 DEF EndOf, After, Nodes
  <2>8. StartOf(k + 1)' = currentPosition'
    BY <1>2, <2>6, <2>7 DEF StartOf, LabelIndex
  <2>9. StartOf(label)' = currentPosition'
    <3>1. label' = k + 1 /\ label' - 1 = k /\ label' # 1
      BY <1>2, <2>1, <2>6 DEF LabelIndex
    <3>2. QED
      BY <2>1, <2>5, <2>6, <3>1 DEF StartOf, EndOf, After, Nodes
  <2>10. \A l \in LabelIndex : l <= label => StartOf(l)' = StartOf(l)
    <3>1. \A l \in LabelIndex : l # label => EndOf(l)' = EndOf(l)
      BY <2>1, <2>2, <2>3 DEF EndOf, After
    <3>2. \A l \in LabelIndex : l <= label /\ l # 1 => l - 1 \in LabelIndex /\ l - 1 # label
      BY <1>2 DEF LabelIndex
    <3>3. QED
      BY <3>1, <3>2 DEF StartOf
  <2>11. \A l \in LabelIndex : l <= label => Placed(l)'
    <3> SUFFICES ASSUME NEW l \in LabelIndex, l <= label PROVE Placed(l)'
      OBVIOUS
    <3>1. StartOf(l)' = StartOf(l)
      BY <2>10
    <3>2. CASE l = label
      <4>1. Chained(label, currentPosition, Len(Nodes(label)))
        BY <1>3, <1>4
      <4>2. label_position'[l] = currentPosition
        BY <2>3, <3>2
      <4>3. \A n \in 1 .. Len(Nodes(l)) :
              layout[l][n] = IF n = 1 THEN currentPosition
                             ELSE layout[l][n - 1] + NodeSize(Nodes(l)[n - 1])
        BY <3>2, <4>1 DEF Chained, After
      <4>4. Chained(l, label_position[l], Len(Nodes(l)))'
        BY <2>1, <4>2, <4>3 DEF Chained, After, Nodes
      <4>5. label_position'[l] = StartOf(l)' /\ label_position'[l] >= STARTING_POSITION
        BY <1>3, <3>1, <3>2, <4>2 DEF InMemory
      <4>6. QED
        BY <4>4, <4>5 DEF Placed
    <3>3. CASE l # label
      <4>1. Placed(l)
        BY <1>2, <1>3, <3>3 DEF LabelIndex
      <4>2. label_position'[l] = label_position[l]
        BY <2>3, <3>3
      <4>3. QED
        BY <2>1, <2>2, <3>1, <4>1, <4>2 DEF Placed, Chained, After
    <3>4. QED
      BY <3>2, <3>3
  <2>12. \A l \in LabelIndex' : l < label' => Placed(l)'
    BY <1>2, <2>1, <2>2, <2>11 DEF LabelIndex
  <2>13. InMemory'
    <3>1. currentPosition \in Nat /\ totalSize \in Nat
      BY <1>1 DEF LayoutTypes
    <3>2. QED
      BY <1>3, <1>6, <2>1, <3>1 DEF InMemory, STARTING_POSITION, MAX_POSITION
  <2>14. label' <= Len(unit.labels)' + 1
    BY <1>2, <2>1 DEF LabelIndex
  <2>15. ASSUME label' \in LabelIndex'
         PROVE  /\ node' <= Len(Nodes(label))' + 1
                /\ Chained(label, currentPosition, node - 1)'
                /\ (currentPosition + totalSize = After(label, node, currentPosition))'
    <3>1. Len(unit.labels[label'].nodes) \in Nat
      BY <1>1, <2>2, <2>15, UnitTypes DEF Nodes
    <3>2. currentPosition' + 0 = currentPosition'
      BY <2>13, <1>1, <2>1 DEF LayoutTypes
    <3>3. QED
      BY <2>1, <3>1, <3>2 DEF Chained, After, Nodes
  <2>16. ~errors'
    BY <1>3, <2>1
  <2>17. FirstPass'
    BY <2>9, <2>12, <2>13, <2>14, <2>15, <2>16 DEF FirstPass
  <2>18. AllPlaced'
    BY <2>1 DEF AllPlaced
  <2>19. QED
    BY <2>17, <2>18
<1>7. QED
  BY <1>5, <1>6

\* A walk that has passed every label has the whole unit laid out.
LEMMA FinishLabelsLayout == LayoutInv /\ FinishLabels => AllPlaced'
<1> SUFFICES ASSUME LayoutInv, FinishLabels PROVE AllPlaced'
  OBVIOUS
<1>1. IsTranslationUnit(unit) /\ WalkTypes /\ FirstPass
  BY LayoutInvParts
<1>2. Len(unit.labels) \in Nat /\ label \in Nat
  BY <1>1, UnitTypes DEF WalkTypes
<1>3. /\ label <= Len(unit.labels) + 1 /\ label > Len(unit.labels)
      /\ currentPosition = StartOf(label) /\ InMemory
      /\ \A l \in LabelIndex : l < label => Placed(l)
  BY <1>1 DEF FirstPass, FinishLabels, AtEndOfUnit
<1>4. label = Len(unit.labels) + 1
  BY <1>2, <1>3
<1>5. Laid
  BY <1>2, <1>3, <1>4 DEF Laid, LabelIndex
<1>6. UNCHANGED <<unit, layout, label_position, currentPosition>>
  BY DEF FinishLabels, pass1
<1>7. Laid'
  BY <1>5, <1>6, LaidFrame
<1>8. QED
  BY <1>7 DEF AllPlaced, Laid

\* An action that leaves the first pass's results and errors keeps them.
LEMMA LayoutKept ==
  ASSUME LayoutInv, UNCHANGED <<unit, errors, pass1>>,
         pc \notin {"update_labels", "crashed"}, pc' \notin {"update_labels", "crashed"}
  PROVE  FirstPass' /\ AllPlaced'
<1>1. UNCHANGED <<unit, layout, label_position, currentPosition>>
  BY DEF pass1
<1>2. AllPlaced
  BY LayoutInvParts
<1>3. ~errors' => Laid'
  BY <1>1, <1>2, LaidFrame DEF AllPlaced, Laid
<1>4. AllPlaced'
  BY <1>3 DEF AllPlaced, Laid
<1>5. FirstPass'
  BY DEF FirstPass
<1>6. QED
  BY <1>4, <1>5

\* Before a node is written, its address is the one the first pass counted.
LEMMA NodeInPlace ==
  ASSUME LayoutInv, pc = "object", ~errors, label \in LabelIndex,
         node <= Len(Nodes(label))
  PROVE  layout[label][node] = position
<1>1. IsTranslationUnit(unit) /\ WalkTypes /\ AllPlaced /\ SecondPass
  BY LayoutInvParts
<1>2. Placed(label) /\ position = After(label, node, label_position[label])
  BY <1>1 DEF AllPlaced, SecondPass
<1>3. node \in 1 .. Len(Nodes(label))
  BY <1>1, UnitTypes DEF WalkTypes
<1>4. QED
  BY <1>2, <1>3 DEF Placed, Chained

\* One step over a node of that size keeps the second pass in place.
LEMMA WalkNode ==
  ASSUME LayoutInv, pc = "object", AtNode,
         UNCHANGED <<unit, pc, label, errors, pass1>>,
         node' = node + 1, position' = position + NodeSize(Node)
  PROVE  SecondPass'
<1>1. IsTranslationUnit(unit) /\ WalkTypes /\ SecondPass
  BY LayoutInvParts
<1>2. label \in LabelIndex /\ Len(Nodes(label)) \in Nat /\ node \in 1 .. Len(Nodes(label))
  BY <1>1, UnitTypes DEF AtNode, WalkTypes
<1>3. CASE errors
  BY <1>3 DEF SecondPass
<1>4. CASE ~errors
  <2>1. layout[label][node] = position
    BY <1>2, <1>4, NodeInPlace
  <2>2. node' # 1 /\ node' - 1 = node
    BY <1>2
  <2>3. UNCHANGED <<unit, label, layout, label_position>>
    BY DEF pass1
  <2>4. position' = After(label, node, label_position[label])'
    BY <2>1, <2>2, <2>3 DEF After, Node, Nodes
  <2>5. label' \in LabelIndex' /\ node' <= Len(Nodes(label))' + 1
    BY <1>2, <2>3 DEF LabelIndex, Nodes
  <2>6. label' <= Len(unit.labels)' + 1
    BY <1>1, <1>4, <2>3 DEF SecondPass
  <2>7. QED
    BY <2>4, <2>5, <2>6 DEF SecondPass
<1>5. QED
  BY <1>3, <1>4

LEMMA EmitInstructionWalks == LayoutInv /\ EmitInstruction => SecondPass'
<1> SUFFICES ASSUME LayoutInv, EmitInstruction PROVE SecondPass'
  OBVIOUS
<1>1. IsTranslationUnit(unit) /\ WalkTypes
  BY LayoutInvParts
<1>2. IsNode(Node) /\ Node.kind = "instruction"
  BY <1>1, UnitTypes DEF EmitInstruction, AtNode, Node, WalkTypes
<1>3. Len(InstructionWords(Node.operands)) = NodeSize(Node)
  BY <1>2, InstructionAgrees
<1>4. /\ pc = "object" /\ AtNode /\ node' = node + 1
      /\ UNCHANGED <<unit, pc, label, errors, pass1>>
      /\ position' = position + NodeSize(Node)
  BY <1>3 DEF EmitInstruction
<1>5. QED
  BY <1>4, WalkNode

LEMMA EmitGuidanceWalks == LayoutInv /\ EmitGuidance => SecondPass'
<1> SUFFICES ASSUME LayoutInv, EmitGuidance PROVE SecondPass'
  OBVIOUS
<1>1. IsTranslationUnit(unit) /\ WalkTypes
  BY LayoutInvParts
<1>2. IsNode(Node) /\ Node.kind # "instruction"
  BY <1>1, UnitTypes DEF EmitGuidance, AtNode, Node, WalkTypes
<1>3. GuidanceWords(Node) = NodeSize(Node)
  BY <1>2, GuidanceAgrees
<1>4. /\ pc = "object" /\ AtNode /\ node' = node + 1
      /\ UNCHANGED <<unit, pc, label, errors, pass1>>
      /\ position' = position + NodeSize(Node)
  BY <1>3 DEF EmitGuidance
<1>5. QED
  BY <1>4, WalkNode

\* The next label starts where this one ends.
LEMMA NextLabelWalks == LayoutInv /\ NextLabel => SecondPass'
<1> SUFFICES ASSUME LayoutInv, NextLabel PROVE SecondPass'
  OBVIOUS
<1>1. IsTranslationUnit(unit) /\ WalkTypes /\ AllPlaced /\ SecondPass
  BY LayoutInvParts
<1>2. /\ label \in LabelIndex /\ Len(Nodes(label)) \in Nat /\ Len(unit.labels) \in Nat
      /\ node > Len(Nodes(label)) /\ node \in Nat
  BY <1>1, UnitTypes DEF NextLabel, AtEndOfLabel, WalkTypes
<1>3. /\ pc = "object" /\ label' = label + 1 /\ node' = 1
      /\ UNCHANGED <<unit, pc, errors, position, layout, label_position>>
  BY DEF NextLabel, pass1
<1>4. CASE errors
  BY <1>3, <1>4 DEF SecondPass
<1>5. CASE ~errors
  <2>1. /\ node <= Len(Nodes(label)) + 1
        /\ position = After(label, node, label_position[label])
    BY <1>1, <1>2, <1>3, <1>5 DEF SecondPass
  <2>2. node = Len(Nodes(label)) + 1
    BY <1>2, <2>1
  <2>3. PICK k : k = label
    OBVIOUS
  <2>4. position = EndOf(k)
    BY <2>1, <2>2, <2>3 DEF EndOf
  <2>5. position = StartOf(k + 1)
    BY <1>2, <2>3, <2>4 DEF StartOf, LabelIndex
  <2>6. label' <= Len(unit.labels)' + 1
    BY <1>2, <1>3 DEF LabelIndex
  <2>7. CASE label' \in LabelIndex'
    <3>1. k + 1 \in LabelIndex
      BY <1>3, <2>3, <2>7 DEF LabelIndex
    <3>2. label_position[k + 1] = StartOf(k + 1)
      BY <1>1, <1>3, <1>5, <3>1 DEF AllPlaced, Placed
    <3>3. position' = label_position'[label']
      BY <1>3, <2>3, <2>5, <3>2
    <3>4. Len(unit.labels[label'].nodes) \in Nat
      BY <1>1, <1>3, <2>3, <3>1, UnitTypes DEF Nodes
    <3>5. QED
      BY <1>3, <2>6, <2>7, <3>3, <3>4 DEF SecondPass, After, Nodes
  <2>8. CASE label' \notin LabelIndex'
    <3>1. position' = StartOf(label)'
      BY <1>2, <1>3, <2>3, <2>5 DEF StartOf, EndOf, After, Nodes, LabelIndex
    <3>2. QED
      BY <1>3, <2>6, <2>8, <3>1 DEF SecondPass
  <2>9. QED
    BY <2>7, <2>8
<1>6. QED
  BY <1>4, <1>5

\* Both passes start at the same address.
LEMMA FinishEntriesWalks == LayoutInv /\ FinishEntries => SecondPass'
<1> SUFFICES ASSUME LayoutInv, FinishEntries PROVE SecondPass'
  OBVIOUS
<1>1. IsTranslationUnit(unit) /\ AllPlaced /\ SecondPass
  BY LayoutInvParts
<1>2. /\ pc = "entries" /\ pc' = "object" /\ label' = 1 /\ node' = 1
      /\ UNCHANGED <<unit, errors, position, layout, label_position>>
  BY DEF FinishEntries, pass1, pass2
<1>3. position = STARTING_POSITION
  BY <1>1, <1>2 DEF SecondPass, OBJECT_START, STARTING_POSITION
<1>4. StartOf(1) = STARTING_POSITION
  BY DEF StartOf
<1>5. Len(unit.labels) \in Nat
  BY <1>1, UnitTypes
<1>6. CASE errors
  BY <1>2, <1>6 DEF SecondPass
<1>7. CASE ~errors
  <2>1. ASSUME 1 \in LabelIndex
        PROVE  Len(Nodes(1)) \in Nat /\ position = label_position[1]
    BY <1>1, <1>2, <1>3, <1>4, <1>7, <2>1, UnitTypes DEF AllPlaced, Placed
  <2>2. label' <= Len(unit.labels)' + 1
    BY <1>2, <1>5
  <2>3. label' \in LabelIndex' =>
          /\ node' <= Len(Nodes(label))' + 1
          /\ position' = After(label, node, label_position[label])'
    BY <1>2, <2>1 DEF LabelIndex, Nodes, After
  <2>4. position' = StartOf(label)'
    BY <1>2, <1>3 DEF StartOf
  <2>5. QED
    BY <1>2, <2>2, <2>3, <2>4 DEF SecondPass
<1>8. QED
  BY <1>6, <1>7

\* At the end of the unit the two passes have counted the same memory.
LEMMA FinishObjectCounts == LayoutInv /\ FinishObject => Counted'
<1> SUFFICES ASSUME LayoutInv, FinishObject PROVE Counted'
  OBVIOUS
<1>1. /\ IsTranslationUnit(unit) /\ WalkTypes /\ LayoutTypes /\ ObjectTypes
      /\ AllPlaced /\ SecondPass
  BY LayoutInvParts
<1>2. Len(unit.labels) \in Nat /\ label > Len(unit.labels) /\ label \in Nat
  BY <1>1, UnitTypes DEF FinishObject, AtEndOfUnit, WalkTypes
<1>3. /\ pc = "object" /\ guidance_lines' = position - instruction_lines - 100
      /\ UNCHANGED <<errors, instruction_lines, currentPosition>>
  BY DEF FinishObject, pass1
<1>4. CASE errors
  BY <1>3, <1>4 DEF Counted
<1>5. CASE ~errors
  <2>1. label = Len(unit.labels) + 1
    BY <1>1, <1>2, <1>3, <1>5 DEF SecondPass
  <2>2. label \notin LabelIndex
    BY <1>2 DEF LabelIndex
  <2>3. position = StartOf(label)
    BY <1>1, <1>3, <1>5, <2>2 DEF SecondPass
  <2>4. currentPosition = position
    BY <1>1, <1>3, <1>5, <2>1, <2>3 DEF AllPlaced
  <2>5. QED
    BY <1>1, <1>3, <2>4 DEF Counted, ObjectTypes
<1>6. QED
  BY <1>4, <1>5

LEMMA StepLayout == LayoutInv /\ [Next]_vars => LayoutInv'
<1> SUFFICES ASSUME LayoutInv, [Next]_vars PROVE LayoutInv'
  OBVIOUS
<1>1. /\ TypeInv /\ FirstPass /\ AllPlaced /\ SecondPass /\ FilesLast /\ Counted
      /\ WalkTypes
  BY LayoutInvParts
<1>2. TypeInv'
  BY <1>1, StepTypes
<1>3. CASE MeasureNode
  <2>1. FirstPass'
    BY <1>3, MeasureNodeLayout
  <2>2. /\ pc = "update_labels" /\ pc' = "update_labels" /\ UNCHANGED <<files, position>>
    BY <1>3 DEF MeasureNode, pass2
  <2>3. AllPlaced' /\ SecondPass' /\ FilesLast' /\ Counted'
    BY <1>1, <2>2 DEF AllPlaced, SecondPass, FilesLast, Counted, ObjectComplete
  <2>4. QED
    BY <1>2, <2>1, <2>3 DEF LayoutInv
<1>4. CASE PlaceLabel
  <2>1. FirstPass' /\ AllPlaced'
    BY <1>4, PlaceLabelLayout
  <2>2. /\ pc = "update_labels" /\ pc' \in {"update_labels", "entries", "crashed"}
        /\ UNCHANGED <<files, position>>
    BY <1>4 DEF PlaceLabel, pass2
  <2>3. SecondPass' /\ FilesLast' /\ Counted'
    BY <1>1, <2>2 DEF SecondPass, FilesLast, Counted, ObjectComplete
  <2>4. QED
    BY <1>2, <2>1, <2>3 DEF LayoutInv
<1>5. CASE FinishLabels
  <2>1. AllPlaced'
    BY <1>5, FinishLabelsLayout
  <2>2. pc = "update_labels" /\ pc' = "entries" /\ UNCHANGED <<files, position>>
    BY <1>5 DEF FinishLabels, pass2
  <2>3. FirstPass' /\ SecondPass' /\ FilesLast' /\ Counted'
    BY <1>1, <2>2 DEF FirstPass, SecondPass, FilesLast, Counted, ObjectComplete
  <2>4. QED
    BY <1>2, <2>1, <2>3 DEF LayoutInv
<1>6. CASE ListEntry
  <2>1. pc = "entries" /\ UNCHANGED <<unit, pc, errors, files, pass1, position>>
    BY <1>6 DEF ListEntry, pass2
  <2>2. FirstPass' /\ AllPlaced'
    BY <2>1, LayoutKept
  <2>3. SecondPass' /\ FilesLast' /\ Counted'
    BY <1>1, <2>1 DEF SecondPass, FilesLast, Counted, ObjectComplete
  <2>4. QED
    BY <1>2, <2>2, <2>3 DEF LayoutInv
<1>7. CASE FinishEntries
  <2>1. pc = "entries" /\ pc' = "object" /\ UNCHANGED <<unit, errors, files, pass1>>
    BY <1>7 DEF FinishEntries
  <2>2. FirstPass' /\ AllPlaced'
    BY <2>1, LayoutKept
  <2>3. SecondPass'
    BY <1>7, FinishEntriesWalks
  <2>4. FilesLast' /\ Counted'
    BY <1>1, <2>1 DEF FilesLast, Counted, ObjectComplete
  <2>5. QED
    BY <1>2, <2>2, <2>3, <2>4 DEF LayoutInv
<1>8. CASE EmitInstruction \/ EmitGuidance \/ NextLabel
  <2>1. pc = "object" /\ UNCHANGED <<unit, pc, errors, files, pass1>>
    BY <1>8 DEF EmitInstruction, EmitGuidance, NextLabel
  <2>2. FirstPass' /\ AllPlaced'
    BY <2>1, LayoutKept
  <2>3. SecondPass'
    BY <1>8, EmitInstructionWalks, EmitGuidanceWalks, NextLabelWalks
  <2>4. FilesLast' /\ Counted'
    BY <1>1, <2>1 DEF FilesLast, Counted, ObjectComplete
  <2>5. QED
    BY <1>2, <2>2, <2>3, <2>4 DEF LayoutInv
<1>9. CASE FinishObject
  <2>1. pc = "object" /\ pc' = "ext" /\ UNCHANGED <<unit, errors, files, pass1>>
    BY <1>9 DEF FinishObject
  <2>2. FirstPass' /\ AllPlaced'
    BY <2>1, LayoutKept
  <2>3. Counted'
    BY <1>9, FinishObjectCounts
  <2>4. FilesLast' /\ SecondPass'
    BY <1>1, <2>1 DEF FilesLast, SecondPass
  <2>5. QED
    BY <1>2, <2>2, <2>3, <2>4 DEF LayoutInv
<1>10. CASE WriteFiles
  <2>1. /\ UNCHANGED <<unit, errors, pass1, pass2>>
        /\ pc \in {"ext", "ent", "ob"} /\ pc' \in {"ent", "ob", "done"}
    BY <1>1, <1>10, WriteEffect
  <2>2. UNCHANGED files \/ ~errors
    BY <1>1, <1>10, WriteEffect, Zenon
  <2>3. FirstPass' /\ AllPlaced'
    BY <2>1, LayoutKept
  <2>4. SecondPass' /\ Counted'
    BY <1>1, <2>1 DEF SecondPass, Counted, ObjectComplete, pass1, pass2
  <2>5. FilesLast'
    BY <1>1, <2>1, <2>2 DEF FilesLast
  <2>6. QED
    BY <1>2, <2>3, <2>4, <2>5 DEF LayoutInv
<1>11. CASE UNCHANGED vars
  <2>1. UNCHANGED <<unit, pc, label, node, errors, files, totalSize, currentPosition,
                    label_position, layout, position, instruction_lines, guidance_lines>>
    BY <1>11 DEF vars, pass1, pass2
  <2>2. \A l : Nodes(l)' = Nodes(l) /\ (Placed(l) => Placed(l)')
    BY <2>1, LaidFrame
  <2>3. LabelIndex' = LabelIndex /\ (Laid => Laid')
    BY <2>1, LaidFrame
  <2>4. FirstPass'
    BY <1>1, <2>1, <2>2, <2>3
    DEF FirstPass, StartOf, EndOf, After, Chained, InMemory, Nodes
  <2>5. AllPlaced'
    BY <1>1, <2>1, <2>3 DEF AllPlaced, Laid
  <2>6. SecondPass'
    BY <1>1, <2>1, <2>3 DEF SecondPass, StartOf, EndOf, After, Nodes
  <2>7. FilesLast' /\ Counted'
    BY <1>1, <2>1 DEF FilesLast, Counted, ObjectComplete
  <2>8. QED
    BY <1>2, <2>4, <2>5, <2>6, <2>7 DEF LayoutInv
<1>12. QED
  BY <1>3, <1>4, <1>5, <1>6, <1>7, <1>8, <1>9, <1>10, <1>11 DEF Next, WriteFiles

\* The two passes agree, for every unit the analyzer can hand over: whenever
\* the second reaches a label, the address it has counted is the one the first
\* assigned.
THEOREM PassesAgree == Spec => []LabelsAtTheirCode
<1>1. LayoutInv => LabelsAtTheirCode
  BY DEF LayoutInv, SecondPass, LabelsAtTheirCode, After
<1>2. QED
  BY InitLayout, StepLayout, <1>1, PTL DEF Spec

\* No file is touched unless every label has an address and memory sufficed.
THEOREM PublishesPlaced == Spec => []OnlyPlacedIsPublished
<1>1. LayoutInv => OnlyPlacedIsPublished
  BY DEF LayoutInv, AllPlaced, FilesLast, InMemory, Placed, OnlyPlacedIsPublished
<1>2. QED
  BY InitLayout, StepLayout, <1>1, PTL DEF Spec

-----------------------------------------------------------------------------
(* The object file *)

\* f is an image of memory from 100 up to p.
Image(f, p) ==
  /\ f = <<>> => p = 100
  /\ f # <<>> => f[1].at = 100
  /\ \A i \in 1 .. Len(f) :
       f[i].at + f[i].words = IF i = Len(f) THEN p ELSE f[i + 1].at

\* g is a block of lines from p up to q.
Block(g, p, q) ==
  /\ g # <<>> /\ g[1].at = p
  /\ \A i \in 1 .. Len(g) :
       g[i].at + g[i].words = IF i = Len(g) THEN q ELSE g[i + 1].at

\* A block written where the image ends extends it.
LEMMA ImageExtended ==
  ASSUME NEW S, NEW f \in Seq(S), NEW g \in Seq(S), NEW p, NEW q,
         Image(f, p), Block(g, p, q)
  PROVE  Image(f \o g, q)
<1> DEFINE h == f \o g
           m == Len(f)
           k == Len(g)
<1>1. m \in Nat /\ k \in Nat /\ k # 0
  BY LenProperties, EmptySeq DEF Block
<1>2. Len(h) = m + k
  BY ConcatProperties
<1>3. \A i \in 1 .. m : h[i] = f[i]
  BY <1>1, <1>2, ConcatProperties
<1>4. \A j \in 1 .. k : h[m + j] = g[j]
  <2> SUFFICES ASSUME NEW j \in 1 .. k PROVE h[m + j] = g[j]
    OBVIOUS
  <2>1. m + j \in 1 .. m + k /\ ~(m + j <= m) /\ m + j - m = j
    BY <1>1
  <2>2. QED
    BY <1>2, <2>1, ConcatProperties
<1> HIDE DEF h
<1>5. h # <<>> /\ h[1].at = 100
  <2>1. 1 \in 1 .. k
    BY <1>1
  <2>2. CASE m = 0
    <3>1. f = <<>>
      BY <2>2, EmptySeq
    <3>2. p = 100
      BY <3>1 DEF Image
    <3>3. m + 1 = 1
      BY <2>2
    <3>4. h[1] = g[1]
      BY <1>4, <2>1, <3>3
    <3>5. QED
      BY <1>1, <1>2, <3>2, <3>4 DEF Block
  <2>3. CASE m # 0
    <3>1. 1 \in 1 .. m /\ f # <<>>
      BY <1>1, <2>3
    <3>2. h[1] = f[1]
      BY <1>3, <3>1
    <3>3. QED
      BY <1>1, <1>2, <3>1, <3>2 DEF Image
  <2>4. QED
    BY <2>2, <2>3
<1>6. ASSUME NEW i \in 1 .. Len(h)
      PROVE  h[i].at + h[i].words = IF i = Len(h) THEN q ELSE h[i + 1].at
  <2>1. CASE i < m
    <3>1. i \in 1 .. m /\ i + 1 \in 1 .. m /\ i # m /\ i # Len(h)
      BY <1>1, <1>2, <2>1
    <3>2. h[i] = f[i] /\ h[i + 1] = f[i + 1]
      BY <1>3, <3>1
    <3>3. QED
      BY <3>1, <3>2 DEF Image
  <2>2. CASE i = m
    <3>1. i \in 1 .. m /\ i # Len(h) /\ 1 \in 1 .. k
      BY <1>1, <1>2, <2>2
    <3>2. h[i] = f[i] /\ h[i + 1] = g[1]
      BY <1>3, <1>4, <2>2, <3>1
    <3>3. f[i].at + f[i].words = p
      BY <2>2, <3>1 DEF Image
    <3>4. QED
      BY <3>1, <3>2, <3>3 DEF Block
  <2>3. CASE i > m
    <3>1. PICK j \in 1 .. k : i = m + j
      <4>1. i - m \in 1 .. k /\ i = m + (i - m)
        BY <1>1, <1>2, <2>3
      <4>2. QED
        BY <4>1
    <3>2. h[i] = g[j]
      BY <1>4, <3>1
    <3>3. i = Len(h) <=> j = k
      BY <1>1, <1>2, <3>1
    <3>4. CASE j = k
      BY <3>2, <3>3, <3>4 DEF Block
    <3>5. CASE j # k
      <4>1. j + 1 \in 1 .. k /\ i + 1 = m + (j + 1)
        BY <1>1, <3>1, <3>5
      <4>2. h[i + 1] = g[j + 1]
        BY <1>4, <4>1
      <4>3. QED
        BY <3>2, <3>3, <3>5, <4>2 DEF Block
    <3>6. QED
      BY <3>4, <3>5
  <2>4. QED
    BY <1>1, <1>2, <2>1, <2>2, <2>3
<1>7. QED
  BY <1>5, <1>6 DEF Image, h


\* What the lines written say about the split into instructions and guidance:
\* the instructions are below the address where their count was taken.
Split ==
  /\ pc \in {"update_labels", "entries"} => object_file = <<>>
  /\ pc = "object" /\ label <= unit.instruction_labels =>
       \A i \in Lines : /\ object_file[i].at < position
                        /\ object_file[i].label <= unit.instruction_labels
  /\ (pc = "object" /\ label > unit.instruction_labels) \/ ObjectComplete =>
       \A i \in Lines :
         object_file[i].at < 100 + instruction_lines
           <=> object_file[i].label <= unit.instruction_labels

ImageInv == TypeInv /\ Image(object_file, position) /\ Split

LEMMA ImageInvParts ==
  ASSUME ImageInv
  PROVE  /\ TypeInv /\ Image(object_file, position) /\ Split
         /\ IsTranslationUnit(unit) /\ WalkTypes /\ ObjectTypes /\ PositionAhead
         /\ object_file \in Seq(ObjectLine) /\ position \in Nat
BY DEF ImageInv, TypeInv, TypeOK, ObjectTypes

LEMMA InitImage == Init => ImageInv
<1> SUFFICES ASSUME Init PROVE ImageInv
  OBVIOUS
<1>1. TypeInv
  BY InitTypes
<1>2. object_file = <<>> /\ position = 100
  BY DEF Init, OBJECT_START
<1>3. Len(object_file) = 0
  BY <1>2
<1>4. Image(object_file, position)
  BY <1>2, <1>3 DEF Image
<1>5. Split
  BY <1>2, <1>3 DEF Init, Split, Lines, ObjectComplete
<1>6. QED
  BY <1>1, <1>4, <1>5 DEF ImageInv

\* The lines of a concatenation are those of its parts.
LEMMA LinesOfConcat ==
  ASSUME NEW S, NEW f \in Seq(S), NEW g \in Seq(S), NEW i \in 1 .. Len(f \o g)
  PROVE  \/ \E k \in 1 .. Len(f) : (f \o g)[i] = f[k]
         \/ \E k \in 1 .. Len(g) : (f \o g)[i] = g[k]
<1>1. Len(f) \in Nat /\ Len(g) \in Nat
  BY LenProperties
<1>2. i \in 1 .. Len(f) + Len(g)
  BY ConcatProperties
<1>3. CASE i <= Len(f)
  <2>1. i \in 1 .. Len(f) /\ (f \o g)[i] = f[i]
    BY <1>1, <1>2, <1>3, ConcatProperties
  <2>2. QED
    BY <2>1
<1>4. CASE ~(i <= Len(f))
  <2>1. i - Len(f) \in 1 .. Len(g) /\ (f \o g)[i] = g[i - Len(f)]
    BY <1>1, <1>2, <1>4, ConcatProperties
  <2>2. QED
    BY <2>1
<1>5. QED
  BY <1>3, <1>4

LEMMA EmitInstructionImage == ImageInv /\ EmitInstruction => ImageInv'
<1> SUFFICES ASSUME ImageInv, EmitInstruction PROVE ImageInv'
  OBVIOUS
<1>1. /\ TypeInv /\ Image(object_file, position) /\ Split
      /\ IsTranslationUnit(unit) /\ WalkTypes
      /\ object_file \in Seq(ObjectLine) /\ position \in Nat
  BY ImageInvParts
<1>2. TypeInv'
  BY <1>1, StepTypes DEF Next
<1>3. /\ label \in LabelIndex /\ node \in 1 .. Len(Nodes(label)) /\ IsNode(Node)
      /\ Node.kind = "instruction"
  BY <1>1, UnitTypes DEF EmitInstruction, AtNode, WalkTypes, Node
<1> DEFINE words == InstructionWords(Node.operands)
           line(k) == Line(position + k - 1, 1, words[k])
           lines == [k \in 1 .. Len(words) |-> line(k)]
<1>4. /\ object_file' = object_file \o lines
      /\ position' = position + Len(words)
      /\ pc = "object" /\ label <= unit.instruction_labels
      /\ UNCHANGED <<unit, pc, label>>
  BY DEF EmitInstruction
<1>5. Len(words) \in Nat /\ Len(words) # 0
  <2>1. Len(Node.operands) \in {0, 1, 2}
    BY <1>3, OperandCount
  <2>2. Len(words) = NodeSize(Node)
    BY <1>3, InstructionAgrees
  <2> HIDE DEF words
  <2>3. NodeSize(Node) \in {1, 2, 3}
    <3>1. NodeSize(Node) = IF Len(Node.operands) = 2 /\ BothRegisters(Node.operands)
                           THEN 2 ELSE 1 + Len(Node.operands)
      BY <1>3 DEF NodeSize
    <3>2. \A m \in {0, 1, 2} : 1 + m \in {1, 2, 3}
      OBVIOUS
    <3>3. 1 + Len(Node.operands) \in {1, 2, 3}
      BY <2>1, <3>2, Zenon
    <3>4. QED
      BY <3>1, <3>3
  <2>4. QED
    BY <2>2, <2>3
<1> HIDE DEF words
<1>6. \A k \in 1 .. Len(words) :
        line(k).at = position + k - 1 /\ line(k).words = 1 /\ line(k).label = label
  BY DEF Line
<1> HIDE DEF line
<1>7. Len(lines) = Len(words) /\ lines \in Seq({line(k) : k \in 1 .. Len(words)})
  BY <1>5
<1>8. \A k \in 1 .. Len(words) : lines[k] = line(k)
  OBVIOUS
<1> HIDE DEF lines
<1>9. Block(lines, position, position + Len(words))
  <2>1. lines # <<>>
    BY <1>5, <1>7
  <2>2. lines[1].at = position
    <3>1. 1 \in 1 .. Len(words) /\ position + 1 - 1 = position
      BY <1>1, <1>5
    <3>2. QED
      BY <1>6, <1>8, <3>1
  <2>3. ASSUME NEW i \in 1 .. Len(lines)
        PROVE  lines[i].at + lines[i].words =
                 IF i = Len(lines) THEN position + Len(words) ELSE lines[i + 1].at
    <3>1. lines[i].at + lines[i].words = position + i
      <4>1. lines[i].at = position + i - 1 /\ lines[i].words = 1
        BY <1>6, <1>7, <1>8
      <4>2. position + i - 1 + 1 = position + i
        BY <1>1, <1>5, <1>7
      <4>3. QED
        BY <4>1, <4>2
    <3>2. CASE i = Len(lines)
      BY <1>7, <3>1, <3>2
    <3>3. CASE i # Len(lines)
      <4>1. i + 1 \in 1 .. Len(words) /\ position + (i + 1) - 1 = position + i
        BY <1>1, <1>5, <1>7, <3>3
      <4>2. QED
        BY <1>6, <1>8, <3>1, <3>3, <4>1
    <3>4. QED
      BY <3>2, <3>3
  <2>4. QED
    BY <2>1, <2>2, <2>3 DEF Block
<1> DEFINE S == ObjectLine \union {line(k) : k \in 1 .. Len(words)}
<1>10. object_file \in Seq(S) /\ lines \in Seq(S)
  BY <1>1, <1>7
<1> HIDE DEF S
<1>11. Image(object_file \o lines, position + Len(words))
  BY <1>1, <1>9, <1>10, ImageExtended
<1>12. Image(object_file, position)'
  BY <1>4, <1>11 DEF Image
<1>13. Split'
  <2> DEFINE P(l) == l.at < position + Len(words) /\ l.label <= unit.instruction_labels
  <2>1. ASSUME NEW i \in 1 .. Len(object_file)
        PROVE  P(object_file[i])
    <3>1. object_file[i].at < position /\ object_file[i].label <= unit.instruction_labels
      BY <1>1, <1>4 DEF Split, Lines
    <3>2. object_file[i] \in ObjectLine
      BY <1>1, ElementOfSeq
    <3>3. object_file[i].at \in Nat
      BY <3>2 DEF ObjectLine
    <3>4. QED
      BY <1>1, <1>5, <3>1, <3>3
  <2>2. ASSUME NEW k \in 1 .. Len(lines)
        PROVE  P(lines[k])
    <3>1. lines[k].at = position + k - 1 /\ lines[k].label = label
      BY <1>6, <1>7, <1>8
    <3>2. position + k - 1 < position + Len(words)
      BY <1>1, <1>5, <1>7
    <3>3. QED
      BY <1>4, <3>1, <3>2
  <2> HIDE DEF P
  <2>3. \A i \in 1 .. Len(object_file \o lines) : P((object_file \o lines)[i])
    BY <1>10, <2>1, <2>2, LinesOfConcat
  <2>4. \A i \in Lines' : object_file'[i].at < position'
                          /\ object_file'[i].label <= unit.instruction_labels
    BY <1>4, <2>3 DEF P, Lines
  <2>5. unit.instruction_labels \in Nat /\ label \in Nat
    BY <1>1, UnitTypes DEF WalkTypes
  <2>6. /\ pc' = "object" /\ ~(label' > unit'.instruction_labels)
        /\ unit'.instruction_labels = unit.instruction_labels
    BY <1>4, <2>5
  <2>7. QED
    BY <2>4, <2>6 DEF Split, ObjectComplete
<1>14. QED
  BY <1>2, <1>12, <1>13 DEF ImageInv


LEMMA EmitGuidanceImage == ImageInv /\ EmitGuidance => ImageInv'
<1> SUFFICES ASSUME ImageInv, EmitGuidance PROVE ImageInv'
  OBVIOUS
<1>1. /\ TypeInv /\ Image(object_file, position) /\ Split
      /\ IsTranslationUnit(unit) /\ WalkTypes /\ ObjectTypes /\ PositionAhead
      /\ object_file \in Seq(ObjectLine) /\ position \in Nat
  BY ImageInvParts
<1>2. TypeInv'
  BY <1>1, StepTypes DEF Next
<1> DEFINE line == Line(position, GuidanceWords(Node), DataWords)
<1>3. /\ object_file' = Append(object_file, line)
      /\ position' = position + GuidanceWords(Node)
      /\ pc = "object" /\ label > unit.instruction_labels
      /\ UNCHANGED <<unit, pc, label, instruction_lines>>
  BY DEF EmitGuidance
<1>4. line.at = position /\ line.words = GuidanceWords(Node) /\ line.label = label
  BY DEF Line
<1> HIDE DEF line
<1> DEFINE S == ObjectLine \union {line}
<1>5. object_file \in Seq(S) /\ <<line>> \in Seq(S) /\ line \in S
  BY <1>1
<1> HIDE DEF S
<1>6. object_file' = object_file \o <<line>>
  BY <1>3, <1>5, AppendIsConcat
<1>7. Block(<<line>>, position, position + GuidanceWords(Node))
  BY <1>4 DEF Block
<1>8. Image(object_file \o <<line>>, position + GuidanceWords(Node))
  BY <1>1, <1>5, <1>7, ImageExtended
<1>9. Image(object_file, position)'
  BY <1>3, <1>6, <1>8 DEF Image
<1>10. Split'
  <2>1. instruction_lines \in Nat /\ label \in Nat /\ unit.instruction_labels \in Nat
    BY <1>1, UnitTypes DEF ObjectTypes, WalkTypes
  <2>2. line.at < 100 + instruction_lines <=> line.label <= unit.instruction_labels
    BY <1>1, <1>3, <1>4, <2>1 DEF PositionAhead
  <2>3. \A i \in 1 .. Len(object_file) :
          object_file[i].at < 100 + instruction_lines
            <=> object_file[i].label <= unit.instruction_labels
    BY <1>1, <1>3 DEF Split, Lines
  <2>4. \A i \in 1 .. Len(object_file') :
          object_file'[i].at < 100 + instruction_lines
            <=> object_file'[i].label <= unit.instruction_labels
    <3> SUFFICES ASSUME NEW i \in 1 .. Len(object_file')
                 PROVE  object_file'[i].at < 100 + instruction_lines
                          <=> object_file'[i].label <= unit.instruction_labels
      OBVIOUS
    <3>1. \/ \E k \in 1 .. Len(object_file) : object_file'[i] = object_file[k]
          \/ object_file'[i] = line
      BY <1>5, <1>6, LinesOfConcat
    <3>2. QED
      BY <2>2, <2>3, <3>1
  <2>5. /\ pc' = "object" /\ ~(label' <= unit'.instruction_labels)
        /\ unit'.instruction_labels = unit.instruction_labels
        /\ instruction_lines' = instruction_lines
    BY <1>3, <2>1
  <2>6. QED
    BY <2>4, <2>5 DEF Split, Lines
<1>11. QED
  BY <1>2, <1>9, <1>10 DEF ImageInv

LEMMA NextLabelImage == ImageInv /\ NextLabel => ImageInv'
<1> SUFFICES ASSUME ImageInv, NextLabel PROVE ImageInv'
  OBVIOUS
<1>1. /\ TypeInv /\ Image(object_file, position) /\ Split
      /\ IsTranslationUnit(unit) /\ WalkTypes /\ position \in Nat
      /\ object_file \in Seq(ObjectLine)
  BY ImageInvParts
<1>2. TypeInv'
  BY <1>1, StepTypes DEF Next
<1>3. /\ pc = "object" /\ label' = label + 1
      /\ UNCHANGED <<unit, pc, position, object_file>>
      /\ instruction_lines' = IF label' = unit.instruction_labels + 1
                              THEN position - 100 ELSE instruction_lines
  BY DEF NextLabel
<1>4. Image(object_file, position)'
  BY <1>1, <1>3 DEF Image
<1>5. label \in Nat /\ unit.instruction_labels \in Nat
  BY <1>1, UnitTypes DEF WalkTypes
<1>6. CASE label' <= unit.instruction_labels
  <2>1. label <= unit.instruction_labels /\ ~(label' > unit.instruction_labels)
    BY <1>3, <1>5, <1>6
  <2>2. QED
    BY <1>1, <1>2, <1>3, <1>4, <2>1 DEF ImageInv, Split, Lines, ObjectComplete
<1>7. CASE label' = unit.instruction_labels + 1
  <2>1. label <= unit.instruction_labels /\ ~(label' <= unit.instruction_labels)
    BY <1>3, <1>5, <1>7
  <2>2. instruction_lines' = position - 100 /\ 100 + instruction_lines' = position
    <3>1. instruction_lines' = position - 100
      BY <1>3, <1>7
    <3>2. 100 + (position - 100) = position
      BY <1>1
    <3>3. QED
      BY <3>1, <3>2
  <2>3. \A i \in Lines : object_file[i].at < position
                         /\ object_file[i].label <= unit.instruction_labels
    BY <1>1, <1>3, <2>1 DEF Split
  <2>4. QED
    BY <1>2, <1>3, <1>4, <2>1, <2>2, <2>3 DEF ImageInv, Split, Lines, ObjectComplete
<1>8. CASE label > unit.instruction_labels
  <2>1. /\ ~(label' <= unit.instruction_labels)
        /\ instruction_lines' = instruction_lines
    BY <1>3, <1>5, <1>8
  <2>2. QED
    BY <1>1, <1>2, <1>3, <1>4, <1>8, <2>1 DEF ImageInv, Split, Lines, ObjectComplete
<1>9. QED
  BY <1>3, <1>5, <1>6, <1>7, <1>8

LEMMA FinishObjectImage == ImageInv /\ FinishObject => ImageInv'
<1> SUFFICES ASSUME ImageInv, FinishObject PROVE ImageInv'
  OBVIOUS
<1>1. /\ TypeInv /\ Image(object_file, position) /\ Split
      /\ IsTranslationUnit(unit) /\ WalkTypes
  BY ImageInvParts
<1>2. TypeInv'
  BY <1>1, StepTypes DEF Next
<1>3. /\ pc = "object" /\ pc' = "ext" /\ label > Len(unit.labels)
      /\ UNCHANGED <<unit, position, object_file, instruction_lines>>
  BY DEF FinishObject, AtEndOfUnit
<1>4. label > unit.instruction_labels
  BY <1>1, <1>3, UnitTypes DEF WalkTypes
<1>5. Image(object_file, position)'
  BY <1>1, <1>3 DEF Image
<1>6. Split'
  BY <1>1, <1>3, <1>4 DEF Split, Lines
<1>7. QED
  BY <1>2, <1>5, <1>6 DEF ImageInv

LEMMA StepImage == ImageInv /\ [Next]_vars => ImageInv'
<1> SUFFICES ASSUME ImageInv, [Next]_vars PROVE ImageInv'
  OBVIOUS
<1>1. /\ TypeInv /\ Image(object_file, position) /\ Split
      /\ IsTranslationUnit(unit) /\ WalkTypes
  BY ImageInvParts
<1>2. TypeInv'
  BY <1>1, StepTypes
<1>3. ASSUME UNCHANGED <<unit, position, object_file>>
      PROVE  Image(object_file, position)'
  BY <1>1, <1>3 DEF Image
<1>4. ASSUME object_file = <<>>, UNCHANGED object_file
      PROVE  Lines' = {}
  BY <1>4 DEF Lines
<1>5. CASE MeasureNode \/ PlaceLabel \/ FinishLabels \/ ListEntry \/ FinishEntries
  <2>1. pc \in {"update_labels", "entries"} /\ UNCHANGED <<unit, position, object_file>>
    BY <1>5
    DEF MeasureNode, PlaceLabel, FinishLabels, ListEntry, FinishEntries, pass2
  <2>2. object_file = <<>>
    BY <1>1, <2>1 DEF Split
  <2>3. Lines' = {} /\ object_file' = <<>>
    BY <1>4, <2>1, <2>2
  <2>4. Split'
    BY <2>3 DEF Split
  <2>5. QED
    BY <1>2, <1>3, <2>1, <2>4 DEF ImageInv
<1>6. CASE EmitInstruction
  BY <1>6, EmitInstructionImage
<1>7. CASE EmitGuidance
  BY <1>7, EmitGuidanceImage
<1>8. CASE NextLabel
  BY <1>8, NextLabelImage
<1>9. CASE FinishObject
  BY <1>9, FinishObjectImage
<1>10. CASE WriteFiles
  <2>1. /\ pc \in {"ext", "ent", "ob"} /\ pc' \in {"ent", "ob", "done"}
        /\ UNCHANGED <<unit, position, object_file, instruction_lines>>
    BY <1>1, <1>10, WriteEffect DEF pass2
  <2>2. Split'
    BY <1>1, <2>1 DEF Split, Lines, ObjectComplete
  <2>3. QED
    BY <1>2, <1>3, <2>1, <2>2 DEF ImageInv
<1>11. CASE UNCHANGED vars
  <2>1. UNCHANGED <<unit, pc, label, position, object_file, instruction_lines>>
    BY <1>11 DEF vars, pass2
  <2>2. Split'
    BY <1>1, <2>1 DEF Split, Lines, ObjectComplete
  <2>3. QED
    BY <1>2, <1>3, <2>1, <2>2 DEF ImageInv
<1>12. QED
  BY <1>5, <1>6, <1>7, <1>8, <1>9, <1>10, <1>11 DEF Next, WriteFiles

\* The object file is an image of memory from 100, without a gap or an overlap,
\* even of a program whose first pass was abandoned.
THEOREM ImageContiguous == Spec => []ObjectContiguous
<1>1. ImageInv => ObjectContiguous
  BY DEF ImageInv, Image, ObjectContiguous, Lines
<1>2. QED
  BY InitImage, StepImage, <1>1, PTL DEF Spec

\* The counts in the header describe the object file and the memory the first
\* pass laid out.
THEOREM HeaderCorrect == Spec => []HeaderMatches
<1>1. LayoutInv /\ ImageInv => HeaderMatches
  BY DEF LayoutInv, Counted, ImageInv, Split, HeaderMatches
<1>2. QED
  BY InitLayout, StepLayout, InitImage, StepImage, <1>1, PTL DEF Spec

-----------------------------------------------------------------------------
(* The lines of one instruction *)

\* The lines EmitInstruction writes for a node from "at" on.
InstructionLines(n, at) ==
  [k \in 1 .. Len(InstructionWords(n.operands)) |->
     Line(at + k - 1, 1, InstructionWords(n.operands)[k])]

Plain(at, word) == Line(at, 1, word)
Single(operand, isDst) == OperandWord(OperandMemory(operand, isDst), <<operand>>)
Pair(first, second) ==
  OperandWord(WithRegister(WithRegister(NoMemory, first, FALSE), second, TRUE),
              <<first, second>>)

\* The shapes InstructionWords has, line by line.
LEMMA Shapes ==
  ASSUME NEW n, IsNode(n), NEW at \in Nat
  PROVE  LET lines == InstructionLines(n, at)
             o == n.operands
         IN
         /\ Len(o) = 0 => lines = <<Plain(at, InstructionWord(0, 0))>>
         /\ Len(o) = 1 =>
              lines = <<Plain(at, InstructionWord(0, o[1].mode)),
                        Plain(at + 1, Single(o[1], TRUE))>>
         /\ Len(o) = 2 /\ BothRegisters(o) =>
              lines = <<Plain(at, InstructionWord(o[1].mode, o[2].mode)),
                        Plain(at + 1, Pair(o[1], o[2]))>>
         /\ Len(o) = 2 /\ ~BothRegisters(o) =>
              lines = <<Plain(at, InstructionWord(o[1].mode, o[2].mode)),
                        Plain(at + 1, Single(o[1], FALSE)),
                        Plain(at + 2, Single(o[2], TRUE))>>
<1> DEFINE o == n.operands
           lines(w) == [k \in 1 .. Len(w) |-> Line(at + k - 1, 1, w[k])]
<1>2. /\ at + 1 - 1 = at /\ at + 2 - 1 = at + 1 /\ at + 3 - 1 = at + 2
  OBVIOUS
<1>3. \A x : lines(<<x>>) = <<Plain(at, x)>>
  BY <1>2 DEF Plain
<1>4. \A x, y : lines(<<x, y>>) = <<Plain(at, x), Plain(at + 1, y)>>
  BY <1>2 DEF Plain
<1>5. \A x, y, z : lines(<<x, y, z>>) = <<Plain(at, x), Plain(at + 1, y), Plain(at + 2, z)>>
  BY <1>2 DEF Plain
<1>6. InstructionLines(n, at) = lines(InstructionWords(o))
  BY DEF InstructionLines
<1> HIDE DEF lines, o
<1>7. ASSUME Len(o) = 0
      PROVE  InstructionLines(n, at) =
                 <<Plain(at, InstructionWord(0, 0))>>
  <2>1. InstructionWords(o) = <<InstructionWord(0, 0)>>
    BY <1>7 DEF InstructionWords, NoOperandWords
  <2> QED  BY <1>3, <1>6, <2>1
<1>8. ASSUME Len(o) = 1
      PROVE  InstructionLines(n, at) =
                 <<Plain(at, InstructionWord(0, o[1].mode)), Plain(at + 1, Single(o[1], TRUE))>>
  <2>1. InstructionWords(o) = <<InstructionWord(0, o[1].mode), Single(o[1], TRUE)>>
    <3>1. InstructionWords(o) = OneOperandWords(o[1])
      BY <1>8 DEF InstructionWords
    <3> QED  BY <3>1, Zenon DEF OneOperandWords, Single
  <2> QED  BY <1>4, <1>6, <2>1
<1>9. ASSUME Len(o) = 2 /\ BothRegisters(o)
      PROVE  InstructionLines(n, at) =
                 <<Plain(at, InstructionWord(o[1].mode, o[2].mode)),
                Plain(at + 1, Pair(o[1], o[2]))>>
  <2>1. InstructionWords(o) = <<InstructionWord(o[1].mode, o[2].mode), Pair(o[1], o[2])>>
    <3>1. InstructionWords(o) = RegisterPairWords(o[1], o[2])
      BY <1>9 DEF InstructionWords
    <3> QED  BY <3>1, Zenon DEF RegisterPairWords, Pair
  <2> QED  BY <1>4, <1>6, <2>1
<1>10. ASSUME Len(o) = 2 /\ ~BothRegisters(o)
      PROVE  InstructionLines(n, at) =
                 <<Plain(at, InstructionWord(o[1].mode, o[2].mode)),
                Plain(at + 1, Single(o[1], FALSE)), Plain(at + 2, Single(o[2], TRUE))>>
  <2>1. InstructionWords(o) =
          <<InstructionWord(o[1].mode, o[2].mode), Single(o[1], FALSE), Single(o[2], TRUE)>>
    <3>1. InstructionWords(o) = TwoOperandWords(o[1], o[2])
      BY <1>10 DEF InstructionWords
    <3> QED  BY <3>1, Zenon DEF TwoOperandWords, Single
  <2> QED  BY <1>5, <1>6, <2>1
<1> QED  BY <1>7, <1>8, <1>9, <1>10 DEF o

-----------------------------------------------------------------------------
(* Instructions can be told apart *)

IsInstructionLine(line) == line.word.kind = "instruction"
IsOperandLine(line) == line.word.kind = "operand"

\* Every instruction in f has the operand words it announces, and no more.
Decodes(f) ==
  \A i \in 1 .. Len(f) :
    IsInstructionLine(f[i]) =>
      LET words == OperandWordsAnnounced(f[i].word) IN
      /\ words \in Nat /\ i + words <= Len(f)
      /\ \A k \in i + 1 .. i + words : IsOperandLine(f[k])
      /\ i + words < Len(f) => ~IsOperandLine(f[i + words + 1])

\* A block of lines that can follow any other.
Group(g) == g # <<>> /\ ~IsOperandLine(g[1]) /\ Decodes(g)

LEMMA DecodesExtended ==
  ASSUME NEW S, NEW f \in Seq(S), NEW g \in Seq(S), Decodes(f), Group(g)
  PROVE  Decodes(f \o g)
<1> DEFINE h == f \o g
           words(l) == OperandWordsAnnounced(l.word)
<1>1. Len(f) \in Nat /\ Len(g) \in Nat /\ Len(g) # 0
  BY LenProperties, EmptySeq DEF Group
<1>2. /\ Len(h) = Len(f) + Len(g)
      /\ \A i \in 1 .. Len(h) : h[i] = IF i <= Len(f) THEN f[i] ELSE g[i - Len(f)]
  BY ConcatProperties
<1> HIDE DEF h
<1> SUFFICES ASSUME NEW i \in 1 .. Len(h), IsInstructionLine(h[i])
             PROVE  /\ words(h[i]) \in Nat /\ i + words(h[i]) <= Len(h)
                    /\ \A k \in i + 1 .. i + words(h[i]) : IsOperandLine(h[k])
                    /\ i + words(h[i]) < Len(h) => ~IsOperandLine(h[i + words(h[i]) + 1])
  BY DEF Decodes, h
<1>3. CASE i <= Len(f)
  <2>1. i \in 1 .. Len(f) /\ h[i] = f[i]
    BY <1>1, <1>2, <1>3
  <2> DEFINE w == words(f[i])
  <2>2. /\ w \in Nat /\ i + w <= Len(f)
        /\ \A k \in i + 1 .. i + w : IsOperandLine(f[k])
        /\ i + w < Len(f) => ~IsOperandLine(f[i + w + 1])
    BY <2>1 DEF Decodes
  <2> HIDE DEF w
  <2>3. ASSUME NEW k \in i + 1 .. i + w PROVE IsOperandLine(h[k])
    <3>1. k \in 1 .. Len(h) /\ k <= Len(f)
      BY <1>1, <1>2, <2>1, <2>2
    <3> QED  BY <1>2, <2>2, <3>1
  <2>4. ~IsOperandLine(h[i + w + 1])
    <3>1. CASE i + w < Len(f)
      <4>1. i + w + 1 \in 1 .. Len(h) /\ i + w + 1 <= Len(f)
        BY <1>1, <1>2, <2>1, <2>2, <3>1
      <4> QED  BY <1>2, <2>2, <3>1, <4>1
    <3>2. CASE ~(i + w < Len(f))
      <4>1. i + w = Len(f) /\ Len(h) = Len(f) + Len(g)
        BY <1>1, <1>2, <2>1, <2>2, <3>2
      <4>2. /\ Len(f) + 1 \in 1 .. Len(h) /\ ~(Len(f) + 1 <= Len(f))
            /\ Len(f) + 1 - Len(f) = 1
        BY <1>1, <4>1
      <4>3. h[Len(f) + 1] = g[1]
        BY <1>2, <4>2
      <4> QED  BY <4>1, <4>3 DEF Group
    <3> QED  BY <3>1, <3>2
  <2>5. i + w <= Len(h)
    BY <1>1, <1>2, <2>1, <2>2
  <2> QED  BY <2>1, <2>2, <2>3, <2>4, <2>5 DEF w
<1>4. CASE ~(i <= Len(f))
  <2> DEFINE j == i - Len(f)
  <2>1. j \in 1 .. Len(g) /\ h[i] = g[j] /\ i = Len(f) + j
    BY <1>1, <1>2, <1>4
  <2> HIDE DEF j
  <2> DEFINE w == words(g[j])
  <2>2. /\ w \in Nat /\ j + w <= Len(g)
        /\ \A k \in j + 1 .. j + w : IsOperandLine(g[k])
        /\ j + w < Len(g) => ~IsOperandLine(g[j + w + 1])
    BY <2>1 DEF Group, Decodes
  <2> HIDE DEF w
  <2>3. ASSUME NEW k \in i + 1 .. i + w PROVE IsOperandLine(h[k])
    <3>1. /\ k \in 1 .. Len(h) /\ ~(k <= Len(f)) /\ k - Len(f) \in j + 1 .. j + w
      BY <1>1, <1>2, <2>1, <2>2
    <3> QED  BY <1>2, <2>2, <3>1
  <2>4. ASSUME i + w < Len(h) PROVE ~IsOperandLine(h[i + w + 1])
    <3>1. /\ i + w + 1 \in 1 .. Len(h) /\ ~(i + w + 1 <= Len(f))
          /\ i + w + 1 - Len(f) = j + w + 1 /\ j + w < Len(g)
      BY <1>1, <1>2, <2>1, <2>2, <2>4
    <3> QED  BY <1>2, <2>2, <3>1
  <2>5. i + w <= Len(h)
    BY <1>1, <1>2, <2>1, <2>2
  <2> QED  BY <2>1, <2>2, <2>3, <2>4, <2>5 DEF w
<1> QED  BY <1>3, <1>4

LEMMA LineFields ==
  /\ \A at, words, word : Line(at, words, word).word = word
  /\ \A src, dst : /\ InstructionWord(src, dst).kind = "instruction"
                   /\ InstructionWord(src, dst).src = src
                   /\ InstructionWord(src, dst).dst = dst
  /\ \A memory, operands : OperandWord(memory, operands).kind = "operand"
  /\ DataWords.kind = "data"
BY DEF Line, InstructionWord, OperandWord, DataWords

\* One line that is no operand, or an instruction with its operands.
LEMMA GroupShapes ==
  /\ \A x : ~IsInstructionLine(x) /\ ~IsOperandLine(x) => Group(<<x>>)
  /\ \A x : IsInstructionLine(x) /\ OperandWordsAnnounced(x.word) = 0 => Group(<<x>>)
  /\ \A x, y :
       IsInstructionLine(x) /\ OperandWordsAnnounced(x.word) = 1 /\ IsOperandLine(y)
         => Group(<<x, y>>)
  /\ \A x, y, z :
       /\ IsInstructionLine(x) /\ OperandWordsAnnounced(x.word) = 2
       /\ IsOperandLine(y) /\ IsOperandLine(z)
       => Group(<<x, y, z>>)
<1>1. \A x : IsInstructionLine(x) => ~IsOperandLine(x)
  BY DEF IsInstructionLine, IsOperandLine
<1> HIDE DEF IsInstructionLine
<1>2. \A x : ~IsInstructionLine(x) /\ ~IsOperandLine(x) => Group(<<x>>)
  BY DEF Group, Decodes
<1>3. \A x : IsInstructionLine(x) /\ OperandWordsAnnounced(x.word) = 0 => Group(<<x>>)
  BY <1>1 DEF Group, Decodes
<1>4. \A x, y :
        IsInstructionLine(x) /\ OperandWordsAnnounced(x.word) = 1 /\ IsOperandLine(y)
          => Group(<<x, y>>)
  <2> SUFFICES ASSUME NEW x, NEW y, IsInstructionLine(x),
                      OperandWordsAnnounced(x.word) = 1, IsOperandLine(y)
               PROVE  Group(<<x, y>>)
    BY Zenon
  <2> QED  BY <1>1 DEF Group, Decodes
<1>5. \A x, y, z :
        /\ IsInstructionLine(x) /\ OperandWordsAnnounced(x.word) = 2
        /\ IsOperandLine(y) /\ IsOperandLine(z)
        => Group(<<x, y, z>>)
  <2> SUFFICES ASSUME NEW x, NEW y, NEW z, IsInstructionLine(x),
                      OperandWordsAnnounced(x.word) = 2, IsOperandLine(y), IsOperandLine(z)
               PROVE  Group(<<x, y, z>>)
    BY Zenon
  <2>1. \A k \in 2 .. 3 : k = 2 \/ k = 3
    OBVIOUS
  <2> QED  BY <1>1, <2>1 DEF Group, Decodes
<1> QED  BY <1>2, <1>3, <1>4, <1>5, Zenon

LEMMA InstructionIsGroup ==
  ASSUME NEW n, IsNode(n), NEW at \in Nat
  PROVE  Group(InstructionLines(n, at))
<1> DEFINE o == n.operands
           Head1 == Plain(at, InstructionWord(0, 0))
           Head2 == Plain(at, InstructionWord(0, o[1].mode))
           Head3 == Plain(at, InstructionWord(o[1].mode, o[2].mode))
<1>1. /\ Len(o) > 0 => o[1].mode \in {1, 2, 4, 8}
      /\ Len(o) > 1 => o[2].mode \in {1, 2, 4, 8}
  BY OperandCount DEF Operand, IMMEDIATE, DIRECT, INDIRECT_REGISTER, DIRECT_REGISTER
<1>2. /\ IsInstructionLine(Head1) /\ IsInstructionLine(Head2) /\ IsInstructionLine(Head3)
      /\ \A p, operand, isDst : IsOperandLine(Plain(p, Single(operand, isDst)))
      /\ \A p, first, second : IsOperandLine(Plain(p, Pair(first, second)))
  <2>1. \A p, word : Plain(p, word).word = word
    BY LineFields DEF Plain
  <2>2. /\ \A operand, isDst : Single(operand, isDst).kind = "operand"
        /\ \A first, second : Pair(first, second).kind = "operand"
    BY LineFields DEF Single, Pair
  <2> QED  BY <2>1, <2>2, LineFields DEF IsInstructionLine, IsOperandLine
<1>3. OperandWordsAnnounced(Head1.word) = 0
  BY LineFields DEF OperandWordsAnnounced, Plain
<1>4. Len(o) = 1 => OperandWordsAnnounced(Head2.word) = 1
  BY <1>1, LineFields DEF OperandWordsAnnounced, Plain
<1>5. Len(o) = 2 /\ BothRegisters(o) => OperandWordsAnnounced(Head3.word) = 1
  BY <1>1, LineFields
  DEF OperandWordsAnnounced, Plain, BothRegisters, IsRegister, INDIRECT_REGISTER, DIRECT_REGISTER
<1>6. Len(o) = 2 /\ ~BothRegisters(o) => OperandWordsAnnounced(Head3.word) = 2
  BY <1>1, LineFields
  DEF OperandWordsAnnounced, Plain, BothRegisters, IsRegister, INDIRECT_REGISTER, DIRECT_REGISTER
<1> HIDE DEF Head1, Head2, Head3
<1>7. /\ Len(o) = 0 => InstructionLines(n, at) = <<Head1>>
      /\ Len(o) = 1 => InstructionLines(n, at) = <<Head2, Plain(at + 1, Single(o[1], TRUE))>>
      /\ Len(o) = 2 /\ BothRegisters(o) =>
           InstructionLines(n, at) = <<Head3, Plain(at + 1, Pair(o[1], o[2]))>>
      /\ Len(o) = 2 /\ ~BothRegisters(o) =>
           InstructionLines(n, at) = <<Head3, Plain(at + 1, Single(o[1], FALSE)),
                                       Plain(at + 2, Single(o[2], TRUE))>>
  BY Shapes DEF Head1, Head2, Head3
<1>8. Len(o) \in {0, 1, 2}
  BY OperandCount
<1> HIDE DEF o
<1> QED  BY <1>2, <1>3, <1>4, <1>5, <1>6, <1>7, <1>8, GroupShapes

-----------------------------------------------------------------------------
(* What a step adds to the object file *)

LEMMA LinesTyped ==
  ASSUME TypeOK, NEW n, IsNode(n), NEW at \in Nat
  PROVE  /\ InstructionLines(n, at) \in Seq(ObjectLine)
         /\ Line(at, GuidanceWords(n), DataWords) \in ObjectLine \/ n.kind = "instruction"
<1> DEFINE words == InstructionWords(n.operands)
<1>1. words \in Seq(Word) /\ Len(words) \in Nat
  BY InstructionWordsType, LenProperties
<1>2. label \in Nat /\ node \in Nat
  BY DEF TypeOK, WalkTypes
<1>3. \A p, count \in Nat, word \in Word : Line(p, count, word) \in ObjectLine
  BY <1>2 DEF Line, ObjectLine
<1> HIDE DEF words
<1>4. \A k \in 1 .. Len(words) : Line(at + k - 1, 1, words[k]) \in ObjectLine
  <2> SUFFICES ASSUME NEW k \in 1 .. Len(words)
               PROVE  Line(at + k - 1, 1, words[k]) \in ObjectLine
    OBVIOUS
  <2>1. words[k] \in Word
    BY <1>1, ElementOfSeq
  <2>2. at + k - 1 \in Nat
    BY <1>1
  <2> QED  BY <1>3, <2>1, <2>2
<1> DEFINE line(k) == Line(at + k - 1, 1, words[k])
<1>5. \A k \in 1 .. Len(words) : line(k) \in ObjectLine
  BY <1>4
<1> HIDE DEF line
<1>6. [k \in 1 .. Len(words) |-> line(k)] \in Seq(ObjectLine)
  BY <1>1, <1>5
<1>7. n.kind # "instruction" => Line(at, GuidanceWords(n), DataWords) \in ObjectLine
  <2> HAVE n.kind # "instruction"
  <2>1. GuidanceWords(n) \in Nat
    BY NodeSizeType, GuidanceAgrees
  <2> QED  BY <1>3, <2>1, WordTypes
<1> QED  BY <1>6, <1>7 DEF InstructionLines, line, words

LEMMA Emitted ==
  ASSUME TypeInv, EmitInstruction
  PROVE  /\ IsNode(Node) /\ label \in LabelIndex /\ node \in 1 .. Len(Nodes(label))
         /\ Node.kind = "instruction" /\ pc = "object" /\ position \in Nat
         /\ object_file \in Seq(ObjectLine)
         /\ InstructionLines(Node, position) \in Seq(ObjectLine)
         /\ object_file' = object_file \o InstructionLines(Node, position)
         /\ external_file' = external_file \o References(Node.operands, position)
         /\ position' = position + NodeSize(Node) /\ node' = node + 1
         /\ UNCHANGED <<unit, pc, label, errors, pass1, entries>>
<1>1. TypeOK /\ IsTranslationUnit(unit) /\ WalkTypes /\ ObjectTypes
  BY DEF TypeInv, TypeOK
<1>2. label \in LabelIndex /\ node \in 1 .. Len(Nodes(label)) /\ position \in Nat
  BY <1>1, UnitTypes DEF EmitInstruction, AtNode, WalkTypes, ObjectTypes
<1>3. IsNode(Node) /\ Node.kind = "instruction"
  BY <1>1, <1>2, UnitTypes DEF EmitInstruction, Node
<1>4. Len(InstructionWords(Node.operands)) = NodeSize(Node)
  BY <1>3, InstructionAgrees
<1>5. InstructionLines(Node, position) \in Seq(ObjectLine)
  BY <1>1, <1>2, <1>3, LinesTyped
<1> QED
  BY <1>1, <1>2, <1>3, <1>4, <1>5 DEF EmitInstruction, InstructionLines, ObjectTypes

GuidanceLine == Line(position, GuidanceWords(Node), DataWords)

LEMMA GuidanceEmitted ==
  ASSUME TypeInv, EmitGuidance
  PROVE  /\ IsNode(Node) /\ label \in LabelIndex /\ node \in 1 .. Len(Nodes(label))
         /\ Node.kind # "instruction" /\ pc = "object" /\ position \in Nat
         /\ object_file \in Seq(ObjectLine) /\ GuidanceLine \in ObjectLine
         /\ object_file' = Append(object_file, GuidanceLine)
         /\ object_file' = object_file \o <<GuidanceLine>>
         /\ external_file' = external_file
         /\ position' = position + NodeSize(Node) /\ node' = node + 1
         /\ UNCHANGED <<unit, pc, label, errors, pass1, entries>>
<1>1. TypeOK /\ IsTranslationUnit(unit) /\ WalkTypes /\ ObjectTypes
  BY DEF TypeInv, TypeOK
<1>2. /\ label \in LabelIndex /\ node \in 1 .. Len(Nodes(label)) /\ position \in Nat
      /\ label \in Nat /\ unit.instruction_labels \in Nat
  BY <1>1, UnitTypes DEF EmitGuidance, AtNode, WalkTypes, ObjectTypes
<1>3. IsNode(Node) /\ Node.kind # "instruction"
  BY <1>1, <1>2, UnitTypes DEF EmitGuidance, Node
<1>4. GuidanceWords(Node) = NodeSize(Node)
  BY <1>3, GuidanceAgrees
<1>5. GuidanceLine \in ObjectLine
  BY <1>1, <1>2, <1>3, LinesTyped DEF GuidanceLine
<1>6. object_file' = Append(object_file, GuidanceLine)
  BY DEF EmitGuidance, GuidanceLine
<1>7. object_file' = object_file \o <<GuidanceLine>>
  BY <1>1, <1>5, <1>6, AppendIsConcat DEF ObjectTypes
<1> QED
  BY <1>1, <1>2, <1>3, <1>4, <1>5, <1>6, <1>7 DEF EmitGuidance, ObjectTypes

\* Every other step leaves the files as they are.
LEMMA FilesKept ==
  ASSUME TypeInv, [Next]_vars, ~EmitInstruction, ~EmitGuidance
  PROVE  UNCHANGED <<object_file, external_file>>
<1>1. WriteFiles => UNCHANGED <<object_file, external_file>>
  BY WriteEffect DEF pass2
<1> QED
  BY <1>1 DEF Next, WriteFiles, MeasureNode, PlaceLabel, FinishLabels, ListEntry,
     FinishEntries, NextLabel, FinishObject, vars, pass2

\* The decoding carries over to the whole file.
DecodeInv == Decodes(object_file)

LEMMA StepDecode == TypeInv /\ DecodeInv /\ [Next]_vars => DecodeInv'
<1> SUFFICES ASSUME TypeInv, DecodeInv, [Next]_vars PROVE DecodeInv'
  OBVIOUS
<1>0. ASSUME NEW g, object_file' = g, Decodes(g) PROVE DecodeInv'
  BY <1>0 DEF DecodeInv, Decodes, IsInstructionLine, IsOperandLine
<1>1. CASE EmitInstruction
  <2>1. Group(InstructionLines(Node, position))
    BY <1>1, Emitted, InstructionIsGroup
  <2> QED  BY <1>0, <1>1, <2>1, Emitted, DecodesExtended DEF DecodeInv
<1>2. CASE EmitGuidance
  <2>1. Group(<<GuidanceLine>>)
    BY LineFields, GroupShapes DEF GuidanceLine, IsInstructionLine, IsOperandLine
  <2>2. /\ object_file \in Seq(ObjectLine) /\ <<GuidanceLine>> \in Seq(ObjectLine)
        /\ object_file' = object_file \o <<GuidanceLine>>
    BY <1>2, GuidanceEmitted
  <2> QED  BY <1>0, <2>1, <2>2, DecodesExtended DEF DecodeInv
<1>3. CASE ~EmitInstruction /\ ~EmitGuidance
  BY <1>0, <1>3, FilesKept DEF DecodeInv
<1> QED  BY <1>1, <1>2, <1>3

LEMMA AllDecode == TypeInv /\ DecodeInv => ObjectDecodes
<1> SUFFICES ASSUME TypeInv, DecodeInv, NEW i \in Lines,
                    object_file[i].word.kind = "instruction"
             PROVE  LET words == OperandWordsAnnounced(object_file[i].word) IN
                    /\ \A k \in i + 1 .. i + words :
                         k \in Lines /\ object_file[k].word.kind = "operand"
                    /\ i + words + 1 \in Lines =>
                         object_file[i + words + 1].word.kind # "operand"
  BY DEF ObjectDecodes
<1> DEFINE words == OperandWordsAnnounced(object_file[i].word)
<1>1. Len(object_file) \in Nat
  BY LenProperties DEF TypeInv, TypeOK, ObjectTypes
<1>2. /\ words \in Nat /\ i + words <= Len(object_file)
      /\ \A k \in i + 1 .. i + words : IsOperandLine(object_file[k])
      /\ i + words < Len(object_file) => ~IsOperandLine(object_file[i + words + 1])
  BY DEF DecodeInv, Decodes, IsInstructionLine, Lines
<1> HIDE DEF words
<1>3. ASSUME NEW k \in i + 1 .. i + words
      PROVE  k \in Lines /\ object_file[k].word.kind = "operand"
  <2>1. k \in Lines
    BY <1>1, <1>2 DEF Lines
  <2> QED  BY <1>2, <2>1 DEF IsOperandLine
<1>4. ASSUME i + words + 1 \in Lines
      PROVE  object_file[i + words + 1].word.kind # "operand"
  <2>1. i + words < Len(object_file)
    BY <1>1, <1>2, <1>4 DEF Lines
  <2> QED  BY <1>2, <2>1 DEF IsOperandLine
<1> QED  BY <1>3, <1>4 DEF words

-----------------------------------------------------------------------------
(* Every operand word holds what its operand stands for *)

\* Throughout, the unit is one that the analyzer hands over.
Analyzed == unit \in Units

LEMMA UnitKept == TypeInv /\ [Next]_vars => unit' = unit
<1> SUFFICES ASSUME TypeInv, [Next]_vars PROVE unit' = unit
  OBVIOUS
<1>1. WriteFiles => unit' = unit
  BY WriteEffect
<1> QED
  BY <1>1 DEF Next, WriteFiles, MeasureNode, PlaceLabel, FinishLabels, ListEntry,
     FinishEntries, EmitInstruction, EmitGuidance, NextLabel, FinishObject, vars

LEMMA InitAnalyzed == Init => Analyzed
BY DEF Init, Analyzed

LEMMA StepAnalyzed == TypeInv /\ Analyzed /\ [Next]_vars => Analyzed'
BY UnitKept DEF Analyzed

Resolved(line) ==
  IsOperandLine(line) =>
    \A k \in DOMAIN line.word.operands :
      line.word.operands[k].mode = DIRECT =>
        /\ line.word.operands[k].name # NoName
        /\ line.word.memory = DirectMemory(line.word.operands[k].name)

ResolvedLine == {line \in ObjectLine : Resolved(line)}
ResolvedInv == object_file \in Seq(ResolvedLine)

LEMMA WordFields ==
  /\ \A at, word : Plain(at, word).word = word /\ Plain(at, word).at = at
  /\ \A at, word : Plain(at, word).label = label /\ Plain(at, word).node = node
  /\ \A src, dst : InstructionWord(src, dst).kind = "instruction"
  /\ \A o, isDst : /\ Single(o, isDst).kind = "operand"
                   /\ Single(o, isDst).memory = OperandMemory(o, isDst)
                   /\ Single(o, isDst).operands = <<o>>
  /\ \A o, p : /\ Pair(o, p).kind = "operand"
               /\ Pair(o, p).operands = <<o, p>>
               /\ Pair(o, p).memory =
                    WithRegister(WithRegister(NoMemory, o, FALSE), p, TRUE)
BY DEF Plain, Line, Single, Pair, OperandWord, InstructionWord

LEMMA SingleResolved ==
  ASSUME NEW o \in Operand, NEW isDst, NEW at, o.mode = DIRECT => o.name # NoName
  PROVE  Resolved(Plain(at, Single(o, isDst)))
<1> DEFINE word == Single(o, isDst)
           line == Plain(at, word)
<1>1. line.word = word
  BY WordFields
<1>2. word.operands = <<o>> /\ word.memory = OperandMemory(o, isDst)
  BY WordFields, Zenon
<1>3. o.mode = DIRECT => OperandMemory(o, isDst) = DirectMemory(o.name)
  BY DEF OperandMemory, DIRECT, IMMEDIATE, INDIRECT_REGISTER, DIRECT_REGISTER
<1> HIDE DEF line, word
<1> QED  BY <1>1, <1>2, <1>3 DEF Resolved, line, word

LEMMA PairResolved ==
  ASSUME NEW o, NEW p, BothRegisters(<<o, p>>), NEW at
  PROVE  Resolved(Plain(at, Pair(o, p)))
<1> DEFINE word == Pair(o, p)
           line == Plain(at, word)
<1>1. line.word = word
  BY WordFields
<1>2. word.operands = <<o, p>>
  BY WordFields, Zenon
<1>3. o.mode # DIRECT /\ p.mode # DIRECT
  BY DEF BothRegisters, IsRegister, DIRECT, INDIRECT_REGISTER, DIRECT_REGISTER
<1> HIDE DEF line, word
<1> QED  BY <1>1, <1>2, <1>3 DEF Resolved, line, word

LEMMA OtherResolved ==
  /\ \A at, src, dst : Resolved(Plain(at, InstructionWord(src, dst)))
  /\ Resolved(GuidanceLine)
<1>1. \A line : ~IsOperandLine(line) => Resolved(line)
  BY Zenon DEF Resolved
<1>2. \A at, src, dst : ~IsOperandLine(Plain(at, InstructionWord(src, dst)))
  BY WordFields DEF IsOperandLine
<1>3. ~IsOperandLine(GuidanceLine)
  BY LineFields DEF IsOperandLine, GuidanceLine
<1> QED  BY <1>1, <1>2, <1>3, Zenon

LEMMA TupleElements ==
  ASSUME NEW S
  PROVE  /\ \A x : <<x>> \in Seq(S) <=> x \in S
         /\ \A x, y : <<x, y>> \in Seq(S) <=> x \in S /\ y \in S
         /\ \A x, y, z : <<x, y, z>> \in Seq(S) <=> x \in S /\ y \in S /\ z \in S
OBVIOUS

LEMMA InstructionResolved ==
  ASSUME TypeOK, NEW n, IsNode(n), NEW at \in Nat,
         \A k \in 1 .. Len(n.operands) :
           n.operands[k].mode = DIRECT => n.operands[k].name # NoName
  PROVE  InstructionLines(n, at) \in Seq(ResolvedLine)
<1> DEFINE o == n.operands
           lines == InstructionLines(n, at)
<1>1. lines \in Seq(ObjectLine)
  BY LinesTyped
<1>2. /\ Len(o) > 0 => o[1] \in Operand /\ (o[1].mode = DIRECT => o[1].name # NoName)
      /\ Len(o) > 1 => o[2] \in Operand /\ (o[2].mode = DIRECT => o[2].name # NoName)
      /\ Len(o) \in {0, 1, 2}
  BY OperandCount
<1>3. \A line : line \in ObjectLine /\ Resolved(line) => line \in ResolvedLine
  BY Zenon DEF ResolvedLine
<1>8. ASSUME NEW x \in Operand, x.mode = DIRECT => x.name # NoName
      PROVE  \A p, isDst : Resolved(Plain(p, Single(x, isDst)))
  BY <1>8, SingleResolved, Zenon
<1>9. Len(o) = 1 => \A p, isDst : Resolved(Plain(p, Single(o[1], isDst)))
  BY <1>2, <1>8
<1>10. Len(o) = 2 => \A p, isDst : /\ Resolved(Plain(p, Single(o[1], isDst)))
                                 /\ Resolved(Plain(p, Single(o[2], isDst)))
  BY <1>2, <1>8
<1> HIDE DEF lines
<1>4. CASE Len(o) = 0
  <2>1. lines = <<Plain(at, InstructionWord(0, 0))>>
    BY <1>4, Shapes DEF lines
  <2> QED  BY <1>1, <1>3, <2>1, TupleElements, OtherResolved DEF lines
<1>5. CASE Len(o) = 1
  <2> DEFINE first == Plain(at, InstructionWord(0, o[1].mode))
             second == Plain(at + 1, Single(o[1], TRUE))
  <2>1. lines = <<first, second>>
    BY <1>5, Shapes DEF lines
  <2>2. Resolved(first) /\ Resolved(second)
    BY <1>5, <1>9, OtherResolved, Zenon
  <2> HIDE DEF first, second
  <2> QED  BY <1>1, <1>3, <2>1, <2>2, TupleElements DEF lines
<1>6. CASE Len(o) = 2 /\ BothRegisters(o)
  <2> DEFINE first == Plain(at, InstructionWord(o[1].mode, o[2].mode))
             second == Plain(at + 1, Pair(o[1], o[2]))
  <2>1. lines = <<first, second>>
    BY <1>6, Shapes DEF lines
  <2>2. BothRegisters(<<o[1], o[2]>>)
    BY <1>6 DEF BothRegisters
  <2>3. Resolved(first) /\ Resolved(second)
    BY <2>2, PairResolved, OtherResolved
  <2> HIDE DEF first, second
  <2> QED  BY <1>1, <1>3, <2>1, <2>3, TupleElements DEF lines
<1>7. CASE Len(o) = 2 /\ ~BothRegisters(o)
  <2> DEFINE first == Plain(at, InstructionWord(o[1].mode, o[2].mode))
             second == Plain(at + 1, Single(o[1], FALSE))
             third == Plain(at + 2, Single(o[2], TRUE))
  <2>1. lines = <<first, second, third>>
    BY <1>7, Shapes DEF lines
  <2>2. Resolved(first) /\ Resolved(second) /\ Resolved(third)
    BY <1>7, <1>10, OtherResolved, Zenon
  <2> HIDE DEF first, second, third
  <2> QED  BY <1>1, <1>3, <2>1, <2>2, TupleElements DEF lines
<1> HIDE DEF o
<1> QED  BY <1>2, <1>4, <1>5, <1>6, <1>7

\* An operand that names something has the name.
LEMMA OperandsNamed ==
  ASSUME TypeInv, Analyzed, label \in LabelIndex, node \in 1 .. Len(Nodes(label))
  PROVE  \A k \in 1 .. Len(Node.operands) :
           Node.operands[k].mode = DIRECT => Node.operands[k].name # NoName
<1>1. IsAnalyzed(unit)
  BY UnitsAssumption DEF Analyzed
<1> DEFINE Declared(l, n) ==
             LET operands == unit.labels[l].nodes[n].operands IN
             \A k \in 1 .. Len(operands) :
               operands[k].mode = DIRECT =>
                 /\ operands[k].name # NoName
                 /\ \/ operands[k].name \in unit.externals
                    \/ \E m \in 1 .. Len(unit.labels) : unit.labels[m].name = operands[k].name
<1>2. \A l \in 1 .. Len(unit.labels) : \A n \in 1 .. Len(unit.labels[l].nodes) : Declared(l, n)
  BY <1>1, Zenon DEF IsAnalyzed
<1>3. Declared(label, node)
  <2> HIDE DEF Declared
  <2> QED  BY <1>2 DEF LabelIndex, Nodes
<1>4. Node = unit.labels[label].nodes[node]
  BY DEF Node, Nodes
<1> QED  BY <1>3, <1>4, Zenon DEF Declared

\* Once lines are written the addresses of labels do not change.
LEMMA StepResolved ==
  TypeInv /\ Split /\ Analyzed /\ ResolvedInv /\ [Next]_vars => ResolvedInv'
<1> SUFFICES ASSUME TypeInv, Split, Analyzed, ResolvedInv, [Next]_vars PROVE ResolvedInv'
  OBVIOUS
<1>1. ASSUME UNCHANGED <<unit, label_position>>, object_file' \in Seq(ResolvedLine)
      PROVE  ResolvedInv'
  <2>1. \A name : DirectMemory(name)' = DirectMemory(name)
    BY <1>1 DEF DirectMemory, LabelsNamed, LabelIndex
  <2>2. \A line : Resolved(line)' <=> Resolved(line)
    BY <2>1, Zenon DEF Resolved
  <2>3. ResolvedLine' = ResolvedLine
    BY <2>2, Zenon DEF ResolvedLine
  <2> QED  BY <1>1, <2>3 DEF ResolvedInv
<1>2. CASE EmitInstruction
  <2>1. /\ IsNode(Node) /\ label \in LabelIndex /\ node \in 1 .. Len(Nodes(label))
        /\ position \in Nat /\ UNCHANGED <<unit, label_position>>
        /\ object_file' = object_file \o InstructionLines(Node, position)
    BY <1>2, Emitted DEF pass1
  <2>2. InstructionLines(Node, position) \in Seq(ResolvedLine)
    BY <2>1, OperandsNamed, InstructionResolved DEF TypeInv
  <2>3. object_file' \in Seq(ResolvedLine)
    BY <2>1, <2>2, ConcatProperties DEF ResolvedInv
  <2> QED  BY <1>1, <2>1, <2>3
<1>3. CASE EmitGuidance
  <2>1. /\ GuidanceLine \in ObjectLine /\ UNCHANGED <<unit, label_position>>
        /\ object_file' = Append(object_file, GuidanceLine)
    BY <1>3, GuidanceEmitted DEF pass1
  <2>2. GuidanceLine \in ResolvedLine
    BY <2>1, OtherResolved, Zenon DEF ResolvedLine
  <2>3. object_file' \in Seq(ResolvedLine)
    BY <2>1, <2>2, AppendProperties DEF ResolvedInv
  <2> QED  BY <1>1, <2>1, <2>3
<1>4. CASE pc \in {"update_labels", "entries"}
  <2>1. object_file' = <<>>
    BY <1>4, FilesKept DEF Split, EmitInstruction, EmitGuidance
  <2> QED  BY <2>1, EmptySeq DEF ResolvedInv
<1>5. CASE pc \notin {"update_labels", "entries"} /\ ~EmitInstruction /\ ~EmitGuidance
  <2>1. WriteFiles => UNCHANGED <<unit, label_position>>
    BY WriteEffect DEF pass1
  <2>2. UNCHANGED <<unit, label_position>>
    BY <1>5, <2>1 DEF Next, WriteFiles, MeasureNode, PlaceLabel, FinishLabels, ListEntry,
       FinishEntries, NextLabel, FinishObject, vars, pass1
  <2>3. object_file' = object_file
    BY <1>5, FilesKept
  <2> QED  BY <1>1, <2>2, <2>3 DEF ResolvedInv
<1> QED  BY <1>2, <1>3, <1>4, <1>5

-----------------------------------------------------------------------------
(* The object file has the code of a label at the address of the label *)

Begun(f, l) == \E i \in 1 .. Len(f) : f[i].label = l /\ f[i].at = label_position[l]

\* No line of a label is below the address of the label, and if there are lines
\* one of them is at it.
AtLabels(f) ==
  \A i \in 1 .. Len(f) :
    f[i].at >= label_position[f[i].label] /\ Begun(f, f[i].label)

AddressInv ==
  ~errors =>
    /\ AtLabels(object_file)
    /\ pc = "object" /\ label \in LabelIndex =>
         /\ position >= label_position[label]
         /\ node > 1 => Begun(object_file, label)

LEMMA AtLabelsExtended ==
  ASSUME NEW S, NEW f \in Seq(S), NEW g \in Seq(S), NEW l, AtLabels(f),
         \A i \in 1 .. Len(g) : g[i].label = l /\ g[i].at >= label_position[l],
         Begun(f, l) \/ Begun(g, l)
  PROVE  AtLabels(f \o g) /\ Begun(f \o g, l)
<1> DEFINE h == f \o g
<1>1. Len(f) \in Nat /\ Len(g) \in Nat
  BY LenProperties
<1>2. /\ Len(h) = Len(f) + Len(g)
      /\ \A i \in 1 .. Len(h) : h[i] = IF i <= Len(f) THEN f[i] ELSE g[i - Len(f)]
  BY ConcatProperties
<1> HIDE DEF h
<1>3. \A i \in 1 .. Len(f) : i \in 1 .. Len(h) /\ h[i] = f[i]
  BY <1>1, <1>2
<1>4. \A i \in 1 .. Len(g) : Len(f) + i \in 1 .. Len(h) /\ h[Len(f) + i] = g[i]
  <2> SUFFICES ASSUME NEW i \in 1 .. Len(g)
               PROVE  Len(f) + i \in 1 .. Len(h) /\ h[Len(f) + i] = g[i]
    OBVIOUS
  <2>1. /\ Len(f) + i \in 1 .. Len(h) /\ ~(Len(f) + i <= Len(f))
        /\ Len(f) + i - Len(f) = i
    BY <1>1, <1>2
  <2> QED  BY <1>2, <2>1
<1>5. \A m : Begun(f, m) => Begun(h, m)
  BY <1>3 DEF Begun
<1>6. \A m : Begun(g, m) => Begun(h, m)
  BY <1>4 DEF Begun
<1>7. Begun(h, l)
  BY <1>5, <1>6
<1>8. ASSUME NEW i \in 1 .. Len(h)
      PROVE  h[i].at >= label_position[h[i].label] /\ Begun(h, h[i].label)
  <2>1. CASE \E k \in 1 .. Len(f) : h[i] = f[k]
    BY <1>5, <2>1 DEF AtLabels
  <2>2. CASE \E k \in 1 .. Len(g) : h[i] = g[k]
    BY <1>7, <2>2
  <2> QED  BY <2>1, <2>2, LinesOfConcat DEF h
<1> QED  BY <1>7, <1>8 DEF AtLabels, h

LEMMA InstructionAtLabel ==
  ASSUME TypeOK, NEW n, IsNode(n), NEW at \in Nat, at >= label_position[label],
         label \in LabelIndex
  PROVE  LET g == InstructionLines(n, at) IN
         /\ \A i \in 1 .. Len(g) : g[i].label = label /\ g[i].at >= label_position[label]
         /\ g # <<>> /\ g[1].label = label /\ g[1].at = at
<1> DEFINE words == InstructionWords(n.operands)
           g == InstructionLines(n, at)
<1>1. Len(words) \in Nat
  BY InstructionWordsType, LenProperties
<1>2. g # <<>>
  BY InstructionIsGroup DEF Group
<1>3. g \in Seq(ObjectLine) /\ Len(g) \in Nat /\ Len(g) # 0
  BY <1>2, LinesTyped, LenProperties, EmptySeq
<1>4. /\ Len(g) = Len(words)
      /\ \A i \in 1 .. Len(words) : g[i].label = label /\ g[i].at = at + i - 1
  BY <1>1 DEF InstructionLines, Line
<1>5. label_position[label] \in Nat
  BY DEF TypeOK, LayoutTypes
<1> HIDE DEF g, words
<1>6. ASSUME NEW i \in 1 .. Len(g)
      PROVE  g[i].label = label /\ g[i].at >= label_position[label]
  <2>1. at + i - 1 >= label_position[label]
    BY <1>3, <1>5
  <2> QED  BY <1>4, <2>1
<1>7. 1 \in 1 .. Len(g) /\ at + 1 - 1 = at
  BY <1>3
<1>8. g[1].label = label /\ g[1].at = at
  BY <1>4, <1>7
<1> QED  BY <1>2, <1>6, <1>8 DEF g

LEMMA StepAddress == LayoutInv /\ Split /\ AddressInv /\ [Next]_vars => AddressInv'
<1> SUFFICES ASSUME LayoutInv, Split, AddressInv, [Next]_vars, ~errors' PROVE AddressInv'
  BY DEF AddressInv
<1>1. /\ TypeInv /\ IsTranslationUnit(unit) /\ WalkTypes /\ LayoutTypes /\ ObjectTypes
      /\ SecondPass /\ AllPlaced /\ TypeOK
  BY LayoutInvParts DEF TypeInv
<1>2. LayoutInv'
  BY StepLayout
<1>3. ASSUME UNCHANGED <<unit, label_position>>
      PROVE  /\ \A f : AtLabels(f)' <=> AtLabels(f)
             /\ \A f, l : Begun(f, l)' <=> Begun(f, l)
  BY <1>3 DEF AtLabels, Begun
<1>4. CASE EmitInstruction
  <2> DEFINE g == InstructionLines(Node, position)
  <2>1. /\ IsNode(Node) /\ label \in LabelIndex /\ node \in 1 .. Len(Nodes(label))
        /\ pc = "object" /\ position \in Nat /\ object_file \in Seq(ObjectLine)
        /\ g \in Seq(ObjectLine) /\ object_file' = object_file \o g
        /\ position' = position + NodeSize(Node) /\ node' = node + 1
        /\ UNCHANGED <<unit, pc, label, errors, label_position>>
    BY <1>1, <1>4, Emitted DEF pass1
  <2>2. /\ AtLabels(object_file) /\ position >= label_position[label]
        /\ node > 1 => Begun(object_file, label)
    BY <2>1 DEF AddressInv
  <2>3. /\ \A i \in 1 .. Len(g) : g[i].label = label /\ g[i].at >= label_position[label]
        /\ g # <<>> /\ g[1].label = label /\ g[1].at = position
    BY <1>1, <2>1, <2>2, InstructionAtLabel
  <2> HIDE DEF g
  <2>4. Begun(object_file, label) \/ Begun(g, label)
    <3>1. CASE node > 1
      BY <2>2, <3>1
    <3>2. CASE ~(node > 1)
      <4>1. node = 1
        BY <2>1, <3>2
      <4>2. position = label_position[label]
        BY <1>1, <2>1, <4>1 DEF SecondPass, After
      <4>3. 1 \in 1 .. Len(g)
        BY <2>1, <2>3, LenProperties, EmptySeq
      <4> QED  BY <2>3, <4>2, <4>3 DEF Begun
    <3> QED  BY <3>1, <3>2
  <2>5. AtLabels(object_file \o g) /\ Begun(object_file \o g, label)
    BY <2>1, <2>2, <2>3, <2>4, AtLabelsExtended
  <2>6. AtLabels(object_file') /\ Begun(object_file', label)
    BY <2>1, <2>5 DEF AtLabels, Begun
  <2>7. position' >= label_position[label]
    BY <1>1, <2>1, <2>2, NodeSizeType DEF LayoutTypes
  <2>8. AtLabels(object_file)' /\ Begun(object_file, label)'
    BY <2>1, <2>6 DEF AtLabels, Begun
  <2> QED  BY <2>1, <2>7, <2>8 DEF AddressInv
<1>5. CASE EmitGuidance
  <2>1. /\ IsNode(Node) /\ label \in LabelIndex /\ node \in 1 .. Len(Nodes(label))
        /\ pc = "object" /\ position \in Nat /\ object_file \in Seq(ObjectLine)
        /\ <<GuidanceLine>> \in Seq(ObjectLine)
        /\ object_file' = object_file \o <<GuidanceLine>>
        /\ position' = position + NodeSize(Node) /\ node' = node + 1
        /\ UNCHANGED <<unit, pc, label, errors, label_position>>
    BY <1>1, <1>5, GuidanceEmitted DEF pass1
  <2>2. /\ AtLabels(object_file) /\ position >= label_position[label]
        /\ node > 1 => Begun(object_file, label)
    BY <2>1 DEF AddressInv
  <2>3. GuidanceLine.label = label /\ GuidanceLine.at = position
    BY DEF GuidanceLine, Line
  <2>4. Begun(object_file, label) \/ Begun(<<GuidanceLine>>, label)
    <3>1. CASE node > 1
      BY <2>2, <3>1
    <3>2. CASE ~(node > 1)
      <4>1. node = 1
        BY <2>1, <3>2
      <4>2. position = label_position[label]
        BY <1>1, <2>1, <4>1 DEF SecondPass, After
      <4> HIDE DEF GuidanceLine
      <4> QED  BY <2>3, <4>2 DEF Begun
    <3> QED  BY <3>1, <3>2
  <2> HIDE DEF GuidanceLine
  <2>5. AtLabels(object_file \o <<GuidanceLine>>) /\ Begun(object_file \o <<GuidanceLine>>, label)
    <3>1. \A k \in 1 .. Len(<<GuidanceLine>>) :
            /\ <<GuidanceLine>>[k].label = label
            /\ <<GuidanceLine>>[k].at >= label_position[label]
      BY <2>2, <2>3
    <3> QED  BY <2>1, <2>2, <2>4, <3>1, AtLabelsExtended
  <2>6. AtLabels(object_file') /\ Begun(object_file', label)
    BY <2>1, <2>5 DEF AtLabels, Begun
  <2>7. position' >= label_position[label]
    BY <1>1, <2>1, <2>2, NodeSizeType DEF LayoutTypes
  <2>8. AtLabels(object_file)' /\ Begun(object_file, label)'
    BY <2>1, <2>6 DEF AtLabels, Begun
  <2> QED  BY <2>1, <2>7, <2>8 DEF AddressInv
<1>6. CASE ~EmitInstruction /\ ~EmitGuidance
  <2>1. object_file' = object_file
    BY <1>1, <1>6, FilesKept
  <2>2. WriteFiles => /\ UNCHANGED <<unit, errors, label_position>>
                      /\ pc \in {"ext", "ent", "ob"} /\ pc' \in {"ent", "ob", "done"}
    BY <1>1, WriteEffect DEF pass1
  <2>3. \/ object_file = <<>>
        \/ ~errors /\ UNCHANGED <<unit, label_position>>
    BY <1>1, <1>6, <2>2 DEF Split, Next, WriteFiles, MeasureNode, PlaceLabel, FinishLabels,
       ListEntry, FinishEntries, NextLabel, FinishObject, vars, pass1
  <2>4. AtLabels(object_file)'
    <3>1. CASE object_file = <<>>
      BY <2>1, <3>1 DEF AtLabels
    <3>2. CASE ~errors /\ UNCHANGED <<unit, label_position>>
      <4>1. AtLabels(object_file)
        BY <3>2 DEF AddressInv
      <4> QED  BY <2>1, <3>2, <4>1 DEF AtLabels, Begun
    <3> QED  BY <2>3, <3>1, <3>2
  <2>5. ASSUME pc' = "object", label' \in LabelIndex'
        PROVE  /\ position' >= label_position'[label']
               /\ node' > 1 => Begun(object_file, label)'
    <3>1. \/ node' = 1
          \/ /\ UNCHANGED <<unit, errors, pc, label, node, position, label_position>>
             /\ UNCHANGED object_file
      BY <1>1, <1>6, <2>2, <2>5 DEF Split, Next, WriteFiles, MeasureNode, PlaceLabel, FinishLabels,
         ListEntry, FinishEntries, NextLabel, FinishObject, vars, pass1, pass2
    <3>2. CASE node' = 1
      <4>1. position' = label_position'[label'] /\ position' \in Nat
        BY <1>2, <2>5, <3>2 DEF LayoutInv, TypeInv, TypeOK, ObjectTypes, SecondPass, After
      <4> QED  BY <3>2, <4>1
    <3>3. CASE /\ UNCHANGED <<unit, errors, pc, label, node, position, label_position>>
               /\ UNCHANGED object_file
      <4>1. label \in LabelIndex
        BY <2>5, <3>3 DEF LabelIndex
      <4>2. position >= label_position[label] /\ (node > 1 => Begun(object_file, label))
        BY <2>5, <3>3, <4>1 DEF AddressInv
      <4> QED  BY <3>3, <4>2 DEF Begun
    <3> QED  BY <3>1, <3>2, <3>3
  <2> QED  BY <2>4, <2>5 DEF AddressInv
<1> QED  BY <1>4, <1>5, <1>6

\* What a line refers to is where the object file has it.
LEMMA AllResolved ==
  LayoutInv /\ Analyzed /\ ResolvedInv /\ AddressInv => OperandsResolved
<1> SUFFICES ASSUME LayoutInv, Analyzed, ResolvedInv, AddressInv, ObjectComplete, ~errors,
                    NEW i \in OperandLines, NEW l \in LabelIndex, NEW j \in Lines,
                    RefersTo(i, unit.labels[l].name), IsStartOf(j, l)
             PROVE  /\ object_file[i].word.memory.ARE = 2
                    /\ object_file[i].word.memory.value = OperandField(object_file[j].at)
  BY DEF OperandsResolved
<1> DEFINE name == unit.labels[l].name
           line == object_file[i]
<1>1. LayoutTypes /\ ObjectTypes /\ IsTranslationUnit(unit)
  BY LayoutInvParts
<1>2. i \in Lines /\ IsOperandLine(line) /\ Resolved(line)
  <2>1. i \in Lines /\ IsOperandLine(line)
    BY DEF OperandLines, IsOperandLine
  <2>2. line \in ResolvedLine
    BY <2>1, ElementOfSeq DEF ResolvedInv, Lines
  <2> QED  BY <2>1, <2>2, Zenon DEF ResolvedLine
<1>3. name # NoName /\ line.word.memory = DirectMemory(name)
  <2>1. PICK k \in DOMAIN line.word.operands :
          line.word.operands[k].mode = DIRECT /\ line.word.operands[k].name = name
    BY Zenon DEF RefersTo
  <2> QED  BY <1>2, <2>1, Zenon DEF Resolved
<1>4. LabelsNamed(name) = {l}
  <2>1. IsAnalyzed(unit)
    BY UnitsAssumption DEF Analyzed
  <2>2. \A k \in LabelIndex : unit.labels[k].name = name => k = l
    BY <1>3, <2>1, Zenon DEF IsAnalyzed, LabelIndex
  <2> QED  BY <2>2 DEF LabelsNamed
<1>5. DirectMemory(name) = [ARE |-> 2, value |-> OperandField(label_position[l])]
  BY <1>4 DEF DirectMemory
<1>6. object_file[j].at = label_position[l]
  <2>1. /\ object_file[j].label = l
        /\ \A k \in Lines : object_file[k].label = l => object_file[j].at <= object_file[k].at
    BY DEF IsStartOf
  <2>2. object_file[j].at >= label_position[l] /\ Begun(object_file, l)
    BY <2>1 DEF AddressInv, AtLabels, Lines
  <2>3. PICK k \in Lines : object_file[k].label = l /\ object_file[k].at = label_position[l]
    BY <2>2 DEF Begun, Lines
  <2>4. object_file[j].at <= label_position[l]
    BY <2>1, <2>3
  <2>5. label_position[l] \in Nat /\ object_file[j] \in ObjectLine
    BY <1>1, ElementOfSeq DEF LayoutTypes, ObjectTypes, Lines
  <2>6. object_file[j].at \in Nat
    BY <2>5 DEF ObjectLine
  <2> QED  BY <2>2, <2>4, <2>5, <2>6
<1> HIDE DEF name, line
<1> QED  BY <1>3, <1>5, <1>6 DEF line

\* For programs of any length: the words of the object file decode into the
\* instructions they come from, and every operand that names a label, before or
\* after it, in whichever list, holds the address of the label's first word, as
\* far as its field holds it.
THEOREM ObjectIsProgram == Spec => []ObjectDescribesProgram
<1>1. Init => Analyzed /\ DecodeInv /\ ResolvedInv /\ AddressInv
  <2> SUFFICES ASSUME Init PROVE Analyzed /\ DecodeInv /\ ResolvedInv /\ AddressInv
    OBVIOUS
  <2>1. object_file = <<>> /\ Len(object_file) = 0 /\ pc = "update_labels"
    BY DEF Init
  <2>2. DecodeInv /\ ResolvedInv
    BY <2>1, EmptySeq DEF DecodeInv, Decodes, ResolvedInv
  <2>3. AddressInv
    BY <2>1 DEF AddressInv, AtLabels
  <2> QED  BY <2>2, <2>3, InitAnalyzed
<1>2. ImageInv => TypeInv /\ Split
  BY DEF ImageInv
<1>3. OperandsResolved /\ ObjectDecodes => ObjectDescribesProgram
  BY DEF ObjectDescribesProgram
<1> QED
  BY <1>1, <1>2, <1>3, InitLayout, StepLayout, InitImage, StepImage, StepAnalyzed, StepDecode,
     StepResolved, StepAddress, AllDecode, AllResolved, PTL DEF Spec

-----------------------------------------------------------------------------
(* The external file *)

\* What ExternalsListed says, of any two files.
ExternalsOf(f) == {i \in 1 .. Len(f) : IsExternalWord(f[i])}
Listed(f, e) ==
  /\ Len(e) = Cardinality(ExternalsOf(f))
  /\ \A i \in ExternalsOf(f) :
       e[Cardinality(ExternalsOf(f) \cap 1 .. i)] = ExternalLine(f[i])

\* What is recorded of a line.
Recorded(line, refs) ==
  \/ IsExternalWord(line) /\ Len(refs) = 1 /\ refs[1] = ExternalLine(line)
  \/ ~IsExternalWord(line) /\ refs = <<>>

LEMMA ListedOne ==
  ASSUME NEW S, NEW f \in Seq(S), NEW line \in S,
         NEW T, NEW e \in Seq(T), NEW refs \in Seq(T),
         Listed(f, e), Recorded(line, refs)
  PROVE  Listed(Append(f, line), e \o refs)
<1> DEFINE h == Append(f, line)
           d == e \o refs
           E == ExternalsOf(f)
           n == Len(f) + 1
<1>1. Len(f) \in Nat /\ Len(e) \in Nat /\ Len(refs) \in Nat
  BY LenProperties
<1>2. /\ Len(h) = n /\ h[n] = line
      /\ \A i \in 1 .. Len(f) : h[i] = f[i]
  BY AppendProperties
<1>3. /\ Len(d) = Len(e) + Len(refs)
      /\ \A i \in 1 .. Len(d) : d[i] = IF i <= Len(e) THEN e[i] ELSE refs[i - Len(e)]
  BY ConcatProperties
<1>4. E \subseteq 1 .. Len(f) /\ IsFiniteSet(E)
  <2>1. E \subseteq 1 .. Len(f)
    BY DEF ExternalsOf
  <2>2. IsFiniteSet(1 .. Len(f))
    BY <1>1, FS_Interval
  <2> HIDE DEF E
  <2>3. E \in SUBSET (1 .. Len(f))
    BY <2>1
  <2> QED  BY <2>1, <2>2, <2>3, FS_Subset
<1>5. n \notin E
  BY <1>1, <1>4
<1>6. \A i \in E : f[i] = h[i] /\ i \in 1 .. Len(f)
  BY <1>2, <1>4
<1>7. ExternalsOf(h) = IF IsExternalWord(line) THEN E \cup {n} ELSE E
  <2>1. 1 .. n = (1 .. Len(f)) \cup {n} /\ n \notin 1 .. Len(f)
    BY <1>1
  <2> HIDE DEF h, n
  <2>2. ExternalsOf(h) = {i \in (1 .. Len(f)) \cup {n} : IsExternalWord(h[i])}
    BY <1>2, <2>1 DEF ExternalsOf
  <2>3. ASSUME NEW i \in 1 .. Len(f) PROVE i \in ExternalsOf(h) <=> i \in E
    <3>1. IsExternalWord(h[i]) <=> IsExternalWord(f[i])
      BY <1>2 DEF IsExternalWord
    <3> QED  BY <2>2, <3>1 DEF ExternalsOf
  <2>4. n \in ExternalsOf(h) <=> IsExternalWord(line)
    BY <1>2, <2>2
  <2>5. ExternalsOf(h) \subseteq (1 .. Len(f)) \cup {n}
    BY <2>2
  <2> HIDE DEF E
  <2>6. ASSUME NEW i
        PROVE  i \in ExternalsOf(h) <=> i \in E \/ (i = n /\ IsExternalWord(line))
    <3>1. CASE i \in 1 .. Len(f)
      BY <2>1, <2>3, <3>1
    <3>2. CASE i = n
      BY <1>5, <2>4, <3>2
    <3>3. CASE i \notin 1 .. Len(f) /\ i # n
      BY <1>4, <2>5, <3>3
    <3> QED  BY <3>1, <3>2, <3>3
  <2> QED  BY <2>6, Zenon
<1> HIDE DEF h, d, n
<1>8. ASSUME NEW i \in E
      PROVE  LET c == Cardinality(ExternalsOf(h) \cap 1 .. i) IN
             d[c] = ExternalLine(h[i])
  <2> DEFINE c == Cardinality(E \cap 1 .. i)
  <2>1. i \in 1 .. Len(f)
    BY <1>6
  <2>2. n \notin 1 .. i
    BY <1>1, <2>1 DEF n
  <2>3. ExternalsOf(h) \cap 1 .. i = E \cap 1 .. i
    BY <1>7, <2>2
  <2>4. IsFiniteSet(E \cap 1 .. i) /\ c <= Cardinality(E)
    BY <1>4, FS_Intersection
  <2>5. c \in Nat /\ c # 0 /\ c <= Len(e)
    <3>1. i \in E \cap 1 .. i
      BY <1>8, <2>1
    <3> QED  BY <2>4, <3>1, FS_CardinalityType, FS_EmptySet DEF Listed
  <2> HIDE DEF c
  <2>6. c \in 1 .. Len(d) /\ d[c] = e[c]
    BY <1>1, <1>3, <2>5
  <2>7. e[c] = ExternalLine(f[i])
    BY DEF Listed, c
  <2> QED  BY <1>6, <2>3, <2>6, <2>7 DEF c
<1>9. CASE ~IsExternalWord(line)
  <2>1. ExternalsOf(h) = E /\ Len(refs) = 0
    BY <1>7, <1>9 DEF Recorded
  <2>2. Len(d) = Cardinality(ExternalsOf(h))
    BY <1>1, <1>3, <2>1 DEF Listed
  <2> QED  BY <1>8, <2>1, <2>2 DEF Listed, h, d
<1>10. CASE IsExternalWord(line)
  <2>1. ExternalsOf(h) = E \cup {n}
    BY <1>7, <1>10
  <2>2. Cardinality(E \cup {n}) = Len(e) + 1
    BY <1>4, <1>5, FS_AddElement DEF Listed
  <2>3. Len(refs) = 1 /\ refs[1] = ExternalLine(line)
    BY <1>10 DEF Recorded
  <2>4. Len(d) = Len(e) + 1 /\ d[Len(e) + 1] = refs[1]
    <3>1. Len(d) = Len(e) + 1
      BY <1>3, <2>3
    <3>2. Len(e) + 1 \in 1 .. Len(d) /\ ~(Len(e) + 1 <= Len(e)) /\ Len(e) + 1 - Len(e) = 1
      BY <1>1, <3>1
    <3> QED  BY <1>3, <3>1, <3>2
  <2>5. (E \cup {n}) \cap 1 .. n = E \cup {n}
    BY <1>1, <1>4 DEF n
  <2>6. d[Cardinality(ExternalsOf(h) \cap 1 .. n)] = ExternalLine(h[n])
    BY <1>2, <2>1, <2>2, <2>3, <2>4, <2>5
  <2>7. ASSUME NEW i \in ExternalsOf(h)
        PROVE  d[Cardinality(ExternalsOf(h) \cap 1 .. i)] = ExternalLine(h[i])
    BY <1>8, <2>1, <2>6, <2>7
  <2>8. Len(d) = Cardinality(ExternalsOf(h))
    BY <2>1, <2>2, <2>4
  <2> QED  BY <2>7, <2>8 DEF Listed, h, d
<1> QED  BY <1>9, <1>10

LEMMA InstructionRecorded ==
  /\ \A at, src, dst : Recorded(Plain(at, InstructionWord(src, dst)), <<>>)
  /\ Recorded(GuidanceLine, <<>>)
<1>1. \A line : ~IsOperandLine(line) => Recorded(line, <<>>)
  BY DEF Recorded, IsExternalWord, IsOperandLine
<1>2. \A at, src, dst : ~IsOperandLine(Plain(at, InstructionWord(src, dst)))
  BY WordFields DEF IsOperandLine
<1>3. ~IsOperandLine(GuidanceLine)
  BY LineFields DEF IsOperandLine, GuidanceLine
<1> QED  BY <1>1, <1>2, <1>3, Zenon

LEMMA SingleRecorded ==
  ASSUME NEW o \in Operand, NEW isDst, NEW p
  PROVE  Recorded(Plain(p, Single(o, isDst)), Reference(o, p))
<1> DEFINE word == Single(o, isDst)
           line == Plain(p, word)
           memory == OperandMemory(o, isDst)
<1>1. line.word = word /\ line.at = p
  BY WordFields
<1>2. word.kind = "operand" /\ word.operands = <<o>> /\ word.memory = memory
  BY WordFields, Zenon
<1>3. memory.ARE = 1 <=>
        o.mode = DIRECT /\ LabelsNamed(o.name) = {} /\ o.name \in unit.externals
  <2>1. CASE o.mode = DIRECT
    <3>1. memory = DirectMemory(o.name)
      BY <2>1 DEF OperandMemory, DIRECT, IMMEDIATE, INDIRECT_REGISTER, DIRECT_REGISTER
    <3>2. DirectMemory(o.name).ARE =
            IF LabelsNamed(o.name) # {} THEN 2 ELSE IF o.name \in unit.externals THEN 1 ELSE 0
      BY DEF DirectMemory, NoMemory
    <3> QED  BY <2>1, <3>1, <3>2
  <2>2. CASE o.mode = IMMEDIATE
    BY <2>2 DEF OperandMemory, DIRECT, IMMEDIATE, INDIRECT_REGISTER, DIRECT_REGISTER
  <2>3. CASE o.mode \in {INDIRECT_REGISTER, DIRECT_REGISTER}
    <3>1. memory = WithRegister(NoMemory, o, isDst)
      BY <2>3 DEF OperandMemory, DIRECT, IMMEDIATE, INDIRECT_REGISTER, DIRECT_REGISTER
    <3>2. memory.ARE = 4
      BY <3>1 DEF WithRegister
    <3> QED  BY <2>3, <3>2 DEF DIRECT, INDIRECT_REGISTER, DIRECT_REGISTER
  <2> QED  BY <2>1, <2>2, <2>3 DEF Operand
<1> HIDE DEF memory, word, line
<1>4. IsExternalWord(line) <=> memory.ARE = 1
  BY <1>1, <1>2 DEF IsExternalWord
<1>5. ExternalLine(line) = [name |-> o.name, at |-> p + 1]
  BY <1>1, <1>2 DEF ExternalLine
<1>6. CASE memory.ARE = 1
  <2>1. Reference(o, p) = <<[name |-> o.name, at |-> p + 1]>>
    BY <1>3, <1>6 DEF Reference
  <2>2. Len(Reference(o, p)) = 1 /\ Reference(o, p)[1] = ExternalLine(line)
    BY <1>5, <2>1
  <2> QED  BY <1>4, <1>5, <1>6, <2>2 DEF Recorded, line, word
<1>7. CASE memory.ARE # 1
  <2>1. Reference(o, p) = <<>>
    BY <1>3, <1>7 DEF Reference
  <2> QED  BY <1>4, <1>7, <2>1 DEF Recorded, line, word
<1> QED  BY <1>6, <1>7

LEMMA PairRecorded ==
  ASSUME NEW o, NEW p, NEW at
  PROVE  Recorded(Plain(at, Pair(o, p)), <<>>)
<1> DEFINE word == Pair(o, p)
           line == Plain(at, word)
<1>1. line.word = word
  BY WordFields
<1>2. word.memory = WithRegister(WithRegister(NoMemory, o, FALSE), p, TRUE)
  BY WordFields, Zenon
<1>3. word.memory.ARE = 4
  BY <1>2 DEF WithRegister
<1> HIDE DEF word, line
<1> QED  BY <1>1, <1>3 DEF Recorded, IsExternalWord, line, word

LEMMA Joined == \A x, y : <<x>> \o <<y>> = <<x, y>>
<1> SUFFICES ASSUME NEW x, NEW y PROVE <<x>> \o <<y>> = <<x, y>>
  OBVIOUS
<1>1. <<x>> \in Seq({x, y}) /\ y \in {x, y}
  OBVIOUS
<1>2. Append(<<x>>, y) = <<x>> \o <<y>>
  BY <1>1, AppendIsConcat
<1> DEFINE a == Append(<<x>>, y)
           b == <<x, y>>
<1>3. /\ a \in Seq({x, y}) /\ Len(a) = 2
      /\ a[1] = x /\ a[2] = y
  <2>1. Len(<<x>>) = 1 /\ 1 + 1 = 2 /\ 1 \in 1 .. 1 /\ <<x>>[1] = x
    OBVIOUS
  <2>2. /\ a \in Seq({x, y}) /\ Len(a) = Len(<<x>>) + 1
        /\ \A i \in 1 .. Len(<<x>>) : a[i] = <<x>>[i]
        /\ a[Len(<<x>>) + 1] = y
    BY <1>1, AppendProperties
  <2> HIDE DEF a
  <2> QED  BY <2>1, <2>2
<1>4. b \in [1 .. 2 -> {x, y}] /\ b[1] = x /\ b[2] = y
  OBVIOUS
<1> HIDE DEF a, b
<1>5. a \in [1 .. 2 -> {x, y}]
  BY <1>3, LenProperties
<1>6. \A i \in 1 .. 2 : a[i] = b[i]
  BY <1>3, <1>4
<1>7. a = b
  BY <1>4, <1>5, <1>6
<1> QED  BY <1>2, <1>7 DEF a, b

\* What is recorded of two and of three lines.
LEMMA ListedMore ==
  ASSUME NEW S, NEW f \in Seq(S), NEW x \in S, NEW y \in S,
         NEW T, NEW e \in Seq(T), NEW r \in Seq(T), Listed(f, e),
         Recorded(x, <<>>), Recorded(y, r)
  PROVE  /\ Listed(f \o <<x, y>>, e \o r)
         /\ \A z \in S : \A q \in Seq(T) :
              Recorded(z, q) => Listed(f \o <<x, y, z>>, e \o (r \o q))
<1> DEFINE fx == Append(f, x)
           fy == Append(fx, y)
<1>1. fx \in Seq(S) /\ fy \in Seq(S)
  BY AppendProperties
<1>2. <<>> \in Seq(T) /\ e \o <<>> = e
  BY EmptySeq, ConcatEmptySeq
<1>3. Listed(fx, e)
  <2>1. Listed(fx, e \o <<>>)
    BY <1>2, ListedOne
  <2> QED  BY <1>2, <2>1
<1>4. fy = f \o <<x, y>>
  <2>1. fx = f \o <<x>> /\ <<x>> \in Seq(S) /\ <<y>> \in Seq(S)
    BY AppendIsConcat
  <2> HIDE DEF fx
  <2>2. fy = fx \o <<y>>
    BY <1>1, AppendIsConcat
  <2>3. (f \o <<x>>) \o <<y>> = f \o (<<x>> \o <<y>>)
    BY <2>1, ConcatAssociative
  <2>4. <<x>> \o <<y>> = <<x, y>>
    BY Joined
  <2> HIDE DEF fy
  <2> QED  BY <2>1, <2>2, <2>3, <2>4
<1> HIDE DEF fx
<1>5. Listed(fy, e \o r)
  BY <1>1, <1>3, ListedOne
<1> HIDE DEF fy
<1>6. ASSUME NEW z \in S, NEW q \in Seq(T), Recorded(z, q)
      PROVE  Listed(f \o <<x, y, z>>, e \o (r \o q))
  <2>1. e \o r \in Seq(T)
    BY ConcatProperties
  <2>2. Listed(Append(fy, z), (e \o r) \o q)
    BY <1>1, <1>5, <1>6, <2>1, ListedOne
  <2>3. (e \o r) \o q = e \o (r \o q)
    BY ConcatAssociative, SMTT(30)
  <2>4. Append(fy, z) = f \o <<x, y, z>>
    BY <1>4
  <2> QED  BY <2>2, <2>3, <2>4
<1> QED  BY <1>4, <1>5, <1>6

LEMMA InstructionListed ==
  ASSUME TypeOK, NEW n, IsNode(n), NEW at \in Nat,
         NEW f \in Seq(ObjectLine), NEW e \in Seq(AddressLine), Listed(f, e)
  PROVE  Listed(f \o InstructionLines(n, at), e \o References(n.operands, at))
<1> DEFINE o == n.operands
           lines == InstructionLines(n, at)
           refs == References(o, at)
<1>1. lines \in Seq(ObjectLine) /\ refs \in Seq(AddressLine)
  BY LinesTyped, ReferencesType
<1>2. /\ Len(o) \in {0, 1, 2}
      /\ Len(o) > 0 => o[1] \in Operand
      /\ Len(o) > 1 => o[2] \in Operand
  BY OperandCount
<1>7. \A x \in Operand : \A isDst, p :
        Recorded(Plain(p, Single(x, isDst)), Reference(x, p))
  BY SingleRecorded, Zenon
<1> HIDE DEF lines
<1>3. CASE Len(o) = 0
  <2> DEFINE first == Plain(at, InstructionWord(0, 0))
  <2>1. lines = <<first>> /\ refs = <<>>
    <3>1. lines = <<first>>
      BY <1>3, Shapes DEF lines
    <3>2. refs = <<>>
      BY <1>3 DEF References
    <3> QED  BY <3>1, <3>2
  <2>2. Recorded(first, <<>>)
    BY InstructionRecorded
  <2> HIDE DEF first, refs
  <2>3. first \in ObjectLine
    BY <1>1, <2>1, TupleElements
  <2>4. f \o <<first>> = Append(f, first)
    BY <2>3, AppendIsConcat
  <2> QED  BY <1>1, <2>1, <2>2, <2>3, <2>4, ListedOne DEF lines, refs
<1>4. CASE Len(o) = 1
  <2> DEFINE first == Plain(at, InstructionWord(0, o[1].mode))
             second == Plain(at + 1, Single(o[1], TRUE))
  <2>1. lines = <<first, second>> /\ refs = Reference(o[1], at + 1)
    <3>1. lines = <<first, second>>
      BY <1>4, Shapes DEF lines
    <3>2. refs = Reference(o[1], at + 1)
      BY <1>4 DEF References
    <3> QED  BY <3>1, <3>2
  <2>2. Recorded(first, <<>>)
    BY InstructionRecorded
  <2>3. Recorded(second, Reference(o[1], at + 1))
    <3>1. o[1] \in Operand
      BY <1>2, <1>4
    <3> QED  BY <1>7, <3>1, Zenon
  <2> HIDE DEF first, second, refs
  <2>4. first \in ObjectLine /\ second \in ObjectLine
    BY <1>1, <2>1, TupleElements
  <2> QED  BY <1>1, <2>1, <2>2, <2>3, <2>4, ListedMore DEF lines, refs
<1>5. CASE Len(o) = 2 /\ BothRegisters(o)
  <2> DEFINE first == Plain(at, InstructionWord(o[1].mode, o[2].mode))
             second == Plain(at + 1, Pair(o[1], o[2]))
  <2>1. lines = <<first, second>>
    BY <1>5, Shapes DEF lines
  <2>2. refs = <<>>
    <3>1. Reference(o[1], at + 1) = <<>> /\ Reference(o[2], at + 2) = <<>>
      BY <1>5 DEF Reference, BothRegisters, IsRegister, DIRECT, INDIRECT_REGISTER,
         DIRECT_REGISTER
    <3>2. refs = Reference(o[1], at + 1) \o Reference(o[2], at + 2)
      BY <1>5 DEF References
    <3> QED  BY <3>1, <3>2
  <2>3. Recorded(first, <<>>) /\ Recorded(second, <<>>)
    BY InstructionRecorded, PairRecorded
  <2> HIDE DEF first, second, refs
  <2>4. first \in ObjectLine /\ second \in ObjectLine
    BY <1>1, <2>1, TupleElements
  <2> QED  BY <1>1, <2>1, <2>2, <2>3, <2>4, ListedMore DEF lines, refs
<1>6. CASE Len(o) = 2 /\ ~BothRegisters(o)
  <2> DEFINE first == Plain(at, InstructionWord(o[1].mode, o[2].mode))
             second == Plain(at + 1, Single(o[1], FALSE))
             third == Plain(at + 2, Single(o[2], TRUE))
             one == Reference(o[1], at + 1)
             two == Reference(o[2], at + 2)
  <2>1. lines = <<first, second, third>> /\ refs = one \o two
    <3>1. lines = <<first, second, third>>
      BY <1>6, Shapes DEF lines
    <3>2. refs = one \o two
      BY <1>6 DEF References
    <3> QED  BY <3>1, <3>2
  <2>2. Recorded(first, <<>>)
    BY InstructionRecorded
  <2>3. Recorded(second, one) /\ Recorded(third, two)
    <3>1. o[1] \in Operand /\ o[2] \in Operand
      BY <1>2, <1>6
    <3> QED  BY <1>7, <3>1, Zenon
  <2>4. one \in Seq(AddressLine) /\ two \in Seq(AddressLine)
    BY <1>2, <1>6, ReferenceType
  <2> HIDE DEF first, second, third, one, two, refs
  <2>5. first \in ObjectLine /\ second \in ObjectLine /\ third \in ObjectLine
    BY <1>1, <2>1, TupleElements
  <2> QED  BY <2>1, <2>2, <2>3, <2>4, <2>5, ListedMore DEF lines, refs
<1> HIDE DEF o, refs
<1> QED  BY <1>2, <1>3, <1>4, <1>5, <1>6

ListedInv == Listed(object_file, external_file)

LEMMA StepListed == TypeInv /\ ListedInv /\ [Next]_vars => ListedInv'
<1> SUFFICES ASSUME TypeInv, ListedInv, [Next]_vars PROVE ListedInv'
  OBVIOUS
<1>1. TypeOK /\ external_file \in Seq(AddressLine) /\ object_file \in Seq(ObjectLine)
  BY DEF TypeInv, TypeOK, ObjectTypes
<1>2. ASSUME NEW f, NEW e, object_file' = f, external_file' = e, Listed(f, e)
      PROVE  ListedInv'
  BY <1>2 DEF ListedInv, Listed, ExternalsOf, IsExternalWord
<1>3. CASE EmitInstruction
  <2>1. /\ IsNode(Node) /\ position \in Nat
        /\ object_file' = object_file \o InstructionLines(Node, position)
        /\ external_file' = external_file \o References(Node.operands, position)
    BY <1>3, Emitted
  <2> QED  BY <1>1, <1>2, <2>1, InstructionListed DEF ListedInv
<1>4. CASE EmitGuidance
  <2>1. /\ GuidanceLine \in ObjectLine /\ external_file' = external_file
        /\ object_file' = Append(object_file, GuidanceLine)
    BY <1>4, GuidanceEmitted
  <2>2. <<>> \in Seq(AddressLine) /\ external_file \o <<>> = external_file
    BY <1>1, EmptySeq, ConcatEmptySeq
  <2>3. Listed(Append(object_file, GuidanceLine), external_file \o <<>>)
    BY <1>1, <2>1, <2>2, InstructionRecorded, ListedOne DEF ListedInv
  <2> QED  BY <1>2, <2>1, <2>2, <2>3
<1>5. CASE ~EmitInstruction /\ ~EmitGuidance
  BY <1>2, <1>5, FilesKept DEF ListedInv
<1> QED  BY <1>3, <1>4, <1>5

LEMMA AllListed == ListedInv => ExternalsListed
<1> SUFFICES ASSUME ListedInv PROVE ExternalsListed
  OBVIOUS
<1>1. ExternalWords = ExternalsOf(object_file)
  BY Zenon DEF ExternalWords, ExternalsOf, Lines
<1> QED  BY <1>1, Zenon DEF ListedInv, Listed, ExternalsListed

-----------------------------------------------------------------------------
(* The entry file *)

NamesIn(f) == {f[i].name : i \in 1 .. Len(f)}
DeclaredUpTo(e) == {unit.entries[i] : i \in 1 .. e - 1}

\* An entry is listed when it is first met, and marked.
EntriesInv ==
  /\ \A i, j \in 1 .. Len(entry_file) : entry_file[i].name = entry_file[j].name => i = j
  /\ has_entry = NamesIn(entry_file) /\ has_entry = DeclaredUpTo(entry)
  /\ entry <= Len(unit.entries) + 1
  /\ pc \notin {"update_labels", "entries", "crashed"} => entry = Len(unit.entries) + 1

LEMMA ListEntryListed == TypeInv /\ EntriesInv /\ ListEntry => EntriesInv'
<1> SUFFICES ASSUME TypeInv, EntriesInv, ListEntry PROVE EntriesInv'
  OBVIOUS
<1>1. /\ entry_file \in Seq(AddressLine) /\ entry \in Nat \ {0}
      /\ Len(unit.entries) \in Nat /\ Len(entry_file) \in Nat
  BY UnitTypes, LenProperties DEF TypeInv, TypeOK, EntryTypes
<1> DEFINE name == unit.entries[entry]
<1>2. /\ pc = "entries" /\ entry <= Len(unit.entries) /\ entry' = entry + 1
      /\ UNCHANGED <<unit, pc>>
  BY DEF ListEntry
<1>3. DeclaredUpTo(entry)' = DeclaredUpTo(entry) \cup {name}
  <2>1. 1 .. entry = (1 .. entry - 1) \cup {entry}
    BY <1>1
  <2>2. entry' - 1 = entry
    BY <1>1, <1>2
  <2>3. DeclaredUpTo(entry)' = {unit.entries[i] : i \in 1 .. entry}
    BY <1>2, <2>2, Zenon DEF DeclaredUpTo
  <2> QED  BY <2>1, <2>3 DEF DeclaredUpTo
<1>4. entry' <= Len(unit.entries)' + 1 /\ pc' = "entries"
  BY <1>1, <1>2
<1>5. CASE name \in has_entry
  <2>1. UNCHANGED <<entry_file, has_entry>>
    BY <1>5 DEF ListEntry
  <2> QED  BY <1>3, <1>4, <1>5, <2>1 DEF EntriesInv, NamesIn
<1>6. CASE name \notin has_entry
  <2>1. has_entry' = has_entry \cup {name}
    BY <1>6 DEF ListEntry
  <2>2. PICK l : entry_file' = Append(entry_file,
                   [name |-> name, at |-> label_position[l] + STARTING_POSITION])
    BY <1>6 DEF ListEntry
  <2> DEFINE line == [name |-> name, at |-> label_position[l] + STARTING_POSITION]
             n == Len(entry_file) + 1
  <2>3. line.name = name /\ entry_file' = Append(entry_file, line)
    BY <2>2
  <2> HIDE DEF line
  <2>4. /\ Len(entry_file') = n /\ entry_file'[n] = line
        /\ \A i \in 1 .. Len(entry_file) : entry_file'[i] = entry_file[i]
    <3>1. entry_file \in Seq(AddressLine \cup {line}) /\ line \in AddressLine \cup {line}
      BY <1>1
    <3> QED  BY <2>3, <3>1, AppendProperties
  <2>5. 1 .. n = (1 .. Len(entry_file)) \cup {n} /\ n \notin 1 .. Len(entry_file)
    BY <1>1
  <2> HIDE DEF n
  <2>6. NamesIn(entry_file)' = NamesIn(entry_file) \cup {name}
    BY <2>3, <2>4, <2>5 DEF NamesIn
  <2>7. ASSUME NEW i \in 1 .. Len(entry_file) PROVE entry_file[i].name # name
    BY <1>6 DEF EntriesInv, NamesIn
  <2>8. ASSUME NEW i \in 1 .. n, NEW j \in 1 .. n, entry_file'[i].name = entry_file'[j].name
        PROVE  i = j
    BY <2>3, <2>4, <2>5, <2>7, <2>8 DEF EntriesInv
  <2> QED  BY <1>3, <1>4, <2>1, <2>4, <2>6, <2>8 DEF EntriesInv
<1> QED  BY <1>5, <1>6

LEMMA StepEntries == TypeInv /\ EntriesInv /\ [Next]_vars => EntriesInv'
<1> SUFFICES ASSUME TypeInv, EntriesInv, [Next]_vars PROVE EntriesInv'
  OBVIOUS
<1>1. CASE ListEntry
  BY <1>1, ListEntryListed
<1>2. CASE ~ListEntry
  <2>1. WriteFiles => UNCHANGED <<unit, entries>> /\ pc \in {"ext", "ent", "ob"}
    BY WriteEffect
  <2>2. UNCHANGED <<unit, entry, has_entry, entry_file>>
    BY <1>2, <2>1 DEF Next, WriteFiles, MeasureNode, PlaceLabel, FinishLabels, FinishEntries,
       EmitInstruction, EmitGuidance, NextLabel, FinishObject, vars, entries
  <2>3. \/ pc' \in {"update_labels", "entries", "crashed"}
        \/ pc \notin {"update_labels", "entries", "crashed"}
        \/ pc = "entries" /\ entry > Len(unit.entries)
    BY <1>2, <2>1 DEF Next, WriteFiles, MeasureNode, PlaceLabel, FinishLabels, FinishEntries,
       EmitInstruction, EmitGuidance, NextLabel, FinishObject, vars
  <2>4. Len(unit.entries) \in Nat /\ entry \in Nat
    BY UnitTypes, LenProperties DEF TypeInv, TypeOK, EntryTypes
  <2>5. NamesIn(entry_file)' = NamesIn(entry_file) /\ DeclaredUpTo(entry)' = DeclaredUpTo(entry)
    BY <2>2, Zenon DEF NamesIn, DeclaredUpTo
  <2>6. pc' \notin {"update_labels", "entries", "crashed"} => entry' = Len(unit.entries)' + 1
    BY <2>2, <2>3, <2>4 DEF EntriesInv
  <2> QED  BY <2>2, <2>5, <2>6 DEF EntriesInv
<1> QED  BY <1>1, <1>2

LEMMA AllEntries == TypeInv /\ EntriesInv => EntriesListed
<1> SUFFICES ASSUME TypeInv, EntriesInv PROVE EntriesListed
  OBVIOUS
<1>1. Len(unit.entries) \in Nat
  BY UnitTypes, LenProperties DEF TypeInv, TypeOK
<1>2. ASSUME ObjectComplete
      PROVE  {unit.entries[e] : e \in 1 .. Len(unit.entries)}
               = {entry_file[i].name : i \in 1 .. Len(entry_file)}
  <2>1. entry = Len(unit.entries) + 1 /\ entry - 1 = Len(unit.entries)
    BY <1>1, <1>2 DEF EntriesInv, ObjectComplete
  <2> QED  BY <2>1 DEF EntriesInv, NamesIn, DeclaredUpTo
<1> QED  BY <1>2 DEF EntriesListed, EntriesInv

\* For programs of any length: the external file has exactly the references the
\* linker must patch, in the order of their words, and the entry file lists
\* every entry once, however often it is declared.
THEOREM ListsForLinker == Spec => []ListingsComplete
<1>1. Init => ListedInv /\ EntriesInv
  <2> SUFFICES ASSUME Init PROVE ListedInv /\ EntriesInv
    OBVIOUS
  <2>1. /\ Len(object_file) = 0 /\ Len(external_file) = 0 /\ Len(entry_file) = 0
        /\ entry = 1 /\ has_entry = {} /\ pc = "update_labels"
    BY DEF Init
  <2>2. ListedInv
    BY <2>1, FS_EmptySet DEF ListedInv, Listed, ExternalsOf
  <2>3. Len(unit.entries) \in Nat
    BY InitTypes, UnitTypes, LenProperties DEF TypeInv, TypeOK
  <2>4. EntriesInv
    BY <2>1, <2>3 DEF EntriesInv, NamesIn, DeclaredUpTo
  <2> QED  BY <2>2, <2>4
<1>2. ExternalsListed /\ EntriesListed => ListingsComplete
  BY DEF ListingsComplete
<1> QED
  BY <1>1, <1>2, InitTypes, StepTypes, StepListed, StepEntries, AllListed, AllEntries, PTL DEF Spec
=============================================================================
