--------------------------- MODULE CodeGenerator ---------------------------
(***************************************************************************)
(* source/code_generator.c: the two passes over an analyzed translation    *)
(* unit.  code_generator_update_labels gives every label its address from  *)
(* the sizes of the nodes before it; generate_entry_file_string lists the  *)
(* entries; generate_object_and_external_files walks the same nodes again, *)
(* counts its own addresses and resolves identifiers with those of the     *)
(* first walk; output_generate writes the files.  One action per iteration *)
(* of a loop.                                                              *)
(***************************************************************************)
EXTENDS Integers, Sequences, FiniteSets, TranslationUnit

CONSTANT Units  \* the translation units the analyzer can hand over

STARTING_POSITION == 100
MAX_POSITION == 9999
\* The position generate_object_and_external_files starts from (a literal).
OBJECT_START == 100
\* operand_value is a bit-field of 12 bits, rdst and rsrc its low two octal digits.
OPERAND_VALUES == 4096
FieldValues == 0 .. OPERAND_VALUES - 1

ASSUME UnitsAssumption ==
  \A u \in Units : IsTranslationUnit(u) /\ IsAnalyzed(u)

-----------------------------------------------------------------------------
VARIABLES
  unit,
  pc,
  label, node,         \* where the walk over the label lists is
  totalSize,           \* of the nodes of this label measured so far
  currentPosition,     \* of code_generator_update_labels
  label_position,      \* label->position, 0 until assigned
  layout,              \* history: the address the first pass counts for a node
  errors,              \* error_handler.error_list # NULL
  entry, has_entry, entry_file,
  position,            \* of generate_object_and_external_files
  object_file, external_file,
  instruction_lines, guidance_lines,
  files                \* what output_generate did to each file

pass1 == <<totalSize, currentPosition, label_position, layout>>
entries == <<entry, has_entry, entry_file>>
pass2 == <<position, object_file, external_file, instruction_lines, guidance_lines>>
vars == <<unit, pc, label, node, errors, files, pass1, entries, pass2>>

LabelIndex == 1 .. Len(unit.labels)
Nodes(l) == unit.labels[l].nodes
AtNode == label \in LabelIndex /\ node <= Len(Nodes(label))
AtEndOfLabel == label \in LabelIndex /\ node > Len(Nodes(label))
AtEndOfUnit == label > Len(unit.labels)
Node == Nodes(label)[node]

IsRegister(operand) == operand.mode \in {INDIRECT_REGISTER, DIRECT_REGISTER}
BothRegisters(operands) == IsRegister(operands[1]) /\ IsRegister(operands[2])

LabelsNamed(name) == {l \in LabelIndex : unit.labels[l].name = name}

-----------------------------------------------------------------------------
(* First pass *)

\* Mutant: a word for each register of a pair.
NodeSizePairApart(n) ==
  CASE n.kind = "instruction" -> 1 + Len(n.operands)
    [] n.kind = "string" -> n.length + 1 - 2
    [] n.kind = "data" -> n.length

NodeSize(n) ==
  CASE n.kind = "instruction" ->
         IF Len(n.operands) = 2 /\ BothRegisters(n.operands)
         THEN 2 ELSE 1 + Len(n.operands)
    [] n.kind = "string" -> n.length + 1 - 2
    [] n.kind = "data" -> n.length

\* One iteration of the loops of calculate_label_memory_size.
MeasureNode ==
  /\ pc = "update_labels" /\ AtNode
  /\ totalSize' = totalSize + NodeSize(Node)
  /\ layout' = [layout EXCEPT ![label][node] = currentPosition + totalSize]
  /\ node' = node + 1
  /\ UNCHANGED <<unit, pc, label, errors, files, currentPosition, label_position,
                 entries, pass2>>

\* Assign the label its position and check that memory has not run out.  The
\* error is reported at the token of the label: *(NULL) for an unnamed one.
PlaceLabel ==
  /\ pc = "update_labels" /\ AtEndOfLabel
  /\ label_position' = [label_position EXCEPT ![label] = currentPosition]
  /\ currentPosition' = currentPosition + totalSize
  /\ IF currentPosition + totalSize > MAX_POSITION
     THEN IF unit.labels[label].name = NoName
          THEN /\ pc' = "crashed"
               /\ UNCHANGED <<label, node, totalSize, errors>>
          ELSE /\ pc' = "entries" /\ errors' = TRUE
               /\ UNCHANGED <<label, node, totalSize>>
     ELSE /\ label' = label + 1 /\ node' = 1 /\ totalSize' = 0
          /\ UNCHANGED <<pc, errors>>
  /\ UNCHANGED <<unit, files, layout, entries, pass2>>

FinishLabels ==
  /\ pc = "update_labels" /\ AtEndOfUnit
  /\ pc' = "entries"
  /\ UNCHANGED <<unit, label, node, errors, files, pass1, entries, pass2>>

-----------------------------------------------------------------------------
(* Entries *)

\* The entry is looked up; only its first declaration is listed, and marked.
ListEntry ==
  /\ pc = "entries" /\ entry <= Len(unit.entries)
  /\ LET name == unit.entries[entry] IN
     \/ /\ name \notin has_entry
        /\ \E l \in LabelsNamed(name) :
             entry_file' = Append(entry_file,
               [name |-> name, at |-> label_position[l] + STARTING_POSITION])
        /\ has_entry' = has_entry \union {name}
     \/ /\ name \in has_entry
        /\ UNCHANGED <<entry_file, has_entry>>
  /\ entry' = entry + 1
  /\ UNCHANGED <<unit, pc, label, node, errors, files, pass1, pass2>>

\* output_generate starts the second walk whatever the errors.
FinishEntries ==
  /\ pc = "entries" /\ entry > Len(unit.entries)
  /\ pc' = "object"
  /\ label' = 1 /\ node' = 1
  /\ UNCHANGED <<unit, errors, files, pass1, entries, pass2>>

-----------------------------------------------------------------------------
(* Second pass *)

\* Mutant: the value kept whole.
OperandFieldWhole(value) == value

\* Assignment to the 12-bit field, and to the 3-bit fields rdst (low) and rsrc
\* that share its low bits; handle_register_mode clears the one it does not set.
OperandField(value) == value % OPERAND_VALUES
RegisterFields(value, register, isDst) ==
  (value \div 64) * 64 + (IF isDst THEN register % 8 ELSE 8 * (register % 8))

WithRegister(memory, operand, isDst) ==
  [ARE |-> 4, value |-> RegisterFields(memory.value, operand.number, isDst)]

NoMemory == [ARE |-> 0, value |-> 0]

\* Mutant: the start added to the position, as for the entry file.
DirectMemoryMoved(name) ==
  IF LabelsNamed(name) # {}
  THEN [ARE |-> 2, value |->
          OperandField(label_position[CHOOSE l \in LabelsNamed(name) : TRUE]
                       + STARTING_POSITION)]
  ELSE IF name \in unit.externals THEN [ARE |-> 1, value |-> 0] ELSE NoMemory

\* handle_direct_mode: an identifier that is not found leaves the word as it is.
DirectMemory(name) ==
  IF LabelsNamed(name) # {}
  THEN [ARE |-> 2,
        value |-> OperandField(label_position[CHOOSE l \in LabelsNamed(name) : TRUE])]
  ELSE IF name \in unit.externals THEN [ARE |-> 1, value |-> 0] ELSE NoMemory

\* handle_operand: the switch on the addressing mode.
OperandMemory(operand, isDst) ==
  CASE operand.mode = IMMEDIATE ->
         [ARE |-> 4, value |-> OperandField(operand.number)]
    [] operand.mode = DIRECT -> DirectMemory(operand.name)
    [] operand.mode \in {INDIRECT_REGISTER, DIRECT_REGISTER} ->
         WithRegister(NoMemory, operand, isDst)

\* Lines of the object file: the word, its address, the operands it stands for
\* and the node it comes from.  All the words of a guidance node are one line.
InstructionWord(src, dst) == [kind |-> "instruction", src |-> src, dst |-> dst]
OperandWord(memory, operands) ==
  [kind |-> "operand", memory |-> memory, operands |-> operands]
DataWords == [kind |-> "data"]
Line(at, words, word) ==
  [at |-> at, words |-> words, word |-> word, label |-> label, node |-> node]

\* The words of an instruction with no, one or two operands; two registers
\* share a word.
NoOperandWords == <<InstructionWord(0, 0)>>

OneOperandWords(operand) ==
  <<InstructionWord(0, operand.mode),
    OperandWord(OperandMemory(operand, TRUE), <<operand>>)>>

RegisterPairWords(first, second) ==
  <<InstructionWord(first.mode, second.mode),
    OperandWord(WithRegister(WithRegister(NoMemory, first, FALSE), second, TRUE),
                <<first, second>>)>>

TwoOperandWords(first, second) ==
  <<InstructionWord(first.mode, second.mode),
    OperandWord(OperandMemory(first, FALSE), <<first>>),
    OperandWord(OperandMemory(second, TRUE), <<second>>)>>

InstructionWords(operands) ==
  CASE Len(operands) = 0 -> NoOperandWords
    [] Len(operands) = 1 -> OneOperandWords(operands[1])
    [] Len(operands) = 2 /\ BothRegisters(operands) ->
         RegisterPairWords(operands[1], operands[2])
    [] Len(operands) = 2 /\ ~BothRegisters(operands) ->
         TwoOperandWords(operands[1], operands[2])

\* What handle_direct_mode records of an operand whose word is written at "at".
Reference(operand, at) ==
  IF /\ operand.mode = DIRECT
     /\ LabelsNamed(operand.name) = {} /\ operand.name \in unit.externals
  THEN <<[name |-> operand.name, at |-> at + 1]>>
  ELSE <<>>

\* Mutant: only the first operand recorded.
FirstReference(operands, at) ==
  IF Len(operands) = 0 THEN <<>> ELSE Reference(operands[1], at + 1)

References(operands, at) ==
  CASE Len(operands) = 0 -> <<>>
    [] Len(operands) = 1 -> Reference(operands[1], at + 1)
    [] Len(operands) = 2 ->
         Reference(operands[1], at + 1) \o Reference(operands[2], at + 2)

EmitInstruction ==
  /\ pc = "object" /\ AtNode /\ label <= unit.instruction_labels
  /\ LET words == InstructionWords(Node.operands) IN
     /\ object_file' = object_file \o
          [k \in 1 .. Len(words) |-> Line(position + k - 1, 1, words[k])]
     /\ external_file' = external_file \o References(Node.operands, position)
     /\ position' = position + Len(words)
  /\ node' = node + 1
  /\ UNCHANGED <<unit, pc, label, errors, files, pass1, entries,
                 instruction_lines, guidance_lines>>

\* The characters between the quotes, then the terminator; or the numbers.
GuidanceWords(n) ==
  IF n.kind = "data" THEN n.length ELSE (n.length - 2) + 1

\* Mutant: the address not advanced past the terminator of a string.
EmitGuidanceShort ==
  /\ pc = "object" /\ AtNode /\ label > unit.instruction_labels
  /\ object_file' = Append(object_file, Line(position, GuidanceWords(Node), DataWords))
  /\ position' = position + Node.length - (IF Node.kind = "string" THEN 2 ELSE 0)
  /\ node' = node + 1
  /\ UNCHANGED <<unit, pc, label, errors, files, pass1, entries, external_file,
                 instruction_lines, guidance_lines>>

EmitGuidance ==
  /\ pc = "object" /\ AtNode /\ label > unit.instruction_labels
  /\ object_file' = Append(object_file, Line(position, GuidanceWords(Node), DataWords))
  /\ position' = position + GuidanceWords(Node)
  /\ node' = node + 1
  /\ UNCHANGED <<unit, pc, label, errors, files, pass1, entries, external_file,
                 instruction_lines, guidance_lines>>

\* The end of a label; the instruction lines are counted between the two lists,
\* the guidance lines after both.
NextLabel ==
  /\ pc = "object" /\ AtEndOfLabel
  /\ label' = label + 1 /\ node' = 1
  /\ instruction_lines' = IF label' = unit.instruction_labels + 1
                          THEN position - 100 ELSE instruction_lines
  /\ UNCHANGED <<unit, pc, errors, files, pass1, entries, position, object_file,
                 external_file, guidance_lines>>

\* Mutant: the guidance lines counted from the start of memory.
FinishObjectFromStart ==
  /\ pc = "object" /\ AtEndOfUnit
  /\ guidance_lines' = position - 100
  /\ pc' = "ext"
  /\ UNCHANGED <<unit, label, node, errors, files, pass1, entries, position,
                 object_file, external_file, instruction_lines>>

FinishObject ==
  /\ pc = "object" /\ AtEndOfUnit
  /\ guidance_lines' = position - instruction_lines - 100
  /\ pc' = "ext"
  /\ UNCHANGED <<unit, label, node, errors, files, pass1, entries, position,
                 object_file, external_file, instruction_lines>>

-----------------------------------------------------------------------------
(* Files *)

\* Mutant: the error list not consulted.
WriteFileRegardless(file, content, next) ==
  /\ pc = file
  /\ pc' = next
  /\ IF content
     THEN \E outcome \in {"written", "failed"} :
            files' = [files EXCEPT ![file] = outcome]
     ELSE UNCHANGED files
  /\ UNCHANGED <<unit, label, node, errors, pass1, entries, pass2>>

\* fopen fails or not; a failure is printed and changes nothing else.
WriteFile(file, content, next) ==
  /\ pc = file
  /\ pc' = next
  /\ IF ~errors /\ content
     THEN \E outcome \in {"written", "failed"} :
            files' = [files EXCEPT ![file] = outcome]
     ELSE UNCHANGED files
  /\ UNCHANGED <<unit, label, node, errors, pass1, entries, pass2>>

WriteExternals == WriteFile("ext", external_file # <<>>, "ent")
WriteEntries == WriteFile("ent", entry_file # <<>>, "ob")
WriteObject == WriteFile("ob", TRUE, "done")

-----------------------------------------------------------------------------
Init ==
  /\ unit \in Units
  /\ pc = "update_labels" /\ label = 1 /\ node = 1
  /\ totalSize = 0 /\ currentPosition = STARTING_POSITION
  /\ label_position = [l \in LabelIndex |-> 0]
  /\ layout = [l \in LabelIndex |-> [n \in 1 .. Len(Nodes(l)) |-> 0]]
  /\ errors = FALSE
  /\ entry = 1 /\ has_entry = {} /\ entry_file = <<>>
  /\ position = OBJECT_START
  /\ object_file = <<>> /\ external_file = <<>>
  /\ instruction_lines = 0 /\ guidance_lines = 0
  /\ files = [f \in {"ext", "ent", "ob"} |-> "untouched"]

Next ==
  \/ MeasureNode
  \/ PlaceLabel
  \/ FinishLabels
  \/ ListEntry
  \/ FinishEntries
  \/ EmitInstruction
  \/ EmitGuidance
  \/ NextLabel
  \/ FinishObject
  \/ WriteExternals
  \/ WriteEntries
  \/ WriteObject

Spec == Init /\ [][Next]_vars

-----------------------------------------------------------------------------
AddressLine == [name : Name, at : Nat]

Memory == [ARE : 0 .. 4, value : FieldValues]

Word ==
  [kind : {"instruction"}, src : 0 .. 8, dst : 0 .. 8]
  \union [kind : {"operand"}, memory : Memory, operands : Seq(Operand)]
  \union {DataWords}

ObjectLine == [at : Nat, words : Nat, word : Word, label : Nat, node : Nat]

WalkTypes ==
  /\ pc \in {"update_labels", "entries", "object", "ext", "ent", "ob", "done", "crashed"}
  /\ label \in Nat \ {0} /\ node \in Nat \ {0}
  /\ errors \in BOOLEAN
  /\ files \in [{"ext", "ent", "ob"} -> {"untouched", "written", "failed"}]

LayoutTypes ==
  /\ totalSize \in Nat /\ currentPosition \in Nat
  /\ label_position \in [LabelIndex -> Nat]
  /\ DOMAIN layout = LabelIndex
  /\ \A l \in LabelIndex : layout[l] \in [1 .. Len(Nodes(l)) -> Nat]

EntryTypes ==
  /\ entry \in Nat \ {0}
  /\ has_entry \subseteq Name
  /\ entry_file \in Seq(AddressLine)

ObjectTypes ==
  /\ position \in Nat
  /\ object_file \in Seq(ObjectLine)
  /\ external_file \in Seq(AddressLine)
  /\ instruction_lines \in Nat /\ guidance_lines \in Nat

TypeOK ==
  /\ IsTranslationUnit(unit)
  /\ WalkTypes
  /\ LayoutTypes
  /\ EntryTypes
  /\ ObjectTypes

Lines == 1 .. Len(object_file)
ObjectComplete == pc \in {"ext", "ent", "ob", "done"}

\* The two walks agree: whenever the second one reaches a label, the address it
\* has counted is the one the first gave the label, which is the address every
\* reference to the label is resolved to.
LabelsAtTheirCode ==
  pc = "object" /\ ~errors /\ label \in LabelIndex /\ node = 1
    => position = label_position[label]

\* The object file is an image of memory from 100 without a gap or an overlap.
ObjectContiguous ==
  /\ object_file # <<>> => object_file[1].at = 100
  /\ \A i \in Lines :
       object_file[i].at + object_file[i].words =
         IF i = Len(object_file) THEN position ELSE object_file[i + 1].at

\* The counts in the header of the object file describe the file below it and
\* the memory the first pass found sufficient.
HeaderMatches ==
  ObjectComplete /\ ~errors =>
    /\ 100 + instruction_lines + guidance_lines = currentPosition
    /\ \A i \in Lines :
         object_file[i].at < 100 + instruction_lines
           <=> object_file[i].label <= unit.instruction_labels

\* The address of the first word of a label in the object file.
IsStartOf(i, l) ==
  /\ object_file[i].label = l /\ object_file[i].node = 1
  /\ \A j \in Lines : object_file[j].label = l => object_file[i].at <= object_file[j].at

OperandLines == {i \in Lines : object_file[i].word.kind = "operand"}
RefersTo(i, name) ==
  \E k \in DOMAIN object_file[i].word.operands :
    LET operand == object_file[i].word.operands[k]
    IN  operand.mode = DIRECT /\ operand.name = name

\* Every operand that names a label, defined before or after it, holds the low
\* 12 bits of the address at which the object file has the label's first word.
OperandsResolved ==
  ObjectComplete /\ ~errors =>
    \A i \in OperandLines, l \in LabelIndex, j \in Lines :
      RefersTo(i, unit.labels[l].name) /\ IsStartOf(j, l) =>
        /\ object_file[i].word.memory.ARE = 2
        /\ object_file[i].word.memory.value = OperandField(object_file[j].at)

\* The instructions of the object file can be told apart: an instruction word
\* is followed by exactly the operand words its addressing modes announce.
OperandWordsAnnounced(word) ==
  CASE word.src = 0 /\ word.dst = 0 -> 0
    [] word.src = 0 /\ word.dst # 0 -> 1
    [] word.src \in {4, 8} /\ word.dst \in {4, 8} -> 1
    [] word.src # 0 /\ ~(word.src \in {4, 8} /\ word.dst \in {4, 8}) -> 2

ObjectDecodes ==
  \A i \in Lines :
    object_file[i].word.kind = "instruction" =>
      LET words == OperandWordsAnnounced(object_file[i].word) IN
      /\ \A k \in i + 1 .. i + words :
           k \in Lines /\ object_file[k].word.kind = "operand"
      /\ i + words + 1 \in Lines =>
           object_file[i + words + 1].word.kind # "operand"

\* The object file is one program: its words decode into instructions, and their
\* operands refer to where the labels ended up.
ObjectDescribesProgram == OperandsResolved /\ ObjectDecodes

\* The external file has one line for every word the linker must patch, in the
\* order of the words, and no other; the address it gives is the next word's.
IsExternalWord(line) == line.word.kind = "operand" /\ line.word.memory.ARE = 1
ExternalWords == {i \in Lines : IsExternalWord(object_file[i])}
ExternalLine(line) == [name |-> line.word.operands[1].name, at |-> line.at + 1]
ExternalsListed ==
  /\ Len(external_file) = Cardinality(ExternalWords)
  /\ \A i \in ExternalWords :
       external_file[Cardinality(ExternalWords \cap 1 .. i)] = ExternalLine(object_file[i])

\* However often a label is declared an entry, the entry file lists it once;
\* when the object is written none is missing.
EntriesListed ==
  /\ \A i, j \in 1 .. Len(entry_file) :
       entry_file[i].name = entry_file[j].name => i = j
  /\ ObjectComplete =>
       {unit.entries[e] : e \in 1 .. Len(unit.entries)}
         = {entry_file[i].name : i \in 1 .. Len(entry_file)}

\* The two lists that go with the object file, for the linker, are complete and
\* without repetition.
ListingsComplete == ExternalsListed /\ EntriesListed

\* No file is opened for a program whose layout the first pass abandoned: a
\* published file only contains addresses that were assigned.
OnlyPlacedIsPublished ==
  (\E f \in DOMAIN files : files[f] # "untouched") =>
    /\ currentPosition <= MAX_POSITION
    /\ \A l \in LabelIndex : label_position[l] >= STARTING_POSITION

-----------------------------------------------------------------------------
(* What comments of the code say, and the code does not do *)

\* code_generator.c:650: a register pair shares a word ("source and
\* destination"), rsrc being "the register used as the source operand"
\* (code_generator.h:27).
RegisterPairKept ==
  \A i \in OperandLines :
    LET operands == object_file[i].word.operands
        value == object_file[i].word.memory.value
    IN  Len(operands) = 2 =>
          value % 8 = operands[2].number /\ (value \div 8) % 8 = operands[1].number

\* code_generator.h:96: update_labels "performs error checking and reports any
\* issues encountered"; nodes.h:74 allows the label it reports at to be NULL.
OverflowReported == pc # "crashed"
=============================================================================
