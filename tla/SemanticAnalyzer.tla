-------------------------- MODULE SemanticAnalyzer --------------------------
(***************************************************************************)
(* source/semantic_analyzer.c over a parsed translation unit: declarations *)
(* are entered in the symbol table, entries looked up, then every node is  *)
(* checked.  One action per iteration of a loop.  A call of the table is   *)
(* one step, as in SymbolTable, which IdentifierHash implements.           *)
(***************************************************************************)
EXTENDS Integers, Sequences, FiniteSets, TranslationUnit

CONSTANT Parsed  \* the translation units the parser can hand over

MAX_15BIT_SIGNED_INT == 16383
MIN_15BIT_SIGNED_INT == -16384
MAX_12BIT_SIGNED_INT == 2047
MIN_12BIT_SIGNED_INT == -2048

ASSUME ParsedAssumption == \A u \in Parsed : IsParsed(u)

-----------------------------------------------------------------------------
VARIABLES
  unit,
  pc,
  at,          \* where the walk over the list of this pc is
  node,        \* and over the nodes of the label
  size,        \* the identifiers counted by semantic_analyzer_initialize
  table,       \* the cells of the symbol table
  inserts,     \* how often semantic_analyzer_insert_identifier was called
  error_list

vars == <<unit, pc, at, node, size, table, inserts, error_list>>

\* An error is where it is reported: a place of a list, and a node there.
Place(list, index, n) == [list |-> list, index |-> index, node |-> n]
Report(condition) == IF condition THEN error_list \union {Place(pc, at, node)} ELSE error_list

Known(name) == \E c \in table : c.key = name
Cell(name, type) == [key |-> name, type |-> type]

-----------------------------------------------------------------------------
(* Declarations *)

\* Mutant: the labels of guidance not counted.
CountedInstructions(u) == u.instruction_labels + Len(u.externals)

Counted(u) ==
  Cardinality({l \in 1 .. Len(u.labels) :
                 l <= u.instruction_labels \/ u.labels[l].name # NoName})
    + Len(u.externals)

Initialize ==
  /\ pc = "initialize" /\ pc' = "labels"
  /\ size' = Counted(unit)
  /\ UNCHANGED <<unit, at, node, table, inserts, error_list>>

Insert(name, type) ==
  /\ inserts' = inserts + 1
  /\ table' = IF Known(name) THEN table ELSE table \union {Cell(name, type)}

\* Mutant: a guidance list without a label entered as well.
ValidateLabelUnnamed ==
  /\ pc = "labels" /\ at <= Len(unit.labels)
  /\ Insert(unit.labels[at].name, "label")
  /\ error_list' = Report(Known(unit.labels[at].name))
  /\ at' = at + 1
  /\ UNCHANGED <<unit, pc, node, size>>

\* validate_instruction_labels, then validate_guidance_labels.
ValidateLabel ==
  /\ pc = "labels" /\ at <= Len(unit.labels)
  /\ LET name == unit.labels[at].name IN
     \/ /\ at <= unit.instruction_labels \/ name # NoName
        /\ Insert(name, "label")
        /\ error_list' = Report(Known(name))
     \/ /\ at > unit.instruction_labels /\ name = NoName
        /\ UNCHANGED <<table, inserts, error_list>>
  /\ at' = at + 1
  /\ UNCHANGED <<unit, pc, node, size>>

\* "Both label and external" or "Duplicate external", by the cell found.
ValidateExternal ==
  /\ pc = "externals" /\ at <= Len(unit.externals)
  /\ LET name == unit.externals[at] IN
     \/ /\ ~Known(name)
        /\ Insert(name, "external")
        /\ UNCHANGED error_list
     \/ /\ Known(name)
        /\ error_list' = Report(TRUE)
        /\ UNCHANGED <<table, inserts>>
  /\ at' = at + 1
  /\ UNCHANGED <<unit, pc, node, size>>

\* Mutant: any cell of the name will do.
ValidateEntryKnown ==
  /\ pc = "entries" /\ at <= Len(unit.entries)
  /\ error_list' = Report(~Known(unit.entries[at]))
  /\ at' = at + 1
  /\ UNCHANGED <<unit, pc, node, size, table, inserts>>

ValidateEntry ==
  /\ pc = "entries" /\ at <= Len(unit.entries)
  /\ LET name == unit.entries[at] IN
     error_list' = Report(~Known(name) \/ Cell(name, "external") \in table)
  /\ at' = at + 1
  /\ UNCHANGED <<unit, pc, node, size, table, inserts>>

Declarations ==
  [labels |-> unit.labels, externals |-> unit.externals, entries |-> unit.entries]

\* The lists are walked one after the other, and then the labels again.
FinishList ==
  /\ pc \in DOMAIN Declarations /\ at > Len(Declarations[pc])
  /\ pc' = CASE pc = "labels" -> "externals"
             [] pc = "externals" -> "entries"
             [] pc = "entries" -> "nodes"
  /\ at' = 1 /\ node' = IF pc = "entries" THEN 1 ELSE 0
  /\ UNCHANGED <<unit, size, table, inserts, error_list>>

-----------------------------------------------------------------------------
(* Nodes *)

ExpectedOperands(operation) ==
  CASE operation \in TwoOperands -> 2
    [] operation \in OneOperand -> 1
    [] operation \in NoOperand -> 0

\* validate_and_determine_addressing_mode and validate_identifier.
BadOperand(o) ==
  \/ o.is_dereferenced /\ o.type # "register"
  \/ o.type = "number"
     /\ (o.number > MAX_12BIT_SIGNED_INT \/ o.number < MIN_12BIT_SIGNED_INT)
  \/ o.type = "identifier" /\ ~Known(o.name)

\* The switch on the operation; first and second are addressing modes.
BadModes(operation, first, second) ==
  \/ operation \in {"mov", "add", "sub", "cmp"} /\ first = IMMEDIATE /\ second = IMMEDIATE
  \/ operation \in {"not", "clr", "inc", "dec", "red"} /\ first = IMMEDIATE
  \/ operation = "lea" /\ first # DIRECT
  \/ operation = "lea" /\ second # DIRECT_REGISTER /\ second # INDIRECT_REGISTER
  \/ operation \in {"jmp", "bne", "jsr"} /\ first # DIRECT /\ first # INDIRECT_REGISTER

\* A mode that has no operand stays what it is initialized to.
ModeOf(operands, k) == IF k <= Len(operands) THEN Mode(operands[k]) ELSE IMMEDIATE

\* Mutant: the operands not counted.
BadInstructionUncounted(n) ==
  \/ \E k \in 1 .. Len(n.operands) : BadOperand(n.operands[k])
  \/ BadModes(n.operation, ModeOf(n.operands, 1), ModeOf(n.operands, 2))

\* With a wrong number of operands nothing else of the instruction is looked at.
BadInstruction(n) ==
  \/ Len(n.operands) # ExpectedOperands(n.operation)
  \/ /\ Len(n.operands) = ExpectedOperands(n.operation)
     /\ \/ \E k \in 1 .. Len(n.operands) : BadOperand(n.operands[k])
        \/ BadModes(n.operation, ModeOf(n.operands, 1), ModeOf(n.operands, 2))

BadData(n) ==
  \E k \in 1 .. Len(n.numbers) :
    n.numbers[k] > MAX_15BIT_SIGNED_INT \/ n.numbers[k] < MIN_15BIT_SIGNED_INT

\* One iteration of the loops of semantic_analyzer_analyze_label; a string is
\* not looked at.
AnalyzeNode ==
  /\ pc = "nodes" /\ at <= Len(unit.labels) /\ node <= Len(unit.labels[at].nodes)
  /\ LET n == unit.labels[at].nodes[node] IN
     error_list' = Report(\/ n.kind = "instruction" /\ BadInstruction(n)
                          \/ n.kind = "data" /\ BadData(n))
  /\ node' = node + 1
  /\ UNCHANGED <<unit, pc, at, size, table, inserts>>

FinishLabel ==
  /\ pc = "nodes" /\ at <= Len(unit.labels) /\ node > Len(unit.labels[at].nodes)
  /\ at' = at + 1 /\ node' = 1
  /\ UNCHANGED <<unit, pc, size, table, inserts, error_list>>

FinishAnalysis ==
  /\ pc = "nodes" /\ at > Len(unit.labels)
  /\ pc' = "done"
  /\ UNCHANGED <<unit, at, node, size, table, inserts, error_list>>

-----------------------------------------------------------------------------
Init ==
  /\ unit \in Parsed
  /\ pc = "initialize" /\ at = 1 /\ node = 0 /\ size = 0
  /\ table = {} /\ inserts = 0 /\ error_list = {}

Next ==
  \/ Initialize
  \/ ValidateLabel \/ ValidateExternal \/ ValidateEntry \/ FinishList
  \/ AnalyzeNode \/ FinishLabel \/ FinishAnalysis

Spec == Init /\ [][Next]_vars

-----------------------------------------------------------------------------
CellType == [key : Name, type : {"label", "external"}]

TypeOK ==
  /\ IsParsed(unit)
  /\ pc \in {"initialize", "labels", "externals", "entries", "nodes", "done"}
  /\ at \in Nat /\ node \in Nat /\ size \in Nat
  /\ pc \in DOMAIN Declarations => at \in 1 .. Len(Declarations[pc]) + 1
  /\ pc = "nodes" => at \in 1 .. Len(unit.labels) + 1
  /\ pc = "nodes" /\ at <= Len(unit.labels) =>
       node \in 1 .. Len(unit.labels[at].nodes) + 1
  /\ table \subseteq CellType
  /\ inserts \in Nat
  /\ error_list \subseteq [list : {"labels", "externals", "entries", "nodes"},
                           index : Nat, node : Nat]

\* The table was sized for every insertion the analysis asks of it: what
\* IdentifierHash needs so as never to be full.
InsertsCounted == pc # "initialize" => inserts <= size

\* A program the analyzer finds no error in is one the code generator is written
\* for: declarations are unique, operands declared, entries labels.
AcceptedIsAnalyzed ==
  pc = "done" /\ error_list = {} => IsAnalyzed(Lowered(unit))

\* The faults of a program, from the program alone: a name declared before, an
\* entry that is no label, an operand of no declaration or out of range, modes
\* the operation does not have.
LabelNames == {unit.labels[l].name : l \in 1 .. Len(unit.labels)} \ {NoName}
Externals == {unit.externals[x] : x \in 1 .. Len(unit.externals)}

NotImmediate == {DIRECT, INDIRECT_REGISTER, DIRECT_REGISTER}
AnyMode == NotImmediate \union {IMMEDIATE}

LegalModes(operation) ==
  CASE operation \in {"mov", "add", "sub", "cmp"} ->
         (AnyMode \X NotImmediate) \union (NotImmediate \X AnyMode)
    [] operation = "lea" -> {DIRECT} \X {INDIRECT_REGISTER, DIRECT_REGISTER}
    [] operation \in {"not", "clr", "inc", "dec", "red"} -> {<<m>> : m \in NotImmediate}
    [] operation \in {"jmp", "bne", "jsr"} -> {<<DIRECT>>, <<INDIRECT_REGISTER>>}
    [] operation = "prn" -> {<<m>> : m \in AnyMode}
    [] operation \in NoOperand -> {<<>>}

FaultyNode(n) ==
  \/ n.kind = "data" /\ \E k \in 1 .. Len(n.numbers) : n.numbers[k] \notin -16384 .. 16383
  \/ /\ n.kind = "instruction"
     /\ \/ [k \in 1 .. Len(n.operands) |-> Mode(n.operands[k])] \notin LegalModes(n.operation)
        \/ \E k \in 1 .. Len(n.operands) :
             LET o == n.operands[k] IN
             \/ o.is_dereferenced /\ o.type # "register"
             \/ o.type = "number" /\ o.number \notin -2048 .. 2047
             \/ o.type = "identifier" /\ o.name \notin LabelNames \union Externals

Faults ==
  {Place("labels", l, 0) : l \in
     {b \in 1 .. Len(unit.labels) : unit.labels[b].name # NoName
        /\ \E a \in 1 .. b - 1 : unit.labels[a].name = unit.labels[b].name}}
  \union
  {Place("externals", x, 0) : x \in
     {b \in 1 .. Len(unit.externals) :
        unit.externals[b] \in LabelNames
          \/ \E a \in 1 .. b - 1 : unit.externals[a] = unit.externals[b]}}
  \union
  {Place("entries", e, 0) : e \in
     {b \in 1 .. Len(unit.entries) : unit.entries[b] \notin LabelNames}}
  \union
  UNION {{Place("nodes", l, n) : n \in
            {b \in 1 .. Len(unit.labels[l].nodes) : FaultyNode(unit.labels[l].nodes[b])}} :
           l \in 1 .. Len(unit.labels)}

\* Exactly the faults of the program are reported, each at its place, whatever
\* the order of declarations and uses.
FaultsReported == pc = "done" => error_list = Faults
=============================================================================
