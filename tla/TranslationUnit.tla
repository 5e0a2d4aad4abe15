--------------------------- MODULE TranslationUnit ---------------------------
(***************************************************************************)
(* The trees that the stages of the assembler hand over (headers/nodes.h), *)
(* as the code generator reads them, and what the stages before it are to  *)
(* have established about them.                                            *)
(***************************************************************************)
EXTENDS Integers, Sequences

CONSTANTS
  Name,    \* identifiers
  NoName   \* the NULL label of a guidance list, and of a non-identifier operand

IMMEDIATE == 1
DIRECT == 2
INDIRECT_REGISTER == 4
DIRECT_REGISTER == 8

\* number is the immediate value or the register number.
Operand == [mode : {IMMEDIATE, DIRECT, INDIRECT_REGISTER, DIRECT_REGISTER},
            name : Name \union {NoName}, number : Int]

\* length is that of the string token, quotes included, or the count of numbers
\* of a .data directive.
IsNode(n) ==
  /\ n.operands \in Seq(Operand) /\ Len(n.operands) <= 2
  /\ n.length \in Nat
  /\ \/ n.kind = "instruction"
     \/ n.kind = "string" /\ n.length >= 2
     \/ n.kind = "data"

\* The instruction labels come first, then the guidance labels.
IsTranslationUnit(u) ==
  /\ DOMAIN u.labels = 1 .. Len(u.labels) /\ Len(u.labels) \in Nat
  /\ u.instruction_labels \in 0 .. Len(u.labels)
  /\ \A l \in 1 .. Len(u.labels) :
       /\ u.labels[l].name \in Name \union {NoName}
       /\ DOMAIN u.labels[l].nodes = 1 .. Len(u.labels[l].nodes)
       /\ Len(u.labels[l].nodes) \in Nat
       /\ \A n \in 1 .. Len(u.labels[l].nodes) :
            /\ IsNode(u.labels[l].nodes[n])
            /\ l <= u.instruction_labels
                 <=> u.labels[l].nodes[n].kind = "instruction"
  /\ u.externals \subseteq Name
  /\ u.entries \in Seq(Name)

\* What semantic analysis has established: declarations are unique, an entry is
\* a label, every instruction label is named, every operand is declared.
IsAnalyzed(u) ==
  /\ \A k, l \in 1 .. Len(u.labels) :
       u.labels[k].name = u.labels[l].name /\ u.labels[k].name # NoName => k = l
  /\ \A l \in 1 .. Len(u.labels) :
       /\ u.labels[l].name \notin u.externals
       /\ l <= u.instruction_labels => u.labels[l].name # NoName
  /\ \A e \in 1 .. Len(u.entries) :
       \E l \in 1 .. Len(u.labels) : u.labels[l].name = u.entries[e]
  /\ \A l \in 1 .. Len(u.labels) : \A n \in 1 .. Len(u.labels[l].nodes) :
       LET operands == u.labels[l].nodes[n].operands IN
       \A k \in 1 .. Len(operands) :
         operands[k].mode = DIRECT =>
           /\ operands[k].name # NoName
           /\ \/ operands[k].name \in u.externals
              \/ \E m \in 1 .. Len(u.labels) : u.labels[m].name = operands[k].name

ASSUME NameAssumption == NoName \notin Name
-----------------------------------------------------------------------------
(* Parsed translation units *)

TwoOperands == {"mov", "cmp", "add", "sub", "lea"}
OneOperand == {"clr", "not", "inc", "dec", "jmp", "bne", "jsr", "red", "prn"}
NoOperand == {"rts", "stop"}
Operation == TwoOperands \union OneOperand \union NoOperand

\* number is what atoi makes of the token: a value, or the register's.
OperandToken ==
  [type : {"number", "identifier", "register"}, is_dereferenced : BOOLEAN,
   name : Name \union {NoName}, number : Int]

Mode(o) ==
  CASE o.type = "number" -> IMMEDIATE
    [] o.type = "identifier" -> DIRECT
    [] o.type = "register" ->
         IF o.is_dereferenced THEN INDIRECT_REGISTER ELSE DIRECT_REGISTER

\* What the code generator reads of a node and of a unit.
LoweredNode(n) ==
  [kind |-> n.kind,
   length |-> IF n.kind = "data" THEN Len(n.numbers) ELSE n.length,
   operands |-> [k \in 1 .. Len(n.operands) |->
                   [mode |-> Mode(n.operands[k]), name |-> n.operands[k].name,
                    number |-> n.operands[k].number]]]

Lowered(u) ==
  [labels |-> [l \in 1 .. Len(u.labels) |->
                 [name |-> u.labels[l].name,
                  nodes |-> [n \in 1 .. Len(u.labels[l].nodes) |->
                               LoweredNode(u.labels[l].nodes[n])]]],
   instruction_labels |-> u.instruction_labels,
   externals |-> {u.externals[x] : x \in 1 .. Len(u.externals)},
   entries |-> u.entries]

IsParsedNode(n) ==
  /\ n.kind = "instruction" => n.operation \in Operation
  /\ n.kind # "instruction" => n.operands = <<>>
  /\ n.operands \in Seq(OperandToken)
  /\ \A k \in 1 .. Len(n.operands) :
       n.operands[k].type = "identifier" => n.operands[k].name \in Name
  /\ n.numbers \in Seq(Int)

\* The parser takes instructions only after a label.
IsParsed(u) ==
  /\ DOMAIN u.labels = 1 .. Len(u.labels) /\ Len(u.labels) \in Nat
  /\ \A l \in 1 .. Len(u.labels) :
       /\ l <= u.instruction_labels => u.labels[l].name # NoName
       /\ DOMAIN u.labels[l].nodes = 1 .. Len(u.labels[l].nodes)
       /\ Len(u.labels[l].nodes) \in Nat
       /\ \A n \in 1 .. Len(u.labels[l].nodes) : IsParsedNode(u.labels[l].nodes[n])
  /\ u.externals \in Seq(Name)
  /\ IsTranslationUnit(Lowered(u))
=============================================================================
