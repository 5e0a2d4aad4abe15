------------------------- MODULE MCSemanticAnalyzer -------------------------
(***************************************************************************)
(* Units that declare, use and export two names in every combination, and  *)
(* units of one instruction or .data of every operation and operands at    *)
(* and beyond the limits.                                                  *)
(***************************************************************************)
EXTENDS SemanticAnalyzer

CONSTANTS A, B, MCNoName

MCName == {A, B}

SeqUpTo(S, n) == UNION {[1 .. k -> S] : k \in 0 .. n}

Token(type, deref, name, number) ==
  [type |-> type, is_dereferenced |-> deref, name |-> name, number |-> number]

Number(v) == Token("number", FALSE, MCNoName, v)
Identifier(name, deref) == Token("identifier", deref, name, 0)
Register(deref) == Token("register", deref, MCNoName, 3)

InstructionNode(operation, operands) ==
  [kind |-> "instruction", operation |-> operation, operands |-> operands,
   numbers |-> <<>>, length |-> 0]
DataNode(numbers) ==
  [kind |-> "data", operation |-> "none", operands |-> <<>>, numbers |-> numbers, length |-> 0]
StringNode ==
  [kind |-> "string", operation |-> "none", operands |-> <<>>, numbers |-> <<>>, length |-> 2]

Unit(instructions, guidance, externals, entries) ==
  [labels |-> instructions \o guidance, instruction_labels |-> Len(instructions),
   externals |-> externals, entries |-> entries]
Labelled(name, nodes) == [name |-> name, nodes |-> nodes]

\* Up to two labels of each kind, two externals and two entries.
Declaring ==
  {Unit(instructions, guidance, externals, entries) :
     instructions \in SeqUpTo({Labelled(name, <<InstructionNode("jmp", <<Identifier(A, FALSE)>>)>>) :
                                 name \in MCName}, 2),
     guidance \in SeqUpTo({Labelled(name, <<StringNode>>) : name \in {A, MCNoName}}, 2),
     externals \in SeqUpTo(MCName, 2), entries \in SeqUpTo(MCName, 2)}

Operands ==
  {Number(v) : v \in {-2049, -2048, 2047, 2048}}
    \union {Identifier(A, TRUE), Identifier(A, FALSE), Identifier(B, FALSE)}
    \union {Register(deref) : deref \in BOOLEAN}

Instructing ==
  {Unit(<<Labelled(A, <<InstructionNode(operation, operands), InstructionNode("stop", <<>>)>>)>>,
        <<>>, <<>>, <<>>) :
     operation \in Operation, operands \in SeqUpTo(Operands, 2)}

Numbering ==
  {Unit(<<>>, <<Labelled(MCNoName, <<DataNode(<<v>>), DataNode(<<0, w>>)>>)>>, <<>>, <<>>) :
     v, w \in {-16385, -16384, 16383, 16384}}

MCParsed == Declaring \union Instructing \union Numbering
=============================================================================
