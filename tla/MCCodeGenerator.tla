-------------------------- MODULE MCCodeGenerator --------------------------
(***************************************************************************)
(* Units of one or two instruction labels over a pool of instructions with *)
(* every addressing mode, forward and backward references, an external and *)
(* repeated entries, followed by guidance labels, named or not, whose      *)
(* sizes put labels beyond 4095 or the program beyond 9999.                *)
(***************************************************************************)
EXTENDS CodeGenerator

CONSTANTS a, b, d, x

MCName == {a, b, d, x}

Operand1(mode, name, number) == [mode |-> mode, name |-> name, number |-> number]
Direct(name) == Operand1(DIRECT, name, 0)
Immediate(value) == Operand1(IMMEDIATE, NoName, value)
Register(number) == Operand1(DIRECT_REGISTER, NoName, number)
Indirect(number) == Operand1(INDIRECT_REGISTER, NoName, number)

Instruction(operands) == [kind |-> "instruction", operands |-> operands, length |-> 0]
Text(length) == [kind |-> "string", operands |-> <<>>, length |-> length]
Numbers(count) == [kind |-> "data", operands |-> <<>>, length |-> count]
Label(name, nodes) == [name |-> name, nodes |-> nodes]

Pool ==
  {Instruction(<<>>),
   Instruction(<<Direct(b)>>),
   Instruction(<<Direct(x), Direct(d)>>),
   Instruction(<<Register(3), Indirect(5)>>),
   Instruction(<<Immediate(-5), Direct(x)>>)}

Bodies == {<<n>> : n \in Pool} \union {<<m, n>> : m, n \in Pool}

InstructionLists ==
  {<<>>} \union {<<Label(a, m)>> : m \in Bodies}
         \union {<<Label(a, m), Label(b, <<n>>)>> : m \in Bodies, n \in Pool}

GuidanceLists ==
  {<<>>,
   <<Label(d, <<Numbers(2), Text(5)>>), Label(NoName, <<Numbers(1)>>)>>,
   <<Label(NoName, <<Text(4002)>>), Label(d, <<Text(2)>>)>>,
   <<Label(d, <<Text(9902)>>), Label(NoName, <<Numbers(1)>>)>>,
   <<Label(NoName, <<Text(9902)>>), Label(d, <<Numbers(1)>>)>>}

EntryLists == {<<>>, <<a, a>>, <<d, b, d>>}

MCUnits ==
  {u \in {[labels |-> i \o g, instruction_labels |-> Len(i),
           externals |-> {x}, entries |-> e] :
            i \in InstructionLists, g \in GuidanceLists, e \in EntryLists} :
     IsAnalyzed(u)}
============================================================================
