------------------------------- MODULE Parser -------------------------------
(***************************************************************************)
(* source/parser.c: recursive descent over the token list of the lexer,    *)
(* with recovery at the end of the line.  One action per iteration of a    *)
(* loop; parsing an instruction is one step.  Nodes hold places of tokens, *)
(* as the pointers of headers/nodes.h do.  The tails of the node lists     *)
(* keep their place between iterations, as in the build (no optimization). *)
(***************************************************************************)
EXTENDS Integers, Sequences, FiniteSets, Tokens

CONSTANT TokenLists  \* the lists the lexer can hand over

NULL == 0

ASSUME TokenListsAssumption == \A list \in TokenLists : IsTokenList(list)

VARIABLES
  source,
  tokens,              \* unit->tokens, a place of source, or behind it: NULL
  pc,                  \* the loop that runs
  label, nodes,        \* of the label being parsed
  instruction_label_list, guidance_label_list,
  external_list, entry_list,
  error_list           \* the places errors are reported at

lists == <<instruction_label_list, guidance_label_list, external_list, entry_list>>
vars == <<source, tokens, pc, label, nodes, lists, error_list>>

-----------------------------------------------------------------------------
(* The cursor *)

Type(k) == IF k <= Len(source) THEN source[k].type ELSE "none"

EndsLine(k) == Type(k) \in {"eol", "eoft", "none"}

LineEnd(k) == CHOOSE e \in k .. Len(source) + 1 :
                /\ EndsLine(e) /\ \A j \in k .. e - 1 : ~EndsLine(j)

\* Mutant: past whatever ends the line.
BehindLine(k) == LineEnd(k) + 1
\* Mutant: on to the next token.
NextToken(k) == IF Type(k) \in {"eoft", "none"} THEN k ELSE k + 1

\* parser_move_to_end_of_line: past an EOL, not past EOF.
EndOfLine(k) == IF Type(LineEnd(k)) = "eol" THEN LineEnd(k) + 1 ELSE LineEnd(k)

\* NULL has a default token reported.
Error(k) ==
  /\ error_list' = Append(error_list, k)
  /\ tokens' = EndOfLine(k)

Continue(k) ==
  /\ tokens' = k
  /\ UNCHANGED error_list

\* Mutant: the tail left at the first node.
LinkSecond(list, node) == IF list = <<>> THEN <<node>> ELSE <<list[1], node>>

Link(list, node) == Append(list, node)

\* A directive, one token of a type, and the end of the line.
OneToken(type) ==
  \/ Type(tokens + 1) # type /\ Error(tokens + 1)
  \/ Type(tokens + 1) = type /\ ~EndsLine(tokens + 2) /\ Error(tokens + 2)
  \/ Type(tokens + 1) = type /\ EndsLine(tokens + 2) /\ Continue(EndOfLine(tokens + 2))

TokenOf(type) == IF Type(tokens + 1) = type THEN tokens + 1 ELSE NULL

-----------------------------------------------------------------------------
(* Instructions *)

Operands == {"register", "identifier"}

OperandAt(k) == IF Type(k) \in {"hashtag", "star"} THEN k + 1 ELSE k

IsOperand(k) ==
  \/ Type(k) = "hashtag" /\ Type(k + 1) = "number"
  \/ Type(k) # "hashtag" /\ Type(OperandAt(k)) \in Operands

\* At NULL there is an error that is not reported.
OperandError(k) ==
  \/ Type(k) = "none" /\ Continue(k)
  \/ Type(k) = "star" /\ Type(k + 1) # "none" /\ Error(k + 1)
  \/ Type(k) # "none" /\ ~(Type(k) = "star" /\ Type(k + 1) # "none") /\ Error(k)

OperandNode(k) == [at |-> OperandAt(k), is_dereferenced |-> Type(k) = "star"]

Node(kind, at, operands) ==
  [kind |-> kind, at |-> at, operands |-> operands, numbers |-> <<>>]

AddInstruction(operands) ==
  nodes' = Link(nodes, Node("instruction", tokens, [k \in 1 .. Len(operands) |->
                                                      OperandNode(operands[k])]))

\* parser_parse_instruction, which leaves the end of its line to the loop.
ParseInstruction ==
  /\ pc = "instructions" /\ Type(tokens) \in Operation
  /\ LET first == tokens + 1
         comma == OperandAt(first) + 1
         second == comma + 1
         last == OperandAt(second) + 1
     IN
     \/ /\ EndsLine(first)
        /\ Continue(first) /\ AddInstruction(<<>>)
     \/ /\ ~EndsLine(first) /\ ~IsOperand(first)
        /\ OperandError(first) /\ AddInstruction(<<>>)
     \/ /\ ~EndsLine(first) /\ IsOperand(first)
        /\ \/ /\ EndsLine(comma)
              /\ Continue(comma) /\ AddInstruction(<<first>>)
           \/ /\ ~EndsLine(comma) /\ Type(comma) # "comma"
              /\ Error(comma) /\ AddInstruction(<<first>>)
           \/ /\ Type(comma) = "comma" /\ ~IsOperand(second)
              /\ OperandError(second) /\ AddInstruction(<<first>>)
           \/ /\ Type(comma) = "comma" /\ IsOperand(second)
              /\ AddInstruction(<<first, second>>)
              /\ IF EndsLine(last) THEN Continue(last) ELSE Error(last)
  /\ UNCHANGED <<source, pc, label, lists>>

FinishInstructions ==
  /\ pc = "instructions" /\ Type(tokens) \notin Operation \union {"eol"}
  /\ instruction_label_list' =
       Link(instruction_label_list, [label |-> label, nodes |-> nodes])
  /\ pc' = "unit" /\ label' = NULL /\ nodes' = <<>>
  /\ UNCHANGED <<source, tokens, guidance_label_list, external_list, entry_list, error_list>>

-----------------------------------------------------------------------------
(* Guidance *)

ParseString ==
  /\ pc = "guidance" /\ Type(tokens) = "string_ins"
  /\ OneToken("string")
  /\ nodes' = Link(nodes, Node("string", TokenOf("string"), <<>>))
  /\ UNCHANGED <<source, pc, label, lists>>

BeginData ==
  /\ pc = "guidance" /\ Type(tokens) = "data_ins"
  /\ Continue(tokens + 1)
  /\ nodes' = Link(nodes, Node("data", NULL, <<>>))
  /\ pc' = "data"
  /\ UNCHANGED <<source, label, lists>>

\* One iteration of the loop of parse_data_directive_guidance.
ParseNumber ==
  /\ pc = "data" /\ Type(tokens) = "number"
  /\ nodes' = [nodes EXCEPT ![Len(nodes)].numbers = Append(@, tokens)]
  /\ \/ /\ Type(tokens + 1) = "comma"
        /\ Continue(tokens + 2) /\ UNCHANGED pc
     \/ /\ Type(tokens + 1) = "eol"
        /\ Continue(tokens + 2) /\ pc' = "guidance"
     \/ /\ Type(tokens + 1) \in {"eoft", "none"}
        /\ Continue(tokens + 1) /\ UNCHANGED pc
     \/ /\ Type(tokens + 1) \notin {"comma", "eol", "eoft", "none"}
        /\ Error(tokens + 1) /\ pc' = "guidance"
  /\ UNCHANGED <<source, label, lists>>

RejectNumber ==
  /\ pc = "data" /\ Type(tokens) \notin {"number", "eoft", "none"}
  /\ Error(tokens)
  /\ pc' = "guidance"
  /\ UNCHANGED <<source, label, nodes, lists>>

\* A comma may stand before the end of the file.
FinishData ==
  /\ pc = "data" /\ Type(tokens) \in {"eoft", "none"}
  /\ IF nodes[Len(nodes)].numbers = <<>> THEN Error(tokens) ELSE Continue(tokens)
  /\ pc' = "guidance"
  /\ UNCHANGED <<source, label, nodes, lists>>

FinishGuidance ==
  /\ pc = "guidance" /\ Type(tokens) \notin {"data_ins", "string_ins", "eol"}
  /\ guidance_label_list' =
       Link(guidance_label_list, [label |-> label, nodes |-> nodes])
  /\ pc' = "unit" /\ label' = NULL /\ nodes' = <<>>
  /\ UNCHANGED <<source, tokens, instruction_label_list, external_list, entry_list, error_list>>

-----------------------------------------------------------------------------
(* Labels *)

\* Mutant: the colon may stand apart.
ParseLabelLoose ==
  /\ pc = "unit" /\ Type(tokens) = "identifier"
  /\ \/ /\ Type(tokens + 1) # "colon"
        /\ Error(tokens + 1) /\ UNCHANGED <<pc, label>>
     \/ /\ Type(tokens + 1) = "colon"
        /\ Continue(tokens + 2) /\ pc' = "labelled" /\ label' = tokens
  /\ UNCHANGED <<source, nodes, lists>>

\* An error drops the label with its line.
ParseLabel ==
  /\ pc = "unit" /\ Type(tokens) = "identifier"
  /\ \/ /\ Type(tokens + 1) # "colon" \/ source[tokens + 1].apart
        /\ Error(tokens + 1) /\ UNCHANGED <<pc, label>>
     \/ /\ Type(tokens + 1) = "colon" /\ ~source[tokens + 1].apart
        /\ Continue(tokens + 2) /\ pc' = "labelled" /\ label' = tokens
  /\ UNCHANGED <<source, nodes, lists>>

\* Mutant: the error about a missing label forgotten.
BeginInstructionsUnlabelled ==
  /\ pc \in {"unit", "labelled"} /\ Type(tokens) \in Operation
  /\ pc' = "instructions"
  /\ UNCHANGED <<source, tokens, label, nodes, lists, error_list>>

BeginInstructions ==
  /\ pc = "labelled" /\ Type(tokens) \in Operation
  /\ pc' = "instructions"
  /\ UNCHANGED <<source, tokens, label, nodes, lists, error_list>>

\* Guidance needs no label.
BeginGuidance ==
  /\ pc \in {"unit", "labelled"} /\ Type(tokens) \in {"data_ins", "string_ins"}
  /\ pc' = "guidance"
  /\ UNCHANGED <<source, tokens, label, nodes, lists, error_list>>

DropLabel ==
  /\ pc = "labelled"
  /\ Type(tokens) \notin Operation \union {"data_ins", "string_ins", "eol"}
  /\ IF Type(tokens) = "none" THEN Continue(tokens) ELSE Error(tokens)
  /\ pc' = "unit" /\ label' = NULL
  /\ UNCHANGED <<source, nodes, lists>>

-----------------------------------------------------------------------------
(* The unit *)

\* The loops over statements all pass over empty lines.
SkipEmptyLine ==
  /\ pc \in {"unit", "labelled", "instructions", "guidance"} /\ Type(tokens) = "eol"
  /\ Continue(tokens + 1)
  /\ UNCHANGED <<source, pc, label, nodes, lists>>

ParseExternal ==
  /\ pc = "unit" /\ Type(tokens) = "extern_ins"
  /\ OneToken("identifier")
  /\ external_list' = Link(external_list, TokenOf("identifier"))
  /\ UNCHANGED <<source, pc, label, nodes, instruction_label_list, guidance_label_list,
                 entry_list>>

\* At NULL the error is taken from the token there is not.
ParseEntry ==
  /\ pc = "unit" /\ Type(tokens) = "entry_ins"
  /\ \/ /\ Type(tokens + 1) = "none"
        /\ Continue(tokens + 1) /\ pc' = "crashed"
        /\ UNCHANGED entry_list
     \/ /\ Type(tokens + 1) # "none"
        /\ OneToken("identifier") /\ UNCHANGED pc
        /\ entry_list' = Link(entry_list, TokenOf("identifier"))
  /\ UNCHANGED <<source, label, nodes, instruction_label_list, guidance_label_list,
                 external_list>>

\* Mutant: the line not left.
SkipMacroLineHeld ==
  /\ pc = "unit" /\ Type(tokens) \in {"macr", "endmacr"}
  /\ Continue(tokens)
  /\ UNCHANGED <<source, pc, label, nodes, lists>>

\* A line that begins with macr or endmacr is passed over whatever follows.
SkipMacroLine ==
  /\ pc = "unit" /\ Type(tokens) \in {"macr", "endmacr"}
  /\ Continue(EndOfLine(tokens))
  /\ UNCHANGED <<source, pc, label, nodes, lists>>

UnexpectedToken ==
  /\ pc = "unit"
  /\ Type(tokens) \notin Directive
       \union {"identifier", "macr", "endmacr", "eol", "eoft", "none"}
  /\ Error(tokens)
  /\ UNCHANGED <<source, pc, label, nodes, lists>>

FinishUnit ==
  /\ pc = "unit" /\ Type(tokens) \in {"eoft", "none"}
  /\ pc' = "done"
  /\ UNCHANGED <<source, tokens, label, nodes, lists, error_list>>

-----------------------------------------------------------------------------
Init ==
  /\ source \in TokenLists
  /\ tokens = 1 /\ pc = "unit"
  /\ label = NULL /\ nodes = <<>>
  /\ instruction_label_list = <<>> /\ guidance_label_list = <<>>
  /\ external_list = <<>> /\ entry_list = <<>>
  /\ error_list = <<>>

Next ==
  \/ SkipEmptyLine \/ ParseExternal \/ ParseEntry \/ SkipMacroLine \/ UnexpectedToken
  \/ ParseLabel \/ BeginInstructions \/ BeginGuidance \/ DropLabel
  \/ ParseInstruction \/ FinishInstructions
  \/ ParseString \/ BeginData \/ ParseNumber \/ RejectNumber \/ FinishData
  \/ FinishGuidance
  \/ FinishUnit

Spec == Init /\ [][Next]_vars

\* A sequential function: it runs on until it returns.
FairSpec == Spec /\ WF_vars(Next)

-----------------------------------------------------------------------------
(* What the nodes point at *)

Value(k) == source[k].number

OperandTokenAt(o) ==
  [type |-> Type(o.at), is_dereferenced |-> o.is_dereferenced,
   name |-> source[o.at].name, number |-> Value(o.at)]

NodeAt(n) ==
  [kind |-> n.kind,
   operation |-> IF n.kind = "instruction" THEN Type(n.at) ELSE "none",
   operands |-> [k \in 1 .. Len(n.operands) |-> OperandTokenAt(n.operands[k])],
   numbers |-> [k \in 1 .. Len(n.numbers) |-> Value(n.numbers[k])],
   length |-> IF n.kind = "string" THEN Value(n.at) ELSE 0]

LabelAt(l) ==
  [name |-> IF l.label = NULL THEN NoName ELSE source[l.label].name,
   nodes |-> [n \in 1 .. Len(l.nodes) |-> NodeAt(l.nodes[n])]]

Names(list) == [k \in 1 .. Len(list) |-> source[list[k]].name]

Labels == instruction_label_list \o guidance_label_list

\* The translation unit, as SemanticAnalyzer reads it.
Unit ==
  [labels |-> [l \in 1 .. Len(Labels) |-> LabelAt(Labels[l])],
   instruction_labels |-> Len(instruction_label_list),
   externals |-> Names(external_list), entries |-> Names(entry_list)]

Done == pc = "done" /\ error_list = <<>>

Places(types) == {k \in 1 .. Len(source) : Type(k) \in types}
OrNull(S) == S \union {NULL}

NodeType ==
  [kind : {"instruction"}, at : Places(Operation),
   operands : Seq([at : Places({"register", "identifier", "number"}),
                   is_dereferenced : BOOLEAN]), numbers : {<<>>}]
  \union [kind : {"string"}, at : OrNull(Places({"string"})), operands : {<<>>},
          numbers : {<<>>}]
  \union [kind : {"data"}, at : {NULL}, operands : {<<>>},
          numbers : Seq(Places({"number"}))]
LabelType ==
  [label : OrNull(Places({"identifier"})), nodes : Seq(NodeType) \ {<<>>}]

TypeOK ==
  /\ IsTokenList(source)
  /\ tokens \in 1 .. Len(source) + 1
  /\ pc \in {"unit", "labelled", "instructions", "guidance", "data", "done", "crashed"}
  /\ label \in OrNull(Places({"identifier"}))
  /\ nodes \in Seq(NodeType)
  /\ pc = "data" => nodes # <<>>
  /\ instruction_label_list \in Seq(LabelType)
  /\ guidance_label_list \in Seq(LabelType)
  /\ external_list \in Seq(OrNull(Places({"identifier"})))
  /\ entry_list \in Seq(OrNull(Places({"identifier"})))
  /\ error_list \in Seq(1 .. Len(source) + 1)
  /\ pc # "crashed"
  /\ Type(Len(source)) = "eoft" => tokens <= Len(source)

\* A unit without errors is one that semantic analysis is written for.
HandsOverParsed == Done => IsParsed(Unit)

\* Recovery leaves the line: errors are reported in the order of the source, and
\* at most one for a line.
OneErrorPerLine ==
  \A a, b \in 1 .. Len(error_list) :
    a < b => \E k \in error_list[a] .. error_list[b] - 1 : Type(k) = "eol"

-----------------------------------------------------------------------------
(* The language, line by line *)

Starts == {s \in 1 .. Len(source) : s = 1 \/ Type(s - 1) = "eol"}
Line(s) == [k \in 1 .. LineEnd(s) - s |-> Type(s + k - 1)]
Filled == {s \in Starts : ~EndsLine(s)}

HasLabel(s) ==
  Type(s) = "identifier" /\ Type(s + 1) = "colon" /\ ~source[s + 1].apart
Body(s) == IF HasLabel(s) THEN SubSeq(Line(s), 3, Len(Line(s))) ELSE Line(s)

OperandForms ==
  {<<"register">>, <<"identifier">>, <<"star", "register">>, <<"star", "identifier">>,
   <<"hashtag", "number">>}
InstructionForms ==
  {<<>>} \union OperandForms
    \union {a \o <<"comma">> \o b : a, b \in OperandForms}

IsInstruction(s) ==
  Body(s) # <<>> /\ Body(s)[1] \in Operation /\ Tail(Body(s)) \in InstructionForms
IsData(s) ==
  LET body == Body(s) IN
  /\ Len(body) > 1 /\ body[1] = "data_ins"
  /\ \A k \in 2 .. Len(body) : body[k] = IF k % 2 = 0 THEN "number" ELSE "comma"
  /\ Len(body) % 2 = 0 \/ Type(LineEnd(s)) # "eol"
IsGuidance(s) == IsData(s) \/ Body(s) = <<"string_ins", "string">>
IsDeclaration(s) ==
  Line(s) \in {<<"extern_ins", "identifier">>, <<"entry_ins", "identifier">>}
IsMacroLine(s) == Type(s) \in {"macr", "endmacr"}
Waits(s) == HasLabel(s) /\ Body(s) = <<>>

Previous(s, P(_)) ==
  \E p \in Filled : p < s /\ P(p) /\ \A q \in Filled : q < s => q <= p

\* An instruction follows its label or an instruction, and a label that stands
\* alone has something follow it.
IsLegal(s) ==
  /\ \/ ~HasLabel(s) /\ (IsDeclaration(s) \/ IsMacroLine(s))
     \/ IsInstruction(s)
     \/ IsGuidance(s)
     \/ Waits(s)
  /\ IsInstruction(s) => HasLabel(s) \/ Previous(s, Waits) \/ Previous(s, IsInstruction)
  /\ Previous(s, Waits) => ~HasLabel(s) /\ (IsInstruction(s) \/ IsGuidance(s))
  /\ Waits(s) => \E t \in Filled : t > s

\* The parser finds no error exactly in the programs of the language.
AcceptsLanguage ==
  pc = "done" => (error_list = <<>> <=> \A s \in Filled : IsLegal(s))

-----------------------------------------------------------------------------
(* Statements in place *)

OnMacroLine(k) == \E s \in Starts : IsMacroLine(s) /\ k \in s .. LineEnd(s)
Stated(types) == {k \in Places(types) : ~OnMacroLine(k)}

\* d is the last label before k, or NULL if there is none or one of these tokens
\* comes after it.
StandsUnder(k, d, ends) ==
  LET before == {q \in Filled : HasLabel(q) /\ q < k} IN
  IF d = NULL THEN \A q \in before : \E j \in q .. k - 1 : Type(j) \in ends
  ELSE d \in before /\ (\A q \in before : q <= d) /\ \A j \in d .. k - 1 : Type(j) \notin ends

\* The items of the lists: instructions, strings, and the numbers of .data.
PlacesOf(node) == IF node.kind = "data" THEN node.numbers ELSE <<node.at>>

Item(l, name, n, i, node) ==
  [slot |-> <<l, n, i>>, at |-> PlacesOf(node)[i], label |-> name, operands |-> node.operands]
ItemsOfNode(l, name, n, node) ==
  {Item(l, name, n, i, node) : i \in 1 .. Len(PlacesOf(node))}
ItemsOfLabel(l, name, list) ==
  UNION {ItemsOfNode(l, name, n, list[n]) : n \in 1 .. Len(list)}
Items(list) ==
  UNION {ItemsOfLabel(l, list[l].label, list[l].nodes) : l \in 1 .. Len(list)}

Precedes(a, b) ==
  \/ a[1] < b[1]
  \/ a[1] = b[1] /\ a[2] < b[2]
  \/ a[1] = b[1] /\ a[2] = b[2] /\ a[3] < b[3]

\* Each of the places once, in order, under the label it stands under.
Placed(items, places, ends) ==
  /\ \A k \in places : \E x \in items : x.at = k
  /\ \A x \in items : x.at \in places /\ StandsUnder(x.at, x.label, ends)
  /\ \A x, y \in items : Precedes(x.slot, y.slot) => x.at < y.at

\* The operands of the operation at k.
OperandsPlaced(k, operands) ==
  LET places == {j \in k .. LineEnd(k) : Type(j) \in Operands \union {"number"}} IN
  /\ \A j \in places : \E o \in 1 .. Len(operands) : operands[o].at = j
  /\ \A o \in 1 .. Len(operands) :
       /\ operands[o].at \in places
       /\ operands[o].is_dereferenced <=> Type(operands[o].at - 1) = "star"
       /\ \A p \in 1 .. o - 1 : operands[p].at < operands[o].at

InstructionsStated == Stated(Operation)
GuidanceStated == {k \in Stated({"string", "number"}) : k = 1 \/ Type(k - 1) # "hashtag"}
GuidanceEnds == Operation \union {"extern_ins", "entry_ins", "macr", "endmacr"}

\* Every instruction, with its operands, every string and every number of the
\* source is in the unit once, in order, under the label it stands under.
StatementsInPlace ==
  Done => /\ Placed(Items(instruction_label_list), InstructionsStated, {})
          /\ Placed(Items(guidance_label_list), GuidanceStated, GuidanceEnds)
          /\ \A x \in Items(instruction_label_list) : OperandsPlaced(x.at, x.operands)

\* The loops come to an end.
Terminates == <>(pc = "done")
=============================================================================
