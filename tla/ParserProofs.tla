---------------------------- MODULE ParserProofs ----------------------------
(***************************************************************************)
(* For every token list of the lexer: the cursor stays in the list, one    *)
(* error is reported for a line, a unit without errors is one that         *)
(* semantic analysis is written for, the lists without errors are those of *)
(* the language, and such a list has each of its statements in the unit,   *)
(* in its place.                                                           *)
(***************************************************************************)
EXTENDS Parser, SequenceTheorems, WellFoundedInduction, TLAPS

-----------------------------------------------------------------------------
(* The invariant *)

Ending == {"eoft", "none"}

Kinds(list, kinds) == \A k \in 1 .. Len(list) : list[k].kind \in kinds

\* A node without its string token has an error.
Formed(node) ==
  Len(node.operands) <= 2 /\ (node.kind = "string" /\ error_list = <<>> => node.at # NULL)

AllFormed(list) == \A k \in 1 .. Len(list) : Formed(list[k])

\* What the loop that runs has built so far, and why it will not end with nothing.
NodesInv ==
  /\ pc \in {"unit", "labelled"} => nodes = <<>>
  /\ pc \in {"labelled", "instructions"} => label # NULL
  /\ pc = "instructions" =>
       Kinds(nodes, {"instruction"}) /\ (nodes # <<>> \/ Type(tokens) \in Operation)
  /\ pc = "guidance" =>
       nodes # <<>> \/ Type(tokens) \in {"data_ins", "string_ins"}
  /\ pc \in {"guidance", "data"} => Kinds(nodes, {"string", "data"})
  /\ pc = "data" => nodes[Len(nodes)].kind = "data"
  /\ AllFormed(nodes)

\* What has been linked to the unit.
ListsInv ==
  /\ \A l \in 1 .. Len(instruction_label_list) :
       /\ instruction_label_list[l].label # NULL
       /\ Kinds(instruction_label_list[l].nodes, {"instruction"})
       /\ AllFormed(instruction_label_list[l].nodes)
  /\ \A l \in 1 .. Len(guidance_label_list) :
       /\ Kinds(guidance_label_list[l].nodes, {"string", "data"})
       /\ AllFormed(guidance_label_list[l].nodes)
  /\ error_list = <<>> =>
       /\ \A k \in 1 .. Len(external_list) : external_list[k] # NULL
       /\ \A k \in 1 .. Len(entry_list) : entry_list[k] # NULL

\* The line of the last error has been left, or there is no line after it and
\* no loop in which its end could be an error again.
Left == \E j \in error_list[Len(error_list)] .. tokens - 1 : Type(j) = "eol"

RecoveryInv ==
  /\ OneErrorPerLine
  /\ error_list # <<>> =>
       Left \/ (Type(tokens) \in Ending /\ pc \notin {"data", "labelled"})

IInv == TypeOK /\ NodesInv /\ ListsInv /\ RecoveryInv

-----------------------------------------------------------------------------
(* Steps *)

\* A set of natural numbers that is not empty has a least one.
LEMMA LeastNumber ==
  ASSUME NEW T, T \subseteq Nat, T # {}
  PROVE  \E x \in T : \A y \in T : x <= y
<1>1. PICK x \in T : \A y \in T : <<y, x>> \notin OpToRel(<, Nat)
  BY WFMin, NatLessThanWellFounded, Zenon
<1>2. \A y \in T : ~(y < x)
  BY <1>1, Zenon DEF OpToRel
<1> QED  BY <1>2

\* The types of the tokens of a list, and that there are none behind it.
LEMMA TypesOfList ==
  ASSUME IsTokenList(source)
  PROVE  /\ Len(source) \in Nat \ {0}
         /\ \A k \in 1 .. Len(source) :
              /\ Type(k) = source[k].type /\ source[k] \in Token
              /\ Type(k) # "none" /\ Type(k) \in TokenType
              /\ Type(k) = "eoft" => k = Len(source)
              /\ Type(k) = "identifier" => source[k].name \in Name
              /\ Type(k) = "string" => source[k].number >= 2
         /\ \A k \in Nat : k > Len(source) => Type(k) = "none"
         /\ Type(Len(source)) \in {"eoft", "endmacr"}
<1>1. source \in Seq(Token) /\ source # <<>> /\ Len(source) \in Nat \ {0}
  BY DEF IsTokenList
<1>2. "none" \notin TokenType
  BY DEF TokenType, Operation, TwoOperands, OneOperand, NoOperand, Directive
<1>3. ASSUME NEW k \in 1 .. Len(source)
      PROVE  /\ Type(k) = source[k].type /\ source[k] \in Token
             /\ Type(k) # "none" /\ Type(k) \in TokenType
             /\ Type(k) = "eoft" => k = Len(source)
             /\ Type(k) = "identifier" => source[k].name \in Name
             /\ Type(k) = "string" => source[k].number >= 2
  <2>1. Type(k) = source[k].type
    BY <1>1 DEF Type
  <2>2. source[k] \in Token
    BY <1>1
  <2>3. source[k].type \in TokenType
    BY <2>2 DEF Token
  <2>4. QED  BY <1>2, <2>1, <2>2, <2>3 DEF IsTokenList
<1>4. \A k \in Nat : k > Len(source) => Type(k) = "none"
  BY <1>1 DEF Type
<1>5. Type(Len(source)) \in {"eoft", "endmacr"}
  BY <1>1, <1>3 DEF IsTokenList
<1>6. QED  BY <1>1, <1>3, <1>4, <1>5

\* Only EOF, or the endmacr that took its place, has no token behind it.
LEMMA TokenFollows ==
  ASSUME IsTokenList(source), NEW k \in Nat \ {0}, Type(k) \notin {"eoft", "endmacr", "none"}
  PROVE  k + 1 \in 1 .. Len(source)
<1>1. k <= Len(source) /\ k # Len(source)
  BY TypesOfList
<1>2. QED  BY <1>1, TypesOfList

\* Where recovery goes: no further than behind the list, and not behind EOF.
InList(k) == k \in 1 .. Len(source) + 1 /\ (Type(Len(source)) = "eoft" => k <= Len(source))

LEMMA LineEnds ==
  ASSUME IsTokenList(source), NEW k, InList(k)
  PROVE  /\ InList(LineEnd(k)) /\ k <= LineEnd(k) /\ EndsLine(LineEnd(k))
         /\ \A j \in k .. LineEnd(k) - 1 : ~EndsLine(j)
<1> DEFINE T == {e \in k .. Len(source) + 1 : EndsLine(e)}
<1>1. k \in Nat \ {0} /\ Len(source) \in Nat /\ k \in 1 .. Len(source) + 1
  BY TypesOfList DEF InList
<1>2. Type(Len(source) + 1) = "none"
  BY <1>1, TypesOfList
<1>3. EndsLine(Len(source) + 1)
  BY <1>2 DEF EndsLine
<1>4. T \subseteq Nat /\ Len(source) + 1 \in T
  BY <1>1, <1>3
<1>5. PICK e \in T : \A y \in T : e <= y
  <2> HIDE DEF T
  <2> QED  BY <1>4, LeastNumber
<1>6. \A j \in k .. e - 1 : ~EndsLine(j)
  BY <1>1, <1>5
<1>7. \E x \in k .. Len(source) + 1 : EndsLine(x) /\ \A j \in k .. x - 1 : ~EndsLine(j)
  BY <1>5, <1>6
<1>8. /\ LineEnd(k) \in k .. Len(source) + 1 /\ EndsLine(LineEnd(k))
      /\ \A j \in k .. LineEnd(k) - 1 : ~EndsLine(j)
  BY <1>7, Zenon DEF LineEnd
<1>9. ASSUME Type(Len(source)) = "eoft" PROVE LineEnd(k) <= Len(source)
  <2>1. k <= Len(source)
    BY <1>9 DEF InList
  <2>2. EndsLine(Len(source))
    BY <1>9 DEF EndsLine
  <2>3. ~(Len(source) \in k .. LineEnd(k) - 1)
    BY <1>8, <2>2
  <2>4. QED  BY <1>1, <1>8, <2>1, <2>3
<1>10. QED  BY <1>1, <1>8, <1>9 DEF InList

LEMMA Behind ==
  ASSUME IsTokenList(source), NEW k \in Nat \ {0}, Type(k) \notin {"eoft", "none"}
  PROVE  InList(k + 1)
<1>1. k <= Len(source) /\ Len(source) \in Nat
  BY TypesOfList
<1>2. Type(Len(source)) = "eoft" => k # Len(source)
  OBVIOUS
<1>3. QED  BY <1>1, <1>2 DEF InList

\* The end of the line: behind an EOL that was passed, or where there is no line
\* any more.
LEMMA LineLeft ==
  ASSUME IsTokenList(source), NEW k, InList(k)
  PROVE  /\ InList(EndOfLine(k)) /\ k <= EndOfLine(k)
         /\ \/ \E j \in k .. EndOfLine(k) - 1 : Type(j) = "eol"
            \/ Type(EndOfLine(k)) \in Ending
<1> DEFINE e == LineEnd(k)
<1>1. InList(e) /\ k <= e /\ EndsLine(e) /\ e \in Nat \ {0} /\ k \in Nat \ {0}
  BY LineEnds, TypesOfList DEF InList
<1>2. CASE Type(e) = "eol"
  <2>1. EndOfLine(k) = e + 1
    BY <1>2 DEF EndOfLine
  <2>2. InList(e + 1)
    BY <1>1, <1>2, Behind
  <2>3. e \in k .. EndOfLine(k) - 1
    BY <1>1, <2>1
  <2>4. QED  BY <1>1, <1>2, <2>1, <2>2, <2>3
<1>3. CASE Type(e) # "eol"
  <2>1. EndOfLine(k) = e
    BY <1>3 DEF EndOfLine
  <2>2. QED  BY <1>1, <1>3, <2>1 DEF EndsLine, Ending
<1>4. QED  BY <1>2, <1>3

-----------------------------------------------------------------------------
(* The cursor and the error list *)

LEMMA CursorTyped ==
  ASSUME IInv
  PROVE  /\ IsTokenList(source) /\ InList(tokens) /\ tokens \in Nat \ {0}
         /\ Len(source) \in Nat \ {0} /\ error_list \in Seq(1 .. Len(source) + 1)
BY TypesOfList DEF IInv, TypeOK, InList

\* Sets of places are the same in every state.
LEMMA SetsKept ==
  ASSUME source' = source
  PROVE  /\ \A k : Type(k)' = Type(k)
         /\ \A types : Places(types)' = Places(types)
         /\ NodeType' = NodeType /\ LabelType' = LabelType
<1>1. \A k : Type(k)' = Type(k)
  BY DEF Type
<1>2. \A types : Places(types)' = Places(types)
  BY <1>1, Zenon DEF Places
<1>3. NodeType' = NodeType
  BY <1>2, Zenon DEF NodeType, OrNull
<1>4. LabelType' = LabelType
  BY <1>2, <1>3, Zenon DEF LabelType, OrNull
<1>5. QED  BY <1>1, <1>2, <1>3, <1>4

\* The cursor moves on without an error.  At the end of the list it does so only
\* to leave a loop.
LEMMA Moved ==
  ASSUME IInv, source' = source, NEW k, InList(k), tokens <= k, Continue(k),
         \/ Type(tokens) \notin Ending \/ pc \in {"data", "labelled"}
         \/ k = tokens /\ pc' \notin {"data", "labelled"}
  PROVE  /\ InList(tokens') /\ error_list' \in Seq(1 .. Len(source) + 1)
         /\ error_list' = error_list /\ tokens' = k /\ RecoveryInv'
<1>1. tokens' = k /\ error_list' = error_list
  BY DEF Continue
<1>2. \A j : Type(j)' = Type(j)
  BY SetsKept
<1>3. OneErrorPerLine'
  BY <1>1, <1>2 DEF OneErrorPerLine, IInv, RecoveryInv
<1>4. ASSUME error_list # <<>>
      PROVE  Left' \/ (Type(tokens)' \in Ending /\ pc' \notin {"data", "labelled"})
  <2>1. CASE Left
    <3>1. PICK j \in error_list[Len(error_list)] .. tokens - 1 : Type(j) = "eol"
      BY <2>1 DEF Left
    <3>2. error_list[Len(error_list)] \in Nat /\ tokens \in Nat /\ k \in Nat
      BY <1>4, CursorTyped DEF InList
    <3>3. j \in error_list[Len(error_list)] .. k - 1
      BY <3>1, <3>2
    <3>4. QED  BY <1>1, <1>2, <3>1, <3>3 DEF Left
  <2>2. CASE ~Left
    <3>1. Type(tokens) \in Ending /\ pc \notin {"data", "labelled"}
      BY <1>4, <2>2 DEF IInv, RecoveryInv
    <3>2. k = tokens /\ pc' \notin {"data", "labelled"}
      BY <3>1
    <3>3. tokens' = tokens
      BY <1>1, <3>2
    <3>4. Type(tokens)' = Type(tokens)
      BY <3>3 DEF Type
    <3>5. QED  BY <3>1, <3>2, <3>4
  <2>3. QED  BY <2>1, <2>2
<1>5. QED  BY <1>1, <1>3, <1>4, CursorTyped DEF RecoveryInv

\* An error is reported on a line that has none yet, and the line is left.
LEMMA Reported ==
  ASSUME IInv, source' = source, NEW k, InList(k), tokens <= k, Error(k),
         Type(tokens) \notin Ending \/ pc \in {"data", "labelled"},
         pc' \notin {"data", "labelled"}
  PROVE  /\ InList(tokens') /\ error_list' \in Seq(1 .. Len(source) + 1)
         /\ error_list' # <<>> /\ RecoveryInv'
<1> DEFINE n == Len(error_list)
<1>1. tokens' = EndOfLine(k) /\ error_list' = Append(error_list, k)
  BY DEF Error
<1>2. /\ error_list \in Seq(1 .. Len(source) + 1) /\ k \in 1 .. Len(source) + 1
      /\ IsTokenList(source) /\ tokens \in Nat /\ Len(source) \in Nat
  BY CursorTyped DEF InList
<1>3. /\ error_list' \in Seq(1 .. Len(source) + 1) /\ n \in Nat
      /\ Len(error_list') = n + 1 /\ error_list'[n + 1] = k
      /\ \A a \in 1 .. n : error_list'[a] = error_list[a] /\ error_list[a] \in 1 .. Len(source) + 1
  BY <1>1, <1>2
<1>4. /\ InList(EndOfLine(k)) /\ k <= EndOfLine(k)
      /\ \/ \E j \in k .. EndOfLine(k) - 1 : Type(j) = "eol"
         \/ Type(EndOfLine(k)) \in Ending
  BY <1>2, LineLeft
<1>5. \A j : Type(j)' = Type(j)
  BY SetsKept
<1>6. OneErrorPerLine'
  <2>1. ASSUME NEW a \in 1 .. n + 1, NEW b \in 1 .. n + 1, a < b
        PROVE  \E j \in error_list'[a] .. error_list'[b] - 1 : Type(j) = "eol"
    <3>1. CASE b <= n
      <4>1. a \in 1 .. n /\ b \in 1 .. n
        BY <1>3, <2>1, <3>1
      <4>2. PICK j \in error_list[a] .. error_list[b] - 1 : Type(j) = "eol"
        BY <2>1, <4>1 DEF IInv, RecoveryInv, OneErrorPerLine
      <4>3. error_list'[a] = error_list[a] /\ error_list'[b] = error_list[b]
        BY <1>3, <4>1
      <4>4. QED  BY <4>2, <4>3
    <3>2. CASE b = n + 1
      <4>1. error_list # <<>> /\ a \in 1 .. n /\ n \in 1 .. n
        BY <1>2, <1>3, <2>1, <3>2
      <4>2. Left
        BY <4>1 DEF IInv, RecoveryInv
      <4>3. PICK j \in error_list[n] .. tokens - 1 : Type(j) = "eol"
        BY <4>2 DEF Left
      <4>4. error_list[n] \in Nat /\ error_list[a] \in Nat
        BY <1>3, <4>1
      <4>5. j \in error_list[n] .. k - 1
        BY <1>2, <4>3, <4>4
      <4>6. CASE a = n
        BY <1>3, <3>2, <4>1, <4>3, <4>5, <4>6
      <4>7. CASE a < n
        <5>1. PICK i \in error_list[a] .. error_list[n] - 1 : Type(i) = "eol"
          BY <1>3, <4>1, <4>7 DEF IInv, RecoveryInv, OneErrorPerLine
        <5>2. i \in error_list[a] .. k - 1
          BY <1>2, <4>3, <4>4, <5>1
        <5>3. QED  BY <1>3, <3>2, <4>1, <5>1, <5>2
      <4>8. QED  BY <4>1, <4>6, <4>7
    <3>3. b <= n \/ b = n + 1
      BY <1>3
    <3>4. QED  BY <3>1, <3>2, <3>3, Zenon
  <2>2. QED  BY <1>3, <1>5, <2>1 DEF OneErrorPerLine
<1>7. Left' \/ Type(tokens)' \in Ending
  <2>1. Type(tokens)' = Type(EndOfLine(k))
    BY <1>1 DEF Type
  <2>2. CASE \E j \in k .. EndOfLine(k) - 1 : Type(j) = "eol"
    BY <1>1, <1>3, <1>5, <2>2 DEF Left
  <2>3. QED  BY <1>4, <2>1, <2>2
<1>8. error_list' # <<>>
  BY <1>1, <1>2
<1>9. QED  BY <1>1, <1>3, <1>4, <1>6, <1>7, <1>8 DEF RecoveryInv

-----------------------------------------------------------------------------
(* The trees *)

LEMMA TreesTyped ==
  ASSUME IInv
  PROVE  /\ pc \in {"unit", "labelled", "instructions", "guidance", "data", "done"}
         /\ label \in OrNull(Places({"identifier"}))
         /\ nodes \in Seq(NodeType) /\ (pc = "data" => nodes # <<>>)
         /\ instruction_label_list \in Seq(LabelType)
         /\ guidance_label_list \in Seq(LabelType)
         /\ external_list \in Seq(OrNull(Places({"identifier"})))
         /\ entry_list \in Seq(OrNull(Places({"identifier"})))
BY DEF IInv, TypeOK

\* What a step must show of its types.
LEMMA TypeKept ==
  ASSUME IInv, source' = source, InList(tokens'), error_list' \in Seq(1 .. Len(source) + 1),
         pc' \in {"unit", "labelled", "instructions", "guidance", "data", "done"},
         label' \in OrNull(Places({"identifier"})),
         nodes' \in Seq(NodeType), pc' = "data" => nodes' # <<>>,
         instruction_label_list' \in Seq(LabelType), guidance_label_list' \in Seq(LabelType),
         external_list' \in Seq(OrNull(Places({"identifier"}))),
         entry_list' \in Seq(OrNull(Places({"identifier"})))
  PROVE  TypeOK'
<1>1. /\ Places({"identifier"})' = Places({"identifier"})
      /\ NodeType' = NodeType /\ LabelType' = LabelType
      /\ Type(Len(source))' = Type(Len(source))
  <2>1. Type(Len(source))' = Type(Len(source))
    BY DEF Type
  <2>2. QED  BY <2>1, SetsKept
<1>2. OrNull(Places({"identifier"}))' = OrNull(Places({"identifier"}))
  BY <1>1 DEF OrNull
<1>3. IsTokenList(source)' /\ Len(source) \in Nat
  BY CursorTyped
<1>4. tokens' \in 1 .. Len(source') + 1 /\ (Type(Len(source))' = "eoft" => tokens' <= Len(source'))
  BY <1>1 DEF InList
<1>5. QED  BY <1>1, <1>2, <1>3, <1>4 DEF TypeOK

\* What is well formed stays so, for errors are not taken back.
LEMMA FormedKept ==
  ASSUME error_list' = <<>> => error_list = <<>>
  PROVE  /\ \A node : Formed(node) => Formed(node)'
         /\ \A list : AllFormed(list) => AllFormed(list)'
<1>1. \A node : Formed(node) => Formed(node)'
  BY DEF Formed
<1>2. QED  BY <1>1 DEF AllFormed

LEMMA ListsKept ==
  ASSUME ListsInv, error_list' = <<>> => error_list = <<>>,
         UNCHANGED <<instruction_label_list, guidance_label_list, external_list, entry_list>>
  PROVE  ListsInv'
<1>1. \A list : AllFormed(list) => AllFormed(list)'
  BY FormedKept
<1>2. QED  BY <1>1 DEF ListsInv, Kinds

-----------------------------------------------------------------------------
(* Steps that build no node *)

\* Statements begin with other tokens than lines end with.
LEMMA Beginnings ==
  /\ \A type \in Operation \union Directive : type \notin {"eol", "eoft", "endmacr", "none"}
  /\ \A type \in Operation :
       type \notin Directive \union {"identifier", "register", "number", "string", "comma",
                                     "hashtag", "star", "colon", "macr"}
BY DEF Operation, TwoOperands, OneOperand, NoOperand, Directive

\* The loop that runs goes on, or finds what it runs for.
LEMMA LoopGoesOn ==
  ASSUME IInv, UNCHANGED <<source, pc, label, nodes, lists>>,
         pc \in {"unit", "labelled"} \/ (pc \in {"instructions", "guidance"} /\ nodes # <<>>),
         InList(tokens'), error_list' \in Seq(1 .. Len(source) + 1), RecoveryInv',
         error_list' = <<>> => error_list = <<>>
  PROVE  IInv'
<1>1. TypeOK'
  BY TypeKept, TreesTyped DEF lists
<1>2. NodesInv'
  <2>1. AllFormed(nodes)'
    BY FormedKept DEF IInv, NodesInv, AllFormed
  <2>2. QED  BY <2>1 DEF IInv, NodesInv, Kinds
<1>3. ListsInv'
  BY ListsKept DEF IInv, lists
<1>4. QED  BY <1>1, <1>2, <1>3 DEF IInv

LEMMA StepOfEmptyLine ==
  ASSUME IInv, SkipEmptyLine
  PROVE  IInv'
<1>1. /\ pc \in {"unit", "labelled", "instructions", "guidance"} /\ Type(tokens) = "eol"
      /\ Continue(tokens + 1) /\ UNCHANGED <<source, pc, label, nodes, lists>>
  BY DEF SkipEmptyLine
<1>2. InList(tokens + 1) /\ tokens <= tokens + 1
  BY <1>1, CursorTyped, Behind
<1>3. Type(tokens) \notin Ending
  BY <1>1 DEF Ending
<1>4. /\ InList(tokens') /\ error_list' \in Seq(1 .. Len(source) + 1)
      /\ error_list' = error_list /\ RecoveryInv'
  BY <1>1, <1>2, <1>3, Moved
<1>5. pc \in {"unit", "labelled"} \/ (pc \in {"instructions", "guidance"} /\ nodes # <<>>)
  BY <1>1, Beginnings DEF IInv, NodesInv
<1>6. QED  BY <1>1, <1>4, <1>5, LoopGoesOn

LEMMA StepOfMacroLine ==
  ASSUME IInv, SkipMacroLine
  PROVE  IInv'
<1>1. /\ pc = "unit" /\ Type(tokens) \in {"macr", "endmacr"}
      /\ Continue(EndOfLine(tokens)) /\ UNCHANGED <<source, pc, label, nodes, lists>>
  BY DEF SkipMacroLine
<1>2. InList(EndOfLine(tokens)) /\ tokens <= EndOfLine(tokens)
  BY CursorTyped, LineLeft
<1>3. Type(tokens) \notin Ending
  BY <1>1 DEF Ending
<1>4. /\ InList(tokens') /\ error_list' \in Seq(1 .. Len(source) + 1)
      /\ error_list' = error_list /\ RecoveryInv'
  BY <1>1, <1>2, <1>3, Moved
<1>5. QED  BY <1>1, <1>4, LoopGoesOn

LEMMA StepOfUnexpected ==
  ASSUME IInv, UnexpectedToken
  PROVE  IInv'
<1>1. /\ pc = "unit" /\ Type(tokens) \notin {"eol", "eoft", "none"}
      /\ Error(tokens) /\ UNCHANGED <<source, pc, label, nodes, lists>>
  BY DEF UnexpectedToken
<1>2. InList(tokens) /\ tokens <= tokens /\ Type(tokens) \notin Ending
      /\ pc' \notin {"data", "labelled"}
  BY <1>1, CursorTyped DEF Ending
<1>3. /\ InList(tokens') /\ error_list' \in Seq(1 .. Len(source) + 1)
      /\ error_list' # <<>> /\ RecoveryInv'
  BY <1>1, <1>2, Reported
<1>4. QED  BY <1>1, <1>3, LoopGoesOn

\* One token of a type and the end of the line: without an error the token is
\* there.
LEMMA TokenTaken ==
  ASSUME IInv, Type(tokens) \in Directive, NEW type \in {"identifier", "string"},
         OneToken(type), source' = source, pc' \notin {"data", "labelled"}
  PROVE  /\ InList(tokens') /\ error_list' \in Seq(1 .. Len(source) + 1) /\ RecoveryInv'
         /\ error_list' = <<>> => error_list = <<>> /\ TokenOf(type) # NULL
         /\ TokenOf(type) \in OrNull(Places({type}))
<1>1. tokens + 1 \in 1 .. Len(source) /\ Type(tokens) \notin Ending /\ tokens \in Nat \ {0}
  BY CursorTyped, TokenFollows, Beginnings DEF Ending
<1>2. Type(tokens + 1) # "none" /\ InList(tokens + 1) /\ tokens <= tokens + 1
  BY <1>1, CursorTyped, TypesOfList DEF InList
<1>3. TokenOf(type) \in OrNull(Places({type}))
  BY <1>1 DEF TokenOf, OrNull, Places
<1>4. Type(tokens + 1) = type => TokenOf(type) # NULL
  BY <1>1 DEF TokenOf, NULL
<1>5. CASE Type(tokens + 1) # type
  <2>1. Error(tokens + 1)
    BY <1>5 DEF OneToken
  <2>2. QED  BY <1>1, <1>2, <1>3, <2>1, Reported
<1>6. CASE Type(tokens + 1) = type
  <2>1. InList(tokens + 2) /\ tokens <= tokens + 2
    <3>1. InList(tokens + 1 + 1)
      BY <1>1, <1>6, CursorTyped, Behind
    <3>2. QED  BY <1>1, <3>1
  <2>2. InList(EndOfLine(tokens + 2)) /\ tokens + 2 <= EndOfLine(tokens + 2)
    BY <2>1, CursorTyped, LineLeft
  <2>3. tokens <= EndOfLine(tokens + 2)
    BY <1>1, <2>1, <2>2, CursorTyped DEF InList
  <2>4. CASE Error(tokens + 2)
    BY <1>1, <1>3, <1>4, <1>6, <2>1, <2>4, Reported
  <2>5. CASE Continue(EndOfLine(tokens + 2))
    BY <1>1, <1>3, <1>4, <1>6, <2>2, <2>3, <2>5, Moved
  <2>6. QED  BY <1>6, <2>4, <2>5 DEF OneToken
<1>7. QED  BY <1>5, <1>6

LEMMA StepOfExternal ==
  ASSUME IInv, ParseExternal
  PROVE  IInv'
<1>1. /\ pc = "unit" /\ pc' = "unit" /\ Type(tokens) \in Directive /\ OneToken("identifier")
      /\ external_list' = Append(external_list, TokenOf("identifier"))
      /\ UNCHANGED <<source, label, nodes, instruction_label_list, guidance_label_list, entry_list>>
  BY DEF ParseExternal, Link, Directive
<1>2. /\ InList(tokens') /\ error_list' \in Seq(1 .. Len(source) + 1) /\ RecoveryInv'
      /\ error_list' = <<>> => error_list = <<>> /\ TokenOf("identifier") # NULL
      /\ TokenOf("identifier") \in OrNull(Places({"identifier"}))
  BY <1>1, TokenTaken
<1>3. external_list \in Seq(OrNull(Places({"identifier"})))
  BY DEF IInv, TypeOK
<1>4. external_list' \in Seq(OrNull(Places({"identifier"})))
  BY <1>1, <1>2, <1>3
<1>5. TypeOK'
  BY <1>1, <1>2, <1>4, TypeKept, TreesTyped
<1>6. NodesInv'
  <2>1. AllFormed(nodes)'
    BY <1>1, <1>2, FormedKept DEF IInv, NodesInv, AllFormed
  <2>2. QED  BY <1>1, <2>1 DEF IInv, NodesInv
<1>7. ListsInv'
  <2>1. \A list : AllFormed(list) => AllFormed(list)'
    BY <1>2, FormedKept
  <2>2. ASSUME error_list' = <<>>
        PROVE  \A k \in 1 .. Len(external_list') : external_list'[k] # NULL
    BY <1>1, <1>2, <1>3, <2>2 DEF IInv, ListsInv
  <2>3. QED  BY <1>1, <1>2, <2>1, <2>2 DEF IInv, ListsInv, Kinds
<1>8. QED  BY <1>2, <1>5, <1>6, <1>7 DEF IInv

\* An entry directive has a token behind it, for it does not end the list.
LEMMA StepOfEntry ==
  ASSUME IInv, ParseEntry
  PROVE  IInv'
<1>1. Type(tokens + 1) # "none"
  <2>1. Type(tokens) = "entry_ins" /\ tokens + 1 \in 1 .. Len(source)
    BY CursorTyped, TokenFollows DEF ParseEntry
  <2>2. QED  BY <2>1, CursorTyped, TypesOfList
<1>2. /\ pc = "unit" /\ pc' = "unit" /\ Type(tokens) \in Directive /\ OneToken("identifier")
      /\ entry_list' = Append(entry_list, TokenOf("identifier"))
      /\ UNCHANGED <<source, label, nodes, instruction_label_list, guidance_label_list,
                     external_list>>
  BY <1>1 DEF ParseEntry, Link, Directive
<1>3. /\ InList(tokens') /\ error_list' \in Seq(1 .. Len(source) + 1) /\ RecoveryInv'
      /\ error_list' = <<>> => error_list = <<>> /\ TokenOf("identifier") # NULL
      /\ TokenOf("identifier") \in OrNull(Places({"identifier"}))
  BY <1>2, TokenTaken
<1>4. entry_list \in Seq(OrNull(Places({"identifier"})))
  BY DEF IInv, TypeOK
<1>5. entry_list' \in Seq(OrNull(Places({"identifier"})))
  BY <1>2, <1>3, <1>4
<1>6. TypeOK'
  BY <1>2, <1>3, <1>5, TypeKept, TreesTyped
<1>7. NodesInv'
  <2>1. AllFormed(nodes)'
    BY <1>2, <1>3, FormedKept DEF IInv, NodesInv, AllFormed
  <2>2. QED  BY <1>2, <2>1 DEF IInv, NodesInv
<1>8. ListsInv'
  <2>1. \A list : AllFormed(list) => AllFormed(list)'
    BY <1>3, FormedKept
  <2>2. ASSUME error_list' = <<>>
        PROVE  \A k \in 1 .. Len(entry_list') : entry_list'[k] # NULL
    BY <1>2, <1>3, <1>4, <2>2 DEF IInv, ListsInv
  <2>3. QED  BY <1>2, <1>3, <2>1, <2>2 DEF IInv, ListsInv, Kinds
<1>9. QED  BY <1>3, <1>6, <1>7, <1>8 DEF IInv

-----------------------------------------------------------------------------
(* Labels *)

\* An unchanged cursor is one moved to where it is.
LEMMA Standing ==
  ASSUME UNCHANGED <<tokens, error_list>>
  PROVE  Continue(tokens)
BY DEF Continue

\* A loop begun before anything is built.
LEMMA LoopBegun ==
  ASSUME IInv, UNCHANGED <<source, nodes, lists>>, nodes = <<>>,
         pc' \in {"unit", "labelled", "instructions", "guidance", "done"},
         label' \in OrNull(Places({"identifier"})),
         pc' \in {"labelled", "instructions"} => label' # NULL,
         pc' = "instructions" => Type(tokens)' \in Operation,
         pc' = "guidance" => Type(tokens)' \in {"data_ins", "string_ins"},
         InList(tokens'), error_list' \in Seq(1 .. Len(source) + 1), RecoveryInv',
         error_list' = <<>> => error_list = <<>>
  PROVE  IInv'
<1>1. TypeOK'
  BY TypeKept, TreesTyped DEF lists
<1>2. nodes' = <<>> /\ Len(<<>>) = 0
  OBVIOUS
<1>3. AllFormed(nodes)' /\ \A K : Kinds(nodes, K)'
  BY <1>2 DEF AllFormed, Kinds
<1>4. NodesInv'
  BY <1>2, <1>3 DEF NodesInv
<1>5. ListsInv'
  BY ListsKept DEF IInv, lists
<1>6. QED  BY <1>1, <1>4, <1>5 DEF IInv

LEMMA StepOfLabel ==
  ASSUME IInv, ParseLabel
  PROVE  IInv'
<1>1. /\ pc = "unit" /\ Type(tokens) = "identifier" /\ nodes = <<>>
      /\ UNCHANGED <<source, nodes, lists>>
      /\ tokens \in Nat \ {0} /\ tokens + 1 \in 1 .. Len(source)
      /\ Type(tokens) \notin Ending
  BY CursorTyped, TokenFollows DEF ParseLabel, IInv, NodesInv, Ending
<1>2. InList(tokens + 1) /\ tokens <= tokens + 1
  BY <1>1, CursorTyped DEF InList
<1>3. CASE Error(tokens + 1) /\ UNCHANGED <<pc, label>>
  <2>1. /\ InList(tokens') /\ error_list' \in Seq(1 .. Len(source) + 1)
        /\ error_list' # <<>> /\ RecoveryInv'
    BY <1>1, <1>2, <1>3, Reported
  <2>2. QED  BY <1>1, <1>3, <2>1, LoopGoesOn
<1>4. CASE Type(tokens + 1) = "colon" /\ Continue(tokens + 2) /\ pc' = "labelled" /\ label' = tokens
  <2>1. InList(tokens + 2) /\ tokens <= tokens + 2
    <3>1. InList(tokens + 1 + 1)
      BY <1>1, <1>4, CursorTyped, Behind
    <3>2. QED  BY <1>1, <3>1
  <2>2. /\ InList(tokens') /\ error_list' \in Seq(1 .. Len(source) + 1)
        /\ error_list' = error_list /\ RecoveryInv'
    BY <1>1, <1>4, <2>1, Moved
  <2>3. tokens \in Places({"identifier"}) /\ tokens # NULL
    BY <1>1, CursorTyped DEF Places, NULL
  <2>4. QED  BY <1>1, <1>4, <2>2, <2>3, LoopBegun DEF OrNull
<1>5. QED  BY <1>3, <1>4 DEF ParseLabel

LEMMA StepOfBegin ==
  ASSUME IInv, BeginInstructions \/ BeginGuidance
  PROVE  IInv'
<1>1. /\ UNCHANGED <<source, tokens, label, nodes, lists, error_list>>
      /\ \/ pc = "labelled" /\ pc' = "instructions" /\ Type(tokens) \in Operation
         \/ /\ pc \in {"unit", "labelled"} /\ pc' = "guidance"
            /\ Type(tokens) \in {"data_ins", "string_ins"}
  BY DEF BeginInstructions, BeginGuidance
<1>2. nodes = <<>> /\ (pc = "labelled" => label # NULL)
  BY <1>1 DEF IInv, NodesInv
<1>3. InList(tokens) /\ tokens <= tokens /\ Continue(tokens)
  BY <1>1, CursorTyped, Standing
<1>4. /\ InList(tokens') /\ error_list' \in Seq(1 .. Len(source) + 1)
      /\ error_list' = error_list /\ RecoveryInv'
  BY <1>1, <1>3, Moved
<1>5. Type(tokens)' = Type(tokens)
  BY <1>1 DEF Type
<1>6. pc' \in {"instructions", "guidance"} /\ (pc' = "instructions" => pc = "labelled")
      /\ (pc' = "instructions" => Type(tokens)' \in Operation)
      /\ (pc' = "guidance" => Type(tokens)' \in {"data_ins", "string_ins"})
  BY <1>1, <1>5
<1>7. QED  BY <1>1, <1>2, <1>4, <1>6, LoopBegun, TreesTyped

LEMMA StepOfDrop ==
  ASSUME IInv, DropLabel
  PROVE  IInv'
<1>1. /\ pc = "labelled" /\ pc' = "unit" /\ label' = NULL /\ nodes = <<>>
      /\ UNCHANGED <<source, nodes, lists>>
      /\ Continue(tokens) \/ Error(tokens)
  BY DEF DropLabel, IInv, NodesInv
<1>2. InList(tokens) /\ tokens <= tokens
  BY CursorTyped
<1>3. /\ InList(tokens') /\ error_list' \in Seq(1 .. Len(source) + 1) /\ RecoveryInv'
      /\ error_list' = <<>> => error_list = <<>>
  <2>1. CASE Continue(tokens)
    BY <1>1, <1>2, <2>1, Moved
  <2>2. CASE Error(tokens)
    BY <1>1, <1>2, <2>2, Reported
  <2>3. QED  BY <1>1, <2>1, <2>2
<1>4. QED  BY <1>1, <1>3, LoopBegun DEF OrNull

-----------------------------------------------------------------------------
(* Nodes *)

\* A node is added to the label being parsed.
LEMMA NodeAdded ==
  ASSUME IInv, NEW node \in NodeType, nodes' = Append(nodes, node),
         Len(node.operands) <= 2, node.kind = "string" /\ error_list' = <<>> => node.at # NULL,
         error_list' = <<>> => error_list = <<>>
  PROVE  /\ nodes' \in Seq(NodeType) /\ nodes' # <<>> /\ nodes'[Len(nodes')] = node
         /\ AllFormed(nodes)'
         /\ \A K : Kinds(nodes, K) /\ node.kind \in K => Kinds(nodes, K)'
<1>1. nodes \in Seq(NodeType)
  BY TreesTyped
<1>2. /\ nodes' \in Seq(NodeType) /\ nodes' # <<>> /\ nodes'[Len(nodes')] = node
      /\ Len(nodes') = Len(nodes) + 1 /\ Len(nodes) \in Nat
      /\ \A k \in 1 .. Len(nodes) : nodes'[k] = nodes[k]
  BY <1>1
<1>3. \A k \in 1 .. Len(nodes') : k \in 1 .. Len(nodes) \/ nodes'[k] = node
  BY <1>2
<1>4. \A k \in 1 .. Len(nodes) : Formed(nodes[k])'
  BY <1>2, FormedKept DEF IInv, NodesInv, AllFormed
<1>5. AllFormed(nodes)'
  <2>1. ASSUME NEW k \in 1 .. Len(nodes') PROVE Formed(nodes[k])'
    <3>1. CASE k \in 1 .. Len(nodes)
      <4>1. Formed(nodes[k])
        BY <3>1 DEF IInv, NodesInv, AllFormed
      <4>2. QED  BY <1>2, <3>1, <4>1 DEF Formed
    <3>2. CASE nodes'[k] = node
      BY <3>2 DEF Formed
    <3>3. QED  BY <1>3, <3>1, <3>2
  <2>2. QED  BY <2>1 DEF AllFormed
<1>6. \A K : Kinds(nodes, K) /\ node.kind \in K => Kinds(nodes, K)'
  BY <1>2, <1>3 DEF Kinds
<1>7. QED  BY <1>2, <1>5, <1>6

LEMMA LoopHasNodes ==
  ASSUME IInv, UNCHANGED <<source, label, lists>>, pc' \in {"instructions", "guidance", "data"},
         nodes' \in Seq(NodeType), nodes' # <<>>, AllFormed(nodes)',
         pc' = "instructions" => Kinds(nodes, {"instruction"})' /\ label # NULL,
         pc' \in {"guidance", "data"} => Kinds(nodes, {"string", "data"})',
         pc' = "data" => nodes'[Len(nodes')].kind = "data",
         InList(tokens'), error_list' \in Seq(1 .. Len(source) + 1), RecoveryInv',
         error_list' = <<>> => error_list = <<>>
  PROVE  IInv'
<1>1. TypeOK'
  BY TypeKept, TreesTyped DEF lists
<1>2. NodesInv'
  BY DEF NodesInv
<1>3. ListsInv'
  BY ListsKept DEF IInv, lists
<1>4. QED  BY <1>1, <1>2, <1>3 DEF IInv

-----------------------------------------------------------------------------
(* Instructions *)

OperandType ==
  [at : Places({"register", "identifier", "number"}), is_dereferenced : BOOLEAN]

\* An operand is in the list with a token behind it.
LEMMA OperandRead ==
  ASSUME IsTokenList(source), NEW k \in 1 .. Len(source), IsOperand(k)
  PROVE  /\ OperandAt(k) \in Nat /\ k <= OperandAt(k)
         /\ OperandAt(k) + 1 \in 1 .. Len(source)
         /\ OperandNode(k) \in OperandType
<1>1. Type(OperandAt(k)) \in {"register", "identifier", "number"}
  BY DEF IsOperand, OperandAt, Operands
<1>2. OperandAt(k) \in {k, k + 1} /\ k \in Nat \ {0} /\ Len(source) \in Nat
  BY TypesOfList DEF OperandAt
<1>3. OperandAt(k) \in Nat \ {0} /\ k <= OperandAt(k)
  BY <1>2
<1>4. OperandAt(k) + 1 \in 1 .. Len(source)
  BY <1>1, <1>3, TokenFollows
<1>5. OperandAt(k) \in Places({"register", "identifier", "number"})
  BY <1>1, <1>2, <1>3, <1>4 DEF Places
<1>6. (Type(k) = "star") \in BOOLEAN
  OBVIOUS
<1>7. QED  BY <1>3, <1>4, <1>5, <1>6, Zenon DEF OperandNode, OperandType

\* A node for an instruction of no, one or two operands.
LEMMA InstructionNode ==
  ASSUME NEW operands, Type(tokens) \in Operation, tokens \in 1 .. Len(source),
         operands = <<>> \/ (\E k : operands = <<k>> /\ OperandNode(k) \in OperandType)
           \/ (\E k, l : /\ operands = <<k, l>>
                         /\ OperandNode(k) \in OperandType /\ OperandNode(l) \in OperandType)
  PROVE  /\ Node("instruction", tokens, [k \in 1 .. Len(operands) |-> OperandNode(operands[k])])
              \in NodeType
         /\ Len(Node("instruction", tokens,
                     [k \in 1 .. Len(operands) |-> OperandNode(operands[k])]).operands) <= 2
         /\ Node("instruction", tokens,
                 [k \in 1 .. Len(operands) |-> OperandNode(operands[k])]).kind = "instruction"
<1> DEFINE list == [k \in 1 .. Len(operands) |-> OperandNode(operands[k])]
<1>1. list \in Seq(OperandType) /\ Len(list) <= 2
  <2>1. CASE operands = <<>>
    <3>1. list = <<>>
      BY <2>1
    <3> HIDE DEF list
    <3>2. QED  BY <3>1
  <2>2. CASE \E k : operands = <<k>> /\ OperandNode(k) \in OperandType
    <3>1. PICK k : operands = <<k>> /\ OperandNode(k) \in OperandType
      BY <2>2
    <3>2. list = <<OperandNode(k)>>
      BY <3>1
    <3> HIDE DEF list
    <3>3. QED  BY <3>1, <3>2
  <2>3. CASE \E k, l : /\ operands = <<k, l>>
                       /\ OperandNode(k) \in OperandType /\ OperandNode(l) \in OperandType
    <3>1. PICK k, l : /\ operands = <<k, l>>
                      /\ OperandNode(k) \in OperandType /\ OperandNode(l) \in OperandType
      BY <2>3
    <3>2. list = <<OperandNode(k), OperandNode(l)>>
      BY <3>1
    <3> HIDE DEF list
    <3>3. QED  BY <3>1, <3>2
  <2>4. QED  BY <2>1, <2>2, <2>3
<1> HIDE DEF list
<1>2. tokens \in Places(Operation)
  BY DEF Places
<1>3. Node("instruction", tokens, list)
        \in [kind : {"instruction"}, at : Places(Operation), operands : Seq(OperandType),
             numbers : {<<>>}]
  BY <1>1, <1>2 DEF Node
<1>4. Node("instruction", tokens, list) \in NodeType
  BY <1>3, Zenon DEF NodeType, OperandType
<1>5. Node("instruction", tokens, list).kind = "instruction"
      /\ Node("instruction", tokens, list).operands = list
  BY DEF Node
<1>6. QED  BY <1>1, <1>4, <1>5 DEF list

\* What an instruction leaves the cursor and the error list like.
CursorKept ==
  /\ InList(tokens') /\ error_list' \in Seq(1 .. Len(source) + 1) /\ RecoveryInv'
  /\ error_list' = <<>> => error_list = <<>>

LEMMA ReportedIn ==
  ASSUME IInv, UNCHANGED <<source, pc>>, pc = "instructions", Type(tokens) \in Operation,
         NEW k \in 1 .. Len(source), tokens <= k, Error(k)
  PROVE  CursorKept
<1>1. InList(k) /\ Type(tokens) \notin Ending /\ pc' \notin {"data", "labelled"}
  BY CursorTyped, Beginnings DEF InList, Ending
<1>2. QED  BY <1>1, Reported DEF CursorKept

LEMMA MovedIn ==
  ASSUME IInv, UNCHANGED <<source, pc>>, pc = "instructions", Type(tokens) \in Operation,
         NEW k \in 1 .. Len(source), tokens <= k, Continue(k)
  PROVE  CursorKept
<1>1. InList(k) /\ Type(tokens) \notin Ending
  BY CursorTyped, Beginnings DEF InList, Ending
<1>2. QED  BY <1>1, Moved DEF CursorKept

\* A broken operand is an error, for there is a token.
LEMMA OperandBroken ==
  ASSUME IInv, UNCHANGED <<source, pc>>, pc = "instructions", Type(tokens) \in Operation,
         NEW k \in 1 .. Len(source), tokens <= k, OperandError(k)
  PROVE  CursorKept
<1>1. Type(k) # "none" /\ k \in Nat \ {0} /\ tokens \in Nat /\ Len(source) \in Nat
  BY CursorTyped, TypesOfList
<1>2. CASE Type(k) = "star" /\ Type(k + 1) # "none" /\ Error(k + 1)
  <2>1. k + 1 \in 1 .. Len(source)
    BY <1>1, <1>2, CursorTyped, TokenFollows
  <2>2. tokens <= k + 1
    BY <1>1
  <2>3. QED  BY <1>2, <2>1, <2>2, ReportedIn
<1>3. CASE Error(k)
  BY <1>3, ReportedIn
<1>4. QED  BY <1>1, <1>2, <1>3 DEF OperandError

\* Every path through an instruction: where the cursor goes and what node is built.
LEMMA InstructionRead ==
  ASSUME IInv, ParseInstruction
  PROVE  /\ CursorKept
         /\ \E operands :
              /\ nodes' = Append(nodes, Node("instruction", tokens,
                            [k \in 1 .. Len(operands) |-> OperandNode(operands[k])]))
              /\ \/ operands = <<>>
                 \/ \E k : operands = <<k>> /\ OperandNode(k) \in OperandType
                 \/ \E k, l : /\ operands = <<k, l>>
                              /\ OperandNode(k) \in OperandType /\ OperandNode(l) \in OperandType
<1> DEFINE first == tokens + 1
           comma == OperandAt(first) + 1
           second == comma + 1
           last == OperandAt(second) + 1
           Built(operands) ==
             nodes' = Append(nodes, Node("instruction", tokens,
                        [k \in 1 .. Len(operands) |-> OperandNode(operands[k])]))
<1>1. /\ pc = "instructions" /\ Type(tokens) \in Operation
      /\ UNCHANGED <<source, pc, label, lists>>
      /\ tokens \in Nat \ {0} /\ IsTokenList(source) /\ Len(source) \in Nat
  BY CursorTyped DEF ParseInstruction
<1>2. first \in 1 .. Len(source) /\ tokens <= first
  BY <1>1, TokenFollows, Beginnings
<1>3. \/ EndsLine(first) /\ Continue(first) /\ Built(<<>>)
      \/ OperandError(first) /\ Built(<<>>)
      \/ /\ IsOperand(first)
         /\ \/ EndsLine(comma) /\ Continue(comma) /\ Built(<<first>>)
            \/ Error(comma) /\ Built(<<first>>)
            \/ Type(comma) = "comma" /\ OperandError(second) /\ Built(<<first>>)
            \/ /\ Type(comma) = "comma" /\ IsOperand(second) /\ Built(<<first, second>>)
               /\ Continue(last) \/ Error(last)
  BY Zenon DEF ParseInstruction, AddInstruction, Link
<1>4. CASE Continue(first) /\ Built(<<>>)
  BY <1>1, <1>2, <1>4, MovedIn
<1>5. CASE OperandError(first) /\ Built(<<>>)
  BY <1>1, <1>2, <1>5, OperandBroken
<1>6. ASSUME IsOperand(first)
      PROVE  comma \in 1 .. Len(source) /\ tokens <= comma /\ OperandNode(first) \in OperandType
  BY <1>1, <1>2, <1>6, OperandRead
<1>7. ASSUME IsOperand(first), Type(comma) = "comma"
      PROVE  second \in 1 .. Len(source) /\ tokens <= second
  <2>1. comma \in 1 .. Len(source) /\ tokens <= comma
    BY <1>6, <1>7
  <2> HIDE DEF comma
  <2>2. QED  BY <1>1, <1>7, <2>1, TokenFollows
<1>8. CASE IsOperand(first) /\ (Continue(comma) \/ Error(comma)) /\ Built(<<first>>)
  <2>1. comma \in 1 .. Len(source) /\ tokens <= comma /\ OperandNode(first) \in OperandType
    BY <1>6, <1>8
  <2> HIDE DEF comma, first
  <2>2. CursorKept
    BY <1>1, <1>8, <2>1, MovedIn, ReportedIn
  <2>3. QED  BY <1>8, <2>1, <2>2
<1>9. CASE IsOperand(first) /\ Type(comma) = "comma" /\ OperandError(second) /\ Built(<<first>>)
  <2>1. second \in 1 .. Len(source) /\ tokens <= second /\ OperandNode(first) \in OperandType
    BY <1>6, <1>7, <1>9
  <2> HIDE DEF second, first
  <2>2. CursorKept
    BY <1>1, <1>9, <2>1, OperandBroken
  <2>3. QED  BY <1>9, <2>1, <2>2
<1>10. CASE /\ IsOperand(first) /\ Type(comma) = "comma" /\ IsOperand(second)
            /\ Built(<<first, second>>) /\ (Continue(last) \/ Error(last))
  <2>1. second \in 1 .. Len(source) /\ tokens <= second /\ OperandNode(first) \in OperandType
    BY <1>6, <1>7, <1>10
  <2>2. last \in 1 .. Len(source) /\ second <= last /\ OperandNode(second) \in OperandType
    <3> HIDE DEF second
    <3>1. QED  BY <1>1, <1>10, <2>1, OperandRead
  <2>3. tokens <= last
    <3> HIDE DEF second, last
    <3>1. QED  BY <1>1, <2>1, <2>2
  <2> HIDE DEF second, first, last
  <2>4. CursorKept
    BY <1>1, <1>10, <2>2, <2>3, MovedIn, ReportedIn
  <2>5. QED  BY <1>10, <2>1, <2>2, <2>4
<1>11. \/ Continue(first) /\ Built(<<>>)
       \/ OperandError(first) /\ Built(<<>>)
       \/ IsOperand(first) /\ (Continue(comma) \/ Error(comma)) /\ Built(<<first>>)
       \/ IsOperand(first) /\ Type(comma) = "comma" /\ OperandError(second) /\ Built(<<first>>)
       \/ /\ IsOperand(first) /\ Type(comma) = "comma" /\ IsOperand(second)
          /\ Built(<<first, second>>) /\ (Continue(last) \/ Error(last))
  <2> HIDE DEF first, comma, second, last, Built
  <2> QED  BY <1>3, Zenon
<1>12. QED  BY <1>4, <1>5, <1>8, <1>9, <1>10, <1>11, Zenon

LEMMA StepOfInstruction ==
  ASSUME IInv, ParseInstruction
  PROVE  IInv'
<1>1. /\ pc = "instructions" /\ Type(tokens) \in Operation /\ pc' = pc
      /\ UNCHANGED <<source, label, lists>>
      /\ Kinds(nodes, {"instruction"}) /\ label # NULL
  BY DEF ParseInstruction, IInv, NodesInv
<1>2. CursorKept
  BY InstructionRead
<1>3. PICK operands :
        /\ nodes' = Append(nodes, Node("instruction", tokens,
                      [k \in 1 .. Len(operands) |-> OperandNode(operands[k])]))
        /\ \/ operands = <<>>
           \/ \E k : operands = <<k>> /\ OperandNode(k) \in OperandType
           \/ \E k, l : /\ operands = <<k, l>>
                        /\ OperandNode(k) \in OperandType /\ OperandNode(l) \in OperandType
  BY InstructionRead
<1> DEFINE node == Node("instruction", tokens,
                        [k \in 1 .. Len(operands) |-> OperandNode(operands[k])])
<1>4. tokens \in 1 .. Len(source)
  BY <1>1, CursorTyped, TypesOfList, Beginnings
<1>5. node \in NodeType /\ Len(node.operands) <= 2 /\ node.kind = "instruction"
  BY <1>1, <1>3, <1>4, InstructionNode
<1>6. nodes' = Append(nodes, node)
  BY <1>3
<1>7. /\ nodes' \in Seq(NodeType) /\ nodes' # <<>> /\ AllFormed(nodes)'
      /\ Kinds(nodes, {"instruction"})'
  <2> HIDE DEF node
  <2>1. QED  BY <1>1, <1>2, <1>5, <1>6, NodeAdded DEF CursorKept
<1>8. /\ pc' = "instructions" /\ InList(tokens')
      /\ error_list' \in Seq(1 .. Len(source) + 1) /\ RecoveryInv'
      /\ error_list' = <<>> => error_list = <<>>
  BY <1>1, <1>2 DEF CursorKept
<1> HIDE DEF node
<1>9. QED  BY <1>1, <1>7, <1>8, LoopHasNodes

-----------------------------------------------------------------------------
(* Guidance *)

LEMMA StepOfString ==
  ASSUME IInv, ParseString
  PROVE  IInv'
<1>1. /\ pc = "guidance" /\ pc' = "guidance" /\ Type(tokens) \in Directive /\ OneToken("string")
      /\ UNCHANGED <<source, label, lists>> /\ Kinds(nodes, {"string", "data"})
      /\ nodes' = Append(nodes, Node("string", TokenOf("string"), <<>>))
  BY DEF ParseString, Link, Directive, IInv, NodesInv
<1>2. /\ InList(tokens') /\ error_list' \in Seq(1 .. Len(source) + 1) /\ RecoveryInv'
      /\ error_list' = <<>> => error_list = <<>> /\ TokenOf("string") # NULL
      /\ TokenOf("string") \in OrNull(Places({"string"}))
  BY <1>1, TokenTaken
<1> DEFINE node == Node("string", TokenOf("string"), <<>>)
<1>3. /\ node.kind = "string" /\ node.at = TokenOf("string") /\ Len(node.operands) <= 2
      /\ node \in [kind : {"string"}, at : OrNull(Places({"string"})), operands : {<<>>},
                   numbers : {<<>>}]
  BY <1>2 DEF Node
<1> HIDE DEF node
<1>4. node \in NodeType
  BY <1>3, Zenon DEF NodeType
<1>5. nodes' = Append(nodes, node)
  BY <1>1 DEF node
<1>6. /\ nodes' \in Seq(NodeType) /\ nodes' # <<>> /\ AllFormed(nodes)'
      /\ Kinds(nodes, {"string", "data"})'
  BY <1>1, <1>2, <1>3, <1>4, <1>5, NodeAdded
<1>7. QED  BY <1>1, <1>2, <1>6, LoopHasNodes

LEMMA StepOfBeginData ==
  ASSUME IInv, BeginData
  PROVE  IInv'
<1>1. /\ pc = "guidance" /\ pc' = "data" /\ Type(tokens) = "data_ins" /\ Continue(tokens + 1)
      /\ UNCHANGED <<source, label, lists>> /\ Kinds(nodes, {"string", "data"})
      /\ nodes' = Append(nodes, Node("data", NULL, <<>>))
  BY DEF BeginData, Link, IInv, NodesInv
<1>2. InList(tokens + 1) /\ tokens <= tokens + 1 /\ Type(tokens) \notin Ending
  BY <1>1, CursorTyped, Behind DEF Ending
<1>3. /\ InList(tokens') /\ error_list' \in Seq(1 .. Len(source) + 1)
      /\ error_list' = error_list /\ RecoveryInv'
  BY <1>1, <1>2, Moved
<1> DEFINE node == Node("data", NULL, <<>>)
<1>4. <<>> \in Seq(Places({"number"}))
  OBVIOUS
<1>5. /\ node.kind = "data" /\ Len(node.operands) <= 2
      /\ node \in [kind : {"data"}, at : {NULL}, operands : {<<>>},
                   numbers : Seq(Places({"number"}))]
  BY <1>4 DEF Node
<1> HIDE DEF node
<1>6. node \in NodeType
  BY <1>5, Zenon DEF NodeType
<1>7. nodes' = Append(nodes, node)
  BY <1>1 DEF node
<1>8. /\ nodes' \in Seq(NodeType) /\ nodes' # <<>> /\ AllFormed(nodes)'
      /\ nodes'[Len(nodes')] = node /\ Kinds(nodes, {"string", "data"})'
  BY <1>1, <1>3, <1>5, <1>6, <1>7, NodeAdded
<1>9. QED  BY <1>1, <1>3, <1>5, <1>8, LoopHasNodes

DataNode ==
  [kind : {"data"}, at : {NULL}, operands : {<<>>}, numbers : Seq(Places({"number"}))]

\* The last node is the one numbers are added to.
LEMMA LastNode ==
  ASSUME IInv, pc = "data"
  PROVE  /\ nodes \in Seq(NodeType) /\ Len(nodes) \in Nat \ {0}
         /\ nodes[Len(nodes)] \in DataNode /\ Kinds(nodes, {"string", "data"})
<1> DEFINE node == nodes[Len(nodes)]
<1>1. /\ nodes \in Seq(NodeType) /\ Len(nodes) \in Nat \ {0} /\ node \in NodeType
      /\ node.kind = "data" /\ Kinds(nodes, {"string", "data"})
  BY TreesTyped DEF IInv, NodesInv
<1> HIDE DEF node
<1>2. node.kind \notin {"instruction", "string"}
  BY <1>1
<1>3. /\ \A m \in [kind : {"instruction"}, at : Places(Operation), operands : Seq(OperandType),
                  numbers : {<<>>}] : m.kind = "instruction"
      /\ \A m \in [kind : {"string"}, at : OrNull(Places({"string"})), operands : {<<>>},
                  numbers : {<<>>}] : m.kind = "string"
  OBVIOUS
<1>4. node \in DataNode
  BY <1>1, <1>2, <1>3, Zenon DEF NodeType, OperandType, DataNode
<1>5. QED  BY <1>1, <1>4 DEF node

\* A number is added to the last node, which is one of .data.
LEMMA NumberAdded ==
  ASSUME IInv, pc = "data", Type(tokens) = "number",
         nodes' = [nodes EXCEPT ![Len(nodes)].numbers = Append(@, tokens)],
         error_list' = <<>> => error_list = <<>>
  PROVE  /\ nodes' \in Seq(NodeType) /\ nodes' # <<>> /\ nodes'[Len(nodes')].kind = "data"
         /\ nodes'[Len(nodes')].numbers # <<>>
         /\ AllFormed(nodes)' /\ Kinds(nodes, {"string", "data"})'
<1> DEFINE n == Len(nodes)
           node == nodes[n]
           added == [node EXCEPT !.numbers = Append(node.numbers, tokens)]
<1>1. /\ nodes \in Seq(NodeType) /\ n \in Nat \ {0} /\ Kinds(nodes, {"string", "data"})
  BY LastNode
<1>2. node \in DataNode
  BY LastNode
<1>3. tokens \in Places({"number"})
  BY CursorTyped, TypesOfList DEF Places
<1>4. added \in DataNode /\ added.kind = "data" /\ added.operands = <<>> /\ added.numbers # <<>>
  <2>1. node.numbers \in Seq(Places({"number"}))
    BY <1>2 DEF DataNode
  <2>2. /\ Append(node.numbers, tokens) \in Seq(Places({"number"}))
        /\ Append(node.numbers, tokens) # <<>>
    BY <1>3, <2>1
  <2> HIDE DEF node
  <2>3. QED  BY <1>2, <2>2 DEF DataNode
<1>5. nodes' = [nodes EXCEPT ![n] = added]
  OBVIOUS
<1>6. added \in NodeType
  BY <1>4, Zenon DEF NodeType, DataNode
<1> HIDE DEF added, node
<1>7. /\ nodes' \in Seq(NodeType) /\ Len(nodes') = n /\ nodes' # <<>> /\ nodes'[n] = added
      /\ \A k \in 1 .. n : nodes'[k] = IF k = n THEN added ELSE nodes[k]
  <2>1. n \in 1 .. Len(nodes)
    BY <1>1
  <2>2. /\ nodes' \in Seq(NodeType) /\ Len(nodes') = n
        /\ \A k \in 1 .. n : nodes'[k] = IF k = n THEN added ELSE nodes[k]
    <3>1. nodes \in Seq(NodeType) /\ Len(nodes) = n /\ added \in NodeType /\ n \in 1 .. Len(nodes)
      BY <1>1, <1>6, <2>1
    <3> DEFINE next == [nodes EXCEPT ![n] = added]
    <3> HIDE DEF n
    <3>2. /\ next \in Seq(NodeType) /\ Len(next) = Len(nodes)
          /\ \A k \in 1 .. Len(nodes) : next[k] = IF k = n THEN added ELSE nodes[k]
      BY <3>1, ExceptSeq
    <3>3. nodes' = next
      BY <1>5
    <3> HIDE DEF next
    <3>4. QED  BY <3>1, <3>2, <3>3
  <2> HIDE DEF n
  <2>3. nodes' # <<>> /\ n \in 1 .. n
    BY <1>1, <2>2
  <2>4. QED  BY <2>2, <2>3
<1>8. Len(added.operands) <= 2
  BY <1>4
<1>9. AllFormed(nodes)'
  <2>1. ASSUME NEW k \in 1 .. n PROVE Formed(nodes[k])'
    <3>1. CASE k = n
      <4>1. nodes'[k] = added
        BY <1>7, <3>1
      <4>2. QED  BY <1>4, <1>8, <4>1 DEF Formed
    <3>2. CASE k # n
      <4>1. Formed(nodes[k]) /\ nodes'[k] = nodes[k]
        BY <1>7, <3>2 DEF IInv, NodesInv, AllFormed
      <4>2. QED  BY <4>1 DEF Formed
    <3>3. QED  BY <3>1, <3>2
  <2>2. QED  BY <1>7, <2>1 DEF AllFormed
<1>10. Kinds(nodes, {"string", "data"})'
  BY <1>1, <1>4, <1>7 DEF Kinds
<1>11. QED  BY <1>4, <1>7, <1>9, <1>10

LEMMA StepOfNumber ==
  ASSUME IInv, ParseNumber
  PROVE  IInv'
<1>1. /\ pc = "data" /\ Type(tokens) = "number" /\ Type(tokens) \notin Ending
      /\ UNCHANGED <<source, label, lists>> /\ tokens \in Nat \ {0}
      /\ nodes' = [nodes EXCEPT ![Len(nodes)].numbers = Append(@, tokens)]
  BY CursorTyped DEF ParseNumber, Ending
<1>2. tokens + 1 \in 1 .. Len(source) /\ InList(tokens + 1) /\ tokens <= tokens + 1
  BY <1>1, CursorTyped, TokenFollows DEF InList
<1>3. ASSUME Type(tokens + 1) \in {"comma", "eol"}
      PROVE  InList(tokens + 2) /\ tokens <= tokens + 2
  <2>1. InList(tokens + 1 + 1)
    BY <1>1, <1>3, CursorTyped, Behind
  <2>2. QED  BY <1>1, <2>1
<1>4. /\ InList(tokens') /\ error_list' \in Seq(1 .. Len(source) + 1) /\ RecoveryInv'
      /\ error_list' = <<>> => error_list = <<>>
      /\ pc' \in {"guidance", "data"}
  <2>1. CASE Type(tokens + 1) = "comma" /\ Continue(tokens + 2) /\ pc' = pc
    BY <1>1, <1>3, <2>1, Moved
  <2>2. CASE Type(tokens + 1) = "eol" /\ Continue(tokens + 2) /\ pc' = "guidance"
    BY <1>1, <1>3, <2>2, Moved
  <2>3. CASE Continue(tokens + 1) /\ pc' = pc
    BY <1>1, <1>2, <2>3, Moved
  <2>4. CASE Error(tokens + 1) /\ pc' = "guidance"
    BY <1>1, <1>2, <2>4, Reported
  <2>5. QED  BY <2>1, <2>2, <2>3, <2>4 DEF ParseNumber
<1>5. /\ nodes' \in Seq(NodeType) /\ nodes' # <<>> /\ nodes'[Len(nodes')].kind = "data"
      /\ AllFormed(nodes)' /\ Kinds(nodes, {"string", "data"})'
  BY <1>1, <1>4, NumberAdded
<1>6. QED  BY <1>1, <1>4, <1>5, LoopHasNodes

\* The two ways .data ends other than with its line.
LEMMA StepOfDataEnd ==
  ASSUME IInv, RejectNumber \/ FinishData
  PROVE  IInv'
<1>1. /\ pc = "data" /\ pc' = "guidance" /\ UNCHANGED <<source, label, nodes, lists>>
      /\ Continue(tokens) \/ Error(tokens)
  BY DEF RejectNumber, FinishData
<1>2. InList(tokens) /\ tokens <= tokens
  BY CursorTyped
<1>3. /\ InList(tokens') /\ error_list' \in Seq(1 .. Len(source) + 1) /\ RecoveryInv'
      /\ error_list' = <<>> => error_list = <<>>
  <2>1. CASE Continue(tokens)
    BY <1>1, <1>2, <2>1, Moved
  <2>2. CASE Error(tokens)
    BY <1>1, <1>2, <2>2, Reported
  <2>3. QED  BY <1>1, <2>1, <2>2
<1>4. /\ nodes' \in Seq(NodeType) /\ nodes' # <<>> /\ Kinds(nodes, {"string", "data"})'
  BY <1>1, TreesTyped DEF IInv, NodesInv, Kinds
<1>5. AllFormed(nodes)'
  BY <1>1, <1>3, FormedKept DEF IInv, NodesInv, AllFormed
<1>6. QED  BY <1>1, <1>3, <1>4, <1>5, LoopHasNodes

-----------------------------------------------------------------------------
(* The ends of the loops *)

LEMMA LabelLinked ==
  ASSUME IInv, pc \in {"instructions", "guidance"}, nodes # <<>>, pc' = "unit",
         label' = NULL, nodes' = <<>>, UNCHANGED <<source, tokens, error_list>>,
         external_list' = external_list, entry_list' = entry_list,
         instruction_label_list' \in Seq(LabelType), guidance_label_list' \in Seq(LabelType),
         ListsInv'
  PROVE  IInv'
<1>1. InList(tokens) /\ tokens <= tokens /\ Continue(tokens)
  BY CursorTyped, Standing
<1>2. InList(tokens') /\ error_list' \in Seq(1 .. Len(source) + 1) /\ RecoveryInv'
  BY <1>1, Moved
<1>3. nodes' \in Seq(NodeType) /\ NULL \in OrNull(Places({"identifier"}))
  BY DEF OrNull
<1>4. TypeOK'
  BY <1>2, <1>3, TypeKept, TreesTyped
<1>5. AllFormed(nodes)'
  BY DEF AllFormed
<1>6. NodesInv'
  BY <1>5 DEF NodesInv
<1>7. QED  BY <1>2, <1>4, <1>6 DEF IInv

\* The label with its nodes is one of the unit's.
LEMMA LabelTyped ==
  ASSUME IInv, nodes # <<>>
  PROVE  [label |-> label, nodes |-> nodes] \in LabelType
BY TreesTyped DEF LabelType

LEMMA StepOfInstructionsEnd ==
  ASSUME IInv, FinishInstructions
  PROVE  IInv'
<1> DEFINE item == [label |-> label, nodes |-> nodes]
<1>1. /\ pc = "instructions" /\ pc' = "unit" /\ label' = NULL /\ nodes' = <<>>
      /\ UNCHANGED <<source, tokens, error_list, guidance_label_list, external_list, entry_list>>
      /\ instruction_label_list' = Append(instruction_label_list, item)
      /\ nodes # <<>> /\ label # NULL /\ Kinds(nodes, {"instruction"}) /\ AllFormed(nodes)
  BY DEF FinishInstructions, Link, IInv, NodesInv
<1>2. item \in LabelType /\ item.label = label /\ item.nodes = nodes
  BY <1>1, LabelTyped
<1> HIDE DEF item
<1>3. instruction_label_list \in Seq(LabelType)
  BY TreesTyped
<1>4. /\ instruction_label_list' \in Seq(LabelType)
      /\ \A l \in 1 .. Len(instruction_label_list') :
           \/ /\ l \in 1 .. Len(instruction_label_list)
              /\ instruction_label_list'[l] = instruction_label_list[l]
           \/ instruction_label_list'[l] = item
  BY <1>1, <1>2, <1>3
<1>5. \A list : AllFormed(list) => AllFormed(list)'
  BY <1>1, FormedKept
<1>6. ASSUME NEW l \in 1 .. Len(instruction_label_list'), NEW e, e = instruction_label_list'[l]
      PROVE  e.label # NULL /\ Kinds(e.nodes, {"instruction"}) /\ AllFormed(e.nodes)
  <2>1. CASE e = item
    BY <1>1, <1>2, <2>1
  <2>2. CASE l \in 1 .. Len(instruction_label_list) /\ e = instruction_label_list[l]
    BY <2>2 DEF IInv, ListsInv
  <2>3. QED  BY <1>4, <1>6, <2>1, <2>2
<1>7. ListsInv'
  <2>1. ASSUME NEW l \in 1 .. Len(instruction_label_list')
        PROVE  /\ instruction_label_list'[l].label # NULL
               /\ Kinds(instruction_label_list'[l].nodes, {"instruction"})
               /\ AllFormed(instruction_label_list[l].nodes)'
    <3>1. PICK e : e = instruction_label_list'[l]
      OBVIOUS
    <3>2. e.label # NULL /\ Kinds(e.nodes, {"instruction"}) /\ AllFormed(e.nodes)
      BY <1>6, <3>1
    <3>3. PICK list : list = e.nodes
      OBVIOUS
    <3>4. AllFormed(list)'
      BY <1>5, <3>2, <3>3
    <3>5. QED  BY <3>1, <3>2, <3>3, <3>4 DEF AllFormed
  <2>2. \A l \in 1 .. Len(guidance_label_list) : AllFormed(guidance_label_list[l].nodes)'
    BY <1>1 DEF IInv, ListsInv, AllFormed, Formed
  <2>3. QED  BY <1>1, <2>1, <2>2 DEF IInv, ListsInv, Kinds
<1>8. QED  BY <1>1, <1>4, <1>7, LabelLinked, TreesTyped

LEMMA StepOfGuidanceEnd ==
  ASSUME IInv, FinishGuidance
  PROVE  IInv'
<1> DEFINE item == [label |-> label, nodes |-> nodes]
<1>1. /\ pc = "guidance" /\ pc' = "unit" /\ label' = NULL /\ nodes' = <<>>
      /\ UNCHANGED <<source, tokens, error_list, instruction_label_list, external_list,
                     entry_list>>
      /\ guidance_label_list' = Append(guidance_label_list, item)
      /\ nodes # <<>> /\ Kinds(nodes, {"string", "data"}) /\ AllFormed(nodes)
  BY DEF FinishGuidance, Link, IInv, NodesInv
<1>2. item \in LabelType /\ item.nodes = nodes
  BY <1>1, LabelTyped
<1> HIDE DEF item
<1>3. guidance_label_list \in Seq(LabelType)
  BY TreesTyped
<1>4. /\ guidance_label_list' \in Seq(LabelType)
      /\ \A l \in 1 .. Len(guidance_label_list') :
           \/ /\ l \in 1 .. Len(guidance_label_list)
              /\ guidance_label_list'[l] = guidance_label_list[l]
           \/ guidance_label_list'[l] = item
  BY <1>1, <1>2, <1>3
<1>5. \A list : AllFormed(list) => AllFormed(list)'
  BY <1>1, FormedKept
<1>6. ASSUME NEW l \in 1 .. Len(guidance_label_list'), NEW e, e = guidance_label_list'[l]
      PROVE  Kinds(e.nodes, {"string", "data"}) /\ AllFormed(e.nodes)
  <2>1. CASE e = item
    BY <1>1, <1>2, <2>1
  <2>2. CASE l \in 1 .. Len(guidance_label_list) /\ e = guidance_label_list[l]
    BY <2>2 DEF IInv, ListsInv
  <2>3. QED  BY <1>4, <1>6, <2>1, <2>2
<1>7. ListsInv'
  <2>1. ASSUME NEW l \in 1 .. Len(guidance_label_list')
        PROVE  /\ Kinds(guidance_label_list'[l].nodes, {"string", "data"})
               /\ AllFormed(guidance_label_list[l].nodes)'
    <3>1. PICK e : e = guidance_label_list'[l]
      OBVIOUS
    <3>2. Kinds(e.nodes, {"string", "data"}) /\ AllFormed(e.nodes)
      BY <1>6, <3>1
    <3>3. PICK list : list = e.nodes
      OBVIOUS
    <3>4. AllFormed(list)'
      BY <1>5, <3>2, <3>3
    <3>5. QED  BY <3>1, <3>2, <3>3, <3>4 DEF AllFormed
  <2>2. \A l \in 1 .. Len(instruction_label_list) : AllFormed(instruction_label_list[l].nodes)'
    BY <1>1 DEF IInv, ListsInv, AllFormed, Formed
  <2>3. QED  BY <1>1, <2>1, <2>2 DEF IInv, ListsInv, Kinds
<1>8. QED  BY <1>1, <1>4, <1>7, LabelLinked, TreesTyped

LEMMA StepOfUnitEnd ==
  ASSUME IInv, FinishUnit
  PROVE  IInv'
<1>1. /\ pc = "unit" /\ pc' = "done" /\ nodes = <<>>
      /\ UNCHANGED <<source, tokens, label, nodes, lists, error_list>>
  BY DEF FinishUnit, IInv, NodesInv
<1>2. InList(tokens) /\ tokens <= tokens /\ Continue(tokens)
  BY <1>1, CursorTyped, Standing
<1>3. /\ InList(tokens') /\ error_list' \in Seq(1 .. Len(source) + 1)
      /\ error_list' = error_list /\ RecoveryInv'
  BY <1>1, <1>2, Moved
<1>4. QED  BY <1>1, <1>3, LoopBegun, TreesTyped

-----------------------------------------------------------------------------
(* The invariant is inductive *)

LEMMA InvariantInitially == Init => IInv
<1> SUFFICES ASSUME Init PROVE IInv
  OBVIOUS
<1>1. /\ IsTokenList(source) /\ tokens = 1 /\ pc = "unit" /\ label = NULL /\ nodes = <<>>
      /\ instruction_label_list = <<>> /\ guidance_label_list = <<>>
      /\ external_list = <<>> /\ entry_list = <<>> /\ error_list = <<>>
  BY TokenListsAssumption DEF Init
<1>2. Len(source) \in Nat \ {0}
  BY <1>1, TypesOfList
<1>3. TypeOK
  BY <1>1, <1>2 DEF TypeOK, OrNull
<1>4. NodesInv /\ ListsInv
  BY <1>1 DEF NodesInv, ListsInv, AllFormed
<1>5. RecoveryInv
  BY <1>1 DEF RecoveryInv, OneErrorPerLine
<1>6. QED  BY <1>3, <1>4, <1>5 DEF IInv

LEMMA InvariantKept == IInv /\ [Next]_vars => IInv'
<1> SUFFICES ASSUME IInv, [Next]_vars PROVE IInv'
  OBVIOUS
<1>1. CASE SkipEmptyLine \/ SkipMacroLine \/ UnexpectedToken
  BY <1>1, StepOfEmptyLine, StepOfMacroLine, StepOfUnexpected
<1>2. CASE ParseExternal \/ ParseEntry
  BY <1>2, StepOfExternal, StepOfEntry
<1>3. CASE ParseLabel \/ BeginInstructions \/ BeginGuidance \/ DropLabel
  BY <1>3, StepOfLabel, StepOfBegin, StepOfDrop
<1>4. CASE ParseInstruction \/ FinishInstructions
  BY <1>4, StepOfInstruction, StepOfInstructionsEnd
<1>5. CASE ParseString \/ BeginData \/ ParseNumber
  BY <1>5, StepOfString, StepOfBeginData, StepOfNumber
<1>6. CASE RejectNumber \/ FinishData \/ FinishGuidance \/ FinishUnit
  BY <1>6, StepOfDataEnd, StepOfGuidanceEnd, StepOfUnitEnd
<1>7. CASE UNCHANGED vars
  <2>1. /\ UNCHANGED <<source, tokens, pc, label, nodes, error_list>>
        /\ UNCHANGED <<instruction_label_list, guidance_label_list, external_list, entry_list>>
    BY <1>7 DEF vars, lists
  <2>2. InList(tokens') /\ error_list' \in Seq(1 .. Len(source) + 1)
    BY <2>1, CursorTyped
  <2>3. TypeOK'
    BY <2>1, <2>2, TypeKept, TreesTyped
  <2>4. \A k : Type(k)' = Type(k)
    BY <2>1, SetsKept
  <2>5. Type(tokens)' = Type(tokens) /\ Left' = Left
    BY <2>1 DEF Type, Left
  <2>6. RecoveryInv'
    BY <2>1, <2>4, <2>5 DEF IInv, RecoveryInv, OneErrorPerLine
  <2>7. AllFormed(nodes)'
    BY <2>1 DEF IInv, NodesInv, AllFormed, Formed
  <2>8. NodesInv'
    BY <2>1, <2>5, <2>7 DEF IInv, NodesInv, Kinds
  <2>9. ListsInv'
    BY <2>1, ListsKept DEF IInv
  <2>10. QED  BY <2>3, <2>6, <2>8, <2>9 DEF IInv
<1>8. QED  BY <1>1, <1>2, <1>3, <1>4, <1>5, <1>6, <1>7 DEF Next

-----------------------------------------------------------------------------
(* What is handed over *)

\* A node of a unit without errors, as the analyzer and the generator read it.
LEMMA NodeHandedOver ==
  ASSUME IsTokenList(source), error_list = <<>>, NEW n \in NodeType, Formed(n)
  PROVE  /\ IsParsedNode(NodeAt(n)) /\ IsNode(LoweredNode(NodeAt(n)))
         /\ LoweredNode(NodeAt(n)).kind = n.kind
<1> DEFINE m == NodeAt(n)
           d == LoweredNode(m)
           w == Len(n.operands)
<1>1. \A k \in 1 .. Len(source) : source[k] \in Token /\ Type(k) = source[k].type
  BY TypesOfList
<1>2. /\ n.operands \in Seq(OperandType) /\ n.numbers \in Seq(Places({"number"}))
      /\ n.kind \in {"instruction", "string", "data"}
      /\ n.kind = "instruction" => n.at \in Places(Operation)
      /\ n.kind # "instruction" => n.operands = <<>>
      /\ n.kind = "string" => n.at \in OrNull(Places({"string"}))
  <2>1. <<>> \in Seq(OperandType) /\ <<>> \in Seq(Places({"number"}))
    OBVIOUS
  <2>2. CASE n \in [kind : {"instruction"}, at : Places(Operation), operands : Seq(OperandType),
                    numbers : {<<>>}]
    BY <2>1, <2>2
  <2>3. CASE n \in [kind : {"string"}, at : OrNull(Places({"string"})), operands : {<<>>},
                    numbers : {<<>>}]
    BY <2>1, <2>3
  <2>4. CASE n \in [kind : {"data"}, at : {NULL}, operands : {<<>>},
                    numbers : Seq(Places({"number"}))]
    BY <2>1, <2>4
  <2>5. QED  BY <2>2, <2>3, <2>4, Zenon DEF NodeType, OperandType
<1>3. w \in Nat /\ w <= 2 /\ Len(n.numbers) \in Nat
  BY <1>2 DEF Formed
<1>4. ASSUME NEW k \in 1 .. w
      PROVE  /\ OperandTokenAt(n.operands[k]) \in OperandToken
             /\ OperandTokenAt(n.operands[k]).type = "identifier" =>
                  OperandTokenAt(n.operands[k]).name \in Name
             /\ [mode |-> Mode(OperandTokenAt(n.operands[k])),
                 name |-> OperandTokenAt(n.operands[k]).name,
                 number |-> OperandTokenAt(n.operands[k]).number] \in Operand
  <2> DEFINE o == n.operands[k]
  <2>1. o \in OperandType
    BY <1>2
  <2> HIDE DEF o
  <2>2. /\ o.at \in 1 .. Len(source) /\ Type(o.at) \in {"register", "identifier", "number"}
        /\ o.is_dereferenced \in BOOLEAN
    BY <2>1 DEF OperandType, Places
  <2>3. /\ source[o.at].name \in Name \union {NoName} /\ source[o.at].number \in Int
        /\ Type(o.at) = "identifier" => source[o.at].name \in Name
    BY <1>1, <2>2, TypesOfList DEF Token
  <2>4. OperandTokenAt(o) \in OperandToken
    BY <2>2, <2>3 DEF OperandTokenAt, OperandToken, Value
  <2>5. Mode(OperandTokenAt(o)) \in {IMMEDIATE, DIRECT, INDIRECT_REGISTER, DIRECT_REGISTER}
    BY <2>2 DEF Mode, OperandTokenAt
  <2>6. /\ OperandTokenAt(o).name = source[o.at].name /\ OperandTokenAt(o).type = Type(o.at)
        /\ OperandTokenAt(o).number = source[o.at].number
    BY DEF OperandTokenAt, Value
  <2>7. QED  BY <2>3, <2>4, <2>5, <2>6 DEF Operand, o
<1>5. /\ m.kind = n.kind /\ m.operands = [k \in 1 .. w |-> OperandTokenAt(n.operands[k])]
      /\ m.numbers = [k \in 1 .. Len(n.numbers) |-> Value(n.numbers[k])]
      /\ n.kind = "instruction" => m.operation = Type(n.at)
      /\ m.length = IF n.kind = "string" THEN Value(n.at) ELSE 0
  BY DEF NodeAt
<1> HIDE DEF m, w
<1>6. IsParsedNode(m)
  <2>1. m.operands \in Seq(OperandToken) /\ Len(m.operands) = w
        /\ \A k \in 1 .. w : m.operands[k] = OperandTokenAt(n.operands[k])
    <3>1. \A k \in 1 .. w : OperandTokenAt(n.operands[k]) \in OperandToken
      BY <1>4
    <3> DEFINE list == [k \in 1 .. w |-> OperandTokenAt(n.operands[k])]
    <3>2. list \in Seq(OperandToken) /\ Len(list) = w
          /\ \A k \in 1 .. w : list[k] = OperandTokenAt(n.operands[k])
      BY <1>3, <3>1
    <3>3. m.operands = list
      BY <1>5
    <3> HIDE DEF list
    <3>4. QED  BY <3>2, <3>3
  <2>2. n.kind = "instruction" => m.operation \in Operation
    BY <1>2, <1>5 DEF Places
  <2>3. n.kind # "instruction" => m.operands = <<>>
    <3>1. n.kind # "instruction" => w = 0
      BY <1>2 DEF w
    <3>2. QED  BY <2>1, <3>1
  <2>4. m.numbers \in Seq(Int)
    <3>1. \A k \in 1 .. Len(n.numbers) : Value(n.numbers[k]) \in Int
      <4>1. \A k \in 1 .. Len(n.numbers) : n.numbers[k] \in 1 .. Len(source)
        BY <1>2 DEF Places
      <4>2. QED  BY <1>1, <4>1 DEF Value, Token
    <3>2. QED  BY <1>3, <1>5, <3>1
  <2>5. QED  BY <1>4, <1>5, <2>1, <2>2, <2>3, <2>4 DEF IsParsedNode
<1>7. /\ d.kind = m.kind
      /\ d.length = IF m.kind = "data" THEN Len(m.numbers) ELSE m.length
      /\ d.operands = [k \in 1 .. Len(m.operands) |->
                         [mode |-> Mode(m.operands[k]), name |-> m.operands[k].name,
                          number |-> m.operands[k].number]]
  BY DEF LoweredNode
<1> HIDE DEF d
<1>8. IsNode(d)
  <2>1. Len(m.operands) = w /\ \A k \in 1 .. w : m.operands[k] = OperandTokenAt(n.operands[k])
    BY <1>3, <1>5
  <2>2. d.operands \in Seq(Operand) /\ Len(d.operands) <= 2
    <3>1. \A k \in 1 .. w : [mode |-> Mode(m.operands[k]), name |-> m.operands[k].name,
                             number |-> m.operands[k].number] \in Operand
      BY <1>4, <2>1
    <3>2. QED  BY <1>3, <1>7, <2>1, <3>1
  <2>3. CASE n.kind = "instruction"
    <3>1. d.kind = "instruction" /\ d.length = 0
      BY <1>5, <1>7, <2>3
    <3>2. QED  BY <2>2, <3>1 DEF IsNode
  <2>4. CASE n.kind = "string"
    <3>1. n.at \in Places({"string"})
      BY <1>2, <2>4 DEF Formed, OrNull
    <3>2. Value(n.at) \in Int /\ Value(n.at) >= 2
      BY <1>1, <3>1, TypesOfList DEF Places, Value, Token
    <3>3. d.kind = "string" /\ d.length = Value(n.at)
      BY <1>5, <1>7, <2>4
    <3>4. QED  BY <2>2, <3>2, <3>3 DEF IsNode
  <2>5. CASE n.kind = "data"
    <3>1. d.kind = "data" /\ d.length = Len(m.numbers) /\ Len(m.numbers) = Len(n.numbers)
      BY <1>3, <1>5, <1>7, <2>5
    <3>2. QED  BY <1>3, <2>2, <3>1 DEF IsNode
  <2>6. QED  BY <1>2, <2>3, <2>4, <2>5
<1>9. QED  BY <1>5, <1>6, <1>7, <1>8 DEF m, d

\* A label of the unit: instructions under a name, or guidance.
LEMMA LabelHandedOver ==
  ASSUME IsTokenList(source), error_list = <<>>, NEW l \in LabelType, AllFormed(l.nodes),
         NEW instructions \in BOOLEAN,
         Kinds(l.nodes, IF instructions THEN {"instruction"} ELSE {"string", "data"}),
         instructions => l.label # NULL
  PROVE  LET u == LabelAt(l) IN
         /\ u.name \in Name \union {NoName} /\ (instructions => u.name # NoName)
         /\ DOMAIN u.nodes = 1 .. Len(u.nodes) /\ Len(u.nodes) \in Nat
         /\ \A n \in 1 .. Len(u.nodes) :
              /\ IsParsedNode(u.nodes[n]) /\ IsNode(LoweredNode(u.nodes[n]))
              /\ instructions <=> LoweredNode(u.nodes[n]).kind = "instruction"
<1> DEFINE u == LabelAt(l)
<1>1. l.label \in OrNull(Places({"identifier"})) /\ l.nodes \in Seq(NodeType)
  BY DEF LabelType
<1>2. /\ u.name = IF l.label = NULL THEN NoName ELSE source[l.label].name
      /\ u.nodes = [n \in 1 .. Len(l.nodes) |-> NodeAt(l.nodes[n])]
  BY DEF LabelAt
<1> HIDE DEF u
<1>3. l.label # NULL => source[l.label].name \in Name
  <2>1. ASSUME l.label # NULL PROVE l.label \in 1 .. Len(source) /\ Type(l.label) = "identifier"
    BY <1>1, <2>1 DEF OrNull, Places
  <2>2. QED  BY <2>1, TypesOfList
<1>4. Len(l.nodes) \in Nat /\ Len(u.nodes) = Len(l.nodes) /\ DOMAIN u.nodes = 1 .. Len(u.nodes)
      /\ \A n \in 1 .. Len(u.nodes) : u.nodes[n] = NodeAt(l.nodes[n]) /\ l.nodes[n] \in NodeType
  BY <1>1, <1>2
<1>5. \A n \in 1 .. Len(u.nodes) :
        /\ IsParsedNode(u.nodes[n]) /\ IsNode(LoweredNode(u.nodes[n]))
        /\ LoweredNode(u.nodes[n]).kind = l.nodes[n].kind
  BY <1>4, NodeHandedOver DEF AllFormed
<1>6. ASSUME NEW n \in 1 .. Len(u.nodes)
      PROVE  instructions <=> LoweredNode(u.nodes[n]).kind = "instruction"
  <2>1. l.nodes[n].kind \in IF instructions THEN {"instruction"} ELSE {"string", "data"}
    BY <1>4 DEF Kinds
  <2>2. LoweredNode(u.nodes[n]).kind = l.nodes[n].kind
    BY <1>5
  <2>3. QED  BY <2>1, <2>2
<1>7. u.name \in Name \union {NoName} /\ (instructions => u.name # NoName)
  BY <1>2, <1>3, NameAssumption
<1>8. QED  BY <1>4, <1>5, <1>6, <1>7 DEF u

LEMMA HandedOver == IInv => HandsOverParsed
<1> SUFFICES ASSUME IInv, Done PROVE IsParsed(Unit)
  BY DEF HandsOverParsed
<1> DEFINE i == Len(instruction_label_list)
           g == Len(guidance_label_list)
           u == Unit
           d == Lowered(Unit)
<1>1. error_list = <<>> /\ IsTokenList(source)
  BY CursorTyped DEF Done
<1>2. /\ instruction_label_list \in Seq(LabelType) /\ guidance_label_list \in Seq(LabelType)
      /\ i \in Nat /\ g \in Nat /\ Labels \in Seq(LabelType) /\ Len(Labels) = i + g
      /\ \A l \in 1 .. i : Labels[l] = instruction_label_list[l]
      /\ \A l \in i + 1 .. i + g : Labels[l] = guidance_label_list[l - i]
  BY TreesTyped DEF Labels
<1> HIDE DEF i, g
<1>3. ASSUME NEW l \in 1 .. i + g
      PROVE  LET v == LabelAt(Labels[l]) IN
             /\ v.name \in Name \union {NoName} /\ (l <= i => v.name # NoName)
             /\ DOMAIN v.nodes = 1 .. Len(v.nodes) /\ Len(v.nodes) \in Nat
             /\ \A n \in 1 .. Len(v.nodes) :
                  /\ IsParsedNode(v.nodes[n]) /\ IsNode(LoweredNode(v.nodes[n]))
                  /\ (l <= i) <=> LoweredNode(v.nodes[n]).kind = "instruction"
  <2>1. Labels[l] \in LabelType /\ (l <= i) \in BOOLEAN
    BY <1>2
  <2>2. /\ AllFormed(Labels[l].nodes)
        /\ Kinds(Labels[l].nodes, IF l <= i THEN {"instruction"} ELSE {"string", "data"})
        /\ l <= i => Labels[l].label # NULL
    <3>1. CASE l <= i
      <4>1. l \in 1 .. i
        BY <1>2, <3>1
      <4>2. QED  BY <1>2, <3>1, <4>1 DEF IInv, ListsInv, i
    <3>2. CASE ~(l <= i)
      <4>1. l \in i + 1 .. i + g /\ l - i \in 1 .. g
        BY <1>2, <3>2
      <4>2. QED  BY <1>2, <3>2, <4>1 DEF IInv, ListsInv, g
    <3>3. QED  BY <3>1, <3>2
  <2>3. QED  BY <1>1, <2>1, <2>2, LabelHandedOver
<1>4. /\ external_list \in Seq(OrNull(Places({"identifier"})))
      /\ entry_list \in Seq(OrNull(Places({"identifier"})))
      /\ \A k \in 1 .. Len(external_list) : external_list[k] # NULL
      /\ \A k \in 1 .. Len(entry_list) : entry_list[k] # NULL
  BY <1>1, TreesTyped DEF IInv, ListsInv
<1>5. \A k : k \in OrNull(Places({"identifier"})) /\ k # NULL => source[k].name \in Name
  BY <1>1, TypesOfList DEF OrNull, Places
<1>6. Names(external_list) \in Seq(Name) /\ Names(entry_list) \in Seq(Name)
  BY <1>4, <1>5 DEF Names
<1>7. /\ u.labels = [l \in 1 .. Len(Labels) |-> LabelAt(Labels[l])]
      /\ u.instruction_labels = i
      /\ u.externals = Names(external_list) /\ u.entries = Names(entry_list)
  BY DEF Unit, i
<1>8. /\ Len(u.labels) = i + g /\ DOMAIN u.labels = 1 .. i + g /\ i + g \in Nat
      /\ \A l \in 1 .. i + g : u.labels[l] = LabelAt(Labels[l])
  BY <1>2, <1>7
<1>9. /\ d.labels = [l \in 1 .. Len(u.labels) |->
                       [name |-> u.labels[l].name,
                        nodes |-> [n \in 1 .. Len(u.labels[l].nodes) |->
                                     LoweredNode(u.labels[l].nodes[n])]]]
      /\ d.instruction_labels = u.instruction_labels
      /\ d.externals = {u.externals[x] : x \in 1 .. Len(u.externals)}
      /\ d.entries = u.entries
  BY DEF Lowered
<1> HIDE DEF u, d
<1>10. IsTranslationUnit(d)
  <2>1. /\ DOMAIN d.labels = 1 .. i + g /\ Len(d.labels) = i + g
        /\ d.instruction_labels \in 0 .. i + g
    BY <1>2, <1>7, <1>8, <1>9
  <2>2. ASSUME NEW l \in 1 .. i + g
        PROVE  /\ d.labels[l].name \in Name \union {NoName}
               /\ DOMAIN d.labels[l].nodes = 1 .. Len(d.labels[l].nodes)
               /\ Len(d.labels[l].nodes) \in Nat
               /\ \A n \in 1 .. Len(d.labels[l].nodes) :
                    /\ IsNode(d.labels[l].nodes[n])
                    /\ l <= d.instruction_labels <=> d.labels[l].nodes[n].kind = "instruction"
    <3> DEFINE v == LabelAt(Labels[l])
    <3>1. /\ v.name \in Name \union {NoName} /\ Len(v.nodes) \in Nat
          /\ \A n \in 1 .. Len(v.nodes) :
               /\ IsNode(LoweredNode(v.nodes[n]))
               /\ (l <= i) <=> LoweredNode(v.nodes[n]).kind = "instruction"
      BY <1>3
    <3>2. u.labels[l] = v
      BY <1>8
    <3> HIDE DEF v
    <3>3. /\ d.labels[l].name = v.name
          /\ d.labels[l].nodes = [n \in 1 .. Len(v.nodes) |-> LoweredNode(v.nodes[n])]
      <4>1. l \in 1 .. Len(u.labels)
        BY <1>8
      <4>2. d.labels[l] = [name |-> u.labels[l].name,
                           nodes |-> [n \in 1 .. Len(u.labels[l].nodes) |->
                                        LoweredNode(u.labels[l].nodes[n])]]
        BY <1>9, <4>1, Zenon
      <4>3. d.labels[l] = [name |-> v.name,
                           nodes |-> [n \in 1 .. Len(v.nodes) |-> LoweredNode(v.nodes[n])]]
        BY <3>2, <4>2, Zenon
      <4>4. QED  BY <4>3
    <3>4. /\ Len(d.labels[l].nodes) = Len(v.nodes)
          /\ DOMAIN d.labels[l].nodes = 1 .. Len(v.nodes)
          /\ \A n \in 1 .. Len(v.nodes) : d.labels[l].nodes[n] = LoweredNode(v.nodes[n])
      BY <3>1, <3>3
    <3>5. d.instruction_labels = i
      BY <1>7, <1>9
    <3>6. QED  BY <3>1, <3>3, <3>4, <3>5
  <2>3. d.externals \subseteq Name /\ d.entries \in Seq(Name)
    BY <1>6, <1>7, <1>9
  <2>4. QED  BY <1>8, <2>1, <2>2, <2>3 DEF IsTranslationUnit
<1>11. ASSUME NEW l \in 1 .. Len(u.labels)
       PROVE  /\ l <= u.instruction_labels => u.labels[l].name # NoName
              /\ DOMAIN u.labels[l].nodes = 1 .. Len(u.labels[l].nodes)
              /\ Len(u.labels[l].nodes) \in Nat
              /\ \A n \in 1 .. Len(u.labels[l].nodes) : IsParsedNode(u.labels[l].nodes[n])
  <2> DEFINE v == LabelAt(Labels[l])
  <2>1. /\ l <= i => v.name # NoName
        /\ DOMAIN v.nodes = 1 .. Len(v.nodes) /\ Len(v.nodes) \in Nat
        /\ \A n \in 1 .. Len(v.nodes) : IsParsedNode(v.nodes[n])
    BY <1>3, <1>8
  <2>2. u.labels[l] = v
    BY <1>8
  <2> HIDE DEF v
  <2>3. QED  BY <1>7, <2>1, <2>2
<1>12. IsParsed(u)
  BY <1>6, <1>7, <1>8, <1>10, <1>11 DEF IsParsed, d, u
<1>13. QED  BY <1>12 DEF u

-----------------------------------------------------------------------------
(* The language: what is known between two iterations *)

\* Where the statement of a line begins, behind its label.
BodyAt(s) == IF HasLabel(s) THEN s + 2 ELSE s

AfterWaits(k) == Previous(k, Waits)
AfterInstruction(k) == Previous(k, IsInstruction)

\* A line that is legal, but for what may have to follow it.
Sound(s) ==
  /\ \/ ~HasLabel(s) /\ (IsDeclaration(s) \/ IsMacroLine(s))
     \/ IsInstruction(s)
     \/ IsGuidance(s)
     \/ Waits(s)
  /\ IsInstruction(s) => HasLabel(s) \/ AfterWaits(s) \/ AfterInstruction(s)
  /\ AfterWaits(s) => ~HasLabel(s) /\ (IsInstruction(s) \/ IsGuidance(s))

SoundBefore(k) == \A s \in Filled : s < k => Sound(s)

AtStart(k) == k = 1 \/ Type(k - 1) = "eol"
\* Between two lines, or behind the last.
Paused(k) == AtStart(k) \/ Type(k) \in Ending

\* The line s is read, up to its body.
Opened(s) == s \in Filled /\ SoundBefore(s) /\ (HasLabel(s) => ~AfterWaits(s))

\* The line of the label is read, or has been, and nothing came after it.
LabelOpened ==
  /\ Opened(label) /\ HasLabel(label)
  /\ \/ tokens = label + 2
     \/ /\ Waits(label) /\ AtStart(tokens) /\ label < tokens
        /\ \A q \in Filled : q < tokens => q <= label

\* Numbers and commas alternate behind data_ins.
DataWord(d) == IF d % 2 = 1 THEN "number" ELSE "comma"

DataOpened ==
  \E s \in Filled :
    LET b == BodyAt(s) IN
    /\ Opened(s) /\ Type(b) = "data_ins" /\ b < tokens
    /\ \A j \in b + 1 .. tokens - 1 : Type(j) = DataWord(j - b)
    /\ (tokens - b) % 2 = 1 \/ Type(tokens) \in Ending
    /\ nodes[Len(nodes)].numbers = <<>> <=> tokens = b + 1

NoErrorInv ==
  /\ pc = "unit" =>
       /\ Paused(tokens) /\ SoundBefore(tokens) /\ ~AfterWaits(tokens)
       /\ AfterInstruction(tokens) => Type(tokens) \notin Operation \union {"eol"}
  /\ pc = "labelled" => LabelOpened
  /\ pc = "instructions" /\ nodes = <<>> =>
       \E s \in Filled : Opened(s) /\ BodyAt(s) = tokens /\ (HasLabel(s) \/ AfterWaits(s))
  /\ pc = "instructions" /\ nodes # <<>> =>
       (Paused(tokens) \/ Type(tokens) = "eol") /\ SoundBefore(tokens) /\ AfterInstruction(tokens)
  /\ pc = "guidance" /\ nodes = <<>> => \E s \in Filled : Opened(s) /\ BodyAt(s) = tokens
  /\ pc = "guidance" /\ nodes # <<>> =>
       Paused(tokens) /\ SoundBefore(tokens) /\ ~AfterWaits(tokens) /\ ~AfterInstruction(tokens)
  /\ pc = "data" => DataOpened
  /\ pc = "done" => \A s \in Filled : IsLegal(s)

\* Without an error every line read so far is legal; with one, some line is not.
LanguageInv ==
  /\ error_list = <<>> => NoErrorInv
  /\ error_list # <<>> => \E s \in Filled : ~IsLegal(s)

-----------------------------------------------------------------------------
(* Lines *)

LEMMA PlaceInList ==
  ASSUME IsTokenList(source), NEW k \in 1 .. Len(source)
  PROVE  InList(k)
BY TypesOfList DEF InList

\* The end of a line, where the tokens up to it are known.
LEMMA EndKnown ==
  ASSUME IsTokenList(source), NEW k, InList(k), NEW e \in Nat, k <= e,
         EndsLine(e), \A j \in k .. e - 1 : ~EndsLine(j)
  PROVE  LineEnd(k) = e
<1>1. /\ InList(LineEnd(k)) /\ k <= LineEnd(k) /\ EndsLine(LineEnd(k))
      /\ \A j \in k .. LineEnd(k) - 1 : ~EndsLine(j)
  BY LineEnds
<1>2. LineEnd(k) \in Nat /\ k \in Nat
  BY <1>1, TypesOfList DEF InList
<1>3. ~(e < LineEnd(k))
  BY <1>1, <1>2
<1>4. ~(LineEnd(k) < e)
  BY <1>1, <1>2
<1>5. QED  BY <1>2, <1>3, <1>4

\* Two lines have nothing in common.
LEMMA LinesApart ==
  ASSUME IsTokenList(source), NEW s \in Filled, NEW q \in Starts
  PROVE  ~(s < q /\ q <= LineEnd(s))
<1>1. /\ InList(LineEnd(s)) /\ \A j \in s .. LineEnd(s) - 1 : ~EndsLine(j)
      /\ s \in Nat \ {0} /\ q \in Nat \ {0}
  BY PlaceInList, LineEnds, TypesOfList DEF Filled, Starts
<1>2. SUFFICES ASSUME s < q, q <= LineEnd(s) PROVE FALSE
  OBVIOUS
<1>3. Type(q - 1) = "eol" /\ q - 1 \in s .. LineEnd(s) - 1
  BY <1>1, <1>2 DEF Starts, InList
<1>4. QED  BY <1>1, <1>3 DEF EndsLine

Word == TokenType \union {"none"}

\* A line and its body, word by word.
LEMMA LineRead ==
  ASSUME IsTokenList(source), NEW s \in Filled
  PROVE  /\ s \in 1 .. Len(source) /\ s \in Nat \ {0} /\ ~EndsLine(s)
         /\ LineEnd(s) \in Nat /\ s < LineEnd(s) /\ LineEnd(s) <= Len(source) + 1
         /\ EndsLine(LineEnd(s)) /\ \A j \in s .. LineEnd(s) - 1 : ~EndsLine(j)
         /\ Len(Line(s)) = LineEnd(s) - s
         /\ \A k \in 1 .. LineEnd(s) - s : Line(s)[k] = Type(s + k - 1)
         /\ Line(s) \in Seq(Word)
<1>1. /\ s \in 1 .. Len(source) /\ s \in Nat \ {0} /\ ~EndsLine(s) /\ Len(source) \in Nat
      /\ InList(LineEnd(s)) /\ s <= LineEnd(s) /\ EndsLine(LineEnd(s))
      /\ \A j \in s .. LineEnd(s) - 1 : ~EndsLine(j)
  BY PlaceInList, LineEnds, TypesOfList DEF Filled, Starts
<1>2. LineEnd(s) \in Nat /\ s < LineEnd(s) /\ LineEnd(s) <= Len(source) + 1
  <2>1. s # LineEnd(s)
    BY <1>1, Zenon
  <2>2. QED  BY <1>1, <2>1 DEF InList
<1>3. \A k \in 1 .. LineEnd(s) - s : Type(s + k - 1) \in TokenType
  <2>1. ASSUME NEW k \in 1 .. LineEnd(s) - s
        PROVE  s + k - 1 \in 1 .. Len(source)
    BY <1>1, <1>2
  <2>2. QED  BY <2>1, TypesOfList
<1> DEFINE n == LineEnd(s) - s
           word(k) == Type(s + k - 1)
<1>4. n \in Nat /\ Line(s) = [k \in 1 .. n |-> word(k)]
  BY <1>1, <1>2 DEF Line
<1>5. \A k \in 1 .. n : word(k) \in Word
  BY <1>3 DEF Word
<1>6. /\ Line(s) \in Seq(Word) /\ Len(Line(s)) = n
      /\ \A k \in 1 .. n : Line(s)[k] = word(k)
  <2> HIDE DEF n, word
  <2>1. QED  BY <1>4, <1>5, IsASeq
<1>7. QED  BY <1>1, <1>2, <1>6

\* A label is two tokens on its line.
LEMMA BodyBegins ==
  ASSUME IsTokenList(source), NEW s \in Filled
  PROVE  /\ BodyAt(s) \in Nat \ {0} /\ s <= BodyAt(s) /\ BodyAt(s) <= LineEnd(s)
         /\ BodyAt(s) = s <=> ~HasLabel(s)
         /\ BodyAt(s) = s + 2 <=> HasLabel(s)
         /\ ~HasLabel(s) => BodyAt(s) < LineEnd(s)
<1>1. /\ s \in Nat \ {0} /\ LineEnd(s) \in Nat /\ s < LineEnd(s) /\ EndsLine(LineEnd(s))
  BY LineRead
<1>2. ASSUME HasLabel(s) PROVE s + 2 <= LineEnd(s)
  <2>1. ~EndsLine(s + 1)
    BY <1>2 DEF HasLabel, EndsLine
  <2>2. s + 1 # LineEnd(s)
    BY <1>1, <2>1, Zenon
  <2>3. QED  BY <1>1, <2>2
<1>3. QED  BY <1>1, <1>2 DEF BodyAt

LEMMA BodyRead ==
  ASSUME IsTokenList(source), NEW s \in Filled
  PROVE  /\ Body(s) \in Seq(Word)
         /\ Len(Body(s)) = LineEnd(s) - BodyAt(s)
         /\ \A k \in 1 .. LineEnd(s) - BodyAt(s) : Body(s)[k] = Type(BodyAt(s) + k - 1)
<1>1. /\ s \in Nat \ {0} /\ LineEnd(s) \in Nat /\ s < LineEnd(s)
      /\ Len(Line(s)) = LineEnd(s) - s
      /\ \A k \in 1 .. LineEnd(s) - s : Line(s)[k] = Type(s + k - 1)
      /\ Line(s) \in Seq(Word)
  BY LineRead
<1>2. CASE ~HasLabel(s)
  <2>1. Body(s) = Line(s) /\ BodyAt(s) = s
    BY <1>2 DEF Body, BodyAt
  <2>2. QED  BY <1>1, <2>1
<1>3. CASE HasLabel(s)
  <2>1. Body(s) = SubSeq(Line(s), 3, Len(Line(s))) /\ BodyAt(s) = s + 2
    BY <1>3 DEF Body, BodyAt
  <2>2. s + 2 <= LineEnd(s)
    BY <1>3, BodyBegins
  <2> DEFINE n == Len(Line(s))
  <2>3. n \in Nat /\ n >= 2 /\ n = LineEnd(s) - s
    BY <1>1, <2>2
  <2>4. /\ Body(s) \in Seq(Word) /\ Len(Body(s)) = n - 2
        /\ \A k \in 1 .. n - 2 : Body(s)[k] = Line(s)[k + 2]
    BY <1>1, <2>1, <2>3, SubSeqProperties
  <2>5. ASSUME NEW k \in 1 .. LineEnd(s) - BodyAt(s)
        PROVE  Body(s)[k] = Type(BodyAt(s) + k - 1)
    <3>1. k \in 1 .. n - 2 /\ k + 2 \in 1 .. LineEnd(s) - s
      BY <1>1, <2>1, <2>3
    <3>2. Body(s)[k] = Type(s + (k + 2) - 1)
      BY <1>1, <2>4, <3>1
    <3>3. s + (k + 2) - 1 = BodyAt(s) + k - 1
      BY <1>1, <2>1, <3>1
    <3>4. QED  BY <3>2, <3>3
  <2>6. Len(Body(s)) = LineEnd(s) - BodyAt(s)
    BY <1>1, <2>1, <2>3, <2>4
  <2>7. QED  BY <2>4, <2>5, <2>6
<1>4. QED  BY <1>2, <1>3

-----------------------------------------------------------------------------
(* The statements, place by place *)

\* What may stand behind an operation.
InstructionRest(k) ==
  \/ EndsLine(k)
  \/ /\ IsOperand(k)
     /\ LET comma == OperandAt(k) + 1 IN
        \/ EndsLine(comma)
        \/ /\ Type(comma) = "comma" /\ IsOperand(comma + 1)
           /\ EndsLine(OperandAt(comma + 1) + 1)

LEMMA OperandFormsMade ==
  \A a : a \in OperandForms <=>
    \/ \E t \in Operands : a = <<t>>
    \/ \E t \in {"star"}, u \in Operands : a = <<t, u>>
    \/ \E t \in {"hashtag"}, u \in {"number"} : a = <<t, u>>
BY Zenon DEF OperandForms, Operands

LEMMA OperandFormsListed ==
  ASSUME NEW a \in OperandForms
  PROVE  /\ a \in Seq(Word)
         /\ \/ Len(a) = 1 /\ a[1] \in Operands
            \/ Len(a) = 2 /\ a[1] = "star" /\ a[2] \in Operands
            \/ Len(a) = 2 /\ a[1] = "hashtag" /\ a[2] = "number"
<1>1. {"register", "identifier", "number", "hashtag", "star"} \subseteq Word
  BY DEF Word, TokenType
<1>2. CASE \E t \in Operands : a = <<t>>
  <2>1. PICK t \in Operands : a = <<t>>
    BY <1>2
  <2>2. t \in Word
    BY <1>1 DEF Operands
  <2>3. QED  BY <2>1, <2>2
<1>3. CASE \E t \in {"star"}, u \in Operands : a = <<t, u>>
  <2>1. PICK u \in Operands : a = <<"star", u>>
    BY <1>3
  <2>2. u \in Word /\ "star" \in Word
    BY <1>1 DEF Operands
  <2>3. QED  BY <2>1, <2>2
<1>4. CASE a = <<"hashtag", "number">>
  BY <1>1, <1>4
<1>5. QED  BY <1>2, <1>3, <1>4, OperandFormsMade, Zenon

LEMMA OperandFormRead ==
  ASSUME NEW k \in Nat \ {0}, NEW a \in OperandForms,
         \A i \in 1 .. Len(a) : Type(k + i - 1) = a[i]
  PROVE  IsOperand(k) /\ OperandAt(k) + 1 = k + Len(a)
<1>1. CASE Len(a) = 1 /\ a[1] \in Operands
  <2>1. Type(k) \in Operands
    <3>1. Type(k + 1 - 1) = a[1] /\ k + 1 - 1 = k
      BY <1>1
    <3>2. QED  BY <1>1, <3>1
  <2>2. QED  BY <1>1, <2>1 DEF IsOperand, OperandAt, Operands
<1>2. CASE Len(a) = 2
  <2>1. Type(k) = a[1] /\ Type(k + 1) = a[2]
    <3>1. Type(k + 1 - 1) = a[1] /\ k + 1 - 1 = k /\ Type(k + 2 - 1) = a[2] /\ k + 2 - 1 = k + 1
      BY <1>2
    <3>2. QED  BY <3>1
  <2>2. \/ Type(k) = "star" /\ Type(k + 1) \in Operands
        \/ Type(k) = "hashtag" /\ Type(k + 1) = "number"
    BY <1>2, <2>1, OperandFormsListed
  <2>3. QED  BY <1>2, <2>2 DEF IsOperand, OperandAt, Operands
<1>3. QED  BY <1>1, <1>2, OperandFormsListed

LEMMA OperandHasForm ==
  ASSUME NEW k \in Nat \ {0}, IsOperand(k)
  PROVE  \E a \in OperandForms :
           k + Len(a) = OperandAt(k) + 1 /\ \A i \in 1 .. Len(a) : a[i] = Type(k + i - 1)
<1>1. CASE Type(k) \in Operands
  <2>1. <<Type(k)>> \in OperandForms /\ OperandAt(k) = k
    BY <1>1, OperandFormsMade, Zenon DEF Operands, OperandAt
  <2> DEFINE a == <<Type(k)>>
  <2>2. Len(a) = 1 /\ a[1] = Type(k) /\ k + 1 - 1 = k
    OBVIOUS
  <2>3. \A i \in 1 .. Len(a) : a[i] = Type(k + i - 1)
    BY <2>2
  <2>4. k + Len(a) = OperandAt(k) + 1
    BY <2>1, <2>2
  <2> HIDE DEF a
  <2>5. a \in OperandForms
    BY <2>1 DEF a
  <2>6. QED  BY <2>3, <2>4, <2>5
<1>2. CASE Type(k) \in {"hashtag", "star"}
  <2>1. \/ Type(k) = "star" /\ Type(k + 1) \in Operands
        \/ Type(k) = "hashtag" /\ Type(k + 1) = "number"
    <3>1. OperandAt(k) = k + 1
      BY <1>2 DEF OperandAt
    <3>2. Type(OperandAt(k)) = Type(k + 1)
      BY <3>1
    <3>3. \/ Type(k) = "hashtag" /\ Type(k + 1) = "number"
          \/ Type(k) # "hashtag" /\ Type(k + 1) \in Operands
      BY <3>2, Zenon DEF IsOperand
    <3>4. QED  BY <1>2, <3>3, Zenon
  <2>2. <<Type(k), Type(k + 1)>> \in OperandForms /\ OperandAt(k) = k + 1
    <3>1. \/ Type(k) \in {"star"} /\ Type(k + 1) \in Operands
          \/ Type(k) \in {"hashtag"} /\ Type(k + 1) \in {"number"}
      BY <2>1
    <3>2. <<Type(k), Type(k + 1)>> \in OperandForms
      BY <3>1, OperandFormsMade, Zenon
    <3>3. QED  BY <1>2, <3>2 DEF OperandAt
  <2> DEFINE a == <<Type(k), Type(k + 1)>>
  <2>3. Len(a) = 2 /\ a[1] = Type(k) /\ a[2] = Type(k + 1) /\ k + 1 - 1 = k /\ k + 2 - 1 = k + 1
    OBVIOUS
  <2>4. \A i \in 1 .. Len(a) : a[i] = Type(k + i - 1)
    BY <2>3
  <2>5. k + Len(a) = OperandAt(k) + 1
    BY <2>2, <2>3
  <2> HIDE DEF a
  <2>6. a \in OperandForms
    BY <2>2 DEF a
  <2>7. QED  BY <2>4, <2>5, <2>6
<1>3. QED  BY <1>1, <1>2 DEF IsOperand, OperandAt

LEMMA OperandEndsBehind ==
  ASSUME NEW k \in Nat \ {0}, IsOperand(k)
  PROVE  /\ OperandAt(k) \in {k, k + 1} /\ OperandAt(k) + 1 \in Nat \ {0}
         /\ ~EndsLine(k) /\ ~EndsLine(OperandAt(k))
         /\ \A j \in k .. OperandAt(k) : ~EndsLine(j)
<1>1. OperandAt(k) \in {k, k + 1} /\ OperandAt(k) + 1 \in Nat \ {0}
  BY DEF OperandAt
<1>2. ~EndsLine(k) /\ ~EndsLine(OperandAt(k))
  BY DEF IsOperand, OperandAt, EndsLine, Operands
<1>3. \A j \in k .. OperandAt(k) : j = k \/ j = OperandAt(k)
  BY <1>1
<1>4. QED  BY <1>1, <1>2, <1>3

\* Two operands, and the comma between them.
Comma == <<"comma">>
Pair(a, b) == a \o Comma \o b

LEMMA CommaRead == Comma \in Seq(Word) /\ Len(Comma) = 1
<1>1. "comma" \in Word
  BY DEF Word, TokenType
<1>2. QED  BY <1>1 DEF Comma

LEMMA PairRead ==
  ASSUME NEW a \in Seq(Word), NEW b \in Seq(Word)
  PROVE  /\ Pair(a, b) \in Seq(Word) /\ Len(Pair(a, b)) = Len(a) + 1 + Len(b)
         /\ \A i \in 1 .. Len(a) : Pair(a, b)[i] = a[i]
         /\ Pair(a, b)[Len(a) + 1] = Comma[1]
         /\ \A i \in 1 .. Len(b) : Pair(a, b)[Len(a) + 1 + i] = b[i]
<1> DEFINE c == a \o Comma
<1>1. Len(a) \in Nat /\ Len(b) \in Nat
  OBVIOUS
<1>2. /\ c \in Seq(Word) /\ Len(c) = Len(a) + 1
      /\ \A i \in 1 .. Len(a) + 1 : c[i] = IF i <= Len(a) THEN a[i] ELSE Comma[i - Len(a)]
  <2>1. /\ c \in Seq(Word) /\ Len(c) = Len(a) + Len(Comma)
        /\ \A i \in 1 .. Len(a) + Len(Comma) :
             c[i] = IF i <= Len(a) THEN a[i] ELSE Comma[i - Len(a)]
    BY CommaRead, ConcatProperties, Zenon
  <2>2. QED  BY <2>1, CommaRead, Zenon
<1>3. Pair(a, b) = c \o b
  BY DEF Pair
<1> HIDE DEF c
<1>4. /\ c \o b \in Seq(Word) /\ Len(c \o b) = Len(c) + Len(b)
      /\ \A i \in 1 .. Len(c) + Len(b) : (c \o b)[i] = IF i <= Len(c) THEN c[i] ELSE b[i - Len(c)]
  <2>1. c \in Seq(Word)
    BY <1>2
  <2>2. QED  BY <2>1, ConcatProperties
<1>5. \A i \in 1 .. Len(a) : (c \o b)[i] = a[i]
  BY <1>1, <1>2, <1>4
<1>6. (c \o b)[Len(a) + 1] = Comma[1]
  <2>1. c[Len(a) + 1] = Comma[1]
    BY <1>1, <1>2
  <2>2. (c \o b)[Len(a) + 1] = c[Len(a) + 1]
    BY <1>1, <1>2, <1>4
  <2>3. QED  BY <2>1, <2>2
<1>7. ASSUME NEW i \in 1 .. Len(b) PROVE (c \o b)[Len(a) + 1 + i] = b[i]
  <2>1. /\ Len(a) + 1 + i \in 1 .. Len(c) + Len(b) /\ ~(Len(a) + 1 + i <= Len(c))
        /\ Len(a) + 1 + i - Len(c) = i
    BY <1>1, <1>2
  <2>2. QED  BY <1>4, <2>1
<1>8. QED  BY <1>2, <1>3, <1>4, <1>5, <1>6, <1>7

LEMMA CommaAt ==
  ASSUME NEW k
  PROVE  Type(k) = Comma[1] <=> Type(k) = "comma"
BY DEF Comma

LEMMA FormsOfInstruction ==
  ASSUME NEW rest
  PROVE  rest \in InstructionForms <=>
           \/ rest = <<>> \/ rest \in OperandForms
           \/ \E a, b \in OperandForms : rest = Pair(a, b)
<1>1. InstructionForms = {<<>>} \union OperandForms \union {Pair(a, b) : a, b \in OperandForms}
  BY DEF InstructionForms, Pair, Comma
<1>2. QED  BY <1>1

\* The words of an instruction, from the second on.
LEMMA RestOfForm ==
  ASSUME NEW k \in Nat \ {0}, NEW e \in Nat, k <= e, EndsLine(e),
         NEW rest \in Seq(Word), Len(rest) = e - k,
         \A i \in 1 .. Len(rest) : rest[i] = Type(k + i - 1),
         rest \in InstructionForms
  PROVE  InstructionRest(k)
<1>1. CASE rest = <<>>
  <2>1. e = k
    BY <1>1
  <2>2. QED  BY <2>1 DEF InstructionRest
<1>2. CASE rest \in OperandForms
  <2>1. IsOperand(k) /\ OperandAt(k) + 1 = k + Len(rest)
    BY <1>2, OperandFormRead
  <2>2. OperandAt(k) + 1 = e
    BY <2>1
  <2>3. QED  BY <2>1, <2>2 DEF InstructionRest
<1>3. CASE \E a, b \in OperandForms : rest = Pair(a, b)
  <2>1. PICK a \in OperandForms, b \in OperandForms : rest = Pair(a, b)
    BY <1>3
  <2>2. a \in Seq(Word) /\ b \in Seq(Word) /\ Len(a) \in Nat /\ Len(b) \in Nat
    BY OperandFormsListed
  <2>5. /\ Len(rest) = Len(a) + 1 + Len(b)
        /\ \A i \in 1 .. Len(a) : rest[i] = a[i]
        /\ rest[Len(a) + 1] = Comma[1]
        /\ \A i \in 1 .. Len(b) : rest[Len(a) + 1 + i] = b[i]
    <3>1. /\ Len(Pair(a, b)) = Len(a) + 1 + Len(b)
          /\ \A i \in 1 .. Len(a) : Pair(a, b)[i] = a[i]
          /\ Pair(a, b)[Len(a) + 1] = Comma[1]
          /\ \A i \in 1 .. Len(b) : Pair(a, b)[Len(a) + 1 + i] = b[i]
      BY <2>2, PairRead
    <3>2. QED  BY <2>1, <3>1, Zenon
  <2>6. IsOperand(k) /\ OperandAt(k) + 1 = k + Len(a)
    <3>1. ASSUME NEW i \in 1 .. Len(a) PROVE Type(k + i - 1) = a[i]
      BY <2>2, <2>5
    <3>2. QED  BY <3>1, OperandFormRead, Zenon
  <2> DEFINE comma == k + Len(a)
  <2>7. Type(comma) = Comma[1] /\ comma \in Nat \ {0}
    <3>1. k + (Len(a) + 1) - 1 = comma /\ Len(a) + 1 \in 1 .. Len(rest) /\ comma \in Nat \ {0}
      BY <2>2, <2>5
    <3>2. rest[Len(a) + 1] = Type(k + (Len(a) + 1) - 1)
      BY <3>1, Zenon
    <3>3. QED  BY <2>5, <3>1, <3>2, Zenon
  <2>8. IsOperand(comma + 1) /\ OperandAt(comma + 1) + 1 = comma + 1 + Len(b)
    <3>1. ASSUME NEW i \in 1 .. Len(b) PROVE Type(comma + 1 + i - 1) = b[i]
      <4>1. /\ Len(a) + 1 + i \in 1 .. Len(rest)
            /\ k + (Len(a) + 1 + i) - 1 = comma + 1 + i - 1
        <5>1. Len(rest) = Len(a) + 1 + Len(b) /\ Len(a) \in Nat /\ Len(b) \in Nat
          BY <2>2, <2>5
        <5>2. QED  BY <5>1
      <4>2. rest[Len(a) + 1 + i] = Type(k + (Len(a) + 1 + i) - 1)
        BY <4>1, Zenon
      <4>3. QED  BY <2>5, <4>1, <4>2, Zenon
    <3>2. comma + 1 \in Nat \ {0}
      BY <2>7
    <3> HIDE DEF comma
    <3>3. QED  BY <3>1, <3>2, OperandFormRead
  <2>9. comma + 1 + Len(b) = e
    <3>1. e - k = Len(a) + 1 + Len(b)
      BY <2>5
    <3>2. QED  BY <2>2, <3>1
  <2>10. Type(comma) = "comma"
    BY <2>7, CommaAt
  <2> HIDE DEF comma
  <2>11. OperandAt(k) + 1 = comma
    BY <2>6 DEF comma
  <2>12. QED  BY <2>6, <2>8, <2>9, <2>10, <2>11 DEF InstructionRest
<1>4. QED  BY <1>1, <1>2, <1>3, FormsOfInstruction

\* The words of an instruction have the form of one.
LEMMA FormOfRest ==
  ASSUME NEW k \in Nat \ {0}, NEW e \in Nat, k <= e,
         EndsLine(e), \A j \in k .. e - 1 : ~EndsLine(j),
         NEW rest \in Seq(Word), Len(rest) = e - k,
         \A i \in 1 .. Len(rest) : rest[i] = Type(k + i - 1),
         InstructionRest(k)
  PROVE  rest \in InstructionForms
<1>0. \A p \in Nat : k <= p /\ EndsLine(p) /\ (\A j \in k .. p - 1 : ~EndsLine(j)) => p = e
  <2> SUFFICES ASSUME NEW p \in Nat, k <= p, EndsLine(p), \A j \in k .. p - 1 : ~EndsLine(j)
               PROVE  p = e
    OBVIOUS
  <2>1. ~(p < e) /\ ~(e < p)
    OBVIOUS
  <2>2. QED  BY <2>1
<1>1. CASE EndsLine(k)
  <2>1. k = e
    BY <1>0, <1>1
  <2>2. rest = <<>>
    BY <2>1
  <2>3. QED  BY <2>2, FormsOfInstruction
<1>2. CASE IsOperand(k)
  <2>1. PICK a \in OperandForms :
          k + Len(a) = OperandAt(k) + 1 /\ \A i \in 1 .. Len(a) : a[i] = Type(k + i - 1)
    BY <1>2, OperandHasForm
  <2>2. a \in Seq(Word) /\ Len(a) \in Nat
    BY OperandFormsListed
  <2>3. OperandAt(k) \in Nat /\ \A j \in k .. OperandAt(k) : ~EndsLine(j)
    BY <1>2, OperandEndsBehind
  <2> DEFINE comma == OperandAt(k) + 1
  <2>4. comma \in Nat \ {0} /\ k <= comma /\ comma = k + Len(a)
    BY <1>2, <2>1, OperandEndsBehind
  <2>5. CASE EndsLine(comma)
    <3>1. comma = e
      <4>1. \A j \in k .. comma - 1 : ~EndsLine(j)
        BY <2>3
      <4> HIDE DEF comma
      <4>2. QED  BY <1>0, <2>4, <2>5, <4>1
    <3>2. Len(rest) = Len(a) /\ \A i \in 1 .. Len(a) : rest[i] = a[i]
      BY <2>1, <2>2, <2>4, <3>1
    <3>3. rest = a
      BY <2>2, <3>2, SeqEqual
    <3>4. QED  BY <3>3, FormsOfInstruction
  <2>6. CASE Type(comma) = "comma" /\ IsOperand(comma + 1) /\ EndsLine(OperandAt(comma + 1) + 1)
    <3> HIDE DEF comma
    <3>1. comma + 1 \in Nat \ {0}
      BY <2>4
    <3>2. PICK b \in OperandForms :
            /\ comma + 1 + Len(b) = OperandAt(comma + 1) + 1
            /\ \A i \in 1 .. Len(b) : b[i] = Type(comma + 1 + i - 1)
      BY <2>6, <3>1, OperandHasForm
    <3>3. b \in Seq(Word) /\ Len(b) \in Nat
      BY OperandFormsListed
    <3>4. /\ OperandAt(comma + 1) \in Nat /\ comma + 1 <= OperandAt(comma + 1)
          /\ \A j \in comma + 1 .. OperandAt(comma + 1) : ~EndsLine(j)
      BY <2>6, <3>1, OperandEndsBehind
    <3>5. OperandAt(comma + 1) + 1 = e
      <4>1. ~EndsLine(comma)
        BY <2>6 DEF EndsLine
      <4>2. \A j \in k .. OperandAt(comma + 1) :
              j \in k .. OperandAt(k) \/ j = comma \/ j \in comma + 1 .. OperandAt(comma + 1)
        BY <2>3, <2>4, <3>4 DEF comma
      <4>3. \A j \in k .. OperandAt(comma + 1) : ~EndsLine(j)
        BY <2>3, <3>4, <4>1, <4>2
      <4> DEFINE last == OperandAt(comma + 1) + 1
      <4>4. last \in Nat /\ k <= last /\ EndsLine(last) /\ \A j \in k .. last - 1 : ~EndsLine(j)
        BY <2>4, <2>6, <3>4, <4>3
      <4> HIDE DEF last
      <4>5. last = e
        BY <1>0, <4>4
      <4>6. QED  BY <4>5 DEF last
    <3>6. Len(rest) = Len(a) + 1 + Len(b)
      BY <2>2, <2>4, <3>2, <3>3, <3>5
    <3>7. \A i \in 1 .. Len(a) : rest[i] = a[i]
      BY <2>1, <2>2, <3>3, <3>6
    <3>8. rest[Len(a) + 1] = Comma[1]
      <4>1. Len(a) + 1 \in 1 .. Len(rest) /\ k + (Len(a) + 1) - 1 = comma
        BY <2>2, <2>4, <3>3, <3>6
      <4>2. rest[Len(a) + 1] = Type(comma)
        BY <4>1
      <4>3. QED  BY <2>6, <4>2, CommaAt
    <3>9. ASSUME NEW i \in 1 .. Len(b) PROVE rest[Len(a) + 1 + i] = b[i]
      <4>1. /\ Len(a) + 1 + i \in 1 .. Len(rest)
            /\ k + (Len(a) + 1 + i) - 1 = comma + 1 + i - 1
        BY <2>2, <2>4, <3>3, <3>6
      <4>2. QED  BY <3>2, <4>1
    <3>10. /\ Pair(a, b) \in Seq(Word) /\ Len(Pair(a, b)) = Len(a) + 1 + Len(b)
           /\ \A i \in 1 .. Len(a) : Pair(a, b)[i] = a[i]
           /\ Pair(a, b)[Len(a) + 1] = Comma[1]
           /\ \A i \in 1 .. Len(b) : Pair(a, b)[Len(a) + 1 + i] = b[i]
      BY <2>2, <3>3, PairRead
    <3>11. ASSUME NEW i \in 1 .. Len(rest) PROVE rest[i] = Pair(a, b)[i]
      <4>1. CASE i <= Len(a)
        BY <2>2, <3>7, <3>10, <4>1
      <4>2. CASE i = Len(a) + 1
        BY <3>8, <3>10, <4>2
      <4>3. CASE i > Len(a) + 1
        <5>1. PICK m \in 1 .. Len(b) : i = Len(a) + 1 + m
          <6>1. i - Len(a) - 1 \in 1 .. Len(b) /\ i = Len(a) + 1 + (i - Len(a) - 1)
            BY <2>2, <3>3, <3>6, <4>3
          <6>2. QED  BY <6>1
        <5>2. QED  BY <3>9, <3>10, <5>1
      <4>4. QED  BY <2>2, <4>1, <4>2, <4>3
    <3>12. rest = Pair(a, b)
      BY <3>6, <3>10, <3>11, SeqEqual
    <3>13. QED  BY <3>12, FormsOfInstruction
  <2>7. QED  BY <1>0, <1>1, <2>5, <2>6 DEF InstructionRest
<1>3. QED  BY <1>1, <1>2 DEF InstructionRest

\* The body of a line is empty, or begins with the token behind the label.
LEMMA BodyFirst ==
  ASSUME IsTokenList(source), NEW s \in Filled
  PROVE  /\ Body(s) = <<>> <=> EndsLine(BodyAt(s))
         /\ Body(s) # <<>> => Body(s)[1] = Type(BodyAt(s))
         /\ EndsLine(BodyAt(s)) <=> BodyAt(s) = LineEnd(s)
<1> DEFINE b == BodyAt(s)
<1>1. /\ b \in Nat \ {0} /\ s <= b /\ b <= LineEnd(s) /\ LineEnd(s) \in Nat /\ s \in Nat
      /\ EndsLine(LineEnd(s)) /\ \A j \in s .. LineEnd(s) - 1 : ~EndsLine(j)
  BY LineRead, BodyBegins
<1>2. /\ Body(s) \in Seq(Word) /\ Len(Body(s)) = LineEnd(s) - b
      /\ \A k \in 1 .. LineEnd(s) - b : Body(s)[k] = Type(b + k - 1)
  BY BodyRead
<1> HIDE DEF b
<1>3. EndsLine(b) <=> b = LineEnd(s)
  <2>1. ASSUME b # LineEnd(s) PROVE ~EndsLine(b)
    <3>1. b \in s .. LineEnd(s) - 1
      BY <1>1, <2>1
    <3>2. QED  BY <1>1, <3>1
  <2>2. QED  BY <1>1, <2>1
<1>4. Body(s) = <<>> <=> b = LineEnd(s)
  BY <1>1, <1>2, EmptySeq
<1>5. ASSUME b # LineEnd(s) PROVE Body(s)[1] = Type(b)
  <2>1. 1 \in 1 .. LineEnd(s) - b /\ b + 1 - 1 = b
    BY <1>1, <1>5
  <2>2. Body(s)[1] = Type(b + 1 - 1)
    BY <1>2, <2>1
  <2>3. QED  BY <2>1, <2>2
<1>6. QED  BY <1>3, <1>4, <1>5 DEF b

LEMMA InstructionAt ==
  ASSUME IsTokenList(source), NEW s \in Filled
  PROVE  IsInstruction(s) <=>
           Type(BodyAt(s)) \in Operation /\ InstructionRest(BodyAt(s) + 1)
<1> DEFINE b == BodyAt(s)
           e == LineEnd(s)
           rest == Tail(Body(s))
<1>1. CASE Type(b) \notin Operation
  BY <1>1, BodyFirst DEF IsInstruction
<1>2. CASE Type(b) \in Operation
  <2>1. ~EndsLine(b)
    BY <1>2, Beginnings DEF EndsLine
  <2>2. Body(s) # <<>> /\ Body(s)[1] = Type(b) /\ b # e
    BY <2>1, BodyFirst
  <2>3. /\ b \in Nat \ {0} /\ s <= b /\ b <= e /\ e \in Nat /\ s \in Nat
        /\ EndsLine(e) /\ \A j \in s .. e - 1 : ~EndsLine(j)
    BY LineRead, BodyBegins
  <2>4. /\ Body(s) \in Seq(Word) /\ Len(Body(s)) = e - b
        /\ \A k \in 1 .. e - b : Body(s)[k] = Type(b + k - 1)
    BY BodyRead
  <2>5. /\ rest \in Seq(Word) /\ Len(rest) = Len(Body(s)) - 1
        /\ \A i \in 1 .. Len(Body(s)) - 1 : rest[i] = Body(s)[i + 1]
    BY <2>2, <2>4, HeadTailProperties
  <2>6. IsInstruction(s) <=> rest \in InstructionForms
    BY <1>2, <2>2 DEF IsInstruction
  <2> HIDE DEF b, e, rest
  <2>7. Len(rest) = e - (b + 1) /\ b + 1 \in Nat \ {0} /\ b + 1 <= e
    BY <2>2, <2>3, <2>4, <2>5
  <2>8. ASSUME NEW i \in 1 .. Len(rest) PROVE rest[i] = Type((b + 1) + i - 1)
    <3>1. i \in 1 .. Len(Body(s)) - 1 /\ i + 1 \in 1 .. e - b /\ b + (i + 1) - 1 = (b + 1) + i - 1
      BY <2>3, <2>4, <2>7
    <3>2. rest[i] = Body(s)[i + 1] /\ Body(s)[i + 1] = Type(b + (i + 1) - 1)
      BY <2>4, <2>5, <3>1
    <3>3. QED  BY <3>1, <3>2
  <2>9. \A j \in b + 1 .. e - 1 : ~EndsLine(j)
    BY <2>3
  <2>10. ASSUME rest \in InstructionForms PROVE InstructionRest(b + 1)
    BY <2>3, <2>5, <2>7, <2>8, <2>10, RestOfForm
  <2>11. ASSUME InstructionRest(b + 1) PROVE rest \in InstructionForms
    BY <2>3, <2>5, <2>7, <2>8, <2>9, <2>11, FormOfRest
  <2>12. QED  BY <1>2, <2>6, <2>10, <2>11 DEF b
<1>3. QED  BY <1>1, <1>2

LEMMA TwoWords ==
  ASSUME NEW p \in Nat \ {0}, NEW e \in Nat, p <= e,
         EndsLine(e), \A j \in p .. e - 1 : ~EndsLine(j),
         NEW list \in Seq(Word), Len(list) = e - p,
         \A k \in 1 .. e - p : list[k] = Type(p + k - 1),
         NEW t \in Word \ {"eol", "eoft", "none"}, NEW u \in Word \ {"eol", "eoft", "none"}
  PROVE  list = <<t, u>> <=> Type(p) = t /\ Type(p + 1) = u /\ EndsLine(p + 2)
<1>1. ASSUME list = <<t, u>>
      PROVE  Type(p) = t /\ Type(p + 1) = u /\ EndsLine(p + 2)
  <2>1. Len(list) = 2 /\ list[1] = t /\ list[2] = u
    BY <1>1
  <2>2. e = p + 2 /\ 1 \in 1 .. e - p /\ 2 \in 1 .. e - p /\ p + 1 - 1 = p /\ p + 2 - 1 = p + 1
    <3>1. e - p = 2
      BY <2>1
    <3>2. QED  BY <3>1
  <2>3. list[1] = Type(p + 1 - 1) /\ list[2] = Type(p + 2 - 1)
    BY <2>2, Zenon
  <2>4. QED  BY <2>1, <2>2, <2>3
<1>2. ASSUME Type(p) = t, Type(p + 1) = u, EndsLine(p + 2)
      PROVE  list = <<t, u>>
  <2>1. ~EndsLine(p) /\ ~EndsLine(p + 1)
    BY <1>2 DEF EndsLine
  <2>2. e # p /\ e # p + 1
    BY <2>1
  <2>3. ~(p + 2 < e)
    <3>1. ASSUME p + 2 < e PROVE FALSE
      <4>1. p + 2 \in p .. e - 1
        BY <3>1
      <4>2. QED  BY <1>2, <4>1
    <3>2. QED  BY <3>1
  <2>4. e = p + 2
    BY <2>2, <2>3
  <2>5. Len(list) = 2 /\ 1 \in 1 .. e - p /\ 2 \in 1 .. e - p /\ p + 1 - 1 = p /\ p + 2 - 1 = p + 1
    BY <2>4
  <2>6. list[1] = Type(p + 1 - 1) /\ list[2] = Type(p + 2 - 1)
    BY <2>5, Zenon
  <2>7. Len(list) = 2 /\ list[1] = t /\ list[2] = u
    BY <1>2, <2>5, <2>6
  <2>8. QED  BY <2>7
<1>3. QED  BY <1>1, <1>2

LEMMA WordsListed ==
  {"string_ins", "string", "extern_ins", "entry_ins", "identifier"}
    \subseteq Word \ {"eol", "eoft", "none"}
BY DEF Word, TokenType, Directive

LEMMA StringAt ==
  ASSUME IsTokenList(source), NEW s \in Filled
  PROVE  Body(s) = <<"string_ins", "string">> <=>
           /\ Type(BodyAt(s)) = "string_ins" /\ Type(BodyAt(s) + 1) = "string"
           /\ EndsLine(BodyAt(s) + 2)
<1>1. /\ BodyAt(s) \in Nat \ {0} /\ s <= BodyAt(s) /\ BodyAt(s) <= LineEnd(s)
      /\ LineEnd(s) \in Nat /\ s \in Nat
      /\ EndsLine(LineEnd(s)) /\ \A j \in s .. LineEnd(s) - 1 : ~EndsLine(j)
  BY LineRead, BodyBegins
<1>2. \A j \in BodyAt(s) .. LineEnd(s) - 1 : ~EndsLine(j)
  BY <1>1
<1>3. \A t, u \in Word \ {"eol", "eoft", "none"} :
        Body(s) = <<t, u>> <=>
          Type(BodyAt(s)) = t /\ Type(BodyAt(s) + 1) = u /\ EndsLine(BodyAt(s) + 2)
  <2> TAKE t, u \in Word \ {"eol", "eoft", "none"}
  <2>1. /\ Body(s) \in Seq(Word) /\ Len(Body(s)) = LineEnd(s) - BodyAt(s)
        /\ \A k \in 1 .. LineEnd(s) - BodyAt(s) : Body(s)[k] = Type(BodyAt(s) + k - 1)
    BY BodyRead
  <2> DEFINE b == BodyAt(s)
             e == LineEnd(s)
             list == Body(s)
  <2> HIDE DEF b, e, list
  <2>2. /\ b \in Nat \ {0} /\ e \in Nat /\ b <= e /\ EndsLine(e)
        /\ \A j \in b .. e - 1 : ~EndsLine(j)
        /\ list \in Seq(Word) /\ Len(list) = e - b
        /\ \A k \in 1 .. e - b : list[k] = Type(b + k - 1)
    BY <1>1, <1>2, <2>1, Zenon DEF b, e, list
  <2>3. list = <<t, u>> <=> Type(b) = t /\ Type(b + 1) = u /\ EndsLine(b + 2)
    BY <2>2, TwoWords
  <2>4. QED  BY <2>3, Zenon DEF b, list
<1>4. QED  BY <1>3, WordsListed, Zenon

LEMMA DeclarationAt ==
  ASSUME IsTokenList(source), NEW s \in Filled
  PROVE  IsDeclaration(s) <=>
           /\ Type(s) \in {"extern_ins", "entry_ins"} /\ Type(s + 1) = "identifier"
           /\ EndsLine(s + 2)
<1>1. \A t \in {"extern_ins", "entry_ins"} :
        Line(s) = <<t, "identifier">> <=>
          Type(s) = t /\ Type(s + 1) = "identifier" /\ EndsLine(s + 2)
  <2>1. \A t, u \in Word \ {"eol", "eoft", "none"} :
          Line(s) = <<t, u>> <=> Type(s) = t /\ Type(s + 1) = u /\ EndsLine(s + 2)
    <3> TAKE t, u \in Word \ {"eol", "eoft", "none"}
    <3> DEFINE e == LineEnd(s)
               list == Line(s)
    <3>1. /\ s \in Nat \ {0} /\ e \in Nat /\ s <= e /\ EndsLine(e)
          /\ \A j \in s .. e - 1 : ~EndsLine(j)
          /\ list \in Seq(Word) /\ Len(list) = e - s
          /\ \A k \in 1 .. e - s : list[k] = Type(s + k - 1)
      BY LineRead
    <3> HIDE DEF e, list
    <3>2. list = <<t, u>> <=> Type(s) = t /\ Type(s + 1) = u /\ EndsLine(s + 2)
      BY <3>1, TwoWords
    <3>3. QED  BY <3>2, Zenon DEF list
  <2>2. QED  BY <2>1, WordsListed, Zenon
<1>2. IsDeclaration(s) <=> \E t \in {"extern_ins", "entry_ins"} : Line(s) = <<t, "identifier">>
  BY Zenon DEF IsDeclaration
<1>3. QED  BY <1>1, <1>2, Zenon

LEMMA DataAt ==
  ASSUME IsTokenList(source), NEW s \in Filled
  PROVE  IsData(s) <=>
           /\ Type(BodyAt(s)) = "data_ins" /\ BodyAt(s) + 1 < LineEnd(s)
           /\ \A j \in BodyAt(s) + 1 .. LineEnd(s) - 1 : Type(j) = DataWord(j - BodyAt(s))
           /\ (LineEnd(s) - BodyAt(s)) % 2 = 0 \/ Type(LineEnd(s)) # "eol"
<1> DEFINE b == BodyAt(s)
           e == LineEnd(s)
           body == Body(s)
<1>1. b \in Nat \ {0} /\ e \in Nat /\ b <= e
  BY LineRead, BodyBegins
<1>2. /\ Len(body) = e - b
      /\ \A k \in 1 .. e - b : body[k] = Type(b + k - 1)
  BY BodyRead
<1>3. IsData(s) <=>
        /\ Len(body) > 1 /\ body[1] = "data_ins"
        /\ \A k \in 2 .. Len(body) : body[k] = IF k % 2 = 0 THEN "number" ELSE "comma"
        /\ Len(body) % 2 = 0 \/ Type(e) # "eol"
  BY DEF IsData
<1> HIDE DEF b, e, body
<1>4. Len(body) > 1 <=> b + 1 < e
  BY <1>1, <1>2
<1>5. ASSUME b + 1 < e PROVE body[1] = Type(b)
  <2>1. 1 \in 1 .. e - b /\ b + 1 - 1 = b
    BY <1>1, <1>5
  <2>2. body[1] = Type(b + 1 - 1)
    BY <1>2, <2>1
  <2>3. QED  BY <2>1, <2>2
<1>6. \A k \in Nat : (k % 2 = 0 <=> (k - 1) % 2 = 1)
  OBVIOUS
<1>7. \A k \in 2 .. e - b :
        (IF k % 2 = 0 THEN "number" ELSE "comma") = DataWord(k - 1)
  BY <1>1, <1>6 DEF DataWord
<1>8. (\A k \in 2 .. Len(body) : body[k] = IF k % 2 = 0 THEN "number" ELSE "comma")
        <=> \A k \in 2 .. e - b : body[k] = DataWord(k - 1)
  BY <1>2, <1>7
<1>9. (\A k \in 2 .. e - b : body[k] = DataWord(k - 1))
        <=> \A j \in b + 1 .. e - 1 : Type(j) = DataWord(j - b)
  <2>1. ASSUME \A k \in 2 .. e - b : body[k] = DataWord(k - 1), NEW j \in b + 1 .. e - 1
        PROVE  Type(j) = DataWord(j - b)
    <3>1. /\ j - b + 1 \in 2 .. e - b /\ j - b + 1 \in 1 .. e - b
          /\ b + (j - b + 1) - 1 = j /\ (j - b + 1) - 1 = j - b
      BY <1>1
    <3>2. body[j - b + 1] = Type(b + (j - b + 1) - 1) /\ body[j - b + 1] = DataWord((j - b + 1) - 1)
      BY <1>2, <2>1, <3>1, Zenon
    <3>3. QED  BY <3>1, <3>2
  <2>2. ASSUME \A j \in b + 1 .. e - 1 : Type(j) = DataWord(j - b), NEW k \in 2 .. e - b
        PROVE  body[k] = DataWord(k - 1)
    <3>1. /\ k \in 1 .. e - b /\ b + k - 1 \in b + 1 .. e - 1 /\ (b + k - 1) - b = k - 1
      BY <1>1
    <3>2. body[k] = Type(b + k - 1) /\ Type(b + k - 1) = DataWord((b + k - 1) - b)
      BY <1>2, <2>2, <3>1, Zenon
    <3>3. QED  BY <3>1, <3>2
  <2>3. QED  BY <2>1, <2>2
<1>10. QED  BY <1>2, <1>3, <1>4, <1>5, <1>8, <1>9 DEF b, e

\* What a line is by the token its body begins with.
LEMMA KindsOfLine ==
  ASSUME IsTokenList(source), NEW s \in Filled
  PROVE  /\ IsInstruction(s) => Type(BodyAt(s)) \in Operation
         /\ IsGuidance(s) => Type(BodyAt(s)) \in {"data_ins", "string_ins"}
         /\ IsDeclaration(s) => Type(s) \in {"extern_ins", "entry_ins"}
         /\ Waits(s) <=> HasLabel(s) /\ EndsLine(BodyAt(s))
         /\ HasLabel(s) => Type(s) = "identifier"
         /\ ~HasLabel(s) => Type(BodyAt(s)) = Type(s)
<1>1. IsInstruction(s) => Type(BodyAt(s)) \in Operation
  BY InstructionAt
<1>2. IsGuidance(s) => Type(BodyAt(s)) \in {"data_ins", "string_ins"}
  BY DataAt, StringAt DEF IsGuidance
<1>3. IsDeclaration(s) => Type(s) \in {"extern_ins", "entry_ins"}
  BY DeclarationAt
<1>4. Waits(s) <=> HasLabel(s) /\ EndsLine(BodyAt(s))
  BY BodyFirst DEF Waits
<1>5. HasLabel(s) => Type(s) = "identifier"
  BY DEF HasLabel
<1>6. ~HasLabel(s) => Type(BodyAt(s)) = Type(s)
  BY BodyBegins
<1>7. QED  BY <1>1, <1>2, <1>3, <1>4, <1>5, <1>6

\* The kinds exclude each other.
LEMMA KindsApart ==
  ASSUME IsTokenList(source), NEW s \in Filled
  PROVE  /\ IsInstruction(s) => ~IsGuidance(s) /\ ~Waits(s)
         /\ IsGuidance(s) => ~Waits(s)
         /\ IsDeclaration(s) \/ IsMacroLine(s) =>
              ~HasLabel(s) /\ ~IsInstruction(s) /\ ~IsGuidance(s) /\ ~Waits(s)
<1>1. \A t \in Operation \union {"data_ins", "string_ins"} : t \notin {"eol", "eoft", "none"}
  BY Beginnings DEF Directive
<1>2. \A t \in Operation : t \notin {"data_ins", "string_ins", "extern_ins", "entry_ins",
                                     "macr", "endmacr"}
  BY Beginnings DEF Directive
<1>3. QED  BY <1>1, <1>2, KindsOfLine DEF EndsLine, IsMacroLine

LEMMA LegalIsSound ==
  ASSUME NEW s
  PROVE  IsLegal(s) <=> Sound(s) /\ (Waits(s) => \E t \in Filled : t > s)
BY DEF IsLegal, Sound, AfterWaits, AfterInstruction

LEMMA Shapeless ==
  ASSUME NEW s, ~IsInstruction(s), ~IsGuidance(s), ~Waits(s),
         HasLabel(s) \/ (~IsDeclaration(s) /\ ~IsMacroLine(s))
  PROVE  ~IsLegal(s)
BY DEF IsLegal

-----------------------------------------------------------------------------
(* From one line to the next *)

\* The cursor is behind the line s, before any other.
Behindmost(s, k) == s < k /\ \A q \in Filled : q < k => q <= s

LEMMA AfterLine ==
  ASSUME IsTokenList(source), NEW s \in Filled, NEW k \in Nat, Behindmost(s, k)
  PROVE  /\ AfterWaits(k) <=> Waits(s)
         /\ AfterInstruction(k) <=> IsInstruction(s)
         /\ SoundBefore(k) <=> SoundBefore(s) /\ Sound(s)
<1>1. Filled \subseteq Nat
  BY LineRead
<1>2. \A p \in Filled : (p < k /\ \A q \in Filled : q < k => q <= p) <=> p = s
  <2>1. ASSUME NEW p \in Filled, p < k, \A q \in Filled : q < k => q <= p
        PROVE  p = s
    <3>1. p <= s /\ s <= p
      BY <2>1 DEF Behindmost
    <3>2. QED  BY <1>1, <3>1
  <2>2. QED  BY <2>1 DEF Behindmost
<1>3. AfterWaits(k) <=> Waits(s)
  BY <1>2, Zenon DEF AfterWaits, Previous
<1>4. AfterInstruction(k) <=> IsInstruction(s)
  BY <1>2, Zenon DEF AfterInstruction, Previous
<1>5. \A q \in Filled : q < k <=> q < s \/ q = s
  BY <1>1 DEF Behindmost
<1>6. SoundBefore(k) <=> SoundBefore(s) /\ Sound(s)
  BY <1>5, Zenon DEF SoundBefore
<1>7. QED  BY <1>3, <1>4, <1>6

LEMMA AfterEndOfLine ==
  ASSUME IsTokenList(source), NEW s \in Filled, NEW k \in Nat, s < k, k <= LineEnd(s) + 1
  PROVE  Behindmost(s, k)
<1>1. \A q \in Filled : q \in Nat /\ q \in Starts
  BY LineRead DEF Filled
<1>2. \A q \in Filled : ~(s < q /\ q <= LineEnd(s))
  BY <1>1, LinesApart
<1>3. s \in Nat /\ LineEnd(s) \in Nat
  BY LineRead
<1>4. QED  BY <1>1, <1>2, <1>3 DEF Behindmost

\* The end of a line changes nothing.
LEMMA AfterEmptyLine ==
  ASSUME IsTokenList(source), NEW k \in Nat, Type(k) = "eol"
  PROVE  /\ AfterWaits(k + 1) <=> AfterWaits(k)
         /\ AfterInstruction(k + 1) <=> AfterInstruction(k)
         /\ SoundBefore(k + 1) <=> SoundBefore(k)
         /\ \A q \in Filled : q < k + 1 <=> q < k
<1>1. \A q \in Filled : q \in Nat /\ ~EndsLine(q)
  BY LineRead
<1>2. k \notin Filled
  BY <1>1 DEF EndsLine
<1>3. \A q \in Filled : q < k + 1 <=> q < k
  BY <1>1, <1>2
<1>4. QED  BY <1>3, Zenon DEF AfterWaits, AfterInstruction, SoundBefore, Previous

\* Recovery, from anywhere on the line.
LEMMA EndOfLineFrom ==
  ASSUME IsTokenList(source), NEW s \in Filled, NEW k \in Nat, s <= k, k <= LineEnd(s)
  PROVE  /\ LineEnd(k) = LineEnd(s) /\ EndOfLine(k) \in Nat
         /\ LineEnd(s) <= EndOfLine(k) /\ EndOfLine(k) <= LineEnd(s) + 1
         /\ Paused(EndOfLine(k)) /\ s < EndOfLine(k)
<1>1. /\ s \in Nat \ {0} /\ LineEnd(s) \in Nat /\ s < LineEnd(s) /\ LineEnd(s) <= Len(source) + 1
      /\ EndsLine(LineEnd(s)) /\ s \in 1 .. Len(source) /\ Len(source) \in Nat
      /\ \A j \in s .. LineEnd(s) - 1 : ~EndsLine(j)
  BY LineRead, TypesOfList
<1>2. InList(LineEnd(s))
  BY <1>1, PlaceInList, LineEnds
<1>3. InList(k)
  BY <1>1, <1>2 DEF InList
<1>4. LineEnd(k) = LineEnd(s)
  BY <1>1, <1>3, EndKnown
<1> DEFINE e == LineEnd(s)
<1>5. EndOfLine(k) = IF Type(e) = "eol" THEN e + 1 ELSE e
  BY <1>4 DEF EndOfLine
<1>6. Paused(EndOfLine(k))
  <2>1. CASE Type(e) = "eol"
    <3>1. EndOfLine(k) - 1 = e
      BY <1>1, <1>5, <2>1
    <3>2. QED  BY <2>1, <3>1 DEF Paused, AtStart
  <2>2. CASE Type(e) # "eol"
    BY <1>1, <1>5, <2>2 DEF Paused, Ending, EndsLine
  <2>3. QED  BY <2>1, <2>2
<1>7. QED  BY <1>1, <1>4, <1>5, <1>6

\* A line begins where one has ended.
LEMMA LineBegins ==
  ASSUME IsTokenList(source), NEW k, InList(k), Paused(k), ~EndsLine(k)
  PROVE  k \in Filled
<1>1. Type(k) # "none" /\ Type(k) \notin Ending
  BY DEF EndsLine, Ending
<1>2. AtStart(k) /\ k \in Nat \ {0}
  BY <1>1, TypesOfList DEF Paused, InList
<1>3. k \in 1 .. Len(source)
  BY <1>1, <1>2, TypesOfList DEF InList
<1>4. QED  BY <1>2, <1>3 DEF Filled, Starts, AtStart

\* At the end of the list all lines have been read.
LEMMA AllRead ==
  ASSUME IsTokenList(source), NEW k, InList(k), Type(k) \in Ending
  PROVE  \A s \in Filled : s < k
<1>1. k \in Nat \ {0} /\ Len(source) \in Nat /\ k <= Len(source) + 1
  BY TypesOfList DEF InList
<1>2. ASSUME NEW s \in Filled PROVE s < k
  <2>1. s \in 1 .. Len(source) /\ ~EndsLine(s)
    BY LineRead
  <2>2. s # k
    BY <2>1 DEF Ending, EndsLine
  <2>3. CASE Type(k) = "none"
    <3>1. ~(k <= Len(source))
      BY <1>1, <2>3, TypesOfList
    <3>2. QED  BY <1>1, <2>1, <3>1
  <2>4. CASE Type(k) = "eoft"
    <3>1. k <= Len(source)
      BY <1>1, <2>4, TypesOfList
    <3>2. k = Len(source)
      BY <1>1, <2>4, <3>1, TypesOfList
    <3>3. QED  BY <1>1, <2>1, <2>2, <3>2
  <2>5. QED  BY <2>3, <2>4 DEF Ending
<1>3. QED  BY <1>2

-----------------------------------------------------------------------------
(* The source does not change *)

LineEndIn(list, k) ==
  CHOOSE e \in k .. Len(list) + 1 :
    LET Ends(j) == (IF j <= Len(list) THEN list[j].type ELSE "none") \in {"eol", "eoft", "none"}
    IN  Ends(e) /\ \A j \in k .. e - 1 : ~Ends(j)

LEMMA LineEndOfSource == \A k : LineEnd(k) = LineEndIn(source, k)
BY DEF LineEnd, LineEndIn, EndsLine, Type

LEMMA LinesKept ==
  ASSUME source' = source
  PROVE  /\ Filled' = Filled
         /\ \A k : /\ Type(k)' = Type(k) /\ EndsLine(k)' = EndsLine(k) /\ BodyAt(k)' = BodyAt(k)
                   /\ HasLabel(k)' = HasLabel(k) /\ Waits(k)' = Waits(k)
                   /\ IsLegal(k)' = IsLegal(k) /\ Opened(k)' = Opened(k)
                   /\ SoundBefore(k)' = SoundBefore(k) /\ Paused(k)' = Paused(k)
                   /\ AtStart(k)' = AtStart(k)
                   /\ AfterWaits(k)' = AfterWaits(k) /\ AfterInstruction(k)' = AfterInstruction(k)
                   /\ LineEnd(k)' = LineEnd(k) /\ IsMacroLine(k)' = IsMacroLine(k)
         /\ Starts' = Starts
<1>1. /\ \A k : Type(k)' = Type(k)
      /\ \A k : EndsLine(k)' = EndsLine(k)
  BY DEF Type, EndsLine
<1>2. \A k : LineEnd(k)' = LineEnd(k)
  <2>1. \A k : LineEnd(k)' = LineEndIn(source', k)
    BY DEF LineEnd, LineEndIn, EndsLine, Type
  <2>2. QED  BY <2>1, LineEndOfSource
<1>3. Filled' = Filled /\ Starts' = Starts
  BY <1>1 DEF Filled, Starts
<1>4. \A k : HasLabel(k)' = HasLabel(k)
  BY <1>1, Zenon DEF HasLabel
<1>5. \A k : Line(k)' = Line(k)
  BY <1>1, <1>2, Zenon DEF Line
<1>6. \A k : Body(k)' = Body(k)
  BY <1>4, <1>5, Zenon DEF Body
<1>7. \A k : IsInstruction(k)' = IsInstruction(k)
  BY <1>6, Zenon DEF IsInstruction
<1>8. \A k : IsGuidance(k)' = IsGuidance(k)
  BY <1>1, <1>2, <1>6, Zenon DEF IsGuidance, IsData
<1>9. \A k : IsDeclaration(k)' = IsDeclaration(k) /\ IsMacroLine(k)' = IsMacroLine(k)
  BY <1>1, <1>5, Zenon DEF IsDeclaration, IsMacroLine
<1>10. \A k : Waits(k)' = Waits(k)
  BY <1>4, <1>6, Zenon DEF Waits
<1>11. \A k : AfterWaits(k)' = AfterWaits(k) /\ AfterInstruction(k)' = AfterInstruction(k)
  BY <1>3, <1>7, <1>10, Zenon DEF AfterWaits, AfterInstruction, Previous
<1>12. \A k : Sound(k)' = Sound(k)
  BY <1>4, <1>7, <1>8, <1>9, <1>10, <1>11, Zenon DEF Sound
<1>13. \A k : IsLegal(k)' = IsLegal(k)
  <2>1. \A k : (IsLegal(k) <=> Sound(k) /\ (Waits(k) => \E t \in Filled : t > k))'
    BY Zenon DEF IsLegal, Sound, AfterWaits, AfterInstruction
  <2>2. QED  BY <1>3, <1>10, <1>12, <2>1, LegalIsSound, Zenon
<1>14. \A k : SoundBefore(k)' = SoundBefore(k)
  BY <1>3, <1>12, Zenon DEF SoundBefore
<1>15. \A k : Opened(k)' = Opened(k)
  BY <1>3, <1>4, <1>11, <1>14, Zenon DEF Opened
<1>16. \A k : AtStart(k)' = AtStart(k) /\ Paused(k)' = Paused(k)
  BY <1>1, Zenon DEF AtStart, Paused
<1>17. \A k : BodyAt(k)' = BodyAt(k)
  BY <1>4, Zenon DEF BodyAt
<1>18. QED
  BY <1>1, <1>2, <1>3, <1>4, <1>9, <1>10, <1>11, <1>13, <1>14, <1>15, <1>16, <1>17, Zenon

-----------------------------------------------------------------------------
(* Steps *)

\* A step from a state without errors: the line it finds an error on is not
\* legal, and without an error the lines behind it are.
Judged ==
  /\ error_list' # <<>> => \E s \in Filled : ~IsLegal(s)
  /\ error_list' = <<>> => NoErrorInv'

Judging == IInv /\ NoErrorInv /\ error_list = <<>> /\ source' = source

LEMMA Wrong ==
  ASSUME Judging, NEW s \in Filled, ~IsLegal(s), NEW k, Error(k)
  PROVE  Judged
<1>1. error_list' = <<k>>
  BY DEF Judging, Error
<1>2. error_list' # <<>>
  BY <1>1
<1>3. QED  BY <1>2 DEF Judged

LEMMA Right ==
  ASSUME Judging, NEW k, Continue(k), NoErrorInv'
  PROVE  Judged
BY DEF Judging, Continue, Judged

LEMMA JudgingTyped ==
  ASSUME Judging
  PROVE  /\ IsTokenList(source) /\ InList(tokens) /\ tokens \in Nat \ {0} /\ Len(source) \in Nat
         /\ NodesInv
BY CursorTyped DEF Judging, IInv

\* A cursor within a line.
LEMMA WithinLine ==
  ASSUME IsTokenList(source), NEW s \in Filled, NEW k \in Nat, s <= k,
         \A j \in s .. k - 1 : ~EndsLine(j)
  PROVE  k <= LineEnd(s)
<1>1. s \in Nat /\ LineEnd(s) \in Nat /\ s < LineEnd(s) /\ EndsLine(LineEnd(s))
  BY LineRead
<1>2. QED  BY <1>1

\* A line is left behind.
LEMMA LineDone ==
  ASSUME IsTokenList(source), NEW s \in Filled, SoundBefore(s), Sound(s),
         NEW k \in Nat, s < k, k <= LineEnd(s) + 1
  PROVE  /\ SoundBefore(k)
         /\ AfterWaits(k) <=> Waits(s)
         /\ AfterInstruction(k) <=> IsInstruction(s)
BY AfterEndOfLine, AfterLine

LEMMA UnitGoesOn ==
  ASSUME source' = source, pc' = "unit", NEW k, tokens' = k,
         Paused(k), SoundBefore(k), ~AfterWaits(k),
         AfterInstruction(k) => Type(k) \notin Operation \union {"eol"}
  PROVE  NoErrorInv'
<1>1. /\ Paused(tokens)' /\ SoundBefore(tokens)' /\ ~AfterWaits(tokens)'
      /\ (AfterInstruction(tokens)' => Type(tokens)' \notin Operation \union {"eol"})
  BY LinesKept
<1>2. pc' \notin {"labelled", "instructions", "guidance", "data", "done"}
  OBVIOUS
<1>3. QED  BY <1>1, <1>2 DEF NoErrorInv

LEMMA InstructionsGoOn ==
  ASSUME source' = source, pc' = "instructions", nodes' # <<>>, NEW k, tokens' = k,
         Paused(k) \/ Type(k) = "eol", SoundBefore(k), AfterInstruction(k)
  PROVE  NoErrorInv'
<1>1. /\ Paused(tokens)' \/ Type(tokens)' = "eol"
      /\ SoundBefore(tokens)' /\ AfterInstruction(tokens)'
  BY LinesKept
<1>2. pc' \notin {"unit", "labelled", "guidance", "data", "done"}
  OBVIOUS
<1>3. QED  BY <1>1, <1>2 DEF NoErrorInv

LEMMA GuidanceGoesOn ==
  ASSUME source' = source, pc' = "guidance", nodes' # <<>>, NEW k, tokens' = k,
         Paused(k), SoundBefore(k), ~AfterWaits(k), ~AfterInstruction(k)
  PROVE  NoErrorInv'
<1>1. /\ Paused(tokens)' /\ SoundBefore(tokens)' /\ ~AfterWaits(tokens)'
      /\ ~AfterInstruction(tokens)'
  BY LinesKept
<1>2. pc' \notin {"unit", "labelled", "instructions", "data", "done"}
  OBVIOUS
<1>3. QED  BY <1>1, <1>2 DEF NoErrorInv

LEMMA LoopBegins ==
  ASSUME source' = source, pc' \in {"instructions", "guidance"}, nodes' = <<>>,
         NEW s \in Filled, Opened(s), BodyAt(s) = tokens',
         pc' = "instructions" => HasLabel(s) \/ AfterWaits(s)
  PROVE  NoErrorInv'
<1>1. s \in Filled' /\ Opened(s)' /\ BodyAt(s)' = tokens'
      /\ (pc' = "instructions" => HasLabel(s)' \/ AfterWaits(s)')
  BY LinesKept
<1>2. pc' \notin {"unit", "labelled", "data", "done"}
  OBVIOUS
<1>3. QED  BY <1>1, <1>2 DEF NoErrorInv

\* Only a line that waits has another statement follow it.
LEMMA AfterOne ==
  ASSUME IsTokenList(source), NEW k, AfterInstruction(k)
  PROVE  ~AfterWaits(k)
<1>1. PICK p \in Filled : p < k /\ IsInstruction(p) /\ \A q \in Filled : q < k => q <= p
  BY DEF AfterInstruction, Previous
<1>2. ASSUME AfterWaits(k) PROVE FALSE
  <2>1. PICK r \in Filled : r < k /\ Waits(r) /\ \A q \in Filled : q < k => q <= r
    BY <1>2 DEF AfterWaits, Previous
  <2>2. p <= r /\ r <= p /\ p \in Nat /\ r \in Nat
    BY <1>1, <2>1, LineRead
  <2>3. p = r
    BY <2>2
  <2>4. QED  BY <1>1, <2>1, <2>3, KindsApart
<1>3. QED  BY <1>2

\* A statement in the loop over the unit begins its line.
LEMMA UnitLine ==
  ASSUME Judging, pc = "unit", ~EndsLine(tokens)
  PROVE  /\ tokens \in Filled /\ SoundBefore(tokens) /\ ~AfterWaits(tokens)
         /\ AfterInstruction(tokens) => Type(tokens) \notin Operation
         /\ Opened(tokens)
<1>1. tokens \in Filled
  BY JudgingTyped, LineBegins DEF Judging, NoErrorInv
<1>2. QED  BY <1>1 DEF Judging, NoErrorInv, Opened

LEMMA JudgeEmptyLine ==
  ASSUME Judging, SkipEmptyLine
  PROVE  Judged
<1>1. /\ pc \in {"unit", "labelled", "instructions", "guidance"} /\ Type(tokens) = "eol"
      /\ Continue(tokens + 1) /\ UNCHANGED <<source, pc, label, nodes>>
      /\ tokens' = tokens + 1
  BY DEF SkipEmptyLine, Continue
<1>2. tokens \in Nat \ {0} /\ IsTokenList(source) /\ NodesInv
  BY JudgingTyped
<1> DEFINE k == tokens + 1
<1>3. /\ AfterWaits(k) <=> AfterWaits(tokens)
      /\ AfterInstruction(k) <=> AfterInstruction(tokens)
      /\ SoundBefore(k) <=> SoundBefore(tokens)
      /\ \A q \in Filled : q < k <=> q < tokens
  BY <1>1, <1>2, AfterEmptyLine
<1>4. k - 1 = tokens
  BY <1>2
<1>5. AtStart(k) /\ Paused(k) /\ k \in Nat
  BY <1>1, <1>2, <1>4 DEF AtStart, Paused
<1> HIDE DEF k
<1>6. CASE pc = "unit"
  <2>1. SoundBefore(tokens) /\ ~AfterWaits(tokens) /\ ~AfterInstruction(tokens)
    BY <1>1, <1>6 DEF Judging, NoErrorInv
  <2>2. NoErrorInv'
    BY <1>1, <1>3, <1>5, <1>6, <2>1, UnitGoesOn DEF k
  <2>3. QED  BY <1>1, <2>2, Right
<1>7. CASE pc = "labelled"
  <2>1. LabelOpened
    BY <1>7 DEF Judging, NoErrorInv
  <2>4. /\ Opened(label) /\ HasLabel(label) /\ Waits(label) /\ label < k
        /\ \A q \in Filled : q < k => q <= label
    <3>1. CASE tokens = label + 2
      <4>1. label \in Filled /\ HasLabel(label) /\ Opened(label)
        BY <2>1 DEF LabelOpened, Opened
      <4>2. BodyAt(label) = tokens /\ label \in Nat
        BY <1>2, <3>1, <4>1, LineRead DEF BodyAt
      <4>3. EndsLine(tokens)
        BY <1>1 DEF EndsLine
      <4>4. Waits(label) /\ tokens = LineEnd(label)
        BY <1>2, <4>1, <4>2, <4>3, KindsOfLine, BodyFirst
      <4>5. label < k /\ k <= LineEnd(label) + 1
        BY <1>2, <3>1, <4>2, <4>4 DEF k
      <4>6. Behindmost(label, k)
        BY <1>2, <1>5, <4>1, <4>5, AfterEndOfLine
      <4>7. QED  BY <4>1, <4>4, <4>6 DEF Behindmost
    <3>2. CASE tokens # label + 2
      <4>1. /\ Opened(label) /\ HasLabel(label) /\ Waits(label) /\ label < tokens
            /\ \A q \in Filled : q < tokens => q <= label
        BY <2>1, <3>2 DEF LabelOpened
      <4>2. label \in Nat
        BY <1>2, <4>1, LineRead DEF Opened
      <4>3. label < k
        BY <1>2, <4>1, <4>2 DEF k
      <4>4. QED  BY <1>3, <4>1, <4>3
    <3>3. QED  BY <3>1, <3>2
  <2>5. LabelOpened'
    BY <1>1, <1>5, <2>4, LinesKept DEF LabelOpened, k
  <2>6. pc' = "labelled"
    BY <1>1, <1>7
  <2>7. NoErrorInv'
    BY <2>5, <2>6 DEF NoErrorInv
  <2>8. QED  BY <1>1, <2>7, Right
<1>8. CASE pc = "instructions"
  <2>1. nodes # <<>>
    BY <1>1, <1>2, <1>8, Beginnings DEF NodesInv
  <2>2. SoundBefore(tokens) /\ AfterInstruction(tokens)
    BY <1>8, <2>1 DEF Judging, NoErrorInv
  <2>3. NoErrorInv'
    BY <1>1, <1>3, <1>5, <1>8, <2>1, <2>2, InstructionsGoOn DEF k
  <2>4. QED  BY <1>1, <2>3, Right
<1>9. CASE pc = "guidance"
  <2>1. nodes # <<>>
    BY <1>1, <1>2, <1>9, Beginnings DEF NodesInv
  <2>2. SoundBefore(tokens) /\ ~AfterWaits(tokens) /\ ~AfterInstruction(tokens)
    BY <1>9, <2>1 DEF Judging, NoErrorInv
  <2>3. NoErrorInv'
    BY <1>1, <1>3, <1>5, <1>9, <2>1, <2>2, GuidanceGoesOn DEF k
  <2>4. QED  BY <1>1, <2>3, Right
<1>10. QED  BY <1>1, <1>6, <1>7, <1>8, <1>9

\* A statement of the unit that is no label.
LEMMA Unlabelled ==
  ASSUME IsTokenList(source), NEW s \in Filled, Type(s) # "identifier"
  PROVE  ~HasLabel(s) /\ BodyAt(s) = s /\ ~Waits(s)
BY BodyBegins, KindsOfLine

LEMMA JudgeDeclaration ==
  ASSUME Judging, pc = "unit", pc' = "unit", Type(tokens) \in {"extern_ins", "entry_ins"},
         OneToken("identifier")
  PROVE  Judged
<1> DEFINE s == tokens
<1>1. /\ IsTokenList(source) /\ ~EndsLine(s) /\ s \in Nat \ {0} /\ source' = source
  BY JudgingTyped DEF EndsLine, Judging
<1>2. s \in Filled /\ SoundBefore(s) /\ ~AfterWaits(s)
  BY <1>1, UnitLine
<1>3. ~HasLabel(s) /\ BodyAt(s) = s /\ ~Waits(s)
  BY <1>1, <1>2, Unlabelled
<1>4. ~IsInstruction(s) /\ ~IsGuidance(s) /\ ~IsMacroLine(s)
  BY <1>1, <1>2, <1>3, KindsOfLine, Beginnings DEF Directive, IsMacroLine
<1>5. IsDeclaration(s) <=> Type(s + 1) = "identifier" /\ EndsLine(s + 2)
  BY <1>1, <1>2, DeclarationAt
<1>6. CASE ~IsDeclaration(s)
  <2>1. ~IsLegal(s)
    BY <1>3, <1>4, <1>6, Shapeless
  <2>2. Error(s + 1) \/ Error(s + 2)
    BY <1>5, <1>6 DEF OneToken
  <2>3. QED  BY <1>2, <2>1, <2>2, Wrong
<1>7. CASE IsDeclaration(s)
  <2>1. Continue(EndOfLine(s + 2))
    BY <1>5, <1>7 DEF OneToken
  <2>2. Sound(s)
    BY <1>2, <1>3, <1>4, <1>7 DEF Sound
  <2>3. ~EndsLine(s + 1)
    BY <1>5, <1>7 DEF EndsLine
  <2>4. s + 2 <= LineEnd(s)
    <3>1. \A j \in s .. (s + 2) - 1 : j = s \/ j = s + 1
      BY <1>1
    <3>2. QED  BY <1>1, <1>2, <2>3, <3>1, WithinLine
  <2> DEFINE k == EndOfLine(s + 2)
  <2>5. k \in Nat /\ s < k /\ k <= LineEnd(s) + 1 /\ Paused(k)
    <3>1. s + 2 \in Nat /\ s <= s + 2
      BY <1>1
    <3>2. QED  BY <1>1, <1>2, <2>4, <3>1, EndOfLineFrom
  <2>6. SoundBefore(k) /\ ~AfterWaits(k) /\ ~AfterInstruction(k)
    <3> HIDE DEF k, s
    <3>1. QED  BY <1>1, <1>2, <1>3, <1>4, <2>2, <2>5, LineDone
  <2>7. tokens' = k
    BY <2>1 DEF Continue
  <2>8. NoErrorInv'
    <3> HIDE DEF k
    <3>1. QED  BY <1>1, <2>5, <2>6, <2>7, UnitGoesOn
  <2>9. QED  BY <2>1, <2>8, Right
<1>8. QED  BY <1>6, <1>7

LEMMA JudgeExternal ==
  ASSUME Judging, ParseExternal \/ ParseEntry
  PROVE  Judged
<1>1. CASE ParseExternal
  BY <1>1, JudgeDeclaration DEF ParseExternal
<1>2. CASE ParseEntry
  <2>1. Type(tokens) = "entry_ins" /\ pc = "unit"
    BY <1>2 DEF ParseEntry
  <2>2. tokens + 1 \in 1 .. Len(source)
    BY <2>1, JudgingTyped, TokenFollows
  <2>3. Type(tokens + 1) # "none"
    BY <2>2, JudgingTyped, TypesOfList
  <2>4. OneToken("identifier") /\ pc' = "unit"
    BY <1>2, <2>1, <2>3 DEF ParseEntry
  <2>5. QED  BY <2>1, <2>4, JudgeDeclaration
<1>3. QED  BY <1>1, <1>2

LEMMA JudgeMacroLine ==
  ASSUME Judging, SkipMacroLine
  PROVE  Judged
<1> DEFINE s == tokens
           k == EndOfLine(s)
<1>1. /\ pc = "unit" /\ pc' = "unit" /\ Type(s) \in {"macr", "endmacr"} /\ Continue(k)
      /\ tokens' = k /\ source' = source
  BY DEF SkipMacroLine, Continue
<1>2. IsTokenList(source) /\ ~EndsLine(s) /\ s \in Nat \ {0}
  BY <1>1, JudgingTyped DEF EndsLine
<1>3. s \in Filled /\ SoundBefore(s) /\ ~AfterWaits(s)
  BY <1>1, <1>2, UnitLine
<1>4. ~HasLabel(s) /\ ~Waits(s) /\ IsMacroLine(s) /\ ~IsInstruction(s)
  BY <1>1, <1>2, <1>3, Unlabelled, KindsApart DEF IsMacroLine
<1>5. Sound(s)
  BY <1>3, <1>4 DEF Sound
<1>6. k \in Nat /\ s < k /\ k <= LineEnd(s) + 1 /\ Paused(k)
  <2>1. s \in Nat /\ s <= s /\ s <= LineEnd(s)
    BY <1>2, <1>3, LineRead
  <2>2. QED  BY <1>2, <1>3, <2>1, EndOfLineFrom
<1>7. SoundBefore(k) /\ ~AfterWaits(k) /\ ~AfterInstruction(k)
  <2> HIDE DEF k, s
  <2>1. QED  BY <1>2, <1>3, <1>4, <1>5, <1>6, LineDone
<1>8. NoErrorInv'
  <2> HIDE DEF k
  <2>1. QED  BY <1>1, <1>6, <1>7, UnitGoesOn
<1>9. QED  BY <1>1, <1>8, Right

LEMMA JudgeUnexpected ==
  ASSUME Judging, UnexpectedToken
  PROVE  Judged
<1> DEFINE s == tokens
<1>1. /\ pc = "unit" /\ Error(s)
      /\ Type(s) \notin Directive \union {"identifier", "macr", "endmacr", "eol", "eoft", "none"}
  BY DEF UnexpectedToken
<1>2. IsTokenList(source) /\ ~EndsLine(s)
  BY <1>1, JudgingTyped DEF EndsLine
<1>3. /\ s \in Filled /\ ~AfterWaits(s)
      /\ AfterInstruction(s) => Type(s) \notin Operation
  BY <1>1, <1>2, UnitLine
<1>4. ~HasLabel(s) /\ BodyAt(s) = s /\ ~Waits(s)
  BY <1>1, <1>2, <1>3, Unlabelled
<1>5. /\ IsInstruction(s) => Type(s) \in Operation
      /\ ~IsGuidance(s) /\ ~IsDeclaration(s) /\ ~IsMacroLine(s)
  BY <1>1, <1>2, <1>3, <1>4, KindsOfLine DEF Directive, IsMacroLine
<1>6. ~IsLegal(s)
  <2>1. CASE ~IsInstruction(s)
    BY <1>4, <1>5, <2>1, Shapeless
  <2>2. CASE IsInstruction(s)
    BY <1>3, <1>4, <1>5, <2>2, LegalIsSound DEF Sound
  <2>3. QED  BY <2>1, <2>2
<1>7. QED  BY <1>1, <1>3, <1>6, Wrong

LEMMA JudgeLabel ==
  ASSUME Judging, ParseLabel
  PROVE  Judged
<1> DEFINE s == tokens
<1>1. pc = "unit" /\ Type(s) = "identifier" /\ source' = source
  BY DEF ParseLabel
<1>2. IsTokenList(source) /\ ~EndsLine(s) /\ s \in Nat \ {0}
  BY <1>1, JudgingTyped DEF EndsLine
<1>3. s \in Filled /\ Opened(s)
  BY <1>1, <1>2, UnitLine
<1>4. CASE HasLabel(s)
  <2>1. Continue(s + 2) /\ pc' = "labelled" /\ label' = s /\ tokens' = s + 2
    BY <1>4 DEF ParseLabel, HasLabel, Continue
  <2>2. LabelOpened'
    <3>1. \A m : m = s => Opened(m)' /\ HasLabel(m)'
      BY <1>1, <1>3, <1>4, LinesKept
    <3>2. Opened(label)' /\ HasLabel(label)'
      BY <2>1, <3>1
    <3>3. QED  BY <2>1, <3>2 DEF LabelOpened
  <2>3. NoErrorInv'
    BY <2>1, <2>2 DEF NoErrorInv
  <2>4. QED  BY <2>1, <2>3, Right
<1>5. CASE ~HasLabel(s)
  <2>1. Error(s + 1)
    BY <1>1, <1>5 DEF ParseLabel, HasLabel
  <2>2. Type(BodyAt(s)) = "identifier" /\ ~Waits(s)
    BY <1>1, <1>2, <1>3, <1>5, KindsOfLine
  <2>3. ~IsInstruction(s) /\ ~IsGuidance(s) /\ ~IsDeclaration(s) /\ ~IsMacroLine(s)
    BY <1>1, <1>2, <1>3, <2>2, KindsOfLine, Beginnings DEF IsMacroLine
  <2>4. ~IsLegal(s)
    BY <2>2, <2>3, Shapeless
  <2>5. QED  BY <1>3, <2>1, <2>4, Wrong
<1>6. QED  BY <1>4, <1>5

\* A label waits for the first token of a line, or of what is left of its own.
LEMMA LabelFollowed ==
  ASSUME Judging, LabelOpened, ~EndsLine(tokens)
  PROVE  \/ tokens = label + 2 /\ label \in Filled /\ BodyAt(label) = tokens
         \/ /\ tokens \in Filled /\ SoundBefore(tokens) /\ AfterWaits(tokens)
<1>1. IsTokenList(source) /\ InList(tokens) /\ tokens \in Nat \ {0}
  BY JudgingTyped
<1>2. label \in Filled /\ HasLabel(label) /\ ~AfterWaits(label) /\ SoundBefore(label)
  BY DEF LabelOpened, Opened
<1>3. CASE tokens = label + 2
  BY <1>2, <1>3 DEF BodyAt
<1>4. CASE tokens # label + 2
  <2>1. Waits(label) /\ AtStart(tokens) /\ Behindmost(label, tokens)
    BY <1>4 DEF LabelOpened, Behindmost
  <2>2. Paused(tokens)
    BY <2>1 DEF Paused
  <2>3. tokens \in Filled
    BY <1>1, <2>2, LineBegins
  <2>4. ~IsInstruction(label)
    BY <1>1, <1>2, <2>1, KindsApart
  <2>5. Sound(label)
    BY <1>2, <2>1, <2>4 DEF Sound
  <2>6. SoundBefore(tokens) /\ AfterWaits(tokens)
    BY <1>1, <1>2, <2>1, <2>5, AfterLine
  <2>7. QED  BY <2>3, <2>6
<1>5. QED  BY <1>3, <1>4

LEMMA JudgeBegin ==
  ASSUME Judging, BeginInstructions \/ BeginGuidance
  PROVE  Judged
<1>1. /\ UNCHANGED <<source, tokens, nodes, error_list>> /\ pc \in {"unit", "labelled"}
      /\ \/ pc' = "instructions" /\ pc = "labelled" /\ Type(tokens) \in Operation
         \/ pc' = "guidance" /\ Type(tokens) \in {"data_ins", "string_ins"}
  BY DEF BeginInstructions, BeginGuidance
<1>2. IsTokenList(source) /\ nodes = <<>>
  BY <1>1, JudgingTyped DEF NodesInv
<1>3. ~EndsLine(tokens) /\ Type(tokens) # "identifier"
  BY <1>1, Beginnings DEF EndsLine, Directive
<1>4. \E s \in Filled : /\ Opened(s) /\ BodyAt(s) = tokens
                        /\ pc = "labelled" => HasLabel(s) \/ AfterWaits(s)
  <2>1. CASE pc = "unit"
    <3>1. tokens \in Filled /\ Opened(tokens)
      BY <1>3, <2>1, UnitLine
    <3>2. BodyAt(tokens) = tokens
      BY <1>2, <1>3, <3>1, Unlabelled
    <3>3. QED  BY <2>1, <3>1, <3>2
  <2>2. CASE pc = "labelled"
    <3>1. LabelOpened
      BY <2>2 DEF Judging, NoErrorInv
    <3>2. CASE tokens = label + 2 /\ label \in Filled /\ BodyAt(label) = tokens
      BY <3>1, <3>2 DEF LabelOpened
    <3>3. CASE tokens \in Filled /\ SoundBefore(tokens) /\ AfterWaits(tokens)
      <4>1. ~HasLabel(tokens) /\ BodyAt(tokens) = tokens
        BY <1>2, <1>3, <3>3, Unlabelled
      <4>2. Opened(tokens)
        BY <3>3, <4>1 DEF Opened
      <4>3. QED  BY <3>3, <4>1, <4>2
    <3>4. QED  BY <1>3, <3>1, <3>2, <3>3, LabelFollowed
  <2>3. QED  BY <1>1, <2>1, <2>2
<1>5. PICK s \in Filled : /\ Opened(s) /\ BodyAt(s) = tokens
                          /\ pc = "labelled" => HasLabel(s) \/ AfterWaits(s)
  BY <1>4
<1>6. pc' \in {"instructions", "guidance"} /\ nodes' = <<>> /\ BodyAt(s) = tokens'
      /\ (pc' = "instructions" => HasLabel(s) \/ AfterWaits(s))
  BY <1>1, <1>2, <1>5
<1>7. NoErrorInv'
  BY <1>1, <1>5, <1>6, LoopBegins
<1>8. Continue(tokens)
  BY <1>1, Standing
<1>9. QED  BY <1>7, <1>8, Right

\* There is a token behind a label.
LEMMA LabelNotLast ==
  ASSUME Judging, LabelOpened
  PROVE  Type(tokens) # "none"
<1>1. IsTokenList(source) /\ InList(tokens) /\ tokens \in Nat \ {0} /\ Len(source) \in Nat
  BY JudgingTyped
<1>2. label \in Filled /\ HasLabel(label) /\ label \in Nat \ {0}
  BY <1>1, LineRead DEF LabelOpened, Opened
<1>3. Type(tokens - 1) \in {"colon", "eol"} /\ tokens # 1
  <2>1. CASE tokens = label + 2
    <3>1. tokens - 1 = label + 1 /\ tokens # 1
      BY <1>2, <2>1
    <3>2. QED  BY <1>2, <3>1 DEF HasLabel
  <2>2. CASE tokens # label + 2
    <3>1. AtStart(tokens) /\ label < tokens
      BY <2>2 DEF LabelOpened
    <3>2. tokens # 1
      BY <1>2, <3>1
    <3>3. QED  BY <3>1, <3>2 DEF AtStart
  <2>3. QED  BY <2>1, <2>2
<1>4. SUFFICES ASSUME Type(tokens) = "none" PROVE FALSE
  OBVIOUS
<1>5. ~(tokens <= Len(source))
  BY <1>1, <1>4, TypesOfList
<1>6. tokens - 1 = Len(source)
  BY <1>1, <1>5 DEF InList
<1>7. QED  BY <1>1, <1>3, <1>6, TypesOfList

LEMMA JudgeDrop ==
  ASSUME Judging, DropLabel
  PROVE  Judged
<1>1. /\ pc = "labelled" /\ (Type(tokens) = "none" \/ Error(tokens))
      /\ Type(tokens) \notin Operation \union {"data_ins", "string_ins", "eol"}
  BY DEF DropLabel
<1>2. /\ IsTokenList(source) /\ InList(tokens) /\ tokens \in Nat \ {0} /\ LabelOpened
      /\ Len(source) \in Nat
  BY <1>1, JudgingTyped DEF Judging, NoErrorInv
<1>3. label \in Filled /\ HasLabel(label) /\ label \in Nat \ {0}
  BY <1>2, LineRead DEF LabelOpened, Opened
<1>4. Type(tokens) # "none"
  BY <1>2, LabelNotLast
<1>5. Error(tokens)
  BY <1>1, <1>4
<1>6. CASE EndsLine(tokens)
  <2>1. Type(tokens) = "eoft" /\ Type(tokens) \in Ending
    BY <1>1, <1>4, <1>6 DEF EndsLine, Ending
  <2>2. \A t \in Filled : t < tokens
    BY <1>2, <2>1, AllRead
  <2>3. Waits(label) /\ \A t \in Filled : t < tokens => t <= label
    <3>1. CASE tokens = label + 2
      <4>1. BodyAt(label) = tokens
        BY <1>3, <3>1 DEF BodyAt
      <4>2. Waits(label) /\ tokens = LineEnd(label)
        BY <1>2, <1>3, <1>6, <4>1, KindsOfLine, BodyFirst
      <4>3. Behindmost(label, tokens)
        <5>1. label < tokens /\ tokens <= LineEnd(label) + 1
          BY <1>2, <1>3, <3>1, <4>2
        <5>2. QED  BY <1>2, <1>3, <5>1, AfterEndOfLine
      <4>4. QED  BY <4>2, <4>3 DEF Behindmost
    <3>2. CASE tokens # label + 2
      BY <1>2, <3>2 DEF LabelOpened
    <3>3. QED  BY <3>1, <3>2
  <2>4. \A t \in Filled : ~(t > label)
    <3>1. \A t \in Filled : t \in Nat /\ t <= label
      BY <1>2, <2>2, <2>3, LineRead
    <3>2. QED  BY <1>3, <3>1
  <2>5. ~IsLegal(label)
    BY <2>3, <2>4, LegalIsSound
  <2>6. QED  BY <1>3, <1>5, <2>5, Wrong
<1>7. CASE ~EndsLine(tokens)
  <2>1. CASE tokens = label + 2 /\ label \in Filled /\ BodyAt(label) = tokens
    <3>1. ~IsInstruction(label) /\ ~IsGuidance(label) /\ ~Waits(label)
      BY <1>1, <1>2, <1>7, <2>1, KindsOfLine
    <3>2. ~IsLegal(label)
      BY <1>3, <3>1, Shapeless
    <3>3. QED  BY <1>3, <1>5, <3>2, Wrong
  <2>2. CASE tokens \in Filled /\ SoundBefore(tokens) /\ AfterWaits(tokens)
    <3>1. ~HasLabel(tokens) => ~IsInstruction(tokens) /\ ~IsGuidance(tokens)
      BY <1>1, <1>2, <2>2, KindsOfLine
    <3>2. ~IsLegal(tokens)
      BY <2>2, <3>1, LegalIsSound DEF Sound
    <3>3. QED  BY <1>5, <2>2, <3>2, Wrong
  <2>3. QED  BY <1>2, <1>7, <2>1, <2>2, LabelFollowed
<1>8. QED  BY <1>6, <1>7

LEMMA SomeNodes ==
  ASSUME IInv, NEW node, nodes' = Append(nodes, node)
  PROVE  nodes' # <<>> /\ nodes'[Len(nodes')] = node
<1>1. nodes \in Seq(NodeType \union {node}) /\ node \in NodeType \union {node}
  BY TreesTyped
<1> DEFINE S == NodeType \union {node}
<1> HIDE DEF S
<1>2. QED  BY <1>1 DEF S


\* The line of an operation in the loop over instructions.
LEMMA InstructionLine ==
  ASSUME Judging, pc = "instructions", Type(tokens) \in Operation
  PROVE  \E s \in Filled : /\ Opened(s) /\ BodyAt(s) = tokens
                           /\ HasLabel(s) \/ AfterWaits(s) \/ AfterInstruction(s)
<1>1. CASE nodes = <<>>
  BY <1>1 DEF Judging, NoErrorInv
<1>2. CASE nodes # <<>>
  <2>1. (Paused(tokens) \/ Type(tokens) = "eol") /\ SoundBefore(tokens) /\ AfterInstruction(tokens)
    BY <1>2 DEF Judging, NoErrorInv
  <2>2. ~EndsLine(tokens) /\ Type(tokens) # "identifier" /\ Type(tokens) # "eol"
    BY Beginnings DEF EndsLine
  <2>3. tokens \in Filled
    BY <2>1, <2>2, JudgingTyped, LineBegins
  <2>4. ~HasLabel(tokens) /\ BodyAt(tokens) = tokens
    BY <2>2, <2>3, JudgingTyped, Unlabelled
  <2>5. QED  BY <2>1, <2>3, <2>4 DEF Opened
<1>3. QED  BY <1>1, <1>2

LEMMA JudgeInstruction ==
  ASSUME Judging, ParseInstruction
  PROVE  Judged
<1> DEFINE first == tokens + 1
           comma == OperandAt(first) + 1
           second == comma + 1
           last == OperandAt(second) + 1
<1>1. /\ pc = "instructions" /\ Type(tokens) \in Operation /\ pc' = "instructions"
      /\ source' = source
  BY DEF ParseInstruction
<1>2. IsTokenList(source) /\ tokens \in Nat \ {0} /\ ~EndsLine(tokens)
  BY <1>1, JudgingTyped, Beginnings DEF EndsLine
<1>3. PICK s \in Filled : /\ Opened(s) /\ BodyAt(s) = tokens
                          /\ HasLabel(s) \/ AfterWaits(s) \/ AfterInstruction(s)
  BY <1>1, InstructionLine
<1>4. first \in 1 .. Len(source) /\ first \in Nat \ {0}
  BY <1>1, <1>2, TokenFollows, Beginnings
<1>5. nodes' # <<>>
  <2>1. PICK node : nodes' = Append(nodes, node)
    BY InstructionRead DEF Judging
  <2>2. QED  BY <2>1, SomeNodes DEF Judging
<1>6. ASSUME NEW k, Error(k), ~InstructionRest(first) PROVE Judged
  <2>1. ~IsInstruction(s)
    BY <1>2, <1>3, <1>6, InstructionAt
  <2>2. ~IsGuidance(s) /\ ~Waits(s) /\ (~HasLabel(s) => ~IsDeclaration(s) /\ ~IsMacroLine(s))
    BY <1>1, <1>2, <1>3, KindsOfLine, Beginnings DEF Directive, IsMacroLine
  <2>3. ~IsLegal(s)
    BY <2>1, <2>2, Shapeless
  <2>4. QED  BY <1>6, <2>3, Wrong
<1>7. ASSUME NEW k \in Nat, Continue(k), InstructionRest(first), EndsLine(k), first <= k,
             \A j \in first .. k - 1 : ~EndsLine(j)
      PROVE  Judged
  <2>1. IsInstruction(s)
    BY <1>1, <1>2, <1>3, <1>7, InstructionAt
  <2>2. Sound(s)
    BY <1>3, <2>1 DEF Sound, Opened
  <2>3. /\ LineEnd(s) \in Nat /\ s \in Nat /\ s <= tokens /\ s < LineEnd(s)
        /\ \A j \in s .. LineEnd(s) - 1 : ~EndsLine(j)
    BY <1>2, <1>3, LineRead, BodyBegins
  <2>4. k <= LineEnd(s)
    <3>1. tokens <= LineEnd(s) /\ EndsLine(LineEnd(s))
      BY <1>2, <1>3, LineRead, BodyBegins
    <3>2. tokens # LineEnd(s)
      BY <1>2, <3>1
    <3>3. first <= LineEnd(s)
      BY <1>2, <2>3, <3>1, <3>2
    <3>4. QED  BY <1>4, <1>7, <2>3, <3>1, <3>3
  <2>5. s < k /\ k <= LineEnd(s) + 1
    BY <1>2, <1>7, <2>3, <2>4
  <2>6. SoundBefore(k) /\ AfterInstruction(k)
    BY <1>2, <1>3, <2>1, <2>2, <2>5, LineDone DEF Opened
  <2>7. Paused(k) \/ Type(k) = "eol"
    BY <1>7 DEF EndsLine, Paused, Ending
  <2>8. tokens' = k
    BY <1>7 DEF Continue
  <2>9. NoErrorInv'
    BY <1>1, <1>5, <2>6, <2>7, <2>8, InstructionsGoOn
  <2>10. QED  BY <1>7, <2>9, Right
<1>8. ASSUME NEW k \in 1 .. Len(source), OperandError(k) PROVE Error(k) \/ Error(k + 1)
  <2>1. Type(k) # "none"
    BY <1>2, TypesOfList
  <2>2. QED  BY <1>8, <2>1 DEF OperandError
<1>9. \/ EndsLine(first) /\ Continue(first)
      \/ ~EndsLine(first) /\ ~IsOperand(first) /\ OperandError(first)
      \/ /\ ~EndsLine(first) /\ IsOperand(first)
         /\ \/ EndsLine(comma) /\ Continue(comma)
            \/ ~EndsLine(comma) /\ Type(comma) # "comma" /\ Error(comma)
            \/ Type(comma) = "comma" /\ ~IsOperand(second) /\ OperandError(second)
            \/ /\ Type(comma) = "comma" /\ IsOperand(second)
               /\ IF EndsLine(last) THEN Continue(last) ELSE Error(last)
  BY Zenon DEF ParseInstruction
<1>10. CASE EndsLine(first) /\ Continue(first)
  <2>1. InstructionRest(first)
    BY <1>10 DEF InstructionRest
  <2>2. \A j \in first .. first - 1 : ~EndsLine(j)
    BY <1>4
  <2> HIDE DEF first
  <2>3. QED  BY <1>4, <1>7, <1>10, <2>1, <2>2
<1>11. CASE ~EndsLine(first) /\ ~IsOperand(first) /\ OperandError(first)
  <2>1. ~InstructionRest(first)
    BY <1>11 DEF InstructionRest
  <2> HIDE DEF first
  <2>2. QED  BY <1>4, <1>6, <1>8, <1>11, <2>1
<1>12. ASSUME IsOperand(first)
       PROVE  /\ comma \in Nat \ {0} /\ first <= comma /\ ~EndsLine(first)
              /\ \A j \in first .. comma - 1 : ~EndsLine(j)
  <2>1. /\ OperandAt(first) \in {first, first + 1}
        /\ \A j \in first .. OperandAt(first) : ~EndsLine(j)
        /\ ~EndsLine(first)
    BY <1>4, <1>12, OperandEndsBehind
  <2> HIDE DEF first
  <2>2. QED  BY <1>4, <2>1
<1>13. CASE IsOperand(first) /\ EndsLine(comma) /\ Continue(comma)
  <2>1. InstructionRest(first)
    BY <1>13 DEF InstructionRest
  <2> HIDE DEF first, comma
  <2>2. QED  BY <1>7, <1>12, <1>13, <2>1
<1>14. CASE IsOperand(first) /\ ~EndsLine(comma) /\ Type(comma) # "comma" /\ Error(comma)
  <2>1. ~InstructionRest(first)
    BY <1>12, <1>14 DEF InstructionRest
  <2> HIDE DEF first, comma
  <2>2. QED  BY <1>6, <1>14, <2>1
<1>15. ASSUME IsOperand(first), Type(comma) = "comma"
       PROVE  second \in 1 .. Len(source) /\ second \in Nat \ {0} /\ ~EndsLine(comma)
  <2>1. comma \in Nat \ {0}
    BY <1>12, <1>15
  <2> HIDE DEF comma
  <2>2. QED  BY <1>2, <1>15, <2>1, TokenFollows DEF EndsLine
<1>16. CASE IsOperand(first) /\ Type(comma) = "comma" /\ ~IsOperand(second) /\ OperandError(second)
  <2>1. ~InstructionRest(first)
    <3>1. ~EndsLine(first) /\ ~EndsLine(comma)
      BY <1>12, <1>15, <1>16
    <3>2. QED  BY <1>16, <3>1 DEF InstructionRest
  <2>2. second \in 1 .. Len(source)
    BY <1>15, <1>16
  <2> HIDE DEF first, comma, second
  <2>3. QED  BY <1>6, <1>8, <1>16, <2>1, <2>2
<1>17. CASE /\ IsOperand(first) /\ Type(comma) = "comma" /\ IsOperand(second)
            /\ IF EndsLine(last) THEN Continue(last) ELSE Error(last)
  <2>1. /\ comma \in Nat \ {0} /\ first <= comma /\ ~EndsLine(first)
        /\ \A j \in first .. comma - 1 : ~EndsLine(j)
        /\ second \in Nat \ {0} /\ ~EndsLine(comma) /\ second = comma + 1
    BY <1>12, <1>15, <1>17
  <2>2. /\ OperandAt(second) \in {second, second + 1}
        /\ \A j \in second .. OperandAt(second) : ~EndsLine(j)
    <3> HIDE DEF second
    <3>1. QED  BY <1>17, <2>1, OperandEndsBehind
  <2>3. InstructionRest(first) <=> EndsLine(last)
    BY <1>17, <2>1 DEF InstructionRest
  <2>4. last \in Nat /\ first <= last
    <3> HIDE DEF first, comma, second
    <3>1. QED  BY <1>4, <2>1, <2>2
  <2>5. \A j \in first .. last - 1 : ~EndsLine(j)
    <3> HIDE DEF first, comma, second
    <3>1. \A j \in first .. last - 1 :
            j \in first .. comma - 1 \/ j = comma \/ j \in second .. OperandAt(second)
      BY <1>4, <2>1, <2>2
    <3>2. QED  BY <2>1, <2>2, <3>1
  <2> HIDE DEF first, last
  <2>6. CASE EndsLine(last)
    BY <1>7, <1>17, <2>3, <2>4, <2>5, <2>6
  <2>7. CASE ~EndsLine(last)
    BY <1>6, <1>17, <2>3, <2>7
  <2>8. QED  BY <2>6, <2>7
<1> HIDE DEF first, comma, second, last
<1>18. QED  BY <1>9, <1>10, <1>11, <1>13, <1>14, <1>16, <1>17, Zenon

LEMMA JudgeInstructionsEnd ==
  ASSUME Judging, FinishInstructions
  PROVE  Judged
<1>1. /\ pc = "instructions" /\ pc' = "unit" /\ Type(tokens) \notin Operation \union {"eol"}
      /\ UNCHANGED <<source, tokens, error_list>>
  BY DEF FinishInstructions
<1>2. nodes # <<>> /\ IsTokenList(source)
  BY <1>1, JudgingTyped DEF NodesInv
<1>3. Paused(tokens) /\ SoundBefore(tokens) /\ AfterInstruction(tokens)
  BY <1>1, <1>2 DEF Judging, NoErrorInv
<1>4. ~AfterWaits(tokens)
  BY <1>2, <1>3, AfterOne
<1>5. NoErrorInv'
  BY <1>1, <1>3, <1>4, UnitGoesOn
<1>6. QED  BY <1>1, <1>5, Standing, Right

LEMMA JudgeGuidanceEnd ==
  ASSUME Judging, FinishGuidance
  PROVE  Judged
<1>1. /\ pc = "guidance" /\ pc' = "unit" /\ UNCHANGED <<source, tokens, error_list>>
      /\ Type(tokens) \notin {"data_ins", "string_ins"}
  BY DEF FinishGuidance
<1>2. nodes # <<>>
  BY <1>1, JudgingTyped DEF NodesInv
<1>3. Paused(tokens) /\ SoundBefore(tokens) /\ ~AfterWaits(tokens) /\ ~AfterInstruction(tokens)
  BY <1>1, <1>2 DEF Judging, NoErrorInv
<1>4. NoErrorInv'
  BY <1>1, <1>3, UnitGoesOn
<1>5. QED  BY <1>1, <1>4, Standing, Right

LEMMA JudgeUnitEnd ==
  ASSUME Judging, FinishUnit
  PROVE  Judged
<1>1. /\ pc = "unit" /\ pc' = "done" /\ UNCHANGED <<source, tokens, error_list>>
      /\ Type(tokens) \in Ending
  BY DEF FinishUnit, Ending
<1>2. SoundBefore(tokens) /\ ~AfterWaits(tokens)
  BY <1>1 DEF Judging, NoErrorInv
<1>3. \A s \in Filled : s < tokens /\ s \in Nat
  BY <1>1, JudgingTyped, AllRead, LineRead
<1>4. ASSUME NEW s \in Filled PROVE IsLegal(s)
  <2>1. Sound(s)
    BY <1>2, <1>3 DEF SoundBefore
  <2>2. ASSUME Waits(s) PROVE \E t \in Filled : t > s
    <3>1. \E q \in Filled : q < tokens /\ ~(q <= s)
      BY <1>2, <1>3, <2>2 DEF AfterWaits, Previous
    <3>2. QED  BY <1>3, <3>1
  <2>3. QED  BY <2>1, <2>2, LegalIsSound
<1>5. \A s \in Filled' : IsLegal(s)'
  BY <1>1, <1>4, LinesKept
<1>6. NoErrorInv'
  BY <1>1, <1>5 DEF NoErrorInv
<1>7. QED  BY <1>1, <1>6, Standing, Right

\* A directive of guidance, on its own line or behind its label.
LEMMA GuidanceLine ==
  ASSUME Judging, pc = "guidance", Type(tokens) \in {"data_ins", "string_ins"}
  PROVE  \E s \in Filled : Opened(s) /\ BodyAt(s) = tokens
<1>1. CASE nodes = <<>>
  BY <1>1 DEF Judging, NoErrorInv
<1>2. CASE nodes # <<>>
  <2>1. Paused(tokens) /\ SoundBefore(tokens)
    BY <1>2 DEF Judging, NoErrorInv
  <2>2. ~EndsLine(tokens) /\ Type(tokens) # "identifier"
    BY DEF EndsLine
  <2>3. tokens \in Filled
    BY <2>1, <2>2, JudgingTyped, LineBegins
  <2>4. ~HasLabel(tokens) /\ BodyAt(tokens) = tokens
    BY <2>2, <2>3, JudgingTyped, Unlabelled
  <2>5. QED  BY <2>1, <2>3, <2>4 DEF Opened
<1>3. QED  BY <1>1, <1>2

LEMMA GuidanceDone ==
  ASSUME IsTokenList(source), NEW s \in Filled, Opened(s), IsGuidance(s),
         NEW k \in Nat, s < k, k <= LineEnd(s) + 1
  PROVE  SoundBefore(k) /\ ~AfterWaits(k) /\ ~AfterInstruction(k)
<1>1. ~IsInstruction(s) /\ ~Waits(s)
  BY KindsApart
<1>2. Sound(s) /\ SoundBefore(s)
  BY <1>1 DEF Sound, Opened
<1>3. QED  BY <1>1, <1>2, LineDone

LEMMA GuidanceWrong ==
  ASSUME Judging, NEW s \in Filled, Type(BodyAt(s)) \in {"data_ins", "string_ins"},
         ~IsGuidance(s), NEW k, Error(k)
  PROVE  Judged
<1>1. IsTokenList(source) /\ Type(BodyAt(s)) \notin Operation /\ ~EndsLine(BodyAt(s))
  BY JudgingTyped, Beginnings DEF EndsLine, Directive
<1>2. ~IsInstruction(s) /\ ~Waits(s) /\ (~HasLabel(s) => ~IsDeclaration(s) /\ ~IsMacroLine(s))
  BY <1>1, KindsOfLine DEF IsMacroLine
<1>3. ~IsLegal(s)
  BY <1>2, Shapeless
<1>4. QED  BY <1>3, Wrong

\* From the body of a line to a cursor on it.
LEMMA WithinBody ==
  ASSUME IsTokenList(source), NEW s \in Filled, NEW k \in Nat, BodyAt(s) <= k,
         \A j \in BodyAt(s) .. k - 1 : ~EndsLine(j)
  PROVE  s <= k /\ k <= LineEnd(s) /\ (EndsLine(k) => k = LineEnd(s))
<1> DEFINE b == BodyAt(s)
           e == LineEnd(s)
<1>1. /\ b \in Nat /\ s \in Nat /\ e \in Nat /\ s <= b /\ b <= e /\ EndsLine(e)
      /\ \A j \in s .. e - 1 : ~EndsLine(j)
  BY LineRead, BodyBegins
<1>2. b <= k /\ \A j \in b .. k - 1 : ~EndsLine(j)
  OBVIOUS
<1> HIDE DEF b, e
<1>3. s <= k /\ k <= e
  BY <1>1, <1>2
<1>4. EndsLine(k) => ~(k < e)
  BY <1>1, <1>3
<1>5. QED  BY <1>1, <1>3, <1>4 DEF e

LEMMA JudgeString ==
  ASSUME Judging, ParseString
  PROVE  Judged
<1> DEFINE b == tokens
<1>1. /\ pc = "guidance" /\ pc' = "guidance" /\ Type(b) = "string_ins" /\ OneToken("string")
      /\ source' = source /\ nodes' = Append(nodes, Node("string", TokenOf("string"), <<>>))
  BY DEF ParseString, Link
<1>2. IsTokenList(source) /\ ~EndsLine(b) /\ b \in Nat \ {0}
  BY <1>1, JudgingTyped DEF EndsLine
<1>3. PICK s \in Filled : Opened(s) /\ BodyAt(s) = b
  BY <1>1, GuidanceLine
<1>4. nodes' # <<>>
  <2>1. PICK node : nodes' = Append(nodes, node)
    BY <1>1
  <2>2. QED  BY <2>1, SomeNodes DEF Judging
<1>5. IsGuidance(s) <=> Type(b + 1) = "string" /\ EndsLine(b + 2)
  BY <1>1, <1>2, <1>3, StringAt, DataAt DEF IsGuidance
<1>6. CASE ~IsGuidance(s)
  <2>1. Error(b + 1) \/ Error(b + 2)
    BY <1>1, <1>5, <1>6 DEF OneToken
  <2>2. QED  BY <1>1, <1>3, <1>6, <2>1, GuidanceWrong
<1>7. CASE IsGuidance(s)
  <2> DEFINE k == EndOfLine(b + 2)
  <2>1. Continue(k) /\ tokens' = k
    BY <1>1, <1>5, <1>7 DEF OneToken, Continue
  <2>2. ~EndsLine(b + 1)
    BY <1>5, <1>7 DEF EndsLine
  <2>3. \A j \in b .. (b + 2) - 1 : j = b \/ j = b + 1
    BY <1>2
  <2>4. b + 2 \in Nat /\ b <= b + 2
    BY <1>2
  <2>5. s <= b + 2 /\ b + 2 <= LineEnd(s)
    BY <1>2, <1>3, <2>2, <2>3, <2>4, WithinBody
  <2>6. k \in Nat /\ s < k /\ k <= LineEnd(s) + 1 /\ Paused(k)
    BY <1>2, <2>4, <2>5, EndOfLineFrom
  <2> HIDE DEF k
  <2>7. SoundBefore(k) /\ ~AfterWaits(k) /\ ~AfterInstruction(k)
    BY <1>2, <1>3, <1>7, <2>6, GuidanceDone
  <2>8. NoErrorInv'
    BY <1>1, <1>4, <2>1, <2>6, <2>7, GuidanceGoesOn
  <2>9. QED  BY <2>1, <2>8, Right
<1>8. QED  BY <1>6, <1>7

\* The list of numbers goes on.
LEMMA DataGoesOn ==
  ASSUME source' = source, pc' = "data", NEW s \in Filled, Opened(s),
         NEW b, b = BodyAt(s), Type(b) = "data_ins", NEW k, tokens' = k, b < k,
         \A j \in b + 1 .. k - 1 : Type(j) = DataWord(j - b),
         (k - b) % 2 = 1 \/ Type(k) \in Ending,
         nodes'[Len(nodes')].numbers = <<>> <=> k = b + 1
  PROVE  NoErrorInv'
<1>1. /\ s \in Filled' /\ Opened(s)' /\ BodyAt(s)' = b /\ Type(b)' = "data_ins"
      /\ \A j \in b + 1 .. k - 1 : Type(j)' = DataWord(j - b)
      /\ (k - b) % 2 = 1 \/ Type(k)' \in Ending
  BY LinesKept
<1>2. Type(tokens)' = Type(k)'
  BY DEF Type
<1>3. DataOpened'
  BY <1>1, <1>2, Zenon DEF DataOpened
<1>4. QED  BY <1>3 DEF NoErrorInv

LEMMA JudgeBeginData ==
  ASSUME Judging, BeginData
  PROVE  Judged
<1> DEFINE node == Node("data", NULL, <<>>)
<1>1. /\ pc = "guidance" /\ pc' = "data" /\ Type(tokens) = "data_ins" /\ source' = source
      /\ Continue(tokens + 1) /\ nodes' = Append(nodes, node)
  BY DEF BeginData, Link
<1>2. tokens \in Nat \ {0}
  BY JudgingTyped
<1>3. PICK s \in Filled : Opened(s) /\ BodyAt(s) = tokens
  BY <1>1, GuidanceLine
<1>4. nodes'[Len(nodes')].numbers = <<>>
  <2>1. node.numbers = <<>>
    BY DEF Node
  <2> HIDE DEF node
  <2>2. QED  BY <1>1, <2>1, SomeNodes DEF Judging
<1>5. PICK b : b = tokens
  OBVIOUS
<1>6. PICK k : k = b + 1
  OBVIOUS
<1>7. b \in Nat /\ k \in Nat /\ b < k /\ (k - b) % 2 = 1 /\ b + 1 .. k - 1 = {}
  BY <1>2, <1>5, <1>6
<1>8. tokens' = k /\ Continue(k)
  BY <1>1, <1>5, <1>6 DEF Continue
<1>9. NoErrorInv'
  BY <1>1, <1>3, <1>4, <1>5, <1>6, <1>7, <1>8, DataGoesOn
<1>10. QED  BY <1>8, <1>9, Right

\* What has been read of the line of .data.
LEMMA DataLine ==
  ASSUME Judging, pc = "data"
  PROVE  \E s \in Filled :
           LET b == BodyAt(s) IN
           /\ Opened(s) /\ Type(b) = "data_ins" /\ b \in Nat /\ b < tokens
           /\ \A j \in b + 1 .. tokens - 1 : Type(j) = DataWord(j - b)
           /\ (tokens - b) % 2 = 1 \/ Type(tokens) \in Ending
           /\ nodes[Len(nodes)].numbers = <<>> <=> tokens = b + 1
           /\ \A j \in b .. tokens - 1 : ~EndsLine(j)
           /\ s < tokens /\ tokens <= LineEnd(s) /\ (EndsLine(tokens) => tokens = LineEnd(s))
           /\ ~IsGuidance(s) <=> ~IsData(s)
<1>1. IsTokenList(source) /\ tokens \in Nat \ {0} /\ DataOpened
  BY JudgingTyped DEF Judging, NoErrorInv
<1>2. PICK s \in Filled :
        LET b == BodyAt(s) IN
        /\ Opened(s) /\ Type(b) = "data_ins" /\ b < tokens
        /\ \A j \in b + 1 .. tokens - 1 : Type(j) = DataWord(j - b)
        /\ (tokens - b) % 2 = 1 \/ Type(tokens) \in Ending
        /\ nodes[Len(nodes)].numbers = <<>> <=> tokens = b + 1
  BY <1>1, Zenon DEF DataOpened
<1> DEFINE b == BodyAt(s)
<1>3. b \in Nat /\ s \in Nat /\ s <= b
  BY <1>1, LineRead, BodyBegins
<1>4. ~IsGuidance(s) <=> ~IsData(s)
  BY <1>1, <1>2, StringAt DEF IsGuidance
<1>5. /\ \A m : DataWord(m) \notin {"eol", "eoft", "none"}
      /\ Type(b) = "data_ins" /\ b < tokens
      /\ \A j \in b + 1 .. tokens - 1 : Type(j) = DataWord(j - b)
  BY <1>2 DEF DataWord
<1>6. \A j \in b .. tokens - 1 : ~EndsLine(j)
  <2> HIDE DEF b
  <2>1. \A j \in b .. tokens - 1 : j = b \/ j \in b + 1 .. tokens - 1
    BY <1>1, <1>3
  <2>2. QED  BY <1>5, <2>1 DEF EndsLine
<1>7. s < tokens /\ tokens <= LineEnd(s) /\ (EndsLine(tokens) => tokens = LineEnd(s))
  <2>1. b <= tokens /\ s < tokens
    BY <1>1, <1>3, <1>5
  <2>2. QED  BY <1>1, <1>6, <2>1, WithinBody
<1>8. QED  BY <1>2, <1>3, <1>4, <1>6, <1>7

LEMMA JudgeNumber ==
  ASSUME Judging, ParseNumber
  PROVE  Judged
<1>1. PICK k : k = tokens
  OBVIOUS
<1>2. /\ pc = "data" /\ Type(k) = "number" /\ source' = source
      /\ nodes' = [nodes EXCEPT ![Len(nodes)].numbers = Append(@, tokens)]
      /\ \/ Type(k + 1) = "comma" /\ Continue(k + 2) /\ pc' = "data"
         \/ Type(k + 1) = "eol" /\ Continue(k + 2) /\ pc' = "guidance"
         \/ Type(k + 1) \in Ending /\ Continue(k + 1) /\ pc' = "data"
         \/ Type(k + 1) \notin {"comma", "eol", "eoft", "none"} /\ Error(k + 1)
  BY <1>1 DEF ParseNumber, Ending
<1>3. IsTokenList(source) /\ k \in Nat \ {0}
  BY <1>1, JudgingTyped
<1>4. error_list' = <<>> => error_list = <<>>
  BY DEF Judging
<1>5. nodes' # <<>> /\ nodes'[Len(nodes')].numbers # <<>>
  BY <1>1, <1>2, <1>4, NumberAdded DEF Judging
<1>6. PICK s \in Filled :
        LET b == BodyAt(s) IN
        /\ Opened(s) /\ Type(b) = "data_ins" /\ b \in Nat /\ b < k
        /\ \A j \in b + 1 .. k - 1 : Type(j) = DataWord(j - b)
        /\ (k - b) % 2 = 1 \/ Type(k) \in Ending
        /\ \A j \in b .. k - 1 : ~EndsLine(j)
        /\ s < k /\ k <= LineEnd(s)
        /\ ~IsGuidance(s) <=> ~IsData(s)
  BY <1>1, <1>2, DataLine
<1>7. PICK b : b = BodyAt(s)
  OBVIOUS
<1>8. /\ Opened(s) /\ Type(b) = "data_ins" /\ b \in Nat /\ b < k /\ (k - b) % 2 = 1
      /\ \A j \in b + 1 .. k - 1 : Type(j) = DataWord(j - b)
      /\ ~EndsLine(k) /\ \A j \in b .. k - 1 : ~EndsLine(j)
      /\ s < k /\ k <= LineEnd(s) /\ s \in Nat /\ LineEnd(s) \in Nat
      /\ ~IsGuidance(s) <=> ~IsData(s)
  BY <1>2, <1>3, <1>6, <1>7, LineRead DEF Ending, EndsLine
<1>9. /\ k + 1 \in Nat /\ k + 2 \in Nat /\ (k + 1 - b) % 2 = 0 /\ (k + 2 - b) % 2 = 1
      /\ \A j \in b .. (k + 1) - 1 : j \in b .. k - 1 \/ j = k
      /\ \A j \in b + 1 .. (k + 1) - 1 : j \in b + 1 .. k - 1 \/ j = k
      /\ \A j \in b + 1 .. (k + 2) - 1 : j \in b + 1 .. k - 1 \/ j = k \/ j = k + 1
      /\ b < k + 1 /\ b < k + 2 /\ k + 1 # b + 1 /\ k + 2 # b + 1 /\ b <= k + 1
  BY <1>3, <1>8
<1>10. Type(k) = DataWord(k - b)
  BY <1>2, <1>8 DEF DataWord
<1>11. \A j \in b + 1 .. (k + 1) - 1 : Type(j) = DataWord(j - b)
  BY <1>8, <1>9, <1>10, Zenon
<1>12. k + 1 <= LineEnd(s) /\ (EndsLine(k + 1) => k + 1 = LineEnd(s))
  <2>1. \A j \in b .. (k + 1) - 1 : ~EndsLine(j)
    BY <1>8, <1>9, Zenon
  <2>2. QED  BY <1>3, <1>7, <1>9, <2>1, WithinBody
<1>13. CASE Type(k + 1) = "comma" /\ Continue(k + 2) /\ pc' = "data"
  <2>1. PICK n : n = k + 1
    OBVIOUS
  <2>2. PICK m : m = k + 2
    OBVIOUS
  <2>3. tokens' = m /\ Continue(m)
    BY <1>13, <2>2 DEF Continue
  <2>4. /\ b < m /\ (m - b) % 2 = 1 /\ m # b + 1 /\ (n - b) % 2 = 0
        /\ \A j \in b + 1 .. m - 1 : j \in b + 1 .. k - 1 \/ j = k \/ j = n
    BY <1>3, <1>8, <1>9, <2>1, <2>2
  <2>5. \A j \in b + 1 .. m - 1 : Type(j) = DataWord(j - b)
    <3>1. Type(n) = DataWord(n - b)
      <4>1. Type(n) = "comma"
        BY <1>13, <2>1
      <4>2. QED  BY <2>4, <4>1 DEF DataWord
    <3>2. QED  BY <1>8, <1>10, <2>4, <3>1, Zenon
  <2>6. NoErrorInv'
    BY <1>2, <1>5, <1>7, <1>8, <1>13, <2>3, <2>4, <2>5, DataGoesOn
  <2>7. QED  BY <2>3, <2>6, Right
<1>14. CASE Type(k + 1) = "eol" /\ Continue(k + 2) /\ pc' = "guidance"
  <2>1. k + 1 = LineEnd(s)
    BY <1>12, <1>14 DEF EndsLine
  <2>2. /\ b + 1 < LineEnd(s) /\ (LineEnd(s) - b) % 2 = 0
        /\ \A j \in b + 1 .. LineEnd(s) - 1 : Type(j) = DataWord(j - b)
    BY <1>3, <1>8, <1>9, <1>11, <2>1
  <2>3. IsGuidance(s)
    BY <1>3, <1>7, <1>8, <2>2, DataAt
  <2>4. s < k + 2 /\ k + 2 <= LineEnd(s) + 1
    BY <1>3, <1>8, <2>1
  <2>5. SoundBefore(k + 2) /\ ~AfterWaits(k + 2) /\ ~AfterInstruction(k + 2)
    BY <1>3, <1>8, <1>9, <2>3, <2>4, GuidanceDone
  <2>6. Paused(k + 2)
    <3>1. (k + 2) - 1 = k + 1
      BY <1>3
    <3>2. QED  BY <1>14, <3>1 DEF Paused, AtStart
  <2>7. tokens' = k + 2
    BY <1>14 DEF Continue
  <2>8. NoErrorInv'
    BY <1>2, <1>5, <1>14, <2>5, <2>6, <2>7, GuidanceGoesOn
  <2>9. QED  BY <1>14, <2>8, Right
<1>15. CASE Type(k + 1) \in Ending /\ Continue(k + 1) /\ pc' = "data"
  <2>1. PICK m : m = k + 1
    OBVIOUS
  <2>2. tokens' = m /\ Continue(m)
    BY <1>15, <2>1 DEF Continue
  <2>3. /\ b < m /\ Type(m) \in Ending /\ m # b + 1
        /\ \A j \in b + 1 .. m - 1 : Type(j) = DataWord(j - b)
    BY <1>9, <1>11, <1>15, <2>1
  <2>4. NoErrorInv'
    BY <1>2, <1>5, <1>7, <1>8, <1>15, <2>2, <2>3, DataGoesOn
  <2>5. QED  BY <2>2, <2>4, Right
<1>16. CASE Type(k + 1) \notin {"comma", "eol", "eoft", "none"} /\ Error(k + 1)
  <2>1. PICK n : n = k + 1
    OBVIOUS
  <2>2. n \in b + 1 .. LineEnd(s) - 1
    <3>1. ~EndsLine(k + 1) /\ EndsLine(LineEnd(s))
      BY <1>3, <1>16, LineRead DEF EndsLine
    <3>2. k + 1 # LineEnd(s)
      BY <3>1
    <3>3. QED  BY <1>3, <1>8, <1>12, <2>1, <3>2
  <2>3. Type(n) # DataWord(n - b)
    <3>1. (n - b) % 2 = 0
      BY <1>3, <1>8, <1>9, <2>1
    <3>2. Type(n) # "comma"
      BY <1>16, <2>1
    <3>3. QED  BY <3>1, <3>2 DEF DataWord
  <2>4. IsData(s) => \A j \in b + 1 .. LineEnd(s) - 1 : Type(j) = DataWord(j - b)
    BY <1>3, <1>7, DataAt
  <2>5. ~IsData(s)
    BY <2>2, <2>3, <2>4, Zenon
  <2>6. QED  BY <1>7, <1>8, <1>16, <2>5, GuidanceWrong
<1>17. QED  BY <1>2, <1>13, <1>14, <1>15, <1>16

LEMMA JudgeDataEnd ==
  ASSUME Judging, RejectNumber \/ FinishData
  PROVE  Judged
<1>1. PICK k : k = tokens
  OBVIOUS
<1>2. /\ pc = "data" /\ pc' = "guidance" /\ source' = source /\ nodes' = nodes
      /\ \/ Type(k) \notin {"number", "eoft", "none"} /\ Error(k)
         \/ Type(k) \in Ending /\ nodes[Len(nodes)].numbers = <<>> /\ Error(k)
         \/ Type(k) \in Ending /\ nodes[Len(nodes)].numbers # <<>> /\ Continue(k)
  BY <1>1 DEF RejectNumber, FinishData, Ending
<1>3. IsTokenList(source) /\ k \in Nat \ {0} /\ nodes' # <<>>
  BY <1>1, <1>2, JudgingTyped, TreesTyped DEF Judging
<1>4. PICK s \in Filled :
        LET b == BodyAt(s) IN
        /\ Opened(s) /\ Type(b) = "data_ins" /\ b \in Nat /\ b < k
        /\ \A j \in b + 1 .. k - 1 : Type(j) = DataWord(j - b)
        /\ (k - b) % 2 = 1 \/ Type(k) \in Ending
        /\ nodes[Len(nodes)].numbers = <<>> <=> k = b + 1
        /\ s < k /\ k <= LineEnd(s) /\ (EndsLine(k) => k = LineEnd(s))
        /\ ~IsGuidance(s) <=> ~IsData(s)
  BY <1>1, <1>2, DataLine
<1>5. PICK b : b = BodyAt(s)
  OBVIOUS
<1>6. PICK e : e = LineEnd(s)
  OBVIOUS
<1>7. /\ Opened(s) /\ Type(b) = "data_ins" /\ b \in Nat /\ b < k
      /\ \A j \in b + 1 .. k - 1 : Type(j) = DataWord(j - b)
      /\ (k - b) % 2 = 1 \/ Type(k) \in Ending
      /\ nodes[Len(nodes)].numbers = <<>> <=> k = b + 1
      /\ s < k /\ k <= e /\ (EndsLine(k) => k = e) /\ e \in Nat
      /\ ~IsGuidance(s) <=> ~IsData(s)
  BY <1>3, <1>4, <1>5, <1>6, LineRead
<1>8. IsData(s) <=>
        /\ b + 1 < e /\ \A j \in b + 1 .. e - 1 : Type(j) = DataWord(j - b)
        /\ (e - b) % 2 = 0 \/ Type(e) # "eol"
  BY <1>3, <1>5, <1>6, <1>7, DataAt
<1>9. CASE Type(k) \notin {"number", "eoft", "none"} /\ Error(k)
  <2>1. (k - b) % 2 = 1 /\ DataWord(k - b) = "number"
    BY <1>7, <1>9 DEF Ending, DataWord
  <2>2. CASE k < e
    <3>1. k \in b + 1 .. e - 1
      BY <1>3, <1>7, <2>2
    <3>2. ~IsData(s)
      BY <1>8, <1>9, <2>1, <3>1
    <3>3. QED  BY <1>5, <1>7, <1>9, <3>2, GuidanceWrong
  <2>3. CASE k = e
    <3>1. EndsLine(k)
      BY <1>3, <1>6, <2>3, LineRead
    <3>2. Type(e) = "eol" /\ (e - b) % 2 # 0
      BY <1>9, <2>1, <2>3, <3>1 DEF EndsLine
    <3>3. ~IsData(s)
      BY <1>8, <3>2
    <3>4. QED  BY <1>5, <1>7, <1>9, <3>3, GuidanceWrong
  <2>4. QED  BY <1>3, <1>7, <2>2, <2>3
<1>10. ASSUME Type(k) \in Ending PROVE k = e /\ Type(e) # "eol" /\ Paused(k)
  BY <1>7, <1>10 DEF Ending, EndsLine, Paused
<1>11. CASE Type(k) \in Ending /\ nodes[Len(nodes)].numbers = <<>> /\ Error(k)
  <2>1. k = b + 1 /\ k = e
    BY <1>7, <1>10, <1>11
  <2>2. ~IsData(s)
    BY <1>3, <1>7, <1>8, <2>1
  <2>3. QED  BY <1>5, <1>7, <1>11, <2>2, GuidanceWrong
<1>12. CASE Type(k) \in Ending /\ nodes[Len(nodes)].numbers # <<>> /\ Continue(k)
  <2>1. k = e /\ Type(e) # "eol" /\ Paused(k) /\ b + 1 < e
    <3>1. k # b + 1
      BY <1>7, <1>12
    <3>2. QED  BY <1>3, <1>7, <1>10, <1>12, <3>1
  <2>2. IsGuidance(s)
    BY <1>7, <1>8, <2>1
  <2>3. k \in Nat /\ k <= LineEnd(s) + 1
    BY <1>3, <1>6, <1>7, <2>1
  <2>4. SoundBefore(k) /\ ~AfterWaits(k) /\ ~AfterInstruction(k)
    BY <1>3, <1>7, <2>2, <2>3, GuidanceDone
  <2>5. tokens' = k
    BY <1>12 DEF Continue
  <2>6. NoErrorInv'
    BY <1>2, <1>3, <2>1, <2>4, <2>5, GuidanceGoesOn
  <2>7. QED  BY <1>12, <2>6, Right
<1>13. QED  BY <1>2, <1>9, <1>11, <1>12

-----------------------------------------------------------------------------
(* The parser finds an error exactly in a line that is not legal *)

\* Errors are not taken back, and the source is read only.
LEMMA ErrorsStay ==
  ASSUME Next, error_list # <<>>, error_list \in Seq(1 .. Len(source) + 1)
  PROVE  error_list' # <<>>
<1>1. ASSUME NEW k, Error(k) PROVE error_list' # <<>>
  <2>1. error_list' = Append(error_list, k)
    BY <1>1 DEF Error
  <2> DEFINE S == (1 .. Len(source) + 1) \union {k}
  <2>2. error_list \in Seq(S) /\ k \in S
    OBVIOUS
  <2> HIDE DEF S
  <2>3. QED  BY <2>1, <2>2
<1>2. ASSUME NEW k, Continue(k) PROVE error_list' # <<>>
  BY <1>2 DEF Continue
<1>3. ASSUME NEW type, OneToken(type) PROVE error_list' # <<>>
  BY <1>1, <1>2, <1>3 DEF OneToken
<1>4. ASSUME NEW k, OperandError(k) PROVE error_list' # <<>>
  BY <1>1, <1>2, <1>4 DEF OperandError
<1>5. CASE SkipEmptyLine \/ SkipMacroLine \/ UnexpectedToken \/ ParseExternal \/ ParseEntry
  BY <1>1, <1>2, <1>3, <1>5
     DEF SkipEmptyLine, SkipMacroLine, UnexpectedToken, ParseExternal, ParseEntry
<1>6. CASE ParseLabel \/ BeginInstructions \/ BeginGuidance \/ DropLabel
  BY <1>1, <1>2, <1>6 DEF ParseLabel, BeginInstructions, BeginGuidance, DropLabel
<1>7. CASE ParseInstruction
  BY <1>1, <1>2, <1>4, <1>7, Zenon DEF ParseInstruction
<1>8. CASE ParseString \/ BeginData \/ ParseNumber \/ RejectNumber \/ FinishData
  BY <1>1, <1>2, <1>3, <1>8 DEF ParseString, BeginData, ParseNumber, RejectNumber, FinishData
<1>9. CASE FinishInstructions \/ FinishGuidance \/ FinishUnit
  BY <1>9 DEF FinishInstructions, FinishGuidance, FinishUnit
<1>10. QED  BY <1>5, <1>6, <1>7, <1>8, <1>9 DEF Next

LEMMA SourceStays == Next => source' = source
BY DEF Next, SkipEmptyLine, ParseExternal, ParseEntry, SkipMacroLine, UnexpectedToken,
       ParseLabel, BeginInstructions, BeginGuidance, DropLabel, ParseInstruction,
       FinishInstructions, ParseString, BeginData, ParseNumber, RejectNumber, FinishData,
       FinishGuidance, FinishUnit

LEMMA Judgement ==
  ASSUME Judging, Next
  PROVE  Judged
BY JudgeEmptyLine, JudgeExternal, JudgeMacroLine, JudgeUnexpected, JudgeLabel, JudgeBegin,
   JudgeDrop, JudgeInstruction, JudgeInstructionsEnd, JudgeString, JudgeBeginData, JudgeNumber,
   JudgeDataEnd, JudgeGuidanceEnd, JudgeUnitEnd DEF Next

LEMMA LanguageInitially == Init => LanguageInv
<1> SUFFICES ASSUME Init PROVE LanguageInv
  OBVIOUS
<1>1. tokens = 1 /\ pc = "unit" /\ error_list = <<>> /\ IsTokenList(source)
  BY TokenListsAssumption DEF Init
<1>2. \A s \in Filled : ~(s < 1)
  BY <1>1, LineRead
<1>3. /\ Paused(tokens) /\ SoundBefore(tokens) /\ ~AfterWaits(tokens) /\ ~AfterInstruction(tokens)
  BY <1>1, <1>2, Zenon
     DEF Paused, AtStart, SoundBefore, AfterWaits, AfterInstruction, Previous
<1>4. NoErrorInv
  BY <1>1, <1>3 DEF NoErrorInv
<1>5. QED  BY <1>1, <1>4 DEF LanguageInv

LEMMA LanguageKept == IInv /\ LanguageInv /\ [Next]_vars => LanguageInv'
<1> SUFFICES ASSUME IInv, LanguageInv, [Next]_vars PROVE LanguageInv'
  OBVIOUS
<1>1. source' = source
  BY SourceStays DEF vars
<1>2. ASSUME NEW s \in Filled, ~IsLegal(s) PROVE \E m \in Filled' : ~IsLegal(m)'
  BY <1>1, <1>2, LinesKept
<1>3. CASE Next /\ error_list = <<>>
  <2>1. Judged
    BY <1>1, <1>3, Judgement DEF Judging, LanguageInv
  <2>2. QED  BY <1>2, <2>1 DEF Judged, LanguageInv
<1>4. CASE Next /\ error_list # <<>>
  <2>1. error_list' # <<>>
    BY <1>4, ErrorsStay, CursorTyped
  <2>2. QED  BY <1>2, <1>4, <2>1 DEF LanguageInv
<1>5. CASE UNCHANGED vars
  <2>1. UNCHANGED <<source, tokens, pc, label, nodes, error_list>>
    BY <1>5 DEF vars
  <2>2. CASE error_list = <<>>
    <3>1. NoErrorInv
      BY <2>2 DEF LanguageInv
    <3>2. /\ Paused(tokens)' = Paused(tokens) /\ SoundBefore(tokens)' = SoundBefore(tokens)
          /\ AfterWaits(tokens)' = AfterWaits(tokens)
          /\ AfterInstruction(tokens)' = AfterInstruction(tokens)
          /\ Type(tokens)' = Type(tokens) /\ AtStart(tokens)' = AtStart(tokens)
      BY <1>1, <2>1, LinesKept
    <3>3. /\ Opened(label)' = Opened(label) /\ HasLabel(label)' = HasLabel(label)
          /\ Waits(label)' = Waits(label)
      BY <1>1, <2>1, LinesKept
    <3>4. /\ Filled' = Filled
          /\ \A s : /\ Opened(s)' = Opened(s) /\ BodyAt(s)' = BodyAt(s)
                    /\ HasLabel(s)' = HasLabel(s) /\ AfterWaits(s)' = AfterWaits(s)
                    /\ IsLegal(s)' = IsLegal(s)
      BY <1>1, LinesKept
    <3>5. LabelOpened => LabelOpened'
      BY <2>1, <3>2, <3>3, <3>4 DEF LabelOpened
    <3>6. DataOpened => DataOpened'
      <4>1. \A k : Type(k)' = Type(k)
        BY <1>1, LinesKept
      <4>2. ASSUME NEW s \in Filled, NEW b, b = BodyAt(s),
                   Opened(s), Type(b) = "data_ins", b < tokens,
                   \A j \in b + 1 .. tokens - 1 : Type(j) = DataWord(j - b),
                   (tokens - b) % 2 = 1 \/ Type(tokens) \in Ending,
                   nodes[Len(nodes)].numbers = <<>> <=> tokens = b + 1
            PROVE  DataOpened'
        <5>1. s \in Filled' /\ Opened(s)' /\ BodyAt(s)' = b /\ Type(b)' = "data_ins"
          BY <3>4, <4>1, <4>2
        <5>2. \A j \in b + 1 .. tokens' - 1 : Type(j)' = DataWord(j - b)
          BY <2>1, <4>1, <4>2
        <5>3. /\ b < tokens' /\ ((tokens' - b) % 2 = 1 \/ Type(tokens)' \in Ending)
              /\ (nodes'[Len(nodes')].numbers = <<>> <=> tokens' = b + 1)
          BY <2>1, <3>2, <4>2
        <5>4. QED  BY <5>1, <5>2, <5>3, Zenon DEF DataOpened
      <4>3. QED  BY <4>2, Zenon DEF DataOpened
    <3>7. NoErrorInv'
      BY <2>1, <3>1, <3>2, <3>4, <3>5, <3>6 DEF NoErrorInv
    <3>8. QED  BY <2>1, <2>2, <3>7 DEF LanguageInv
  <2>3. CASE error_list # <<>>
    BY <1>2, <2>1, <2>3 DEF LanguageInv
  <2>4. QED  BY <2>2, <2>3
<1>6. QED  BY <1>3, <1>4, <1>5

\* At the end all lines have been read.
LEMMA LanguageKnown == IInv /\ LanguageInv => AcceptsLanguage
BY DEF LanguageInv, NoErrorInv, AcceptsLanguage

-----------------------------------------------------------------------------
(* Statements in place: what is known between two iterations *)

\* What is linked, and what the label being parsed has so far.
InstructionItems ==
  Items(instruction_label_list)
    \union IF pc = "instructions"
           THEN ItemsOfLabel(Len(instruction_label_list) + 1, label, nodes) ELSE {}
GuidanceItems ==
  Items(guidance_label_list)
    \union IF pc \in {"guidance", "data"}
           THEN ItemsOfLabel(Len(guidance_label_list) + 1, label, nodes) ELSE {}

UpTo(places, k) == {j \in places : j < k}

\* Every statement before k, and no other.
PlacedTo(k, instructions, guidance) ==
  /\ Placed(instructions, UpTo(InstructionsStated, k), {})
  /\ Placed(guidance, UpTo(GuidanceStated, k), GuidanceEnds)
  /\ \A x \in instructions : OperandsPlaced(x.at, x.operands)

\* The label being parsed is the one the next statement stands under.  Behind the
\* guidance of a label what comes next in the loop over the unit begins another
\* label, or ends it.
LabelInv ==
  /\ pc = "unit" =>
       /\ label = NULL
       /\ \/ StandsUnder(tokens, NULL, GuidanceEnds)
          \/ Type(tokens) \notin {"data_ins", "string_ins", "eol"}
  /\ pc \in {"labelled", "guidance", "data"} => StandsUnder(tokens, label, GuidanceEnds)
  /\ pc = "instructions" =>
       /\ StandsUnder(tokens, label, {})
       /\ nodes # <<>> => StandsUnder(tokens, NULL, GuidanceEnds)

PlacedInv ==
  /\ LabelInv
  /\ PlacedTo(tokens, InstructionItems, GuidanceItems)
  /\ pc = "done" => Type(tokens) \in Ending

StatementsInv == error_list = <<>> => PlacedInv

-----------------------------------------------------------------------------
(* The label a statement stands under *)

LEMMA LabelsListed ==
  ASSUME IsTokenList(source)
  PROVE  /\ Filled \subseteq Nat \ {0}
         /\ InstructionsStated \subseteq 1 .. Len(source)
         /\ GuidanceStated \subseteq 1 .. Len(source)
<1>1. Filled \subseteq Nat \ {0}
  BY LineRead
<1>2. QED  BY <1>1 DEF InstructionsStated, GuidanceStated, Stated, Places

\* The cursor goes on, and passes neither a label nor what ends one.
LEMMA UnderKept ==
  ASSUME IsTokenList(source), NEW k \in Nat, NEW m \in Nat, k <= m, NEW d, NEW ends,
         StandsUnder(k, d, ends),
         \A q \in Filled : k <= q /\ q < m => ~HasLabel(q),
         \A j \in k .. m - 1 : Type(j) \notin ends
  PROVE  StandsUnder(m, d, ends)
<1>1. Filled \subseteq Nat
  BY LabelsListed
<1>2. \A q \in Filled : HasLabel(q) /\ q < m <=> HasLabel(q) /\ q < k
  BY <1>1
<1>3. CASE d = NULL
  <2>1. ASSUME NEW q \in Filled, HasLabel(q), q < m PROVE \E j \in q .. m - 1 : Type(j) \in ends
    <3>1. PICK j \in q .. k - 1 : Type(j) \in ends
      BY <1>2, <1>3, <2>1 DEF StandsUnder
    <3>2. j \in q .. m - 1
      BY <1>1, <3>1
    <3>3. QED  BY <3>1, <3>2
  <2>2. QED  BY <1>3, <2>1 DEF StandsUnder
<1>4. CASE d # NULL
  <2>1. /\ d \in Filled /\ HasLabel(d) /\ d < k
        /\ \A q \in Filled : HasLabel(q) /\ q < k => q <= d
        /\ \A j \in d .. k - 1 : Type(j) \notin ends
    BY <1>4 DEF StandsUnder
  <2>2. \A j \in d .. m - 1 : j \in d .. k - 1 \/ j \in k .. m - 1
    BY <1>1, <2>1
  <2>3. \A j \in d .. m - 1 : Type(j) \notin ends
    BY <2>1, <2>2
  <2>4. d < m
    BY <1>1, <2>1
  <2>5. QED  BY <1>2, <1>4, <2>1, <2>3, <2>4 DEF StandsUnder
<1>5. QED  BY <1>3, <1>4

\* What ends a label ends it for all that follows, up to the next.
LEMMA UnderNone ==
  ASSUME IsTokenList(source), NEW k \in Nat, NEW m \in Nat, k < m, NEW ends,
         Type(k) \in ends, \A q \in Filled : k <= q /\ q < m => ~HasLabel(q)
  PROVE  StandsUnder(m, NULL, ends)
<1>1. Filled \subseteq Nat
  BY LabelsListed
<1>2. ASSUME NEW q \in Filled, HasLabel(q), q < m PROVE \E j \in q .. m - 1 : Type(j) \in ends
  <2>1. q < k
    BY <1>1, <1>2
  <2>2. k \in q .. m - 1
    BY <1>1, <2>1
  <2>3. QED  BY <2>2
<1>3. QED  BY <1>2 DEF StandsUnder

\* No label is passed behind the one of a line.
LEMMA NoLabelPassed ==
  ASSUME IsTokenList(source), NEW s \in Filled, NEW k \in Nat, BodyAt(s) <= k,
         NEW m \in Nat, m <= LineEnd(s) + 1
  PROVE  \A q \in Filled : k <= q /\ q < m => ~HasLabel(q)
<1>1. /\ Filled \subseteq Nat /\ Filled \subseteq Starts
      /\ s \in Nat /\ LineEnd(s) \in Nat /\ BodyAt(s) \in Nat /\ s <= BodyAt(s)
      /\ BodyAt(s) = s + 2 <=> HasLabel(s)
  BY LabelsListed, LineRead, BodyBegins DEF Filled
<1>2. ASSUME NEW q \in Filled, k <= q, q < m PROVE q = s
  <2>1. ~(s < q /\ q <= LineEnd(s))
    BY <1>1, LinesApart
  <2>2. QED  BY <1>1, <1>2, <2>1
<1>3. s + 2 # s
  BY <1>1
<1>4. \A q \in Filled : k <= q /\ q < m /\ HasLabel(q) => FALSE
  BY <1>1, <1>2
<1>5. QED  BY <1>4

\* A label has what comes behind it stand under it.
LEMMA UnderLabel ==
  ASSUME IsTokenList(source), NEW s \in Filled, HasLabel(s), NEW ends,
         "identifier" \notin ends, "colon" \notin ends
  PROVE  StandsUnder(s + 2, s, ends)
<1>1. s \in Nat \ {0} /\ s + 2 <= LineEnd(s) /\ LineEnd(s) \in Nat
  BY LineRead, BodyBegins
<1>2. Behindmost(s, s + 2)
  BY <1>1, AfterEndOfLine
<1>3. Type(s) = "identifier" /\ Type(s + 1) = "colon"
  BY DEF HasLabel
<1>4. \A j \in s .. (s + 2) - 1 : Type(j) \notin ends
  <2>1. \A j \in s .. (s + 2) - 1 : j = s \/ j = s + 1
    BY <1>1
  <2>2. QED  BY <1>3, <2>1
<1>5. s # NULL /\ s < s + 2
  BY <1>1 DEF NULL
<1>6. QED  BY <1>2, <1>4, <1>5 DEF StandsUnder, Behindmost

-----------------------------------------------------------------------------
(* Where a statement is stated *)

\* A line that does not begin with a macro's token is on no macro line.
LEMMA OffMacroLine ==
  ASSUME IsTokenList(source), NEW s \in Filled, ~IsMacroLine(s),
         NEW k \in Nat, s <= k, k <= LineEnd(s)
  PROVE  ~OnMacroLine(k)
<1>1. SUFFICES ASSUME NEW t \in Starts, IsMacroLine(t), k \in t .. LineEnd(t) PROVE FALSE
  BY DEF OnMacroLine
<1>2. t \in Filled
  BY <1>1 DEF Filled, IsMacroLine, EndsLine
<1>3. s \in Nat /\ t \in Nat /\ LineEnd(s) \in Nat /\ LineEnd(t) \in Nat /\ s \in Starts
  BY <1>2, LineRead DEF Filled
<1>4. ~(s < t /\ t <= LineEnd(s)) /\ ~(t < s /\ s <= LineEnd(t))
  BY <1>2, <1>3, LinesApart
<1>5. s = t
  BY <1>1, <1>3, <1>4
<1>6. QED  BY <1>1, <1>5

LEMMA StatedOn ==
  ASSUME IsTokenList(source), NEW s \in Filled, ~IsMacroLine(s),
         NEW k \in Nat, s <= k, k <= LineEnd(s), NEW types, Type(k) \in types, ~EndsLine(k)
  PROVE  k \in Stated(types)
<1>1. s \in Nat \ {0} /\ Len(source) \in Nat
  BY LineRead, TypesOfList
<1>2. k <= Len(source)
  BY <1>1, TypesOfList DEF EndsLine
<1>3. k \in Places(types)
  BY <1>1, <1>2 DEF Places
<1>4. QED  BY <1>3, OffMacroLine DEF Stated

\* A line whose body begins with a statement is no macro line.
LEMMA NoMacroLine ==
  ASSUME IsTokenList(source), NEW s \in Filled,
         Type(BodyAt(s)) \in Operation \union {"data_ins", "string_ins"}
  PROVE  ~IsMacroLine(s)
<1>1. CASE HasLabel(s)
  BY <1>1 DEF HasLabel, IsMacroLine
<1>2. CASE ~HasLabel(s)
  BY <1>2, KindsOfLine, Beginnings DEF IsMacroLine
<1>3. QED  BY <1>1, <1>2

\* No statement is stated on a macro line.
LEMMA MacroLineStates ==
  ASSUME IsTokenList(source), NEW s \in Filled, IsMacroLine(s), NEW k \in s .. LineEnd(s)
  PROVE  k \notin InstructionsStated /\ k \notin GuidanceStated
<1>1. OnMacroLine(k)
  BY DEF OnMacroLine, Filled
<1>2. QED  BY <1>1 DEF InstructionsStated, GuidanceStated, Stated

\* Tokens that are neither an operation nor what guidance lists.
LEMMA NothingStated ==
  ASSUME NEW k, Type(k) \notin Operation \union {"string", "number"}
  PROVE  k \notin InstructionsStated /\ k \notin GuidanceStated
BY DEF InstructionsStated, GuidanceStated, Stated, Places

\* The statements before the cursor, when it goes on.
LEMMA UpToKept ==
  ASSUME NEW P, P \subseteq Nat, NEW k \in Nat, NEW m \in Nat, k <= m,
         \A j \in k .. m - 1 : j \notin P
  PROVE  UpTo(P, m) = UpTo(P, k)
<1>1. \A j \in P : j < m <=> j < k
  <2>1. ASSUME NEW j \in P, j < m, ~(j < k) PROVE FALSE
    <3>1. j \in k .. m - 1
      BY <2>1
    <3>2. QED  BY <2>1, <3>1
  <2>2. \A j \in P : j < k => j < m
    OBVIOUS
  <2>3. QED  BY <2>1, <2>2
<1>2. QED  BY <1>1, Zenon DEF UpTo

-----------------------------------------------------------------------------
(* The items of the lists *)

LEMMA ItemRead ==
  ASSUME NEW l, NEW name, NEW n, NEW i, NEW node
  PROVE  LET x == Item(l, name, n, i, node) IN
         /\ x.slot[1] = l /\ x.slot[2] = n /\ x.slot[3] = i
         /\ x.at = PlacesOf(node)[i] /\ x.label = name /\ x.operands = node.operands
BY DEF Item

LEMMA ItemsOfLabelRead ==
  ASSUME NEW l, NEW name, NEW list, NEW x \in ItemsOfLabel(l, name, list)
  PROVE  \E n \in 1 .. Len(list) : \E i \in 1 .. Len(PlacesOf(list[n])) :
           x = Item(l, name, n, i, list[n])
BY Zenon DEF ItemsOfLabel, ItemsOfNode

\* Where the items of a label stand in the lists.
LEMMA SlotsOfLabel ==
  ASSUME NEW l, NEW name, NEW list, NEW x \in ItemsOfLabel(l, name, list)
  PROVE  /\ x.slot[1] = l /\ x.slot[2] \in 1 .. Len(list)
         /\ x.slot[3] \in 1 .. Len(PlacesOf(list[x.slot[2]]))
<1>1. PICK n \in 1 .. Len(list) : \E i \in 1 .. Len(PlacesOf(list[n])) :
        x = Item(l, name, n, i, list[n])
  BY ItemsOfLabelRead
<1>2. PICK i \in 1 .. Len(PlacesOf(list[n])) : x = Item(l, name, n, i, list[n])
  BY <1>1
<1>3. x.slot[1] = l /\ x.slot[2] = n /\ x.slot[3] = i
  BY <1>2 DEF Item
<1>4. x.slot[2] \in 1 .. Len(list)
  BY <1>3
<1>5. x.slot[3] \in 1 .. Len(PlacesOf(list[x.slot[2]]))
  BY <1>3, Zenon
<1>6. QED  BY <1>3, <1>4, <1>5

LEMMA SlotsOfList ==
  ASSUME NEW list, NEW x \in Items(list)
  PROVE  x.slot[1] \in 1 .. Len(list)
<1>1. PICK l \in 1 .. Len(list) : x \in ItemsOfLabel(l, list[l].label, list[l].nodes)
  BY Zenon DEF Items
<1>2. x.slot[1] = l
  BY <1>1, SlotsOfLabel
<1>3. QED  BY <1>2

LEMMA NoItems ==
  /\ Items(<<>>) = {}
  /\ \A l, name : ItemsOfLabel(l, name, <<>>) = {}
<1>1. 1 .. Len(<<>>) = {}
  OBVIOUS
<1>2. QED  BY <1>1, Zenon DEF Items, ItemsOfLabel

\* A node behind the nodes of a label.
LEMMA ItemsOfMore ==
  ASSUME NEW S, NEW list \in Seq(S), NEW node \in S, NEW l, NEW name
  PROVE  ItemsOfLabel(l, name, Append(list, node)) =
           ItemsOfLabel(l, name, list) \union ItemsOfNode(l, name, Len(list) + 1, node)
<1> DEFINE more == Append(list, node)
           Of(n, e) == ItemsOfNode(l, name, n, e)
<1>1. /\ Len(list) \in Nat /\ Len(more) = Len(list) + 1 /\ more[Len(list) + 1] = node
      /\ \A n \in 1 .. Len(list) : more[n] = list[n]
  OBVIOUS
<1>2. \A n : n \in 1 .. Len(more) <=> n \in 1 .. Len(list) \/ n = Len(list) + 1
  BY <1>1
<1> HIDE DEF more, Of
<1>3. UNION {Of(n, more[n]) : n \in 1 .. Len(more)} =
        (UNION {Of(n, list[n]) : n \in 1 .. Len(list)}) \union Of(Len(list) + 1, node)
  <2>1. ASSUME NEW x PROVE x \in UNION {Of(n, more[n]) : n \in 1 .. Len(more)}
                             <=> \E n \in 1 .. Len(more) : x \in Of(n, more[n])
    BY Zenon
  <2>2. ASSUME NEW x PROVE x \in UNION {Of(n, list[n]) : n \in 1 .. Len(list)}
                             <=> \E n \in 1 .. Len(list) : x \in Of(n, list[n])
    BY Zenon
  <2>3. ASSUME NEW x
        PROVE  (\E n \in 1 .. Len(more) : x \in Of(n, more[n]))
                 <=> \/ \E n \in 1 .. Len(list) : x \in Of(n, list[n])
                     \/ x \in Of(Len(list) + 1, node)
    BY <1>1, <1>2, Zenon
  <2>4. QED  BY <2>1, <2>2, <2>3, Zenon
<1>4. QED  BY <1>3, Zenon DEF ItemsOfLabel, Of, more

\* A label behind the labels of a list.
LEMMA ItemsMore ==
  ASSUME NEW S, NEW list \in Seq(S), NEW entry \in S
  PROVE  Items(Append(list, entry)) =
           Items(list) \union ItemsOfLabel(Len(list) + 1, entry.label, entry.nodes)
<1> DEFINE more == Append(list, entry)
           Of(l, e) == ItemsOfLabel(l, e.label, e.nodes)
<1>1. /\ Len(list) \in Nat /\ Len(more) = Len(list) + 1 /\ more[Len(list) + 1] = entry
      /\ \A l \in 1 .. Len(list) : more[l] = list[l]
  OBVIOUS
<1>2. \A l : l \in 1 .. Len(more) <=> l \in 1 .. Len(list) \/ l = Len(list) + 1
  BY <1>1
<1> HIDE DEF more, Of
<1>3. UNION {Of(l, more[l]) : l \in 1 .. Len(more)} =
        (UNION {Of(l, list[l]) : l \in 1 .. Len(list)}) \union Of(Len(list) + 1, entry)
  <2>1. ASSUME NEW x PROVE x \in UNION {Of(l, more[l]) : l \in 1 .. Len(more)}
                             <=> \E l \in 1 .. Len(more) : x \in Of(l, more[l])
    BY Zenon
  <2>2. ASSUME NEW x PROVE x \in UNION {Of(l, list[l]) : l \in 1 .. Len(list)}
                             <=> \E l \in 1 .. Len(list) : x \in Of(l, list[l])
    BY Zenon
  <2>3. ASSUME NEW x
        PROVE  (\E l \in 1 .. Len(more) : x \in Of(l, more[l]))
                 <=> \/ \E l \in 1 .. Len(list) : x \in Of(l, list[l])
                     \/ x \in Of(Len(list) + 1, entry)
    BY <1>1, <1>2, Zenon
  <2>4. QED  BY <2>1, <2>2, <2>3, Zenon
<1>4. QED  BY <1>3, Zenon DEF Items, Of, more

\* A node that stands for one place is one item.
LEMMA OneItem ==
  ASSUME NEW l, NEW name, NEW n, NEW node, node.kind # "data"
  PROVE  /\ ItemsOfNode(l, name, n, node) = {Item(l, name, n, 1, node)}
         /\ PlacesOf(node)[1] = node.at
<1>1. PlacesOf(node) = <<node.at>>
  BY DEF PlacesOf
<1>2. Len(PlacesOf(node)) = 1 /\ PlacesOf(node)[1] = node.at
  BY <1>1
<1>3. 1 .. Len(PlacesOf(node)) = {1}
  BY <1>2
<1>4. QED  BY <1>2, <1>3, Zenon DEF ItemsOfNode

\* One more number is one more item of its node.
LEMMA ItemsOfNumber ==
  ASSUME NEW node, NEW added, node.kind = "data", added.kind = "data",
         added.operands = node.operands, node.numbers \in Seq(Nat), NEW k \in Nat,
         added.numbers = Append(node.numbers, k), NEW l, NEW name, NEW n,
         NEW i, i = Len(node.numbers) + 1
  PROVE  /\ \A y : y \in ItemsOfNode(l, name, n, added)
                    <=> y \in ItemsOfNode(l, name, n, node) \/ y = Item(l, name, n, i, added)
         /\ Item(l, name, n, i, added).at = k
<1> DEFINE list == node.numbers
<1>1. PlacesOf(node) = list /\ PlacesOf(added) = Append(list, k)
  BY DEF PlacesOf
<1>2. /\ Len(list) \in Nat /\ Len(Append(list, k)) = i /\ Append(list, k)[i] = k
      /\ \A j \in 1 .. Len(list) : Append(list, k)[j] = list[j]
  OBVIOUS
<1>3. \A j : j \in 1 .. i <=> j \in 1 .. Len(list) \/ j = i
  BY <1>2
<1>4. Len(PlacesOf(added)) = i /\ Len(PlacesOf(node)) = Len(list) /\ PlacesOf(added)[i] = k
  BY <1>1, <1>2
<1>5. \A j \in 1 .. Len(list) : Item(l, name, n, j, added) = Item(l, name, n, j, node)
  <2>1. \A j \in 1 .. Len(list) : PlacesOf(added)[j] = PlacesOf(node)[j]
    BY <1>1, <1>2
  <2>2. QED  BY <2>1, Zenon DEF Item
<1> HIDE DEF list
<1>6. \A y : y \in ItemsOfNode(l, name, n, added)
             <=> y \in ItemsOfNode(l, name, n, node) \/ y = Item(l, name, n, i, added)
  BY <1>3, <1>4, <1>5, Zenon DEF ItemsOfNode
<1>7. Item(l, name, n, i, added).at = k
  BY <1>4, ItemRead
<1>8. QED  BY <1>6, <1>7

-----------------------------------------------------------------------------
(* One statement more *)

\* A statement behind all others, under its label.
LEMMA PlacedMore ==
  ASSUME NEW items, NEW places, NEW ends, Placed(items, places, ends),
         NEW x, StandsUnder(x.at, x.label, ends), \A j \in places : j < x.at,
         \A y \in items \union {x} : ~Precedes(x.slot, y.slot)
  PROVE  Placed(items \union {x}, places \union {x.at}, ends)
<1>1. \A k \in places \union {x.at} : \E y \in items \union {x} : y.at = k
  BY DEF Placed
<1>2. \A y \in items \union {x} : y.at \in places \union {x.at} /\ StandsUnder(y.at, y.label, ends)
  BY DEF Placed
<1>3. \A y, z \in items \union {x} : Precedes(y.slot, z.slot) => y.at < z.at
  BY DEF Placed
<1>4. QED  BY <1>1, <1>2, <1>3 DEF Placed

\* The cursor passes the place of that statement.
LEMMA PlacedUpTo ==
  ASSUME NEW P, P \subseteq Nat, NEW k \in Nat, NEW m \in Nat, NEW a \in Nat, a \in P,
         k <= a, a < m, \A j \in k .. m - 1 : j = a \/ j \notin P,
         NEW items, NEW ends, Placed(items, UpTo(P, k), ends),
         NEW x, x.at = a, StandsUnder(x.at, x.label, ends),
         \A y \in items \union {x} : ~Precedes(x.slot, y.slot)
  PROVE  Placed(items \union {x}, UpTo(P, m), ends)
<1>1. \A j \in P : j < m <=> j < k \/ j = a
  <2>1. ASSUME NEW j \in P, j < m, ~(j < k) PROVE j = a
    <3>1. j \in k .. m - 1
      BY <2>1
    <3>2. QED  BY <2>1, <3>1
  <2>2. \A j \in P : j < k => j < m
    OBVIOUS
  <2>3. QED  BY <2>1, <2>2
<1>2. UpTo(P, m) = UpTo(P, k) \union {a}
  BY <1>1, Zenon DEF UpTo
<1>3. \A j \in UpTo(P, k) : j < x.at
  BY DEF UpTo
<1>4. Placed(items \union {x}, UpTo(P, k) \union {x.at}, ends)
  BY <1>3, PlacedMore
<1>5. QED  BY <1>2, <1>4

\* The slot behind those of a list and of what a label has so far.
LEMMA LastSlot ==
  ASSUME NEW list, Len(list) \in Nat, NEW name, NEW of, Len(of) \in Nat,
         NEW x, x.slot[1] = Len(list) + 1, x.slot[2] \in Nat, x.slot[3] \in Nat,
         \/ x.slot[2] > Len(of)
         \/ /\ x.slot[2] = Len(of) /\ Len(PlacesOf(of[Len(of)])) \in Nat
            /\ x.slot[3] > Len(PlacesOf(of[Len(of)])),
         NEW y \in Items(list) \union ItemsOfLabel(Len(list) + 1, name, of) \union {x}
  PROVE  ~Precedes(x.slot, y.slot)
<1>1. CASE y \in Items(list)
  <2>1. y.slot[1] \in 1 .. Len(list)
    BY <1>1, SlotsOfList
  <2>2. QED  BY <2>1 DEF Precedes
<1>2. CASE y \in ItemsOfLabel(Len(list) + 1, name, of)
  <2>1. /\ y.slot[1] = Len(list) + 1 /\ y.slot[2] \in 1 .. Len(of)
        /\ y.slot[3] \in 1 .. Len(PlacesOf(of[y.slot[2]]))
    BY <1>2, SlotsOfLabel
  <2>2. PICK a, b : a = y.slot[2] /\ b = y.slot[3]
    OBVIOUS
  <2>3. a \in 1 .. Len(of) /\ b \in 1 .. Len(PlacesOf(of[a]))
    BY <2>1, <2>2
  <2>4. ~(x.slot[2] < a) /\ (x.slot[2] = a => ~(x.slot[3] < b))
    BY <2>3
  <2>5. QED  BY <2>1, <2>2, <2>4 DEF Precedes
<1>3. CASE y = x
  BY <1>3 DEF Precedes
<1>4. QED  BY <1>1, <1>2, <1>3

-----------------------------------------------------------------------------
(* Steps *)

\* A step from a state without errors, whose lists hold what has been read.
Placing == Judging /\ PlacedInv

LEMMA PlacesKept ==
  ASSUME source' = source
  PROVE  /\ \A k, d, ends : StandsUnder(k, d, ends)' = StandsUnder(k, d, ends)
         /\ \A k, a, b : PlacedTo(k, a, b)' = PlacedTo(k, a, b)
<1>1. /\ Filled' = Filled /\ Starts' = Starts
      /\ \A k : /\ Type(k)' = Type(k) /\ HasLabel(k)' = HasLabel(k)
                /\ LineEnd(k)' = LineEnd(k) /\ IsMacroLine(k)' = IsMacroLine(k)
  BY LinesKept
<1>2. \A k, d, ends : StandsUnder(k, d, ends)' = StandsUnder(k, d, ends)
  BY <1>1, Zenon DEF StandsUnder
<1>3. \A k, operands : OperandsPlaced(k, operands)' = OperandsPlaced(k, operands)
  BY <1>1, Zenon DEF OperandsPlaced
<1>4. \A k : OnMacroLine(k)' = OnMacroLine(k)
  BY <1>1, Zenon DEF OnMacroLine
<1>5. \A types : Stated(types)' = Stated(types)
  BY <1>1, <1>4, Zenon DEF Stated, Places
<1>6. InstructionsStated' = InstructionsStated /\ GuidanceStated' = GuidanceStated
  BY <1>1, <1>5, Zenon DEF InstructionsStated, GuidanceStated
<1>7. \A items, places, ends : Placed(items, places, ends)' = Placed(items, places, ends)
  BY <1>2, Zenon DEF Placed
<1>8. \A k, a, b : PlacedTo(k, a, b)' = PlacedTo(k, a, b)
  BY <1>3, <1>6, <1>7, Zenon DEF PlacedTo
<1>9. QED  BY <1>2, <1>8

\* The lists hold what has been read, and the cursor passes no statement.
LEMMA PlacedOn ==
  ASSUME Placing, NEW m \in Nat, tokens <= m, tokens' = m,
         \A j \in tokens .. m - 1 : j \notin InstructionsStated /\ j \notin GuidanceStated,
         InstructionItems' = InstructionItems, GuidanceItems' = GuidanceItems
  PROVE  PlacedTo(tokens, InstructionItems, GuidanceItems)'
<1>1. /\ IsTokenList(source) /\ tokens \in Nat /\ source' = source
      /\ PlacedTo(tokens, InstructionItems, GuidanceItems)
  BY JudgingTyped DEF Placing, Judging, PlacedInv
<1>2. Len(source) \in Nat /\ 1 .. Len(source) \subseteq Nat
  BY <1>1, TypesOfList
<1>3. InstructionsStated \subseteq Nat /\ GuidanceStated \subseteq Nat
  BY <1>1, <1>2, LabelsListed
<1>4. /\ UpTo(InstructionsStated, m) = UpTo(InstructionsStated, tokens)
      /\ UpTo(GuidanceStated, m) = UpTo(GuidanceStated, tokens)
  BY <1>1, <1>3, UpToKept
<1>5. PICK a, b : a = InstructionItems /\ b = GuidanceItems
  OBVIOUS
<1>6. PlacedTo(m, a, b)
  BY <1>1, <1>4, <1>5 DEF PlacedTo
<1>7. PlacedTo(m, a, b)'
  BY <1>1, <1>6, PlacesKept
<1>8. m = tokens' /\ a = InstructionItems' /\ b = GuidanceItems'
  BY <1>5
<1>9. QED  BY <1>7, <1>8, Zenon DEF PlacedTo

\* The cursor passes one instruction, which is the last item.
LEMMA InstructionPlaced ==
  ASSUME Placing, NEW m \in Nat, tokens < m, tokens' = m, tokens \in InstructionsStated,
         tokens \notin GuidanceStated,
         \A j \in tokens + 1 .. m - 1 : j \notin InstructionsStated /\ j \notin GuidanceStated,
         NEW x, InstructionItems' = InstructionItems \union {x}, GuidanceItems' = GuidanceItems,
         x.at = tokens, StandsUnder(x.at, x.label, {}), OperandsPlaced(x.at, x.operands),
         \A y \in InstructionItems \union {x} : ~Precedes(x.slot, y.slot)
  PROVE  PlacedTo(tokens, InstructionItems, GuidanceItems)'
<1>1. /\ IsTokenList(source) /\ tokens \in Nat /\ source' = source
      /\ PlacedTo(tokens, InstructionItems, GuidanceItems)
  BY JudgingTyped DEF Placing, Judging, PlacedInv
<1>2. Len(source) \in Nat /\ 1 .. Len(source) \subseteq Nat
  BY <1>1, TypesOfList
<1>3. InstructionsStated \subseteq Nat /\ GuidanceStated \subseteq Nat
  BY <1>1, <1>2, LabelsListed
<1>4. /\ tokens <= m /\ tokens <= tokens
      /\ \A j \in tokens .. m - 1 : j = tokens \/ j \in tokens + 1 .. m - 1
  BY <1>1
<1>5. UpTo(GuidanceStated, m) = UpTo(GuidanceStated, tokens)
  <2>1. \A j \in tokens .. m - 1 : j \notin GuidanceStated
    BY <1>4
  <2>2. QED  BY <1>1, <1>3, <1>4, <2>1, UpToKept
<1>6. PICK a, b : a = InstructionItems /\ b = GuidanceItems
  OBVIOUS
<1>7. Placed(a \union {x}, UpTo(InstructionsStated, m), {})
  <2>1. PICK P, k : P = InstructionsStated /\ k = tokens
    OBVIOUS
  <2>2. P \subseteq Nat /\ k \in Nat /\ k \in P /\ k <= k /\ k < m /\ x.at = k
    BY <1>1, <1>3, <2>1
  <2>3. \A j \in k .. m - 1 : j = k \/ j \notin P
    BY <1>4, <2>1
  <2>4. Placed(a, UpTo(P, k), {})
    BY <1>1, <1>6, <2>1 DEF PlacedTo
  <2>5. \A y \in a \union {x} : ~Precedes(x.slot, y.slot)
    BY <1>6
  <2>6. Placed(a \union {x}, UpTo(P, m), {})
    BY <2>2, <2>3, <2>4, <2>5, PlacedUpTo
  <2>7. QED  BY <2>1, <2>6
<1>8. PlacedTo(m, a \union {x}, b)
  BY <1>1, <1>5, <1>6, <1>7 DEF PlacedTo
<1>9. PlacedTo(m, a \union {x}, b)'
  BY <1>1, <1>8, PlacesKept
<1>10. m = tokens' /\ a \union {x} = InstructionItems' /\ b = GuidanceItems'
  BY <1>6
<1>11. QED  BY <1>9, <1>10, Zenon DEF PlacedTo

\* The cursor passes one string or one number of .data, which is the last item.
LEMMA GuidancePlaced ==
  ASSUME Placing, NEW m \in Nat, NEW a \in GuidanceStated, tokens <= a, a < m, tokens' = m,
         \A j \in tokens .. m - 1 : j \notin InstructionsStated,
         \A j \in tokens .. m - 1 : j = a \/ j \notin GuidanceStated,
         NEW x, GuidanceItems' = GuidanceItems \union {x}, InstructionItems' = InstructionItems,
         x.at = a, StandsUnder(x.at, x.label, GuidanceEnds),
         \A y \in GuidanceItems \union {x} : ~Precedes(x.slot, y.slot)
  PROVE  PlacedTo(tokens, InstructionItems, GuidanceItems)'
<1>1. /\ IsTokenList(source) /\ tokens \in Nat /\ source' = source
      /\ PlacedTo(tokens, InstructionItems, GuidanceItems)
  BY JudgingTyped DEF Placing, Judging, PlacedInv
<1>2. Len(source) \in Nat /\ 1 .. Len(source) \subseteq Nat
  BY <1>1, TypesOfList
<1>3. InstructionsStated \subseteq Nat /\ GuidanceStated \subseteq Nat /\ a \in Nat
  BY <1>1, <1>2, LabelsListed
<1>4. tokens <= m
  BY <1>1, <1>3
<1>5. UpTo(InstructionsStated, m) = UpTo(InstructionsStated, tokens)
  BY <1>1, <1>3, <1>4, UpToKept
<1>6. PICK i, g : i = InstructionItems /\ g = GuidanceItems
  OBVIOUS
<1>7. Placed(g \union {x}, UpTo(GuidanceStated, m), GuidanceEnds)
  <2>1. PICK P, k : P = GuidanceStated /\ k = tokens
    OBVIOUS
  <2>2. P \subseteq Nat /\ k \in Nat /\ a \in P /\ k <= a /\ a < m /\ x.at = a
    BY <1>1, <1>3, <2>1
  <2>3. \A j \in k .. m - 1 : j = a \/ j \notin P
    BY <2>1
  <2>4. Placed(g, UpTo(P, k), GuidanceEnds)
    BY <1>1, <1>6, <2>1 DEF PlacedTo
  <2>5. \A y \in g \union {x} : ~Precedes(x.slot, y.slot)
    BY <1>6
  <2>6. Placed(g \union {x}, UpTo(P, m), GuidanceEnds)
    BY <1>3, <2>2, <2>3, <2>4, <2>5, PlacedUpTo
  <2>7. QED  BY <2>1, <2>6
<1>8. PlacedTo(m, i, g \union {x})
  BY <1>1, <1>5, <1>6, <1>7 DEF PlacedTo
<1>9. PlacedTo(m, i, g \union {x})'
  BY <1>1, <1>8, PlacesKept
<1>10. m = tokens' /\ i = InstructionItems' /\ g \union {x} = GuidanceItems'
  BY <1>6
<1>11. QED  BY <1>9, <1>10, Zenon DEF PlacedTo

LEMMA PlacingTyped ==
  ASSUME Placing
  PROVE  /\ IsTokenList(source) /\ InList(tokens) /\ tokens \in Nat \ {0} /\ Len(source) \in Nat
         /\ source' = source /\ Judging /\ IInv /\ LabelInv
BY JudgingTyped DEF Placing, Judging, PlacedInv

\* Without an error in the end there was none on the way.
LEMMA NoError ==
  ASSUME Judging, error_list' = <<>>, NEW k
  PROVE  ~Error(k)
<1>1. error_list = <<>>
  BY DEF Judging
<1>2. Append(<<>>, k) # <<>>
  OBVIOUS
<1>3. QED  BY <1>1, <1>2 DEF Error

\* The loops, with the label they go on with.
LEMMA UnitUnder ==
  ASSUME source' = source, pc' = "unit", label' = NULL, NEW m, tokens' = m,
         StandsUnder(m, NULL, GuidanceEnds)
           \/ Type(m) \notin {"data_ins", "string_ins", "eol"}
  PROVE  LabelInv'
<1>1. /\ StandsUnder(m, NULL, GuidanceEnds)' = StandsUnder(m, NULL, GuidanceEnds)
      /\ Type(m)' = Type(m)
  BY PlacesKept, LinesKept
<1>2. \/ StandsUnder(tokens, NULL, GuidanceEnds)'
      \/ Type(tokens)' \notin {"data_ins", "string_ins", "eol"}
  BY <1>1
<1>3. pc' \notin {"labelled", "guidance", "data", "instructions"}
  OBVIOUS
<1>4. QED  BY <1>2, <1>3 DEF LabelInv

LEMMA GuidanceUnder ==
  ASSUME source' = source, pc' \in {"labelled", "guidance", "data"}, NEW d, label' = d,
         NEW m, tokens' = m, StandsUnder(m, d, GuidanceEnds)
  PROVE  LabelInv'
<1>1. StandsUnder(m, d, GuidanceEnds)'
  BY PlacesKept
<1>2. StandsUnder(tokens, label, GuidanceEnds)'
  BY <1>1, Zenon DEF StandsUnder
<1>3. pc' # "unit" /\ pc' # "instructions"
  OBVIOUS
<1>4. QED  BY <1>2, <1>3 DEF LabelInv

LEMMA InstructionsUnder ==
  ASSUME source' = source, pc' = "instructions", NEW d, label' = d,
         NEW m, tokens' = m, StandsUnder(m, d, {}),
         nodes' # <<>> => StandsUnder(m, NULL, GuidanceEnds)
  PROVE  LabelInv'
<1>1. StandsUnder(m, d, {})' /\ (nodes' # <<>> => StandsUnder(m, NULL, GuidanceEnds)')
  BY PlacesKept
<1>2. /\ StandsUnder(tokens, label, {})'
      /\ nodes' # <<>> => StandsUnder(tokens, NULL, GuidanceEnds)'
  BY <1>1, Zenon DEF StandsUnder
<1>3. pc' \notin {"unit", "labelled", "guidance", "data"}
  OBVIOUS
<1>4. QED  BY <1>2, <1>3 DEF LabelInv

\* No label of these loops has a node yet.
LEMMA ItemsStay ==
  ASSUME instruction_label_list' = instruction_label_list,
         guidance_label_list' = guidance_label_list,
         \/ pc' = pc /\ label' = label /\ nodes' = nodes
         \/ nodes = <<>> /\ nodes' = <<>>
         \/ pc \in {"guidance", "data"} /\ pc' \in {"guidance", "data"} /\ label' = label
            /\ nodes' = nodes
  PROVE  InstructionItems' = InstructionItems /\ GuidanceItems' = GuidanceItems
<1>1. CASE pc' = pc /\ label' = label /\ nodes' = nodes
  BY <1>1 DEF InstructionItems, GuidanceItems
<1>2. CASE nodes = <<>> /\ nodes' = <<>>
  <2>1. \A l, name : ItemsOfLabel(l, name, nodes) = {} /\ ItemsOfLabel(l, name, nodes') = {}
    BY <1>2, NoItems
  <2>2. QED  BY <2>1, Zenon DEF InstructionItems, GuidanceItems
<1>3. CASE /\ pc \in {"guidance", "data"} /\ pc' \in {"guidance", "data"} /\ label' = label
           /\ nodes' = nodes
  BY <1>3 DEF InstructionItems, GuidanceItems
<1>4. QED  BY <1>1, <1>2, <1>3

\* An end of a line passed behind a token.
LEMMA EndPassed ==
  ASSUME IsTokenList(source), NEW k, InList(k), EndsLine(k)
  PROVE  EndOfLine(k) \in {k, k + 1} /\ LineEnd(k) = k
<1>1. k \in Nat
  BY TypesOfList DEF InList
<1>2. k <= k /\ \A j \in k .. k - 1 : ~EndsLine(j)
  BY <1>1
<1>3. LineEnd(k) = k
  BY <1>1, <1>2, EndKnown
<1>4. QED  BY <1>3 DEF EndOfLine

LEMMA EndsKnown ==
  /\ \A type \in {"data_ins", "string_ins", "string", "number", "comma", "identifier", "colon",
                  "eol", "eoft", "none"} : type \notin GuidanceEnds
  /\ \A type \in {"data_ins", "string_ins", "comma", "identifier", "colon", "eol", "eoft", "none",
                  "extern_ins", "entry_ins", "register", "hashtag", "star"} :
       type \notin Operation \union {"string", "number"}
BY Beginnings DEF GuidanceEnds, Directive

LEMMA PlaceEmptyLine ==
  ASSUME Placing, SkipEmptyLine, error_list' = <<>>
  PROVE  PlacedInv'
<1> DEFINE k == tokens
           m == tokens + 1
<1>1. /\ pc \in {"unit", "labelled", "instructions", "guidance"} /\ Type(k) = "eol"
      /\ UNCHANGED <<source, pc, label, nodes>> /\ tokens' = m
      /\ instruction_label_list' = instruction_label_list
      /\ guidance_label_list' = guidance_label_list
  BY DEF SkipEmptyLine, Continue, lists
<1>2. IsTokenList(source) /\ k \in Nat \ {0} /\ source' = source /\ LabelInv
  BY PlacingTyped
<1>3. m \in Nat /\ k <= m /\ \A j \in k .. m - 1 : j = k
  BY <1>2
<1>4. \A j \in k .. m - 1 : Type(j) = "eol"
  BY <1>1, <1>3
<1>5. \A j \in k .. m - 1 : j \notin InstructionsStated /\ j \notin GuidanceStated
  BY <1>4, EndsKnown, NothingStated
<1>6. PlacedTo(tokens, InstructionItems, GuidanceItems)'
  BY <1>1, <1>3, <1>5, ItemsStay, PlacedOn
<1>7. ASSUME NEW d, NEW ends, StandsUnder(k, d, ends), "eol" \notin ends
      PROVE  StandsUnder(m, d, ends)
  <2>1. \A j \in k .. m - 1 : Type(j) \notin ends
    BY <1>4, <1>7
  <2>2. \A q \in Filled : k <= q /\ q < m => ~HasLabel(q)
    <3>1. \A q \in Filled : q \in Nat /\ ~EndsLine(q)
      BY <1>2, LineRead
    <3>2. \A q \in Filled : q \in Nat /\ q # k
      BY <1>1, <3>1 DEF EndsLine
    <3>3. \A q \in Nat : k <= q /\ q < m => q = k
      BY <1>2
    <3> HIDE DEF k, m
    <3>4. QED  BY <3>2, <3>3
  <2> HIDE DEF k, m
  <2>3. QED  BY <1>2, <1>3, <1>7, <2>1, <2>2, UnderKept
<1>8. "eol" \notin GuidanceEnds /\ "eol" \notin {}
  BY EndsKnown
<1> HIDE DEF m
<1>9. LabelInv'
  <2>1. CASE pc = "unit"
    <3>1. label = NULL /\ StandsUnder(k, NULL, GuidanceEnds)
      BY <1>1, <1>2, <2>1 DEF LabelInv
    <3>2. StandsUnder(m, NULL, GuidanceEnds)
      BY <1>7, <1>8, <3>1
    <3>3. QED  BY <1>1, <2>1, <3>1, <3>2, UnitUnder
  <2>2. CASE pc \in {"labelled", "guidance"}
    <3>1. StandsUnder(k, label, GuidanceEnds)
      BY <1>2, <2>2 DEF LabelInv
    <3>2. StandsUnder(m, label, GuidanceEnds)
      BY <1>7, <1>8, <3>1
    <3>3. QED  BY <1>1, <2>2, <3>2, GuidanceUnder
  <2>3. CASE pc = "instructions"
    <3>1. StandsUnder(k, label, {}) /\ (nodes # <<>> => StandsUnder(k, NULL, GuidanceEnds))
      BY <1>2, <2>3 DEF LabelInv
    <3>2. StandsUnder(m, label, {}) /\ (nodes # <<>> => StandsUnder(m, NULL, GuidanceEnds))
      BY <1>7, <1>8, <3>1
    <3>3. QED  BY <1>1, <2>3, <3>2, InstructionsUnder
  <2>4. QED  BY <1>1, <2>1, <2>2, <2>3
<1>10. pc' # "done"
  BY <1>1
<1>11. QED  BY <1>6, <1>9, <1>10 DEF PlacedInv

\* A line of the unit that ends the label before it.
LEMMA PlaceEndingLine ==
  ASSUME Placing, pc = "unit", pc' = "unit", label' = label, nodes' = nodes,
         instruction_label_list' = instruction_label_list,
         guidance_label_list' = guidance_label_list,
         Type(tokens) \in {"extern_ins", "entry_ins", "macr", "endmacr"},
         NEW m \in Nat, tokens' = m, tokens < m, m <= LineEnd(tokens) + 1,
         \A j \in tokens .. m - 1 : j \notin InstructionsStated /\ j \notin GuidanceStated
  PROVE  PlacedInv'
<1> DEFINE s == tokens
<1>1. IsTokenList(source) /\ s \in Nat \ {0} /\ source' = source /\ LabelInv
  BY PlacingTyped
<1>2. s \in Filled /\ BodyAt(s) = s
  <2>1. ~EndsLine(s) /\ Type(s) # "identifier"
    BY DEF EndsLine
  <2>2. s \in Filled
    BY <2>1, UnitLine, PlacingTyped
  <2>3. QED  BY <1>1, <2>1, <2>2, Unlabelled
<1>3. Type(s) \in GuidanceEnds
  BY DEF GuidanceEnds
<1>4. \A q \in Filled : s <= q /\ q < m => ~HasLabel(q)
  <2>1. BodyAt(s) <= s
    BY <1>1, <1>2
  <2>2. QED  BY <1>1, <1>2, <2>1, NoLabelPassed
<1>5. StandsUnder(m, NULL, GuidanceEnds)
  <2> HIDE DEF s
  <2>1. s < m
    BY DEF s
  <2>2. QED  BY <1>1, <1>3, <1>4, <2>1, UnderNone
<1>6. label = NULL
  BY <1>1 DEF LabelInv
<1>7. LabelInv'
  BY <1>1, <1>5, <1>6, UnitUnder
<1>8. tokens <= m
  BY <1>1
<1>9. PlacedTo(tokens, InstructionItems, GuidanceItems)'
  BY <1>8, ItemsStay, PlacedOn
<1>10. QED  BY <1>7, <1>9 DEF PlacedInv

LEMMA PlaceDeclaration ==
  ASSUME Placing, ParseExternal \/ ParseEntry, error_list' = <<>>
  PROVE  PlacedInv'
<1> DEFINE s == tokens
           m == EndOfLine(s + 2)
<1>1. /\ pc = "unit" /\ Type(s) \in {"extern_ins", "entry_ins"} /\ label' = label /\ nodes' = nodes
      /\ instruction_label_list' = instruction_label_list
      /\ guidance_label_list' = guidance_label_list
  BY DEF ParseExternal, ParseEntry
<1>2. IsTokenList(source) /\ s \in Nat \ {0} /\ Judging
  BY PlacingTyped
<1>3. pc' = "unit" /\ OneToken("identifier")
  <2>1. CASE ParseExternal
    BY <1>1, <2>1 DEF ParseExternal
  <2>2. CASE ParseEntry
    <3>1. s + 1 \in 1 .. Len(source)
      BY <1>1, <1>2, TokenFollows
    <3>2. Type(s + 1) # "none"
      BY <1>2, <3>1, TypesOfList
    <3>3. QED  BY <1>1, <2>2, <3>2 DEF ParseEntry
  <2>3. QED  BY <2>1, <2>2
<1>4. Type(s + 1) = "identifier" /\ EndsLine(s + 2) /\ tokens' = m
  BY <1>2, <1>3, NoError DEF OneToken, Continue
<1>5. InList(s + 2)
  <2>1. InList(s + 1 + 1)
    BY <1>2, <1>4, Behind
  <2>2. QED  BY <1>2, <2>1
<1>6. m \in {s + 2, s + 3}
  BY <1>2, <1>4, <1>5, EndPassed
<1>7. m \in Nat /\ s < m /\ \A j \in s .. m - 1 : j = s \/ j = s + 1 \/ j = s + 2
  <2> HIDE DEF m
  <2>1. QED  BY <1>2, <1>6
<1>8. m <= LineEnd(s) + 1
  <2>1. InList(s) /\ s <= s + 2 /\ s + 2 \in Nat
    BY <1>2, PlacingTyped
  <2>2. \A j \in s .. (s + 2) - 1 : j = s \/ j = s + 1
    BY <1>2
  <2>3. \A j \in s .. (s + 2) - 1 : ~EndsLine(j)
    BY <1>1, <1>4, <2>2 DEF EndsLine
  <2>4. LineEnd(s) = s + 2
    BY <1>2, <1>4, <2>1, <2>3, EndKnown
  <2> HIDE DEF m
  <2>5. QED  BY <1>2, <1>6, <2>4
<1>9. \A j \in s .. m - 1 : j \notin InstructionsStated /\ j \notin GuidanceStated
  <2>1. /\ s \notin InstructionsStated /\ s \notin GuidanceStated
        /\ s + 1 \notin InstructionsStated /\ s + 1 \notin GuidanceStated
        /\ s + 2 \notin InstructionsStated /\ s + 2 \notin GuidanceStated
    BY <1>1, <1>4, EndsKnown, NothingStated DEF EndsLine
  <2> HIDE DEF m, s
  <2>2. QED  BY <1>7, <2>1
<1> HIDE DEF m
<1>10. QED  BY <1>1, <1>3, <1>4, <1>7, <1>8, <1>9, PlaceEndingLine

LEMMA PlaceMacroLine ==
  ASSUME Placing, SkipMacroLine, error_list' = <<>>
  PROVE  PlacedInv'
<1> DEFINE s == tokens
           m == EndOfLine(s)
<1>1. /\ pc = "unit" /\ pc' = "unit" /\ Type(s) \in {"macr", "endmacr"} /\ label' = label
      /\ nodes' = nodes /\ tokens' = m
      /\ instruction_label_list' = instruction_label_list
      /\ guidance_label_list' = guidance_label_list
  BY DEF SkipMacroLine, Continue, lists
<1>2. IsTokenList(source) /\ s \in Nat \ {0} /\ ~EndsLine(s) /\ IsMacroLine(s)
  BY <1>1, PlacingTyped DEF EndsLine, IsMacroLine
<1>3. s \in Filled
  BY <1>1, <1>2, UnitLine, PlacingTyped
<1>4. LineEnd(s) \in Nat /\ s <= LineEnd(s)
  BY <1>2, <1>3, LineRead
<1>5. m \in Nat /\ s < m /\ m <= LineEnd(s) + 1
  BY <1>2, <1>3, <1>4, EndOfLineFrom
<1>6. \A j \in s .. m - 1 : j \in s .. LineEnd(s)
  <2> HIDE DEF m
  <2>1. QED  BY <1>2, <1>4, <1>5
<1>7. \A j \in s .. m - 1 : j \notin InstructionsStated /\ j \notin GuidanceStated
  BY <1>2, <1>3, <1>6, MacroLineStates
<1> HIDE DEF m
<1>8. QED  BY <1>1, <1>5, <1>7, PlaceEndingLine

LEMMA PlaceLabel ==
  ASSUME Placing, ParseLabel, error_list' = <<>>
  PROVE  PlacedInv'
<1> DEFINE s == tokens
           m == s + 2
<1>1. /\ pc = "unit" /\ Type(s) = "identifier" /\ nodes' = nodes
      /\ instruction_label_list' = instruction_label_list
      /\ guidance_label_list' = guidance_label_list
  BY DEF ParseLabel, lists
<1>2. IsTokenList(source) /\ s \in Nat \ {0} /\ ~EndsLine(s) /\ source' = source /\ Judging
  BY <1>1, PlacingTyped DEF EndsLine
<1>3. s \in Filled /\ nodes = <<>>
  BY <1>1, <1>2, UnitLine, JudgingTyped DEF NodesInv
<1>4. HasLabel(s) /\ tokens' = m /\ pc' = "labelled" /\ label' = s
  BY <1>2, NoError DEF ParseLabel, HasLabel, Continue
<1>5. StandsUnder(m, s, GuidanceEnds)
  BY <1>2, <1>3, <1>4, EndsKnown, UnderLabel
<1>6. /\ m \in Nat /\ s <= m
      /\ \A j \in s .. m - 1 : j = s \/ j = s + 1
  BY <1>2
<1>7. \A j \in s .. m - 1 : j \notin InstructionsStated /\ j \notin GuidanceStated
  <2>1. /\ s \notin InstructionsStated /\ s \notin GuidanceStated
        /\ s + 1 \notin InstructionsStated /\ s + 1 \notin GuidanceStated
    BY <1>1, <1>4, EndsKnown, NothingStated DEF HasLabel
  <2> HIDE DEF m, s
  <2>2. QED  BY <1>6, <2>1
<1> HIDE DEF m
<1>8. LabelInv'
  BY <1>2, <1>4, <1>5, GuidanceUnder
<1>9. PlacedTo(tokens, InstructionItems, GuidanceItems)'
  BY <1>1, <1>3, <1>4, <1>6, <1>7, ItemsStay, PlacedOn
<1>10. QED  BY <1>4, <1>8, <1>9 DEF PlacedInv

\* A step that leaves the cursor.
LEMMA PlacedStill ==
  ASSUME Placing, tokens' = tokens, InstructionItems' = InstructionItems,
         GuidanceItems' = GuidanceItems
  PROVE  PlacedTo(tokens, InstructionItems, GuidanceItems)'
<1>1. tokens \in Nat
  BY PlacingTyped
<1>2. PICK m \in Nat : m = tokens
  BY <1>1
<1>3. tokens <= m /\ tokens' = m /\ \A j \in tokens .. m - 1 : FALSE
  BY <1>1, <1>2
<1>4. QED  BY <1>3, PlacedOn

LEMMA PlaceBegin ==
  ASSUME Placing, BeginInstructions \/ BeginGuidance, error_list' = <<>>
  PROVE  PlacedInv'
<1>1. /\ UNCHANGED <<source, tokens, label, nodes>> /\ pc \in {"unit", "labelled"}
      /\ instruction_label_list' = instruction_label_list
      /\ guidance_label_list' = guidance_label_list
      /\ \/ pc' = "instructions" /\ pc = "labelled" /\ Type(tokens) \in Operation
         \/ pc' = "guidance" /\ Type(tokens) \in {"data_ins", "string_ins"}
  BY DEF BeginInstructions, BeginGuidance, lists
<1>2. LabelInv /\ nodes = <<>> /\ (pc = "labelled" => label # NULL) /\ source' = source
  BY <1>1, PlacingTyped, JudgingTyped DEF NodesInv
<1>3. PlacedTo(tokens, InstructionItems, GuidanceItems)'
  BY <1>1, <1>2, ItemsStay, PlacedStill
<1>4. CASE pc' = "instructions"
  <2>1. StandsUnder(tokens, label, GuidanceEnds) /\ label # NULL
    BY <1>1, <1>2, <1>4 DEF LabelInv
  <2>2. StandsUnder(tokens, label, {})
    BY <2>1 DEF StandsUnder
  <2>3. PICK d, m : d = label /\ m = tokens
    OBVIOUS
  <2>4. LabelInv'
    BY <1>1, <1>2, <1>4, <2>2, <2>3, InstructionsUnder
  <2>5. QED  BY <1>3, <1>4, <2>4 DEF PlacedInv
<1>5. CASE pc' = "guidance"
  <2>1. StandsUnder(tokens, label, GuidanceEnds)
    BY <1>1, <1>2, <1>5 DEF LabelInv
  <2>2. PICK d, m : d = label /\ m = tokens
    OBVIOUS
  <2>3. LabelInv'
    BY <1>1, <1>2, <1>5, <2>1, <2>2, GuidanceUnder
  <2>4. QED  BY <1>3, <1>5, <2>3 DEF PlacedInv
<1>6. QED  BY <1>1, <1>4, <1>5

\* What must follow a label and does not is an error.
LEMMA PlaceDrop ==
  ASSUME Placing, DropLabel, error_list' = <<>>
  PROVE  FALSE
<1>1. pc = "labelled" /\ (Type(tokens) = "none" \/ Error(tokens))
  BY DEF DropLabel
<1>2. Judging /\ NoErrorInv
  BY PlacingTyped DEF Judging
<1>3. LabelOpened
  BY <1>1, <1>2 DEF NoErrorInv
<1>4. Type(tokens) # "none"
  BY <1>2, <1>3, LabelNotLast
<1>5. QED  BY <1>1, <1>2, <1>4, NoError

-----------------------------------------------------------------------------
(* Instructions in place *)

\* The tokens of an operand: its own, and what marks it before that.
LEMMA OperandTokens ==
  ASSUME NEW k \in Nat \ {0}, IsOperand(k), Type(k - 1) # "star"
  PROVE  LET a == OperandAt(k) IN
         /\ a \in {k, k + 1} /\ Type(a) \in Operands \union {"number"}
         /\ \A j \in k .. a : j # a => Type(j) \notin Operands \union {"number"}
         /\ OperandNode(k).at = a
         /\ OperandNode(k).is_dereferenced <=> Type(a - 1) = "star"
         /\ \A j \in k .. a : ~EndsLine(j) /\ j \notin InstructionsStated /\ j \notin GuidanceStated
<1> DEFINE a == OperandAt(k)
<1>1. a \in {k, k + 1} /\ (a = k <=> Type(k) \notin {"hashtag", "star"})
  BY DEF OperandAt
<1>2. Type(a) \in Operands \union {"number"} /\ (Type(a) = "number" => Type(k) = "hashtag")
  BY DEF IsOperand, OperandAt, Operands
<1>3. \A j \in k .. a : j = k \/ j = a
  BY <1>1
<1>4. \A j \in k .. a : j # a => Type(j) \in {"hashtag", "star"}
  BY <1>1, <1>3
<1>5. \A j \in k .. a : Type(j) \notin Operation \union {"string"} /\ ~EndsLine(j)
  BY <1>2, <1>4, Beginnings DEF Operands, EndsLine
<1>6. \A j \in k .. a : j \notin GuidanceStated
  <2>1. ASSUME NEW j \in k .. a, Type(j) = "number" PROVE j \notin GuidanceStated
    <3>1. j = a /\ Type(k) = "hashtag"
      BY <1>2, <1>4, <2>1
    <3>2. j = k + 1
      BY <1>1, <3>1
    <3>3. j - 1 = k /\ j # 1
      BY <3>2
    <3>4. Type(j - 1) = "hashtag"
      BY <3>1, <3>3
    <3>5. QED  BY <3>3, <3>4 DEF GuidanceStated
  <2>2. ASSUME NEW j \in k .. a, Type(j) # "number" PROVE j \notin GuidanceStated
    BY <1>5, <2>2 DEF GuidanceStated, Stated, Places
  <2>3. QED  BY <2>1, <2>2
<1>7. \A j \in k .. a : j \notin InstructionsStated
  BY <1>5 DEF InstructionsStated, Stated, Places
<1>8. OperandNode(k).at = a /\ (OperandNode(k).is_dereferenced <=> Type(a - 1) = "star")
  <2>1. OperandNode(k).at = a /\ (OperandNode(k).is_dereferenced <=> Type(k) = "star")
    BY Zenon DEF OperandNode
  <2>2. Type(k) = "star" <=> Type(a - 1) = "star"
    <3>1. CASE a = k
      BY <1>1, <3>1
    <3>2. CASE a = k + 1
      <4>1. a - 1 = k
        BY <3>2
      <4>2. QED  BY <4>1
    <3>3. QED  BY <1>1, <3>1, <3>2
  <2>3. QED  BY <2>1, <2>2
<1>9. \A j \in k .. a : j # a => Type(j) \notin Operands \union {"number"}
  BY <1>4 DEF Operands
<1> HIDE DEF a
<1>10. QED  BY <1>1, <1>2, <1>5, <1>6, <1>7, <1>8, <1>9 DEF a

\* What an operation is followed by up to m.
OperandsUpTo(k, m, operands) ==
  LET places == {j \in k .. m : Type(j) \in Operands \union {"number"}} IN
  /\ \A j \in places : \E o \in 1 .. Len(operands) : operands[o].at = j
  /\ \A o \in 1 .. Len(operands) :
       /\ operands[o].at \in places
       /\ operands[o].is_dereferenced <=> Type(operands[o].at - 1) = "star"
       /\ \A p \in 1 .. o - 1 : operands[p].at < operands[o].at

LEMMA NoOperands ==
  ASSUME NEW k, NEW m, \A j \in k .. m : Type(j) \notin Operands \union {"number"}
  PROVE  OperandsUpTo(k, m, <<>>)
BY DEF OperandsUpTo

LEMMA OneOperandUpTo ==
  ASSUME NEW k, NEW m, NEW a \in k .. m, Type(a) \in Operands \union {"number"},
         \A j \in k .. m : j # a => Type(j) \notin Operands \union {"number"},
         NEW node, node.at = a, node.is_dereferenced <=> Type(a - 1) = "star"
  PROVE  OperandsUpTo(k, m, <<node>>)
<1> DEFINE operands == <<node>>
           places == {j \in k .. m : Type(j) \in Operands \union {"number"}}
<1>1. Len(operands) = 1 /\ operands[1] = node /\ 1 \in 1 .. 1 /\ \A o \in 1 .. 1 : o = 1
  OBVIOUS
<1>2. \A o \in 1 .. 1 : \A p \in 1 .. o - 1 : FALSE
  OBVIOUS
<1>3. \A j \in places : j = a
  OBVIOUS
<1>4. a \in places
  OBVIOUS
<1> HIDE DEF operands, places
<1>5. /\ \A j \in places : \E o \in 1 .. Len(operands) : operands[o].at = j
      /\ \A o \in 1 .. Len(operands) :
           /\ operands[o].at \in places
           /\ operands[o].is_dereferenced <=> Type(operands[o].at - 1) = "star"
           /\ \A p \in 1 .. o - 1 : operands[p].at < operands[o].at
  <2>1. \A j \in places : \E o \in 1 .. Len(operands) : operands[o].at = j
    BY <1>1, <1>3, Zenon
  <2>2. ASSUME NEW o \in 1 .. Len(operands)
        PROVE  /\ operands[o].at \in places
               /\ operands[o].is_dereferenced <=> Type(operands[o].at - 1) = "star"
               /\ \A p \in 1 .. o - 1 : operands[p].at < operands[o].at
    <3>1. o = 1 /\ operands[o] = node
      BY <1>1, <2>2
    <3>2. \A p \in 1 .. o - 1 : FALSE
      BY <3>1
    <3>3. QED  BY <1>4, <3>1, <3>2
  <2>3. QED  BY <2>1, <2>2
<1>6. QED  BY <1>5 DEF OperandsUpTo, operands, places

LEMMA TwoOperandsUpTo ==
  ASSUME NEW k, NEW m, NEW a \in k .. m, NEW b \in k .. m, a < b,
         Type(a) \in Operands \union {"number"}, Type(b) \in Operands \union {"number"},
         \A j \in k .. m : j # a /\ j # b => Type(j) \notin Operands \union {"number"},
         NEW n, n.at = a, n.is_dereferenced <=> Type(a - 1) = "star",
         NEW o, o.at = b, o.is_dereferenced <=> Type(b - 1) = "star"
  PROVE  OperandsUpTo(k, m, <<n, o>>)
<1> DEFINE operands == <<n, o>>
           places == {j \in k .. m : Type(j) \in Operands \union {"number"}}
<1>1. /\ Len(operands) = 2 /\ operands[1] = n /\ operands[2] = o /\ 1 \in 1 .. 2 /\ 2 \in 1 .. 2
      /\ \A i \in 1 .. 2 : i = 1 \/ i = 2
  OBVIOUS
<1>2. \A j \in places : j = a \/ j = b
  OBVIOUS
<1>3. a \in places /\ b \in places
  OBVIOUS
<1> HIDE DEF operands, places
<1>4. /\ \A j \in places : \E i \in 1 .. Len(operands) : operands[i].at = j
      /\ \A i \in 1 .. Len(operands) :
           /\ operands[i].at \in places
           /\ operands[i].is_dereferenced <=> Type(operands[i].at - 1) = "star"
           /\ \A p \in 1 .. i - 1 : operands[p].at < operands[i].at
  <2>1. \A j \in places : \E i \in 1 .. Len(operands) : operands[i].at = j
    BY <1>1, <1>2, Zenon
  <2>2. ASSUME NEW i \in 1 .. Len(operands)
        PROVE  /\ operands[i].at \in places
               /\ operands[i].is_dereferenced <=> Type(operands[i].at - 1) = "star"
               /\ \A p \in 1 .. i - 1 : operands[p].at < operands[i].at
    <3>1. (i = 1 /\ operands[i] = n) \/ (i = 2 /\ operands[i] = o)
      BY <1>1, <2>2
    <3>2. CASE i = 1 /\ operands[i] = n
      <4>1. \A p \in 1 .. i - 1 : FALSE
        BY <3>2
      <4>2. QED  BY <1>3, <3>2, <4>1
    <3>3. CASE i = 2 /\ operands[i] = o
      <4>1. \A p \in 1 .. i - 1 : p = 1
        BY <3>3
      <4>2. \A p \in 1 .. i - 1 : operands[p].at = a
        BY <1>1, <4>1
      <4>3. \A p \in 1 .. i - 1 : operands[p].at < operands[i].at
        BY <3>3, <4>2
      <4>4. QED  BY <1>3, <3>3, <4>3
    <3>4. QED  BY <3>1, <3>2, <3>3
  <2>3. QED  BY <2>1, <2>2
<1>5. QED  BY <1>4 DEF OperandsUpTo, operands, places

\* An instruction without an error, up to the end of its line.
LEMMA InstructionTaken ==
  ASSUME Placing, ParseInstruction, error_list' = <<>>
  PROVE  \E m, operands :
           /\ m \in Nat
           /\ tokens' = m /\ nodes' = Append(nodes, Node("instruction", tokens, operands))
           /\ tokens < m /\ EndsLine(m)
           /\ \A j \in tokens + 1 .. m - 1 :
                ~EndsLine(j) /\ j \notin InstructionsStated /\ j \notin GuidanceStated
           /\ OperandsUpTo(tokens, m, operands)
<1>1. PICK k : k = tokens
  OBVIOUS
<1>2. PICK first : first = k + 1
  OBVIOUS
<1>3. PICK comma : comma = OperandAt(first) + 1
  OBVIOUS
<1>4. PICK second : second = comma + 1
  OBVIOUS
<1>5. PICK last : last = OperandAt(second) + 1
  OBVIOUS
<1>6. /\ IsTokenList(source) /\ k \in Nat \ {0} /\ Judging /\ Type(k) \in Operation
      /\ Len(source) \in Nat
  BY <1>1, PlacingTyped DEF ParseInstruction
<1>7. first \in 1 .. Len(source) /\ first \in Nat \ {0} /\ first - 1 = k
  BY <1>2, <1>6, TokenFollows, Beginnings
<1>8. /\ Type(k) \notin Operands \union {"number", "star"}
  BY <1>6, Beginnings DEF Operands
<1>9. \A j : Type(j) # "none" => ~OperandError(j)
  BY <1>6, NoError DEF OperandError
<1>10. Type(first) # "none"
  BY <1>6, <1>7, TypesOfList
<1>11. ASSUME Type(comma) = "comma", IsOperand(first) PROVE Type(second) # "none"
  <2>1. OperandAt(first) + 1 \in Nat \ {0}
    BY <1>7, <1>11, OperandEndsBehind
  <2>2. comma \in Nat \ {0}
    BY <1>3, <2>1
  <2>3. comma + 1 \in 1 .. Len(source)
    BY <1>6, <1>11, <2>2, TokenFollows
  <2>4. QED  BY <1>4, <1>6, <2>3, TypesOfList
<1>12. \/ /\ EndsLine(first) /\ Continue(first) /\ AddInstruction(<<>>)
       \/ /\ IsOperand(first) /\ EndsLine(comma) /\ Continue(comma)
          /\ AddInstruction(<<first>>)
       \/ /\ IsOperand(first) /\ Type(comma) = "comma" /\ IsOperand(second)
          /\ EndsLine(last) /\ Continue(last) /\ AddInstruction(<<first, second>>)
  <2>1. \/ /\ EndsLine(first) /\ Continue(first) /\ AddInstruction(<<>>)
        \/ ~EndsLine(first) /\ ~IsOperand(first) /\ OperandError(first)
        \/ /\ IsOperand(first)
           /\ \/ EndsLine(comma) /\ Continue(comma) /\ AddInstruction(<<first>>)
              \/ Error(comma)
              \/ Type(comma) = "comma" /\ ~IsOperand(second) /\ OperandError(second)
              \/ /\ Type(comma) = "comma" /\ IsOperand(second)
                 /\ AddInstruction(<<first, second>>)
                 /\ IF EndsLine(last) THEN Continue(last) ELSE Error(last)
    BY <1>1, <1>2, <1>3, <1>4, <1>5, Zenon DEF ParseInstruction
  <2>2. ~OperandError(first) /\ ~Error(comma) /\ ~Error(last)
    BY <1>6, <1>9, <1>10, NoError
  <2>3. IsOperand(first) /\ Type(comma) = "comma" => ~OperandError(second)
    BY <1>9, <1>11
  <2>4. QED  BY <2>1, <2>2, <2>3, Zenon
<1>13. CASE EndsLine(first) /\ Continue(first) /\ AddInstruction(<<>>)
  <2>1. tokens' = first /\ nodes' = Append(nodes, Node("instruction", k, <<>>))
    <3>1. [j \in 1 .. Len(<<>>) |-> OperandNode(<<>>[j])] = <<>>
      OBVIOUS
    <3>2. QED  BY <1>1, <1>13, <3>1 DEF Continue, AddInstruction, Link
  <2>2. k < first /\ \A j \in k + 1 .. first - 1 : FALSE
    BY <1>6, <1>7
  <2>3. OperandsUpTo(k, first, <<>>)
    <3>1. \A j \in k .. first : j = k \/ j = first
      BY <1>6, <1>7
    <3>2. Type(first) \notin Operands \union {"number"}
      BY <1>13 DEF EndsLine, Operands
    <3>3. QED  BY <1>8, <3>1, <3>2, NoOperands
  <2>4. QED  BY <1>1, <1>7, <1>13, <2>1, <2>2, <2>3
<1>14. PICK a : a = OperandAt(first)
  OBVIOUS
<1>15. PICK b : b = OperandAt(second)
  OBVIOUS
<1>16. ASSUME IsOperand(first)
       PROVE  /\ a \in {first, first + 1} /\ comma = a + 1 /\ a \in Nat /\ comma \in Nat \ {0}
              /\ Type(a) \in Operands \union {"number"}
              /\ \A j \in first .. a : j # a => Type(j) \notin Operands \union {"number"}
              /\ OperandNode(first).at = a
              /\ OperandNode(first).is_dereferenced <=> Type(a - 1) = "star"
              /\ \A j \in first .. a :
                   ~EndsLine(j) /\ j \notin InstructionsStated /\ j \notin GuidanceStated
  <2>1. Type(first - 1) # "star"
    BY <1>7, <1>8
  <2>2. /\ a \in {first, first + 1} /\ Type(a) \in Operands \union {"number"}
        /\ \A j \in first .. a : j # a => Type(j) \notin Operands \union {"number"}
        /\ OperandNode(first).at = a
        /\ OperandNode(first).is_dereferenced <=> Type(a - 1) = "star"
        /\ \A j \in first .. a :
             ~EndsLine(j) /\ j \notin InstructionsStated /\ j \notin GuidanceStated
    BY <1>7, <1>14, <1>16, <2>1, OperandTokens
  <2>3. a \in Nat /\ comma = a + 1 /\ comma \in Nat \ {0}
    BY <1>3, <1>7, <1>14, <2>2
  <2>4. QED  BY <2>2, <2>3
<1>17. CASE /\ IsOperand(first) /\ EndsLine(comma) /\ Continue(comma)
            /\ AddInstruction(<<first>>)
  <2>1. PICK node : node = OperandNode(first)
    OBVIOUS
  <2>2. tokens' = comma /\ nodes' = Append(nodes, Node("instruction", k, <<node>>))
    <3>1. [j \in 1 .. Len(<<first>>) |-> OperandNode(<<first>>[j])] = <<node>>
      BY <2>1
    <3>2. QED  BY <1>1, <1>17, <3>1 DEF Continue, AddInstruction, Link
  <2>3. /\ k < comma /\ a \in k .. comma
        /\ \A j \in k + 1 .. comma - 1 : j \in first .. a
        /\ \A j \in k .. comma : j = k \/ j \in first .. a \/ j = comma
    BY <1>2, <1>6, <1>7, <1>16, <1>17
  <2>4. OperandsUpTo(k, comma, <<node>>)
    <3>1. Type(comma) \notin Operands \union {"number"}
      BY <1>17 DEF EndsLine, Operands
    <3>2. \A j \in k .. comma : j # a => Type(j) \notin Operands \union {"number"}
      BY <1>8, <1>16, <1>17, <2>3, <3>1
    <3>3. node.at = a /\ (node.is_dereferenced <=> Type(a - 1) = "star")
      BY <1>16, <1>17, <2>1
    <3>4. QED  BY <1>16, <1>17, <2>3, <3>2, <3>3, OneOperandUpTo
  <2>5. QED  BY <1>1, <1>16, <1>17, <2>2, <2>3, <2>4
<1>18. CASE /\ IsOperand(first) /\ Type(comma) = "comma" /\ IsOperand(second)
            /\ EndsLine(last) /\ Continue(last) /\ AddInstruction(<<first, second>>)
  <2>1. PICK n, o : n = OperandNode(first) /\ o = OperandNode(second)
    OBVIOUS
  <2>2. tokens' = last /\ nodes' = Append(nodes, Node("instruction", k, <<n, o>>))
    <3>1. [j \in 1 .. Len(<<first, second>>) |-> OperandNode(<<first, second>>[j])] = <<n, o>>
      BY <2>1
    <3>2. QED  BY <1>1, <1>18, <3>1 DEF Continue, AddInstruction, Link
  <2>3. second \in Nat \ {0} /\ second - 1 = comma /\ Type(second - 1) # "star"
    <3>1. comma \in Nat \ {0}
      BY <1>16, <1>18
    <3>2. second \in Nat \ {0} /\ second - 1 = comma
      BY <1>4, <3>1
    <3>3. QED  BY <1>18, <3>2
  <2>4. /\ b \in {second, second + 1} /\ Type(b) \in Operands \union {"number"}
        /\ \A j \in second .. b : j # b => Type(j) \notin Operands \union {"number"}
        /\ OperandNode(second).at = b
        /\ OperandNode(second).is_dereferenced <=> Type(b - 1) = "star"
        /\ \A j \in second .. b :
             ~EndsLine(j) /\ j \notin InstructionsStated /\ j \notin GuidanceStated
    BY <1>15, <1>18, <2>3, OperandTokens
  <2>5. b \in Nat /\ last = b + 1 /\ last \in Nat
    BY <1>5, <1>15, <2>3, <2>4
  <2>6. /\ a \in {first, first + 1} /\ comma = a + 1 /\ a \in Nat /\ comma \in Nat \ {0}
        /\ Type(a) \in Operands \union {"number"}
        /\ \A j \in first .. a : j # a => Type(j) \notin Operands \union {"number"}
        /\ n.at = a /\ (n.is_dereferenced <=> Type(a - 1) = "star")
        /\ o.at = b /\ (o.is_dereferenced <=> Type(b - 1) = "star")
        /\ \A j \in first .. a :
             ~EndsLine(j) /\ j \notin InstructionsStated /\ j \notin GuidanceStated
    BY <1>16, <1>18, <2>1, <2>4
  <2>7. /\ k < last /\ a \in k .. last /\ b \in k .. last /\ a < b
        /\ \A j \in k + 1 .. last - 1 : j \in first .. a \/ j = comma \/ j \in second .. b
        /\ \A j \in k .. last :
             j = k \/ j \in first .. a \/ j = comma \/ j \in second .. b \/ j = last
    <3>1. first = k + 1 /\ second = comma + 1 /\ comma = a + 1 /\ last = b + 1
          /\ a \in {first, first + 1} /\ b \in {second, second + 1}
      BY <1>2, <1>4, <2>4, <2>5, <2>6
    <3>2. QED  BY <1>6, <3>1
  <2>8. ~EndsLine(comma) /\ comma \notin InstructionsStated /\ comma \notin GuidanceStated
        /\ Type(comma) \notin Operands \union {"number"}
    BY <1>18, EndsKnown, NothingStated DEF EndsLine, Operands
  <2>9. OperandsUpTo(k, last, <<n, o>>)
    <3>1. Type(last) \notin Operands \union {"number"}
      BY <1>18 DEF EndsLine, Operands
    <3>2. \A j \in k .. last : j # a /\ j # b => Type(j) \notin Operands \union {"number"}
      BY <1>8, <2>4, <2>6, <2>7, <2>8, <3>1
    <3>3. QED  BY <2>4, <2>6, <2>7, <3>2, TwoOperandsUpTo
  <2>10. \A j \in k + 1 .. last - 1 :
           ~EndsLine(j) /\ j \notin InstructionsStated /\ j \notin GuidanceStated
    BY <2>4, <2>6, <2>7, <2>8
  <2>11. QED  BY <1>1, <1>18, <2>2, <2>5, <2>7, <2>9, <2>10
<1>19. QED  BY <1>12, <1>13, <1>17, <1>18

LEMMA NodeRead ==
  ASSUME NEW kind, NEW at, NEW operands
  PROVE  LET node == Node(kind, at, operands) IN
         node.kind = kind /\ node.at = at /\ node.operands = operands /\ node.numbers = <<>>
BY DEF Node

\* A node of one item behind the nodes of the label being parsed.
LEMMA ItemAdded ==
  ASSUME NEW list, Len(list) \in Nat, NEW of \in Seq(NodeType), NEW name,
         NEW node, node.kind # "data"
  PROVE  LET x == Item(Len(list) + 1, name, Len(of) + 1, 1, node) IN
         /\ ItemsOfLabel(Len(list) + 1, name, Append(of, node)) =
              ItemsOfLabel(Len(list) + 1, name, of) \union {x}
         /\ x.at = node.at /\ x.label = name /\ x.operands = node.operands
         /\ \A y \in Items(list) \union ItemsOfLabel(Len(list) + 1, name, of) \union {x} :
              ~Precedes(x.slot, y.slot)
<1> DEFINE l == Len(list) + 1
           S == NodeType \union {node}
<1>1. PICK n : n = Len(of) + 1
  OBVIOUS
<1>2. PICK x : x = Item(l, name, n, 1, node)
  OBVIOUS
<1>3. of \in Seq(S) /\ node \in S /\ Len(of) \in Nat
  OBVIOUS
<1>4. ItemsOfLabel(l, name, Append(of, node)) =
        ItemsOfLabel(l, name, of) \union ItemsOfNode(l, name, n, node)
  <2> HIDE DEF S, l
  <2>1. QED  BY <1>1, <1>3, ItemsOfMore
<1>5. ItemsOfNode(l, name, n, node) = {x} /\ PlacesOf(node)[1] = node.at
  BY <1>2, OneItem
<1>6. /\ x.slot[1] = l /\ x.slot[2] = n /\ x.slot[3] = 1
      /\ x.at = node.at /\ x.label = name /\ x.operands = node.operands
  BY <1>2, <1>5, ItemRead
<1>7. \A y \in Items(list) \union ItemsOfLabel(l, name, of) \union {x} :
        ~Precedes(x.slot, y.slot)
  <2>1. x.slot[1] = Len(list) + 1 /\ x.slot[2] \in Nat /\ x.slot[3] \in Nat /\ x.slot[2] > Len(of)
    BY <1>1, <1>3, <1>6
  <2>2. QED  BY <1>3, <2>1, LastSlot
<1> HIDE DEF l
<1>8. QED  BY <1>1, <1>2, <1>4, <1>5, <1>6, <1>7 DEF l

LEMMA PlaceInstruction ==
  ASSUME Placing, ParseInstruction, error_list' = <<>>
  PROVE  PlacedInv'
<1>1. PICK k, d : k = tokens /\ d = label
  OBVIOUS
<1>t. PICK m \in Nat :
        \E operands :
          /\ tokens' = m /\ nodes' = Append(nodes, Node("instruction", tokens, operands))
          /\ tokens < m /\ EndsLine(m)
          /\ \A j \in tokens + 1 .. m - 1 :
               ~EndsLine(j) /\ j \notin InstructionsStated /\ j \notin GuidanceStated
          /\ OperandsUpTo(tokens, m, operands)
  BY InstructionTaken
<1>2. PICK operands :
        /\ tokens' = m /\ nodes' = Append(nodes, Node("instruction", tokens, operands))
        /\ tokens < m /\ EndsLine(m)
        /\ \A j \in tokens + 1 .. m - 1 :
             ~EndsLine(j) /\ j \notin InstructionsStated /\ j \notin GuidanceStated
        /\ OperandsUpTo(tokens, m, operands)
  BY <1>t
<1>3. /\ pc = "instructions" /\ pc' = "instructions" /\ Type(k) \in Operation
      /\ label' = d /\ label = d /\ UNCHANGED <<instruction_label_list, guidance_label_list>>
  BY <1>1 DEF ParseInstruction, lists
<1>4. /\ IsTokenList(source) /\ InList(k) /\ k \in Nat \ {0} /\ Len(source) \in Nat
      /\ source' = source /\ Judging /\ IInv /\ LabelInv
  BY <1>1, PlacingTyped
<1>5. PICK s \in Filled : Opened(s) /\ BodyAt(s) = k
  BY <1>1, <1>3, <1>4, InstructionLine
<1>6. ~EndsLine(k) /\ k < m /\ EndsLine(m)
      /\ \A j \in k + 1 .. m - 1 :
           ~EndsLine(j) /\ j \notin InstructionsStated /\ j \notin GuidanceStated
  BY <1>1, <1>2, <1>3, Beginnings DEF EndsLine
<1>7. LineEnd(k) = m
  <2>1. \A j \in k .. m - 1 : j = k \/ j \in k + 1 .. m - 1
    BY <1>4
  <2>2. \A j \in k .. m - 1 : ~EndsLine(j)
    BY <1>6, <2>1
  <2>3. k <= m
    BY <1>4, <1>6
  <2>4. QED  BY <1>4, <1>6, <2>2, <2>3, EndKnown
<1>8. s <= k /\ k <= LineEnd(s) /\ LineEnd(s) = m
  <2>1. s <= k /\ k <= LineEnd(s)
    BY <1>4, <1>5, BodyBegins
  <2>2. QED  BY <1>4, <1>7, <2>1, EndOfLineFrom
<1>9. k \in InstructionsStated /\ k \notin GuidanceStated
  <2>1. ~IsMacroLine(s)
    BY <1>3, <1>4, <1>5, NoMacroLine
  <2>2. k \in InstructionsStated
    BY <1>3, <1>4, <1>6, <1>8, <2>1, StatedOn DEF InstructionsStated
  <2>3. k \notin GuidanceStated
    BY <1>3, Beginnings DEF GuidanceStated, Stated, Places
  <2>4. QED  BY <2>2, <2>3
<1>10. \A q \in Filled : k <= q /\ q < m => ~HasLabel(q)
  <2>1. BodyAt(s) <= k /\ m <= LineEnd(s) + 1
    BY <1>4, <1>5, <1>8
  <2>2. QED  BY <1>4, <2>1, NoLabelPassed
<1>11. PICK node : node = Node("instruction", k, operands)
  OBVIOUS
<1>12. node.kind # "data" /\ node.at = k /\ node.operands = operands
  BY <1>11, NodeRead
<1>13. nodes \in Seq(NodeType) /\ Len(instruction_label_list) \in Nat
  BY <1>4, TreesTyped
<1>14. PICK x : x = Item(Len(instruction_label_list) + 1, d, Len(nodes) + 1, 1, node)
  OBVIOUS
<1>15. /\ ItemsOfLabel(Len(instruction_label_list) + 1, d, Append(nodes, node)) =
            ItemsOfLabel(Len(instruction_label_list) + 1, d, nodes) \union {x}
       /\ x.at = k /\ x.label = d /\ x.operands = operands
       /\ \A y \in Items(instruction_label_list)
                     \union ItemsOfLabel(Len(instruction_label_list) + 1, d, nodes) \union {x} :
            ~Precedes(x.slot, y.slot)
  BY <1>12, <1>13, <1>14, ItemAdded
<1>16. InstructionItems = Items(instruction_label_list)
                            \union ItemsOfLabel(Len(instruction_label_list) + 1, d, nodes)
  BY <1>3 DEF InstructionItems
<1>17. InstructionItems' = InstructionItems \union {x} /\ GuidanceItems' = GuidanceItems
  <2>1. nodes' = Append(nodes, node)
    BY <1>1, <1>2, <1>11
  <2>2. InstructionItems' =
          Items(instruction_label_list)
            \union ItemsOfLabel(Len(instruction_label_list) + 1, d, Append(nodes, node))
    BY <1>3, <2>1 DEF InstructionItems
  <2>3. GuidanceItems' = GuidanceItems
    BY <1>3 DEF GuidanceItems
  <2>4. QED  BY <1>15, <1>16, <2>2, <2>3
<1>18. StandsUnder(k, d, {})
  BY <1>1, <1>3, <1>4 DEF LabelInv
<1>19. OperandsPlaced(k, operands)
  BY <1>1, <1>2, <1>7 DEF OperandsPlaced, OperandsUpTo
<1>20. PlacedTo(tokens, InstructionItems, GuidanceItems)'
  <2>1. /\ tokens < m /\ tokens' = m /\ tokens \in InstructionsStated
        /\ tokens \notin GuidanceStated
        /\ \A j \in tokens + 1 .. m - 1 : j \notin InstructionsStated /\ j \notin GuidanceStated
    BY <1>1, <1>2, <1>9
  <2>2. /\ x.at = tokens /\ StandsUnder(x.at, x.label, {}) /\ OperandsPlaced(x.at, x.operands)
        /\ \A y \in InstructionItems \union {x} : ~Precedes(x.slot, y.slot)
    BY <1>1, <1>15, <1>16, <1>18, <1>19
  <2>3. QED  BY <1>17, <2>1, <2>2, InstructionPlaced
<1>21. StandsUnder(m, d, {})
  <2>1. k <= m
    BY <1>4, <1>6
  <2>2. QED  BY <1>4, <1>10, <1>18, <2>1, UnderKept
<1>22. StandsUnder(m, NULL, GuidanceEnds)
  <2>1. Type(k) \in GuidanceEnds
    BY <1>3 DEF GuidanceEnds
  <2>2. QED  BY <1>4, <1>6, <1>10, <2>1, UnderNone
<1>23. LabelInv'
  BY <1>2, <1>3, <1>4, <1>21, <1>22, InstructionsUnder
<1>24. QED  BY <1>3, <1>20, <1>23 DEF PlacedInv

\* A label is linked with all it has.
LEMMA ItemsLinked ==
  ASSUME IInv, nodes # <<>>, NEW list \in Seq(LabelType)
  PROVE  Items(Append(list, [label |-> label, nodes |-> nodes])) =
           Items(list) \union ItemsOfLabel(Len(list) + 1, label, nodes)
<1>1. PICK entry : entry = [label |-> label, nodes |-> nodes]
  OBVIOUS
<1>2. entry.label = label /\ entry.nodes = nodes
  BY <1>1
<1>3. entry \in LabelType
  BY <1>1, LabelTyped
<1>4. Items(Append(list, entry)) =
        Items(list) \union ItemsOfLabel(Len(list) + 1, entry.label, entry.nodes)
  BY <1>3, ItemsMore
<1>5. QED  BY <1>1, <1>2, <1>4

LEMMA PlaceInstructionsEnd ==
  ASSUME Placing, FinishInstructions, error_list' = <<>>
  PROVE  PlacedInv'
<1>1. /\ pc = "instructions" /\ pc' = "unit" /\ Type(tokens) \notin Operation \union {"eol"}
      /\ UNCHANGED <<source, tokens, guidance_label_list>> /\ label' = NULL
      /\ instruction_label_list' =
           Append(instruction_label_list, [label |-> label, nodes |-> nodes])
  BY DEF FinishInstructions, Link
<1>2. /\ IInv /\ LabelInv /\ source' = source /\ nodes # <<>>
      /\ instruction_label_list \in Seq(LabelType)
  BY <1>1, PlacingTyped, JudgingTyped, TreesTyped DEF NodesInv
<1>3. InstructionItems' = InstructionItems /\ GuidanceItems' = GuidanceItems
  <2>1. InstructionItems' = Items(instruction_label_list')
    BY <1>1 DEF InstructionItems
  <2>2. InstructionItems = Items(instruction_label_list)
          \union ItemsOfLabel(Len(instruction_label_list) + 1, label, nodes)
    BY <1>1 DEF InstructionItems
  <2>3. InstructionItems' = InstructionItems
    BY <1>1, <1>2, <2>1, <2>2, ItemsLinked
  <2>4. GuidanceItems' = GuidanceItems
    BY <1>1 DEF GuidanceItems
  <2>5. QED  BY <2>3, <2>4
<1>4. PlacedTo(tokens, InstructionItems, GuidanceItems)'
  BY <1>1, <1>3, PlacedStill
<1>5. StandsUnder(tokens, NULL, GuidanceEnds)
  BY <1>1, <1>2 DEF LabelInv
<1>6. PICK m : m = tokens
  OBVIOUS
<1>7. LabelInv'
  BY <1>1, <1>2, <1>5, <1>6, UnitUnder
<1>8. QED  BY <1>1, <1>4, <1>7 DEF PlacedInv

LEMMA PlaceGuidanceEnd ==
  ASSUME Placing, FinishGuidance, error_list' = <<>>
  PROVE  PlacedInv'
<1>1. /\ pc = "guidance" /\ pc' = "unit"
      /\ Type(tokens) \notin {"data_ins", "string_ins", "eol"}
      /\ UNCHANGED <<source, tokens, instruction_label_list>> /\ label' = NULL
      /\ guidance_label_list' =
           Append(guidance_label_list, [label |-> label, nodes |-> nodes])
  BY DEF FinishGuidance, Link
<1>2. /\ IInv /\ source' = source /\ nodes # <<>> /\ guidance_label_list \in Seq(LabelType)
  BY <1>1, PlacingTyped, JudgingTyped, TreesTyped DEF NodesInv
<1>3. InstructionItems' = InstructionItems /\ GuidanceItems' = GuidanceItems
  <2>1. GuidanceItems' = Items(guidance_label_list')
    BY <1>1 DEF GuidanceItems
  <2>2. GuidanceItems = Items(guidance_label_list)
          \union ItemsOfLabel(Len(guidance_label_list) + 1, label, nodes)
    BY <1>1 DEF GuidanceItems
  <2>3. GuidanceItems' = GuidanceItems
    BY <1>1, <1>2, <2>1, <2>2, ItemsLinked
  <2>4. InstructionItems' = InstructionItems
    BY <1>1 DEF InstructionItems
  <2>5. QED  BY <2>3, <2>4
<1>4. PlacedTo(tokens, InstructionItems, GuidanceItems)'
  BY <1>1, <1>3, PlacedStill
<1>5. PICK m : m = tokens
  OBVIOUS
<1>6. LabelInv'
  BY <1>1, <1>2, <1>5, UnitUnder
<1>7. QED  BY <1>1, <1>4, <1>6 DEF PlacedInv

LEMMA PlaceUnitEnd ==
  ASSUME Placing, FinishUnit, error_list' = <<>>
  PROVE  PlacedInv'
<1>1. /\ pc = "unit" /\ pc' = "done" /\ Type(tokens) \in Ending
      /\ UNCHANGED <<source, tokens, label, nodes, instruction_label_list, guidance_label_list>>
  BY DEF FinishUnit, Ending, lists
<1>2. nodes = <<>> /\ source' = source
  BY <1>1, PlacingTyped, JudgingTyped DEF NodesInv
<1>3. PlacedTo(tokens, InstructionItems, GuidanceItems)'
  BY <1>1, <1>2, ItemsStay, PlacedStill
<1>4. LabelInv'
  BY <1>1 DEF LabelInv
<1>5. Type(tokens)' \in Ending
  BY <1>1 DEF Type
<1>6. QED  BY <1>3, <1>4, <1>5 DEF PlacedInv

-----------------------------------------------------------------------------
(* Guidance *)

\* What guidance lists on its line.
LEMMA GuidanceToken ==
  ASSUME IsTokenList(source), NEW s \in Filled, Type(BodyAt(s)) \in {"data_ins", "string_ins"},
         NEW k \in Nat, s <= k, k <= LineEnd(s),
         Type(k) \in {"string", "number"}, Type(k - 1) # "hashtag"
  PROVE  k \in GuidanceStated /\ k \notin InstructionsStated
<1>1. ~IsMacroLine(s)
  BY NoMacroLine
<1>2. ~EndsLine(k) /\ Type(k) \notin Operation
  BY Beginnings DEF EndsLine
<1>3. k \in Stated({"string", "number"})
  BY <1>1, <1>2, StatedOn
<1>4. k \in GuidanceStated
  BY <1>3 DEF GuidanceStated
<1>5. k \notin InstructionsStated
  BY <1>2 DEF InstructionsStated, Stated, Places
<1>6. QED  BY <1>4, <1>5

\* The label of guidance stays, up to the end of its line.
LEMMA GuidanceStays ==
  ASSUME Placing, pc \in {"guidance", "data"}, pc' \in {"guidance", "data"}, label' = label,
         NEW s \in Filled, BodyAt(s) <= tokens,
         NEW m \in Nat, tokens <= m, m <= LineEnd(s) + 1, tokens' = m,
         \A j \in tokens .. m - 1 : Type(j) \notin GuidanceEnds
  PROVE  LabelInv'
<1>1. /\ IsTokenList(source) /\ tokens \in Nat /\ source' = source
      /\ StandsUnder(tokens, label, GuidanceEnds)
  BY PlacingTyped DEF LabelInv
<1>2. \A q \in Filled : tokens <= q /\ q < m => ~HasLabel(q)
  BY <1>1, NoLabelPassed
<1>3. StandsUnder(m, label, GuidanceEnds)
  BY <1>1, <1>2, UnderKept
<1>4. QED  BY <1>1, <1>3, GuidanceUnder

\* The items that are listed while guidance is parsed.
LEMMA GuidanceListed ==
  ASSUME pc \in {"guidance", "data"}, pc' \in {"guidance", "data"}, label' = label,
         instruction_label_list' = instruction_label_list,
         guidance_label_list' = guidance_label_list
  PROVE  LET l == Len(guidance_label_list) + 1 IN
         /\ InstructionItems' = InstructionItems
         /\ GuidanceItems = Items(guidance_label_list) \union ItemsOfLabel(l, label, nodes)
         /\ GuidanceItems' = Items(guidance_label_list) \union ItemsOfLabel(l, label, nodes')
BY DEF InstructionItems, GuidanceItems

LEMMA PlaceString ==
  ASSUME Placing, ParseString, error_list' = <<>>
  PROVE  PlacedInv'
<1>1. PICK b : b = tokens
  OBVIOUS
<1>2. PICK a : a = b + 1
  OBVIOUS
<1>3. PICK e : e = b + 2
  OBVIOUS
<1>4. /\ pc = "guidance" /\ pc' = "guidance" /\ Type(b) = "string_ins" /\ OneToken("string")
      /\ nodes' = Append(nodes, Node("string", TokenOf("string"), <<>>)) /\ label' = label
      /\ instruction_label_list' = instruction_label_list
      /\ guidance_label_list' = guidance_label_list
  BY <1>1 DEF ParseString, Link, lists
<1>5. /\ IsTokenList(source) /\ b \in Nat \ {0} /\ Judging /\ IInv
  BY <1>1, PlacingTyped
<1>6. PICK s \in Filled : BodyAt(s) = b
  BY <1>1, <1>4, <1>5, GuidanceLine
<1>7. PICK m : m = EndOfLine(e)
  OBVIOUS
<1>8. Type(a) = "string" /\ EndsLine(e) /\ tokens' = m
  BY <1>1, <1>2, <1>3, <1>4, <1>5, <1>7, NoError DEF OneToken, Continue
<1>9. /\ a \in Nat /\ e \in Nat /\ b < a /\ a < e /\ b <= e /\ a - 1 = b
      /\ \A j \in b .. e - 1 : j = b \/ j = a
  BY <1>2, <1>3, <1>5
<1>10. s <= e /\ e = LineEnd(s)
  <2>1. \A j \in b .. e - 1 : ~EndsLine(j)
    BY <1>4, <1>8, <1>9 DEF EndsLine
  <2>2. QED  BY <1>5, <1>6, <1>8, <1>9, <2>1, WithinBody
<1>11. m \in Nat /\ e <= m /\ m <= e + 1
  BY <1>5, <1>7, <1>9, <1>10, EndOfLineFrom
<1>12. s <= a
  BY <1>5, <1>6, <1>9, LineRead, BodyBegins
<1>13. a \in GuidanceStated /\ a \notin InstructionsStated
  BY <1>4, <1>5, <1>6, <1>8, <1>9, <1>10, <1>12, GuidanceToken
<1>14. \A j \in b .. m - 1 : j = b \/ j = a \/ j = e
  BY <1>9, <1>11
<1>15. /\ \A j \in b .. m - 1 : j \notin InstructionsStated /\ (j = a \/ j \notin GuidanceStated)
       /\ \A j \in b .. m - 1 : Type(j) \notin GuidanceEnds
  <2>1. /\ b \notin InstructionsStated /\ b \notin GuidanceStated
        /\ e \notin InstructionsStated /\ e \notin GuidanceStated
    BY <1>4, <1>8, EndsKnown, NothingStated DEF EndsLine
  <2>2. Type(b) \notin GuidanceEnds /\ Type(a) \notin GuidanceEnds /\ Type(e) \notin GuidanceEnds
    BY <1>4, <1>8, EndsKnown DEF EndsLine
  <2>3. QED  BY <1>13, <1>14, <2>1, <2>2
<1>16. PICK node : node = Node("string", a, <<>>)
  OBVIOUS
<1>17. node.kind # "data" /\ node.at = a
  BY <1>16, NodeRead
<1>18. nodes' = Append(nodes, node)
  <2>1. TokenOf("string") = a
    BY <1>1, <1>2, <1>8 DEF TokenOf
  <2>2. QED  BY <1>4, <1>16, <2>1
<1>19. nodes \in Seq(NodeType) /\ Len(guidance_label_list) \in Nat
  BY <1>5, TreesTyped
<1>20. PICK x : x = Item(Len(guidance_label_list) + 1, label, Len(nodes) + 1, 1, node)
  OBVIOUS
<1>21. /\ ItemsOfLabel(Len(guidance_label_list) + 1, label, Append(nodes, node)) =
            ItemsOfLabel(Len(guidance_label_list) + 1, label, nodes) \union {x}
       /\ x.at = a /\ x.label = label
       /\ \A y \in Items(guidance_label_list)
                     \union ItemsOfLabel(Len(guidance_label_list) + 1, label, nodes) \union {x} :
            ~Precedes(x.slot, y.slot)
  BY <1>17, <1>19, <1>20, ItemAdded
<1>22. /\ InstructionItems' = InstructionItems /\ GuidanceItems' = GuidanceItems \union {x}
       /\ \A y \in GuidanceItems \union {x} : ~Precedes(x.slot, y.slot)
  BY <1>4, <1>18, <1>21, GuidanceListed
<1>23. StandsUnder(x.at, x.label, GuidanceEnds)
  <2>1. StandsUnder(b, label, GuidanceEnds)
    BY <1>1, <1>4, PlacingTyped DEF LabelInv
  <2>2. a <= LineEnd(s) + 1 /\ b <= a /\ \A j \in b .. a - 1 : j = b
    BY <1>9, <1>10
  <2>3. \A q \in Filled : b <= q /\ q < a => ~HasLabel(q)
    BY <1>5, <1>6, <1>9, <2>2, NoLabelPassed
  <2>4. \A j \in b .. a - 1 : Type(j) \notin GuidanceEnds
    BY <1>4, <2>2, EndsKnown
  <2>5. StandsUnder(a, label, GuidanceEnds)
    BY <1>5, <1>9, <2>1, <2>2, <2>3, <2>4, UnderKept
  <2>6. QED  BY <1>21, <2>5
<1>24. tokens <= a /\ a < m /\ tokens <= m /\ m <= LineEnd(s) + 1
  BY <1>1, <1>5, <1>9, <1>10, <1>11
<1>25. PlacedTo(tokens, InstructionItems, GuidanceItems)'
  BY <1>1, <1>8, <1>11, <1>13, <1>15, <1>21, <1>22, <1>23, <1>24, GuidancePlaced
<1>26. LabelInv'
  <2>1. BodyAt(s) <= tokens
    BY <1>1, <1>5, <1>6
  <2>2. QED  BY <1>1, <1>4, <1>8, <1>11, <1>15, <1>24, <2>1, GuidanceStays
<1>27. QED  BY <1>4, <1>25, <1>26 DEF PlacedInv

LEMMA PlaceBeginData ==
  ASSUME Placing, BeginData, error_list' = <<>>
  PROVE  PlacedInv'
<1>1. PICK node : node = Node("data", NULL, <<>>)
  OBVIOUS
<1>2. PICK m : m = tokens + 1
  OBVIOUS
<1>3. /\ pc = "guidance" /\ pc' = "data" /\ Type(tokens) = "data_ins" /\ tokens' = m
      /\ nodes' = Append(nodes, node) /\ label' = label
      /\ instruction_label_list' = instruction_label_list
      /\ guidance_label_list' = guidance_label_list
  BY <1>1, <1>2 DEF BeginData, Link, Continue, lists
<1>4. /\ IsTokenList(source) /\ tokens \in Nat \ {0} /\ Judging /\ IInv
  BY PlacingTyped
<1>5. PICK s \in Filled : BodyAt(s) = tokens
  BY <1>3, <1>4, GuidanceLine
<1>6. /\ m \in Nat /\ tokens <= m /\ BodyAt(s) <= tokens
      /\ \A j \in tokens .. m - 1 : j = tokens
  BY <1>2, <1>4, <1>5
<1>7. m <= LineEnd(s) + 1
  <2>1. LineEnd(s) \in Nat /\ tokens <= LineEnd(s)
    BY <1>4, <1>5, LineRead, BodyBegins
  <2>2. QED  BY <1>2, <1>4, <2>1
<1>8. \A j \in tokens .. m - 1 :
        j \notin InstructionsStated /\ j \notin GuidanceStated /\ Type(j) \notin GuidanceEnds
  <2>1. /\ tokens \notin InstructionsStated /\ tokens \notin GuidanceStated
        /\ Type(tokens) \notin GuidanceEnds
    BY <1>3, EndsKnown, NothingStated
  <2>2. QED  BY <1>6, <2>1
<1>9. InstructionItems' = InstructionItems /\ GuidanceItems' = GuidanceItems
  <2>1. node.kind = "data" /\ node.numbers = <<>>
    BY <1>1, NodeRead
  <2>2. PlacesOf(node) = <<>>
    BY <2>1 DEF PlacesOf
  <2>3. 1 .. Len(PlacesOf(node)) = {}
    BY <2>2
  <2>4. \A l, name, n : ItemsOfNode(l, name, n, node) = {}
    BY <2>3, Zenon DEF ItemsOfNode
  <2>5. nodes \in Seq(NodeType \union {node}) /\ node \in NodeType \union {node}
    BY <1>4, TreesTyped
  <2>6. \A l, name : ItemsOfLabel(l, name, Append(nodes, node)) = ItemsOfLabel(l, name, nodes)
    <3>1. SUFFICES ASSUME NEW l, NEW name
                   PROVE  ItemsOfLabel(l, name, Append(nodes, node)) = ItemsOfLabel(l, name, nodes)
      OBVIOUS
    <3>2. ItemsOfLabel(l, name, Append(nodes, node)) =
            ItemsOfLabel(l, name, nodes) \union ItemsOfNode(l, name, Len(nodes) + 1, node)
      BY <2>5, ItemsOfMore
    <3>3. QED  BY <2>4, <3>2
  <2>7. QED  BY <1>3, <2>6, GuidanceListed
<1>10. PlacedTo(tokens, InstructionItems, GuidanceItems)'
  BY <1>3, <1>6, <1>8, <1>9, PlacedOn
<1>11. LabelInv'
  BY <1>3, <1>6, <1>7, <1>8, GuidanceStays
<1>12. QED  BY <1>3, <1>10, <1>11 DEF PlacedInv

\* The list of the last node with the number at the cursor.
LEMMA NumberListed ==
  ASSUME IInv, pc = "data", Type(tokens) = "number",
         nodes' = [nodes EXCEPT ![Len(nodes)].numbers = Append(@, tokens)]
  PROVE  LET n == Len(nodes) IN
         /\ n \in Nat \ {0} /\ Len(nodes') = n
         /\ \A k \in 1 .. n : k # n => nodes'[k] = nodes[k]
         /\ nodes[n].kind = "data" /\ nodes'[n].kind = "data"
         /\ nodes'[n].operands = nodes[n].operands
         /\ nodes[n].numbers \in Seq(Nat)
         /\ nodes'[n].numbers = Append(nodes[n].numbers, tokens)
<1> DEFINE n == Len(nodes)
           node == nodes[n]
           added == [node EXCEPT !.numbers = Append(node.numbers, tokens)]
<1>1. nodes \in Seq(NodeType) /\ n \in Nat \ {0}
  BY LastNode
<1>2. node \in DataNode /\ node.kind = "data"
  BY LastNode DEF DataNode
<1>3. node.numbers \in Seq(Nat)
  <2>1. Places({"number"}) \subseteq Nat
    BY TypesOfList DEF IInv, TypeOK, Places
  <2>2. node.numbers \in Seq(Places({"number"}))
    BY <1>2 DEF DataNode
  <2> HIDE DEF node
  <2>3. QED  BY <2>1, <2>2
<1>4. /\ added.kind = "data" /\ added.operands = node.operands
      /\ added.numbers = Append(node.numbers, tokens)
  <2> HIDE DEF node
  <2>1. QED  BY <1>2 DEF DataNode
<1>5. nodes' = [nodes EXCEPT ![n] = added]
  OBVIOUS
<1> HIDE DEF added, node
<1>6. Len(nodes') = n /\ \A k \in 1 .. n : nodes'[k] = IF k = n THEN added ELSE nodes[k]
  <2> DEFINE S == NodeType \union {added}
             next == [nodes EXCEPT ![n] = added]
  <2>1. nodes \in Seq(S) /\ added \in S /\ n \in 1 .. Len(nodes) /\ Len(nodes) = n
    BY <1>1
  <2> HIDE DEF n, S
  <2>2. /\ Len(next) = Len(nodes)
        /\ \A k \in 1 .. Len(nodes) : next[k] = IF k = n THEN added ELSE nodes[k]
    BY <2>1, ExceptSeq
  <2>3. nodes' = next
    BY <1>5
  <2> HIDE DEF next
  <2>4. QED  BY <2>1, <2>2, <2>3
<1>7. nodes'[n] = added /\ \A k \in 1 .. n : k # n => nodes'[k] = nodes[k]
  <2>1. n \in 1 .. n
    BY <1>1
  <2> HIDE DEF n
  <2>2. QED  BY <1>6, <2>1
<1> HIDE DEF n
<1>8. QED  BY <1>1, <1>2, <1>3, <1>4, <1>6, <1>7 DEF n, node

LEMMA PlaceNumber ==
  ASSUME Placing, ParseNumber, error_list' = <<>>
  PROVE  PlacedInv'
<1>1. PICK k : k = tokens
  OBVIOUS
<1>2. PICK a : a = k + 1
  OBVIOUS
<1>3. /\ IsTokenList(source) /\ k \in Nat \ {0} /\ Judging /\ IInv
  BY <1>1, PlacingTyped
<1>4. /\ pc = "data" /\ Type(k) = "number" /\ pc' \in {"guidance", "data"} /\ label' = label
      /\ nodes' = [nodes EXCEPT ![Len(nodes)].numbers = Append(@, tokens)]
      /\ instruction_label_list' = instruction_label_list
      /\ guidance_label_list' = guidance_label_list
  BY <1>1 DEF ParseNumber, lists
<1>5. \/ Type(a) \in {"comma", "eol"} /\ tokens' = k + 2
      \/ Type(a) \in Ending /\ tokens' = a
  BY <1>1, <1>2, <1>3, NoError DEF ParseNumber, Continue, Ending
<1>6. PICK s \in Filled :
        LET b == BodyAt(s) IN
        /\ Type(b) = "data_ins" /\ b \in Nat /\ b < k
        /\ \A j \in b + 1 .. k - 1 : Type(j) = DataWord(j - b)
        /\ \A j \in b .. k - 1 : ~EndsLine(j)
        /\ s < k /\ k <= LineEnd(s)
  BY <1>1, <1>3, <1>4, DataLine
<1>7. PICK b : b = BodyAt(s)
  OBVIOUS
<1>8. /\ Type(b) = "data_ins" /\ b \in Nat /\ b < k
      /\ \A j \in b + 1 .. k - 1 : Type(j) = DataWord(j - b)
      /\ \A j \in b .. k - 1 : ~EndsLine(j)
      /\ s \in Nat /\ s < k /\ k <= LineEnd(s) /\ LineEnd(s) \in Nat
  BY <1>3, <1>6, <1>7, LineRead
<1>9. /\ a \in Nat /\ k < a /\ b <= a /\ b <= k /\ s <= k
      /\ \A j \in b .. a - 1 : j \in b .. k - 1 \/ j = k
      /\ k - 1 = b \/ k - 1 \in b + 1 .. k - 1
  BY <1>2, <1>3, <1>8
<1>10. a <= LineEnd(s)
  <2>1. ~EndsLine(k)
    BY <1>4 DEF EndsLine
  <2>2. \A j \in b .. a - 1 : ~EndsLine(j)
    BY <1>8, <1>9, <2>1
  <2>3. QED  BY <1>3, <1>7, <1>9, <2>2, WithinBody
<1>11. PICK m \in Nat : /\ tokens' = m /\ k < m /\ m <= LineEnd(s) + 1
                        /\ \A j \in k .. m - 1 : j = k \/ (j = a /\ Type(a) \in {"comma", "eol"})
  <2>1. CASE Type(a) \in {"comma", "eol"} /\ tokens' = k + 2
    <3>1. PICK m : m = k + 2
      OBVIOUS
    <3>2. /\ m \in Nat /\ k < m /\ m <= LineEnd(s) + 1
          /\ \A j \in k .. m - 1 : j = k \/ j = a
      BY <1>2, <1>3, <1>8, <1>10, <3>1
    <3>3. QED  BY <2>1, <3>1, <3>2
  <2>2. CASE tokens' = a
    <3>1. a <= LineEnd(s) + 1 /\ \A j \in k .. a - 1 : j = k
      BY <1>2, <1>3, <1>8, <1>10
    <3>2. QED  BY <1>9, <2>2, <3>1
  <2>3. QED  BY <1>5, <2>1, <2>2
<1>12. k \in GuidanceStated /\ k \notin InstructionsStated
  <2>1. Type(k - 1) # "hashtag"
    BY <1>8, <1>9 DEF DataWord
  <2>2. QED  BY <1>3, <1>4, <1>7, <1>8, <1>9, <2>1, GuidanceToken
<1>13. /\ \A j \in k .. m - 1 : j \notin InstructionsStated /\ (j = k \/ j \notin GuidanceStated)
       /\ \A j \in k .. m - 1 : Type(j) \notin GuidanceEnds
  <2>1. Type(a) \in {"comma", "eol"} =>
          a \notin InstructionsStated /\ a \notin GuidanceStated /\ Type(a) \notin GuidanceEnds
    BY EndsKnown, NothingStated
  <2>2. Type(k) \notin GuidanceEnds
    BY <1>4, EndsKnown
  <2>3. QED  BY <1>11, <1>12, <2>1, <2>2
<1>14. PICK n : n = Len(nodes)
  OBVIOUS
<1>15. PICK node, added : node = nodes[n] /\ added = nodes'[n]
  OBVIOUS
<1>16. /\ n \in Nat \ {0} /\ Len(nodes) = n /\ Len(nodes') = n
       /\ \A j \in 1 .. n : j # n => nodes'[j] = nodes[j]
       /\ node.kind = "data" /\ added.kind = "data" /\ added.operands = node.operands
       /\ node.numbers \in Seq(Nat) /\ added.numbers = Append(node.numbers, k)
  BY <1>1, <1>3, <1>4, <1>14, <1>15, NumberListed
<1>17. PICK l : l = Len(guidance_label_list) + 1
  OBVIOUS
<1>18. PICK i : i = Len(node.numbers) + 1
  OBVIOUS
<1>19. PICK x : x = Item(l, label, n, i, added)
  OBVIOUS
<1>20. /\ \A y : y \in ItemsOfNode(l, label, n, added)
                  <=> y \in ItemsOfNode(l, label, n, node) \/ y = x
       /\ x.at = k /\ x.label = label
       /\ x.slot[1] = l /\ x.slot[2] = n /\ x.slot[3] = i
  <2>1. k \in Nat
    BY <1>3
  <2>2. /\ \A y : y \in ItemsOfNode(l, label, n, added)
                   <=> y \in ItemsOfNode(l, label, n, node) \/ y = Item(l, label, n, i, added)
        /\ Item(l, label, n, i, added).at = k
    BY <1>16, <1>18, <2>1, ItemsOfNumber
  <2>3. x.label = label /\ x.slot[1] = l /\ x.slot[2] = n /\ x.slot[3] = i
    BY <1>19, ItemRead
  <2>4. QED  BY <1>19, <2>2, <2>3, Zenon
<1>21. ItemsOfLabel(l, label, nodes') = ItemsOfLabel(l, label, nodes) \union {x}
  <2>1. PICK list, next : list = nodes /\ next = nodes'
    OBVIOUS
  <2> DEFINE Of(j, e) == ItemsOfNode(l, label, j, e)
  <2>2. /\ Len(list) = n /\ Len(next) = n /\ n \in 1 .. n
        /\ \A y : y \in Of(n, next[n]) <=> y \in Of(n, list[n]) \/ y = x
    BY <1>15, <1>16, <1>20, <2>1
  <2>3. /\ \A y : y \in ItemsOfLabel(l, label, next) <=> \E j \in 1 .. n : y \in Of(j, next[j])
        /\ \A y : y \in ItemsOfLabel(l, label, list) <=> \E j \in 1 .. n : y \in Of(j, list[j])
    BY <2>2, Zenon DEF ItemsOfLabel
  <2> HIDE DEF Of
  <2>4. \A j \in 1 .. n : Of(j, next[j]) = Of(j, list[j]) \/ j = n
    BY <1>16, <2>1, Zenon
  <2>5. \A y : (\E j \in 1 .. n : y \in Of(j, next[j]))
                <=> (\E j \in 1 .. n : y \in Of(j, list[j])) \/ y = x
    BY <2>2, <2>4
  <2>6. \A y : y \in ItemsOfLabel(l, label, next) <=> y \in ItemsOfLabel(l, label, list) \/ y = x
    BY <2>3, <2>5, Zenon
  <2>7. QED  BY <2>1, <2>6
<1>22. \A y \in Items(guidance_label_list) \union ItemsOfLabel(l, label, nodes) \union {x} :
         ~Precedes(x.slot, y.slot)
  <2>1. Len(guidance_label_list) \in Nat /\ Len(nodes) \in Nat
    BY <1>3, TreesTyped
  <2>2. PlacesOf(nodes[Len(nodes)]) = node.numbers
    BY <1>14, <1>15, <1>16 DEF PlacesOf
  <2>3. Len(node.numbers) \in Nat /\ i \in Nat /\ i > Len(node.numbers)
    BY <1>16, <1>18
  <2>4. /\ x.slot[1] = Len(guidance_label_list) + 1 /\ x.slot[2] \in Nat /\ x.slot[3] \in Nat
        /\ x.slot[2] = Len(nodes) /\ Len(PlacesOf(nodes[Len(nodes)])) \in Nat
        /\ x.slot[3] > Len(PlacesOf(nodes[Len(nodes)]))
    BY <1>14, <1>16, <1>17, <1>20, <2>2, <2>3
  <2>5. QED  BY <1>17, <2>1, <2>4, LastSlot
<1>23. /\ InstructionItems' = InstructionItems /\ GuidanceItems' = GuidanceItems \union {x}
       /\ \A y \in GuidanceItems \union {x} : ~Precedes(x.slot, y.slot)
  BY <1>4, <1>17, <1>21, <1>22, GuidanceListed
<1>24. StandsUnder(x.at, x.label, GuidanceEnds)
  BY <1>1, <1>4, <1>20, PlacingTyped DEF LabelInv
<1>25. tokens <= k /\ k < m /\ tokens <= m /\ BodyAt(s) <= tokens
  BY <1>1, <1>3, <1>7, <1>9, <1>11
<1>26. PlacedTo(tokens, InstructionItems, GuidanceItems)'
  BY <1>1, <1>11, <1>12, <1>13, <1>20, <1>23, <1>24, <1>25, GuidancePlaced
<1>27. LabelInv'
  BY <1>1, <1>4, <1>11, <1>13, <1>25, GuidanceStays
<1>28. QED  BY <1>4, <1>26, <1>27 DEF PlacedInv

LEMMA PlaceDataEnd ==
  ASSUME Placing, RejectNumber \/ FinishData, error_list' = <<>>
  PROVE  PlacedInv'
<1>1. Judging /\ source' = source /\ LabelInv
  BY PlacingTyped
<1>2. /\ pc = "data" /\ pc' = "guidance" /\ tokens' = tokens
      /\ UNCHANGED <<label, nodes, instruction_label_list, guidance_label_list>>
  BY <1>1, NoError DEF RejectNumber, FinishData, Continue, lists
<1>3. PlacedTo(tokens, InstructionItems, GuidanceItems)'
  BY <1>2, ItemsStay, PlacedStill
<1>4. StandsUnder(tokens, label, GuidanceEnds)
  BY <1>1, <1>2 DEF LabelInv
<1>5. PICK d, m : d = label /\ m = tokens
  OBVIOUS
<1>6. LabelInv'
  BY <1>1, <1>2, <1>4, <1>5, GuidanceUnder
<1>7. QED  BY <1>2, <1>3, <1>6 DEF PlacedInv

-----------------------------------------------------------------------------
(* The lists hold what has been read *)

LEMMA Placement ==
  ASSUME Placing, Next, error_list' = <<>>
  PROVE  PlacedInv'
<1>1. ~UnexpectedToken
  BY PlacingTyped, NoError DEF UnexpectedToken
<1>2. QED
  BY <1>1, PlaceEmptyLine, PlaceDeclaration, PlaceMacroLine, PlaceLabel, PlaceBegin, PlaceDrop,
     PlaceInstruction, PlaceInstructionsEnd, PlaceString, PlaceBeginData, PlaceNumber,
     PlaceDataEnd, PlaceGuidanceEnd, PlaceUnitEnd DEF Next

LEMMA StatementsInitially == Init => StatementsInv
<1> SUFFICES ASSUME Init PROVE PlacedInv
  BY DEF StatementsInv
<1>1. /\ tokens = 1 /\ pc = "unit" /\ label = NULL /\ IsTokenList(source)
      /\ instruction_label_list = <<>> /\ guidance_label_list = <<>>
  BY TokenListsAssumption DEF Init
<1>2. InstructionItems = {} /\ GuidanceItems = {}
  BY <1>1, NoItems, Zenon DEF InstructionItems, GuidanceItems
<1>3. UpTo(InstructionsStated, 1) = {} /\ UpTo(GuidanceStated, 1) = {}
  <2>1. \A j \in 1 .. Len(source) : ~(j < 1)
    BY <1>1, TypesOfList
  <2>2. (\A j \in InstructionsStated : ~(j < 1)) /\ \A j \in GuidanceStated : ~(j < 1)
    BY <1>1, <2>1, LabelsListed
  <2>3. QED  BY <2>2 DEF UpTo
<1>4. \A ends : Placed({}, {}, ends)
  BY DEF Placed
<1>5. PlacedTo(tokens, InstructionItems, GuidanceItems)
  BY <1>1, <1>2, <1>3, <1>4, Zenon DEF PlacedTo
<1>6. StandsUnder(1, NULL, GuidanceEnds)
  <2>1. \A q \in Filled : ~(q < 1)
    BY <1>1, LabelsListed
  <2>2. QED  BY <2>1 DEF StandsUnder
<1>7. QED  BY <1>1, <1>5, <1>6 DEF PlacedInv, LabelInv

LEMMA StatementsKept == IInv /\ LanguageInv /\ StatementsInv /\ [Next]_vars => StatementsInv'
<1> SUFFICES ASSUME IInv, LanguageInv, StatementsInv, [Next]_vars, error_list' = <<>>
             PROVE  PlacedInv'
  BY DEF StatementsInv
<1>1. source' = source
  BY SourceStays DEF vars
<1>2. error_list = <<>>
  BY ErrorsStay, CursorTyped DEF vars
<1>3. Placing
  BY <1>1, <1>2 DEF Placing, Judging, LanguageInv, StatementsInv
<1>4. CASE Next
  BY <1>3, <1>4, Placement
<1>5. CASE UNCHANGED vars
  <2>1. UNCHANGED <<source, tokens, pc, label, nodes, instruction_label_list, guidance_label_list>>
    BY <1>5 DEF vars, lists
  <2>2. PlacedTo(tokens, InstructionItems, GuidanceItems)'
    BY <1>3, <2>1, ItemsStay, PlacedStill
  <2>3. LabelInv /\ (pc = "done" => Type(tokens) \in Ending)
    BY <1>3 DEF Placing, PlacedInv
  <2>4. Type(tokens)' = Type(tokens)
    BY <2>1 DEF Type
  <2>5. PICK d, m : d = label /\ m = tokens
    OBVIOUS
  <2>6. LabelInv'
    <3>1. CASE pc = "unit"
      BY <2>1, <2>3, <2>5, <3>1, UnitUnder DEF LabelInv
    <3>2. CASE pc \in {"labelled", "guidance", "data"}
      BY <2>1, <2>3, <2>5, <3>2, GuidanceUnder DEF LabelInv
    <3>3. CASE pc = "instructions"
      BY <2>1, <2>3, <2>5, <3>3, InstructionsUnder DEF LabelInv
    <3>4. CASE pc = "done"
      BY <2>1, <3>4 DEF LabelInv
    <3>5. QED  BY <3>1, <3>2, <3>3, <3>4, TreesTyped
  <2>7. QED  BY <2>1, <2>2, <2>3, <2>4, <2>6 DEF PlacedInv
<1>6. QED  BY <1>4, <1>5

\* At the end the cursor has passed every statement.
LEMMA StatementsKnown == IInv /\ StatementsInv => StatementsInPlace
<1> SUFFICES ASSUME IInv, StatementsInv, Done PROVE
      /\ Placed(Items(instruction_label_list), InstructionsStated, {})
      /\ Placed(Items(guidance_label_list), GuidanceStated, GuidanceEnds)
      /\ \A x \in Items(instruction_label_list) : OperandsPlaced(x.at, x.operands)
  BY DEF StatementsInPlace
<1>1. pc = "done" /\ Type(tokens) \in Ending /\ PlacedTo(tokens, InstructionItems, GuidanceItems)
  BY DEF Done, StatementsInv, PlacedInv
<1>2. IsTokenList(source) /\ tokens \in Nat \ {0} /\ Len(source) \in Nat
  BY CursorTyped, TypesOfList
<1>3. tokens >= Len(source)
  <2>1. ASSUME tokens < Len(source) PROVE FALSE
    <3>1. tokens \in 1 .. Len(source)
      BY <1>2, <2>1
    <3>2. Type(tokens) # "none" /\ (Type(tokens) = "eoft" => tokens = Len(source))
      BY <1>2, <3>1, TypesOfList
    <3>3. tokens # Len(source)
      BY <1>2, <2>1
    <3>4. QED  BY <1>1, <3>2, <3>3 DEF Ending
  <2>2. QED  BY <1>2, <2>1
<1>4. ASSUME NEW j \in 1 .. Len(source), Type(j) \notin Ending PROVE j < tokens
  <2>1. j # tokens
    BY <1>1, <1>4
  <2>2. QED  BY <1>2, <1>3, <2>1
<1>5. \A j \in Places(Operation \union {"string", "number"}) : j < tokens
  <2>1. \A type \in Operation \union {"string", "number"} : type \notin Ending
    BY EndsKnown DEF Ending
  <2>2. QED  BY <1>4, <2>1 DEF Places
<1>6. /\ UpTo(InstructionsStated, tokens) = InstructionsStated
      /\ UpTo(GuidanceStated, tokens) = GuidanceStated
  <2>1. /\ \A j \in InstructionsStated : j \in Places(Operation \union {"string", "number"})
        /\ \A j \in GuidanceStated : j \in Places(Operation \union {"string", "number"})
    BY DEF InstructionsStated, GuidanceStated, Stated, Places
  <2>2. QED  BY <1>5, <2>1, Zenon DEF UpTo
<1>7. InstructionItems = Items(instruction_label_list) /\ GuidanceItems = Items(guidance_label_list)
  BY <1>1 DEF InstructionItems, GuidanceItems
<1>8. QED  BY <1>1, <1>6, <1>7, Zenon DEF PlacedTo

-----------------------------------------------------------------------------
(* Theorems *)

LEMMA InvariantHolds == Spec => []IInv
BY InvariantInitially, InvariantKept, PTL DEF Spec

\* The parser of any token list the lexer hands over: the cursor stays between
\* its first token and the place behind the last, never behind EOF, and no token
\* is taken where there is none.
THEOREM TypeCorrect == Spec => []TypeOK
<1>1. IInv => TypeOK
  BY DEF IInv
<1>2. QED  BY <1>1, InvariantHolds, PTL

\* Recovery to the end of the line: between two errors of any list there is the
\* end of a line.
THEOREM ErrorsApart == Spec => []OneErrorPerLine
<1>1. IInv => OneErrorPerLine
  BY DEF IInv, RecoveryInv
<1>2. QED  BY <1>1, InvariantHolds, PTL

\* A unit without errors is a parsed unit, which is what the theorems about
\* semantic analysis assume.
THEOREM UnitIsParsed == Spec => []HandsOverParsed
BY InvariantHolds, HandedOver, PTL

LEMMA LanguageHolds == Spec => []LanguageInv
BY InvariantHolds, LanguageInitially, LanguageKept, PTL DEF Spec

\* The language of the parser, for any list: it finishes without an error exactly
\* on the lists all of whose lines are legal.
THEOREM LanguageAccepted == Spec => []AcceptsLanguage
BY InvariantHolds, LanguageHolds, LanguageKnown, PTL

\* What the parser hands over, for any list: without an error every instruction
\* with its operands, every string and every number of the source is in the unit
\* once, in the order of the source, under the label it stands under, and nothing
\* else is.
THEOREM StatementsPlaced == Spec => []StatementsInPlace
<1>1. Spec => []StatementsInv
  BY InvariantHolds, LanguageHolds, StatementsInitially, StatementsKept, PTL DEF Spec
<1>2. QED  BY <1>1, InvariantHolds, StatementsKnown, PTL
=============================================================================
