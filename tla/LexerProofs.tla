----------------------------- MODULE LexerProofs -----------------------------
(***************************************************************************)
(* What the runs check of the lexer holds for every text, alphabet and     *)
(* table of words: what the parser relies on, that the tokens split the    *)
(* text, where the errors are and what the reports show.                   *)
(***************************************************************************)
EXTENDS Lexer, SequenceTheorems, FiniteSetTheorems, WellFoundedInduction, TLAPS

-----------------------------------------------------------------------------
(* The invariant *)

IsList(s) == \E S : s \in Seq(S)

TextOK ==
  /\ source_code \in Seq(Char)
  /\ index \in 0 .. Len(source_code)
  /\ \A p \in 1 .. Len(source_code) - 1 : source_code[p] # "eof"

Word == Seq(Letter \union Digit \union {"_"}) \ {<<>>}

\* An error token has an error, the EOF token has the end of the text behind it.
TokenFits(token, k) ==
  /\ token.type \in P!TokenType \union {"error"}
  /\ token.string \in Seq(Char)
  /\ token.type = "identifier" => token.string \in Word
  /\ token.type = "string" => Len(token.string) >= 2
  /\ token.type = "error" => error_list # <<>>
  /\ token.type = "eoft" => k = Len(token_list) /\ index = Len(source_code)

TokensFit ==
  /\ IsList(token_list)
  /\ \A k \in 1 .. Len(token_list) : TokenFits(token_list[k], k)

\* An EOF that was passed has become the last token.
EofTaken ==
  index = Len(source_code) /\ index > 0 /\ source_code[index] = "eof" =>
    token_list # <<>> /\ token_list[Len(token_list)].type = "eoft"

Stages ==
  /\ input \in Inputs
  /\ pc = "initialize" =>
       source_code = <<>> /\ index = 0 /\ token_list = <<>> /\ error_list = <<>>
  /\ pc \in {"report", "done"} => index = Len(source_code)

IInv == TextOK /\ IsList(error_list) /\ TokensFit /\ EofTaken /\ Stages

-----------------------------------------------------------------------------
(* Places in the text *)

\* A set of natural numbers that is not empty has a least one.
LEMMA LeastNumber ==
  ASSUME NEW T, T \subseteq Nat, T # {}
  PROVE  \E x \in T : \A y \in T : x <= y
<1>1. PICK x \in T : \A y \in T : <<y, x>> \notin OpToRel(<, Nat)
  BY WFMin, NatLessThanWellFounded, Zenon
<1>2. \A y \in T : ~(y < x)
  BY <1>1, Zenon DEF OpToRel
<1> QED  BY <1>2

\* What the lexer tells characters apart by does not confuse them with the end.
LEMMA Alphabet ==
  /\ "nul" \notin Char
  /\ "eof" \notin Letter \union Digit
  /\ "nul" \notin Letter \union Digit
BY AlphabetAssumption DEF Char, Separator, Sign, Blank

\* A place is in the text exactly if it does not read as its end.
LEMMA Reading ==
  ASSUME TextOK, NEW q \in Nat
  PROVE  /\ At(q) # "nul" <=> q < Len(source_code)
         /\ q < Len(source_code) => At(q) = source_code[q + 1] /\ At(q) \in Char
<1>1. q < Len(source_code) => source_code[q + 1] \in Char
  BY DEF TextOK
<1>2. QED  BY <1>1, Alphabet DEF At, CharAt, TextOK

\* A scan ends in the text or right behind it, at the first character that does
\* not belong to it.
LEMMA Scan ==
  ASSUME TextOK, NEW p \in 0 .. Len(source_code), NEW S, "nul" \notin S
  PROVE  /\ Past(p, S) \in p .. Len(source_code)
         /\ At(Past(p, S)) \notin S
         /\ \A r \in p .. Past(p, S) - 1 : At(r) \in S
<1> DEFINE T == {q \in p .. Len(source_code) : At(q) \notin S}
<1>1. Len(source_code) \in Nat
  BY DEF TextOK
<1>2. At(Len(source_code)) = "nul"
  BY <1>1 DEF At, CharAt
<1>3. T \subseteq Nat /\ Len(source_code) \in T
  BY <1>1, <1>2
<1>4. PICK q \in T : \A y \in T : q <= y
  <2> HIDE DEF T
  <2> QED  BY <1>3, LeastNumber
<1>5. \A r \in p .. q - 1 : At(r) \in S
  BY <1>1, <1>4
<1>6. \E x \in p .. Len(source_code) : At(x) \notin S /\ \A r \in p .. x - 1 : At(r) \in S
  BY <1>4, <1>5
<1>7. QED  BY <1>6, Zenon DEF Past

\* The string of a token is what was read of the text.
LEMMA Read ==
  ASSUME TextOK, NEW p \in index .. Len(source_code)
  PROVE  /\ SubSeq(source_code, index + 1, p) \in Seq(Char)
         /\ Len(SubSeq(source_code, index + 1, p)) = p - index
         /\ \A i \in 1 .. p - index :
              SubSeq(source_code, index + 1, p)[i] = At(index + i - 1)
<1>1. index \in Nat /\ p \in Nat /\ Len(source_code) \in Nat
  BY DEF TextOK
<1>2. \A i \in index + 1 .. p : source_code[i] \in Char
  BY <1>1 DEF TextOK
<1>3. /\ SubSeq(source_code, index + 1, p) \in Seq(Char)
      /\ Len(SubSeq(source_code, index + 1, p)) = p - index
      /\ \A i \in 1 .. p - index :
           SubSeq(source_code, index + 1, p)[i] = source_code[index + i]
  <2> DEFINE word == SubSeq(source_code, index + 1, p)
  <2>1. word = [i \in 1 .. p - index |-> source_code[index + i]]
    BY <1>1, SMTT(30) DEF TextOK
  <2>2. \A i \in 1 .. p - index : source_code[index + i] \in Char
    BY <1>1, <1>2
  <2> HIDE DEF word
  <2>3. Len(word) = p - index /\ word \in Seq(Char)
    BY <2>1, <2>2, <1>1
  <2>4. QED  BY <2>1, <2>3, Zenon DEF word
<1>4. \A i \in 1 .. p - index : At(index + i - 1) = source_code[index + i]
  BY <1>1 DEF At, CharAt
<1>5. QED  BY <1>3, <1>4

-----------------------------------------------------------------------------
(* One more token *)

LEMMA Appended ==
  ASSUME NEW s, IsList(s), NEW e
  PROVE  /\ IsList(Append(s, e))
         /\ Len(s) \in Nat
         /\ Len(Append(s, e)) = Len(s) + 1
         /\ \A k \in 1 .. Len(s) : Append(s, e)[k] = s[k]
         /\ Append(s, e)[Len(s) + 1] = e
         /\ Append(s, e) # <<>>
<1>1. PICK S : s \in Seq(S)
  BY DEF IsList
<1>2. s \in Seq(S \union {e}) /\ e \in S \union {e}
  BY <1>1, SeqMonotonic
<1>3. Append(s, e) \in Seq(S \union {e})
  BY <1>2
<1>4. QED  BY <1>2, <1>3 DEF IsList

\* Whoever adds a token owes what TokenFits asks of it, and the EOF token for EOF.
LEMMA TokenAdded ==
  ASSUME IInv, pc = "analyze", At(index) # "nul",
         NEW p \in index + 1 .. Len(source_code), NEW token,
         index' = p, UNCHANGED <<source_code, pc, input>>,
         token_list' = Append(token_list, token),
         IsList(error_list'), error_list # <<>> => error_list' # <<>>,
         token.type \in P!TokenType \union {"error"},
         token.string \in Seq(Char),
         token.type = "identifier" => token.string \in Word,
         token.type = "string" => Len(token.string) >= 2,
         token.type = "error" => error_list' # <<>>,
         token.type = "eoft" <=> At(p - 1) = "eof"
  PROVE  IInv'
<1>1. index \in Nat /\ index < Len(source_code) /\ Len(source_code) \in Nat /\ p \in Nat
  BY Reading DEF IInv, TextOK
<1>2. At(p - 1) = source_code[p]
  BY <1>1 DEF At, CharAt
<1>3. TextOK'
  BY <1>1 DEF IInv, TextOK
<1>4. token.type = "eoft" => p = Len(source_code)
  BY <1>1, <1>2 DEF IInv, TextOK
<1>5. /\ IsList(token_list') /\ Len(token_list) \in Nat
      /\ Len(token_list') = Len(token_list) + 1
      /\ \A k \in 1 .. Len(token_list) : token_list'[k] = token_list[k]
      /\ token_list'[Len(token_list) + 1] = token /\ token_list' # <<>>
  <2>1. IsList(token_list)
    BY DEF IInv, TokensFit
  <2>2. QED  BY <2>1, Appended
<1>6. ASSUME NEW k \in 1 .. Len(token_list')
      PROVE  TokenFits(token_list[k], k)'
  <2>1. CASE k = Len(token_list) + 1
    BY <2>1, <1>4, <1>5 DEF TokenFits
  <2>2. CASE k # Len(token_list) + 1
    <3>1. k \in 1 .. Len(token_list) /\ token_list'[k] = token_list[k]
      BY <2>2, <1>5
    <3>2. TokenFits(token_list[k], k) /\ token_list[k].type # "eoft"
      BY <3>1, <1>1 DEF IInv, TokensFit, TokenFits
    <3>3. QED  BY <3>1, <3>2 DEF TokenFits
  <2>3. QED  BY <2>1, <2>2
<1>7. EofTaken'
  BY <1>2, <1>5 DEF EofTaken
<1>8. Stages'
  BY DEF IInv, Stages
<1>9. QED  BY <1>3, <1>5, <1>6, <1>7, <1>8 DEF IInv, TokensFit

\* What makes no token may not pass EOF.
LEMMA NoTokenAdded ==
  ASSUME IInv, pc = "analyze", At(index) # "nul",
         NEW p \in index + 1 .. Len(source_code),
         index' = p, UNCHANGED <<source_code, pc, input, token_list>>,
         IsList(error_list'), error_list # <<>> => error_list' # <<>>,
         At(p - 1) # "eof"
  PROVE  IInv'
<1>1. index \in Nat /\ index < Len(source_code) /\ Len(source_code) \in Nat /\ p \in Nat
  BY Reading DEF IInv, TextOK
<1>2. At(p - 1) = source_code[p]
  BY <1>1 DEF At, CharAt
<1>3. TextOK'
  BY <1>1 DEF IInv, TextOK
<1>4. TokensFit'
  BY <1>1 DEF IInv, TokensFit, TokenFits
<1>5. EofTaken'
  BY <1>2 DEF EofTaken
<1>6. Stages'
  BY DEF IInv, Stages
<1>7. QED  BY <1>3, <1>4, <1>5, <1>6 DEF IInv

\* An error that is added is in the list.
LEMMA ErrorAdded ==
  ASSUME IInv, NEW error, AddError(error)
  PROVE  IsList(error_list') /\ error_list' # <<>>
BY Appended, Zenon DEF IInv, AddError

-----------------------------------------------------------------------------
(* The actions *)

\* Where the loop stands, a character is there to be read.
LEMMA AtCharacter ==
  ASSUME IInv, NEW S, "nul" \notin S, Analyzing(S)
  PROVE  /\ pc = "analyze" /\ At(index) \in S /\ At(index) # "nul"
         /\ index \in Nat /\ index < Len(source_code) /\ Len(source_code) \in Nat
         /\ At(index) \in Char
         /\ UNCHANGED <<source_code, pc, input>>
<1>1. pc = "analyze" /\ At(index) \in S /\ At(index) # "nul"
  BY DEF Analyzing
<1>2. QED  BY <1>1, Reading DEF IInv, TextOK, Analyzing

\* A scan that takes at least one character stops behind the last one it took.
LEMMA Taken ==
  ASSUME IInv, index < Len(source_code), NEW S, "nul" \notin S,
         NEW from \in {index, index + 1}, from = index => At(index) \in S
  PROVE  /\ Past(from, S) \in index + 1 .. Len(source_code)
         /\ At(Past(from, S) - 1) \in S \union {At(index)}
         /\ \A r \in index + 1 .. Past(from, S) - 1 : At(r) \in S
<1> DEFINE p == Past(from, S)
<1>1. TextOK /\ index \in Nat /\ Len(source_code) \in Nat
  BY DEF IInv, TextOK
<1>2. from \in 0 .. Len(source_code)
  BY <1>1
<1>3. /\ p \in from .. Len(source_code) /\ At(p) \notin S
      /\ \A r \in from .. p - 1 : At(r) \in S
  BY <1>1, <1>2, Scan
<1>4. p # index
  BY <1>1, <1>3
<1>5. QED  BY <1>1, <1>3, <1>4

\* Blanks, comments and unknown characters make no token.
LEMMA StepWithoutToken ==
  ASSUME IInv, SkipBlank \/ TokenizeComment \/ UnknownChar
  PROVE  IInv'
<1>1. CASE SkipBlank
  <2>1. "nul" \notin Blank /\ "eof" \notin Blank
    BY DEF Blank
  <2>2. QED  BY <1>1, <2>1, AtCharacter, NoTokenAdded DEF SkipBlank, AdvanceTo, IInv
<1>2. CASE TokenizeComment
  <2> DEFINE S == Char \ {"eol", "eof"}
             p == Past(index, S)
  <2>0. Analyzing({";"}) /\ "nul" \notin {";"}
    BY <1>2 DEF TokenizeComment
  <2>1. pc = "analyze" /\ At(index) \in {";"} /\ At(index) # "nul"
        /\ index < Len(source_code)
    BY <2>0, AtCharacter, Zenon
  <2>2. "nul" \notin S /\ ";" \in S
    BY Alphabet DEF Char
  <2>3. p \in index + 1 .. Len(source_code) /\ At(p - 1) \in S \union {";"}
    <3>1. At(index) = ";" /\ At(index) \in S
      BY <2>1, <2>2
    <3> HIDE DEF S
    <3>2. QED  BY <2>1, <2>2, <3>1, Taken
  <2>4. QED  BY <1>2, <2>1, <2>3, NoTokenAdded DEF TokenizeComment, AdvanceTo, Analyzing, IInv
<1>3. CASE UnknownChar
  <2>1. QED  BY <1>3, AtCharacter, NoTokenAdded, ErrorAdded DEF UnknownChar, AdvanceTo
<1>4. QED  BY <1>1, <1>2, <1>3

\* A token of one character has the type of EOF exactly if it is EOF.
LEMMA OneCharacter ==
  ASSUME IInv, NEW S, "nul" \notin S, Analyzing(S), AdvanceTo(index + 1),
         NEW token, AddToken(token), UNCHANGED error_list,
         token.string \in {<<>>, SubSeq(source_code, index + 1, index + 1)},
         token.type \in {"eol", "eoft", "comma", "colon", "hashtag", "star"},
         token.type = "eoft" <=> At(index) = "eof"
  PROVE  IInv'
<1>1. /\ pc = "analyze" /\ At(index) # "nul" /\ index \in Nat /\ index < Len(source_code)
      /\ Len(source_code) \in Nat /\ UNCHANGED <<source_code, pc, input>>
  BY AtCharacter
<1>2. token.string \in Seq(Char)
  <2>1. TextOK
    BY DEF IInv
  <2>2. index + 1 \in index .. Len(source_code)
    BY <1>1
  <2>3. SubSeq(source_code, index + 1, index + 1) \in Seq(Char)
    BY <2>1, <2>2, Read
  <2>4. <<>> \in Seq(Char)
    OBVIOUS
  <2>5. QED  BY <2>3, <2>4, Zenon
<1>3. PICK p : p = index + 1
  OBVIOUS
<1>4. index' = p /\ token_list' = Append(token_list, token)
  BY <1>3 DEF AdvanceTo, AddToken
<1>5. p \in index + 1 .. Len(source_code) /\ p - 1 = index
  BY <1>1, <1>3
<1>6. token.type = "eoft" <=> At(p - 1) = "eof"
  BY <1>5, Zenon
<1>7. IsList(error_list') /\ (error_list # <<>> => error_list' # <<>>)
  BY DEF IInv
<1>8. /\ token.type \in P!TokenType \union {"error"}
      /\ token.type = "identifier" => token.string \in Word
      /\ token.type = "string" => Len(token.string) >= 2
      /\ token.type = "error" => error_list' # <<>>
  BY DEF P!TokenType
<1>9. QED  BY <1>1, <1>2, <1>4, <1>5, <1>6, <1>7, <1>8, TokenAdded

\* Newlines, the end of the text and separators.
LEMMA StepOfOneCharacter ==
  ASSUME IInv, TokenizeNewline \/ TokenizeEof \/ TokenizeSeparator
  PROVE  IInv'
<1>1. CASE TokenizeNewline
  <2> DEFINE token == TokenTo(index + 1, "eol")
  <2>1. Analyzing({"eol"}) /\ At(index) = "eol" /\ AdvanceTo(index + 1) /\ AddToken(token)
        /\ UNCHANGED error_list
    BY <1>1 DEF TokenizeNewline, Analyzing
  <2>2. token.type = "eol" /\ token.string = SubSeq(source_code, index + 1, index + 1)
    BY DEF TokenTo
  <2> HIDE DEF token
  <2>3. QED  BY <2>1, <2>2, OneCharacter
<1>2. CASE TokenizeEof
  <2> DEFINE token == [TokenTo(index + 1, "eoft") EXCEPT !.string = <<>>]
  <2>1. Analyzing({"eof"}) /\ At(index) = "eof" /\ AdvanceTo(index + 1) /\ AddToken(token)
        /\ UNCHANGED error_list
    BY <1>2 DEF TokenizeEof, Analyzing
  <2>2. token.type = "eoft" /\ token.string = <<>>
    BY DEF TokenTo
  <2> HIDE DEF token
  <2>3. QED  BY <2>1, <2>2, OneCharacter
<1>3. CASE TokenizeSeparator
  <2>1. Analyzing(Separator) /\ At(index) \in Separator /\ AdvanceTo(index + 1)
        /\ UNCHANGED error_list
    BY <1>3 DEF TokenizeSeparator, Analyzing
  <2>2. PICK type \in {"comma", "colon", "hashtag", "star"} :
          AddToken(TokenTo(index + 1, type))
    BY <1>3, <2>1 DEF TokenizeSeparator, Separator
  <2> DEFINE token == TokenTo(index + 1, type)
  <2>3. token.type = type /\ token.string = SubSeq(source_code, index + 1, index + 1)
    BY DEF TokenTo
  <2>4. AddToken(token) /\ "nul" \notin Separator /\ At(index) # "eof"
    BY <2>1, <2>2 DEF Separator
  <2> HIDE DEF token
  <2>5. QED  BY <2>1, <2>3, <2>4, OneCharacter
<1>4. QED  BY <1>1, <1>2, <1>3

\* A token that was scanned to p, and that neither begins with a word nor ends with EOF.
LEMMA TokenRead ==
  ASSUME IInv, NEW S, "nul" \notin S, Analyzing(S),
         NEW p \in index + 1 .. Len(source_code), AdvanceTo(p),
         NEW token, AddToken(token),
         token.string = SubSeq(source_code, index + 1, p),
         token.type \in P!TokenType \union {"error"}, token.type # "eoft",
         token.type = "identifier" => token.string \in Word,
         token.type = "string" => p >= index + 2,
         \/ UNCHANGED error_list /\ token.type # "error"
         \/ \E error : AddError(error),
         At(p - 1) # "eof"
  PROVE  IInv'
<1>1. /\ pc = "analyze" /\ At(index) # "nul" /\ index \in Nat /\ index < Len(source_code)
      /\ Len(source_code) \in Nat /\ UNCHANGED <<source_code, pc, input>>
  BY AtCharacter
<1>2. p \in index .. Len(source_code)
  BY <1>1
<1>3. token.string \in Seq(Char) /\ Len(token.string) = p - index
  BY <1>2, Read DEF IInv
<1>4. token.type = "string" => Len(token.string) >= 2
  BY <1>1, <1>3
<1>5. index' = p /\ token_list' = Append(token_list, token)
  BY DEF AdvanceTo, AddToken
<1>6. /\ IsList(error_list')
      /\ error_list # <<>> => error_list' # <<>>
      /\ token.type = "error" => error_list' # <<>>
  <2>1. CASE UNCHANGED error_list /\ token.type # "error"
    BY <2>1 DEF IInv
  <2>2. CASE \E error : AddError(error)
    BY <2>2, ErrorAdded
  <2>3. QED  BY <2>1, <2>2
<1>7. QED  BY <1>1, <1>3, <1>4, <1>5, <1>6, TokenAdded

\* Numbers: an error token has its error in the same step.
LEMMA StepOfNumber ==
  ASSUME IInv, TokenizeNumber
  PROVE  IInv'
<1> DEFINE S == Digit \union Sign
           p == NumberEnd
<1>1. Analyzing(S) /\ AdvanceTo(p) /\ "nul" \notin S
  BY Alphabet DEF TokenizeNumber, Sign
<1>2. /\ pc = "analyze" /\ At(index) \in S /\ At(index) # "nul"
      /\ index \in Nat /\ index < Len(source_code) /\ Len(source_code) \in Nat
      /\ UNCHANGED <<source_code, pc, input>>
  BY <1>1, AtCharacter, Zenon
<1>3. p = Past(index + 1, Digit) /\ "nul" \notin Digit
  BY Alphabet DEF NumberEnd
<1>4. p \in index + 1 .. Len(source_code) /\ At(p - 1) \in Digit \union {At(index)}
  BY <1>2, <1>3, Taken
<1>5. At(p - 1) # "eof"
  BY <1>2, <1>4, Alphabet DEF Sign
<1>6. PICK type \in {"number", "error"} :
        /\ AddToken(TokenTo(p, type))
        /\ \/ UNCHANGED error_list /\ type # "error"
           \/ \E error : AddError(error)
  BY DEF TokenizeNumber
<1> DEFINE token == TokenTo(p, type)
<1>7. token.type = type /\ token.string = SubSeq(source_code, index + 1, p)
  BY DEF TokenTo
<1>8. type \in P!TokenType \union {"error"} /\ type \notin {"eoft", "identifier", "string"}
  BY DEF P!TokenType
<1>9. AddToken(token)
  BY <1>6
<1> HIDE DEF p, token, S
<1>10. QED  BY <1>1, <1>4, <1>5, <1>6, <1>7, <1>8, <1>9, TokenRead

\* Strings: one that is closed holds both its quotes, one that is not has an error.
LEMMA StepOfString ==
  ASSUME IInv, TokenizeString
  PROVE  IInv'
<1> DEFINE S == Char \ {"eof"}
           end == IF Closing # {} THEN Min(Closing) + 1 ELSE Past(index, S)
           type == IF Closing # {} THEN "string" ELSE "error"
<1>1. Analyzing({"quote"}) /\ AdvanceTo(end) /\ "nul" \notin {"quote"}
  BY DEF TokenizeString
<1>2. /\ At(index) \in {"quote"}
      /\ index \in Nat /\ index < Len(source_code) /\ Len(source_code) \in Nat
  BY <1>1, AtCharacter, Zenon
<1>3. PICK token :
        /\ AddToken(token)
        /\ token.type = type /\ token.string = SubSeq(source_code, index + 1, end)
  <2> DEFINE closed == [TokenTo(end, "string") EXCEPT !.index_in_line = line_number]
             open == [closed EXCEPT !.type = "error"]
  <2>1. closed.type = "string" /\ closed.string = SubSeq(source_code, index + 1, end)
    BY Zenon DEF TokenTo
  <2>2. open.type = "error" /\ open.string = SubSeq(source_code, index + 1, end)
    BY Zenon DEF TokenTo
  <2>3. AddToken(IF Closing # {} THEN closed ELSE open)
    BY Zenon DEF TokenizeString
  <2> HIDE DEF closed, open
  <2>4. QED  BY <2>1, <2>2, <2>3
<1>4. \/ UNCHANGED error_list /\ type # "error"
      \/ \E error : AddError(error)
  BY DEF TokenizeString
<1>5. end \in index + 1 .. Len(source_code) /\ At(end - 1) # "eof"
      /\ (type = "string" => end >= index + 2)
  <2>1. CASE Closing # {}
    <3>1. Closing \subseteq Nat
      BY <1>2 DEF Closing
    <3>2. Min(Closing) \in Closing
      <4>1. \E x \in Closing : \A y \in Closing : x <= y
        BY <2>1, <3>1, LeastNumber
      <4>2. QED  BY <4>1, Zenon DEF Min
    <3>3. /\ Min(Closing) \in index + 1 .. Len(source_code)
          /\ At(Min(Closing)) = "quote"
      BY <3>2 DEF Closing
    <3>4. Min(Closing) < Len(source_code)
      BY <3>3, <1>2, Reading DEF IInv
    <3>5. end = Min(Closing) + 1
      BY <2>1
    <3>6. QED  BY <1>2, <3>3, <3>4, <3>5
  <2>2. CASE Closing = {}
    <3>1. "nul" \notin S /\ "quote" \in S
      BY Alphabet DEF Char
    <3>2. end = Past(index, S) /\ type = "error"
      BY <2>2
    <3>3. At(index) \in S
      BY <1>2, <3>1
    <3> HIDE DEF end
    <3>4. Past(index, S) \in index + 1 .. Len(source_code)
          /\ At(Past(index, S) - 1) \in S \union {At(index)}
      BY <1>2, <3>1, <3>3, Taken
    <3>5. QED  BY <1>2, <3>2, <3>4
  <2>3. QED  BY <2>1, <2>2
<1>6. type \in P!TokenType \union {"error"} /\ type \notin {"eoft", "identifier"}
  BY DEF P!TokenType
<1> HIDE DEF end, type
<1>7. QED  BY <1>1, <1>3, <1>4, <1>5, <1>6, TokenRead

\* Directives: the table gives a word its type, and what is not in it an error.
LEMMA StepOfDirective ==
  ASSUME IInv, TokenizeNonOpInstruction
  PROVE  IInv'
<1> DEFINE end == Past(index + 1, Letter)
           word == SubSeq(source_code, index + 1, end)
           type == IF word \in DOMAIN DirectiveType THEN DirectiveType[word] ELSE "error"
           token == TokenTo(end, type)
<1>1. Analyzing({"."}) /\ AdvanceTo(end) /\ AddToken(token) /\ "nul" \notin {"."}
  BY DEF TokenizeNonOpInstruction
<1>2. token.type = type /\ token.string = word
  BY DEF TokenTo
<1>3. \/ UNCHANGED error_list /\ type # "error"
      \/ \E error : AddError(error)
  BY <1>2 DEF TokenizeNonOpInstruction
<1>4. At(index) \in {"."} /\ index \in Nat /\ index < Len(source_code)
      /\ Len(source_code) \in Nat
  BY <1>1, AtCharacter, Zenon
<1>5. end \in index + 1 .. Len(source_code) /\ At(end - 1) \in Letter \union {At(index)}
  BY <1>4, Alphabet, Taken
<1>6. At(end - 1) # "eof"
  BY <1>4, <1>5, Alphabet
<1>7. type \in P!Directive \union {"error"}
  BY WordAssumption
<1>8. type \in P!TokenType \union {"error"} /\ type \notin {"eoft", "identifier", "string"}
  BY <1>7 DEF P!TokenType, P!Directive
<1> HIDE DEF end, word, type, token
<1>9. token.string = SubSeq(source_code, index + 1, end)
  BY <1>2 DEF word
<1>10. QED  BY <1>1, <1>2, <1>3, <1>5, <1>6, <1>8, <1>9, TokenRead

\* Identifiers: what is no reserved word is a name the parser can use.
LEMMA StepOfIdentifier ==
  ASSUME IInv, TokenizeIdentifier
  PROVE  IInv'
<1> DEFINE S == Letter \union Digit \union (IF At(index) = "_" THEN {"_"} ELSE {})
           end == Past(index + 1, S)
           word == SubSeq(source_code, index + 1, end)
           type == IF word \in DOMAIN ReservedType THEN ReservedType[word]
                   ELSE "identifier"
           token == TokenTo(end, type)
<1>1. /\ Analyzing(Letter \union {"_"}) /\ AdvanceTo(end) /\ AddToken(token)
      /\ UNCHANGED error_list /\ "nul" \notin Letter \union {"_"}
  BY Alphabet DEF TokenizeIdentifier, IdentifierEnd
<1>2. index \in Nat /\ index < Len(source_code) /\ Len(source_code) \in Nat
  BY <1>1, AtCharacter, Zenon
<1>3. At(index) \in Letter \union {"_"}
  BY <1>1, AtCharacter, Zenon
<1>4. "nul" \notin S /\ "eof" \notin S \union {At(index)}
  BY <1>3, Alphabet
<1> DEFINE C == Letter \union Digit \union {"_"}
<1>5. S \subseteq C /\ At(index) \in C
  BY <1>3
<1>6. token.type = type /\ token.string = word
  BY DEF TokenTo
<1>7. /\ end \in index + 1 .. Len(source_code)
      /\ At(end - 1) \in S \union {At(index)}
      /\ \A r \in index + 1 .. end - 1 : At(r) \in S
  <2> HIDE DEF S, end
  <2>1. index + 1 # index /\ index + 1 \in {index, index + 1} /\ "nul" \notin S
    BY <1>2, <1>4
  <2>2. /\ Past(index + 1, S) \in index + 1 .. Len(source_code)
        /\ At(Past(index + 1, S) - 1) \in S \union {At(index)}
        /\ \A r \in index + 1 .. Past(index + 1, S) - 1 : At(r) \in S
    BY <1>2, <2>1, Taken
  <2>3. QED  BY <2>2, Zenon DEF end
<1> HIDE DEF S, end, C
<1>8. word \in Word
  <2>1. end \in index .. Len(source_code)
    BY <1>2, <1>7
  <2>2. /\ word \in Seq(Char) /\ Len(word) = end - index
        /\ \A i \in 1 .. end - index : word[i] = At(index + i - 1)
    BY <2>1, Read DEF IInv
  <2>3. ASSUME NEW i \in 1 .. end - index
        PROVE  At(index + i - 1) \in C
    <3>1. CASE i = 1
      BY <3>1, <1>2, <1>5
    <3>2. CASE i # 1
      <4>1. index + i - 1 \in index + 1 .. end - 1
        BY <3>2, <1>2, <1>7
      <4>2. QED  BY <4>1, <1>5, <1>7
    <3>3. QED  BY <3>1, <3>2
  <2> HIDE DEF word
  <2>4. \A i \in 1 .. Len(word) : word[i] \in C
    BY <2>2, <2>3
  <2>5. word \in Seq(C)
    BY <2>2, <2>4
  <2>6. word # <<>>
    BY <2>2, <1>2, <1>7
  <2>7. QED  BY <2>5, <2>6, Zenon DEF Word, C
<1>9. type \in P!Operation \union {"register", "macr", "endmacr", "identifier"}
  BY WordAssumption
<1> HIDE DEF type
<1>10. type \in P!TokenType /\ type \notin {"eoft", "error", "string"}
  <2>1. type \in P!TokenType
    BY <1>9 DEF P!TokenType
  <2>2. type \notin {"eoft", "error", "string"}
    BY <1>9 DEF P!Operation, P!TwoOperands, P!OneOperand, P!NoOperand
  <2>3. QED  BY <2>1, <2>2
<1>11. token.string = SubSeq(source_code, index + 1, end)
  BY <1>6
<1> HIDE DEF word, token
<1>12. QED  BY <1>1, <1>4, <1>6, <1>7, <1>8, <1>10, <1>11, TokenRead

-----------------------------------------------------------------------------
(* The theorem *)

\* The invariant holds initially.
LEMMA InvariantInitially == Init => IInv
<1> SUFFICES ASSUME Init PROVE IInv
  OBVIOUS
<1>1. source_code \in Seq(Char) /\ token_list \in Seq({}) /\ error_list \in Seq({})
  BY DEF Init
<1>2. QED  BY <1>1 DEF Init, IInv, TextOK, IsList, TokensFit, EofTaken, Stages

\* The text that the lexer begins with has EOF at its end only.
LEMMA StepOfBeginning ==
  ASSUME IInv, InitializeFromCstr \/ InitializeFromFile \/ InitializeFromString
  PROVE  IInv'
<1>1. /\ pc = "initialize" /\ pc' = "analyze" /\ input \in Inputs
      /\ UNCHANGED <<input, index, token_list, error_list>>
      /\ index = 0 /\ token_list = <<>> /\ error_list = <<>>
  BY DEF InitializeFromCstr, InitializeFromFile, InitializeFromString, Begin, IInv, Stages,
         position
<1>2. /\ input.text \in Seq(Char)
      /\ \A p \in 1 .. Len(input.text) :
           input.text[p] = "eof" => input.initializer = "string" /\ p = Len(input.text)
  BY <1>1, InputsAssumption
<1>3. \/ source_code' = Append(input.text, "eof") /\ input.initializer # "string"
      \/ source_code' = input.text
  BY DEF InitializeFromCstr, InitializeFromFile, InitializeFromString, Begin
<1>4. source_code' \in Seq(Char)
      /\ \A p \in 1 .. Len(source_code') - 1 : source_code'[p] # "eof"
  <2>1. "eof" \in Char
    BY DEF Char
  <2>2. CASE source_code' = Append(input.text, "eof") /\ input.initializer # "string"
    BY <1>2, <2>1, <2>2
  <2>3. CASE source_code' = input.text
    BY <1>2, <2>3
  <2>4. QED  BY <1>3, <2>2, <2>3
<1>5. TextOK'
  BY <1>1, <1>4 DEF TextOK
<1>6. QED  BY <1>1, <1>5 DEF IInv, TokensFit, EofTaken, Stages

\* The stages in which nothing is read.
LEMMA StepWithoutReading ==
  ASSUME IInv, CannotOpenFile \/ FinishAnalysis \/ ReportErrors \/ UNCHANGED vars
  PROVE  IInv'
<1>1. /\ UNCHANGED <<input, source_code, index, token_list, error_list>>
      /\ pc' = "initialize" => pc = "initialize"
      /\ pc' \in {"report", "done"} => pc \in {"report", "done"} \/ At(index) = "nul"
  BY DEF CannotOpenFile, FinishAnalysis, ReportErrors, vars, position
<1>2. At(index) = "nul" => index = Len(source_code)
  BY Reading DEF IInv, TextOK
<1>3. Stages'
  BY <1>1, <1>2 DEF IInv, Stages
<1>4. QED  BY <1>1, <1>3 DEF IInv, TextOK, TokensFit, TokenFits, EofTaken

\* Every step keeps the invariant.
LEMMA InvariantKept == IInv /\ [Next]_vars => IInv'
BY StepOfBeginning, StepWithoutReading, StepWithoutToken, StepOfOneCharacter, StepOfNumber,
   StepOfString, StepOfDirective, StepOfIdentifier DEF Next

\* Without an error there is no error token, and what is left is a list for the parser.
LEMMA InvariantHandsOver == IInv => HandsOver
<1> SUFFICES ASSUME IInv, pc \in {"report", "done"}, error_list = <<>>,
                    source_code # <<>>, Last(source_code) = "eof"
             PROVE  P!IsTokenList([k \in 1 .. Len(token_list) |-> ForParser(k)])
  BY DEF HandsOver
<1> DEFINE list == [k \in 1 .. Len(token_list) |-> ForParser(k)]
<1>1. PICK S : token_list \in Seq(S)
  BY DEF IInv, TokensFit, IsList
<1>2. Len(token_list) \in Nat /\ Len(source_code) \in Nat /\ Len(source_code) > 0
  BY <1>1 DEF IInv, TextOK
<1>3. token_list # <<>> /\ token_list[Len(token_list)].type = "eoft"
  BY <1>2 DEF IInv, Stages, EofTaken, Last
<1>4. Len(token_list) > 0
  BY <1>1, <1>3
<1>5. ASSUME NEW k \in 1 .. Len(token_list)
      PROVE  /\ list[k] \in P!Token
             /\ list[k].type = token_list[k].type
             /\ list[k].type = "eoft" => k = Len(token_list)
             /\ list[k].type = "identifier" => list[k].name \in Word
             /\ list[k].type = "string" => list[k].number >= 2
  <2>1. TokenFits(token_list[k], k)
    BY DEF IInv, TokensFit
  <2>2. token_list[k].type \in P!TokenType
    BY <2>1 DEF TokenFits
  <2>3. Len(token_list[k].string) \in Nat
    BY <2>1 DEF TokenFits
  <2> DEFINE token == token_list[k]
             name == IF token.type = "identifier" THEN token.string ELSE <<>>
             number == IF token.type = "string" THEN Len(token.string) ELSE 0
             apart == k > 1 /\ token_list[k - 1].index + Len(token_list[k - 1].string)
                                 # token.index
  <2>4. /\ name \in Word \union {<<>>} /\ number \in Int
        /\ token.type = "identifier" => name \in Word
        /\ token.type = "string" => number >= 2
        /\ token.type = "eoft" => k = Len(token_list)
    BY <2>1, <2>3 DEF TokenFits
  <2>5. apart \in BOOLEAN
    BY Zenon
  <2>6. list[k] = [type |-> token.type, name |-> name, number |-> number, apart |-> apart]
    BY Zenon DEF ForParser
  <2> HIDE DEF list, name, number, apart
  <2>7. list[k] \in [type : P!TokenType, name : Word \union {<<>>}, number : Int,
                     apart : BOOLEAN]
    BY <2>2, <2>4, <2>5, <2>6
  <2>8. list[k] \in P!Token
    BY <2>7, Zenon DEF P!Token, Word
  <2>9. QED  BY <2>4, <2>6, <2>8
<1>6. list \in Seq(P!Token) /\ Len(list) = Len(token_list) /\ list # <<>>
  BY <1>2, <1>4, <1>5
<1> HIDE DEF list
<1>7. P!IsTokenList(list)
  <2>1. list[Len(list)].type = "eoft"
    BY <1>2, <1>3, <1>4, <1>5, <1>6
  <2>2. ASSUME NEW k \in 1 .. Len(list)
        PROVE  /\ list[k].type = "eoft" => k = Len(list)
               /\ list[k].type = "identifier" => list[k].name \in Word
               /\ list[k].type = "string" => list[k].number >= 2
    BY <1>5, <1>6
  <2>3. QED  BY <1>6, <2>1, <2>2, Zenon DEF P!IsTokenList, Word
<1>8. QED  BY <1>7 DEF list

\* Whatever the text, the alphabet and the words: what the lexer hands over without an
\* error is a token list as the parser relies on it, with the EOF token at its end only.
THEOREM HandsOverTokenList == Spec => []HandsOver
<1>1. Init => IInv
  BY InvariantInitially
<1>2. IInv /\ [Next]_vars => IInv'
  BY InvariantKept
<1>3. IInv => HandsOver
  BY InvariantHandsOver
<1>4. QED  BY <1>1, <1>2, <1>3, PTL DEF Spec

-----------------------------------------------------------------------------
(* Induction over sets of numbers, and recursion by it *)

\* What holds of 0, and with a number of the next one, holds of all.
LEMMA Induction ==
  ASSUME NEW T, 0 \in T, \A n \in Nat : n \in T => n + 1 \in T
  PROVE  \A n \in Nat : n \in T
<1> SUFFICES ASSUME NEW n \in Nat, n \notin T PROVE FALSE
  OBVIOUS
<1>1. PICK x \in Nat \ T : \A y \in Nat \ T : x <= y
  <2>1. Nat \ T \subseteq Nat /\ Nat \ T # {}
    OBVIOUS
  <2>2. QED  BY <2>1, LeastNumber, Zenon
<1>2. x # 0 /\ x - 1 \in Nat /\ x - 1 \in T
  BY <1>1
<1>3. QED  BY <1>1, <1>2

\* A recursion over the numbers up to a bound has a solution.
LEMMA Recursion ==
  ASSUME NEW S, NEW a \in S, NEW bound \in Nat,
         NEW step \in [1 .. bound -> [S -> S]]
  PROVE  \E g \in [0 .. bound -> S] :
           g[0] = a /\ \A p \in 1 .. bound : g[p] = step[p][g[p - 1]]
<1> DEFINE G(n) == {g \in [0 .. n -> S] :
                       /\ g[0] = a
                       /\ \A p \in 1 .. n : g[p] = step[p][g[p - 1]]}
           T == {n \in Nat : n <= bound => G(n) # {}}
<1>1. 0 \in T
  <2>1. [p \in 0 .. 0 |-> a] \in G(0)
    OBVIOUS
  <2> HIDE DEF G
  <2>2. QED  BY <2>1
<1>2. ASSUME NEW n \in Nat, n \in T
      PROVE  n + 1 \in T
  <2> SUFFICES ASSUME n + 1 <= bound PROVE \E h : h \in G(n + 1)
    OBVIOUS
  <2>1. PICK g : g \in G(n)
    <3> HIDE DEF G
    <3>1. QED  BY <1>2
  <2>2. /\ g[0] = a
        /\ \A p \in 0 .. n : g[p] \in S
        /\ \A p \in 1 .. n : g[p] = step[p][g[p - 1]]
    BY <2>1
  <2> HIDE DEF G
  <2> DEFINE h == [p \in 0 .. n + 1 |-> IF p = n + 1 THEN step[n + 1][g[n]] ELSE g[p]]
  <2>3. step[n + 1][g[n]] \in S
    <3>1. n + 1 \in 1 .. bound /\ g[n] \in S
      BY <2>2
    <3>2. QED  BY <3>1
  <2>4. h \in [0 .. n + 1 -> S]
    BY <2>2, <2>3
  <2>5. \A p \in 0 .. n : h[p] = g[p]
    OBVIOUS
  <2>6. h[n + 1] = step[n + 1][g[n]]
    OBVIOUS
  <2> HIDE DEF h
  <2>7. ASSUME NEW p \in 1 .. n + 1
        PROVE  h[p] = step[p][h[p - 1]]
    <3>1. CASE p = n + 1
      BY <3>1, <2>5, <2>6
    <3>2. CASE p # n + 1
      <4>1. p \in 1 .. n /\ p \in 0 .. n /\ p - 1 \in 0 .. n
        BY <3>2
      <4>2. QED  BY <4>1, <2>2, <2>5
    <3>3. QED  BY <3>1, <3>2
  <2>8. h[0] = a
    BY <2>2, <2>5
  <2>9. h \in G(n + 1)
    BY <2>4, <2>7, <2>8 DEF G
  <2>10. QED  BY <2>9
<1>3. bound \in T
  <2> HIDE DEF T
  <2>1. QED  BY <1>1, <1>2, Induction
<1>4. PICK g : g \in G(bound)
  <2> HIDE DEF G
  <2>1. QED  BY <1>3
<1>5. QED  BY <1>4

-----------------------------------------------------------------------------
(* Modes *)

ModeName == {"plain", "comment", "string"}

\* What the definition of the modes says.
LEMMA ModesDefined ==
  ASSUME TextOK
  PROVE  /\ Mode[0] = "plain"
         /\ \A p \in 0 .. Len(source_code) : Mode[p] \in ModeName
         /\ \A p \in 1 .. Len(source_code) : Mode[p] = ModeAfter(Mode[p - 1], At(p - 1))
<1> DEFINE L == Len(source_code)
           first == "plain"
           step == [p \in 1 .. L |-> [mode \in ModeName |-> ModeAfter(mode, source_code[p])]]
<1>1. L \in Nat
  BY DEF TextOK
<1>2. step \in [1 .. L -> [ModeName -> ModeName]]
  BY DEF ModeAfter, ModeName
<1>3. first \in ModeName
  BY DEF ModeName
<1>4. PICK g \in [0 .. L -> ModeName] :
        g[0] = first /\ \A p \in 1 .. L : g[p] = step[p][g[p - 1]]
  <2> HIDE DEF L, first, step
  <2>1. QED  BY <1>1, <1>2, <1>3, Recursion
<1>5. ASSUME NEW p \in 1 .. L
      PROVE  g[p] = ModeAfter(g[p - 1], source_code[p])
  <2>1. g[p - 1] \in ModeName
    BY <1>1, <1>4
  <2>2. QED  BY <1>4, <2>1
<1> DEFINE R(f) == [p \in 0 .. L |-> IF p = 0 THEN "plain" ELSE ModeAfter(f[p - 1], source_code[p])]
<1>6. g = R(g)
  <2>1. ASSUME NEW p \in 0 .. L
        PROVE  g[p] = R(g)[p]
    <3>1. p = 0 \/ p \in 1 .. L
      BY <1>1
    <3> HIDE DEF L, step
    <3>2. QED  BY <3>1, <1>4, <1>5
  <2>2. R(g) = [p \in 0 .. L |-> R(g)[p]]
    OBVIOUS
  <2>3. g = [p \in 0 .. L |-> g[p]]
    BY <1>4
  <2> HIDE DEF R, L
  <2>4. QED  BY <2>1, <2>2, <2>3, Zenon
<1>7. Mode = R(Mode)
  <2>1. Mode = CHOOSE f : f = R(f)
    BY Zenon DEF Mode
  <2> HIDE DEF R
  <2>2. QED  BY <1>6, <2>1, Zenon
<1>8. \A p \in 0 .. L : Mode[p] = g[p]
  <2> DEFINE T == {n \in Nat : n <= L => Mode[n] = g[n]}
  <2>1. ASSUME NEW p \in 0 .. L
        PROVE  Mode[p] = IF p = 0 THEN "plain" ELSE ModeAfter(Mode[p - 1], source_code[p])
    <3> HIDE DEF L
    <3>1. Mode[p] = R(Mode)[p]
      BY <1>7, Zenon
    <3>2. QED  BY <3>1, Zenon
  <2>2. 0 \in T
    BY <1>1, <1>4, <2>1
  <2>3. ASSUME NEW n \in Nat, n \in T
        PROVE  n + 1 \in T
    <3> SUFFICES ASSUME n + 1 <= L PROVE Mode[n + 1] = g[n + 1]
      OBVIOUS
    <3>1. Mode[n] = g[n] /\ n + 1 \in 1 .. L /\ n + 1 \in 0 .. L /\ (n + 1) - 1 = n /\ n + 1 # 0
      BY <1>1, <2>3
    <3> HIDE DEF L, T, step
    <3>2. Mode[n + 1] = ModeAfter(Mode[(n + 1) - 1], source_code[n + 1])
      BY <2>1, <3>1, Zenon
    <3>3. g[n + 1] = ModeAfter(g[(n + 1) - 1], source_code[n + 1])
      BY <1>5, <3>1, Zenon
    <3>4. QED  BY <3>1, <3>2, <3>3, Zenon
  <2>4. \A n \in Nat : n \in T
    <3> HIDE DEF T
    <3>1. QED  BY <2>2, <2>3, Induction
  <2>5. QED  BY <1>1, <2>4
<1>9. \A p \in 1 .. L : At(p - 1) = source_code[p]
  BY <1>1 DEF At, CharAt
<1>10. \A p \in 1 .. L : p \in 0 .. L /\ p - 1 \in 0 .. L
  BY <1>1
<1> HIDE DEF L, step, R
<1>11. /\ Mode[0] = "plain"
       /\ \A p \in 0 .. L : Mode[p] \in ModeName
  <2>1. 0 \in 0 .. L
    BY <1>1
  <2>2. QED  BY <1>4, <1>8, <2>1 DEF first
<1>12. \A p \in 1 .. L : Mode[p] = ModeAfter(Mode[p - 1], At(p - 1))
  BY <1>5, <1>8, <1>9, <1>10, Zenon
<1>13. QED  BY <1>11, <1>12 DEF L

\* A mode that none of the characters from a to b changes lasts over them.
LEMMA ModeLasts ==
  ASSUME TextOK, NEW a \in 0 .. Len(source_code), NEW b \in a .. Len(source_code),
         \A r \in a .. b - 1 : ModeAfter(Mode[a], At(r)) = Mode[a]
  PROVE  \A r \in a .. b : Mode[r] = Mode[a]
<1> DEFINE m == Mode[a]
           T == {n \in Nat : a + n <= b => Mode[a + n] = m}
<1>1. a \in Nat /\ b \in Nat /\ Len(source_code) \in Nat /\ b <= Len(source_code)
  BY DEF TextOK
<1>2. 0 \in T
  <2>1. a + 0 = a
    BY <1>1
  <2>2. QED  BY <2>1
<1>3. ASSUME NEW n \in Nat, n \in T
      PROVE  n + 1 \in T
  <2> SUFFICES ASSUME a + (n + 1) <= b PROVE Mode[a + (n + 1)] = m
    OBVIOUS
  <2> DEFINE q == a + (n + 1)
  <2>1. Mode[q - 1] = m /\ q - 1 \in a .. b - 1 /\ q \in 1 .. Len(source_code)
    <3>1. q - 1 = a + n /\ a + n <= b
      BY <1>1
    <3>2. Mode[a + n] = m
      BY <1>3, <3>1
    <3>3. QED  BY <1>1, <3>1, <3>2
  <2> HIDE DEF q, T
  <2>2. Mode[q] = ModeAfter(Mode[q - 1], At(q - 1))
    BY <2>1, ModesDefined
  <2>3. ModeAfter(m, At(q - 1)) = m
    BY <2>1
  <2> HIDE DEF m
  <2>4. QED  BY <2>1, <2>2, <2>3 DEF q
<1>4. \A n \in Nat : n \in T
  <2> HIDE DEF T
  <2>1. QED  BY <1>2, <1>3, Induction
<1>5. ASSUME NEW r \in a .. b
      PROVE  Mode[r] = m
  <2>1. r - a \in Nat /\ a + (r - a) = r /\ r <= b
    BY <1>1
  <2>2. QED  BY <1>4, <2>1
<1>6. QED  BY <1>5

-----------------------------------------------------------------------------
(* Lines and columns *)

\* A set of numbers up to a bound has a greatest one.
LEMMA GreatestNumber ==
  ASSUME NEW T, T \subseteq Nat, T # {}, NEW bound \in Nat, \A x \in T : x <= bound
  PROVE  Max(T) \in T /\ \A x \in T : x <= Max(T)
<1> DEFINE U == {y \in Nat : y <= bound /\ bound - y \in T}
<1>1. U \subseteq Nat /\ U # {}
  <2>1. PICK x \in T : TRUE
    OBVIOUS
  <2>2. bound - x \in Nat /\ bound - (bound - x) = x
    BY <2>1
  <2>3. bound - x \in U
    BY <2>2, <2>1
  <2>4. QED  BY <2>3
<1>2. PICK y \in U : \A z \in U : y <= z
  <2> HIDE DEF U
  <2>1. QED  BY <1>1, LeastNumber
<1>3. bound - y \in T
  BY <1>2
<1>4. ASSUME NEW x \in T
      PROVE  bound - y >= x
  <2>1. x \in Nat /\ x <= bound /\ bound - x \in Nat /\ bound - (bound - x) = x
    OBVIOUS
  <2>2. bound - x \in U
    BY <2>1
  <2>3. QED  BY <1>2, <2>1, <2>2
<1>5. \E g \in T : \A x \in T : g >= x
  BY <1>3, <1>4
<1>6. Max(T) \in T /\ \A x \in T : Max(T) >= x
  BY <1>5, Zenon DEF Max
<1>7. QED  BY <1>6

Newlines(p) == {r \in 0 .. p - 1 : At(r) = "eol"}

\* The line of a place is one more than the newlines before it.
LEMMA LinesCounted ==
  ASSUME NEW p \in Nat
  PROVE  /\ IsFiniteSet(Newlines(p)) /\ Cardinality(Newlines(p)) \in Nat
         /\ LineOf(p) = 1 + Cardinality(Newlines(p))
<1> DEFINE Counted(n) == /\ IsFiniteSet(LineStarts(n)) /\ IsFiniteSet(Newlines(n))
                         /\ Cardinality(LineStarts(n)) = 1 + Cardinality(Newlines(n))
           T == {n \in Nat : Counted(n)}
<1>1. 0 \in T
  <2>1. LineStarts(0) = {0}
    BY DEF LineStarts
  <2>2. Newlines(0) = {}
    BY DEF Newlines
  <2>3. IsFiniteSet(LineStarts(0)) /\ Cardinality(LineStarts(0)) = 1
    BY <2>1, FS_Singleton
  <2>4. IsFiniteSet(Newlines(0)) /\ Cardinality(Newlines(0)) = 0
    BY <2>2, FS_EmptySet
  <2>5. QED  BY <2>3, <2>4
<1>2. ASSUME NEW n \in Nat, n \in T
      PROVE  n + 1 \in T
  <2>0. Counted(n)
    BY <1>2
  <2> SUFFICES Counted(n + 1)
    OBVIOUS
  <2>1. CASE At(n) = "eol"
    <3>1. LineStarts(n + 1) = LineStarts(n) \union {n + 1} /\ n + 1 \notin LineStarts(n)
      BY <2>1 DEF LineStarts
    <3>2. Newlines(n + 1) = Newlines(n) \union {n} /\ n \notin Newlines(n)
      BY <2>1 DEF Newlines
    <3>3. Cardinality(Newlines(n)) \in Nat
      BY <2>0, FS_CardinalityType
    <3>4. /\ IsFiniteSet(LineStarts(n) \union {n + 1})
          /\ Cardinality(LineStarts(n) \union {n + 1}) = Cardinality(LineStarts(n)) + 1
      BY <2>0, <3>1, FS_AddElement
    <3>5. /\ IsFiniteSet(Newlines(n) \union {n})
          /\ Cardinality(Newlines(n) \union {n}) = Cardinality(Newlines(n)) + 1
      BY <2>0, <3>2, FS_AddElement
    <3>6. /\ IsFiniteSet(LineStarts(n + 1)) /\ IsFiniteSet(Newlines(n + 1))
          /\ Cardinality(LineStarts(n + 1)) = Cardinality(LineStarts(n)) + 1
          /\ Cardinality(Newlines(n + 1)) = Cardinality(Newlines(n)) + 1
      BY <3>1, <3>2, <3>4, <3>5, Zenon
    <3>7. QED  BY <2>0, <3>3, <3>6
  <2>2. CASE At(n) # "eol"
    <3>1. LineStarts(n + 1) = LineStarts(n)
      BY <2>2 DEF LineStarts
    <3>2. Newlines(n + 1) = Newlines(n)
      BY <2>2 DEF Newlines
    <3>3. QED  BY <2>0, <3>1, <3>2
  <2>3. QED  BY <2>1, <2>2
<1>3. \A n \in Nat : n \in T
  <2> HIDE DEF T
  <2>1. QED  BY <1>1, <1>2, Induction
<1>4. Counted(p)
  BY <1>3
<1>5. QED  BY <1>4, FS_CardinalityType DEF LineOf

\* The line that a place is in begins at the last place behind a newline.
LineStart(p) == Max(LineStarts(p))

LEMMA LineBegins ==
  ASSUME NEW p \in Nat
  PROVE  /\ LineStart(p) \in 0 .. p /\ ColumnOf(p) = p - LineStart(p)
         /\ LineStart(p) = 0 \/ At(LineStart(p) - 1) = "eol"
         /\ \A r \in LineStart(p) .. p - 1 : At(r) # "eol"
<1>1. LineStarts(p) \subseteq Nat /\ 0 \in LineStarts(p) /\ \A x \in LineStarts(p) : x <= p
  BY DEF LineStarts
<1>2. LineStart(p) \in LineStarts(p) /\ \A x \in LineStarts(p) : x <= LineStart(p)
  BY <1>1, GreatestNumber DEF LineStart
<1>3. LineStart(p) \in 0 .. p /\ (LineStart(p) = 0 \/ At(LineStart(p) - 1) = "eol")
  BY <1>2 DEF LineStarts
<1>4. ASSUME NEW r \in LineStart(p) .. p - 1, At(r) = "eol"
      PROVE  FALSE
  <2>1. r + 1 \in 0 .. p /\ (r + 1) - 1 = r
    BY <1>3
  <2>2. r + 1 \in LineStarts(p)
    BY <2>1, <1>4 DEF LineStarts
  <2>3. QED  BY <1>2, <1>3, <2>2
<1>5. QED  BY <1>3, <1>4 DEF ColumnOf, LineStart

\* There is one such place.
LEMMA LineBegin ==
  ASSUME NEW p \in Nat, NEW s \in 0 .. p, s = 0 \/ At(s - 1) = "eol",
         \A r \in s .. p - 1 : At(r) # "eol"
  PROVE  LineStart(p) = s
<1> DEFINE t == LineStart(p)
<1>1. /\ t = 0 \/ At(t - 1) = "eol"
      /\ \A r \in t .. p - 1 : At(r) # "eol"
  BY LineBegins
<1>2. t \in 0 .. p
  BY LineBegins
<1> HIDE DEF t
<1>3. ~(s < t)
  <2> SUFFICES ASSUME s < t PROVE FALSE
    OBVIOUS
  <2>1. t - 1 \in s .. p - 1 /\ t # 0
    BY <1>2
  <2>2. QED  BY <1>1, <2>1
<1>4. ~(t < s)
  <2> SUFFICES ASSUME t < s PROVE FALSE
    OBVIOUS
  <2>1. s - 1 \in t .. p - 1 /\ s # 0
    BY <1>2
  <2>2. QED  BY <1>1, <2>1
<1>5. QED  BY <1>2, <1>3, <1>4 DEF t

-----------------------------------------------------------------------------
(* What is true of the text *)

Lines == [p \in 0 .. Len(source_code) |-> LineOf(p)]
Columns == [p \in 0 .. Len(source_code) |-> ColumnOf(p)]
Silents == {p \in 0 .. Len(source_code) - 1 : Silent(p)}
Faults == {p \in 0 .. Len(source_code) - 1 : Fault(p)}

\* What is true of a token, wherever the lexer is.
TokenTrue(token) ==
  /\ token.index \in 0 .. Len(source_code) - 1
  /\ End(token) \in token.index + 1 .. Len(source_code)
  /\ token.type # "eoft" =>
       token.string = SubSeq(source_code, token.index + 1, End(token))
  /\ token.line = Lines[token.index]
  /\ token.type = "error" <=> token.index \in Faults
  /\ At(token.index) # "quote" =>
       /\ token.index_in_line = Columns[token.index]
       /\ \A p \in token.index + 1 .. End(token) - 1 : At(p) \in Extends(token)
       /\ At(End(token)) \notin Extends(token)

\* And of an error.
ErrorTrue(error) ==
  /\ error.index \in Faults
  /\ error.line = Lines[error.index]
  /\ At(error.index) # "quote" => error.column = Columns[error.index]

PlaceInv == line_number = Lines[index] /\ column = Columns[index]

\* Between two tokens the text is neither in a string nor, but for its newline,
\* in a comment.
PlainAt(p) ==
  /\ At(p) \in Char \ {"eol", "eof"} => Mode[p] = "plain"
  /\ At(p) = "eol" => Mode[p] \in {"plain", "comment"}

Held(token) == token.index .. End(token) - 1

TokensInv ==
  /\ \A k \in 1 .. Len(token_list) :
       TokenTrue(token_list[k]) /\ End(token_list[k]) <= index
  /\ \A j, k \in 1 .. Len(token_list) :
       j < k => End(token_list[j]) <= token_list[k].index
  /\ \A p \in 0 .. index - 1 :
       p \in Silents <=> \A k \in 1 .. Len(token_list) : p \notin Held(token_list[k])

ErrorsInv ==
  /\ \A k \in 1 .. Len(error_list) :
       ErrorTrue(error_list[k]) /\ error_list[k].index < index
  /\ \A j, k \in 1 .. Len(error_list) : j < k => error_list[j].index < error_list[k].index
  /\ \A p \in 0 .. index - 1 :
       p \in Faults => \E k \in 1 .. Len(error_list) : error_list[k].index = p

ReadInv == PlaceInv /\ PlainAt(index) /\ TokensInv /\ ErrorsInv

\* As long as the text stays, what is true of it stays true.
LEMMA SameText ==
  ASSUME source_code' = source_code
  PROVE  /\ Lines' = Lines /\ Columns' = Columns /\ Silents' = Silents
         /\ Faults' = Faults /\ Mode' = Mode
<1>1. Mode' = Mode
  BY Zenon DEF Mode
<1>2. Lines' = Lines
  BY Zenon DEF Lines, LineOf, LineStarts, At
<1>3. Columns' = Columns
  BY Zenon DEF Columns, ColumnOf, LineStarts, At
<1>4. Silents' = Silents
  BY <1>1, Zenon DEF Silents, Silent, At
<1>5. Faults' = Faults
  BY <1>1, Zenon DEF Faults, Fault, At, Past
<1>6. QED  BY <1>1, <1>2, <1>3, <1>4, <1>5

LEMMA TokenStaysTrue ==
  ASSUME source_code' = source_code, NEW k, NEW j, TokenTrue(token_list[k]),
         token_list'[j] = token_list[k]
  PROVE  TokenTrue(token_list[j])'
<1>1. Lines' = Lines /\ Columns' = Columns /\ Faults' = Faults
  BY SameText
<1>2. QED  BY <1>1, Zenon DEF TokenTrue, At, End, Width, Extends

\* What a place is in the text, as its line and column say.
LEMMA PlaceOf ==
  ASSUME TextOK, NEW p \in 0 .. Len(source_code)
  PROVE  /\ Lines[p] = LineOf(p) /\ Lines[p] = 1 + Cardinality(Newlines(p))
         /\ IsFiniteSet(Newlines(p)) /\ Cardinality(Newlines(p)) \in Nat
         /\ Columns[p] = ColumnOf(p) /\ Columns[p] = p - LineStart(p)
         /\ p \in Nat
<1>1. p \in Nat
  BY DEF TextOK
<1>2. Lines[p] = LineOf(p) /\ Columns[p] = ColumnOf(p)
  BY DEF Lines, Columns
<1>3. QED  BY <1>1, <1>2, LinesCounted, LineBegins

\* The line and the column are true wherever the lexer advances to.
LEMMA PlaceKept ==
  ASSUME TextOK, PlaceInv, NEW p \in index .. Len(source_code), AdvanceTo(p),
         source_code' = source_code
  PROVE  PlaceInv'
<1> DEFINE new == {q \in index .. p - 1 : At(q) = "eol"}
           col == IF new = {} THEN column + p - index ELSE p - Max(new) - 1
<1>1. /\ index \in Nat /\ p \in Nat /\ index <= p
      /\ index \in 0 .. Len(source_code) /\ p \in 0 .. Len(source_code)
  BY DEF TextOK
<1>2. /\ index' = p /\ line_number' = line_number + Cardinality(new)
      /\ column' = col
  BY Zenon DEF AdvanceTo
<1>3. new \subseteq Nat /\ (\A q \in new : q <= p) /\ IsFiniteSet(new)
  <2>1. new \in SUBSET Nat /\ (\A q \in new : q <= p)
    BY <1>1
  <2> HIDE DEF new
  <2>2. QED  BY <1>1, <2>1, FS_BoundedSetOfNaturals
<1>4. Newlines(p) = Newlines(index) \union new /\ Newlines(index) \intersect new = {}
  BY <1>1 DEF Newlines
<1> HIDE DEF new, col
<1>5. Lines[p] = Lines[index] + Cardinality(new)
  <2>1. IsFiniteSet(Newlines(index)) /\ Cardinality(Newlines(index)) \in Nat
        /\ Lines[index] = 1 + Cardinality(Newlines(index))
        /\ Lines[p] = 1 + Cardinality(Newlines(p))
    BY <1>1, PlaceOf
  <2>2. Cardinality(Newlines(index) \union new)
          = Cardinality(Newlines(index)) + Cardinality(new) - Cardinality({})
    BY <1>3, <1>4, <2>1, FS_Union
  <2>3. Cardinality(new) \in Nat /\ Cardinality({}) = 0
    BY <1>3, FS_CardinalityType, FS_EmptySet
  <2>4. QED  BY <1>4, <2>1, <2>2, <2>3
<1>6. col = Columns[p]
  <2> DEFINE s == LineStart(index)
  <2>1. /\ s \in 0 .. index /\ (s = 0 \/ At(s - 1) = "eol")
        /\ \A r \in s .. index - 1 : At(r) # "eol"
    BY <1>1, LineBegins
  <2>2. Columns[p] = p - LineStart(p) /\ column = index - s
    BY <1>1, PlaceOf DEF PlaceInv
  <2> HIDE DEF s
  <2>3. CASE new = {}
    <3>1. \A r \in s .. p - 1 : At(r) # "eol"
      <4>1. \A r \in s .. p - 1 : r \in s .. index - 1 \/ r \in index .. p - 1
        BY <1>1, <2>1
      <4>2. \A r \in index .. p - 1 : At(r) # "eol"
        BY <2>3 DEF new
      <4>3. QED  BY <2>1, <4>1, <4>2
    <3>2. s \in 0 .. p
      BY <1>1, <2>1
    <3>3. LineStart(p) = s
      BY <1>1, <2>1, <3>1, <3>2, LineBegin
    <3>4. QED  BY <1>1, <2>1, <2>2, <2>3, <3>3 DEF col
  <2>4. CASE new # {}
    <3> DEFINE m == Max(new)
    <3>1. m \in new /\ \A q \in new : q <= m
      BY <1>1, <1>3, <2>4, GreatestNumber
    <3> HIDE DEF m
    <3>2. m \in index .. p - 1 /\ At(m) = "eol"
      BY <3>1 DEF new
    <3>3. \A r \in m + 1 .. p - 1 : At(r) # "eol"
      <4> SUFFICES ASSUME NEW r \in m + 1 .. p - 1, At(r) = "eol" PROVE FALSE
        OBVIOUS
      <4>1. r \in new
        BY <1>1, <3>2 DEF new
      <4>2. QED  BY <3>1, <3>2, <4>1
    <3>4. m + 1 \in 0 .. p /\ (m + 1) - 1 = m
      BY <1>1, <3>2
    <3>5. LineStart(p) = m + 1
      BY <1>1, <3>2, <3>3, <3>4, LineBegin
    <3>6. col = p - m - 1
      BY <2>4 DEF col, m
    <3>7. QED  BY <1>1, <2>2, <3>2, <3>5, <3>6
  <2>5. QED  BY <2>3, <2>4
<1>7. Lines' = Lines /\ Columns' = Columns
  BY SameText
<1>8. QED  BY <1>2, <1>5, <1>6, <1>7 DEF PlaceInv

\* A token that is true of the text is true when it has been added.
LEMMA TokenMadeTrue ==
  ASSUME source_code' = source_code, NEW token, NEW j, TokenTrue(token),
         token_list'[j] = token
  PROVE  TokenTrue(token_list[j])'
<1>1. Lines' = Lines /\ Columns' = Columns /\ Faults' = Faults
  BY SameText
<1>2. QED  BY <1>1, Zenon DEF TokenTrue, At, End, Width, Extends

-----------------------------------------------------------------------------
(* What a step of the lexer reads *)

\* The characters up to p become nothing, or one token.
TokenStep(p) ==
  \/ token_list' = token_list /\ \A r \in index .. p - 1 : r \in Silents
  \/ \E token :
       /\ token_list' = Append(token_list, token)
       /\ TokenTrue(token) /\ token.index = index /\ End(token) = p
       /\ \A r \in index .. p - 1 : r \notin Silents

\* Only the first of them can be at fault.
ErrorStep(p) ==
  /\ \A r \in index + 1 .. p - 1 : r \notin Faults
  /\ \/ error_list' = error_list /\ index \notin Faults
     \/ \E error :
          /\ error_list' = Append(error_list, error)
          /\ ErrorTrue(error) /\ error.index = index

Step(p) ==
  /\ p \in index + 1 .. Len(source_code)
  /\ AdvanceTo(p)
  /\ TokenStep(p) /\ ErrorStep(p) /\ PlainAt(p)

LEMMA TokensKept ==
  ASSUME IInv, TokensInv, NEW p \in index + 1 .. Len(source_code),
         source_code' = source_code, index' = p, TokenStep(p)
  PROVE  TokensInv'
<1>1. index \in Nat /\ p \in Nat /\ Len(source_code) \in Nat /\ index < p
  BY DEF IInv, TextOK
<1>2. Silents' = Silents
  BY SameText
<1>3. ASSUME NEW k \in 1 .. Len(token_list)
      PROVE  /\ TokenTrue(token_list[k]) /\ End(token_list[k]) <= index
             /\ token_list[k].index \in Nat /\ End(token_list[k]) \in Nat
  BY <1>1 DEF TokensInv, TokenTrue
<1>4. CASE token_list' = token_list /\ \A r \in index .. p - 1 : r \in Silents
  <2>1. ASSUME NEW k \in 1 .. Len(token_list')
        PROVE  TokenTrue(token_list[k])' /\ End(token_list[k])' <= index'
    <3>1. k \in 1 .. Len(token_list) /\ token_list'[k] = token_list[k]
      BY <1>4
    <3>2. TokenTrue(token_list[k])'
      BY <1>3, <3>1, TokenStaysTrue
    <3>3. End(token_list[k])' = End(token_list[k])
      BY <3>1, Zenon DEF End, Width
    <3>4. QED  BY <1>1, <1>3, <3>1, <3>2, <3>3
  <2>2. \A j, k \in 1 .. Len(token_list') :
          j < k => End(token_list[j])' <= token_list'[k].index
    BY <1>4 DEF TokensInv, End, Width
  <2>3. ASSUME NEW q \in 0 .. index' - 1
        PROVE  q \in Silents' <=>
                 \A k \in 1 .. Len(token_list') : q \notin Held(token_list[k])'
    <3>1. CASE q < index
      <4>1. q \in 0 .. index - 1
        BY <1>1, <3>1
      <4>2. QED  BY <1>2, <1>4, <4>1, Zenon DEF TokensInv, Held, End, Width
    <3>2. CASE q >= index
      <4>1. q \in Silents
        BY <1>1, <1>4, <3>2
      <4>2. ASSUME NEW k \in 1 .. Len(token_list)
            PROVE  q \notin Held(token_list[k])
        BY <1>1, <1>3, <3>2 DEF Held
      <4>3. QED  BY <1>2, <1>4, <4>1, <4>2, Zenon DEF Held, End, Width
    <3>3. QED  BY <1>1, <3>1, <3>2
  <2>4. QED  BY <2>1, <2>2, <2>3, Zenon DEF TokensInv
<1>5. ASSUME NEW token, token_list' = Append(token_list, token), TokenTrue(token),
             token.index = index, End(token) = p,
             \A r \in index .. p - 1 : r \notin Silents
      PROVE  TokensInv'
  <2>0. PICK n : n = Len(token_list)
    OBVIOUS
  <2>1. /\ n \in Nat /\ Len(token_list') = n + 1 /\ token_list'[n + 1] = token
        /\ \A k \in 1 .. n : token_list'[k] = token_list[k]
    BY <1>5, <2>0, Appended DEF IInv, TokensFit
  <2>2. ASSUME NEW k \in 1 .. n
        PROVE  /\ TokenTrue(token_list[k])' /\ End(token_list[k])' = End(token_list[k])
               /\ Held(token_list[k])' = Held(token_list[k])
    <3>1. token_list'[k] = token_list[k]
      BY <2>1
    <3>2. TokenTrue(token_list[k])'
      BY <1>3, <2>0, <3>1, TokenStaysTrue
    <3>3. QED  BY <3>1, <3>2, Zenon DEF End, Width, Held
  <2>3. /\ TokenTrue(token_list[n + 1])' /\ End(token_list[n + 1])' = p
        /\ Held(token_list[n + 1])' = index .. p - 1
    <3>1. TokenTrue(token_list[n + 1])'
      BY <1>5, <2>1, TokenMadeTrue
    <3>2. End(token_list[n + 1])' = End(token)
      BY <2>1, Zenon DEF End, Width
    <3>3. Held(token_list[n + 1])' = token.index .. End(token) - 1
      BY <2>1, <3>2, Zenon DEF Held
    <3>4. QED  BY <1>5, <3>1, <3>2, <3>3
  <2>4. \A k \in 1 .. n + 1 : k \in 1 .. n \/ k = n + 1
    BY <2>1
  <2>5. ASSUME NEW k \in 1 .. Len(token_list')
        PROVE  TokenTrue(token_list[k])' /\ End(token_list[k])' <= index'
    <3>1. CASE k \in 1 .. n
      BY <1>1, <1>3, <2>0, <2>2, <3>1
    <3>2. CASE k = n + 1
      BY <1>1, <2>3, <3>2
    <3>3. QED  BY <2>1, <2>4, <3>1, <3>2
  <2>6. ASSUME NEW j \in 1 .. Len(token_list'), NEW k \in 1 .. Len(token_list'), j < k
        PROVE  End(token_list[j])' <= token_list'[k].index
    <3>1. j \in 1 .. n
      BY <2>1, <2>6
    <3>2. CASE k \in 1 .. n
      <4>1. End(token_list[j]) <= token_list[k].index
        BY <2>0, <2>6, <3>1, <3>2 DEF TokensInv
      <4>2. QED  BY <2>1, <2>2, <3>1, <3>2, <4>1
    <3>3. CASE k = n + 1
      BY <1>3, <1>5, <2>0, <2>1, <2>2, <3>1, <3>3
    <3>4. QED  BY <2>1, <2>4, <3>2, <3>3
  <2>7. ASSUME NEW q \in 0 .. index' - 1
        PROVE  q \in Silents' <=>
                 \A k \in 1 .. Len(token_list') : q \notin Held(token_list[k])'
    <3>1. CASE q < index
      <4>1. q \in 0 .. index - 1 /\ q \notin index .. p - 1
        BY <1>1, <3>1
      <4>2. q \in Silents <=> \A k \in 1 .. n : q \notin Held(token_list[k])
        BY <2>0, <4>1 DEF TokensInv
      <4>3. 1 .. Len(token_list') = (1 .. n) \union {n + 1}
        BY <2>1
      <4>4. q \notin Held(token_list[n + 1])'
        BY <2>3, <4>1
      <4>5. \A k \in 1 .. n : Held(token_list[k])' = Held(token_list[k])
        BY <2>2, Zenon
      <4>6. QED  BY <1>2, <4>2, <4>3, <4>4, <4>5, Zenon
    <3>2. CASE q >= index
      <4>1. q \in index .. p - 1 /\ q \notin Silents
        BY <1>1, <1>5, <3>2
      <4>2. n + 1 \in 1 .. Len(token_list') /\ q \in Held(token_list[n + 1])'
        BY <2>1, <2>3, <4>1
      <4>3. QED  BY <1>2, <4>1, <4>2
    <3>3. QED  BY <1>1, <3>1, <3>2
  <2>8. QED  BY <2>5, <2>6, <2>7, Zenon DEF TokensInv
<1>6. QED  BY <1>4, <1>5 DEF TokenStep

LEMMA ErrorsKept ==
  ASSUME IInv, ErrorsInv, NEW p \in index + 1 .. Len(source_code),
         source_code' = source_code, index' = p, ErrorStep(p)
  PROVE  ErrorsInv'
<1>1. index \in Nat /\ p \in Nat /\ Len(source_code) \in Nat /\ index < p
  BY DEF IInv, TextOK
<1>2. Faults' = Faults /\ Lines' = Lines /\ Columns' = Columns
  BY SameText
<1>3. Faults \subseteq Nat
  BY <1>1 DEF Faults
<1>4. CASE error_list' = error_list /\ index \notin Faults
  <2>1. ASSUME NEW q \in 0 .. index' - 1, q \in Faults'
        PROVE  \E k \in 1 .. Len(error_list') : error_list'[k].index = q
    <3>1. q \in 0 .. index - 1
      BY <1>1, <1>2, <1>4, <2>1 DEF ErrorStep
    <3>2. QED  BY <1>2, <1>4, <2>1, <3>1 DEF ErrorsInv
  <2>2. \A k \in 1 .. Len(error_list') : ErrorTrue(error_list[k])' /\ error_list'[k].index < index'
    <3> SUFFICES ASSUME NEW k \in 1 .. Len(error_list')
                 PROVE  ErrorTrue(error_list[k])' /\ error_list'[k].index < index'
      OBVIOUS
    <3>1. ErrorTrue(error_list[k]) /\ error_list[k].index < index
      BY <1>4 DEF ErrorsInv
    <3>2. error_list[k].index \in Nat
      BY <1>3, <3>1 DEF ErrorTrue
    <3>3. ErrorTrue(error_list[k])'
      BY <1>2, <1>4, <3>1, Zenon DEF ErrorTrue, At
    <3>4. QED  BY <1>1, <1>4, <3>1, <3>2, <3>3
  <2>3. QED  BY <1>4, <2>1, <2>2 DEF ErrorsInv
<1>5. ASSUME NEW error, error_list' = Append(error_list, error), ErrorTrue(error),
             error.index = index
      PROVE  ErrorsInv'
  <2>0. PICK n : n = Len(error_list)
    OBVIOUS
  <2>1. /\ n \in Nat /\ Len(error_list') = n + 1 /\ error_list'[n + 1] = error
        /\ \A k \in 1 .. n : error_list'[k] = error_list[k]
    BY <1>5, <2>0, Appended DEF IInv
  <2>2. \A k \in 1 .. n + 1 : k \in 1 .. n \/ k = n + 1
    BY <2>1
  <2>3. ASSUME NEW k \in 1 .. n
        PROVE  /\ ErrorTrue(error_list[k])' /\ error_list[k].index < index
               /\ error_list[k].index \in Nat
    <3>1. ErrorTrue(error_list[k]) /\ error_list[k].index < index
      BY <2>0 DEF ErrorsInv
    <3>2. error_list'[k] = error_list[k]
      BY <2>1
    <3>3. ErrorTrue(error_list[k])'
      BY <1>2, <3>1, <3>2, Zenon DEF ErrorTrue, At
    <3>4. QED  BY <1>3, <3>1, <3>3 DEF ErrorTrue
  <2>4. ErrorTrue(error_list[n + 1])'
    BY <1>2, <1>5, <2>1, Zenon DEF ErrorTrue, At
  <2>5. \A j, k \in 1 .. n : j < k => error_list[j].index < error_list[k].index
    BY <2>0 DEF ErrorsInv
  <2>6. \A q \in 0 .. index - 1 : q \in Faults => \E k \in 1 .. n : error_list[k].index = q
    BY <2>0 DEF ErrorsInv
  <2>7. \A k \in 1 .. Len(error_list') : ErrorTrue(error_list[k])' /\ error_list'[k].index < index'
    <3> SUFFICES ASSUME NEW k \in 1 .. Len(error_list')
                 PROVE  ErrorTrue(error_list[k])' /\ error_list'[k].index < index'
      OBVIOUS
    <3>1. CASE k \in 1 .. n
      BY <1>1, <2>1, <2>3, <3>1
    <3>2. CASE k = n + 1
      BY <1>1, <1>5, <2>1, <2>4, <3>2
    <3>3. QED  BY <2>1, <2>2, <3>1, <3>2
  <2>8. ASSUME NEW j \in 1 .. Len(error_list'), NEW k \in 1 .. Len(error_list'), j < k
        PROVE  error_list'[j].index < error_list'[k].index
    <3>1. j \in 1 .. n
      BY <2>1, <2>8
    <3>2. CASE k \in 1 .. n
      BY <2>1, <2>5, <2>8, <3>1, <3>2
    <3>3. CASE k = n + 1
      BY <1>5, <2>1, <2>3, <3>1, <3>3
    <3>4. QED  BY <2>1, <2>2, <3>2, <3>3
  <2>9. ASSUME NEW q \in 0 .. index' - 1, q \in Faults'
        PROVE  \E k \in 1 .. Len(error_list') : error_list'[k].index = q
    <3>1. CASE q = index
      BY <1>5, <2>1, <3>1
    <3>2. CASE q # index
      <4>1. q \in 0 .. index - 1
        BY <1>1, <1>2, <2>9, <3>2 DEF ErrorStep
      <4>2. PICK k \in 1 .. n : error_list[k].index = q
        BY <1>2, <2>6, <2>9, <4>1
      <4>3. QED  BY <2>1, <4>2
    <3>3. QED  BY <3>1, <3>2
  <2>10. QED  BY <2>7, <2>8, <2>9 DEF ErrorsInv
<1>6. QED  BY <1>4, <1>5 DEF ErrorStep

LEMMA StepKeepsReading ==
  ASSUME IInv, ReadInv, NEW p, Step(p), source_code' = source_code
  PROVE  ReadInv'
<1>1. /\ p \in index + 1 .. Len(source_code) /\ AdvanceTo(p)
      /\ TokenStep(p) /\ ErrorStep(p) /\ PlainAt(p)
  BY DEF Step
<1>2. index \in Nat /\ p \in index .. Len(source_code) /\ index' = p
  BY <1>1 DEF IInv, TextOK, AdvanceTo
<1>3. TokensInv' /\ ErrorsInv'
  BY <1>1, <1>2, TokensKept, ErrorsKept DEF ReadInv
<1>4. PlaceInv'
  BY <1>1, <1>2, PlaceKept DEF IInv, ReadInv
<1>5. PlainAt(index)'
  <2>1. Mode' = Mode
    BY SameText
  <2>2. QED  BY <1>1, <1>2, <2>1, Zenon DEF PlainAt, At
<1>6. QED  BY <1>3, <1>4, <1>5 DEF ReadInv

-----------------------------------------------------------------------------
(* What each action reads *)

\* Letters and digits are told from all else.
LEMMA CharactersApart ==
  /\ Letter \intersect Digit = {}
  /\ \A c \in Letter \union Digit :
       c \notin {",", ":", "#", "*", "+", "-", "blank", "_", ".", ";", "quote", "eol",
                 "eof", "other", "nul"}
BY AlphabetAssumption DEF Separator, Sign, Blank

\* Where the loop stands at a character, it knows what that stands in.
LEMMA Begun ==
  ASSUME IInv, ReadInv, NEW S, "nul" \notin S, Analyzing(S)
  PROVE  /\ At(index) \in S /\ At(index) \in Char /\ source_code' = source_code
         /\ index \in Nat /\ index < Len(source_code) /\ Len(source_code) \in Nat
         /\ index \in 0 .. Len(source_code) /\ index \in 0 .. Len(source_code) - 1
         /\ line_number = Lines[index] /\ column = Columns[index]
         /\ At(index) \notin {"eol", "eof"} => Mode[index] = "plain"
         /\ At(index) = "eol" => Mode[index] \in {"plain", "comment"}
<1>1. /\ At(index) \in S /\ At(index) \in Char /\ UNCHANGED <<source_code, pc, input>>
      /\ index \in Nat /\ index < Len(source_code) /\ Len(source_code) \in Nat
  BY AtCharacter
<1>2. QED  BY <1>1 DEF ReadInv, PlaceInv, PlainAt

\* What a character that is not in a comment or string is.
LEMMA PlainCharacter ==
  ASSUME NEW p \in 0 .. Len(source_code) - 1, Mode[p] = "plain"
  PROVE  /\ p \in Silents <=> At(p) \in Blank \union {";", "other"}
         /\ At(p) \notin {"other", "+", "-", "quote", "."} => p \notin Faults
<1>1. Mode[p] # "comment"
  OBVIOUS
<1>2. p \in Silents <=> At(p) \in Blank \union {";", "other"}
  BY <1>1 DEF Silents, Silent
<1>3. At(p) \notin {"other", "+", "-", "quote", "."} => p \notin Faults
  BY DEF Faults, Fault, Sign
<1>4. QED  BY <1>2, <1>3

\* The modes around a character.
LEMMA ModeNext ==
  ASSUME TextOK, NEW p \in 0 .. Len(source_code) - 1
  PROVE  /\ p \in Nat /\ p + 1 \in 0 .. Len(source_code)
         /\ Mode[p + 1] = ModeAfter(Mode[p], At(p))
<1>1. p \in Nat /\ p + 1 \in 1 .. Len(source_code) /\ (p + 1) - 1 = p
  BY DEF TextOK
<1>2. Mode[p + 1] = ModeAfter(Mode[(p + 1) - 1], At((p + 1) - 1))
  BY <1>1, ModesDefined
<1>3. QED  BY <1>1, <1>2

Opener == {";", "quote"}
WordCharacter == Letter \union Digit \union {"_"}

\* Over a character that opens nothing, and letters, digits and underscores
\* after it, the text is plain, and none of those after it is silent or at fault.
LEMMA PlainRun ==
  ASSUME TextOK, index < Len(source_code), Mode[index] = "plain",
         At(index) \notin Opener,
         NEW p \in index + 1 .. Len(source_code),
         \A r \in index + 1 .. p - 1 : At(r) \in WordCharacter
  PROVE  /\ PlainAt(p)
         /\ \A r \in index + 1 .. p - 1 : r \notin Silents /\ r \notin Faults
<1>1. index \in Nat /\ p \in Nat /\ Len(source_code) \in Nat /\ index < p
      /\ p <= Len(source_code)
  BY DEF TextOK
<1>2. \A r \in index .. p - 1 : At(r) \notin Opener
  <2>1. \A r \in index .. p - 1 : r = index \/ r \in index + 1 .. p - 1
    BY <1>1
  <2>2. \A c \in WordCharacter : c \notin Opener
    BY CharactersApart DEF WordCharacter, Opener
  <2>3. QED  BY <2>1, <2>2, Zenon
<1>3. \A r \in index .. p - 1 : ModeAfter(Mode[index], At(r)) = Mode[index]
  <2> SUFFICES ASSUME NEW r \in index .. p - 1
               PROVE  ModeAfter(Mode[index], At(r)) = Mode[index]
    OBVIOUS
  <2>1. At(r) # ";" /\ At(r) # "quote"
    BY <1>2 DEF Opener
  <2>2. QED  BY <2>1, Zenon DEF ModeAfter
<1>4. index \in 0 .. Len(source_code) /\ p \in index .. Len(source_code)
  BY <1>1
<1>5. \A r \in index .. p : Mode[r] = "plain"
  BY <1>3, <1>4, ModeLasts
<1>6. PlainAt(p)
  BY <1>1, <1>5 DEF PlainAt
<1>7. ASSUME NEW r \in index + 1 .. p - 1
      PROVE  r \notin Silents /\ r \notin Faults
  <2>1. r \in 0 .. Len(source_code) - 1 /\ Mode[r] = "plain"
    BY <1>1, <1>5
  <2>2. At(r) \notin Blank \union {";", "other", "+", "-", "quote", "."}
    BY CharactersApart DEF Blank, WordCharacter
  <2>3. QED  BY <2>1, <2>2, PlainCharacter
<1>8. QED  BY <1>6, <1>7

\* What can make a token longer, by its first character.
LEMMA ExtendsBy ==
  ASSUME NEW token
  PROVE  LET first == At(token.index) IN
         /\ first \in Letter => Extends(token) = Letter \union Digit
         /\ first = "_" => Extends(token) = Letter \union Digit \union {"_"}
         /\ first \in Digit \union Sign => Extends(token) = Digit
         /\ first = "." => Extends(token) = Letter
         /\ first \in Separator \union {"eol", "eof"} => Extends(token) = {}
<1> DEFINE c == At(token.index)
           ext == CASE c \in Letter -> Letter \union Digit
                    [] c = "_" -> Letter \union Digit \union {"_"}
                    [] c \in Digit \union Sign -> Digit
                    [] c = "." -> Letter
                    [] OTHER -> {}
<1>1. Extends(token) = ext
  BY Zenon DEF Extends
<1>2. /\ c \in Letter => c \notin Digit /\ c # "_" /\ c # "." /\ c \notin Sign
      /\ c = "_" => c \notin Letter /\ c \notin Digit /\ c \notin Sign /\ c # "."
      /\ c \in Digit \union Sign => c \notin Letter /\ c # "_" /\ c # "."
      /\ c = "." => c \notin Letter /\ c \notin Digit /\ c \notin Sign /\ c # "_"
      /\ c \in Separator \union {"eol", "eof"} =>
           c \notin Letter /\ c \notin Digit /\ c \notin Sign /\ c # "_" /\ c # "."
  BY CharactersApart DEF Sign, Separator
<1> HIDE DEF c
<1>3. c \in Letter => ext = Letter \union Digit
  BY <1>2, Zenon
<1>4. c = "_" => ext = Letter \union Digit \union {"_"}
  BY <1>2, Zenon
<1>5. c \in Digit \union Sign => ext = Digit
  <2>1. c \in Digit \union Sign <=> c \in Digit \/ c \in Sign
    OBVIOUS
  <2>2. QED  BY <1>2, <2>1, Zenon
<1>6. c = "." => ext = Letter
  BY <1>2, Zenon
<1>7. c \in Separator \union {"eol", "eof"} => ext = {}
  <2>1. c \in Separator \union {"eol", "eof"} => c \notin Digit \union Sign
    BY <1>2
  <2>2. QED  BY <1>2, <2>1, Zenon
<1> HIDE DEF ext
<1>8. QED  BY <1>1, <1>3, <1>4, <1>5, <1>6, <1>7 DEF c

\* A token that holds the text from index to p and has the place of its first
\* character is true, if it is an error exactly for a fault and as long as can be.
LEMMA TokenRight ==
  ASSUME IInv, ReadInv, index < Len(source_code), NEW p \in index + 1 .. Len(source_code),
         NEW token, token.index = index, token.line = line_number,
         token.string = SubSeq(source_code, index + 1, p), token.type # "eoft",
         token.type = "error" <=> index \in Faults,
         At(index) # "quote" =>
           /\ token.index_in_line = column
           /\ \A r \in index + 1 .. p - 1 : At(r) \in Extends(token)
           /\ At(p) \notin Extends(token)
  PROVE  TokenTrue(token) /\ End(token) = p
<1>1. index \in Nat /\ Len(source_code) \in Nat /\ p \in Nat
  BY DEF IInv, TextOK
<1>2. Len(token.string) = p - index
  BY <1>1, Read DEF IInv
<1>3. End(token) = p
  BY <1>1, <1>2 DEF End, Width
<1>4. token.line = Lines[index] /\ column = Columns[index]
  BY DEF ReadInv, PlaceInv
<1>5. index \in 0 .. Len(source_code) - 1
  BY <1>1
<1>6. QED  BY <1>3, <1>4, <1>5 DEF TokenTrue

\* A token's step.
LEMMA TokenStepRight ==
  ASSUME IInv, ReadInv, NEW p \in index + 1 .. Len(source_code),
         NEW token, AddToken(token), token.index = index, TokenTrue(token), End(token) = p,
         index \notin Silents, \A r \in index + 1 .. p - 1 : r \notin Silents
  PROVE  TokenStep(p)
<1>1. index \in Nat /\ p \in Nat
  BY DEF IInv, TextOK
<1>2. \A r \in index .. p - 1 : r = index \/ r \in index + 1 .. p - 1
  BY <1>1
<1>3. \A r \in index .. p - 1 : r \notin Silents
  BY <1>2
<1>4. QED  BY <1>3, Zenon DEF TokenStep, AddToken

\* An error that has the place of the character at index.
LEMMA ErrorStepRight ==
  ASSUME IInv, ReadInv, NEW p, \A r \in index + 1 .. p - 1 : r \notin Faults,
         \/ error_list' = error_list /\ index \notin Faults
         \/ /\ index \in Faults
            /\ \E error : /\ AddError(error) /\ error.index = index
                          /\ error.line = line_number
                          /\ At(index) # "quote" => error.column = column
  PROVE  ErrorStep(p)
<1>1. CASE error_list' = error_list /\ index \notin Faults
  BY <1>1 DEF ErrorStep
<1>2. ASSUME index \in Faults,
             NEW error, AddError(error), error.index = index, error.line = line_number,
             At(index) # "quote" => error.column = column
      PROVE  ErrorStep(p)
  <2>1. ErrorTrue(error)
    BY <1>2 DEF ErrorTrue, ReadInv, PlaceInv
  <2>2. QED  BY <1>2, <2>1 DEF ErrorStep, AddError
<1>3. QED  BY <1>1, <1>2

\* One character that opens nothing and makes no token.
LEMMA SkipsBlank ==
  ASSUME IInv, ReadInv, SkipBlank
  PROVE  Step(index + 1)
<1>1. Analyzing(Blank) /\ "nul" \notin Blank /\ AdvanceTo(index + 1)
      /\ token_list' = token_list /\ error_list' = error_list
  BY DEF SkipBlank, Blank
<1>2. /\ At(index) = "blank" /\ index \in Nat /\ index < Len(source_code)
      /\ Len(source_code) \in Nat /\ index \in 0 .. Len(source_code) - 1
      /\ Mode[index] = "plain"
  BY <1>1, Begun DEF Blank
<1>3. index \in Silents /\ index \notin Faults
  BY <1>2, PlainCharacter DEF Blank
<1>4. At(index) \notin Opener /\ index + 1 \in index + 1 .. Len(source_code)
      /\ \A r \in index + 1 .. (index + 1) - 1 : FALSE
  BY <1>2 DEF Opener
<1>5. PlainAt(index + 1)
  BY <1>2, <1>4, PlainRun DEF IInv
<1>6. TokenStep(index + 1)
  <2>1. \A r \in index .. (index + 1) - 1 : r = index
    BY <1>2
  <2>2. QED  BY <1>1, <1>3, <2>1 DEF TokenStep
<1>7. ErrorStep(index + 1)
  BY <1>1, <1>3, <1>4, ErrorStepRight
<1>8. QED  BY <1>1, <1>4, <1>5, <1>6, <1>7 DEF Step

LEMMA SkipsUnknown ==
  ASSUME IInv, ReadInv, UnknownChar
  PROVE  Step(index + 1)
<1> DEFINE error == CharError(index, column, line_number)
<1>1. Analyzing({"other"}) /\ "nul" \notin {"other"} /\ AdvanceTo(index + 1)
      /\ token_list' = token_list /\ AddError(error)
  BY DEF UnknownChar
<1>2. error.index = index /\ error.line = line_number /\ error.column = column
  BY DEF CharError
<1> HIDE DEF error
<1>3. /\ At(index) = "other" /\ index \in Nat /\ index < Len(source_code)
      /\ Len(source_code) \in Nat /\ index \in 0 .. Len(source_code) - 1
      /\ Mode[index] = "plain"
  BY <1>1, Begun
<1>4. index \in Silents /\ index \in Faults
  <2>1. index \in Silents
    BY <1>3, PlainCharacter
  <2>2. QED  BY <1>3, <2>1 DEF Faults, Fault
<1>5. At(index) \notin Opener /\ index + 1 \in index + 1 .. Len(source_code)
      /\ \A r \in index + 1 .. (index + 1) - 1 : FALSE
  BY <1>3 DEF Opener
<1>6. PlainAt(index + 1)
  BY <1>3, <1>5, PlainRun DEF IInv
<1>7. TokenStep(index + 1)
  <2>1. \A r \in index .. (index + 1) - 1 : r = index
    BY <1>3
  <2>2. QED  BY <1>1, <1>4, <2>1 DEF TokenStep
<1>8. ErrorStep(index + 1)
  BY <1>1, <1>2, <1>4, <1>5, ErrorStepRight
<1>9. QED  BY <1>1, <1>5, <1>6, <1>7, <1>8 DEF Step

\* A comment is silent up to its newline, or the end of the text.
LEMMA SkipsComment ==
  ASSUME IInv, ReadInv, TokenizeComment
  PROVE  \E p : Step(p)
<1> DEFINE S == Char \ {"eol", "eof"}
           p == Past(index, S)
<1>1. Analyzing({";"}) /\ "nul" \notin {";"} /\ AdvanceTo(p)
      /\ token_list' = token_list /\ error_list' = error_list
  BY DEF TokenizeComment
<1> HIDE DEF S, p
<1>2. /\ index \in Nat /\ index < Len(source_code)
      /\ Len(source_code) \in Nat /\ index \in 0 .. Len(source_code) - 1
      /\ index \in 0 .. Len(source_code)
  BY <1>1, Begun
<1>3. At(index) = ";" /\ Mode[index] = "plain"
  BY <1>1, Begun
<1>4. "nul" \notin S /\ At(index) \in S
  BY <1>3, Alphabet DEF Char, S
<1>5. /\ Past(index, S) \in index .. Len(source_code)
      /\ At(Past(index, S)) \notin S
      /\ \A r \in index .. Past(index, S) - 1 : At(r) \in S
  BY <1>2, <1>4, Scan DEF IInv
<1>6. p \in index .. Len(source_code)
  BY <1>5 DEF p
<1>7. At(p) \notin S /\ \A r \in index .. p - 1 : At(r) \in S
  BY <1>5, Zenon DEF p
<1>8. p # index
  BY <1>4, <1>7
<1>9. p \in index + 1 .. Len(source_code) /\ p \in Nat
  BY <1>2, <1>6, <1>8
<1>10. Mode[index + 1] = "comment"
  <2>1. Mode[index + 1] = ModeAfter("plain", ";")
    BY <1>2, <1>3, ModeNext DEF IInv
  <2>2. QED  BY <2>1, Zenon DEF ModeAfter
<1>11. \A r \in index + 1 .. p - 1 : r \in index .. p - 1
  BY <1>2, <1>9
<1>12. \A r \in index + 1 .. p : Mode[r] = "comment"
  <2>1. ASSUME NEW r \in index + 1 .. p - 1
        PROVE  ModeAfter(Mode[index + 1], At(r)) = Mode[index + 1]
    <3>1. At(r) # "eol"
      BY <1>7, <1>11 DEF S
    <3>2. QED  BY <1>10, <3>1, Zenon DEF ModeAfter
  <2>2. index + 1 \in 0 .. Len(source_code)
    BY <1>2
  <2>3. \A r \in index + 1 .. p : Mode[r] = Mode[index + 1]
    BY <1>9, <2>1, <2>2, ModeLasts DEF IInv
  <2>4. QED  BY <1>10, <2>3
<1>13. index \in Silents /\ index \notin Faults
  BY <1>2, <1>3, PlainCharacter
<1>14. \A r \in index + 1 .. p - 1 : r \in 0 .. Len(source_code) - 1 /\ r \in index + 1 .. p
  BY <1>2, <1>9
<1>15. ASSUME NEW r \in index + 1 .. p - 1
       PROVE  r \in Silents /\ r \notin Faults
  <2>1. r \in 0 .. Len(source_code) - 1 /\ Mode[r] = "comment"
    BY <1>12, <1>14
  <2>2. At(r) \notin {"eol", "eof"}
    BY <1>7, <1>11 DEF S
  <2>3. QED  BY <2>1, <2>2 DEF Silents, Silent, Faults, Fault
<1>16. \A r \in index .. p - 1 : r = index \/ r \in index + 1 .. p - 1
  BY <1>2, <1>9
<1>17. TokenStep(p)
  BY <1>1, <1>13, <1>15, <1>16 DEF TokenStep
<1>18. ErrorStep(p)
  BY <1>1, <1>13, <1>15, ErrorStepRight
<1>19. PlainAt(p)
  <2>1. p \in index + 1 .. p
    BY <1>2, <1>9
  <2>2. Mode[p] = "comment"
    BY <1>12, <2>1
  <2>3. QED  BY <1>7, <2>2 DEF PlainAt, S
<1>20. QED  BY <1>1, <1>9, <1>17, <1>18, <1>19 DEF Step

\* A token of one character is as long as can be where nothing extends it.
LEMMA OneCharacterRight ==
  ASSUME IInv, ReadInv, index < Len(source_code), index \notin Faults, index \notin Silents,
         NEW type, type \notin {"eoft", "error"},
         AddToken(TokenTo(index + 1, type)),
         At(index) \in Separator \union {"eol"}
  PROVE  TokenStep(index + 1)
<1> DEFINE token == TokenTo(index + 1, type)
<1>1. /\ token.type = type /\ token.index = index /\ token.line = line_number
      /\ token.index_in_line = column
      /\ token.string = SubSeq(source_code, index + 1, index + 1)
  BY DEF TokenTo
<1>2. AddToken(token)
  OBVIOUS
<1> HIDE DEF token
<1>3. index \in Nat /\ Len(source_code) \in Nat
  BY DEF IInv, TextOK
<1>4. index + 1 \in index + 1 .. Len(source_code)
      /\ \A r \in index + 1 .. (index + 1) - 1 : FALSE
  BY <1>3
<1>5. Extends(token) = {}
  <2>1. At(token.index) \in Separator \union {"eol", "eof"}
    BY <1>1
  <2>2. QED  BY <2>1, ExtendsBy
<1>6. TokenTrue(token) /\ End(token) = index + 1
  BY <1>1, <1>4, <1>5, TokenRight
<1>7. QED  BY <1>1, <1>2, <1>4, <1>6, TokenStepRight

LEMMA ReadsNewline ==
  ASSUME IInv, ReadInv, TokenizeNewline
  PROVE  Step(index + 1)
<1>1. Analyzing({"eol"}) /\ "nul" \notin {"eol"} /\ AdvanceTo(index + 1)
      /\ AddToken(TokenTo(index + 1, "eol")) /\ error_list' = error_list
  BY DEF TokenizeNewline
<1>2. /\ At(index) = "eol" /\ index \in Nat /\ index < Len(source_code)
      /\ Len(source_code) \in Nat /\ index \in 0 .. Len(source_code) - 1
      /\ Mode[index] \in {"plain", "comment"}
  BY <1>1, Begun
<1>3. index \notin Faults
  BY <1>2 DEF Faults, Fault, Sign
<1>4. index \notin Silents
  BY <1>2 DEF Silents, Silent, Blank
<1>5. index + 1 \in index + 1 .. Len(source_code)
      /\ \A r \in index + 1 .. (index + 1) - 1 : FALSE
  BY <1>2
<1>6. Mode[index + 1] = "plain"
  <2>1. Mode[index + 1] = ModeAfter(Mode[index], "eol")
    BY <1>2, ModeNext DEF IInv
  <2>2. ModeAfter("plain", "eol") = "plain" /\ ModeAfter("comment", "eol") = "plain"
    BY Zenon DEF ModeAfter
  <2>3. QED  BY <1>2, <2>1, <2>2
<1>7. TokenStep(index + 1)
  <2>1. At(index) \in Separator \union {"eol"}
    BY <1>2
  <2>2. QED  BY <1>1, <1>2, <1>3, <1>4, <2>1, OneCharacterRight
<1>8. ErrorStep(index + 1)
  BY <1>1, <1>3, <1>5, ErrorStepRight
<1>9. PlainAt(index + 1)
  BY <1>6 DEF PlainAt
<1>10. QED  BY <1>1, <1>5, <1>7, <1>8, <1>9 DEF Step

LEMMA ReadsSeparator ==
  ASSUME IInv, ReadInv, TokenizeSeparator
  PROVE  Step(index + 1)
<1>1. Analyzing(Separator) /\ "nul" \notin Separator /\ AdvanceTo(index + 1)
      /\ error_list' = error_list
  BY DEF TokenizeSeparator, Separator
<1>2. /\ At(index) \in Separator /\ index \in Nat /\ index < Len(source_code)
      /\ Len(source_code) \in Nat /\ index \in 0 .. Len(source_code) - 1
      /\ At(index) \notin {"eol", "eof"} => Mode[index] = "plain"
  BY <1>1, Begun
<1>3. Mode[index] = "plain"
  BY <1>2 DEF Separator
<1>4. PICK type \in {"comma", "colon", "hashtag", "star"} :
        AddToken(TokenTo(index + 1, type))
  BY <1>2 DEF TokenizeSeparator, Separator
<1>5. index \notin Silents /\ index \notin Faults
  <2>1. At(index) \notin Blank \union {";", "other"}
        /\ At(index) \notin {"other", "+", "-", "quote", "."}
    BY <1>2 DEF Separator, Blank
  <2>2. QED  BY <1>2, <1>3, <2>1, PlainCharacter
<1>6. index + 1 \in index + 1 .. Len(source_code)
      /\ \A r \in index + 1 .. (index + 1) - 1 : FALSE
  BY <1>2
<1>7. PlainAt(index + 1)
  <2>1. At(index) \notin Opener
    BY <1>2 DEF Opener, Separator
  <2>2. QED  BY <1>2, <1>3, <1>6, <2>1, PlainRun DEF IInv
<1>8. TokenStep(index + 1)
  <2>1. At(index) \in Separator \union {"eol"} /\ type \notin {"eoft", "error"}
    BY <1>2
  <2>2. QED  BY <1>2, <1>4, <1>5, <2>1, OneCharacterRight
<1>9. ErrorStep(index + 1)
  BY <1>1, <1>5, <1>6, ErrorStepRight
<1>10. QED  BY <1>1, <1>6, <1>7, <1>8, <1>9 DEF Step

\* EOF has nothing behind it.
LEMMA ReadsEof ==
  ASSUME IInv, ReadInv, TokenizeEof
  PROVE  Step(index + 1)
<1> DEFINE token == [TokenTo(index + 1, "eoft") EXCEPT !.string = <<>>]
<1>1. Analyzing({"eof"}) /\ "nul" \notin {"eof"} /\ AdvanceTo(index + 1)
      /\ AddToken(token) /\ error_list' = error_list
  BY DEF TokenizeEof
<1>2. /\ token.type = "eoft" /\ token.index = index /\ token.line = line_number
      /\ token.index_in_line = column
  BY DEF TokenTo
<1> HIDE DEF token
<1>3. /\ At(index) = "eof" /\ index \in Nat /\ index < Len(source_code)
      /\ Len(source_code) \in Nat /\ index \in 0 .. Len(source_code) - 1
      /\ line_number = Lines[index] /\ column = Columns[index]
  BY <1>1, Begun
<1>4. index + 1 = Len(source_code)
  <2>1. source_code[index + 1] = "eof"
    BY <1>3, Reading DEF IInv
  <2>2. QED  BY <1>3, <2>1 DEF IInv, TextOK
<1>5. At(index + 1) = "nul"
  BY <1>3, <1>4, Reading DEF IInv
<1>6. index \notin Faults /\ index \notin Silents
  BY <1>3 DEF Faults, Fault, Sign, Silents, Silent, Blank
<1>7. index + 1 \in index + 1 .. Len(source_code)
      /\ \A r \in index + 1 .. (index + 1) - 1 : FALSE
  BY <1>3
<1>8. PlainAt(index + 1)
  BY <1>5, Alphabet DEF PlainAt
<1>9. End(token) = index + 1
  BY <1>2 DEF End, Width
<1>10. Extends(token) = {}
  <2>1. At(token.index) \in Separator \union {"eol", "eof"}
    BY <1>2, <1>3
  <2>2. QED  BY <2>1, ExtendsBy
<1>11. TokenTrue(token)
  BY <1>2, <1>3, <1>6, <1>7, <1>9, <1>10 DEF TokenTrue
<1>12. TokenStep(index + 1)
  BY <1>1, <1>2, <1>6, <1>7, <1>9, <1>11, TokenStepRight
<1>13. ErrorStep(index + 1)
  BY <1>1, <1>6, <1>7, ErrorStepRight
<1>14. QED  BY <1>1, <1>7, <1>8, <1>12, <1>13 DEF Step

\* A token that goes on as long as its characters extend it: a number, a directive or
\* a name.
LEMMA RunRight ==
  ASSUME IInv, ReadInv, NEW S, S \subseteq WordCharacter,
         source_code' = source_code, index < Len(source_code), Mode[index] = "plain",
         At(index) \notin Opener, index \notin Silents, At(index) # "quote",
         NEW p, p = Past(index + 1, S), AdvanceTo(p),
         NEW token, AddToken(token),
         token.index = index, token.line = line_number, token.index_in_line = column,
         token.string = SubSeq(source_code, index + 1, p), token.type # "eoft",
         Extends(token) = S,
         token.type = "error" <=> index \in Faults,
         \/ error_list' = error_list /\ index \notin Faults
         \/ /\ index \in Faults
            /\ \E error : /\ AddError(error) /\ error.index = index
                          /\ error.line = line_number
                          /\ At(index) # "quote" => error.column = column
  PROVE  Step(p)
<1>1. index \in Nat /\ Len(source_code) \in Nat
  BY DEF IInv, TextOK
<1>2. "nul" \notin S
  BY CharactersApart DEF WordCharacter
<1>3. index + 1 \in 0 .. Len(source_code)
  BY <1>1
<1>4. /\ Past(index + 1, S) \in index + 1 .. Len(source_code)
      /\ At(Past(index + 1, S)) \notin S
      /\ \A r \in index + 1 .. Past(index + 1, S) - 1 : At(r) \in S
  BY <1>2, <1>3, Scan DEF IInv
<1>5. p \in index + 1 .. Len(source_code)
  BY <1>4
<1>6. At(p) \notin S /\ \A r \in index + 1 .. p - 1 : At(r) \in S
  BY <1>4, Zenon
<1>7. \A r \in index + 1 .. p - 1 : At(r) \in WordCharacter
  BY <1>6
<1>8. /\ PlainAt(p)
      /\ \A r \in index + 1 .. p - 1 : r \notin Silents /\ r \notin Faults
  BY <1>5, <1>7, PlainRun DEF IInv
<1>9. TokenTrue(token) /\ End(token) = p
  BY <1>5, <1>6, TokenRight
<1>10. TokenStep(p)
  BY <1>5, <1>8, <1>9, TokenStepRight
<1>11. ErrorStep(p)
  BY <1>8, ErrorStepRight
<1>12. QED  BY <1>5, <1>8, <1>10, <1>11 DEF Step

\* A number: its sign is at fault where no digit follows.
LEMMA ReadsNumber ==
  ASSUME IInv, ReadInv, TokenizeNumber
  PROVE  \E p : Step(p)
<1> DEFINE p == NumberEnd
           lone == At(index) \in Sign /\ p = index + 1
           type == IF lone THEN "error" ELSE "number"
           token == TokenTo(p, type)
           error == CharError(index, column, line_number)
<1>1. Analyzing(Digit \union Sign) /\ AdvanceTo(p)
  BY DEF TokenizeNumber
<1>2. AddToken(token) /\ (IF lone THEN AddError(error) ELSE error_list' = error_list)
  BY Zenon DEF TokenizeNumber
<1>3. /\ token.type = type /\ token.index = index /\ token.line = line_number
      /\ token.index_in_line = column /\ token.string = SubSeq(source_code, index + 1, p)
  BY DEF TokenTo
<1>4. error.index = index /\ error.line = line_number /\ error.column = column
  BY DEF CharError
<1> HIDE DEF error, token
<1>5. \A c \in Digit \union Sign :
        c \notin {"nul", "eol", "eof", ";", "quote", "blank", "other", "."}
  BY CharactersApart DEF Sign
<1>6. "nul" \notin Digit \union Sign
  BY <1>5
<1>7. /\ At(index) \in Digit \union Sign /\ source_code' = source_code
      /\ At(index) \notin {"eol", "eof"} => Mode[index] = "plain"
  BY <1>1, <1>6, Begun
<1>8. At(index) \notin {"nul", "eol", "eof", ";", "quote", "blank", "other", "."}
  BY <1>5, <1>7
<1>9. Mode[index] = "plain"
  BY <1>7, <1>8
<1>10. index \in 0 .. Len(source_code) - 1 /\ index < Len(source_code)
       /\ index \in Nat /\ Len(source_code) \in Nat
  BY <1>1, <1>6, Begun
<1>11. index \notin Silents
  BY <1>8, <1>9, <1>10, PlainCharacter DEF Blank
<1>12. At(index) \notin Opener /\ At(index) # "quote"
  BY <1>8 DEF Opener
<1>13. /\ p \in index + 1 .. Len(source_code) /\ At(p) \notin Digit
       /\ \A r \in index + 1 .. p - 1 : At(r) \in Digit
  <2>1. "nul" \notin Digit /\ index + 1 \in 0 .. Len(source_code)
    BY <1>6, <1>10
  <2>2. /\ Past(index + 1, Digit) \in index + 1 .. Len(source_code)
        /\ At(Past(index + 1, Digit)) \notin Digit
        /\ \A r \in index + 1 .. Past(index + 1, Digit) - 1 : At(r) \in Digit
    BY <2>1, Scan DEF IInv
  <2>3. QED  BY <2>2, Zenon DEF NumberEnd
<1>14. p = index + 1 <=> At(index + 1) \notin Digit
  <2>1. CASE p = index + 1
    BY <1>13, <2>1
  <2>2. CASE p # index + 1
    <3>1. index + 1 \in index + 1 .. p - 1
      BY <1>10, <1>13, <2>2
    <3>2. QED  BY <1>13, <2>2, <3>1
  <2>3. QED  BY <2>1, <2>2
<1>15. lone <=> index \in Faults
  <2>1. Fault(index) <=> At(index) \in Sign /\ At(index + 1) \notin Digit
    BY <1>8, <1>9 DEF Fault
  <2>2. QED  BY <1>10, <1>14, <2>1 DEF Faults
<1>16. Extends(token) = Digit
  <2>1. At(token.index) \in Digit \union Sign
    BY <1>3, <1>7
  <2>2. QED  BY <2>1, ExtendsBy
<1>17. Digit \subseteq WordCharacter
  BY DEF WordCharacter
<1>18. p = Past(index + 1, Digit)
  BY DEF NumberEnd
<1>19. token.type # "eoft" /\ (token.type = "error" <=> index \in Faults)
  BY <1>3, <1>15
<1>20. \/ error_list' = error_list /\ index \notin Faults
       \/ /\ index \in Faults
          /\ \E e : /\ AddError(e) /\ e.index = index
                    /\ e.line = line_number
                    /\ At(index) # "quote" => e.column = column
  BY <1>2, <1>4, <1>15, Zenon
<1> HIDE DEF p
<1>21. Step(p)
  BY <1>1, <1>2, <1>3, <1>7, <1>9, <1>10, <1>11, <1>12, <1>16, <1>17, <1>18, <1>19, <1>20,
     RunRight
<1>22. QED  BY <1>21

\* A directive, at fault if its word is unknown.
LEMMA ReadsDirective ==
  ASSUME IInv, ReadInv, TokenizeNonOpInstruction
  PROVE  \E p : Step(p)
<1> DEFINE p == Past(index + 1, Letter)
           word == SubSeq(source_code, index + 1, p)
           type == IF word \in DOMAIN DirectiveType THEN DirectiveType[word] ELSE "error"
           token == TokenTo(p, type)
           error == TokenError(token)
<1>1. Analyzing({"."}) /\ AdvanceTo(p) /\ AddToken(token)
  BY DEF TokenizeNonOpInstruction
<1>2. IF token.type = "error" THEN AddError(error) ELSE error_list' = error_list
  BY Zenon DEF TokenizeNonOpInstruction
<1>3. /\ token.type = type /\ token.index = index /\ token.line = line_number
      /\ token.index_in_line = column /\ token.string = word
  BY DEF TokenTo
<1>4. error.index = token.index /\ error.line = token.line
      /\ error.column = token.index_in_line
  BY DEF TokenError
<1> HIDE DEF error, token
<1>5. "nul" \notin {"."}
  OBVIOUS
<1>6. /\ At(index) = "." /\ source_code' = source_code
      /\ At(index) \notin {"eol", "eof"} => Mode[index] = "plain"
  BY <1>1, <1>5, Begun
<1>7. Mode[index] = "plain"
  BY <1>6
<1>8. index \in 0 .. Len(source_code) - 1 /\ index < Len(source_code)
       /\ index \in Nat /\ Len(source_code) \in Nat
  BY <1>1, <1>5, Begun
<1>9. index \notin Silents /\ At(index) \notin Opener /\ At(index) # "quote"
  BY <1>6, <1>7, <1>8, PlainCharacter DEF Blank, Opener
<1>10. type \notin {"eoft"} /\ (type = "error" <=> word \notin DOMAIN DirectiveType)
  <2> HIDE DEF word
  <2>1. word \in DOMAIN DirectiveType => type \in P!Directive
    BY WordAssumption
  <2>2. "error" \notin P!Directive /\ "eoft" \notin P!Directive
    BY DEF P!Directive
  <2>3. QED  BY <2>1, <2>2
<1> HIDE DEF type
<1>11. word \notin DOMAIN DirectiveType <=> index \in Faults
  <2>1. Fault(index) <=> word \notin DOMAIN DirectiveType
    BY <1>6, <1>7 DEF Fault, Sign
  <2>2. QED  BY <1>8, <2>1 DEF Faults
<1>12. Extends(token) = Letter
  <2>1. At(token.index) = "."
    BY <1>3, <1>6
  <2>2. QED  BY <2>1, ExtendsBy
<1>13. Letter \subseteq WordCharacter
  BY DEF WordCharacter
<1>14. token.type # "eoft" /\ (token.type = "error" <=> index \in Faults)
  BY <1>3, <1>10, <1>11
<1>15. error.index = index /\ error.line = line_number /\ error.column = column
  BY <1>3, <1>4
<1>16. \/ error_list' = error_list /\ index \notin Faults
       \/ /\ index \in Faults
          /\ \E e : /\ AddError(e) /\ e.index = index
                    /\ e.line = line_number
                    /\ At(index) # "quote" => e.column = column
  BY <1>2, <1>14, <1>15, Zenon
<1>17. p = Past(index + 1, Letter) /\ token.string = SubSeq(source_code, index + 1, p)
  BY <1>3
<1> HIDE DEF p, word
<1>18. Step(p)
  BY <1>1, <1>3, <1>6, <1>7, <1>8, <1>9, <1>12, <1>13, <1>14, <1>16, <1>17, RunRight
<1>19. QED  BY <1>18

\* An identifier, or what is reserved.
LEMMA ReadsIdentifier ==
  ASSUME IInv, ReadInv, TokenizeIdentifier
  PROVE  \E p : Step(p)
<1> DEFINE S == Letter \union Digit \union (IF At(index) = "_" THEN {"_"} ELSE {})
           p == Past(index + 1, S)
           word == SubSeq(source_code, index + 1, p)
           type == IF word \in DOMAIN ReservedType THEN ReservedType[word]
                   ELSE "identifier"
           token == TokenTo(p, type)
<1>1. Analyzing(Letter \union {"_"}) /\ AdvanceTo(p) /\ AddToken(token)
      /\ error_list' = error_list
  BY DEF TokenizeIdentifier, IdentifierEnd
<1>2. /\ token.type = type /\ token.index = index /\ token.line = line_number
      /\ token.index_in_line = column /\ token.string = word
  BY DEF TokenTo
<1> HIDE DEF token
<1>3. \A c \in Letter \union {"_"} :
        c \notin {"nul", "eol", "eof", ";", "quote", "blank", "other", ".", "+", "-"}
  BY CharactersApart
<1>4. "nul" \notin Letter \union {"_"}
  BY <1>3
<1>5. /\ At(index) \in Letter \union {"_"} /\ source_code' = source_code
      /\ At(index) \notin {"eol", "eof"} => Mode[index] = "plain"
  BY <1>1, <1>4, Begun
<1>6. At(index) \notin {"nul", "eol", "eof", ";", "quote", "blank", "other", ".", "+", "-"}
  BY <1>3, <1>5
<1>7. Mode[index] = "plain"
  BY <1>5, <1>6
<1>8. index \in 0 .. Len(source_code) - 1 /\ index < Len(source_code)
       /\ index \in Nat /\ Len(source_code) \in Nat
  BY <1>1, <1>4, Begun
<1>9. index \notin Silents /\ At(index) \notin Opener /\ At(index) # "quote"
  BY <1>6, <1>7, <1>8, PlainCharacter DEF Blank, Opener
<1>10. index \notin Faults
  BY <1>6, <1>7, <1>8, PlainCharacter
<1>11. type \notin {"eoft", "error"}
  <2> HIDE DEF word
  <2>1. type \in P!Operation \union {"register", "macr", "endmacr", "identifier"}
    BY WordAssumption
  <2> HIDE DEF type
  <2>2. QED  BY <2>1 DEF P!Operation, P!TwoOperands, P!OneOperand, P!NoOperand
<1> HIDE DEF type
<1>12. Extends(token) = S
  <2>1. CASE At(index) = "_"
    <3>1. At(token.index) = "_"
      BY <1>2, <2>1
    <3>2. Extends(token) = Letter \union Digit \union {"_"}
      BY <3>1, ExtendsBy
    <3>3. QED  BY <2>1, <3>2
  <2>2. CASE At(index) # "_"
    <3>1. At(token.index) \in Letter
      BY <1>2, <1>5, <2>2
    <3>2. Extends(token) = Letter \union Digit
      BY <3>1, ExtendsBy
    <3>3. QED  BY <2>2, <3>2
  <2>3. QED  BY <2>1, <2>2
<1>13. S \subseteq WordCharacter
  BY DEF WordCharacter
<1>14. token.type # "eoft" /\ (token.type = "error" <=> index \in Faults)
  BY <1>2, <1>10, <1>11
<1>15. p = Past(index + 1, S) /\ token.string = SubSeq(source_code, index + 1, p)
  BY <1>2
<1> HIDE DEF S, p, word
<1>16. Step(p)
  BY <1>1, <1>2, <1>5, <1>7, <1>8, <1>9, <1>10, <1>12, <1>13, <1>14, <1>15, RunRight
<1>17. QED  BY <1>16

\* A string that is closed: its quotes and what is between them, over lines.
LEMMA ReadsClosedString ==
  ASSUME IInv, ReadInv, TokenizeString, Closing # {}
  PROVE  \E p : Step(p)
<1> DEFINE q == Min(Closing)
           p == q + 1
           token == [TokenTo(p, "string") EXCEPT !.index_in_line = line_number]
<1>1. Analyzing({"quote"}) /\ AdvanceTo(p) /\ AddToken(token)
      /\ error_list' = error_list
  BY DEF TokenizeString
<1>2. /\ token.type = "string" /\ token.index = index /\ token.line = line_number
      /\ token.string = SubSeq(source_code, index + 1, p)
  BY DEF TokenTo
<1> HIDE DEF token
<1>3. "nul" \notin {"quote"}
  OBVIOUS
<1>4. /\ At(index) = "quote" /\ source_code' = source_code
      /\ At(index) \notin {"eol", "eof"} => Mode[index] = "plain"
  BY <1>1, <1>3, Begun
<1>5. Mode[index] = "plain"
  BY <1>4
<1>6. index \in 0 .. Len(source_code) - 1 /\ index < Len(source_code)
       /\ index \in Nat /\ Len(source_code) \in Nat
  BY <1>1, <1>3, Begun
<1>7. q \in Closing
  <2>1. Closing \subseteq Nat
    BY <1>6 DEF Closing
  <2>2. PICK x \in Closing : \A y \in Closing : x <= y
    BY <2>1, LeastNumber
  <2>3. QED  BY <2>2, Zenon DEF Min
<1> HIDE DEF q
<1>8. /\ q \in index + 1 .. Len(source_code) /\ At(q) = "quote"
      /\ \A r \in index + 1 .. q - 1 : At(r) \notin {"quote", "eof"}
  BY <1>7 DEF Closing
<1>9. q \in Nat /\ q < Len(source_code)
  <2>1. q \in Nat
    BY <1>6, <1>8
  <2>2. At(q) # "nul"
    BY <1>8
  <2>3. QED  BY <2>1, <2>2, Reading DEF IInv
<1>10. /\ p \in index + 1 .. Len(source_code) /\ p - 1 = q
       /\ index + 1 \in 0 .. Len(source_code) /\ q \in index + 1 .. Len(source_code)
       /\ q \in 0 .. Len(source_code) - 1
       /\ \A r \in index + 1 .. p - 1 : r \in index + 1 .. q
       /\ q \in index + 1 .. q
  BY <1>6, <1>8, <1>9
<1>11. Mode[index + 1] = "string"
  <2>1. Mode[index + 1] = ModeAfter("plain", "quote")
    BY <1>4, <1>5, <1>6, ModeNext DEF IInv
  <2>2. QED  BY <2>1, Zenon DEF ModeAfter
<1>12. \A r \in index + 1 .. q : Mode[r] = "string"
  <2>1. ASSUME NEW r \in index + 1 .. q - 1
        PROVE  ModeAfter(Mode[index + 1], At(r)) = Mode[index + 1]
    <3>1. At(r) # "quote"
      BY <1>8
    <3>2. QED  BY <1>11, <3>1, Zenon DEF ModeAfter
  <2>2. \A r \in index + 1 .. q : Mode[r] = Mode[index + 1]
    BY <1>10, <2>1, ModeLasts DEF IInv
  <2>3. QED  BY <1>11, <2>2
<1>13. Mode[p] = "plain"
  <2>1. Mode[p] = ModeAfter(Mode[q], At(q))
    BY <1>10, ModeNext DEF IInv
  <2>2. Mode[p] = ModeAfter("string", "quote")
    BY <1>8, <1>10, <1>12, <2>1
  <2>3. QED  BY <2>2, Zenon DEF ModeAfter
<1>14. PlainAt(p)
  BY <1>13 DEF PlainAt
<1>15. \A r \in index + 1 .. p - 1 : r \notin Silents /\ r \notin Faults
  <2>1. \A r \in index + 1 .. p - 1 : Mode[r] = "string"
    BY <1>10, <1>12
  <2>2. QED  BY <2>1 DEF Silents, Silent, Faults, Fault
<1>16. index \notin Silents
  BY <1>4, <1>5, <1>6, PlainCharacter DEF Blank
<1>17. index \notin Faults
  <2>1. q \in index + 1 .. Len(source_code) /\ At(q) = "quote"
    BY <1>8
  <2>2. QED  BY <1>4, <2>1 DEF Faults, Fault, Sign
<1>18. TokenTrue(token) /\ End(token) = p
  BY <1>2, <1>4, <1>6, <1>10, <1>17, TokenRight
<1>19. TokenStep(p)
  BY <1>1, <1>2, <1>10, <1>15, <1>16, <1>18, TokenStepRight
<1>20. ErrorStep(p)
  BY <1>1, <1>15, <1>17, ErrorStepRight
<1>21. Step(p)
  BY <1>1, <1>10, <1>14, <1>19, <1>20 DEF Step
<1>22. QED  BY <1>21

\* A string that does not end takes the rest of the text, but for EOF, and its quote
\* is at fault.
LEMMA ReadsUnclosedString ==
  ASSUME IInv, ReadInv, TokenizeString, Closing = {}
  PROVE  \E p : Step(p)
<1> DEFINE S == Char \ {"eof"}
           p == Past(index, S)
           token == [[TokenTo(p, "string") EXCEPT !.index_in_line = line_number]
                       EXCEPT !.type = "error"]
           error == CharError(index, line_number, line_number)
<1>1. Analyzing({"quote"}) /\ AdvanceTo(p) /\ AddToken(token) /\ AddError(error)
  BY DEF TokenizeString
<1>2. /\ token.type = "error" /\ token.index = index /\ token.line = line_number
      /\ token.string = SubSeq(source_code, index + 1, p)
  BY DEF TokenTo
<1>3. error.index = index /\ error.line = line_number
  BY DEF CharError
<1> HIDE DEF token, error, S
<1>4. "nul" \notin {"quote"}
  OBVIOUS
<1>5. /\ At(index) = "quote" /\ source_code' = source_code
      /\ At(index) \notin {"eol", "eof"} => Mode[index] = "plain"
  BY <1>1, <1>4, Begun
<1>6. Mode[index] = "plain"
  BY <1>5
<1>7. /\ index \in 0 .. Len(source_code) - 1 /\ index < Len(source_code)
      /\ index \in Nat /\ Len(source_code) \in Nat
      /\ index \in 0 .. Len(source_code)
  BY <1>1, <1>4, Begun
<1>8. "nul" \notin S /\ At(index) \in S
  BY <1>5, Alphabet DEF Char, S
<1>9. /\ Past(index, S) \in index .. Len(source_code)
      /\ At(Past(index, S)) \notin S
      /\ \A r \in index .. Past(index, S) - 1 : At(r) \in S
  BY <1>7, <1>8, Scan DEF IInv
<1>10. p \in index .. Len(source_code) /\ p # index
  <2>1. p # index
    BY <1>8, <1>9
  <2>2. QED  BY <1>9, <2>1
<1>11. At(p) \notin S /\ \A r \in index .. p - 1 : At(r) \in S
  BY <1>9, Zenon
<1> HIDE DEF p
<1>12. /\ p \in index + 1 .. Len(source_code) /\ p \in Nat
       /\ \A r \in index + 1 .. p - 1 : r \in index .. p - 1 /\ r \in index + 1 .. p
       /\ index + 1 \in 0 .. Len(source_code)
       /\ \A r \in index .. p - 1 : r = index \/ r \in index + 1 .. p - 1
  BY <1>7, <1>10
<1>13. p < Len(source_code) => At(p) = "eof" /\ p = Len(source_code) - 1
  <2> SUFFICES ASSUME p < Len(source_code)
               PROVE  At(p) = "eof" /\ p = Len(source_code) - 1
    OBVIOUS
  <2>1. At(p) = source_code[p + 1] /\ At(p) \in Char
    BY <1>12, Reading DEF IInv
  <2>2. At(p) = "eof"
    BY <1>11, <2>1 DEF S
  <2>3. source_code[p + 1] = "eof" /\ p + 1 \in 1 .. Len(source_code)
    BY <1>7, <1>12, <2>1, <2>2
  <2>4. p + 1 \notin 1 .. Len(source_code) - 1
    BY <2>3 DEF IInv, TextOK
  <2>5. QED  BY <1>7, <1>12, <2>2, <2>3, <2>4
<1>14. \A r \in index + 1 .. p - 1 : At(r) # "quote"
  <2> DEFINE T == {r \in index + 1 .. p - 1 : At(r) = "quote"}
  <2> SUFFICES ASSUME T # {} PROVE FALSE
    OBVIOUS
  <2>1. T \subseteq Nat
    BY <1>7
  <2> HIDE DEF T
  <2>2. PICK x \in T : \A y \in T : x <= y
    BY <2>1, LeastNumber
  <2>3. x \in index + 1 .. p - 1 /\ At(x) = "quote"
    BY <2>2 DEF T
  <2>4. \A r \in index + 1 .. x - 1 : r \in index + 1 .. p - 1 /\ ~(x <= r)
    BY <1>7, <1>12, <2>3
  <2>5. \A r \in index + 1 .. x - 1 : At(r) # "quote"
    BY <2>2, <2>4 DEF T
  <2>6. \A r \in index + 1 .. x - 1 : At(r) # "eof"
    BY <1>11, <1>12, <2>4 DEF S
  <2>7. x \in index + 1 .. Len(source_code)
    BY <1>7, <1>12, <2>3
  <2>8. x \in Closing
    BY <2>3, <2>5, <2>6, <2>7 DEF Closing
  <2>9. QED  BY <2>8
<1>15. \A r \in index + 1 .. Len(source_code) : At(r) # "quote"
  <2> SUFFICES ASSUME NEW r \in index + 1 .. Len(source_code), At(r) = "quote"
               PROVE  FALSE
    OBVIOUS
  <2>1. r \in Nat
    BY <1>7
  <2>2. At(r) # "nul"
    OBVIOUS
  <2>3. r < Len(source_code)
    BY <2>1, <2>2, Reading DEF IInv
  <2>4. r \notin index + 1 .. p - 1
    BY <1>14
  <2>5. r >= p
    BY <1>7, <1>12, <2>1, <2>4
  <2>6. p < Len(source_code)
    BY <1>7, <1>12, <2>1, <2>3, <2>5
  <2>7. At(p) = "eof" /\ p = Len(source_code) - 1
    BY <1>13, <2>6
  <2>8. r = p
    BY <1>7, <1>12, <2>1, <2>3, <2>5, <2>7
  <2>9. QED  BY <2>7, <2>8
<1>16. index \in Faults
  BY <1>5, <1>6, <1>7, <1>15 DEF Faults, Fault
<1>17. Mode[index + 1] = "string"
  <2>1. Mode[index + 1] = ModeAfter("plain", "quote")
    BY <1>5, <1>6, <1>7, ModeNext DEF IInv
  <2>2. QED  BY <2>1, Zenon DEF ModeAfter
<1>18. \A r \in index + 1 .. p : Mode[r] = "string"
  <2>1. ASSUME NEW r \in index + 1 .. p - 1
        PROVE  ModeAfter(Mode[index + 1], At(r)) = Mode[index + 1]
    <3>1. At(r) # "quote"
      BY <1>14
    <3>2. QED  BY <1>17, <3>1, Zenon DEF ModeAfter
  <2>2. \A r \in index + 1 .. p : Mode[r] = Mode[index + 1]
    BY <1>12, <2>1, ModeLasts DEF IInv
  <2>3. QED  BY <1>17, <2>2
<1>19. \A r \in index + 1 .. p - 1 : r \notin Silents /\ r \notin Faults
  <2>1. \A r \in index + 1 .. p - 1 : Mode[r] = "string"
    BY <1>12, <1>18
  <2>2. QED  BY <2>1 DEF Silents, Silent, Faults, Fault
<1>20. PlainAt(p)
  <2>1. At(p) \notin Char \ {"eof"}
    BY <1>11 DEF S
  <2>2. At(p) \notin Char \ {"eol", "eof"} /\ At(p) # "eol"
    BY <2>1 DEF Char
  <2>3. QED  BY <2>2 DEF PlainAt
<1>21. index \notin Silents
  BY <1>5, <1>6, <1>7, PlainCharacter DEF Blank
<1>22. TokenTrue(token) /\ End(token) = p
  BY <1>2, <1>5, <1>7, <1>12, <1>16, TokenRight
<1>23. TokenStep(p)
  BY <1>1, <1>2, <1>12, <1>19, <1>21, <1>22, TokenStepRight
<1>24. ErrorStep(p)
  <2>1. \A r \in index + 1 .. p - 1 : r \notin Faults
    BY <1>19
  <2>2. /\ AddError(error) /\ error.index = index /\ error.line = line_number
        /\ At(index) # "quote" => error.column = column
    BY <1>1, <1>3, <1>5
  <2>3. QED  BY <1>16, <2>1, <2>2, ErrorStepRight
<1>25. Step(p)
  BY <1>1, <1>12, <1>20, <1>23, <1>24 DEF Step
<1>26. QED  BY <1>25

-----------------------------------------------------------------------------
(* The invariant of what was read *)

\* Nothing is read yet.
LEMMA ReadBegins ==
  /\ TextOK /\ index = 0 /\ line_number = 1 /\ column = 0
  /\ token_list = <<>> /\ error_list = <<>>
  => ReadInv
<1> SUFFICES ASSUME TextOK, index = 0, line_number = 1, column = 0,
                    token_list = <<>>, error_list = <<>>
             PROVE  ReadInv
  OBVIOUS
<1>1. Lines[0] = 1 /\ Columns[0] = 0
  <2>1. 0 \in 0 .. Len(source_code)
    BY DEF TextOK
  <2>2. Newlines(0) = {}
    BY DEF Newlines
  <2>3. Lines[0] = 1 + Cardinality(Newlines(0)) /\ Columns[0] = 0 - LineStart(0)
    BY <2>1, PlaceOf
  <2>4. Cardinality(Newlines(0)) = 0
    BY <2>2, FS_EmptySet
  <2>5. LineStart(0) \in 0 .. 0
    BY LineBegins
  <2>6. QED  BY <2>3, <2>4, <2>5
<1>2. Mode[0] = "plain"
  BY ModesDefined
<1>3. TokensInv /\ ErrorsInv
  BY DEF TokensInv, ErrorsInv
<1>4. QED  BY <1>1, <1>2, <1>3 DEF ReadInv, PlaceInv, PlainAt

LEMMA ReadInitially == Init => ReadInv
<1>1. Init => TextOK
  BY InvariantInitially DEF IInv
<1>2. QED  BY <1>1, ReadBegins DEF Init

LEMMA BeginningKeepsReading ==
  ASSUME IInv, IInv', ReadInv, InitializeFromCstr \/ InitializeFromFile \/ InitializeFromString
  PROVE  ReadInv'
<1>1. /\ pc = "initialize"
      /\ index' = index /\ line_number' = line_number /\ column' = column
      /\ token_list' = token_list /\ error_list' = error_list
  BY DEF InitializeFromCstr, InitializeFromFile, InitializeFromString, Begin, position
<1>2. index = 0 /\ token_list = <<>> /\ error_list = <<>> /\ TextOK
  BY <1>1 DEF IInv, Stages
<1>3. line_number = 1 /\ column = 0
  <2>1. 0 \in 0 .. Len(source_code)
    BY <1>2 DEF TextOK
  <2>2. Newlines(0) = {}
    BY DEF Newlines
  <2>3. Lines[0] = 1 + Cardinality(Newlines(0)) /\ Columns[0] = 0 - LineStart(0)
    BY <1>2, <2>1, PlaceOf
  <2>4. Cardinality(Newlines(0)) = 0
    BY <2>2, FS_EmptySet
  <2>5. LineStart(0) \in 0 .. 0
    BY LineBegins
  <2>6. QED  BY <1>2, <2>3, <2>4, <2>5 DEF ReadInv, PlaceInv
<1>4. TextOK' /\ index' = 0 /\ line_number' = 1 /\ column' = 0
      /\ token_list' = <<>> /\ error_list' = <<>>
  BY <1>1, <1>2, <1>3 DEF IInv
<1>5. (/\ TextOK /\ index = 0 /\ line_number = 1 /\ column = 0
       /\ token_list = <<>> /\ error_list = <<>>
       => ReadInv)'
  BY ReadBegins, PTL
<1>6. QED  BY <1>4, <1>5

\* Where the place and the lists stay, so does what is true of them.
LEMMA StayingKeepsReading ==
  ASSUME ReadInv,
         UNCHANGED <<source_code, index, line_number, column, token_list, error_list>>
  PROVE  ReadInv'
<1>1. source_code' = source_code /\ index' = index /\ line_number' = line_number
      /\ column' = column /\ token_list' = token_list /\ error_list' = error_list
  OBVIOUS
<1>2. /\ Lines' = Lines /\ Columns' = Columns /\ Silents' = Silents
      /\ Faults' = Faults /\ Mode' = Mode
  BY <1>1, SameText
<1>3. PlaceInv'
  BY <1>1, <1>2 DEF ReadInv, PlaceInv
<1>4. PlainAt(index)'
  BY <1>1, <1>2, Zenon DEF ReadInv, PlainAt, At
<1>5. TokensInv'
  <2>1. \A k \in 1 .. Len(token_list) : TokenTrue(token_list[k])'
    <3> SUFFICES ASSUME NEW k \in 1 .. Len(token_list) PROVE TokenTrue(token_list[k])'
      OBVIOUS
    <3>1. TokenTrue(token_list[k]) /\ token_list'[k] = token_list[k]
      BY <1>1 DEF ReadInv, TokensInv
    <3>2. QED  BY <1>1, <3>1, TokenStaysTrue
  <2>2. \A k \in 1 .. Len(token_list') :
          TokenTrue(token_list[k])' /\ End(token_list[k])' <= index'
    BY <1>1, <2>1, Zenon DEF ReadInv, TokensInv, End, Width
  <2>3. \A j, k \in 1 .. Len(token_list') :
          j < k => End(token_list[j])' <= token_list'[k].index
    BY <1>1, Zenon DEF ReadInv, TokensInv, End, Width
  <2>4. \A p \in 0 .. index' - 1 :
          p \in Silents' <=> \A k \in 1 .. Len(token_list') : p \notin Held(token_list[k])'
    BY <1>1, <1>2, Zenon DEF ReadInv, TokensInv, Held, End, Width
  <2>5. QED  BY <2>2, <2>3, <2>4, Zenon DEF TokensInv
<1>6. ErrorsInv'
  BY <1>1, <1>2, Zenon DEF ReadInv, ErrorsInv, ErrorTrue, At
<1>7. QED  BY <1>3, <1>4, <1>5, <1>6, Zenon DEF ReadInv

\* One step of the loop takes one piece of the text, and nothing else changes.
Reads ==
  SkipBlank \/ TokenizeComment \/ TokenizeNewline \/ TokenizeEof \/ TokenizeSeparator
    \/ TokenizeNumber \/ TokenizeString \/ TokenizeNonOpInstruction \/ TokenizeIdentifier
    \/ UnknownChar

LEMMA ReadsAStep ==
  ASSUME IInv, ReadInv, Reads
  PROVE  \E p : Step(p)
<1>1. CASE TokenizeString
  BY <1>1, ReadsClosedString, ReadsUnclosedString
<1>2. QED
  BY <1>1, SkipsBlank, SkipsComment, ReadsNewline, ReadsEof, ReadsSeparator, ReadsNumber,
     ReadsDirective, ReadsIdentifier, SkipsUnknown DEF Reads

LEMMA ReadsOnly ==
  ASSUME Reads
  PROVE  pc = "analyze" /\ UNCHANGED <<input, pc, source_code, error_handler, reports>>
BY DEF Reads, SkipBlank, TokenizeComment, TokenizeNewline, TokenizeEof, TokenizeSeparator,
       TokenizeNumber, TokenizeString, TokenizeNonOpInstruction, TokenizeIdentifier,
       UnknownChar, Analyzing

LEMMA ReadKept == IInv /\ IInv' /\ ReadInv /\ [Next]_vars => ReadInv'
<1> SUFFICES ASSUME IInv, IInv', ReadInv, [Next]_vars PROVE ReadInv'
  OBVIOUS
<1>1. CASE InitializeFromCstr \/ InitializeFromFile \/ InitializeFromString
  BY <1>1, BeginningKeepsReading
<1>2. CASE CannotOpenFile \/ FinishAnalysis \/ ReportErrors \/ UNCHANGED vars
  <2>1. UNCHANGED <<source_code, index, line_number, column, token_list, error_list>>
    BY <1>2 DEF CannotOpenFile, FinishAnalysis, ReportErrors, vars, position
  <2>2. QED  BY <2>1, StayingKeepsReading
<1>3. CASE Reads
  <2>1. PICK p : Step(p)
    BY <1>3, ReadsAStep
  <2>2. source_code' = source_code
    BY <1>3, ReadsOnly
  <2>3. QED  BY <2>1, <2>2, StepKeepsReading
<1>4. QED  BY <1>1, <1>2, <1>3 DEF Next, Reads

\* The handler's copy is the text, but for a file, and the reports are those of the
\* errors.
HandlerInv ==
  /\ pc \in {"initialize", "analyze", "report", "done", "failed"}
  /\ error_handler.string \in Seq(Char) /\ error_handler.dangling \in BOOLEAN
  /\ pc \in {"analyze", "report", "done"} /\ input.initializer # "file" =>
       /\ error_handler.string = input.text
       /\ source_code \in {input.text, Append(input.text, "eof")}
  /\ pc = "done" =>
       reports = [k \in 1 .. Len(error_list) |-> Report(error_handler, error_list[k])]

LEMMA HandlerInitially == Init => HandlerInv
BY DEF Init, HandlerInv

LEMMA HandlerKept == IInv /\ HandlerInv /\ [Next]_vars => HandlerInv'
<1> SUFFICES ASSUME IInv, HandlerInv, [Next]_vars PROVE HandlerInv'
  OBVIOUS
<1>1. input.text \in Seq(Char)
  BY InputsAssumption DEF IInv, Stages
<1>2. CASE InitializeFromCstr
  <2>1. /\ pc' = "analyze" /\ input' = input /\ source_code' = Append(input.text, "eof")
        /\ \E moved \in MayMove(Len(input.text), Capacity(Len(input.text))) :
             error_handler' = [string |-> input.text, dangling |-> moved]
    BY <1>2 DEF InitializeFromCstr, Begin
  <2>2. PICK moved \in BOOLEAN : error_handler' = [string |-> input.text, dangling |-> moved]
    <3>1. \A n, c : MayMove(n, c) \subseteq BOOLEAN
      BY DEF MayMove
    <3>2. QED  BY <2>1, <3>1
  <2>3. error_handler'.string = input.text /\ error_handler'.dangling \in BOOLEAN
    BY <2>2
  <2>4. QED  BY <1>1, <2>1, <2>3 DEF HandlerInv
<1>3. CASE InitializeFromFile
  BY <1>3 DEF InitializeFromFile, Begin, HandlerInv
<1>4. CASE InitializeFromString
  BY <1>1, <1>4 DEF InitializeFromString, Begin, HandlerInv
<1>5. CASE CannotOpenFile
  BY <1>5 DEF CannotOpenFile, HandlerInv
<1>6. CASE Reads
  BY <1>6, ReadsOnly DEF HandlerInv
<1>7. CASE FinishAnalysis
  BY <1>7 DEF FinishAnalysis, HandlerInv
<1>8. CASE ReportErrors
  <2>1. /\ pc = "report" /\ pc' = "done"
        /\ UNCHANGED <<input, source_code, error_handler, error_list>>
        /\ reports' = [k \in 1 .. Len(error_list) |-> Report(error_handler, error_list[k])]
    BY <1>8 DEF ReportErrors
  <2>2. reports' = [k \in 1 .. Len(error_list') |-> Report(error_handler, error_list[k])']
    BY <2>1, Zenon DEF Report
  <2>3. QED  BY <2>1, <2>2, Zenon DEF HandlerInv
<1>9. CASE UNCHANGED vars
  <2>1. UNCHANGED <<pc, input, source_code, error_handler, error_list, reports>>
    BY <1>9 DEF vars
  <2>2. QED  BY <2>1, Zenon DEF HandlerInv, Report
<1>10. QED
  BY <1>2, <1>3, <1>4, <1>5, <1>6, <1>7, <1>8, <1>9 DEF Next, Reads

\* All that holds of the lexer at every step.
LEMMA ReadAlways == Spec => [](IInv /\ ReadInv /\ HandlerInv)
<1>1. Init => IInv /\ ReadInv /\ HandlerInv
  BY InvariantInitially, ReadInitially, HandlerInitially
<1>2. IInv /\ ReadInv /\ HandlerInv /\ [Next]_vars => (IInv /\ ReadInv /\ HandlerInv)'
  BY InvariantKept, ReadKept, HandlerKept
<1>3. QED  BY <1>1, <1>2, PTL DEF Spec

-----------------------------------------------------------------------------
(* What the runs check *)

\* Later places are on later lines.
LEMMA LinesGrow ==
  ASSUME TextOK, NEW p \in 0 .. Len(source_code), NEW q \in p .. Len(source_code)
  PROVE  Lines[p] \in 1 .. Lines[q]
<1>1. p \in Nat /\ q \in Nat /\ p <= q /\ q \in 0 .. Len(source_code)
  BY DEF TextOK
<1>2. /\ Lines[p] = 1 + Cardinality(Newlines(p)) /\ Lines[q] = 1 + Cardinality(Newlines(q))
      /\ IsFiniteSet(Newlines(p)) /\ IsFiniteSet(Newlines(q))
      /\ Cardinality(Newlines(p)) \in Nat /\ Cardinality(Newlines(q)) \in Nat
  BY <1>1, PlaceOf
<1>3. Newlines(p) \subseteq Newlines(q)
  BY <1>1 DEF Newlines
<1>4. Cardinality(Newlines(p)) <= Cardinality(Newlines(q))
  BY <1>2, <1>3, FS_Subset
<1>5. QED  BY <1>2, <1>4

\* Types, and the counters agree with the text.
LEMMA InvariantTypes == IInv /\ ReadInv /\ HandlerInv => TypeOK
<1> SUFFICES ASSUME IInv, ReadInv, HandlerInv PROVE TypeOK
  OBVIOUS
<1>1. input.initializer \in {"cstr", "file", "string"} /\ input.text \in Seq(Char)
  BY InputsAssumption DEF IInv, Stages
<1>2. source_code \in Seq(Char) /\ index \in 0 .. Len(source_code) /\ TextOK
  BY DEF IInv, TextOK
<1>3. line_number = Lines[index] /\ column = Columns[index]
  BY DEF ReadInv, PlaceInv
<1>4. line_number = LineOf(index) /\ column = ColumnOf(index)
  BY <1>2, <1>3, PlaceOf
<1>5. ASSUME NEW k \in 1 .. Len(token_list)
      PROVE  /\ token_list[k].index \in 0 .. index - 1
             /\ token_list[k].line \in 1 .. line_number
  <2> DEFINE token == token_list[k]
  <2>1. TokenTrue(token) /\ End(token) <= index
    BY DEF ReadInv, TokensInv
  <2> HIDE DEF token
  <2>2. /\ token.index \in 0 .. Len(source_code) - 1
        /\ End(token) \in token.index + 1 .. Len(source_code)
        /\ token.line = Lines[token.index]
    BY <2>1 DEF TokenTrue
  <2>3. /\ token.index \in 0 .. index - 1 /\ token.index \in 0 .. Len(source_code)
        /\ index \in token.index .. Len(source_code)
    BY <1>2, <2>1, <2>2
  <2>4. token.line \in 1 .. line_number
    BY <1>2, <1>3, <2>2, <2>3, LinesGrow
  <2>5. QED  BY <2>3, <2>4 DEF token
<1>6. ASSUME NEW k \in 1 .. Len(error_list)
      PROVE  error_list[k].index \in 0 .. index - 1
  <2>1. error_list[k].index \in Faults /\ error_list[k].index < index
    BY DEF ReadInv, ErrorsInv, ErrorTrue
  <2>2. error_list[k].index \in 0 .. Len(source_code) - 1
    BY <2>1 DEF Faults
  <2>3. QED  BY <1>2, <2>1, <2>2
<1>7. QED  BY <1>1, <1>2, <1>4, <1>5, <1>6 DEF TypeOK, HandlerInv

\* The tokens split the text.
LEMMA InvariantAccounts == IInv /\ ReadInv => TextAccounted
<1> SUFFICES ASSUME IInv, ReadInv PROVE TextAccounted
  OBVIOUS
<1>1. index \in Nat /\ Len(source_code) \in Nat /\ index <= Len(source_code) /\ TextOK
  BY DEF IInv, TextOK
<1>2. ASSUME NEW k \in 1 .. Len(token_list)
      PROVE  /\ TokenTrue(token_list[k]) /\ End(token_list[k]) <= index
             /\ token_list[k].index \in 0 .. Len(source_code) - 1
             /\ token_list[k].index \in 0 .. Len(source_code)
             /\ End(token_list[k]) \in Nat
  BY <1>1 DEF ReadInv, TokensInv, TokenTrue
<1>3. ASSUME NEW p \in 0 .. index - 1
      PROVE  Cardinality({k \in 1 .. Len(token_list) :
                            p \in token_list[k].index .. End(token_list[k]) - 1})
               = IF Silent(p) THEN 0 ELSE 1
  <2> DEFINE Holders == {k \in 1 .. Len(token_list) :
                           p \in token_list[k].index .. End(token_list[k]) - 1}
  <2>1. p \in Silents <=> Silent(p)
    BY <1>1 DEF Silents
  <2>2. p \in Silents <=> \A k \in 1 .. Len(token_list) : p \notin Held(token_list[k])
    BY DEF ReadInv, TokensInv
  <2>3. Silent(p) <=> Holders = {}
    BY <2>1, <2>2 DEF Held
  <2>4. CASE Silent(p)
    <3>1. Cardinality(Holders) = 0
      BY <2>3, <2>4, FS_EmptySet
    <3>2. QED  BY <2>4, <3>1
  <2>5. CASE ~Silent(p)
    <3>1. PICK k : k \in Holders
      BY <2>3, <2>5
    <3>2. k \in 1 .. Len(token_list) /\ p \in token_list[k].index .. End(token_list[k]) - 1
      BY <3>1
    <3>3. ASSUME NEW j \in Holders, j # k
          PROVE  FALSE
      <4>1. j \in 1 .. Len(token_list) /\ p \in token_list[j].index .. End(token_list[j]) - 1
        BY <3>3
      <4>2. j < k \/ k < j
        BY <3>2, <3>3, <4>1
      <4>3. \/ End(token_list[j]) <= token_list[k].index
            \/ End(token_list[k]) <= token_list[j].index
        BY <3>2, <4>1, <4>2 DEF ReadInv, TokensInv
      <4>4. /\ token_list[j].index \in Nat /\ token_list[k].index \in Nat
            /\ End(token_list[j]) \in Nat /\ End(token_list[k]) \in Nat /\ p \in Nat
        BY <1>1, <1>2, <3>2, <4>1
      <4>5. QED  BY <3>2, <4>1, <4>3, <4>4
    <3> HIDE DEF Holders
    <3>4. Holders = {k}
      BY <3>1, <3>3
    <3>5. Cardinality(Holders) = 1
      BY <3>4, FS_Singleton
    <3>6. QED  BY <2>5, <3>5 DEF Holders
  <2>6. QED  BY <2>4, <2>5
<1>4. ASSUME NEW k \in 1 .. Len(token_list)
      PROVE  LET token == token_list[k] IN
             /\ k > 1 => End(token_list[k - 1]) <= token.index
             /\ End(token) <= index
             /\ token.type # "eoft" =>
                  token.string = SubSeq(source_code, token.index + 1, End(token))
             /\ token.line = LineOf(token.index)
             /\ At(token.index) # "quote" => token.index_in_line = ColumnOf(token.index)
  <2> DEFINE token == token_list[k]
  <2>1. TokenTrue(token) /\ End(token) <= index /\ token.index \in 0 .. Len(source_code)
    BY <1>2
  <2>2. Lines[token.index] = LineOf(token.index) /\ Columns[token.index] = ColumnOf(token.index)
    BY <1>1, <2>1, PlaceOf
  <2>3. k > 1 => End(token_list[k - 1]) <= token.index
    <3> SUFFICES ASSUME k > 1 PROVE End(token_list[k - 1]) <= token.index
      OBVIOUS
    <3>1. k - 1 \in 1 .. Len(token_list) /\ k - 1 < k
      OBVIOUS
    <3>2. QED  BY <3>1 DEF ReadInv, TokensInv
  <2> HIDE DEF token
  <2>4. /\ token.type # "eoft" =>
             token.string = SubSeq(source_code, token.index + 1, End(token))
        /\ token.line = Lines[token.index]
        /\ At(token.index) # "quote" => token.index_in_line = Columns[token.index]
    BY <2>1 DEF TokenTrue
  <2>5. QED  BY <2>1, <2>2, <2>3, <2>4 DEF token
<1>5. CharactersAccounted
  BY <1>3, <1>4, Zenon DEF CharactersAccounted
<1>6. TokensLongest
  BY <1>2 DEF TokensLongest, TokenTrue
<1>7. QED  BY <1>5, <1>6 DEF TextAccounted

\* The errors are those of the text.
LEMMA InvariantErrors == IInv /\ ReadInv => ErrorsAtFaults
<1> SUFFICES ASSUME IInv, ReadInv PROVE ErrorsAtFaults
  OBVIOUS
<1>1. index \in Nat /\ Len(source_code) \in Nat /\ index <= Len(source_code) /\ TextOK
  BY DEF IInv, TextOK
<1>2. ASSUME NEW k \in 1 .. Len(error_list)
      PROVE  /\ error_list[k].index \in Faults /\ error_list[k].index < index
             /\ error_list[k].line = Lines[error_list[k].index]
             /\ error_list[k].index \in 0 .. Len(source_code)
             /\ error_list[k].index \in 0 .. index - 1 /\ Fault(error_list[k].index)
  BY <1>1 DEF ReadInv, ErrorsInv, ErrorTrue, Faults
<1>3. {error_list[k].index : k \in 1 .. Len(error_list)} = {p \in 0 .. index - 1 : Fault(p)}
  <2>1. ASSUME NEW p \in 0 .. index - 1, Fault(p)
        PROVE  \E k \in 1 .. Len(error_list) : error_list[k].index = p
    <3>1. p \in Faults
      BY <1>1, <2>1 DEF Faults
    <3>2. QED  BY <3>1 DEF ReadInv, ErrorsInv
  <2>2. QED  BY <1>2, <2>1
<1>4. \A j, k \in 1 .. Len(error_list) : j < k => error_list[j].index < error_list[k].index
  BY DEF ReadInv, ErrorsInv
<1>5. \A k \in 1 .. Len(error_list) : error_list[k].line = LineOf(error_list[k].index)
  BY <1>1, <1>2, PlaceOf
<1>6. ASSUME NEW k \in 1 .. Len(token_list)
      PROVE  token_list[k].type = "error" <=> Fault(token_list[k].index)
  <2>1. /\ token_list[k].type = "error" <=> token_list[k].index \in Faults
        /\ token_list[k].index \in 0 .. Len(source_code) - 1
    BY DEF ReadInv, TokensInv, TokenTrue
  <2>2. QED  BY <2>1 DEF Faults
<1>7. QED  BY <1>3, <1>4, <1>5, <1>6 DEF ErrorsAtFaults

\* The handler's copy agrees with the text at every place of the copy.
LEMMA CopyAgrees ==
  ASSUME NEW text \in Seq(Char), TextOK,
         source_code \in {text, Append(text, "eof")}
  PROVE  /\ Len(text) \in Nat /\ Len(source_code) \in Nat /\ Len(text) <= Len(source_code)
         /\ \A q \in 0 .. Len(text) - 1 :
              CharAt(text, q) = At(q) /\ text[q + 1] = source_code[q + 1]
         /\ \A q \in Len(text) .. Len(source_code) - 1 : At(q) = "eof"
<1>1. Len(text) \in Nat /\ Len(source_code) \in Nat /\ Len(text) <= Len(source_code)
  OBVIOUS
<1>2. \A q \in 0 .. Len(text) - 1 : text[q + 1] = source_code[q + 1]
  OBVIOUS
<1>3. \A q \in 0 .. Len(text) - 1 : CharAt(text, q) = At(q)
  BY <1>1, <1>2 DEF CharAt, At
<1>4. \A q \in Len(text) .. Len(source_code) - 1 : source_code[q + 1] = "eof"
  OBVIOUS
<1>5. \A q \in Len(text) .. Len(source_code) - 1 : At(q) = "eof"
  BY <1>1, <1>4 DEF CharAt, At
<1>6. QED  BY <1>1, <1>2, <1>3, <1>5

\* The line that the handler finds for an error is the one it is on.
LEMMA LineFound ==
  ASSUME NEW text \in Seq(Char), TextOK, source_code \in {text, Append(text, "eof")},
         NEW p \in 0 .. Len(text) - 1
  PROVE  /\ FindLineStart(text, p) = LineStart(p)
         /\ GetLineNumber(text, LineStart(p)) = LineOf(p)
<1>1. /\ Len(text) \in Nat /\ Len(source_code) \in Nat /\ Len(text) <= Len(source_code)
      /\ \A q \in 0 .. Len(text) - 1 : CharAt(text, q) = At(q)
  BY CopyAgrees
<1>2. p \in Nat
  BY <1>1
<1> DEFINE s == LineStart(p)
<1>3. /\ s \in 0 .. p
      /\ s = 0 \/ At(s - 1) = "eol"
      /\ \A r \in s .. p - 1 : At(r) # "eol"
  BY <1>2, LineBegins
<1>4. FindLineStart(text, p) = s
  <2> DEFINE Start(t) == /\ t = 0 \/ CharAt(text, t - 1) = "eol"
                         /\ \A i \in t .. p - 1 : CharAt(text, i) # "eol"
             found == FindLineStart(text, p)
  <2>1. ASSUME NEW t \in 0 .. p
        PROVE  Start(t) <=> (/\ t = 0 \/ At(t - 1) = "eol"
                             /\ \A r \in t .. p - 1 : At(r) # "eol")
    <3>1. t # 0 => CharAt(text, t - 1) = At(t - 1)
      BY <1>1, <1>2
    <3>2. \A i \in t .. p - 1 : CharAt(text, i) = At(i)
      BY <1>1, <1>2
    <3>3. QED  BY <3>1, <3>2
  <2>2. s \in 0 .. p /\ Start(s)
    BY <1>3, <2>1
  <2>3. found = CHOOSE t \in 0 .. p : Start(t)
    BY Zenon DEF FindLineStart
  <2> HIDE DEF Start, found
  <2>4. found \in 0 .. p /\ Start(found)
    BY <2>2, <2>3, Zenon
  <2>5. /\ found = 0 \/ At(found - 1) = "eol"
        /\ \A r \in found .. p - 1 : At(r) # "eol"
    BY <2>1, <2>4
  <2>6. LineStart(p) = found
    BY <1>2, <2>4, <2>5, LineBegin
  <2>7. QED  BY <2>6 DEF found
<1> HIDE DEF s
<1>5. Newlines(s) = Newlines(p)
  <2>1. \A r \in 0 .. p - 1 : r \in 0 .. s - 1 \/ r \in s .. p - 1
    BY <1>2, <1>3
  <2>2. \A r \in 0 .. s - 1 : r \in 0 .. p - 1
    BY <1>2, <1>3
  <2>3. QED  BY <1>3, <2>1, <2>2 DEF Newlines
<1>6. GetLineNumber(text, s) = 1 + Cardinality(Newlines(s))
  <2>1. \A i \in 0 .. s - 1 : CharAt(text, i) = At(i)
    BY <1>1, <1>2, <1>3
  <2>2. {i \in 0 .. s - 1 : CharAt(text, i) = "eol"} = Newlines(s)
    BY <2>1 DEF Newlines
  <2>3. QED  BY <2>2 DEF GetLineNumber
<1>7. LineOf(p) = 1 + Cardinality(Newlines(p))
  BY <1>2, LinesCounted
<1>8. QED  BY <1>4, <1>5, <1>6, <1>7 DEF s

\* And what it prints of it is the line, but for the character that ends a text.
LEMMA LineShown ==
  ASSUME NEW text \in Seq(Char), TextOK, source_code \in {text, Append(text, "eof")},
         NEW p \in 0 .. Len(text) - 1, At(p) # "eof"
  PROVE  ErrorLine(text, LineStart(p)) \in {LineAt(p), Append(LineAt(p), "eof")}
<1> DEFINE s == LineStart(p)
           S == Char \ {"eol", "eof"}
           q == Past(s, S)
           Ends(e) == /\ CharAt(text, e) \in {"eol", "nul"}
                      /\ \A i \in s .. e - 1 : CharAt(text, i) \notin {"eol", "nul"}
           end == CHOOSE e \in s .. s + Len(text) : Ends(e)
<1>1. /\ Len(text) \in Nat /\ Len(source_code) \in Nat /\ Len(text) <= Len(source_code)
      /\ p \in Nat /\ p < Len(text)
  BY CopyAgrees
<1>2. /\ \A r \in 0 .. Len(text) - 1 : CharAt(text, r) = At(r) /\ text[r + 1] = source_code[r + 1]
      /\ \A r \in Len(text) .. Len(source_code) - 1 : At(r) = "eof"
  BY CopyAgrees
<1>3. s \in 0 .. p /\ s \in Nat /\ ColumnOf(p) = p - s
  BY <1>1, LineBegins
<1>4. ErrorLine(text, s) = SubSeq(text, s + 1, end)
  BY Zenon DEF ErrorLine
<1>5. LineAt(p) = SubSeq(source_code, s + 1, q)
  <2>1. p - ColumnOf(p) = s
    BY <1>1, <1>3
  <2> HIDE DEF s
  <2>2. QED  BY <2>1, Zenon DEF LineAt
<1>6. "nul" \notin S
  BY Alphabet DEF S
<1>7. /\ q \in s .. Len(source_code) /\ At(q) \notin S
      /\ \A r \in s .. q - 1 : At(r) \in S
  <2> HIDE DEF s, S
  <2>1. s \in 0 .. Len(source_code)
    BY <1>1, <1>3
  <2>2. QED  BY <1>6, <2>1, Scan
<1> HIDE DEF s, q, S
<1>8. q \in Nat /\ (q < Len(source_code) => At(q) \in {"eol", "eof"})
  <2>1. q \in Nat
    BY <1>3, <1>7
  <2>2. q < Len(source_code) => At(q) \in Char
    BY <2>1, Reading
  <2>3. QED  BY <1>7, <2>1, <2>2 DEF S
<1>9. q <= Len(text)
  <2> SUFFICES ASSUME q > Len(text) PROVE FALSE
    BY <1>1, <1>8
  <2>1. Len(text) \in s .. q - 1 /\ Len(text) \in Len(text) .. Len(source_code) - 1
    BY <1>1, <1>3, <1>7, <1>8
  <2>2. At(Len(text)) \in S /\ At(Len(text)) = "eof"
    BY <1>2, <1>7, <2>1
  <2>3. QED  BY <2>2 DEF S
<1>10. ASSUME NEW r \in s .. q - 1
       PROVE  CharAt(text, r) \notin {"eol", "nul"}
  <2>1. r \in 0 .. Len(text) - 1
    BY <1>1, <1>3, <1>8, <1>9
  <2>2. CharAt(text, r) \in S
    BY <1>2, <1>7, <2>1
  <2>3. QED  BY <1>6, <2>2 DEF S
<1>11. CharAt(text, Len(text)) = "nul"
  BY <1>1 DEF CharAt
\* There is one end of a line only.
<1>12. ASSUME NEW e \in s .. Len(text), Ends(e)
       PROVE  end = e
  <2>1. e \in s .. s + Len(text)
    BY <1>1, <1>3
  <2>2. end \in s .. s + Len(text) /\ Ends(end)
    <3> HIDE DEF Ends
    <3>1. QED  BY <1>12, <2>1, Zenon
  <2> HIDE DEF end
  <2>3. end \in Nat /\ e \in Nat /\ s <= e /\ s <= end
    BY <1>1, <1>3, <2>2
  <2>4. ~(e < end)
    <3> SUFFICES ASSUME e < end PROVE FALSE
      OBVIOUS
    <3>1. e \in s .. end - 1
      BY <1>3, <2>3
    <3>2. QED  BY <1>12, <2>2, <3>1
  <2>5. ~(end < e)
    <3> SUFFICES ASSUME end < e PROVE FALSE
      OBVIOUS
    <3>1. end \in s .. e - 1
      BY <1>3, <2>3
    <3>2. QED  BY <1>12, <2>2, <3>1
  <2>6. QED  BY <2>3, <2>4, <2>5
<1>13. ASSUME NEW e \in s .. Len(text)
       PROVE  SubSeq(text, s + 1, e) = SubSeq(source_code, s + 1, e)
  <2>1. e \in Nat /\ \A i \in s + 1 .. e : i - 1 \in 0 .. Len(text) - 1 /\ (i - 1) + 1 = i
    BY <1>1, <1>3
  <2>2. \A i \in s + 1 .. e : text[i] = source_code[i]
    BY <1>2, <2>1
  <2>3. SubSeq(text, s + 1, e) = [i \in 1 .. e - s |-> text[s + i]]
    BY <1>1, <1>3, <2>1, SMTT(30)
  <2>4. SubSeq(source_code, s + 1, e) = [i \in 1 .. e - s |-> source_code[s + i]]
    <3>1. source_code \in Seq(Char) /\ s + 1 \in 1 .. Len(source_code) + 1
          /\ e \in s .. Len(source_code)
      BY <1>1, <1>3, <2>1 DEF TextOK
    <3>2. QED  BY <1>1, <1>3, <2>1, <3>1, SMTT(30)
  <2>5. \A i \in 1 .. e - s : s + i \in s + 1 .. e
    BY <1>3, <2>1
  <2>6. QED  BY <2>2, <2>3, <2>4, <2>5
<1>14. CASE q = Len(text) \/ At(q) = "eol"
  <2>1. q \in s .. Len(text)
    BY <1>1, <1>3, <1>7, <1>9
  <2>2. CharAt(text, q) \in {"eol", "nul"}
    <3>1. CASE q = Len(text)
      BY <1>11, <3>1
    <3>2. CASE q # Len(text)
      <4>1. q \in 0 .. Len(text) - 1
        BY <1>1, <1>8, <1>9, <3>2
      <4>2. QED  BY <1>2, <1>14, <3>2, <4>1
    <3>3. QED  BY <3>1, <3>2
  <2>3. Ends(q)
    BY <1>10, <2>2
  <2>4. end = q
    BY <1>12, <2>1, <2>3
  <2> HIDE DEF end
  <2>5. ErrorLine(text, s) = LineAt(p)
    BY <1>4, <1>5, <1>13, <2>1, <2>4
  <2>6. QED  BY <2>5 DEF s
\* The text ends with EOF itself, which the handler does not know for an end.
<1>15. CASE ~(q = Len(text) \/ At(q) = "eol")
  <2>1. q < Len(text) /\ q < Len(source_code)
    BY <1>1, <1>8, <1>9, <1>15
  <2>2. At(q) = "eof"
    BY <1>8, <1>15, <2>1
  <2>3. q + 1 \in 1 .. Len(text) /\ q \in 0 .. Len(text) - 1 /\ q + 1 \in 1 .. Len(source_code)
    BY <1>1, <1>8, <2>1
  <2>4. source_code[q + 1] = "eof"
    BY <1>8, <2>1, <2>2, Reading
  <2>5. q + 1 = Len(source_code)
    <3>1. q + 1 \notin 1 .. Len(source_code) - 1
      BY <2>4 DEF TextOK
    <3>2. QED  BY <1>1, <1>8, <2>3, <3>1
  <2>6. q + 1 = Len(text)
    BY <1>1, <1>8, <2>1, <2>5
  <2>7. CharAt(text, q) = "eof"
    BY <1>2, <2>2, <2>3
  <2>8. \A r \in s .. (q + 1) - 1 : r \in s .. q - 1 \/ r = q
    BY <1>3, <1>7, <1>8
  <2>9. Ends(q + 1)
    BY <1>10, <1>11, <2>6, <2>7, <2>8
  <2>10. q + 1 \in s .. Len(text)
    BY <1>1, <1>3, <1>7, <1>8, <2>6
  <2>11. end = q + 1
    BY <1>12, <2>9, <2>10
  <2> HIDE DEF end
  <2>12. ErrorLine(text, s) = SubSeq(source_code, s + 1, q + 1)
    BY <1>4, <1>13, <2>10, <2>11
  <2>13. SubSeq(source_code, s + 1, q + 1) = Append(SubSeq(source_code, s + 1, q), "eof")
    <3>1. /\ SubSeq(source_code, s + 1, q + 1) = [i \in 1 .. (q + 1) - s |-> source_code[s + i]]
          /\ SubSeq(source_code, s + 1, q) = [i \in 1 .. q - s |-> source_code[s + i]]
      <4>1. source_code \in Seq(Char) /\ s \in 0 .. q /\ q \in Nat /\ q + 1 <= Len(source_code)
        BY <1>3, <1>7, <1>8, <2>3 DEF TextOK
      <4>2. QED  BY <1>1, <1>3, <4>1, SMTT(30)
    <3>2. q - s \in Nat /\ (q + 1) - s = (q - s) + 1 /\ s + ((q - s) + 1) = q + 1
      BY <1>3, <1>7, <1>8
    <3> DEFINE n == q - s
               short == [i \in 1 .. n |-> source_code[s + i]]
               long == [i \in 1 .. n + 1 |-> source_code[s + i]]
    <3>3. source_code[s + (n + 1)] = "eof" /\ n \in Nat
      BY <2>4, <3>2
    <3>4. \A i \in 1 .. n : source_code[s + i] \in Char
      <4>1. \A i \in 1 .. n : s + i \in 1 .. Len(source_code)
        BY <1>1, <1>3, <1>7, <1>8, <2>3
      <4>2. QED  BY <4>1 DEF TextOK
    <3>5. SubSeq(source_code, s + 1, q + 1) = long /\ SubSeq(source_code, s + 1, q) = short
      BY <3>1, <3>2
    <3> HIDE DEF n
    <3>6. short \in Seq(Char) /\ Len(short) = n /\ long \in Seq(Char \union {"eof"})
          /\ Len(long) = n + 1
      BY <3>3, <3>4
    <3>7. \A i \in 1 .. n : long[i] = short[i]
      BY <3>3
    <3>8. long[n + 1] = "eof"
      BY <3>3
    <3> HIDE DEF short, long
    <3>9. long = Append(short, "eof")
      BY <3>3, <3>6, <3>7, <3>8
    <3>10. QED  BY <3>5, <3>9
  <2>14. ErrorLine(text, s) = Append(LineAt(p), "eof")
    BY <1>5, <2>12, <2>13
  <2>15. QED  BY <2>14 DEF s
<1>16. QED  BY <1>14, <1>15

\* A report shows the line of its error.
LEMMA InvariantReports == IInv /\ ReadInv /\ HandlerInv => ReportsShowLine
<1> SUFFICES ASSUME IInv, ReadInv, HandlerInv,
                    pc = "done", input.initializer # "file", ~error_handler.dangling
             PROVE  /\ Len(reports) = Len(error_list)
                    /\ \A k \in 1 .. Len(reports) :
                         /\ ShowsLine(k)
                         /\ At(error_list[k].index) # "quote" =>
                              reports[k].pointer = ColumnOf(error_list[k].index)
  BY DEF ReportsShowLine
<1> DEFINE text == error_handler.string
<1>1. Len(error_list) \in Nat
  BY Appended DEF IInv
<1>2. /\ text \in Seq(Char) /\ source_code \in {text, Append(text, "eof")} /\ TextOK
      /\ reports = [k \in 1 .. Len(error_list) |-> Report(error_handler, error_list[k])]
  BY DEF HandlerInv, IInv
<1>3. Len(reports) = Len(error_list)
  BY <1>1, <1>2
<1> HIDE DEF text
<1>4. ASSUME NEW k \in 1 .. Len(error_list)
      PROVE  /\ ShowsLine(k)
             /\ At(error_list[k].index) # "quote" =>
                  reports[k].pointer = ColumnOf(error_list[k].index)
  <2> DEFINE p == error_list[k].index
  <2>1. /\ p \in Faults /\ error_list[k].line = Lines[p]
        /\ At(p) # "quote" => error_list[k].column = Columns[p]
    BY DEF ReadInv, ErrorsInv, ErrorTrue
  <2> HIDE DEF p
  <2>2. p \in 0 .. Len(source_code) - 1 /\ At(p) # "eof"
    BY <2>1 DEF Faults, Fault, Sign
  <2>3. p \in 0 .. Len(text) - 1
    <3>1. Len(text) \in Nat /\ \A r \in Len(text) .. Len(source_code) - 1 : At(r) = "eof"
      BY <1>2, CopyAgrees
    <3>2. p \notin Len(text) .. Len(source_code) - 1
      BY <2>2, <3>1
    <3>3. Len(source_code) \in Nat
      BY <1>2 DEF TextOK
    <3>4. QED  BY <2>2, <3>1, <3>2, <3>3
  <2>4. Lines[p] = LineOf(p) /\ Columns[p] = ColumnOf(p)
    <3>1. p \in 0 .. Len(source_code)
      BY <1>2, <2>2 DEF TextOK
    <3>2. QED  BY <1>2, <3>1, PlaceOf
  <2>5. FindLineStart(text, p) = LineStart(p) /\ GetLineNumber(text, LineStart(p)) = LineOf(p)
    BY <1>2, <2>3, LineFound
  <2>6. ErrorLine(text, LineStart(p)) \in {LineAt(p), Append(LineAt(p), "eof")}
    BY <1>2, <2>2, <2>3, LineShown
  <2>7. reports[k] = Report(error_handler, error_list[k])
    BY <1>2
  <2>8. /\ reports[k].line = error_list[k].line
        /\ reports[k].number = GetLineNumber(text, FindLineStart(text, p))
        /\ reports[k].shown = ErrorLine(text, FindLineStart(text, p))
        /\ reports[k].pointer = error_list[k].column
    BY <2>7 DEF Report, text, p
  <2>9. /\ reports[k].number = LineOf(p) /\ reports[k].line = LineOf(p)
        /\ reports[k].shown \in {LineAt(p), Append(LineAt(p), "eof")}
        /\ At(p) # "quote" => reports[k].pointer = ColumnOf(p)
    BY <2>1, <2>4, <2>5, <2>6, <2>8
  <2>10. QED  BY <2>9, Zenon DEF p, ShowsLine
<1>5. QED  BY <1>3, <1>4

\* Line and column are those of the place in the text, after every kind of token.
THEOREM TypeCorrect == Spec => []TypeOK
BY ReadAlways, InvariantTypes, PTL

\* Whatever the text: every character that was read is in exactly one token, or is a
\* blank, in a comment or unknown; tokens hold the text they stand at and are as long
\* as can be.
THEOREM SplitsText == Spec => []TextAccounted
BY ReadAlways, InvariantAccounts, PTL

\* There is an error for every fault in what was read of the text, and for nothing else.
THEOREM ErrorsExact == Spec => []ErrorsAtFaults
BY ReadAlways, InvariantErrors, PTL

\* A report shows the line its error is on, where the handler still has the text.
THEOREM ReportsTrue == Spec => []ReportsShowLine
BY ReadAlways, InvariantReports, PTL
=============================================================================
