------------------------- MODULE PreprocessorProofs -------------------------
(***************************************************************************)
(* For every text: where the cursors of the preprocessor may stand, what   *)
(* the macro list says of the text, and what becomes of the text.          *)
(***************************************************************************)
EXTENDS Preprocessor, FiniteSetTheorems, SequenceTheorems, WellFoundedInduction, TLAPS

-----------------------------------------------------------------------------
(* Induction over sets of numbers, and recursion by it *)

\* A set of natural numbers that is not empty has a least one.
LEMMA LeastNumber ==
  ASSUME NEW T, T \subseteq Nat, T # {}
  PROVE  \E x \in T : \A y \in T : x <= y
<1>1. PICK x \in T : \A y \in T : <<y, x>> \notin OpToRel(<, Nat)
  BY WFMin, NatLessThanWellFounded, Zenon
<1>2. \A y \in T : ~(y < x)
  BY <1>1, Zenon DEF OpToRel
<1> QED  BY <1>2

\* What holds of 0, and with a number of the next one, holds of all.
LEMMA Induction ==
  ASSUME NEW T, 0 \in T, \A n \in Nat : n \in T => n + 1 \in T
  PROVE  \A n \in Nat : n \in T
<1> SUFFICES ASSUME NEW n \in Nat, n \notin T PROVE FALSE
  OBVIOUS
<1>1. PICK x \in Nat \ T : \A y \in Nat \ T : x <= y
  <2>1. Nat \ T \subseteq Nat /\ Nat \ T # {}
    OBVIOUS
  <2>2. QED  BY <2>1, LeastNumber, Zenon
<1>2. x # 0 /\ x - 1 \in Nat /\ x - 1 \in T
  BY <1>1
<1>3. QED  BY <1>1, <1>2

\* A recursion over the numbers up to a bound has a solution.
LEMMA Recursion ==
  ASSUME NEW S, NEW a \in S, NEW bound \in Nat,
         NEW step \in [1 .. bound -> [S -> S]]
  PROVE  \E g \in [0 .. bound -> S] :
           g[0] = a /\ \A p \in 1 .. bound : g[p] = step[p][g[p - 1]]
<1> DEFINE G(n) == {g \in [0 .. n -> S] :
                       /\ g[0] = a
                       /\ \A p \in 1 .. n : g[p] = step[p][g[p - 1]]}
           T == {n \in Nat : n <= bound => G(n) # {}}
<1>1. 0 \in T
  <2>1. [p \in 0 .. 0 |-> a] \in G(0)
    OBVIOUS
  <2> HIDE DEF G
  <2>2. QED  BY <2>1
<1>2. ASSUME NEW n \in Nat, n \in T
      PROVE  n + 1 \in T
  <2> SUFFICES ASSUME n + 1 <= bound PROVE \E h : h \in G(n + 1)
    OBVIOUS
  <2>1. PICK g : g \in G(n)
    <3> HIDE DEF G
    <3>1. QED  BY <1>2
  <2>2. /\ g[0] = a
        /\ \A p \in 0 .. n : g[p] \in S
        /\ \A p \in 1 .. n : g[p] = step[p][g[p - 1]]
    BY <2>1
  <2> HIDE DEF G
  <2> DEFINE h == [p \in 0 .. n + 1 |-> IF p = n + 1 THEN step[n + 1][g[n]] ELSE g[p]]
  <2>3. step[n + 1][g[n]] \in S
    <3>1. n + 1 \in 1 .. bound /\ g[n] \in S
      BY <2>2
    <3>2. QED  BY <3>1
  <2>4. h \in [0 .. n + 1 -> S]
    BY <2>2, <2>3
  <2>5. \A p \in 0 .. n : h[p] = g[p]
    OBVIOUS
  <2>6. h[n + 1] = step[n + 1][g[n]]
    OBVIOUS
  <2> HIDE DEF h
  <2>7. ASSUME NEW p \in 1 .. n + 1
        PROVE  h[p] = step[p][h[p - 1]]
    <3>1. CASE p = n + 1
      BY <3>1, <2>5, <2>6
    <3>2. CASE p # n + 1
      <4>1. p \in 1 .. n /\ p \in 0 .. n /\ p - 1 \in 0 .. n
        BY <3>2
      <4>2. QED  BY <4>1, <2>2, <2>5
    <3>3. QED  BY <3>1, <3>2
  <2>8. h[0] = a
    BY <2>2, <2>5
  <2>9. h \in G(n + 1)
    BY <2>4, <2>7, <2>8 DEF G
  <2>10. QED  BY <2>9
<1>3. bound \in T
  <2> HIDE DEF T
  <2>1. QED  BY <1>1, <1>2, Induction
<1>4. PICK g : g \in G(bound)
  <2> HIDE DEF G
  <2>1. QED  BY <1>3
<1>5. QED  BY <1>4

-----------------------------------------------------------------------------
(* The token list *)

Symbol == Name \union Keyword

\* What the definition of the list of the first p tokens says.
LEMMA TokensDefined ==
  ASSUME IsSource(source)
  PROVE  /\ TokensUpTo[0] = <<>>
         /\ \A p \in 0 .. Len(source) : TokensUpTo[p] \in Seq(Nat)
         /\ \A p \in 1 .. Len(source) :
              TokensUpTo[p] = IF source[p] = "blank" THEN TokensUpTo[p - 1]
                              ELSE Append(TokensUpTo[p - 1], p)
<1> DEFINE L == Len(source)
           S == Seq(Nat)
           empty == <<>>
           step == [p \in 1 .. L |-> [list \in S |->
                      IF source[p] = "blank" THEN list ELSE Append(list, p)]]
<1>1. L \in Nat
  BY DEF IsSource
<1>2. step \in [1 .. L -> [S -> S]]
  BY <1>1
<1>3. empty \in S
  OBVIOUS
<1>4. PICK g \in [0 .. L -> S] :
        g[0] = empty /\ \A p \in 1 .. L : g[p] = step[p][g[p - 1]]
  <2> HIDE DEF L, S, empty, step
  <2>1. QED  BY <1>1, <1>2, <1>3, Recursion
<1>5. ASSUME NEW p \in 1 .. L
      PROVE  g[p] = IF source[p] = "blank" THEN g[p - 1] ELSE Append(g[p - 1], p)
  <2>1. g[p - 1] \in S
    BY <1>1, <1>4
  <2>2. QED  BY <1>4, <2>1
<1> DEFINE R(f) == [p \in 0 .. L |-> IF p = 0 THEN <<>>
                                     ELSE IF source[p] = "blank" THEN f[p - 1]
                                     ELSE Append(f[p - 1], p)]
<1>6. g = R(g)
  <2>1. ASSUME NEW p \in 0 .. L
        PROVE  g[p] = R(g)[p]
    <3>1. p = 0 \/ p \in 1 .. L
      BY <1>1
    <3> HIDE DEF L, step
    <3>2. QED  BY <3>1, <1>4, <1>5
  <2>2. R(g) = [p \in 0 .. L |-> R(g)[p]]
    OBVIOUS
  <2> HIDE DEF R, L, step, S
  <2>3. g = [p \in 0 .. L |-> g[p]]
    BY <1>4
  <2>4. QED  BY <2>1, <2>2, <2>3
<1>7. TokensUpTo = R(TokensUpTo)
  BY <1>6, Zenon DEF TokensUpTo
<1> HIDE DEF step
<1>8. /\ TokensUpTo[0] = <<>>
      /\ \A p \in 1 .. L : TokensUpTo[p] = IF source[p] = "blank" THEN TokensUpTo[p - 1]
                                           ELSE Append(TokensUpTo[p - 1], p)
  <2>1. \A p \in 0 .. L : TokensUpTo[p] = R(TokensUpTo)[p]
    BY <1>7, Zenon
  <2>2. 0 \in 0 .. L /\ \A p \in 1 .. L : p \in 0 .. L /\ p # 0
    BY <1>1
  <2>3. \A p \in 0 .. L : R(TokensUpTo)[p] =
          IF p = 0 THEN <<>> ELSE IF source[p] = "blank" THEN TokensUpTo[p - 1]
                             ELSE Append(TokensUpTo[p - 1], p)
    OBVIOUS
  <2> HIDE DEF R
  <2>4. QED  BY <2>1, <2>2, <2>3
<1> DEFINE T == {n \in Nat : n <= L => TokensUpTo[n] \in Seq(Nat)}
<1>9. 0 \in T
  BY <1>3, <1>8
<1>10. ASSUME NEW n \in Nat, n \in T
       PROVE  n + 1 \in T
  <2> SUFFICES ASSUME n + 1 <= L PROVE TokensUpTo[n + 1] \in Seq(Nat)
    OBVIOUS
  <2>1. TokensUpTo[n] \in Seq(Nat) /\ n + 1 \in 1 .. L
    BY <1>1, <1>10
  <2>2. TokensUpTo[n + 1] = IF source[n + 1] = "blank" THEN TokensUpTo[n]
                            ELSE Append(TokensUpTo[n], n + 1)
    BY <1>8, <2>1
  <2>3. QED  BY <2>1, <2>2
<1>11. \A n \in Nat : n \in T
  <2> HIDE DEF T
  <2>1. QED  BY <1>9, <1>10, Induction
<1>12. \A p \in 0 .. L : TokensUpTo[p] \in Seq(Nat)
  BY <1>1, <1>11
<1>13. QED  BY <1>8, <1>12

\* The tokens of the first p symbols: the places that are not blank, in their order.
InOrder(list, p) ==
  /\ \A k \in 1 .. Len(list) : list[k] \in 1 .. p /\ source[list[k]] # "blank"
  /\ \A j, k \in 1 .. Len(list) : j < k => list[j] < list[k]
  /\ \A q \in 1 .. p : source[q] # "blank" => \E k \in 1 .. Len(list) : list[k] = q

LEMMA TokensInOrder ==
  ASSUME IsSource(source)
  PROVE  \A p \in 0 .. Len(source) : InOrder(TokensUpTo[p], p)
<1> DEFINE L == Len(source)
           T == {n \in Nat : n <= L => InOrder(TokensUpTo[n], n)}
<1>1. L \in Nat
  BY DEF IsSource
<1>2. /\ TokensUpTo[0] = <<>>
      /\ \A p \in 0 .. L : TokensUpTo[p] \in Seq(Nat)
      /\ \A p \in 1 .. L :
           TokensUpTo[p] = IF source[p] = "blank" THEN TokensUpTo[p - 1]
                           ELSE Append(TokensUpTo[p - 1], p)
  BY TokensDefined, Zenon
<1>3. 0 \in T
  BY <1>2 DEF InOrder
<1>4. ASSUME NEW n \in Nat, n \in T
      PROVE  n + 1 \in T
  <2> SUFFICES ASSUME n + 1 <= L PROVE InOrder(TokensUpTo[n + 1], n + 1)
    OBVIOUS
  <2> DEFINE s == TokensUpTo[n]
             t == TokensUpTo[n + 1]
  <2>1. InOrder(s, n) /\ s \in Seq(Nat)
    BY <1>1, <1>2, <1>4
  <2>2. t = IF source[n + 1] = "blank" THEN s ELSE Append(s, n + 1)
    BY <1>1, <1>2
  <2> HIDE DEF s, t, L, T
  <2> SUFFICES InOrder(t, n + 1)
    BY DEF t
  <2>3. CASE source[n + 1] = "blank"
    <3>1. t = s
      BY <2>2, <2>3
    <3>2. \A q \in 1 .. n + 1 : q = n + 1 \/ q \in 1 .. n
      OBVIOUS
    <3>3. QED  BY <2>1, <2>3, <3>1, <3>2 DEF InOrder
  <2>4. CASE source[n + 1] # "blank"
    <3>1. /\ Len(t) = Len(s) + 1 /\ Len(s) \in Nat /\ t[Len(s) + 1] = n + 1
          /\ \A k \in 1 .. Len(s) : t[k] = s[k]
      BY <2>1, <2>2, <2>4
    <3>2. ASSUME NEW k \in 1 .. Len(t)
          PROVE  t[k] \in 1 .. n + 1 /\ source[t[k]] # "blank"
      <4>1. CASE k = Len(s) + 1
        BY <4>1, <2>4, <3>1
      <4>2. CASE k # Len(s) + 1
        <5>1. k \in 1 .. Len(s)
          BY <4>2, <3>1
        <5>2. s[k] \in 1 .. n /\ source[s[k]] # "blank" /\ t[k] = s[k]
          BY <5>1, <3>1, <2>1 DEF InOrder
        <5>3. QED  BY <5>2
      <4>3. QED  BY <4>1, <4>2
    <3>3. \A j, k \in 1 .. Len(t) : j < k => t[j] < t[k]
      <4> SUFFICES ASSUME NEW j \in 1 .. Len(t), NEW k \in 1 .. Len(t), j < k
                   PROVE  t[j] < t[k]
        OBVIOUS
      <4>1. j \in 1 .. Len(s) /\ s[j] \in 1 .. n /\ t[j] = s[j]
        BY <2>1, <3>1 DEF InOrder
      <4>2. CASE k = Len(s) + 1
        BY <4>1, <4>2, <3>1
      <4>3. CASE k # Len(s) + 1
        <5>1. k \in 1 .. Len(s) /\ t[k] = s[k]
          BY <4>3, <3>1
        <5>2. QED  BY <4>1, <5>1, <2>1 DEF InOrder
      <4>4. QED  BY <4>2, <4>3
    <3>4. ASSUME NEW q \in 1 .. n + 1, source[q] # "blank"
          PROVE  \E k \in 1 .. Len(t) : t[k] = q
      <4>1. CASE q = n + 1
        BY <4>1, <3>1
      <4>2. CASE q # n + 1
        <5>1. PICK k \in 1 .. Len(s) : s[k] = q
          BY <4>2, <3>4, <2>1 DEF InOrder
        <5>2. QED  BY <5>1, <3>1
      <4>3. QED  BY <4>1, <4>2
    <3>5. QED  BY <3>2, <3>3, <3>4 DEF InOrder
  <2>5. QED  BY <2>3, <2>4
<1>5. \A n \in Nat : n \in T
  <2> HIDE DEF T
  <2>1. QED  BY <1>3, <1>4, Induction
<1>6. QED  BY <1>1, <1>5

\* The token list of a text: it has the EOF, at its end.
LEMMA Tokenized ==
  ASSUME IsSource(source)
  PROVE  /\ Len(source) \in Nat \ {0} /\ source[Len(source)] = "eoft"
         /\ \A p \in 1 .. Len(source) : source[p] \in Symbol
         /\ \A p \in 1 .. Len(source) : source[p] = "eoft" => p = Len(source)
         /\ TokenList \in Seq(Nat) /\ Len(TokenList) \in Nat \ {0}
         /\ InOrder(TokenList, Len(source))
         /\ TokenList[Len(TokenList)] = Len(source)
<1>1. /\ Len(source) \in Nat \ {0} /\ source[Len(source)] = "eoft"
      /\ \A p \in 1 .. Len(source) : source[p] \in Symbol
      /\ \A p \in 1 .. Len(source) : source[p] = "eoft" => p = Len(source)
  BY DEF IsSource, Symbol
<1>2. TokenList \in Seq(Nat) /\ InOrder(TokenList, Len(source))
  BY <1>1, TokensDefined, TokensInOrder DEF TokenList
<1>3. PICK k \in 1 .. Len(TokenList) : TokenList[k] = Len(source)
  BY <1>1, <1>2 DEF InOrder
<1>4. Len(TokenList) \in Nat
  BY <1>2
<1>5. k = Len(TokenList)
  <2> SUFFICES ASSUME k < Len(TokenList) PROVE FALSE
    BY <1>3, <1>4
  <2>1. TokenList[k] < TokenList[Len(TokenList)]
        /\ TokenList[Len(TokenList)] \in 1 .. Len(source)
    BY <1>2, <1>3, <1>4 DEF InOrder
  <2>2. QED  BY <1>1, <1>3, <2>1
<1>6. QED  BY <1>1, <1>2, <1>3, <1>4, <1>5

\* A token, and the one after it.
LEMMA TokenAt ==
  ASSUME IsSource(source), NEW k \in 1 .. Len(TokenList)
  PROVE  /\ TokenList[k] \in 1 .. Len(source)
         /\ Token(k) = source[TokenList[k]] /\ Token(k) \in Symbol /\ Token(k) # "blank"
         /\ Token(k) = "eoft" <=> k = Len(TokenList)
         /\ Token(k) # "eoft" =>
              /\ k < Len(TokenList) /\ k + 1 \in 1 .. Len(TokenList)
              /\ TokenList[k] < TokenList[k + 1]
<1>1. /\ InOrder(TokenList, Len(source)) /\ Len(TokenList) \in Nat
      /\ TokenList[Len(TokenList)] = Len(source) /\ Len(source) \in Nat
      /\ source[Len(source)] = "eoft"
      /\ \A p \in 1 .. Len(source) : source[p] \in Symbol
      /\ \A p \in 1 .. Len(source) : source[p] = "eoft" => p = Len(source)
  BY Tokenized
<1>2. TokenList[k] \in 1 .. Len(source) /\ source[TokenList[k]] # "blank"
  BY <1>1 DEF InOrder
<1>3. k # Len(TokenList) => k < Len(TokenList) /\ k + 1 \in 1 .. Len(TokenList)
                            /\ TokenList[k] < TokenList[k + 1]
  BY <1>1 DEF InOrder
<1>4. k # Len(TokenList) => TokenList[k] < Len(source)
  BY <1>1 DEF InOrder
<1>5. QED  BY <1>1, <1>2, <1>3, <1>4 DEF Token

-----------------------------------------------------------------------------
(* Types *)

MacroType ==
  [identifier : Name, start_index : 1 .. Len(source), end_index : 1 .. Len(source),
   content : Text]
Message == {"macr", "identifier", "duplicate", "newline", "endmacr"}
ErrorType == [message : Message, at : 1 .. Len(source)]

\* TypeOK, with the lists as such.
FileType == [state : {"none", "written", "failed"}, text : Text]
TypeInv ==
  /\ IsSource(source)
  /\ pc \in {"generate", "expand", "write", "done"}
  /\ tokens \in 1 .. Len(TokenList) /\ current \in 1 .. Len(TokenList)
  /\ macro_list \in Seq(MacroType) /\ errors \in Seq(ErrorType)
  /\ current_token \in 0 .. Len(TokenList)
  /\ i \in 1 .. Len(source) + 1
  /\ processed_source \in Text
  /\ file \in FileType

LEMMA NameIsNoKeyword ==
  \A name \in Name : name \notin {"macr", "endmacr", "eol", "eoft", "word", "blank"}
BY NameAssumption DEF Keyword

\* A part of the text is a text.
LEMMA PartOfText ==
  ASSUME IsSource(source), NEW from \in 1 .. Len(source) + 1, NEW to \in 0 .. Len(source)
  PROVE  /\ SubSeq(source, from, to) \in Text
         /\ from <= to + 1 => Len(SubSeq(source, from, to)) = to - from + 1
         /\ \A j \in 1 .. to - from + 1 : SubSeq(source, from, to)[j] = source[from + j - 1]
<1>1. source \in Seq(Symbol) /\ Len(source) \in Nat
  BY DEF IsSource, Symbol
<1>2. CASE from <= to + 1
  <2> DEFINE part == SubSeq(source, from, to)
  <2>1. part = [j \in 1 .. to - from + 1 |-> source[from + j - 1]]
    <3>1. from \in Nat /\ to \in Nat
      BY <1>1
    <3>2. QED  BY <1>1, <1>2, <3>1, SMTT(30)
  <2>2. \A j \in 1 .. to - from + 1 : source[from + j - 1] \in Symbol
    BY <1>1
  <2> HIDE DEF part
  <2>3. Len(part) = to - from + 1 /\ part \in Seq(Symbol)
    BY <1>1, <1>2, <2>1, <2>2
  <2>4. \A j \in 1 .. to - from + 1 : part[j] = source[from + j - 1]
    BY <2>1
  <2>5. QED  BY <2>3, <2>4 DEF part, Text, Symbol
<1>3. CASE ~(from <= to + 1)
  <2>1. SubSeq(source, from, to) = <<>>
    BY <1>1, <1>3
  <2>2. QED  BY <1>1, <1>3, <2>1 DEF Text
<1>4. QED  BY <1>2, <1>3

\* The line that ends a macro, if there is one: the first after its header.
LEMMA EndFound ==
  ASSUME IsSource(source), NEW k \in 1 .. Len(TokenList), Ends(k) # {}
  PROVE  /\ FirstEnd(k) \in k + 3 .. Len(TokenList) - 2
         /\ EndsAt(FirstEnd(k))
         /\ \A e \in k + 3 .. FirstEnd(k) - 1 : ~EndsAt(e)
<1>1. Len(TokenList) \in Nat
  BY Tokenized
<1>2. Ends(k) \subseteq Nat
  BY <1>1 DEF Ends
<1>3. \E e \in Ends(k) : \A f \in Ends(k) : e <= f
  BY <1>2, LeastNumber
<1>4. FirstEnd(k) \in Ends(k) /\ \A f \in Ends(k) : FirstEnd(k) <= f
  BY <1>3, Zenon DEF FirstEnd
<1>5. FirstEnd(k) \in k + 3 .. Len(TokenList) /\ EndsAt(FirstEnd(k))
  BY <1>4 DEF Ends
<1>6. FirstEnd(k) + 2 <= Len(TokenList)
  BY <1>5 DEF EndsAt
<1>7. ASSUME NEW e \in k + 3 .. FirstEnd(k) - 1, EndsAt(e)
      PROVE  FALSE
  <2>1. e \in Ends(k)
    BY <1>1, <1>5, <1>7 DEF Ends
  <2>2. QED  BY <1>1, <1>4, <1>5, <2>1
<1>8. QED  BY <1>1, <1>5, <1>6, <1>7

\* Whatever CreateMacro meets, it reports one error or adds one macro, whose name is new
\* and whose header and end are tokens of the text.
Created(k) ==
  \/ /\ \E message \in Message, at \in 1 .. Len(source) :
          errors' = Append(errors, [message |-> message, at |-> at])
     /\ UNCHANGED macro_list
  \/ /\ Token(k) = "macr" /\ Token(k + 1) \in Name /\ Token(k + 2) = "eol" /\ Ends(k) # {}
     /\ k + 2 < Len(TokenList)
     /\ ~Duplicate(Token(k + 1))
     /\ Macro(k) \in MacroType /\ macro_list' = Append(macro_list, Macro(k))
     /\ UNCHANGED errors

LEMMA MacroTyped ==
  ASSUME IsSource(source), NEW k \in 1 .. Len(TokenList),
         Token(k + 1) \in Name, Ends(k) # {}
  PROVE  Macro(k) \in MacroType /\ k + 2 < Len(TokenList)
<1> DEFINE e == FirstEnd(k)
<1>1. e \in k + 3 .. Len(TokenList) - 2 /\ Len(TokenList) \in Nat /\ Len(source) \in Nat
  BY EndFound, Tokenized
<1>2. e + 2 \in 1 .. Len(TokenList) /\ e \in 1 .. Len(TokenList)
      /\ k + 2 \in 1 .. Len(TokenList) /\ k + 2 < Len(TokenList)
  BY <1>1
<1> HIDE DEF e
<1>3. /\ TokenList[k] \in 1 .. Len(source) /\ TokenList[e + 2] \in 1 .. Len(source)
      /\ TokenList[k + 2] \in 1 .. Len(source) /\ TokenList[e] \in 1 .. Len(source)
  BY <1>2, TokenAt
<1>4. SubSeq(source, TokenList[k + 2] + 1, TokenList[e]) \in Text
  <2>1. /\ TokenList[k + 2] + 1 \in 1 .. Len(source) + 1
        /\ TokenList[e] \in 0 .. Len(source)
    BY <1>1, <1>3
  <2>2. QED  BY <2>1, PartOfText
<1>5. QED  BY <1>2, <1>3, <1>4, Zenon DEF Macro, MacroType, e

LEMMA MacroCreated ==
  ASSUME IsSource(source), NEW k \in 1 .. Len(TokenList), CreateMacro(k)
  PROVE  Created(k)
<1>1. ASSUME NEW j \in 1 .. Len(TokenList), NEW message \in Message,
             errors' = Append(errors, [message |-> message, at |-> TokenList[j]]),
             macro_list' = macro_list
      PROVE  Created(k)
  <2>1. TokenList[j] \in 1 .. Len(source)
    BY TokenAt
  <2>2. QED  BY <1>1, <2>1, Zenon DEF Created
<1>2. Token(k) = "macr" => k + 1 \in 1 .. Len(TokenList)
  BY TokenAt
<1>3. Token(k) = "macr" /\ Token(k + 1) \in Name => k + 2 \in 1 .. Len(TokenList)
  <2> SUFFICES ASSUME Token(k) = "macr", Token(k + 1) \in Name
               PROVE  k + 2 \in 1 .. Len(TokenList)
    OBVIOUS
  <2>1. Token(k + 1) # "eoft"
    BY NameIsNoKeyword
  <2>2. (k + 1) + 1 \in 1 .. Len(TokenList)
    BY <1>2, <2>1, TokenAt
  <2>3. QED  BY <2>2
<1> DEFINE Reported(message, j) ==
             /\ message \in Message /\ j \in 1 .. Len(TokenList)
             /\ errors' = Append(errors, [message |-> message, at |-> TokenList[j]])
             /\ macro_list' = macro_list
<1>4. Token(k) # "macr" /\ Report("macr", k) /\ UNCHANGED macro_list => Reported("macr", k)
  BY DEF Report, Message
<1>5. /\ Token(k) = "macr" /\ Token(k + 1) \notin Name
      /\ Report("identifier", k + 1) /\ UNCHANGED macro_list
    => Reported("identifier", k + 1)
  BY <1>2 DEF Report, Message
<1>6. /\ Token(k) = "macr" /\ Token(k + 1) \in Name
      /\ Report("duplicate", k + 1) /\ UNCHANGED macro_list
    => Reported("duplicate", k + 1)
  BY <1>2 DEF Report, Message
<1>7. /\ Token(k) = "macr" /\ Token(k + 1) \in Name
      /\ Report("newline", k + 2) /\ UNCHANGED macro_list
    => Reported("newline", k + 2)
  BY <1>3 DEF Report, Message
<1>8. Report("endmacr", k) /\ UNCHANGED macro_list => Reported("endmacr", k)
  BY DEF Report, Message
<1>9. CASE /\ Token(k) = "macr" /\ Token(k + 1) \in Name
           /\ ~Duplicate(Token(k + 1)) /\ Token(k + 2) = "eol" /\ Ends(k) # {}
           /\ macro_list' = Append(macro_list, Macro(k)) /\ UNCHANGED errors
  BY <1>9, MacroTyped, Zenon DEF Created
<1>10. ASSUME NEW message, NEW j, Reported(message, j)
       PROVE  Created(k)
  BY <1>1, <1>10
<1> HIDE DEF Reported
<1>11. QED  BY <1>4, <1>5, <1>6, <1>7, <1>8, <1>9, <1>10, Zenon DEF CreateMacro

-----------------------------------------------------------------------------
(* A text without some symbol *)

LEMMA WithoutDefined ==
  ASSUME NEW S, NEW text \in Seq(S), NEW c
  PROVE  /\ WithoutUpTo(text, c)[0] = <<>>
         /\ \A p \in 0 .. Len(text) : WithoutUpTo(text, c)[p] \in Seq(S)
         /\ \A p \in 1 .. Len(text) :
              WithoutUpTo(text, c)[p] =
                IF text[p] = c THEN WithoutUpTo(text, c)[p - 1]
                ELSE Append(WithoutUpTo(text, c)[p - 1], text[p])
         /\ Without(text, c) \in Seq(S)
<1> DEFINE L == Len(text)
           Q == Seq(S)
           empty == <<>>
           kept == WithoutUpTo(text, c)
           step == [p \in 1 .. L |-> [list \in Q |->
                      IF text[p] = c THEN list ELSE Append(list, text[p])]]
<1>0. L \in Nat
  OBVIOUS
<1>1. \A p \in 1 .. L : text[p] \in S
  OBVIOUS
<1>2. step \in [1 .. L -> [Q -> Q]]
  <2>1. ASSUME NEW p \in 1 .. L, NEW list \in Q
        PROVE  (IF text[p] = c THEN list ELSE Append(list, text[p])) \in Q
    BY <1>1
  <2> HIDE DEF Q, L
  <2>2. QED  BY <2>1
<1>3. empty \in Q
  OBVIOUS
<1>4. PICK g \in [0 .. L -> Q] :
        g[0] = empty /\ \A p \in 1 .. L : g[p] = step[p][g[p - 1]]
  <2> HIDE DEF L, Q, empty, step
  <2>1. QED  BY <1>0, <1>2, <1>3, Recursion
<1>5. ASSUME NEW p \in 1 .. L
      PROVE  g[p] = IF text[p] = c THEN g[p - 1] ELSE Append(g[p - 1], text[p])
  <2>1. g[p - 1] \in Q
    BY <1>0, <1>4
  <2> HIDE DEF Q
  <2>2. QED  BY <1>4, <2>1
<1> DEFINE R(f) == [p \in 0 .. L |-> IF p = 0 THEN <<>>
                                     ELSE IF text[p] = c THEN f[p - 1]
                                     ELSE Append(f[p - 1], text[p])]
<1>6. g = R(g)
  <2>1. ASSUME NEW p \in 0 .. L
        PROVE  g[p] = R(g)[p]
    <3>1. p = 0 \/ p \in 1 .. L
      BY <1>0
    <3> HIDE DEF L, step, Q
    <3>2. QED  BY <3>1, <1>4, <1>5
  <2>2. R(g) = [p \in 0 .. L |-> R(g)[p]]
    OBVIOUS
  <2> HIDE DEF R, L, step, Q
  <2>3. g = [p \in 0 .. L |-> g[p]]
    BY <1>4
  <2>4. QED  BY <2>1, <2>2, <2>3
<1>7. kept = R(kept)
  BY <1>6, Zenon DEF WithoutUpTo
<1> HIDE DEF step, kept
<1>8. /\ kept[0] = <<>>
      /\ \A p \in 1 .. L : kept[p] = IF text[p] = c THEN kept[p - 1]
                                     ELSE Append(kept[p - 1], text[p])
  <2>1. \A p \in 0 .. L : kept[p] = R(kept)[p]
    BY <1>7, Zenon
  <2>2. 0 \in 0 .. L /\ \A p \in 1 .. L : p \in 0 .. L /\ p # 0
    BY <1>0
  <2>3. \A p \in 0 .. L : R(kept)[p] =
          IF p = 0 THEN <<>> ELSE IF text[p] = c THEN kept[p - 1]
                             ELSE Append(kept[p - 1], text[p])
    OBVIOUS
  <2> HIDE DEF R
  <2>4. QED  BY <2>1, <2>2, <2>3
<1> DEFINE T == {n \in Nat : n <= L => kept[n] \in Q}
<1>9. 0 \in T
  BY <1>3, <1>8
<1>10. ASSUME NEW n \in Nat, n \in T
       PROVE  n + 1 \in T
  <2> SUFFICES ASSUME n + 1 <= L PROVE kept[n + 1] \in Q
    OBVIOUS
  <2>1. kept[n] \in Q /\ n + 1 \in 1 .. L /\ text[n + 1] \in S
    BY <1>0, <1>1, <1>10
  <2>2. kept[n + 1] = IF text[n + 1] = c THEN kept[n] ELSE Append(kept[n], text[n + 1])
    BY <1>8, <2>1
  <2>3. QED  BY <2>1, <2>2
<1>11. \A n \in Nat : n \in T
  <2> HIDE DEF T
  <2>1. QED  BY <1>9, <1>10, Induction
<1>12. \A p \in 0 .. L : kept[p] \in Q
  BY <1>0, <1>11
<1>13. kept[L] \in Q
  BY <1>0, <1>12
<1>14. QED  BY <1>8, <1>12, <1>13, Zenon DEF kept, Without

\* The part of a text before the symbol stays as it is.
LEMMA WithoutAbsent ==
  ASSUME NEW S, NEW text \in Seq(S), NEW c, NEW L \in 0 .. Len(text),
         \A p \in 1 .. L : text[p] # c
  PROVE  WithoutUpTo(text, c)[L] = SubSeq(text, 1, L)
<1> DEFINE kept == WithoutUpTo(text, c)
           Same(list, n) == Len(list) = n /\ \A j \in 1 .. n : list[j] = text[j]
           T == {n \in Nat : n <= L => Same(kept[n], n)}
<1>1. L \in Nat /\ Len(text) \in Nat
  OBVIOUS
<1> HIDE DEF T, Same
<1>2. /\ WithoutUpTo(text, c)[0] = <<>>
      /\ \A p \in 0 .. Len(text) : WithoutUpTo(text, c)[p] \in Seq(S)
      /\ \A p \in 1 .. Len(text) :
           WithoutUpTo(text, c)[p] = IF text[p] = c THEN WithoutUpTo(text, c)[p - 1]
                                     ELSE Append(WithoutUpTo(text, c)[p - 1], text[p])
  <2>1. text \in Seq(S)
    OBVIOUS
  <2>2. QED  BY <2>1, WithoutDefined
<1> HIDE DEF kept
<1>6. kept[0] = <<>>
  BY <1>2 DEF kept
<1>7. ASSUME NEW n \in 1 .. L
      PROVE  /\ kept[n] = IF text[n] = c THEN kept[n - 1] ELSE Append(kept[n - 1], text[n])
             /\ text[n] # c
  <2>1. n \in 1 .. Len(text)
    BY <1>1
  <2>2. QED  BY <1>2, <2>1 DEF kept
<1>8. \A p \in 0 .. L : kept[p] \in Seq(S)
  BY <1>1, <1>2 DEF kept
<1>3. 0 \in T
  <2>1. Len(kept[0]) = 0
    BY <1>6
  <2>2. QED  BY <2>1 DEF T, Same
<1>4. ASSUME NEW n \in Nat, n \in T
      PROVE  n + 1 \in T
  <2> SUFFICES ASSUME n + 1 <= L PROVE Same(kept[n + 1], n + 1)
    BY DEF T
  <2>1. Same(kept[n], n) /\ n + 1 \in 1 .. L /\ n \in 0 .. L
    BY <1>1, <1>4 DEF T
  <2>2. kept[n] \in Seq(S) /\ kept[n + 1] = Append(kept[n], text[n + 1])
    <3>1. (n + 1) - 1 = n
      OBVIOUS
    <3>2. kept[n + 1] = Append(kept[(n + 1) - 1], text[n + 1])
      BY <1>7, <2>1, Zenon
    <3>3. QED  BY <1>8, <2>1, <3>1, <3>2, Zenon
  <2> DEFINE list == kept[n]
  <2>3. Len(list) = n /\ list \in Seq(S) /\ \A j \in 1 .. n : list[j] = text[j]
    BY <2>1, <2>2 DEF Same
  <2>4. kept[n + 1] = Append(list, text[n + 1])
    BY <2>2
  <2> HIDE DEF list
  <2>5. /\ Len(kept[n + 1]) = n + 1 /\ kept[n + 1][n + 1] = text[n + 1]
        /\ \A j \in 1 .. n : kept[n + 1][j] = list[j]
    BY <2>3, <2>4
  <2>6. QED  BY <2>3, <2>5 DEF Same
<1>5. \A n \in Nat : n \in T
  BY <1>3, <1>4, Induction
<1>9. kept[L] \in Seq(S) /\ Same(kept[L], L)
  BY <1>1, <1>5, <1>8 DEF T
<1>10. /\ SubSeq(text, 1, L) \in Seq(S) /\ Len(SubSeq(text, 1, L)) = L
       /\ \A j \in 1 .. L : SubSeq(text, 1, L)[j] = text[j]
  <2>1. L = 0 => SubSeq(text, 1, L) = <<>>
    OBVIOUS
  <2>2. QED  BY <1>1, <2>1, SubSeqProperties
<1> DEFINE part == SubSeq(text, 1, L)
           list == kept[L]
<1>11. Len(list) = L /\ list \in Seq(S) /\ \A j \in 1 .. L : list[j] = text[j]
  BY <1>9 DEF Same
<1>12. Len(part) = L /\ part \in Seq(S) /\ \A j \in 1 .. L : part[j] = text[j]
  BY <1>10
<1> HIDE DEF list, part
<1>13. list = part
  BY <1>11, <1>12, SeqEqual
<1>14. QED  BY <1>13 DEF list, part, kept

-----------------------------------------------------------------------------
(* The type invariant is inductive *)

\* What is said of the text alone stays said as long as the text does.
LEMMA SameText ==
  ASSUME source' = source
  PROVE  /\ TokensUpTo' = TokensUpTo /\ TokenList' = TokenList
         /\ MacroType' = MacroType /\ ErrorType' = ErrorType
         /\ IsSource(source)' <=> IsSource(source)
<1>1. TokensUpTo' = TokensUpTo
  BY Zenon DEF TokensUpTo
<1>2. TokenList' = TokenList
  BY <1>1, Zenon DEF TokenList
<1>3. MacroType' = MacroType /\ ErrorType' = ErrorType
  BY Zenon DEF MacroType, ErrorType, Text
<1>4. IsSource(source)' <=> IsSource(source)
  BY Zenon DEF IsSource
<1>5. QED  BY <1>1, <1>2, <1>3, <1>4

LEMMA TypeInvOK == TypeInv => TypeOK
<1> SUFFICES ASSUME TypeInv PROVE TypeOK
  OBVIOUS
<1>1. \A m \in 1 .. Len(macro_list) :
         /\ macro_list[m].identifier \in Name
         /\ macro_list[m].start_index \in 1 .. Len(source)
         /\ macro_list[m].end_index \in 1 .. Len(source)
         /\ macro_list[m].content \in Text
  <2>1. \A m \in 1 .. Len(macro_list) : macro_list[m] \in MacroType
    BY DEF TypeInv
  <2>2. QED  BY <2>1 DEF MacroType
<1>2. \A e \in 1 .. Len(errors) : errors[e].at \in 1 .. Len(source)
  <2>1. \A e \in 1 .. Len(errors) : errors[e] \in ErrorType
    BY DEF TypeInv
  <2>2. QED  BY <2>1 DEF ErrorType
<1>3. file.state \in {"none", "written", "failed"} /\ file.text \in Text
  BY DEF TypeInv, FileType
<1>4. QED  BY <1>1, <1>2, <1>3 DEF TypeInv, TypeOK

\* The macro that decides is one of the list.
LEMMA DecidingFound ==
  ASSUME TypeInv, Concerned # {}
  PROVE  /\ Deciding \in Concerned /\ \A n \in Concerned : Deciding <= n
         /\ Deciding \in 1 .. Len(macro_list) /\ macro_list[Deciding] \in MacroType
         /\ macro_list[Deciding].end_index \in 1 .. Len(source)
         /\ macro_list[Deciding].content \in Text
<1>1. Len(macro_list) \in Nat
  BY DEF TypeInv
<1>2. Concerned \subseteq Nat
  BY <1>1 DEF Concerned
<1>3. \E m \in Concerned : \A n \in Concerned : m <= n
  BY <1>2, LeastNumber
<1>4. Deciding \in Concerned /\ \A n \in Concerned : Deciding <= n
  BY <1>3, Zenon DEF Deciding
<1>5. Deciding \in 1 .. Len(macro_list)
  BY <1>4 DEF Concerned
<1> HIDE DEF Deciding
<1>6. macro_list[Deciding] \in MacroType
  BY <1>5 DEF TypeInv
<1>7. QED  BY <1>4, <1>5, <1>6 DEF MacroType

\* The cursor of a token: where its text is.
LEMMA CursorAtToken ==
  ASSUME TypeInv, i <= Len(source), AtToken
  PROVE  /\ i \in 1 .. Len(source) /\ current_token \in 1 .. Len(TokenList)
         /\ Token(current_token) = source[i] /\ Token(current_token) \in Symbol
         /\ TokenList[current_token] = i
         /\ Following(current_token) \in 0 .. Len(TokenList)
         /\ Following(current_token) # NULL =>
              /\ Following(current_token) = current_token + 1
              /\ Following(current_token) \in 1 .. Len(TokenList)
              /\ TokenList[Following(current_token)] \in i + 1 .. Len(source)
<1>1. Len(source) \in Nat /\ Len(TokenList) \in Nat /\ IsSource(source)
  BY Tokenized DEF TypeInv
<1>2. current_token \in 1 .. Len(TokenList) /\ i \in 1 .. Len(source)
  BY <1>1 DEF TypeInv, AtToken, NULL
<1>3. TokenList[current_token] = i
  BY DEF AtToken
<1>4. Token(current_token) = source[i] /\ Token(current_token) \in Symbol
  BY <1>1, <1>2, <1>3, TokenAt
<1>5. CASE current_token = Len(TokenList)
  <2>1. Following(current_token) = NULL
    BY <1>5, <1>1 DEF Following
  <2>2. QED  BY <2>1, <1>1, <1>2, <1>3, <1>4 DEF NULL
<1>6. CASE current_token # Len(TokenList)
  <2>1. Following(current_token) = current_token + 1
    <3>1. current_token < Len(TokenList)
      BY <1>1, <1>2, <1>6
    <3>2. QED  BY <3>1, Zenon DEF Following
  <2>2. current_token + 1 \in 1 .. Len(TokenList)
        /\ TokenList[current_token] < TokenList[current_token + 1]
    BY <1>1, <1>2, <1>6, TokenAt
  <2>3. TokenList[current_token + 1] \in 1 .. Len(source)
    BY <1>1, <2>2, TokenAt
  <2>4. QED  BY <2>1, <2>2, <2>3, <1>1, <1>2, <1>3, <1>4
<1>7. QED  BY <1>5, <1>6

\* The iterations at a token, by what becomes of it.
Skipping == ExpandToken /\ Concerned # {} /\ Defines(Deciding) /\ SkipDefinition
Replacing == ExpandToken /\ Concerned # {} /\ ~Defines(Deciding) /\ ExpandMacro
Copying == ExpandToken /\ Concerned = {} /\ CopyToken

LEMMA TokenBranches == ExpandToken => Skipping \/ Replacing \/ Copying
<1> SUFFICES ASSUME ExpandToken PROVE Skipping \/ Replacing \/ Copying
  OBVIOUS
<1>1. IF Concerned = {} THEN CopyToken
      ELSE IF Defines(Deciding) THEN SkipDefinition ELSE ExpandMacro
  BY Zenon DEF ExpandToken
<1>2. QED  BY <1>1, Zenon DEF Skipping, Replacing, Copying

LEMMA TypeInitial == Init => TypeInv
<1> SUFFICES ASSUME Init PROVE TypeInv
  OBVIOUS
<1>1. IsSource(source)
  BY SourcesAssumption DEF Init
<1>2. 1 \in 1 .. Len(TokenList) /\ Len(TokenList) \in Nat /\ Len(source) \in Nat
  BY <1>1, Tokenized
<1>3. <<>> \in Text /\ <<>> \in Seq(MacroType) /\ <<>> \in Seq(ErrorType)
  BY DEF Text
<1>4. file \in FileType
  BY <1>3 DEF Init, FileType
<1>5. QED  BY <1>1, <1>2, <1>3, <1>4 DEF Init, TypeInv, NULL

\* A step keeps the type when it keeps those of the parts it changes.
LEMMA TypeStep ==
  ASSUME TypeInv, Next
  PROVE  TypeInv'
<1>1. source' = source
  BY DEF Next, ScanToken, FinishList, ExpandToken, CopyCharacter, FinishExpansion, WriteFile
<1>2. /\ Len(source) \in Nat /\ Len(TokenList) \in Nat \ {0} /\ IsSource(source)
      /\ \A p \in 1 .. Len(source) : source[p] \in Symbol
  BY Tokenized DEF TypeInv
<1>3. /\ TokenList' = TokenList /\ MacroType' = MacroType /\ ErrorType' = ErrorType
      /\ IsSource(source)'
  BY <1>1, <1>2, SameText
<1> DEFINE Typed(k, c, m, e, t, j, text, f) ==
             /\ k \in 1 .. Len(TokenList) /\ c \in 1 .. Len(TokenList)
             /\ m \in Seq(MacroType) /\ e \in Seq(ErrorType)
             /\ t \in 0 .. Len(TokenList) /\ j \in 1 .. Len(source) + 1
             /\ text \in Text /\ f \in FileType
           Pcs == {"generate", "expand", "write", "done"}
<1>4. Typed(tokens, current, macro_list, errors, current_token, i, processed_source, file)
      /\ pc \in Pcs
  BY DEF TypeInv
<1>5. ASSUME Typed(tokens', current', macro_list', errors', current_token', i',
                   processed_source', file'),
             pc' \in Pcs
      PROVE  TypeInv'
  <2>1. FileType' = FileType /\ Text' = Text
    BY DEF FileType, Text
  <2>2. QED  BY <1>1, <1>3, <1>4, <1>5, <2>1, Zenon DEF TypeInv
<1>6. ASSUME NEW k \in 1 .. Len(TokenList), CreateMacro(k)
      PROVE  macro_list' \in Seq(MacroType) /\ errors' \in Seq(ErrorType)
  <2>1. Created(k)
    BY <1>2, <1>6, MacroCreated
  <2>2. CASE \E message \in Message, at \in 1 .. Len(source) :
                /\ errors' = Append(errors, [message |-> message, at |-> at])
                /\ macro_list' = macro_list
    <3>1. PICK message \in Message, at \in 1 .. Len(source) :
             /\ errors' = Append(errors, [message |-> message, at |-> at])
             /\ macro_list' = macro_list
      BY <2>2
    <3>2. [message |-> message, at |-> at] \in ErrorType
      BY DEF ErrorType
    <3>3. QED  BY <1>4, <3>1, <3>2
  <2>3. CASE Macro(k) \in MacroType /\ macro_list' = Append(macro_list, Macro(k))
             /\ errors' = errors
    BY <1>4, <2>3
  <2>4. QED  BY <2>1, <2>2, <2>3, Zenon DEF Created
<1>7. CASE ScanToken
  <2>1. current' \in 1 .. Len(TokenList) /\ current \in 1 .. Len(TokenList)
    BY <1>2, <1>4, <1>7, TokenAt DEF ScanToken
  <2>2. macro_list' \in Seq(MacroType) /\ errors' \in Seq(ErrorType)
        /\ tokens' \in 1 .. Len(TokenList)
    BY <1>4, <1>6, <1>7, <2>1 DEF ScanToken
  <2> HIDE DEF Pcs
  <2>3. /\ pc' = pc /\ current_token' = current_token /\ i' = i
        /\ processed_source' = processed_source /\ file' = file
    BY <1>7 DEF ScanToken, expansion
  <2>4. QED  BY <1>4, <1>5, <2>1, <2>2, <2>3
<1>8. CASE FinishList
  <2>1. /\ tokens' = current /\ pc' \in Pcs
        /\ current_token' \in {current, current_token} /\ i' \in {1, i}
        /\ processed_source' = processed_source
        /\ UNCHANGED <<current, macro_list, errors, file>>
    BY <1>8 DEF FinishList, expansion
  <2>2. QED  BY <1>2, <1>4, <1>5, <2>1
<1>10. CASE Skipping
  <2> DEFINE end == macro_list[Deciding].end_index
             past == PastDefinition(end)
  <2>1. end \in 1 .. Len(source)
    BY <1>10, DecidingFound DEF Skipping, ExpandToken, SkipDefinition
  <2>2. current_token \in 1 .. Len(TokenList)
    BY <1>10, CursorAtToken DEF Skipping, ExpandToken, SkipDefinition
  <2>3. /\ i' = end + 1
        /\ current_token' = IF past = {} THEN NULL
                            ELSE CHOOSE k \in past : \A l \in past : k <= l
        /\ UNCHANGED <<pc, tokens, current, macro_list, errors, processed_source, file>>
    BY <1>10 DEF Skipping, ExpandToken, SkipDefinition
  <2>4. past \subseteq 1 .. Len(TokenList)
    BY <1>2, <2>2 DEF PastDefinition
  <2> HIDE DEF past, end
  <2>5. past # {} => \E k \in past : \A l \in past : k <= l
    <3>1. past \subseteq Nat
      BY <1>2, <2>4
    <3>2. QED  BY <3>1, LeastNumber
  <2>6. current_token' \in 0 .. Len(TokenList)
    <3>1. CASE past = {}
      BY <1>2, <2>3, <3>1 DEF NULL
    <3>2. CASE past # {}
      <4>1. current_token' \in past
        BY <2>3, <2>5, <3>2
      <4>2. QED  BY <1>2, <2>4, <4>1
    <3>3. QED  BY <3>1, <3>2
  <2> HIDE DEF Pcs
  <2>7. QED  BY <1>2, <1>4, <1>5, <2>1, <2>3, <2>6
<1>11. CASE Replacing
  <2> DEFINE next == Following(current_token)
  <2>1. /\ i \in 1 .. Len(source) /\ next \in 0 .. Len(TokenList)
        /\ next # NULL => next \in 1 .. Len(TokenList)
                          /\ TokenList[next] \in i + 1 .. Len(source)
    BY <1>11, CursorAtToken DEF Replacing, ExpandToken, ExpandMacro
  <2>2. macro_list[Deciding].content \in Text
    BY <1>11, DecidingFound DEF Replacing, ExpandToken, ExpandMacro
  <2>3. /\ processed_source' = processed_source \o macro_list[Deciding].content
        /\ \/ next # NULL /\ current_token' = Following(next) /\ i' = i + 2
           \/ current_token' = next /\ i' = i + 1
        /\ UNCHANGED <<pc, tokens, current, macro_list, errors, file>>
    BY <1>11 DEF Replacing, ExpandToken, ExpandMacro
  <2> HIDE DEF next
  <2>4. next # NULL => Following(next) \in 0 .. Len(TokenList)
    BY <1>2, <2>1 DEF Following, NULL
  <2>5. current_token' \in 0 .. Len(TokenList) /\ i' \in 1 .. Len(source) + 1
    BY <1>2, <2>1, <2>3, <2>4
  <2>6. processed_source' \in Text
    BY <1>4, <2>2, <2>3 DEF Text
  <2> HIDE DEF Pcs
  <2>7. QED  BY <1>4, <1>5, <2>3, <2>5, <2>6
<1>12. CASE Copying
  <2>1. /\ i \in 1 .. Len(source) /\ Following(current_token) \in 0 .. Len(TokenList)
        /\ Token(current_token) \in Symbol
    BY <1>12, CursorAtToken DEF Copying, ExpandToken, CopyToken
  <2> DEFINE string == TokenString(current_token)
  <2>2. string \in Seq(Symbol) /\ Len(string) \in 0 .. 1
    <3>1. string = <<>> \/ string = <<Token(current_token)>>
      BY Zenon DEF TokenString
    <3>2. \A c \in Symbol : <<c>> \in Seq(Symbol) /\ Len(<<c>>) = 1
      OBVIOUS
    <3>3. <<>> \in Seq(Symbol) /\ Len(<<>>) = 0
      OBVIOUS
    <3>4. 0 \in 0 .. 1 /\ 1 \in 0 .. 1
      OBVIOUS
    <3> HIDE DEF string
    <3>5. CASE string = <<>>
      BY <3>3, <3>4, <3>5
    <3>6. CASE string = <<Token(current_token)>>
      BY <2>1, <3>2, <3>4, <3>6, Zenon
    <3>7. QED  BY <3>1, <3>5, <3>6
  <2>3. /\ processed_source' = processed_source \o string
        /\ i' = i + Len(string)
        /\ current_token' = Following(current_token)
        /\ UNCHANGED <<pc, tokens, current, macro_list, errors, file>>
    BY <1>12 DEF Copying, ExpandToken, CopyToken
  <2> HIDE DEF string
  <2>4. processed_source' \in Text /\ i' \in 1 .. Len(source) + 1
    <3>1. processed_source \in Seq(Symbol)
      BY <1>4 DEF Text, Symbol
    <3>2. processed_source' \in Seq(Symbol)
      BY <2>2, <2>3, <3>1
    <3>3. i' \in 1 .. Len(source) + 1
      BY <1>2, <2>1, <2>2, <2>3
    <3>4. QED  BY <3>2, <3>3 DEF Text, Symbol
  <2> HIDE DEF Pcs
  <2>5. QED  BY <1>4, <1>5, <2>1, <2>3, <2>4
<1>13. CASE CopyCharacter
  <2>1. /\ processed_source' = Append(processed_source, source[i]) /\ i' = i + 1
        /\ i <= Len(source)
        /\ UNCHANGED <<pc, tokens, current, macro_list, errors, current_token, file>>
    BY <1>13 DEF CopyCharacter
  <2>2. i \in 1 .. Len(source)
    BY <1>2, <1>4, <2>1
  <2>3. processed_source' \in Text /\ i' \in 1 .. Len(source) + 1
    BY <1>2, <1>4, <2>1, <2>2 DEF Text, Symbol
  <2> HIDE DEF Pcs
  <2>4. QED  BY <1>4, <1>5, <2>1, <2>3
<1>14. CASE FinishExpansion
  <2>1. pc' \in Pcs /\ UNCHANGED <<tokens, current, macro_list, errors, current_token, i,
                                   processed_source, file>>
    BY <1>14 DEF FinishExpansion, expansion
  <2>2. QED  BY <1>4, <1>5, <2>1
<1>15. CASE WriteFile
  <2>1. pc' \in Pcs /\ UNCHANGED <<tokens, current, macro_list, errors, current_token, i,
                                   processed_source>>
    BY <1>15 DEF WriteFile, expansion
  <2>2. Without(processed_source, "eoft") \in Text /\ <<>> \in Text
    <3>1. processed_source \in Seq(Symbol)
      BY <1>4 DEF Text, Symbol
    <3>2. Without(processed_source, "eoft") \in Seq(Symbol)
      BY <3>1, WithoutDefined
    <3>3. QED  BY <3>2 DEF Text, Symbol
  <2>3. file' \in FileType
    BY <1>15, <2>2 DEF WriteFile, FileType
  <2>4. QED  BY <1>4, <1>5, <2>1, <2>3
<1>16. QED
  BY <1>7, <1>8, <1>10, <1>11, <1>12, <1>13, <1>14, <1>15, TokenBranches, Zenon DEF Next

LEMMA TypeStutters == TypeInv /\ UNCHANGED vars => TypeInv'
<1> SUFFICES ASSUME TypeInv, UNCHANGED vars PROVE TypeInv'
  OBVIOUS
<1>1. UNCHANGED <<source, pc, tokens, current, macro_list, errors, current_token, i,
                  processed_source, file>>
  BY DEF vars, expansion
<1>2. TokenList' = TokenList /\ MacroType' = MacroType /\ ErrorType' = ErrorType
      /\ (IsSource(source)' <=> IsSource(source))
  BY <1>1, SameText
<1>3. FileType' = FileType /\ Text' = Text
  BY DEF FileType, Text
<1>4. QED  BY <1>1, <1>2, <1>3, Zenon DEF TypeInv

LEMMA TypeInvariant == Spec => []TypeInv
<1>1. Init => TypeInv
  BY TypeInitial
<1>2. TypeInv /\ [Next]_vars => TypeInv'
  BY TypeStep, TypeStutters
<1>3. QED  BY <1>1, <1>2, PTL DEF Spec

\* The cursors of both loops stay inside the list and the text, whatever the text:
\* past a definition EOF ends, and past the empty string of the EOF token.
THEOREM TypeCorrect == Spec => []TypeOK
<1>1. TypeInv => TypeOK
  BY TypeInvOK
<1>2. QED  BY <1>1, TypeInvariant, PTL

-----------------------------------------------------------------------------
(* What preprocessor_process makes of the text *)

Closed == \E m \in 1 .. Len(macro_list) : macro_list[m].end_index = Len(source)
UpToEnd == SubSeq(source, 1, Len(source) - 1)

\* The expansion loop of process starts at the EOF token: up to the last symbol there is
\* nothing but characters to copy; then the EOF ends a macro, or is copied as the empty
\* string of its token and once more as a character.
Copied ==
  \/ i <= Len(source) /\ current_token = Len(TokenList)
     /\ processed_source = SubSeq(source, 1, i - 1)
  \/ i = Len(source) /\ current_token = NULL /\ processed_source = UpToEnd /\ ~Closed
  \/ i = Len(source) + 1 /\ processed_source = IF Closed THEN UpToEnd ELSE source

PassInv ==
  /\ pc \in {"expand", "write", "done"} /\ errors = <<>> => Copied
  /\ pc \in {"write", "done"} /\ errors = <<>> => i = Len(source) + 1
  /\ pc = "done" /\ errors = <<>> /\ file.state = "written" =>
       file.text = UpToEnd
  /\ pc # "done" => file.state = "none"
  /\ pc = "generate" => processed_source = <<>>

\* The parts of the text the loop has copied.
LEMMA CopiedParts ==
  ASSUME IsSource(source)
  PROVE  /\ SubSeq(source, 1, 0) = <<>>
         /\ \A p \in 1 .. Len(source) : SubSeq(source, 1, p) \in Seq(Symbol)
              /\ SubSeq(source, 1, p) = Append(SubSeq(source, 1, p - 1), source[p])
         /\ SubSeq(source, 1, Len(source)) = source
<1>1. source \in Seq(Symbol) /\ Len(source) \in Nat
  BY DEF IsSource, Symbol
<1>2. SubSeq(source, 1, 0) = <<>>
  BY SubSeqEmpty
<1>3. ASSUME NEW p \in 1 .. Len(source)
      PROVE  SubSeq(source, 1, p) \in Seq(Symbol)
             /\ SubSeq(source, 1, p) = Append(SubSeq(source, 1, p - 1), source[p])
  <2> DEFINE u == SubSeq(source, 1, p)
             v == SubSeq(source, 1, p - 1)
             w == Append(v, source[p])
  <2>1. u \in Seq(Symbol) /\ Len(u) = p /\ \A j \in 1 .. p : u[j] = source[j]
    <3>1. 1 \in 1 .. Len(source) + 1 /\ p \in 0 .. Len(source)
      BY <1>1
    <3>2. QED  BY <1>1, <3>1, PartOfText DEF Text, Symbol
  <2>2. v \in Seq(Symbol) /\ Len(v) = p - 1 /\ \A j \in 1 .. p - 1 : v[j] = source[j]
    <3>1. 1 \in 1 .. Len(source) + 1 /\ p - 1 \in 0 .. Len(source)
      BY <1>1
    <3>2. QED  BY <1>1, <3>1, PartOfText DEF Text, Symbol
  <2>3. source[p] \in Symbol
    BY <1>1
  <2> HIDE DEF u, v
  <2>4. w \in Seq(Symbol) /\ Len(w) = p /\ \A j \in 1 .. p : w[j] = source[j]
    BY <2>2, <2>3
  <2> HIDE DEF w
  <2>5. u = w
    BY <2>1, <2>4, SeqEqual
  <2>6. QED  BY <2>1, <2>5 DEF u, v, w
<1>4. SubSeq(source, 1, Len(source)) = source
  BY <1>1, SubSeqFull
<1>5. QED  BY <1>2, <1>3, <1>4

\* What the file gets: the text without EOF.
LEMMA WrittenText ==
  ASSUME IsSource(source)
  PROVE  Without(source, "eoft") = UpToEnd /\ Without(UpToEnd, "eoft") = UpToEnd
<1> DEFINE n == Len(source) - 1
           part == UpToEnd
<1>1. /\ source \in Seq(Symbol) /\ Len(source) \in Nat \ {0} /\ n \in 0 .. Len(source)
      /\ source[Len(source)] = "eoft" /\ \A p \in 1 .. n : source[p] # "eoft"
  <2>1. Len(source) \in Nat \ {0} /\ source[Len(source)] = "eoft"
        /\ \A p \in 1 .. Len(source) : source[p] = "eoft" => p = Len(source)
    BY Tokenized
  <2>2. source \in Seq(Symbol)
    BY DEF IsSource, Symbol
  <2>3. QED  BY <2>1, <2>2
<1>2. WithoutUpTo(source, "eoft")[n] = part
  BY <1>1, WithoutAbsent DEF UpToEnd
<1>3. Without(source, "eoft") = WithoutUpTo(source, "eoft")[n]
  <2>1. Len(source) \in 1 .. Len(source)
    BY <1>1
  <2>2. \A p \in 1 .. Len(source) :
          WithoutUpTo(source, "eoft")[p] =
            IF source[p] = "eoft" THEN WithoutUpTo(source, "eoft")[p - 1]
            ELSE Append(WithoutUpTo(source, "eoft")[p - 1], source[p])
    BY <1>1, WithoutDefined
  <2>3. QED  BY <1>1, <2>1, <2>2, Zenon DEF Without
<1>4. /\ part \in Seq(Symbol) /\ Len(part) = n
      /\ \A p \in 1 .. n : part[p] = source[p]
  <2>1. 1 \in 1 .. Len(source) + 1 /\ n \in 0 .. Len(source)
    BY <1>1
  <2>2. n \in Nat /\ 1 <= n + 1 /\ n - 1 + 1 = n
    BY <1>1
  <2>3. \A j \in 1 .. n : 1 + j - 1 = j
    OBVIOUS
  <2>4. part = SubSeq(source, 1, n)
    BY DEF UpToEnd
  <2> HIDE DEF n, part
  <2>5. QED  BY <1>1, <2>1, <2>2, <2>3, <2>4, PartOfText DEF Text, Symbol
<1> HIDE DEF part
<1>5. Without(part, "eoft") = part
  <2>1. n \in 0 .. Len(part) /\ \A p \in 1 .. n : part[p] # "eoft"
    BY <1>1, <1>4
  <2>2. WithoutUpTo(part, "eoft")[n] = SubSeq(part, 1, n)
    BY <1>4, <2>1, WithoutAbsent
  <2>3. SubSeq(part, 1, n) = part
    BY <1>4, SubSeqFull
  <2>4. QED  BY <1>4, <2>2, <2>3 DEF Without
<1>6. QED  BY <1>2, <1>3, <1>5 DEF part

LEMMA PassInitial == Init => PassInv
<1> SUFFICES ASSUME Init PROVE PassInv
  OBVIOUS
<1>1. /\ pc = "generate"
      /\ file.state = "none" /\ processed_source = <<>>
  BY DEF Init
<1>2. QED  BY <1>1 DEF PassInv

\* A step of the loop that copies keeps to what is to be copied.
LEMMA CopyStep ==
  ASSUME TypeInv, Copied, source' = source, macro_list' = macro_list,
         ExpandToken \/ CopyCharacter
  PROVE  Copied'
<1>1. /\ IsSource(source) /\ Len(source) \in Nat \ {0} /\ Len(TokenList) \in Nat \ {0}
      /\ source[Len(source)] = "eoft" /\ TokenList[Len(TokenList)] = Len(source)
      /\ i \in 1 .. Len(source) + 1
  BY Tokenized DEF TypeInv
<1>2. TokenList' = TokenList /\ (Closed' <=> Closed) /\ UpToEnd' = UpToEnd
  BY SameText DEF Closed, UpToEnd
<1>3. i <= Len(source)
  BY DEF ExpandToken, CopyCharacter
<1>4. processed_source = SubSeq(source, 1, i - 1)
  BY <1>1, <1>3 DEF Copied, UpToEnd
<1>5. SubSeq(source, 1, i) = Append(SubSeq(source, 1, i - 1), source[i])
      /\ SubSeq(source, 1, Len(source)) = source
  <2>1. i \in 1 .. Len(source)
    BY <1>1, <1>3
  <2>2. QED  BY <1>1, <2>1, CopiedParts
<1>6. ASSUME AtToken
      PROVE  /\ i = Len(source) /\ current_token = Len(TokenList)
             /\ Token(current_token) = "eoft" /\ Following(current_token) = NULL
             /\ \A m \in 1 .. Len(macro_list) : ~Names(m) /\ (Defines(m) => Closed)
             /\ Concerned = {} => ~Closed
  <2>1. current_token \in 1 .. Len(TokenList) /\ TokenList[current_token] = i
    BY <1>1, <1>3, <1>6, CursorAtToken
  <2>2. current_token = Len(TokenList)
    BY <1>1, <1>3, <2>1 DEF Copied, NULL
  <2>3. i = Len(source) /\ Token(current_token) = "eoft"
    BY <1>1, <2>1, <2>2 DEF Token
  <2>4. Following(current_token) = NULL
    <3>1. ~(current_token < Len(TokenList))
      BY <1>1, <2>2
    <3>2. QED  BY <3>1, Zenon DEF Following
  <2>5. \A m \in 1 .. Len(macro_list) :
          /\ macro_list[m].identifier \in Name
          /\ macro_list[m].start_index \in 1 .. Len(source)
          /\ macro_list[m].end_index \in 1 .. Len(source)
    BY TypeInvOK DEF TypeOK
  <2>6. \A m \in 1 .. Len(macro_list) : ~Names(m)
    BY <2>3, <2>5, NameIsNoKeyword DEF Names
  <2>7. \A m \in 1 .. Len(macro_list) : Defines(m) => Closed
    BY <1>1, <2>3, <2>5 DEF Defines, Closed
  <2>8. ASSUME Closed PROVE Concerned # {}
    <3>1. PICK m \in 1 .. Len(macro_list) : macro_list[m].end_index = Len(source)
      BY <2>8 DEF Closed
    <3>2. macro_list[m].start_index <= i /\ i <= macro_list[m].end_index
      BY <1>1, <2>3, <2>5, <3>1
    <3>3. QED  BY <3>2 DEF Concerned, Defines
  <2>9. QED  BY <2>2, <2>3, <2>4, <2>6, <2>7, <2>8
<1>7. CASE Skipping
  <2>1. AtToken /\ Concerned # {} /\ Defines(Deciding)
        /\ i' = macro_list[Deciding].end_index + 1 /\ processed_source' = processed_source
    BY <1>7 DEF Skipping, ExpandToken, SkipDefinition
  <2>2. Deciding \in 1 .. Len(macro_list) /\ macro_list[Deciding].end_index \in 1 .. Len(source)
    BY <2>1, DecidingFound
  <2>3. Closed /\ i = Len(source)
    BY <1>6, <2>1, <2>2
  <2>4. macro_list[Deciding].end_index = Len(source)
    BY <1>1, <2>1, <2>2, <2>3 DEF Defines
  <2>5. i' = Len(source) + 1 /\ processed_source' = UpToEnd
    BY <1>4, <2>1, <2>3, <2>4 DEF UpToEnd
  <2>6. QED  BY <1>2, <2>3, <2>5 DEF Copied
<1>8. CASE Replacing
  <2>1. AtToken /\ Concerned # {} /\ ~Defines(Deciding)
    BY <1>8 DEF Replacing, ExpandToken, ExpandMacro
  <2>2. Deciding \in Concerned /\ Deciding \in 1 .. Len(macro_list)
    BY <2>1, DecidingFound
  <2>3. Defines(Deciding) \/ Names(Deciding)
    BY <2>2 DEF Concerned
  <2>4. QED  BY <1>6, <2>1, <2>2, <2>3
<1>9. CASE Copying
  <2>1. AtToken /\ Concerned = {}
        /\ processed_source' = processed_source \o TokenString(current_token)
        /\ i' = i + Len(TokenString(current_token))
        /\ current_token' = Following(current_token)
    BY <1>9 DEF Copying, ExpandToken, CopyToken
  <2>2. i = Len(source) /\ Following(current_token) = NULL /\ ~Closed
        /\ TokenString(current_token) = <<>>
    BY <1>6, <2>1 DEF TokenString
  <2>3. i' = Len(source) /\ current_token' = NULL
    <3>1. Len(<<>>) = 0
      OBVIOUS
    <3>2. QED  BY <1>1, <2>1, <2>2, <3>1
  <2>4. processed_source' = UpToEnd
    <3>1. processed_source \in Seq(Symbol)
      BY DEF TypeInv, Text, Symbol
    <3>2. processed_source \o <<>> = processed_source
      BY <3>1
    <3>3. QED  BY <1>4, <2>1, <2>2, <3>2 DEF UpToEnd
  <2>5. QED  BY <1>2, <2>2, <2>3, <2>4 DEF Copied
<1>10. CASE CopyCharacter
  <2>1. ~AtToken /\ processed_source' = Append(processed_source, source[i])
        /\ i' = i + 1 /\ current_token' = current_token
    BY <1>10 DEF CopyCharacter
  <2>2. processed_source' = SubSeq(source, 1, i)
    BY <1>4, <1>5, <2>1
  <2>3. CASE current_token = Len(TokenList)
    <3>1. i # Len(source)
      BY <1>1, <2>1, <2>3 DEF AtToken, NULL
    <3>2. i' <= Len(source) /\ i' - 1 = i
      BY <1>1, <1>3, <2>1, <3>1
    <3>3. QED  BY <1>2, <2>1, <2>2, <2>3, <3>2 DEF Copied
  <2>4. CASE current_token # Len(TokenList)
    <3>1. i = Len(source) /\ ~Closed
      BY <1>1, <1>3, <2>4 DEF Copied
    <3>2. i' = Len(source) + 1 /\ processed_source' = source
      BY <1>5, <2>1, <2>2, <3>1
    <3>3. QED  BY <1>2, <3>1, <3>2 DEF Copied
  <2>5. QED  BY <2>3, <2>4
<1>11. QED  BY <1>7, <1>8, <1>9, <1>10, TokenBranches, Zenon

LEMMA PassStep ==
  ASSUME TypeInv, PassInv, Next
  PROVE  PassInv'
<1>1. source' = source
  BY DEF Next, ScanToken, FinishList, ExpandToken, CopyCharacter, FinishExpansion, WriteFile
<1>2. IsSource(source) /\ Len(source) \in Nat \ {0} /\ Len(TokenList) \in Nat \ {0}
  BY Tokenized DEF TypeInv
<1>3. CASE ScanToken
  <2>1. pc' = "generate" /\ file' = file /\ pc = "generate"
        /\ processed_source' = processed_source
    BY <1>3 DEF ScanToken, expansion
  <2>2. QED  BY <1>1, <2>1 DEF PassInv
<1>4. CASE FinishList
  <2>1. Token(current) = "eoft" /\ pc = "generate" /\ file' = file /\ errors' = errors
        /\ \/ /\ errors = <<>> /\ pc' = "expand" /\ current_token' = current /\ i' = 1
              /\ processed_source' = processed_source
           \/ errors # <<>> /\ pc' = "done"
    BY <1>4 DEF FinishList
  <2>2. current = Len(TokenList)
    BY <1>2, <2>1, TokenAt DEF TypeInv
  <2>3. file.state = "none"
    BY <2>1 DEF PassInv
  <2>4. CASE errors # <<>>
    BY <1>1, <2>1, <2>3, <2>4 DEF PassInv
  <2>5. CASE errors = <<>>
    <3>1. TokenList' = TokenList
      BY <1>1, SameText
    <3>2. processed_source = <<>>
      BY <2>1 DEF PassInv
    <3>3. SubSeq(source, 1, 0) = <<>> /\ 1 - 1 = 0 /\ 1 <= Len(source)
      BY <1>2, CopiedParts
    <3>4. QED  BY <1>1, <2>1, <2>2, <2>3, <2>5, <3>1, <3>2, <3>3 DEF PassInv, Copied
  <2>6. QED  BY <2>4, <2>5
<1>6. CASE ExpandToken \/ CopyCharacter
  <2>1. pc = "expand" /\ pc' = "expand"
        /\ UNCHANGED <<macro_list, errors, file>>
    BY <1>6 DEF ExpandToken, CopyCharacter
  <2>2. Copied => Copied'
    BY <1>1, <1>6, <2>1, CopyStep
  <2> HIDE DEF Copied
  <2>3. QED  BY <1>1, <2>1, <2>2 DEF PassInv
<1>7. CASE FinishExpansion
  <2>1. pc = "expand" /\ i > Len(source)
        /\ pc' = "write"
        /\ UNCHANGED <<source, macro_list, errors, current_token, i,
                       processed_source, file>>
    BY <1>7 DEF FinishExpansion, expansion
  <2>2. i = Len(source) + 1 /\ file.state = "none"
    BY <1>2, <2>1 DEF TypeInv, PassInv
  <2>3. TokenList' = TokenList
    BY <1>1, SameText
  <2>4. Copied' <=> Copied
    BY <2>1, <2>3, Zenon DEF Copied, Closed, UpToEnd
  <2> HIDE DEF Copied
  <2>5. QED  BY <2>1, <2>2, <2>4 DEF PassInv
<1>8. CASE WriteFile
  <2>1. /\ pc = "write" /\ pc' = "done"
        /\ file'.state = "written" => file'.text = Without(processed_source, "eoft")
        /\ UNCHANGED <<source, macro_list, errors, current_token, i,
                       processed_source>>
    BY <1>8 DEF WriteFile, expansion
  <2>2. TokenList' = TokenList
    BY <1>1, SameText
  <2>3. (Copied' <=> Copied) /\ UpToEnd' = UpToEnd
    BY <2>1, <2>2, Zenon DEF Copied, Closed, UpToEnd
  <2>4. Copied /\ i = Len(source) + 1 => Without(processed_source, "eoft") = UpToEnd
    <3> SUFFICES ASSUME Copied, i = Len(source) + 1
                 PROVE  Without(processed_source, "eoft") = UpToEnd
      OBVIOUS
    <3>1. processed_source = UpToEnd \/ processed_source = source
      BY <1>2 DEF Copied
    <3>2. QED  BY <1>2, <3>1, WrittenText
  <2> HIDE DEF Copied, UpToEnd
  <2>5. QED  BY <2>1, <2>3, <2>4 DEF PassInv
<1>9. QED
  BY <1>3, <1>4, <1>6, <1>7, <1>8, Zenon DEF Next

LEMMA PassStutters == PassInv /\ UNCHANGED vars => PassInv'
<1> SUFFICES ASSUME PassInv, UNCHANGED vars PROVE PassInv'
  OBVIOUS
<1>1. UNCHANGED <<source, pc, tokens, current, macro_list, errors, current_token, i,
                  processed_source, file>>
  BY DEF vars, expansion
<1>2. TokenList' = TokenList
  BY <1>1, SameText
<1>3. QED  BY <1>1, <1>2, Zenon DEF PassInv, Copied, Closed, UpToEnd

\* preprocessor_process hands on the text it was given, whatever macros the text defines
\* and uses: the cursor is left at the end of the token list, where no macro is found.
THEOREM Unexpanded == Spec => []TextPassedThrough
<1>1. Init => PassInv
  BY PassInitial
<1>2. TypeInv /\ PassInv /\ [Next]_vars => PassInv'
  BY PassStep, PassStutters
<1>3. TypeInv /\ PassInv => TextPassedThrough
  <2> SUFFICES ASSUME TypeInv, PassInv, pc = "done" /\ errors = <<>>
               PROVE  LET text == SubSeq(source, 1, Len(source) - 1) IN
                      /\ processed_source = IF Closed THEN text ELSE source
                      /\ file.state = "written" => file.text = text
    BY DEF TextPassedThrough, Closed
  <2>1. Copied /\ i = Len(source) + 1 /\ Len(source) \in Nat
    BY Tokenized DEF PassInv, TypeInv
  <2>2. processed_source = IF Closed THEN UpToEnd ELSE source
    BY <2>1 DEF Copied
  <2>3. QED  BY <2>2 DEF PassInv, UpToEnd
<1>4. QED  BY <1>1, <1>2, <1>3, TypeInvariant, PTL DEF Spec

-----------------------------------------------------------------------------
(* What the macro list says of the text *)

\* The tokens of a part of the text: those of the list whose place is in it.
LEMMA PartTokens ==
  ASSUME IsSource(source), NEW from \in 1 .. Len(source) + 1, NEW to \in 0 .. Len(source),
         from <= to + 1,
         NEW a \in 0 .. Len(TokenList), NEW b \in 0 .. Len(TokenList),
         \A k \in 1 .. Len(TokenList) : k <= a <=> TokenList[k] < from,
         \A k \in 1 .. Len(TokenList) : k <= b <=> TokenList[k] <= to
  PROVE  /\ Tokens(SubSeq(source, from, to)) \in Seq(Symbol)
         /\ Len(Tokens(SubSeq(source, from, to))) = b - a /\ b - a \in Nat
         /\ \A k \in 1 .. b - a : Tokens(SubSeq(source, from, to))[k] = Token(a + k)
<1> DEFINE part == SubSeq(source, from, to)
           n == to - from + 1
           kept == WithoutUpTo(part, "blank")
           Same(list, p, c) == /\ Len(list) = c - a /\ c \in a .. Len(TokenList)
                               /\ \A k \in 1 .. Len(TokenList) :
                                    k <= c <=> TokenList[k] < from + p
                               /\ \A k \in 1 .. c - a : list[k] = Token(a + k)
           T == {p \in Nat : p <= n => \E c \in Nat : Same(kept[p], p, c)}
<1>1. /\ Len(source) \in Nat /\ Len(TokenList) \in Nat
      /\ InOrder(TokenList, Len(source))
  BY Tokenized
<1>2. /\ part \in Seq(Symbol) /\ Len(part) = n /\ n \in Nat
      /\ \A j \in 1 .. n : part[j] = source[from + j - 1]
  BY <1>1, PartOfText DEF Text, Symbol
<1>3. /\ kept[0] = <<>>
      /\ \A p \in 0 .. Len(part) : kept[p] \in Seq(Symbol)
      /\ \A p \in 1 .. Len(part) :
           kept[p] = IF part[p] = "blank" THEN kept[p - 1] ELSE Append(kept[p - 1], part[p])
  <2> HIDE DEF part
  <2>1. QED  BY <1>2, WithoutDefined
<1> HIDE DEF part, kept, n, T
<1>4. 0 \in T
  <2>1. Len(kept[0]) = a - a
    BY <1>3
  <2>2. from + 0 = from /\ a \in a .. Len(TokenList) /\ a \in Nat
        /\ \A k \in 1 .. a - a : kept[0][k] = Token(a + k)
    BY <1>1
  <2>3. Same(kept[0], 0, a)
    BY <2>1, <2>2
  <2> HIDE DEF Same
  <2>4. QED  BY <2>2, <2>3 DEF T
<1>5. ASSUME NEW p \in Nat, p \in T
      PROVE  p + 1 \in T
  <2> SUFFICES ASSUME p + 1 <= n PROVE \E c \in Nat : Same(kept[p + 1], p + 1, c)
    BY DEF T
  <2>1. PICK c \in Nat : Same(kept[p], p, c)
    <3> HIDE DEF Same
    <3>1. QED  BY <1>2, <1>5 DEF T
  <2>2. /\ p + 1 \in 1 .. Len(part) /\ p \in 0 .. Len(part) /\ (p + 1) - 1 = p
        /\ part[p + 1] = source[from + p] /\ from + p \in 1 .. Len(source)
    <3>1. p + 1 \in 1 .. n /\ p \in 0 .. n /\ (p + 1) - 1 = p /\ from + (p + 1) - 1 = from + p
      BY <1>1, <1>2
    <3>2. from + p \in 1 .. Len(source)
      BY <1>1, <3>1 DEF n
    <3>3. QED  BY <1>2, <3>1, <3>2
  <2> DEFINE old == kept[p]
             new == kept[p + 1]
  <2>3. new = IF source[from + p] = "blank" THEN old ELSE Append(old, source[from + p])
    <3>1. kept[p + 1] = IF part[p + 1] = "blank" THEN kept[(p + 1) - 1]
                        ELSE Append(kept[(p + 1) - 1], part[p + 1])
      BY <1>3, <2>2, Zenon
    <3>2. QED  BY <2>2, <3>1, Zenon
  <2>4. /\ old \in Seq(Symbol) /\ Len(old) = c - a /\ c \in a .. Len(TokenList)
        /\ \A k \in 1 .. Len(TokenList) : k <= c <=> TokenList[k] < from + p
        /\ \A k \in 1 .. c - a : old[k] = Token(a + k)
    BY <1>3, <2>1, <2>2
  <2> HIDE DEF old, new
  <2>5. \A k \in 1 .. Len(TokenList) : TokenList[k] \in 1 .. Len(source)
    BY <1>1 DEF InOrder
  <2>6. CASE source[from + p] = "blank"
    <3>1. new = old
      BY <2>3, <2>6
    <3>2. ASSUME NEW k \in 1 .. Len(TokenList)
          PROVE  k <= c <=> TokenList[k] < from + (p + 1)
      <4>1. TokenList[k] # from + p
        BY <1>1, <2>6 DEF InOrder
      <4>2. (k <= c <=> TokenList[k] < from + p) /\ TokenList[k] \in 1 .. Len(source)
        BY <2>4, <2>5, Zenon
      <4> DEFINE t == TokenList[k]
      <4>3. t \in Nat /\ t # from + p /\ (k <= c <=> t < from + p)
        BY <1>1, <4>1, <4>2
      <4> HIDE DEF t
      <4>4. k <= c <=> t < from + (p + 1)
        BY <4>3
      <4>5. QED  BY <4>4 DEF t
    <3>3. Same(new, p + 1, c)
      BY <2>4, <3>1, <3>2
    <3>4. QED  BY <3>3 DEF new
  <2>7. CASE source[from + p] # "blank"
    <3>1. PICK k \in 1 .. Len(TokenList) : TokenList[k] = from + p
      BY <1>1, <2>2, <2>7 DEF InOrder
    <3>2. \A j \in 1 .. Len(TokenList) : TokenList[j] < TokenList[k] => j < k
      <4> SUFFICES ASSUME NEW j \in 1 .. Len(TokenList), TokenList[j] < TokenList[k], ~(j < k)
                   PROVE  FALSE
        OBVIOUS
      <4>1. k < j \/ k = j
        BY <1>1
      <4>2. k < j => TokenList[k] < TokenList[j]
        BY <1>1 DEF InOrder
      <4>3. QED  BY <2>5, <4>1, <4>2
    <3>3. \A j \in 1 .. Len(TokenList) : j < k => TokenList[j] < TokenList[k]
      BY <1>1 DEF InOrder
    <3>4. k = c + 1
      <4>1. ~(k <= c)
        BY <2>2, <2>4, <3>1
      <4>2. c + 1 \in 1 .. Len(TokenList)
        BY <1>1, <2>4, <4>1
      <4>3. ~(TokenList[c + 1] < from + p)
        BY <2>4, <4>2
      <4>4. ~(c + 1 < k)
        BY <2>2, <2>5, <3>1, <3>3, <4>2, <4>3
      <4>5. QED  BY <4>1, <4>2, <4>4
    <3>5. ASSUME NEW j \in 1 .. Len(TokenList)
          PROVE  j <= c + 1 <=> TokenList[j] < from + (p + 1)
      <4>1. TokenList[j] < TokenList[k] <=> j < k
        BY <3>2, <3>3
      <4>2. TokenList[j] = TokenList[k] <=> j = k
        <5>1. j < k \/ j = k \/ k < j
          BY <1>1
        <5>2. k < j => TokenList[k] < TokenList[j]
          BY <1>1 DEF InOrder
        <5>3. QED  BY <2>5, <3>3, <5>1, <5>2
      <4> DEFINE t == TokenList[j]
      <4>3. t \in Nat /\ (t < from + p <=> j < c + 1) /\ (t = from + p <=> j = c + 1)
        BY <2>5, <3>1, <3>4, <4>1, <4>2
      <4> HIDE DEF t
      <4>4. j <= c + 1 <=> t < from + (p + 1)
        BY <4>3
      <4>5. QED  BY <4>4 DEF t
    <3>6. /\ Len(new) = (c + 1) - a /\ c + 1 \in a .. Len(TokenList)
          /\ \A j \in 1 .. (c + 1) - a : new[j] = Token(a + j)
      <4>1. new = Append(old, Token(c + 1))
        BY <2>3, <2>7, <3>1, <3>4 DEF Token
      <4>2. /\ Len(new) = (c - a) + 1 /\ new[(c - a) + 1] = Token(c + 1)
            /\ \A j \in 1 .. c - a : new[j] = old[j]
        BY <2>4, <4>1
      <4>3. c + 1 \in a .. Len(TokenList) /\ Len(new) = (c + 1) - a
        BY <1>1, <2>4, <3>4, <4>2
      <4>4. ASSUME NEW j \in 1 .. (c + 1) - a
            PROVE  new[j] = Token(a + j)
        <5>1. CASE j = (c - a) + 1
          <6>1. a + j = c + 1
            BY <2>4, <5>1
          <6>2. QED  BY <4>2, <5>1, <6>1
        <5>2. CASE j # (c - a) + 1
          <6>1. j \in 1 .. c - a
            BY <2>4, <5>2
          <6>2. QED  BY <2>4, <4>2, <6>1
        <5>3. QED  BY <5>1, <5>2
      <4>5. QED  BY <4>3, <4>4
    <3>7. Same(new, p + 1, c + 1)
      BY <3>5, <3>6
    <3>8. c + 1 \in Nat
      OBVIOUS
    <3> HIDE DEF Same
    <3>9. QED  BY <3>7, <3>8 DEF new
  <2>8. QED  BY <2>6, <2>7
<1>6. \A p \in Nat : p \in T
  BY <1>4, <1>5, Induction
<1>7. PICK c \in Nat : Same(kept[n], n, c)
  <2> HIDE DEF Same
  <2>1. n \in T
    <3> HIDE DEF T
    <3>1. QED  BY <1>2, <1>6
  <2>2. QED  BY <1>2, <2>1 DEF T
<1>8. c = b
  <2>1. \A k \in 1 .. Len(TokenList) : TokenList[k] \in 1 .. Len(source)
    BY <1>1 DEF InOrder
  <2>2. \A k \in 1 .. Len(TokenList) : TokenList[k] < from + n <=> TokenList[k] <= to
    BY <1>1, <2>1 DEF n
  <2>3. \A k \in 1 .. Len(TokenList) : k <= c <=> k <= b
    BY <1>7, <2>2
  <2>4. c \in 0 .. Len(TokenList)
    BY <1>1, <1>7
  <2>5. QED  BY <1>1, <2>3, <2>4
<1>9. Tokens(part) = kept[n]
  BY <1>2, Zenon DEF Tokens, Without, kept
<1>10. kept[n] \in Seq(Symbol)
  BY <1>2, <1>3
<1>11. QED  BY <1>7, <1>8, <1>9, <1>10 DEF part

\* What DefinitionsDelimited says of one macro.
Delimited(text, macro) ==
  LET body == Tokens(macro.content)
  IN  /\ Tokens(SubSeq(text, macro.start_index, macro.end_index))
           \in {<<"macr", macro.identifier, "eol">> \o body \o <<"endmacr", closing>> :
                  closing \in {"eol", "eoft"}}
      /\ \A k \in 1 .. Len(body) - 2 :
           SubSeq(body, k, k + 2) # <<"eol", "endmacr", "eol">>

\* The macro that CreateMacro makes is delimited in the text.
LEMMA MacroDelimited ==
  ASSUME IsSource(source), NEW k \in 1 .. Len(TokenList), k + 2 < Len(TokenList),
         Token(k) = "macr", Token(k + 1) \in Name, Token(k + 2) = "eol", Ends(k) # {}
  PROVE  Delimited(source, Macro(k))
<1> DEFINE e == FirstEnd(k)
           start == TokenList[k]
           end == TokenList[e + 2]
           from == TokenList[k + 2] + 1
           to == TokenList[e]
           body == Tokens(SubSeq(source, from, to))
           whole == Tokens(SubSeq(source, start, end))
<1>1. e \in k + 3 .. Len(TokenList) - 2 /\ EndsAt(e)
      /\ \A f \in k + 3 .. e - 1 : ~EndsAt(f)
  BY EndFound
<1> HIDE DEF e
<1>2. /\ Len(TokenList) \in Nat /\ Len(source) \in Nat
      /\ e + 2 \in 1 .. Len(TokenList) /\ e \in 1 .. Len(TokenList)
      /\ k + 2 \in 1 .. Len(TokenList) /\ k - 1 \in 0 .. Len(TokenList)
  BY <1>1, Tokenized
<1>3. /\ start \in 1 .. Len(source) /\ end \in 1 .. Len(source)
      /\ TokenList[k + 2] \in 1 .. Len(source) /\ to \in 1 .. Len(source)
  BY <1>2, TokenAt
<1>4. ASSUME NEW j \in 1 .. Len(TokenList), NEW l \in 1 .. Len(TokenList)
      PROVE  (TokenList[j] < TokenList[l] <=> j < l) /\ (TokenList[j] <= TokenList[l] <=> j <= l)
             /\ TokenList[j] \in 1 .. Len(source) /\ TokenList[l] \in 1 .. Len(source)
  <2>1. InOrder(TokenList, Len(source))
    BY Tokenized
  <2>2. j < l => TokenList[j] < TokenList[l]
    BY <2>1 DEF InOrder
  <2>3. l < j => TokenList[l] < TokenList[j]
    BY <2>1 DEF InOrder
  <2>4. TokenList[j] \in 1 .. Len(source) /\ TokenList[l] \in 1 .. Len(source)
    BY TokenAt
  <2>5. j < l \/ j = l \/ l < j
    BY <1>2
  <2>6. QED  BY <1>2, <2>2, <2>3, <2>4, <2>5
<1>5. /\ whole \in Seq(Symbol) /\ Len(whole) = (e + 2) - (k - 1)
      /\ \A j \in 1 .. (e + 2) - (k - 1) : whole[j] = Token(k - 1 + j)
  <2>1. \A j \in 1 .. Len(TokenList) : j <= k - 1 <=> TokenList[j] < start
    <3> SUFFICES ASSUME NEW j \in 1 .. Len(TokenList)
                 PROVE  j <= k - 1 <=> TokenList[j] < start
      OBVIOUS
    <3>1. TokenList[j] < start <=> j < k
      BY <1>4
    <3>2. QED  BY <1>2, <3>1
  <2>2. \A j \in 1 .. Len(TokenList) : j <= e + 2 <=> TokenList[j] <= end
    BY <1>2, <1>4
  <2>3. start <= end + 1 /\ start \in 1 .. Len(source) + 1 /\ end \in 0 .. Len(source)
        /\ e + 2 \in 0 .. Len(TokenList)
    <3>1. start <= end
      BY <1>1, <1>2, <1>4
    <3>2. QED  BY <1>2, <1>3, <3>1
  <2> DEFINE a == k - 1
             b == e + 2
  <2>4. a \in 0 .. Len(TokenList) /\ b \in 0 .. Len(TokenList)
    BY <1>2, <2>3
  <2>5. \A j \in 1 .. Len(TokenList) : j <= a <=> TokenList[j] < start
    BY <2>1
  <2>6. \A j \in 1 .. Len(TokenList) : j <= b <=> TokenList[j] <= end
    BY <2>2
  <2> HIDE DEF start, end, a, b
  <2>7. /\ whole \in Seq(Symbol) /\ Len(whole) = b - a
        /\ \A j \in 1 .. b - a : whole[j] = Token(a + j)
    BY <2>3, <2>4, <2>5, <2>6, PartTokens
  <2> HIDE DEF whole
  <2>8. QED  BY <2>7, Zenon DEF a, b
<1>6. /\ body \in Seq(Symbol) /\ Len(body) = e - (k + 2) /\ e - (k + 2) \in Nat
      /\ \A j \in 1 .. e - (k + 2) : body[j] = Token(k + 2 + j)
  <2> DEFINE a == k + 2
             b == e
  <2>1. \A j \in 1 .. Len(TokenList) : j <= a <=> TokenList[j] < from
    <3> SUFFICES ASSUME NEW j \in 1 .. Len(TokenList)
                 PROVE  j <= k + 2 <=> TokenList[j] < TokenList[k + 2] + 1
      OBVIOUS
    <3>1. (TokenList[j] <= TokenList[k + 2] <=> j <= k + 2) /\ TokenList[j] \in 1 .. Len(source)
      BY <1>2, <1>4
    <3>2. QED  BY <1>2, <1>3, <3>1
  <2>2. \A j \in 1 .. Len(TokenList) : j <= b <=> TokenList[j] <= to
    BY <1>2, <1>4
  <2>3. from <= to + 1 /\ from \in 1 .. Len(source) + 1 /\ to \in 0 .. Len(source)
    <3>1. TokenList[k + 2] < TokenList[e]
      BY <1>1, <1>2, <1>4
    <3> DEFINE x == TokenList[k + 2]
               y == TokenList[e]
    <3>2. x \in 1 .. Len(source) /\ y \in 1 .. Len(source) /\ x < y
      BY <1>3, <3>1
    <3> HIDE DEF x, y
    <3>3. x + 1 <= y + 1 /\ x + 1 \in 1 .. Len(source) + 1 /\ y \in 0 .. Len(source)
      BY <1>2, <3>2
    <3>4. QED  BY <3>3 DEF x, y
  <2>4. a \in 0 .. Len(TokenList) /\ b \in 0 .. Len(TokenList)
    BY <1>2
  <2> HIDE DEF from, to, a, b
  <2>5. /\ body \in Seq(Symbol) /\ Len(body) = b - a /\ b - a \in Nat
        /\ \A j \in 1 .. b - a : body[j] = Token(a + j)
    BY <2>1, <2>2, <2>3, <2>4, PartTokens
  <2> HIDE DEF body
  <2>6. QED  BY <2>5 DEF a, b
<1> HIDE DEF whole, body
<1>7. Token(e) = "eol" /\ Token(e + 1) = "endmacr" /\ Token(e + 2) \in {"eol", "eoft"}
  BY <1>1 DEF EndsAt
<1> DEFINE head == <<"macr", Token(k + 1), "eol">>
           tail == <<"endmacr", Token(e + 2)>>
           joined == head \o body \o tail
           Any == {"macr", "eol", "endmacr"} \union Symbol
<1>8. whole = joined
  <2> DEFINE n == Len(body)
             Words == Symbol \union {"macr", "eol", "endmacr", "eoft"} \union Name
  <2>1. /\ n \in Nat /\ Len(whole) = n + 5 /\ body \in Seq(Words) /\ whole \in Seq(Words)
    <3>1. body \in Seq(Symbol) /\ Len(body) \in Nat
      BY <1>6
    <3>2. Len(whole) = Len(body) + 5
      BY <1>2, <1>5, <1>6
    <3>3. QED  BY <1>5, <3>1, <3>2
  <2>2. /\ head \in Seq(Words) /\ Len(head) = 3
        /\ head[1] = "macr" /\ head[2] = Token(k + 1) /\ head[3] = "eol"
    OBVIOUS
  <2>3. /\ tail \in Seq(Words) /\ Len(tail) = 2
        /\ tail[1] = "endmacr" /\ tail[2] = Token(e + 2)
    BY <1>7
  <2> HIDE DEF head, tail, Words
  <2> DEFINE front == head \o body
  <2>4. /\ front \in Seq(Words) /\ Len(front) = n + 3
        /\ \A j \in 1 .. 3 : front[j] = head[j]
        /\ \A j \in 4 .. n + 3 : front[j] = body[j - 3]
    <3>1. /\ front \in Seq(Words) /\ Len(front) = Len(head) + Len(body)
          /\ \A j \in 1 .. Len(head) + Len(body) :
               front[j] = IF j <= Len(head) THEN head[j] ELSE body[j - Len(head)]
      BY <2>1, <2>2, ConcatProperties
    <3> HIDE DEF front
    <3>2. QED  BY <2>1, <2>2, <3>1 DEF n
  <2> HIDE DEF front
  <2> DEFINE all == front \o tail
  <2>5. /\ all \in Seq(Words) /\ Len(all) = n + 5
        /\ \A j \in 1 .. n + 3 : all[j] = front[j]
        /\ all[n + 4] = tail[1] /\ all[n + 5] = tail[2]
    <3>1. /\ all \in Seq(Words) /\ Len(all) = Len(front) + Len(tail)
          /\ \A j \in 1 .. Len(front) + Len(tail) :
               all[j] = IF j <= Len(front) THEN front[j] ELSE tail[j - Len(front)]
      BY <2>3, <2>4, ConcatProperties
    <3>2. n \in Nat
      BY <2>1
    <3> HIDE DEF all, n
    <3>3. Len(all) = n + 5 /\ \A j \in 1 .. n + 3 : all[j] = front[j]
      BY <2>3, <2>4, <3>1, <3>2
    <3>4. n + 4 \in 1 .. n + 5 /\ ~(n + 4 <= n + 3) /\ (n + 4) - (n + 3) = 1
          /\ n + 5 \in 1 .. n + 5 /\ ~(n + 5 <= n + 3) /\ (n + 5) - (n + 3) = 2
      BY <3>2
    <3>5. all[n + 4] = tail[1] /\ all[n + 5] = tail[2]
      BY <2>3, <2>4, <3>1, <3>4, SMTT(30)
    <3>6. QED  BY <3>1, <3>3, <3>5
  <2> HIDE DEF all, n
  <2>6. ASSUME NEW j \in 1 .. n + 5
        PROVE  whole[j] = all[j]
    <3>1. whole[j] = Token(k - 1 + j)
      BY <1>2, <1>5, <2>1
    <3>2. n = e - (k + 2)
      BY <1>6 DEF n
    <3>3. CASE j \in 1 .. 3
      <4>1. all[j] = head[j]
        BY <2>1, <2>4, <2>5, <3>3
      <4>2. k - 1 + 1 = k /\ k - 1 + 2 = k + 1 /\ k - 1 + 3 = k + 2
        OBVIOUS
      <4>3. j = 1 \/ j = 2 \/ j = 3
        BY <3>3
      <4>4. QED  BY <2>2, <3>1, <4>1, <4>2, <4>3
    <3>4. CASE j \in 4 .. n + 3
      <4>1. all[j] = body[j - 3]
        BY <2>1, <2>4, <2>5, <3>4
      <4>2. j - 3 \in 1 .. e - (k + 2) /\ k + 2 + (j - 3) = k - 1 + j
        BY <2>1, <3>2, <3>4
      <4>3. body[j - 3] = Token(k + 2 + (j - 3))
        BY <1>6, <4>2
      <4>4. QED  BY <3>1, <4>1, <4>2, <4>3
    <3>5. CASE j = n + 4
      <4>1. k - 1 + j = e + 1
        BY <1>2, <3>2, <3>5
      <4>2. QED  BY <1>7, <2>3, <2>5, <3>1, <3>5, <4>1
    <3>6. CASE j = n + 5
      <4>1. k - 1 + j = e + 2
        BY <1>2, <3>2, <3>6
      <4>2. QED  BY <1>7, <2>3, <2>5, <3>1, <3>6, <4>1
    <3>7. QED  BY <2>1, <3>3, <3>4, <3>5, <3>6
  <2>7. whole = all
    BY <2>1, <2>5, <2>6, SeqEqual
  <2>8. QED  BY <2>7 DEF all, front
<1>9. ASSUME NEW j \in 1 .. Len(body) - 2
      PROVE  SubSeq(body, j, j + 2) # <<"eol", "endmacr", "eol">>
  <2> DEFINE three == SubSeq(body, j, j + 2)
  <2>1. j \in Nat /\ j + 2 \in Nat /\ j \in 1 .. Len(body)
        /\ j + 1 \in 1 .. Len(body) /\ j + 2 \in 1 .. Len(body)
    BY <1>6
  <2>2. \A l \in 1 .. (j + 2) - j + 1 : three[l] = body[j + l - 1]
    <3>1. \A l \in j .. j + 2 : body[l] \in Symbol
      BY <1>6, <2>1
    <3> DEFINE last == j + 2
    <3>2. j \in Int /\ last \in Int /\ \A l \in j .. last : body[l] \in Symbol
      BY <2>1, <3>1
    <3> HIDE DEF last
    <3>3. \A l \in 1 .. last - j + 1 : SubSeq(body, j, last)[l] = body[j + l - 1]
      BY <3>2, SubSeqProperties
    <3>4. QED  BY <3>3 DEF last
  <2> HIDE DEF three
  <2> SUFFICES ASSUME three = <<"eol", "endmacr", "eol">>
               PROVE  FALSE
    BY DEF three
  <2>3. three[1] = "eol" /\ three[2] = "endmacr" /\ three[3] = "eol"
    OBVIOUS
  <2>4. body[j] = "eol" /\ body[j + 1] = "endmacr" /\ body[j + 2] = "eol"
    <3>1. 1 \in 1 .. (j + 2) - j + 1 /\ 2 \in 1 .. (j + 2) - j + 1 /\ 3 \in 1 .. (j + 2) - j + 1
          /\ j + 1 - 1 = j /\ j + 2 - 1 = j + 1 /\ j + 3 - 1 = j + 2
      BY <2>1
    <3>2. three[1] = body[j + 1 - 1] /\ three[2] = body[j + 2 - 1] /\ three[3] = body[j + 3 - 1]
      BY <2>2, <3>1
    <3>3. QED  BY <2>3, <3>1, <3>2
  <2> DEFINE f == k + 2 + j
  <2>5. /\ k + 2 + (j + 1) = f + 1 /\ k + 2 + (j + 2) = f + 2
        /\ f \in k + 3 .. e - 1 /\ f + 2 <= Len(TokenList)
    BY <1>1, <1>2, <1>6
  <2>6. Token(f) = "eol" /\ Token(f + 1) = "endmacr" /\ Token(f + 2) = "eol"
    <3>1. body[j] = Token(k + 2 + j) /\ body[j + 1] = Token(k + 2 + (j + 1))
          /\ body[j + 2] = Token(k + 2 + (j + 2))
      BY <1>6, <2>1
    <3>2. QED  BY <2>4, <2>5, <3>1
  <2> HIDE DEF f
  <2>7. EndsAt(f)
    BY <2>5, <2>6 DEF EndsAt
  <2>8. QED  BY <1>1, <2>5, <2>7
<1>10. /\ Macro(k).identifier = Token(k + 1) /\ Macro(k).start_index = start
       /\ Macro(k).end_index = end /\ Macro(k).content = SubSeq(source, from, to)
  BY DEF Macro, e
<1>11. whole \in {<<"macr", Token(k + 1), "eol">> \o body \o <<"endmacr", closing>> :
                    closing \in {"eol", "eoft"}}
  BY <1>7, <1>8, Zenon
<1> HIDE DEF start, end, from, to
<1>12. QED
  BY <1>9, <1>10, <1>11, Zenon DEF Delimited, whole, body

\* The macr tokens of the first p symbols.
MacrUpTo(p) == {q \in 1 .. p : source[q] = "macr"}

AccountInv ==
  /\ \A m \in 1 .. Len(macro_list) : Delimited(source, macro_list[m])
  /\ \A m, n \in 1 .. Len(macro_list) :
       macro_list[m].identifier = macro_list[n].identifier => m = n
  /\ pc = "generate" =>
       Cardinality(MacrUpTo(TokenList[current] - 1)) = Len(macro_list) + Len(errors)
  /\ pc # "generate" =>
       Cardinality(MacrUpTo(Len(source))) = Len(macro_list) + Len(errors)

\* Up to the next token there is one macr more, if the token is one.
LEMMA MacrCounted ==
  ASSUME IsSource(source)
  PROVE  /\ MacrUpTo(TokenList[1] - 1) = {}
         /\ MacrUpTo(Len(source)) = MacrUpTo(Len(source) - 1)
         /\ \A k \in 1 .. Len(TokenList) :
              Token(k) # "eoft" =>
                Cardinality(MacrUpTo(TokenList[k + 1] - 1))
                  = Cardinality(MacrUpTo(TokenList[k] - 1)) + (IF Token(k) = "macr" THEN 1 ELSE 0)
<1>1. /\ Len(TokenList) \in Nat \ {0} /\ Len(source) \in Nat \ {0}
      /\ InOrder(TokenList, Len(source)) /\ source[Len(source)] = "eoft"
  BY Tokenized
<1>2. MacrUpTo(TokenList[1] - 1) = {}
  <2> SUFFICES ASSUME NEW q \in 1 .. TokenList[1] - 1, source[q] = "macr" PROVE FALSE
    BY DEF MacrUpTo
  <2>1. TokenList[1] \in 1 .. Len(source)
    BY <1>1 DEF InOrder
  <2>2. q \in 1 .. Len(source) /\ q < TokenList[1]
    BY <1>1, <2>1
  <2>3. PICK k \in 1 .. Len(TokenList) : TokenList[k] = q
    BY <1>1, <2>2 DEF InOrder
  <2>4. k = 1 \/ 1 < k
    BY <1>1
  <2>5. 1 < k => TokenList[1] < TokenList[k]
    BY <1>1 DEF InOrder
  <2>6. QED  BY <2>1, <2>2, <2>3, <2>4, <2>5
<1>3. MacrUpTo(Len(source)) = MacrUpTo(Len(source) - 1)
  BY <1>1 DEF MacrUpTo
<1>4. ASSUME NEW k \in 1 .. Len(TokenList), Token(k) # "eoft"
      PROVE  Cardinality(MacrUpTo(TokenList[k + 1] - 1))
               = Cardinality(MacrUpTo(TokenList[k] - 1)) + (IF Token(k) = "macr" THEN 1 ELSE 0)
  <2> DEFINE p == TokenList[k]
             r == TokenList[k + 1]
             A == MacrUpTo(p - 1)
             B == MacrUpTo(r - 1)
  <2>1. /\ k + 1 \in 1 .. Len(TokenList) /\ p < r /\ p \in 1 .. Len(source)
        /\ r \in 1 .. Len(source) /\ Token(k) = source[p]
    <3>1. k + 1 \in 1 .. Len(TokenList) /\ p < r
      BY <1>4, TokenAt
    <3>2. QED  BY <3>1, TokenAt
  <2>2. \A q \in p + 1 .. r - 1 : source[q] = "blank"
    <3> SUFFICES ASSUME NEW q \in p + 1 .. r - 1, source[q] # "blank" PROVE FALSE
      OBVIOUS
    <3>1. q \in 1 .. Len(source) /\ p < q /\ q < r
      BY <1>1, <2>1
    <3>2. PICK j \in 1 .. Len(TokenList) : TokenList[j] = q
      BY <1>1, <3>1 DEF InOrder
    <3>3. j < k => TokenList[j] < p
      BY <1>1 DEF InOrder
    <3>4. k + 1 < j => r < TokenList[j]
      BY <1>1, <2>1 DEF InOrder
    <3>5. j < k \/ j = k \/ j = k + 1 \/ k + 1 < j
      BY <1>1
    <3>6. QED  BY <2>1, <3>1, <3>2, <3>3, <3>4, <3>5
  <2> HIDE DEF p, r
  <2>3. IsFiniteSet(A)
    <3>1. IsFiniteSet(1 .. p - 1)
      BY <1>1, <2>1, FS_Interval
    <3>2. A \subseteq 1 .. p - 1
      BY DEF MacrUpTo
    <3>3. QED  BY <3>1, <3>2, FS_Subset
  <2>4. CASE Token(k) = "macr"
    <3>1. B = A \union {p}
      <4>1. \A q : q \in 1 .. r - 1 <=> q \in 1 .. p - 1 \/ q = p \/ q \in p + 1 .. r - 1
        BY <1>1, <2>1
      <4>2. QED  BY <2>1, <2>2, <2>4, <4>1 DEF MacrUpTo
    <3>2. p \notin A
      BY <1>1, <2>1 DEF MacrUpTo
    <3> HIDE DEF A, B
    <3>3. Cardinality(A \union {p}) = Cardinality(A) + 1
      BY <2>3, <3>2, FS_AddElement
    <3>4. QED  BY <2>4, <3>1, <3>3 DEF A, B, p, r
  <2>5. CASE Token(k) # "macr"
    <3>1. B = A
      <4>1. \A q : q \in 1 .. r - 1 <=> q \in 1 .. p - 1 \/ q = p \/ q \in p + 1 .. r - 1
        BY <1>1, <2>1
      <4>2. QED  BY <2>1, <2>2, <2>5, <4>1 DEF MacrUpTo
    <3>2. Cardinality(A) \in Nat
      <4> HIDE DEF A
      <4>1. QED  BY <2>3, FS_CardinalityType
    <3> HIDE DEF A, B
    <3>3. Cardinality(B) = Cardinality(A) + 0
      BY <3>1, <3>2
    <3>4. QED  BY <2>5, <3>3 DEF A, B, p, r
  <2>6. QED  BY <2>4, <2>5
<1>5. QED  BY <1>2, <1>3, <1>4

LEMMA AccountInitial == Init => AccountInv
<1> SUFFICES ASSUME Init PROVE AccountInv
  OBVIOUS
<1>1. IsSource(source)
  BY SourcesAssumption DEF Init
<1>2. MacrUpTo(TokenList[1] - 1) = {} /\ Cardinality({}) = 0
  BY <1>1, MacrCounted, FS_EmptySet
<1>3. /\ macro_list = <<>> /\ errors = <<>> /\ current = 1
      /\ pc = "generate"
  BY DEF Init
<1>4. Len(macro_list) = 0 /\ Len(errors) = 0
  BY <1>3
<1>5. Cardinality(MacrUpTo(TokenList[current] - 1)) = 0
  BY <1>2, <1>3
<1> HIDE DEF MacrUpTo
<1>6. QED  BY <1>3, <1>4, <1>5 DEF AccountInv

\* CreateMacro at a token: one macro or one error more, and the list as it was otherwise.
LEMMA OneMore ==
  ASSUME TypeInv, AccountInv, source' = source, NEW k \in 1 .. Len(TokenList), CreateMacro(k)
  PROVE  /\ \A m \in 1 .. Len(macro_list') : Delimited(source, macro_list'[m])
         /\ \A m, n \in 1 .. Len(macro_list') :
              macro_list'[m].identifier = macro_list'[n].identifier => m = n
         /\ Len(macro_list') + Len(errors') = Len(macro_list) + Len(errors) + 1
<1>1. Created(k) /\ IsSource(source)
  BY MacroCreated DEF TypeInv
<1>2. macro_list \in Seq(MacroType) /\ errors \in Seq(ErrorType)
      /\ Len(macro_list) \in Nat /\ Len(errors) \in Nat
  BY DEF TypeInv
<1>3. CASE \E message \in Message, at \in 1 .. Len(source) :
              /\ errors' = Append(errors, [message |-> message, at |-> at])
              /\ macro_list' = macro_list
  <2>1. PICK message \in Message, at \in 1 .. Len(source) :
           /\ errors' = Append(errors, [message |-> message, at |-> at])
           /\ macro_list' = macro_list
    BY <1>3
  <2>2. Len(errors') = Len(errors) + 1
    BY <1>2, <2>1
  <2>3. QED  BY <1>2, <2>1, <2>2 DEF AccountInv
<1>4. CASE /\ Token(k) = "macr" /\ Token(k + 1) \in Name /\ Token(k + 2) = "eol" /\ Ends(k) # {}
           /\ k + 2 < Len(TokenList)
           /\ ~Duplicate(Token(k + 1))
           /\ Macro(k) \in MacroType /\ macro_list' = Append(macro_list, Macro(k))
           /\ errors' = errors
  <2> DEFINE l == Len(macro_list)
             macro == Macro(k)
  <2>1. macro.identifier = Token(k + 1)
    BY DEF Macro
  <2>2. Delimited(source, macro)
    BY <1>1, <1>4, MacroDelimited
  <2>3. /\ Len(macro_list') = l + 1 /\ macro_list'[l + 1] = macro
        /\ \A m \in 1 .. l : macro_list'[m] = macro_list[m]
    BY <1>2, <1>4
  <2>4. \A m \in 1 .. l : macro_list[m].identifier # macro.identifier
    BY <1>4, <2>1 DEF Duplicate
  <2>5. l \in Nat /\ \A m \in 1 .. l + 1 : m = l + 1 \/ m \in 1 .. l
    BY <1>2
  <2> HIDE DEF l, macro
  <2>6. \A m \in 1 .. l + 1 : Delimited(source, macro_list'[m])
    BY <2>2, <2>3, <2>5 DEF AccountInv, l
  <2>7. \A m, n \in 1 .. l + 1 :
          macro_list'[m].identifier = macro_list'[n].identifier => m = n
    <3> SUFFICES ASSUME NEW m \in 1 .. l + 1, NEW n \in 1 .. l + 1,
                        macro_list'[m].identifier = macro_list'[n].identifier
                 PROVE  m = n
      OBVIOUS
    <3>1. CASE m \in 1 .. l /\ n \in 1 .. l
      BY <2>3, <3>1 DEF AccountInv, l
    <3>2. CASE m = l + 1 /\ n \in 1 .. l
      BY <2>3, <2>4, <3>2
    <3>3. CASE n = l + 1 /\ m \in 1 .. l
      BY <2>3, <2>4, <3>3
    <3>4. QED  BY <2>5, <3>1, <3>2, <3>3
  <2>8. Len(macro_list') + Len(errors') = Len(macro_list) + Len(errors) + 1
    BY <1>2, <1>4, <2>3, <2>5 DEF l
  <2>9. QED  BY <2>3, <2>6, <2>7, <2>8
<1>5. QED  BY <1>1, <1>3, <1>4, Zenon DEF Created

LEMMA AccountStep ==
  ASSUME TypeInv, AccountInv, Next
  PROVE  AccountInv'
<1>1. source' = source
  BY DEF Next, ScanToken, FinishList, ExpandToken, CopyCharacter, FinishExpansion, WriteFile
<1>2. IsSource(source) /\ Len(TokenList) \in Nat \ {0} /\ Len(source) \in Nat \ {0}
      /\ TokenList[Len(TokenList)] = Len(source)
  BY Tokenized DEF TypeInv
<1>3. TokenList' = TokenList /\ \A p : MacrUpTo(p)' = MacrUpTo(p)
  BY <1>1, SameText DEF MacrUpTo
<1>4. CASE ScanToken
  <2>1. /\ pc = "generate" /\ pc' = "generate" /\ current' = current + 1
        /\ Token(current) # "eoft" /\ current \in 1 .. Len(TokenList)
    BY <1>4 DEF ScanToken, TypeInv
  <2> DEFINE count == Len(macro_list) + Len(errors)
             more == IF Token(current) = "macr" THEN 1 ELSE 0
  <2>2. /\ \A m \in 1 .. Len(macro_list') : Delimited(source, macro_list'[m])
        /\ \A m, n \in 1 .. Len(macro_list') :
             macro_list'[m].identifier = macro_list'[n].identifier => m = n
        /\ Len(macro_list') + Len(errors') = count + more
    <3>1. CASE Token(current) = "macr"
      <4>1. CreateMacro(current)
        BY <1>4, <3>1 DEF ScanToken
      <4>2. QED  BY <1>1, <2>1, <3>1, <4>1, OneMore
    <3>2. CASE Token(current) # "macr"
      <4>1. macro_list' = macro_list /\ errors' = errors
        BY <1>4, <3>2 DEF ScanToken
      <4>2. Len(macro_list) \in Nat /\ Len(errors) \in Nat
        BY DEF TypeInv
      <4>3. QED  BY <3>2, <4>1, <4>2 DEF AccountInv
    <3>3. QED  BY <3>1, <3>2
  <2>3. Cardinality(MacrUpTo(TokenList[current] - 1)) = count
    BY <2>1 DEF AccountInv
  <2>4. Cardinality(MacrUpTo(TokenList[current + 1] - 1))
          = Cardinality(MacrUpTo(TokenList[current] - 1)) + more
    BY <1>2, <2>1, MacrCounted
  <2>5. Cardinality(MacrUpTo(TokenList[current + 1] - 1))
                                = Len(macro_list') + Len(errors')
    BY <2>2, <2>3, <2>4
  <2> HIDE DEF count, more
  <2>6. MacrUpTo(TokenList[current] - 1)' = MacrUpTo(TokenList[current + 1] - 1)
    BY <1>1, <1>3, <2>1 DEF MacrUpTo
  <2>7. QED  BY <1>1, <2>1, <2>2, <2>5, <2>6 DEF AccountInv
<1>5. CASE FinishList
  <2>1. /\ pc = "generate" /\ pc' \in {"expand", "done"} /\ Token(current) = "eoft"
        /\ macro_list' = macro_list /\ errors' = errors
    BY <1>5 DEF FinishList
  <2>2. current = Len(TokenList)
    BY <1>2, <2>1, TokenAt DEF TypeInv
  <2>3. MacrUpTo(Len(source))' = MacrUpTo(TokenList[current] - 1)
    <3>1. MacrUpTo(Len(source)) = MacrUpTo(Len(source) - 1)
      BY <1>2, MacrCounted
    <3>2. MacrUpTo(Len(source))' = MacrUpTo(Len(source))
      BY <1>1 DEF MacrUpTo
    <3>3. QED  BY <1>2, <2>2, <3>1, <3>2
  <2>4. QED  BY <1>1, <2>1, <2>3 DEF AccountInv
<1>7. CASE ExpandToken \/ CopyCharacter \/ FinishExpansion \/ WriteFile
  <2>1. pc # "generate" /\ pc' # "generate"
        /\ macro_list' = macro_list /\ errors' = errors
    BY <1>7 DEF ExpandToken, CopyCharacter, FinishExpansion, WriteFile
  <2>2. MacrUpTo(Len(source))' = MacrUpTo(Len(source))
    BY <1>1 DEF MacrUpTo
  <2>3. QED  BY <1>1, <2>1, <2>2 DEF AccountInv
<1>8. QED  BY <1>4, <1>5, <1>7, Zenon DEF Next

LEMMA AccountStutters == AccountInv /\ UNCHANGED vars => AccountInv'
<1> SUFFICES ASSUME AccountInv, UNCHANGED vars PROVE AccountInv'
  OBVIOUS
<1>1. UNCHANGED <<source, pc, current, macro_list, errors>>
  BY DEF vars
<1>2. TokenList' = TokenList
  BY <1>1, SameText
<1>3. QED  BY <1>1, <1>2, Zenon DEF AccountInv, MacrUpTo

\* Every macro of the list is delimited as its indices say: for every text, and whatever
\* else the text defines; and each macr is a macro or an error, never both or neither.
THEOREM Accounted == Spec => []MacrosAccounted
<1>1. Init => AccountInv
  BY AccountInitial
<1>2. TypeInv /\ AccountInv /\ [Next]_vars => AccountInv'
  BY AccountStep, AccountStutters
<1>3. AccountInv => MacrosAccounted
  <2> SUFFICES ASSUME AccountInv PROVE MacrosAccounted
    OBVIOUS
  <2>1. DefinitionsDelimited
    BY Zenon DEF AccountInv, Delimited, DefinitionsDelimited
  <2>2. EveryMacrAccounted
    BY Zenon DEF AccountInv, MacrUpTo, EveryMacrAccounted
  <2>3. QED  BY <2>1, <2>2 DEF MacrosAccounted
<1>4. QED  BY <1>1, <1>2, <1>3, TypeInvariant, PTL DEF Spec
-----------------------------------------------------------------------------
(* Which definitions are macros *)

\* IsDefinition, of any text, and the name defined.
DefinitionIn(text, p) ==
  LET after == Tokens(SubSeq(text, p, Len(text))) IN
  /\ text[p] = "macr" /\ after[2] \in Name /\ after[3] = "eol"
  /\ \E e \in 4 .. Len(after) - 2 :
       after[e] = "eol" /\ after[e + 1] = "endmacr" /\ after[e + 2] \in {"eol", "eoft"}
NameIn(text, p) == Tokens(SubSeq(text, p, Len(text)))[2]

FirstIn(text, p) ==
  /\ DefinitionIn(text, p)
  /\ \A q \in 1 .. p - 1 : DefinitionIn(text, q) => NameIn(text, q) # NameIn(text, p)

\* Of the definitions that start in the first b symbols, each name's first is a macro
\* of the list, and nothing else is.
Taken(text, list, b) ==
  /\ \A m \in 1 .. Len(list) :
       /\ list[m].start_index \in 1 .. b /\ FirstIn(text, list[m].start_index)
       /\ list[m].identifier = NameIn(text, list[m].start_index)
  /\ \A p \in 1 .. b :
       DefinitionIn(text, p) => \E m \in 1 .. Len(list) : list[m].identifier = NameIn(text, p)

TakenInv ==
  /\ pc = "generate" => Taken(source, macro_list, TokenList[current] - 1)
  /\ pc # "generate" => Taken(source, macro_list, Len(source))

\* The tokens of the text from a token on.
LEMMA AfterTokens ==
  ASSUME IsSource(source), NEW k \in 1 .. Len(TokenList)
  PROVE  LET after == Tokens(SubSeq(source, TokenList[k], Len(source)))
             n == Len(TokenList) - (k - 1)
         IN  Len(after) = n /\ n \in Nat /\ \A j \in 1 .. n : after[j] = Token(k - 1 + j)
<1>1. /\ Len(TokenList) \in Nat /\ Len(source) \in Nat /\ InOrder(TokenList, Len(source))
  BY Tokenized
<1>2. TokenList[k] \in 1 .. Len(source)
  BY <1>1 DEF InOrder
<1> DEFINE a == k - 1
           b == Len(TokenList)
           from == TokenList[k]
           to == Len(source)
<1>3. a \in 0 .. Len(TokenList) /\ b \in 0 .. Len(TokenList)
      /\ from \in 1 .. Len(source) + 1 /\ to \in 0 .. Len(source) /\ from <= to + 1
  BY <1>1, <1>2
<1>4. ASSUME NEW l \in 1 .. Len(TokenList) PROVE l <= a <=> TokenList[l] < from
  <2>1. TokenList[l] \in 1 .. Len(source)
    BY <1>1 DEF InOrder
  <2>2. l < k => TokenList[l] < TokenList[k]
    BY <1>1 DEF InOrder
  <2>3. k < l => TokenList[k] < TokenList[l]
    BY <1>1 DEF InOrder
  <2>4. l < k \/ l = k \/ k < l
    OBVIOUS
  <2>5. QED  BY <1>2, <2>1, <2>2, <2>3, <2>4
<1>5. ASSUME NEW l \in 1 .. Len(TokenList) PROVE l <= b <=> TokenList[l] <= to
  BY <1>1, <1>5 DEF InOrder
<1> HIDE DEF a, b, from, to
<1>6. /\ Len(Tokens(SubSeq(source, from, to))) = b - a /\ b - a \in Nat
      /\ \A j \in 1 .. b - a : Tokens(SubSeq(source, from, to))[j] = Token(a + j)
  BY <1>3, <1>4, <1>5, PartTokens
<1>7. QED  BY <1>6 DEF a, b, from, to

\* At a token, a definition is what CreateMacro asks for.
Defined(k) ==
  Token(k) = "macr" /\ Token(k + 1) \in Name /\ Token(k + 2) = "eol" /\ Ends(k) # {}

LEMMA DefinitionAt ==
  ASSUME IsSource(source), NEW k \in 1 .. Len(TokenList)
  PROVE  /\ DefinitionIn(source, TokenList[k]) <=> Defined(k)
         /\ Token(k) = "macr" => NameIn(source, TokenList[k]) = Token(k + 1)
<1> DEFINE after == Tokens(SubSeq(source, TokenList[k], Len(source)))
           n == Len(TokenList)
           l == Len(after)
<1>1. n \in Nat /\ Token(k) = source[TokenList[k]]
  BY Tokenized, TokenAt
<1>2. l = n - (k - 1) /\ l \in Nat /\ \A j \in 1 .. l : after[j] = Token(k - 1 + j)
  BY AfterTokens
<1> HIDE DEF after, n, l
<1>3. Token(k) = "macr" => k + 1 \in 1 .. n
  BY TokenAt DEF n
<1>4. Token(k) = "macr" => after[2] = Token(k + 1)
  <2>1. k + 1 \in 1 .. n => 2 \in 1 .. l /\ k - 1 + 2 = k + 1
    BY <1>1, <1>2
  <2>2. QED  BY <1>2, <1>3, <2>1
<1>5. Token(k) = "macr" /\ Token(k + 1) \in Name => after[3] = Token(k + 2)
  <2> SUFFICES ASSUME Token(k) = "macr", Token(k + 1) \in Name
               PROVE  after[3] = Token(k + 2)
    OBVIOUS
  <2>1. Token(k + 1) # "eoft"
    BY NameIsNoKeyword
  <2>2. (k + 1) + 1 \in 1 .. n
    BY <1>3, <2>1, TokenAt DEF n
  <2>3. 3 \in 1 .. l /\ k - 1 + 3 = k + 2
    BY <1>1, <1>2, <2>2
  <2>4. QED  BY <1>2, <2>3
<1>6. ASSUME NEW e \in 4 .. l - 2
      PROVE  /\ (k - 1) + e \in k + 3 .. n /\ (k - 1) + e + 2 <= n
             /\ after[e] = Token((k - 1) + e) /\ after[e + 1] = Token((k - 1) + e + 1)
             /\ after[e + 2] = Token((k - 1) + e + 2)
  <2>1. /\ (k - 1) + e \in k + 3 .. n /\ (k - 1) + e + 2 <= n
        /\ e \in 1 .. l /\ e + 1 \in 1 .. l /\ e + 2 \in 1 .. l
        /\ (k - 1) + (e + 1) = (k - 1) + e + 1 /\ (k - 1) + (e + 2) = (k - 1) + e + 2
    BY <1>1, <1>2
  <2>2. QED  BY <1>2, <2>1
<1>7. Ends(k) # {} <=> \E e \in 4 .. l - 2 :
        after[e] = "eol" /\ after[e + 1] = "endmacr" /\ after[e + 2] \in {"eol", "eoft"}
  <2>1. ASSUME NEW e \in 4 .. l - 2,
               after[e] = "eol" /\ after[e + 1] = "endmacr" /\ after[e + 2] \in {"eol", "eoft"}
        PROVE  (k - 1) + e \in Ends(k)
    BY <1>6, <2>1 DEF Ends, EndsAt, n
  <2>2. ASSUME NEW f \in Ends(k)
        PROVE  \E e \in 4 .. l - 2 :
                 after[e] = "eol" /\ after[e + 1] = "endmacr" /\ after[e + 2] \in {"eol", "eoft"}
    <3>1. f \in k + 3 .. n /\ EndsAt(f)
      BY DEF Ends, n
    <3>2. f + 2 <= n
      BY <3>1 DEF EndsAt, n
    <3>3. PICK e \in Int : e = f - (k - 1)
      BY <1>1, <3>1
    <3>4. e \in 4 .. l - 2 /\ (k - 1) + e = f
      BY <1>1, <1>2, <3>1, <3>2, <3>3
    <3>5. after[e] = Token(f) /\ after[e + 1] = Token(f + 1) /\ after[e + 2] = Token(f + 2)
      BY <1>6, <3>4
    <3>6. QED  BY <3>1, <3>4, <3>5, Zenon DEF EndsAt
  <2>3. QED  BY <2>1, <2>2
<1>8. NameIn(source, TokenList[k]) = after[2]
  BY DEF NameIn, after
<1>9. DefinitionIn(source, TokenList[k]) <=>
        /\ Token(k) = "macr" /\ after[2] \in Name /\ after[3] = "eol"
        /\ Ends(k) # {}
  BY <1>1, <1>7, Zenon DEF DefinitionIn, after, l
<1>10. QED  BY <1>4, <1>5, <1>8, <1>9, Zenon DEF Defined

\* A definition starts at a token.
LEMMA DefinitionPlace ==
  ASSUME IsSource(source), NEW p \in 1 .. Len(source), DefinitionIn(source, p)
  PROVE  \E k \in 1 .. Len(TokenList) : TokenList[k] = p /\ Token(k) # "eoft"
<1>1. source[p] = "macr" /\ InOrder(TokenList, Len(source))
  BY Tokenized DEF DefinitionIn
<1>2. PICK k \in 1 .. Len(TokenList) : TokenList[k] = p
  BY <1>1 DEF InOrder
<1>3. QED  BY <1>1, <1>2 DEF Token

\* No macro is made at a token but for a definition of a new name.
LEMMA MacroIfDefined ==
  ASSUME NEW k, Token(k) = "macr", CreateMacro(k)
  PROVE  \/ Defined(k) /\ ~Duplicate(Token(k + 1)) /\ macro_list' = Append(macro_list, Macro(k))
         \/ ~(Defined(k) /\ ~Duplicate(Token(k + 1))) /\ macro_list' = macro_list
BY Zenon DEF CreateMacro, Defined

\* One more token looked at.
LEMMA TakenOneMore ==
  ASSUME TypeInv, NEW k \in 1 .. Len(TokenList), Token(k) # "eoft",
         Taken(source, macro_list, TokenList[k] - 1),
         \/ /\ Defined(k) /\ ~Duplicate(Token(k + 1))
            /\ macro_list' = Append(macro_list, Macro(k))
         \/ ~(Defined(k) /\ ~Duplicate(Token(k + 1))) /\ macro_list' = macro_list
  PROVE  Taken(source, macro_list', TokenList[k + 1] - 1)
<1> DEFINE p == TokenList[k]
           r == TokenList[k + 1]
           l == Len(macro_list)
<1>1. IsSource(source) /\ InOrder(TokenList, Len(source)) /\ Len(TokenList) \in Nat
      /\ Len(source) \in Nat /\ macro_list \in Seq(MacroType) /\ l \in Nat
  BY Tokenized DEF TypeInv
<1>2. /\ k + 1 \in 1 .. Len(TokenList) /\ p < r
      /\ p \in 1 .. Len(source) /\ r \in 1 .. Len(source)
  <2>1. k + 1 \in 1 .. Len(TokenList) /\ p < r
    BY <1>1, TokenAt
  <2>2. QED  BY <1>1, <2>1, TokenAt
<1>3. ASSUME NEW q \in 1 .. r - 1, DefinitionIn(source, q), q # p PROVE q \in 1 .. p - 1
  <2>1. q \in 1 .. Len(source) /\ q < r
    BY <1>2
  <2>2. PICK j \in 1 .. Len(TokenList) : TokenList[j] = q
    BY <1>1, <1>3, <2>1, DefinitionPlace
  <2>3. k + 1 < j => r < q
    BY <1>1, <1>2, <2>2 DEF InOrder
  <2>4. j < k => q < p
    BY <1>1, <2>2 DEF InOrder
  <2>5. j < k \/ j = k \/ j = k + 1 \/ k + 1 < j
    BY <1>1
  <2>6. QED  BY <1>2, <1>3, <2>1, <2>2, <2>3, <2>4, <2>5
<1>4. /\ DefinitionIn(source, p) <=> Defined(k)
      /\ Defined(k) => NameIn(source, p) = Token(k + 1)
  BY <1>1, DefinitionAt DEF Defined
<1>5. Macro(k).start_index = p /\ Macro(k).identifier = Token(k + 1)
  BY DEF Macro
<1> HIDE DEF p, r
<1>6. /\ \A m \in 1 .. l : /\ macro_list[m].start_index \in 1 .. p - 1
                           /\ FirstIn(source, macro_list[m].start_index)
                           /\ macro_list[m].identifier = NameIn(source, macro_list[m].start_index)
      /\ \A q \in 1 .. p - 1 :
           DefinitionIn(source, q) => \E m \in 1 .. l : macro_list[m].identifier = NameIn(source, q)
  BY DEF Taken, p
<1>7. \A m \in 1 .. l : macro_list[m].start_index \in 1 .. r - 1
  BY <1>2, <1>6
<1>8. CASE /\ Defined(k) /\ ~Duplicate(Token(k + 1))
           /\ macro_list' = Append(macro_list, Macro(k))
  <2> DEFINE macro == Macro(k)
             name == Token(k + 1)
  <2>1. /\ Len(macro_list') = l + 1 /\ macro_list'[l + 1] = macro
        /\ \A m \in 1 .. l : macro_list'[m] = macro_list[m]
    BY <1>1, <1>8, AppendProperties
  <2>2. l + 1 \in 1 .. l + 1 /\ \A m \in 1 .. l + 1 : m = l + 1 \/ m \in 1 .. l
    BY <1>1
  <2> HIDE DEF l, macro, name
  <2>3. \A m \in 1 .. l : macro_list[m].identifier # name
    BY <1>8 DEF Duplicate, l, name
  <2>4. DefinitionIn(source, p) /\ NameIn(source, p) = name
        /\ macro.start_index = p /\ macro.identifier = name
    BY <1>4, <1>5, <1>8 DEF name, macro
  <2>5. FirstIn(source, p)
    <3>1. ASSUME NEW q \in 1 .. p - 1, DefinitionIn(source, q)
          PROVE  NameIn(source, q) # name
      BY <1>6, <2>3, <3>1
    <3>2. QED  BY <2>4, <3>1 DEF FirstIn
  <2>6. ASSUME NEW m \in 1 .. l + 1
        PROVE  /\ macro_list'[m].start_index \in 1 .. r - 1
               /\ FirstIn(source, macro_list'[m].start_index)
               /\ macro_list'[m].identifier = NameIn(source, macro_list'[m].start_index)
    <3>1. CASE m = l + 1
      <4>1. p \in 1 .. r - 1
        BY <1>2
      <4>2. QED  BY <2>1, <2>4, <2>5, <3>1, <4>1
    <3>2. CASE m \in 1 .. l
      BY <1>6, <1>7, <2>1, <3>2
    <3>3. QED  BY <2>2, <3>1, <3>2
  <2>7. ASSUME NEW q \in 1 .. r - 1, DefinitionIn(source, q)
        PROVE  \E m \in 1 .. l + 1 : macro_list'[m].identifier = NameIn(source, q)
    <3>1. CASE q = p
      BY <2>1, <2>2, <2>4, <3>1
    <3>2. CASE q # p
      <4>1. q \in 1 .. p - 1
        BY <1>3, <2>7, <3>2
      <4>2. PICK m \in 1 .. l : macro_list[m].identifier = NameIn(source, q)
        BY <1>6, <2>7, <4>1
      <4>3. m \in 1 .. l + 1
        BY <1>1 DEF l
      <4>4. QED  BY <2>1, <4>2, <4>3
    <3>3. QED  BY <3>1, <3>2
  <2>8. QED  BY <2>1, <2>6, <2>7 DEF Taken, r
<1>9. CASE ~(Defined(k) /\ ~Duplicate(Token(k + 1))) /\ macro_list' = macro_list
  <2>1. ASSUME NEW q \in 1 .. r - 1, DefinitionIn(source, q)
        PROVE  \E m \in 1 .. l : macro_list[m].identifier = NameIn(source, q)
    <3>1. CASE q = p
      <4>1. Defined(k) /\ NameIn(source, q) = Token(k + 1)
        BY <1>4, <2>1, <3>1
      <4>2. QED  BY <1>9, <4>1 DEF Duplicate
    <3>2. CASE q # p
      BY <1>3, <1>6, <2>1, <3>2
    <3>3. QED  BY <3>1, <3>2
  <2>2. QED  BY <1>6, <1>7, <1>9, <2>1 DEF Taken, r
<1>10. QED  BY <1>8, <1>9

LEMMA TakenInitial == Init => TakenInv
<1> SUFFICES ASSUME Init PROVE TakenInv
  OBVIOUS
<1>1. IsSource(source) /\ macro_list = <<>> /\ current = 1 /\ pc = "generate"
  BY SourcesAssumption DEF Init
<1>2. /\ Len(TokenList) \in Nat \ {0} /\ Len(source) \in Nat
      /\ InOrder(TokenList, Len(source)) /\ Len(macro_list) = 0
  BY <1>1, Tokenized
<1>3. ASSUME NEW q \in 1 .. TokenList[1] - 1, DefinitionIn(source, q) PROVE FALSE
  <2>1. TokenList[1] \in 1 .. Len(source)
    BY <1>2 DEF InOrder
  <2>2. q \in 1 .. Len(source) /\ q < TokenList[1]
    BY <1>2, <2>1
  <2>3. PICK j \in 1 .. Len(TokenList) : TokenList[j] = q
    BY <1>1, <1>3, <2>2, DefinitionPlace
  <2>4. 1 < j => TokenList[1] < q
    BY <1>2, <2>3 DEF InOrder
  <2>5. j = 1 \/ 1 < j
    BY <1>2
  <2>6. QED  BY <2>1, <2>2, <2>3, <2>4, <2>5
<1>4. Taken(source, macro_list, TokenList[1] - 1)
  BY <1>2, <1>3 DEF Taken
<1>5. QED  BY <1>1, <1>4 DEF TakenInv

LEMMA TakenStep ==
  ASSUME TypeInv, TakenInv, Next
  PROVE  TakenInv'
<1>1. source' = source
  BY DEF Next, ScanToken, FinishList, ExpandToken, CopyCharacter, FinishExpansion, WriteFile
<1>2. IsSource(source) /\ Len(TokenList) \in Nat \ {0} /\ Len(source) \in Nat \ {0}
      /\ TokenList[Len(TokenList)] = Len(source)
  BY Tokenized DEF TypeInv
<1>3. TokenList' = TokenList
  BY <1>1, SameText
<1>4. CASE ScanToken
  <2>1. /\ pc = "generate" /\ pc' = "generate" /\ current' = current + 1
        /\ Token(current) # "eoft" /\ current \in 1 .. Len(TokenList)
    BY <1>4 DEF ScanToken, TypeInv
  <2>2. Taken(source, macro_list, TokenList[current] - 1)
    BY <2>1 DEF TakenInv
  <2>3. \/ /\ Defined(current) /\ ~Duplicate(Token(current + 1))
           /\ macro_list' = Append(macro_list, Macro(current))
        \/ ~(Defined(current) /\ ~Duplicate(Token(current + 1))) /\ macro_list' = macro_list
    <3>1. CASE Token(current) = "macr"
      <4>1. CreateMacro(current)
        BY <1>4, <3>1 DEF ScanToken
      <4>2. QED  BY <3>1, <4>1, MacroIfDefined
    <3>2. CASE Token(current) # "macr"
      <4>1. macro_list' = macro_list
        BY <1>4, <3>2 DEF ScanToken
      <4>2. QED  BY <3>2, <4>1 DEF Defined
    <3>3. QED  BY <3>1, <3>2
  <2>4. Taken(source, macro_list', TokenList[current + 1] - 1)
    BY <2>1, <2>2, <2>3, TakenOneMore
  <2>5. QED  BY <1>1, <1>3, <2>1, <2>4 DEF TakenInv
<1>5. CASE FinishList
  <2>1. /\ pc = "generate" /\ pc' # "generate" /\ Token(current) = "eoft"
        /\ macro_list' = macro_list
    BY <1>5 DEF FinishList
  <2>2. current = Len(TokenList)
    BY <1>2, <2>1, TokenAt DEF TypeInv
  <2>3. Taken(source, macro_list, Len(source) - 1)
    BY <1>2, <2>1, <2>2 DEF TakenInv
  <2>4. ~DefinitionIn(source, Len(source))
    BY <1>2, Tokenized DEF DefinitionIn
  <2>5. Taken(source, macro_list, Len(source))
    BY <1>2, <2>3, <2>4 DEF Taken
  <2>6. QED  BY <1>1, <2>1, <2>5 DEF TakenInv
<1>6. CASE ExpandToken \/ CopyCharacter \/ FinishExpansion \/ WriteFile
  <2>1. pc # "generate" /\ pc' # "generate" /\ macro_list' = macro_list
    BY <1>6 DEF ExpandToken, CopyCharacter, FinishExpansion, WriteFile
  <2>2. QED  BY <1>1, <2>1 DEF TakenInv
<1>7. QED  BY <1>4, <1>5, <1>6, Zenon DEF Next

LEMMA TakenStutters == TakenInv /\ UNCHANGED vars => TakenInv'
<1> SUFFICES ASSUME TakenInv, UNCHANGED vars PROVE TakenInv'
  OBVIOUS
<1>1. UNCHANGED <<source, pc, current, macro_list>>
  BY DEF vars
<1>2. TokenList' = TokenList
  BY <1>1, SameText
<1>3. QED  BY <1>1, <1>2, Zenon DEF TakenInv

\* For every text: the macros are the first definitions of their names, and all of
\* them; a macr line that is reported takes no name from a definition below it.
THEOREM FirstDefinitionsTaken == Spec => []DefinitionsTaken
<1>1. Init => TakenInv
  BY TakenInitial
<1>2. TypeInv /\ TakenInv /\ [Next]_vars => TakenInv'
  BY TakenStep, TakenStutters
<1>3. TypeInv /\ TakenInv => DefinitionsTaken
  <2> SUFFICES ASSUME TypeInv, TakenInv, pc = "done"
               PROVE  {macro_list[m].start_index : m \in 1 .. Len(macro_list)} =
                        {p \in 1 .. Len(source) :
                           /\ IsDefinition(p)
                           /\ \A q \in 1 .. p - 1 : IsDefinition(q) => After(q)[2] # After(p)[2]}
    BY DEF DefinitionsTaken
  <2>1. Taken(source, macro_list, Len(source)) /\ Len(source) \in Nat
    BY Tokenized DEF TakenInv, TypeInv
  <2>2. ASSUME NEW p
        PROVE  FirstIn(source, p) <=>
                 /\ IsDefinition(p)
                 /\ \A q \in 1 .. p - 1 : IsDefinition(q) => After(q)[2] # After(p)[2]
    <3>1. \A q : (IsDefinition(q) <=> DefinitionIn(source, q)) /\ After(q)[2] = NameIn(source, q)
      BY Zenon DEF IsDefinition, After, DefinitionIn, NameIn
    <3>2. QED  BY <3>1, Zenon DEF FirstIn
  <2>3. ASSUME NEW p \in 1 .. Len(source), FirstIn(source, p)
        PROVE  \E m \in 1 .. Len(macro_list) : macro_list[m].start_index = p
    <3>1. DefinitionIn(source, p)
      BY <2>3 DEF FirstIn
    <3>2. PICK m \in 1 .. Len(macro_list) : macro_list[m].identifier = NameIn(source, p)
      BY <2>1, <3>1 DEF Taken
    <3>3. PICK s \in 1 .. Len(source) : s = macro_list[m].start_index
      BY <2>1, <3>2 DEF Taken
    <3>4. FirstIn(source, s) /\ NameIn(source, s) = NameIn(source, p)
      BY <2>1, <3>2, <3>3 DEF Taken
    <3>5. ~(s \in 1 .. p - 1) /\ ~(p \in 1 .. s - 1)
      BY <2>3, <3>4 DEF FirstIn
    <3>6. s = p
      BY <2>1, <3>5
    <3>7. QED  BY <3>3, <3>6
  <2>4. \A m \in 1 .. Len(macro_list) :
          macro_list[m].start_index \in 1 .. Len(source) /\ FirstIn(source, macro_list[m].start_index)
    BY <2>1 DEF Taken
  <2>5. {macro_list[m].start_index : m \in 1 .. Len(macro_list)}
          = {p \in 1 .. Len(source) : FirstIn(source, p)}
    BY <2>3, <2>4, Zenon
  <2>6. QED  BY <2>2, <2>5, Zenon
<1>4. QED  BY <1>1, <1>2, <1>3, TypeInvariant, PTL DEF Spec
=============================================================================
