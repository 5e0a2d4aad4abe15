---------------------------- MODULE Preprocessor ----------------------------
(***************************************************************************)
(* source/preprocessor.c: macros are collected from the token list of the  *)
(* lexer, then the source is copied character by character, definitions    *)
(* skipped and uses replaced.  One action per iteration of a loop.         *)
(***************************************************************************)
EXTENDS Integers, Sequences, FiniteSets

CONSTANTS
  Name,     \* identifiers
  Sources   \* the texts the lexer can accept

\* A text is a sequence of symbols, each as wide as one character.  A blank
\* (white space, a comment) is no token; "word" is any other token.
Keyword == {"macr", "endmacr", "eol", "eoft", "word", "blank"}

\* The lexer appends EOF to the text; it is the last token, with an empty string.
IsSource(text) ==
  /\ text \in Seq(Name \union Keyword) /\ text # <<>>
  /\ \A p \in 1 .. Len(text) : text[p] = "eoft" <=> p = Len(text)

ASSUME NameAssumption == Name \intersect Keyword = {}
ASSUME SourcesAssumption == \A text \in Sources : IsSource(text)

NULL == 0

\* A text without its c, symbol by symbol.
WithoutUpTo(text, c) ==
  LET kept[p \in 0 .. Len(text)] ==
        IF p = 0 THEN <<>>
        ELSE IF text[p] = c THEN kept[p - 1]
        ELSE Append(kept[p - 1], text[p])
  IN  kept

Without(text, c) == WithoutUpTo(text, c)[Len(text)]

VARIABLES
  source,
  pc,
  tokens,         \* preprocessor->tokens, a place in TokenList
  current,        \* of generate_macro_list
  macro_list,
  errors,         \* error_handler.error_list
  current_token,  \* of expand_macros, NULL at the end of the list
  i,              \* of expand_macros, from 1
  processed_source,
  file            \* the .am file

expansion == <<current_token, i, processed_source>>
vars == <<source, pc, tokens, current, macro_list, errors, expansion, file>>

-----------------------------------------------------------------------------
(* The token list of the lexer *)

\* Of the first p symbols.
TokensUpTo[p \in 0 .. Len(source)] ==
  IF p = 0 THEN <<>>
  ELSE IF source[p] = "blank" THEN TokensUpTo[p - 1]
  ELSE Append(TokensUpTo[p - 1], p)

TokenList == TokensUpTo[Len(source)]
Token(k) == source[TokenList[k]]

\* Mutant: the end of the list not told apart.
FollowingUnended(k) == k + 1

Following(k) == IF k < Len(TokenList) THEN k + 1 ELSE NULL

\* The string of the EOF token is empty, though the text has a character there.
TokenString(k) == IF Token(k) = "eoft" THEN <<>> ELSE <<Token(k)>>

-----------------------------------------------------------------------------
(* Macro definitions *)

\* Mutant: the line of endmacr need not end.
EndsAtUnclosed(k) ==
  /\ k + 2 <= Len(TokenList)
  /\ Token(k) = "eol" /\ Token(k + 1) = "endmacr"

\* A line that is the word endmacr: the tokens of the search loop's condition.
EndsAt(k) ==
  /\ k + 2 <= Len(TokenList)
  /\ Token(k) = "eol" /\ Token(k + 1) = "endmacr" /\ Token(k + 2) \in {"eol", "eoft"}

\* The search for the end of the macro defined at k starts beyond its header.
Ends(k) == {e \in k + 3 .. Len(TokenList) : EndsAt(e)}
FirstEnd(k) == CHOOSE e \in Ends(k) : \A f \in Ends(k) : e <= f

\* Mutant: only the head of the list compared.
DuplicateOfHead(name) == macro_list # <<>> /\ macro_list[1].identifier = name

Duplicate(name) == \E m \in 1 .. Len(macro_list) : macro_list[m].identifier = name

Macro(k) ==
  [identifier |-> Token(k + 1), start_index |-> TokenList[k],
   end_index |-> TokenList[FirstEnd(k) + 2],
   content |-> SubSeq(source, TokenList[k + 2] + 1, TokenList[FirstEnd(k)])]

Report(message, k) == errors' = Append(errors, [message |-> message, at |-> TokenList[k]])

\* preprocessor_create_macro, called at the token k.
CreateMacro(k) ==
  \/ /\ Token(k) # "macr"
     /\ Report("macr", k) /\ UNCHANGED macro_list
  \/ /\ Token(k) = "macr" /\ Token(k + 1) \notin Name
     /\ Report("identifier", k + 1) /\ UNCHANGED macro_list
  \/ /\ Token(k) = "macr" /\ Token(k + 1) \in Name
     /\ \/ /\ Duplicate(Token(k + 1))
           /\ Report("duplicate", k + 1) /\ UNCHANGED macro_list
        \/ /\ ~Duplicate(Token(k + 1)) /\ Token(k + 2) # "eol"
           /\ Report("newline", k + 2) /\ UNCHANGED macro_list
        \/ /\ ~Duplicate(Token(k + 1)) /\ Token(k + 2) = "eol" /\ Ends(k) = {}
           /\ Report("endmacr", k) /\ UNCHANGED macro_list
        \/ /\ ~Duplicate(Token(k + 1)) /\ Token(k + 2) = "eol" /\ Ends(k) # {}
           /\ macro_list' = Append(macro_list, Macro(k))
           /\ UNCHANGED errors

\* One iteration of the loop of preprocessor_generate_macro_list.
ScanToken ==
  /\ pc = "generate" /\ Token(current) # "eoft"
  /\ IF Token(current) = "macr"
     THEN tokens' = current /\ CreateMacro(current)
     ELSE UNCHANGED <<tokens, macro_list, errors>>
  /\ current' = current + 1
  /\ UNCHANGED <<source, pc, expansion, file>>

\* Mutant: the list reset as the comment at the end of the function has it.
FinishListReset ==
  /\ pc = "generate" /\ Token(current) = "eoft"
  /\ tokens' = 1
  /\ IF errors = <<>>
     THEN /\ pc' = "expand" /\ current_token' = 1 /\ i' = 1
          /\ UNCHANGED processed_source
     ELSE /\ pc' = "done" /\ UNCHANGED expansion
  /\ UNCHANGED <<source, current, macro_list, errors, file>>

\* The end of the loop; preprocessor_process goes on unless there are errors.
FinishList ==
  /\ pc = "generate" /\ Token(current) = "eoft"
  /\ tokens' = current
  /\ IF errors = <<>>
     THEN /\ pc' = "expand" /\ current_token' = current /\ i' = 1
          /\ UNCHANGED processed_source
     ELSE /\ pc' = "done" /\ UNCHANGED expansion
  /\ UNCHANGED <<source, current, macro_list, errors, file>>

-----------------------------------------------------------------------------
(* Expansion *)

AtToken == current_token # NULL /\ i = TokenList[current_token]

Defines(m) == macro_list[m].start_index <= i /\ i <= macro_list[m].end_index
Names(m) == macro_list[m].identifier = Token(current_token)
Concerned == {m \in 1 .. Len(macro_list) : Defines(m) \/ Names(m)}

\* The first macro of the list that defines or names the token decides.
Deciding == CHOOSE m \in Concerned : \A n \in Concerned : m <= n

PastDefinition(end) ==
  {k \in current_token .. Len(TokenList) : TokenList[k] > end}

\* The three things that may become of the token at i: a definition is skipped, ...
SkipDefinition ==
  LET end == macro_list[Deciding].end_index
      past == PastDefinition(end)
  IN  /\ i' = end + 1
      /\ current_token' = IF past = {} THEN NULL
                          ELSE CHOOSE k \in past : \A l \in past : k <= l
      /\ UNCHANGED processed_source

\* ... a use is replaced, its newline token passed over, and one more character, ...
ExpandMacro ==
  /\ processed_source' = processed_source \o macro_list[Deciding].content
  /\ LET next == Following(current_token) IN
     IF next # NULL /\ Token(next) = "eol"
     THEN current_token' = Following(next) /\ i' = i + 2
     ELSE current_token' = next /\ i' = i + 1

\* Mutant: the token list not advanced.
CopyTokenHeld ==
  /\ processed_source' = processed_source \o TokenString(current_token)
  /\ i' = i + Len(TokenString(current_token))
  /\ UNCHANGED current_token

\* ... or the token is copied.
CopyToken ==
  /\ processed_source' = processed_source \o TokenString(current_token)
  /\ i' = i + Len(TokenString(current_token))
  /\ current_token' = Following(current_token)

\* process, which alone calls expand_macros, comes with the cursor at EOF, which is
\* skipped or copied: its string is no macro's name, and ExpandMacro never happens.
ExpandToken ==
  /\ pc = "expand" /\ i <= Len(source) /\ AtToken
  /\ IF Concerned = {} THEN CopyToken
     ELSE IF Defines(Deciding) THEN SkipDefinition
     ELSE ExpandMacro
  /\ UNCHANGED <<source, pc, tokens, current, macro_list, errors, file>>

CopyCharacter ==
  /\ pc = "expand" /\ i <= Len(source) /\ ~AtToken
  /\ processed_source' = Append(processed_source, source[i])
  /\ i' = i + 1
  /\ UNCHANGED <<source, pc, tokens, current, macro_list, errors,
                 current_token, file>>

FinishExpansion ==
  /\ pc = "expand" /\ i > Len(source)
  /\ pc' = "write"
  /\ UNCHANGED <<source, tokens, current, macro_list, errors, expansion, file>>

\* write_string_to_file stops at EOF; a file that cannot be opened is no error.
WriteFile ==
  /\ pc = "write" /\ pc' = "done"
  /\ \E opened \in BOOLEAN :
       file' = IF opened
               THEN [state |-> "written",
                     text |-> Without(processed_source, "eoft")]
               ELSE [state |-> "failed", text |-> <<>>]
  /\ UNCHANGED <<source, tokens, current, macro_list, errors, expansion>>

-----------------------------------------------------------------------------
Init ==
  /\ source \in Sources
  /\ pc = "generate"
  /\ tokens = 1 /\ current = 1
  /\ macro_list = <<>> /\ errors = <<>>
  /\ current_token = NULL /\ i = 1 /\ processed_source = <<>>
  /\ file = [state |-> "none", text |-> <<>>]

Next ==
  \/ ScanToken \/ FinishList
  \/ ExpandToken \/ CopyCharacter \/ FinishExpansion
  \/ WriteFile

Spec == Init /\ [][Next]_vars

\* A sequential function: it runs on until it returns.
FairSpec == Spec /\ WF_vars(Next)

-----------------------------------------------------------------------------
Text == Seq(Name \union Keyword)

TypeOK ==
  /\ IsSource(source)
  /\ pc \in {"generate", "expand", "write", "done"}
  /\ tokens \in 1 .. Len(TokenList) /\ current \in 1 .. Len(TokenList)
  /\ \A m \in 1 .. Len(macro_list) :
       /\ macro_list[m].identifier \in Name
       /\ macro_list[m].start_index \in 1 .. Len(source)
       /\ macro_list[m].end_index \in 1 .. Len(source)
       /\ macro_list[m].content \in Text
  /\ \A e \in 1 .. Len(errors) : errors[e].at \in 1 .. Len(source)
  /\ current_token \in 0 .. Len(TokenList)
  /\ i \in 1 .. Len(source) + 1
  /\ processed_source \in Text
  /\ file.state \in {"none", "written", "failed"} /\ file.text \in Text

Tokens(text) == Without(text, "blank")

\* A macro is a definition of the text: a header line, its content, an endmacr
\* line, and no line of the content but the first is an earlier endmacr line.
DefinitionsDelimited ==
  \A m \in 1 .. Len(macro_list) :
    LET macro == macro_list[m]
        body == Tokens(macro.content)
    IN  /\ Tokens(SubSeq(source, macro.start_index, macro.end_index))
             \in {<<"macr", macro.identifier, "eol">> \o body \o <<"endmacr", closing>> :
                    closing \in {"eol", "eoft"}}
        /\ \A k \in 1 .. Len(body) - 2 :
             SubSeq(body, k, k + 2) # <<"eol", "endmacr", "eol">>

\* No two macros have the same name, and every macr of the text has defined a
\* macro or been reported, none both.
EveryMacrAccounted ==
  /\ \A m, n \in 1 .. Len(macro_list) :
       macro_list[m].identifier = macro_list[n].identifier => m = n
  /\ pc # "generate" =>
       Cardinality({p \in 1 .. Len(source) : source[p] = "macr"})
         = Len(macro_list) + Len(errors)

\* The macro list is what the text says: every macr line is a definition of it,
\* delimited as it stands in the text, or an error.
MacrosAccounted == DefinitionsDelimited /\ EveryMacrAccounted

\* From p on, the text is a definition: a header line, content of a line or more,
\* an endmacr line.  An endmacr right below the header is content to the code, which
\* looks for another further down.
After(p) == Tokens(SubSeq(source, p, Len(source)))

IsDefinition(p) ==
  LET after == After(p) IN
  /\ source[p] = "macr" /\ after[2] \in Name /\ after[3] = "eol"
  /\ \E e \in 4 .. Len(after) - 2 :
       after[e] = "eol" /\ after[e + 1] = "endmacr" /\ after[e + 2] \in {"eol", "eoft"}

\* Of the definitions of one name, nested ones included, the first of the text is
\* the macro; what is no definition does not take the name from a later one.
DefinitionsTaken ==
  pc = "done" =>
    {macro_list[m].start_index : m \in 1 .. Len(macro_list)} =
      {p \in 1 .. Len(source) :
         /\ IsDefinition(p)
         /\ \A q \in 1 .. p - 1 : IsDefinition(q) => After(q)[2] # After(p)[2]}

\* What preprocessor_process hands to the second lexer, and writes, is the text
\* it was given: no definition is removed and no use replaced.  Only EOF is
\* lost, when the last definition ends at it.
TextPassedThrough ==
  pc = "done" /\ errors = <<>> =>
    LET text == SubSeq(source, 1, Len(source) - 1) IN
    /\ processed_source =
         IF \E m \in 1 .. Len(macro_list) : macro_list[m].end_index = Len(source)
         THEN text ELSE source
    /\ file.state = "written" => file.text = text

\* The preprocessor comes to an end, past the empty string of the EOF token too.
Terminates == <>(pc = "done")

-----------------------------------------------------------------------------
(* What comments of the code say, and the code does not do *)

\* preprocessor.h: expansion "replaces macro identifiers in the source code
\* with their corresponding content", after the token list has been reset
\* (preprocessor.c:143); process "creates the macro list, expands macros".
MacrosExpanded ==
  pc = "done" /\ errors = <<>> =>
    \A m \in 1 .. Len(macro_list) : \A p \in 1 .. Len(processed_source) :
      processed_source[p] # macro_list[m].identifier
=============================================================================
