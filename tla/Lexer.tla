-------------------------------- MODULE Lexer --------------------------------
(***************************************************************************)
(* source/lexer.c: a text is split into tokens, errors are collected on    *)
(* the way and reported at the end.  One action per case of the loop in    *)
(* lexer_analyze, with the whole of the function it calls.                 *)
(***************************************************************************)
EXTENDS ErrorHandler, FiniteSetsExt, SequencesExt

CONSTANTS
  Letter, Digit,   \* characters
  ReservedType,    \* the token type of each word that is no identifier
  DirectiveType,   \* and of each directive, its point included
  Inputs           \* the texts, and by which function the lexer is given each

Separator == {",", ":", "#", "*"}
Sign == {"+", "-"}
Blank == {"blank"}

\* "other" is any character the lexer does not know.
Char ==
  Letter \union Digit \union Separator \union Sign \union Blank
    \union {"_", ".", ";", "quote", "eol", "eof", "other"}

\* A character that equals EOF only ends a text that preprocessing returned, of
\* which it may be cut off.  The others do not have it yet.
ASSUME InputsAssumption ==
  \A input \in Inputs :
    /\ input.initializer \in {"cstr", "file", "string"}
    /\ input.text \in Seq(Char)
    /\ \A p \in 1 .. Len(input.text) :
         input.text[p] = "eof" => input.initializer = "string" /\ p = Len(input.text)

\* The tokens as the parser reads them: an identifier is its word.
P == INSTANCE Tokens WITH
       Name <- Seq(Letter \union Digit \union {"_"}) \ {<<>>}, NoName <- <<>>

\* A letter is no digit, and neither is any of the other characters or "nul",
\* which stands behind a text.
ASSUME AlphabetAssumption ==
  /\ Letter \intersect Digit = {}
  /\ (Letter \union Digit) \intersect
       (Separator \union Sign \union Blank
          \union {"_", ".", ";", "quote", "eol", "eof", "other", "nul"}) = {}

ASSUME WordAssumption ==
  /\ \A word \in DOMAIN ReservedType :
       /\ word \in Seq(Letter \union Digit)
       /\ ReservedType[word] \in P!Operation \union {"register", "macr", "endmacr"}
  /\ \A word \in DOMAIN DirectiveType :
       /\ word # <<>> /\ Head(word) = "." /\ Tail(word) \in Seq(Letter)
       /\ DirectiveType[word] \in P!Directive

VARIABLES
  input,
  pc,
  source_code,
  index, column, line_number,  \* of current_char: index and column count from 0
  token_list,
  error_handler,               \* its copy of the source: is its data still there
  error_list,
  reports                      \* what was printed of each error

position == <<index, column, line_number>>
vars == <<input, pc, source_code, position, token_list, error_handler, error_list, reports>>

-----------------------------------------------------------------------------
(* The three ways to begin *)

\* string_create_from_cstr: a power of two, with room for the terminating zero.
Capacity(length) ==
  CHOOSE c \in {2 ^ k : k \in 3 .. length + 3} :
    length + 1 <= c /\ (c > 8 => length + 1 > c \div 2)

\* string_append_char: a reallocation may move the data of a string.
MayMove(length, capacity) == IF length + 1 >= capacity THEN BOOLEAN ELSE {FALSE}

Begin(initializer) ==
  /\ pc = "initialize" /\ input.initializer = initializer
  /\ pc' = "analyze"
  /\ UNCHANGED <<input, position, token_list, error_list, reports>>

\* EOF is appended when the handler has its copy.
InitializeFromCstr ==
  /\ Begin("cstr")
  /\ source_code' = Append(input.text, "eof")
  /\ \E moved \in MayMove(Len(input.text), Capacity(Len(input.text))) :
       error_handler' = [string |-> input.text, dangling |-> moved]

\* The handler has a copy of the string before the file is read: its length
\* stays zero.
InitializeFromFile ==
  /\ Begin("file")
  /\ source_code' = Append(input.text, "eof")
  /\ error_handler' = [string |-> <<>>, dangling |-> FALSE]

CannotOpenFile ==
  /\ pc = "initialize" /\ input.initializer = "file"
  /\ pc' = "failed"
  /\ error_handler' = [string |-> <<>>, dangling |-> FALSE]
  /\ UNCHANGED <<input, source_code, position, token_list, error_list, reports>>

InitializeFromString ==
  /\ Begin("string")
  /\ source_code' = input.text
  /\ error_handler' = [string |-> input.text, dangling |-> FALSE]

-----------------------------------------------------------------------------
(* lexer_analyze *)

At(p) == CharAt(source_code, p)

\* The first place from p on that holds no character of S.
Past(p, S) == CHOOSE q \in p .. Len(source_code) :
                At(q) \notin S /\ \A r \in p .. q - 1 : At(r) \in S

\* Mutant: the column goes on over a newline.
AdvanceToInLine(p) ==
  /\ index' = p /\ column' = column + p - index
  /\ line_number' = line_number + Cardinality({q \in index .. p - 1 : At(q) = "eol"})

\* lexer_advance_character, up to p.
AdvanceTo(p) ==
  LET newlines == {q \in index .. p - 1 : At(q) = "eol"} IN
  /\ index' = p
  /\ line_number' = line_number + Cardinality(newlines)
  /\ column' = IF newlines = {} THEN column + p - index ELSE p - Max(newlines) - 1

Analyzing(S) ==
  /\ pc = "analyze" /\ At(index) \in S
  /\ UNCHANGED <<input, pc, source_code, error_handler, reports>>

TokenTo(p, type) ==
  [type |-> type, index |-> index, index_in_line |-> column, line |-> line_number,
   string |-> SubSeq(source_code, index + 1, p)]

AddToken(token) == token_list' = Append(token_list, token)

AddError(error) == error_list' = Append(error_list, error)

\* Mutant: the blank looked at again and again.
SkipBlankStill ==
  /\ Analyzing(Blank)
  /\ UNCHANGED <<position, token_list, error_list>>

SkipBlank ==
  /\ Analyzing(Blank)
  /\ AdvanceTo(index + 1)
  /\ UNCHANGED <<token_list, error_list>>

\* A comment makes no token; its newline does.
TokenizeComment ==
  /\ Analyzing({";"})
  /\ AdvanceTo(Past(index, Char \ {"eol", "eof"}))
  /\ UNCHANGED <<token_list, error_list>>

TokenizeNewline ==
  /\ Analyzing({"eol"})
  /\ AdvanceTo(index + 1) /\ AddToken(TokenTo(index + 1, "eol"))
  /\ UNCHANGED error_list

\* Its string is empty.
TokenizeEof ==
  /\ Analyzing({"eof"})
  /\ AdvanceTo(index + 1) /\ AddToken([TokenTo(index + 1, "eoft") EXCEPT !.string = <<>>])
  /\ UNCHANGED error_list

TokenizeSeparator ==
  /\ Analyzing(Separator)
  /\ AdvanceTo(index + 1)
  /\ LET type == CASE At(index) = "," -> "comma"
                   [] At(index) = ":" -> "colon"
                   [] At(index) = "#" -> "hashtag"
                   [] At(index) = "*" -> "star"
     IN  AddToken(TokenTo(index + 1, type))
  /\ UNCHANGED error_list

\* Mutant: signs taken wherever they stand.
NumberEndSigned == Past(index + 1, Digit \union Sign)

NumberEnd == Past(index + 1, Digit)

\* A sign may only come first, and not alone.
TokenizeNumber ==
  /\ Analyzing(Digit \union Sign)
  /\ AdvanceTo(NumberEnd)
  /\ IF At(index) \in Sign /\ NumberEnd = index + 1
     THEN /\ AddError(CharError(index, column, line_number))
          /\ AddToken(TokenTo(NumberEnd, "error"))
     ELSE AddToken(TokenTo(NumberEnd, "number")) /\ UNCHANGED error_list

\* Mutant: the quote that opens a string taken for the one that closes it.
ClosingFirst == IF At(index) = "quote" THEN {index} ELSE {}

\* The places of the quote that closes a string: it may be on another line.
Closing ==
  {q \in index + 1 .. Len(source_code) :
     At(q) = "quote" /\ \A r \in index + 1 .. q - 1 : At(r) \notin {"quote", "eof"}}

\* A string's token has the line where its column should be.
TokenizeString ==
  LET end == IF Closing # {} THEN Min(Closing) + 1
             ELSE Past(index, Char \ {"eof"})
      token == [TokenTo(end, "string") EXCEPT !.index_in_line = line_number]
  IN  /\ Analyzing({"quote"})
      /\ AdvanceTo(end)
      /\ IF Closing # {}
         THEN AddToken(token) /\ UNCHANGED error_list
         ELSE /\ AddToken([token EXCEPT !.type = "error"])
              /\ AddError(CharError(index, line_number, line_number))

TokenizeNonOpInstruction ==
  LET end == Past(index + 1, Letter)
      word == SubSeq(source_code, index + 1, end)
      token == TokenTo(end, IF word \in DOMAIN DirectiveType THEN DirectiveType[word]
                            ELSE "error")
  IN  /\ Analyzing({"."})
      /\ AdvanceTo(end) /\ AddToken(token)
      /\ IF token.type = "error" THEN AddError(TokenError(token)) ELSE UNCHANGED error_list

\* Mutant: what begins with an underscore read like any identifier.
IdentifierEndPlain == Past(index + 1, Letter \union Digit)

\* An underscore is only taken in a name that begins with one.
IdentifierEnd ==
  Past(index + 1, Letter \union Digit \union (IF At(index) = "_" THEN {"_"} ELSE {}))

TokenizeIdentifier ==
  /\ Analyzing(Letter \union {"_"})
  /\ AdvanceTo(IdentifierEnd)
  /\ LET word == SubSeq(source_code, index + 1, IdentifierEnd) IN
     AddToken(TokenTo(IdentifierEnd, IF word \in DOMAIN ReservedType THEN ReservedType[word]
                                     ELSE "identifier"))
  /\ UNCHANGED error_list

UnknownChar ==
  /\ Analyzing({"other"})
  /\ AddError(CharError(index, column, line_number))
  /\ AdvanceTo(index + 1)
  /\ UNCHANGED token_list

FinishAnalysis ==
  /\ pc = "analyze" /\ At(index) = "nul"
  /\ pc' = "report"
  /\ UNCHANGED <<input, source_code, position, token_list, error_handler, error_list, reports>>

\* error_handler_report_errors, whether there are errors or not.
ReportErrors ==
  /\ pc = "report"
  /\ pc' = "done"
  /\ reports' = [k \in 1 .. Len(error_list) |-> Report(error_handler, error_list[k])]
  /\ UNCHANGED <<input, source_code, position, token_list, error_handler, error_list>>

-----------------------------------------------------------------------------
Init ==
  /\ input \in Inputs
  /\ pc = "initialize"
  /\ source_code = <<>> /\ error_handler = [string |-> <<>>, dangling |-> FALSE]
  /\ index = 0 /\ column = 0 /\ line_number = 1
  /\ token_list = <<>> /\ error_list = <<>> /\ reports = <<>>

Next ==
  \/ InitializeFromCstr \/ InitializeFromFile \/ CannotOpenFile \/ InitializeFromString
  \/ SkipBlank \/ TokenizeComment
  \/ TokenizeNewline \/ TokenizeEof \/ TokenizeSeparator
  \/ TokenizeNumber \/ TokenizeString
  \/ TokenizeNonOpInstruction \/ TokenizeIdentifier
  \/ UnknownChar
  \/ FinishAnalysis \/ ReportErrors

Spec == Init /\ [][Next]_vars

\* A sequential program.
FairSpec == Spec /\ WF_vars(Next)
-----------------------------------------------------------------------------
(* The text, read without the lexer *)

\* Where lines begin, up to p.
LineStarts(p) == {q \in 0 .. p : q = 0 \/ At(q - 1) = "eol"}
LineOf(p) == Cardinality(LineStarts(p))
ColumnOf(p) == p - Max(LineStarts(p))

\* The counters are also true: the place in the text and what is known of the
\* lines before it agree after every kind of token.
TypeOK ==
  /\ input.initializer \in {"cstr", "file", "string"} /\ input.text \in Seq(Char)
  /\ pc \in {"initialize", "analyze", "report", "done", "failed"}
  /\ source_code \in Seq(Char)
  /\ index \in 0 .. Len(source_code)
  /\ line_number = LineOf(index) /\ column = ColumnOf(index)
  /\ \A k \in 1 .. Len(token_list) :
       /\ token_list[k].index \in 0 .. index - 1
       /\ token_list[k].line \in 1 .. line_number
  /\ error_handler.string \in Seq(Char) /\ error_handler.dangling \in BOOLEAN
  /\ \A k \in 1 .. Len(error_list) : error_list[k].index \in 0 .. index - 1

\* What a character stands in, by what the one before it stands in.
ModeAfter(mode, c) ==
  CASE mode = "plain" /\ c = ";" -> "comment"
    [] mode = "plain" /\ c = "quote" -> "string"
    [] mode = "comment" /\ c = "eol" -> "plain"
    [] mode = "string" /\ c = "quote" -> "plain"
    [] OTHER -> mode

Mode[p \in 0 .. Len(source_code)] ==
  IF p = 0 THEN "plain" ELSE ModeAfter(Mode[p - 1], source_code[p])

Silent(p) ==
  \/ Mode[p] = "comment" /\ At(p) \notin {"eol", "eof"}
  \/ Mode[p] = "plain" /\ At(p) \in Blank \union {";", "other"}

Width(token) == IF token.type = "eoft" THEN 1 ELSE Len(token.string)
End(token) == token.index + Width(token)

\* Every character read so far is in exactly one token, unless it is a blank, in
\* a comment or unknown; tokens hold the text they stand at, in its order, and
\* their line and column are true, but for the column of strings.
CharactersAccounted ==
  /\ \A p \in 0 .. index - 1 :
       Cardinality({k \in 1 .. Len(token_list) :
                      p \in token_list[k].index .. End(token_list[k]) - 1})
         = IF Silent(p) THEN 0 ELSE 1
  /\ \A k \in 1 .. Len(token_list) :
       LET token == token_list[k] IN
       /\ k > 1 => End(token_list[k - 1]) <= token.index
       /\ End(token) <= index
       /\ token.type # "eoft" =>
            token.string = SubSeq(source_code, token.index + 1, End(token))
       /\ token.line = LineOf(token.index)
       /\ At(token.index) # "quote" => token.index_in_line = ColumnOf(token.index)

\* What can make a token longer: an underscore only goes on in a name that
\* begins with one.
Extends(token) ==
  LET first == At(token.index) IN
  CASE first \in Letter -> Letter \union Digit
    [] first = "_" -> Letter \union Digit \union {"_"}
    [] first \in Digit \union Sign -> Digit
    [] first = "." -> Letter
    [] OTHER -> {}

\* A token consists of characters that extend it, and ends where none follows.
TokensLongest ==
  \A k \in 1 .. Len(token_list) :
    LET token == token_list[k] IN
    At(token.index) # "quote" =>
      /\ \A p \in token.index + 1 .. End(token) - 1 : At(p) \in Extends(token)
      /\ At(End(token)) \notin Extends(token)

\* The text is split into tokens without loss or overlap, each as long as it can be.
TextAccounted == CharactersAccounted /\ TokensLongest

Fault(p) ==
  /\ Mode[p] = "plain"
  /\ \/ At(p) = "other"
     \/ At(p) \in Sign /\ At(p + 1) \notin Digit
     \/ At(p) = "quote" /\ \A q \in p + 1 .. Len(source_code) : At(q) # "quote"
     \/ /\ At(p) = "."
        /\ SubSeq(source_code, p + 1, Past(p + 1, Letter)) \notin DOMAIN DirectiveType

\* There is an error for every fault in the text that was read, and for nothing
\* else, in the order of the text and with its true line; a token is an error
\* token exactly if its first character is at fault.
ErrorsAtFaults ==
  /\ {error_list[k].index : k \in 1 .. Len(error_list)} = {p \in 0 .. index - 1 : Fault(p)}
  /\ \A j, k \in 1 .. Len(error_list) : j < k => error_list[j].index < error_list[k].index
  /\ \A k \in 1 .. Len(error_list) : error_list[k].line = LineOf(error_list[k].index)
  /\ \A k \in 1 .. Len(token_list) :
       token_list[k].type = "error" <=> Fault(token_list[k].index)

\* The token list as the parser reads it.
ForParser(k) ==
  LET token == token_list[k] IN
  [type |-> token.type,
   name |-> IF token.type = "identifier" THEN token.string ELSE <<>>,
   number |-> IF token.type = "string" THEN Len(token.string) ELSE 0,
   apart |-> k > 1 /\ token_list[k - 1].index + Len(token_list[k - 1].string) # token.index]

\* Without an error, a text that ends with EOF becomes a list that the parser
\* can rely on.
HandsOver ==
  pc \in {"report", "done"} /\ error_list = <<>> /\ source_code # <<>>
    /\ Last(source_code) = "eof" =>
    P!IsTokenList([k \in 1 .. Len(token_list) |-> ForParser(k)])

\* The line at p, as it can be printed.
LineAt(p) ==
  SubSeq(source_code, p - ColumnOf(p) + 1, Past(p - ColumnOf(p), Char \ {"eol", "eof"}))

\* The character that ends a text is no part of what is seen of its last line.
ShowsLine(k) ==
  /\ reports[k].number = LineOf(error_list[k].index)
  /\ reports[k].number = reports[k].line
  /\ LET line == LineAt(error_list[k].index) IN
     reports[k].shown \in {line, Append(line, "eof")}

\* A report shows the line of its error and points at the character it is about,
\* if the handler has the whole text and the memory of it; the pointer is wrong
\* for a string that does not end.
ReportsShowLine ==
  pc = "done" /\ input.initializer # "file" /\ ~error_handler.dangling =>
    /\ Len(reports) = Len(error_list)
    /\ \A k \in 1 .. Len(reports) :
         /\ ShowsLine(k)
         /\ At(error_list[k].index) # "quote" =>
              reports[k].pointer = ColumnOf(error_list[k].index)

\* The loop comes to the end of every text.
Terminates == <>(pc \in {"done", "failed"})

\* Not what the code does.  headers/error_handler.h says of the handler's string
\* that it is "The source code being processed", error_handler.c that a report
\* finds "the start of the error line" in it and prints "the error line".
ErrorLineShown ==
  pc = "done" /\ input.initializer = "file" =>
    \A k \in 1 .. Len(reports) : ShowsLine(k)
=============================================================================
