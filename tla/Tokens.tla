------------------------------- MODULE Tokens -------------------------------
(***************************************************************************)
(* What the lexer hands to the parser: the token list of headers/token.h,  *)
(* as far as the parser reads it.                                          *)
(***************************************************************************)
EXTENDS Integers, Sequences, TranslationUnit

Directive == {"data_ins", "string_ins", "entry_ins", "extern_ins"}
TokenType ==
  Operation \union Directive
    \union {"identifier", "register", "number", "string", "comma", "colon",
            "hashtag", "star", "macr", "endmacr", "eol", "eoft"}

\* number is what atoi makes of a number or register, and the length of a
\* string, quotes included; apart says that the token does not begin where the
\* string of the one before it ends.
Token ==
  [type : TokenType, name : Name \union {NoName}, number : Int, apart : BOOLEAN]

\* EOF is the last token.  It is missing if a macro definition ends with it: the
\* preprocessor leaves it out with the end of the definition, but not the rest.
IsTokenList(list) ==
  /\ list \in Seq(Token) /\ list # <<>>
  /\ \A k \in 1 .. Len(list) :
       /\ list[k].type = "eoft" => k = Len(list)
       /\ list[k].type = "identifier" => list[k].name \in Name
       /\ list[k].type = "string" => list[k].number >= 2
  /\ \/ list[Len(list)].type = "eoft"
     \/ /\ Len(list) > 1
        /\ list[Len(list) - 1].type = "eol" /\ list[Len(list)].type = "endmacr"
=============================================================================
