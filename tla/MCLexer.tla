------------------------------- MODULE MCLexer -------------------------------
(***************************************************************************)
(* Every text of up to MaxLength characters out of one of each kind that   *)
(* the lexer tells apart, as preprocessing returns it, and for each of the *)
(* three initializers every text of up to MaxLines lines of a pool with    *)
(* and without faults.                                                     *)
(***************************************************************************)
EXTENDS Lexer

CONSTANTS MaxLength, MaxLines

SeqUpTo(S, n) == UNION {[1 .. k -> S] : k \in 0 .. n}

\* Words as short as they can be and still be told from a part of another.
MCReservedType == [word \in {<<"a">>, <<"r", "1">>} |-> IF word = <<"a">> THEN "mov" ELSE "register"]
MCDirectiveType == [word \in {<<".", "a">>} |-> "data_ins"]

Alphabet == {"a", "r", "1", "_", "+", ".", ":", ";", "quote", "blank", "eol", "other"}

Lines ==
  {<<>>, <<"a", "blank", "r", "1">>, <<"r", "r", ":", "a", "#", "-", "1", "1">>,
   <<".", "a", "+", "1", ",", "*">>, <<"_", "1", "r", "_", ";", "quote">>,
   <<".", "a", "a">>, <<"r", "_", "other", "other">>, <<"+", "blank", "-">>,
   <<"quote", "r", ";">>, <<"r", "quote">>}

Joined(lines) ==
  Tail(FlattenSeq([l \in 1 .. Len(lines) |-> <<"eol">> \o lines[l]]))

Programs == {Joined(lines) : lines \in SeqUpTo(Lines, MaxLines) \ {<<>>}}

Eof(text) == Append(text, "eof")

MCInputs ==
  [initializer : {"cstr", "file", "string"}, text : Programs]
    \union [initializer : {"string"},
            text : {Eof(text) : text \in SeqUpTo(Alphabet, MaxLength) \union Programs}]
=============================================================================
