--------------------------- MODULE MCPreprocessor ---------------------------
(***************************************************************************)
(* Texts of up to four lines, and the rest of a last one: definitions that *)
(* are empty, nested, repeated, unterminated or closed by the end of the   *)
(* file, and uses of a name in a line and in the last one.                 *)
(***************************************************************************)
EXTENDS Preprocessor, SequencesExt

CONSTANTS m, n

MCName == {m, n}

Line ==
  {<<"macr", m, "eol">>, <<"macr", n, "eol">>, <<"macr", "word", "eol">>,
   <<"macr", n, "word", "eol">>, <<"endmacr", "eol">>, <<"endmacr", "word", "eol">>,
   <<"word", "blank", m, "eol">>, <<"eol">>}

LastLine == {<<>>, <<"endmacr">>, <<"blank", m>>}

\* How many lines a text has: enough for nested definitions and a use.
MaxLines == 4

MCSources ==
  {FlattenSeq(lines) \o last \o <<"eoft">> :
     lines \in UNION {[1 .. k -> Line] : k \in 0 .. MaxLines}, last \in LastLine}
=============================================================================
