--------------------------- MODULE MCSetCalculator ---------------------------
(***************************************************************************)
(* Single lines: a heading and every sequence of up to MaxPieces pieces.   *)
(* Sessions: every sequence of up to MaxLines lines of a pool that fills   *)
(* the sets, combines them, exceeds the array and exceeds the line.        *)
(***************************************************************************)
EXTENDS SetCalculator, SequencesExt

CONSTANTS MaxPieces, MaxLines

SeqUpTo(S, n) == UNION {[1 .. k -> S] : k \in 0 .. n}

Headings ==
  {<<>>, <<"stop">>, <<"print_set">>, <<"space", "print_set", "SETA">>,
   <<"sub_set", "space", "SETA">>, <<"sub_set", "SETA", ",", "SETB", ",">>,
   <<"read_set", "space", "SETA">>, <<"read_set", "SETA", ",">>}

\* The numbers are those next to a change of vldnum's answer.
Pieces ==
  {<<"space">>, <<",">>, <<"other">>, <<".">>, <<"SETB">>, <<"+">>, <<"-", "1">>,
   <<"-", "2">>, <<"0">>, <<"9">>, <<"1", "0">>, <<"9", "9">>, <<"1", "0", "0">>,
   <<"1", "2", "7">>, <<"1", "2", "8">>}

SingleLines ==
  {heading \o FlattenSeq(pieces) :
     heading \in Headings, pieces \in SeqUpTo(Pieces, MaxPieces)} \ {<<>>}

Line(words) == words \o <<"space">>
Pool ==
  {Line(<<"read_set", "SETA", ",", "7", ",", "1", "2", "7", ",", "-", "1">>),
   Line(<<"read_set", "SETB", ",", "8", ",", "7", ",", "-", "1">>),
   <<"read_set", "SETA", ",", "0", ",", "1", ",", "8", ",", "-", "1">>,
   Line(<<"read_set", "SETB", ",", "0", ",", "1", ",", "2", ",", "3", ",", "-", "1">>),
   Line(<<"read_set", "SETC", ",", "-", "1", ",", "1">>),
   Line(<<"print_set", "SETC">>),
   Line(<<"union_set", "SETA", ",", "SETB", ",", "SETC">>),
   Line(<<"intersect_set", "SETA", ",", "SETB", ",", "SETA">>),
   Line(<<"sub_set", "SETB", ",", "SETA", ",", "SETA">>),
   Line(<<"symdiff_set", "SETC", ",", "SETA", ",", "SETB">>),
   Line(<<"stop">>)}

MCSessions ==
  {<<line>> : line \in SingleLines} \union SeqUpTo(Pool, MaxLines)
=============================================================================
