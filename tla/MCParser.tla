------------------------------ MODULE MCParser ------------------------------
(***************************************************************************)
(* Every list of up to MaxTokens tokens of the types that tell the parser  *)
(* anything, and every program of up to MaxLines lines of well-formed and  *)
(* broken statements.                                                      *)
(***************************************************************************)
EXTENDS Parser, SequencesExt

CONSTANTS A, MCNoName, MaxTokens, MaxLines

MCName == {A}

Tk(type) == [type |-> type, name |-> IF type = "identifier" THEN A ELSE MCNoName,
             number |-> IF type = "string" THEN 2 ELSE 1, apart |-> FALSE]
ColonApart == [Tk("colon") EXCEPT !.apart = TRUE]

Words(types) == [k \in 1 .. Len(types) |-> Tk(types[k])]
SeqUpTo(S, n) == UNION {[1 .. k -> S] : k \in 0 .. n}

EOL == <<Tk("eol")>>
EOFT == <<Tk("eoft")>>

\* One operation stands for all of them.
Alphabet ==
  {Tk(type) : type \in {"mov", "identifier", "number", "string", "comma", "colon",
                        "hashtag", "star", "endmacr", "eol"} \union Directive}

AnyTokens == {list \o EOFT : list \in SeqUpTo(Alphabet, MaxTokens)}

Statements ==
  {Words(types) : types \in
     {<<>>,
      <<"extern_ins", "identifier">>, <<"entry_ins", "identifier">>,
      <<"entry_ins", "identifier", "number">>,
      <<"macr", "identifier">>, <<"endmacr", "identifier", "colon", "stop">>,
      <<"identifier", "colon">>,
      <<"identifier", "colon", "identifier", "colon">>,
      <<"stop">>, <<"identifier", "colon", "stop">>,
      <<"mov", "hashtag", "number", "comma", "star", "register">>,
      <<"mov", "star", "comma", "register">>,
      <<"identifier", "colon", "jmp", "identifier">>,
      <<"identifier", "colon", "mov", "register", "register">>,
      <<"mov", "identifier", "comma", "register", "comma">>,
      <<"data_ins", "number">>, <<"data_ins", "number", "comma">>,
      <<"identifier", "colon", "data_ins", "number", "comma", "number">>,
      <<"data_ins", "number", "number">>,
      <<"string_ins", "string">>, <<"identifier", "colon", "string_ins", "string">>,
      <<"string_ins", "string", "string">>}}
  \union {<<Tk("identifier"), ColonApart, Tk("stop")>>}

\* The last line ends with EOF, with a newline, or as a definition does that the
\* preprocessor took EOF away with.
Program(lines, ending) ==
  LET joined == FlattenSeq([l \in 1 .. Len(lines) |-> lines[l] \o EOL]) IN
  CASE ending = "eoft" -> SubSeq(joined, 1, Len(joined) - 1) \o EOFT
    [] ending = "eol" -> joined \o EOFT
    [] ending = "endmacr" -> joined \o <<Tk("endmacr")>>

Programs ==
  {Program(lines, ending) : lines \in SeqUpTo(Statements, MaxLines) \ {<<>>},
                            ending \in {"eoft", "eol", "endmacr"}}

MCTokenLists == AnyTokens \union Programs
=============================================================================
