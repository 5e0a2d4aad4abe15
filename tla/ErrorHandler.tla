---------------------------- MODULE ErrorHandler ----------------------------
(***************************************************************************)
(* source/error_handler.c: the errors a stage collects, and the line of    *)
(* the source that is printed with each.  The handler holds a copy of a    *)
(* String, which shares its data but not its length.                       *)
(***************************************************************************)
EXTENDS Integers, Sequences, FiniteSets

\* A String is the sequence of its characters; places in it count from 0.
CharAt(string, index) == IF index < Len(string) THEN string[index + 1] ELSE "nul"

CharError(index, column, line) ==
  [kind |-> "char", index |-> index, column |-> column, line |-> line, length |-> 1]

TokenError(token) ==
  [kind |-> "token", index |-> token.index, column |-> token.index_in_line,
   line |-> token.line, length |-> Len(token.string)]

\* Mutant: only the newline right before the place looked for.
FindLineStartNear(string, index) ==
  IF index > 0 /\ CharAt(string, index - 1) = "eol" THEN index ELSE 0

FindLineStart(string, index) ==
  CHOOSE start \in 0 .. index :
    /\ start = 0 \/ CharAt(string, start - 1) = "eol"
    /\ \A i \in start .. index - 1 : CharAt(string, i) # "eol"

GetLineNumber(string, index) ==
  1 + Cardinality({i \in 0 .. index - 1 : CharAt(string, i) = "eol"})

ErrorLine(string, start) ==
  LET end == CHOOSE e \in start .. start + Len(string) :
               /\ CharAt(string, e) \in {"eol", "nul"}
               /\ \A i \in start .. e - 1 : CharAt(string, i) \notin {"eol", "nul"}
  IN  SubSeq(string, start + 1, end)

\* Memory that was given back may hold anything: it is one value.
Garbage == "garbage"

\* What is printed of an error, but for its message: its place, then the number
\* and the text of a line, then a pointer of some length under it.
Report(handler, error) ==
  LET start == FindLineStart(handler.string, error.index) IN
  [line |-> error.line, column |-> error.column + 1,
   number |-> IF handler.dangling THEN Garbage ELSE GetLineNumber(handler.string, start),
   shown |-> IF handler.dangling THEN <<Garbage>> ELSE ErrorLine(handler.string, start),
   pointer |-> error.column, length |-> error.length]
=============================================================================
