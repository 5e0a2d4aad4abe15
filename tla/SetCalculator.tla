---------------------------- MODULE SetCalculator ----------------------------
(***************************************************************************)
(* Maman22: myset.c validates each line of its input with an automaton,    *)
(* then scans the line again to execute it on sets of 128 bits (set.c).    *)
(* One action per iteration of the automaton and of the loop that collects *)
(* the numbers.                                                            *)
(***************************************************************************)
EXTENDS Integers, Sequences

CONSTANTS
  SetName,    \* the array sets
  Sessions,   \* what standard input may hold, line by line
  ArraySize,  \* MAX_ARR_SIZE
  LineSize    \* MAX_LEN

Command == {"read_set", "print_set", "union_set", "intersect_set", "sub_set",
            "symdiff_set", "stop"}

Digits == <<"0", "1", "2", "3", "4", "5", "6", "7", "8", "9">>
Digit == {Digits[d] : d \in 1 .. 10}

\* A line is a sequence of symbols; a name, which memcmp compares whole, is one.
\* The newline is a space.
Symbol == Command \union SetName \union Digit \union {"space", ",", ".", "+", "-", "other"}

\* sizeof(int).  The array is as long as the line.
INT_SIZE == 4

\* A name is no other symbol, nor "end", which stands behind a line.
ASSUME NameAssumption ==
  SetName \intersect
    (Command \union Digit \union {"space", ",", ".", "+", "-", "other", "end"}) = {}
ASSUME SessionsAssumption == \A s \in Sessions : s \in Seq(Seq(Symbol) \ {<<>>})
ASSUME SizeAssumption ==
  /\ ArraySize \in Nat /\ LineSize \in Nat
  /\ LineSize > 1 /\ LineSize <= INT_SIZE * ArraySize

VARIABLES
  input,         \* the lines not read yet
  typed,         \* the line that was read
  command_line,
  cmdln,         \* a place in command_line: in vldcmdln its copy, then that of main
  pc, state, command_number,
  set_array,
  set1, num_array,
  output         \* what is printed about the line: its error, or that it is done

vars == <<input, typed, command_line, cmdln, pc, state, command_number,
          set_array, set1, num_array, output>>

-----------------------------------------------------------------------------
(* Sets of 128 bits *)

NUM_OF_BYTES == 16
SIZE_OF_BYTE == 8
NUM_OF_BITS == 128

EmptySet == [b \in 0 .. NUM_OF_BYTES - 1 |-> {}]

\* Mutant: the bit not taken within its byte.
SetBitOnWide(s, index) == [s EXCEPT ![index \div SIZE_OF_BYTE] = @ \union {index}]

SetBitOn(s, index) ==
  [s EXCEPT ![index \div SIZE_OF_BYTE] = @ \union {index % SIZE_OF_BYTE}]

BitIsOn(s, index) == index % SIZE_OF_BYTE \in s[index \div SIZE_OF_BYTE]

\* read_set on a set just cleared.
ReadSet(numbers) ==
  LET end == CHOOSE e \in 0 .. Len(numbers) :
               /\ e = Len(numbers) \/ numbers[e + 1] = -1
               /\ \A k \in 1 .. e : numbers[k] # -1
      s[i \in 0 .. end] == IF i = 0 THEN EmptySet ELSE SetBitOn(s[i - 1], numbers[i])
  IN  s[end]

\* Which bits of the temporary set are on, by those of the operands.
Chosen(command, a, b) ==
  CASE command = "union_set" -> a \/ b
    [] command = "intersect_set" -> a /\ b
    [] command = "sub_set" -> a /\ ~b
    [] command = "symdiff_set" -> (a /\ ~b) \/ (b /\ ~a)

Combined(command, s, t) ==
  [b \in 0 .. NUM_OF_BYTES - 1 |->
     {k \in 0 .. SIZE_OF_BYTE - 1 :
        Chosen(command, BitIsOn(s, b * SIZE_OF_BYTE + k), BitIsOn(t, b * SIZE_OF_BYTE + k))}]

-----------------------------------------------------------------------------
(* The line *)

At(p) == IF p <= Len(command_line) THEN command_line[p] ELSE "end"

Skip(p, S) == CHOOSE q \in p .. Len(command_line) + 1 :
                At(q) \notin S /\ \A r \in p .. q - 1 : At(r) \in S

Blank == {"space"}
Separator == {"space", ","}

\* strtol at a place that is no space; without a digit it does not move.
Signed(p) == IF At(p) \in {"+", "-"} THEN p + 1 ELSE p
NumberEnd(p) == IF At(Signed(p)) \in Digit THEN Skip(Signed(p), Digit) ELSE p
DigitOf(c) == CHOOSE d \in 0 .. 9 : Digits[d + 1] = c
Value(digits) ==
  LET value[n \in 0 .. Len(digits)] ==
        IF n = 0 THEN 0 ELSE 10 * value[n - 1] + DigitOf(digits[n])
  IN  value[Len(digits)]
Number(p) ==
  LET value == Value(SubSeq(command_line, Signed(p), Skip(Signed(p), Digit) - 1))
  IN  IF At(p) = "-" THEN -value ELSE value

\* Mutant: 100 taken for a number of two digits.
DigitsExpectedTwo(n) == IF n <= 9 THEN 1 ELSE IF n <= 100 THEN 2 ELSE 3

\* How many characters vldnum takes a number for, whatever was written.
DigitsExpected(n) == IF n <= 9 THEN 1 ELSE IF n <= 99 THEN 2 ELSE 3

-----------------------------------------------------------------------------
(* vldcmdln *)

\* errmsg, and back to the prompt.
Reject(message) ==
  /\ output' = <<message>> /\ pc' = "prompt"
  /\ UNCHANGED <<cmdln, state, command_number>>

Accept ==
  /\ pc' = "execute" /\ cmdln' = Skip(1, Blank)
  /\ UNCHANGED <<state, command_number, output>>

Go(p, next) ==
  /\ cmdln' = p /\ state' = next
  /\ UNCHANGED <<pc, command_number, output>>

Validating(s) == pc = "validate" /\ state = s /\ At(cmdln) # "space"

Kept == UNCHANGED <<input, typed, command_line, set_array, set1, num_array>>

SkipSpace ==
  /\ pc = "validate" /\ At(cmdln) = "space"
  /\ Go(cmdln + 1, state)
  /\ Kept

ReadCommand ==
  /\ Validating("CMD")
  /\ \/ At(cmdln) \notin Command /\ Reject("undefined command name")
     \/ /\ At(cmdln) \in Command
        /\ command_number' = At(cmdln)
        /\ state' = IF At(cmdln) = "stop" THEN "STOP" ELSE "SET1"
        /\ cmdln' = cmdln + 1
        /\ UNCHANGED <<pc, output>>
  /\ Kept

\* Only white space may follow the name at cmdln.
EndCommand ==
  IF At(Skip(cmdln + 1, Blank)) = "end" THEN Accept ELSE Reject("extraneous text")

ReadSet1 ==
  /\ Validating("SET1")
  /\ \/ At(cmdln) = "end" /\ Reject("missing parameter")
     \/ At(cmdln) = "," /\ Reject("illegal comma")
     \/ At(cmdln) \notin SetName \union {"end", ","} /\ Reject("undefined set name")
     \/ /\ At(cmdln) \in SetName
        /\ CASE command_number = "print_set" -> EndCommand
             [] command_number = "read_set" -> Go(cmdln + 1, "COMMA_READ")
             [] OTHER -> Go(cmdln + 1, "COMMA_AFTER_SET1")
  /\ Kept

ReadComma(from, next) ==
  /\ Validating(from)
  /\ IF At(cmdln) = "," THEN Go(cmdln + 1, next) ELSE Reject("missing comma")
  /\ Kept

\* SET2 and RESULT make the same checks in a different order.
ReadSetName(from, AtSet) ==
  /\ Validating(from)
  /\ \/ At(cmdln) = "," /\ Reject("multiple commas")
     \/ At(cmdln) = "end" /\ Reject("missing parameter")
     \/ At(cmdln) \notin SetName \union {"end", ","} /\ Reject("undefined set name")
     \/ At(cmdln) \in SetName /\ AtSet
  /\ Kept

ReadSet2 == ReadSetName("SET2", Go(cmdln + 1, "COMMA_AFTER_SET2"))
ReadResult == ReadSetName("RESULT", EndCommand)

\* NUMBER and vldnum.
ReadNumber ==
  /\ Validating("NUMBER")
  /\ \/ At(cmdln) = "end" /\ Reject("not terminated")
     \/ At(cmdln) = "," /\ Reject("multiple commas")
     \/ /\ At(cmdln) \notin {"end", ","}
        /\ LET num == Number(cmdln) IN
           \/ num = -1 /\ Go(cmdln + 2, "MINUS1")
           \/ num \in 1 .. 127 /\ Go(cmdln + DigitsExpected(num), "COMMA_READ")
           \/ num \notin -1 .. 127 /\ Reject("out of range")
           \/ num = 0 /\ At(cmdln) = "0" /\ Go(cmdln + 1, "COMMA_READ")
           \/ num = 0 /\ At(cmdln) # "0" /\ Reject("not an integer")
  /\ Kept

\* A decimal point without a digit is rejected without a message.
ReadNumberComma ==
  /\ Validating("COMMA_READ")
  /\ \/ At(cmdln) = "," /\ Go(cmdln + 1, "NUMBER")
     \/ At(cmdln) = "end" /\ Reject("not terminated")
     \/ /\ At(cmdln) = "." /\ At(cmdln + 1) \in Digit
        /\ Reject("not an integer")
     \/ /\ At(cmdln) = "." /\ At(cmdln + 1) \notin Digit
        /\ pc' = "prompt" /\ UNCHANGED <<cmdln, state, command_number, output>>
     \/ At(cmdln) \notin {",", "end", "."} /\ Reject("missing comma")
  /\ Kept

ReadEnd ==
  /\ Validating("MINUS1") \/ Validating("STOP")
  /\ IF At(cmdln) = "end" THEN Accept ELSE Reject("extraneous text")
  /\ Kept

-----------------------------------------------------------------------------
(* main *)

\* Mutant: the numbers added to those of the line before.
ValidateKeeping(line) ==
  /\ typed' = line /\ command_line' = line
  /\ pc' = "validate" /\ state' = "CMD" /\ command_number' = "none"
  /\ cmdln' = 1 /\ output' = <<>>
  /\ UNCHANGED <<set_array, set1, num_array>>

Validate(line) ==
  /\ typed' = line /\ command_line' = line
  /\ pc' = "validate" /\ state' = "CMD" /\ command_number' = "none"
  /\ cmdln' = 1 /\ num_array' = <<>> /\ output' = <<>>
  /\ UNCHANGED <<set_array, set1>>

\* fgets returns what fits of a line, and the rest of it as another one.
ReadLine ==
  /\ pc = "prompt" /\ input # <<>>
  /\ IF Len(Head(input)) < LineSize
     THEN Validate(Head(input)) /\ input' = Tail(input)
     ELSE /\ Validate(SubSeq(Head(input), 1, LineSize - 1))
          /\ input' = <<SubSeq(Head(input), LineSize, Len(Head(input)))>> \o Tail(input)

\* No line can be "stop" here: it would have ended the program.  If none was
\* read, it is what the memory of command_line happens to hold.
EndOfInput ==
  /\ pc = "prompt" /\ input = <<>>
  /\ \/ pc' = "failure" /\ output' = <<"no stop command">>
     \/ typed = <<>> /\ pc' = "success" /\ UNCHANGED output
  /\ UNCHANGED <<command_number, state, cmdln>> /\ Kept

Executing(commands) == pc = "execute" /\ At(cmdln) \in commands
Set1Place == Skip(cmdln + 1, Blank)
Set2Place == Skip(Set1Place + 1, Separator)
ResultPlace == Skip(Set2Place + 1, Separator)

Done(message) ==
  /\ pc' = "prompt" /\ output' = <<message>>
  /\ UNCHANGED <<input, typed, command_line, cmdln, state, command_number, set1, num_array>>

BeginRead ==
  /\ Executing({"read_set"})
  /\ set1' = At(Set1Place) /\ cmdln' = Set1Place + 1
  /\ pc' = "read_numbers"
  /\ UNCHANGED <<input, typed, command_line, state, command_number, set_array,
                 num_array, output>>

\* Mutant: only white space skipped before a number.
CollectNumberAtComma ==
  /\ pc = "read_numbers" /\ At(cmdln) # "end"
  /\ LET at == Skip(cmdln, Blank) IN
     /\ cmdln' = NumberEnd(at)
     /\ num_array' = IF Len(num_array) < 2 * ArraySize
                     THEN Append(num_array, Number(at)) ELSE num_array
  /\ UNCHANGED <<input, typed, command_line, pc, state, command_number, set_array,
                 set1, output>>

\* The array lies before the line: what does not fit goes to the line's beginning.
Overwritten(i) == {p \in 1 .. Len(command_line) : p <= INT_SIZE * (i - ArraySize)}

CollectNumber ==
  /\ pc = "read_numbers" /\ At(cmdln) # "end"
  /\ LET at == Skip(cmdln, Separator) IN
     /\ cmdln' = NumberEnd(at)
     /\ num_array' = Append(num_array, Number(at))
     /\ command_line' = [p \in 1 .. Len(command_line) |->
                           IF p \in Overwritten(Len(num_array) + 1) THEN "other"
                           ELSE command_line[p]]
  /\ UNCHANGED <<input, typed, pc, state, command_number, set_array, set1, output>>

FinishRead ==
  /\ pc = "read_numbers" /\ At(cmdln) = "end"
  /\ set_array' = [set_array EXCEPT ![set1] = ReadSet(num_array)]
  /\ Done("done")

PrintSet ==
  /\ Executing({"print_set"})
  /\ UNCHANGED set_array
  /\ Done("set")

\* Mutant: the result written to the second set.
OperateInPlace ==
  /\ Executing({"union_set", "intersect_set", "sub_set", "symdiff_set"})
  /\ set_array' = [set_array EXCEPT ![At(Set2Place)] =
                     Combined(At(cmdln), set_array[At(Set1Place)], set_array[At(Set2Place)])]
  /\ Done("done")

Operate ==
  /\ Executing({"union_set", "intersect_set", "sub_set", "symdiff_set"})
  /\ set_array' = [set_array EXCEPT ![At(ResultPlace)] =
                     Combined(At(cmdln), set_array[At(Set1Place)], set_array[At(Set2Place)])]
  /\ Done("done")

\* The line ends with the command: the reads of sets[-1] and set_array[-1] before the
\* switch, and the step over a set's name past the line, have no use here and are
\* left out.
Stop ==
  /\ Executing({"stop"})
  /\ pc' = "success" /\ output' = <<"bye">>
  /\ UNCHANGED <<command_number, state, cmdln>> /\ Kept

-----------------------------------------------------------------------------
Init ==
  /\ input \in Sessions
  /\ typed = <<>> /\ command_line = <<>> /\ cmdln = 1
  /\ pc = "prompt" /\ state = "CMD" /\ command_number = "none"
  /\ set_array = [n \in SetName |-> EmptySet]
  /\ set1 = "none" /\ num_array = <<>> /\ output = <<>>

Automaton ==
  \/ SkipSpace \/ ReadCommand
  \/ ReadSet1 \/ ReadSet2 \/ ReadResult
  \/ ReadComma("COMMA_AFTER_SET1", "SET2") \/ ReadComma("COMMA_AFTER_SET2", "RESULT")
  \/ ReadNumber \/ ReadNumberComma \/ ReadEnd

Next ==
  \/ ReadLine \/ EndOfInput
  \/ Automaton
  \/ BeginRead \/ CollectNumber \/ FinishRead
  \/ PrintSet \/ Operate \/ Stop

Spec == Init /\ [][Next]_vars

\* A sequential program whose input is there.
FairSpec == Spec /\ WF_vars(Next)
-----------------------------------------------------------------------------
\* A number that is collected is a member a set can have, or -1: the second
\* scan only meets what the first let pass.
TypeOK ==
  /\ input \in Seq(Seq(Symbol) \ {<<>>})
  /\ typed \in Seq(Symbol) /\ command_line \in Seq(Symbol)
  /\ Len(typed) < LineSize
  /\ cmdln \in 1 .. Len(command_line) + 1
  /\ pc \in {"prompt", "validate", "execute", "read_numbers", "success", "failure"}
  /\ state \in {"CMD", "SET1", "COMMA_AFTER_SET1", "SET2", "COMMA_AFTER_SET2",
                "RESULT", "NUMBER", "COMMA_READ", "MINUS1", "STOP"}
  /\ command_number \in Command \union {"none"}
  /\ set_array \in [SetName -> [0 .. NUM_OF_BYTES - 1 -> SUBSET (0 .. SIZE_OF_BYTE - 1)]]
  /\ set1 \in SetName \union {"none"}
  /\ num_array \in Seq(-1 .. NUM_OF_BITS - 1)
  /\ Len(output) <= 1

-----------------------------------------------------------------------------
(* The language of the commands *)

Commas(line) == {p \in 1 .. Len(line) : line[p] = ","}

\* What stands in a line up to p besides white space.
WordsTo(line, p) ==
  LET words[q \in 0 .. Len(line)] ==
        IF q = 0 THEN <<>>
        ELSE IF line[q] = "space" THEN words[q - 1] ELSE Append(words[q - 1], line[q])
  IN  words[p]
Words(line) == WordsTo(line, Len(line))

\* Between two places there is nothing but the word, in one piece.
Alone(line, from, to, word) ==
  \E k \in from + 1 .. to - Len(word) :
    \A p \in from + 1 .. to - 1 :
      line[p] = IF p \in k .. k + Len(word) - 1 THEN word[p - k + 1] ELSE "space"

\* How a number is written: without a sign or a leading zero.
Decimal(n) ==
  LET Unit(m) == Digits[(m % 10) + 1] IN
  CASE n < 10 -> <<Unit(n)>>
    [] n \in 10 .. 99 -> <<Unit(n \div 10), Unit(n)>>
    [] n > 99 -> <<Unit(n \div 100), Unit(n \div 10), Unit(n)>>
Member == 0 .. NUM_OF_BITS - 1

Operation == {"union_set", "intersect_set", "sub_set", "symdiff_set"}

\* A number stands between a comma and the next.
Lists(line, n) == \E c, d \in Commas(line) : Alone(line, c, d, Decimal(n))

\* Behind each comma of a list stands a number, behind the last one -1.
IsList(line) ==
  /\ \E c \in Commas(line), name \in SetName : WordsTo(line, c) = <<"read_set", name, ",">>
  /\ \A c \in Commas(line) :
       \/ \E d \in Commas(line), n \in Member : Alone(line, c, d, Decimal(n))
       \/ Alone(line, c, Len(line) + 1, <<"-", "1">>)

IsCommand(line) ==
  \/ Words(line) = <<"stop">>
  \/ \E name \in SetName : Words(line) = <<"print_set", name>>
  \/ \E command \in Operation, a, b, c \in SetName :
       Words(line) = <<command, a, ",", b, ",", c>>
  \/ IsList(line)

BareDot(line) ==
  \E p \in 1 .. Len(line) :
    line[p] = "." /\ (p = Len(line) \/ line[p + 1] \notin Digit)

\* The automaton lets a line pass to execution exactly if it is a command, and
\* tells the user about every other, but for a number that ends in a point.
AcceptsLanguage ==
  /\ pc \in {"execute", "read_numbers"} => IsCommand(typed)
  /\ pc = "prompt" /\ typed # <<>> =>
       /\ IsCommand(typed) <=> output \in {<<"done">>, <<"set">>}
       /\ output = <<>> => BareDot(typed)

\* The sets as sets of numbers, and what a command makes of them.
Members(s) == {n \in Member : BitIsOn(s, n)}
Before(name) == Members(set_array[name])

Meaning(line, name) ==
  LET word == Words(line) IN
  IF word[1] = "read_set"
  THEN IF name = word[2] THEN {n \in Member : Lists(line, n)} ELSE Before(name)
  ELSE IF name # word[6] THEN Before(name)
  ELSE CASE word[1] = "union_set" -> Before(word[2]) \union Before(word[4])
         [] word[1] = "intersect_set" -> Before(word[2]) \intersect Before(word[4])
         [] word[1] = "sub_set" -> Before(word[2]) \ Before(word[4])
         [] word[1] = "symdiff_set" ->
              (Before(word[2]) \ Before(word[4])) \union (Before(word[4]) \ Before(word[2]))

\* The second scan of a line does to the sets what the line says, whichever
\* names coincide, and nothing else changes a set.
ExecutedAsWritten ==
  [][IF pc # "prompt" /\ output' = <<"done">>
     THEN \A name \in SetName : Members(set_array'[name]) = Meaning(typed, name)
     ELSE UNCHANGED set_array]_vars

\* Numbers beyond the array are stored over the line that is being scanned, but
\* always behind the scan: no line of LineSize can hold so many.
ScanAheadOfNumbers ==
  pc = "read_numbers" => INT_SIZE * (Len(num_array) - ArraySize) < cmdln

\* Every line is answered and the program ends, at stop or at the end of input.
Terminates == <>(pc \in {"success", "failure"})
=============================================================================
