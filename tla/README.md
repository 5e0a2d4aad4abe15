# A TLA+ development of the C-Lab-Programming repository

The repository holds the course work of a C laboratory. Its largest program, and the one
this project is about first, is the two-pass assembler of `Maman14-FinalProject`; around it
are a calculator over sets (`Maman22`) and a few exercises (`Maman11`, `Maman12`).

## 1. Inventory

### The assembler (`src/C lab Programming/Maman14-FinalProject`)

`tests/TheTest/main.c` runs every file of its command line through a chain of stages, each
started only when the one before has reported no error:

    lexer -> preprocessor -> lexer -> parser -> semantic analyzer -> code generator

The stages are sequential functions. They communicate through structures they hand to one
another (token list, translation unit, hash table) and through one error list per stage,
`error_handler.error_list`, whose being empty is the gate of the next stage.

| component | state it keeps | operations | what is hard | what makes it correct |
|---|---|---|---|---|
| lexer (`lexer.c`) | cursor into the source with line and column, token list, errors | three initializers, one scanner per token class, `lexer_analyze` | the EOF character is part of the source; what is a comment or a string depends on every quote before it; every class must advance | every character belongs to one token or is skipped, tokens are as long as can be, every fault is one error, the list ends in EOF, the scan terminates |
| preprocessor (`preprocessor.c`) | token cursor, macro list, processed source | create macro, generate list, expand, process | a cursor shared between phases; the end of a macro found by token patterns | definitions removed, uses replaced, the rest kept |
| parser (`parser.c`) | token cursor, four lists of nodes, errors | one function per construct, recovery to the end of the line | recovery after errors, a tail pointer into a dead scope, tokens that may run out | every line is consumed once, an error-free unit holds every statement in order |
| identifier hash (`semantic_analyzer.c` 25-146) | array of cells | initialize, find, insert; the entry mark | collisions, wrap-around, a table sized once | it is a partial map from names to declarations |
| semantic analyzer (rest of `semantic_analyzer.c`) | hash table, errors | duplicates, operands, ranges, entries | checks that report at a token that may be NULL | an accepted unit has what the generator assumes |
| code generator (`code_generator.c`) | label positions, three output strings, errors | update labels, list entries, generate object, write files | two independent walks must agree on every address; bit-fields; overflow | the object file is the memory image the addresses speak of |
| driver (`tests/TheTest/main.c`) | the file system, the structures of the current file | one iteration per file | early `continue`, output directories that coincide, files of earlier runs | one file's failure leaves the others alone |
| error handler (`error_handler.c`) | append-only list of errors, a copy of the source `String` | append, report, free | the copy shares the memory of the source but not its length, and keeps pointing there when it moves | a report shows the line its error is in |
| strings, allocation (`string_util.c`, `safe_allocations.c`) | growing buffer | append; substring, range, replace | capacity arithmetic | the buffer is large enough for what is appended |

### The other programs

The set calculator of `Maman22` (`myset.c`, `set.c`) reads commands, validates each line with a
ten-state automaton and then executes it on six sets of 128 bits. Its state is the sets, the
line, and the numbers collected from it. What is hard: validation and execution scan the line
separately, with different ideas of separators and numbers, and the second scan checks
nothing; the numbers go into an array without a bound. It is correct if exactly the commands
are executed, each doing what it says.
`Maman11` (rotation, runs of letters) and `Maman12` (comparison of blocks) are single
functions over small data.

### Hazards

`PROJECT.json` lists what is hard to test, each at its line, with the properties that watch
it. For the sequential assembler these are not interleavings but agreements: two loops that
must walk the same path (find and insert), two passes that must count the same words, a
cursor kept across calls, a bit-field narrower than the value stored in it, an error reported
where there is no token, and the files of one run met by the next. For the set calculator they
are what its second scan assumes of the first.

## 2. Plan

| order | module | about | state |
|---|---|---|---|
| 1 | `SymbolTable`, `IdentifierHash` | abstract symbol table; the probing hash table that implements it | modelled, checked, proved |
| 2 | `TranslationUnit` | the trees the stages hand over, and what each stage establishes about them | shared by 3, 4 and 6 |
| 3 | `CodeGenerator` | both passes, entries, files | modelled, checked, proved |
| 4 | `SemanticAnalyzer` | declarations, entries, checks of every node; establishes `IsAnalyzed`, the assumption of `CodeGenerator` | modelled, checked, proved |
| 5 | `Preprocessor` | macro list, against the definitions of the text; cursor, expansion | modelled, checked, proved |
| 6 | `Parser` | cursor, recovery, lists; establishes `IsParsed`, the assumption of `SemanticAnalyzer` | modelled, checked, proved |
| 7 | `Driver` | batch, gating, directories, files left by earlier runs | modelled, checked, proved |
| 8 | `Tokens`, `ErrorHandler`, `Lexer` | scanning over character classes, reports; establishes `IsTokenList`, the assumption of `Parser` | modelled, checked, proved |
| 9 | `SetCalculator` | automaton and second scan of `Maman22`, which must agree | modelled, checked, proved |

Every safety property of the passing runs is proved; liveness is left to TLC.

## 3. Modules and code

The stages are chained by assumptions and guarantees. What one module takes as its input set
is what the module before it is shown to hand over:

    Lexer: HandsOver  =>  IsTokenList  = TokenListsAssumption of Parser
    Parser: HandsOverParsed   =>  IsParsed    = ParsedAssumption of SemanticAnalyzer
    SemanticAnalyzer: AcceptedIsAnalyzed  =>  IsAnalyzed  = UnitsAssumption of CodeGenerator
    SemanticAnalyzer: InsertsCounted  =>  the bound under which IdentifierHash is never full
    IdentifierHash refines SymbolTable  =  the one-step table of SemanticAnalyzer

Every link of this chain is a theorem (section 5). `Tokens` defines `IsTokenList`,
`TranslationUnit` the predicates on trees, and `Lowered`, which drops from a parsed tree what
the code generator does not read.

**`IdentifierHash`** (`semantic_analyzer.c` 25-146). `hash` is the `calloc`ed array, `op` the
function running, `key`/`decl` its arguments, `index`/`startIndex` its locals. `FindHit`,
`FindEmpty`, `InsertStore`, `InsertDuplicate` and `Advance` are the branches of one iteration of
the two `do`-`while` loops; `MarkEntry` is the write of `has_entry` through the pointer that
find answered. The hash function is a constant. The table is sized as the code does it, from
the number of identifiers counted, and a caller inserts at most that often.

**`SymbolTable`**: a partial map from names to declarations with a mark, where insert fails
exactly on a known name. `IdentifierHash` implements it under the refinement that forgets the
slots and the probing.

**`CodeGenerator`** (`code_generator.c`). One action per iteration: `MeasureNode`, `PlaceLabel`
and `FinishLabels` are `code_generator_update_labels`; `ListEntry` is an iteration of
`generate_entry_file_string`; `EmitInstruction`, `EmitGuidance` and `NextLabel` are the walk of
`generate_object_and_external_files`, with its own `position`; `FinishObject` is the header;
the `Write` actions are `output_generate`, where a file may fail to open. `label_position` is the
field of the label node. `layout` is a history variable: the address the first pass counts for
each node. A line of the object file keeps where it is, how many words it has, its decoded
fields, and the label and node it came from.

**`SemanticAnalyzer`** (rest of `semantic_analyzer.c`). `Initialize` counts the declarations;
`ValidateLabel`, `ValidateExternal` and `ValidateEntry` are iterations over the lists,
`AnalyzeNode` one over the nodes, with the operation's switch in `BadModes`. An error is the
place it is reported at.

**`Preprocessor`** (`preprocessor.c`). A text is a sequence of symbols one character wide.
`ScanToken` is an iteration of `preprocessor_generate_macro_list`; `ExpandToken` (a definition
skipped, a use replaced or a token copied: `SkipDefinition`, `ExpandMacro`, `CopyToken`) and
`CopyCharacter` are the branches of the loop of `preprocessor_expand_macros`, where the token
cursor and the character index move separately. `preprocessor_process` alone calls that function,
with the cursor at EOF, so that `ExpandMacro` is there as the code has it and is never taken. The
`preprocessor_create_macro_list` that a header declares and a test calls
(`headers/preprocessor.h:72`) is defined nowhere.

**`Parser`** (`parser.c`). `tokens` is the cursor; each construct is an action or, where it
loops, one per iteration. `Error` and `Continue` are the recovery to the end of the line. Nodes
hold places of tokens, so that a property can say which token of the source a node came from.

**`Tokens`** (`headers/token.h`): a token as the parser reads it, and `IsTokenList`: EOF is the
last token and only the last, or is missing because a definition closed by `endmacr` took it.

**`Lexer`** (`lexer.c`). A text is a sequence of characters, of which the model keeps one of
each kind the code tells apart. `InitializeFromCstr`, `InitializeFromFile`, `CannotOpenFile` and
`InitializeFromString` are the three ways to begin; they differ in when the error handler
takes its copy and in who appended EOF. Then there is one action per case of the loop in
`lexer_analyze`, with all of the function it calls: the token ends at the first place that
does not go on with it (`Past`), and `AdvanceTo` is `lexer_advance_character` up to there, which
counts lines and columns. An error that does not stop the scan is an error token as well.

**`ErrorHandler`** (`error_handler.c`). `Report` is what is printed of an error but for its
message. The line is looked up in the handler's copy of the source: a `String` copied by value,
which has the length of the moment it was copied and whose memory may have been given back
by a later append (`dangling`).

**`SetCalculator`** (`myset.c`, `set.c`). A line is a sequence of symbols, where the names that
`memcmp` compares whole are one. The actions `ReadCommand`, `ReadSet1`, ..., `ReadEnd` are the
states of the automaton in `vldcmdln`, with `Reject` for every message and `Number` for what
`strtol` reads, signs and leading zeros included; `BeginRead`, `CollectNumber`, `FinishRead`,
`PrintSet`, `Operate` and `Stop` are the second scan in `main`. The array of numbers lies right
before the line in memory, so that a number beyond its end is stored over the line
(`Overwritten`); the code's sizes (128 numbers of four bytes, a line of 512) satisfy
`LineSize <= 4 * ArraySize`, which is all the model assumes. A line longer than the buffer is read as two.

**`Driver`** (`tests/TheTest/main.c`). A program is what its stages will find in it; a path is
a folder and the parts of its base name between dots. `RunStage` is a stage and its gate,
`MakeDirectory` and the `Write` actions touch the directory tree, `FreeStage` frees backwards
from where the stages stopped. `live` says which iteration initialized a structure that has
not been freed.

Abstractions common to all: names are model values; `atoi` is the number it returns; error
texts and the layout of the files are left out; allocation succeeds (its failure
exits the process). Two facts are about the build: the assembler's Makefile compiles without
optimization (`gcc -Wall -pedantic -std=c90 -ansi`), so the pointer the parser keeps to a
local of a past loop iteration still finds its value; and sources are text, without NUL bytes,
so that the lexer's list ends with the EOF token, or with the `endmacr` of a definition that
the end of the file closed.

Operators whose comment says "Mutant" are alternatives a plausible slip in the code would have
given; the specifications do not use them. Each property has been seen to fail with one of them.

## 4. Runs

| run | question | result |
|---|---|---|
| `identifier_hash` | does the probing table behave as the symbol table (`RefinesSymbolTable`), without losing or moving a key (`ProbeChainUnbroken`, `CellsStable`), every call returning (`CallReturns`)? | holds |
| `code_generator` | do the two passes agree on every address (`LabelsAtTheirCode`), is the object file a gapless image (`ObjectContiguous`, `HeaderMatches`) that decodes and refers to where labels are (`ObjectDescribesProgram`), are externals and entries complete (`ListingsComplete`), is nothing published after an overflow (`OnlyPlacedIsPublished`)? | holds |
| `semantic_analyzer` | are exactly the faults of a program reported (`FaultsReported`), is an accepted one what the generator assumes (`AcceptedIsAnalyzed`), is the table large enough (`InsertsCounted`)? | holds |
| `parser` | is a program accepted exactly if it is of the language (`AcceptsLanguage`), is every statement in place (`StatementsInPlace`, `HandsOverParsed`), does an error cost one line only (`OneErrorPerLine`)? | holds |
| `preprocessor` | is a macro exactly its definition and every `macr` accounted for (`MacrosAccounted`), is the first definition of each name the macro (`DefinitionsTaken`), what does `preprocessor_process` hand on (`TextPassedThrough`)? | holds |
| `driver` | is every structure freed once (`StructuresFreed`), is a failure contained (`PublishedIfCorrect`), are directories of different names apart (`OneProgramPerDirectory`)? | holds |
| `lexer` | is the text split without loss into longest tokens with true places (`TextAccounted`), is every fault one error (`ErrorsAtFaults`), does a report show its line (`ReportsShowLine`), can the parser rely on the list (`HandsOver`)? | holds |
| `set_calculator` | is a line executed exactly if it is a command (`AcceptsLanguage`), does the second scan do what it says (`ExecutedAsWritten`), do numbers stay behind the scan they overwrite (`ScanAheadOfNumbers`)? | holds |
| `register_pair` | does an instruction with two registers keep both? | no: the source is cleared |
| `overflow_reported` | is memory overflow reported? | no: NULL is dereferenced at an unnamed guidance list |
| `macros_expanded` | does `preprocessor_process` expand macros? | no: its cursor is at EOF |
| `error_line` | is an error in a file shown with its line? | no: the handler's copy has length 0 |

The last four state what a comment or a header says; `PROJECT.json` quotes it. The properties of
the passing runs describe the code as it is: `ObjectDescribesProgram` speaks of the low 12 bits
of an address, `TextPassedThrough` of a text handed on with its macros, `ReportsShowLine` of
texts that are not files and whose memory has not moved, and `TextAccounted` leaves out the
column of a string. `MacrosAccounted` does not look at the first line of a macro's content, which
may be an `endmacr`; `DefinitionsTaken` says which texts are definitions to the code, and that an
`endmacr` right below the header ends none. `OneProgramPerDirectory` is about names used once, in
the run and by earlier ones; `PublishedIfCorrect` allows a later argument of the same output name
to write over an earlier one.

### Bounds

- `MCIdentifierHash`: three declarations give five slots; of four names two have the last slot
  as home and two the one before, so chains collide, merge and wrap, and one name more than the
  capacity is looked up and inserted again.
- `MCCodeGenerator`: up to two instruction labels with up to two instructions from a pool that
  has every addressing mode, forward and backward references and an external; guidance lists
  named or not, of sizes that put a label beyond 4095 (the operand field) or the end beyond 9999
  (the memory), each in two orders; entries repeated and out of order.
- `MCSemanticAnalyzer`: all combinations of up to two labels of each kind, two externals and two
  entries over two names; every operation with every pair of operands from a set at and beyond
  the limits; `.data` at and beyond its limits. A fault needs at most two declarations, or one node.
- `MCPreprocessor`: all texts of up to four lines and a last one: enough for a definition with a
  line of content, one in another or after it, an empty one with an `endmacr` further down, a second
  of the same name after one that is or is not terminated, and a use.
- `MCParser`: every list of up to three of the token types the parser distinguishes, then EOF,
  for the cursor and the recovery at any point; and all programs of up to three lines of
  well-formed and broken statements, ending with EOF, with a newline and EOF, or with a
  definition that took EOF with it. A statement depends on the line before it through its label
  or run of instructions only, so three lines show a label, what follows it, and what ends it.
- `MCDriver`: command lines of up to two arguments, and one argument around another; base names
  equal, sharing a stem, with and without a dot; every stage failing; an empty working directory,
  one with an earlier run's output, and one where a file has the directory's name.

- `MCLexer`: every text of up to four characters, one of each kind, as preprocessing returns it
  (EOF included): enough for any two classes to meet, for a reserved word or directive to be
  exceeded by one character, and for a quote or a sign at the end. Programs of up to three lines
  of a pool, for each initializer: strings over lines, comments with quotes, several faults.
- `MCSetCalculator`: every line of a heading and up to three pieces, with numbers next to each
  change of the automaton's answer; sessions of up to four lines of a pool that fill, combine
  and coincide. The array has 3 numbers and the line 12 characters, so that a legal line
  overflows the array and another is cut in two; three of the six sets, since a command names
  at most three.

The specifications that end do so by returning, and their configurations turn deadlock checking
off; `IdentifierHash`, which can always be called again, is checked for deadlock.

### Fairness

The program is sequential: once a function is entered nothing but itself can stop it from
running. `FairSpec` therefore has `WF_vars(Next)`, or `WF_vars(Probe)` for the hash table, where
a running call goes on but no caller is obliged to call again. Termination is checked for the
loops whose progress is not a counter: the probe, the two cursors of the preprocessor, the
parser, the lexer, and the set calculator, where every iteration depends on what `strtol` or a
look at the next character found. The loops of the analyzer, the generator and the driver count.

## 5. Theorems

TLAPS checks these for all values of the constants, under the named assumptions.

**`IdentifierHashProofs`** (any capacity, key set and hash function). `IInv` adds to the
properties what a running call knows: its start is the home slot, and every slot it has gone
past is taken by another key (`ProbedSlots`); and that cells are no more than insertions
(`CellsPaidFor`). Without the first, an insertion could store behind a hole and break the chain
it will later be looked up by; the second leaves a free slot at all times, so that no probe
comes back to its start. Proved: `TypeCorrect`, `ProbeChainsHold`, `KeysStayUnique`,
`InsertNeverFull`, `CellsStayPut` and `ImplementsSymbolTable`: initial states map to initial
states, every step to a step of `SymbolTable` or a stutter.

**`CodeGeneratorProofs`** (any set of analyzed units, of any number of labels and nodes).
`TypeInv` is `TypeOK` with a bound that keeps the header's counts natural. `LayoutInv` describes
the first pass as far as it has come (`FirstPass`: labels before the current are `Placed`, each
starting where the one before it ends), its result (`AllPlaced`) and the second pass in terms of
the same layout (`SecondPass`); the step of each pass rests on the lemmas `InstructionAgrees` and
`GuidanceAgrees`, that the size one pass adds is the number of words the other emits. `ImageInv`
says that the lines so far are an image of memory up to `position`, and where the instructions
end. Proved: `TypeCorrect`, `PassesAgree`, `PublishesPlaced`, `ImageContiguous`, `HeaderCorrect`.

The second part is the content of the files. The lines of the object file are appended in
groups, each beginning with a line that is no operand word, so that decoding what is there does
not change what was decoded before (`DecodesExtended`, `DecodeInv`). `ResolvedInv` says that every
operand word holds what its operand stands for, which stays true since no label moves once lines
are written; `AddressInv` that no line of a label lies below the label's address and one is at it;
`ListedInv` that the external file pairs with the words of external operands in their order,
and gives their addresses, by counting those before each; `EntriesInv` that the names marked, the names listed and the
entries declared by what was passed are the same. Proved: `ObjectIsProgram`, `ListsForLinker`.

**`SemanticAnalyzerProofs`** (any set of parsed units). `CountInv` compares the insertions with
the declarations read so far, which the code counts in one place and enters in three
(`InsertsFit`). For `Accepted`, `TableInv` says that the table holds exactly the declarations
passed, and `CleanInv` that as long as there is no error what was passed is in order; the
lemmas `ListsRead` and `NodesRead` say what a step passes. Neither part is inductive alone: that
a new label is distinct from those before follows from the table, and what an operand's cell
means from what was entered. Proved: `TypeCorrect`, `InsertsFit`, `Accepted`.

The second part of the module is `FaultsReported`. Where `Accepted` is about units without
errors, this is about all: that the error list is exactly the faults. Once there are faults the
table is no longer the declarations passed, so `CellsInv` says what remains true of it: a name it
knows is one declared by what was passed, and a name that is both a label and an external is a
label. `ModesAgree` is the lemma that the switch on the operation and the table of legal
addressing modes are one rule, and `ReportInv` that the errors so far are the faults of what was
passed. Proved: `ExactlyTheFaults`.

**`PreprocessorProofs`** (any set of texts the lexer makes, any names). The token list is
computed symbol by symbol: `InOrder` says that it holds exactly the places that are not blank, in
their order. `TypeInv` keeps both cursors in their lists and a macro in the text. `AccountInv` says
that each macro is delimited in the text as its definition must be (`Delimited`), that no two have
one name, and that up to the cursor of collection there are as many `macr` as macros and errors.
`PassInv` is about `preprocessor_process`: expansion starts at the EOF token, so that what it has
copied (`Copied`) is the text up to where it is, and only the EOF is treated by a case of its own.
`TakenInv` is about which definitions are macros: of those that start before the cursor of
collection, every macro is the first of its name, and every name has a macro (`Taken`). Both are
needed: the second is why a definition that is not a duplicate in the list is the first of the text.
`DefinitionAt` is the lemma that the tokens `create_macro` looks at are those of a definition.
Proved: `TypeCorrect`, `Accounted`, `Unexpanded`, `FirstDefinitionsTaken`.

**`LexerProofs`** (any alphabet and words, any texts). `IInv` says that the cursor is in the text
(`TextOK`), that every token is one the parser knows, or an error token with an error beside it
and that an EOF token is the last one, with nothing of the text behind it (`TokensFit`), that an
EOF the cursor has passed has become the last token (`EofTaken`), and what holds at each stage.
The ends of tokens are defined by the first place that does not belong to them; `LeastNumber`,
from the well-foundedness of the naturals, shows that there is one, because behind every text
stands a character that belongs to no token. Proved: `HandsOverTokenList`, `TypeCorrect`.
The rest is about what the tokens say of the text. Whether a quote opens a string, ends one or is
part of a comment depends on the whole text before it: `Mode`, a recursive function over the
text, is the reference for that, and `PlainAt` the invariant that at the start of each token the
text is in no string and, but for its newline, in no comment. `TokensInv` then says that the tokens
so far are true of the text (`TokenTrue`), lie in its order without overlap, and leave out exactly
what is to be skipped; `ErrorsInv` that the errors are the faults before the cursor, in their order;
`PlaceInv` that line and column are those of the cursor. Every action of the loop is shown to be one
`Step`, which takes a piece of the text with one token, one error, both or none, and one lemma
carries the invariant over a `Step`. `HandlerInv` relates the handler's copy to the text for the
reports. Proved: `SplitsText`, `ErrorsExact`, `ReportsTrue`.

**`ParserProofs`** (any set of token lists that satisfy `IsTokenList`). `NodesInv` and `ListsInv`
describe the nodes and lists built so far in terms of the tokens they came from; they hold
also after an error, of what was kept. `NodesInv` also says why no loop ends with
nothing: it has a node, or stands at a token that becomes one. `RecoveryInv` relates the cursor
to the errors: the line of the last error has been left, or no line comes after it and no loop
runs in which its end would be an error again. That the cursor is
never NULL where it is read rests on the EOF, or the `endmacr` after a newline, that ends every
list. The lemmas `NodeHandedOver` and `LabelHandedOver` carry one node over to `IsParsed`.
Proved: `TypeCorrect`, `ErrorsApart`, `UnitIsParsed`.
`AcceptsLanguage` speaks of whole lines, the code of one token at a time and of loops that go on over
lines. `LanguageInv` joins the two. As long as there is no error, every line behind the cursor is
`Sound`: legal but for what may still have to follow it. At the end nothing can follow, and for all
lines but a last label that waits `Sound` is then `IsLegal`. As soon as there is an error, some line is not
legal, which no step changes. `NoErrorInv` says for each loop what the cursor stands at: the start of
a line, the body of the line that was `Opened`, or a place in the numbers of `.data`, whose parity
decides between a number and a comma (`DataOpened`). Each action has its lemma (`Judge...`): it
either reads on in a line that is so far as it should be, or reports an error in a line that is of no
form (`Wrong`). What a form is in tokens is said by `InstructionAt`, `DataAt`, `StringAt` and
`DeclarationAt`, which relate the sets of sequences in the definition of the language to the places
the code looks at. Proved: `LanguageAccepted`.
`StatementsInPlace` is about what such a unit holds. The nodes of the lists are read as items, one for an
instruction, a string or a number of `.data`, each with its slot in the lists; the tokens that state
something are those of these types that are on no line of a macro, and no number of an operand.
`StatementsInv` says that, as long as there is no error, the items so far are exactly the statements
before the cursor (`PlacedTo`, where the nodes of the label being parsed are counted as if it were
linked already), and that the label being parsed is the one the next statement stands under
(`LabelInv`). It needs `NoErrorInv`, because only the form of a line says that the tokens an action
passes state what its node holds and nothing else: the parity in `DataOpened`, for one, excludes that a
number is taken for the operand of an instruction. Its other need is that no action passes a label of
another line (`NoLabelPassed`). Each action has its lemma again (`Place...`). Proved:
`StatementsPlaced`.

**`DriverProofs`** (any command line, programs and directory tree). `LiveInv` says which structures
the current iteration has initialized, stage by stage, and that those of earlier ones are gone
unless their directory was refused; `PassedInv` that a program beyond a stage does not fail there;
`ContentInv` that a file of this run is of a correct program of its output name; `WrittenInv` that
what a finished argument wrote is still there or replaced by a later one; `ListingsInv` which
programs have a listing of the preprocessor. Proved: `StructuresAreFreed`, `PublishedOnlyIfCorrect`, `DirectoriesApart`.

**`SetCalculatorProofs`** (any sessions, names and sizes with `LineSize <= 4 * ArraySize`). The
second scan of a `read_set` reads numbers wherever a separator is followed by something else and
checks none of them; that it never stores a number a set cannot have, and never one more than it
has moved on for, is what the first scan has to guarantee. `Validated` says what the automaton knows
in each of its states: where the command and the set's name are, and that every number it has gone
over is `Readable` (what `strtol` reads there is in range) and has `Ended` at a separator. The
difficulty is that the automaton does not go on to where `strtol` stopped, but by the number of
digits the value should have: `NumberTaken` shows that it never goes further (few digits make a
small number, `ValueBounded`), and `MayEnd` that if it stays behind, in the middle of a number with
leading zeros or a sign, it stands at no separator and must reject the line in its next state. At the
end of an accepted line this gives `Scannable`, which the second scan preserves as it goes; that it
does so although numbers beyond the array are stored over the line rests on `Room`, two symbols for
each number but the last, by which what is overwritten lies behind the scan (`StillScannable`).
Proved: `TypeCorrect`, `NumbersBehindScan`.
`AcceptsLanguage` says what a command is without any scan: by the words of a line, white space left
out, and, for the numbers of `read_set`, by what stands alone between one comma and another (`Alone`),
written as a number is (`Decimal`). `LangInv` says, for each state of the automaton, what the line
before the place must be (`Heard`): which words it has shown (`WordsRead`), and in a list that behind
each comma gone over a member stands alone (`Listed`), while behind the last one there is nothing yet,
or a number has been `Taken`: it is the first thing there, and what has been gone over of it is as it
is written, with only white space behind. Each action has its lemma (`...Lang`), which goes both ways.
If the action goes on, what it took is what `Heard` says next; if it accepts, the words are those of a
command. If it rejects, no command begins with these words and goes on with this symbol
(`NextOfWords`, `LangRejected`), or in a list the comma found is followed by no member and by no -1. The latter
needs that a line shows at most one number behind a comma, and that a number has one way to be written
(`Decimal` is one to one), so that what `strtol` read is the number the language would have there, or
there is none. Proved: `LanguageAccepted`.
`ExecutedAsWritten` is the other half: what the second scan makes of a line that was let pass. It
looks for numbers by separators, the line says them by commas. In a list the two agree: behind the
set's name, every place where the second scan would start to read (`Start`) holds the number of a
comma, the first thing behind it (`StartsInList`), and every number of the list is at such a place
(`NumberStarts`), so that what `Lists` says is what is read at the starts (`ListsRead`). `RunInv` says
how far a scan has come. The line from the place on is still as typed, whatever was stored over its
beginning; and the numbers collected are those of the starts gone past, as long as none was -1
(`Open`), or there is a -1 among them, with the numbers of the whole list before it (`Closed`). The
scan never passes a start (`NextStart`) and meets one that reads -1 (`LastRead`), so that at the end
of the line the numbers are closed, and `ReadSet`, which stops at the first -1, sets the bits of
the list and no other (`MembersRead`, `ListedMembers`). For the operations, the places where the
second scan finds names are those of the second, fourth and sixth word (`PlaceOfWord`,
`NameBehindComma`), and what is combined bit by bit is what the command means for sets of numbers
(`CombinedMembers`). All other steps say something else than that a command is done and leave the
sets alone (`Quiet`). Proved: `CommandsExecuted`.

Assumptions are those on constants: inputs satisfy the predicate of their stage, a name is no keyword
and no other symbol (`NameAssumption`), `NoName` is no name, letters, digits and the other
characters are different (`AlphabetAssumption`), reserved words are made of letters and digits
(`WordAssumption`), the hash is
a function to the naturals, and the line of the set calculator is no longer than its array.

Proofs by induction over a text use no theorem with an operator as its parameter: `Induction`
says it of a set of numbers, from the well-foundedness of the naturals, and `Recursion` that a
function with given first value and step exists, which is what the recursive functions of the
models (`f[p \in 0 .. n]`) are then shown to be.

Only model-checked: liveness (`CallReturns`, `Terminates`), which is beyond the prover.

## 6. Seen while modelling

Beyond the runs above, the reading and the models show the following.

The assembler:

- the positions in the entry file are 100 higher than those in the object file
  (`code_generator.c:153`);
- an operand holds the low 12 bits of a label's position, which may go up to 9999
  (`code_generator.c:471`);
- an address in the external file is one more than that of the operand word it speaks of
  (`code_generator.c:480`, the position has already moved past the instruction word);
  `ListingsComplete` states it as it is;
- when the code generator reports an error the output directory has already been made and stays;
- two arguments of one base name in different folders share an output directory
  (`main.c:89`), and base names are cut at the last dot, so `a.b` and `a.c` share the
  directory and files of `a`;
- a run that produces no entries or externals leaves those of an earlier run in place;
- the branch of the expansion that replaces a use never runs: its only caller leaves the cursor at
  EOF, whose string is no name;
- an `endmacr` right below the header of a definition is not taken as its end
  (`preprocessor.c:106`, the newline of the header has been passed): the macro is reported, or the
  text up to a later `endmacr` becomes its content;
- `.data` accepts a trailing comma when the file ends after it;
- the lexer stores the line number as a string token's index in its line (`lexer.c:291`), so
  the column and the pointer of the report on a string that does not end are wrong;
- `lexer_initialize_from_cstr` appends EOF after the handler has its copy: if the append moves
  the data (a text of 7, 15, 31, ... characters), the report reads memory that was given back.

The set calculator:

- a decimal point not followed by a digit is rejected without a message;
- leading zeros and a plus sign before a number are rejected as a missing comma;
- a line longer than the buffer is executed or rejected as two commands;
- the first loop of `main` writes a seventh pointer behind an array of six (`myset.c:50`). In the
  stack layout of the committed build it lies over the first number to be collected, which is
  written before it is read, and has no effect;
- numbers beyond the array overwrite the beginning of the line, always behind the scan
  (`ScanAheadOfNumbers`) and without effect, with that layout;
- the banner says to print the result of its example, which goes to SETD, with `print_set SETC`
  (`myset.c:75`);
- for `stop`, which names no set, the code still reads `sets[-1]` and `set_array[-1]` and steps
  past the end of the line (`myset.c:95-97`). It uses none of them, and `Stop` leaves them out;
- at the end of an empty input the uninitialized line is compared with `stop`.

## 7. Not modelled

- `string_util.c`: range and replace have no caller; substring is modelled where it is called, as
  the content of a macro. Growth is modelled where an
  append can move what another structure points to. Allocation failure exits the process.
- The functions that only release (`lexer_free`, the frees of the parser's lists): the driver
  models when a structure is freed, not how.
- Digits of numbers in the assembler: `atoi` is the number it returns, and what it leaves of a
  literal beyond `int` is not told apart.
- `Maman11` and `Maman12`: single pure functions over their arguments, each in a program of its
  own, without state or steps. Their hazards are listed in `PROJECT.json` without a property.
