---------------------------- MODULE DriverProofs ----------------------------
(***************************************************************************)
(* The driver's properties, for every command line, every program and      *)
(* every directory that is there before the run.                           *)
(***************************************************************************)
EXTENDS Driver, TLAPS

-----------------------------------------------------------------------------
(* The invariant *)

Writing == {"ext", "ent", "ob"}
Working == {"run", "directory", "free", "crashed"} \union Writing
Kept == {"none", "directory", "file"}

TypeInv ==
  /\ argv \in Seq(Path) /\ program \in [Path -> Program]
  /\ pc \in {"next", "end"} \union Working
  /\ arg \in 0 .. Len(argv) /\ stage \in 1 .. LastStage
  /\ pc \in Working => arg > 0
  /\ pc = "directory" => stage = LastStage - 1
  /\ pc \in Writing => stage = LastStage
  /\ pc = "end" => arg = Len(argv)
  /\ live \in [1 .. LastStage -> Nat]
  /\ dirs \in [Dirs -> Kept]
  /\ files \in [OutputFiles -> [Extensions -> Contents]]

\* The structures from the first of this iteration's to the last.
Begun ==
  CASE pc = "run" -> stage - 1
    [] pc \in {"directory", "free"} -> stage
    [] pc \in Writing \union {"crashed"} -> LastStage
    [] pc \in {"next", "end"} -> 0

\* Structures that have been begun are this iteration's, the others are free or
\* were left by an iteration whose directory mkdir refused.
LiveInv ==
  /\ \A s \in 1 .. Begun : live[s] = arg
  /\ \A s \in 1 .. LastStage : s > Begun => live[s] = 0 \/ live[s] \in refused

\* A stage is only begun when those before found nothing.
PassedInv ==
  /\ pc \in {"run", "directory"} \union Writing =>
       \A s \in 1 .. stage - 1 : CurrentProgram.fails \notin {Stages[s], "missing"}
  /\ pc = "directory" => CurrentProgram.fails # Stages[stage]
  /\ pc \in Writing => CurrentProgram.fails = "none"

Wants(p, x) == (x = "ext" => program[p].ext) /\ (x = "ent" => program[p].ent)

\* What lies in an output file of this run is of a correct program that has it.
ContentInv ==
  \A f \in OutputFiles, x \in Extensions :
    files[f][x] \in Path =>
      /\ OutputFile(files[f][x]) = f
      /\ program[files[f][x]].fails = "none" /\ Wants(files[f][x], x)
      /\ \E b \in 1 .. arg : argv[b] = files[f][x]

\* A file that was written is only replaced by that of a later argument.
Written(a, x) ==
  program[argv[a]].fails = "none" /\ a \notin unopened \union refused /\ Wants(argv[a], x) =>
    files[OutputFile(argv[a])][x] \in {argv[b] : b \in a .. arg}

Finished(a) == a < arg \/ (a = arg /\ pc \in {"next", "end", "free"})

WrittenInv ==
  /\ \A a \in 1 .. arg, x \in Extensions : Finished(a) => Written(a, x)
  /\ pc \in {"ent", "ob"} => Written(arg, "ext")
  /\ pc = "ob" => Written(arg, "ent")

ListingsInv ==
  /\ listings \subseteq Path
  /\ \A p \in listings :
       program[p].fails \notin {"missing", "lexer_preprocess", "preprocessor"}

IInv == TypeInv /\ LiveInv /\ PassedInv /\ ContentInv /\ WrittenInv /\ ListingsInv

-----------------------------------------------------------------------------
(* Steps *)

\* The path of the iteration and what is known of it.
LEMMA CurrentTyped ==
  ASSUME TypeInv, arg > 0
  PROVE  /\ arg \in 1 .. Len(argv) /\ Current \in Path /\ CurrentProgram \in Program
         /\ CurrentProgram \in ProgramType
         /\ OutputFile(Current) \in OutputFiles /\ OutputFile(Current).dir \in Dirs
         /\ OutputDir(Current.base) \in Dirs
<1>1. arg \in 1 .. Len(argv)
  BY DEF TypeInv
<1>2. Current \in Path
  BY <1>1 DEF TypeInv, Current
<1>3. CurrentProgram \in Program
  BY <1>2 DEF TypeInv, CurrentProgram
<1>4. OutputFile(Current).dir = OutputDir(Current.base)
  BY DEF OutputFile
<1>5. QED  BY <1>1, <1>2, <1>3, <1>4, ProgramAssumption, Zenon DEF OutputFiles, Dirs

\* Contents of no path are not the path of an argument.
LEMMA NoPath == Absent \notin Path /\ Earlier \notin Path
BY PathAssumption DEF Absent, Earlier

\* Initially nothing is live, written or published.
LEMMA InvariantInitially == Init => IInv
<1> SUFFICES ASSUME Init PROVE IInv
  OBVIOUS
<1>1. PICK e \in Existing : dirs = e.dirs /\ files = e.files
  BY DEF Init
<1>2. dirs \in [Dirs -> Kept] /\ files \in [OutputFiles -> [Extensions -> {Absent, Earlier}]]
  BY <1>1, ExistingAssumption DEF Kept
<1>3. /\ argv \in Seq(Path) /\ program \in [Path -> Program]
      /\ pc = "next" /\ arg = 0 /\ stage = 1 /\ live = [s \in 1 .. LastStage |-> 0]
      /\ listings = {} /\ unopened = {} /\ refused = {}
  BY CommandLinesAssumption DEF Init
<1>4. LastStage = 6
  BY DEF LastStage, Stages
<1>5. TypeInv
  BY <1>2, <1>3, <1>4 DEF TypeInv, Working, Writing, Contents
<1>6. LiveInv
  BY <1>3, <1>4 DEF LiveInv, Begun, Writing
<1>7. PassedInv
  BY <1>3 DEF PassedInv, Writing
<1>8. ContentInv
  BY <1>2, NoPath DEF ContentInv
<1>9. WrittenInv /\ ListingsInv
  BY <1>3 DEF WrittenInv, ListingsInv
<1>10. QED  BY <1>5, <1>6, <1>7, <1>8, <1>9 DEF IInv

\* What was found of the files stays true of them as the iterations go on.
LEMMA FilesKept ==
  ASSUME ContentInv, arg \in Nat, arg' \in Nat, arg <= arg',
         UNCHANGED <<argv, program, files>>
  PROVE  ContentInv'
<1> SUFFICES ASSUME NEW f \in OutputFiles, NEW x \in Extensions, files[f][x] \in Path
             PROVE  /\ OutputFile(files[f][x]) = f
                    /\ program[files[f][x]].fails = "none" /\ Wants(files[f][x], x)'
                    /\ \E b \in 1 .. arg' : argv[b] = files[f][x]
  BY DEF ContentInv
<1>1. /\ OutputFile(files[f][x]) = f
      /\ program[files[f][x]].fails = "none" /\ Wants(files[f][x], x)
  BY DEF ContentInv
<1>2. PICK b \in 1 .. arg : argv[b] = files[f][x]
  BY DEF ContentInv
<1>3. b \in 1 .. arg'
  OBVIOUS
<1>4. Wants(files[f][x], x)'
  BY <1>1 DEF Wants
<1>5. QED  BY <1>1, <1>2, <1>3, <1>4

\* An argument that was finished stays so, and its files are still there.
LEMMA FinishedKept ==
  ASSUME WrittenInv, arg \in Nat, arg' \in Nat, arg <= arg',
         UNCHANGED <<argv, program, files>>,
         unopened \subseteq unopened', refused \subseteq refused',
         NEW a \in 1 .. arg, NEW x \in Extensions, Finished(a)
  PROVE  Written(a, x)'
<1>1. Written(a, x)
  BY DEF WrittenInv
<1> SUFFICES ASSUME program[argv[a]].fails = "none", a \notin unopened' \union refused',
                    Wants(argv[a], x)'
             PROVE  files[OutputFile(argv[a])][x] \in {argv[b] : b \in a .. arg'}
  BY DEF Written
<1>2. Wants(argv[a], x)
  BY DEF Wants
<1>3. PICK b \in a .. arg : files[OutputFile(argv[a])][x] = argv[b]
  BY <1>1, <1>2 DEF Written
<1>4. b \in a .. arg'
  OBVIOUS
<1>5. QED  BY <1>3, <1>4

\* Only the last argument may not be finished.
LEMMA Unfinished ==
  ASSUME arg \in Nat, NEW a \in 1 .. arg, pc \in {"next", "end", "free"} \/ a # arg
  PROVE  Finished(a)
BY DEF Finished

\* The head of the loop.
LEMMA StepOfNextFile ==
  ASSUME IInv, NextFile
  PROVE  IInv'
<1>1. /\ pc = "next" /\ arg \in Nat /\ Len(argv) \in Nat /\ LastStage = 6
      /\ UNCHANGED <<argv, program, live, dirs, files, listings, unopened, refused>>
      /\ \/ arg < Len(argv) /\ arg' = arg + 1 /\ stage' = 1 /\ pc' = "run"
         \/ ~(arg < Len(argv)) /\ arg' = arg /\ stage' = stage /\ pc' = "end"
  BY DEF NextFile, IInv, TypeInv, LastStage, Stages
<1>2. TypeInv'
  BY <1>1 DEF IInv, TypeInv, Working, Writing
<1>3. LiveInv'
  BY <1>1 DEF IInv, LiveInv, Begun, Writing
<1>4. PassedInv'
  BY <1>1 DEF PassedInv, Writing
<1>5. ContentInv'
  BY <1>1, FilesKept DEF IInv
<1>6. WrittenInv'
  <2>1. ASSUME NEW a \in 1 .. arg', NEW x \in Extensions, Finished(a)'
        PROVE  Written(a, x)'
    <3>1. a \in 1 .. arg
      BY <1>1, <2>1 DEF Finished
    <3>2. QED  BY <1>1, <3>1, Unfinished, FinishedKept DEF IInv
  <2>2. QED  BY <1>1, <2>1 DEF WrittenInv
<1>7. ListingsInv'
  BY <1>1 DEF IInv, ListingsInv
<1>8. QED  BY <1>2, <1>3, <1>4, <1>5, <1>6, <1>7 DEF IInv

\* A step within an iteration that writes no output file.
LEMMA StepWithoutFile ==
  ASSUME IInv, arg > 0, UNCHANGED <<argv, program, arg, files>>,
         unopened \subseteq unopened', refused \subseteq refused',
         pc \notin {"next", "end", "free"} \union Writing,
         pc' \notin {"ent", "ob", "end"},
         pc' \in {"next", "free"} => Written(arg, "ext")' /\ Written(arg, "ent")'
                                       /\ Written(arg, "ob")'
  PROVE  ContentInv' /\ WrittenInv'
<1>1. arg \in Nat
  BY DEF IInv, TypeInv
<1>2. ContentInv'
  BY <1>1, FilesKept DEF IInv
<1>3. ASSUME NEW a \in 1 .. arg', NEW x \in Extensions, Finished(a)'
      PROVE  Written(a, x)'
  <2>1. CASE a = arg
    <3>1. pc' \in {"next", "free"}
      BY <1>1, <1>3, <2>1 DEF Finished
    <3>2. x \in {"ext", "ent", "ob"}
      BY DEF Extensions
    <3>3. QED  BY <2>1, <3>1, <3>2
  <2>2. CASE a # arg
    <3>1. a \in 1 .. arg /\ Finished(a)
      BY <1>1, <2>2, Unfinished
    <3>2. QED  BY <1>1, <3>1, FinishedKept DEF IInv
  <2>3. QED  BY <2>1, <2>2
<1>4. QED  BY <1>2, <1>3 DEF WrittenInv

\* Stages with an error list: an error ends the iteration, and the program is not
\* a correct one.
LEMMA StepOfStage ==
  ASSUME IInv, RunStage
  PROVE  IInv'
<1>1. /\ pc = "run" /\ stage \in 1 .. 5 /\ LastStage = 6 /\ arg > 0 /\ arg \in Nat
      /\ UNCHANGED <<argv, program, arg, dirs, files, unopened, refused>>
      /\ live' = [live EXCEPT ![stage] = arg]
      /\ live \in [1 .. 6 -> Nat]
  BY DEF RunStage, IInv, TypeInv, LastStage, Stages
<1>2. \/ /\ CurrentProgram.fails \in {Stages[stage], "missing"}
         /\ pc' = "free" /\ UNCHANGED <<stage, listings>>
      \/ /\ CurrentProgram.fails \notin {Stages[stage], "missing"}
         /\ stage = 5 /\ pc' = "directory" /\ stage' = stage
      \/ /\ CurrentProgram.fails \notin {Stages[stage], "missing"}
         /\ stage < 5 /\ pc' = "run" /\ stage' = stage + 1
  BY <1>1 DEF RunStage
<1>3. /\ listings \subseteq listings' /\ listings' \subseteq listings \union {Current}
      /\ Current \in listings' \ listings =>
           /\ Stages[stage] = "preprocessor"
           /\ CurrentProgram.fails \notin {Stages[stage], "missing"}
  BY <1>1 DEF RunStage
<1>4. Current \in Path /\ CurrentProgram \in ProgramType
  BY <1>1, CurrentTyped DEF IInv
<1>5. \A s \in 1 .. 6 : Stages[s] # "none" /\ Stages[s] # "missing"
  BY DEF Stages
<1>6. TypeInv'
  BY <1>1, <1>2 DEF IInv, TypeInv, Working, Writing
<1>7. LiveInv'
  BY <1>1, <1>2 DEF IInv, LiveInv, Begun, Writing
<1>8. PassedInv'
  <2>1. CurrentProgram' = CurrentProgram
    BY <1>1 DEF CurrentProgram, Current
  <2>2. \A s \in 1 .. stage - 1 : CurrentProgram.fails \notin {Stages[s], "missing"}
    BY <1>1 DEF IInv, PassedInv
  <2>3. QED  BY <1>1, <1>2, <2>1, <2>2 DEF PassedInv, Writing
<1>9. pc' = "free" => CurrentProgram.fails # "none"
  BY <1>1, <1>2, <1>5
<1>10. ASSUME NEW x, pc' = "free" PROVE Written(arg, x)'
  BY <1>1, <1>9, <1>10 DEF Written, CurrentProgram, Current
<1>11. ContentInv' /\ WrittenInv'
  BY <1>1, <1>2, <1>10, StepWithoutFile DEF Writing
<1>12. ListingsInv'
  <2>1. Current \in listings' \ listings =>
          CurrentProgram.fails \notin {"missing", "lexer_preprocess", "preprocessor"}
    <3>1. Stages[stage] = "preprocessor" => stage = 2
      BY <1>1 DEF Stages
    <3>2. stage = 2 => CurrentProgram.fails # Stages[1]
      BY <1>1 DEF IInv, PassedInv
    <3>3. Stages[1] = "lexer_preprocess"
      BY DEF Stages
    <3>4. QED  BY <1>3, <3>1, <3>2, <3>3
  <2>2. QED  BY <1>1, <1>3, <1>4, <2>1 DEF IInv, ListingsInv, CurrentProgram
<1>13. QED  BY <1>6, <1>7, <1>8, <1>11, <1>12 DEF IInv

\* The directory: refused, it ends the iteration with everything live.
LEMMA StepOfDirectory ==
  ASSUME IInv, MakeDirectory
  PROVE  IInv'
<1>1. /\ pc = "directory" /\ stage = 5 /\ LastStage = 6 /\ arg > 0 /\ arg \in Nat
      /\ UNCHANGED <<argv, program, arg, live, files, listings>>
      /\ \/ pc' = "run" /\ stage' = 6 /\ UNCHANGED <<unopened, refused>>
         \/ pc' = "next" /\ stage' = stage /\ refused' = refused \union {arg}
            /\ UNCHANGED unopened
  BY DEF MakeDirectory, IInv, TypeInv, LastStage, Stages
<1>2. dirs' \in [Dirs -> Kept]
  <2>1. dirs \in [Dirs -> Kept]
    BY DEF IInv, TypeInv
  <2>2. \/ dirs' = [dirs EXCEPT ![OutputDir(Current.base)] =
                      IF @ = "none" THEN "directory" ELSE @]
        \/ dirs' = dirs
    BY DEF MakeDirectory
  <2>3. QED  BY <2>1, <2>2 DEF Kept
<1>3. TypeInv'
  BY <1>1, <1>2 DEF IInv, TypeInv, Working, Writing
<1>4. LiveInv'
  BY <1>1 DEF IInv, LiveInv, Begun, Writing
<1>5. PassedInv'
  <2>1. CurrentProgram' = CurrentProgram
    BY <1>1 DEF CurrentProgram, Current
  <2>2. \A s \in 1 .. 5 : CurrentProgram.fails \notin {Stages[s], "missing"}
    BY <1>1 DEF IInv, PassedInv
  <2>3. QED  BY <1>1, <2>1, <2>2 DEF PassedInv, Writing
<1>6. ASSUME NEW x, pc' = "next" PROVE Written(arg, x)'
  BY <1>1, <1>6 DEF Written
<1>7. ContentInv' /\ WrittenInv'
  BY <1>1, <1>6, StepWithoutFile DEF Writing
<1>8. ListingsInv'
  BY <1>1 DEF IInv, ListingsInv
<1>9. QED  BY <1>3, <1>4, <1>5, <1>7, <1>8 DEF IInv

\* The generator: what it publishes has passed every stage.
LEMMA StepOfGenerator ==
  ASSUME IInv, RunGenerator
  PROVE  IInv'
<1>1. /\ pc = "run" /\ stage = 6 /\ LastStage = 6 /\ arg > 0 /\ arg \in Nat
      /\ UNCHANGED <<argv, program, arg, stage, dirs, files, listings, unopened, refused>>
      /\ live' = [live EXCEPT ![6] = arg] /\ live \in [1 .. 6 -> Nat]
  BY DEF RunGenerator, IInv, TypeInv, LastStage, Stages
<1>2. \/ CurrentProgram.fails = "crash" /\ pc' = "crashed"
      \/ CurrentProgram.fails = "generator" /\ pc' = "free"
      \/ CurrentProgram.fails \notin {"crash", "generator"} /\ pc' = "ext"
  BY DEF RunGenerator
<1>3. \A s \in 1 .. 5 : CurrentProgram.fails \notin {Stages[s], "missing"}
  BY <1>1 DEF IInv, PassedInv
<1>4. CurrentProgram \in ProgramType
  BY <1>1, CurrentTyped DEF IInv
<1>5. pc' = "ext" => CurrentProgram.fails = "none"
  <2>1. CurrentProgram.fails \in {Stages[s] : s \in 1 .. 6} \union {"missing", "crash", "none"}
    BY <1>1, <1>4 DEF ProgramType
  <2>2. Stages[6] = "generator"
    BY DEF Stages
  <2>3. QED  BY <1>2, <1>3, <2>1, <2>2
<1>6. TypeInv'
  BY <1>1, <1>2 DEF IInv, TypeInv, Working, Writing
<1>7. LiveInv'
  BY <1>1, <1>2 DEF IInv, LiveInv, Begun, Writing
<1>8. PassedInv'
  <2>1. CurrentProgram' = CurrentProgram
    BY <1>1 DEF CurrentProgram, Current
  <2>2. QED  BY <1>1, <1>2, <1>3, <1>5, <2>1 DEF PassedInv, Writing
<1>9. ASSUME NEW x, pc' = "free" PROVE Written(arg, x)'
  BY <1>1, <1>2, <1>9 DEF Written, CurrentProgram, Current
<1>10. ContentInv' /\ WrittenInv'
  BY <1>1, <1>2, <1>9, StepWithoutFile DEF Writing
<1>11. ListingsInv'
  BY <1>1 DEF IInv, ListingsInv
<1>12. QED  BY <1>6, <1>7, <1>8, <1>10, <1>11 DEF IInv

\* Storing in a file changes that file and nothing else.
LEMMA FileStored ==
  ASSUME files \in [OutputFiles -> [Extensions -> Contents]],
         NEW f \in OutputFiles, NEW x \in Extensions, NEW p \in Contents,
         files' = [files EXCEPT ![f][x] = p]
  PROVE  /\ files' \in [OutputFiles -> [Extensions -> Contents]]
         /\ \A g \in OutputFiles, y \in Extensions :
              files'[g][y] = IF g = f /\ y = x THEN p ELSE files[g][y]
<1> DEFINE h == [files[f] EXCEPT ![x] = p]
<1>1. h \in [Extensions -> Contents] /\ \A y \in Extensions : h[y] = IF y = x THEN p ELSE files[f][y]
  OBVIOUS
<1>2. files' = [files EXCEPT ![f] = h]
  OBVIOUS
<1> HIDE DEF h
<1>3. QED  BY <1>1, <1>2

\* A file is written with this argument's contents, not opened, or not wanted.
\* Either way what lies in the files is in order, and the file of this argument
\* is dealt with.
LEMMA StepOfFile ==
  ASSUME IInv, NEW x \in Extensions, NEW content \in BOOLEAN, NEW next,
         WriteFile(x, content, next), content <=> Wants(Current, x)
  PROVE  /\ ContentInv' /\ Written(arg, x)'
         /\ \A a \in 1 .. arg, y \in Extensions : Written(a, y) => Written(a, y)'
         /\ files' \in [OutputFiles -> [Extensions -> Contents]]
<1> DEFINE f == OutputFile(Current)
<1>1. /\ pc = x /\ UNCHANGED <<argv, program, arg, refused>> /\ arg > 0 /\ arg \in Nat
      /\ x \in {"ext", "ent", "ob"}
  BY DEF WriteFile, IInv, TypeInv, Writing, Working, Extensions
<1>2. \/ content /\ files' = [files EXCEPT ![f][x] = Current] /\ UNCHANGED unopened
      \/ files' = files /\ unopened' = unopened \union {arg}
      \/ ~content /\ files' = files /\ UNCHANGED unopened
  BY DEF WriteFile
<1>3. /\ f \in OutputFiles /\ Current \in Path /\ arg \in 1 .. Len(argv)
      /\ files \in [OutputFiles -> [Extensions -> Contents]]
  BY <1>1, CurrentTyped DEF IInv, TypeInv
<1>4. program[Current].fails = "none" /\ Current = argv[arg] /\ Current \in Contents
  BY <1>1, <1>3 DEF IInv, PassedInv, Writing, CurrentProgram, Current, Contents
<1>5. f = OutputFile(argv[arg]) /\ f = OutputFile(Current)
  BY <1>4
<1> HIDE DEF f
<1>7. /\ files' \in [OutputFiles -> [Extensions -> Contents]]
      /\ \A g \in OutputFiles, y \in Extensions :
           files'[g][y] = files[g][y]
             \/ (g = f /\ y = x /\ content /\ files'[g][y] = Current)
      /\ content /\ arg \notin unopened' => files'[f][x] = Current
      /\ unopened \subseteq unopened'
  <2>1. CASE content /\ files' = [files EXCEPT ![f][x] = Current] /\ UNCHANGED unopened
    <3>1. /\ files' \in [OutputFiles -> [Extensions -> Contents]]
          /\ \A g \in OutputFiles, y \in Extensions :
               files'[g][y] = IF g = f /\ y = x THEN Current ELSE files[g][y]
      BY <1>3, <1>4, <2>1, FileStored
    <3>2. QED  BY <1>3, <2>1, <3>1, Zenon
  <2>2. CASE files' = files /\ unopened' = unopened \union {arg}
    BY <1>3, <2>2, Zenon
  <2>3. CASE ~content /\ files' = files /\ UNCHANGED unopened
    BY <1>3, <2>3, Zenon
  <2>4. QED  BY <1>2, <2>1, <2>2, <2>3, Zenon
<1>8. \A p, y : Wants(p, y)' <=> Wants(p, y)
  BY <1>1 DEF Wants
<1>9. ContentInv'
  <2>1. ASSUME NEW g \in OutputFiles, NEW y \in Extensions, files'[g][y] \in Path
        PROVE  /\ OutputFile(files'[g][y]) = g
               /\ program[files'[g][y]].fails = "none" /\ Wants(files'[g][y], y)
               /\ \E b \in 1 .. arg : argv[b] = files'[g][y]
    <3>1. CASE files'[g][y] = files[g][y]
      <4>1. files[g][y] \in Path
        BY <2>1, <3>1
      <4>2. /\ OutputFile(files[g][y]) = g
            /\ program[files[g][y]].fails = "none" /\ Wants(files[g][y], y)
            /\ \E b \in 1 .. arg : argv[b] = files[g][y]
        BY <4>1 DEF IInv, ContentInv
      <4>3. QED  BY <3>1, <4>2, Zenon
    <3>2. CASE g = f /\ y = x /\ content /\ files'[g][y] = Current
      <4>1. arg \in 1 .. arg
        BY <1>1
      <4>2. Wants(Current, x)
        BY <3>2
      <4>3. QED  BY <1>4, <1>5, <3>2, <4>1, <4>2, Zenon
    <3>3. QED  BY <1>7, <2>1, <3>1, <3>2, Zenon
  <2>2. ASSUME NEW g \in OutputFiles, NEW y \in Extensions, files'[g][y] \in Path
        PROVE  /\ OutputFile(files'[g][y]) = g
               /\ program'[files'[g][y]].fails = "none" /\ Wants(files[g][y], y)'
               /\ \E b \in 1 .. arg' : argv'[b] = files'[g][y]
    <3>1. /\ OutputFile(files'[g][y]) = g
          /\ program[files'[g][y]].fails = "none" /\ Wants(files'[g][y], y)
          /\ \E b \in 1 .. arg : argv[b] = files'[g][y]
      BY <2>1, <2>2, Zenon
    <3>2. Wants(files[g][y], y)'
      BY <1>1, <3>1 DEF Wants
    <3>3. QED  BY <1>1, <3>1, <3>2
  <2>3. QED  BY <2>2 DEF ContentInv
<1>10. arg \in arg .. arg
  BY <1>1
<1>11. Written(arg, x)'
  <2>1. ASSUME arg \notin unopened', Wants(argv[arg], x)
        PROVE  files'[OutputFile(argv[arg])][x] \in {argv[b] : b \in arg .. arg}
    <3>1. content
      BY <1>4, <2>1
    <3>2. files'[f][x] = argv[arg]
      BY <1>4, <1>7, <2>1, <3>1
    <3>3. QED  BY <1>5, <1>10, <3>2
  <2>2. QED  BY <1>1, <1>8, <2>1 DEF Written
<1>12. ASSUME NEW a \in 1 .. arg, NEW y \in Extensions, Written(a, y) PROVE Written(a, y)'
  <2>1. ASSUME program[argv[a]].fails = "none", a \notin unopened' \union refused,
               Wants(argv[a], y)
        PROVE  files'[OutputFile(argv[a])][y] \in {argv[b] : b \in a .. arg}
    <3>1. argv[a] \in Path /\ arg \in a .. arg
      BY <1>1, <1>3 DEF IInv, TypeInv
    <3>2. OutputFile(argv[a]) \in OutputFiles
      BY <3>1 DEF OutputFiles
    <3>3. files[OutputFile(argv[a])][y] \in {argv[b] : b \in a .. arg}
      BY <1>7, <1>12, <2>1 DEF Written
    <3>4. Current \in {argv[b] : b \in a .. arg}
      BY <1>4, <3>1
    <3>5. QED  BY <1>7, <3>2, <3>3, <3>4, Zenon
  <2>2. QED  BY <1>1, <1>8, <2>1 DEF Written
<1>13. QED  BY <1>7, <1>9, <1>11, <1>12

\* What a file leaves alone; it is followed by the next one, or by the frees.
LEMMA WriteLeaves ==
  ASSUME IInv, NEW x \in Extensions, NEW content \in BOOLEAN, NEW next,
         WriteFile(x, content, next), next \in {"ent", "ob", "free"},
         files' \in [OutputFiles -> [Extensions -> Contents]]
  PROVE  TypeInv' /\ LiveInv' /\ PassedInv' /\ ListingsInv'
<1>1. /\ pc = x /\ pc' = next /\ x \in Writing /\ stage = 6 /\ LastStage = 6
      /\ UNCHANGED <<argv, program, arg, stage, live, dirs, listings, refused>>
      /\ arg > 0 /\ arg \in Nat
  BY DEF WriteFile, IInv, TypeInv, Writing, Working, Extensions, LastStage, Stages
<1>2. TypeInv'
  BY <1>1 DEF IInv, TypeInv, Working, Writing
<1>3. LiveInv'
  BY <1>1 DEF IInv, LiveInv, Begun, Writing
<1>4. PassedInv'
  <2>1. CurrentProgram' = CurrentProgram
    BY <1>1 DEF CurrentProgram, Current
  <2>2. QED  BY <1>1, <2>1 DEF IInv, PassedInv, Writing
<1>5. ListingsInv'
  BY <1>1 DEF IInv, ListingsInv
<1>6. QED  BY <1>2, <1>3, <1>4, <1>5

\* What is wanted of the current program is what WriteFile is told.
LEMMA WantsOfCurrent ==
  ASSUME IInv, arg > 0
  PROVE  /\ CurrentProgram.ext \in BOOLEAN /\ CurrentProgram.ent \in BOOLEAN
         /\ CurrentProgram.ext <=> Wants(Current, "ext")
         /\ CurrentProgram.ent <=> Wants(Current, "ent")
         /\ TRUE <=> Wants(Current, "ob")
<1>1. CurrentProgram \in ProgramType
  BY CurrentTyped DEF IInv
<1>2. QED  BY <1>1 DEF ProgramType, Wants, CurrentProgram

\* The arguments before the current one are finished and stay so.
LEMMA StepOfWriteExternals ==
  ASSUME IInv, WriteExternals
  PROVE  IInv'
<1>1. /\ pc = "ext" /\ pc' = "ent" /\ arg > 0 /\ arg \in Nat /\ arg' = arg
      /\ "ext" \in Extensions
  BY DEF WriteExternals, WriteFile, IInv, TypeInv, Writing, Working, Extensions
<1>2. /\ CurrentProgram.ext \in BOOLEAN /\ (CurrentProgram.ext <=> Wants(Current, "ext"))
      /\ WriteFile("ext", CurrentProgram.ext, "ent")
  BY <1>1, WantsOfCurrent DEF WriteExternals
<1>3. /\ ContentInv' /\ Written(arg, "ext")'
      /\ \A a \in 1 .. arg, y \in Extensions : Written(a, y) => Written(a, y)'
      /\ files' \in [OutputFiles -> [Extensions -> Contents]]
  BY <1>1, <1>2, StepOfFile
<1>4. TypeInv' /\ LiveInv' /\ PassedInv' /\ ListingsInv'
  BY <1>1, <1>2, <1>3, WriteLeaves
<1>5. WrittenInv'
  <2>1. ASSUME NEW a \in 1 .. arg', NEW y \in Extensions, Finished(a)' PROVE Written(a, y)'
    <3>1. a \in 1 .. arg /\ a # arg
      BY <1>1, <2>1 DEF Finished
    <3>2. Written(a, y)
      BY <1>1, <3>1, Unfinished DEF IInv, WrittenInv
    <3>3. QED  BY <1>3, <3>1, <3>2
  <2>2. Written(arg, "ext")' /\ pc' # "ob"
    BY <1>1, <1>3
  <2>3. QED  BY <2>1, <2>2 DEF WrittenInv
<1>6. QED  BY <1>3, <1>4, <1>5 DEF IInv

LEMMA StepOfWriteEntries ==
  ASSUME IInv, WriteEntries
  PROVE  IInv'
<1>1. /\ pc = "ent" /\ pc' = "ob" /\ arg > 0 /\ arg \in Nat /\ arg' = arg
      /\ "ext" \in Extensions /\ "ent" \in Extensions
  BY DEF WriteEntries, WriteFile, IInv, TypeInv, Writing, Working, Extensions
<1>2. /\ CurrentProgram.ent \in BOOLEAN /\ (CurrentProgram.ent <=> Wants(Current, "ent"))
      /\ WriteFile("ent", CurrentProgram.ent, "ob")
  BY <1>1, WantsOfCurrent DEF WriteEntries
<1>3. /\ ContentInv' /\ Written(arg, "ent")'
      /\ \A a \in 1 .. arg, y \in Extensions : Written(a, y) => Written(a, y)'
      /\ files' \in [OutputFiles -> [Extensions -> Contents]]
  BY <1>1, <1>2, StepOfFile
<1>4. TypeInv' /\ LiveInv' /\ PassedInv' /\ ListingsInv'
  BY <1>1, <1>2, <1>3, WriteLeaves
<1>5. WrittenInv'
  <2>1. ASSUME NEW a \in 1 .. arg', NEW y \in Extensions, Finished(a)' PROVE Written(a, y)'
    <3>1. a \in 1 .. arg /\ a # arg
      BY <1>1, <2>1 DEF Finished
    <3>2. Written(a, y)
      BY <1>1, <3>1, Unfinished DEF IInv, WrittenInv
    <3>3. QED  BY <1>3, <3>1, <3>2
  <2>2. arg \in 1 .. arg /\ Written(arg, "ext")
    BY <1>1 DEF IInv, WrittenInv
  <2>3. Written(arg, "ext")'
    BY <1>1, <1>3, <2>2
  <2>4. QED  BY <1>3, <2>1, <2>3 DEF WrittenInv
<1>6. QED  BY <1>3, <1>4, <1>5 DEF IInv

LEMMA StepOfWriteObject ==
  ASSUME IInv, WriteObject
  PROVE  IInv'
<1>1. /\ pc = "ob" /\ pc' = "free" /\ arg > 0 /\ arg \in Nat /\ arg' = arg
      /\ "ext" \in Extensions /\ "ent" \in Extensions /\ "ob" \in Extensions
  BY DEF WriteObject, WriteFile, IInv, TypeInv, Writing, Working, Extensions
<1>2. TRUE \in BOOLEAN /\ (TRUE <=> Wants(Current, "ob")) /\ WriteFile("ob", TRUE, "free")
  BY <1>1, WantsOfCurrent DEF WriteObject
<1>3. /\ ContentInv' /\ Written(arg, "ob")'
      /\ \A a \in 1 .. arg, y \in Extensions : Written(a, y) => Written(a, y)'
      /\ files' \in [OutputFiles -> [Extensions -> Contents]]
  BY <1>1, <1>2, StepOfFile
<1>4. TypeInv' /\ LiveInv' /\ PassedInv' /\ ListingsInv'
  BY <1>1, <1>2, <1>3, WriteLeaves
<1>5. arg \in 1 .. arg /\ Written(arg, "ext") /\ Written(arg, "ent")
  BY <1>1 DEF IInv, WrittenInv
<1>6. Written(arg, "ext")' /\ Written(arg, "ent")'
  BY <1>1, <1>3, <1>5
<1>7. WrittenInv'
  <2>1. ASSUME NEW a \in 1 .. arg', NEW y \in Extensions, Finished(a)' PROVE Written(a, y)'
    <3>1. CASE a = arg
      <4>1. y = "ext" \/ y = "ent" \/ y = "ob"
        BY DEF Extensions
      <4>2. CASE y = "ext"
        BY <1>1, <1>6, <3>1, <4>2
      <4>3. CASE y = "ent"
        BY <1>1, <1>6, <3>1, <4>3
      <4>4. CASE y = "ob"
        BY <1>1, <1>3, <3>1, <4>4
      <4>5. QED  BY <4>1, <4>2, <4>3, <4>4
    <3>2. CASE a # arg
      <4>1. a \in 1 .. arg
        BY <1>1
      <4>2. Written(a, y)
        BY <1>1, <3>2, <4>1, Unfinished DEF IInv, WrittenInv
      <4>3. QED  BY <1>3, <4>1, <4>2
    <3>3. QED  BY <3>1, <3>2
  <2>2. pc' # "ent" /\ pc' # "ob"
    BY <1>1
  <2>3. QED  BY <2>1, <2>2 DEF WrittenInv
<1>8. QED  BY <1>3, <1>4, <1>7 DEF IInv

\* The frees go back over exactly what was begun.
LEMMA StepOfFree ==
  ASSUME IInv, FreeStage
  PROVE  IInv'
<1>1. /\ pc = "free" /\ stage \in 1 .. 6 /\ LastStage = 6 /\ arg > 0 /\ arg \in Nat
      /\ UNCHANGED <<argv, program, arg, dirs, files, listings, unopened, refused>>
      /\ live' = [live EXCEPT ![stage] = 0] /\ live \in [1 .. 6 -> Nat]
      /\ \/ stage = 1 /\ pc' = "next" /\ stage' = stage
         \/ stage # 1 /\ pc' = "free" /\ stage' = stage - 1
  BY DEF FreeStage, IInv, TypeInv, LastStage, Stages, Working, Writing
<1>2. TypeInv'
  BY <1>1 DEF IInv, TypeInv, Working, Writing
<1>3. LiveInv'
  BY <1>1 DEF IInv, LiveInv, Begun, Writing
<1>4. PassedInv'
  BY <1>1 DEF PassedInv, Writing
<1>5. ContentInv'
  BY <1>1, FilesKept DEF IInv
<1>6. WrittenInv'
  <2>1. ASSUME NEW a \in 1 .. arg', NEW x \in Extensions, Finished(a)' PROVE Written(a, x)'
    <3>1. a \in 1 .. arg
      BY <1>1
    <3>2. Finished(a)
      BY <1>1, <3>1, Unfinished
    <3>3. QED  BY <1>1, <3>1, <3>2, FinishedKept DEF IInv
  <2>2. QED  BY <1>1, <2>1 DEF WrittenInv
<1>7. ListingsInv'
  BY <1>1 DEF IInv, ListingsInv
<1>8. QED  BY <1>2, <1>3, <1>4, <1>5, <1>6, <1>7 DEF IInv

LEMMA InvariantKept == IInv /\ [Next]_vars => IInv'
<1> SUFFICES ASSUME IInv, [Next]_vars PROVE IInv'
  OBVIOUS
<1>1. CASE NextFile
  BY <1>1, StepOfNextFile
<1>2. CASE RunStage
  BY <1>2, StepOfStage
<1>3. CASE MakeDirectory
  BY <1>3, StepOfDirectory
<1>4. CASE RunGenerator
  BY <1>4, StepOfGenerator
<1>5. CASE WriteExternals
  BY <1>5, StepOfWriteExternals
<1>6. CASE WriteEntries
  BY <1>6, StepOfWriteEntries
<1>7. CASE WriteObject
  BY <1>7, StepOfWriteObject
<1>8. CASE FreeStage
  BY <1>8, StepOfFree
<1>9. CASE UNCHANGED vars
  <2>1. UNCHANGED <<argv, program, pc, arg, stage, live, dirs, files, listings, unopened, refused>>
    BY <1>9 DEF vars
  <2>2. TypeInv'
    BY <2>1 DEF IInv, TypeInv
  <2>3. LiveInv'
    BY <2>1 DEF IInv, LiveInv, Begun
  <2>4. PassedInv'
    BY <2>1 DEF IInv, PassedInv, CurrentProgram, Current
  <2>5. ContentInv'
    BY <2>1, FilesKept DEF IInv, TypeInv
  <2>6. WrittenInv'
    <3>1. ASSUME NEW a, NEW x PROVE Written(a, x)' <=> Written(a, x)
      <4>1. Wants(argv[a], x)' <=> Wants(argv[a], x)
        BY <2>1 DEF Wants
      <4>2. QED  BY <2>1, <4>1 DEF Written
    <3>2. ASSUME NEW a PROVE Finished(a)' <=> Finished(a)
      BY <2>1 DEF Finished
    <3>3. /\ Written(arg, "ext")' <=> Written(arg, "ext")
          /\ Written(arg, "ent")' <=> Written(arg, "ent")
      BY <2>1 DEF Written, Wants
    <3>4. QED  BY <2>1, <3>1, <3>2, <3>3 DEF IInv, WrittenInv
  <2>7. ListingsInv'
    BY <2>1 DEF IInv, ListingsInv
  <2>8. QED  BY <2>2, <2>3, <2>4, <2>5, <2>6, <2>7 DEF IInv
<1>10. QED
  BY <1>1, <1>2, <1>3, <1>4, <1>5, <1>6, <1>7, <1>8, <1>9 DEF Next

-----------------------------------------------------------------------------
(* What the invariant gives *)

LEMMA LiveStructures == IInv => StructuresFreed
<1> SUFFICES ASSUME IInv PROVE StructuresFreed
  OBVIOUS
<1>1. LastStage = 6 /\ stage \in 1 .. 6
  BY DEF IInv, TypeInv, LastStage, Stages
<1>2. FreedOnce
  BY <1>1 DEF FreedOnce, IInv, TypeInv, LiveInv, Begun, Writing
<1>3. NothingKept
  BY <1>1 DEF NothingKept, IInv, LiveInv, Begun, Writing
<1>4. QED  BY <1>2, <1>3 DEF StructuresFreed

LEMMA PublishedFiles == IInv => PublishedIfCorrect
<1> SUFFICES ASSUME IInv PROVE PublishedIfCorrect
  OBVIOUS
<1>1. FailedUnpublished
  BY DEF FailedUnpublished, IInv, ContentInv, ListingsInv
<1>2. ASSUME pc = "end", NEW a \in 1 .. Len(argv),
             program[argv[a]].fails = "none", a \notin unopened \union refused
      PROVE  files[OutputFile(argv[a])]["ob"] \in {argv[b] : b \in a .. Len(argv)}
  <2>1. arg = Len(argv) /\ arg \in Nat /\ "ob" \in Extensions
    BY <1>2 DEF IInv, TypeInv, Extensions
  <2>2. Finished(a) /\ a \in 1 .. arg
    BY <1>2, <2>1, Unfinished
  <2>3. Written(a, "ob")
    BY <2>1, <2>2 DEF IInv, WrittenInv
  <2>4. Wants(argv[a], "ob")
    BY DEF Wants
  <2>5. QED  BY <1>2, <2>1, <2>3, <2>4 DEF Written
<1>3. QED  BY <1>1, <1>2 DEF PublishedIfCorrect, CorrectPublished

\* A file of a name used once is of its argument, and is there exactly if it is
\* wanted.
LEMMA FileOfItsArgument ==
  ASSUME IInv, pc = "end", NEW a \in 1 .. Len(argv), NameUsedOnce(a),
         program[argv[a]].fails = "none", a \notin unopened \union refused,
         NEW x \in Extensions
  PROVE  files[OutputFile(argv[a])][x] = IF Wants(argv[a], x) THEN argv[a] ELSE Absent
<1> DEFINE c == files[OutputFile(argv[a])][x]
<1>1. arg = Len(argv) /\ arg \in Nat
  BY DEF IInv, TypeInv
<1>2. argv[a] \in Path /\ OutputFile(argv[a]) \in OutputFiles
  BY DEF IInv, TypeInv, OutputFiles
<1>3. c \in Contents /\ c # Earlier
  BY <1>2 DEF IInv, TypeInv, NameUsedOnce
<1>4. ASSUME c \in Path PROVE c = argv[a] /\ Wants(argv[a], x)
  <2>1. /\ OutputFile(c) = OutputFile(argv[a]) /\ Wants(c, x)
        /\ \E b \in 1 .. arg : argv[b] = c
    BY <1>2, <1>4 DEF IInv, ContentInv
  <2>2. PICK b \in 1 .. Len(argv) : argv[b] = c
    BY <1>1, <2>1
  <2>3. c = argv[a]
    BY <2>1, <2>2 DEF NameUsedOnce
  <2>4. QED  BY <2>1, <2>3
<1>5. ASSUME Wants(argv[a], x) PROVE c \in Path
  <2>1. Finished(a) /\ a \in 1 .. arg
    BY <1>1, Unfinished
  <2>2. Written(a, x)
    BY <2>1 DEF IInv, WrittenInv
  <2>3. PICK b \in a .. arg : c = argv[b]
    BY <1>5, <2>2 DEF Written
  <2>4. b \in 1 .. Len(argv)
    BY <1>1
  <2>5. QED  BY <2>3, <2>4 DEF IInv, TypeInv
<1>6. c \in Path \/ c = Absent
  BY <1>3 DEF Contents
<1>7. QED  BY <1>4, <1>5, <1>6

LEMMA DirectoryOfItsProgram == IInv => OneProgramPerDirectory
<1> SUFFICES ASSUME IInv, pc = "end", NEW a \in 1 .. Len(argv), NameUsedOnce(a),
                    program[argv[a]].fails = "none",
                    \A b \in 1 .. Len(argv) : argv[b] = argv[a] => b \notin unopened \union refused
             PROVE  LET output == files[OutputFile(argv[a])] IN
                    /\ output["ob"] = argv[a]
                    /\ output["ent"] = IF program[argv[a]].ent THEN argv[a] ELSE Absent
                    /\ output["ext"] = IF program[argv[a]].ext THEN argv[a] ELSE Absent
  BY DEF OneProgramPerDirectory
<1>1. a \notin unopened \union refused
  OBVIOUS
<1>2. "ob" \in Extensions /\ "ent" \in Extensions /\ "ext" \in Extensions
  BY DEF Extensions
<1>3. /\ Wants(argv[a], "ob")
      /\ Wants(argv[a], "ent") <=> program[argv[a]].ent
      /\ Wants(argv[a], "ext") <=> program[argv[a]].ext
  BY DEF Wants
<1>4. /\ files[OutputFile(argv[a])]["ob"] = argv[a]
      /\ files[OutputFile(argv[a])]["ent"] = IF Wants(argv[a], "ent") THEN argv[a] ELSE Absent
      /\ files[OutputFile(argv[a])]["ext"] = IF Wants(argv[a], "ext") THEN argv[a] ELSE Absent
  BY <1>1, <1>2, <1>3, FileOfItsArgument
<1>5. QED  BY <1>3, <1>4

-----------------------------------------------------------------------------
(* Theorems *)

LEMMA InvariantHolds == Spec => []IInv
BY InvariantInitially, InvariantKept, PTL DEF Spec

\* On every path through an iteration, the ones a continue leaves early included,
\* the frees of main mirror what it initialized.
THEOREM StructuresAreFreed == Spec => []StructuresFreed
BY InvariantHolds, LiveStructures, PTL

\* Whatever the other arguments are, a program is published if and only if its
\* stages find nothing, its directory can be made and its files opened.
THEOREM PublishedOnlyIfCorrect == Spec => []PublishedIfCorrect
BY InvariantHolds, PublishedFiles, PTL

\* A directory whose name no other argument has and no earlier run used holds
\* the files of its program, and those it has only.
THEOREM DirectoriesApart == Spec => []OneProgramPerDirectory
BY InvariantHolds, DirectoryOfItsProgram, PTL
=============================================================================
