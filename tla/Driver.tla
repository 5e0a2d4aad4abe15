------------------------------- MODULE Driver -------------------------------
(***************************************************************************)
(* tests/TheTest/main.c: every file of the command line goes through the   *)
(* stages, each begun only when the one before has reported no error, and  *)
(* the structures are freed from where the stages stopped back to the      *)
(* first.  A stage is one step: what it finds is given by the program.     *)
(***************************************************************************)
EXTENDS Integers, Sequences, SequencesExt

CONSTANTS
  Path,          \* arguments: the folder and the parts of the base name between dots
  CommandLines,  \* sequences of paths
  Program,       \* what is in a source file
  Existing       \* what is in the working directory before the run

ASSUME PathAssumption == \A p \in Path : p.base # <<>>
ASSUME CommandLinesAssumption == CommandLines \subseteq Seq(Path)

\* The structures of main, in the order they are initialized.
Stages == <<"lexer_preprocess", "preprocessor", "lexer_postprocess", "unit",
            "analyzer", "generator">>
LastStage == Len(Stages)

\* fails is the stage that reports an error, "missing" when there is no source,
\* "crash" when the generator dies of it, "none" for a correct program; ext and
\* ent say whether it has externals and entries.
ProgramType ==
  [fails : {Stages[s] : s \in 1 .. LastStage} \union {"missing", "crash", "none"},
   ext : BOOLEAN, ent : BOOLEAN]

ASSUME ProgramAssumption == Program \subseteq ProgramType

-----------------------------------------------------------------------------
(* Names *)

Named(parts) == [parts |-> parts, suffix |-> ""]
Stem(base) == IF Len(base) = 1 THEN base ELSE Front(base)

\* The name of the directory is that of the file with _output, up to the last dot.
OutputDir(base) ==
  IF Len(base) = 1 THEN [parts |-> base, suffix |-> "_output"] ELSE Named(Front(base))

\* What output_generate adds its extensions to.
OutputFile(path) == [dir |-> OutputDir(path.base), stem |-> Stem(path.base)]

Dirs == {OutputDir(p.base) : p \in Path}
OutputFiles == {OutputFile(p) : p \in Path}
Extensions == {"ext", "ent", "ob"}

\* Contents of a file: of which path it is the assembly.
Absent == [folder |-> "absent", base |-> <<>>]
Earlier == [folder |-> "earlier", base |-> <<>>]
Contents == Path \union {Absent, Earlier}

\* What has the name of a directory may be a file.
ASSUME ExistingAssumption ==
  \A e \in Existing :
    /\ e.dirs \in [Dirs -> {"none", "directory", "file"}]
    /\ e.files \in [OutputFiles -> [Extensions -> {Absent, Earlier}]]

-----------------------------------------------------------------------------
VARIABLES
  argv,
  program,     \* of each path
  pc,
  arg,         \* i of main, 0 before the loop
  stage,       \* the structure the iteration is at
  live,        \* for each structure, the iteration that initialized it, 0 once freed
  dirs,        \* the names of the working directory: a directory, a file or none
  files,       \* files[f][x]: the contents of the output file f with extension x
  listings,    \* the contents of the .am file of a path
  unopened,    \* history: the iterations in which an output file was not opened
  refused      \* history: the iterations in which mkdir failed

vars == <<argv, program, pc, arg, stage, live, dirs, files, listings, unopened, refused>>

Current == argv[arg]
CurrentProgram == program[Current]

-----------------------------------------------------------------------------
\* The head of the loop over the arguments.
NextFile ==
  /\ pc = "next"
  /\ IF arg < Len(argv)
     THEN arg' = arg + 1 /\ stage' = 1 /\ pc' = "run"
     ELSE UNCHANGED <<arg, stage>> /\ pc' = "end"
  /\ UNCHANGED <<argv, program, live, dirs, files, listings, unopened, refused>>

\* Mutant: freeing begun one too early.
RunStageFreeNext ==
  /\ pc = "run" /\ stage < LastStage
  /\ live' = [live EXCEPT ![stage] = arg]
  /\ IF CurrentProgram.fails \in {Stages[stage], "missing"}
     THEN pc' = "free" /\ stage' = stage + 1
     ELSE IF stage = LastStage - 1 THEN pc' = "directory" /\ UNCHANGED stage
                              ELSE stage' = stage + 1 /\ UNCHANGED pc
  /\ UNCHANGED <<argv, program, arg, dirs, files, listings, unopened, refused>>

\* Initialize a structure, run its stage and look at its error list.  The
\* preprocessor writes the .am file; that it cannot is no error.
RunStage ==
  /\ pc = "run" /\ stage < LastStage
  /\ live' = [live EXCEPT ![stage] = arg]
  /\ IF CurrentProgram.fails \in {Stages[stage], "missing"}
     THEN /\ pc' = "free"
          /\ UNCHANGED <<stage, listings>>
     ELSE /\ IF stage = LastStage - 1 THEN pc' = "directory" /\ UNCHANGED stage
                                 ELSE stage' = stage + 1 /\ UNCHANGED pc
          /\ IF Stages[stage] = "preprocessor"
             THEN \E opened \in BOOLEAN :
                    listings' = IF opened THEN listings \union {Current} ELSE listings
             ELSE UNCHANGED listings
  /\ UNCHANGED <<argv, program, arg, dirs, files, unopened, refused>>

\* Mutant: main returns when there is no directory.
MakeDirectoryReturns ==
  /\ pc = "directory"
  /\ LET name == OutputDir(Current.base) IN
     \/ /\ pc' = "run" /\ stage' = LastStage
        /\ dirs' = [dirs EXCEPT ![name] = IF @ = "none" THEN "directory" ELSE @]
        /\ UNCHANGED <<unopened, refused>>
     \/ /\ dirs[name] = "none"
        /\ pc' = "end" /\ refused' = refused \union {arg}
        /\ UNCHANGED <<stage, dirs, unopened>>
  /\ UNCHANGED <<argv, program, arg, live, files, listings>>

\* create_directory takes any name that exists for a directory.  When it cannot
\* create one the iteration ends there, with nothing freed.
MakeDirectory ==
  /\ pc = "directory"
  /\ LET name == OutputDir(Current.base) IN
     \/ /\ pc' = "run" /\ stage' = LastStage
        /\ dirs' = [dirs EXCEPT ![name] = IF @ = "none" THEN "directory" ELSE @]
        /\ UNCHANGED <<unopened, refused>>
     \/ /\ dirs[name] = "none"
        /\ pc' = "next" /\ refused' = refused \union {arg}
        /\ UNCHANGED <<stage, dirs, unopened>>
  /\ UNCHANGED <<argv, program, arg, live, files, listings>>

\* The generator's errors are consulted by output_generate itself.
RunGenerator ==
  /\ pc = "run" /\ stage = LastStage
  /\ live' = [live EXCEPT ![LastStage] = arg]
  /\ pc' = CASE CurrentProgram.fails = "crash" -> "crashed"
             [] CurrentProgram.fails = "generator" -> "free"
             [] CurrentProgram.fails \notin {"crash", "generator"} -> "ext"
  /\ UNCHANGED <<argv, program, arg, stage, dirs, files, listings, unopened, refused>>

\* Mutant: an empty file written as well.
WriteFileEmpty(extension, content, next) ==
  /\ pc = extension /\ pc' = next
  /\ \/ /\ dirs[OutputFile(Current).dir] = "directory"
        /\ files' = [files EXCEPT ![OutputFile(Current)][extension] = Current]
        /\ UNCHANGED unopened
     \/ /\ unopened' = unopened \union {arg}
        /\ UNCHANGED files
  /\ UNCHANGED <<argv, program, arg, stage, live, dirs, listings, refused>>

\* A file is written when there is something to write; opening it may fail, and
\* does in a directory that is none.
WriteFile(extension, content, next) ==
  /\ pc = extension
  /\ pc' = next
  /\ LET file == OutputFile(Current) IN
     \/ /\ content /\ dirs[file.dir] = "directory"
        /\ files' = [files EXCEPT ![file][extension] = Current]
        /\ UNCHANGED unopened
     \/ /\ content
        /\ unopened' = unopened \union {arg}
        /\ UNCHANGED files
     \/ /\ ~content
        /\ UNCHANGED <<files, unopened>>
  /\ UNCHANGED <<argv, program, arg, stage, live, dirs, listings, refused>>

WriteExternals == WriteFile("ext", CurrentProgram.ext, "ent")
WriteEntries == WriteFile("ent", CurrentProgram.ent, "ob")
WriteObject == WriteFile("ob", TRUE, "free")

FreeStage ==
  /\ pc = "free"
  /\ live' = [live EXCEPT ![stage] = 0]
  /\ IF stage = 1 THEN pc' = "next" /\ UNCHANGED stage
                  ELSE stage' = stage - 1 /\ UNCHANGED pc
  /\ UNCHANGED <<argv, program, arg, dirs, files, listings, unopened, refused>>

-----------------------------------------------------------------------------
Init ==
  /\ argv \in CommandLines
  /\ program \in {f \in [Path -> Program] :
                    \A p \in Path \ {argv[a] : a \in 1 .. Len(argv)} :
                      f[p] = CHOOSE q \in Program : TRUE}
  /\ pc = "next" /\ arg = 0 /\ stage = 1
  /\ live = [s \in 1 .. LastStage |-> 0]
  /\ \E e \in Existing : dirs = e.dirs /\ files = e.files
  /\ listings = {} /\ unopened = {} /\ refused = {}

Next ==
  \/ NextFile \/ RunStage \/ MakeDirectory \/ RunGenerator
  \/ WriteExternals \/ WriteEntries \/ WriteObject
  \/ FreeStage

Spec == Init /\ [][Next]_vars

-----------------------------------------------------------------------------
\* Every structure is freed in the iteration that initialized it, once; one
\* that is used has not been freed.
FreedOnce ==
  /\ pc = "free" => \A s \in 1 .. stage : live[s] = arg
  /\ pc \in {"run", "directory", "ext", "ent", "ob"} => \A s \in 1 .. stage - 1 : live[s] = arg

\* Nothing outlives its iteration, but for one whose directory mkdir refused.
NothingKept ==
  pc = "next" => \A s \in 1 .. LastStage : live[s] # 0 => live[s] \in refused

\* The frees mirror what was initialized, on every path through an iteration.
StructuresFreed == FreedOnce /\ NothingKept

\* A program in which a stage found an error is not published, whatever other
\* files the command line has; nor is the .am file of one that was not preprocessed.
FailedUnpublished ==
  /\ \A p \in listings :
       program[p].fails \notin {"missing", "lexer_preprocess", "preprocessor"}
  /\ \A f \in OutputFiles, x \in Extensions :
       LET p == files[f][x] IN
       p \in Path => program[p].fails = "none" /\ OutputFile(p) = f

\* An argument's failure leaves the others alone: at the end a correct program
\* whose files could be opened has its object file, or that of an argument of
\* the same output name.
CorrectPublished ==
  pc = "end" =>
    \A a \in 1 .. Len(argv) :
      program[argv[a]].fails = "none" /\ a \notin unopened \union refused =>
        files[OutputFile(argv[a])]["ob"] \in {argv[b] : b \in a .. Len(argv)}

\* A program is published if and only if its own stages find nothing and its
\* files can be made, unless the process dies or a later argument of the same
\* output name writes over it.
PublishedIfCorrect == FailedUnpublished /\ CorrectPublished

\* Arguments of different names do not touch each other's files: when no name
\* is used twice, in the run or by earlier ones, a directory holds the files of
\* one program and all of them.
NameUsedOnce(a) ==
  /\ \A b \in 1 .. Len(argv) :
       OutputFile(argv[b]) = OutputFile(argv[a]) => argv[b] = argv[a]
  /\ Earlier \notin {files[OutputFile(argv[a])][x] : x \in Extensions}

OneProgramPerDirectory ==
  pc = "end" =>
    \A a \in 1 .. Len(argv) :
      NameUsedOnce(a) /\ program[argv[a]].fails = "none"
        /\ (\A b \in 1 .. Len(argv) : argv[b] = argv[a] => b \notin unopened \union refused) =>
        LET output == files[OutputFile(argv[a])] IN
        /\ output["ob"] = argv[a]
        /\ output["ent"] = IF program[argv[a]].ent THEN argv[a] ELSE Absent
        /\ output["ext"] = IF program[argv[a]].ext THEN argv[a] ELSE Absent

=============================================================================
