------------------------------ MODULE MCDriver ------------------------------
(***************************************************************************)
(* Command lines of up to two arguments, or one repeated around another,   *)
(* over base names equal, sharing a stem and with or without a dot; in an  *)
(* empty working directory, after an earlier run, and where a file has the *)
(* name of a directory.                                                    *)
(***************************************************************************)
EXTENDS Driver

At(folder, base) == [folder |-> folder, base |-> base]

xa == At("x", <<"a">>)
ya == At("y", <<"a">>)
xab == At("x", <<"a", "b">>)
xac == At("x", <<"a", "c">>)

MCPath == {xa, ya, xab, xac}

MCCommandLines ==
  {<<>>, <<xa, xab, xa>>} \union {<<x>> : x \in MCPath} \union {<<x, y>> : x, y \in MCPath}

Correct(ext, ent) == [fails |-> "none", ext |-> ext, ent |-> ent]
Failing(at) == [fails |-> at, ext |-> TRUE, ent |-> TRUE]

MCProgram ==
  {Correct(TRUE, FALSE), Correct(FALSE, TRUE)}
    \union {Failing(at) : at \in {Stages[k] : k \in 1 .. LastStage} \union {"missing", "crash"}}

Everywhere(content) == [f \in OutputFiles |-> [e \in Extensions |-> content]]

MCExisting ==
  {[dirs |-> [d \in Dirs |-> "none"], files |-> Everywhere(Absent)],
   [dirs |-> [d \in Dirs |-> "directory"], files |-> Everywhere(Earlier)],
   [dirs |-> [d \in Dirs |-> IF d.suffix = "" THEN "file" ELSE "none"],
    files |-> Everywhere(Absent)]}
=============================================================================
