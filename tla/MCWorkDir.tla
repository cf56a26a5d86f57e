----------------------------- MODULE MCWorkDir -----------------------------
(* WorkDir with files of one and of two blocks. *)
EXTENDS WorkDir

MCLen == [f \in Files |-> IF f = "long" THEN 2 ELSE 1]
=============================================================================
