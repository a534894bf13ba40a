------------------------- MODULE MCInductorCompile -------------------------
(* Instances of InductorCompile for TLC. *)
EXTENDS InductorCompile

CONSTANTS main, worker, neg, add

MCThreads == {main, worker}
MCPrograms == {neg, add}
AllJobs == {"codegen", "direct", "launch", "swiglu"}
CompileAndSwiglu == {"codegen", "swiglu"}
=============================================================================
