------------------------------- MODULE Switch -------------------------------
(***************************************************************************)
(* What the replacement transaction promises of the environment as a       *)
(* whole: it holds the old distribution or the new one, one atomic event   *)
(* decides for the new one, and only an operator's explicit rollback takes *)
(* a decided replacement back.  In between the prefix may be in pieces,    *)
(* but nothing is decided.                                                 *)
(***************************************************************************)
VARIABLES
    prefix,   \* "old" | "new" | "pieces"
    decided   \* the replacement has been committed

vars == <<prefix, decided>>

Init == prefix = "old" /\ decided = FALSE

\* An undecided transaction takes the old distribution apart.
TakeApart ==
    /\ ~decided /\ prefix = "old"
    /\ prefix' = "pieces" /\ UNCHANGED decided

\* It may be assembled, and taken apart again, before the decision.
Assemble ==
    /\ ~decided /\ prefix = "pieces"
    /\ prefix' = "new" /\ UNCHANGED decided
Disassemble ==
    /\ ~decided /\ prefix = "new"
    /\ prefix' = "pieces" /\ UNCHANGED decided

\* The decision falls only on a complete new distribution.
Commit ==
    /\ ~decided /\ prefix = "new"
    /\ decided' = TRUE /\ UNCHANGED prefix

\* The explicit rollback of a decided replacement.
Undo ==
    /\ decided /\ prefix = "new"
    /\ prefix' = "pieces" /\ UNCHANGED decided

\* Pieces are only ever put back as the old distribution once decided.
Restore ==
    /\ prefix = "pieces"
    /\ prefix' = "old" /\ UNCHANGED decided

Next == TakeApart \/ Assemble \/ Disassemble \/ Commit \/ Undo \/ Restore

Spec == Init /\ [][Next]_vars
=============================================================================
