--------------------------- MODULE OwnedProcesses ---------------------------
(***************************************************************************)
(* The process table that the run controllers look at and send signals to, *)
(* reduced to what their checks can tell apart.  The run's leader starts a *)
(* session and a process group of its own (start_new_session=True); its    *)
(* descendants inherit both and may leave the group.  A process that has   *)
(* exited is a zombie until it is reaped, and a reaped number is free for  *)
(* any process of the machine.  The number of a session or group is not    *)
(* given out again while a member, zombies included, still carries it.     *)
(*                                                                         *)
(* All of this is the operating system's and the launched program's: it is *)
(* external to the repository, modelled from what the controllers assume.  *)
(***************************************************************************)
EXTENDS Naturals, FiniteSets

CONSTANTS
    Pids,       \* process numbers
    Leader,     \* the number of the launched process
    MaxBirths   \* bound on the births after the leader's

ASSUME ProcessAssumption ==
    /\ Leader \in Pids
    /\ MaxBirths \in Nat

VARIABLES
    proc,       \* the process that holds a number
    births      \* births so far: the start time of the next process

procVars == <<proc, births>>

Signals == {"TERM", "CONT", "STOP", "KILL"}
Offers == {"TERM", "KILL"}

(* kin: "own" carries the run's environment, "scrub" is a descendant whose *)
(* environment was rewritten, "foreign" is anybody else's process.         *)
Process == [st: {"free", "run", "stop", "dead"},
            kin: {"own", "scrub", "foreign"},
            grp: BOOLEAN, ses: BOOLEAN,     \* in the recorded group, session
            born: Nat,                      \* start_ticks
            sig: SUBSET Offers]             \* of these, the ones it was sent

Free == [st |-> "free", kin |-> "foreign", grp |-> FALSE, ses |-> FALSE,
         born |-> 0, sig |-> {}]
LeaderBorn == 1
Launched == [st |-> "run", kin |-> "own", grp |-> TRUE, ses |-> TRUE,
             born |-> LeaderBorn, sig |-> {}]

ProcInit ==
    /\ proc = [p \in Pids |-> IF p = Leader THEN Launched ELSE Free]
    /\ births = LeaderBorn

Live(p) == proc[p].st \in {"run", "stop"}
Exists(p) == proc[p].st # "free"
InSession(p) == Exists(p) /\ proc[p].ses
InGroup(p) == Exists(p) /\ proc[p].grp

SessionLive == {p \in Pids : Live(p) /\ proc[p].ses}
Group == {p \in Pids : InGroup(p)}
GroupLive == {p \in Group : Live(p)}

\* A number can be given out unless a session or group still carries it.
Available(p) ==
    /\ proc[p].st = "free"
    /\ p = Leader => \A q \in Pids : ~InSession(q) /\ ~InGroup(q)

Born(p, kin, grp, ses) ==
    /\ births < MaxBirths + LeaderBorn
    /\ Available(p)
    /\ births' = births + 1
    /\ proc' = [proc EXCEPT ![p] = [st |-> "run", kin |-> kin, grp |-> grp,
                                    ses |-> ses, born |-> births + 1,
                                    sig |-> {}]]

\* A process with SIGKILL pending does not return to user mode.
Runs(p) == proc[p].st = "run" /\ "KILL" \notin proc[p].sig

Fork(p, q) ==
    /\ Runs(p) /\ InSession(p)
    /\ Born(q, proc[p].kin, proc[p].grp, TRUE)

LeaveGroup(p) ==
    /\ Runs(p) /\ p # Leader /\ proc[p].grp
    /\ proc' = [proc EXCEPT ![p].grp = FALSE]
    /\ UNCHANGED births

RewriteEnvironment(p) ==
    /\ Runs(p) /\ proc[p].kin = "own" /\ p # Leader
    /\ proc' = [proc EXCEPT ![p].kin = "scrub"]
    /\ UNCHANGED births

Exit(p) ==
    /\ proc[p].st = "run" \/ (proc[p].st = "stop" /\ "KILL" \in proc[p].sig)
    /\ proc' = [proc EXCEPT ![p].st = "dead"]
    /\ UNCHANGED births

ReapPid(p) == proc' = [proc EXCEPT ![p] = Free] /\ UNCHANGED births

\* Everybody but the run's leader has a parent that reaps at its own pace.
ReapOther(p) ==
    /\ proc[p].st = "dead"
    /\ ~(p = Leader /\ proc[p].kin = "own")
    /\ ReapPid(p)

\* Somebody else's process takes a free number, as the leader of a session
\* of its own or as an ordinary member of another one.
ForeignBirth(p) ==
    \E lead \in BOOLEAN : Born(p, "foreign", lead /\ p = Leader,
                                             lead /\ p = Leader)

World ==
    \E p \in Pids :
        \/ \E q \in Pids : Fork(p, q)
        \/ LeaveGroup(p)
        \/ RewriteEnvironment(p)
        \/ Exit(p)
        \/ ReapOther(p)
        \/ ForeignBirth(p)

\* Signals: SIGSTOP and SIGCONT act at once; a process may act on SIGTERM by
\* exiting, which it may do anyway, or ignore it.
Signalled(q, s) ==
    [q EXCEPT !.sig = @ \cup ({s} \cap Offers),
              !.st = CASE s = "STOP" -> "stop" [] s = "CONT" -> "run"
                       [] OTHER -> @]

Deliver(targets, s) ==
    /\ proc' = [p \in Pids |-> IF p \in targets /\ Live(p)
                                 THEN Signalled(proc[p], s) ELSE proc[p]]
    /\ UNCHANGED births

-----------------------------------------------------------------------------
(* What the controllers read. *)

\* stop_run.verify of the recorded leader: "gone" is ProcessLookupError,
\* "refused" any other error.  Reading the environment of a zombie gives
\* nothing on older kernels and fails with ESRCH on newer ones.
Verify ==
    LET q == proc[Leader]
    IN  IF q.st = "free" THEN {"gone"}
        ELSE IF q.born # LeaderBorn THEN {"refused"}
        ELSE IF q.st = "dead" THEN {"refused", "gone"} ELSE {"ok"}

ProcTypeOK ==
    /\ proc \in [Pids -> Process]
    /\ births \in LeaderBorn .. MaxBirths + LeaderBorn
=============================================================================
