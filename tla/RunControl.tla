----------------------------- MODULE RunControl -----------------------------
(***************************************************************************)
(* The life of a run under run_isolated.py: the parent launches the child, *)
(* watches it (pausing it under memory pressure, terminating it on a       *)
(* timeout), may itself be interrupted by signals at any time, and writes  *)
(* process.json.  The record of such a run names no session, so every      *)
(* signal goes to the recorded process group after its owner was verified, *)
(* also those of an operator's stop_run.py (stop_legacy_group), which may  *)
(* come at any time.                                                       *)
(***************************************************************************)
EXTENDS OwnedProcesses

CONSTANTS
    Modes,          \* "plain", "coexistence", "guarded" (benchmark and smoke)
    MaxInterrupts,  \* bound on the signals the parent receives
    MaxPauses,      \* bound on pauses
    Stopper         \* stop_run.py may be called

ASSUME ControlAssumption ==
    /\ Modes \subseteq {"plain", "coexistence", "guarded"}
    /\ MaxInterrupts \in Nat /\ MaxPauses \in Nat /\ Stopper \in BOOLEAN

VARIABLES
    mode, pressure, \* the kind of run and the host's condition
    act,            \* program positions of the controller and the stopper
    ctx,            \* who called terminate_owned_process
    paused, pauses, \* the coexistence watchdog's
    interrupts, crashed,
    status, rec     \* metadata["status"] in memory and in process.json

control == <<mode, pressure, ctx, paused, pauses, interrupts, crashed, status>>
vars == <<proc, births, act, control, rec>>

Actors == {"controller", "stopper"}
Nobody == [pid |-> Leader, born |-> 0]
Holder(p) == [pid |-> p, born |-> proc[p].born]
Idle == [pc |-> "idle", checked |-> Nobody, expired |-> FALSE, begun |-> {},
         slipped |-> FALSE]

Init ==
    /\ ProcInit
    /\ mode \in Modes /\ pressure = "none"
    /\ act = [a \in Actors |-> IF a = "controller"
                                 THEN [Idle EXCEPT !.pc = "wait"] ELSE Idle]
    /\ ctx = "none" /\ paused = FALSE /\ pauses = 0
    /\ interrupts = 0 /\ crashed = FALSE
    /\ status = "running" /\ rec = "running"

At(a, pc) == act[a].pc = pc
Becomes(a, r) == act' = [act EXCEPT ![a] = r]
Jump(a, pc) == [act[a] EXCEPT !.pc = pc, !.checked = Nobody]
Goto(a, pc) == Becomes(a, Jump(a, pc))

Unreaped == proc[Leader].st = "dead" /\ proc[Leader].born = LeaderBorn
Reaped == proc[Leader].born # LeaderBorn

-----------------------------------------------------------------------------
(* stop_run.signal_verified and its followup, for a record without a session *)

\* owned_group_members: any member without the run's environment, a zombie
\* included, is an error.
OwnedGroup ==
    IF \E p \in Group : ~Live(p) THEN {"refused", "gone"}
    ELSE IF \E p \in Group : proc[p].kin # "own" THEN {"refused"} ELSE {"ok"}

\* Mutant: with the leader gone, the group's number is trusted.
VerifyLegacyTrusting == IF Group = {} THEN {"gone"} ELSE {"ok"}
VerifyLegacy ==
    IF Verify # {"gone"} THEN Verify
    ELSE IF Group = {} THEN {"gone"} ELSE OwnedGroup

Sending == [termV |-> "termK", contV |-> "contK", stopV |-> "stopK",
            pauseV |-> "pauseK", resumeV |-> "resumeK", restopV |-> "restopK"]
Signal == [termV |-> "TERM", contV |-> "CONT", stopV |-> "STOP",
           pauseV |-> "STOP", resumeV |-> "CONT", restopV |-> "STOP"]
Witness == Holder(IF InGroup(Leader) THEN Leader ELSE CHOOSE p \in Group : TRUE)

Verified(a, v) ==
    /\ At(a, v) /\ "ok" \in VerifyLegacy
    /\ Becomes(a, [act[a] EXCEPT !.pc = Sending[v], !.checked = Witness])
    /\ UNCHANGED <<proc, births, control, rec>>

Fails(a, v, outcomes) == At(a, v) /\ VerifyLegacy \cap outcomes # {}

\* killpg raises ProcessLookupError for a group that is empty by now.
Sends(a, v) == At(a, Sending[v]) /\ Group # {} /\ Deliver(Group, Signal[v])
Misses(a, v) == At(a, Sending[v]) /\ Group = {} /\ UNCHANGED <<proc, births>>

\* A follow-up (SIGCONT, SIGSTOP) that cannot be verified is given up: quietly
\* when the group is empty by now, as an ownership ambiguity otherwise.
FollowupEmpty(a, v) ==
    /\ Group = {}
    /\ \/ Fails(a, v, {"gone", "refused"})
       \/ At(a, Sending[v])
FollowupAmbiguous(a, v) == Group # {} /\ Fails(a, v, {"gone", "refused"})

-----------------------------------------------------------------------------
(* run_isolated.main and its watchdogs                                       *)

Parent == "controller"

\* Popen.poll and Popen.wait reap a leader that has exited.
Polled == IF Unreaped THEN ReapPid(Leader) ELSE UNCHANGED <<proc, births>>
Running == ~Unreaped /\ ~Reaped

\* process.wait returns the child's exit status.
ChildExits ==
    /\ At(Parent, "wait") /\ Unreaped /\ ReapPid(Leader)
    /\ Goto(Parent, "post")
    /\ UNCHANGED <<control, rec>>

\* Time, memory, disk and the GPUs' other users, as the watchdog samples them;
\* a timeout does not go away.
Host ==
    /\ At(Parent, "wait") /\ mode # "plain" /\ pressure # "timeout"
    /\ pressure' \in {"none", "soft", "compute", "timeout"}
    /\ UNCHANGED <<proc, births, act, mode, ctx, paused, pauses, interrupts,
                   crashed, status, rec>>

\* wait_with_coexistence_watchdog pauses on most conditions and terminates a
\* paused run that timed out; the other watchdogs terminate on any.
Terminates ==
    \/ mode = "guarded" /\ pressure # "none"
    \/ mode = "coexistence" /\ pressure = "compute"
    \/ mode = "coexistence" /\ pressure = "timeout" /\ paused
Pauses ==
    /\ mode = "coexistence" /\ ~paused
    /\ \/ pressure = "timeout"
       \/ pressure = "soft" /\ pauses < MaxPauses

\* Mutant: a paused run is not looked at again.
ResumesNever == FALSE
Resumes == mode = "coexistence" /\ paused /\ pressure = "none"

Watch ==
    /\ At(Parent, "wait") /\ Running
    /\ \/ Terminates /\ Goto(Parent, "poll") /\ ctx' = "watchdog"
       \/ Pauses /\ Goto(Parent, "pauseV") /\ UNCHANGED ctx
       \/ Resumes /\ Goto(Parent, "resumeV") /\ UNCHANGED ctx
    /\ UNCHANGED <<proc, births, mode, pressure, paused, pauses, interrupts,
                   crashed, status, rec>>

PauseSent ==
    /\ Sends(Parent, "pauseV") /\ Goto(Parent, "wait")
    /\ paused' = TRUE /\ pauses' = IF pressure = "soft" /\ pauses < MaxPauses
                                     THEN pauses + 1 ELSE pauses
    /\ status' = "paused" /\ rec' = "paused"
    /\ UNCHANGED <<mode, pressure, ctx, interrupts, crashed>>

\* Mutant: the record is not taken back to running.
ResumeSentKeepsStatus ==
    /\ Sends(Parent, "resumeV") /\ Goto(Parent, "wait")
    /\ paused' = FALSE
    /\ UNCHANGED <<mode, pressure, ctx, pauses, interrupts, crashed, status, rec>>

ResumeSent ==
    /\ Sends(Parent, "resumeV") /\ Goto(Parent, "wait")
    /\ paused' = FALSE /\ status' = "running" /\ rec' = "running"
    /\ UNCHANGED <<mode, pressure, ctx, pauses, interrupts, crashed>>

\* "except ProcessLookupError: return process.wait()"
PauseGone ==
    /\ \E v \in {"pauseV", "resumeV"} : Fails(Parent, v, {"gone"})
    /\ Polled /\ Goto(Parent, "post")
    /\ UNCHANGED <<control, rec>>

\* Any other exception: the child is terminated if it still runs, and the
\* exception goes on to the final record.
Crash ==
    /\ crashed' = TRUE
    /\ Polled
    /\ IF Running /\ ctx \notin {"handler", "crashing"}
         THEN Goto(Parent, "poll") /\ ctx' = "crashing"
         ELSE Goto(Parent, "final") /\ UNCHANGED ctx
    /\ UNCHANGED <<mode, pressure, paused, pauses, interrupts, status, rec>>

Refused ==
    \/ \E v \in {"pauseV", "resumeV", "termV"} : Fails(Parent, v, {"refused"})
    \/ Fails(Parent, "restopV", {"refused", "gone"})
    \/ At(Parent, "restopK") /\ Group = {}
CheckRefused == Refused /\ Crash

-----------------------------------------------------------------------------
(* terminate_owned_process: SIGTERM, SIGCONT, wait, SIGSTOP for survivors    *)

Poll ==
    /\ At(Parent, "poll")
    /\ Polled
    /\ Goto(Parent, IF ~Running /\ Group \subseteq (IF Unreaped THEN {Leader} ELSE {})
                 THEN "return" ELSE "termV")
    /\ UNCHANGED <<control, rec>>

\* "The child won the poll/verify race and needs only to be reaped."
TermGone ==
    /\ \/ Fails(Parent, "termV", {"gone"}) /\ Polled
       \/ Misses(Parent, "termV")
    /\ Goto(Parent, "return")
    /\ UNCHANGED <<control, rec>>

TermSent == Sends(Parent, "termV") /\ Goto(Parent, "contV") /\ UNCHANGED <<control, rec>>
ContSent == Sends(Parent, "contV") /\ Goto(Parent, "drain") /\ UNCHANGED <<control, rec>>

ContEmpty ==
    /\ FollowupEmpty(Parent, "contV") /\ Goto(Parent, "drain")
    /\ UNCHANGED <<proc, births, control, rec>>

\* The wait for the group: the leader is reaped and the others looked for.
Drain ==
    /\ At(Parent, "drain")
    /\ \/ Unreaped /\ ReapPid(Leader) /\ UNCHANGED act
       \/ ~Unreaped /\ Group = {} /\ Goto(Parent, "return") /\ UNCHANGED <<proc, births>>
    /\ UNCHANGED <<control, rec>>

DrainExpires ==
    /\ At(Parent, "drain") /\ Group # {}
    /\ Goto(Parent, "stopV")
    /\ UNCHANGED <<proc, births, control, rec>>

SetStatus(new) ==
    status' = new
    /\ UNCHANGED <<mode, pressure, ctx, paused, pauses, interrupts, crashed, rec>>

StopSent ==
    /\ \/ Sends(Parent, "stopV")
       \/ FollowupEmpty(Parent, "stopV") /\ UNCHANGED <<proc, births>>
    /\ Goto(Parent, "return")
    /\ SetStatus("paused")

Ambiguous ==
    /\ FollowupAmbiguous(Parent, "contV") \/ FollowupAmbiguous(Parent, "stopV")
    /\ Goto(Parent, "return")
    /\ SetStatus("ambiguous")
    /\ UNCHANGED <<proc, births>>

\* Back to the caller; a watchdog stops survivors unless they were paused.
Return ==
    /\ At(Parent, "return")
    /\ IF ctx # "watchdog" THEN Goto(Parent, "final") /\ UNCHANGED rec
       ELSE IF Group # {} /\ status # "paused"
              THEN Goto(Parent, "restopV") /\ UNCHANGED rec
              ELSE Goto(Parent, "post") /\ rec' = status
    /\ UNCHANGED <<proc, births, control>>

RestopSent ==
    /\ Sends(Parent, "restopV") /\ Goto(Parent, "post")
    /\ status' = "paused" /\ rec' = "paused"
    /\ UNCHANGED <<mode, pressure, ctx, paused, pauses, interrupts, crashed>>

-----------------------------------------------------------------------------
(* The end of main: what the child left behind, interruptions, the record.   *)

Post ==
    /\ At(Parent, "post")
    /\ Polled
    /\ UNCHANGED <<mode, pressure, paused, pauses, interrupts, crashed, rec>>
    /\ LET left == IF Unreaped THEN Group \ {Leader} ELSE Group
       IN  IF Running \/ status = "paused" \/ left = {}
             THEN Goto(Parent, "final") /\ UNCHANGED <<ctx, status>>
           ELSE IF \E p \in left : ~Live(p) \/ proc[p].kin # "own"
             THEN Goto(Parent, "final") /\ status' = "ambiguous" /\ UNCHANGED ctx
           ELSE Goto(Parent, "poll") /\ ctx' = "post" /\ UNCHANGED status

\* SIGINT, SIGTERM and SIGHUP raise RunInterrupted wherever the parent is; a
\* second one, within the handler, goes straight to the final record.
Interrupt ==
    /\ ~(act[Parent].pc \in {"final", "scanning", "ended"})
    /\ interrupts < MaxInterrupts /\ interrupts' = interrupts + 1
    /\ Polled
    /\ IF Running /\ ctx \notin {"handler", "crashing"}
         THEN Goto(Parent, "poll") /\ ctx' = "handler"
         ELSE Goto(Parent, "final") /\ UNCHANGED ctx
    /\ UNCHANGED <<mode, pressure, paused, pauses, crashed, status, rec>>

\* The final look at the group is a scan of /proc like any other.
FinalScan ==
    /\ At(Parent, "final")
    /\ Polled
    /\ Becomes(Parent, [Jump(Parent, "scanning") EXCEPT
         !.begun = {Holder(p) : p \in IF Unreaped THEN Group \ {Leader}
                                                  ELSE Group}])
    /\ UNCHANGED <<control, rec>>

\* Mutant: the exit status alone decides.
FinalStatusByExit(seen) == IF Reaped THEN "exited" ELSE "alive"

FinalStatus(seen) ==
    IF Reaped /\ seen = {} THEN "exited"
    ELSE IF status \in {"paused", "ambiguous"} THEN status ELSE "alive"

FinalRecord ==
    /\ At(Parent, "scanning")
    /\ \E young \in SUBSET {p \in Group : Holder(p) \notin act[Parent].begun} :
         LET seen == {p \in Group : Holder(p) \in act[Parent].begun} \cup young
         IN  /\ rec' = FinalStatus(seen)
             /\ Becomes(Parent, [Idle EXCEPT !.pc = "ended",
                                        !.slipped = seen # Group])
    /\ pressure' = "none" /\ ctx' = "none" /\ paused' = FALSE /\ pauses' = 0
    /\ status' = "running"
    /\ UNCHANGED <<proc, births, mode, interrupts, crashed>>

ReapOrphan ==
    /\ At(Parent, "ended") /\ Unreaped
    /\ ReapPid(Leader)
    /\ UNCHANGED <<act, control, rec>>

-----------------------------------------------------------------------------
(* stop_run.stop_legacy_group                                                *)

Caller == "stopper"
StopperEnds == Goto(Caller, "ended")

StopperStep ==
    /\ Stopper
    /\ UNCHANGED <<control, rec>>
    /\ \/ /\ At(Caller, "idle") /\ UNCHANGED <<proc, births>>
          /\ \E v \in VerifyLegacy :
                IF v = "ok" THEN Goto(Caller, "termV") ELSE StopperEnds
       \/ /\ \E v \in {"termV", "contV", "stopV"} :
                \/ Fails(Caller, v, {"gone", "refused"})
                \/ Misses(Caller, v)
          /\ StopperEnds /\ UNCHANGED <<proc, births>>
       \/ Sends(Caller, "termV") /\ Goto(Caller, "contV")
       \/ Sends(Caller, "contV") /\ Goto(Caller, "drain")
       \/ At(Caller, "drain") /\ Goto(Caller, IF Group = {} THEN "ended" ELSE "stopV")
                         /\ UNCHANGED <<proc, births>>
       \/ Sends(Caller, "stopV") /\ StopperEnds

-----------------------------------------------------------------------------
(* The specification. *)

ControllerStep ==
    \/ ChildExits \/ Watch \/ PauseSent \/ ResumeSent \/ PauseGone
    \/ CheckRefused \/ Poll \/ TermGone \/ TermSent \/ ContSent \/ ContEmpty
    \/ Drain \/ StopSent \/ Ambiguous \/ Return \/ RestopSent \/ Post
    \/ FinalScan \/ FinalRecord
    \/ \E v \in DOMAIN Sending : Verified(Parent, v)

Next ==
    \/ World /\ UNCHANGED <<act, control, rec>>
    \/ Host \/ Interrupt \/ ReapOrphan \/ DrainExpires
    \/ ControllerStep \/ StopperStep
    \/ \E v \in {"termV", "contV", "stopV"} : Verified(Caller, v)

Spec == Init /\ [][Next]_vars

\* The parent polls and its clock runs; nothing else is obliged to move.
FairSpec == Spec /\ WF_vars(ControllerStep) /\ WF_vars(DrainExpires)

-----------------------------------------------------------------------------
(* Properties. *)

\* Type invariant; the last record of a run has a final status.
TypeOK ==
    /\ ProcTypeOK
    /\ mode \in Modes /\ pressure \in {"none", "soft", "compute", "timeout"}
    /\ \A a \in Actors : /\ act[a].checked \in [pid: Pids, born: Nat]
                         /\ act[a].slipped \in BOOLEAN
    /\ ctx \in {"none", "watchdog", "post", "handler", "crashing"}
    /\ paused \in BOOLEAN /\ crashed \in BOOLEAN
    /\ pauses \in 0 .. MaxPauses /\ interrupts \in 0 .. MaxInterrupts
    /\ status \in {"running", "paused", "ambiguous"}
    /\ rec \in {"running", "paused", "ambiguous", "exited", "alive"}
    /\ At(Parent, "ended") => rec # "running"

OwnGroupLive == {p \in GroupLive : proc[p].kin = "own"}

\* The final record says "exited" only of a group without a live member of the
\* run, unless one was forked during the last scan and missed by it.
ExitedMeansEmpty ==
    rec = "exited" /\ ~act[Parent].slipped => OwnGroupLive = {}

\* A run recorded as paused is stopped: no member of its group runs on while
\* nobody else continued it and the parent was not interrupted.
PausedMeansStopped ==
    /\ rec = "paused" /\ ~At(Parent, "contV") /\ ~At(Parent, "resumeK")
    /\ \/ At(Parent, "ended")
       \/ At(Parent, "wait")
    /\ act[Caller].pc = "idle" /\ interrupts = 0
    => \A p \in OwnGroupLive : proc[p].st = "stop"

\* A group is signalled for somebody else's processes only when it emptied and
\* its number was taken over after the check of its owner.
ForeignOnlyInWindow ==
    [][\A p \in Pids :
         /\ Live(p) /\ proc[p].kin = "foreign"
         /\ \/ proc'[p].sig \ proc[p].sig # {}
            \/ {proc[p].st, proc'[p].st} = {"run", "stop"}
         => \E a \in Actors : act[a].checked # Nobody
                /\ proc[act[a].checked.pid].born # act[a].checked.born]_vars

\* "The child won the poll/verify race and needs only to be reaped"
\* (run_isolated.py:476): a child that exits by itself, however it races the
\* parent's check, is no error of the parent.
ChildExitIsNoError == ~crashed

\* Once the host stays free of pressure a paused run is resumed, and a parent
\* that was interrupted comes to its end.
PauseAndInterruptEnd ==
    <>[](pressure = "none")
        => []<>(At(Parent, "ended") \/ (interrupts = 0 /\ ~paused))
=============================================================================
