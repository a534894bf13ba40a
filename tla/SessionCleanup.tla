--------------------------- MODULE SessionCleanup ---------------------------
(***************************************************************************)
(* The end of a run whose record names its session: the controller that    *)
(* launched it (run_pypto_cpu_bounded.py) and the operator's stop_run.py   *)
(* may both be cleaning up the same session, each with                     *)
(* terminate_verified_session_residuals.  A scan of /proc is not atomic    *)
(* and neither is the check of a process before it is signalled, while the *)
(* processes fork, exit, leave the group and have their numbers reused.    *)
(***************************************************************************)
EXTENDS OwnedProcesses

CONSTANTS
    MaxSamples,     \* bound on pauses and resumptions
    MayDie,         \* the controller may be killed outright
    Overlap,        \* stop_run may be called while the controller lives
    NoPid

ASSUME SessionAssumption == MaxSamples \in Nat /\ MayDie \in BOOLEAN /\ Overlap \in BOOLEAN
                            /\ NoPid \notin Pids

VARIABLES
    act,        \* the two cleaners' local state
    paused, samples, \* controller: memory policy
    reason,     \* controller: "none", "abort" or "raise"
    rec         \* process.json

vars == <<proc, births, act, paused, samples, reason, rec>>
Actors == {"controller", "stopper"}

Member(p) == [pid |-> p, born |-> proc[p].born, grp |-> proc[p].grp]
Members == [pid: Pids, born: Nat, grp: BOOLEAN]
NoMember == [pid |-> NoPid, born |-> 0, grp |-> FALSE]

Idle == [pc |-> "idle", phase |-> "none", begun |-> {}, found |-> {},
         bad |-> FALSE, todo |-> {}, checked |-> NoMember, termed |-> {},
         killed |-> {}, err |-> FALSE, expired |-> FALSE, out |-> "none",
         slipped |-> FALSE, termAt |-> 0, killAt |-> 0]

Init ==
    /\ ProcInit
    /\ act = [a \in Actors |-> IF a = "controller"
                                 THEN [Idle EXCEPT !.pc = "watch"] ELSE Idle]
    /\ paused = FALSE /\ samples = 0 /\ reason = "none"
    /\ rec = "running"

At(a, pc) == act[a].pc = pc
Goto(a, pc) == act' = [act EXCEPT ![a].pc = pc]
Becomes(a, r) == act' = [act EXCEPT ![a] = r]

controller == <<paused, samples, reason>>

-----------------------------------------------------------------------------
(* terminate_verified_session_residuals: wait for a natural end, offer       *)
(* SIGTERM once to every member, SIGKILL what is left, wait, report.         *)

Enter(r, phase) ==
    [r EXCEPT !.pc = "scan", !.phase = phase, !.expired = FALSE, !.found = {},
              !.bad = FALSE, !.slipped = FALSE, !.checked = NoMember]
End(r) == [Idle EXCEPT !.pc = "ended", !.slipped = r.slipped]

\* Time passes while a loop polls.
Expire(a) ==
    /\ act[a].phase \in {"natural", "term", "wait", "reap"} /\ ~act[a].expired
    /\ act[a].pc \in {"scan", "finish"}
    /\ act' = [act EXCEPT ![a].expired = TRUE]
    /\ UNCHANGED <<proc, births, controller, rec>>

\* session_process_ids lists /proc while processes come and go.
ScanBegin(a) ==
    /\ At(a, "scan")
    /\ Becomes(a, [act[a] EXCEPT
         !.pc = "scanning", !.begun = {Member(p) : p \in SessionLive},
         !.termAt = IF act[a].phase = "term" THEN births ELSE @,
         !.killAt = IF act[a].phase = "kill" THEN births ELSE @])
    /\ UNCHANGED <<proc, births, controller, rec>>

\* A process alive throughout is seen, one born meanwhile may be.
Held(m) == Exists(m.pid) /\ proc[m.pid].born = m.born
Listed(a) == {m.pid : m \in {n \in act[a].begun : Held(n)}}
Seen(a) ==
    {(Listed(a) \cap SessionLive) \cup young :
        young \in SUBSET (SessionLive \ Listed(a))}

\* verified_session_members of what was seen: a listed process that has become
\* a zombie before its snapshot is not skipped but rejected.
Rejected(a, seen) ==
    {\E p \in seen : proc[p].kin # "own"} \cup
    {TRUE : p \in {q \in Listed(a) : proc[q].st = "dead"}}

\* Mutant: a rejected process does not count against the result.
ResultSurvivorsOnly(found, bad) ==
    IF found = {} THEN "complete" ELSE "incomplete"

Result(found, bad) ==
    IF found = {} /\ ~bad THEN "complete" ELSE "incomplete"

\* What is to be signalled after a scan of the TERM loop or the KILL pass.
Offered(r) == {m \in r.found : m.pid \notin r.termed}

\* Mutants: the deadline is looked at before the signals are sent; the kill
\* pass takes only what was offered SIGTERM.
DueDeadlineFirst(r) == IF r.phase = "kill" THEN r.found
                       ELSE IF r.expired THEN {} ELSE Offered(r)
DueKillTermed(r) == IF r.phase = "kill" THEN r.found \ Offered(r) ELSE Offered(r)

Due(r) == IF r.phase = "kill" THEN r.found ELSE Offered(r)

AfterScan(r) ==
    CASE r.phase = "natural" ->
           IF (r.found # {} \/ r.bad) /\ ~r.expired
             THEN [r EXCEPT !.pc = "scan"] ELSE Enter(r, "term")
      [] r.phase = "wait" ->
           IF r.found # {} /\ ~r.expired THEN [r EXCEPT !.pc = "scan"]
           ELSE [r EXCEPT !.pc = "finish", !.phase = "reap", !.expired = FALSE,
                          !.out = Result(r.found, r.bad)]
      [] OTHER ->
           [r EXCEPT !.pc = "signal", !.bad = FALSE, !.todo = Due(r),
                     !.found = IF r.phase = "kill" THEN {} ELSE @]

ScanEnd(a) ==
    /\ At(a, "scanning")
    /\ \E seen \in Seen(a) : \E bad \in Rejected(a, seen) :
         LET found == {Member(p) : p \in {q \in seen : proc[q].kin = "own"}}
         IN  Becomes(a, AfterScan([act[a] EXCEPT
                 !.begun = {}, !.found = found, !.bad = bad,
                 !.slipped = act[a].phase = "wait" /\ seen # SessionLive]))
    /\ UNCHANGED <<proc, births, controller, rec>>

\* The members of one scan are taken one by one; then the loop goes on or not.
\* Mutant: the TERM loop goes on until nobody is left.
AgainUntilEmpty(r) == r.phase = "term" /\ r.found # {}
Again(r) == r.phase = "term" /\ r.found # {} /\ ~r.expired

Pass(a) ==
    /\ At(a, "signal") /\ act[a].todo = {}
    /\ LET r == act[a]
       IN  Becomes(a, IF Again(r) THEN [r EXCEPT !.pc = "scan"]
                      ELSE IF r.phase = "term" THEN Enter(r, "kill")
                      ELSE Enter([r EXCEPT !.termAt = 0], "wait"))
    /\ UNCHANGED <<proc, births, controller, rec>>

\* Mutant: the second look only asks whether anybody is there.
VerifiedExists(m) == Exists(m.pid)

\* signal_verified_session_member looks at the member again ...
Verified(m) == Live(m.pid) /\ Member(m.pid) = m /\ proc[m.pid].kin = "own"

Check(a, m) ==
    /\ At(a, "signal") /\ m \in act[a].todo
    /\ Becomes(a, IF Verified(m)
                    THEN [act[a] EXCEPT !.pc = "kill", !.checked = Member(m.pid)]
                    ELSE [act[a] EXCEPT !.todo = @ \ {m}])
    /\ UNCHANGED <<proc, births, controller, rec>>

\* ... and then signals whatever holds its number.
Kill(a) ==
    LET r == act[a]  p == r.checked.pid  sent == Exists(p)
        kills == r.phase = "kill"
    IN  /\ At(a, "kill")
        /\ Deliver({p}, IF kills THEN "KILL" ELSE "TERM")
        /\ Becomes(a, [r EXCEPT
             !.pc = "signal", !.checked = NoMember,
             !.todo = {m \in @ : m.pid # p},
             !.termed = IF sent /\ ~kills THEN @ \cup {p} ELSE @,
             !.killed = IF sent /\ kills THEN @ \cup {r.checked} ELSE @])
        /\ UNCHANGED <<controller, rec>>

-----------------------------------------------------------------------------
(* signal_verified: verify the leader, then signal the recorded group.       *)

GroupSignal == [contV |-> "CONT", termV |-> "TERM", pauseV |-> "STOP",
                resumeV |-> "CONT"]
Sending == [contV |-> "contK", termV |-> "termK", pauseV |-> "pauseK",
            resumeV |-> "resumeK"]

Keep(a, pc) == [act[a] EXCEPT !.pc = pc, !.checked = NoMember]
Armed(a, pc) == [act[a] EXCEPT !.pc = Sending[pc], !.checked = Member(Leader)]
StartTerm(a) == Enter(act[a], "term")

VerifyGroup(a, pc, onGone, onRefused) ==
    /\ At(a, pc)
    /\ \E v \in Verify :
         Becomes(a, CASE v = "ok" -> Armed(a, pc)
                      [] v = "gone" -> onGone
                      [] v = "refused" -> onRefused)
    /\ UNCHANGED <<proc, births, controller, rec>>

\* An empty group makes killpg raise ProcessLookupError.
KillGroup(a, pc, onSent, onGone) ==
    /\ At(a, Sending[pc])
    /\ Deliver(Group, GroupSignal[pc])
    /\ Becomes(a, IF Group # {} THEN onSent ELSE onGone)

-----------------------------------------------------------------------------
(* The controller: run_pypto_cpu_bounded.main and terminate_owned.           *)

Unreaped == proc[Leader].st = "dead" /\ proc[Leader].kin = "own"

\* process.poll() finds the leader's exit status.
PollExit ==
    /\ At("controller", "watch") /\ Unreaped
    /\ ReapPid(Leader)
    /\ Becomes("controller", Enter(act["controller"], "natural"))
    /\ UNCHANGED <<controller, rec>>

\* One sample of memory, disk and time.
Sample(pc) ==
    /\ At("controller", "watch") /\ ~Unreaped
    /\ \/ pc = "pauseV" /\ ~paused /\ samples < MaxSamples
          /\ samples' = samples + 1 /\ UNCHANGED reason
       \/ pc = "resumeV" /\ paused /\ UNCHANGED <<samples, reason>>
       \/ pc = "contV" /\ reason' = "abort" /\ UNCHANGED samples
    /\ Goto("controller", pc)
    /\ UNCHANGED <<proc, births, paused, rec>>

\* Any other error in the loop or in the final cleanup.
Raise ==
    /\ \/ At("controller", "watch")
       \/ At("controller", "scan") /\ act["controller"].phase = "natural"
    /\ reason = "none" /\ reason' = "raise"
    /\ Becomes("controller", [Idle EXCEPT !.pc = "contV"])
    /\ UNCHANGED <<proc, births, paused, samples, rec>>

\* A leader that cannot be verified, one that has just exited included, is an
\* error that leaves the loop.
PauseOrResume(pc) ==
    /\ At("controller", pc)
    /\ \E v \in Verify :
         /\ Becomes("controller", IF v = "ok" THEN Armed("controller", pc)
                                  ELSE Keep("controller", "contV"))
         /\ reason' = IF v = "ok" THEN reason ELSE "raise"
    /\ UNCHANGED <<proc, births, paused, samples, rec>>

PauseOrResumeSend(pc) ==
    /\ KillGroup("controller", pc, Keep("controller", "watch"),
                                   Keep("controller", "watch"))
    /\ paused' = (pc = "pauseV")
    /\ UNCHANGED <<samples, reason, rec>>

\* terminate_owned: continue the group, terminate it, clean up the session.
TerminateOwned ==
    LET a == "controller"
    IN  \/ VerifyGroup(a, "contV", Keep(a, "termV"), Keep(a, "termV"))
        \/ /\ KillGroup(a, "contV", Keep(a, "termV"), Keep(a, "termV"))
           /\ UNCHANGED <<controller, rec>>
        \/ VerifyGroup(a, "termV", StartTerm(a),
                       [StartTerm(a) EXCEPT !.err = TRUE])
        \/ /\ KillGroup(a, "termV", StartTerm(a), StartTerm(a))
           /\ UNCHANGED <<controller, rec>>

\* session_cleanup_is_natural and the status that goes into the record.
Natural(r) == r.out = "complete" /\ r.termed = {} /\ r.killed = {} /\ ~r.bad
Complete(r) == r.out = "complete" /\ ~r.err

Status(r) ==
    IF reason = "abort" THEN "aborted" ELSE IF Natural(r) THEN "exited"
    ELSE IF Complete(r) THEN "forced" ELSE "incomplete"

\* The controller's local variables end with it.
Forgotten == paused' = FALSE /\ samples' = 0 /\ reason' = "none"

\* The leader is reaped, or not within two seconds; a run that ended by an
\* error is not recorded.
Finish ==
    LET r == act["controller"]
    IN  /\ At("controller", "finish")
        /\ \/ Unreaped /\ ReapPid(Leader)
           \/ (r.expired \/ proc[Leader].born # LeaderBorn)
              /\ ~Unreaped /\ UNCHANGED <<proc, births>>
        /\ Becomes("controller", End(r))
        /\ rec' = IF reason = "raise" THEN rec ELSE Status(r)
        /\ Forgotten

\* The controller has no handler for SIGTERM and may be killed anyway.
Die ==
    /\ MayDie /\ ~At("controller", "ended")
    /\ Becomes("controller", End(Idle))
    /\ Forgotten
    /\ UNCHANGED <<proc, births, rec>>

ReapOrphan ==
    /\ At("controller", "ended") /\ Unreaped
    /\ ReapPid(Leader)
    /\ UNCHANGED <<act, controller, rec>>

-----------------------------------------------------------------------------
(* stop_run.main                                                             *)

\* The record is read and the leader verified; a leader that is gone and whose
\* session holds only rejected processes is an error.
Load ==
    /\ At("stopper", "idle") /\ (Overlap \/ At("controller", "ended"))
    /\ \E v \in Verify :
         Goto("stopper",
              IF v = "refused" \/ (v = "gone" /\ SessionLive # {} /\
                    \A p \in SessionLive : proc[p].kin # "own")
                THEN "ended" ELSE "termV")
    /\ UNCHANGED <<proc, births, controller, rec>>

\* SIGTERM and, if that was sent, SIGCONT to the group; then the residuals.
StopGroup ==
    LET a == "stopper"
        refused == [StartTerm(a) EXCEPT !.err = TRUE]
        empty == [StartTerm(a) EXCEPT !.err = Group # {}]
    IN  \/ VerifyGroup(a, "termV", StartTerm(a), refused)
        \/ /\ KillGroup(a, "termV", Keep(a, "contV"), StartTerm(a))
           /\ UNCHANGED <<controller, rec>>
        \/ VerifyGroup(a, "contV", empty, empty)
        \/ /\ KillGroup(a, "contV", StartTerm(a), StartTerm(a))
           /\ UNCHANGED <<controller, rec>>

Stopped ==
    /\ At("stopper", "finish")
    /\ rec' = IF Complete(act["stopper"]) THEN "stopped" ELSE "stop-incomplete"
    /\ Becomes("stopper", End(act["stopper"]))
    /\ UNCHANGED <<proc, births, controller>>

-----------------------------------------------------------------------------
(* The specification. *)

ControllerStep ==
    \/ PollExit \/ TerminateOwned \/ Finish
    \/ \E pc \in {"pauseV", "resumeV"} : PauseOrResume(pc) \/ PauseOrResumeSend(pc)

CleanupStep(a) ==
    \/ ScanBegin(a) \/ ScanEnd(a) \/ Pass(a) \/ Kill(a)
    \/ \E m \in act[a].todo : Check(a, m)
    \/ a = "controller" /\ ControllerStep
    \/ a = "stopper" /\ (StopGroup \/ Stopped)

Next ==
    \/ World /\ UNCHANGED <<act, controller, rec>>
    \/ ReapOrphan
    \/ \E a \in Actors : CleanupStep(a) \/ Expire(a)
    \/ \E pc \in {"pauseV", "resumeV", "contV"} : Sample(pc)
    \/ Raise \/ Die \/ Load

Spec == Init /\ [][Next]_vars

\* The cleaners are scheduled and their clocks run; the run's processes are
\* under no obligation, not even to die of a signal.
FairSpec ==
    /\ Spec
    /\ WF_vars(\E a \in Actors : CleanupStep(a))
    /\ SF_vars(\E a \in Actors : Expire(a))

-----------------------------------------------------------------------------
(* Properties. *)

Actor == [pc: {"idle", "watch", "scan", "scanning", "signal", "kill", "finish",
               "ended", "contV", "contK", "termV", "termK", "pauseV", "pauseK",
               "resumeV", "resumeK"},
          phase: {"none", "natural", "term", "kill", "wait", "reap"},
          begun: SUBSET Members, found: SUBSET Members, bad: BOOLEAN,
          todo: SUBSET Members, checked: Members \cup {NoMember},
          termed: SUBSET Pids, killed: SUBSET Members, err: BOOLEAN,
          expired: BOOLEAN, out: {"none", "complete", "incomplete"},
          slipped: BOOLEAN, termAt: Nat, killAt: Nat]

\* Type invariant of the cleaners' and the processes' state.
TypeOK ==
    /\ ProcTypeOK
    /\ act \in [Actors -> Actor]
    /\ paused \in BOOLEAN /\ samples \in 0 .. MaxSamples
    /\ reason \in {"none", "abort", "raise"}
    /\ rec \in {"running", "aborted", "exited", "forced", "incomplete",
                "stopped", "stop-incomplete"}

OwnResidue == {p \in SessionLive : proc[p].kin # "foreign"}

\* A record that says the run stopped, exited or was cleaned up is true: unless
\* a process was forked during the writer's last scan and missed by it, nothing
\* of the run's session is left, rewritten environments included.
RecordedEndIsEmpty ==
    /\ rec = "stopped" /\ ~act["stopper"].slipped => OwnResidue = {}
    /\ rec \in {"exited", "forced"} /\ ~act["controller"].slipped
         => OwnResidue = {}

\* Somebody else's process is signalled only when it took the number over
\* between the check of its holder and the signal (stop_run.py:421, 600).
ForeignOnlyInWindow ==
    [][\A p \in Pids :
         /\ Live(p) /\ proc[p].kin = "foreign"
         /\ \/ proc'[p].sig \ proc[p].sig # {}
            \/ {proc[p].st, proc'[p].st} = {"run", "stop"}
         => \E a \in Actors : act[a].checked # NoMember
                /\ proc[act[a].checked.pid].born # act[a].checked.born]_vars

\* SIGKILL is the second offer: a member of the recorded group that was alive
\* when the last SIGTERM scan began is not killed without having been sent
\* SIGTERM, unless its number's former holder was.
KillAfterTerm ==
    [][\A a \in Actors, p \in Pids :
         /\ At(a, "kill") /\ act[a].phase = "kill" /\ act[a].checked.pid = p
         /\ "KILL" \in proc'[p].sig \ proc[p].sig
         /\ proc[p].kin = "own" /\ proc[p].grp
         => \/ "TERM" \in proc[p].sig \/ proc[p].born > act[a].termAt
            \/ p \in act[a].termed]_vars

\* Every reported survivor of the recorded group was sent SIGKILL or came
\* after the scan of the kill pass began.
NoSurvivorSpared ==
    \A a \in Actors : act[a].phase = "reap" =>
        \A m \in act[a].found :
            m.grp => m \in act[a].killed \/ m.born > act[a].killAt

\* A cleanup that was begun ends, whatever the processes do: each is begun at
\* most once, so it suffices that time and again none is going on.
CleanupEnds == []<>(\A a \in Actors : act[a].phase = "none")
=============================================================================
