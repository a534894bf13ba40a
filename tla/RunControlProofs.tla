-------------------------- MODULE RunControlProofs --------------------------
(***************************************************************************)
(* The safety properties of RunControl hold for every set of process       *)
(* numbers and every number of births, pauses and interruptions.  The      *)
(* invariant says of the process table that a group with a process of the  *)
(* run in it has no stranger in it, and of the parent where in its program *)
(* a run that it calls paused is in fact stopped.                          *)
(***************************************************************************)
EXTENDS RunControl, TLAPS

-----------------------------------------------------------------------------
(* The invariant. *)

\* A start time names one holder of a number; while a process of the run is
\* there, nobody else carries the group or the session.
TableOK(P, n) ==
    /\ P \in [Pids -> Process]
    /\ n \in LeaderBorn .. MaxBirths + LeaderBorn
    /\ \A p \in Pids :
         /\ P[p].born <= n
         /\ P[p].st = "free" => P[p] = Free
         /\ P[p].st # "free" => P[p].born # 0
         /\ P[p].kin # "foreign" => P[p].ses
         /\ P[p].born = LeaderBorn => p = Leader /\ P[p].kin # "foreign" /\ P[p].grp
    /\ \A p, q \in Pids :
         P[p].kin # "foreign" /\ P[q].kin = "foreign" => ~P[q].ses /\ ~P[q].grp

OwnIn(P, p) == P[p].st \in {"run", "stop"} /\ P[p].kin = "own" /\ P[p].grp
NoOwn(P) == \A p \in Pids : ~OwnIn(P, p)
AllStopped(P) == \A p \in Pids : OwnIn(P, p) => P[p].st = "stop"

Pcs == {"idle", "wait", "post", "poll", "drain", "return", "final", "scanning", "ended"}
         \cup DOMAIN Sending \cup {"termK", "contK", "stopK", "pauseK", "resumeK", "restopK"}
SendPcs == {"termK", "contK", "stopK", "pauseK", "resumeK", "restopK"}
Holders == [pid: Pids, born: Nat]
Actor == [pc: Pcs, checked: Holders, expired: BOOLEAN, begun: SUBSET Holders,
          slipped: BOOLEAN]

\* Whoever is about to signal has checked a process of the run; its number is
\* still that process's, or has changed hands.
CheckedOK(r, P, n) ==
    /\ r \in Actor /\ r.checked.born <= n
    /\ r.checked.born # 0 /\ P[r.checked.pid].born = r.checked.born
         => P[r.checked.pid].kin # "foreign"
    /\ r.pc \in SendPcs => r.checked.born # 0

ControlOK ==
    /\ mode \in Modes /\ pressure \in {"none", "soft", "compute", "timeout"}
    /\ ctx \in {"none", "watchdog", "post", "handler", "crashing"}
    /\ paused \in BOOLEAN /\ crashed \in BOOLEAN
    /\ pauses \in 0 .. MaxPauses /\ interrupts \in 0 .. MaxInterrupts
    /\ status \in {"running", "paused", "ambiguous"}

\* The final record is written at the end, and true.
RecordOK ==
    /\ rec \in {"running", "paused", "ambiguous", "exited", "alive"}
    /\ At(Parent, "ended") => rec # "running"
    /\ ~At(Parent, "ended") => rec \in {"running", "paused", "ambiguous"}
    /\ rec = "exited" /\ ~act[Parent].slipped => NoOwn(proc)

\* Only between its SIGCONT and the SIGSTOP for survivors does the parent call
\* a run paused that is not.
Undisturbed == interrupts = 0 /\ At(Caller, "idle")
PauseOK ==
    /\ At(Parent, "wait") => rec = status
    /\ Undisturbed =>
         /\ status = "paused" /\ act[Parent].pc \notin {"drain", "stopV", "stopK"}
              => AllStopped(proc)
         /\ At(Parent, "ended") /\ rec = "paused" => AllStopped(proc)

IInv ==
    /\ TableOK(proc, births)
    /\ act \in [Actors -> Actor]
    /\ \A a \in Actors : CheckedOK(act[a], proc, births)
    /\ ControlOK /\ RecordOK /\ PauseOK

-----------------------------------------------------------------------------
(* The process table. *)

\* A number keeps its holder, or falls free, or gets a newer one.
Kept(q, r) == r.born = q.born /\ (r.kin = "foreign" <=> q.kin = "foreign")
TableStep(P, n, Q, k) ==
    /\ k >= n
    /\ \A p \in Pids : Kept(P[p], Q[p]) \/ Q[p] = Free \/ Q[p].born > n

\* An operation on the table that keeps it in order; one that wakes nobody.
Ground == /\ TableOK(proc', births') /\ TableStep(proc, births, proc', births')
          /\ NoOwn(proc) => NoOwn(proc')
Quiet == AllStopped(proc) => AllStopped(proc')

LEMMA TableTypes ==
  ASSUME NEW P, NEW n, TableOK(P, n)
  PROVE  /\ n \in Nat /\ n >= 1 /\ P \in [Pids -> Process]
         /\ \A p \in Pids :
              /\ P[p] \in Process /\ P[p].born \in Nat /\ P[p].born <= n
              /\ P[p].grp \in BOOLEAN /\ P[p].ses \in BOOLEAN
BY ProcessAssumption DEF TableOK, Process, LeaderBorn

LEMMA StandsStill ==
  ASSUME TableOK(proc, births), proc' = proc, births' = births
  PROVE  Ground /\ Quiet
BY TableTypes DEF Ground, Quiet, TableStep, Kept

\* One holder changes and stays within what the table requires.
LEMMA HolderChanges ==
  ASSUME TableOK(proc, births), births' = births, NEW p \in Pids, NEW q \in Process,
         proc' = [proc EXCEPT ![p] = q], proc[p].st # "free", q.st # "free",
         Kept(proc[p], q), q.ses = proc[p].ses, q.grp => proc[p].grp,
         p = Leader => q.grp = proc[p].grp,
         q.kin = "own" => proc[p].kin = "own",
         q.st = "run" => proc[p].st = "run",
         q.st = "stop" => proc[p].st = "stop"
  PROVE  Ground /\ Quiet
<1>1. /\ proc' \in [Pids -> Process] /\ proc'[p] = q
      /\ \A o \in Pids \ {p} : proc'[o] = proc[o]
  BY TableTypes
<1>2. TableOK(proc', births')
  <2>1. \A o \in Pids :
          /\ proc'[o].born <= births
          /\ proc'[o].st = "free" => proc'[o] = Free
          /\ proc'[o].st # "free" => proc'[o].born # 0
          /\ proc'[o].kin # "foreign" => proc'[o].ses
          /\ proc'[o].born = LeaderBorn =>
               o = Leader /\ proc'[o].kin # "foreign" /\ proc'[o].grp
    BY <1>1 DEF TableOK, Kept
  <2>2. \A o, u \in Pids :
          proc'[o].kin # "foreign" /\ proc'[u].kin = "foreign" => ~proc'[u].ses /\ ~proc'[u].grp
    BY <1>1 DEF TableOK, Kept
  <2> QED
    BY <1>1, <2>1, <2>2 DEF TableOK
<1>3. TableStep(proc, births, proc', births')
  BY <1>1, TableTypes DEF TableStep, Kept
<1>4. \A o \in Pids : /\ OwnIn(proc', o) => OwnIn(proc, o)
                      /\ OwnIn(proc', o) /\ proc'[o].st # "stop" => proc[o].st # "stop"
  BY <1>1 DEF OwnIn
<1> QED
  BY <1>2, <1>3, <1>4 DEF Ground, Quiet, NoOwn, AllStopped

LEMMA NumberFallsFree ==
  ASSUME TableOK(proc, births), NEW p \in Pids, ReapPid(p)
  PROVE  Ground /\ Quiet
<1>1. /\ Free \in Process /\ Free.born = 0 /\ Free.st = "free" /\ Free.kin = "foreign"
      /\ ~Free.ses /\ ~Free.grp
  BY DEF Free, Process, Offers
<1>2. /\ births' = births /\ proc' \in [Pids -> Process] /\ proc'[p] = Free
      /\ \A o \in Pids \ {p} : proc'[o] = proc[o]
  BY <1>1, TableTypes DEF ReapPid
<1>3. TableOK(proc', births')
  BY <1>1, <1>2 DEF TableOK, LeaderBorn
<1>4. TableStep(proc, births, proc', births')
  BY <1>2, TableTypes DEF TableStep, Kept
<1>5. \A o \in Pids : OwnIn(proc', o) => OwnIn(proc, o) /\ proc'[o] = proc[o]
  BY <1>1, <1>2 DEF OwnIn
<1> QED
  BY <1>3, <1>4, <1>5 DEF Ground, Quiet, NoOwn, AllStopped

\* A process of the run in its group is born of one that runs there.
LEMMA NumberIsTaken ==
  ASSUME TableOK(proc, births), NEW p \in Pids, NEW kin \in {"own", "scrub", "foreign"},
         NEW grp \in BOOLEAN, NEW ses \in BOOLEAN, Born(p, kin, grp, ses),
         kin # "foreign" => ses,
         kin = "own" /\ grp => \E o \in Pids : OwnIn(proc, o) /\ proc[o].st = "run",
         \A o \in Pids : proc[o].kin # "foreign" /\ kin = "foreign" => ~ses /\ ~grp,
         \A o \in Pids : proc[o].kin = "foreign" /\ kin # "foreign"
                           => ~proc[o].ses /\ ~proc[o].grp
  PROVE  Ground /\ Quiet
<1> DEFINE q == [st |-> "run", kin |-> kin, grp |-> grp, ses |-> ses,
                 born |-> births + 1, sig |-> {}]
<1>1. births \in Nat /\ births >= 1 /\ births < MaxBirths + LeaderBorn
  BY TableTypes DEF Born
<1>2. q \in Process
  BY <1>1 DEF Process, Offers
<1>3. /\ births' = births + 1 /\ proc' \in [Pids -> Process] /\ proc'[p] = q
      /\ \A o \in Pids \ {p} : proc'[o] = proc[o]
  BY <1>2, TableTypes DEF Born
<1>4. /\ q.st = "run" /\ q.kin = kin /\ q.grp = grp /\ q.ses = ses /\ q.born = births + 1
  OBVIOUS
<1> HIDE DEF q
<1>5. births' \in LeaderBorn .. MaxBirths + LeaderBorn
  BY <1>1, <1>3, ProcessAssumption DEF LeaderBorn
<1>6. \A o \in Pids :
        /\ proc'[o].born <= births'
        /\ proc'[o].st = "free" => proc'[o] = Free
        /\ proc'[o].st # "free" => proc'[o].born # 0
        /\ proc'[o].kin # "foreign" => proc'[o].ses
        /\ proc'[o].born = LeaderBorn =>
             o = Leader /\ proc'[o].kin # "foreign" /\ proc'[o].grp
  <2> TAKE o \in Pids
  <2>1. CASE o = p
    BY <1>1, <1>3, <1>4, <2>1 DEF LeaderBorn
  <2>2. CASE o # p
    <3>1. proc'[o] = proc[o] /\ births <= births'
      BY <1>1, <1>3, <2>2
    <3> QED
      BY <1>1, <1>3, <3>1, TableTypes DEF TableOK
  <2> QED
    BY <2>1, <2>2
<1>7. \A o, u \in Pids :
        proc'[o].kin # "foreign" /\ proc'[u].kin = "foreign" => ~proc'[u].ses /\ ~proc'[u].grp
  BY <1>3, <1>4 DEF TableOK
<1>8. TableOK(proc', births')
  BY <1>3, <1>5, <1>6, <1>7 DEF TableOK
<1>9. TableStep(proc, births, proc', births')
  BY <1>1, <1>3, <1>4, TableTypes DEF TableStep, Kept
<1>10. \A o \in Pids : OwnIn(proc', o) =>
         \/ OwnIn(proc, o) /\ proc'[o] = proc[o]
         \/ \E u \in Pids : OwnIn(proc, u) /\ proc[u].st = "run"
  BY <1>3, <1>4 DEF OwnIn
<1> QED
  BY <1>8, <1>9, <1>10 DEF Ground, Quiet, NoOwn, AllStopped

LEMMA WorldIsQuiet ==
  ASSUME TableOK(proc, births), World
  PROVE  Ground /\ Quiet
<1>1. PICK p \in Pids : \/ \E q \in Pids : Fork(p, q)
                        \/ LeaveGroup(p)
                        \/ RewriteEnvironment(p)
                        \/ Exit(p)
                        \/ ReapOther(p)
                        \/ ForeignBirth(p)
  BY DEF World
<1>2. proc[p] \in Process /\ proc \in [Pids -> Process]
  BY TableTypes
<1>3. ASSUME NEW q \in Pids, Fork(p, q)
      PROVE  Ground /\ Quiet
  <2>1. proc[p].st = "run" /\ proc[p].ses /\ Born(q, proc[p].kin, proc[p].grp, TRUE)
    BY <1>3 DEF Fork, Runs, InSession
  <2>2. proc[p].kin \in {"own", "scrub", "foreign"} /\ proc[p].grp \in BOOLEAN
    BY <1>2 DEF Process
  <2>3. proc[p].kin = "own" /\ proc[p].grp => OwnIn(proc, p)
    BY <2>1 DEF OwnIn
  <2>4. \A o \in Pids :
          /\ proc[o].kin # "foreign" /\ proc[p].kin = "foreign" => ~TRUE /\ ~proc[p].grp
          /\ proc[o].kin = "foreign" /\ proc[p].kin # "foreign"
               => ~proc[o].ses /\ ~proc[o].grp
    BY <2>1 DEF TableOK
  <2> QED
    BY <2>1, <2>2, <2>3, <2>4, NumberIsTaken
<1>4. CASE LeaveGroup(p)
  <2> DEFINE q == [proc[p] EXCEPT !.grp = FALSE]
  <2>1. /\ proc' = [proc EXCEPT ![p] = q] /\ births' = births
        /\ proc[p].st = "run" /\ p # Leader
    BY <1>2, <1>4 DEF LeaveGroup, Runs
  <2>2. /\ q \in Process /\ Kept(proc[p], q) /\ q.st = "run" /\ ~q.grp
        /\ q.kin = proc[p].kin /\ q.ses = proc[p].ses
    BY <1>2, <2>1 DEF Process, Kept
  <2> HIDE DEF q
  <2> QED
    BY <2>1, <2>2, HolderChanges
<1>5. CASE RewriteEnvironment(p)
  <2> DEFINE q == [proc[p] EXCEPT !.kin = "scrub"]
  <2>1. /\ proc' = [proc EXCEPT ![p] = q] /\ births' = births
        /\ proc[p].st = "run" /\ proc[p].kin = "own"
    BY <1>2, <1>5 DEF RewriteEnvironment, Runs
  <2>2. /\ q \in Process /\ Kept(proc[p], q) /\ q.st = "run" /\ q.grp = proc[p].grp
        /\ q.kin = "scrub" /\ q.ses = proc[p].ses
    BY <1>2, <2>1 DEF Process, Kept
  <2> HIDE DEF q
  <2> QED
    BY <2>1, <2>2, HolderChanges
<1>6. CASE Exit(p)
  <2> DEFINE q == [proc[p] EXCEPT !.st = "dead"]
  <2>1. proc' = [proc EXCEPT ![p] = q] /\ births' = births /\ proc[p].st \in {"run", "stop"}
    BY <1>2, <1>6 DEF Exit
  <2>2. /\ q \in Process /\ Kept(proc[p], q) /\ q.st = "dead" /\ q.grp = proc[p].grp
        /\ q.kin = proc[p].kin /\ q.ses = proc[p].ses
    BY <1>2, <2>1 DEF Process, Kept
  <2> HIDE DEF q
  <2> QED
    BY <2>1, <2>2, HolderChanges
<1>7. CASE ReapOther(p)
  BY <1>7, NumberFallsFree DEF ReapOther
<1>8. CASE ForeignBirth(p)
  <2>1. PICK lead \in BOOLEAN : Born(p, "foreign", lead /\ p = Leader, lead /\ p = Leader)
    BY <1>8 DEF ForeignBirth
  <2>2. (lead /\ p = Leader) \in BOOLEAN
    OBVIOUS
  <2>3. \A o \in Pids : proc[o].kin # "foreign" => ~(lead /\ p = Leader)
    <3> SUFFICES ASSUME NEW o \in Pids, proc[o].kin # "foreign", lead, p = Leader
                 PROVE  FALSE
      OBVIOUS
    <3>1. Free.kin = "foreign"
      BY DEF Free
    <3>2. proc[o].ses /\ proc[o].st # "free"
      BY <3>1 DEF TableOK
    <3>3. InSession(o)
      BY <3>2 DEF InSession, Exists
    <3> QED
      BY <2>1, <3>3 DEF Born, Available
  <2> QED
    BY <2>1, <2>2, <2>3, NumberIsTaken
<1> QED
  BY <1>1, <1>3, <1>4, <1>5, <1>6, <1>7, <1>8

LEMMA PollIsQuiet ==
  ASSUME TableOK(proc, births), Polled \/ ReapPid(Leader) \/ UNCHANGED <<proc, births>>
  PROVE  Ground /\ Quiet
BY StandsStill, NumberFallsFree, ProcessAssumption DEF Polled

\* SIGCONT alone wakes; SIGSTOP stops the whole group.
LEMMA DeliveryToGroup ==
  ASSUME TableOK(proc, births), NEW s \in Signals, Deliver(Group, s)
  PROVE  /\ Ground
         /\ s # "CONT" => Quiet
         /\ s = "STOP" => AllStopped(proc')
<1>1. births' = births /\ proc \in [Pids -> Process]
  BY TableTypes DEF Deliver
<1>2. ASSUME NEW p \in Pids
      PROVE  /\ proc'[p] \in Process
             /\ proc'[p].born = proc[p].born /\ proc'[p].kin = proc[p].kin
             /\ proc'[p].ses = proc[p].ses /\ proc'[p].grp = proc[p].grp
             /\ proc'[p].st \in {"run", "stop"} <=> proc[p].st \in {"run", "stop"}
             /\ proc[p].st = "free" => proc'[p] = proc[p]
             /\ s # "CONT" /\ proc[p].st = "stop" => proc'[p].st = "stop"
             /\ s = "STOP" /\ OwnIn(proc, p) => proc'[p].st = "stop"
  <2>1. proc[p] \in Process
    BY <1>1
  <2>2. CASE p \in Group /\ Live(p)
    <3> DEFINE sig == proc[p].sig \cup ({s} \cap Offers)
               st == CASE s = "STOP" -> "stop" [] s = "CONT" -> "run" [] OTHER -> proc[p].st
    <3>1. sig \in SUBSET Offers
      BY <2>1 DEF Process
    <3>2. /\ st \in {"run", "stop"}
          /\ s # "CONT" /\ proc[p].st = "stop" => st = "stop"
          /\ s = "STOP" => st = "stop"
      <4>1. proc[p].st \in {"run", "stop"}
        BY <2>2 DEF Live
      <4>2. CASE s = "STOP"
        BY <4>2
      <4>3. CASE s = "CONT"
        BY <4>3
      <4>4. CASE s # "STOP" /\ s # "CONT"
        BY <4>1, <4>4
      <4> QED
        BY <4>2, <4>3, <4>4
    <3>3. proc'[p] = [proc[p] EXCEPT !.sig = sig, !.st = st]
      BY <2>2 DEF Deliver, Signalled
    <3> HIDE DEF sig, st
    <3>4. /\ proc'[p] \in Process /\ proc'[p].st = st
          /\ proc'[p].born = proc[p].born /\ proc'[p].kin = proc[p].kin
          /\ proc'[p].ses = proc[p].ses /\ proc'[p].grp = proc[p].grp
      BY <2>1, <3>1, <3>2, <3>3 DEF Process
    <3> QED
      BY <2>2, <3>2, <3>4 DEF Live
  <2>3. CASE ~(p \in Group /\ Live(p))
    <3>1. proc'[p] = proc[p]
      BY <2>3 DEF Deliver
    <3>2. ~OwnIn(proc, p)
      BY <2>3 DEF OwnIn, Group, InGroup, Exists, Live
    <3> QED
      BY <2>1, <3>1, <3>2
  <2> QED
    BY <2>2, <2>3
<1>3. proc' \in [Pids -> Process]
  BY <1>2 DEF Deliver
<1>4. TableOK(proc', births')
  <2>1. \A p \in Pids : proc'[p].st = "free" => proc[p].st = "free" \/ proc[p].st = "dead"
    BY <1>1, <1>2 DEF Process
  <2>2. \A p \in Pids : proc[p].st = "dead" => proc'[p].st # "free"
    <3> TAKE p \in Pids
    <3> QED
      BY DEF Deliver, Live
  <2> QED
    BY <1>1, <1>2, <1>3, <2>1, <2>2 DEF TableOK
<1>5. TableStep(proc, births, proc', births')
  BY <1>1, <1>2, TableTypes DEF TableStep, Kept
<1>6. \A p \in Pids : OwnIn(proc', p) <=> OwnIn(proc, p)
  BY <1>2 DEF OwnIn
<1>7. NoOwn(proc) => NoOwn(proc')
  BY <1>6 DEF NoOwn
<1>8. /\ s # "CONT" => Quiet
      /\ s = "STOP" => AllStopped(proc')
  BY <1>2, <1>6 DEF Quiet, AllStopped
<1> QED
  BY <1>4, <1>5, <1>7, <1>8 DEF Ground

-----------------------------------------------------------------------------
(* What an operation on the table leaves true, and a step of an actor.       *)

LEMMA Facts ==
  ASSUME IInv
  PROVE  /\ TableOK(proc, births) /\ births \in Nat /\ births >= 1
         /\ act \in [Actors -> Actor] /\ Parent \in Actors /\ Caller \in Actors
         /\ Parent # Caller /\ Leader \in Pids
         /\ \A a \in Actors : act[a] \in Actor /\ CheckedOK(act[a], proc, births)
         /\ ControlOK /\ RecordOK /\ PauseOK
BY TableTypes, ProcessAssumption DEF IInv, Actors, Parent, Caller

LEMMA CheckedStays ==
  ASSUME TableOK(proc, births), Ground, NEW r, CheckedOK(r, proc, births)
  PROVE  CheckedOK(r, proc', births')
<1>1. /\ births \in Nat /\ births' \in Nat /\ births <= births'
      /\ \A p \in Pids : proc'[p].born \in Nat /\ proc[p].born \in Nat
  BY TableTypes DEF Ground, TableStep
<1>2. r \in Actor /\ r.checked.pid \in Pids /\ r.checked.born \in Nat /\ Free.born = 0
  BY DEF CheckedOK, Actor, Holders, Free
<1>3. ASSUME r.checked.born # 0, proc'[r.checked.pid].born = r.checked.born
      PROVE  proc'[r.checked.pid].kin # "foreign"
  <2>1. r.checked.born <= births
    BY DEF CheckedOK
  <2>2. Kept(proc[r.checked.pid], proc'[r.checked.pid])
    BY <1>1, <1>2, <1>3, <2>1 DEF Ground, TableStep
  <2> QED
    BY <1>3, <2>2 DEF Kept, CheckedOK
<1> QED
  BY <1>1, <1>2, <1>3 DEF CheckedOK

\* One actor goes to a place where nothing is about to be signalled.
LEMMA ActorGoes ==
  ASSUME IInv, Ground, NEW a \in Actors, NEW r, CheckedOK(r, proc', births'),
         act' = [act EXCEPT ![a] = r], ControlOK', RecordOK', PauseOK'
  PROVE  IInv'
<1>1. r \in Actor /\ act'[a] = r /\ \A b \in Actors \ {a} : act'[b] = act[b]
  BY Facts DEF CheckedOK
<1>2. act' \in [Actors -> Actor]
  BY <1>1, Facts
<1>3. \A b \in Actors : CheckedOK(act'[b], proc', births')
  BY <1>1, Facts, CheckedStays
<1> QED
  BY <1>2, <1>3 DEF IInv, Ground

LEMMA NowhereToSend ==
  ASSUME IInv, NEW P, NEW n, TableOK(P, n), NEW a \in Actors, NEW pc \in Pcs \ SendPcs
  PROVE  /\ CheckedOK(Jump(a, pc), P, n)
         /\ Jump(a, pc).pc = pc /\ Jump(a, pc).slipped = act[a].slipped
<1> DEFINE r == Jump(a, pc)
<1>1. act[a] \in Actor /\ Nobody \in Holders /\ Nobody.born = 0 /\ n \in Nat
  BY Facts, TableTypes DEF Nobody, Holders
<1> HIDE DEF Nobody
<1>2. r \in Actor /\ r.pc = pc /\ r.checked = Nobody /\ r.slipped = act[a].slipped
  BY <1>1 DEF Jump, Actor
<1> HIDE DEF r
<1>3. CheckedOK(r, P, n)
  BY <1>1, <1>2 DEF CheckedOK
<1> QED
  BY <1>2, <1>3 DEF r

Restless == {"drain", "stopV", "stopK"}
Underway == Pcs \ (SendPcs \cup {"idle", "wait", "ended"})

LEMMA ParentGoes ==
  ASSUME IInv, Ground, ~At(Parent, "ended"), NEW pc \in Pcs \ (SendPcs \cup {"ended"}),
         Goto(Parent, pc), rec' \in {"running", "paused", "ambiguous"}, ControlOK',
         pc = "wait" => rec' = status',
         interrupts' = 0 /\ act[Caller].pc = "idle" /\ status' = "paused" /\ pc \notin Restless
           => AllStopped(proc')
  PROVE  IInv'
<1> DEFINE r == Jump(Parent, pc)
<1>1. act' = [act EXCEPT ![Parent] = r]
  BY DEF Goto, Becomes
<1>2. CheckedOK(r, proc', births') /\ r.pc = pc
  BY Facts, NowhereToSend DEF Ground
<1> HIDE DEF r
<1>3. act'[Parent] = r /\ act'[Caller] = act[Caller]
  BY <1>1, Facts
<1>4. RecordOK'
  BY <1>2, <1>3 DEF RecordOK, At
<1>5. PauseOK'
  BY <1>2, <1>3 DEF PauseOK, Undisturbed, At, Restless
<1> QED
  BY <1>1, <1>2, <1>4, <1>5, Facts, ActorGoes

\* The usual step: nobody is woken and the status is kept.
LEMMA ParentMovesOn ==
  ASSUME IInv, Ground, Quiet, ~At(Parent, "ended"), NEW pc \in Underway, Goto(Parent, pc),
         act[Parent].pc \in Restless => pc \in Restless \/ interrupts' # 0,
         status' = status, rec' = rec, ControlOK', interrupts' = 0 => interrupts = 0
  PROVE  IInv'
<1>1. rec \in {"running", "paused", "ambiguous"}
  BY Facts DEF RecordOK
<1>2. interrupts' = 0 /\ act[Caller].pc = "idle" /\ status' = "paused" /\ pc \notin Restless
        => AllStopped(proc')
  BY Facts DEF PauseOK, Undisturbed, At, Restless, Quiet
<1> QED
  BY <1>1, <1>2, ParentGoes DEF Underway

LEMMA ControlStays ==
  ASSUME IInv, UNCHANGED control
  PROVE  ControlOK' /\ status' = status /\ interrupts' = interrupts
BY DEF IInv, ControlOK, control

\* Only the table changes.
LEMMA OnlyTheTable ==
  ASSUME IInv, Ground, Quiet, act' = act, rec' = rec, ControlOK',
         status' = status, interrupts' = interrupts
  PROVE  IInv'
<1>1. \A a \in Actors : CheckedOK(act'[a], proc', births')
  BY Facts, CheckedStays
<1>2. RecordOK'
  BY Facts DEF RecordOK, At, Ground
<1>3. PauseOK'
  BY Facts DEF PauseOK, Undisturbed, At, Quiet
<1> QED
  BY <1>1, <1>2, <1>3, Facts DEF IInv, Ground

\* The stopper moves; from then on the parent is disturbed.
LEMMA CallerMoves ==
  ASSUME IInv, Ground, NEW r, CheckedOK(r, proc', births'), r.pc # "idle",
         act' = [act EXCEPT ![Caller] = r], UNCHANGED <<control, rec>>
  PROVE  IInv'
<1>1. act'[Caller] = r /\ act'[Parent] = act[Parent]
  BY Facts
<1>2. ControlOK' /\ status' = status
  BY ControlStays
<1>3. RecordOK'
  BY <1>1, Facts DEF RecordOK, At, Ground
<1>4. PauseOK'
  BY <1>1, <1>2, Facts DEF PauseOK, Undisturbed, At
<1> QED
  BY <1>2, <1>3, <1>4, Facts, ActorGoes

-----------------------------------------------------------------------------
(* A verified group. *)

\* The witness of a verified group is a process of the run.
LEMMA WitnessIsOwn ==
  ASSUME IInv, "ok" \in VerifyLegacy
  PROVE  /\ Witness \in Holders /\ Witness.born # 0 /\ Witness.born <= births
         /\ proc[Witness.pid].kin # "foreign"
<1>1. PICK p \in Pids : Witness = Holder(p) /\ proc[p].born # 0 /\ proc[p].kin # "foreign"
  <2>1. CASE Verify # {"gone"}
    <3>1. proc[Leader].born = LeaderBorn /\ proc[Leader].st # "free"
      BY <2>1 DEF VerifyLegacy, Verify
    <3>2. InGroup(Leader) /\ proc[Leader].kin # "foreign"
      BY <3>1, Facts DEF TableOK, InGroup, Exists
    <3> QED
      BY <3>1, <3>2, Facts DEF Witness, LeaderBorn
  <2>2. CASE Verify = {"gone"}
    <3>1. proc[Leader].st = "free"
      BY <2>2 DEF Verify
    <3>2. Group # {} /\ "ok" \in OwnedGroup
      BY <2>2 DEF VerifyLegacy
    <3>3. \A q \in Group : proc[q].kin = "own"
      BY <3>2 DEF OwnedGroup
    <3>4. PICK p \in Group : p = CHOOSE q \in Group : TRUE
      BY <3>2
    <3>5. Witness = Holder(p)
      BY <3>1, <3>4 DEF Witness, InGroup, Exists
    <3>6. p \in Pids /\ proc[p].st # "free"
      BY DEF Group, InGroup, Exists
    <3> QED
      BY <3>3, <3>5, <3>6, Facts DEF TableOK
  <2> QED
    BY <2>1, <2>2
<1>2. proc[p].born \in Nat /\ proc[p].born <= births
  BY Facts, TableTypes
<1> QED
  BY <1>1, <1>2 DEF Holder, Holders

LEMMA VerifiedKeeps ==
  ASSUME IInv, NEW a \in Actors, NEW v \in DOMAIN Sending, Verified(a, v)
  PROVE  IInv'
<1> DEFINE w == Witness
           r == [act[a] EXCEPT !.pc = Sending[v], !.checked = w]
<1>1. /\ act' = [act EXCEPT ![a] = r] /\ act[a].pc = v /\ "ok" \in VerifyLegacy
      /\ proc' = proc /\ births' = births /\ UNCHANGED <<control, rec>>
  BY DEF Verified, Becomes, At
<1>2. /\ Sending[v] \in SendPcs /\ v \in Pcs
      /\ Sending[v] = "stopK" <=> v = "stopV"
      /\ v \notin {"idle", "wait", "ended", "drain", "stopK"}
  BY DEF Sending, SendPcs, Pcs
<1>3. /\ w \in Holders /\ w.born # 0 /\ w.born <= births /\ proc[w.pid].kin # "foreign"
  BY <1>1, WitnessIsOwn
<1> HIDE DEF w
<1>4. /\ r \in Actor /\ r.pc = Sending[v] /\ r.checked = w /\ r.slipped = act[a].slipped
  <2>1. act[a] \in Actor /\ Sending[v] \in Pcs
    BY <1>2, Facts DEF SendPcs, Pcs
  <2> QED
    BY <1>3, <2>1 DEF Actor
<1> HIDE DEF r
<1>5. Ground /\ Quiet
  BY <1>1, Facts, StandsStill
<1>6. CheckedOK(r, proc', births')
  BY <1>1, <1>3, <1>4 DEF CheckedOK
<1>7. CASE a = Caller
  BY <1>1, <1>2, <1>4, <1>5, <1>6, <1>7, CallerMoves DEF SendPcs
<1>8. CASE a = Parent
  <2>1. act'[Parent] = r /\ act'[Caller] = act[Caller]
    BY <1>1, <1>8, Facts
  <2>2. ControlOK' /\ status' = status /\ interrupts' = interrupts /\ rec' = rec
    BY <1>1, ControlStays
  <2>3. RecordOK'
    BY <1>1, <1>2, <1>4, <1>8, <2>1, <2>2, Facts DEF RecordOK, At, SendPcs
  <2>4. PauseOK'
    BY <1>1, <1>2, <1>4, <1>8, <2>1, <2>2, Facts DEF PauseOK, Undisturbed, At, SendPcs
  <2> QED
    BY <1>1, <1>5, <1>6, <1>8, <2>2, <2>3, <2>4, ActorGoes
<1> QED
  BY <1>7, <1>8 DEF Actors, Parent, Caller

LEMMA SendIsGround ==
  ASSUME IInv, NEW a \in Actors, NEW v \in DOMAIN Sending, Sends(a, v)
  PROVE  /\ Ground /\ act[a].pc = Sending[v]
         /\ v \notin {"contV", "resumeV"} => Quiet
         /\ v \in {"stopV", "pauseV", "restopV"} => AllStopped(proc')
<1>1. Signal[v] \in Signals /\ Deliver(Group, Signal[v]) /\ act[a].pc = Sending[v]
  BY DEF Sends, Signal, Sending, Signals, At
<1>2. /\ Signal[v] = "CONT" => v \in {"contV", "resumeV"}
      /\ v \in {"stopV", "pauseV", "restopV"} => Signal[v] = "STOP"
  BY DEF Signal, Sending
<1> QED
  BY <1>1, <1>2, Facts, DeliveryToGroup

LEMMA SendingPcs ==
  /\ DOMAIN Sending = {"termV", "contV", "stopV", "pauseV", "resumeV", "restopV"}
  /\ Sending["termV"] = "termK" /\ Sending["contV"] = "contK" /\ Sending["stopV"] = "stopK"
  /\ Sending["pauseV"] = "pauseK" /\ Sending["resumeV"] = "resumeK"
  /\ Sending["restopV"] = "restopK"
BY DEF Sending

\* An empty group is a stopped one.
LEMMA EmptyIsStopped ==
  ASSUME Group = {}
  PROVE  AllStopped(proc) /\ NoOwn(proc)
BY DEF Group, InGroup, Exists, AllStopped, NoOwn, OwnIn

-----------------------------------------------------------------------------
(* The parent's steps. *)

LEMMA ParentPcs ==
  /\ {"post", "poll", "drain", "return", "final", "scanning", "termV", "contV", "stopV",
      "pauseV", "resumeV", "restopV"} \subseteq Underway
  /\ Underway \subseteq Pcs /\ "wait" \in Pcs \ (SendPcs \cup {"ended"})
BY DEF Underway, Pcs, SendPcs, Sending

LEMMA ChildExitsKeeps ==
  ASSUME IInv, ChildExits
  PROVE  IInv'
<1>1. At(Parent, "wait") /\ ReapPid(Leader) /\ Goto(Parent, "post") /\ UNCHANGED control /\ rec' = rec
  BY DEF ChildExits
<1>2. Ground /\ Quiet
  BY <1>1, Facts, PollIsQuiet
<1> QED
  BY <1>1, <1>2, ControlStays, ParentMovesOn, ParentPcs DEF At, Restless

LEMMA HostKeeps ==
  ASSUME IInv, Host
  PROVE  IInv'
<1>1. Ground /\ Quiet
  BY Facts, StandsStill DEF Host
<1>2. ControlOK'
  BY DEF Host, IInv, ControlOK
<1> QED
  BY <1>1, <1>2, OnlyTheTable DEF Host

LEMMA WatchKeeps ==
  ASSUME IInv, Watch
  PROVE  IInv'
<1>1. Ground /\ Quiet
  BY Facts, StandsStill DEF Watch
<1>2. /\ At(Parent, "wait") /\ status' = status /\ interrupts' = interrupts /\ rec' = rec
      /\ \E pc \in {"poll", "pauseV", "resumeV"} : Goto(Parent, pc)
  BY DEF Watch
<1>3. ControlOK'
  BY DEF Watch, IInv, ControlOK
<1> QED
  BY <1>1, <1>2, <1>3, ParentMovesOn, ParentPcs DEF At, Restless

LEMMA PauseSentKeeps ==
  ASSUME IInv, PauseSent
  PROVE  IInv'
<1>1. Sends(Parent, "pauseV") /\ Goto(Parent, "wait") /\ status' = "paused" /\ rec' = "paused"
  BY DEF PauseSent
<1>2. Ground /\ AllStopped(proc') /\ ~At(Parent, "ended")
  BY <1>1, Facts, SendIsGround, SendingPcs DEF At
<1>3. ControlOK'
  <2>1. pauses' \in 0 .. MaxPauses
    <3>1. pauses \in Nat /\ pauses <= MaxPauses /\ MaxPauses \in Nat
      BY Facts, ControlAssumption DEF ControlOK
    <3>2. pauses' = IF pressure = "soft" /\ pauses < MaxPauses THEN pauses + 1 ELSE pauses
      BY DEF PauseSent
    <3> QED
      BY <3>1, <3>2
  <2> QED
    BY <2>1 DEF PauseSent, IInv, ControlOK
<1> QED
  BY <1>1, <1>2, <1>3, ParentGoes, ParentPcs

LEMMA ResumeSentKeeps ==
  ASSUME IInv, ResumeSent
  PROVE  IInv'
<1>1. Sends(Parent, "resumeV") /\ Goto(Parent, "wait") /\ status' = "running" /\ rec' = "running"
  BY DEF ResumeSent
<1>2. Ground /\ ~At(Parent, "ended")
  BY <1>1, Facts, SendIsGround, SendingPcs DEF At
<1>3. ControlOK'
  BY DEF ResumeSent, IInv, ControlOK
<1> QED
  BY <1>1, <1>2, <1>3, ParentGoes, ParentPcs

LEMMA PauseGoneKeeps ==
  ASSUME IInv, PauseGone
  PROVE  IInv'
<1>1. PICK v \in {"pauseV", "resumeV"} : At(Parent, v)
  BY DEF PauseGone, Fails
<1>2. Ground /\ Quiet
  BY Facts, PollIsQuiet DEF PauseGone
<1>3. Goto(Parent, "post") /\ UNCHANGED control /\ rec' = rec
  BY DEF PauseGone
<1> QED
  BY <1>1, <1>2, <1>3, ControlStays, ParentMovesOn, ParentPcs DEF At, Restless

LEMMA CheckRefusedKeeps ==
  ASSUME IInv, CheckRefused
  PROVE  IInv'
<1>1. act[Parent].pc \in {"pauseV", "resumeV", "termV", "restopV", "restopK"}
  BY DEF CheckRefused, Refused, Fails, At
<1>2. Crash
  BY DEF CheckRefused
<1>3. Ground /\ Quiet
  BY <1>2, Facts, PollIsQuiet DEF Crash
<1>4. /\ status' = status /\ interrupts' = interrupts /\ rec' = rec
      /\ \E pc \in {"poll", "final"} : Goto(Parent, pc)
  BY <1>2 DEF Crash
<1>5. ControlOK'
  BY <1>2 DEF Crash, IInv, ControlOK
<1> QED
  BY <1>1, <1>3, <1>4, <1>5, ParentMovesOn, ParentPcs DEF At, Restless

LEMMA PollKeeps ==
  ASSUME IInv, Poll
  PROVE  IInv'
<1>1. /\ At(Parent, "poll") /\ UNCHANGED control /\ rec' = rec
      /\ \E pc \in {"return", "termV"} : Goto(Parent, pc)
  BY DEF Poll
<1>2. Ground /\ Quiet
  BY Facts, PollIsQuiet DEF Poll
<1> QED
  BY <1>1, <1>2, ControlStays, ParentMovesOn, ParentPcs DEF At, Restless

LEMMA TermGoneKeeps ==
  ASSUME IInv, TermGone
  PROVE  IInv'
<1>1. act[Parent].pc \in {"termV", "termK"}
  BY SendingPcs DEF TermGone, Fails, Misses, At
<1>2. Ground /\ Quiet
  BY Facts, PollIsQuiet DEF TermGone, Misses
<1>3. Goto(Parent, "return") /\ UNCHANGED control /\ rec' = rec
  BY DEF TermGone
<1> QED
  BY <1>1, <1>2, <1>3, ControlStays, ParentMovesOn, ParentPcs DEF At, Restless

LEMMA TermSentKeeps ==
  ASSUME IInv, TermSent
  PROVE  IInv'
<1>1. Sends(Parent, "termV") /\ Goto(Parent, "contV") /\ UNCHANGED control /\ rec' = rec
  BY DEF TermSent
<1>2. Ground /\ Quiet /\ act[Parent].pc = "termK"
  BY <1>1, Facts, SendIsGround, SendingPcs
<1> QED
  BY <1>1, <1>2, ControlStays, ParentMovesOn, ParentPcs DEF At, Restless

\* From here to the next SIGSTOP the run may go on although it is called paused.
LEMMA ContKeeps ==
  ASSUME IInv, ContSent \/ ContEmpty
  PROVE  IInv'
<1>1. Goto(Parent, "drain") /\ UNCHANGED control /\ rec' = rec
  BY DEF ContSent, ContEmpty
<1>2. act[Parent].pc \in {"contV", "contK"} /\ Ground
  <2>1. CASE ContSent
    BY <2>1, Facts, SendIsGround, SendingPcs DEF ContSent
  <2>2. CASE ContEmpty
    BY <2>2, Facts, StandsStill, SendingPcs DEF ContEmpty, FollowupEmpty, Fails, At
  <2> QED
    BY <2>1, <2>2
<1>3. rec \in {"running", "paused", "ambiguous"}
  BY <1>2, Facts DEF RecordOK, At
<1> QED
  BY <1>1, <1>2, <1>3, ControlStays, ParentGoes, ParentPcs DEF At, Restless, Underway

LEMMA DrainKeeps ==
  ASSUME IInv, Drain
  PROVE  IInv'
<1>1. At(Parent, "drain") /\ UNCHANGED control /\ rec' = rec
  BY DEF Drain
<1>2. CASE ReapPid(Leader) /\ UNCHANGED act
  BY <1>1, <1>2, Facts, PollIsQuiet, OnlyTheTable, ControlStays
<1>3. CASE Group = {} /\ Goto(Parent, "return") /\ UNCHANGED <<proc, births>>
  <2>1. Ground /\ AllStopped(proc')
    BY <1>3, Facts, StandsStill, EmptyIsStopped
  <2>2. rec \in {"running", "paused", "ambiguous"}
    BY <1>1, Facts DEF RecordOK, At
  <2> QED
    BY <1>1, <1>3, <2>1, <2>2, ControlStays, ParentGoes, ParentPcs DEF At, Underway
<1> QED
  BY <1>2, <1>3 DEF Drain

LEMMA DrainExpiresKeeps ==
  ASSUME IInv, DrainExpires
  PROVE  IInv'
<1>1. /\ At(Parent, "drain") /\ Goto(Parent, "stopV") /\ UNCHANGED control /\ rec' = rec
  BY DEF DrainExpires
<1>2. Ground /\ Quiet
  BY Facts, StandsStill DEF DrainExpires
<1> QED
  BY <1>1, <1>2, ControlStays, ParentMovesOn, ParentPcs DEF At, Restless

LEMMA StopSentKeeps ==
  ASSUME IInv, StopSent
  PROVE  IInv'
<1>1. Goto(Parent, "return") /\ SetStatus("paused")
  BY DEF StopSent
<1>2. act[Parent].pc \in {"stopV", "stopK"} /\ Ground /\ AllStopped(proc')
  <2>1. CASE Sends(Parent, "stopV")
    BY <2>1, Facts, SendIsGround, SendingPcs
  <2>2. CASE FollowupEmpty(Parent, "stopV") /\ UNCHANGED <<proc, births>>
    BY <2>2, Facts, StandsStill, EmptyIsStopped, SendingPcs DEF FollowupEmpty, Fails, At
  <2> QED
    BY <2>1, <2>2 DEF StopSent
<1>3. ControlOK' /\ rec' \in {"running", "paused", "ambiguous"}
  BY <1>1, <1>2, Facts DEF SetStatus, ControlOK, RecordOK, At
<1> QED
  BY <1>1, <1>2, <1>3, ParentGoes, ParentPcs DEF At, Underway

LEMMA AmbiguousKeeps ==
  ASSUME IInv, Ambiguous
  PROVE  IInv'
<1>1. Goto(Parent, "return") /\ SetStatus("ambiguous") /\ act[Parent].pc \in {"contV", "stopV"}
  BY DEF Ambiguous, FollowupAmbiguous, Fails, At
<1>2. Ground
  BY Facts, StandsStill DEF Ambiguous
<1>3. ControlOK' /\ rec' \in {"running", "paused", "ambiguous"}
  BY <1>1, Facts DEF SetStatus, ControlOK, RecordOK, At
<1>4. status' = "ambiguous"
  BY <1>1 DEF SetStatus
<1> QED
  BY <1>1, <1>2, <1>3, <1>4, ParentGoes, ParentPcs DEF At, Underway

LEMMA ReturnKeeps ==
  ASSUME IInv, Return
  PROVE  IInv'
<1>1. /\ At(Parent, "return") /\ UNCHANGED control /\ rec' \in {rec, status}
      /\ \E pc \in {"final", "restopV", "post"} : Goto(Parent, pc)
  BY DEF Return
<1>2. Ground /\ Quiet
  BY Facts, StandsStill DEF Return
<1>3. rec' \in {"running", "paused", "ambiguous"}
  BY <1>1, Facts DEF RecordOK, ControlOK, At
<1>4. interrupts' = 0 /\ act[Caller].pc = "idle" /\ status' = "paused" => AllStopped(proc')
  BY <1>1, <1>2, Facts, ControlStays DEF PauseOK, Undisturbed, At, Restless, Quiet
<1> QED
  BY <1>1, <1>2, <1>3, <1>4, ControlStays, ParentGoes, ParentPcs DEF At, Underway

LEMMA RestopSentKeeps ==
  ASSUME IInv, RestopSent
  PROVE  IInv'
<1>1. Sends(Parent, "restopV") /\ Goto(Parent, "post") /\ rec' = "paused"
  BY DEF RestopSent
<1>2. Ground /\ AllStopped(proc') /\ ~At(Parent, "ended")
  BY <1>1, Facts, SendIsGround, SendingPcs DEF At
<1>3. ControlOK'
  BY DEF RestopSent, IInv, ControlOK
<1> QED
  BY <1>1, <1>2, <1>3, ParentGoes, ParentPcs DEF Underway

LEMMA PostKeeps ==
  ASSUME IInv, Post
  PROVE  IInv'
<1>1. /\ At(Parent, "post") /\ rec' = rec /\ interrupts' = interrupts
      /\ status' \in {status, "ambiguous"}
      /\ \E pc \in {"final", "poll"} : Goto(Parent, pc)
  BY DEF Post
<1>2. Ground /\ Quiet
  BY Facts, PollIsQuiet DEF Post
<1>3. ControlOK'
  BY DEF Post, IInv, ControlOK
<1>4. rec \in {"running", "paused", "ambiguous"}
  BY <1>1, Facts DEF RecordOK, At
<1>5. interrupts' = 0 /\ act[Caller].pc = "idle" /\ status' = "paused" => AllStopped(proc')
  BY <1>1, <1>2, Facts DEF PauseOK, Undisturbed, At, Restless, Quiet
<1> QED
  BY <1>1, <1>2, <1>3, <1>4, <1>5, ParentGoes, ParentPcs DEF At, Underway

LEMMA InterruptKeeps ==
  ASSUME IInv, Interrupt
  PROVE  IInv'
<1>1. /\ ~At(Parent, "ended") /\ rec' = rec /\ interrupts' = interrupts + 1 /\ status' = status
      /\ \E pc \in {"final", "poll"} : Goto(Parent, pc)
  BY DEF Interrupt, At
<1>2. Ground /\ Quiet
  BY Facts, PollIsQuiet DEF Interrupt
<1>3. interrupts \in Nat /\ interrupts' # 0 /\ interrupts' \in 0 .. MaxInterrupts
  BY <1>1, Facts, ControlAssumption DEF ControlOK, Interrupt
<1>4. ControlOK'
  BY <1>3 DEF Interrupt, IInv, ControlOK
<1> QED
  BY <1>1, <1>2, <1>3, <1>4, ParentMovesOn, ParentPcs

LEMMA FinalScanKeeps ==
  ASSUME IInv, FinalScan
  PROVE  IInv'
<1> DEFINE listed == {Holder(p) : p \in IF Unreaped THEN Group \ {Leader} ELSE Group}
           r == [Jump(Parent, "scanning") EXCEPT !.begun = listed]
<1>1. /\ At(Parent, "final") /\ UNCHANGED control /\ rec' = rec
      /\ act' = [act EXCEPT ![Parent] =
                   [Jump(Parent, "scanning") EXCEPT !.pc = "scanning", !.begun = listed]]
  <2>1. Jump(Parent, "scanning") \in Actor
    BY Facts, NowhereToSend, ParentPcs DEF CheckedOK, Underway
  <2>2. Jump(Parent, "scanning").pc = "scanning"
    BY Facts, NowhereToSend, ParentPcs DEF Underway
  <2>3. r = [Jump(Parent, "scanning") EXCEPT !.pc = "scanning", !.begun = listed]
    BY <2>1, <2>2 DEF Actor
  <2> QED
    BY <2>3 DEF FinalScan, Becomes
<1> DEFINE u == [Jump(Parent, "scanning") EXCEPT !.pc = "scanning", !.begun = listed]
<1>2. Ground /\ Quiet
  BY Facts, PollIsQuiet DEF FinalScan
<1>3. listed \in SUBSET Holders
  <2>1. \A p \in Group : Holder(p) \in Holders
    BY Facts, TableTypes DEF Group, Holder, Holders
  <2> QED
    BY <2>1
<1>4. /\ CheckedOK(Jump(Parent, "scanning"), proc', births')
      /\ Jump(Parent, "scanning").pc = "scanning"
      /\ Jump(Parent, "scanning").slipped = act[Parent].slipped
  BY <1>2, Facts, NowhereToSend, ParentPcs DEF Ground, Underway
<1> HIDE DEF listed
<1>5. /\ u \in Actor /\ u.pc = "scanning" /\ u.slipped = act[Parent].slipped
      /\ u.checked = Jump(Parent, "scanning").checked
  BY <1>3, <1>4 DEF CheckedOK, Actor
<1> HIDE DEF u
<1>6. CheckedOK(u, proc', births')
  BY <1>4, <1>5 DEF CheckedOK, SendPcs
<1>7. act' = [act EXCEPT ![Parent] = u]
  BY <1>1 DEF u
<1>8. act'[Parent] = u /\ act'[Caller] = act[Caller]
  BY <1>7, Facts
<1>9. ControlOK' /\ status' = status /\ interrupts' = interrupts
  BY <1>1, ControlStays
<1>10. RecordOK'
  BY <1>1, <1>5, <1>8, Facts DEF RecordOK, At
<1>11. PauseOK'
  BY <1>1, <1>2, <1>5, <1>8, <1>9, Facts DEF PauseOK, Undisturbed, At, Quiet
<1> QED
  BY <1>2, <1>6, <1>7, <1>9, <1>10, <1>11, Facts, ActorGoes

\* The last look decides; what it missed is marked.
LEMMA FinalRecordKeeps ==
  ASSUME IInv, FinalRecord
  PROVE  IInv'
<1>1. PICK young \in SUBSET {p \in Group : Holder(p) \notin act[Parent].begun} :
        LET seen == {p \in Group : Holder(p) \in act[Parent].begun} \cup young
        IN  /\ rec' = FinalStatus(seen)
            /\ Becomes(Parent, [Idle EXCEPT !.pc = "ended", !.slipped = seen # Group])
  BY DEF FinalRecord
<1> DEFINE seen == {p \in Group : Holder(p) \in act[Parent].begun} \cup young
           slipped == seen # Group
           r == [Idle EXCEPT !.pc = "ended", !.slipped = slipped]
<1>2. /\ At(Parent, "scanning") /\ rec' = FinalStatus(seen)
      /\ act' = [act EXCEPT ![Parent] = r]
      /\ proc' = proc /\ births' = births /\ interrupts' = interrupts /\ status' = "running"
  BY <1>1 DEF FinalRecord, Becomes
<1>3. Ground
  BY <1>2, Facts, StandsStill
<1>4. slipped \in BOOLEAN /\ (~slipped /\ seen = {} => NoOwn(proc'))
  BY <1>2, EmptyIsStopped
<1>5. /\ rec' \in {"exited", "paused", "ambiguous", "alive"}
      /\ rec' = "exited" => seen = {}
      /\ rec' = "paused" => status = "paused"
  BY <1>2 DEF FinalStatus
<1> HIDE DEF slipped, seen
<1>6. Nobody \in Holders /\ Nobody.born = 0
  BY Facts DEF Nobody, Holders
<1>7. r \in Actor /\ r.pc = "ended" /\ r.slipped = slipped /\ r.checked = Nobody
  <2> HIDE DEF Nobody
  <2>1. "ended" \in Pcs
    BY DEF Pcs
  <2> QED
    BY <1>4, <1>6, <2>1 DEF Idle, Actor
<1> HIDE DEF r
<1>8. CheckedOK(r, proc', births')
  BY <1>2, <1>6, <1>7, Facts DEF CheckedOK, SendPcs
<1>9. act'[Parent] = r /\ act'[Caller] = act[Caller]
  BY <1>2, Facts
<1>10. ControlOK'
  <2>1. 0 \in 0 .. MaxPauses
    BY ControlAssumption
  <2> QED
    BY <2>1 DEF FinalRecord, IInv, ControlOK
<1>11. RecordOK'
  BY <1>4, <1>5, <1>7, <1>9 DEF RecordOK, At
<1>12. PauseOK'
  <2>1. Undisturbed' /\ rec' = "paused" => AllStopped(proc')
    BY <1>2, <1>5, <1>9, Facts DEF PauseOK, Undisturbed, At
  <2> QED
    BY <1>2, <1>7, <1>9, <2>1 DEF PauseOK, At
<1> QED
  BY <1>2, <1>3, <1>8, <1>10, <1>11, <1>12, Facts, ActorGoes

LEMMA ReapOrphanKeeps ==
  ASSUME IInv, ReapOrphan
  PROVE  IInv'
<1>1. ReapPid(Leader) /\ UNCHANGED <<act, control, rec>>
  BY DEF ReapOrphan
<1> QED
  BY <1>1, Facts, PollIsQuiet, ControlStays, OnlyTheTable

-----------------------------------------------------------------------------
(* stop_run. *)

LEMMA StopperKeeps ==
  ASSUME IInv, StopperStep
  PROVE  IInv'
<1>1. UNCHANGED <<control, rec>>
  BY DEF StopperStep
<1>2. ASSUME Ground, NEW pc \in {"termV", "contV", "stopV", "drain", "ended"}, Goto(Caller, pc)
      PROVE  IInv'
  <2>1. act' = [act EXCEPT ![Caller] = Jump(Caller, pc)]
    BY <1>2 DEF Goto, Becomes
  <2>2. CheckedOK(Jump(Caller, pc), proc', births') /\ Jump(Caller, pc).pc = pc
    <3>1. pc \in Pcs \ SendPcs
      BY DEF Pcs, SendPcs, Sending
    <3> QED
      BY <1>2, <3>1, Facts, NowhereToSend DEF Ground
  <2> QED
    BY <1>1, <1>2, <2>1, <2>2, CallerMoves
<1>3. CASE UNCHANGED <<proc, births>>
  <2>1. Ground
    BY <1>3, Facts, StandsStill
  <2>2. \E pc \in {"termV", "contV", "stopV", "drain", "ended"} : Goto(Caller, pc)
    BY DEF StopperStep, StopperEnds
  <2> QED
    BY <1>2, <2>1, <2>2
<1>4. CASE \E v \in {"termV", "contV", "stopV"} :
             Sends(Caller, v) /\ \E pc \in {"contV", "drain", "ended"} : Goto(Caller, pc)
  BY <1>2, <1>4, Facts, SendIsGround, SendingPcs
<1> QED
  BY <1>3, <1>4 DEF StopperStep, StopperEnds

-----------------------------------------------------------------------------
(* The invariant. *)

LEMMA InitialTable == ProcInit => TableOK(proc, births)
<1> SUFFICES ASSUME ProcInit PROVE TableOK(proc, births)
  OBVIOUS
<1>1. /\ Free \in Process /\ Free.born = 0 /\ Free.st = "free" /\ Free.kin = "foreign"
      /\ ~Free.ses /\ ~Free.grp
  BY DEF Free, Process, Offers
<1>2. /\ Launched \in Process /\ Launched.born = 1 /\ Launched.st = "run"
      /\ Launched.kin = "own" /\ Launched.ses /\ Launched.grp
  BY DEF Launched, LeaderBorn, Process, Offers
<1>3. /\ proc \in [Pids -> Process] /\ births = 1
      /\ \A p \in Pids : proc[p] = IF p = Leader THEN Launched ELSE Free
  BY <1>1, <1>2 DEF ProcInit, LeaderBorn
<1>4. births \in LeaderBorn .. MaxBirths + LeaderBorn
  BY <1>3, ProcessAssumption DEF LeaderBorn
<1>5. \A p \in Pids :
        /\ proc[p].born <= births
        /\ proc[p].st = "free" => proc[p] = Free
        /\ proc[p].st # "free" => proc[p].born # 0
        /\ proc[p].kin # "foreign" => proc[p].ses
        /\ proc[p].born = LeaderBorn => p = Leader /\ proc[p].kin # "foreign" /\ proc[p].grp
  BY <1>1, <1>2, <1>3 DEF LeaderBorn
<1>6. \A p, q \in Pids :
        proc[p].kin # "foreign" /\ proc[q].kin = "foreign" => ~proc[q].ses /\ ~proc[q].grp
  BY <1>1, <1>2, <1>3
<1> QED
  BY <1>3, <1>4, <1>5, <1>6 DEF TableOK

LEMMA InitHolds == Init => IInv
<1> SUFFICES ASSUME Init PROVE IInv
  OBVIOUS
<1>1. TableOK(proc, births) /\ births \in Nat
  BY InitialTable, TableTypes DEF Init
<1>2. Nobody \in Holders /\ Nobody.born = 0
  BY ProcessAssumption DEF Nobody, Holders
<1>3. /\ Idle \in Actor /\ Idle.pc = "idle" /\ Idle.checked = Nobody
      /\ [Idle EXCEPT !.pc = "wait"] \in Actor /\ [Idle EXCEPT !.pc = "wait"].pc = "wait"
      /\ [Idle EXCEPT !.pc = "wait"].checked = Nobody
  <2> HIDE DEF Nobody
  <2>1. "wait" \in Pcs /\ "idle" \in Pcs
    BY DEF Pcs
  <2> QED
    BY <1>2, <2>1 DEF Idle, Actor
<1>4. CheckedOK(Idle, proc, births) /\ CheckedOK([Idle EXCEPT !.pc = "wait"], proc, births)
  <2> HIDE DEF Nobody
  <2> QED
    BY <1>1, <1>2, <1>3 DEF CheckedOK, SendPcs
<1>5. act \in [Actors -> Actor] /\ \A a \in Actors : CheckedOK(act[a], proc, births)
  BY <1>3, <1>4 DEF Init
<1>6. act[Parent].pc = "wait"
  BY <1>3 DEF Init, Actors, Parent
<1>7. ControlOK
  <2>1. 0 \in 0 .. MaxPauses /\ 0 \in 0 .. MaxInterrupts
    BY ControlAssumption
  <2> QED
    BY <2>1 DEF Init, ControlOK
<1>8. RecordOK /\ PauseOK
  BY <1>6 DEF Init, RecordOK, PauseOK, At
<1> QED
  BY <1>1, <1>5, <1>7, <1>8 DEF IInv

LEMMA ControllerKeeps ==
  ASSUME IInv, ControllerStep
  PROVE  IInv'
<1>1. CASE ChildExits \/ Watch \/ PauseSent \/ ResumeSent \/ PauseGone \/ CheckRefused
  BY <1>1, ChildExitsKeeps, WatchKeeps, PauseSentKeeps, ResumeSentKeeps, PauseGoneKeeps,
     CheckRefusedKeeps
<1>2. CASE Poll \/ TermGone \/ TermSent \/ ContSent \/ ContEmpty \/ Drain
  BY <1>2, PollKeeps, TermGoneKeeps, TermSentKeeps, ContKeeps, DrainKeeps
<1>3. CASE StopSent \/ Ambiguous \/ Return \/ RestopSent \/ Post \/ FinalScan \/ FinalRecord
  BY <1>3, StopSentKeeps, AmbiguousKeeps, ReturnKeeps, RestopSentKeeps, PostKeeps,
     FinalScanKeeps, FinalRecordKeeps
<1>4. CASE \E v \in DOMAIN Sending : Verified(Parent, v)
  BY <1>4, VerifiedKeeps, Facts
<1> QED
  BY <1>1, <1>2, <1>3, <1>4 DEF ControllerStep

LEMMA NextKeeps ==
  ASSUME IInv, [Next]_vars
  PROVE  IInv'
<1>1. CASE World /\ UNCHANGED <<act, control, rec>>
  BY <1>1, WorldIsQuiet, OnlyTheTable, ControlStays, Facts
<1>2. CASE Host \/ Interrupt \/ ReapOrphan \/ DrainExpires
  BY <1>2, HostKeeps, InterruptKeeps, ReapOrphanKeeps, DrainExpiresKeeps
<1>3. CASE ControllerStep \/ StopperStep
  BY <1>3, ControllerKeeps, StopperKeeps
<1>4. CASE \E v \in {"termV", "contV", "stopV"} : Verified(Caller, v)
  BY <1>4, VerifiedKeeps, Facts, SendingPcs
<1>5. CASE UNCHANGED vars
  <2>1. UNCHANGED <<act, control, rec>> /\ proc' = proc /\ births' = births
    BY <1>5 DEF vars, control
  <2> QED
    BY <2>1, StandsStill, OnlyTheTable, ControlStays, Facts
<1> QED
  BY <1>1, <1>2, <1>3, <1>4, <1>5 DEF Next

\* The invariant holds throughout, for every set of numbers and every bound.
THEOREM Invariance == Spec => []IInv
BY InitHolds, NextKeeps, PTL DEF Spec

-----------------------------------------------------------------------------
(* The properties. *)

\* The process table, the parent and the record keep their types, and a record
\* that was finished has a final status.
THEOREM TypeCorrect == Spec => []TypeOK
<1>1. IInv => TypeOK
  <2> SUFFICES ASSUME IInv PROVE TypeOK
    OBVIOUS
  <2>1. ProcTypeOK
    BY DEF IInv, TableOK, ProcTypeOK
  <2>2. \A a \in Actors : /\ act[a].checked \in [pid: Pids, born: Nat]
                          /\ act[a].slipped \in BOOLEAN
    BY DEF IInv, Actor, Holders
  <2> QED
    BY <2>1, <2>2 DEF IInv, TypeOK, ControlOK, RecordOK
<1> QED
  BY <1>1, Invariance, PTL

\* "exited" is never recorded of a group with a live process of the run in it,
\* but for one that the last scan missed.
THEOREM ExitIsReal == Spec => []ExitedMeansEmpty
<1>1. IInv => ExitedMeansEmpty
  <2> SUFFICES ASSUME IInv PROVE ExitedMeansEmpty
    OBVIOUS
  <2>1. NoOwn(proc) => OwnGroupLive = {}
    BY DEF NoOwn, OwnIn, OwnGroupLive, GroupLive, Group, InGroup, Live
  <2> QED
    BY <2>1 DEF IInv, RecordOK, ExitedMeansEmpty
<1> QED
  BY <1>1, Invariance, PTL

\* A run recorded as paused does not run on behind the record's back.
THEOREM PauseIsReal == Spec => []PausedMeansStopped
<1>1. IInv => PausedMeansStopped
  <2> SUFFICES ASSUME IInv, rec = "paused", At(Parent, "ended") \/ At(Parent, "wait"),
                      act[Caller].pc = "idle", interrupts = 0
               PROVE  \A p \in OwnGroupLive : proc[p].st = "stop"
    BY DEF PausedMeansStopped
  <2>1. AllStopped(proc)
    BY DEF IInv, PauseOK, Undisturbed, At
  <2> QED
    BY <2>1 DEF AllStopped, OwnIn, OwnGroupLive, GroupLive, Group, InGroup, Live
<1> QED
  BY <1>1, Invariance, PTL

Touched(p) == \/ proc'[p].sig \ proc[p].sig # {}
              \/ {proc[p].st, proc'[p].st} = {"run", "stop"}

LEMMA WorldTouchesNobody ==
  ASSUME World, proc \in [Pids -> Process], NEW o \in Pids
  PROVE  ~Touched(o)
<1>1. PICK p \in Pids : \/ \E q \in Pids : Fork(p, q)
                        \/ LeaveGroup(p)
                        \/ RewriteEnvironment(p)
                        \/ Exit(p)
                        \/ ReapOther(p)
                        \/ ForeignBirth(p)
  BY DEF World
<1>2. ASSUME NEW q \in Pids, NEW kin, NEW grp, NEW ses, Born(q, kin, grp, ses)
      PROVE  ~Touched(o)
  <2>1. CASE o = q
    <3>1. proc[q].st = "free" /\ proc'[q].sig = {}
      BY <1>2 DEF Born, Available
    <3> QED
      BY <2>1, <3>1 DEF Touched
  <2>2. CASE o # q
    <3>1. proc'[o] = proc[o]
      BY <1>2, <2>2 DEF Born
    <3> QED
      BY <3>1 DEF Touched
  <2> QED
    BY <2>1, <2>2
<1>3. CASE (\E q \in Pids : Fork(p, q)) \/ ForeignBirth(p)
  BY <1>2, <1>3 DEF Fork, ForeignBirth
<1>4. CASE LeaveGroup(p) \/ RewriteEnvironment(p)
  <2>1. proc'[o].sig = proc[o].sig /\ proc'[o].st = proc[o].st
    <3>1. CASE LeaveGroup(p)
      BY <3>1 DEF LeaveGroup, Process
    <3>2. CASE RewriteEnvironment(p)
      BY <3>2 DEF RewriteEnvironment, Process
    <3> QED
      BY <1>4, <3>1, <3>2
  <2> QED
    BY <2>1 DEF Touched
<1>5. CASE Exit(p)
  <2>1. proc'[o].sig = proc[o].sig /\ (proc'[o].st = proc[o].st \/ proc'[o].st = "dead")
    BY <1>5 DEF Exit, Process
  <2> QED
    BY <2>1 DEF Touched
<1>6. CASE ReapOther(p)
  <2>1. (proc'[o] = proc[o] \/ proc'[o] = Free) /\ Free.sig = {} /\ Free.st = "free"
    BY <1>6 DEF ReapOther, ReapPid, Free
  <2> QED
    BY <2>1 DEF Touched
<1> QED
  BY <1>1, <1>3, <1>4, <1>5, <1>6

LEMMA QuietTouchesNobody ==
  ASSUME Polled \/ ReapPid(Leader) \/ proc' = proc, proc \in [Pids -> Process], NEW o \in Pids
  PROVE  ~Touched(o)
<1>1. (proc'[o] = proc[o] \/ proc'[o] = Free) /\ Free.sig = {} /\ Free.st = "free"
  BY DEF Polled, ReapPid, Free
<1> QED
  BY <1>1 DEF Touched

\* Signals are sent to the group, by an actor that verified it.
LEMMA SendTouchesGroup ==
  ASSUME NEW a \in Actors, NEW v \in DOMAIN Sending, Sends(a, v), NEW o \in Pids, Touched(o)
  PROVE  o \in Group /\ \E b \in Actors : act[b].pc \in SendPcs
<1>1. proc'[o] # proc[o]
  BY DEF Touched
<1>2. o \in Group
  BY <1>1 DEF Sends, Deliver
<1>3. act[a].pc \in SendPcs
  BY DEF Sends, At, Sending, SendPcs
<1> QED
  BY <1>2, <1>3

LEMMA OnlySentAreTouched ==
  ASSUME IInv, [Next]_vars, NEW o \in Pids, Touched(o)
  PROVE  o \in Group /\ \E b \in Actors : act[b].pc \in SendPcs
<1>1. /\ proc' # proc /\ ~World /\ ~Polled /\ ~ReapPid(Leader)
      /\ Parent \in Actors /\ Caller \in Actors
  BY WorldTouchesNobody, QuietTouchesNobody, Facts DEF TableOK
<1>2. \E a \in Actors, v \in DOMAIN Sending : Sends(a, v)
  <2>1. CASE ControllerStep
    <3>1. /\ ~ChildExits /\ ~Watch /\ ~PauseGone /\ ~CheckRefused /\ ~Poll /\ ~TermGone
          /\ ~ContEmpty /\ ~Drain /\ ~Ambiguous /\ ~Return /\ ~Post /\ ~FinalScan
          /\ ~FinalRecord /\ ~(\E v \in DOMAIN Sending : Verified(Parent, v))
      BY <1>1 DEF ChildExits, Watch, PauseGone, CheckRefused, Crash, Poll, TermGone, Misses,
                  ContEmpty, Drain, Ambiguous, Return, Post, FinalScan, FinalRecord, Verified
    <3>2. PauseSent \/ ResumeSent \/ TermSent \/ ContSent \/ StopSent \/ RestopSent
      BY <2>1, <3>1 DEF ControllerStep
    <3> QED
      BY <1>1, <3>2, SendingPcs
         DEF PauseSent, ResumeSent, TermSent, ContSent, StopSent, RestopSent
  <2>2. CASE StopperStep
    BY <1>1, <2>2, SendingPcs DEF StopperStep, Misses
  <2>3. /\ ~Host /\ ~Interrupt /\ ~ReapOrphan /\ ~DrainExpires /\ ~UNCHANGED vars
        /\ ~(\E v \in {"termV", "contV", "stopV"} : Verified(Caller, v))
    BY <1>1 DEF Host, Interrupt, ReapOrphan, DrainExpires, vars, Verified
  <2> QED
    BY <1>1, <2>1, <2>2, <2>3 DEF Next
<1> QED
  BY <1>2, SendTouchesGroup

\* Somebody else's process is signalled only after the group has emptied under
\* an actor that had verified it, and its number was taken over.
THEOREM StrangersInWindow == Spec => ForeignOnlyInWindow
<1>1. ASSUME IInv, [Next]_vars, NEW p \in Pids, proc[p].kin = "foreign", Touched(p)
      PROVE  \E a \in Actors : act[a].checked # Nobody
                /\ proc[act[a].checked.pid].born # act[a].checked.born
  <2>1. PICK a \in Actors : act[a].pc \in SendPcs
    BY <1>1, OnlySentAreTouched
  <2>2. proc[p].grp
    BY <1>1, OnlySentAreTouched DEF Group, InGroup
  <2>3. act[a].checked.born # 0 /\ act[a].checked.pid \in Pids /\ Nobody.born = 0
    BY <1>1, <2>1, Facts DEF CheckedOK, Actor, Holders, Nobody
  <2>4. proc[act[a].checked.pid].kin = "foreign"
    BY <1>1, <2>2, <2>3, Facts DEF TableOK
  <2>5. proc[act[a].checked.pid].born # act[a].checked.born
    BY <1>1, <2>3, <2>4, Facts DEF CheckedOK
  <2> QED
    BY <2>3, <2>5
<1>2. ASSUME IInv, [Next]_vars
      PROVE  [\A p \in Pids :
                /\ Live(p) /\ proc[p].kin = "foreign"
                /\ \/ proc'[p].sig \ proc[p].sig # {}
                   \/ {proc[p].st, proc'[p].st} = {"run", "stop"}
                => \E a \in Actors : act[a].checked # Nobody
                       /\ proc[act[a].checked.pid].born # act[a].checked.born]_vars
  BY <1>1, <1>2 DEF Touched
<1> QED
  BY <1>2, Invariance, PTL DEF Spec, ForeignOnlyInWindow

-----------------------------------------------------------------------------
(* The parent comes to its end. *)

\* How far the parent has come: it watches; it terminates the run on a
\* watchdog's account, looks at what is left, terminates that, or terminates the
\* run because it is itself interrupted or failing; it records.
Watching == {"idle", "wait", "pauseV", "pauseK", "resumeV", "resumeK"}
Level(pc, c) ==
    CASE pc \in Watching -> 0
      [] pc = "post" -> 2
      [] pc = "final" -> 5
      [] pc = "scanning" -> 6
      [] pc = "ended" -> 7
      [] OTHER -> IF c \in {"none", "watchdog"} THEN 1 ELSE IF c = "post" THEN 3 ELSE 4

\* And within one termination.
Order == [poll |-> 0, termV |-> 1, termK |-> 2, contV |-> 3, contK |-> 4, drain |-> 5,
          stopV |-> 6, stopK |-> 7, return |-> 8, restopV |-> 9, restopK |-> 10]

Nearer(pc, c, pc1, c1) ==
    \/ pc \in Watching
    \/ Level(pc1, c1) > Level(pc, c)
    \/ Level(pc1, c1) = Level(pc, c) /\ Order[pc1] > Order[pc]

ParentAdvances ==
    [][act'[Parent] # act[Parent] \/ ctx' # ctx
         => Nearer(act[Parent].pc, ctx, act'[Parent].pc, ctx')]_vars

\* Nobody else reaps the child while the parent watches it, and only a watchdog
\* stops the survivors of a termination.
Attending == {"wait", "pauseV", "pauseK", "resumeV", "resumeK"}
LeaderOK ==
    /\ proc[Leader].born = LeaderBorn => proc[Leader].kin = "own"
    /\ act[Parent].pc \in Attending => proc[Leader].born = LeaderBorn
RestopOK == act[Parent].pc \in {"restopV", "restopK"} => ctx = "watchdog"
Attended == LeaderOK /\ RestopOK

LeaderStays ==
    /\ proc[Leader].born = LeaderBorn => proc'[Leader].born = LeaderBorn
    /\ proc'[Leader].born = LeaderBorn => proc'[Leader].kin = "own"

\* The child does not give up its number by itself.
LEMMA WorldKeepsLeader ==
  ASSUME IInv, LeaderOK, World
  PROVE  LeaderStays
<1> DEFINE P == proc
<1>1. /\ TableOK(P, births) /\ Leader \in Pids /\ P \in [Pids -> Process] /\ births \in Nat
      /\ births >= 1 /\ Free.born = 0
      /\ \A p \in Pids : P[p].st = "free" => P[p].born = 0
      /\ P[Leader].born = LeaderBorn => P[Leader].kin = "own" /\ P[Leader].st # "free"
  BY Facts, TableTypes DEF LeaderOK, TableOK, Free, LeaderBorn
<1>2. ASSUME NEW p \in Pids, NEW kin, NEW grp, NEW ses, Born(p, kin, grp, ses)
      PROVE  LeaderStays
  <2>1. /\ proc' = [proc EXCEPT ![p] = [st |-> "run", kin |-> kin, grp |-> grp, ses |-> ses,
                                        born |-> births + 1, sig |-> {}]]
        /\ proc[p].st = "free"
    BY <1>2 DEF Born, Available
  <2>2. CASE p = Leader
    BY <1>1, <2>1, <2>2 DEF LeaderStays, LeaderBorn
  <2>3. CASE p # Leader
    BY <1>1, <2>1, <2>3 DEF LeaderStays
  <2> QED
    BY <2>2, <2>3
<1>3. ASSUME NEW p \in Pids, LeaveGroup(p) \/ RewriteEnvironment(p) PROVE LeaderStays
  BY <1>1, <1>3 DEF LeaveGroup, RewriteEnvironment, LeaderStays
<1>4. ASSUME NEW p \in Pids, Exit(p) PROVE LeaderStays
  <2>1. proc'[Leader].born = P[Leader].born /\ proc'[Leader].kin = P[Leader].kin
    BY <1>1, <1>4 DEF Exit, Process
  <2> QED
    BY <1>1, <2>1 DEF LeaderStays
<1>5. ASSUME NEW p \in Pids, ReapOther(p) PROVE LeaderStays
  BY <1>1, <1>5 DEF ReapOther, ReapPid, LeaderStays, LeaderBorn
<1> QED
  BY <1>2, <1>3, <1>4, <1>5 DEF World, Fork, ForeignBirth

\* Nor does a signal take it away.
LEMMA SendKeepsLeader ==
  ASSUME IInv, LeaderOK, NEW a, NEW v, Sends(a, v)
  PROVE  LeaderStays
<1>1. proc'[Leader].born = proc[Leader].born /\ proc'[Leader].kin = proc[Leader].kin
  <2>1. proc[Leader] \in Process /\ Leader \in Pids
    BY Facts, TableTypes
  <2> QED
    BY <2>1 DEF Sends, Deliver, Signalled, Process
<1> QED
  BY <1>1 DEF LeaderOK, LeaderStays

\* What the parent does to its child when it looks at it.
LEMMA PollOfLeader ==
  ASSUME IInv, LeaderOK, Polled \/ ReapPid(Leader) \/ proc' = proc
  PROVE  proc'[Leader].born = LeaderBorn => proc'[Leader].kin = "own"
<1>1. proc'[Leader] = proc[Leader] \/ proc'[Leader] = Free
  BY Facts, TableTypes DEF Polled, ReapPid
<1>2. Free.born # LeaderBorn
  BY DEF Free, LeaderBorn
<1> QED
  BY <1>1, <1>2 DEF LeaderOK

\* Where a step leads the parent.
LEMMA GoesTo ==
  ASSUME IInv, NEW pc, Goto(Parent, pc)
  PROVE  act'[Parent].pc = pc
<1>1. act[Parent] \in Actor /\ act'[Parent] = Jump(Parent, pc)
  BY Facts DEF Goto, Becomes
<1> QED
  BY <1>1 DEF Jump, Actor

\* The three kinds of step: past the parent, on its way, and while it watches.
Outcome ==
    /\ act'[Parent] # act[Parent] \/ ctx' # ctx
         => Nearer(act[Parent].pc, ctx, act'[Parent].pc, ctx')
    /\ Attended'

LEMMA ParentStays ==
  ASSUME IInv, Attended, act'[Parent] = act[Parent], ctx' = ctx,
         LeaderStays \/ (act[Parent].pc \notin Watching /\ (Polled \/ ReapPid(Leader)))
  PROVE  Outcome
<1>1. LeaderOK'
  BY PollOfLeader DEF Attended, LeaderOK, LeaderStays, Attending, Watching
<1> QED
  BY <1>1 DEF Attended, RestopOK, Outcome

LEMMA ParentMoves ==
  ASSUME IInv, Attended, NEW pc, Goto(Parent, pc) \/ act'[Parent].pc = pc,
         pc \notin Watching, Nearer(act[Parent].pc, ctx, pc, ctx'),
         pc \in {"restopV", "restopK"} => ctx' = "watchdog",
         LeaderStays \/ Polled \/ ReapPid(Leader) \/ proc' = proc
  PROVE  Outcome
<1>1. act'[Parent].pc = pc
  BY GoesTo
<1>2. LeaderOK'
  BY <1>1, PollOfLeader DEF Attended, LeaderOK, LeaderStays, Attending, Watching
<1> QED
  BY <1>1, <1>2 DEF Attended, RestopOK, Outcome

LEMMA ParentWatches ==
  ASSUME IInv, Attended, NEW pc, Goto(Parent, pc) \/ act'[Parent].pc = pc,
         pc \in Attending, act[Parent].pc \in Watching, proc[Leader].born = LeaderBorn,
         LeaderStays \/ proc' = proc
  PROVE  Outcome
<1>1. act'[Parent].pc = pc
  BY GoesTo
<1>2. LeaderOK'
  BY <1>1 DEF Attended, LeaderOK, LeaderStays
<1>3. pc \notin {"restopV", "restopK"}
  BY DEF Attending
<1> QED
  BY <1>1, <1>2, <1>3 DEF Attended, RestopOK, Outcome, Nearer

LEMMA WatchingAdvances ==
  ASSUME IInv, Attended,
         ChildExits \/ Watch \/ PauseSent \/ ResumeSent \/ PauseGone
  PROVE  Outcome
<1> DEFINE pc == act[Parent].pc
<1>1. CASE ChildExits
  BY <1>1, ParentMoves DEF ChildExits, At, Nearer, Watching
<1>2. CASE Watch
  <2>1. pc = "wait" /\ proc' = proc /\ proc[Leader].born = LeaderBorn
    BY <1>2 DEF Watch, At, Running, Reaped
  <2>2. Goto(Parent, "poll") \/ Goto(Parent, "pauseV") \/ Goto(Parent, "resumeV")
    BY <1>2 DEF Watch
  <2> QED
    BY <2>1, <2>2, ParentMoves, ParentWatches DEF Watching, Attending, Nearer
<1>3. CASE PauseSent \/ ResumeSent
  <2>1. /\ pc \in {"pauseK", "resumeK"} /\ Goto(Parent, "wait")
        /\ \E v \in {"pauseV", "resumeV"} : Sends(Parent, v)
    BY <1>3, SendingPcs DEF PauseSent, ResumeSent, Sends, At
  <2>2. LeaderStays
    BY <2>1, SendKeepsLeader DEF Attended
  <2>3. proc[Leader].born = LeaderBorn
    BY <2>1 DEF Attended, LeaderOK, Attending
  <2> QED
    BY <2>1, <2>2, <2>3, ParentWatches DEF Watching, Attending
<1>4. CASE PauseGone
  <2>1. pc \in {"pauseV", "resumeV"} /\ Goto(Parent, "post") /\ Polled
    BY <1>4 DEF PauseGone, Fails, At
  <2> QED
    BY <2>1, ParentMoves DEF Nearer, Watching
<1> QED
  BY <1>1, <1>2, <1>3, <1>4

\* An error or an interruption ends in the last termination or in the record.
LEMMA AlarmAdvances ==
  ASSUME IInv, Attended, CheckRefused \/ Interrupt
  PROVE  Outcome
<1> DEFINE pc == act[Parent].pc
<1>1. pc \notin {"final", "scanning", "ended"} /\ Polled
  BY SendingPcs DEF CheckRefused, Refused, Crash, Interrupt, Fails, At
<1>2. \/ Goto(Parent, "final")
      \/ Goto(Parent, "poll") /\ ctx \notin {"handler", "crashing"}
                              /\ ctx' \in {"handler", "crashing"}
  BY DEF CheckRefused, Crash, Interrupt
<1>3. CASE Goto(Parent, "final")
  <2>1. Nearer(pc, ctx, "final", ctx')
    BY <1>1 DEF Nearer, Level, Watching
  <2> QED
    BY <1>1, <1>3, <2>1, ParentMoves DEF Watching
<1>4. CASE Goto(Parent, "poll") /\ ctx \notin {"handler", "crashing"}
                                /\ ctx' \in {"handler", "crashing"}
  <2>1. ctx \in {"none", "watchdog", "post"}
    BY <1>4, Facts DEF ControlOK
  <2>2. Nearer(pc, ctx, "poll", ctx')
    BY <1>1, <1>4, <2>1 DEF Nearer, Level, Watching
  <2> QED
    BY <1>1, <1>4, <2>2, ParentMoves DEF Watching
<1> QED
  BY <1>2, <1>3, <1>4

\* Within one termination, on behalf of whom it is.
LEMMA Onward ==
  ASSUME NEW pc \in DOMAIN Order, NEW pc1 \in DOMAIN Order, NEW c, Order[pc1] > Order[pc]
  PROVE  Nearer(pc, c, pc1, c)
<1>1. /\ pc \notin Watching /\ pc1 \notin Watching
      /\ pc \notin {"post", "final", "scanning", "ended"}
      /\ pc1 \notin {"post", "final", "scanning", "ended"}
  BY DEF Order, Watching
<1>2. Level(pc1, c) = Level(pc, c)
  BY <1>1 DEF Level
<1> HIDE DEF Level, Order
<1> QED
  BY <1>2 DEF Nearer

LEMMA TerminationAdvances ==
  ASSUME IInv, Attended,
         \/ Poll \/ TermGone \/ TermSent \/ ContSent \/ ContEmpty \/ Drain \/ DrainExpires
         \/ StopSent \/ Ambiguous
  PROVE  Outcome
<1> DEFINE pc == act[Parent].pc
<1>0. /\ UNCHANGED control \/ (\E new : SetStatus(new)) => ctx' = ctx
      /\ \A v \in {"termV", "contV", "stopV"} : Sends(Parent, v) => LeaderStays
      /\ UNCHANGED <<proc, births>> => proc' = proc
  BY SendKeepsLeader, SendingPcs DEF control, SetStatus, Attended
<1>1. CASE Poll
  <2>1. pc = "poll" /\ Polled /\ ctx' = ctx
        /\ (Goto(Parent, "return") \/ Goto(Parent, "termV"))
    BY <1>0, <1>1 DEF Poll, At
  <2> QED
    BY <2>1, ParentMoves, Onward DEF Order, Watching
<1>2. CASE TermGone
  <2>1. pc \in {"termV", "termK"} /\ Goto(Parent, "return") /\ ctx' = ctx
        /\ (Polled \/ proc' = proc)
    BY <1>0, <1>2, SendingPcs DEF TermGone, Fails, Misses, At
  <2> QED
    BY <2>1, ParentMoves, Onward DEF Order, Watching
<1>3. CASE TermSent \/ ContSent
  <2>1. /\ LeaderStays /\ ctx' = ctx
        /\ \/ pc = "termK" /\ Goto(Parent, "contV")
           \/ pc = "contK" /\ Goto(Parent, "drain")
    BY <1>0, <1>3, SendingPcs DEF TermSent, ContSent, Sends, At
  <2> QED
    BY <2>1, ParentMoves, Onward DEF Order, Watching
<1>4. CASE ContEmpty
  <2>1. pc \in {"contV", "contK"} /\ Goto(Parent, "drain") /\ ctx' = ctx /\ proc' = proc
    BY <1>0, <1>4, SendingPcs DEF ContEmpty, FollowupEmpty, Fails, At
  <2> QED
    BY <2>1, ParentMoves, Onward DEF Order, Watching
<1>5. CASE Drain
  <2>1. /\ pc = "drain" /\ ctx' = ctx
        /\ \/ ReapPid(Leader) /\ act' = act
           \/ Goto(Parent, "return") /\ proc' = proc
    BY <1>0, <1>5 DEF Drain, At
  <2>2. CASE ReapPid(Leader) /\ act' = act
    BY <2>1, <2>2, ParentStays DEF Watching
  <2>3. CASE Goto(Parent, "return") /\ proc' = proc
    BY <2>1, <2>3, ParentMoves, Onward DEF Order, Watching
  <2> QED
    BY <2>1, <2>2, <2>3
<1>6. CASE DrainExpires
  <2>1. pc = "drain" /\ Goto(Parent, "stopV") /\ ctx' = ctx /\ proc' = proc
    BY <1>0, <1>6 DEF DrainExpires, At
  <2> QED
    BY <2>1, ParentMoves, Onward DEF Order, Watching
<1>7. CASE StopSent
  <2>1. /\ pc \in {"stopV", "stopK"} /\ Goto(Parent, "return") /\ ctx' = ctx
        /\ LeaderStays \/ proc' = proc
    BY <1>0, <1>7, SendingPcs DEF StopSent, Sends, FollowupEmpty, Fails, At
  <2> QED
    BY <2>1, ParentMoves, Onward DEF Order, Watching
<1>8. CASE Ambiguous
  <2>1. pc \in {"contV", "stopV"} /\ Goto(Parent, "return") /\ ctx' = ctx /\ proc' = proc
    BY <1>0, <1>8 DEF Ambiguous, FollowupAmbiguous, Fails, At
  <2> QED
    BY <2>1, ParentMoves, Onward DEF Order, Watching
<1> QED
  BY <1>1, <1>2, <1>3, <1>4, <1>5, <1>6, <1>7, <1>8

\* From the end of a termination to the record.
LEMMA EndingAdvances ==
  ASSUME IInv, Attended, Return \/ RestopSent \/ Post \/ FinalScan \/ FinalRecord
  PROVE  Outcome
<1> DEFINE pc == act[Parent].pc
<1>1. CASE Return
  <2>1. /\ pc = "return" /\ ctx' = ctx /\ proc' = proc
        /\ \/ Goto(Parent, "final")
           \/ Goto(Parent, "restopV") /\ ctx = "watchdog"
           \/ Goto(Parent, "post") /\ ctx = "watchdog"
    BY <1>1 DEF Return, At, control
  <2>2. Nearer("return", ctx, "final", ctx)
    BY DEF Nearer, Level, Watching
  <2>3. Nearer("return", "watchdog", "post", "watchdog")
    BY DEF Nearer, Level, Watching
  <2>4. Nearer("return", "watchdog", "restopV", "watchdog")
    BY Onward DEF Order
  <2> QED
    BY <2>1, <2>2, <2>3, <2>4, ParentMoves DEF Watching
<1>2. CASE RestopSent
  <2>1. pc = "restopK" /\ Goto(Parent, "post") /\ ctx' = ctx /\ Sends(Parent, "restopV")
    BY <1>2, SendingPcs DEF RestopSent, Sends, At
  <2>2. LeaderStays /\ ctx = "watchdog"
    BY <2>1, SendKeepsLeader DEF Attended, RestopOK
  <2>3. Nearer("restopK", "watchdog", "post", "watchdog")
    BY DEF Nearer, Level, Watching
  <2> QED
    BY <2>1, <2>2, <2>3, ParentMoves DEF Watching
<1>3. CASE Post
  <2>1. /\ pc = "post" /\ Polled
        /\ Goto(Parent, "final") \/ (Goto(Parent, "poll") /\ ctx' = "post")
    BY <1>3 DEF Post, At
  <2>2. Nearer("post", ctx, "final", ctx') /\ Nearer("post", ctx, "poll", "post")
    BY DEF Nearer, Level, Watching
  <2> QED
    BY <2>1, <2>2, ParentMoves DEF Watching
<1>4. CASE FinalScan
  <2>1. pc = "final" /\ Polled /\ act'[Parent].pc = "scanning"
    <3>1. act[Parent] \in Actor
      BY Facts
    <3> QED
      BY <1>4, <3>1, Facts DEF FinalScan, At, Becomes, Jump, Actor
  <2>2. Nearer("final", ctx, "scanning", ctx')
    BY DEF Nearer, Level, Watching
  <2> QED
    BY <2>1, <2>2, ParentMoves DEF Watching
<1>5. CASE FinalRecord
  <2>1. pc = "scanning" /\ proc' = proc /\ act'[Parent].pc = "ended"
    BY <1>5, Facts DEF FinalRecord, At, Becomes, Idle
  <2>2. Nearer("scanning", ctx, "ended", ctx')
    BY DEF Nearer, Level, Watching
  <2> QED
    BY <2>1, <2>2, ParentMoves DEF Watching
<1> QED
  BY <1>1, <1>2, <1>3, <1>4, <1>5

\* The check before a signal.
LEMMA VerifiedAdvances ==
  ASSUME IInv, Attended, NEW v \in DOMAIN Sending, Verified(Parent, v)
  PROVE  Outcome
<1>1. act[Parent].pc = v /\ act'[Parent].pc = Sending[v] /\ ctx' = ctx /\ proc' = proc
  <2>1. act[Parent] \in Actor
    BY Facts
  <2> QED
    BY <2>1, Facts DEF Verified, Becomes, At, Actor, control
<1>2. CASE v \in {"pauseV", "resumeV"}
  <2>1. Sending[v] \in {"pauseK", "resumeK"}
    BY <1>2, SendingPcs
  <2> QED
    BY <1>1, <1>2, <2>1, ParentWatches DEF Attended, LeaderOK, Watching, Attending
<1>3. CASE v \notin {"pauseV", "resumeV"}
  <2>1. /\ v \in DOMAIN Order /\ Sending[v] \in DOMAIN Order
        /\ Order[Sending[v]] > Order[v]
    BY <1>3, SendingPcs DEF Order
  <2>2. Sending[v] \notin Watching /\ Nearer(v, ctx, Sending[v], ctx)
    BY <2>1, Onward DEF Order, Watching
  <2>3. Sending[v] \in {"restopV", "restopK"} => ctx = "watchdog"
    BY <1>1, SendingPcs DEF Attended, RestopOK
  <2> QED
    BY <1>1, <2>2, <2>3, ParentMoves
<1> QED
  BY <1>2, <1>3

LEMMA StepAdvances == IInv /\ Attended /\ [Next]_vars => Outcome
<1> SUFFICES ASSUME IInv, Attended, [Next]_vars PROVE Outcome
  OBVIOUS
<1>0. LeaderOK /\ (proc' = proc => LeaderStays)
  BY DEF Attended, LeaderOK, LeaderStays
<1>1. CASE World /\ UNCHANGED <<act, control, rec>>
  BY <1>0, <1>1, WorldKeepsLeader, ParentStays DEF control
<1>2. CASE Host
  BY <1>0, <1>2, ParentStays DEF Host
<1>3. CASE ReapOrphan
  BY <1>3, ParentStays DEF ReapOrphan, At, Watching, control
<1>4. CASE StopperStep \/ \E v \in {"termV", "contV", "stopV"} : Verified(Caller, v)
  <2>1. \/ proc' = proc
        \/ \E v \in {"termV", "contV", "stopV"} : Sends(Caller, v)
    BY <1>4 DEF StopperStep, Misses, Verified
  <2>2. act'[Parent] = act[Parent] /\ ctx' = ctx
    BY <1>4, Facts DEF StopperStep, StopperEnds, Goto, Becomes, Verified, control
  <2> QED
    BY <1>0, <2>1, <2>2, SendKeepsLeader, ParentStays
<1>5. CASE UNCHANGED vars
  BY <1>0, <1>5, ParentStays DEF vars, control
<1> QED
  BY <1>1, <1>2, <1>3, <1>4, <1>5, WatchingAdvances, AlarmAdvances, TerminationAdvances,
     EndingAdvances, VerifiedAdvances DEF Next, ControllerStep

LEMMA InitAttended == Init => Attended
<1>1. Init => /\ proc[Leader].born = LeaderBorn /\ proc[Leader].kin = "own"
              /\ act[Parent].pc = "wait"
  BY ProcessAssumption DEF Init, ProcInit, Launched, LeaderBorn, Idle, Actors, Parent
<1> QED
  BY <1>1 DEF Attended, LeaderOK, RestopOK

LEMMA AlwaysAttended == Spec => []Attended
<1>1. IInv /\ Attended /\ [Next]_vars => Attended'
  BY StepAdvances DEF Outcome
<1> QED
  BY <1>1, InitAttended, Invariance, PTL DEF Spec

\* The safety half of PauseAndInterruptEnd: from the moment the parent stops
\* watching, each of its steps brings it nearer to its final record; no further
\* signal, refusal or survivor takes it back to an earlier termination.
THEOREM ParentOnlyAdvances == Spec => ParentAdvances
<1>1. IInv /\ Attended /\ [Next]_vars =>
        [act'[Parent] # act[Parent] \/ ctx' # ctx
           => Nearer(act[Parent].pc, ctx, act'[Parent].pc, ctx')]_vars
  BY StepAdvances DEF Outcome
<1> QED
  BY <1>1, Invariance, AlwaysAttended, PTL DEF Spec, ParentAdvances

\* A pause or a resumption that was verified is never sent to an empty group:
\* the child it was verified of is still there, if only as a zombie, because
\* nobody but the parent reaps it.
PauseMeetsChild ==
    act[Parent].pc \in {"pauseK", "resumeK"} =>
        Leader \in Group /\ proc[Leader].born = LeaderBorn

\* So the parent cannot get stuck between the check and the signal.
THEOREM PausesMeetTheChild == Spec => []PauseMeetsChild
<1>1. IInv /\ Attended => PauseMeetsChild
  <2> SUFFICES ASSUME IInv, Attended, act[Parent].pc \in {"pauseK", "resumeK"}
               PROVE  Leader \in Group /\ proc[Leader].born = LeaderBorn
    BY DEF PauseMeetsChild
  <2>1. proc[Leader].born = LeaderBorn
    BY DEF Attended, LeaderOK, Attending
  <2>2. proc[Leader].grp /\ proc[Leader].st # "free"
    BY <2>1, Facts DEF TableOK, Free, LeaderBorn
  <2> QED
    BY <2>1, <2>2, Facts DEF Group, InGroup, Exists
<1> QED
  BY <1>1, Invariance, AlwaysAttended, PTL
=============================================================================
