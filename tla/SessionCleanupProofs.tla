------------------------ MODULE SessionCleanupProofs ------------------------
(***************************************************************************)
(* The safety properties of SessionCleanup hold for every set of process   *)
(* numbers and every number of births, pauses and interferences.  The      *)
(* invariant says of the process table that the recorded session and group *)
(* belong to one owner at a time, and of a cleaner that the old members of *)
(* the group are always still ahead of it, or dealt with.                  *)
(***************************************************************************)
EXTENDS SessionCleanup, TLAPS

-----------------------------------------------------------------------------
(* The invariant. *)

LiveIn(P, p) == P[p].st \in {"run", "stop"}
MemberIn(P, p) == [pid |-> p, born |-> P[p].born, grp |-> P[p].grp]

\* Start times are never given out twice; while a process of the run carries
\* the session, nobody else carries it or the group.
TableOK(P, n) ==
    /\ P \in [Pids -> Process]
    /\ n \in LeaderBorn .. MaxBirths + LeaderBorn
    /\ \A p \in Pids :
         /\ P[p].born <= n
         /\ P[p].st = "free" => P[p] = Free
         /\ P[p].st # "free" => P[p].born # 0
         /\ P[p].kin # "foreign" => P[p].ses
         /\ P[p].born = LeaderBorn => p = Leader /\ P[p].kin # "foreign"
    /\ \A p, q \in Pids :
         P[p].kin # "foreign" /\ P[q].kin = "foreign" => ~P[q].ses /\ ~P[q].grp

NoResidue(P) == \A p \in Pids : ~(LiveIn(P, p) /\ P[p].ses /\ P[p].kin # "foreign")

\* Members of the recorded group that were there when a scan began.
Old(P, p, time) ==
    LiveIn(P, p) /\ P[p].kin = "own" /\ P[p].grp /\ P[p].born <= time

GroupPcs == {"contK", "termK", "pauseK", "resumeK"}

\* What was checked is not somebody else's unless its number changed hands.
CheckedOK(r, P, n) ==
    /\ r.checked # NoMember =>
         /\ r.checked \in Members
         /\ r.checked.born \in 1 .. n
         /\ P[r.checked.pid].born = r.checked.born => P[r.checked.pid].kin # "foreign"
    /\ r.pc = "kill" => r.checked # NoMember /\ r.checked \in r.todo
    /\ r.pc \in GroupPcs =>
         r.checked # NoMember /\ r.checked.pid = Leader /\ r.checked.born = LeaderBorn

\* The places of the loops, and that a scan finds one process per number.
PlaceOK(r) ==
    /\ r.pc \in {"scan", "scanning"} => r.phase \in {"natural", "term", "kill", "wait"}
    /\ r.pc \in {"signal", "kill"} => r.phase \in {"term", "kill"}
    /\ r.pc = "finish" => r.phase = "reap"
    /\ r.pc \notin {"scan", "scanning", "signal", "kill", "finish"} => r.phase = "none"
    /\ \A m, k \in r.todo : m.pid = k.pid => m = k

TermOK(r, P, n) ==
    /\ r.termAt <= n
    /\ \A p \in Pids : Old(P, p, r.termAt) =>
         /\ r.phase = "term" /\ r.pc = "scanning" => MemberIn(P, p) \in r.begun
         /\ r.phase = "term" /\ r.pc \in {"signal", "kill"} =>
              MemberIn(P, p) \in r.todo \/ p \in r.termed
         /\ r.phase = "kill" => p \in r.termed

KillOK(r, P, n) ==
    /\ r.killAt <= n
    /\ \A p \in Pids : Old(P, p, r.killAt) =>
         /\ r.phase = "kill" /\ r.pc = "scanning" => MemberIn(P, p) \in r.begun
         /\ r.phase = "kill" /\ r.pc \in {"signal", "kill"} =>
              MemberIn(P, p) \in r.todo \cup r.killed
         /\ r.phase \in {"wait", "reap"} => MemberIn(P, p) \in r.killed
    /\ r.phase = "reap" =>
         \A m \in r.found : m.grp => m \in r.killed \/ m.born > r.killAt

\* A clean last scan, unless something slipped through it, is the end.
ResultOK(r, P) ==
    r.phase = "reap" /\ r.out = "complete" /\ ~r.slipped => NoResidue(P)

ActorOK(r, P, n) ==
    /\ r \in Actor
    /\ CheckedOK(r, P, n) /\ PlaceOK(r) /\ TermOK(r, P, n) /\ KillOK(r, P, n)
    /\ ResultOK(r, P)

RecordOK(A, P, record) ==
    /\ record \in {"running", "aborted", "exited", "forced", "incomplete",
                   "stopped", "stop-incomplete"}
    /\ record = "stopped" =>
         /\ A["stopper"].pc = "ended"
         /\ ~A["stopper"].slipped => NoResidue(P)
    /\ record \in {"exited", "forced"} =>
         /\ A["controller"].pc = "ended"
         /\ ~A["controller"].slipped => NoResidue(P)

ControlOK ==
    paused \in BOOLEAN /\ samples \in 0 .. MaxSamples /\ reason \in {"none", "abort", "raise"}

IInv ==
    /\ TableOK(proc, births)
    /\ act \in [Actors -> Actor]
    /\ \A a \in Actors : ActorOK(act[a], proc, births)
    /\ RecordOK(act, proc, rec)
    /\ ControlOK

-----------------------------------------------------------------------------
(* The process table. *)

\* A holder of a number goes on, with fewer memberships at most ...
GoesOn(q, r) ==
    /\ r.born = q.born /\ r.ses = q.ses
    /\ r.kin = "foreign" <=> q.kin = "foreign"
    /\ r.kin = "own" => q.kin = "own"
    /\ r.grp => q.grp
    /\ r.st \in {"run", "stop"} => q.st \in {"run", "stop"}

\* ... or the number falls free, or a newer process takes it; one of the run
\* is born of one of the run.
TableStep(P, n, Q, k) ==
    /\ k >= n
    /\ \A p \in Pids : \/ GoesOn(P[p], Q[p])
                       \/ Q[p] = Free
                       \/ Q[p].born > n /\ (Q[p].kin # "foreign" => ~NoResidue(P))

LEMMA TableTypes ==
  ASSUME NEW P, NEW n, TableOK(P, n)
  PROVE  /\ n \in Nat /\ n >= 1 /\ P \in [Pids -> Process]
         /\ \A p \in Pids :
              /\ P[p] \in Process /\ P[p].born \in Nat /\ P[p].born <= n
              /\ P[p].grp \in BOOLEAN /\ P[p].ses \in BOOLEAN
BY ProcessAssumption DEF TableOK, Process, LeaderBorn

LEMMA StandsStill ==
  ASSUME NEW P, NEW n, TableOK(P, n)
  PROVE  TableStep(P, n, P, n)
BY TableTypes DEF TableStep, GoesOn

\* One holder changes and is still what the table requires.
LEMMA HolderChanges ==
  ASSUME NEW P, NEW n, TableOK(P, n), NEW p \in Pids, NEW q \in Process,
         GoesOn(P[p], q), q.st # "free", P[p].st # "free"
  PROVE  LET Q == [P EXCEPT ![p] = q]
         IN  TableOK(Q, n) /\ TableStep(P, n, Q, n)
<1> DEFINE Q == [P EXCEPT ![p] = q]
<1>1. Q \in [Pids -> Process] /\ Q[p] = q /\ \A o \in Pids \ {p} : Q[o] = P[o]
  BY TableTypes
<1> HIDE DEF Q
<1>2. TableOK(Q, n)
  BY <1>1 DEF TableOK, GoesOn
<1>3. TableStep(P, n, Q, n)
  BY <1>1, TableTypes DEF TableStep, GoesOn
<1> QED
  BY <1>2, <1>3 DEF Q

LEMMA NumberFallsFree ==
  ASSUME TableOK(proc, births), NEW p \in Pids, ReapPid(p)
  PROVE  TableOK(proc', births') /\ TableStep(proc, births, proc', births')
<1>1. /\ Free \in Process /\ Free.born = 0 /\ Free.st = "free" /\ Free.kin = "foreign"
      /\ ~Free.ses /\ ~Free.grp
  BY DEF Free, Process, Offers
<1>2. /\ births' = births /\ proc' \in [Pids -> Process] /\ proc'[p] = Free
      /\ \A o \in Pids \ {p} : proc'[o] = proc[o]
  BY <1>1, TableTypes DEF ReapPid
<1>3. TableOK(proc', births')
  BY <1>1, <1>2 DEF TableOK, LeaderBorn
<1>4. TableStep(proc, births, proc', births')
  BY <1>2, TableTypes DEF TableStep, GoesOn
<1> QED
  BY <1>3, <1>4

\* A new process is one of the run only as the child of one of the run, and
\* takes the session only from a member or with nobody left in it.
LEMMA NumberIsTaken ==
  ASSUME TableOK(proc, births), NEW p \in Pids, NEW kin \in {"own", "scrub", "foreign"},
         NEW grp \in BOOLEAN, NEW ses \in BOOLEAN, Born(p, kin, grp, ses),
         kin # "foreign" => ses /\ ~NoResidue(proc),
         \A o \in Pids : proc[o].kin # "foreign" /\ kin = "foreign" => ~ses /\ ~grp,
         \A o \in Pids : proc[o].kin = "foreign" /\ kin # "foreign"
                           => ~proc[o].ses /\ ~proc[o].grp
  PROVE  TableOK(proc', births') /\ TableStep(proc, births, proc', births')
<1> DEFINE q == [st |-> "run", kin |-> kin, grp |-> grp, ses |-> ses,
                 born |-> births + 1, sig |-> {}]
<1>1. births \in Nat /\ births >= 1 /\ births < MaxBirths + LeaderBorn
  BY TableTypes DEF Born
<1>2. q \in Process
  BY <1>1 DEF Process, Offers
<1>3. /\ births' = births + 1 /\ proc' \in [Pids -> Process] /\ proc'[p] = q
      /\ \A o \in Pids \ {p} : proc'[o] = proc[o]
  BY <1>2, TableTypes DEF Born
<1>4. /\ q.st = "run" /\ q.kin = kin /\ q.grp = grp /\ q.ses = ses /\ q.born = births + 1
  OBVIOUS
<1> HIDE DEF q
<1>5. births' \in LeaderBorn .. MaxBirths + LeaderBorn
  BY <1>1, <1>3, ProcessAssumption DEF LeaderBorn
<1>6. \A o \in Pids :
        /\ proc'[o].born <= births'
        /\ proc'[o].st = "free" => proc'[o] = Free
        /\ proc'[o].st # "free" => proc'[o].born # 0
        /\ proc'[o].kin # "foreign" => proc'[o].ses
        /\ proc'[o].born = LeaderBorn => o = Leader /\ proc'[o].kin # "foreign"
  <2> TAKE o \in Pids
  <2>1. CASE o = p
    BY <1>1, <1>3, <1>4, <2>1 DEF LeaderBorn
  <2>2. CASE o # p
    <3>1. proc'[o] = proc[o] /\ births <= births'
      BY <1>1, <1>3, <2>2
    <3> QED
      BY <1>1, <1>3, <3>1, TableTypes DEF TableOK
  <2> QED
    BY <2>1, <2>2
<1>7. \A o, u \in Pids :
        proc'[o].kin # "foreign" /\ proc'[u].kin = "foreign" => ~proc'[u].ses /\ ~proc'[u].grp
  BY <1>3, <1>4 DEF TableOK
<1>8. TableOK(proc', births')
  BY <1>3, <1>5, <1>6, <1>7 DEF TableOK
<1>9. TableStep(proc, births, proc', births')
  BY <1>1, <1>3, <1>4, TableTypes DEF TableStep, GoesOn
<1> QED
  BY <1>8, <1>9

LEMMA WorldKeepsTable ==
  ASSUME TableOK(proc, births), World
  PROVE  TableOK(proc', births') /\ TableStep(proc, births, proc', births')
<1>1. PICK p \in Pids : \/ \E q \in Pids : Fork(p, q)
                        \/ LeaveGroup(p)
                        \/ RewriteEnvironment(p)
                        \/ Exit(p)
                        \/ ReapOther(p)
                        \/ ForeignBirth(p)
  BY DEF World
<1>2. proc[p] \in Process /\ proc \in [Pids -> Process]
  BY TableTypes
<1>3. ASSUME NEW q \in Pids, Fork(p, q)
      PROVE  TableOK(proc', births') /\ TableStep(proc, births, proc', births')
  <2>1. /\ proc[p].st = "run" /\ proc[p].ses /\ LiveIn(proc, p)
        /\ Born(q, proc[p].kin, proc[p].grp, TRUE)
    BY <1>3 DEF Fork, Runs, InSession, LiveIn
  <2>2. proc[p].kin \in {"own", "scrub", "foreign"} /\ proc[p].grp \in BOOLEAN
    BY <1>2 DEF Process
  <2>3. proc[p].kin # "foreign" => ~NoResidue(proc)
    BY <2>1 DEF NoResidue
  <2>4. \A o \in Pids :
          /\ proc[o].kin # "foreign" /\ proc[p].kin = "foreign" => ~TRUE /\ ~proc[p].grp
          /\ proc[o].kin = "foreign" /\ proc[p].kin # "foreign"
               => ~proc[o].ses /\ ~proc[o].grp
    BY <2>1 DEF TableOK
  <2> QED
    BY <2>1, <2>2, <2>3, <2>4, NumberIsTaken
<1>4. CASE LeaveGroup(p)
  <2> DEFINE q == [proc[p] EXCEPT !.grp = FALSE]
  <2>1. proc' = [proc EXCEPT ![p] = q] /\ births' = births /\ proc[p].st = "run"
    BY <1>2, <1>4 DEF LeaveGroup, Runs
  <2>2. q \in Process /\ GoesOn(proc[p], q) /\ q.st # "free"
    BY <1>2, <2>1 DEF Process, GoesOn
  <2> HIDE DEF q
  <2> QED
    BY <2>1, <2>2, HolderChanges
<1>5. CASE RewriteEnvironment(p)
  <2> DEFINE q == [proc[p] EXCEPT !.kin = "scrub"]
  <2>1. /\ proc' = [proc EXCEPT ![p] = q] /\ births' = births
        /\ proc[p].st = "run" /\ proc[p].kin = "own"
    BY <1>2, <1>5 DEF RewriteEnvironment, Runs
  <2>2. q \in Process /\ GoesOn(proc[p], q) /\ q.st # "free"
    BY <1>2, <2>1 DEF Process, GoesOn
  <2> HIDE DEF q
  <2> QED
    BY <2>1, <2>2, HolderChanges
<1>6. CASE Exit(p)
  <2> DEFINE q == [proc[p] EXCEPT !.st = "dead"]
  <2>1. proc' = [proc EXCEPT ![p] = q] /\ births' = births /\ proc[p].st \in {"run", "stop"}
    BY <1>2, <1>6 DEF Exit
  <2>2. q \in Process /\ GoesOn(proc[p], q) /\ q.st # "free"
    BY <1>2, <2>1 DEF Process, GoesOn
  <2> HIDE DEF q
  <2> QED
    BY <2>1, <2>2, HolderChanges
<1>7. CASE ReapOther(p)
  BY <1>7, NumberFallsFree DEF ReapOther
<1>8. CASE ForeignBirth(p)
  <2>1. PICK lead \in BOOLEAN : Born(p, "foreign", lead /\ p = Leader, lead /\ p = Leader)
    BY <1>8 DEF ForeignBirth
  <2>2. (lead /\ p = Leader) \in BOOLEAN
    OBVIOUS
  <2>3. \A o \in Pids : proc[o].kin # "foreign" => ~(lead /\ p = Leader)
    <3> SUFFICES ASSUME NEW o \in Pids, proc[o].kin # "foreign", lead, p = Leader
                 PROVE  FALSE
      OBVIOUS
    <3>1. Free.kin = "foreign"
      BY DEF Free
    <3>2. proc[o].ses /\ proc[o].st # "free"
      BY <3>1 DEF TableOK
    <3>3. InSession(o)
      BY <3>2 DEF InSession, Exists
    <3> QED
      BY <2>1, <3>3 DEF Born, Available
  <2> QED
    BY <2>1, <2>2, <2>3, NumberIsTaken
<1> QED
  BY <1>1, <1>3, <1>4, <1>5, <1>6, <1>7, <1>8

LEMMA DeliveryKeepsTable ==
  ASSUME TableOK(proc, births), NEW T \in SUBSET Pids, NEW s \in Signals, Deliver(T, s)
  PROVE  TableOK(proc', births') /\ TableStep(proc, births, proc', births')
<1> DEFINE Hit(p) == p \in T /\ Live(p)
<1>1. births' = births /\ proc \in [Pids -> Process]
  BY TableTypes DEF Deliver
<1>2. ASSUME NEW p \in Pids
      PROVE  /\ proc'[p] \in Process
             /\ proc'[p] = proc[p] \/ (Live(p) /\ proc'[p].st \in {"run", "stop"})
             /\ GoesOn(proc[p], proc'[p]) /\ proc'[p].grp = proc[p].grp
             /\ proc'[p].kin = proc[p].kin
  <2>1. proc[p] \in Process
    BY <1>1
  <2>2. CASE Hit(p)
    <3>1. proc'[p] = Signalled(proc[p], s)
      BY <2>2 DEF Deliver
    <3>2. /\ proc'[p] \in Process /\ proc'[p].st \in {"run", "stop"}
          /\ proc'[p].born = proc[p].born /\ proc'[p].ses = proc[p].ses
          /\ proc'[p].kin = proc[p].kin /\ proc'[p].grp = proc[p].grp
      <4> DEFINE sig == proc[p].sig \cup ({s} \cap Offers)
                 st == CASE s = "STOP" -> "stop" [] s = "CONT" -> "run" [] OTHER -> proc[p].st
      <4>1. sig \in SUBSET Offers
        BY <2>1 DEF Process
      <4>2. st \in {"run", "stop"}
        <5>1. proc[p].st \in {"run", "stop"}
          BY <2>2 DEF Live
        <5>2. CASE s = "STOP"
          BY <5>2
        <5>3. CASE s = "CONT"
          BY <5>3
        <5>4. CASE s # "STOP" /\ s # "CONT"
          BY <5>1, <5>4
        <5> QED
          BY <5>2, <5>3, <5>4
      <4>3. proc'[p] = [proc[p] EXCEPT !.sig = sig, !.st = st]
        BY <3>1 DEF Signalled
      <4> HIDE DEF sig, st
      <4> QED
        BY <2>1, <4>1, <4>2, <4>3 DEF Process
    <3> QED
      BY <2>2, <3>2 DEF GoesOn, Live
  <2>3. CASE ~Hit(p)
    <3>1. proc'[p] = proc[p]
      BY <2>3 DEF Deliver
    <3> QED
      BY <2>1, <3>1 DEF GoesOn
  <2> QED
    BY <2>2, <2>3
<1>3. proc' \in [Pids -> Process]
  BY <1>2 DEF Deliver
<1>4. TableOK(proc', births')
  BY <1>1, <1>2, <1>3 DEF TableOK, GoesOn, Live
<1>5. TableStep(proc, births, proc', births')
  BY <1>1, <1>2, TableTypes DEF TableStep
<1> QED
  BY <1>4, <1>5

-----------------------------------------------------------------------------
(* What the others do not take away. *)

LEMMA ResidueStaysAway ==
  ASSUME NEW P, NEW n, NEW Q, NEW k, TableStep(P, n, Q, k), NoResidue(P)
  PROVE  NoResidue(Q)
<1> SUFFICES ASSUME NEW p \in Pids, LiveIn(Q, p), Q[p].ses, Q[p].kin # "foreign"
             PROVE  FALSE
  BY DEF NoResidue
<1>1. Free.kin = "foreign"
  BY DEF Free
<1>2. GoesOn(P[p], Q[p])
  BY <1>1 DEF TableStep
<1> QED
  BY <1>2 DEF GoesOn, NoResidue, LiveIn

LEMMA OldIsOld ==
  ASSUME NEW P, NEW n, NEW Q, NEW k, TableOK(P, n), TableOK(Q, k), TableStep(P, n, Q, k),
         NEW p \in Pids, NEW time \in Nat, time <= n, Old(Q, p, time)
  PROVE  Old(P, p, time) /\ MemberIn(Q, p) = MemberIn(P, p)
<1>1. Free.kin = "foreign"
  BY DEF Free
<1>2. Q[p].born <= n
  BY TableTypes DEF Old
<1>3. GoesOn(P[p], Q[p])
  BY <1>1, <1>2, TableTypes DEF TableStep, Old
<1>4. P[p].grp = TRUE /\ Q[p].grp = TRUE
  BY <1>3, TableTypes DEF GoesOn, Old
<1> QED
  BY <1>3, <1>4 DEF GoesOn, Old, LiveIn, MemberIn

LEMMA ActorIsTyped ==
  ASSUME NEW r \in Actor
  PROVE  /\ r.termAt \in Nat /\ r.killAt \in Nat
         /\ r.begun \subseteq Members /\ r.found \subseteq Members /\ r.todo \subseteq Members
         /\ r.killed \subseteq Members /\ r.termed \subseteq Pids
         /\ r.checked \in Members \cup {NoMember}
BY DEF Actor

LEMMA CleanerKeeps ==
  ASSUME NEW P, NEW n, NEW Q, NEW k, TableOK(P, n), TableOK(Q, k), TableStep(P, n, Q, k),
         NEW r, ActorOK(r, P, n)
  PROVE  ActorOK(r, Q, k)
<1>1. /\ n \in Nat /\ k \in Nat /\ n <= k
      /\ r \in Actor /\ r.termAt \in Nat /\ r.killAt \in Nat
      /\ r.termAt <= n /\ r.killAt <= n
  BY TableTypes, ActorIsTyped DEF TableStep, ActorOK, TermOK, KillOK
<1>2. CheckedOK(r, Q, k)
  <2>1. ASSUME r.checked # NoMember
        PROVE  /\ r.checked \in Members /\ r.checked.born \in 1 .. k
               /\ Q[r.checked.pid].born = r.checked.born => Q[r.checked.pid].kin # "foreign"
    <3>1. /\ r.checked \in Members /\ r.checked.born \in 1 .. n
          /\ P[r.checked.pid].born = r.checked.born => P[r.checked.pid].kin # "foreign"
      BY <2>1 DEF ActorOK, CheckedOK
    <3>2. r.checked.pid \in Pids /\ Free.born = 0
      BY <3>1 DEF Members, Free
    <3>3. ASSUME Q[r.checked.pid].born = r.checked.born
          PROVE  GoesOn(P[r.checked.pid], Q[r.checked.pid])
      BY <1>1, <3>1, <3>2, <3>3 DEF TableStep
    <3> QED
      BY <1>1, <3>1, <3>3 DEF GoesOn
  <2> QED
    BY <2>1 DEF ActorOK, CheckedOK
<1>3. \A p \in Pids :
        /\ Old(Q, p, r.termAt) => Old(P, p, r.termAt) /\ MemberIn(Q, p) = MemberIn(P, p)
        /\ Old(Q, p, r.killAt) => Old(P, p, r.killAt) /\ MemberIn(Q, p) = MemberIn(P, p)
  BY <1>1, OldIsOld
<1>4. TermOK(r, Q, k)
  BY <1>1, <1>3 DEF ActorOK, TermOK
<1>5. KillOK(r, Q, k)
  BY <1>1, <1>3 DEF ActorOK, KillOK
<1>6. ResultOK(r, Q)
  BY ResidueStaysAway DEF ActorOK, ResultOK
<1> QED
  BY <1>2, <1>4, <1>5, <1>6 DEF ActorOK

LEMMA OneCleanerSteps ==
  ASSUME IInv, TableOK(proc', births'), TableStep(proc, births, proc', births'),
         NEW a \in Actors, NEW r, ActorOK(r, proc', births'), act' = [act EXCEPT ![a] = r],
         RecordOK(act', proc', rec'), ControlOK'
  PROVE  IInv'
<1>1. /\ act \in [Actors -> Actor] /\ r \in Actor /\ act'[a] = r
      /\ \A b \in Actors \ {a} : act'[b] = act[b]
  BY DEF IInv, ActorOK
<1>2. act' \in [Actors -> Actor]
  BY <1>1
<1>3. ASSUME NEW b \in Actors
      PROVE  ActorOK(act'[b], proc', births')
  <2>1. CASE b = a
    BY <1>1, <2>1
  <2>2. CASE b # a
    <3>1. act'[b] = act[b] /\ ActorOK(act[b], proc, births) /\ TableOK(proc, births)
      BY <1>1, <2>2 DEF IInv
    <3> QED
      BY <3>1, CleanerKeeps
  <2> QED
    BY <2>1, <2>2
<1> QED
  BY <1>2, <1>3 DEF IInv

\* The record stays true while a cleaner that has not ended steps.
LEMMA SameRecord ==
  ASSUME IInv, TableStep(proc, births, proc', births'), rec' = rec,
         NEW a \in Actors, act[a].pc # "ended", NEW r, act' = [act EXCEPT ![a] = r]
  PROVE  RecordOK(act', proc', rec')
<1>1. act \in [Actors -> Actor] /\ \A b \in Actors \ {a} : act'[b] = act[b]
  BY DEF IInv
<1>2. NoResidue(proc) => NoResidue(proc')
  BY ResidueStaysAway
<1>3. RecordOK(act, proc, rec)
  BY DEF IInv
<1>4. /\ rec = "stopped" => a # "stopper"
      /\ rec \in {"exited", "forced"} => a # "controller"
  BY <1>3 DEF RecordOK
<1>5. "stopper" \in Actors /\ "controller" \in Actors
  BY DEF Actors
<1> QED
  BY <1>1, <1>2, <1>3, <1>4, <1>5 DEF RecordOK

\* Only the table changes.
LEMMA OnlyTheTable ==
  ASSUME IInv, TableOK(proc', births'), TableStep(proc, births, proc', births'),
         UNCHANGED <<act, controller, rec>>
  PROVE  IInv'
<1>1. NoResidue(proc) => NoResidue(proc')
  BY ResidueStaysAway
<1>2. RecordOK(act', proc', rec')
  BY <1>1 DEF IInv, RecordOK
<1>3. \A a \in Actors : ActorOK(act'[a], proc', births')
  BY CleanerKeeps DEF IInv
<1>4. ControlOK'
  BY DEF IInv, ControlOK, controller
<1> QED
  BY <1>2, <1>3, <1>4 DEF IInv

-----------------------------------------------------------------------------
(* One cleaner. *)

LEMMA Entered ==
  ASSUME NEW r \in Actor, NEW phase \in {"natural", "term", "kill", "wait"}
  PROVE  LET e == Enter(r, phase)
         IN  /\ e \in Actor /\ e.pc = "scan" /\ e.phase = phase /\ e.checked = NoMember
             /\ e.todo = r.todo /\ e.termed = r.termed /\ e.killed = r.killed
             /\ e.termAt = r.termAt /\ e.killAt = r.killAt /\ e.err = r.err
BY DEF Enter, Actor

LEMMA IdleIsActor ==
  /\ Idle \in Actor /\ Idle.phase = "none" /\ Idle.checked = NoMember
  /\ Idle.todo = {} /\ Idle.termAt = 0 /\ Idle.killAt = 0
BY DEF Idle, Actor

\* Where nothing is being scanned or signalled there is little to keep.
LEMMA LoosePlace ==
  ASSUME NEW P, NEW n, TableOK(P, n), NEW r \in Actor, r.termAt <= n, r.killAt <= n,
         \/ r.pc = "scan" /\ r.phase \in {"natural", "term"}
         \/ /\ r.pc \notin {"scan", "scanning", "signal", "kill", "finish"}
            /\ r.phase = "none",
         \A m, k \in r.todo : m.pid = k.pid => m = k,
         CheckedOK(r, P, n)
  PROVE  ActorOK(r, P, n)
<1>1. PlaceOK(r)
  BY DEF PlaceOK
<1>2. TermOK(r, P, n)
  BY DEF TermOK
<1>3. KillOK(r, P, n)
  BY DEF KillOK
<1>4. ResultOK(r, P)
  BY DEF ResultOK
<1> QED
  BY <1>1, <1>2, <1>3, <1>4 DEF ActorOK

LEMMA Unchecked ==
  ASSUME NEW P, NEW n, NEW r, r.checked = NoMember, r.pc # "kill", r.pc \notin GroupPcs
  PROVE  CheckedOK(r, P, n)
BY DEF CheckedOK

LEMMA IdleIsLoose ==
  ASSUME NEW P, NEW n, TableOK(P, n), NEW pc \in {"idle", "watch", "contV", "ended"},
         NEW slipped \in BOOLEAN
  PROVE  /\ ActorOK([Idle EXCEPT !.pc = pc, !.slipped = slipped], P, n)
         /\ ActorOK([Idle EXCEPT !.pc = pc], P, n)
<1> DEFINE r == [Idle EXCEPT !.pc = pc, !.slipped = slipped]
           u == [Idle EXCEPT !.pc = pc]
<1>1. /\ r \in Actor /\ r.pc = pc /\ r.phase = "none" /\ r.checked = NoMember
      /\ r.todo = {} /\ r.termAt = 0 /\ r.killAt = 0
  BY DEF Idle, Actor
<1> HIDE DEF r
<1>2. CheckedOK(r, P, n)
  BY <1>1, Unchecked DEF GroupPcs
<1>3. ActorOK(r, P, n)
  BY <1>1, <1>2, LoosePlace, TableTypes
<1>4. /\ u \in Actor /\ u.pc = pc /\ u.phase = "none" /\ u.checked = NoMember
      /\ u.todo = {} /\ u.termAt = 0 /\ u.killAt = 0
  BY DEF Idle, Actor
<1> HIDE DEF u
<1>5. CheckedOK(u, P, n)
  BY <1>4, Unchecked DEF GroupPcs
<1>6. ActorOK(u, P, n)
  BY <1>4, <1>5, LoosePlace, TableTypes
<1> QED
  BY <1>3, <1>6 DEF r, u

\* A cleanup may begin anywhere with a SIGTERM pass or the wait for a natural end.
LEMMA CleanupBegins ==
  ASSUME NEW P, NEW n, TableOK(P, n), NEW r, ActorOK(r, P, n),
         NEW phase \in {"natural", "term"}, NEW err \in BOOLEAN
  PROVE  ActorOK(Enter(r, phase), P, n) /\ ActorOK([Enter(r, phase) EXCEPT !.err = err], P, n)
<1> DEFINE e == [Enter(r, phase) EXCEPT !.err = err]
<1>1. r \in Actor /\ r.termAt <= n /\ r.killAt <= n
      /\ \A m, k \in r.todo : m.pid = k.pid => m = k
  BY DEF ActorOK, TermOK, KillOK, PlaceOK
<1>2. /\ Enter(r, phase) \in Actor /\ Enter(r, phase).pc = "scan"
      /\ Enter(r, phase).phase = phase /\ Enter(r, phase).checked = NoMember
      /\ Enter(r, phase).todo = r.todo
      /\ Enter(r, phase).termAt = r.termAt /\ Enter(r, phase).killAt = r.killAt
  BY <1>1, Entered
<1>3. /\ e \in Actor /\ e.pc = "scan" /\ e.phase = phase /\ e.checked = NoMember
      /\ e.todo = r.todo /\ e.termAt = r.termAt /\ e.killAt = r.killAt
  BY <1>2 DEF Actor
<1> HIDE DEF e
<1>4. CheckedOK(e, P, n)
  BY <1>3, Unchecked DEF GroupPcs
<1>5. ActorOK(e, P, n)
  BY <1>1, <1>3, <1>4, LoosePlace
<1>6. CheckedOK(Enter(r, phase), P, n)
  BY <1>2, Unchecked DEF GroupPcs
<1>7. ActorOK(Enter(r, phase), P, n)
  BY <1>1, <1>2, <1>6, LoosePlace
<1> QED
  BY <1>5, <1>7 DEF e

-----------------------------------------------------------------------------
(* The steps of terminate_verified_session_residuals. *)

LEMMA Facts ==
  ASSUME IInv, NEW a \in Actors
  PROVE  /\ TableOK(proc, births) /\ TableStep(proc, births, proc, births)
         /\ births \in Nat /\ births >= 1
         /\ act \in [Actors -> Actor] /\ act[a] \in Actor /\ ActorOK(act[a], proc, births)
         /\ act[a].termAt \in Nat /\ act[a].killAt \in Nat
BY StandsStill, TableTypes, ActorIsTyped DEF IInv

\* A step of one cleaner that reads the table and does not touch the record.
LEMMA QuietStep ==
  ASSUME IInv, NEW a \in Actors, NEW r, ActorOK(r, proc, births), act[a].pc # "ended",
         act' = [act EXCEPT ![a] = r], UNCHANGED <<proc, births, rec>>, ControlOK'
  PROVE  IInv'
<1>1. TableOK(proc', births') /\ TableStep(proc, births, proc', births')
      /\ ActorOK(r, proc', births')
  BY Facts
<1>2. RecordOK(act', proc', rec')
  BY <1>1, SameRecord
<1> QED
  BY <1>1, <1>2, OneCleanerSteps

LEMMA ControlStays ==
  ASSUME IInv, UNCHANGED controller
  PROVE  ControlOK'
BY DEF IInv, ControlOK, controller

LEMMA ExpireKeeps ==
  ASSUME IInv, NEW a \in Actors, Expire(a)
  PROVE  IInv'
<1> DEFINE r == [act[a] EXCEPT !.expired = TRUE]
<1>1. act' = [act EXCEPT ![a] = r] /\ UNCHANGED <<proc, births, rec, controller>>
      /\ act[a].pc \in {"scan", "finish"}
  BY Facts DEF Expire
<1>2. /\ r \in Actor /\ r.pc = act[a].pc /\ r.phase = act[a].phase /\ r.begun = act[a].begun
      /\ r.found = act[a].found /\ r.todo = act[a].todo /\ r.checked = act[a].checked
      /\ r.termed = act[a].termed /\ r.killed = act[a].killed /\ r.out = act[a].out
      /\ r.slipped = act[a].slipped /\ r.termAt = act[a].termAt /\ r.killAt = act[a].killAt
  BY Facts DEF Actor
<1> HIDE DEF r
<1>3. ActorOK(r, proc, births)
  <2>1. CheckedOK(r, proc, births) /\ PlaceOK(r) /\ ResultOK(r, proc)
    BY <1>2, Facts DEF ActorOK, CheckedOK, PlaceOK, ResultOK
  <2>2. TermOK(r, proc, births) /\ KillOK(r, proc, births)
    BY <1>2, Facts DEF ActorOK, TermOK, KillOK
  <2> QED
    BY <1>2, <2>1, <2>2 DEF ActorOK
<1> QED
  BY <1>1, <1>3, QuietStep, ControlStays

LEMMA ScanBeginKeeps ==
  ASSUME IInv, NEW a \in Actors, ScanBegin(a)
  PROVE  IInv'
<1> DEFINE s == act[a]
           begun == {Member(p) : p \in SessionLive}
           r == [s EXCEPT !.pc = "scanning", !.begun = begun,
                          !.termAt = IF s.phase = "term" THEN births ELSE @,
                          !.killAt = IF s.phase = "kill" THEN births ELSE @]
<1>1. act' = [act EXCEPT ![a] = r] /\ UNCHANGED <<proc, births, rec, controller>> /\ s.pc = "scan"
  BY DEF ScanBegin, Becomes, At
<1>2. begun \in SUBSET Members
  <2>1. \A p \in SessionLive : Member(p) \in Members
    BY Facts, TableTypes DEF SessionLive, Member, Members
  <2> QED
    BY <2>1
<1>3. \A p \in Pids, time \in Nat : Old(proc, p, time) => MemberIn(proc, p) \in begun
  <2> SUFFICES ASSUME NEW p \in Pids, NEW time \in Nat, Old(proc, p, time)
               PROVE  p \in SessionLive /\ MemberIn(proc, p) = Member(p)
    OBVIOUS
  <2> QED
    BY Facts DEF Old, LiveIn, SessionLive, Live, TableOK, MemberIn, Member
<1> HIDE DEF begun
<1>4. /\ r \in Actor /\ r.pc = "scanning" /\ r.phase = s.phase /\ r.begun = begun
      /\ r.todo = s.todo /\ r.checked = s.checked
      /\ r.termed = s.termed /\ r.killed = s.killed
      /\ r.termAt = IF s.phase = "term" THEN births ELSE s.termAt
      /\ r.killAt = IF s.phase = "kill" THEN births ELSE s.killAt
  <2> DEFINE termAt == IF s.phase = "term" THEN births ELSE s.termAt
             killAt == IF s.phase = "kill" THEN births ELSE s.killAt
  <2>1. termAt \in Nat /\ killAt \in Nat /\ s \in Actor
    BY Facts
  <2>2. r = [s EXCEPT !.pc = "scanning", !.begun = begun, !.termAt = termAt, !.killAt = killAt]
    OBVIOUS
  <2> HIDE DEF termAt, killAt, s, r
  <2>3. /\ r \in Actor /\ r.pc = "scanning" /\ r.phase = s.phase /\ r.begun = begun
        /\ r.todo = s.todo /\ r.checked = s.checked
        /\ r.termed = s.termed /\ r.killed = s.killed
        /\ r.termAt = termAt /\ r.killAt = killAt
    BY <1>2, <2>1, <2>2 DEF Actor
  <2> QED
    BY <2>3 DEF termAt, killAt
<1> HIDE DEF r
<1>5. s.phase \in {"natural", "term", "kill", "wait"} /\ r.termAt \in Nat /\ r.killAt \in Nat
  BY <1>1, <1>4, Facts DEF ActorOK, PlaceOK
<1>6. ActorOK(r, proc, births)
  <2>1. CheckedOK(r, proc, births)
    BY <1>4, Facts DEF ActorOK, CheckedOK, GroupPcs
  <2>2. PlaceOK(r) /\ ResultOK(r, proc)
    BY <1>4, <1>5, Facts DEF ActorOK, PlaceOK, ResultOK
  <2>3. TermOK(r, proc, births)
    BY <1>3, <1>4, <1>5, Facts DEF ActorOK, TermOK
  <2>4. KillOK(r, proc, births)
    BY <1>3, <1>4, <1>5, Facts DEF ActorOK, KillOK
  <2> QED
    BY <1>4, <2>1, <2>2, <2>3, <2>4 DEF ActorOK
<1> QED
  BY <1>1, <1>6, QuietStep, ControlStays

\* What a scan shows: a process per number, and everybody who was there from
\* its beginning to its end.
LEMMA ScanShows ==
  ASSUME IInv, NEW a \in Actors, NEW seen \in Seen(a)
  PROVE  LET found == {Member(p) : p \in {q \in seen : proc[q].kin = "own"}}
         IN  /\ seen \subseteq SessionLive /\ found \in SUBSET Members
             /\ \A m, k \in found : m.pid = k.pid => m = k
             /\ \A m \in found : \E p \in Pids :
                  m = MemberIn(proc, p) /\ LiveIn(proc, p) /\ proc[p].kin = "own"
             /\ \A p \in Pids, time \in Nat :
                  Old(proc, p, time) /\ MemberIn(proc, p) \in act[a].begun
                    => MemberIn(proc, p) \in found
<1> DEFINE found == {Member(p) : p \in {q \in seen : proc[q].kin = "own"}}
<1>1. seen \subseteq SessionLive /\ Listed(a) \cap SessionLive \subseteq seen
  BY DEF Seen
<1>2. \A p \in seen : /\ p \in Pids /\ Member(p) = MemberIn(proc, p) /\ Member(p) \in Members
                      /\ Member(p).pid = p /\ LiveIn(proc, p)
  BY <1>1, Facts, TableTypes DEF SessionLive, Live, LiveIn, Member, MemberIn, Members
<1>3. found \in SUBSET Members
  BY <1>2
<1>4. \A m, k \in found : m.pid = k.pid => m = k
  BY <1>2
<1>5. \A m \in found : \E p \in Pids :
        m = MemberIn(proc, p) /\ LiveIn(proc, p) /\ proc[p].kin = "own"
  BY <1>2
<1>6. ASSUME NEW p \in Pids, NEW time \in Nat, Old(proc, p, time),
             MemberIn(proc, p) \in act[a].begun
      PROVE  MemberIn(proc, p) \in found
  <2>1. Live(p) /\ proc[p].ses /\ proc[p].kin = "own"
    BY <1>6, Facts DEF Old, LiveIn, Live, TableOK
  <2>2. p \in SessionLive
    BY <2>1 DEF SessionLive
  <2>3. MemberIn(proc, p).pid = p /\ MemberIn(proc, p).born = proc[p].born
    BY DEF MemberIn
  <2>4. Held(MemberIn(proc, p))
    BY <2>1, <2>3 DEF Held, Exists, Live
  <2>5. p \in Listed(a)
    BY <1>6, <2>3, <2>4 DEF Listed
  <2>6. p \in seen
    BY <1>1, <2>2, <2>5
  <2> QED
    BY <1>2, <2>1, <2>6
<1> QED
  BY <1>1, <1>3, <1>4, <1>5, <1>6

LEMMA ScanEndKeeps ==
  ASSUME IInv, NEW a \in Actors, ScanEnd(a)
  PROVE  IInv'
<1>1. PICK seen \in Seen(a) : \E bad \in Rejected(a, seen) :
        Becomes(a, AfterScan([act[a] EXCEPT
            !.begun = {}, !.found = {Member(p) : p \in {q \in seen : proc[q].kin = "own"}},
            !.bad = bad, !.slipped = act[a].phase = "wait" /\ seen # SessionLive]))
  BY DEF ScanEnd
<1>2. PICK bad \in Rejected(a, seen) :
        Becomes(a, AfterScan([act[a] EXCEPT
            !.begun = {}, !.found = {Member(p) : p \in {q \in seen : proc[q].kin = "own"}},
            !.bad = bad, !.slipped = act[a].phase = "wait" /\ seen # SessionLive]))
  BY <1>1
<1> DEFINE s == act[a]
           found == {Member(p) : p \in {q \in seen : proc[q].kin = "own"}}
           slipped == s.phase = "wait" /\ seen # SessionLive
           r == [s EXCEPT !.begun = {}, !.found = found, !.bad = bad, !.slipped = slipped]
<1>3. UNCHANGED <<proc, births, rec, controller>> /\ s.pc = "scanning"
      /\ act' = [act EXCEPT ![a] = AfterScan(r)]
  BY <1>2 DEF ScanEnd, Becomes, At
<1>4. /\ seen \subseteq SessionLive /\ found \in SUBSET Members
      /\ \A m, k \in found : m.pid = k.pid => m = k
      /\ \A m \in found : \E p \in Pids :
           m = MemberIn(proc, p) /\ LiveIn(proc, p) /\ proc[p].kin = "own"
      /\ \A p \in Pids, time \in Nat :
           Old(proc, p, time) /\ MemberIn(proc, p) \in s.begun => MemberIn(proc, p) \in found
  BY ScanShows
<1>5. bad \in BOOLEAN /\ (~bad => \A p \in seen : proc[p].kin = "own")
  BY DEF Rejected
<1>6. found = {} /\ ~bad /\ ~slipped /\ s.phase = "wait" => NoResidue(proc)
  <2> SUFFICES ASSUME found = {}, ~bad, seen = SessionLive,
                      NEW p \in Pids, LiveIn(proc, p), proc[p].ses
               PROVE  FALSE
    BY DEF NoResidue
  <2>1. p \in seen
    BY DEF SessionLive, Live, LiveIn
  <2>2. proc[p].kin = "own"
    BY <1>5, <2>1
  <2>3. Member(p) \in found
    BY <2>1, <2>2
  <2> QED
    BY <2>3
<1> HIDE DEF found, slipped
<1>7. slipped \in BOOLEAN
  BY DEF slipped
<1>8. /\ r \in Actor /\ r.pc = "scanning" /\ r.phase = s.phase /\ r.begun = {}
      /\ r.found = found /\ r.bad = bad /\ r.todo = s.todo /\ r.checked = s.checked
      /\ r.termed = s.termed /\ r.killed = s.killed /\ r.slipped = slipped
      /\ r.termAt = s.termAt /\ r.killAt = s.killAt /\ r.expired = s.expired
  <2>1. s \in Actor
    BY Facts
  <2> HIDE DEF s
  <2> QED
    BY <1>3, <1>4, <1>5, <1>7, <2>1 DEF Actor
<1> HIDE DEF r
<1>9. /\ s.phase \in {"natural", "term", "kill", "wait"}
      /\ CheckedOK(s, proc, births) /\ TermOK(s, proc, births) /\ KillOK(s, proc, births)
      /\ s.termAt \in Nat /\ s.killAt \in Nat /\ s.termAt <= births /\ s.killAt <= births
      /\ \A m, k \in s.todo : m.pid = k.pid => m = k
  BY <1>3, Facts DEF ActorOK, PlaceOK, TermOK, KillOK
<1>10. ActorOK(AfterScan(r), proc, births)
  <2>1. CASE s.phase = "natural" /\ ~((r.found # {} \/ r.bad) /\ ~r.expired)
    <3>1. AfterScan(r) = Enter(r, "term")
      BY <1>8, <2>1 DEF AfterScan
    <3>2. /\ Enter(r, "term") \in Actor /\ Enter(r, "term").pc = "scan"
          /\ Enter(r, "term").phase = "term" /\ Enter(r, "term").checked = NoMember
          /\ Enter(r, "term").todo = s.todo
          /\ Enter(r, "term").termAt = s.termAt /\ Enter(r, "term").killAt = s.killAt
      BY <1>8, Entered
    <3>3. CheckedOK(Enter(r, "term"), proc, births)
      BY <3>2, Unchecked DEF GroupPcs
    <3> QED
      BY <1>9, <3>1, <3>2, <3>3, LoosePlace, Facts
  <2>2. CASE \/ s.phase = "natural" /\ (r.found # {} \/ r.bad) /\ ~r.expired
             \/ s.phase = "wait" /\ r.found # {} /\ ~r.expired
    <3> DEFINE e == [r EXCEPT !.pc = "scan"]
    <3>1. AfterScan(r) = e
      BY <1>8, <2>2 DEF AfterScan
    <3>2. /\ e \in Actor /\ e.pc = "scan" /\ e.phase = s.phase /\ e.begun = {}
          /\ e.todo = s.todo /\ e.checked = s.checked
          /\ e.termed = s.termed /\ e.killed = s.killed
          /\ e.termAt = s.termAt /\ e.killAt = s.killAt
      BY <1>8 DEF Actor
    <3> HIDE DEF e
    <3>3. CheckedOK(e, proc, births)
      BY <1>9, <3>2 DEF CheckedOK, GroupPcs
    <3>4. PlaceOK(e) /\ ResultOK(e, proc)
      BY <1>9, <2>2, <3>2 DEF PlaceOK, ResultOK
    <3>5. TermOK(e, proc, births) /\ KillOK(e, proc, births)
      BY <1>9, <2>2, <3>2 DEF TermOK, KillOK
    <3> QED
      BY <3>1, <3>2, <3>3, <3>4, <3>5 DEF ActorOK
  <2>3. CASE s.phase = "wait" /\ ~(r.found # {} /\ ~r.expired)
    <3> DEFINE out == Result(r.found, r.bad)
               e == [r EXCEPT !.pc = "finish", !.phase = "reap", !.expired = FALSE, !.out = out]
    <3>1. AfterScan(r) = e
      BY <1>8, <2>3 DEF AfterScan
    <3>2. out \in {"complete", "incomplete"} /\ (out = "complete" => found = {} /\ ~bad)
      BY <1>8 DEF Result
    <3> HIDE DEF out
    <3>3. /\ e \in Actor /\ e.pc = "finish" /\ e.phase = "reap" /\ e.out = out
          /\ e.todo = s.todo /\ e.checked = s.checked /\ e.found = found
          /\ e.killed = s.killed /\ e.slipped = slipped
          /\ e.termAt = s.termAt /\ e.killAt = s.killAt
      BY <1>8, <3>2 DEF Actor
    <3> HIDE DEF e
    <3>4. CheckedOK(e, proc, births)
      BY <1>9, <3>3 DEF CheckedOK, GroupPcs
    <3>5. PlaceOK(e) /\ TermOK(e, proc, births)
      BY <1>9, <3>3 DEF PlaceOK, TermOK
    <3>6. ResultOK(e, proc)
      BY <1>6, <2>3, <3>2, <3>3 DEF ResultOK
    <3>7. KillOK(e, proc, births)
      <4>1. ASSUME NEW m \in found, m.grp
            PROVE  m \in s.killed \/ m.born > s.killAt
        <5>1. PICK p \in Pids :
                m = MemberIn(proc, p) /\ LiveIn(proc, p) /\ proc[p].kin = "own"
          BY <1>4
        <5>2. m.born = proc[p].born /\ proc[p].grp /\ proc[p].born \in Nat
          BY <4>1, <5>1, Facts, TableTypes DEF MemberIn
        <5>3. CASE proc[p].born <= s.killAt
          BY <1>9, <2>3, <5>1, <5>2, <5>3 DEF Old, KillOK
        <5> QED
          BY <1>9, <5>2, <5>3
      <4> QED
        BY <1>9, <2>3, <3>3, <4>1 DEF KillOK
    <3> QED
      BY <3>1, <3>3, <3>4, <3>5, <3>6, <3>7 DEF ActorOK
  <2>4. CASE s.phase \in {"term", "kill"}
    <3> DEFINE todo == Due(r)
               left == IF r.phase = "kill" THEN {} ELSE r.found
               e == [r EXCEPT !.pc = "signal", !.bad = FALSE, !.todo = todo, !.found = left]
    <3>1. AfterScan(r) = e
      BY <1>8, <2>4 DEF AfterScan
    <3>2. /\ todo \subseteq found /\ left \in SUBSET Members
          /\ s.phase = "kill" => todo = found
          /\ s.phase = "term" => \A m \in found : m \in todo \/ m.pid \in s.termed
      BY <1>4, <1>8, <2>4 DEF Due, Offered
    <3> HIDE DEF todo, left
    <3>3. todo \in SUBSET Members
      BY <1>4, <3>2
    <3>4. /\ e \in Actor /\ e.pc = "signal" /\ e.phase = s.phase
          /\ e.todo = todo /\ e.checked = s.checked
          /\ e.termed = s.termed /\ e.killed = s.killed
          /\ e.termAt = s.termAt /\ e.killAt = s.killAt
      BY <1>8, <3>2, <3>3 DEF Actor
    <3> HIDE DEF e
    <3>5. CheckedOK(e, proc, births)
      BY <1>9, <3>4 DEF CheckedOK, GroupPcs
    <3>6. PlaceOK(e) /\ ResultOK(e, proc)
      BY <1>4, <2>4, <3>2, <3>4 DEF PlaceOK, ResultOK
    <3>7. \A p \in Pids : MemberIn(proc, p).pid = p
      BY DEF MemberIn
    <3>8. TermOK(e, proc, births)
      BY <1>3, <1>4, <1>9, <2>4, <3>2, <3>4, <3>7 DEF TermOK
    <3>9. KillOK(e, proc, births)
      BY <1>3, <1>4, <1>9, <2>4, <3>2, <3>4 DEF KillOK
    <3> QED
      BY <3>1, <3>4, <3>5, <3>6, <3>8, <3>9 DEF ActorOK
  <2> QED
    BY <1>9, <2>1, <2>2, <2>3, <2>4
<1> QED
  BY <1>3, <1>10, QuietStep, ControlStays

LEMMA PassKeeps ==
  ASSUME IInv, NEW a \in Actors, Pass(a)
  PROVE  IInv'
<1> DEFINE s == act[a]
<1>1. UNCHANGED <<proc, births, rec, controller>> /\ s.pc = "signal" /\ s.todo = {}
  BY DEF Pass, At
<1>2. /\ s \in Actor /\ s.phase \in {"term", "kill"}
      /\ CheckedOK(s, proc, births) /\ TermOK(s, proc, births) /\ KillOK(s, proc, births)
      /\ s.termAt \in Nat /\ s.killAt \in Nat /\ s.termAt <= births /\ s.killAt <= births
      /\ births \in Nat
  BY <1>1, Facts DEF ActorOK, PlaceOK, TermOK, KillOK
<1>3. \A p \in Pids :
        /\ s.phase = "term" /\ Old(proc, p, s.termAt) => p \in s.termed
        /\ s.phase = "kill" /\ Old(proc, p, s.killAt) => MemberIn(proc, p) \in s.killed
  BY <1>1, <1>2 DEF TermOK, KillOK
<1>4. CASE Again(s)
  <2> DEFINE r == [s EXCEPT !.pc = "scan"]
  <2>1. act' = [act EXCEPT ![a] = r]
    BY <1>4 DEF Pass, Becomes
  <2>2. /\ s.phase = "term" /\ r \in Actor /\ r.pc = "scan" /\ r.phase = "term" /\ r.todo = {}
        /\ r.checked = s.checked /\ r.termAt = s.termAt /\ r.killAt = s.killAt
    <3>1. s.phase = "term"
      BY <1>4 DEF Again
    <3> HIDE DEF s
    <3> QED
      BY <1>1, <1>2, <3>1 DEF Actor
  <2> HIDE DEF r
  <2>3. CheckedOK(r, proc, births)
    BY <1>2, <2>2 DEF CheckedOK, GroupPcs
  <2>4. ActorOK(r, proc, births)
    BY <1>2, <2>2, <2>3, LoosePlace, Facts
  <2> QED
    BY <1>1, <2>1, <2>4, QuietStep, ControlStays
<1>5. CASE ~Again(s) /\ s.phase = "term"
  <2> DEFINE r == Enter(s, "kill")
  <2>1. act' = [act EXCEPT ![a] = r]
    BY <1>5 DEF Pass, Becomes
  <2>2. /\ r \in Actor /\ r.pc = "scan" /\ r.phase = "kill" /\ r.todo = {}
        /\ r.checked = NoMember /\ r.termed = s.termed
        /\ r.termAt = s.termAt /\ r.killAt = s.killAt
    BY <1>1, <1>2, Entered
  <2> HIDE DEF r
  <2>3. CheckedOK(r, proc, births)
    BY <2>2, Unchecked DEF GroupPcs
  <2>4. PlaceOK(r) /\ ResultOK(r, proc) /\ TermOK(r, proc, births) /\ KillOK(r, proc, births)
    BY <1>2, <1>3, <1>5, <2>2 DEF PlaceOK, ResultOK, TermOK, KillOK
  <2>5. ActorOK(r, proc, births)
    BY <2>2, <2>3, <2>4 DEF ActorOK
  <2> QED
    BY <1>1, <2>1, <2>5, QuietStep, ControlStays
<1>6. CASE s.phase = "kill"
  <2> DEFINE u == [s EXCEPT !.termAt = 0]
             r == Enter(u, "wait")
  <2>1. act' = [act EXCEPT ![a] = r]
    BY <1>6 DEF Pass, Becomes, Again
  <2>2. u \in Actor /\ u.todo = {} /\ u.killed = s.killed /\ u.termAt = 0 /\ u.killAt = s.killAt
    <3> HIDE DEF s
    <3> QED
      BY <1>1, <1>2 DEF Actor
  <2> HIDE DEF u
  <2>3. /\ r \in Actor /\ r.pc = "scan" /\ r.phase = "wait" /\ r.todo = {}
        /\ r.checked = NoMember /\ r.killed = s.killed
        /\ r.termAt = 0 /\ r.killAt = s.killAt
    BY <2>2, Entered
  <2> HIDE DEF r
  <2>4. CheckedOK(r, proc, births)
    BY <2>3, Unchecked DEF GroupPcs
  <2>5. PlaceOK(r) /\ ResultOK(r, proc) /\ TermOK(r, proc, births) /\ KillOK(r, proc, births)
    BY <1>2, <1>3, <1>6, <2>3 DEF PlaceOK, ResultOK, TermOK, KillOK
  <2>6. ActorOK(r, proc, births)
    BY <2>3, <2>4, <2>5 DEF ActorOK
  <2> QED
    BY <1>1, <2>1, <2>6, QuietStep, ControlStays
<1> QED
  BY <1>2, <1>4, <1>5, <1>6

LEMMA MembersAreNamed == \A m \in Members : m # NoMember /\ m.pid \in Pids /\ m.born \in Nat
BY SessionAssumption DEF Members, NoMember

LEMMA CheckKeeps ==
  ASSUME IInv, NEW a \in Actors, NEW m \in act[a].todo, Check(a, m)
  PROVE  IInv'
<1> DEFINE s == act[a]
<1>1. UNCHANGED <<proc, births, rec, controller>> /\ s.pc = "signal"
  BY DEF Check, At
<1>2. /\ s \in Actor /\ s.phase \in {"term", "kill"} /\ m \in Members /\ s.todo \subseteq Members
      /\ PlaceOK(s) /\ CheckedOK(s, proc, births)
      /\ TermOK(s, proc, births) /\ KillOK(s, proc, births)
      /\ s.termAt \in Nat /\ s.killAt \in Nat
  BY <1>1, Facts, ActorIsTyped DEF ActorOK, PlaceOK
<1>3. CASE Verified(m)
  <2> DEFINE r == [s EXCEPT !.pc = "kill", !.checked = Member(m.pid)]
  <2>1. act' = [act EXCEPT ![a] = r]
    BY <1>3 DEF Check, Becomes
  <2>2. Member(m.pid) = m /\ proc[m.pid].born = m.born /\ proc[m.pid].kin = "own" /\ Live(m.pid)
    BY <1>3 DEF Verified, Member
  <2>3. m.born \in 1 .. births
    <3>1. proc[m.pid].st # "free" /\ m.pid \in Pids
      BY <1>2, <2>2, MembersAreNamed DEF Live
    <3>2. proc[m.pid].born # 0 /\ proc[m.pid].born \in Nat /\ proc[m.pid].born <= births
      BY <3>1, Facts, TableTypes DEF TableOK
    <3> QED
      BY <2>2, <3>2, Facts
  <2>4. /\ r \in Actor /\ r.pc = "kill" /\ r.phase = s.phase /\ r.checked = m /\ r.todo = s.todo
        /\ r.termed = s.termed /\ r.killed = s.killed
        /\ r.termAt = s.termAt /\ r.killAt = s.killAt
    <3> HIDE DEF s
    <3> QED
      BY <1>2, <2>2 DEF Actor
  <2> HIDE DEF r
  <2>5. CheckedOK(r, proc, births)
    BY <1>2, <2>2, <2>3, <2>4, MembersAreNamed DEF CheckedOK, GroupPcs
  <2>6. PlaceOK(r) /\ ResultOK(r, proc)
    BY <1>2, <2>4 DEF PlaceOK, ResultOK
  <2>7. TermOK(r, proc, births) /\ KillOK(r, proc, births)
    BY <1>1, <1>2, <2>4 DEF TermOK, KillOK
  <2>8. ActorOK(r, proc, births)
    BY <2>4, <2>5, <2>6, <2>7 DEF ActorOK
  <2> QED
    BY <1>1, <2>1, <2>8, QuietStep, ControlStays
<1>4. CASE ~Verified(m)
  <2> DEFINE r == [s EXCEPT !.todo = @ \ {m}]
  <2>1. act' = [act EXCEPT ![a] = r]
    BY <1>4 DEF Check, Becomes
  <2>2. \A p \in Pids, time \in Nat : Old(proc, p, time) => MemberIn(proc, p) # m
    <3> SUFFICES ASSUME NEW p \in Pids, NEW time \in Nat, Old(proc, p, time),
                        MemberIn(proc, p) = m
                 PROVE  FALSE
      OBVIOUS
    <3>1. m.pid = p /\ Member(p) = m
      BY DEF MemberIn, Member
    <3> QED
      BY <1>4, <3>1 DEF Old, LiveIn, Live, Verified
  <2>3. /\ r \in Actor /\ r.pc = s.pc /\ r.phase = s.phase /\ r.checked = s.checked
        /\ r.todo = s.todo \ {m} /\ r.termed = s.termed /\ r.killed = s.killed
        /\ r.termAt = s.termAt /\ r.killAt = s.killAt
    <3> HIDE DEF s
    <3> QED
      BY <1>2 DEF Actor
  <2> HIDE DEF r
  <2>4. CheckedOK(r, proc, births) /\ PlaceOK(r) /\ ResultOK(r, proc)
    BY <1>1, <1>2, <2>3 DEF CheckedOK, PlaceOK, ResultOK, GroupPcs
  <2>5. TermOK(r, proc, births) /\ KillOK(r, proc, births)
    BY <1>1, <1>2, <2>2, <2>3 DEF TermOK, KillOK
  <2>6. ActorOK(r, proc, births)
    BY <2>3, <2>4, <2>5 DEF ActorOK
  <2> QED
    BY <1>1, <2>1, <2>6, QuietStep, ControlStays
<1> QED
  BY <1>3, <1>4

\* The signal deals with every old member that bore the number.
LEMMA KillKeeps ==
  ASSUME IInv, NEW a \in Actors, Kill(a)
  PROVE  IInv'
<1> DEFINE s == act[a]
           p == s.checked.pid
           kills == s.phase = "kill"
           todo == {m \in s.todo : m.pid # p}
           termed == IF Exists(p) /\ ~kills THEN s.termed \cup {p} ELSE s.termed
           killed == IF Exists(p) /\ kills THEN s.killed \cup {s.checked} ELSE s.killed
           r == [s EXCEPT !.pc = "signal", !.checked = NoMember, !.todo = todo,
                          !.termed = termed, !.killed = killed]
<1>1. /\ act' = [act EXCEPT ![a] = r] /\ UNCHANGED <<rec, controller>> /\ s.pc = "kill"
      /\ Deliver({p}, IF kills THEN "KILL" ELSE "TERM")
  BY DEF Kill, Becomes, At
<1>2. /\ s \in Actor /\ s.phase \in {"term", "kill"} /\ s.todo \subseteq Members
      /\ s.checked \in Members /\ s.checked \in s.todo /\ p \in Pids
      /\ \A m, k \in s.todo : m.pid = k.pid => m = k
      /\ TermOK(s, proc, births) /\ KillOK(s, proc, births)
      /\ s.termAt \in Nat /\ s.killAt \in Nat /\ s.termAt <= births /\ s.killAt <= births
      /\ births \in Nat /\ s.termed \subseteq Pids /\ s.killed \subseteq Members
  BY <1>1, Facts, ActorIsTyped, MembersAreNamed DEF ActorOK, PlaceOK, CheckedOK, TermOK, KillOK
<1>3. TableOK(proc', births') /\ TableStep(proc, births, proc', births') /\ births' = births
  <2>1. (IF kills THEN "KILL" ELSE "TERM") \in Signals /\ {p} \in SUBSET Pids
    BY <1>2 DEF Signals
  <2> HIDE DEF kills, p
  <2> QED
    BY <1>1, <2>1, Facts, DeliveryKeepsTable DEF Deliver
<1>4. \A q \in Pids, time \in {s.termAt, s.killAt} :
        Old(proc', q, time) => Old(proc, q, time) /\ MemberIn(proc', q) = MemberIn(proc, q)
  BY <1>2, <1>3, Facts, OldIsOld
<1>5. \A q \in Pids, time \in Nat :
        Old(proc, q, time) /\ MemberIn(proc, q) \in s.todo
          => \/ MemberIn(proc, q) \in todo
             \/ q = p /\ MemberIn(proc, q) = s.checked /\ Exists(p)
  <2> SUFFICES ASSUME NEW q \in Pids, NEW time \in Nat, Old(proc, q, time),
                      MemberIn(proc, q) \in s.todo, MemberIn(proc, q) \notin todo
               PROVE  q = p /\ MemberIn(proc, q) = s.checked /\ Exists(p)
    OBVIOUS
  <2>1. MemberIn(proc, q).pid = q
    BY DEF MemberIn
  <2>2. q = p /\ MemberIn(proc, q) = s.checked
    BY <1>2, <2>1
  <2> QED
    BY <2>2 DEF Old, LiveIn, Exists
<1>6. /\ todo \in SUBSET Members /\ todo \subseteq s.todo
      /\ termed \in SUBSET Pids /\ killed \in SUBSET Members
      /\ s.termed \subseteq termed /\ s.killed \subseteq killed
      /\ Exists(p) /\ s.phase = "term" => p \in termed
      /\ Exists(p) /\ s.phase = "kill" => s.checked \in killed
  BY <1>2
<1> HIDE DEF todo, termed, killed
<1>7. /\ r \in Actor /\ r.pc = "signal" /\ r.phase = s.phase /\ r.checked = NoMember
      /\ r.todo = todo /\ r.termed = termed /\ r.killed = killed
      /\ r.termAt = s.termAt /\ r.killAt = s.killAt
  <2> HIDE DEF s
  <2> QED
    BY <1>2, <1>6 DEF Actor
<1> HIDE DEF r
<1>8. CheckedOK(r, proc', births')
  BY <1>7, Unchecked DEF GroupPcs
<1>9. PlaceOK(r) /\ ResultOK(r, proc')
  BY <1>2, <1>6, <1>7 DEF PlaceOK, ResultOK
<1>10. TermOK(r, proc', births')
  <2>1. ASSUME NEW q \in Pids, Old(proc', q, s.termAt)
        PROVE  /\ s.phase = "term" => MemberIn(proc', q) \in todo \/ q \in termed
               /\ s.phase = "kill" => q \in termed
    <3>1. Old(proc, q, s.termAt) /\ MemberIn(proc', q) = MemberIn(proc, q)
      BY <1>4, <2>1
    <3>2. /\ s.phase = "term" => MemberIn(proc, q) \in s.todo \/ q \in s.termed
          /\ s.phase = "kill" => q \in s.termed
      BY <1>1, <1>2, <3>1 DEF TermOK
    <3> QED
      BY <1>2, <1>5, <1>6, <3>1, <3>2
  <2> QED
    BY <1>2, <1>3, <1>7, <2>1 DEF TermOK
<1>11. KillOK(r, proc', births')
  <2>1. ASSUME NEW q \in Pids, Old(proc', q, s.killAt), s.phase = "kill"
        PROVE  MemberIn(proc', q) \in todo \cup killed
    <3>1. Old(proc, q, s.killAt) /\ MemberIn(proc', q) = MemberIn(proc, q)
      BY <1>4, <2>1
    <3>2. MemberIn(proc, q) \in s.todo \cup s.killed
      BY <1>1, <1>2, <2>1, <3>1 DEF KillOK
    <3> QED
      BY <1>2, <1>5, <1>6, <2>1, <3>1, <3>2
  <2> QED
    BY <1>2, <1>3, <1>7, <2>1 DEF KillOK
<1>12. ActorOK(r, proc', births')
  BY <1>7, <1>8, <1>9, <1>10, <1>11 DEF ActorOK
<1>13. RecordOK(act', proc', rec')
  BY <1>1, <1>3, SameRecord
<1> QED
  BY <1>1, <1>3, <1>12, <1>13, OneCleanerSteps, ControlStays

-----------------------------------------------------------------------------
(* The steps on the recorded group. *)

LoosePcs == {"idle", "watch", "contV", "termV", "pauseV", "resumeV", "ended"} \cup GroupPcs

\* A verified leader is one of the run, and so is its number's holder then.
LEMMA ArmedIsOK ==
  ASSUME IInv, NEW a \in Actors, NEW pc \in DOMAIN Sending, act[a].pc = pc, "ok" \in Verify
  PROVE  ActorOK(Armed(a, pc), proc, births)
<1> DEFINE r == Armed(a, pc)
           m == Member(Leader)
<1>1. Sending[pc] \in GroupPcs /\ DOMAIN Sending = {"contV", "termV", "pauseV", "resumeV"}
  BY DEF Sending, GroupPcs
<1>2. /\ act[a] \in Actor /\ act[a].phase = "none"
      /\ act[a].termAt <= births /\ act[a].killAt <= births
      /\ \A o, k \in act[a].todo : o.pid = k.pid => o = k
  BY <1>1, Facts DEF ActorOK, PlaceOK, TermOK, KillOK
<1>3. proc[Leader].born = LeaderBorn /\ Leader \in Pids
  BY ProcessAssumption DEF Verify
<1>4. m \in Members /\ m # NoMember /\ m.pid = Leader /\ m.born = LeaderBorn
  BY <1>3, Facts, TableTypes, MembersAreNamed DEF Member, Members
<1>5. proc[Leader].kin # "foreign"
  BY <1>3, Facts DEF TableOK
<1> HIDE DEF m
<1>6. /\ r \in Actor /\ r.pc = Sending[pc] /\ r.phase = "none" /\ r.checked = m
      /\ r.todo = act[a].todo /\ r.termAt = act[a].termAt /\ r.killAt = act[a].killAt
  <2>1. r = [act[a] EXCEPT !.pc = Sending[pc], !.checked = m]
    BY DEF Armed, m
  <2> HIDE DEF r
  <2> QED
    BY <1>1, <1>2, <1>4, <2>1 DEF Actor, GroupPcs
<1> HIDE DEF r
<1>7. CheckedOK(r, proc, births)
  BY <1>1, <1>3, <1>4, <1>5, <1>6, Facts DEF CheckedOK, GroupPcs, LeaderBorn
<1>8. ActorOK(r, proc, births)
  BY <1>1, <1>2, <1>6, <1>7, LoosePlace, Facts DEF GroupPcs
<1> QED
  BY <1>8 DEF r

\* From one place outside the loops to another.
LEMMA LooseMoves ==
  ASSUME IInv, NEW a \in Actors, act[a].pc \in LoosePcs,
         NEW pc \in {"watch", "contV", "termV", "pauseV", "resumeV", "ended"}
  PROVE  /\ ActorOK(Keep(a, pc), proc, births)
         /\ ActorOK([act[a] EXCEPT !.pc = pc], proc, births)
<1> DEFINE r == Keep(a, pc)
           u == [act[a] EXCEPT !.pc = pc]
<1>1. /\ act[a] \in Actor /\ act[a].phase = "none" /\ CheckedOK(act[a], proc, births)
      /\ act[a].termAt <= births /\ act[a].killAt <= births
      /\ \A o, k \in act[a].todo : o.pid = k.pid => o = k
  BY Facts DEF ActorOK, PlaceOK, TermOK, KillOK, LoosePcs, GroupPcs
<1>2. /\ r \in Actor /\ r.pc = pc /\ r.phase = "none" /\ r.checked = NoMember
      /\ r.todo = act[a].todo /\ r.termAt = act[a].termAt /\ r.killAt = act[a].killAt
  BY <1>1 DEF Actor, Keep
<1>3. /\ u \in Actor /\ u.pc = pc /\ u.phase = "none" /\ u.checked = act[a].checked
      /\ u.todo = act[a].todo /\ u.termAt = act[a].termAt /\ u.killAt = act[a].killAt
  BY <1>1 DEF Actor
<1> HIDE DEF r, u
<1>4. CheckedOK(r, proc, births) /\ CheckedOK(u, proc, births)
  BY <1>1, <1>2, <1>3 DEF CheckedOK, GroupPcs
<1>5. ActorOK(r, proc, births)
  BY <1>1, <1>2, <1>4, LoosePlace, Facts
<1>6. ActorOK(u, proc, births)
  BY <1>1, <1>3, <1>4, LoosePlace, Facts
<1> QED
  BY <1>5, <1>6 DEF r, u

\* A step of a cleaner together with an operation on the table.
LEMMA TableAndCleaner ==
  ASSUME IInv, NEW a \in Actors, NEW r, ActorOK(r, proc, births), act[a].pc # "ended",
         TableOK(proc', births'), TableStep(proc, births, proc', births'),
         act' = [act EXCEPT ![a] = r], rec' = rec, ControlOK'
  PROVE  IInv'
<1>1. ActorOK(r, proc', births')
  BY Facts, CleanerKeeps
<1>2. RecordOK(act', proc', rec')
  BY SameRecord
<1> QED
  BY <1>1, <1>2, OneCleanerSteps

LEMMA VerifyGroupKeeps ==
  ASSUME IInv, NEW a \in Actors, NEW pc \in DOMAIN Sending, NEW onGone, NEW onRefused,
         VerifyGroup(a, pc, onGone, onRefused),
         ActorOK(onGone, proc, births), ActorOK(onRefused, proc, births)
  PROVE  IInv'
<1>1. PICK v \in Verify :
        Becomes(a, CASE v = "ok" -> Armed(a, pc) [] v = "gone" -> onGone
                     [] v = "refused" -> onRefused)
  BY DEF VerifyGroup
<1>2. act[a].pc = pc /\ UNCHANGED <<proc, births, rec, controller>> /\ act[a].pc # "ended"
  BY DEF VerifyGroup, At, Sending
<1>3. v \in {"ok", "gone", "refused"}
  BY DEF Verify
<1>4. PICK r : act' = [act EXCEPT ![a] = r] /\ ActorOK(r, proc, births)
  <2>1. CASE v = "ok"
    BY <1>1, <1>2, <2>1, ArmedIsOK DEF Becomes
  <2>2. CASE v = "gone"
    BY <1>1, <2>2 DEF Becomes
  <2>3. CASE v = "refused"
    BY <1>1, <2>3 DEF Becomes
  <2> QED
    BY <1>3, <2>1, <2>2, <2>3
<1> QED
  BY <1>2, <1>4, QuietStep, ControlStays

LEMMA KillGroupKeeps ==
  ASSUME IInv, NEW a \in Actors, NEW pc \in DOMAIN Sending, NEW onSent, NEW onGone,
         KillGroup(a, pc, onSent, onGone), rec' = rec, ControlOK',
         ActorOK(onSent, proc, births), ActorOK(onGone, proc, births)
  PROVE  IInv'
<1>1. act[a].pc # "ended" /\ Deliver(Group, GroupSignal[pc]) /\ GroupSignal[pc] \in Signals
  BY DEF KillGroup, At, Sending, GroupSignal, Signals
<1>2. TableOK(proc', births') /\ TableStep(proc, births, proc', births')
  <2>1. Group \in SUBSET Pids
    BY DEF Group
  <2> HIDE DEF Group
  <2> QED
    BY <1>1, <2>1, Facts, DeliveryKeepsTable
<1>3. PICK r : act' = [act EXCEPT ![a] = r] /\ ActorOK(r, proc, births)
  BY DEF KillGroup, Becomes
<1> QED
  BY <1>1, <1>2, <1>3, TableAndCleaner

-----------------------------------------------------------------------------
(* The controller. *)

LEMMA ReapKeepsTable ==
  ASSUME IInv, ReapPid(Leader)
  PROVE  TableOK(proc', births') /\ TableStep(proc, births, proc', births')
BY NumberFallsFree, ProcessAssumption DEF IInv

LEMMA TheActors == "controller" \in Actors /\ "stopper" \in Actors
BY DEF Actors

LEMMA EndIsLoose ==
  ASSUME NEW P, NEW n, TableOK(P, n), NEW r, r.slipped \in BOOLEAN
  PROVE  /\ ActorOK(End(r), P, n)
         /\ End(r).pc = "ended" /\ End(r).slipped = r.slipped
<1>1. ActorOK([Idle EXCEPT !.pc = "ended", !.slipped = r.slipped], P, n)
  BY IdleIsLoose
<1>2. End(r) = [Idle EXCEPT !.pc = "ended", !.slipped = r.slipped]
  BY DEF End
<1>3. End(r).pc = "ended" /\ End(r).slipped = r.slipped
  BY DEF End, Idle
<1> QED
  BY <1>1, <1>2, <1>3

LEMMA ForgottenIsTyped == Forgotten => ControlOK'
<1> SUFFICES ASSUME paused' = FALSE, samples' = 0, reason' = "none"
             PROVE  ControlOK'
  BY DEF Forgotten
<1>1. 0 \in 0 .. MaxSamples
  BY SessionAssumption
<1>2. paused' \in BOOLEAN /\ samples' \in 0 .. MaxSamples
  BY <1>1
<1> QED
  BY <1>2 DEF ControlOK

LEMMA PollExitKeeps ==
  ASSUME IInv, PollExit
  PROVE  IInv'
<1> DEFINE a == "controller"
           r == Enter(act[a], "natural")
<1>1. /\ act[a].pc = "watch" /\ ReapPid(Leader) /\ act' = [act EXCEPT ![a] = r]
      /\ rec' = rec /\ UNCHANGED controller
  BY DEF PollExit, At, Becomes
<1>2. ActorOK(r, proc, births)
  BY Facts, TheActors, CleanupBegins
<1> QED
  BY <1>1, <1>2, ReapKeepsTable, ControlStays, TableAndCleaner, TheActors

LEMMA SampleKeeps ==
  ASSUME IInv, NEW pc \in {"pauseV", "resumeV", "contV"}, Sample(pc)
  PROVE  IInv'
<1> DEFINE a == "controller"
<1>1. /\ act[a].pc = "watch" /\ UNCHANGED <<proc, births, rec>>
      /\ act' = [act EXCEPT ![a].pc = pc]
  BY DEF Sample, At, Goto
<1>2. act' = [act EXCEPT ![a] = [act[a] EXCEPT !.pc = pc]]
  BY <1>1, Facts, TheActors
<1>3. ActorOK([act[a] EXCEPT !.pc = pc], proc, births)
  BY <1>1, LooseMoves, TheActors DEF LoosePcs
<1>4. ControlOK'
  BY SessionAssumption DEF Sample, IInv, ControlOK
<1> QED
  BY <1>1, <1>2, <1>3, <1>4, QuietStep, TheActors

LEMMA RaiseKeeps ==
  ASSUME IInv, Raise
  PROVE  IInv'
<1> DEFINE a == "controller"
<1>1. /\ act[a].pc # "ended" /\ UNCHANGED <<proc, births, rec>>
      /\ act' = [act EXCEPT ![a] = [Idle EXCEPT !.pc = "contV"]]
  BY DEF Raise, At, Becomes
<1>2. ActorOK([Idle EXCEPT !.pc = "contV"], proc, births)
  BY Facts, TheActors, IdleIsLoose
<1>3. ControlOK'
  BY DEF Raise, IInv, ControlOK
<1> QED
  BY <1>1, <1>2, <1>3, QuietStep, TheActors

LEMMA PauseOrResumeKeeps ==
  ASSUME IInv, NEW pc \in {"pauseV", "resumeV"}, PauseOrResume(pc)
  PROVE  IInv'
<1> DEFINE a == "controller"
<1>1. PICK v \in Verify :
        /\ act' = [act EXCEPT ![a] = IF v = "ok" THEN Armed(a, pc) ELSE Keep(a, "contV")]
        /\ reason' = IF v = "ok" THEN reason ELSE "raise"
  BY DEF PauseOrResume, Becomes
<1>2. act[a].pc = pc /\ act[a].pc # "ended" /\ UNCHANGED <<proc, births, paused, samples, rec>>
  BY DEF PauseOrResume, At
<1>3. ControlOK'
  BY <1>1, <1>2 DEF IInv, ControlOK
<1>4. PICK r : act' = [act EXCEPT ![a] = r] /\ ActorOK(r, proc, births)
  <2>1. CASE v = "ok"
    BY <1>1, <1>2, <2>1, ArmedIsOK, TheActors DEF Sending
  <2>2. CASE v # "ok"
    BY <1>1, <1>2, <2>2, LooseMoves, TheActors DEF LoosePcs
  <2> QED
    BY <2>1, <2>2
<1> QED
  BY <1>2, <1>3, <1>4, QuietStep, TheActors

LEMMA SendingIsLoose ==
  ASSUME NEW pc \in DOMAIN Sending
  PROVE  pc \in LoosePcs /\ Sending[pc] \in LoosePcs /\ pc # "ended" /\ Sending[pc] # "ended"
BY DEF Sending, LoosePcs, GroupPcs

LEMMA PauseOrResumeSendKeeps ==
  ASSUME IInv, NEW pc \in {"pauseV", "resumeV"}, PauseOrResumeSend(pc)
  PROVE  IInv'
<1> DEFINE a == "controller"
<1>1. /\ KillGroup(a, pc, Keep(a, "watch"), Keep(a, "watch"))
      /\ rec' = rec /\ act[a].pc = Sending[pc] /\ pc \in DOMAIN Sending
  BY DEF PauseOrResumeSend, KillGroup, At, Sending
<1>2. ControlOK'
  BY DEF PauseOrResumeSend, IInv, ControlOK
<1>3. ActorOK(Keep(a, "watch"), proc, births)
  BY <1>1, LooseMoves, SendingIsLoose, TheActors
<1> QED
  BY <1>1, <1>2, <1>3, KillGroupKeeps, TheActors

\* A cleaner at a signal to the group may go on to the next, or to the cleanup.
LEMMA Onward ==
  ASSUME IInv, NEW a \in Actors, act[a].pc \in LoosePcs
  PROVE  /\ ActorOK(Keep(a, "termV"), proc, births) /\ ActorOK(Keep(a, "contV"), proc, births)
         /\ ActorOK(StartTerm(a), proc, births)
         /\ \A err \in BOOLEAN : ActorOK([StartTerm(a) EXCEPT !.err = err], proc, births)
<1>1. ActorOK(Keep(a, "termV"), proc, births) /\ ActorOK(Keep(a, "contV"), proc, births)
  BY LooseMoves
<1>2. TableOK(proc, births) /\ ActorOK(act[a], proc, births)
  BY Facts
<1>3. /\ ActorOK(StartTerm(a), proc, births)
      /\ \A err \in BOOLEAN : ActorOK([StartTerm(a) EXCEPT !.err = err], proc, births)
  BY <1>2, CleanupBegins DEF StartTerm
<1> QED
  BY <1>1, <1>3

LEMMA TerminateOwnedKeeps ==
  ASSUME IInv, TerminateOwned
  PROVE  IInv'
<1> DEFINE a == "controller"
<1>1. a \in Actors /\ "contV" \in DOMAIN Sending /\ "termV" \in DOMAIN Sending
  BY DEF Actors, Sending
<1>2. CASE VerifyGroup(a, "contV", Keep(a, "termV"), Keep(a, "termV"))
  <2>1. act[a].pc \in LoosePcs
    BY <1>2 DEF VerifyGroup, At, LoosePcs
  <2> QED
    BY <1>1, <1>2, <2>1, Onward, VerifyGroupKeeps
<1>3. CASE KillGroup(a, "contV", Keep(a, "termV"), Keep(a, "termV")) /\ UNCHANGED <<controller, rec>>
  <2>1. act[a].pc \in LoosePcs
    BY <1>1, <1>3, SendingIsLoose DEF KillGroup, At
  <2> QED
    BY <1>1, <1>3, <2>1, Onward, KillGroupKeeps, ControlStays
<1>4. CASE VerifyGroup(a, "termV", StartTerm(a), [StartTerm(a) EXCEPT !.err = TRUE])
  <2>1. act[a].pc \in LoosePcs
    BY <1>4 DEF VerifyGroup, At, LoosePcs
  <2>2. ActorOK([StartTerm(a) EXCEPT !.err = TRUE], proc, births)
    BY <1>1, <2>1, Onward
  <2> QED
    BY <1>1, <1>4, <2>1, <2>2, Onward, VerifyGroupKeeps
<1>5. CASE KillGroup(a, "termV", StartTerm(a), StartTerm(a)) /\ UNCHANGED <<controller, rec>>
  <2>1. act[a].pc \in LoosePcs
    BY <1>1, <1>5, SendingIsLoose DEF KillGroup, At
  <2> QED
    BY <1>1, <1>5, <2>1, Onward, KillGroupKeeps, ControlStays
<1> QED
  BY <1>2, <1>3, <1>4, <1>5 DEF TerminateOwned

\* The verdict is as good as the cleanup's last scan.
LEMMA FinishKeeps ==
  ASSUME IInv, Finish
  PROVE  IInv'
<1> DEFINE a == "controller"
           s == act[a]
           r == End(s)
<1>1. /\ s.pc = "finish" /\ act' = [act EXCEPT ![a] = r] /\ Forgotten
      /\ ReapPid(Leader) \/ UNCHANGED <<proc, births>>
      /\ rec' = IF reason = "raise" THEN rec ELSE Status(s)
  BY DEF Finish, At, Becomes
<1>2. TableOK(proc', births') /\ TableStep(proc, births, proc', births')
  BY <1>1, Facts, ReapKeepsTable, TheActors
<1>3. ActorOK(r, proc', births') /\ r.pc = "ended" /\ r.slipped = s.slipped
  <2>1. s.slipped \in BOOLEAN
    BY Facts, TheActors DEF Actor
  <2> QED
    BY <1>2, <2>1, EndIsLoose
<1>4. ControlOK'
  BY <1>1, ForgottenIsTyped
<1> HIDE DEF r
<1>5. act'["controller"] = r /\ act'["stopper"] = act["stopper"]
  BY <1>1, Facts, TheActors
<1>6. CASE reason = "raise"
  BY <1>1, <1>2, <1>6, SameRecord, OneCleanerSteps, <1>3, <1>4, TheActors
<1>7. CASE reason # "raise"
  <2>1. rec' = Status(s)
    BY <1>1, <1>7
  <2>2. /\ rec' \in {"aborted", "exited", "forced", "incomplete"}
        /\ rec' \in {"exited", "forced"} => s.out = "complete"
    BY <2>1 DEF Status, Natural, Complete
  <2>3. s.out = "complete" /\ ~s.slipped => NoResidue(proc)
    BY <1>1, Facts, TheActors DEF ActorOK, PlaceOK, ResultOK
  <2>4. NoResidue(proc) => NoResidue(proc')
    BY <1>2, ResidueStaysAway
  <2>5. RecordOK(act', proc', rec')
    BY <1>3, <1>5, <2>2, <2>3, <2>4 DEF RecordOK
  <2> QED
    BY <1>1, <1>2, <1>3, <1>4, <2>5, OneCleanerSteps, TheActors
<1> QED
  BY <1>6, <1>7

LEMMA DieKeeps ==
  ASSUME IInv, Die
  PROVE  IInv'
<1> DEFINE a == "controller"
<1>1. /\ act[a].pc # "ended" /\ UNCHANGED <<proc, births, rec>>
      /\ act' = [act EXCEPT ![a] = End(Idle)]
  BY DEF Die, At, Becomes
<1>2. ActorOK(End(Idle), proc, births)
  <2>1. Idle.slipped \in BOOLEAN
    BY DEF Idle
  <2> QED
    BY <2>1, Facts, TheActors, EndIsLoose
<1>3. ControlOK'
  BY ForgottenIsTyped DEF Die
<1> QED
  BY <1>1, <1>2, <1>3, QuietStep, TheActors

LEMMA ReapOrphanKeeps ==
  ASSUME IInv, ReapOrphan
  PROVE  IInv'
BY ReapKeepsTable, OnlyTheTable DEF ReapOrphan

-----------------------------------------------------------------------------
(* stop_run. *)

LEMMA LoadKeeps ==
  ASSUME IInv, Load
  PROVE  IInv'
<1> DEFINE a == "stopper"
<1>1. /\ act[a].pc = "idle" /\ UNCHANGED <<proc, births, rec>> /\ UNCHANGED controller
      /\ \E pc \in {"ended", "termV"} : act' = [act EXCEPT ![a].pc = pc]
  BY DEF Load, At, Goto
<1>2. PICK pc \in {"ended", "termV"} : act' = [act EXCEPT ![a].pc = pc]
  BY <1>1
<1>3. act' = [act EXCEPT ![a] = [act[a] EXCEPT !.pc = pc]]
  BY <1>2, Facts, TheActors
<1>4. ActorOK([act[a] EXCEPT !.pc = pc], proc, births)
  BY <1>1, LooseMoves, TheActors DEF LoosePcs
<1> QED
  BY <1>1, <1>3, <1>4, QuietStep, ControlStays, TheActors

LEMMA StopGroupKeeps ==
  ASSUME IInv, StopGroup
  PROVE  IInv'
<1> DEFINE a == "stopper"
           refused == [StartTerm(a) EXCEPT !.err = TRUE]
           empty == [StartTerm(a) EXCEPT !.err = Group # {}]
<1>1. a \in Actors /\ "contV" \in DOMAIN Sending /\ "termV" \in DOMAIN Sending
  BY DEF Actors, Sending
<1>2. CASE VerifyGroup(a, "termV", StartTerm(a), refused)
  <2>1. act[a].pc \in LoosePcs
    BY <1>2 DEF VerifyGroup, At, LoosePcs
  <2>2. ActorOK(refused, proc, births)
    BY <1>1, <2>1, Onward
  <2> QED
    BY <1>1, <1>2, <2>1, <2>2, Onward, VerifyGroupKeeps
<1>3. CASE KillGroup(a, "termV", Keep(a, "contV"), StartTerm(a)) /\ UNCHANGED <<controller, rec>>
  <2>1. act[a].pc \in LoosePcs
    BY <1>1, <1>3, SendingIsLoose DEF KillGroup, At
  <2> QED
    BY <1>1, <1>3, <2>1, Onward, KillGroupKeeps, ControlStays
<1>4. CASE VerifyGroup(a, "contV", empty, empty)
  <2>1. act[a].pc \in LoosePcs
    BY <1>4 DEF VerifyGroup, At, LoosePcs
  <2>2. ActorOK(empty, proc, births)
    BY <1>1, <2>1, Onward
  <2> QED
    BY <1>1, <1>4, <2>2, VerifyGroupKeeps
<1>5. CASE KillGroup(a, "contV", StartTerm(a), StartTerm(a)) /\ UNCHANGED <<controller, rec>>
  <2>1. act[a].pc \in LoosePcs
    BY <1>1, <1>5, SendingIsLoose DEF KillGroup, At
  <2> QED
    BY <1>1, <1>5, <2>1, Onward, KillGroupKeeps, ControlStays
<1> QED
  BY <1>2, <1>3, <1>4, <1>5 DEF StopGroup

LEMMA StoppedKeeps ==
  ASSUME IInv, Stopped
  PROVE  IInv'
<1> DEFINE a == "stopper"
           s == act[a]
           r == End(s)
<1>1. /\ s.pc = "finish" /\ act' = [act EXCEPT ![a] = r] /\ UNCHANGED controller
      /\ UNCHANGED <<proc, births>>
      /\ rec' = IF Complete(s) THEN "stopped" ELSE "stop-incomplete"
  BY DEF Stopped, At, Becomes
<1>2. TableOK(proc', births') /\ TableStep(proc, births, proc', births')
  BY <1>1, Facts, TheActors
<1>3. ActorOK(r, proc', births') /\ r.pc = "ended" /\ r.slipped = s.slipped
  <2>1. s.slipped \in BOOLEAN
    BY Facts, TheActors DEF Actor
  <2> QED
    BY <1>2, <2>1, EndIsLoose
<1> HIDE DEF r
<1>4. act'["stopper"] = r /\ act'["controller"] = act["controller"]
  BY <1>1, Facts, TheActors
<1>5. rec' = "stopped" => s.out = "complete"
  BY <1>1 DEF Complete
<1>6. s.out = "complete" /\ ~s.slipped => NoResidue(proc)
  BY <1>1, Facts, TheActors DEF ActorOK, PlaceOK, ResultOK
<1>7. RecordOK(act', proc', rec')
  BY <1>1, <1>3, <1>4, <1>5, <1>6 DEF RecordOK
<1> QED
  BY <1>1, <1>2, <1>3, <1>7, OneCleanerSteps, ControlStays, TheActors

-----------------------------------------------------------------------------
(* The invariant. *)

LEMMA InitialTable == ProcInit => TableOK(proc, births)
<1> SUFFICES ASSUME ProcInit PROVE TableOK(proc, births)
  OBVIOUS
<1>1. /\ Free \in Process /\ Free.born = 0 /\ Free.st = "free" /\ Free.kin = "foreign"
      /\ ~Free.ses /\ ~Free.grp
  BY DEF Free, Process, Offers
<1>2. /\ Launched \in Process /\ Launched.born = 1 /\ Launched.st = "run"
      /\ Launched.kin = "own" /\ Launched.ses /\ Launched.grp
  BY DEF Launched, LeaderBorn, Process, Offers
<1>3. /\ proc \in [Pids -> Process] /\ births = 1
      /\ \A p \in Pids : proc[p] = IF p = Leader THEN Launched ELSE Free
  BY <1>1, <1>2 DEF ProcInit, LeaderBorn
<1>4. births \in LeaderBorn .. MaxBirths + LeaderBorn
  BY <1>3, ProcessAssumption DEF LeaderBorn
<1>5. \A p \in Pids :
        /\ proc[p].born <= births
        /\ proc[p].st = "free" => proc[p] = Free
        /\ proc[p].st # "free" => proc[p].born # 0
        /\ proc[p].kin # "foreign" => proc[p].ses
        /\ proc[p].born = LeaderBorn => p = Leader /\ proc[p].kin # "foreign"
  BY <1>1, <1>2, <1>3 DEF LeaderBorn
<1>6. \A p, q \in Pids :
        proc[p].kin # "foreign" /\ proc[q].kin = "foreign" => ~proc[q].ses /\ ~proc[q].grp
  BY <1>1, <1>2, <1>3
<1> QED
  BY <1>3, <1>4, <1>5, <1>6 DEF TableOK

LEMMA InitHolds == Init => IInv
<1> SUFFICES ASSUME Init PROVE IInv
  OBVIOUS
<1>1. TableOK(proc, births)
  BY InitialTable DEF Init
<1>2. ActorOK(Idle, proc, births) /\ ActorOK([Idle EXCEPT !.pc = "watch"], proc, births)
  <2>1. Idle.pc = "idle"
    BY DEF Idle
  <2>2. CheckedOK(Idle, proc, births)
    BY <2>1, IdleIsActor, Unchecked DEF GroupPcs
  <2>3. ActorOK(Idle, proc, births)
    BY <1>1, <2>1, <2>2, IdleIsActor, LoosePlace, TableTypes
  <2> QED
    BY <1>1, <2>3, IdleIsLoose
<1>3. \A a \in Actors : ActorOK(act[a], proc, births)
  BY <1>2 DEF Init
<1>4. act \in [Actors -> Actor]
  BY <1>2 DEF Init, ActorOK
<1>5. RecordOK(act, proc, rec)
  BY DEF Init, RecordOK
<1>6. ControlOK
  <2>1. 0 \in 0 .. MaxSamples
    BY SessionAssumption
  <2> QED
    BY <2>1 DEF Init, ControlOK
<1> QED
  BY <1>1, <1>3, <1>4, <1>5, <1>6 DEF IInv

LEMMA ControllerKeeps ==
  ASSUME IInv, ControllerStep
  PROVE  IInv'
BY PollExitKeeps, TerminateOwnedKeeps, FinishKeeps, PauseOrResumeKeeps, PauseOrResumeSendKeeps
   DEF ControllerStep

LEMMA CleanupKeeps ==
  ASSUME IInv, NEW a \in Actors, CleanupStep(a)
  PROVE  IInv'
<1>1. CASE ScanBegin(a)
  BY <1>1, ScanBeginKeeps
<1>2. CASE ScanEnd(a)
  BY <1>2, ScanEndKeeps
<1>3. CASE Pass(a)
  BY <1>3, PassKeeps
<1>4. CASE Kill(a)
  BY <1>4, KillKeeps
<1>5. CASE \E m \in act[a].todo : Check(a, m)
  BY <1>5, CheckKeeps
<1>6. CASE a = "controller" /\ ControllerStep
  BY <1>6, ControllerKeeps
<1>7. CASE a = "stopper" /\ (StopGroup \/ Stopped)
  BY <1>7, StopGroupKeeps, StoppedKeeps
<1> QED
  BY <1>1, <1>2, <1>3, <1>4, <1>5, <1>6, <1>7 DEF CleanupStep

LEMMA NextKeeps ==
  ASSUME IInv, [Next]_vars
  PROVE  IInv'
<1>1. CASE World /\ UNCHANGED <<act, controller, rec>>
  BY <1>1, WorldKeepsTable, OnlyTheTable DEF IInv
<1>2. CASE ReapOrphan
  BY <1>2, ReapOrphanKeeps
<1>3. CASE \E a \in Actors : CleanupStep(a) \/ Expire(a)
  BY <1>3, CleanupKeeps, ExpireKeeps
<1>4. CASE \E pc \in {"pauseV", "resumeV", "contV"} : Sample(pc)
  BY <1>4, SampleKeeps
<1>5. CASE Raise \/ Die \/ Load
  BY <1>5, RaiseKeeps, DieKeeps, LoadKeeps
<1>6. CASE UNCHANGED vars
  <2>1. UNCHANGED <<act, controller, rec>> /\ proc' = proc /\ births' = births
    BY <1>6 DEF vars, controller
  <2>2. TableOK(proc', births') /\ TableStep(proc, births, proc', births')
    BY <2>1, Facts, TheActors
  <2> QED
    BY <2>1, <2>2, OnlyTheTable
<1> QED
  BY <1>1, <1>2, <1>3, <1>4, <1>5, <1>6 DEF Next

\* The invariant holds throughout, for every set of numbers and every bound.
THEOREM Invariance == Spec => []IInv
BY InitHolds, NextKeeps, PTL DEF Spec

-----------------------------------------------------------------------------
(* The properties. *)

\* The process table, the two cleaners and the record keep their types.
THEOREM TypeCorrect == Spec => []TypeOK
<1>1. IInv => TypeOK
  <2> SUFFICES ASSUME IInv PROVE TypeOK
    OBVIOUS
  <2>1. ProcTypeOK
    BY DEF IInv, TableOK, ProcTypeOK
  <2> QED
    BY <2>1 DEF IInv, TypeOK, ControlOK, RecordOK
<1> QED
  BY <1>1, Invariance, PTL

\* The record is never more favourable than the table: a run recorded as
\* stopped, exited or cleaned up has nobody of its own left in its session,
\* unless somebody slipped through the writer's last scan.
THEOREM EndIsEmpty == Spec => []RecordedEndIsEmpty
<1>1. IInv => RecordedEndIsEmpty
  <2> SUFFICES ASSUME IInv PROVE RecordedEndIsEmpty
    OBVIOUS
  <2>1. NoResidue(proc) => OwnResidue = {}
    BY DEF NoResidue, OwnResidue, SessionLive, Live, LiveIn
  <2> QED
    BY <2>1 DEF IInv, RecordOK, RecordedEndIsEmpty
<1> QED
  BY <1>1, Invariance, PTL

\* No reported survivor that was in the group when the kill pass began its scan
\* was left without SIGKILL.
THEOREM SurvivorsWereKilled == Spec => []NoSurvivorSpared
<1>1. IInv => NoSurvivorSpared
  BY DEF IInv, ActorOK, KillOK, NoSurvivorSpared
<1> QED
  BY <1>1, Invariance, PTL

Touched(p) == \/ proc'[p].sig \ proc[p].sig # {}
              \/ {proc[p].st, proc'[p].st} = {"run", "stop"}

LEMMA TheFreeHaveNoSignals == Free.sig = {} /\ Free.st = "free"
BY DEF Free

LEMMA WorldTouchesNobody ==
  ASSUME World, proc \in [Pids -> Process], NEW o \in Pids
  PROVE  ~Touched(o)
<1>1. PICK p \in Pids : \/ \E q \in Pids : Fork(p, q)
                        \/ LeaveGroup(p)
                        \/ RewriteEnvironment(p)
                        \/ Exit(p)
                        \/ ReapOther(p)
                        \/ ForeignBirth(p)
  BY DEF World
<1>2. ASSUME NEW q \in Pids, NEW kin, NEW grp, NEW ses, Born(q, kin, grp, ses)
      PROVE  ~Touched(o)
  <2>1. CASE o = q
    <3>1. proc[q].st = "free" /\ proc'[q].sig = {}
      BY <1>2 DEF Born, Available
    <3> QED
      BY <2>1, <3>1 DEF Touched
  <2>2. CASE o # q
    <3>1. proc'[o] = proc[o]
      BY <1>2, <2>2 DEF Born
    <3> QED
      BY <3>1 DEF Touched
  <2> QED
    BY <2>1, <2>2
<1>3. CASE \E q \in Pids : Fork(p, q)
  BY <1>2, <1>3 DEF Fork
<1>4. CASE ForeignBirth(p)
  BY <1>2, <1>4 DEF ForeignBirth
<1>5. CASE LeaveGroup(p) \/ RewriteEnvironment(p)
  <2>1. proc'[o].sig = proc[o].sig /\ proc'[o].st = proc[o].st
    <3>1. CASE LeaveGroup(p)
      BY <3>1 DEF LeaveGroup, Process
    <3>2. CASE RewriteEnvironment(p)
      BY <3>2 DEF RewriteEnvironment, Process
    <3> QED
      BY <1>5, <3>1, <3>2
  <2> QED
    BY <2>1 DEF Touched
<1>6. CASE Exit(p)
  <2>1. proc'[o].sig = proc[o].sig /\ (proc'[o].st = proc[o].st \/ proc'[o].st = "dead")
    BY <1>6 DEF Exit, Process
  <2> QED
    BY <2>1 DEF Touched
<1>7. CASE ReapOther(p)
  <2>1. proc'[o] = proc[o] \/ proc'[o] = Free
    BY <1>7 DEF ReapOther, ReapPid
  <2> QED
    BY <2>1, TheFreeHaveNoSignals DEF Touched
<1> QED
  BY <1>1, <1>3, <1>4, <1>5, <1>6, <1>7

LEMMA ReapTouchesNobody ==
  ASSUME ReapPid(Leader), proc \in [Pids -> Process], NEW o \in Pids
  PROVE  ~Touched(o)
<1>1. proc'[o] = proc[o] \/ proc'[o] = Free
  BY DEF ReapPid
<1> QED
  BY <1>1, TheFreeHaveNoSignals DEF Touched

LEMMA DeliveryTouchesTargets ==
  ASSUME NEW T, NEW s, Deliver(T, s), NEW o \in Pids, Touched(o)
  PROVE  o \in T /\ Live(o)
<1> SUFFICES ASSUME ~(o \in T /\ Live(o))
             PROVE  FALSE
  OBVIOUS
<1>1. proc'[o] = proc[o]
  BY DEF Deliver
<1> QED
  BY <1>1 DEF Touched

\* A signal comes from one of the two places that send signals.
SentTo(p) ==
    \/ \E a \in Actors : act[a].pc = "kill" /\ act[a].checked.pid = p
    \/ \E a \in Actors : act[a].pc \in GroupPcs /\ p \in Group

LEMMA GroupSends ==
  ASSUME NEW a \in Actors, NEW pc \in DOMAIN Sending, NEW onSent, NEW onGone,
         KillGroup(a, pc, onSent, onGone), NEW o \in Pids, Touched(o)
  PROVE  Live(o) /\ SentTo(o)
<1>1. o \in Group /\ Live(o)
  BY DeliveryTouchesTargets DEF KillGroup
<1>2. act[a].pc \in GroupPcs
  BY DEF KillGroup, At, Sending, GroupPcs
<1> QED
  BY <1>1, <1>2 DEF SentTo

LEMMA StillUntouched ==
  ASSUME proc' = proc, NEW o \in Pids
  PROVE  ~Touched(o)
BY DEF Touched

LEMMA OnlySentAreTouched ==
  ASSUME IInv, [Next]_vars, NEW o \in Pids, Touched(o)
  PROVE  Live(o) /\ SentTo(o)
<1>1. /\ proc \in [Pids -> Process] /\ proc' # proc /\ ~World /\ ~ReapPid(Leader)
      /\ "contV" \in DOMAIN Sending /\ "termV" \in DOMAIN Sending
      /\ "pauseV" \in DOMAIN Sending /\ "resumeV" \in DOMAIN Sending
  BY WorldTouchesNobody, ReapTouchesNobody, StillUntouched DEF IInv, TableOK, Sending
<1>2. PICK a \in Actors : CleanupStep(a)
  <2>1. ~(\E a \in Actors : Expire(a)) /\ ~(\E pc \in {"pauseV", "resumeV", "contV"} : Sample(pc))
    BY <1>1 DEF Expire, Sample
  <2>2. ~Raise /\ ~Die /\ ~Load /\ ~UNCHANGED vars /\ ~ReapOrphan
    BY <1>1 DEF Raise, Die, Load, vars, ReapOrphan
  <2> QED
    BY <1>1, <2>1, <2>2 DEF Next
<1>3. CASE Kill(a)
  <2>1. o \in {act[a].checked.pid} /\ Live(o)
    BY <1>3, DeliveryTouchesTargets DEF Kill
  <2> QED
    BY <1>3, <2>1 DEF SentTo, Kill, At
<1>4. CASE ControllerStep
  <2>1. ~PollExit /\ ~(\E pc \in {"pauseV", "resumeV"} : PauseOrResume(pc)) /\ ~Finish
    BY <1>1 DEF PollExit, PauseOrResume, Finish
  <2>2. CASE TerminateOwned
    BY <1>1, <2>2, GroupSends, TheActors DEF TerminateOwned, VerifyGroup
  <2>3. CASE \E pc \in {"pauseV", "resumeV"} : PauseOrResumeSend(pc)
    BY <1>1, <2>3, GroupSends, TheActors DEF PauseOrResumeSend
  <2> QED
    BY <1>4, <2>1, <2>2, <2>3 DEF ControllerStep
<1>5. CASE StopGroup
  BY <1>1, <1>5, GroupSends, TheActors DEF StopGroup, VerifyGroup
<1>6. ~ScanBegin(a) /\ ~ScanEnd(a) /\ ~Pass(a) /\ ~(\E m \in act[a].todo : Check(a, m)) /\ ~Stopped
  BY <1>1 DEF ScanBegin, ScanEnd, Pass, Check, Stopped
<1> QED
  BY <1>2, <1>3, <1>4, <1>5, <1>6 DEF CleanupStep

\* Somebody else's process is signalled only after it took over a number that
\* the sender had checked under its former holder.
THEOREM StrangersInWindow == Spec => ForeignOnlyInWindow
<1>1. ASSUME IInv, [Next]_vars, NEW p \in Pids, proc[p].kin = "foreign", Touched(p)
      PROVE  \E a \in Actors : act[a].checked # NoMember
                /\ proc[act[a].checked.pid].born # act[a].checked.born
  <2>1. SentTo(p)
    BY <1>1, OnlySentAreTouched
  <2>2. CASE \E a \in Actors : act[a].pc = "kill" /\ act[a].checked.pid = p
    <3>1. PICK a \in Actors : act[a].pc = "kill" /\ act[a].checked.pid = p
      BY <2>2
    <3>2. CheckedOK(act[a], proc, births)
      BY <1>1, Facts DEF ActorOK
    <3> QED
      BY <1>1, <3>1, <3>2 DEF CheckedOK
  <2>3. CASE \E a \in Actors : act[a].pc \in GroupPcs /\ p \in Group
    <3>1. PICK a \in Actors : act[a].pc \in GroupPcs /\ p \in Group
      BY <2>3
    <3>2. CheckedOK(act[a], proc, births) /\ TableOK(proc, births)
      BY <1>1, Facts DEF ActorOK
    <3>3. act[a].checked # NoMember /\ act[a].checked.pid = Leader
          /\ act[a].checked.born = LeaderBorn
      BY <3>1, <3>2 DEF CheckedOK
    <3>4. proc[p].grp /\ Leader \in Pids
      BY <3>1, ProcessAssumption DEF Group, InGroup
    <3>5. proc[Leader].born # LeaderBorn
      BY <1>1, <3>2, <3>4 DEF TableOK
    <3> QED
      BY <3>3, <3>5
  <2> QED
    BY <2>1, <2>2, <2>3 DEF SentTo
<1>2. ASSUME IInv, [Next]_vars
      PROVE  [\A p \in Pids :
                /\ Live(p) /\ proc[p].kin = "foreign"
                /\ \/ proc'[p].sig \ proc[p].sig # {}
                   \/ {proc[p].st, proc'[p].st} = {"run", "stop"}
                => \E a \in Actors : act[a].checked # NoMember
                       /\ proc[act[a].checked.pid].born # act[a].checked.born]_vars
  BY <1>1, <1>2 DEF Touched
<1> QED
  BY <1>2, Invariance, PTL DEF Spec, ForeignOnlyInWindow

\* A member of the recorded group is killed only after an offer of SIGTERM to
\* its number, if it was there when the last SIGTERM scan began.
THEOREM KillComesAfterTerm == Spec => KillAfterTerm
<1>1. ASSUME IInv, [Next]_vars, NEW a \in Actors, NEW p \in Pids,
             act[a].pc = "kill", act[a].phase = "kill",
             "KILL" \in proc'[p].sig \ proc[p].sig,
             proc[p].kin = "own", proc[p].grp
      PROVE  proc[p].born > act[a].termAt \/ p \in act[a].termed
  <2>1. Live(p)
    BY <1>1, OnlySentAreTouched DEF Touched
  <2>2. TermOK(act[a], proc, births) /\ act[a].termAt \in Nat /\ proc[p].born \in Nat
    BY <1>1, Facts, TableTypes DEF ActorOK
  <2>3. proc[p].born <= act[a].termAt => Old(proc, p, act[a].termAt)
    BY <1>1, <2>1 DEF Old, Live, LiveIn
  <2>4. Old(proc, p, act[a].termAt) => p \in act[a].termed
    BY <1>1, <2>2 DEF TermOK
  <2> QED
    BY <2>2, <2>3, <2>4
<1>2. ASSUME IInv, [Next]_vars
      PROVE  [\A a \in Actors, p \in Pids :
                /\ At(a, "kill") /\ act[a].phase = "kill" /\ act[a].checked.pid = p
                /\ "KILL" \in proc'[p].sig \ proc[p].sig
                /\ proc[p].kin = "own" /\ proc[p].grp
                => \/ "TERM" \in proc[p].sig \/ proc[p].born > act[a].termAt
                   \/ p \in act[a].termed]_vars
  BY <1>1, <1>2 DEF At
<1> QED
  BY <1>2, Invariance, PTL DEF Spec, KillAfterTerm

-----------------------------------------------------------------------------
(* A cleanup goes round only while it waits for a deadline. *)

\* How far a cleaner has come.
PhaseOrder == [natural |-> 1, term |-> 3, kill |-> 4, wait |-> 5, reap |-> 6]
Stage(r) ==
    CASE r.pc \in {"idle", "watch", "pauseV", "pauseK", "resumeV", "resumeK"} -> 0
      [] r.pc \in {"contV", "contK", "termV", "termK"} -> 2
      [] r.pc \in {"scan", "scanning", "signal", "kill", "finish"} -> PhaseOrder[r.phase]
      [] r.pc = "ended" -> 7

\* And within its stage: the signals to the group, or a round of a loop.
GroupOrder(a) ==
    IF a = "controller" THEN [contV |-> 0, contK |-> 1, termV |-> 2, termK |-> 3]
                        ELSE [termV |-> 0, termK |-> 1, contV |-> 2, contK |-> 3]
LoopOrder == [scan |-> 0, scanning |-> 1, signal |-> 2, kill |-> 2, finish |-> 0]
Place(a, r) ==
    IF r.pc \in {"contV", "contK", "termV", "termK"} THEN GroupOrder(a)[r.pc]
                                                     ELSE LoopOrder[r.pc]

\* The parent watches its run for as long as it likes.  A cleanup comes closer
\* to its end with each step, unless it begins another round before the
\* deadline of a phase that has one.
Watching(r) == Stage(r) = 0
AnotherRound(next, r) ==
    ~r.expired /\ r.phase \in {"natural", "term", "wait"} /\ next.pc = "scan"
Closer(a, next, r) ==
    \/ Stage(next) > Stage(r)
    \/ /\ Stage(next) = Stage(r) /\ r.pc # "ended"
       /\ \/ Watching(r)
          \/ AnotherRound(next, r)
          \/ ~r.expired /\ next.expired
          \/ /\ next.expired = r.expired
             /\ \/ Place(a, next) > Place(a, r)
                \/ /\ Place(a, next) = Place(a, r)
                   /\ \/ next.todo \subseteq r.todo /\ next.todo # r.todo
                      \/ next.todo = r.todo /\ r.pc = "signal" /\ next.pc = "kill"

CleanupAdvances ==
    [][\A a \in Actors : act'[a] # act[a] => Closer(a, act'[a], act[a])]_vars

Advance == \A a \in Actors : act'[a] # act[a] => Closer(a, act'[a], act[a])

\* A step of one cleaner leaves the other where it is.
LEMMA OneAdvances ==
    ASSUME IInv, NEW a \in Actors, NEW r, act' = [act EXCEPT ![a] = r],
           Closer(a, r, act[a])
    PROVE  Advance
BY DEF IInv, Advance

\* From stage to stage.
LEMMA LaterStage ==
    ASSUME NEW a, NEW r, NEW next, Stage(next) > Stage(r)
    PROVE  Closer(a, next, r)
BY DEF Closer

\* The stages of the places where a phase is entered or the cleanup ends.
LEMMA StageOf ==
    ASSUME NEW r \in Actor, PlaceOK(r)
    PROVE  /\ Stage(r) \in 0 .. 7
           /\ \A phase \in {"natural", "term", "kill", "wait"} :
                Stage(Enter(r, phase)) = PhaseOrder[phase]
           /\ Stage(End(r)) = 7
           /\ r.pc # "ended" => Stage(r) < 7
           /\ r.pc \in {"scan", "scanning", "signal", "kill", "finish"}
                => Stage(r) = PhaseOrder[r.phase]
<1>1. ASSUME NEW phase \in {"natural", "term", "kill", "wait"}
      PROVE  Stage(Enter(r, phase)) = PhaseOrder[phase]
  BY <1>1, Entered DEF Stage
<1>2. End(r).pc = "ended"
  BY DEF End, Idle
<1>3. Stage(End(r)) = 7
  BY <1>2 DEF Stage
<1>4. r.pc \in {"scan", "scanning", "signal", "kill", "finish"}
        => Stage(r) = PhaseOrder[r.phase] /\ Stage(r) \in 0 .. 6
  BY DEF Stage, PlaceOK, PhaseOrder
<1>5. r.pc \notin {"scan", "scanning", "signal", "kill", "finish"}
        => Stage(r) \in {0, 2, 7} /\ (r.pc # "ended" => Stage(r) < 7)
  BY DEF Stage, Actor
<1> QED
  BY <1>1, <1>3, <1>4, <1>5

\* A scan begins and ends.
LEMMA ScanAdvances ==
    ASSUME IInv, NEW a \in Actors, ScanBegin(a) \/ ScanEnd(a)
    PROVE  Advance
<1> DEFINE r == act[a]
<1>1. r \in Actor /\ PlaceOK(r)
  BY Facts DEF ActorOK
<1>2. CASE ScanBegin(a)
  <2> DEFINE next == [r EXCEPT
                !.pc = "scanning", !.begun = {Member(p) : p \in SessionLive},
                !.termAt = IF r.phase = "term" THEN births ELSE @,
                !.killAt = IF r.phase = "kill" THEN births ELSE @]
  <2>0. act' = [act EXCEPT ![a] = next]
    BY <1>2 DEF ScanBegin, Becomes
  <2>1. r.pc = "scan" /\ next.pc = "scanning" /\ next.phase = r.phase
        /\ next.expired = r.expired
    BY <1>1, <1>2 DEF ScanBegin, At, Actor
  <2> HIDE DEF next, r
  <2>2. Stage(next) = Stage(r) /\ Place(a, next) > Place(a, r)
    BY <2>1 DEF Stage, Place, LoopOrder
  <2>3. Closer(a, next, r)
    BY <2>1, <2>2 DEF Closer
  <2> QED
    BY <2>0, <2>3, OneAdvances DEF r
<1>3. CASE ScanEnd(a)
  <2>0. PICK seen \in Seen(a) : \E bad \in Rejected(a, seen) :
          LET found == {Member(p) : p \in {q \in seen : proc[q].kin = "own"}}
          IN  Becomes(a, AfterScan([act[a] EXCEPT
                 !.begun = {}, !.found = found, !.bad = bad,
                 !.slipped = act[a].phase = "wait" /\ seen # SessionLive]))
    BY <1>3 DEF ScanEnd
  <2> DEFINE found == {Member(p) : p \in {q \in seen : proc[q].kin = "own"}}
             slipped == r.phase = "wait" /\ seen # SessionLive
  <2>1. PICK bad \in Rejected(a, seen) :
          act' = [act EXCEPT ![a] =
                    AfterScan([r EXCEPT !.begun = {}, !.found = found, !.bad = bad,
                                        !.slipped = slipped])]
    BY <2>0 DEF Becomes
  <2> HIDE DEF found, slipped
  <2> DEFINE s == [r EXCEPT !.begun = {}, !.found = found, !.bad = bad, !.slipped = slipped]
             next == AfterScan(s)
  <2>2. /\ s.pc = "scanning" /\ s.phase = r.phase /\ s.expired = r.expired /\ r.pc = "scanning"
        /\ DOMAIN s = DOMAIN r
    BY <1>1, <1>3 DEF ScanEnd, At, Actor
  <2>3. r.phase \in {"natural", "term", "kill", "wait"} /\ Stage(r) = PhaseOrder[r.phase]
    BY <1>1, <2>2, StageOf DEF PlaceOK
  <2>4. \/ next.pc = "scan" /\ next.phase = r.phase /\ AnotherRound(next, r)
        \/ r.phase = "natural" /\ next.pc = "scan" /\ next.phase = "term"
        \/ r.phase = "wait" /\ next.pc = "finish" /\ next.phase = "reap"
        \/ next.pc = "signal" /\ next.phase = r.phase /\ next.expired = r.expired
    BY <1>1, <2>2, <2>3 DEF AfterScan, Enter, AnotherRound, Actor
  <2> HIDE DEF next, s, r
  <2>5. Closer(a, next, r)
    BY <2>2, <2>3, <2>4 DEF Closer, Stage, Place, PhaseOrder, LoopOrder
  <2> QED
    BY <2>1, <2>5, OneAdvances DEF next, s, r
<1> QED
  BY <1>2, <1>3

\* The members of a scan are dealt with one by one.
LEMMA SignalAdvances ==
    ASSUME IInv, NEW a \in Actors,
           Pass(a) \/ Kill(a) \/ \E m \in act[a].todo : Check(a, m)
    PROVE  Advance
<1> DEFINE r == act[a]
<1>1. r \in Actor /\ PlaceOK(r) /\ CheckedOK(r, proc, births)
  BY Facts DEF ActorOK
<1>2. CASE Pass(a)
  <2>1. r.pc = "signal" /\ r.phase \in {"term", "kill"} /\ Stage(r) = PhaseOrder[r.phase]
    BY <1>1, <1>2, StageOf DEF Pass, At, PlaceOK
  <2>2. PICK next :
          /\ act' = [act EXCEPT ![a] = next]
          /\ next = IF Again(r) THEN [r EXCEPT !.pc = "scan"]
                    ELSE IF r.phase = "term" THEN Enter(r, "kill")
                    ELSE Enter([r EXCEPT !.termAt = 0], "wait")
    BY <1>2 DEF Pass, Becomes
  <2>3. \/ next.pc = "scan" /\ next.phase = r.phase /\ AnotherRound(next, r)
        \/ r.phase = "term" /\ next.pc = "scan" /\ next.phase = "kill"
        \/ r.phase = "kill" /\ next.pc = "scan" /\ next.phase = "wait"
    BY <1>1, <2>1, <2>2 DEF Again, Enter, AnotherRound, Actor
  <2> HIDE DEF r
  <2>4. Closer(a, next, r)
    BY <2>1, <2>3 DEF Closer, Stage, PhaseOrder
  <2> QED
    BY <2>2, <2>4, OneAdvances DEF r
<1>3. CASE Kill(a)
  <2> DEFINE p == r.checked.pid
             sent == Exists(p)
             kills == r.phase = "kill"
             next == [r EXCEPT
               !.pc = "signal", !.checked = NoMember,
               !.todo = {m \in @ : m.pid # p},
               !.termed = IF sent /\ ~kills THEN @ \cup {p} ELSE @,
               !.killed = IF sent /\ kills THEN @ \cup {r.checked} ELSE @]
  <2>0. act' = [act EXCEPT ![a] = next]
    BY <1>3 DEF Kill, Becomes
  <2>1. /\ next.pc = "signal" /\ next.phase = r.phase /\ next.expired = r.expired
        /\ next.todo = {m \in r.todo : m.pid # r.checked.pid}
    BY <1>1 DEF Actor
  <2>2. r.pc = "kill" /\ r.checked \in r.todo
    BY <1>1, <1>3 DEF Kill, At, CheckedOK
  <2> HIDE DEF next, sent, kills, p, r
  <2>3. next.todo \subseteq r.todo /\ next.todo # r.todo
    BY <2>1, <2>2
  <2>4. Closer(a, next, r)
    BY <2>1, <2>2, <2>3 DEF Closer, Stage, Place, LoopOrder
  <2> QED
    BY <2>0, <2>4, OneAdvances DEF r
<1>4. ASSUME NEW m \in act[a].todo, Check(a, m) PROVE Advance
  <2> DEFINE next == IF Verified(m) THEN [r EXCEPT !.pc = "kill", !.checked = Member(m.pid)]
                                    ELSE [r EXCEPT !.todo = @ \ {m}]
  <2>0. act' = [act EXCEPT ![a] = next]
    BY <1>4 DEF Check, Becomes
  <2>1. /\ next.phase = r.phase /\ next.expired = r.expired
        /\ \/ next.pc = "kill" /\ next.todo = r.todo
           \/ next.pc = "signal" /\ next.todo = r.todo \ {m}
    BY <1>1, <1>4 DEF Check, At, Actor
  <2>2. r.pc = "signal" /\ m \in r.todo
    BY <1>4 DEF Check, At
  <2> HIDE DEF next, r
  <2>3. Closer(a, next, r)
    BY <2>1, <2>2 DEF Closer, Stage, Place, LoopOrder
  <2> QED
    BY <2>0, <2>3, OneAdvances DEF r
<1> QED
  BY <1>2, <1>3, <1>4

\* The two signals to the group: verified, sent, and the next one, in the order
\* of the one or the other cleaner.
LEMMA VerifyAdvances ==
    ASSUME IInv, NEW a \in Actors, NEW pc \in {"contV", "termV"}, NEW onGone, NEW onRefused,
           VerifyGroup(a, pc, onGone, onRefused),
           Closer(a, onGone, act[a]), Closer(a, onRefused, act[a])
    PROVE  Advance
<1> DEFINE r == act[a]
<1>1. r \in Actor /\ r.pc = pc /\ Sending[pc] \in {"contK", "termK"}
  BY Facts DEF VerifyGroup, At, Sending
<1>2. PICK v \in {"ok", "gone", "refused"} :
        Becomes(a, CASE v = "ok" -> Armed(a, pc) [] v = "gone" -> onGone
                     [] v = "refused" -> onRefused)
  BY DEF VerifyGroup, Verify
<1>3. Closer(a, Armed(a, pc), r)
  <2>1. /\ Armed(a, pc).pc = Sending[pc] /\ Armed(a, pc).expired = r.expired
    BY <1>1 DEF Armed, Actor
  <2> HIDE DEF r
  <2> QED
    BY <1>1, <2>1 DEF Closer, Stage, Place, GroupOrder, Sending
<1>4. PICK next : act' = [act EXCEPT ![a] = next] /\ Closer(a, next, r)
  BY <1>2, <1>3 DEF Becomes
<1> QED
  BY <1>4, OneAdvances

LEMMA SendAdvances ==
    ASSUME IInv, NEW a \in Actors, NEW pc \in {"contV", "termV"}, NEW onSent, NEW onGone,
           KillGroup(a, pc, onSent, onGone),
           Closer(a, onSent, act[a]), Closer(a, onGone, act[a])
    PROVE  Advance
<1>1. PICK next : act' = [act EXCEPT ![a] = next] /\ Closer(a, next, act[a])
  BY DEF KillGroup, Becomes
<1> QED
  BY <1>1, OneAdvances

\* Where the signals lead to.
LEMMA GroupGoesOn ==
    ASSUME IInv, NEW a \in Actors
    PROVE  /\ act[a].pc \in {"contV", "contK", "termV", "termK"} =>
                /\ Closer(a, StartTerm(a), act[a])
                /\ \A e : Closer(a, [StartTerm(a) EXCEPT !.err = e], act[a])
           /\ a = "controller" /\ act[a].pc \in {"contV", "contK"}
                => Closer(a, Keep(a, "termV"), act[a])
           /\ a = "stopper" /\ act[a].pc = "termK" => Closer(a, Keep(a, "contV"), act[a])
           /\ a = "controller" /\ act[a].pc \in {"pauseV", "resumeV"}
                => Closer(a, Keep(a, "contV"), act[a])
<1> DEFINE r == act[a]
<1>1. r \in Actor
  BY Facts
<1>2. /\ StartTerm(a).pc = "scan" /\ StartTerm(a).phase = "term"
      /\ \A e : /\ [StartTerm(a) EXCEPT !.err = e].pc = "scan"
                /\ [StartTerm(a) EXCEPT !.err = e].phase = "term"
  <2>1. StartTerm(a) \in Actor /\ StartTerm(a).pc = "scan" /\ StartTerm(a).phase = "term"
    BY <1>1, Entered DEF StartTerm
  <2> QED
    BY <2>1 DEF Actor
<1>3. \A pc : Keep(a, pc).pc = pc /\ Keep(a, pc).expired = r.expired
  BY <1>1 DEF Keep, Actor
<1> HIDE DEF r
<1>4. r.pc \in {"contV", "contK", "termV", "termK"} =>
        /\ Closer(a, StartTerm(a), r)
        /\ \A e : Closer(a, [StartTerm(a) EXCEPT !.err = e], r)
  BY <1>2 DEF Closer, Stage, PhaseOrder
<1>5. /\ a = "controller" /\ r.pc \in {"contV", "contK"} => Closer(a, Keep(a, "termV"), r)
      /\ a = "stopper" /\ r.pc = "termK" => Closer(a, Keep(a, "contV"), r)
      /\ a = "controller" /\ r.pc \in {"pauseV", "resumeV"} => Closer(a, Keep(a, "contV"), r)
  BY <1>3 DEF Closer, Stage, Place, GroupOrder
<1> QED
  BY <1>4, <1>5 DEF r

\* The parent: its watch, and the ways out of it.
LEMMA ControllerAdvances ==
    ASSUME IInv,
           \/ ControllerStep \/ Raise \/ Die
           \/ \E pc \in {"pauseV", "resumeV", "contV"} : Sample(pc)
    PROVE  Advance
<1> DEFINE a == "controller"
           r == act[a]
<1>0. a \in Actors /\ r \in Actor /\ PlaceOK(r) /\ act \in [Actors -> Actor]
  BY Facts, TheActors DEF ActorOK
<1>1. CASE PollExit
  <2>1. act' = [act EXCEPT ![a] = Enter(r, "natural")] /\ r.pc = "watch"
    BY <1>1 DEF PollExit, Becomes, At
  <2>2. Stage(Enter(r, "natural")) = 1
    BY <1>0, StageOf DEF PhaseOrder
  <2>3. Stage(r) = 0
    BY <2>1 DEF Stage
  <2>4. Stage(Enter(r, "natural")) > Stage(r)
    BY <2>2, <2>3
  <2> QED
    BY <1>0, <2>1, <2>4, LaterStage, OneAdvances
<1>2. CASE TerminateOwned
  BY <1>0, <1>2, GroupGoesOn, VerifyAdvances, SendAdvances
     DEF TerminateOwned, VerifyGroup, KillGroup, At, Sending
<1>3. CASE Finish \/ Die
  <2>1. PICK o \in {r, Idle} : act' = [act EXCEPT ![a] = End(o)]
    BY <1>3 DEF Finish, Die, Becomes
  <2>2. End(o).pc = "ended" /\ r.pc # "ended"
    BY <1>3 DEF End, Idle, Finish, Die, At
  <2>3. Stage(End(o)) > Stage(r)
    BY <1>0, <2>2, StageOf DEF Stage
  <2> QED
    BY <1>0, <2>1, <2>3, LaterStage, OneAdvances
<1>4. ASSUME NEW pc \in {"pauseV", "resumeV"}, PauseOrResume(pc) \/ PauseOrResumeSend(pc)
      PROVE  Advance
  <2>1. r.pc \in {"pauseV", "pauseK", "resumeV", "resumeK"}
    BY <1>4 DEF PauseOrResume, PauseOrResumeSend, KillGroup, At, Sending
  <2>2. \/ act' = [act EXCEPT ![a] = Armed(a, pc)]
        \/ act' = [act EXCEPT ![a] = Keep(a, "contV")]
        \/ act' = [act EXCEPT ![a] = Keep(a, "watch")]
    BY <1>4 DEF PauseOrResume, PauseOrResumeSend, KillGroup, Becomes
  <2>3. /\ Armed(a, pc).pc \in {"pauseK", "resumeK"}
        /\ Keep(a, "contV").pc = "contV" /\ Keep(a, "watch").pc = "watch"
    BY <1>0 DEF Armed, Keep, Sending, Actor
  <2>4. ASSUME NEW next, next.pc \in {"pauseK", "resumeK", "watch", "contV"}
        PROVE  Closer(a, next, r)
    <3> HIDE DEF r
    <3> QED
      BY <2>1, <2>4 DEF Closer, Stage, Watching
  <2> QED
    BY <1>0, <2>2, <2>3, <2>4, OneAdvances
<1>5. CASE Raise
  <2>1. /\ act' = [act EXCEPT ![a] = [Idle EXCEPT !.pc = "contV"]]
        /\ r.pc = "watch" \/ (r.pc = "scan" /\ r.phase = "natural")
    BY <1>5 DEF Raise, Becomes, At
  <2>2. [Idle EXCEPT !.pc = "contV"].pc = "contV"
    BY DEF Idle
  <2>3. Stage([Idle EXCEPT !.pc = "contV"]) > Stage(r)
    BY <2>1, <2>2 DEF Stage, PhaseOrder
  <2> QED
    BY <1>0, <2>1, <2>3, LaterStage, OneAdvances
<1>6. ASSUME NEW pc \in {"pauseV", "resumeV", "contV"}, Sample(pc) PROVE Advance
  <2>1. /\ act' = [act EXCEPT ![a] = [r EXCEPT !.pc = pc]] /\ r.pc = "watch"
        /\ [r EXCEPT !.pc = pc].pc = pc
    BY <1>0, <1>6 DEF Sample, Goto, At, Actor
  <2>2. Closer(a, [r EXCEPT !.pc = pc], r)
    BY <2>1 DEF Closer, Stage, Watching
  <2> QED
    BY <1>0, <2>1, <2>2, OneAdvances
<1> QED
  BY <1>1, <1>2, <1>3, <1>4, <1>5, <1>6 DEF ControllerStep

\* stop_run.py, from its load to its record.
LEMMA StopperAdvances ==
    ASSUME IInv, Load \/ StopGroup \/ Stopped
    PROVE  Advance
<1> DEFINE a == "stopper"
           r == act[a]
<1>0. a \in Actors /\ r \in Actor /\ PlaceOK(r) /\ act \in [Actors -> Actor]
  BY Facts, TheActors DEF ActorOK
<1>1. CASE Load
  <2>1. PICK pc \in {"ended", "termV"} : act' = [act EXCEPT ![a] = [r EXCEPT !.pc = pc]]
    BY <1>0, <1>1 DEF Load, Goto
  <2>2. r.pc = "idle" /\ [r EXCEPT !.pc = pc].pc = pc
    BY <1>0, <1>1 DEF Load, At, Actor
  <2>3. Stage([r EXCEPT !.pc = pc]) > Stage(r)
    BY <2>2 DEF Stage
  <2> QED
    BY <1>0, <2>1, <2>3, LaterStage, OneAdvances
<1>2. CASE StopGroup
  BY <1>0, <1>2, GroupGoesOn, VerifyAdvances, SendAdvances
     DEF StopGroup, VerifyGroup, KillGroup, At, Sending
<1>3. CASE Stopped
  <2>1. act' = [act EXCEPT ![a] = End(r)] /\ r.pc = "finish"
    BY <1>3 DEF Stopped, Becomes, At
  <2>2. Stage(End(r)) > Stage(r)
    BY <1>0, <2>1, StageOf
  <2> QED
    BY <1>0, <2>1, <2>2, LaterStage, OneAdvances
<1> QED
  BY <1>1, <1>2, <1>3

\* A deadline passes once in each phase.
LEMMA ExpiryAdvances ==
    ASSUME IInv, NEW a \in Actors, Expire(a)
    PROVE  Advance
<1> DEFINE r == act[a]
           next == [r EXCEPT !.expired = TRUE]
<1>1. r \in Actor /\ act' = [act EXCEPT ![a] = next] /\ ~r.expired
      /\ r.pc \in {"scan", "finish"}
  BY Facts DEF Expire
<1>2. next.pc = r.pc /\ next.phase = r.phase /\ next.expired
  BY <1>1 DEF Actor
<1> HIDE DEF next, r
<1>3. Closer(a, next, r)
  BY <1>1, <1>2 DEF Closer, Stage
<1> QED
  BY <1>1, <1>3, OneAdvances DEF next, r

\* The safety half of CleanupEnds: whatever the processes of the run do, a
\* cleanup descends through its phases; it repeats a scan only before the
\* deadline of the phase, and SIGKILL is given in one round.
THEOREM CleanupsOnlyAdvance == Spec => CleanupAdvances
<1>1. IInv /\ [Next]_vars => Advance
  <2> SUFFICES ASSUME IInv, [Next]_vars PROVE Advance
    OBVIOUS
  <2>1. CASE act' = act
    BY <2>1 DEF Advance
  <2>2. ASSUME NEW a \in Actors, CleanupStep(a) \/ Expire(a) PROVE Advance
    BY <2>2, ScanAdvances, SignalAdvances, ControllerAdvances, StopperAdvances,
       ExpiryAdvances DEF CleanupStep
  <2>3. (World /\ UNCHANGED <<act, controller, rec>>) \/ ReapOrphan \/ UNCHANGED vars
          => act' = act
    BY DEF ReapOrphan, vars
  <2> QED
    BY <2>1, <2>2, <2>3, ControllerAdvances, StopperAdvances DEF Next
<1>2. IInv /\ [Next]_vars =>
        [\A a \in Actors : act'[a] # act[a] => Closer(a, act'[a], act[a])]_vars
  BY <1>1 DEF Advance
<1> QED
  BY <1>2, Invariance, PTL DEF Spec, CleanupAdvances
=============================================================================
