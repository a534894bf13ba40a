--------------------------- MODULE CoverageAudit ---------------------------
(***************************************************************************)
(* The strict-coverage auditors of pypto_plugins/coverage.py that compete  *)
(* for one report path: the advisory lock, the classification of events,   *)
(* the latched violations, and a report that is replaced atomically and    *)
(* only by its owner.  Writing may fail before the replacement is visible, *)
(* or after it (the directory cannot be synced).                           *)
(*                                                                         *)
(* An event is a record of its activity id, its identity without that id,  *)
(* its class (what the provider, scope and provenance rules make of it)    *)
(* and its GPU time.  Digests are the contents they digest.                *)
(***************************************************************************)
EXTENDS Naturals

CONSTANTS
    Auditors,    \* one per CoverageAuditor object, in any process
    Events,      \* normalized GPU activities
    Manifests,   \* [events, sound]: what a collector claims it observed
    MaxFaults,   \* bound on failing writes
    MaxRemovals, \* bound on removals of the report by the operator
    Nobody

Classes == {"covered", "fallback", "excluded", "misfiled"}

ASSUME AuditAssumption ==
    /\ \A e \in Events : e.class \in Classes /\ e.ns \in Nat
    /\ \A m \in Manifests : m.events \subseteq Events /\ m.sound \in BOOLEAN
    /\ MaxFaults \in Nat /\ MaxRemovals \in Nat
    /\ Nobody \notin Auditors

VARIABLES
    aud,      \* the auditors
    owner,    \* holder of the report's advisory lock
    report,   \* the report on disk
    faults, removals

vars == <<aud, owner, report, faults, removals>>

NoReport == [by |-> Nobody, events |-> {}, violations |-> {},
             manifest |-> {}, strict |-> FALSE, finalized |-> FALSE,
             complete |-> FALSE, passed |-> FALSE]

NewAuditor == [phase |-> "new", strict |-> FALSE, manifest |-> {}, sound |-> FALSE,
               events |-> {}, violations |-> {}, poisoned |-> FALSE,
               finalized |-> FALSE, last |-> NoReport]

Init ==
    /\ aud = [a \in Auditors |-> NewAuditor]
    /\ owner = Nobody
    /\ report = NoReport
    /\ faults = 0 /\ removals = 0

-----------------------------------------------------------------------------
(* Opening and closing. *)

\* Mutant: a path that is free is taken with the report it holds.
OpenIfUnlocked(a, strict, m) ==
    /\ aud[a].phase = "new"
    /\ owner = Nobody
    /\ owner' = a
    /\ aud' = [aud EXCEPT ![a] = [NewAuditor EXCEPT
                 !.phase = "open", !.strict = strict,
                 !.manifest = m.events, !.sound = m.sound]]
    /\ UNCHANGED <<report, faults, removals>>

\* A path that is locked, or that holds a report, is refused.
Open(a, strict, m) ==
    /\ aud[a].phase = "new"
    /\ owner = Nobody /\ report = NoReport
    /\ owner' = a
    /\ aud' = [aud EXCEPT ![a] = [NewAuditor EXCEPT
                 !.phase = "open", !.strict = strict,
                 !.manifest = m.events, !.sound = m.sound]]
    /\ UNCHANGED <<report, faults, removals>>

\* close(), or the end of the process: the object's memory is gone.
Close(a) ==
    /\ aud[a].phase = "open"
    /\ aud' = [aud EXCEPT ![a] = [NewAuditor EXCEPT !.phase = "closed"]]
    /\ owner' = Nobody
    /\ UNCHANGED <<report, faults, removals>>

-----------------------------------------------------------------------------
(* Publishing. *)

Content(a, s, finalized, complete, passed) ==
    [by |-> a, events |-> s.events, violations |-> s.violations,
     manifest |-> s.manifest, strict |-> s.strict,
     finalized |-> finalized, complete |-> complete, passed |-> passed]

\* Mutant: the report is replaced whatever it holds.
AnyReport(a) == TRUE

\* The report is the one this auditor published last, or still absent.
Owned(a) == report = aud[a].last

\* The auditor becomes done when the report is published, and stays at s when
\* publishing raises: the report is not its own, or a write failed before or
\* after the replacement.
Publish(a, s, done, content) ==
    \/ /\ Owned(a)
       /\ report' = content
       /\ aud' = [aud EXCEPT ![a] = [done EXCEPT !.last = content]]
       /\ UNCHANGED faults
    \/ /\ ~Owned(a)
       /\ aud' = [aud EXCEPT ![a] = s]
       /\ UNCHANGED <<report, faults>>
    \/ /\ Owned(a) /\ faults < MaxFaults
       /\ faults' = faults + 1
       /\ report' \in {report, content}
       /\ aud' = [aud EXCEPT ![a] = s]

-----------------------------------------------------------------------------
(* record() *)

Duplicate(s, e) == \E f \in s.events : f.id = e.id \/ f.ident = e.ident

\* What one event adds to the violations.
Rejections(s, e) ==
    IF Duplicate(s, e) THEN {"duplicate"} ELSE {e.class} \cap {"fallback", "misfiled"}

\* Mutant: strict mode raises without noting the violation.
RecordedPoisonOnly(s, e) ==
    [s EXCEPT !.events = IF Duplicate(s, e) THEN @ ELSE @ \cup {e},
              !.violations = IF s.strict THEN @ ELSE @ \cup Rejections(s, e),
              !.poisoned = @ \/ (s.strict /\ Rejections(s, e) # {})]

Recorded(s, e) ==
    [s EXCEPT !.events = IF Duplicate(s, e) THEN @ ELSE @ \cup {e},
              !.violations = @ \cup Rejections(s, e),
              !.poisoned = @ \/ (s.strict /\ Rejections(s, e) # {})]

CanRecord(a) ==
    aud[a].phase = "open" /\ ~aud[a].finalized /\ ~aud[a].poisoned

Record(a, e) ==
    /\ CanRecord(a)
    /\ LET s == Recorded(aud[a], e) IN
       IF s.poisoned
       THEN Publish(a, s, s, Content(a, s, FALSE, FALSE, FALSE))
       ELSE aud' = [aud EXCEPT ![a] = s] /\ UNCHANGED <<report, faults>>
    /\ UNCHANGED <<owner, removals>>

-----------------------------------------------------------------------------
(* finalize() *)

Model(s) == {e \in s.events : e.class \in {"covered", "fallback"}}
Timed(s) == \E e \in Model(s) : e.ns > 0

\* Mutant: the trace is compared by what it lacks only.
DiscrepanciesMissingOnly(s, complete) ==
    {v \in {"incomplete", "manifest", "digest", "empty", "untimed", "uncovered"} :
        CASE v = "incomplete" -> ~complete
          [] v = "manifest" -> ~s.sound
          [] v = "digest" -> s.events \ s.manifest # {}
          [] v = "empty" -> Model(s) = {}
          [] v = "untimed" -> ~Timed(s)
          [] v = "uncovered" -> \E e \in Model(s) : e.class # "covered"}

\* The checks that only the whole trace can fail.
Discrepancies(s, complete) ==
    {v \in {"incomplete", "manifest", "digest", "empty", "untimed", "uncovered"} :
        CASE v = "incomplete" -> ~complete
          [] v = "manifest" -> ~s.sound
          [] v = "digest" -> s.events # s.manifest
          [] v = "empty" -> Model(s) = {}
          [] v = "untimed" -> ~Timed(s)
          [] v = "uncovered" -> \E e \in Model(s) : e.class # "covered"}

StrictPass(s, complete) ==
    /\ s.strict /\ complete /\ Timed(s)
    /\ \A e \in Model(s) : e.class = "covered"
    /\ s.violations = {}

\* A second call returns or raises what the first one did.
Finalize(a, complete) ==
    /\ aud[a].phase = "open" /\ ~aud[a].finalized
    /\ LET s == [aud[a] EXCEPT !.violations =
                    @ \cup Discrepancies(aud[a], complete)] IN
       Publish(a, s, [s EXCEPT !.finalized = TRUE],
               Content(a, s, TRUE, complete, StrictPass(s, complete)))
    /\ UNCHANGED <<owner, removals>>

\* The operator moves the report away.
RemoveReport ==
    /\ report # NoReport /\ removals < MaxRemovals
    /\ removals' = removals + 1
    /\ report' = NoReport
    /\ UNCHANGED <<aud, owner, faults>>

-----------------------------------------------------------------------------
Next ==
    \/ \E a \in Auditors :
         \/ \E strict \in BOOLEAN, m \in Manifests : Open(a, strict, m)
         \/ \E e \in Events : Record(a, e)
         \/ \E complete \in BOOLEAN : Finalize(a, complete)
         \/ Close(a)
    \/ RemoveReport

Spec == Init /\ [][Next]_vars

-----------------------------------------------------------------------------
Violations == {"duplicate", "fallback", "misfiled", "incomplete", "manifest",
               "digest", "empty", "untimed", "uncovered"}
Reports ==
    [by: Auditors \cup {Nobody}, events: SUBSET Events,
     violations: SUBSET Violations, manifest: SUBSET Events, strict: BOOLEAN,
     finalized: BOOLEAN, complete: BOOLEAN, passed: BOOLEAN]

AuditorStates ==
    [phase: {"new", "open", "closed"}, strict: BOOLEAN,
     manifest: SUBSET Events, sound: BOOLEAN, events: SUBSET Events,
     violations: SUBSET Violations, poisoned: BOOLEAN, finalized: BOOLEAN,
     last: Reports]

\* The types of the auditors and of the report.
TypeOK ==
    /\ aud \in [Auditors -> AuditorStates]
    /\ owner \in Auditors \cup {Nobody}
    /\ report \in Reports
    /\ faults \in Nat /\ removals \in Nat

\* A report that says the strict policy passed is about exactly the trace of
\* its manifest, in full, with every model-forward activity covered and timed,
\* and nothing was rejected on the way: also after duplicates, failed writes
\* and earlier failed finalizations.
PassedIsEarned ==
    report.passed =>
        /\ report.finalized /\ report.complete /\ report.strict
        /\ report.violations = {}
        /\ report.events = report.manifest
        /\ \A e \in report.events : e.class \in {"covered", "excluded"}
        /\ \E e \in report.events : e.class = "covered" /\ e.ns > 0

\* "Single-owner durable reports" (DECISIONS.md): a report that was finalized
\* is never replaced, by its own auditor or by another, even when the failed
\* write left its owner without knowing that it had been published.
FinalReportImmutable ==
    [][report.finalized => report' \in {report, NoReport}]_vars

\* "Latched violations" (DECISIONS.md): no report that a poisoned auditor
\* knows it has published says that the policy passed.
PoisonNeverPasses ==
    \A a \in Auditors :
        aud[a].poisoned /\ aud[a].last = report => ~report.passed

\* How far a report has come.
Stage(r) ==
    IF r = NoReport THEN "absent" ELSE IF ~r.finalized THEN "draft"
    ELSE IF r.passed THEN "passed" ELSE "final"

\* "Single-owner durable reports" and "latched violations" together: whatever
\* fails, is repeated or is moved away, the auditors of a path work on it as
\* OwnedReport says.
Ownership == INSTANCE OwnedReport WITH
    holder <- owner, author <- report.by, stage <- Stage(report),
    events <- report.events, violations <- report.violations
ImplementsOwnedReport == Ownership!Spec
=============================================================================
