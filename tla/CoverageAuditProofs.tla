------------------------ MODULE CoverageAuditProofs ------------------------
(***************************************************************************)
(* Proofs about CoverageAudit, for every set of auditors, activities and   *)
(* manifests and any number of failing writes.                             *)
(***************************************************************************)
EXTENDS CoverageAudit, TLAPS

\* What an auditor remembers agrees with what it has published.
AuditorOK(a) ==
    /\ aud[a].last.by \in {a, Nobody}
    /\ aud[a].last.finalized => aud[a].finalized
    /\ aud[a].last.passed => aud[a].finalized /\ ~aud[a].poisoned
    /\ aud[a].poisoned => aud[a].violations # {}
    /\ \A e \in aud[a].events : e.class = "misfiled" => aud[a].violations # {}

\* A final report differs from what any auditor that may still write remembers.
FinalIsRemembered ==
    report.finalized =>
        \A a \in Auditors : aud[a].last = report => aud[a].finalized

IInv ==
    /\ TypeOK
    /\ \A a \in Auditors : AuditorOK(a)
    /\ FinalIsRemembered
    /\ PassedIsEarned

-----------------------------------------------------------------------------
\* The record an empty path stands for is a report (nothing was passed).
LEMMA NoReportTyped == NoReport \in Reports
  BY DEF NoReport, Reports

\* A fresh or closed auditor has published and rejected nothing.
LEMMA NewAuditorTyped ==
  ASSUME TypeOK, NEW a \in Auditors
  PROVE  NewAuditor \in AuditorStates
  BY NoReportTyped DEF NewAuditor, AuditorStates

\* Before any auditor exists the path is empty.
LEMMA InitInv == Init => IInv
<1> SUFFICES ASSUME Init PROVE IInv
  OBVIOUS
<1>1. TypeOK
  BY NoReportTyped DEF Init, TypeOK, NewAuditor, AuditorStates
<1>2. \A a \in Auditors : AuditorOK(a)
  BY DEF Init, AuditorOK, NewAuditor, NoReport
<1>3. FinalIsRemembered /\ PassedIsEarned
  BY DEF Init, FinalIsRemembered, PassedIsEarned, NoReport
<1> QED
  BY <1>1, <1>2, <1>3 DEF IInv

\* What _publish does to the invariant, whether it returns, refuses or raises:
\* s and done are the auditor's state before and after, content the new report.
LEMMA PublishKeeps ==
  ASSUME IInv, NEW a \in Auditors, NEW s, NEW done, NEW content,
         Publish(a, s, done, content), UNCHANGED <<owner, removals>>,
         s \in AuditorStates,
         done = [s EXCEPT !.finalized = content.finalized],
         ~aud[a].finalized, ~s.finalized, s.last = aud[a].last,
         content \in Reports, content.by = a,
         content.passed =>
            /\ content.finalized /\ content.complete /\ content.strict
            /\ content.violations = {} /\ s.violations = {}
            /\ content.events = content.manifest
            /\ \A e \in content.events : e.class \in {"covered", "excluded"}
            /\ \E e \in content.events : e.class = "covered" /\ e.ns > 0,
         s.poisoned => s.violations # {},
         \A e \in s.events : e.class = "misfiled" => s.violations # {}
  PROVE  IInv' /\ (report.finalized => report' \in {report, NoReport})
<1> USE DEF IInv
<1>1. ~aud[a].last.finalized /\ ~aud[a].last.passed
  BY DEF AuditorOK
<1>2. Owned(a) => ~report.finalized
  BY <1>1 DEF Owned
<1>3. report.finalized => report' = report
  BY <1>2 DEF Publish
<1>4. report' \in {report, content} /\ report' \in Reports
  BY DEF Publish, TypeOK
<1>5. \E t : /\ aud' = [aud EXCEPT ![a] = t]
             /\ \/ t = s
                \/ t = [done EXCEPT !.last = content] /\ report' = content
  BY DEF Publish
<1> PICK t : /\ aud' = [aud EXCEPT ![a] = t]
             /\ \/ t = s
                \/ t = [done EXCEPT !.last = content] /\ report' = content
  BY <1>5
<1>6. t.last \in Reports /\ t.events = s.events /\ t.violations = s.violations
      /\ t.poisoned = s.poisoned
  BY DEF TypeOK, AuditorStates
<1>7. TypeOK'
  <2>1. t \in AuditorStates
    BY DEF Reports, AuditorStates
  <2>2. faults' \in Nat
    BY DEF TypeOK, Publish
  <2> QED
    BY <2>1, <2>2, <1>4 DEF TypeOK
<1>8. aud'[a] = t /\ \A b \in Auditors \ {a} : aud'[b] = aud[b]
  BY DEF TypeOK
<1>9. ASSUME NEW b \in Auditors PROVE AuditorOK(b)'
  <2>1. CASE b # a
    BY <2>1, <1>8 DEF AuditorOK
  <2>2. CASE b = a /\ t = s
    BY <2>2, <1>8, <1>1 DEF AuditorOK
  <2>3. CASE b = a /\ t = [done EXCEPT !.last = content]
    BY <2>3, <1>8 DEF AuditorOK, TypeOK
  <2> QED
    BY <2>1, <2>2, <2>3
<1>10. FinalIsRemembered'
  <2> SUFFICES ASSUME report'.finalized, NEW b \in Auditors, aud'[b].last = report'
               PROVE  aud'[b].finalized
    BY DEF FinalIsRemembered
  <2>1. CASE b = a /\ t = s
    BY <2>1, <1>8, <1>1
  <2>2. CASE b = a /\ t = [done EXCEPT !.last = content]
    <3>1. t.finalized = content.finalized /\ t.last = content
      BY <2>2
    <3> QED
      BY <3>1, <2>2, <1>8
  <2>3. CASE b # a
    <3>1. aud'[b].last = aud[b].last /\ aud[b].last.by \in {b, Nobody}
      BY <2>3, <1>8 DEF AuditorOK
    <3>2. report' # content
      BY <3>1, <2>3, AuditAssumption
    <3>3. report' = report
      BY <3>2, <1>4
    <3> QED
      BY <3>1, <3>3, <1>8, <2>3 DEF FinalIsRemembered
  <2> QED
    BY <2>1, <2>2, <2>3
<1>11. PassedIsEarned'
  BY <1>4 DEF PassedIsEarned
<1> QED
  BY <1>3, <1>7, <1>9, <1>10, <1>11

\* Opening a path that is free and empty, and closing, which forgets.
LEMMA FreshKeeps ==
  ASSUME IInv, NEW a \in Auditors, NEW fresh,
         aud' = [aud EXCEPT ![a] = fresh], UNCHANGED <<report, faults, removals>>,
         owner' \in {a, Nobody},
         fresh \in AuditorStates,
         fresh.last = NoReport, ~fresh.poisoned, fresh.events = {}
  PROVE  IInv'
<1> USE DEF IInv
<1>1. TypeOK'
  BY DEF TypeOK
<1>2. aud'[a] = fresh /\ \A b \in Auditors \ {a} : aud'[b] = aud[b]
  BY DEF TypeOK
<1>3. ASSUME NEW b \in Auditors PROVE AuditorOK(b)'
  BY <1>2 DEF AuditorOK, NoReport
<1>4. FinalIsRemembered'
  BY <1>2 DEF FinalIsRemembered, NoReport
<1>5. PassedIsEarned'
  BY DEF PassedIsEarned
<1> QED
  BY <1>1, <1>3, <1>4, <1>5

\* record() keeps the invariant and never touches a final report.
LEMMA RecordKeeps ==
  ASSUME IInv, NEW a \in Auditors, NEW e \in Events, Record(a, e)
  PROVE  IInv' /\ (report.finalized => report' \in {report, NoReport})
<1> DEFINE s == Recorded(aud[a], e)
           content == Content(a, s, FALSE, FALSE, FALSE)
<1>1. aud[a] \in AuditorStates
  BY DEF IInv, TypeOK
<1>2. Rejections(aud[a], e) \subseteq Violations
  BY DEF Rejections, Violations
<1>3. s \in AuditorStates
  BY <1>1, <1>2 DEF Recorded, AuditorStates
<1>4. /\ s.finalized = aud[a].finalized /\ s.last = aud[a].last
      /\ s.violations = aud[a].violations \cup Rejections(aud[a], e)
      /\ s.events = IF Duplicate(aud[a], e) THEN aud[a].events ELSE aud[a].events \cup {e}
      /\ s.poisoned = (aud[a].poisoned \/ (aud[a].strict /\ Rejections(aud[a], e) # {}))
  BY <1>1 DEF Recorded
<1>5. ~aud[a].finalized
  BY DEF Record, CanRecord
<1>6. s.poisoned => s.violations # {}
  BY <1>4 DEF IInv, AuditorOK
<1>7. \A f \in s.events : f.class = "misfiled" => s.violations # {}
  <2> SUFFICES ASSUME NEW f \in s.events, f.class = "misfiled" PROVE s.violations # {}
    OBVIOUS
  <2>1. CASE f \in aud[a].events
    BY <2>1, <1>4 DEF IInv, AuditorOK
  <2>2. CASE f \notin aud[a].events
    <3>1. f = e /\ ~Duplicate(aud[a], e)
      BY <2>2, <1>4
    <3>2. "misfiled" \in Rejections(aud[a], e)
      BY <3>1 DEF Rejections
    <3> QED
      BY <3>2, <1>4
  <2> QED
    BY <2>1, <2>2
<1>8. CASE s.poisoned
  <2>1. Publish(a, s, s, content) /\ UNCHANGED <<owner, removals>>
    BY <1>8 DEF Record
  <2>2. content \in Reports /\ content.by = a /\ content.finalized = FALSE /\ ~content.passed
    BY <1>3 DEF Content, Reports, AuditorStates
  <2>3. s.finalized = FALSE
    BY <1>3, <1>4, <1>5 DEF AuditorStates
  <2>4. s = [s EXCEPT !.finalized = content.finalized]
    BY <1>3, <2>2, <2>3 DEF AuditorStates
  <2> HIDE DEF s, content
  <2> QED
    BY <1>3, <1>4, <1>5, <1>6, <1>7, <2>1, <2>2, <2>4, PublishKeeps
<1>9. CASE ~s.poisoned
  <2>1. aud' = [aud EXCEPT ![a] = s] /\ UNCHANGED <<report, faults, owner, removals>>
    BY <1>9 DEF Record
  <2> HIDE DEF s
  <2>2. aud'[a] = s /\ \A b \in Auditors \ {a} : aud'[b] = aud[b]
    BY <2>1 DEF IInv, TypeOK
  <2>3. TypeOK'
    BY <2>1, <1>3 DEF IInv, TypeOK
  <2>4. ASSUME NEW b \in Auditors PROVE AuditorOK(b)'
    <3>1. CASE b = a
      BY <3>1, <2>2, <1>4, <1>5, <1>6, <1>7 DEF IInv, AuditorOK
    <3>2. CASE b # a
      BY <3>2, <2>2 DEF IInv, AuditorOK
    <3> QED
      BY <3>1, <3>2
  <2>5. FinalIsRemembered'
    BY <2>1, <2>2, <1>4 DEF IInv, FinalIsRemembered
  <2>6. PassedIsEarned'
    BY <2>1 DEF IInv, PassedIsEarned
  <2> QED
    BY <2>1, <2>3, <2>4, <2>5, <2>6 DEF IInv
<1> QED
  BY <1>8, <1>9

\* The pass that finalize() computes is one that PassedIsEarned asks for.
LEMMA StrictPassIsEarned ==
  ASSUME IInv, NEW a \in Auditors, NEW complete \in BOOLEAN, NEW s,
         s.events = aud[a].events, s.manifest = aud[a].manifest,
         s.violations = aud[a].violations \cup Discrepancies(aud[a], complete),
         StrictPass(s, complete)
  PROVE  /\ complete /\ s.strict /\ s.violations = {}
         /\ s.events = s.manifest
         /\ \A e \in s.events : e.class \in {"covered", "excluded"}
         /\ \E e \in s.events : e.class = "covered" /\ e.ns > 0
<1>1. complete /\ s.strict /\ s.violations = {}
  BY DEF StrictPass
<1>2. "digest" \notin Discrepancies(aud[a], complete)
  BY <1>1
<1>3. s.events = s.manifest
  BY <1>2 DEF Discrepancies
<1>4. ASSUME NEW e \in s.events PROVE e.class \in {"covered", "excluded"}
  <2>1. e \in Events
    BY DEF IInv, TypeOK, AuditorStates
  <2>2. e.class # "misfiled"
    BY <1>1 DEF IInv, AuditorOK
  <2>3. e.class # "fallback"
    BY DEF StrictPass, Model
  <2> QED
    BY <2>1, <2>2, <2>3, AuditAssumption DEF Classes
<1>5. \E e \in s.events : e.class = "covered" /\ e.ns > 0
  BY DEF StrictPass, Timed, Model
<1> QED
  BY <1>1, <1>3, <1>4, <1>5

\* finalize() keeps the invariant and never replaces a final report.
LEMMA FinalizeKeeps ==
  ASSUME IInv, NEW a \in Auditors, NEW complete \in BOOLEAN, Finalize(a, complete)
  PROVE  IInv' /\ (report.finalized => report' \in {report, NoReport})
<1> DEFINE s == [aud[a] EXCEPT !.violations = @ \cup Discrepancies(aud[a], complete)]
           done == [s EXCEPT !.finalized = TRUE]
           content == Content(a, s, TRUE, complete, StrictPass(s, complete))
<1>1. aud[a] \in AuditorStates
  BY DEF IInv, TypeOK
<1>2. Discrepancies(aud[a], complete) \subseteq Violations
  BY DEF Discrepancies, Violations
<1>3. s \in AuditorStates
  BY <1>1, <1>2 DEF AuditorStates
<1>4. /\ s.finalized = aud[a].finalized /\ s.last = aud[a].last
      /\ s.events = aud[a].events /\ s.manifest = aud[a].manifest
      /\ s.poisoned = aud[a].poisoned
      /\ s.violations = aud[a].violations \cup Discrepancies(aud[a], complete)
  BY <1>1
<1>5. ~aud[a].finalized /\ Publish(a, s, done, content) /\ UNCHANGED <<owner, removals>>
  BY DEF Finalize
<1>6. StrictPass(s, complete) \in BOOLEAN
  BY DEF StrictPass
<1>7. /\ content \in Reports /\ content.by = a /\ content.finalized
      /\ content.complete = complete /\ content.strict = s.strict
      /\ content.violations = s.violations /\ content.events = s.events
      /\ content.manifest = s.manifest /\ content.passed = StrictPass(s, complete)
  BY <1>3, <1>6 DEF Content, Reports, AuditorStates
<1>8. done = [s EXCEPT !.finalized = content.finalized]
  BY <1>7
<1>9. s.poisoned => s.violations # {}
  BY <1>4 DEF IInv, AuditorOK
<1>10. \A e \in s.events : e.class = "misfiled" => s.violations # {}
  BY <1>4 DEF IInv, AuditorOK
<1> HIDE DEF s, done, content
<1>11. content.passed =>
         /\ content.finalized /\ content.complete /\ content.strict
         /\ content.violations = {} /\ s.violations = {}
         /\ content.events = content.manifest
         /\ \A e \in content.events : e.class \in {"covered", "excluded"}
         /\ \E e \in content.events : e.class = "covered" /\ e.ns > 0
  BY <1>4, <1>7, StrictPassIsEarned
<1> QED
  BY <1>3, <1>4, <1>5, <1>7, <1>8, <1>9, <1>10, <1>11, PublishKeeps

\* Moving the report away leaves every auditor that wrote one refused.
LEMMA RemoveKeeps ==
  ASSUME IInv, RemoveReport
  PROVE  IInv'
<1>1. TypeOK'
  BY NoReportTyped DEF IInv, TypeOK, RemoveReport
<1>2. \A a \in Auditors : AuditorOK(a)'
  BY DEF IInv, AuditorOK, RemoveReport
<1>3. FinalIsRemembered' /\ PassedIsEarned'
  BY DEF RemoveReport, FinalIsRemembered, PassedIsEarned, NoReport
<1> QED
  BY <1>1, <1>2, <1>3 DEF IInv

\* Every step, of any auditor in any process, keeps the invariant and leaves a
\* final report where it is or moves it away.
LEMMA Steps ==
  ASSUME IInv, [Next]_vars
  PROVE  IInv' /\ (report.finalized => report' \in {report, NoReport})
<1>1. ASSUME NEW a \in Auditors, NEW strict \in BOOLEAN, NEW m \in Manifests,
             Open(a, strict, m)
      PROVE  IInv' /\ report' = report
  <2> DEFINE fresh == [NewAuditor EXCEPT !.phase = "open", !.strict = strict,
                          !.manifest = m.events, !.sound = m.sound]
  <2>1. m.events \in SUBSET Events /\ m.sound \in BOOLEAN
    BY AuditAssumption
  <2>2. fresh \in AuditorStates
    BY <2>1, NoReportTyped DEF NewAuditor, AuditorStates
  <2>3. fresh.last = NoReport /\ ~fresh.poisoned /\ fresh.events = {}
    BY DEF NewAuditor
  <2>4. /\ aud' = [aud EXCEPT ![a] = fresh] /\ owner' \in {a, Nobody}
        /\ UNCHANGED <<report, faults, removals>>
    BY <1>1 DEF Open
  <2> HIDE DEF fresh
  <2> QED
    BY <2>2, <2>3, <2>4, FreshKeeps
<1>2. ASSUME NEW a \in Auditors, Close(a) PROVE IInv' /\ report' = report
  <2> DEFINE fresh == [NewAuditor EXCEPT !.phase = "closed"]
  <2>1. fresh \in AuditorStates
    BY NoReportTyped DEF NewAuditor, AuditorStates
  <2>2. fresh.last = NoReport /\ ~fresh.poisoned /\ fresh.events = {}
    BY DEF NewAuditor
  <2>3. /\ aud' = [aud EXCEPT ![a] = fresh] /\ owner' \in {a, Nobody}
        /\ UNCHANGED <<report, faults, removals>>
    BY <1>2 DEF Close
  <2> HIDE DEF fresh
  <2> QED
    BY <2>1, <2>2, <2>3, FreshKeeps
<1>3. CASE UNCHANGED vars
  BY <1>3 DEF IInv, vars, TypeOK, AuditorOK, FinalIsRemembered, PassedIsEarned
<1>4. CASE RemoveReport
  BY <1>4, RemoveKeeps DEF RemoveReport
<1> QED
  BY <1>1, <1>2, <1>3, <1>4, RecordKeeps, FinalizeKeeps DEF Next

\* The inductive invariant holds in every reachable state.
THEOREM Invariance == Spec => []IInv
<1>1. IInv /\ [Next]_vars => IInv'
  BY Steps
<1> QED
  BY InitInv, <1>1, PTL DEF Spec

\* The auditors and the report keep their types.
THEOREM AuditTypeCorrect == Spec => []TypeOK
<1>1. IInv => TypeOK
  BY DEF IInv
<1> QED
  BY Invariance, <1>1, PTL

\* A report that says the strict policy passed covers exactly the trace of its
\* manifest and nothing else, after any duplicates and failed writes.
THEOREM PassIsEarned == Spec => []PassedIsEarned
<1>1. IInv => PassedIsEarned
  BY DEF IInv
<1> QED
  BY Invariance, <1>1, PTL

\* What an auditor has rejected once cannot be talked away by finalizing later.
THEOREM PoisonIsLatched == Spec => []PoisonNeverPasses
<1>1. IInv => PoisonNeverPasses
  BY DEF IInv, AuditorOK, PoisonNeverPasses
<1> QED
  BY Invariance, <1>1, PTL

\* A finalized report is only ever moved away, never replaced.
THEOREM FinalReportIsKept == Spec => FinalReportImmutable
<1>1. IInv /\ [Next]_vars =>
        [report.finalized => report' \in {report, NoReport}]_vars
  BY Steps
<1> QED
  BY Invariance, <1>1, PTL DEF Spec, FinalReportImmutable

-----------------------------------------------------------------------------
(* The refinement of OwnedReport.  Beyond IInv it needs who holds the path, *)
(* that an auditor has seen at least what it has published, and that a      *)
(* draft was published by an auditor that is poisoned for something it says.*)

HolderOK(a) == aud[a].phase = "open" <=> owner = a

RememberedOK(a) ==
    /\ aud[a].last.events \subseteq aud[a].events
    /\ aud[a].last.violations \subseteq aud[a].violations
    /\ aud[a].last # NoReport /\ ~aud[a].last.finalized => aud[a].poisoned

ReportOK ==
    report # NoReport =>
        /\ report.by \in Auditors
        /\ ~report.finalized => report.violations # {}

OwnershipInv ==
    IInv /\ ReportOK /\ \A a \in Auditors : HolderOK(a) /\ RememberedOK(a)

\* At the start the path is free and empty.
LEMMA InitOwnership == Init => OwnershipInv
<1> SUFFICES ASSUME Init PROVE OwnershipInv
  OBVIOUS
<1>1. IInv /\ ReportOK
  BY InitInv DEF Init, ReportOK
<1>2. ASSUME NEW a \in Auditors PROVE HolderOK(a) /\ RememberedOK(a)
  <2>1. aud[a] = NewAuditor /\ owner # a
    BY AuditAssumption DEF Init
  <2> QED
    BY <2>1 DEF HolderOK, RememberedOK, NewAuditor, NoReport
<1> QED
  BY <1>1, <1>2 DEF OwnershipInv

\* _publish, whether it returns, refuses or raises before or after the report
\* is replaced, is a publication of the holder or does not show.
LEMMA PublishOwned ==
  ASSUME OwnershipInv, IInv', NEW a \in Auditors, NEW s, NEW done, NEW content,
         Publish(a, s, done, content), UNCHANGED <<owner, removals>>,
         aud[a].phase = "open", ~aud[a].finalized, s \in AuditorStates,
         s.phase = "open", s.last = aud[a].last,
         aud[a].events \subseteq s.events, aud[a].violations \subseteq s.violations,
         aud[a].poisoned => s.poisoned,
         done = [s EXCEPT !.finalized = content.finalized],
         content \in Reports, content.by = a,
         content.events = s.events, content.violations = s.violations,
         content.passed => content.finalized /\ content.violations = {},
         ~content.finalized =>
            /\ content.violations # {}
            /\ s.poisoned /\ ~aud[a].poisoned
  PROVE  OwnershipInv' /\ [Ownership!Next]_(Ownership!vars)
<1>1. content # NoReport
  BY AuditAssumption DEF NoReport
<1>2. PICK t : /\ aud' = [aud EXCEPT ![a] = t]
               /\ \/ t = s
                  \/ t = [done EXCEPT !.last = content] /\ report' = content
  BY DEF Publish
<1>3. /\ t.phase = "open" /\ t.events = s.events /\ t.violations = s.violations
      /\ t.poisoned = s.poisoned /\ t.last \in {aud[a].last, content}
  BY <1>2 DEF AuditorStates
<1>4. aud'[a] = t /\ \A b \in Auditors \ {a} : aud'[b] = aud[b]
  BY <1>2 DEF OwnershipInv, IInv, TypeOK
<1>5. report' \in {report, content}
  BY DEF Publish
<1>6. ReportOK'
  BY <1>5, <1>1 DEF OwnershipInv, ReportOK
<1>7. ASSUME NEW b \in Auditors PROVE HolderOK(b)' /\ RememberedOK(b)'
  <2>1. CASE b = a
    BY <2>1, <1>3, <1>4 DEF OwnershipInv, HolderOK, RememberedOK
  <2>2. CASE b # a
    BY <2>2, <1>4 DEF OwnershipInv, HolderOK, RememberedOK
  <2> QED
    BY <2>1, <2>2
<1>8. [Ownership!Next]_(Ownership!vars)
  <2>1. CASE report' = report
    BY <2>1 DEF Ownership!vars
  <2>2. CASE report' = content /\ Owned(a)
    <3>1. owner = a
      BY DEF OwnershipInv, HolderOK
    <3>2. report.events \subseteq content.events /\ report.violations \subseteq content.violations
      BY <2>2 DEF Owned, OwnershipInv, RememberedOK
    <3>3. CASE report = NoReport
      <4>1. Stage(report) = "absent" /\ Stage(report)' \in {"draft", "final", "passed"}
        BY <1>1, <2>2, <3>3 DEF Stage
      <4>2. /\ Stage(report)' = "draft" => report'.violations # {}
            /\ Stage(report)' = "passed" => report'.violations = {}
        BY <1>1, <2>2 DEF Stage
      <4>3. Ownership!Publish(a)
        BY <2>2, <3>1, <3>2, <4>1, <4>2 DEF Ownership!Publish
      <4> QED
        BY <4>3 DEF Ownership!Next
    <3>4. CASE report # NoReport /\ ~report.finalized
      <4>1. aud[a].poisoned /\ report.by = a
        BY <2>2, <3>4, AuditAssumption
        DEF Owned, OwnershipInv, RememberedOK, ReportOK, IInv, AuditorOK
      <4>2. content.finalized /\ content.violations # {} /\ ~content.passed
        BY <4>1, <3>2, <3>4 DEF OwnershipInv, ReportOK
      <4>3. Stage(report) = "draft" /\ Stage(report)' = "final"
        BY <1>1, <2>2, <3>4, <4>2 DEF Stage
      <4>4. Ownership!Publish(a)
        BY <2>2, <3>1, <3>2, <4>1, <4>3 DEF Ownership!Publish
      <4> QED
        BY <4>4 DEF Ownership!Next
    <3>5. CASE report.finalized
      <4>1. aud[a].finalized
        BY <2>2, <3>5 DEF Owned, OwnershipInv, IInv, FinalIsRemembered
      <4> QED
        BY <4>1
    <3> QED
      BY <3>3, <3>4, <3>5 DEF NoReport
  <2> QED
    BY <1>5, <2>1, <2>2 DEF Publish
<1> QED
  BY <1>6, <1>7, <1>8 DEF OwnershipInv

\* record() publishes only what poisons the auditor.
LEMMA RecordOwned ==
  ASSUME OwnershipInv, IInv', NEW a \in Auditors, NEW e \in Events, Record(a, e)
  PROVE  OwnershipInv' /\ [Ownership!Next]_(Ownership!vars)
<1> DEFINE s == Recorded(aud[a], e)
           content == Content(a, s, FALSE, FALSE, FALSE)
<1>1. aud[a] \in AuditorStates /\ Rejections(aud[a], e) \subseteq Violations
  BY DEF OwnershipInv, IInv, TypeOK, Rejections, Violations
<1>2. s \in AuditorStates
  BY <1>1 DEF Recorded, AuditorStates
<1>3. /\ s.phase = aud[a].phase /\ s.last = aud[a].last
      /\ s.finalized = aud[a].finalized
      /\ aud[a].events \subseteq s.events /\ aud[a].violations \subseteq s.violations
      /\ s.poisoned = (aud[a].poisoned \/ (aud[a].strict /\ Rejections(aud[a], e) # {}))
      /\ Rejections(aud[a], e) \subseteq s.violations
  BY <1>1 DEF Recorded, AuditorStates
<1>4. aud[a].phase = "open" /\ ~aud[a].finalized /\ ~aud[a].poisoned
  BY DEF Record, CanRecord
<1>5. CASE s.poisoned
  <2>1. Publish(a, s, s, content) /\ UNCHANGED <<owner, removals>>
    BY <1>5 DEF Record
  <2>2. /\ content \in Reports /\ content.by = a /\ content.finalized = FALSE
        /\ content.passed = FALSE
        /\ content.events = s.events /\ content.violations = s.violations
    BY <1>2 DEF Content, Reports, AuditorStates
  <2>3. s.finalized = FALSE
    BY <1>2, <1>3, <1>4 DEF AuditorStates
  <2>4. s = [s EXCEPT !.finalized = content.finalized]
    BY <1>2, <2>2, <2>3 DEF AuditorStates
  <2>5. s.violations # {}
    BY <1>3, <1>4, <1>5
  <2> HIDE DEF s, content
  <2> QED
    BY <1>2, <1>3, <1>4, <1>5, <2>1, <2>2, <2>4, <2>5, PublishOwned
<1>6. CASE ~s.poisoned
  <2>1. aud' = [aud EXCEPT ![a] = s] /\ UNCHANGED <<report, faults, owner, removals>>
    BY <1>6 DEF Record
  <2> HIDE DEF s
  <2>2. aud'[a] = s /\ \A b \in Auditors \ {a} : aud'[b] = aud[b]
    BY <2>1 DEF OwnershipInv, IInv, TypeOK
  <2>3. ASSUME NEW b \in Auditors PROVE HolderOK(b)' /\ RememberedOK(b)'
    <3>1. CASE b = a
      BY <3>1, <1>3, <1>4, <2>1, <2>2 DEF OwnershipInv, HolderOK, RememberedOK
    <3>2. CASE b # a
      BY <3>2, <2>1, <2>2 DEF OwnershipInv, HolderOK, RememberedOK
    <3> QED
      BY <3>1, <3>2
  <2> QED
    BY <2>1, <2>3 DEF OwnershipInv, ReportOK, Ownership!vars
<1> QED
  BY <1>5, <1>6

\* finalize() completes the auditor's own draft, or writes on an empty path.
LEMMA FinalizeOwned ==
  ASSUME OwnershipInv, IInv', NEW a \in Auditors, NEW complete \in BOOLEAN,
         Finalize(a, complete)
  PROVE  OwnershipInv' /\ [Ownership!Next]_(Ownership!vars)
<1> DEFINE s == [aud[a] EXCEPT !.violations = @ \cup Discrepancies(aud[a], complete)]
           done == [s EXCEPT !.finalized = TRUE]
           content == Content(a, s, TRUE, complete, StrictPass(s, complete))
<1>1. aud[a] \in AuditorStates /\ Discrepancies(aud[a], complete) \subseteq Violations
  BY DEF OwnershipInv, IInv, TypeOK, Discrepancies, Violations
<1>2. s \in AuditorStates
  BY <1>1 DEF AuditorStates
<1>3. /\ s.phase = aud[a].phase /\ s.last = aud[a].last /\ s.events = aud[a].events
      /\ aud[a].violations \subseteq s.violations /\ s.poisoned = aud[a].poisoned
  BY <1>1 DEF AuditorStates
<1>4. /\ aud[a].phase = "open" /\ ~aud[a].finalized
      /\ Publish(a, s, done, content) /\ UNCHANGED <<owner, removals>>
  BY DEF Finalize
<1>5. StrictPass(s, complete) \in BOOLEAN /\ (StrictPass(s, complete) => s.violations = {})
  BY DEF StrictPass
<1>6. /\ content \in Reports /\ content.by = a /\ content.finalized = TRUE
      /\ content.events = s.events /\ content.violations = s.violations
      /\ content.passed = StrictPass(s, complete)
  BY <1>2, <1>5 DEF Content, Reports, AuditorStates
<1>7. done = [s EXCEPT !.finalized = content.finalized]
  BY <1>6
<1> HIDE DEF s, done, content
<1> QED
  BY <1>2, <1>3, <1>4, <1>5, <1>6, <1>7, PublishOwned

\* Taking a path, giving it up, and moving the report away.
LEMMA OtherOwned ==
  ASSUME OwnershipInv, IInv', [Next]_vars,
         \/ \E a \in Auditors :
              \/ \E strict \in BOOLEAN, m \in Manifests : Open(a, strict, m)
              \/ Close(a)
         \/ RemoveReport
         \/ UNCHANGED vars
  PROVE  OwnershipInv' /\ [Ownership!Next]_(Ownership!vars)
<1>1. ASSUME NEW a \in Auditors, NEW strict \in BOOLEAN, NEW m \in Manifests,
             Open(a, strict, m)
      PROVE  OwnershipInv' /\ Ownership!Acquire(a)
  <2>1. /\ aud[a].phase = "new" /\ owner = Nobody /\ owner' = a
        /\ report = NoReport /\ report' = report
    BY <1>1 DEF Open
  <2>2. /\ aud'[a].phase = "open" /\ aud'[a].last = NoReport
        /\ \A b \in Auditors \ {a} : aud'[b] = aud[b]
    BY <1>1 DEF Open, NewAuditor, OwnershipInv, IInv, TypeOK
  <2>3. ASSUME NEW b \in Auditors PROVE HolderOK(b)' /\ RememberedOK(b)'
    <3>1. CASE b = a
      BY <3>1, <2>1, <2>2 DEF HolderOK, RememberedOK, NoReport
    <3>2. CASE b # a
      BY <3>2, <2>1, <2>2, AuditAssumption DEF OwnershipInv, HolderOK, RememberedOK
    <3> QED
      BY <3>1, <3>2
  <2>4. Ownership!Acquire(a)
    BY <2>1 DEF Ownership!Acquire, Stage
  <2> QED
    BY <2>1, <2>3, <2>4 DEF OwnershipInv, ReportOK
<1>2. ASSUME NEW a \in Auditors, Close(a)
      PROVE  OwnershipInv' /\ Ownership!Release
  <2>1. owner = a /\ owner' = Nobody /\ report' = report
    BY <1>2 DEF Close, OwnershipInv, HolderOK
  <2>2. /\ aud'[a].phase = "closed" /\ aud'[a].last = NoReport
        /\ \A b \in Auditors \ {a} : aud'[b] = aud[b]
    BY <1>2 DEF Close, NewAuditor, OwnershipInv, IInv, TypeOK
  <2>3. ASSUME NEW b \in Auditors PROVE HolderOK(b)' /\ RememberedOK(b)'
    <3>1. CASE b = a
      BY <3>1, <2>1, <2>2, AuditAssumption DEF HolderOK, RememberedOK, NoReport
    <3>2. CASE b # a
      BY <3>2, <2>1, <2>2, AuditAssumption DEF OwnershipInv, HolderOK, RememberedOK
    <3> QED
      BY <3>1, <3>2
  <2>4. Ownership!Release
    BY <2>1, AuditAssumption DEF Ownership!Release
  <2> QED
    BY <2>1, <2>3, <2>4 DEF OwnershipInv, ReportOK
<1>3. CASE RemoveReport
  <2>1. OwnershipInv'
    BY <1>3 DEF RemoveReport, OwnershipInv, ReportOK, HolderOK, RememberedOK
  <2>2. Stage(report) # "absent" /\ Stage(report') = "absent"
    BY <1>3 DEF RemoveReport, Stage
  <2>3. Ownership!Remove
    BY <1>3, <2>2 DEF RemoveReport, Ownership!Remove, NoReport
  <2> QED
    BY <2>1, <2>3 DEF Ownership!Next
<1>4. CASE UNCHANGED vars
  BY <1>4 DEF vars, OwnershipInv, ReportOK, HolderOK, RememberedOK, Ownership!vars
<1> QED
  BY <1>1, <1>2, <1>3, <1>4 DEF Ownership!Next

\* coverage.py implements OwnedReport: whatever is recorded, repeated, fails to
\* be written or is moved away, a report has one author at a time, only grows,
\* stays as it is once it is final, and a draft never becomes a strict pass.
THEOREM ReportIsOwned == Spec => ImplementsOwnedReport
<1>1. Init => Ownership!Init
  BY DEF Init, Ownership!Init, NoReport, Stage
<1>2. OwnershipInv /\ [Next]_vars => OwnershipInv' /\ [Ownership!Next]_(Ownership!vars)
  <2> SUFFICES ASSUME OwnershipInv, [Next]_vars
               PROVE  OwnershipInv' /\ [Ownership!Next]_(Ownership!vars)
    OBVIOUS
  <2>1. IInv'
    BY Steps DEF OwnershipInv
  <2> QED
    BY <2>1, RecordOwned, FinalizeOwned, OtherOwned DEF Next
<1>3. Spec => []OwnershipInv
  BY InitOwnership, <1>2, PTL DEF Spec
<1> QED
  BY <1>1, <1>2, <1>3, PTL DEF Spec, Ownership!Spec, ImplementsOwnedReport
=============================================================================
