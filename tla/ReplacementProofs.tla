------------------------- MODULE ReplacementProofs -------------------------
(***************************************************************************)
(* Proofs about the replacement transaction, for every inventory, every    *)
(* set of evidence paths and every number of faults and crashes.           *)
(***************************************************************************)
EXTENDS Replacement, WellFoundedInduction, TLAPS

Recovering == {"recover", "rollback"}
ApplyOnly == (TryBody \ {"viewed"}) \cup {"failing", "report", "reported"}
RecoverOnly == {"nothing", "recheck", "reopen", "attest", "close"}

\* Which command can be where, and what an absent process remembers.
ProcessShape ==
    /\ tx.pc = "idle" <=> tx.cmd = "none"
    /\ tx.pc = "idle" => tx = NoProcess
    /\ tx.pc \in ApplyOnly => tx.cmd = "apply"
    /\ tx.pc \in RecoverOnly => tx.cmd \in Recovering
    /\ tx.pc \in {"recheck", "attest"} => tx.cmd = "recover"
    /\ tx.pc \in {"viewed"} /\ tx.cmd # "apply" => tx.cmd = "recover"

\* Whose bytes a file may hold.
Provenance ==
    /\ \A f \in Files : env[f] = "old" => f \in OldFiles
    /\ \A f \in Files : env[f] \in {"partial", "new"} => f \in NewFiles
    /\ \A f \in unsynced : env[f] \in {"partial", "new"}

Untouched == env = OldEnv /\ temps = {} /\ ~view

\* Nothing is touched before the journal is sealed and the apply says so.
UntouchedBefore ==
    /\ ~journal.sealed => Untouched
    /\ ~journal.sealed => terminal \in {"none", "rolled-back"}
    /\ ~journal.mutated => Untouched
    /\ tx.cmd = "apply" /\ ~tx.mutating => Untouched
    /\ journal = NoJournal => terminal = "none"

Sealed ==
    /\ journal.sealed \/ tx.sealed => manifest
    /\ journal.mutated => journal.sealed
    /\ tx.mutating => tx.cmd = "apply" /\ tx.sealed /\ journal.sealed /\ journal.mutated
    /\ tx.pc \in TryBody \ {"init", "backup", "viewed"} => tx.sealed
    /\ tx.pc \in {"init", "backup"} => ~tx.sealed
    /\ tx.cmd = "apply" /\ tx.pc = "viewed" => tx.sealed
    /\ tx.pc \in {"init", "backup", "seal", "begin", "mutate"} => ~tx.mutating
    /\ tx.pc \in {"begin", "mutate"} => journal.sealed
    /\ tx.pc = "mutate" => journal.mutated
    /\ tx.cmd = "apply" /\ tx.pc \in Restoring => tx.mutating
    /\ tx.pc \in TryBody \ {"init", "backup", "seal", "begin", "mutate", "viewed"}
         => tx.mutating
    /\ tx.cmd = "apply" /\ tx.pc = "viewed" => tx.mutating
    /\ tx.pc = "nothing" => ~journal.sealed
    /\ tx.cmd \in Recovering /\ tx.pc # "nothing" => journal.sealed \/ tx.pc = "close"

\* The terminal evidence as the running command knows it.
TerminalKnown ==
    /\ tx.cmd = "apply" /\ tx.pc \notin {"commit", "failing", "reported"}
         => terminal = "none"
    /\ tx.pc = "commit" => terminal = "committed"
    /\ tx.pc = "failing" => terminal \in {"none", "committed"}
    /\ tx.pc = "reported" => terminal = tx.verdict
    /\ tx.pc \in {"report", "reported"} => tx.verdict # "none"
    /\ tx.pc \in {"report", "reported"} /\ tx.verdict = "rolled-back" => Untouched
    /\ tx.pc \in {"report", "reported"} /\ tx.verdict = "rollback-failed"
         => journal.sealed
    /\ tx.pc \in {"recheck", "attest"} => terminal = "committed"
    /\ tx.cmd = "recover" /\ tx.pc = "viewed" => terminal = "committed"
    /\ tx.cmd = "recover" /\ tx.pc \in Restoring \cup {"reopen"}
         => terminal # "committed"

\* What the apply has verified by the time it decides.
Installed ==
    /\ tx.pc \in {"synced", "installed", "audit", "viewed", "audited", "decide",
                  "publish", "commit"} => unsynced = {}
    /\ tx.pc \in {"viewed", "audited", "decide", "publish", "commit", "attest"}
         => env = NewEnv
    /\ terminal = "committed" => unsynced = {}
    /\ terminal = "committed" /\ tx.pc = "failing" => env = NewEnv
    /\ terminal = "committed" /\ tx.cmd = "apply" => env = NewEnv
    /\ view => tx.pc \notin Restoring \ {"restore"}

\* What a restoration has done so far.
RestorationShape ==
    /\ tx.pc \in Restoring => journal.phase = "rolling-back"
    /\ tx.pc \in Restoring \ {"restore", "uninstall"} => ToUninstall = {}
    /\ tx.pc \in {"uninstall", "refill", "restored"} => temps = {}
    /\ tx.pc = "link" => Missing # {} /\ temps = {NextMissing}
    /\ tx.pc = "unlink" => temps \cap Missing = {}
    /\ tx.pc = "restored" => Untouched
    /\ tx.cmd = "apply" /\ tx.pc \in TryBody \cup {"failing"}
         => journal.phase # "rolled-back"

Closing ==
    tx.pc = "close" =>
        \/ recovered[tx.path] = "no-mutation" /\ ~journal.sealed
        \/ /\ recovered[tx.path] = "committed-verified"
           /\ env = NewEnv /\ journal.sealed /\ terminal = "committed"
        \/ recovered[tx.path] \in Recovering /\ Untouched /\ journal.sealed

PhasesTrue ==
    /\ journal.phase = "committed" => terminal = "committed"
    /\ journal.phase \in {"committing", "committed"} /\ terminal = "committed"
         => env = NewEnv
    /\ terminal = "rolled-back" => env = OldEnv
    /\ journal.phase = "rolled-back" => Untouched

IInv ==
    /\ TypeOK /\ ProcessShape /\ Provenance /\ UntouchedBefore /\ Sealed
    /\ TerminalKnown /\ Installed /\ RestorationShape /\ Closing /\ PhasesTrue

\* The old and the new distribution differ, and both are environments.
LEMMA EnvFacts ==
    /\ OldEnv # NewEnv
    /\ OldEnv \in [Files -> {"absent", "old", "partial", "new"}]
    /\ NewEnv \in [Files -> {"absent", "old", "partial", "new"}]
BY InventoryAssumption DEF OldEnv, NewEnv, Files

\* What is known of the fields of a process.
LEMMA ProcessTypes ==
    ASSUME tx \in Processes
    PROVE  /\ tx.pc \in Pcs /\ tx.cmd \in {"none", "apply", "recover", "rollback"}
           /\ tx.path \in Paths /\ tx.sealed \in BOOLEAN /\ tx.mutating \in BOOLEAN
           /\ tx.verdict \in {"none", "rolled-back", "rollback-failed"}
BY DEF Processes

\* Nothing runs before a command and after it ended or was killed.
LEMMA NoProcessFacts ==
    /\ NoProcess \in Processes
    /\ NoProcess.pc = "idle" /\ NoProcess.cmd = "none"
    /\ NoProcess.path = DefaultPath /\ NoProcess.sealed = FALSE
    /\ NoProcess.mutating = FALSE /\ NoProcess.verdict = "none"
BY InventoryAssumption DEF NoProcess, Processes, Pcs

\* A journal write (_write_journal) leaves a well-formed journal.
LEMMA JournalTyped ==
    ASSUME NEW phase \in Phases, NEW sealed \in BOOLEAN, NEW mutated \in BOOLEAN,
           Journal(phase, sealed, mutated)
    PROVE  journal' \in [phase: Phases, sealed: BOOLEAN, mutated: BOOLEAN]
BY DEF Journal

\* An untouched prefix has nothing to install, remove or sync.
LEMMA OldFacts ==
    ASSUME TypeOK, Provenance, env = OldEnv
    PROVE  Missing = {} /\ ToUninstall = {} /\ unsynced = {}
BY InventoryAssumption DEF TypeOK, Provenance, OldEnv, Missing, ToUninstall,
   Files

\* verify_old_inventory looks only at the old paths: it proves the old
\* environment back once every new path is uninstalled.
LEMMA OldRestored ==
    ASSUME TypeOK, Provenance, OldVerifies, ToUninstall = {}
    PROVE  env = OldEnv
BY InventoryAssumption DEF TypeOK, Provenance, OldVerifies, ToUninstall,
   OldEnv, Files

\* Moving on changes nothing of a process but its place.
LEMMA GotoEffect ==
    ASSUME tx \in Processes, NEW pc \in Pcs, Goto(pc)
    PROVE  /\ tx' \in Processes
           /\ tx'.pc = pc /\ tx'.cmd = tx.cmd /\ tx'.path = tx.path
           /\ tx'.sealed = tx.sealed /\ tx'.mutating = tx.mutating
           /\ tx'.verdict = tx.verdict
BY DEF Goto, Processes

\* apply_replacement starts on an untouched prefix without a transaction.
LEMMA StepStartApply ==
    ASSUME IInv, StartApply
    PROVE  IInv'
<1>1. /\ tx' \in Processes
      /\ tx'.pc = "init" /\ tx'.cmd = "apply" /\ tx'.path = DefaultPath
      /\ tx'.sealed = FALSE /\ tx'.mutating = FALSE /\ tx'.verdict = "none"
  BY NoProcessFacts DEF IInv, TypeOK, StartApply, Processes, NoProcess, Pcs,
     TryBody, Restoring, ExclusiveLock
<1> QED
  BY <1>1 DEF IInv, TypeOK, ProcessShape, Provenance, UntouchedBefore, Sealed,
     TerminalKnown, Installed, RestorationShape, Closing, PhasesTrue,
     Untouched, Recovering, RecoverOnly, Restoring, StartApply, NoJournal,
     disk, records, bounds

\* The first journal says initializing and admits nothing.
LEMMA StepInitializeBackupRoot ==
    ASSUME IInv, InitializeBackupRoot
    PROVE  IInv'
<1>1. /\ tx' \in Processes
      /\ tx'.pc = "backup" /\ tx'.cmd = tx.cmd /\ tx'.path = tx.path
      /\ tx'.sealed = tx.sealed /\ tx'.mutating = tx.mutating /\ tx'.verdict = tx.verdict
  BY GotoEffect DEF IInv, TypeOK, InitializeBackupRoot, Pcs, TryBody, Restoring
<1> QED
  BY <1>1 DEF IInv, TypeOK, ProcessShape, Provenance, UntouchedBefore, Sealed,
     TerminalKnown, Installed, RestorationShape, Closing, PhasesTrue, Untouched, Recovering,
     ApplyOnly, RecoverOnly, TryBody, Restoring, Phases, InitializeBackupRoot, Journal,
     disk, bounds

\* create_backup links its manifest only after every copy.
LEMMA StepCreateBackup ==
    ASSUME IInv, CreateBackup
    PROVE  IInv'
<1>1. /\ tx' \in Processes
      /\ tx'.pc = "seal" /\ tx'.cmd = tx.cmd /\ tx'.path = tx.path
      /\ tx'.sealed = TRUE /\ tx'.mutating = tx.mutating /\ tx'.verdict = tx.verdict
  BY NoProcessFacts DEF IInv, TypeOK, CreateBackup, Processes, NoProcess, Pcs,
     TryBody, Restoring
<1> QED
  BY <1>1 DEF IInv, TypeOK, ProcessShape, Provenance, UntouchedBefore, Sealed,
     TerminalKnown, Installed, RestorationShape, Closing, PhasesTrue,
     Untouched, ApplyOnly, RecoverOnly, TryBody, Restoring, CreateBackup, disk,
     bounds

\* The journal is sealed over the published manifest.
LEMMA StepSealJournal ==
    ASSUME IInv, SealJournal
    PROVE  IInv'
<1>1. /\ tx' \in Processes
      /\ tx'.pc = "begin" /\ tx'.cmd = tx.cmd /\ tx'.path = tx.path
      /\ tx'.sealed = tx.sealed /\ tx'.mutating = tx.mutating /\ tx'.verdict = tx.verdict
  BY GotoEffect DEF IInv, TypeOK, SealJournal, Pcs, TryBody, Restoring
<1> QED
  BY <1>1 DEF IInv, TypeOK, ProcessShape, Provenance, UntouchedBefore, Sealed,
     TerminalKnown, Installed, RestorationShape, Closing, PhasesTrue,
     Untouched, ApplyOnly, RecoverOnly, TryBody, Restoring, Phases,
     SealJournal, Journal, disk, bounds

\* The journal admits the mutation before the first deletion.
LEMMA StepJournalRemoval ==
    ASSUME IInv, JournalRemoval
    PROVE  IInv'
<1>1. /\ tx' \in Processes
      /\ tx'.pc = "mutate" /\ tx'.cmd = tx.cmd /\ tx'.path = tx.path
      /\ tx'.sealed = tx.sealed /\ tx'.mutating = tx.mutating /\ tx'.verdict = tx.verdict
  BY GotoEffect DEF IInv, TypeOK, JournalRemoval, Pcs, TryBody, Restoring
<1> QED
  BY <1>1 DEF IInv, TypeOK, ProcessShape, Provenance, UntouchedBefore, Sealed,
     TerminalKnown, Installed, RestorationShape, Closing, PhasesTrue,
     Untouched, ApplyOnly, RecoverOnly, TryBody, Restoring, Phases,
     JournalRemoval, Journal, disk, bounds

\* mutation_started becomes true when the journal already says so.
LEMMA StepMutationStarted ==
    ASSUME IInv, MutationStarted
    PROVE  IInv'
<1>1. /\ tx' \in Processes
      /\ tx'.pc = "remove" /\ tx'.cmd = tx.cmd /\ tx'.path = tx.path
      /\ tx'.sealed = tx.sealed /\ tx'.mutating = TRUE /\ tx'.verdict = tx.verdict
  BY NoProcessFacts DEF IInv, TypeOK, MutationStarted, Processes, NoProcess,
     Pcs, TryBody, Restoring
<1> QED
  BY <1>1 DEF IInv, TypeOK, ProcessShape, Provenance, UntouchedBefore, Sealed,
     TerminalKnown, Installed, RestorationShape, Closing, PhasesTrue,
     ApplyOnly, RecoverOnly, TryBody, Restoring, MutationStarted, disk,
     records, bounds

\* _remove_old_inventory deletes one old file.
LEMMA StepRemoveOldFile ==
    ASSUME IInv, NEW f \in Files, RemoveOldFile(f)
    PROVE  IInv'
<1> QED
  BY DEF IInv, TypeOK, ProcessShape, Provenance, UntouchedBefore, Sealed, TerminalKnown,
     Installed, RestorationShape, Closing, PhasesTrue, TryBody, Restoring, RemoveOldFile,
     records, bounds, StillOld

\* One member is created, or its bytes are written.
LEMMA StepInstallFile ==
    ASSUME IInv, NEW f \in Files, InstallFile(f)
    PROVE  IInv'
<1> QED
  BY DEF IInv, TypeOK, ProcessShape, Provenance, UntouchedBefore, Sealed, TerminalKnown,
     Installed, RestorationShape, Closing, PhasesTrue, TryBody, Restoring, InstallFile,
     records, bounds, ToInstall, Files

\* The directories of the complete install are synced.
LEMMA StepFsyncNewInstall ==
    ASSUME IInv, FsyncNewInstall
    PROVE  IInv'
<1>1. /\ tx' \in Processes
      /\ tx'.pc = "synced" /\ tx'.cmd = tx.cmd /\ tx'.path = tx.path
      /\ tx'.sealed = tx.sealed /\ tx'.mutating = tx.mutating /\ tx'.verdict = tx.verdict
  BY GotoEffect DEF IInv, TypeOK, FsyncNewInstall, Pcs, TryBody, Restoring
<1> QED
  BY <1>1 DEF IInv, TypeOK, ProcessShape, Provenance, UntouchedBefore, Sealed,
     TerminalKnown, Installed, RestorationShape, Closing, PhasesTrue,
     RecoverOnly, TryBody, Restoring, FsyncNewInstall, records, bounds

\* _post_audit creates the runtime view over a complete new prefix.
LEMMA StepStartPostAudit ==
    ASSUME IInv, StartPostAudit
    PROVE  IInv'
<1>1. /\ tx' \in Processes
      /\ tx'.pc = "viewed" /\ tx'.cmd = tx.cmd /\ tx'.path = tx.path
      /\ tx'.sealed = tx.sealed /\ tx'.mutating = tx.mutating /\ tx'.verdict = tx.verdict
  BY GotoEffect DEF IInv, TypeOK, StartPostAudit, Pcs, TryBody, Restoring
<1> QED
  BY <1>1, EnvFacts DEF IInv, TypeOK, ProcessShape, Provenance,
     UntouchedBefore, Sealed, TerminalKnown, Installed, RestorationShape,
     Closing, PhasesTrue, Untouched, ApplyOnly, RecoverOnly, TryBody,
     Restoring, StartPostAudit, records, bounds

\* _post_audit removes its view and goes on as the command needs.
LEMMA StepEndPostAudit ==
    ASSUME IInv, EndPostAudit
    PROVE  IInv'
<1>1. /\ tx' \in Processes
      /\ tx'.pc = (IF tx.cmd = "apply" THEN "audited" ELSE "attest")
      /\ tx'.cmd = tx.cmd /\ tx'.path = tx.path
      /\ tx'.sealed = tx.sealed /\ tx'.mutating = tx.mutating /\ tx'.verdict = tx.verdict
  BY GotoEffect DEF IInv, TypeOK, EndPostAudit, Pcs, TryBody, Restoring
<1>2. TypeOK'
  BY <1>1, ProcessTypes DEF IInv, TypeOK, TerminalKnown, EndPostAudit, disk,
     records, bounds
<1>3. ProcessShape'
  BY <1>1 DEF IInv, ProcessShape, Recovering, ApplyOnly, RecoverOnly, TryBody,
     EndPostAudit
<1>4. Provenance'
  BY DEF IInv, Provenance, EndPostAudit
<1>5. UntouchedBefore'
  BY <1>1 DEF IInv, UntouchedBefore, Untouched, EndPostAudit, records
<1>6. Sealed'
  BY <1>1 DEF IInv, Sealed, TryBody, EndPostAudit, records
<1>7. TerminalKnown'
  BY <1>1 DEF IInv, ProcessShape, TerminalKnown, Restoring, EndPostAudit,
     records
<1>8. Installed'
  BY DEF IInv, Installed, EndPostAudit
<1>9. RestorationShape'
  BY <1>1 DEF IInv, RestorationShape, TryBody, Restoring, EndPostAudit, records
<1>10. Closing'
  BY <1>1 DEF Closing
<1>11. PhasesTrue'
  BY DEF IInv, PhasesTrue, Untouched, EndPostAudit, records
<1> QED
  BY <1>2, <1>3, <1>4, <1>5, <1>6, <1>7, <1>8, <1>9, <1>10, <1>11 DEF IInv

\* The success evidence is published over a synced, audited prefix.
LEMMA StepPublishSuccess ==
    ASSUME IInv, PublishSuccess
    PROVE  IInv'
<1>1. /\ tx' \in Processes
      /\ tx'.pc = "commit" /\ tx'.cmd = tx.cmd /\ tx'.path = tx.path
      /\ tx'.sealed = tx.sealed /\ tx'.mutating = tx.mutating /\ tx'.verdict = tx.verdict
  BY GotoEffect DEF IInv, TypeOK, PublishSuccess, Pcs, TryBody, Restoring
<1> QED
  BY <1>1 DEF IInv, TypeOK, ProcessShape, Provenance, UntouchedBefore, Sealed,
     TerminalKnown, Installed, RestorationShape, Closing, PhasesTrue,
     RecoverOnly, TryBody, Restoring, PublishSuccess, NoJournal, disk, bounds

\* The journal follows the published evidence.
LEMMA StepJournalCommit ==
    ASSUME IInv, JournalCommit
    PROVE  IInv'
<1>1. /\ tx' \in Processes /\ tx' = NoProcess
      /\ tx'.pc = "idle" /\ tx'.cmd = "none" /\ tx'.sealed = FALSE /\ tx'.mutating = FALSE
  BY NoProcessFacts DEF JournalCommit, End
<1> QED
  BY <1>1 DEF IInv, TypeOK, ProcessShape, Provenance, UntouchedBefore, Sealed,
     TerminalKnown, Installed, RestorationShape, Closing, PhasesTrue, ApplyOnly,
     RecoverOnly, TryBody, Restoring, Phases, JournalCommit, Journal, NoJournal, disk,
     bounds

\* A restoration first drops the view and interrupted temporaries.
LEMMA StepCleanTemporaries ==
    ASSUME IInv, CleanTemporaries
    PROVE  IInv'
<1>1. /\ tx' \in Processes
      /\ tx'.pc = "uninstall" /\ tx'.cmd = tx.cmd /\ tx'.path = tx.path
      /\ tx'.sealed = tx.sealed /\ tx'.mutating = tx.mutating /\ tx'.verdict = tx.verdict
  BY GotoEffect DEF IInv, TypeOK, CleanTemporaries, Pcs, TryBody, Restoring
<1>2. TypeOK'
  BY <1>1, ProcessTypes DEF IInv, TypeOK, TerminalKnown, CleanTemporaries,
     disk, records, bounds
<1>3. ProcessShape'
  BY <1>1 DEF IInv, ProcessShape, ApplyOnly, RecoverOnly, TryBody,
     CleanTemporaries
<1>4. Provenance'
  BY DEF IInv, Provenance, CleanTemporaries
<1>5. UntouchedBefore'
  BY <1>1 DEF IInv, UntouchedBefore, Untouched, CleanTemporaries, records
<1>6. Sealed'
  BY <1>1 DEF IInv, Sealed, TryBody, Restoring, CleanTemporaries, records
<1>7. TerminalKnown'
  BY <1>1 DEF IInv, TerminalKnown, Restoring, CleanTemporaries, records
<1>8. Installed'
  BY <1>1 DEF IInv, Installed, CleanTemporaries, records
<1>9. RestorationShape'
  BY <1>1 DEF IInv, RestorationShape, Restoring, CleanTemporaries, records
<1>10. Closing'
  BY <1>1 DEF Closing
<1>11. PhasesTrue'
  BY DEF IInv, PhasesTrue, Untouched, CleanTemporaries, records
<1> QED
  BY <1>2, <1>3, <1>4, <1>5, <1>6, <1>7, <1>8, <1>9, <1>10, <1>11 DEF IInv

\* A path that does not hold the old bytes is removed.
LEMMA StepUninstallFile ==
    ASSUME IInv, NEW f \in Files, UninstallFile(f)
    PROVE  IInv'
<1> QED
  BY OldFacts DEF IInv, TypeOK, ProcessShape, Provenance, UntouchedBefore,
     Sealed, TerminalKnown, Installed, RestorationShape, Closing, PhasesTrue,
     Untouched, Restoring, UninstallFile, records, bounds

\* No such path is left.
LEMMA StepEndUninstall ==
    ASSUME IInv, EndUninstall
    PROVE  IInv'
<1>1. /\ tx' \in Processes
      /\ tx'.pc = "refill" /\ tx'.cmd = tx.cmd /\ tx'.path = tx.path
      /\ tx'.sealed = tx.sealed /\ tx'.mutating = tx.mutating /\ tx'.verdict = tx.verdict
  BY GotoEffect DEF IInv, TypeOK, EndUninstall, Pcs, TryBody, Restoring
<1> QED
  BY <1>1 DEF IInv, TypeOK, ProcessShape, Provenance, UntouchedBefore, Sealed,
     TerminalKnown, Installed, RestorationShape, Closing, PhasesTrue,
     Untouched, ApplyOnly, RecoverOnly, TryBody, Restoring, EndUninstall, disk,
     records, bounds, ToUninstall

\* The next missing file is written to an exclusive temporary.
LEMMA StepWriteTemporary ==
    ASSUME IInv, WriteTemporary
    PROVE  IInv'
<1>1. /\ tx' \in Processes
      /\ tx'.pc = "link" /\ tx'.cmd = tx.cmd /\ tx'.path = tx.path
      /\ tx'.sealed = tx.sealed /\ tx'.mutating = tx.mutating /\ tx'.verdict = tx.verdict
  BY GotoEffect DEF IInv, TypeOK, WriteTemporary, Pcs, TryBody, Restoring
<1>2. TypeOK'
  BY <1>1, ProcessTypes DEF IInv, TypeOK, TerminalKnown, WriteTemporary, disk,
     records, bounds, NextMissing, Missing
<1>3. ProcessShape'
  BY <1>1 DEF IInv, ProcessShape, ApplyOnly, RecoverOnly, TryBody,
     WriteTemporary
<1>4. Provenance'
  BY DEF IInv, Provenance, WriteTemporary
<1>5. UntouchedBefore'
  BY <1>1, OldFacts DEF IInv, UntouchedBefore, Untouched, WriteTemporary,
     records
<1>6. Sealed'
  BY <1>1 DEF IInv, Sealed, TryBody, Restoring, WriteTemporary, records
<1>7. TerminalKnown'
  BY <1>1 DEF IInv, TerminalKnown, Restoring, WriteTemporary, records
<1>8. Installed'
  BY <1>1 DEF IInv, Installed, Restoring, WriteTemporary, records
<1>9. RestorationShape'
  <2>1. Missing' = Missing /\ NextMissing' = NextMissing /\ ToUninstall' = ToUninstall
    BY DEF WriteTemporary, Missing, NextMissing, ToUninstall
  <2> QED
    BY <1>1, <2>1 DEF IInv, RestorationShape, Untouched, WriteTemporary,
       records, Restoring
<1>10. Closing'
  BY <1>1 DEF Closing
<1>11. PhasesTrue'
  BY DEF IInv, RestorationShape, PhasesTrue, Restoring, WriteTemporary, records
<1> QED
  BY <1>2, <1>3, <1>4, <1>5, <1>6, <1>7, <1>8, <1>9, <1>10, <1>11 DEF IInv

\* The temporary is linked to its final path.
LEMMA StepLinkTemporary ==
    ASSUME IInv, LinkTemporary
    PROVE  IInv'
<1>1. /\ tx' \in Processes
      /\ tx'.pc = "unlink" /\ tx'.cmd = tx.cmd /\ tx'.path = tx.path
      /\ tx'.sealed = tx.sealed /\ tx'.mutating = tx.mutating /\ tx'.verdict = tx.verdict
  BY GotoEffect DEF IInv, TypeOK, LinkTemporary, Pcs, TryBody, Restoring,
     NextMissing, Files
<1> QED
  BY <1>1, OldFacts DEF IInv, TypeOK, ProcessShape, Provenance,
     UntouchedBefore, Sealed, TerminalKnown, Installed, RestorationShape,
     Closing, PhasesTrue, Untouched, ApplyOnly, RecoverOnly, TryBody,
     Restoring, LinkTemporary, records, bounds, Missing, ToUninstall, Files

\* The temporary's own name is removed after the link.
LEMMA StepDropTemporary ==
    ASSUME IInv, DropTemporary
    PROVE  IInv'
<1>1. /\ tx' \in Processes
      /\ tx'.pc = "refill" /\ tx'.cmd = tx.cmd /\ tx'.path = tx.path
      /\ tx'.sealed = tx.sealed /\ tx'.mutating = tx.mutating /\ tx'.verdict = tx.verdict
  BY GotoEffect DEF IInv, TypeOK, DropTemporary, Pcs, TryBody, Restoring
<1> QED
  BY <1>1 DEF IInv, TypeOK, ProcessShape, Provenance, UntouchedBefore, Sealed,
     TerminalKnown, Installed, RestorationShape, Closing, PhasesTrue,
     Untouched, ApplyOnly, RecoverOnly, TryBody, Restoring, DropTemporary,
     records, bounds, ToUninstall

\* The old inventory verifies: the prefix is untouched again.
LEMMA StepVerifyOldInventory ==
    ASSUME IInv, VerifyOldInventory
    PROVE  IInv'
<1>1. /\ tx' \in Processes
      /\ tx'.pc = "restored" /\ tx'.cmd = tx.cmd /\ tx'.path = tx.path
      /\ tx'.sealed = tx.sealed /\ tx'.mutating = tx.mutating /\ tx'.verdict = tx.verdict
  BY GotoEffect DEF IInv, TypeOK, VerifyOldInventory, Pcs, TryBody, Restoring
<1> QED
  BY <1>1, OldRestored DEF IInv, TypeOK, ProcessShape, Provenance,
     UntouchedBefore, Sealed, TerminalKnown, Installed, RestorationShape,
     Closing, PhasesTrue, Untouched, ApplyOnly, RecoverOnly, TryBody,
     Restoring, VerifyOldInventory, disk, records, bounds, ToUninstall

\* The handler finds the success evidence and keeps the commit.
LEMMA StepKeepCommit ==
    ASSUME IInv, KeepCommit
    PROVE  IInv'
<1>1. /\ tx' \in Processes /\ tx' = NoProcess
      /\ tx'.pc = "idle" /\ tx'.cmd = "none" /\ tx'.sealed = FALSE /\ tx'.mutating = FALSE
  BY NoProcessFacts DEF KeepCommit, End
<1> QED
  BY <1>1 DEF IInv, TypeOK, ProcessShape, Provenance, UntouchedBefore, Sealed,
     TerminalKnown, Installed, RestorationShape, Closing, PhasesTrue,
     ApplyOnly, RecoverOnly, TryBody, Restoring, Phases, KeepCommit, Journal,
     NoJournal, disk, bounds, CommitObserved

\* The handler of a mutating apply journals the rollback first.
LEMMA StepRollBack ==
    ASSUME IInv, RollBack
    PROVE  IInv'
<1>1. /\ tx' \in Processes
      /\ tx'.pc = "restore" /\ tx'.cmd = tx.cmd /\ tx'.path = tx.path
      /\ tx'.sealed = tx.sealed /\ tx'.mutating = tx.mutating /\ tx'.verdict = tx.verdict
  BY GotoEffect DEF IInv, TypeOK, RollBack, Pcs, TryBody, Restoring,
     CommitObserved
<1> QED
  BY <1>1 DEF IInv, TypeOK, ProcessShape, Provenance, UntouchedBefore, Sealed,
     TerminalKnown, Installed, RestorationShape, Closing, PhasesTrue,
     RecoverOnly, Phases, RollBack, Journal, disk, bounds, CommitObserved

\* The handler of an apply that changed nothing.
LEMMA StepNothingToRollBack ==
    ASSUME IInv, NothingToRollBack
    PROVE  IInv'
<1>1. /\ tx' \in Processes
      /\ tx'.pc = "report" /\ tx'.cmd = tx.cmd /\ tx'.path = tx.path
      /\ tx'.sealed = tx.sealed /\ tx'.mutating = tx.mutating /\ tx'.verdict = "rolled-back"
  BY NoProcessFacts DEF IInv, TypeOK, NothingToRollBack, Processes, NoProcess,
     Pcs, TryBody, Restoring, CommitObserved
<1> QED
  BY <1>1 DEF IInv, TypeOK, ProcessShape, Provenance, UntouchedBefore, Sealed,
     TerminalKnown, Installed, RestorationShape, Closing, PhasesTrue,
     Untouched, ApplyOnly, RecoverOnly, TryBody, Restoring, NothingToRollBack,
     disk, records, bounds, CommitObserved

\* The handler journals a finished rollback.
LEMMA StepRolledBack ==
    ASSUME IInv, RolledBack
    PROVE  IInv'
<1>1. /\ tx' \in Processes
      /\ tx'.pc = "report" /\ tx'.cmd = tx.cmd /\ tx'.path = tx.path
      /\ tx'.sealed = tx.sealed /\ tx'.mutating = tx.mutating /\ tx'.verdict = "rolled-back"
  BY NoProcessFacts DEF IInv, TypeOK, RolledBack, Processes, NoProcess, Pcs,
     TryBody, Restoring
<1> QED
  BY <1>1 DEF IInv, TypeOK, ProcessShape, Provenance, UntouchedBefore, Sealed,
     TerminalKnown, Installed, RestorationShape, Closing, PhasesTrue,
     Untouched, RecoverOnly, TryBody, Restoring, Phases, RolledBack, Journal,
     disk, bounds

\* The outcome that was published is journalled when it was sealed.
LEMMA StepJournalFailure ==
    ASSUME IInv, JournalFailure
    PROVE  IInv'
<1>1. /\ tx' \in Processes /\ tx' = NoProcess
      /\ tx'.pc = "idle" /\ tx'.cmd = "none" /\ tx'.sealed = FALSE /\ tx'.mutating = FALSE
  BY NoProcessFacts DEF JournalFailure, End
<1>2. TypeOK'
  <2>1. journal' \in [phase: Phases, sealed: BOOLEAN, mutated: BOOLEAN]
    <3>1. tx.verdict \in Phases /\ tx.mutating \in BOOLEAN
      BY ProcessTypes DEF IInv, TypeOK, TerminalKnown, JournalFailure, Phases
    <3>2. Journal(tx.verdict, TRUE, tx.mutating) \/ UNCHANGED journal
      BY DEF JournalFailure
    <3>3. CASE Journal(tx.verdict, TRUE, tx.mutating)
      BY <3>1, <3>3, JournalTyped
    <3>4. CASE UNCHANGED journal
      BY <3>4 DEF IInv, TypeOK
    <3> QED
      BY <3>2, <3>3, <3>4
  <2> QED
    BY <1>1, <2>1 DEF IInv, TypeOK, JournalFailure, disk, records, bounds
<1>3. ProcessShape'
  BY <1>1 DEF ProcessShape, ApplyOnly, RecoverOnly, TryBody
<1>4. Provenance'
  BY DEF IInv, Provenance, JournalFailure, disk
<1>5. UntouchedBefore'
  BY <1>1 DEF IInv, ProcessShape, UntouchedBefore, Untouched, ApplyOnly,
     JournalFailure, Journal, NoJournal, disk
<1>6. Sealed'
  BY <1>1 DEF IInv, Sealed, Recovering, TryBody, JournalFailure, Journal
<1>7. TerminalKnown'
  BY <1>1 DEF TerminalKnown
<1>8. Installed'
  BY <1>1 DEF IInv, Installed, Restoring, JournalFailure, disk
<1>9. RestorationShape'
  BY <1>1 DEF RestorationShape, Restoring
<1>10. Closing'
  BY <1>1 DEF Closing
<1>11. PhasesTrue'
  BY DEF IInv, ProcessShape, TerminalKnown, Installed, PhasesTrue, Untouched,
     ApplyOnly, JournalFailure, Journal, disk
<1> QED
  BY <1>2, <1>3, <1>4, <1>5, <1>6, <1>7, <1>8, <1>9, <1>10, <1>11 DEF IInv

\* --recover refuses a committed prefix that fails its audit.
LEMMA StepRefuseCommitted ==
    ASSUME IInv, RefuseCommitted
    PROVE  IInv'
<1>1. /\ tx' \in Processes /\ tx' = NoProcess
      /\ tx'.pc = "idle" /\ tx'.cmd = "none" /\ tx'.sealed = FALSE /\ tx'.mutating = FALSE
  BY NoProcessFacts DEF RefuseCommitted, End
<1> QED
  BY <1>1 DEF IInv, TypeOK, ProcessShape, Provenance, UntouchedBefore, Sealed,
     TerminalKnown, Installed, RestorationShape, Closing, PhasesTrue,
     Untouched, ApplyOnly, RecoverOnly, TryBody, Restoring, RefuseCommitted,
     disk, records, bounds

\* --recover and --rollback journal the restoration first.
LEMMA StepReopen ==
    ASSUME IInv, Reopen
    PROVE  IInv'
<1>1. /\ tx' \in Processes
      /\ tx'.pc = "restore" /\ tx'.cmd = tx.cmd /\ tx'.path = tx.path
      /\ tx'.sealed = tx.sealed /\ tx'.mutating = tx.mutating /\ tx'.verdict = tx.verdict
  BY GotoEffect DEF IInv, TypeOK, Reopen, Pcs, TryBody, Restoring
<1> QED
  BY <1>1 DEF IInv, TypeOK, ProcessShape, Provenance, UntouchedBefore, Sealed,
     TerminalKnown, Installed, RestorationShape, Closing, PhasesTrue,
     Untouched, Recovering, ApplyOnly, RecoverOnly, TryBody, Phases, Reopen,
     Journal, NoJournal, disk, bounds

\* Recovery evidence says what this command has established.
LEMMA StepPublishRecovery ==
    ASSUME IInv, PublishRecovery
    PROVE  IInv'
<1>1. /\ tx' \in Processes
      /\ tx'.pc = "close" /\ tx'.cmd = tx.cmd /\ tx'.path = tx.path
      /\ tx'.sealed = tx.sealed /\ tx'.mutating = tx.mutating /\ tx'.verdict = tx.verdict
  BY GotoEffect DEF IInv, TypeOK, PublishRecovery, Pcs, TryBody, Restoring,
     Attesting, Attestation
<1>2. TypeOK'
  <2>1. Attestation \in {"no-mutation", "committed-verified", "recover", "rollback"}
    BY ProcessTypes DEF IInv, TypeOK, ProcessShape, PublishRecovery, Attesting,
       Attestation
  <2> QED
    BY <1>1, <2>1 DEF IInv, TypeOK, PublishRecovery, disk, records, bounds
<1>3. ProcessShape'
  BY <1>1, ProcessTypes DEF IInv, ProcessShape, Sealed, TypeOK,
     PublishRecovery, Attesting, ApplyOnly, RecoverOnly, Recovering, TryBody,
     Restoring
<1>4. Provenance'
  BY DEF IInv, Provenance, PublishRecovery, disk
<1>5. UntouchedBefore'
  BY <1>1 DEF IInv, UntouchedBefore, Untouched, PublishRecovery, disk
<1>6. Sealed'
  BY <1>1 DEF IInv, Sealed, TryBody, Restoring, PublishRecovery
<1>7. TerminalKnown'
  BY <1>1 DEF IInv, TerminalKnown, Restoring, PublishRecovery, Attesting
<1>8. Installed'
  BY <1>1 DEF IInv, Installed, Restoring, PublishRecovery, disk
<1>9. RestorationShape'
  BY <1>1 DEF RestorationShape, TryBody, Restoring
<1>10. Closing'
  <2>1. recovered'[tx'.path] = Attestation
    BY <1>1, ProcessTypes DEF IInv, TypeOK, PublishRecovery
  <2> QED
    BY <1>1, <2>1, ProcessTypes DEF IInv, TypeOK, Closing, Sealed,
       TerminalKnown, Installed, RestorationShape, ProcessShape, Untouched,
       PublishRecovery, Attesting, Attestation, Recovering, RecoverOnly,
       Restoring, disk
<1>11. PhasesTrue'
  BY DEF IInv, PhasesTrue, Untouched, PublishRecovery, disk
<1> QED
  BY <1>2, <1>3, <1>4, <1>5, <1>6, <1>7, <1>8, <1>9, <1>10, <1>11 DEF IInv

\* Evidence of another outcome is never replaced.
LEMMA StepRefuseEvidence ==
    ASSUME IInv, RefuseEvidence
    PROVE  IInv'
<1>1. /\ tx' \in Processes /\ tx' = NoProcess
      /\ tx'.pc = "idle" /\ tx'.cmd = "none" /\ tx'.sealed = FALSE /\ tx'.mutating = FALSE
  BY NoProcessFacts DEF RefuseEvidence, End
<1> QED
  BY <1>1 DEF IInv, TypeOK, ProcessShape, Provenance, UntouchedBefore, Sealed,
     TerminalKnown, Installed, RestorationShape, Closing, PhasesTrue,
     Untouched, Recovering, ApplyOnly, RecoverOnly, TryBody, Restoring,
     RefuseEvidence, disk, records, bounds

\* The journal is closed by what the evidence says.
LEMMA StepCloseRecovery ==
    ASSUME IInv, CloseRecovery
    PROVE  IInv'
<1>1. /\ tx' \in Processes /\ tx' = NoProcess
      /\ tx'.pc = "idle" /\ tx'.cmd = "none" /\ tx'.sealed = FALSE /\ tx'.mutating = FALSE
  BY NoProcessFacts DEF CloseRecovery, End
<1>2. TypeOK'
  <2>1. journal' \in [phase: Phases, sealed: BOOLEAN, mutated: BOOLEAN]
    <3>1. journal.mutated \in BOOLEAN
      BY DEF IInv, TypeOK
    <3>2. \/ Journal("no-mutation", FALSE, FALSE)
          \/ Journal("committed", TRUE, TRUE)
          \/ Journal("rolled-back", TRUE, journal.mutated)
      BY DEF CloseRecovery
    <3>3. {"no-mutation", "committed", "rolled-back"} \subseteq Phases
      BY DEF Phases
    <3> QED
      BY <3>1, <3>2, <3>3, JournalTyped
  <2> QED
    BY <1>1, <2>1 DEF IInv, TypeOK, CloseRecovery, disk, records, bounds
<1>3. ProcessShape'
  BY <1>1 DEF ProcessShape, ApplyOnly, RecoverOnly, TryBody
<1>4. Provenance'
  BY DEF IInv, Provenance, CloseRecovery, disk
<1>5. UntouchedBefore'
  BY <1>1 DEF IInv, UntouchedBefore, Closing, Untouched, Recovering,
     CloseRecovery, Journal, NoJournal, disk
<1>6. Sealed'
  BY <1>1 DEF IInv, Sealed, Closing, Recovering, TryBody, CloseRecovery,
     Journal
<1>7. TerminalKnown'
  BY <1>1 DEF TerminalKnown
<1>8. Installed'
  BY <1>1 DEF IInv, Installed, Restoring, CloseRecovery, disk
<1>9. RestorationShape'
  BY <1>1 DEF RestorationShape, Restoring
<1>10. Closing'
  BY <1>1 DEF Closing
<1>11. PhasesTrue'
  BY DEF IInv, Closing, PhasesTrue, Untouched, Recovering, CloseRecovery,
     Journal, disk
<1> QED
  BY <1>2, <1>3, <1>4, <1>5, <1>6, <1>7, <1>8, <1>9, <1>10, <1>11 DEF IInv

\* A consumer takes the shared lock of a free prefix.
LEMMA StepConsumerEnter ==
    ASSUME IInv, ConsumerEnter
    PROVE  IInv'
<1>1. TypeOK'
  BY DEF IInv, TypeOK, ConsumerEnter, disk, records, bounds
<1>2. ProcessShape'
  BY DEF IInv, ProcessShape, ConsumerEnter
<1>3. Provenance'
  BY DEF IInv, Provenance, ConsumerEnter, disk
<1>4. UntouchedBefore'
  BY DEF IInv, UntouchedBefore, Untouched, ConsumerEnter, disk, records
<1>5. Sealed'
  BY DEF IInv, Sealed, ConsumerEnter, records
<1>6. TerminalKnown'
  BY DEF IInv, TerminalKnown, Untouched, ConsumerEnter, disk, records
<1>7. Installed'
  BY DEF IInv, Installed, ConsumerEnter, disk, records
<1>8. RestorationShape'
  <2>1. Missing' = Missing /\ NextMissing' = NextMissing /\ ToUninstall' = ToUninstall
    BY DEF ConsumerEnter, disk, Missing, NextMissing, ToUninstall
  <2> QED
    BY <2>1 DEF IInv, RestorationShape, Untouched, ConsumerEnter, disk, records
<1>9. Closing'
  BY DEF IInv, Closing, Untouched, ConsumerEnter, disk, records
<1>10. PhasesTrue'
  BY DEF IInv, PhasesTrue, Untouched, ConsumerEnter, disk, records
<1> QED
  BY <1>1, <1>2, <1>3, <1>4, <1>5, <1>6, <1>7, <1>8, <1>9, <1>10 DEF IInv

\* A consumer ends.
LEMMA StepConsumerLeave ==
    ASSUME IInv, ConsumerLeave
    PROVE  IInv'
<1>1. TypeOK'
  BY DEF IInv, TypeOK, ConsumerLeave, disk, records, bounds
<1>2. ProcessShape'
  BY DEF IInv, ProcessShape, ConsumerLeave
<1>3. Provenance'
  BY DEF IInv, Provenance, ConsumerLeave, disk
<1>4. UntouchedBefore'
  BY DEF IInv, UntouchedBefore, Untouched, ConsumerLeave, disk, records
<1>5. Sealed'
  BY DEF IInv, Sealed, ConsumerLeave, records
<1>6. TerminalKnown'
  BY DEF IInv, TerminalKnown, Untouched, ConsumerLeave, disk, records
<1>7. Installed'
  BY DEF IInv, Installed, ConsumerLeave, disk, records
<1>8. RestorationShape'
  <2>1. Missing' = Missing /\ NextMissing' = NextMissing /\ ToUninstall' = ToUninstall
    BY DEF ConsumerLeave, disk, Missing, NextMissing, ToUninstall
  <2> QED
    BY <2>1 DEF IInv, RestorationShape, Untouched, ConsumerLeave, disk, records
<1>9. Closing'
  BY DEF IInv, Closing, Untouched, ConsumerLeave, disk, records
<1>10. PhasesTrue'
  BY DEF IInv, PhasesTrue, Untouched, ConsumerLeave, disk, records
<1> QED
  BY <1>1, <1>2, <1>3, <1>4, <1>5, <1>6, <1>7, <1>8, <1>9, <1>10 DEF IInv

\* SIGKILL ends the process and changes nothing on disk.
LEMMA StepKill ==
    ASSUME IInv, Kill
    PROVE  IInv'
<1>1. /\ tx' \in Processes /\ tx' = NoProcess
      /\ tx'.pc = "idle" /\ tx'.cmd = "none" /\ tx'.sealed = FALSE /\ tx'.mutating = FALSE
  BY NoProcessFacts DEF Kill, End
<1> QED
  BY <1>1 DEF IInv, TypeOK, ProcessShape, Provenance, UntouchedBefore, Sealed,
     TerminalKnown, Installed, RestorationShape, Closing, PhasesTrue,
     Untouched, Recovering, ApplyOnly, RecoverOnly, TryBody, Restoring, Kill,
     disk, records

\* A power loss loses unsynced files of the new distribution only.
LEMMA StepPowerLoss ==
    ASSUME IInv, PowerLoss
    PROVE  IInv'
<1>1. /\ tx' \in Processes /\ tx' = NoProcess
      /\ tx'.pc = "idle" /\ tx'.cmd = "none" /\ tx'.sealed = FALSE /\ tx'.mutating = FALSE
  BY NoProcessFacts DEF PowerLoss, End
<1>2. TypeOK'
  <2>1. env' \in [Files -> {"absent", "old", "partial", "new"}]
    BY DEF IInv, TypeOK, PowerLoss, disk
  <2>2. /\ unsynced' = {} /\ consumer' = FALSE /\ crashes' = crashes + 1
        /\ UNCHANGED <<view, temps, records, faults>>
    BY DEF PowerLoss
  <2> QED
    <3>1. crashes' \in Nat
      BY <2>2 DEF IInv, TypeOK
    <3>3. unsynced' \subseteq NewFiles /\ consumer' \in BOOLEAN
      BY <2>2
    <3>2. /\ view' \in BOOLEAN /\ temps' \subseteq OldFiles /\ manifest' \in BOOLEAN
          /\ faults' \in Nat
          /\ journal' \in [phase: Phases, sealed: BOOLEAN, mutated: BOOLEAN]
          /\ terminal' \in {"none", "committed", "rolled-back", "rollback-failed"}
          /\ recovered' \in [Paths -> {"none", "no-mutation", "committed-verified",
                                       "recover", "rollback"}]
      BY <2>2 DEF IInv, TypeOK, records
    <3> QED
      BY <1>1, <2>1, <3>1, <3>2, <3>3 DEF TypeOK
<1>3. ProcessShape'
  BY <1>1 DEF ProcessShape, ApplyOnly, RecoverOnly, TryBody
<1>4. Provenance'
  BY DEF IInv, Provenance, PowerLoss
<1>5. UntouchedBefore'
  BY <1>1, OldFacts DEF IInv, TypeOK, UntouchedBefore, Untouched, PowerLoss,
     records
<1>6. Sealed'
  BY <1>1 DEF IInv, Sealed, Recovering, TryBody, PowerLoss, records
<1>7. TerminalKnown'
  BY <1>1 DEF TerminalKnown
<1>8. Installed'
  BY <1>1 DEF Installed, Restoring, PowerLoss
<1>9. RestorationShape'
  BY <1>1 DEF RestorationShape, Restoring
<1>10. Closing'
  BY <1>1 DEF Closing
<1>11. PhasesTrue'
  BY OldFacts DEF IInv, TypeOK, Installed, PhasesTrue, Untouched, PowerLoss,
     records
<1> QED
  BY <1>2, <1>3, <1>4, <1>5, <1>6, <1>7, <1>8, <1>9, <1>10, <1>11 DEF IInv

\* Failure evidence is published only where there is none yet.
LEMMA StepPublishFailure ==
    ASSUME IInv, PublishFailure
    PROVE  IInv'
<1>1. CASE journal # NoJournal /\ terminal = "none"
  <2>1. /\ tx' \in Processes
      /\ tx'.pc = "reported" /\ tx'.cmd = tx.cmd /\ tx'.path = tx.path
      /\ tx'.sealed = tx.sealed /\ tx'.mutating = tx.mutating /\ tx'.verdict = tx.verdict
    BY <1>1, GotoEffect DEF IInv, TypeOK, PublishFailure, Pcs
  <2> QED
    BY <1>1, <2>1, ProcessTypes DEF IInv, TypeOK, ProcessShape, Provenance,
       UntouchedBefore, Sealed, TerminalKnown, Installed, RestorationShape,
       Closing, PhasesTrue, Untouched, ApplyOnly, RecoverOnly, TryBody,
       Restoring, PublishFailure, disk, bounds
<1>2. CASE ~(journal # NoJournal /\ terminal = "none")
  <2>1. /\ tx' \in Processes /\ tx' = NoProcess
      /\ tx'.pc = "idle" /\ tx'.cmd = "none" /\ tx'.sealed = FALSE /\ tx'.mutating = FALSE
    BY <1>2, NoProcessFacts DEF PublishFailure, End
  <2> QED
    BY <1>2, <2>1 DEF IInv, TypeOK, ProcessShape, Provenance, UntouchedBefore,
       Sealed, TerminalKnown, Installed, RestorationShape, Closing, PhasesTrue,
       Untouched, Recovering, ApplyOnly, RecoverOnly, TryBody, Restoring,
       PublishFailure, disk, bounds
<1> QED
  BY <1>1, <1>2

\* A recovery starts from the journal and the terminal evidence.
LEMMA StepStartRecovery ==
    ASSUME IInv, NEW cmd \in Commands, NEW path \in Paths, StartRecovery(cmd, path)
    PROVE  IInv'
<1>1. /\ tx' \in Processes
      /\ tx'.pc = (IF ~journal.sealed THEN "nothing"
                   ELSE IF cmd = "recover" /\ CommittedByEvidence THEN "recheck"
                   ELSE "reopen")
      /\ tx'.cmd = cmd /\ tx'.path = path
      /\ tx'.sealed = FALSE /\ tx'.mutating = FALSE /\ tx'.verdict = "none"
  BY NoProcessFacts, InventoryAssumption DEF StartRecovery, Processes,
     NoProcess, Pcs
<1>2. tx.pc = "idle" /\ cmd \in {"recover", "rollback"}
  BY NoProcessFacts, InventoryAssumption DEF StartRecovery, ExclusiveLock
<1> QED
  BY <1>1, <1>2 DEF IInv, TypeOK, ProcessShape, Provenance, UntouchedBefore,
     Sealed, TerminalKnown, Installed, RestorationShape, Closing, PhasesTrue,
     Untouched, Recovering, ApplyOnly, TryBody, Restoring, StartRecovery, disk,
     records, bounds, CommittedByEvidence

\* The journal-only steps of an apply.
LEMMA StepJournalApply ==
    ASSUME IInv, JournalApply
    PROVE  IInv'
<1>1. CASE StillOld = {} /\ AdvanceJournal("remove", "old-removed", "emptied")
  <2>1. /\ tx' \in Processes
      /\ tx'.pc = "emptied" /\ tx'.cmd = tx.cmd /\ tx'.path = tx.path
      /\ tx'.sealed = tx.sealed /\ tx'.mutating = tx.mutating /\ tx'.verdict = tx.verdict
    BY <1>1, GotoEffect DEF IInv, TypeOK, AdvanceJournal, Pcs, TryBody
  <2> QED
    BY <1>1, <2>1 DEF IInv, TypeOK, ProcessShape, Provenance, UntouchedBefore,
       Sealed, TerminalKnown, Installed, RestorationShape, Closing, PhasesTrue,
       RecoverOnly, TryBody, Restoring, Phases, AdvanceJournal, Journal, disk,
       bounds
<1>2. CASE AdvanceJournal("emptied", "installing-new", "install")
  <2>1. /\ tx' \in Processes
      /\ tx'.pc = "install" /\ tx'.cmd = tx.cmd /\ tx'.path = tx.path
      /\ tx'.sealed = tx.sealed /\ tx'.mutating = tx.mutating /\ tx'.verdict = tx.verdict
    BY <1>2, GotoEffect DEF IInv, TypeOK, AdvanceJournal, Pcs, TryBody
  <2> QED
    BY <1>2, <2>1 DEF IInv, TypeOK, ProcessShape, Provenance, UntouchedBefore,
       Sealed, TerminalKnown, Installed, RestorationShape, Closing, PhasesTrue,
       RecoverOnly, TryBody, Restoring, Phases, AdvanceJournal, Journal, disk,
       bounds
<1>3. CASE AdvanceJournal("synced", "new-installed", "installed")
  <2>1. /\ tx' \in Processes
      /\ tx'.pc = "installed" /\ tx'.cmd = tx.cmd /\ tx'.path = tx.path
      /\ tx'.sealed = tx.sealed /\ tx'.mutating = tx.mutating /\ tx'.verdict = tx.verdict
    BY <1>3, GotoEffect DEF IInv, TypeOK, AdvanceJournal, Pcs, TryBody
  <2> QED
    BY <1>3, <2>1 DEF IInv, TypeOK, ProcessShape, Provenance, UntouchedBefore,
       Sealed, TerminalKnown, Installed, RestorationShape, Closing, PhasesTrue,
       RecoverOnly, TryBody, Restoring, Phases, AdvanceJournal, Journal, disk,
       bounds
<1>4. CASE AdvanceJournal("installed", "post-auditing", "audit")
  <2>1. /\ tx' \in Processes
      /\ tx'.pc = "audit" /\ tx'.cmd = tx.cmd /\ tx'.path = tx.path
      /\ tx'.sealed = tx.sealed /\ tx'.mutating = tx.mutating /\ tx'.verdict = tx.verdict
    BY <1>4, GotoEffect DEF IInv, TypeOK, AdvanceJournal, Pcs, TryBody
  <2> QED
    BY <1>4, <2>1 DEF IInv, TypeOK, ProcessShape, Provenance, UntouchedBefore,
       Sealed, TerminalKnown, Installed, RestorationShape, Closing, PhasesTrue,
       RecoverOnly, TryBody, Restoring, Phases, AdvanceJournal, Journal, disk,
       bounds
<1>5. CASE AdvanceJournal("audited", "post-audited", "decide")
  <2>1. /\ tx' \in Processes
      /\ tx'.pc = "decide" /\ tx'.cmd = tx.cmd /\ tx'.path = tx.path
      /\ tx'.sealed = tx.sealed /\ tx'.mutating = tx.mutating /\ tx'.verdict = tx.verdict
    BY <1>5, GotoEffect DEF IInv, TypeOK, AdvanceJournal, Pcs, TryBody
  <2> QED
    BY <1>5, <2>1 DEF IInv, TypeOK, ProcessShape, Provenance, UntouchedBefore,
       Sealed, TerminalKnown, Installed, RestorationShape, Closing, PhasesTrue,
       RecoverOnly, TryBody, Restoring, Phases, AdvanceJournal, Journal, disk,
       bounds
<1>6. CASE AdvanceJournal("decide", "committing", "publish")
  <2>1. /\ tx' \in Processes
      /\ tx'.pc = "publish" /\ tx'.cmd = tx.cmd /\ tx'.path = tx.path
      /\ tx'.sealed = tx.sealed /\ tx'.mutating = tx.mutating /\ tx'.verdict = tx.verdict
    BY <1>6, GotoEffect DEF IInv, TypeOK, AdvanceJournal, Pcs, TryBody
  <2> QED
    BY <1>6, <2>1 DEF IInv, TypeOK, ProcessShape, Provenance, UntouchedBefore,
       Sealed, TerminalKnown, Installed, RestorationShape, Closing, PhasesTrue,
       RecoverOnly, TryBody, Restoring, Phases, AdvanceJournal, Journal, disk,
       bounds
<1> QED
  BY <1>1, <1>2, <1>3, <1>4, <1>5, <1>6 DEF JournalApply

\* A failure in the apply, in its rollback, or in a recovery.
LEMMA StepFault ==
    ASSUME IInv, Fault
    PROVE  IInv'
<1>1. CASE FaultInBody
  <2>1. /\ tx' \in Processes
      /\ tx'.pc = "failing" /\ tx'.cmd = tx.cmd /\ tx'.path = tx.path
      /\ tx'.sealed = tx.sealed /\ tx'.mutating = tx.mutating /\ tx'.verdict = tx.verdict
    BY <1>1, GotoEffect DEF IInv, TypeOK, FaultInBody, Pcs
  <2>2. TypeOK'
    <3>1. faults' \in Nat
      BY DEF IInv, TypeOK, Fault
    <3>2. view' \in BOOLEAN
      BY <1>1 DEF IInv, TypeOK, FaultInBody
    <3>3. UNCHANGED <<env, unsynced, temps, manifest, journal, terminal, recovered, consumer, crashes>>
      BY <1>1 DEF FaultInBody, Fault, records
    <3> QED
      BY <2>1, <3>1, <3>2, <3>3 DEF IInv, TypeOK
  <2>3. ProcessShape'
    BY <1>1, <2>1 DEF ProcessShape, RecoverOnly, FaultInBody
  <2>4. Provenance'
    BY <1>1 DEF IInv, Provenance, FaultInBody
  <2>5. UntouchedBefore'
    BY <1>1, <2>1 DEF IInv, UntouchedBefore, Untouched, FaultInBody, records
  <2>6. Sealed'
    BY <1>1, <2>1 DEF IInv, Sealed, TryBody, Restoring, FaultInBody, records
  <2>7. TerminalKnown'
    BY <1>1, <2>1 DEF IInv, TerminalKnown, TryBody, FaultInBody, records
  <2>8. Installed'
    BY <1>1, <2>1 DEF IInv, Installed, Restoring, FaultInBody, records
  <2>9. RestorationShape'
    BY <1>1, <2>1 DEF IInv, RestorationShape, Restoring, FaultInBody, records
  <2>10. Closing'
    BY <2>1 DEF Closing
  <2>11. PhasesTrue'
    BY <1>1 DEF IInv, RestorationShape, PhasesTrue, FaultInBody, records
  <2> QED
    BY <2>2, <2>3, <2>4, <2>5, <2>6, <2>7, <2>8, <2>9, <2>10, <2>11 DEF IInv
<1>2. CASE FaultInRollback
  <2>1. /\ tx' \in Processes
      /\ tx'.pc = "report" /\ tx'.cmd = tx.cmd /\ tx'.path = tx.path
      /\ tx'.sealed = tx.sealed /\ tx'.mutating = tx.mutating /\ tx'.verdict = "rollback-failed"
    BY <1>2 DEF IInv, TypeOK, FaultInRollback, Processes, Pcs
  <2>2. TypeOK'
    <3>1. "rollback-failed" \in Phases
      BY DEF Phases
    <3>2. journal' \in [phase: Phases, sealed: BOOLEAN, mutated: BOOLEAN]
      BY <1>2, <3>1, JournalTyped DEF FaultInRollback
    <3>3. faults' \in Nat /\ consumer' \in BOOLEAN /\ crashes' \in Nat
      BY DEF IInv, TypeOK, Fault
    <3>4. UNCHANGED <<env, unsynced, view, temps, manifest, terminal, recovered>>
      BY <1>2 DEF FaultInRollback, disk
    <3> QED
      BY <2>1, <3>2, <3>3, <3>4 DEF IInv, TypeOK
  <2>3. ProcessShape'
    BY <1>2 DEF ProcessShape, RecoverOnly, FaultInRollback
  <2>4. Provenance'
    BY <1>2 DEF IInv, Provenance, FaultInRollback, disk
  <2>5. UntouchedBefore'
    BY <1>2 DEF IInv, UntouchedBefore, Sealed, FaultInRollback, Journal,
       NoJournal
  <2>6. Sealed'
    BY <1>2 DEF IInv, Sealed, FaultInRollback, Journal
  <2>7. TerminalKnown'
    BY <1>2 DEF IInv, TerminalKnown, Restoring, FaultInRollback, Journal,
       CommitObserved
  <2>8. Installed'
    BY <1>2 DEF IInv, Installed, Restoring, FaultInRollback, disk
  <2>9. RestorationShape'
    BY <2>1 DEF RestorationShape, TryBody, Restoring
  <2>10. Closing'
    BY <2>1 DEF Closing
  <2>11. PhasesTrue'
    BY <1>2 DEF IInv, PhasesTrue, FaultInRollback, Journal, disk
  <2> QED
    BY <2>2, <2>3, <2>4, <2>5, <2>6, <2>7, <2>8, <2>9, <2>10, <2>11 DEF IInv
<1>3. CASE FaultInRecovery
  <2>1. /\ tx' \in Processes /\ tx' = NoProcess
      /\ tx'.pc = "idle" /\ tx'.cmd = "none" /\ tx'.sealed = FALSE /\ tx'.mutating = FALSE
    BY <1>3, NoProcessFacts DEF FaultInRecovery, End
  <2>2. TypeOK'
    <3>1. faults' \in Nat
      BY DEF IInv, TypeOK, Fault
    <3>2. view' \in BOOLEAN
      BY <1>3 DEF IInv, TypeOK, FaultInRecovery
    <3>3. UNCHANGED <<env, unsynced, temps, manifest, journal, terminal, recovered, consumer, crashes>>
      BY <1>3 DEF FaultInRecovery, Fault, records
    <3> QED
      BY <2>1, <3>1, <3>2, <3>3 DEF IInv, TypeOK
  <2>3. ProcessShape'
    BY <2>1 DEF ProcessShape, ApplyOnly, RecoverOnly, TryBody
  <2>4. Provenance'
    BY <1>3 DEF IInv, Provenance, FaultInRecovery
  <2>5. UntouchedBefore'
    BY <1>3, <2>1 DEF IInv, UntouchedBefore, Untouched, FaultInRecovery,
       records
  <2>6. Sealed'
    BY <1>3, <2>1 DEF IInv, Sealed, Recovering, TryBody, FaultInRecovery,
       records
  <2>7. TerminalKnown'
    BY <2>1 DEF TerminalKnown
  <2>8. Installed'
    BY <1>3, <2>1 DEF IInv, Installed, Restoring, FaultInRecovery, records
  <2>9. RestorationShape'
    BY <2>1 DEF RestorationShape, Restoring
  <2>10. Closing'
    BY <2>1 DEF Closing
  <2>11. PhasesTrue'
    BY <1>3 DEF IInv, PhasesTrue, Untouched, FaultInRecovery, records
  <2> QED
    BY <2>2, <2>3, <2>4, <2>5, <2>6, <2>7, <2>8, <2>9, <2>10, <2>11 DEF IInv
<1> QED
  BY <1>1, <1>2, <1>3 DEF Fault


\* Every step that leaves every variable alone.
LEMMA Stutter ==
    ASSUME IInv, UNCHANGED vars
    PROVE  IInv'
<1>1. Missing' = Missing /\ NextMissing' = NextMissing /\ ToUninstall' = ToUninstall
  BY DEF vars, Missing, NextMissing, ToUninstall
<1> QED
  BY <1>1 DEF IInv, TypeOK, ProcessShape, Provenance, UntouchedBefore, Sealed,
     TerminalKnown, Installed, RestorationShape, Closing, PhasesTrue,
     Untouched, vars

\* Before any command the prefix is old and there is no backup root.
LEMMA Starts == Init => IInv
<1> SUFFICES ASSUME Init PROVE IInv
  OBVIOUS
<1>1. TypeOK
  BY NoProcessFacts, EnvFacts DEF Init, TypeOK, NoJournal, Phases
<1> QED
  BY <1>1, NoProcessFacts, EnvFacts, InventoryAssumption DEF Init, IInv,
     ProcessShape, Provenance, UntouchedBefore, Sealed, TerminalKnown,
     Installed, RestorationShape, Closing, PhasesTrue, Untouched, NoJournal,
     OldEnv, ApplyOnly, RecoverOnly, Recovering, TryBody, Restoring

\* One step of the process that holds the lock.
LEMMA StepWork ==
    ASSUME IInv, Work
    PROVE  IInv'
<1>1. CASE Apply
  BY <1>1, StepInitializeBackupRoot, StepCreateBackup, StepSealJournal,
     StepJournalRemoval, StepMutationStarted, StepJournalApply,
     StepFsyncNewInstall, StepRemoveOldFile, StepInstallFile,
     StepPublishSuccess, StepJournalCommit DEF Apply
<1>2. CASE Restore
  BY <1>2, StepCleanTemporaries, StepEndUninstall, StepUninstallFile,
     StepWriteTemporary, StepLinkTemporary, StepDropTemporary,
     StepVerifyOldInventory DEF Restore
<1>3. CASE Handler
  BY <1>3, StepKeepCommit, StepRollBack, StepNothingToRollBack, StepRolledBack,
     StepPublishFailure, StepJournalFailure DEF Handler
<1>4. CASE Recovery
  BY <1>4, StepRefuseCommitted, StepReopen, StepPublishRecovery,
     StepRefuseEvidence, StepCloseRecovery DEF Recovery
<1> QED
  BY <1>1, <1>2, <1>3, <1>4, StepStartPostAudit, StepEndPostAudit DEF Work

\* Whatever the transaction, the consumers and the machine do next.
LEMMA Steps == IInv /\ [Next]_vars => IInv'
<1> SUFFICES ASSUME IInv, [Next]_vars PROVE IInv'
  OBVIOUS
<1>1. CASE Work
  BY <1>1, StepWork
<1>2. CASE \E cmd \in Commands, path \in Paths : StartRecovery(cmd, path)
  BY <1>2, StepStartRecovery
<1>3. CASE StartApply \/ ConsumerEnter \/ ConsumerLeave \/ Fault \/ Kill \/ PowerLoss
  BY <1>3, StepStartApply, StepConsumerEnter, StepConsumerLeave, StepFault,
     StepKill, StepPowerLoss
<1>4. CASE UNCHANGED vars
  BY <1>4, Stutter
<1> QED
  BY <1>1, <1>2, <1>3, <1>4 DEF Next

\* The replacement transaction keeps IInv on every behaviour, crashes and
\* faults included: what its journal, evidence and prefix say agrees.
THEOREM Invariance == Spec => []IInv
BY Starts, Steps, PTL DEF Spec

-----------------------------------------------------------------------------
\* Every variable keeps its type, whatever the inventory.
THEOREM TypeCorrect == Spec => []TypeOK
<1>1. IInv => TypeOK
  BY DEF IInv
<1> QED
  BY <1>1, Invariance, PTL

\* create_backup publishes its manifest, and the journal is sealed and admits
\* the mutation, before _remove_old_inventory deletes anything.
THEOREM BackupPrecedesRemoval == Spec => []BackedUpBeforeRemoval
<1>1. IInv => BackedUpBeforeRemoval
  BY DEF IInv, UntouchedBefore, Sealed, Untouched, BackedUpBeforeRemoval
<1> QED
  BY <1>1, Invariance, PTL

\* Evidence and journals that say "rolled-back" never lie, after any number
\* of signals, SIGKILLs, power losses and repeated recoveries.
THEOREM RollbackIsHonest == Spec => []RolledBackIsRestored
<1>1. IInv => RolledBackIsRestored
  BY DEF IInv, PhasesTrue, Untouched, RolledBackIsRestored
<1> QED
  BY <1>1, Invariance, PTL

\* After the commit point only --rollback changes a file of the prefix.
THEOREM CommitIsKept == Spec => OnlyRollbackUndoes
<1>1. ASSUME IInv, [Next]_vars, Decided, env' # env
      PROVE  tx.cmd = "rollback"
  <2>1. \/ \E f \in Files : RemoveOldFile(f) \/ InstallFile(f) \/ UninstallFile(f)
        \/ LinkTemporary \/ PowerLoss
    BY <1>1 DEF Next, Work, Apply, Restore, Handler, Recovery, JournalApply,
       AdvanceJournal, disk, vars, StartApply, InitializeBackupRoot,
       CreateBackup, SealJournal, JournalRemoval, MutationStarted,
       FsyncNewInstall, StartPostAudit, EndPostAudit, PublishSuccess,
       JournalCommit, CleanTemporaries, EndUninstall, WriteTemporary,
       DropTemporary, VerifyOldInventory, KeepCommit, RollBack,
       NothingToRollBack, RolledBack, PublishFailure, JournalFailure,
       StartRecovery, RefuseCommitted, Reopen, PublishRecovery, RefuseEvidence,
       CloseRecovery, ConsumerEnter, ConsumerLeave, Fault, FaultInBody,
       FaultInRollback, FaultInRecovery, Kill
  <2>2. tx.pc # "idle" => tx.cmd \in {"apply", "recover", "rollback"}
    BY <1>1, ProcessTypes DEF IInv, TypeOK, ProcessShape
  <2>3. CASE \E f \in Files : RemoveOldFile(f) \/ InstallFile(f)
    BY <1>1, <2>3 DEF IInv, TerminalKnown, ProcessShape, ApplyOnly, TryBody,
       Decided, RemoveOldFile, InstallFile
  <2>4. CASE (\E f \in Files : UninstallFile(f)) \/ LinkTemporary
    BY <1>1, <2>2, <2>4 DEF IInv, TerminalKnown, Restoring, Decided,
       UninstallFile, LinkTemporary
  <2>5. CASE PowerLoss
    BY <1>1, <2>5 DEF IInv, TypeOK, Installed, Decided, PowerLoss
  <2> QED
    BY <2>1, <2>3, <2>4, <2>5
<1>2. IInv /\ [Next]_vars => [Decided /\ env' # env => tx.cmd = "rollback"]_vars
  BY <1>1
<1> QED
  BY <1>2, Invariance, PTL DEF Spec, OnlyRollbackUndoes

-----------------------------------------------------------------------------
(* The environment lock. *)

\* The shared and the exclusive side of the lock exclude each other.
LockOK == consumer => tx = NoProcess

\* Only the process that holds the lock works, or is struck by a fault.
LEMMA WorkersHoldTheLock ==
    ASSUME Work \/ Fault
    PROVE  tx # NoProcess
<1>1. NoProcess.pc = "idle" /\ NoProcess.cmd = "none"
  BY NoProcessFacts
<1>2. CASE Apply \/ StartPostAudit \/ EndPostAudit
  BY <1>1, <1>2 DEF Apply, InitializeBackupRoot, CreateBackup, SealJournal,
     JournalRemoval, MutationStarted, JournalApply, AdvanceJournal,
     FsyncNewInstall, RemoveOldFile, InstallFile, PublishSuccess, JournalCommit,
     StartPostAudit, EndPostAudit
<1>3. CASE Restore
  BY <1>1, <1>3 DEF Restore, CleanTemporaries, EndUninstall, UninstallFile,
     WriteTemporary, LinkTemporary, DropTemporary, VerifyOldInventory
<1>4. CASE Handler \/ Recovery
  BY <1>1, <1>4 DEF Handler, KeepCommit, RollBack, NothingToRollBack, RolledBack,
     PublishFailure, JournalFailure, Recovery, RefuseCommitted, Reopen,
     PublishRecovery, RefuseEvidence, CloseRecovery, Attesting
<1>5. CASE Fault
  BY <1>1, <1>5 DEF Fault, FaultInBody, FaultInRollback, FaultInRecovery
<1> QED
  BY <1>2, <1>3, <1>4, <1>5 DEF Work

\* Everybody else takes the lock, or drops it.
LEMMA LockSteps == LockOK /\ [Next]_vars => LockOK'
<1> SUFFICES ASSUME LockOK, [Next]_vars PROVE LockOK'
  OBVIOUS
<1>1. CASE Work \/ Fault
  <2>1. consumer' = consumer
    BY <1>1 DEF Work, Fault, Apply, InitializeBackupRoot, CreateBackup,
       SealJournal, JournalRemoval, MutationStarted, JournalApply,
       AdvanceJournal, FsyncNewInstall, RemoveOldFile, InstallFile,
       PublishSuccess, JournalCommit, StartPostAudit, EndPostAudit, Restore,
       CleanTemporaries, EndUninstall, UninstallFile, WriteTemporary,
       LinkTemporary, DropTemporary, VerifyOldInventory, Handler, KeepCommit,
       RollBack, NothingToRollBack, RolledBack, PublishFailure, JournalFailure,
       Recovery, RefuseCommitted, Reopen, PublishRecovery, RefuseEvidence,
       CloseRecovery
  <2> QED
    BY <1>1, <2>1, WorkersHoldTheLock DEF LockOK
<1>2. CASE StartApply \/ \E cmd \in Commands, path \in Paths : StartRecovery(cmd, path)
  BY <1>2 DEF StartApply, StartRecovery, ExclusiveLock, LockOK
<1>3. CASE ConsumerEnter \/ ConsumerLeave \/ Kill \/ PowerLoss \/ UNCHANGED vars
  BY <1>3 DEF ConsumerEnter, ConsumerLeave, Kill, PowerLoss, End, vars, LockOK
<1> QED
  BY <1>1, <1>2, <1>3 DEF Next

\* Nothing changes a file under a framework consumer that run_isolated.py has
\* admitted and that is still there afterwards.
THEOREM ConsumersSeeNoChange == Spec => PrefixFrozenUnderConsumer
<1>1. Init => LockOK
  BY DEF Init, LockOK
<1>2. ASSUME LockOK, [Next]_vars, consumer, consumer' PROVE env' = env
  <2>1. ~(Work \/ Fault)
    BY <1>2, WorkersHoldTheLock DEF LockOK
  <2> QED
    BY <1>2, <2>1 DEF Next, StartApply, StartRecovery, ConsumerEnter, ConsumerLeave,
       Kill, PowerLoss, disk, vars
<1>3. LockOK /\ [Next]_vars => [consumer /\ consumer' => env' = env]_vars
  BY <1>2
<1> QED
  BY <1>1, <1>3, LockSteps, PTL DEF Spec, PrefixFrozenUnderConsumer

-----------------------------------------------------------------------------
(* The transaction implements Switch. *)

\* A file of each kind tells the two distributions apart.
LEMMA Witnesses ==
    ASSUME NEW e
    PROVE  /\ e = OldEnv => /\ \A f \in Files : e[f] \in {"old", "absent"}
                            /\ e[Metadata] = "old" /\ e[Finder] = "old"
                            /\ \A f \in OldFiles : e[f] = "old"
           /\ e = NewEnv => /\ \A f \in Files : e[f] \in {"new", "absent"}
                            /\ e[Metadata] = "new" /\ e[Finder] = "absent"
                            /\ \A f \in NewFiles : e[f] = "new"
           /\ Metadata \in Files /\ Finder \in Files
BY InventoryAssumption DEF OldEnv, NewEnv, Files

\* The files change one at a time, or are lost together with their names.
LEMMA EnvSteps ==
    ASSUME [Next]_vars, env' # env
    PROVE  \/ \E f \in Files : RemoveOldFile(f) \/ InstallFile(f) \/ UninstallFile(f)
           \/ LinkTemporary \/ PowerLoss
BY DEF Next, Work, Apply, Restore, Handler, Recovery, JournalApply,
   AdvanceJournal, disk, vars, StartApply, InitializeBackupRoot, CreateBackup,
   SealJournal, JournalRemoval, MutationStarted, FsyncNewInstall,
   StartPostAudit, EndPostAudit, PublishSuccess, JournalCommit,
   CleanTemporaries, EndUninstall, WriteTemporary, DropTemporary,
   VerifyOldInventory, KeepCommit, RollBack, NothingToRollBack, RolledBack,
   PublishFailure, JournalFailure, StartRecovery, RefuseCommitted, Reopen,
   PublishRecovery, RefuseEvidence, CloseRecovery, ConsumerEnter,
   ConsumerLeave, Fault, FaultInBody, FaultInRollback, FaultInRecovery, Kill

\* The terminal evidence is published in two places.
LEMMA TerminalSteps ==
    ASSUME [Next]_vars, terminal' # terminal
    PROVE  PublishSuccess \/ PublishFailure
BY DEF Next, Work, Apply, Restore, Handler, Recovery, JournalApply,
   AdvanceJournal, records, vars, StartApply, InitializeBackupRoot,
   CreateBackup, SealJournal, JournalRemoval, MutationStarted, RemoveOldFile,
   InstallFile, UninstallFile, LinkTemporary, PowerLoss,
   FsyncNewInstall, StartPostAudit, EndPostAudit, JournalCommit,
   CleanTemporaries, EndUninstall, WriteTemporary, DropTemporary,
   VerifyOldInventory, KeepCommit, RollBack, NothingToRollBack, RolledBack,
   JournalFailure, StartRecovery, RefuseCommitted, Reopen, PublishRecovery,
   RefuseEvidence, CloseRecovery, ConsumerEnter, ConsumerLeave, Fault,
   FaultInBody, FaultInRollback, FaultInRecovery, Kill

\* An apply takes an undecided prefix from old over pieces to new.
LEMMA ApplyMoves ==
    ASSUME IInv, NEW f \in Files, RemoveOldFile(f) \/ InstallFile(f)
    PROVE  /\ terminal' = terminal /\ ~Decided
           /\ \/ env = OldEnv /\ env' # OldEnv /\ env' # NewEnv
              \/ env # OldEnv /\ env # NewEnv /\ env' # OldEnv
<1>1. terminal' = terminal /\ ~Decided
  BY DEF IInv, TerminalKnown, ProcessShape, ApplyOnly, TryBody, Decided,
     RemoveOldFile, InstallFile, records
<1>2. CASE RemoveOldFile(f)
  <2>1. f \in OldFiles /\ env[f] = "old" /\ env'[f] = "absent"
    BY <1>2 DEF RemoveOldFile, StillOld, IInv, TypeOK, Files
  <2>2. env # NewEnv /\ env' # OldEnv
    BY <2>1, Witnesses, Zenon DEF Files
  <2>3. PICK g \in NewFiles \ OldFiles : TRUE
    BY InventoryAssumption
  <2>4. env = OldEnv => env' # NewEnv
    BY <1>2, <2>3, InventoryAssumption DEF RemoveOldFile, OldEnv, NewEnv, Files
  <2> QED
    BY <1>1, <2>2, <2>4
<1>3. CASE InstallFile(f)
  <2>1. /\ f \in NewFiles /\ env[f] # "new"
        /\ \/ env[f] = "absent" /\ env'[f] = "partial"
           \/ env[f] = "partial" /\ env'[f] = "new"
    BY <1>3 DEF InstallFile, ToInstall, IInv, TypeOK
  <2>2. env # NewEnv /\ env' # OldEnv
    BY <2>1, Witnesses
  <2>3. env = OldEnv => env' # NewEnv
    BY <2>1, Witnesses
  <2> QED
    BY <1>1, <2>2, <2>3
<1> QED
  BY <1>2, <1>3

\* A restoration, and a power loss, only take a new prefix apart, and put the
\* pieces back as the old one.
LEMMA RestoreMoves ==
    ASSUME IInv, env' # env,
           LinkTemporary \/ PowerLoss \/ \E f \in Files : UninstallFile(f)
    PROVE  /\ terminal' = terminal
           /\ \/ env = NewEnv /\ env' # OldEnv /\ env' # NewEnv
              \/ env # OldEnv /\ env # NewEnv /\ env' # NewEnv
<1>1. terminal' = terminal
  BY DEF LinkTemporary, PowerLoss, UninstallFile, records
<1>2. CASE LinkTemporary
  <2>1. NextMissing \in Missing
    BY <1>2 DEF LinkTemporary, NextMissing
  <2>2. /\ NextMissing \in OldFiles /\ env[NextMissing] = "absent"
        /\ env'[NextMissing] = "old"
    BY <1>2, <2>1 DEF LinkTemporary, Missing, IInv, TypeOK, Files
  <2>3. env # OldEnv /\ env' # NewEnv
    BY <2>2, Witnesses DEF Files
  <2>4. env # NewEnv
    <3>1. ToUninstall = {}
      BY <1>2 DEF LinkTemporary, IInv, RestorationShape, Restoring
    <3> QED
      BY <3>1, Witnesses, InventoryAssumption DEF ToUninstall
  <2> QED
    BY <1>1, <2>3, <2>4
<1>3. CASE PowerLoss
  <2>1. PICK lost \in SUBSET unsynced :
          env' = [f \in Files |-> IF f \in lost THEN "absent" ELSE env[f]]
    BY <1>3 DEF PowerLoss
  <2>2. PICK f \in lost : TRUE
    <3>1. lost = {} => env' = env
      BY <2>1 DEF IInv, TypeOK
    <3> QED
      BY <3>1
  <2>3. f \in NewFiles /\ f \in Files /\ env[f] \in {"partial", "new"} /\ env'[f] = "absent"
    BY <2>1, <2>2 DEF IInv, TypeOK, Provenance, Files
  <2>4. env # OldEnv /\ env' # NewEnv
    BY <2>3, Witnesses
  <2>5. env = NewEnv => env' # OldEnv
    BY <2>1, Witnesses
  <2> QED
    BY <1>1, <2>4, <2>5
<1>4. ASSUME NEW f \in Files, UninstallFile(f)
      PROVE  /\ env # OldEnv /\ env' # NewEnv
             /\ env = NewEnv => env' # OldEnv
  <2>1. /\ f \in NewFiles /\ env[f] \notin {"absent", "old"}
        /\ env' = [env EXCEPT ![f] = "absent"] /\ env'[f] = "absent"
    BY <1>4 DEF UninstallFile, ToUninstall, IInv, TypeOK
  <2>2. env # OldEnv /\ env' # NewEnv
    BY <2>1, Witnesses
  <2>3. env = NewEnv => env'[Finder] = "absent"
    BY <2>1, Witnesses DEF IInv, TypeOK
  <2> QED
    BY <2>2, <2>3, Witnesses
<1> QED
  BY <1>1, <1>2, <1>3, <1>4

\* Every step of the transaction is a step of the switch, or leaves it alone.
LEMMA SwitchSteps ==
    ASSUME IInv, [Next]_vars
    PROVE  [Environment!Next]_Environment!vars
<1>1. ASSUME NEW f \in Files, RemoveOldFile(f) \/ InstallFile(f)
      PROVE  [Environment!Next]_Environment!vars
  <2>1. terminal' = terminal /\ ~Decided
    BY <1>1, ApplyMoves
  <2>2. CASE env = OldEnv
    <3>1. Environment!TakeApart
      BY <2>1, <2>2, <1>1, ApplyMoves, EnvFacts DEF Environment!TakeApart, Decided
    <3> QED
      BY <3>1 DEF Environment!Next
  <2>3. CASE env # OldEnv /\ env' = NewEnv
    <3>1. Environment!Assemble
      BY <2>1, <2>3, <1>1, ApplyMoves, EnvFacts DEF Environment!Assemble, Decided
    <3> QED
      BY <3>1 DEF Environment!Next
  <2>4. CASE env # OldEnv /\ env' # NewEnv
    BY <2>1, <2>4, <1>1, ApplyMoves DEF Environment!vars, Decided
  <2> QED
    BY <2>2, <2>3, <2>4
<1>2. ASSUME env' # env,
             LinkTemporary \/ PowerLoss \/ \E f \in Files : UninstallFile(f)
      PROVE  [Environment!Next]_Environment!vars
  <2>1. terminal' = terminal
    BY <1>2, RestoreMoves
  <2>2. CASE env = NewEnv
    <3>1. Environment!Undo \/ Environment!Disassemble
      BY <2>1, <2>2, <1>2, RestoreMoves, EnvFacts
         DEF Environment!Undo, Environment!Disassemble, Decided
    <3> QED
      BY <3>1 DEF Environment!Next
  <2>3. CASE env # NewEnv /\ env' = OldEnv
    <3>1. Environment!Restore
      BY <2>1, <2>3, <1>2, RestoreMoves, EnvFacts DEF Environment!Restore, Decided
    <3> QED
      BY <3>1 DEF Environment!Next
  <2>4. CASE env # NewEnv /\ env' # OldEnv
    BY <2>1, <2>4, <1>2, RestoreMoves DEF Environment!vars, Decided
  <2> QED
    BY <2>2, <2>3, <2>4
<1>3. CASE env' = env /\ terminal' # terminal
  <2>1. CASE PublishSuccess
    <3>1. env = NewEnv /\ terminal = "none" /\ terminal' = "committed"
      BY <2>1 DEF PublishSuccess, IInv, Installed, TerminalKnown, ProcessShape,
         ApplyOnly, TryBody
    <3>2. Environment!Commit
      BY <1>3, <3>1, EnvFacts DEF Environment!Commit, Decided
    <3> QED
      BY <3>2 DEF Environment!Next
  <2>2. CASE PublishFailure
    <3>1. terminal = "none" /\ terminal' # "committed"
      BY <1>3, <2>2, ProcessTypes DEF PublishFailure, IInv, TypeOK
    <3> QED
      BY <1>3, <3>1 DEF Environment!vars, Decided
  <2> QED
    BY <1>3, <2>1, <2>2, TerminalSteps
<1>4. CASE env' = env /\ terminal' = terminal
  BY <1>4 DEF Environment!vars, Decided
<1> QED
  BY <1>1, <1>2, <1>3, <1>4, EnvSteps

\* The transaction, with all its faults, crashes and repeated recoveries, is
\* an atomic switch that only an explicit rollback takes back.
THEOREM SwitchIsImplemented == Spec => ImplementsSwitch
<1>1. Init => Environment!Init
  BY EnvFacts DEF Init, Environment!Init, Decided
<1>2. IInv /\ [Next]_vars => [Environment!Next]_Environment!vars
  BY SwitchSteps
<1> QED
  BY <1>1, <1>2, Invariance, PTL DEF Spec, ImplementsSwitch, Environment!Spec

-----------------------------------------------------------------------------
(* The journal tells the truth about the prefix.                           *)

\* The phase an apply has last written, by its place.
PhaseAt ==
    [init |-> "absent", backup |-> "initializing", seal |-> "initializing",
     begin |-> "prepared", mutate |-> "removing-old", remove |-> "removing-old",
     emptied |-> "old-removed", install |-> "installing-new",
     synced |-> "installing-new", installed |-> "new-installed",
     audit |-> "post-auditing", viewed |-> "post-auditing",
     audited |-> "post-auditing", decide |-> "post-audited",
     publish |-> "committing", commit |-> "committing"]

ApplyPhase == tx.cmd = "apply" /\ tx.pc \in TryBody => journal.phase = PhaseAt[tx.pc]

TellInv ==
    /\ JournalTellsPrefix /\ ApplyPhase
    /\ journal.phase \in OldPhases \ {"rolled-back"} => ~journal.mutated
    /\ tx.pc = "synced" => env = NewEnv
    /\ tx.cmd = "apply" /\ tx.pc \in TryBody \ {"viewed"} => ~view

\* A prefix without old bytes into which everything is installed is complete.
LEMMA NewFacts ==
    ASSUME TypeOK, Provenance, \A f \in Files : env[f] # "old", ToInstall = {}
    PROVE  env = NewEnv
<1>1. ASSUME NEW f \in Files PROVE env[f] = NewEnv[f]
  <2>1. CASE f \in NewFiles
    BY <2>1 DEF ToInstall, NewEnv
  <2>2. CASE f \notin NewFiles
    BY <2>2 DEF TypeOK, Provenance, NewEnv
  <2> QED
    BY <2>1, <2>2
<1> QED
  BY <1>1 DEF TypeOK, NewEnv

\* A step of the apply leads to the place whose phase the journal holds.
LEMMA TellApply ==
    ASSUME IInv, IInv', TellInv, Apply \/ StartApply
    PROVE  TellInv'
<1> USE DEF TellInv, ApplyPhase, JournalTellsPrefix, PhaseAt, OldPhases, NewPhases,
        TryBody, Goto, Journal
<1>0. tx \in Processes
  BY DEF IInv, TypeOK
<1>1. CASE StartApply
  BY <1>1 DEF StartApply, NoProcess, NoJournal, disk, records, IInv, UntouchedBefore,
     Untouched
<1>2. CASE InitializeBackupRoot \/ CreateBackup \/ SealJournal \/ JournalRemoval
  <2>1. env = OldEnv /\ env' = env /\ unsynced' = unsynced /\ view' = view
    BY <1>2 DEF InitializeBackupRoot, CreateBackup, SealJournal, JournalRemoval,
       IInv, UntouchedBefore, Untouched, Sealed, ProcessShape, ApplyOnly, disk
  <2>2. \A f \in Files : env[f] \in {"old", "absent"}
    BY <2>1 DEF OldEnv
  <2>3. CASE InitializeBackupRoot
    BY <1>0, <2>1, <2>2, <2>3 DEF InitializeBackupRoot, Processes, IInv, ProcessShape,
       ApplyOnly
  <2>5. CASE CreateBackup
    <3>1. /\ tx.pc = "backup" /\ tx'.pc = "seal" /\ tx'.cmd = tx.cmd
          /\ journal' = journal
      BY <1>0, <2>5 DEF CreateBackup, Processes
    <3> QED
      BY <2>1, <2>2, <3>1 DEF IInv, ProcessShape, ApplyOnly
  <2>4. CASE SealJournal \/ JournalRemoval
    BY <1>0, <2>1, <2>2, <2>4 DEF SealJournal, JournalRemoval, Processes, IInv,
       ProcessShape, ApplyOnly
  <2> QED
    BY <1>2, <2>3, <2>4, <2>5
<1>3. CASE MutationStarted
  BY <1>0, <1>3 DEF MutationStarted, disk, records, Processes, IInv, ProcessShape, ApplyOnly
<1>4. ASSUME NEW f \in Files, RemoveOldFile(f) PROVE TellInv'
  <2>1. journal.phase = "removing-old" /\ journal' = journal /\ tx' = tx /\ view' = view
    BY <1>4 DEF RemoveOldFile, records, IInv, ProcessShape, ApplyOnly
  <2>2. \A g \in Files : env'[g] \in {"old", "absent"}
    BY <1>4, <2>1 DEF RemoveOldFile, IInv, TypeOK
  <2> QED
    BY <1>4, <2>1, <2>2 DEF RemoveOldFile
<1>5. ASSUME NEW f \in Files, InstallFile(f) PROVE TellInv'
  <2>1. journal.phase = "installing-new" /\ journal' = journal /\ tx' = tx /\ view' = view
    BY <1>5 DEF InstallFile, records, IInv, ProcessShape, ApplyOnly
  <2>2. \A g \in Files : env'[g] # "old"
    BY <1>5, <2>1 DEF InstallFile, IInv, TypeOK
  <2> QED
    BY <1>5, <2>1, <2>2 DEF InstallFile
<1>6. CASE FsyncNewInstall
  <2>1. journal.phase = "installing-new" /\ journal' = journal /\ env' = env /\ view' = view
    BY <1>6 DEF FsyncNewInstall, records, IInv, ProcessShape, ApplyOnly
  <2>2. env = NewEnv
    BY <1>6, <2>1, NewFacts DEF FsyncNewInstall, IInv
  <2> QED
    BY <1>0, <1>6, <2>1, <2>2 DEF FsyncNewInstall, Processes, IInv, ProcessShape, ApplyOnly
<1>7. CASE JournalApply
  <2>0. env' = env /\ unsynced' = unsynced /\ view' = view
    BY <1>7 DEF JournalApply, AdvanceJournal, disk
  <2>1. CASE StillOld = {} /\ AdvanceJournal("remove", "old-removed", "emptied")
    <3>1. \A f \in Files : env[f] = "absent"
      BY <2>1 DEF AdvanceJournal, StillOld, IInv, TypeOK, Provenance, ProcessShape,
         ApplyOnly
    <3> QED
      BY <1>0, <2>0, <2>1, <3>1 DEF AdvanceJournal, Processes, IInv, ProcessShape, ApplyOnly
  <2>2. CASE AdvanceJournal("emptied", "installing-new", "install")
    BY <1>0, <2>0, <2>2 DEF AdvanceJournal, Processes, IInv, ProcessShape, ApplyOnly
  <2>3. CASE AdvanceJournal("synced", "new-installed", "installed")
    BY <1>0, <2>0, <2>3 DEF AdvanceJournal, Processes, IInv, Installed, ProcessShape,
       ApplyOnly
  <2>4. CASE AdvanceJournal("installed", "post-auditing", "audit")
    BY <1>0, <2>0, <2>4 DEF AdvanceJournal, Processes, IInv, ProcessShape, ApplyOnly
  <2>5. CASE AdvanceJournal("audited", "post-audited", "decide")
    BY <1>0, <2>0, <2>5 DEF AdvanceJournal, Processes, IInv, ProcessShape, ApplyOnly
  <2>6. CASE AdvanceJournal("decide", "committing", "publish")
    BY <1>0, <2>0, <2>6 DEF AdvanceJournal, Processes, IInv, ProcessShape, ApplyOnly
  <2> QED
    BY <1>7, <2>1, <2>2, <2>3, <2>4, <2>5, <2>6 DEF JournalApply
<1>8. CASE PublishSuccess
  BY <1>0, <1>8 DEF PublishSuccess, disk, Processes, IInv, ProcessShape, ApplyOnly
<1>9. CASE JournalCommit
  BY <1>9 DEF JournalCommit, disk, End, NoProcess, IInv, Installed
<1> QED
  BY <1>1, <1>2, <1>3, <1>4, <1>5, <1>6, <1>7, <1>8, <1>9 DEF Apply

\* A process that is not inside the body of an apply has to keep only what the
\* journal says of the prefix.
LEMMA TellOutside ==
    ASSUME TellInv, ~(tx'.cmd = "apply" /\ tx'.pc \in TryBody), tx'.pc # "synced",
           JournalTellsPrefix',
           journal'.phase \in OldPhases \ {"rolled-back"} => ~journal'.mutated
    PROVE  TellInv'
BY DEF TellInv, ApplyPhase, TryBody

\* The audits look, and put the view up and away again.
LEMMA TellAudit ==
    ASSUME IInv, TellInv, StartPostAudit \/ EndPostAudit
    PROVE  TellInv'
<1> USE DEF TellInv, ApplyPhase, JournalTellsPrefix, PhaseAt, TryBody, Goto
<1>0. tx \in Processes /\ env' = env /\ unsynced' = unsynced /\ journal' = journal
  BY DEF IInv, TypeOK, StartPostAudit, EndPostAudit, records
<1>1. CASE StartPostAudit
  BY <1>0, <1>1 DEF StartPostAudit, Processes, IInv, ProcessShape, ApplyOnly
<1>2. CASE EndPostAudit
  BY <1>0, <1>2 DEF EndPostAudit, Processes, IInv, ProcessShape, ApplyOnly
<1> QED
  BY <1>1, <1>2

\* A restoration works under a journal that says so, and claims nothing else.
LEMMA TellRestore ==
    ASSUME IInv, TellInv, Restore
    PROVE  TellInv'
<1>1. journal.phase = "rolling-back" /\ journal' = journal
  BY DEF Restore, CleanTemporaries, EndUninstall, UninstallFile, WriteTemporary,
     LinkTemporary, DropTemporary, VerifyOldInventory, records, IInv,
     RestorationShape, Restoring
<1>2. tx'.pc \in Restoring
  BY DEF Restore, CleanTemporaries, EndUninstall, UninstallFile, WriteTemporary,
     LinkTemporary, DropTemporary, VerifyOldInventory, Goto, IInv, TypeOK,
     Processes, Restoring
<1>3. JournalTellsPrefix'
  BY <1>1 DEF JournalTellsPrefix, OldPhases, NewPhases
<1> QED
  BY <1>1, <1>2, <1>3, TellOutside DEF TellInv, OldPhases, Restoring, TryBody

\* The handler of an apply writes what it has found: a published commit, a
\* restoration to come, or the environment back.
LEMMA TellHandler ==
    ASSUME IInv, IInv', TellInv, Handler
    PROVE  TellInv'
<1> USE DEF Journal, Goto, End
<1>0. tx \in Processes /\ env' = env /\ unsynced' = unsynced
  BY DEF IInv, TypeOK, Handler, KeepCommit, RollBack, NothingToRollBack, RolledBack,
     PublishFailure, JournalFailure, disk
<1>1. tx'.pc \in {"idle", "restore", "report", "reported"}
  BY <1>0, NoProcessFacts DEF Handler, KeepCommit, RollBack, NothingToRollBack,
     RolledBack, PublishFailure, JournalFailure, Processes
<1>2. \/ journal' = journal
      \/ journal'.phase \in {"rolling-back", "rollback-failed"}
      \/ journal'.phase = "committed" /\ env = NewEnv /\ unsynced = {}
      \/ journal'.phase = "rolled-back" /\ env = OldEnv
  <2>1. CASE KeepCommit
    BY <2>1 DEF KeepCommit, CommitObserved, IInv, Installed
  <2>2. CASE RolledBack
    BY <2>2 DEF RolledBack, IInv, RestorationShape, Untouched
  <2>3. CASE JournalFailure
    BY <2>3, ProcessTypes DEF JournalFailure, IInv, TypeOK, TerminalKnown, Untouched
  <2>4. CASE RollBack \/ NothingToRollBack \/ PublishFailure
    BY <2>4 DEF RollBack, NothingToRollBack, PublishFailure, records
  <2> QED
    BY <2>1, <2>2, <2>3, <2>4 DEF Handler
<1>3. JournalTellsPrefix'
  BY <1>0, <1>2 DEF TellInv, JournalTellsPrefix, OldPhases, NewPhases
<1>4. journal'.phase \in OldPhases \ {"rolled-back"} => ~journal'.mutated
  BY <1>2 DEF TellInv, OldPhases
<1> QED
  BY <1>1, <1>3, <1>4, TellOutside DEF TryBody

\* The recovery commands write what they have verified.
LEMMA TellRecovery ==
    ASSUME IInv, IInv', TellInv,
           \/ Recovery
           \/ \E cmd \in Commands, path \in Paths : StartRecovery(cmd, path)
    PROVE  TellInv'
<1> USE DEF Journal, Goto, End
<1>0. tx \in Processes /\ env' = env /\ unsynced' = unsynced
  BY DEF IInv, TypeOK, Recovery, RefuseCommitted, Reopen, PublishRecovery,
     RefuseEvidence, CloseRecovery, StartRecovery, disk
<1>1. tx'.pc \in {"idle", "restore", "close", "nothing", "recheck", "reopen"}
  BY <1>0, NoProcessFacts DEF Recovery, RefuseCommitted, Reopen, PublishRecovery,
     RefuseEvidence, CloseRecovery, StartRecovery, Processes
<1>2. \/ journal' = journal
      \/ journal'.phase = "rolling-back"
      \/ journal'.phase = "committed" /\ env = NewEnv /\ unsynced = {}
      \/ journal'.phase = "rolled-back" /\ env = OldEnv
      \/ journal'.phase = "no-mutation" /\ env = OldEnv /\ ~journal'.mutated
  <2>1. CASE CloseRecovery
    <3>1. Closing /\ Installed /\ UntouchedBefore
      BY DEF IInv
    <3>2. CASE recovered[tx.path] = "no-mutation"
      BY <2>1, <3>1, <3>2 DEF CloseRecovery, Closing, UntouchedBefore, Untouched, Recovering
    <3>3. CASE recovered[tx.path] = "committed-verified"
      BY <2>1, <3>1, <3>3 DEF CloseRecovery, Closing, Installed, Recovering
    <3>4. CASE recovered[tx.path] \in Recovering
      BY <2>1, <3>1, <3>4 DEF CloseRecovery, Closing, Untouched, Recovering
    <3> QED
      BY <2>1, <3>1, <3>2, <3>3, <3>4 DEF CloseRecovery, Closing
  <2>2. CASE Reopen \/ PublishRecovery
    BY <2>2 DEF Reopen, PublishRecovery
  <2>3. CASE \/ RefuseCommitted \/ RefuseEvidence
             \/ \E cmd \in Commands, path \in Paths : StartRecovery(cmd, path)
    <3>1. records' = records
      BY <2>3 DEF RefuseCommitted, RefuseEvidence, StartRecovery
    <3> QED
      BY <3>1 DEF records
  <2> QED
    BY <2>1, <2>2, <2>3 DEF Recovery
<1>3. JournalTellsPrefix'
  BY <1>0, <1>2 DEF TellInv, JournalTellsPrefix, OldPhases, NewPhases
<1>4. journal'.phase \in OldPhases \ {"rolled-back"} => ~journal'.mutated
  BY <1>2 DEF TellInv, OldPhases
<1> QED
  BY <1>1, <1>3, <1>4, TellOutside DEF TryBody

\* Consumers change nothing; an exception, a SIGKILL or a power loss leaves a
\* journal that still tells what is there: what a power loss takes away was
\* never said to be durable.
LEMMA TellInterrupted ==
    ASSUME IInv, TellInv,
           \/ ConsumerEnter \/ ConsumerLeave \/ Fault \/ Kill \/ PowerLoss
           \/ UNCHANGED vars
    PROVE  TellInv'
<1>0. tx \in Processes
  BY DEF IInv, TypeOK
<1>1. CASE ConsumerEnter \/ ConsumerLeave \/ UNCHANGED vars
  BY <1>1 DEF ConsumerEnter, ConsumerLeave, vars, disk, records, TellInv,
     JournalTellsPrefix, ApplyPhase
<1>2. CASE Fault
  <2>1. env' = env /\ unsynced' = unsynced
    BY <1>2 DEF Fault, FaultInBody, FaultInRollback, FaultInRecovery, disk
  <2>2. tx'.pc \in {"failing", "report", "idle"}
    BY <1>0, <1>2, NoProcessFacts DEF Fault, FaultInBody, FaultInRollback,
       FaultInRecovery, Goto, End, Processes
  <2>3. journal' = journal \/ journal'.phase = "rollback-failed"
    <3>1. \/ records' = records
          \/ journal' = [phase |-> "rollback-failed", sealed |-> TRUE, mutated |-> TRUE]
      BY <1>2 DEF Fault, FaultInBody, FaultInRollback, FaultInRecovery, Journal
    <3> QED
      BY <3>1 DEF records
  <2>4. JournalTellsPrefix'
    BY <2>1, <2>3 DEF TellInv, JournalTellsPrefix, OldPhases, NewPhases
  <2> QED
    BY <2>2, <2>3, <2>4, TellOutside DEF TellInv, TryBody, OldPhases
<1>3. CASE Kill
  BY <1>3, NoProcessFacts DEF Kill, End, disk, records, TellInv, JournalTellsPrefix,
     ApplyPhase, TryBody
<1>4. CASE PowerLoss
  <2>1. PICK lost \in SUBSET unsynced :
          env' = [f \in Files |-> IF f \in lost THEN "absent" ELSE env[f]]
    BY <1>4 DEF PowerLoss
  <2>2. journal' = journal /\ tx'.pc = "idle" /\ unsynced' = {}
    BY <1>4, NoProcessFacts DEF PowerLoss, records, End
  <2>3. unsynced = {} => env' = env
    BY <2>1 DEF IInv, TypeOK
  <2>4. env = OldEnv => unsynced = {}
    BY OldFacts DEF IInv
  <2>5. journal.phase \in {"removing-old", "old-removed"} => unsynced = {}
    BY DEF TellInv, JournalTellsPrefix, IInv, TypeOK, Provenance, Files
  <2>6. journal.phase = "installing-new" => \A f \in Files : env'[f] # "old"
    BY <2>1 DEF TellInv, JournalTellsPrefix
  <2>7. JournalTellsPrefix'
    BY <2>2, <2>3, <2>4, <2>5, <2>6 DEF TellInv, JournalTellsPrefix, OldPhases, NewPhases
  <2> QED
    BY <2>2, <2>7, TellOutside DEF TellInv, TryBody
<1> QED
  BY <1>1, <1>2, <1>3, <1>4

\* Every step keeps the journal, the place of the apply and the prefix in step.
LEMMA TellInvariance == Spec => []TellInv
<1>1. Init => TellInv
  BY NoProcessFacts DEF Init, NoJournal, TellInv, JournalTellsPrefix, ApplyPhase,
     OldPhases, NewPhases, TryBody
<1>2. IInv /\ TellInv /\ [Next]_vars => TellInv'
  <2> SUFFICES ASSUME IInv, TellInv, [Next]_vars PROVE TellInv'
    OBVIOUS
  <2>1. IInv'
    BY Steps
  <2> QED
    BY <2>1, TellApply, TellAudit, TellRestore, TellHandler, TellRecovery,
       TellInterrupted DEF Next, Work
<1> QED
  BY <1>1, <1>2, Invariance, PTL DEF Spec

\* Whatever happens, the durable journal from which recovery decides tells what
\* the prefix is: in every phase but those that remove, install or restore it
\* is complete, and durably so.
THEOREM JournalIsTruthful == Spec => []JournalTellsPrefix
<1>1. TellInv => JournalTellsPrefix
  BY DEF TellInv
<1> QED
  BY <1>1, TellInvariance, PTL

-----------------------------------------------------------------------------
(* The process that holds the lock is never stuck and does not go in circles*)

\* Wherever a step of the process has a condition besides its place, and no
\* other step has the opposite one, the condition holds.
StepIsThere ==
    /\ tx.pc = "begin" => OldVerifies
    /\ tx.pc = "remove" /\ StillOld # {} =>
         \E f \in StillOld : \A g \in StillOld : RemovalRank[f] <= RemovalRank[g]
    /\ tx.pc = "install" /\ ToInstall # {} =>
         \E f \in ToInstall :
            /\ env[f] \in {"absent", "partial"}
            /\ \A g \in ToInstall : InstallRank[f] <= InstallRank[g]
    /\ tx.pc = "audit" => env = NewEnv /\ ~view
    /\ tx.pc = "refill" => IF Missing = {} THEN OldVerifies ELSE NextMissing \notin temps
    /\ tx.pc = "link" => Missing # {}

\* How far a command has come, and what is left to do where it is.
Stage ==
    [nothing |-> 0, recheck |-> 0, reopen |-> 0, init |-> 1, backup |-> 2,
     seal |-> 3, begin |-> 4, mutate |-> 5, remove |-> 6, emptied |-> 7,
     install |-> 8, synced |-> 9, installed |-> 10, audit |-> 11, viewed |-> 12,
     audited |-> 13, attest |-> 13, decide |-> 14, publish |-> 15,
     commit |-> 16, failing |-> 17, restore |-> 18, uninstall |-> 19,
     refill |-> 20, link |-> 20, unlink |-> 20, restored |-> 21,
     report |-> 22, close |-> 22, reported |-> 23]
Turn(pc) == CASE pc = "link" -> 2 [] pc = "refill" -> 1 [] OTHER -> 0

Left ==
    CASE tx.pc = "remove" -> StillOld
      [] tx.pc = "install" -> {<<f, "create">> : f \in {g \in NewFiles : env[g] = "absent"}}
                              \cup {<<f, "write">> : f \in ToInstall}
      [] tx.pc = "uninstall" -> ToUninstall
      [] tx.pc \in {"refill", "link", "unlink"} -> Missing
      [] OTHER -> {}

\* Every step of the process ends it, takes it to a later stage, leaves it less
\* to do there, or takes its turn at the same file further.
WorkAdvances ==
    [][Work =>
         \/ tx' = NoProcess
         \/ Stage[tx'.pc] > Stage[tx.pc]
         \/ /\ Stage[tx'.pc] = Stage[tx.pc]
            /\ \/ Left' \subseteq Left /\ Left' # Left
               \/ Left' = Left /\ Turn(tx'.pc) > Turn(tx.pc)]_vars

\* Of the files that are left, one is the next in the order.
LEMMA LeastRank ==
    ASSUME NEW S, S # {}, NEW rank, \A f \in S : rank[f] \in Nat
    PROVE  \E f \in S : \A g \in S : rank[f] <= rank[g]
<1> DEFINE T == {rank[f] : f \in S}
           R == OpToRel(<, Nat)
<1>1. IsWellFoundedOn(R, Nat)
  BY NatLessThanWellFounded
<1>2. T \subseteq Nat /\ T # {}
  OBVIOUS
<1>3. PICK n \in T : \A k \in T : ~(<<k, n>> \in R)
  <2> HIDE DEF T, R
  <2> QED
    BY <1>1, <1>2, WFMin
<1>4. \A k \in T : ~(k < n)
  BY <1>2, <1>3 DEF OpToRel
<1> HIDE DEF R
<1>5. PICK f \in S : n = rank[f]
  OBVIOUS
<1>6. ASSUME NEW g \in S PROVE rank[f] <= rank[g]
  <2>1. rank[g] \in T
    OBVIOUS
  <2> QED
    BY <1>4, <1>5, <2>1
<1> QED
  BY <1>6

\* Once nothing new is left, an old path either is back or is still missing.
LEMMA NothingMissing ==
    ASSUME TypeOK, Provenance, ToUninstall = {}, Missing = {}
    PROVE  OldVerifies
BY InventoryAssumption DEF TypeOK, Provenance, ToUninstall, Missing, OldVerifies, Files

\* The invariants leave the process a next step wherever it is: together with
\* the fairness of a running process, this is why Settles holds.
LEMMA StepsAreThere == IInv /\ TellInv => StepIsThere
<1> SUFFICES ASSUME IInv, TellInv PROVE StepIsThere
  OBVIOUS
<1>1. tx.pc = "begin" => OldVerifies
  BY InventoryAssumption DEF IInv, ProcessShape, ApplyOnly, TryBody, Sealed, UntouchedBefore,
     Untouched, OldVerifies, OldEnv, Files
<1>2. ASSUME StillOld # {}
      PROVE  \E f \in StillOld : \A g \in StillOld : RemovalRank[f] <= RemovalRank[g]
  <2>1. \A f \in StillOld : RemovalRank[f] \in Nat
    BY InventoryAssumption DEF StillOld
  <2> QED
    BY <1>2, <2>1, LeastRank
<1>3. ASSUME tx.pc = "install", ToInstall # {}
      PROVE  \E f \in ToInstall :
               /\ env[f] \in {"absent", "partial"}
               /\ \A g \in ToInstall : InstallRank[f] <= InstallRank[g]
  <2>1. \A f \in ToInstall : InstallRank[f] \in Nat
    BY InventoryAssumption DEF ToInstall
  <2>2. PICK f \in ToInstall : \A g \in ToInstall : InstallRank[f] <= InstallRank[g]
    BY <1>3, <2>1, LeastRank
  <2>3. journal.phase = "installing-new"
    BY <1>3 DEF IInv, ProcessShape, ApplyOnly, TryBody, TellInv, ApplyPhase, PhaseAt
  <2>4. env[f] \in {"absent", "partial"}
    BY <2>3 DEF IInv, TypeOK, TellInv, JournalTellsPrefix, ToInstall, Files
  <2> QED
    BY <2>2, <2>4
<1>4. tx.pc = "audit" => env = NewEnv /\ ~view
  BY DEF IInv, ProcessShape, ApplyOnly, TryBody, TellInv, ApplyPhase, PhaseAt,
     JournalTellsPrefix, NewPhases
<1>5. tx.pc = "refill" => IF Missing = {} THEN OldVerifies ELSE NextMissing \notin temps
  BY NothingMissing DEF IInv, RestorationShape, Restoring
<1>6. tx.pc = "link" => Missing # {}
  BY DEF IInv, RestorationShape
<1> QED
  BY <1>1, <1>2, <1>3, <1>4, <1>5, <1>6 DEF StepIsThere

\* No command of replace_triton_environment.py is ever stuck: wherever it is, a
\* removal, an installation, an audit or a restoration can go on.
THEOREM CommandsGoOn == Spec => []StepIsThere
  BY StepsAreThere, TellInvariance, Invariance, PTL

\* The steps of the apply go to a later stage, or remove or install one more.
LEMMA ApplyAdvances ==
    ASSUME IInv, Apply
    PROVE  \/ tx' = NoProcess
           \/ Stage[tx'.pc] > Stage[tx.pc]
           \/ Stage[tx'.pc] = Stage[tx.pc] /\ Left' \subseteq Left /\ Left' # Left
<1>0. tx \in Processes
  BY DEF IInv, TypeOK
<1>1. CASE InitializeBackupRoot \/ SealJournal \/ JournalRemoval \/ FsyncNewInstall
  <2>1. \/ tx.pc = "init" /\ tx'.pc = "backup"
        \/ tx.pc = "seal" /\ tx'.pc = "begin"
        \/ tx.pc = "begin" /\ tx'.pc = "mutate"
        \/ tx.pc = "install" /\ tx'.pc = "synced"
    BY <1>0, <1>1 DEF InitializeBackupRoot, SealJournal, JournalRemoval, FsyncNewInstall,
       Goto, Processes
  <2> QED
    BY <2>1 DEF Stage
<1>2. CASE CreateBackup \/ MutationStarted \/ PublishSuccess
  <2>1. \/ tx.pc = "backup" /\ tx'.pc = "seal"
        \/ tx.pc = "mutate" /\ tx'.pc = "remove"
        \/ tx.pc = "publish" /\ tx'.pc = "commit"
    BY <1>0, <1>2 DEF CreateBackup, MutationStarted, PublishSuccess, Goto, Processes
  <2> QED
    BY <2>1 DEF Stage
<1>3. CASE JournalApply
  <2>1. \/ tx.pc = "remove" /\ tx'.pc = "emptied"
        \/ tx.pc = "emptied" /\ tx'.pc = "install"
        \/ tx.pc = "synced" /\ tx'.pc = "installed"
        \/ tx.pc = "installed" /\ tx'.pc = "audit"
        \/ tx.pc = "audited" /\ tx'.pc = "decide"
        \/ tx.pc = "decide" /\ tx'.pc = "publish"
    BY <1>0, <1>3 DEF JournalApply, AdvanceJournal, Goto, Processes
  <2> QED
    BY <2>1 DEF Stage
<1>4. CASE JournalCommit
  BY <1>4 DEF JournalCommit, End
<1>5. ASSUME NEW f \in Files, RemoveOldFile(f)
      PROVE  tx' = tx /\ Left' \subseteq Left /\ Left' # Left
  <2>1. tx.pc = "remove" /\ tx' = tx /\ f \in StillOld /\ env' = [env EXCEPT ![f] = "absent"]
    BY <1>5 DEF RemoveOldFile
  <2>2. Left = StillOld /\ Left' = StillOld'
    BY <2>1 DEF Left
  <2>3. StillOld' \subseteq StillOld /\ f \notin StillOld'
    BY <2>1 DEF StillOld, IInv, TypeOK, Files
  <2> QED
    BY <2>1, <2>2, <2>3
<1>6. ASSUME NEW f \in Files, InstallFile(f)
      PROVE  tx' = tx /\ Left' \subseteq Left /\ Left' # Left
  <2>1. /\ tx.pc = "install" /\ tx' = tx /\ f \in ToInstall
        /\ \/ env[f] = "absent" /\ env' = [env EXCEPT ![f] = "partial"]
           \/ env[f] = "partial" /\ env' = [env EXCEPT ![f] = "new"]
    BY <1>6 DEF InstallFile
  <2> DEFINE Created == {g \in NewFiles : env[g] = "absent"}
  <2>2. /\ Left = {<<g, "create">> : g \in Created} \cup {<<g, "write">> : g \in ToInstall}
        /\ Left' = {<<g, "create">> : g \in Created'} \cup {<<g, "write">> : g \in ToInstall'}
    BY <2>1 DEF Left
  <2>3. /\ Created' \subseteq Created /\ ToInstall' \subseteq ToInstall
        /\ \/ f \in Created /\ f \notin Created'
           \/ f \in ToInstall /\ f \notin ToInstall'
    <3>1. CASE env[f] = "absent" /\ env' = [env EXCEPT ![f] = "partial"]
      BY <2>1, <3>1 DEF ToInstall, IInv, TypeOK, Files
    <3>2. CASE env[f] = "partial" /\ env' = [env EXCEPT ![f] = "new"]
      BY <2>1, <3>2 DEF ToInstall, IInv, TypeOK, Files
    <3> QED
      BY <2>1, <3>1, <3>2
  <2> HIDE DEF Created
  <2>4. Left' \subseteq Left
    BY <2>2, <2>3
  <2>5. \E l \in Left : l \notin Left'
    <3>1. CASE f \in Created /\ f \notin Created'
      <4>1. <<f, "create">> \in Left
        BY <2>2, <3>1
      <4>2. <<f, "create">> \notin Left'
        BY <2>2, <3>1
      <4> QED
        BY <4>1, <4>2
    <3>2. CASE f \in ToInstall /\ f \notin ToInstall'
      <4>1. <<f, "write">> \in Left
        BY <2>2, <3>2
      <4>2. <<f, "write">> \notin Left'
        BY <2>2, <3>2
      <4> QED
        BY <4>1, <4>2
    <3> QED
      BY <2>3, <3>1, <3>2
  <2> QED
    BY <2>1, <2>4, <2>5
<1> QED
  BY <1>0, <1>1, <1>2, <1>3, <1>4, <1>5, <1>6 DEF Apply

\* A restoration works off the new files, then the old ones, each in turn.
LEMMA RestoreAdvances ==
    ASSUME IInv, Restore
    PROVE  \/ Stage[tx'.pc] > Stage[tx.pc]
           \/ /\ Stage[tx'.pc] = Stage[tx.pc]
              /\ \/ Left' \subseteq Left /\ Left' # Left
                 \/ Left' = Left /\ Turn(tx'.pc) > Turn(tx.pc)
<1>0. tx \in Processes
  BY DEF IInv, TypeOK
<1>1. CASE CleanTemporaries \/ EndUninstall \/ VerifyOldInventory
  <2>1. \/ tx.pc = "restore" /\ tx'.pc = "uninstall"
        \/ tx.pc = "uninstall" /\ tx'.pc = "refill"
        \/ tx.pc = "refill" /\ tx'.pc = "restored"
    BY <1>0, <1>1 DEF CleanTemporaries, EndUninstall, VerifyOldInventory, Goto, Processes
  <2> QED
    BY <2>1 DEF Stage
<1>2. ASSUME NEW f \in Files, UninstallFile(f)
      PROVE  tx' = tx /\ Left' \subseteq Left /\ Left' # Left
  <2>1. tx.pc = "uninstall" /\ tx' = tx /\ f \in ToUninstall /\ env' = [env EXCEPT ![f] = "absent"]
    BY <1>2 DEF UninstallFile
  <2>2. Left = ToUninstall /\ Left' = ToUninstall'
    BY <2>1 DEF Left
  <2>3. ToUninstall' \subseteq ToUninstall /\ f \notin ToUninstall'
    BY <2>1 DEF ToUninstall, IInv, TypeOK, Files
  <2> QED
    BY <2>1, <2>2, <2>3
<1>3. CASE WriteTemporary \/ DropTemporary
  <2>1. /\ \/ tx.pc = "refill" /\ tx'.pc = "link"
           \/ tx.pc = "unlink" /\ tx'.pc = "refill"
        /\ env' = env
    BY <1>0, <1>3 DEF WriteTemporary, DropTemporary, Goto, Processes
  <2>2. Left = Missing /\ Left' = Missing' /\ Missing' = Missing
    BY <2>1 DEF Left, Missing
  <2> QED
    BY <2>1, <2>2 DEF Stage, Turn
<1>4. CASE LinkTemporary
  <2>1. /\ tx.pc = "link" /\ tx'.pc = "unlink" /\ NextMissing \in Missing
        /\ env' = [env EXCEPT ![NextMissing] = "old"]
    BY <1>0, <1>4 DEF LinkTemporary, Goto, Processes, NextMissing
  <2>2. Left = Missing /\ Left' = Missing'
    BY <2>1 DEF Left
  <2>3. \E f \in Missing : Missing' \subseteq Missing /\ f \notin Missing'
    BY <2>1 DEF Missing, IInv, TypeOK, Files
  <2> QED
    BY <2>1, <2>2, <2>3 DEF Stage
<1> QED
  BY <1>0, <1>1, <1>2, <1>3, <1>4 DEF Restore

\* The audits, the handler and the recovery commands only go to later stages.
LEMMA OthersAdvance ==
    ASSUME IInv, StartPostAudit \/ EndPostAudit \/ Handler \/ Recovery
    PROVE  tx' = NoProcess \/ Stage[tx'.pc] > Stage[tx.pc]
<1>0. tx \in Processes
  BY DEF IInv, TypeOK
<1>1. CASE StartPostAudit \/ EndPostAudit
  <2>1. \/ tx.pc \in {"audit", "recheck"} /\ tx'.pc = "viewed"
        \/ tx.pc = "viewed" /\ tx'.pc \in {"audited", "attest"}
    BY <1>0, <1>1 DEF StartPostAudit, EndPostAudit, Goto, Processes
  <2> QED
    BY <2>1 DEF Stage
<1>2. CASE RollBack \/ NothingToRollBack \/ RolledBack
  <2>1. \/ tx.pc = "failing" /\ tx'.pc \in {"restore", "report"}
        \/ tx.pc = "restored" /\ tx'.pc = "report"
    BY <1>0, <1>2 DEF RollBack, NothingToRollBack, RolledBack, Goto, Processes
  <2> QED
    BY <2>1 DEF Stage
<1>3. CASE PublishFailure \/ Reopen \/ PublishRecovery
  <2>1. \/ tx' = NoProcess
        \/ tx.pc = "report" /\ tx'.pc = "reported"
        \/ tx.pc = "reopen" /\ tx'.pc = "restore"
        \/ tx.pc \in {"nothing", "attest", "restored"} /\ tx'.pc = "close"
    BY <1>0, <1>3 DEF PublishFailure, Reopen, PublishRecovery, Attesting, Goto, End, Processes
  <2> QED
    BY <2>1 DEF Stage
<1>4. CASE KeepCommit \/ JournalFailure \/ RefuseCommitted \/ RefuseEvidence \/ CloseRecovery
  BY <1>4 DEF KeepCommit, JournalFailure, RefuseCommitted, RefuseEvidence, CloseRecovery, End
<1> QED
  BY <1>1, <1>2, <1>3, <1>4 DEF Handler, Recovery

\* The safety half of Settles: the steps of a command that nothing interrupts
\* descend, first in the stages that remain, then in the files that are left
\* there, then in what is left of a file, so it comes to its end.
THEOREM CommandsAdvance == Spec => WorkAdvances
<1>1. IInv /\ [Next]_vars =>
        [Work =>
           \/ tx' = NoProcess
           \/ Stage[tx'.pc] > Stage[tx.pc]
           \/ /\ Stage[tx'.pc] = Stage[tx.pc]
              /\ \/ Left' \subseteq Left /\ Left' # Left
                 \/ Left' = Left /\ Turn(tx'.pc) > Turn(tx.pc)]_vars
  BY ApplyAdvances, RestoreAdvances, OthersAdvance DEF Work
<1> QED
  BY <1>1, Invariance, PTL DEF Spec, WorkAdvances

-----------------------------------------------------------------------------
(* Without interruptions no command leaves anything half done. *)

Quiet == faults = 0 /\ crashes = 0
Whole == env \in {OldEnv, NewEnv}

\* What an admission could have asked the journal for.
Settled == OldPhases \cup NewPhases

\* Without a fault or a crash a command starts from a whole prefix and leaves
\* one: only the process that holds the lock has it in pieces.
QuietInv ==
    Quiet =>
        /\ tx.pc \notin {"failing", "report", "reported"}
        /\ tx.cmd = "apply" => tx.pc \notin Restoring
        /\ tx.pc \in {"idle", "nothing", "recheck", "reopen"} => Whole

\* Where the quiet steps of a command lead, and what it leaves when it ends.
LEMMA QuietWork ==
    ASSUME IInv, QuietInv, Quiet, Work
    PROVE  /\ tx'.pc \notin {"failing", "report", "reported"}
           /\ tx'.cmd = "apply" => tx'.pc \notin Restoring
           /\ tx'.pc \notin {"nothing", "recheck", "reopen"}
           /\ tx'.pc = "idle" => Whole'
<1> USE DEF Goto, End
<1>0. tx \in Processes /\ ProcessShape
  BY DEF IInv, TypeOK
<1>1. CASE Apply
  <2>1. CASE JournalCommit
    BY <2>1, NoProcessFacts DEF JournalCommit, disk, IInv, Installed, Whole
  <2>2. CASE \E f \in Files : RemoveOldFile(f) \/ InstallFile(f)
    BY <2>2 DEF RemoveOldFile, InstallFile, QuietInv
  <2>3. CASE InitializeBackupRoot \/ SealJournal \/ JournalRemoval \/ FsyncNewInstall
    BY <1>0, <2>3 DEF InitializeBackupRoot, SealJournal, JournalRemoval, FsyncNewInstall,
       Processes, Restoring
  <2>4. CASE CreateBackup \/ MutationStarted \/ PublishSuccess
    BY <1>0, <2>4 DEF CreateBackup, MutationStarted, PublishSuccess, Processes, Restoring
  <2>5. CASE JournalApply
    BY <1>0, <2>5 DEF JournalApply, AdvanceJournal, Processes, Restoring
  <2> QED
    BY <1>1, <2>1, <2>2, <2>3, <2>4, <2>5 DEF Apply
<1>2. CASE StartPostAudit \/ EndPostAudit
  BY <1>0, <1>2 DEF StartPostAudit, EndPostAudit, Processes, Restoring
<1>3. CASE Restore
  <2>1. tx.pc \in Restoring /\ tx'.pc \in Restoring /\ tx'.cmd = tx.cmd
    BY <1>0, <1>3 DEF Restore, CleanTemporaries, EndUninstall, UninstallFile,
       WriteTemporary, LinkTemporary, DropTemporary, VerifyOldInventory, Processes,
       Restoring
  <2> QED
    BY <2>1 DEF QuietInv, Restoring
<1>4. CASE Handler
  BY <1>4 DEF Handler, KeepCommit, RollBack, NothingToRollBack, RolledBack,
     PublishFailure, JournalFailure, QuietInv, Restoring
<1>5. CASE Recovery
  <2>1. CASE Reopen \/ PublishRecovery
    BY <1>0, <2>1 DEF Reopen, PublishRecovery, Attesting, Processes, RecoverOnly,
       Recovering, ProcessShape, Restoring
  <2>2. CASE RefuseCommitted
    BY <2>2, NoProcessFacts DEF RefuseCommitted, disk, QuietInv, Whole
  <2>3. CASE RefuseEvidence
    <3>1. Whole
      BY <2>3 DEF RefuseEvidence, Attesting, QuietInv, IInv, Installed,
         RestorationShape, Untouched, Whole
    <3> QED
      BY <2>3, <3>1, NoProcessFacts DEF RefuseEvidence, disk, Whole
  <2>4. CASE CloseRecovery
    <3>1. Whole
      BY <2>4 DEF CloseRecovery, IInv, Closing, UntouchedBefore, Untouched, Whole
    <3> QED
      BY <2>4, <3>1, NoProcessFacts DEF CloseRecovery, disk, Whole
  <2> QED
    BY <1>5, <2>1, <2>2, <2>3, <2>4 DEF Recovery
<1> QED
  BY <1>1, <1>2, <1>3, <1>4, <1>5 DEF Work

\* A step that no fault or crash has come before is not one itself.
LEMMA QuietBefore ==
    ASSUME TypeOK, [Next]_vars, Quiet'
    PROVE  Quiet /\ ~Fault /\ ~Kill /\ ~PowerLoss
<1>1. ~Fault /\ ~Kill /\ ~PowerLoss
  BY DEF Quiet, TypeOK, Fault, Kill, PowerLoss
<1>2. CASE UNCHANGED vars
  BY <1>1, <1>2 DEF vars, Quiet
<1>3. CASE Work
  <2>1. bounds' = bounds
    BY <1>3 DEF Work, Apply, InitializeBackupRoot, CreateBackup, SealJournal,
       JournalRemoval, MutationStarted, JournalApply, AdvanceJournal, FsyncNewInstall,
       RemoveOldFile, InstallFile, PublishSuccess, JournalCommit, StartPostAudit,
       EndPostAudit, Restore, CleanTemporaries, EndUninstall, UninstallFile,
       WriteTemporary, LinkTemporary, DropTemporary, VerifyOldInventory, Handler,
       KeepCommit, RollBack, NothingToRollBack, RolledBack, PublishFailure,
       JournalFailure, Recovery, RefuseCommitted, Reopen, PublishRecovery,
       RefuseEvidence, CloseRecovery
  <2> QED
    BY <1>1, <2>1 DEF bounds, Quiet
<1>4. CASE \/ StartApply \/ ConsumerEnter \/ ConsumerLeave
           \/ \E cmd \in Commands, path \in Paths : StartRecovery(cmd, path)
  <2>1. bounds' = bounds
    BY <1>4 DEF StartApply, ConsumerEnter, ConsumerLeave, StartRecovery
  <2> QED
    BY <1>1, <2>1 DEF bounds, Quiet
<1> QED
  BY <1>1, <1>2, <1>3, <1>4 DEF Next

\* Every step of a system that nothing interrupts keeps that.
LEMMA QuietInvariance == Spec => []QuietInv
<1>1. Init => QuietInv
  BY NoProcessFacts DEF Init, QuietInv, Whole, Restoring
<1>2. IInv /\ QuietInv /\ [Next]_vars => QuietInv'
  <2> SUFFICES ASSUME IInv, QuietInv, [Next]_vars, Quiet' PROVE QuietInv'
    BY DEF QuietInv
  <2>0. Quiet /\ ~Fault /\ ~Kill /\ ~PowerLoss
    BY QuietBefore DEF IInv
  <2>1. CASE Work
    BY <2>0, <2>1, QuietWork DEF QuietInv
  <2>2. CASE StartApply
    BY <2>2, NoProcessFacts DEF StartApply, NoProcess, QuietInv, Restoring
  <2>3. CASE \E cmd \in Commands, path \in Paths : StartRecovery(cmd, path)
    <3>1. PICK cmd \in Commands, path \in Paths : StartRecovery(cmd, path)
      BY <2>3
    <3>2. /\ tx'.cmd = cmd /\ tx'.pc \in {"nothing", "recheck", "reopen"}
          /\ tx.pc = "idle" /\ env' = env
      BY <3>1, NoProcessFacts DEF StartRecovery, ExclusiveLock, NoProcess, disk
    <3> QED
      BY <2>0, <3>2 DEF QuietInv, Whole, Restoring
  <2>4. CASE ConsumerEnter \/ ConsumerLeave \/ UNCHANGED vars
    BY <2>0, <2>4 DEF ConsumerEnter, ConsumerLeave, vars, disk, QuietInv, Whole
  <2> QED
    BY <2>0, <2>1, <2>2, <2>3, <2>4 DEF Next
<1> QED
  BY <1>1, <1>2, Invariance, PTL DEF Spec

\* D-0012 holds of a system that nothing interrupts: only after a fault or a
\* crash can a consumer that run_isolated.py admits find a prefix in pieces.
THEOREM QuietConsumersSeeOneEnvironment == Spec => [](Quiet => NoPartialPrefix)
<1>1. QuietInv /\ LockOK => (Quiet => NoPartialPrefix)
  BY NoProcessFacts DEF QuietInv, LockOK, NoPartialPrefix, Whole
<1>2. Init => LockOK
  BY DEF Init, LockOK
<1> QED
  BY <1>1, <1>2, LockSteps, QuietInvariance, PTL DEF Spec

\* And after one, the journal would have told: a prefix in pieces is journaled
\* as being replaced or restored, whoever is looking.
THEOREM PiecesAreJournaled == Spec => [](~Whole => journal.phase \notin Settled)
<1>1. JournalTellsPrefix => (~Whole => journal.phase \notin Settled)
  BY DEF JournalTellsPrefix, Whole, Settled
<1> QED
  BY <1>1, JournalIsTruthful, PTL

-----------------------------------------------------------------------------
(* What repeated commands leave in the journal. *)

Finished == {"absent", "committed", "rolled-back", "no-mutation"}

\* The journal is finished, or only its last phase is still to be written.
Resting == journal.phase \in Finished \/ (journal.phase = "rolling-back" /\ Untouched)

\* A command of a quiet system starts from a resting journal, and can only
\* give up while it still rests, or again.
RestInv ==
    Quiet =>
        /\ tx.pc \in {"idle", "nothing", "recheck", "attest", "reopen"} => Resting
        /\ tx.pc = "viewed" /\ tx.cmd = "recover" => journal.phase \in Finished

\* The quiet steps that end a command leave a resting journal.
LEMMA RestWork ==
    ASSUME IInv, QuietInv, RestInv, Quiet, Work
    PROVE  /\ tx'.pc \in {"idle", "nothing", "recheck", "attest", "reopen"} => Resting'
           /\ tx'.pc = "viewed" /\ tx'.cmd = "recover" => journal'.phase \in Finished
<1> USE DEF Goto, End, Resting, Finished
<1>0. tx \in Processes /\ ProcessShape
  BY DEF IInv, TypeOK
<1>1. CASE Apply
  <2>1. CASE JournalCommit
    BY <2>1, NoProcessFacts DEF JournalCommit, Journal
  <2>2. CASE \E f \in Files : RemoveOldFile(f) \/ InstallFile(f)
    BY <2>2 DEF RemoveOldFile, InstallFile
  <2>3. CASE InitializeBackupRoot \/ SealJournal \/ JournalRemoval \/ FsyncNewInstall
    BY <1>0, <2>3 DEF InitializeBackupRoot, SealJournal, JournalRemoval, FsyncNewInstall,
       Processes
  <2>4. CASE CreateBackup \/ MutationStarted \/ PublishSuccess
    BY <1>0, <2>4 DEF CreateBackup, MutationStarted, PublishSuccess, Processes
  <2>5. CASE JournalApply
    BY <1>0, <2>5 DEF JournalApply, AdvanceJournal, Processes
  <2> QED
    BY <1>1, <2>1, <2>2, <2>3, <2>4, <2>5 DEF Apply
<1>2. CASE StartPostAudit
  <2>1. /\ tx'.pc = "viewed" /\ tx'.cmd = tx.cmd /\ env = NewEnv
        /\ tx.pc \in {"audit", "recheck"} /\ journal' = journal
    BY <1>0, <1>2 DEF StartPostAudit, Processes, records
  <2> QED
    BY <1>0, <2>1, EnvFacts DEF RestInv, Untouched, ProcessShape, ApplyOnly, TryBody
<1>3. CASE EndPostAudit
  <2>1. /\ tx.pc = "viewed" /\ tx'.cmd = tx.cmd /\ journal' = journal
        /\ tx'.pc = IF tx.cmd = "apply" THEN "audited" ELSE "attest"
    BY <1>0, <1>3 DEF EndPostAudit, Processes, records
  <2> QED
    BY <1>0, <2>1 DEF RestInv, ProcessShape
<1>4. CASE Restore
  <2>1. tx'.pc \in Restoring
    BY <1>0, <1>4 DEF Restore, CleanTemporaries, EndUninstall, UninstallFile,
       WriteTemporary, LinkTemporary, DropTemporary, VerifyOldInventory, Processes,
       Restoring
  <2> QED
    BY <2>1 DEF Restoring
<1>5. CASE Handler
  BY <1>5 DEF Handler, KeepCommit, RollBack, NothingToRollBack, RolledBack,
     PublishFailure, JournalFailure, QuietInv, Restoring
<1>6. CASE Recovery
  <2>1. CASE Reopen \/ PublishRecovery
    BY <1>0, <2>1 DEF Reopen, PublishRecovery, Processes
  <2>2. CASE RefuseCommitted \/ RefuseEvidence
    <3>1. tx.pc \in {"recheck", "nothing", "attest", "restored"}
      BY <2>2 DEF RefuseCommitted, RefuseEvidence, Attesting
    <3>2. Resting
      BY <3>1 DEF RestInv, IInv, RestorationShape, Restoring
    <3>3. journal' = journal /\ env' = env /\ temps' = temps /\ view' = view
      BY <2>2 DEF RefuseCommitted, RefuseEvidence, disk, records
    <3>4. tx'.pc = "idle"
      BY <2>2, NoProcessFacts DEF RefuseCommitted, RefuseEvidence
    <3> QED
      BY <3>2, <3>3, <3>4 DEF Untouched
  <2>3. CASE CloseRecovery
    BY <2>3, NoProcessFacts DEF CloseRecovery, Journal
  <2> QED
    BY <1>6, <2>1, <2>2, <2>3 DEF Recovery
<1> QED
  BY <1>1, <1>2, <1>3, <1>4, <1>5, <1>6 DEF Work

\* The commands start from where the last one rested.
LEMMA RestInvariance == Spec => []RestInv
<1>1. Init => RestInv
  BY NoProcessFacts DEF Init, NoJournal, RestInv, Resting, Finished
<1>2. IInv /\ QuietInv /\ RestInv /\ [Next]_vars => RestInv'
  <2> SUFFICES ASSUME IInv, QuietInv, RestInv, [Next]_vars, Quiet' PROVE RestInv'
    BY DEF RestInv
  <2>0. Quiet /\ ~Fault /\ ~Kill /\ ~PowerLoss
    BY QuietBefore DEF IInv
  <2>1. CASE Work
    BY <2>0, <2>1, RestWork DEF RestInv
  <2>2. CASE StartApply
    BY <2>2, NoProcessFacts DEF StartApply, NoProcess, RestInv
  <2>3. CASE \E cmd \in Commands, path \in Paths : StartRecovery(cmd, path)
    <3>1. PICK cmd \in Commands, path \in Paths : StartRecovery(cmd, path)
      BY <2>3
    <3>2. tx'.pc # "viewed" /\ tx.pc = "idle"
      BY <3>1, NoProcessFacts DEF StartRecovery, ExclusiveLock, NoProcess
    <3>3. journal' = journal /\ env' = env /\ temps' = temps /\ view' = view
      BY <3>1 DEF StartRecovery, disk, records
    <3> QED
      BY <2>0, <3>2, <3>3 DEF RestInv, Resting, Untouched
  <2>4. CASE ConsumerEnter \/ ConsumerLeave \/ UNCHANGED vars
    <3>1. journal' = journal /\ env' = env /\ temps' = temps /\ view' = view /\ tx' = tx
      BY <2>4 DEF ConsumerEnter, ConsumerLeave, vars, disk, records
    <3> QED
      BY <2>0, <3>1 DEF RestInv, Resting, Untouched
  <2> QED
    BY <2>0, <2>1, <2>2, <2>3, <2>4 DEF Next
<1> QED
  BY <1>1, <1>2, Invariance, QuietInvariance, PTL DEF Spec

\* D-0012's idempotence, as far as it goes: whatever commands are repeated, in
\* any order and over any evidence paths, those that nothing interrupts leave a
\* finished journal, or the old environment restored and only the last phase
\* unwritten.
THEOREM CommandsComeToRest == Spec => [](Quiet /\ tx = NoProcess => Resting)
<1>1. RestInv => (Quiet /\ tx = NoProcess => Resting)
  BY NoProcessFacts DEF RestInv
<1> QED
  BY <1>1, RestInvariance, PTL

\* Without --rollback, a quiet journal is committed once the apply has ended,
\* and --recover verifies it again and again.
RepeatInv ==
    Quiet =>
        /\ tx = NoProcess => journal = NoJournal \/ journal.phase = "committed"
        /\ tx.cmd = "apply" => tx.pc \in TryBody
        /\ tx.cmd # "rollback"
        /\ tx.cmd = "recover" =>
             /\ tx.pc \in {"recheck", "viewed", "attest", "close"}
             /\ journal.phase = "committed"
             /\ tx.pc = "close" => recovered[tx.path] = "committed-verified"
        /\ journal.phase = "committed" => journal.sealed

\* What the quiet steps of an apply leave.
LEMMA RepeatApply ==
    ASSUME IInv, RepeatInv, Quiet, Apply \/ StartPostAudit \/ EndPostAudit
    PROVE  RepeatInv'
<1> USE DEF Goto, End, TryBody
<1>0. tx \in Processes /\ ProcessShape
  BY DEF IInv, TypeOK
<1>1. CASE JournalCommit
  BY <1>1, NoProcessFacts DEF JournalCommit, Journal, RepeatInv
<1>2. CASE Apply /\ ~JournalCommit
  <2>1. tx.pc \in TryBody \ {"viewed"} /\ tx'.pc \in TryBody /\ tx'.cmd = tx.cmd
    <3>1. CASE \E f \in Files : RemoveOldFile(f) \/ InstallFile(f)
      BY <3>1 DEF RemoveOldFile, InstallFile
    <3>2. CASE InitializeBackupRoot \/ SealJournal \/ JournalRemoval \/ FsyncNewInstall
      BY <1>0, <3>2 DEF InitializeBackupRoot, SealJournal, JournalRemoval,
         FsyncNewInstall, Processes
    <3>3. CASE CreateBackup \/ MutationStarted \/ PublishSuccess
      BY <1>0, <3>3 DEF CreateBackup, MutationStarted, PublishSuccess, Processes
    <3>4. CASE JournalApply
      BY <1>0, <3>4 DEF JournalApply, AdvanceJournal, Processes
    <3> QED
      BY <1>2, <3>1, <3>2, <3>3, <3>4 DEF Apply
  <2>2. tx.cmd = "apply"
    BY <1>0, <2>1 DEF ProcessShape, ApplyOnly
  <2>3. journal' = journal \/ journal'.phase # "committed"
    BY <1>2 DEF Apply, InitializeBackupRoot, CreateBackup, SealJournal, JournalRemoval,
       MutationStarted, JournalApply, AdvanceJournal, FsyncNewInstall, RemoveOldFile,
       InstallFile, PublishSuccess, records, Journal
  <2> QED
    BY <2>1, <2>2, <2>3, NoProcessFacts DEF RepeatInv
<1>3. CASE StartPostAudit \/ EndPostAudit
  <2>1. /\ tx'.cmd = tx.cmd /\ journal' = journal
        /\ \/ tx.pc \in {"audit", "recheck"} /\ tx'.pc = "viewed"
           \/ tx.pc = "viewed" /\ tx.cmd = "apply" /\ tx'.pc = "audited"
           \/ tx.pc = "viewed" /\ tx.cmd # "apply" /\ tx'.pc = "attest"
    BY <1>0, <1>3 DEF StartPostAudit, EndPostAudit, Processes, records
  <2>2. tx'.cmd \in {"apply", "recover"}
    BY <1>0, <2>1 DEF ProcessShape, ApplyOnly
  <2> QED
    BY <1>0, <2>1, <2>2, NoProcessFacts DEF RepeatInv, ProcessShape, ApplyOnly
<1> QED
  BY <1>1, <1>2, <1>3

\* A quiet --recover of a committed transaction looks at it, attests it, and
\* leaves it as it is; the restoration and the handler are never entered.
LEMMA RepeatRecovery ==
    ASSUME IInv, RepeatInv, Quiet, Restore \/ Handler \/ Recovery
    PROVE  RepeatInv'
<1> USE DEF Goto, End
<1>0. tx \in Processes /\ ProcessShape
  BY DEF IInv, TypeOK
<1>1. CASE Restore \/ Handler
  <2>1. tx.pc \in Restoring \cup {"failing", "report", "reported"}
    BY <1>1 DEF Restore, CleanTemporaries, EndUninstall, UninstallFile, WriteTemporary,
       LinkTemporary, DropTemporary, VerifyOldInventory, Handler, KeepCommit, RollBack,
       NothingToRollBack, RolledBack, PublishFailure, JournalFailure, Restoring
  <2> QED
    BY <1>0, <2>1, ProcessTypes DEF RepeatInv, ProcessShape, Restoring, TryBody
<1>2. CASE Recovery
  <2>1. tx.cmd = "recover" /\ tx.pc \in {"recheck", "attest", "close"}
    BY <1>0, <1>2, ProcessTypes DEF Recovery, RefuseCommitted, Reopen, PublishRecovery,
       RefuseEvidence, CloseRecovery, Attesting, RepeatInv, ProcessShape, RecoverOnly,
       Recovering, Restoring, TryBody
  <2>2. CASE RefuseCommitted \/ RefuseEvidence
    BY <2>1, <2>2, NoProcessFacts DEF RefuseCommitted, RefuseEvidence, records, RepeatInv
  <2>3. CASE PublishRecovery
    <3>1. tx.pc = "attest" /\ Attestation = "committed-verified"
      BY <2>1, <2>3 DEF PublishRecovery, Attesting, Attestation
    <3>2. /\ tx'.pc = "close" /\ tx'.cmd = "recover" /\ tx'.path = tx.path
          /\ journal' = journal
      BY <1>0, <2>1, <2>3 DEF PublishRecovery, Processes
    <3>3. recovered'[tx.path] = "committed-verified"
      BY <1>0, <2>3, <3>1, ProcessTypes DEF PublishRecovery, IInv, TypeOK
    <3> QED
      BY <2>1, <3>2, <3>3, NoProcessFacts DEF RepeatInv
  <2>4. CASE CloseRecovery
    BY <2>1, <2>4, NoProcessFacts DEF CloseRecovery, Journal, RepeatInv
  <2>5. ~Reopen
    BY <2>1 DEF Reopen
  <2> QED
    BY <1>2, <2>2, <2>3, <2>4, <2>5 DEF Recovery
<1> QED
  BY <1>1, <1>2

\* Without --rollback the idempotence of D-0012 holds in full: however often
\* --recover is repeated, and over whatever evidence paths.
THEOREM RecoverIsIdempotent ==
    ASSUME "rollback" \notin Commands
    PROVE  Spec => []FinishedUnlessInterrupted
<1>1. Init => RepeatInv
  BY NoProcessFacts DEF Init, NoJournal, RepeatInv
<1>2. IInv /\ RepeatInv /\ [Next]_vars => RepeatInv'
  <2> SUFFICES ASSUME IInv, RepeatInv, [Next]_vars, Quiet' PROVE RepeatInv'
    BY DEF RepeatInv
  <2>0. Quiet /\ ~Fault /\ ~Kill /\ ~PowerLoss
    BY QuietBefore DEF IInv
  <2>1. CASE Work
    BY <2>0, <2>1, RepeatApply, RepeatRecovery DEF Work
  <2>2. CASE StartApply
    BY <2>0, <2>2, NoProcessFacts DEF StartApply, NoProcess, records, RepeatInv, TryBody
  <2>3. CASE \E cmd \in Commands, path \in Paths : StartRecovery(cmd, path)
    <3>1. PICK cmd \in Commands, path \in Paths : StartRecovery(cmd, path)
      BY <2>3
    <3>2. cmd = "recover" /\ tx = NoProcess
      BY <3>1, InventoryAssumption DEF StartRecovery, ExclusiveLock
    <3>3. journal.phase = "committed" /\ journal.sealed
      BY <2>0, <3>1, <3>2 DEF StartRecovery, RepeatInv
    <3>4. CommittedByEvidence
      BY <3>3 DEF IInv, PhasesTrue, CommittedByEvidence
    <3>5. tx'.cmd = "recover" /\ tx'.pc = "recheck"
      BY <3>1, <3>2, <3>3, <3>4 DEF StartRecovery, NoProcess
    <3>6. journal' = journal
      BY <3>1 DEF StartRecovery, records
    <3> QED
      BY <3>3, <3>5, <3>6, NoProcessFacts DEF RepeatInv
  <2>4. CASE ConsumerEnter \/ ConsumerLeave \/ UNCHANGED vars
    <3>1. journal' = journal /\ recovered' = recovered /\ tx' = tx
      BY <2>4 DEF ConsumerEnter, ConsumerLeave, vars, records
    <3> QED
      BY <2>0, <3>1 DEF RepeatInv
  <2> QED
    BY <2>0, <2>1, <2>2, <2>3, <2>4 DEF Next
<1>3. RepeatInv => FinishedUnlessInterrupted
  BY DEF RepeatInv, FinishedUnlessInterrupted, Quiet, NoJournal
<1> QED
  BY <1>1, <1>2, <1>3, Invariance, PTL DEF Spec
=============================================================================
