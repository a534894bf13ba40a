---------------------------- MODULE Replacement ----------------------------
(***************************************************************************)
(* The journaled transaction of tools/replace_triton_environment.py, which *)
(* replaces the editable Triton of one environment by an audited wheel:    *)
(* --apply, --recover and --rollback over one backup root, with exceptions *)
(* and signals, SIGKILL, power loss, and framework consumers started by    *)
(* tools/run_isolated.py under the shared side of the environment lock.    *)
(*                                                                         *)
(* A file of the prefix is absent, holds the old or the new bytes, or is   *)
(* half written.  Directories, modes and digests are abstracted away: a    *)
(* comparison with a sealed inventory is a comparison of contents.         *)
(***************************************************************************)
EXTENDS Naturals

CONSTANTS
    OldFiles,      \* paths the old RECORD owns
    NewFiles,      \* paths the audited wheel installs
    RemovalRank,   \* order of _remove_old_inventory: deepest path first
    InstallRank,   \* order of the wheel's sorted members
    Metadata,      \* the dist-info METADATA: same name and version, old or new
    Finder,        \* the editable .pth, owned by the old RECORD only
    Paths,         \* places recovery evidence may be written to
    DefaultPath,   \* backup_root/recovery-evidence.json
    Commands,      \* what the operator runs after --apply
    MaxFaults,     \* bound on exceptions and signals
    MaxCrashes     \* bound on SIGKILLs and power losses

Files == OldFiles \cup NewFiles

ASSUME InventoryAssumption ==
    /\ RemovalRank \in [OldFiles -> Nat] /\ InstallRank \in [NewFiles -> Nat]
    /\ Metadata \in OldFiles \cap NewFiles
    /\ Finder \in OldFiles \ NewFiles
    /\ NewFiles \ OldFiles # {}
    /\ DefaultPath \in Paths
    /\ Commands \subseteq {"recover", "rollback"}
    /\ MaxFaults \in Nat /\ MaxCrashes \in Nat

VARIABLES
    env,        \* contents of every file of the prefix
    unsynced,   \* installed files whose directory entry is not yet durable
    view,       \* the transient .torch-runtime-view exists
    temps,      \* rollback temporaries on disk
    manifest,   \* manifest.json is published
    journal,    \* journal.json
    terminal,   \* status of the terminal evidence
    recovered,  \* recovery evidence per path
    tx,         \* memory of the process holding the exclusive lock
    consumer,   \* a framework consumer runs under the shared lock
    faults, crashes

disk == <<env, unsynced, view, temps>>
records == <<manifest, journal, terminal, recovered>>
bounds == <<faults, crashes>>
vars == <<env, unsynced, view, temps, manifest, journal, terminal, recovered,
          tx, consumer, faults, crashes>>

OldEnv == [f \in Files |-> IF f \in OldFiles THEN "old" ELSE "absent"]
NewEnv == [f \in Files |-> IF f \in NewFiles THEN "new" ELSE "absent"]

NoJournal == [phase |-> "absent", sealed |-> FALSE, mutated |-> FALSE]
NoProcess == [cmd |-> "none", pc |-> "idle", path |-> DefaultPath,
              sealed |-> FALSE, mutating |-> FALSE, verdict |-> "none"]

\* update_journal: the journal is replaced atomically and durably.
Journal(phase, sealed, mutated) ==
    journal' = [phase |-> phase, sealed |-> sealed, mutated |-> mutated]
Goto(pc) == tx' = [tx EXCEPT !.pc = pc]
End == tx' = NoProcess

Init ==
    /\ env = OldEnv
    /\ unsynced = {} /\ view = FALSE /\ temps = {}
    /\ manifest = FALSE /\ journal = NoJournal
    /\ terminal = "none" /\ recovered = [p \in Paths |-> "none"]
    /\ tx = NoProcess /\ consumer = FALSE
    /\ faults = 0 /\ crashes = 0

-----------------------------------------------------------------------------
(* The environment lock and the consumers of run_isolated.py. *)

\* Mutant: a transaction that takes the shared side of the lock.
SharedInstead == tx = NoProcess

ExclusiveLock == tx = NoProcess /\ ~consumer

\* environment_identity.py --verify compares (name, version) of every
\* distribution, and both Tritons carry the same version.
IdentityVerifies == env[Metadata] \in {"old", "new"}

\* audit_python_environment.py refuses the editable finder's .pth.
AuditPasses == env[Finder] = "absent"

ConsumerEnter ==
    /\ tx = NoProcess /\ ~consumer
    /\ IdentityVerifies /\ AuditPasses
    /\ consumer' = TRUE
    /\ UNCHANGED <<disk, records, tx, bounds>>

ConsumerLeave ==
    /\ consumer
    /\ consumer' = FALSE
    /\ UNCHANGED <<disk, records, tx, bounds>>

-----------------------------------------------------------------------------
(* --apply, up to the commit. *)

\* prepare_replacement demands the old editable distribution, no new file in
\* the way, a fresh backup root and a fresh evidence path.
StartApply ==
    /\ ExclusiveLock
    /\ env = OldEnv /\ journal = NoJournal /\ terminal = "none"
    /\ tx' = [NoProcess EXCEPT !.cmd = "apply", !.pc = "init"]
    /\ UNCHANGED <<disk, records, consumer, bounds>>

\* The backup root and its first journal become visible in one rename.
InitializeBackupRoot ==
    /\ tx.pc = "init"
    /\ Journal("initializing", FALSE, FALSE)
    /\ Goto("backup")
    /\ UNCHANGED <<disk, manifest, terminal, recovered, consumer, bounds>>

\* create_backup: every old file is copied before the manifest is linked.
CreateBackup ==
    /\ tx.pc = "backup"
    /\ manifest' = TRUE
    /\ tx' = [tx EXCEPT !.pc = "seal", !.sealed = TRUE]
    /\ UNCHANGED <<disk, journal, terminal, recovered, consumer, bounds>>

SealJournal ==
    /\ tx.pc = "seal"
    /\ Journal("prepared", TRUE, FALSE)
    /\ Goto("begin")
    /\ UNCHANGED <<disk, manifest, terminal, recovered, consumer, bounds>>

\* verify_old_inventory looks at the old paths only.
OldVerifies == \A f \in OldFiles : env[f] = "old"

\* Mutant: the journal admits the mutation only after the removal.
JournalRemovalLate ==
    /\ tx.pc = "begin" /\ OldVerifies
    /\ Goto("mutate")
    /\ UNCHANGED <<disk, records, consumer, bounds>>

JournalRemoval ==
    /\ tx.pc = "begin" /\ OldVerifies
    /\ Journal("removing-old", TRUE, TRUE)
    /\ Goto("mutate")
    /\ UNCHANGED <<disk, manifest, terminal, recovered, consumer, bounds>>

\* The local mutation_started, set one statement after the journal's.
MutationStarted ==
    /\ tx.pc = "mutate"
    /\ tx' = [tx EXCEPT !.pc = "remove", !.mutating = TRUE]
    /\ UNCHANGED <<disk, records, consumer, bounds>>

StillOld == {f \in OldFiles : env[f] = "old"}

RemoveOldFile(f) ==
    /\ tx.pc = "remove"
    /\ f \in StillOld /\ \A g \in StillOld : RemovalRank[f] <= RemovalRank[g]
    /\ env' = [env EXCEPT ![f] = "absent"]
    /\ UNCHANGED <<unsynced, view, temps, records, tx, consumer, bounds>>

ToInstall == {f \in NewFiles : env[f] # "new"}

\* A member is created exclusively and then written; its data is synced, its
\* directory entry is not.
InstallFile(f) ==
    /\ tx.pc = "install"
    /\ f \in ToInstall /\ \A g \in ToInstall : InstallRank[f] <= InstallRank[g]
    /\ \/ env[f] = "absent" /\ env' = [env EXCEPT ![f] = "partial"]
       \/ env[f] = "partial" /\ env' = [env EXCEPT ![f] = "new"]
    /\ unsynced' = unsynced \cup {f}
    /\ UNCHANGED <<view, temps, records, tx, consumer, bounds>>

\* Mutant: the directory entries are never made durable.
SkipSync ==
    /\ tx.pc = "install" /\ ToInstall = {}
    /\ Goto("synced")
    /\ UNCHANGED <<disk, records, consumer, bounds>>

FsyncNewInstall ==
    /\ tx.pc = "install" /\ ToInstall = {}
    /\ unsynced' = {}
    /\ Goto("synced")
    /\ UNCHANGED <<env, view, temps, records, consumer, bounds>>

\* Journal-only steps of the apply: where, the phase written, what follows.
AdvanceJournal(from, phase, to) ==
    /\ tx.pc = from
    /\ Journal(phase, TRUE, TRUE)
    /\ Goto(to)
    /\ UNCHANGED <<disk, manifest, terminal, recovered, consumer, bounds>>

JournalApply ==
    \/ StillOld = {} /\ AdvanceJournal("remove", "old-removed", "emptied")
    \/ AdvanceJournal("emptied", "installing-new", "install")
    \/ AdvanceJournal("synced", "new-installed", "installed")
    \/ AdvanceJournal("installed", "post-auditing", "audit")
    \/ AdvanceJournal("audited", "post-audited", "decide")
    \/ AdvanceJournal("decide", "committing", "publish")

\* _post_audit of an apply or of a --recover: the complete new distribution
\* is verified, and the runtime audited through a transient view in between.
StartPostAudit ==
    /\ tx.pc \in {"audit", "recheck"}
    /\ env = NewEnv /\ ~view
    /\ view' = TRUE
    /\ Goto("viewed")
    /\ UNCHANGED <<env, unsynced, temps, records, consumer, bounds>>

EndPostAudit ==
    /\ tx.pc = "viewed"
    /\ view' = FALSE
    /\ Goto(IF tx.cmd = "apply" THEN "audited" ELSE "attest")
    /\ UNCHANGED <<env, unsynced, temps, records, consumer, bounds>>

\* Mutant: the success evidence is published while files are installed.
PublishWhileInstalling ==
    /\ tx.pc = "install"
    /\ terminal' = "committed"
    /\ Goto("commit")
    /\ UNCHANGED <<disk, manifest, journal, recovered, consumer, bounds>>

\* Atomic success evidence is the commit point.
PublishSuccess ==
    /\ tx.pc = "publish"
    /\ terminal' = "committed"
    /\ Goto("commit")
    /\ UNCHANGED <<disk, manifest, journal, recovered, consumer, bounds>>

JournalCommit ==
    /\ tx.pc = "commit"
    /\ Journal("committed", TRUE, TRUE)
    /\ End
    /\ UNCHANGED <<disk, manifest, terminal, recovered, consumer, bounds>>

-----------------------------------------------------------------------------
(* restore_old_inventory, shared by the failing apply and the recovery. *)

\* Mutant: temporaries of an interrupted restoration are left in place.
LeaveTemporaries ==
    /\ tx.pc = "restore"
    /\ view' = FALSE
    /\ Goto("uninstall")
    /\ UNCHANGED <<env, unsynced, temps, records, consumer, bounds>>

CleanTemporaries ==
    /\ tx.pc = "restore"
    /\ temps' = {} /\ view' = FALSE
    /\ Goto("uninstall")
    /\ UNCHANGED <<env, unsynced, records, consumer, bounds>>

\* Mutant: only files that were installed to the end.
CompleteOnly == {f \in NewFiles : env[f] = "new"}

\* New paths that do not hold the sealed old bytes.
ToUninstall == {f \in NewFiles : env[f] \notin {"absent", "old"}}

UninstallFile(f) ==
    /\ tx.pc = "uninstall" /\ f \in ToUninstall
    /\ env' = [env EXCEPT ![f] = "absent"]
    /\ unsynced' = unsynced \ {f}
    /\ UNCHANGED <<view, temps, records, tx, consumer, bounds>>

EndUninstall ==
    /\ tx.pc = "uninstall" /\ ToUninstall = {}
    /\ Goto("refill")
    /\ UNCHANGED <<disk, records, consumer, bounds>>

\* The files still to be restored are taken in a fixed order.
Missing == {f \in OldFiles : env[f] = "absent"}
NextMissing == CHOOSE f \in Missing : TRUE

\* _restore_regular_from_blob: an exclusive temporary, a link, an unlink.
WriteTemporary ==
    /\ tx.pc = "refill"
    /\ Missing # {} /\ NextMissing \notin temps
    /\ temps' = temps \cup {NextMissing}
    /\ Goto("link")
    /\ UNCHANGED <<env, unsynced, view, records, consumer, bounds>>

LinkTemporary ==
    /\ tx.pc = "link" /\ Missing # {}
    /\ env' = [env EXCEPT ![NextMissing] = "old"]
    /\ Goto("unlink")
    /\ UNCHANGED <<unsynced, view, temps, records, consumer, bounds>>

DropTemporary ==
    /\ tx.pc = "unlink"
    /\ temps' = temps \cap Missing
    /\ Goto("refill")
    /\ UNCHANGED <<env, unsynced, view, records, consumer, bounds>>

VerifyOldInventory ==
    /\ tx.pc = "refill" /\ OldVerifies
    /\ Goto("restored")
    /\ UNCHANGED <<disk, records, consumer, bounds>>

Restore ==
    \/ CleanTemporaries \/ EndUninstall \/ \E f \in Files : UninstallFile(f)
    \/ WriteTemporary \/ LinkTemporary \/ DropTemporary \/ VerifyOldInventory

-----------------------------------------------------------------------------
(* The except clause of apply_replacement. *)

\* Mutant: the handler does not look for published success evidence.
NeverObserved == FALSE

CommitObserved == terminal = "committed"

\* A failure after the commit point cannot revoke it.
KeepCommit ==
    /\ tx.pc = "failing" /\ CommitObserved
    /\ Journal("committed", TRUE, TRUE)
    /\ End
    /\ UNCHANGED <<disk, manifest, terminal, recovered, consumer, bounds>>

RollBack ==
    /\ tx.pc = "failing" /\ ~CommitObserved
    /\ tx.mutating
    /\ Journal("rolling-back", TRUE, TRUE)
    /\ Goto("restore")
    /\ UNCHANGED <<disk, manifest, terminal, recovered, consumer, bounds>>

NothingToRollBack ==
    /\ tx.pc = "failing" /\ ~CommitObserved
    /\ ~tx.mutating
    /\ tx' = [tx EXCEPT !.pc = "report", !.verdict = "rolled-back"]
    /\ UNCHANGED <<disk, records, consumer, bounds>>

RolledBack ==
    /\ tx.pc = "restored" /\ tx.cmd = "apply"
    /\ Journal("rolled-back", TRUE, TRUE)
    /\ tx' = [tx EXCEPT !.pc = "report", !.verdict = "rolled-back"]
    /\ UNCHANGED <<disk, manifest, terminal, recovered, consumer, bounds>>

\* Failure evidence is published, no-replace, once the backup root exists.
PublishFailure ==
    /\ tx.pc = "report"
    /\ IF journal # NoJournal /\ terminal = "none"
       THEN terminal' = tx.verdict /\ Goto("reported")
       ELSE UNCHANGED terminal /\ End
    /\ UNCHANGED <<disk, manifest, journal, recovered, consumer, bounds>>

JournalFailure ==
    /\ tx.pc = "reported"
    /\ IF tx.sealed THEN Journal(tx.verdict, TRUE, tx.mutating)
                    ELSE UNCHANGED journal
    /\ End
    /\ UNCHANGED <<disk, manifest, terminal, recovered, consumer, bounds>>

-----------------------------------------------------------------------------
(* --recover and --rollback. *)

CommittedByEvidence == terminal = "committed"

\* Other calls return or raise without having changed anything: --rollback
\* without a sealed manifest, --recover of it without an evidence path.
StartRecovery(cmd, path) ==
    /\ ExclusiveLock
    /\ cmd \in Commands /\ journal # NoJournal
    /\ journal.sealed \/ (cmd = "recover" /\ path # DefaultPath)
    /\ tx' = [NoProcess EXCEPT
                !.cmd = cmd, !.path = path,
                !.pc = IF ~journal.sealed THEN "nothing"
                       ELSE IF cmd = "recover" /\ CommittedByEvidence
                       THEN "recheck" ELSE "reopen"]
    /\ UNCHANGED <<disk, records, consumer, bounds>>

\* The committed prefix no longer passes its post-audit, or the view cannot
\* be created; the error advises an explicit rollback.
RefuseCommitted ==
    /\ tx.pc = "recheck"
    /\ env # NewEnv \/ view
    /\ End
    /\ UNCHANGED <<disk, records, consumer, bounds>>

Reopen ==
    /\ tx.pc = "reopen"
    /\ Journal("rolling-back", TRUE, journal.mutated)
    /\ Goto("restore")
    /\ UNCHANGED <<disk, manifest, terminal, recovered, consumer, bounds>>

\* What this command would attest at its evidence path.
Attestation ==
    CASE tx.pc = "nothing" -> "no-mutation"
      [] tx.pc = "attest" -> "committed-verified"
      [] OTHER -> tx.cmd

Attesting ==
    \/ tx.pc \in {"nothing", "attest"}
    \/ tx.pc = "restored" /\ tx.cmd # "apply"

\* Existing evidence must be the same, or the command raises.
PublishRecovery ==
    /\ Attesting
    /\ recovered[tx.path] \in {"none", Attestation}
    /\ recovered' = [recovered EXCEPT ![tx.path] = Attestation]
    /\ Goto("close")
    /\ UNCHANGED <<disk, manifest, journal, terminal, consumer, bounds>>

RefuseEvidence ==
    /\ Attesting
    /\ recovered[tx.path] \notin {"none", Attestation}
    /\ End
    /\ UNCHANGED <<disk, records, consumer, bounds>>

CloseRecovery ==
    /\ tx.pc = "close"
    /\ CASE recovered[tx.path] = "no-mutation" ->
              Journal("no-mutation", FALSE, FALSE)
         [] recovered[tx.path] = "committed-verified" ->
              Journal("committed", TRUE, TRUE)
         [] OTHER -> Journal("rolled-back", TRUE, journal.mutated)
    /\ End
    /\ UNCHANGED <<disk, manifest, terminal, recovered, consumer, bounds>>

-----------------------------------------------------------------------------
(* What goes wrong. *)

TryBody == {"init", "backup", "seal", "begin", "mutate", "remove", "emptied",
            "install", "synced", "installed", "audit", "viewed", "audited",
            "decide", "publish", "commit"}
Restoring == {"restore", "uninstall", "refill", "link", "unlink", "restored"}

\* An exception (a failed audit, an I/O error, a foreign process at a
\* boundary) or a signal: the view is removed on the way out, and the apply
\* enters its handler once.
FaultInBody ==
    /\ tx.cmd = "apply" /\ tx.pc \in TryBody
    /\ view' = IF tx.pc = "viewed" THEN FALSE ELSE view
    /\ Goto("failing")
    /\ UNCHANGED <<env, unsynced, temps, records>>

\* The rollback itself raises.
FaultInRollback ==
    /\ tx.cmd = "apply"
    /\ \/ tx.pc \in Restoring
       \/ tx.pc = "failing" /\ tx.mutating /\ ~CommitObserved
    /\ Journal("rollback-failed", TRUE, TRUE)
    /\ tx' = [tx EXCEPT !.pc = "report", !.verdict = "rollback-failed"]
    /\ UNCHANGED <<disk, manifest, terminal, recovered>>

FaultInRecovery ==
    /\ tx.cmd \in {"recover", "rollback"}
    /\ view' = IF tx.pc = "viewed" THEN FALSE ELSE view
    /\ End
    /\ UNCHANGED <<env, unsynced, temps, records>>

Fault ==
    /\ faults < MaxFaults
    /\ faults' = faults + 1
    /\ FaultInBody \/ FaultInRollback \/ FaultInRecovery
    /\ UNCHANGED <<consumer, crashes>>

\* SIGKILL: the kernel drops the lock, everything else stays as it is.
Kill ==
    /\ tx # NoProcess /\ crashes < MaxCrashes
    /\ crashes' = crashes + 1
    /\ End
    /\ UNCHANGED <<disk, records, consumer, faults>>

\* Power loss (the WSL virtual machine is terminated): directory entries
\* that were not synced may be lost.
PowerLoss ==
    /\ crashes < MaxCrashes
    /\ crashes' = crashes + 1
    /\ \E lost \in SUBSET unsynced :
         env' = [f \in Files |-> IF f \in lost THEN "absent" ELSE env[f]]
    /\ unsynced' = {}
    /\ consumer' = FALSE
    /\ End
    /\ UNCHANGED <<view, temps, records, faults>>

-----------------------------------------------------------------------------
Apply ==
    \/ InitializeBackupRoot \/ CreateBackup \/ SealJournal \/ JournalRemoval
    \/ MutationStarted \/ JournalApply \/ FsyncNewInstall
    \/ \E f \in Files : RemoveOldFile(f) \/ InstallFile(f)
    \/ PublishSuccess \/ JournalCommit
Handler ==
    \/ KeepCommit \/ RollBack \/ NothingToRollBack \/ RolledBack
    \/ PublishFailure \/ JournalFailure
Recovery ==
    \/ RefuseCommitted \/ Reopen
    \/ PublishRecovery \/ RefuseEvidence \/ CloseRecovery

\* One step of the process that holds the lock.
Work == Apply \/ StartPostAudit \/ EndPostAudit \/ Restore \/ Handler \/ Recovery

Next ==
    \/ StartApply \/ Work
    \/ \E cmd \in Commands, path \in Paths : StartRecovery(cmd, path)
    \/ ConsumerEnter \/ ConsumerLeave
    \/ Fault \/ Kill \/ PowerLoss

Spec == Init /\ [][Next]_vars

\* A process that runs makes progress, consumers end, and after an
\* interruption the operator runs the recovery action the gate document
\* prescribes, for as long as it takes.
Fairness ==
    /\ WF_vars(Work)
    /\ WF_vars(ConsumerLeave)
    /\ SF_vars(StartRecovery("recover", DefaultPath))

FairSpec == Spec /\ Fairness

-----------------------------------------------------------------------------
Phases == {"absent", "initializing", "prepared", "removing-old", "old-removed",
           "installing-new", "new-installed", "post-auditing", "post-audited",
           "committing", "committed", "rolling-back", "rolled-back",
           "rollback-failed", "no-mutation"}
Pcs == {"idle"} \cup TryBody \cup Restoring \cup
       {"failing", "report", "reported", "nothing", "recheck", "reopen",
        "attest", "close"}

Processes ==
    [cmd: {"none", "apply", "recover", "rollback"}, pc: Pcs, path: Paths,
     sealed: BOOLEAN, mutating: BOOLEAN,
     verdict: {"none", "rolled-back", "rollback-failed"}]

\* The types of the prefix, the records on disk and the process.
TypeOK ==
    /\ env \in [Files -> {"absent", "old", "partial", "new"}]
    /\ unsynced \subseteq NewFiles
    /\ view \in BOOLEAN
    /\ temps \subseteq OldFiles
    /\ manifest \in BOOLEAN
    /\ journal \in [phase: Phases, sealed: BOOLEAN, mutated: BOOLEAN]
    /\ terminal \in {"none", "committed", "rolled-back", "rollback-failed"}
    /\ recovered \in [Paths -> {"none", "no-mutation", "committed-verified",
                                "recover", "rollback"}]
    /\ tx \in Processes
    /\ consumer \in BOOLEAN
    /\ faults \in Nat /\ crashes \in Nat

Decided == terminal = "committed"

\* Whatever has been deleted can be put back from the disk alone: once a file
\* differs, the manifest is published and the journal points at it.
BackedUpBeforeRemoval ==
    env # OldEnv => manifest /\ journal.sealed /\ journal.mutated

\* A journal or a terminal evidence that says the old environment is back is
\* right, and stays right through every later recovery and crash.
RolledBackIsRestored ==
    /\ terminal = "rolled-back" => env = OldEnv
    /\ journal.phase = "rolled-back" => env = OldEnv /\ temps = {} /\ ~view

\* The phases in which the prefix is still, or again, the old distribution,
\* and those in which it is the new one.
OldPhases == {"absent", "initializing", "prepared", "no-mutation", "rolled-back"}
NewPhases ==
    {"new-installed", "post-auditing", "post-audited", "committing", "committed"}

\* The durable journal that recovery decides by (D-0012) tells what the prefix
\* is, after every crash: complete, and durably so, in every phase but those
\* that remove, install or restore, and these say what cannot be there.
JournalTellsPrefix ==
    /\ journal.phase \in OldPhases => env = OldEnv
    /\ journal.phase = "removing-old" => \A f \in Files : env[f] \in {"old", "absent"}
    /\ journal.phase = "old-removed" => \A f \in Files : env[f] = "absent"
    /\ journal.phase = "installing-new" => \A f \in Files : env[f] # "old"
    /\ journal.phase \in NewPhases => env = NewEnv /\ unsynced = {}

\* Once the success evidence is published only an explicit --rollback changes
\* the prefix: neither a signal, a crash, nor --recover revokes it.
OnlyRollbackUndoes ==
    [][Decided /\ env' # env => tx.cmd = "rollback"]_vars

\* No file of the prefix changes under a running framework consumer.
PrefixFrozenUnderConsumer ==
    [][consumer /\ consumer' => env' = env]_vars

\* "Framework consumers cannot observe a partially replaced prefix."
\* (DECISIONS.md, D-0012)
NoPartialPrefix ==
    consumer => env \in {OldEnv, NewEnv}

\* "the old ENVIRONMENT.lock must fail verification" after an accepted apply
\* (docs/triton_workspace_wheel_acceptance_gate.md).
OldLockRefused ==
    Decided /\ env = NewEnv => ~IdentityVerifies

\* "a later recover/rollback is idempotent from the durable journal"
\* (DECISIONS.md, D-0012): commands that nothing interrupted leave a finished
\* journal, however often they are repeated.
FinishedUnlessInterrupted ==
    tx = NoProcess /\ faults = 0 /\ crashes = 0 =>
        journal.phase \in {"absent", "committed", "rolled-back", "no-mutation"}

\* Repeating --recover always ends with a whole environment, old or new.  The
\* exception is an interrupted --rollback of a committed transaction: the error
\* of --recover then asks for the explicit --rollback.
Settles ==
    <>[](env \in {OldEnv, NewEnv} \/ (Decided /\ journal.phase = "rolling-back"))

\* "--recover verifies an already committed install or rolls back an
\* incomplete transaction" (docs/triton_workspace_wheel_acceptance_gate.md).
CommitIsVerified ==
    Decided /\ env = NewEnv ~> journal.phase = "committed"

-----------------------------------------------------------------------------
\* The transaction implements an atomic, revocable switch.
Environment == INSTANCE Switch WITH
    prefix <- CASE env = OldEnv -> "old" [] env = NewEnv -> "new" [] OTHER -> "pieces",
    decided <- Decided

ImplementsSwitch == Environment!Spec
=============================================================================
