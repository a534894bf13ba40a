# A TLA+ verification project for PyPTO-LOVE-TensorIR

This directory models the stateful core of the repository in TLA+, checks the
models with TLC and proves theorems about them with TLAPS. Paths below are
relative to the repository; `plugins/` abbreviates
`packages/pypto-framework-plugins/src/pypto_plugins/`, `kernels/` abbreviates
`packages/pypto-kernels/src/pypto_kernels/`.

Every module is translated from the code, not from the documents. Documents,
docstrings and tests are used for one thing only: to learn what the program is
said to guarantee, and then to check it.

## 1. The system and its components

PyPTO compiles tensor programs to NVIDIA kernels and puts them under PyTorch
Inductor and SGLang. The repository holds the framework plug-ins, the kernel
package, and the tools that build, replace and audit the environment and run
experiments on a machine shared with processes that must not be disturbed.

| Component | State it keeps | Operations | Meets others through |
|---|---|---|---|
| GDN state bundle (`plugins/sglang/state_bundle.py`, `gdn_backend.py`; `kernels/gdn.py`, `causal_conv1d.py`) | sidecar of convolution histories, per-layer geometry, layers that owe a clear and its count; the pool's recurrent states | `clear_slots`, `conv_for_layer`, `prepare_recurrent_clear`, `take_clear_payload`, `_run` | SGLang's scheduler and Mamba pool call it, it launches kernels |
| Triton replacement (`tools/replace_triton_environment.py`) | files of the environment, backup, manifest, journal, terminal and recovery evidence | `--apply`, `--recover`, `--rollback` | the environment lock, the disk |
| Environment lock and admission (`tools/run_isolated.py`, `environment_identity.py`, `audit_python_environment.py`) | one flock, identity lock file | shared and exclusive acquisition, `--verify` | every framework launch and the replacement |
| Inductor compile, prewarm, launch (`plugins/torch/pointwise_codegen.py`, `runtime_bridge.py`, `inductor_swiglu.py`, `scheduling.py`) | compile cache, retained runtime objects, active capture, kernel registry, executables, provenance records, SwiGLU callables | `compile_pointwise`, `capture_pointwise_artifacts`, `prewarm_kernel`, `pypto_launch`, `run_fp32_swiglu` | four re-entrant locks, the CUPTI trace window |
| Strict coverage auditor (`plugins/coverage.py`) | events, violations, poison flag, owned report | `record`, `finalize`, `close` | report file and its lock |
| Inductor mode and registration (`plugins/torch/context.py`, `registration.py`, `dispatch.py`, `torch_inductor.py`) | context-local mode, configuration values saved by each mode, installed dispatchers and the saved original | `mode`, `activate_mode`, `bind_current_context`, `install`, `uninstall` | Inductor's configuration, device table and FX cache |
| Run ownership and termination (`tools/stop_run.py`, `run_isolated.py`, `run_pypto_cpu_bounded.py`) | `process.json`, the run's session and group of processes, a watchdog's view of the host | verified TERM/CONT/KILL/STOP, the cleanup of a session, pausing, resuming, interruption | the kernel's process table, another cleaner of the same run |
| Kernel boot and launch (`kernels/_boot.py`) | loaded modules, graphs, executables, packet cache, artifact cache | `bootstrap`, `compile_graph`, `launch_graph`, graph leases | the native compiler, forks |
| Decode geometry (`kernels/attention.py`) | memo of supported geometries, compiled decode graphs | sacrificial probe, bucket ladder, `paged_attention_decode` | subprocesses, the artifact cache |
| Trace normalisation (`plugins/activity_trace.py`) | trace window, annotation stack | `annotate_artifact_launch`, `normalize_cupti_window` | CUPTI monitor, auditor |
| Stream bridge (`plugins/sglang/stream.py`) | one side stream per device | `pypto_stream` | CUDA streams |

### What is hard about them

* **State bundle.** A new request's slot is not zeroed when it is handed out.
  `clear_slots` only notes that every layer owes *one* clear for *so many*
  requests and forgets which slots were meant. The debt is paid later, layer by
  layer, inside the next forward, by launching kernels whose arithmetic happens
  to erase. Retractions, chunked prefill, slots changing hands, a launch that
  raises and layers that are discovered late can all come in between.
* **Replacement.** Files are deleted and installed one at a time while a signal,
  an I/O error, a SIGKILL or a power loss may strike between any two steps; the
  rollback can be interrupted as well, and be repeated in any order. Consumers
  are kept out by a lock that the kernel drops when the holder is killed.
* **Inductor path.** Threads compile, prewarm and launch concurrently under four
  locks that are taken in several orders; a trace window opens at any moment and
  forbids everything cold from then on; compilers and drivers raise half-way.
* **Inductor mode.** What is local to a context (the mode) and what belongs to the
  process (the registration, perhaps the configuration) change together, but the
  exits of overlapping modes interleave, and each writes back what it once read.
* **Processes.** Nothing that is read from `/proc` is still true when it is used:
  processes fork behind a scan, exit before a signal, and leave their number to
  somebody else's process. The parent is interrupted at any point, and an
  operator stops the same run at the same time.
* **Decode geometry.** A compile is tried in a sacrificial process that may be
  rejected, hang, be killed after it has published, or outlive its server; what
  it leaves in the shared cache is seen by every other process.
* **Auditor.** A report must be owned by one auditor, be replaced atomically, and
  never claim more than what was recorded, even when the caller swallows errors,
  a write fails after it became visible, or another process takes the path over.

### What makes them correct

1. A request's state summarises exactly its own tokens, in both halves of its
   slot, in every layer; nothing of a clear is left over; with the configured
   load no guard fires and every request is served.
2. A replacement is an atomic and revocable switch: at every moment the old
   environment can be restored from the disk, a rolled-back journal is true, a
   committed one is complete and durable, and only an explicit rollback undoes it.
3. A capture contains its own artifact only, whatever is published is ready, a
   program has one executable, nothing is created by a launch inside a trace, and
   every call returns.
4. A passing report is earned, a final one stays, a violation is latched.
5. A compile of the mode is never answered by a cache or with a fallback that the
   mode forbids, a strict mode is never weakened, an installation can be undone.
6. A recorded end of a run is true, SIGKILL comes after SIGTERM, nobody else's
   process is signalled except in a named window, every cleanup ends, and a
   paused run is resumed.
7. A request keeps the graph it was first served with, the assembler stays out of
   the server until every candidate failed, what is launchable is on record.

The full list of what is hard to test, line by line, is `hazards` in
`PROJECT.json`.

## 2. Modules

| Module | Models | Abstract specification |
|---|---|---|
| `StateBundle` | the bundle, the backend's layer run, the pool and the scheduler | `PrivateState` |
| `Replacement` | the transaction, the lock, the consumers, faults and crashes | `Switch` |
| `InductorCompile` | compile, capture, registry, executables, launch, SwiGLU | |
| `CoverageAudit` | auditors of one report path | `OwnedReport` |
| `OwnedProcesses` | the process table, signals, and how the tools read them | |
| `SessionCleanup` | the bounded controller and `stop_run.py` over one session; extends `OwnedProcesses` | |
| `RunControl` | `run_isolated.py` and `stop_run.py` over one group; extends `OwnedProcesses` | |
| `PagedDecode` | servers, probes and the artifact cache behind a decode request | |
| `InductorMode` | modes, bound callbacks, installation, configuration and FX cache | |
| `StateBundleProofs`, `ReplacementProofs`, `InductorCompileProofs`, `CoverageAuditProofs`, `SessionCleanupProofs`, `RunControlProofs`, `PagedDecodeProofs`, `InductorModeProofs` | theorems | |
| `MC...` | constants, constraints of symmetry and value sets for TLC | |

Definitions whose comment says *Mutant* are deliberate mistakes. They are not
used by any specification; each replaces one definition of the model to show
that some property notices.

### StateBundle

`StartExtend`, `StartDecode`, `Finish` and `Retract` are the scheduler and the
pool, which live outside the repository and are constrained only as SGLang's
interface constrains them. `StartExtend` executes `clear_slots` for the newly
admitted requests: it replaces `pending` and `pendingCount` as the code does,
also when an earlier clear was never consumed. `RunLayer` is one call of
`PyPTOGDNAttnBackend._run`: the layer is registered (`PendingAfterRegister`),
the geometry is checked (`AcceptsGeometry`), the debt is compared with the batch
size (`AcceptsClear`) and struck off (`TakeClear`) *before* the kernels run.
`RejectMode` and `RejectLayer` are the guards that raise, with what they have
changed already; `LaunchFails` is a kernel launch that raises after the debt was
struck off. A failure stops the engine.

A slot's contents are abstracted to `[owner, n]`: whose tokens they summarise
and how many, or `Mixed`, or `NaN`. `ClearConv` and `ClearRec` are what the two
clearing launches really do: three zero tokens push out the whole convolution
history, whereas the recurrent state is multiplied by `exp(-inf)`, which leaves
a NaN a NaN.

`PrivateState` knows neither slots nor clears: each request has a state of its
own that begins at zero. `ImplementsPrivateState` maps the last layer's
recurrent state.

### Replacement

`tx` is the memory of the process that holds the exclusive lock: its command, a
program counter that walks through `apply_replacement` or
`recover_replacement`, and the local variables that its handlers consult
(`sealed`, `mutating`, `verdict`). `env` maps every file to absent, old, new or
partial; `unsynced` are directory entries that a power loss may take back.
`journal`, `terminal` and `recovered` are the durable records. A comparison with
a sealed inventory is a comparison of contents; digests, modes, symbolic links
and directories have no representation of their own.

`Fault` is any exception or signal and enters the handler that the code has at
that point (`FaultInBody`, `FaultInRollback`, `FaultInRecovery`). `Kill` ends the
process and drops the lock; `PowerLoss` also ends the consumers and loses any
subset of `unsynced`. `ConsumerEnter` is a framework launch: it needs the shared
lock, an identity that verifies and an accepted set of `.pth` files.

`Switch` is the environment as a whole: old, new or in pieces, and decided or
not.

### InductorCompile

A thread is `[job, prog, pc, was]`. A program stands for its whole chain of
keys: cache key, artifact, kernel name and native identity are in one-to-one
correspondence for well-formed inputs. The locks `swiglu`, `capture`, `compile`
and `bridge` are the re-entrant ones that are held across calls; locks that
guard one dictionary operation are the atomicity of an action. `was` is the
`trace_window_active()` that `compile_pointwise` reads once and uses throughout.
`Leave` is the end of a call by return or by exception: all `with` blocks are
left. `Fails` raises from the compiler, from the creation of an executable or
from the launch.

`"codegen"` is a compilation by the scheduler with prewarm, `"direct"` one by a
caller under its own kernel name, `"launch"` a generated wrapper, `"swiglu"`
`run_fp32_swiglu`.

### CoverageAudit

An event carries its activity id, its identity without the id, its time and a
`class`: covered, fallback, excluded, or misfiled. The class is what the rules
on scope, activity and provenance make of the record, so one action `Record`
stands for all of them. `Publish` has the three outcomes of `_publish`: done,
refused since the report is not the one this auditor published last, or an error
before or after the replacement became visible. The thread lock of an auditor is
the atomicity of its actions; auditors of different processes interleave.

`OwnedReport` is what the path promises to its readers: one holder at a time, who
starts on an empty path; a report that only its author continues, that only
grows, and that is fixed once final; and a draft that was published because
something was rejected never becomes a pass. It knows neither which publications
fail nor what an auditor has in memory.

### OwnedProcesses, SessionCleanup, RunControl

`proc` maps a number to the process that holds it: its state, whether it carries
the run's environment (`kin`), is in the recorded group and session, its start
time (`born`) and the offers it was sent. `World` is everything the controllers
do not do: forks, exits, environments rewritten by `execve`, groups left,
zombies reaped, and processes of other users that take a free number. `Verify` is
`stop_run.verify` of the recorded leader.

In `SessionCleanup` a scan of `/proc` is two steps, and what is alive in between
may or may not be seen; the check of a member and the signal are two more
(`Check`, `Kill`). The four loops of `terminate_verified_session_residuals` are
the phases `natural`, `term`, `kill` and `wait` of one cleaner. The controller
(`PollExit`, `Sample`, `Raise`, `TerminateOwned`, `Finish`) and the operator's
`stop_run.py` (`Load`, `StopGroup`, `Stopped`) both run it. `Die` is the end of a
controller that has no handler for a signal.

A record of `run_isolated.py` names no session, so `RunControl` works with the
group: `VerifyLegacy` and the send are two steps of each actor. `Watch` is one
sample of a watchdog of any of the three kinds, `Poll` to `RestopSent` are
`terminate_owned_process` and its callers, `Interrupt` is a signal to the parent
at any point, `FinalScan` and `FinalRecord` the last words of `main`. `status` is
the metadata in memory and `rec` the file.

### PagedDecode

A server walks a request through the bucket ladder, first for the graph of all
heads, then for the graph of one head (`Consider`, `Exhausted`). `probe` is the
time the sacrificial subprocess runs: it may publish an artifact
(`ProbePublishes`) before or without succeeding, failing or being killed at its
timeout. A probe has a session of its own and outlives its server as an orphan.
`Compile` is `compile_graph` with the cache, the record that may fail, and the
refusal under strict coverage without a cache; `Launch` prewarms and launches.
`Crash` and `Restart` lose everything but the disk. `BucketLadder` is translated
step by step; the lemma `LadderShape` proves that it is a growing sequence from
the exact bucket to the 64- and 128-aligned ones, capped at the table's width.

### InductorMode

`th[t].frames` is the stack of modes of a thread with what each exit writes back.
`Enter` is `torch_inductor.mode` up to its installation, `Activate`,
`DisableCache` and `Patch` are the three steps by which a mode begins, `Unpatch`
and `Deactivate` those by which it ends; another thread may step between any two.
Whether a configuration value belongs to the process or to a thread depends on
the installed Torch, so `processWide` is chosen in `Init`. `Lookup` and
`Construct` are a compile that asks the FX cache and then the slot.

## 3. Runs

All runs but `mode` set `CHECK_DEADLOCK FALSE` because the modelled systems may
stop: the engine after a failure or when all requests are done, the transaction
when the operator has nothing left to do, the threads and auditors when the
bounded number of calls is used up, the cleaners when the run is over, a server
after its last crash. That nothing stops *too early* is what the liveness
properties and `NoCircularWait` are for.

| Run | Shows | Bounds |
|---|---|---|
| `shared` | `OwnState`, `NoLeftoverClear`, the refinement of `PrivateState` | 3 requests on 2 slots so that slots change hands, 2 running, 2 layers, 3 tokens (first chunk, second chunk, decode), one retraction, failing launches |
| `alone` | no guard fires and every request is served when the layers owing a clear are discovered one by one | one running request, as the release launchers configure it; no static layer ids; 3 layers, so that a clear is in progress with one layer known, one being discovered and one to come |
| `diverging` | a violation, see section 6 | one diverging request |
| `interrupted` | the five safety properties of the transaction (among them `JournalTellsPrefix`: the durable journal tells what the prefix is), the refinement of `Switch`, and that repeating `--recover` settles | two faults and three crashes anywhere, both recovery commands, two evidence paths |
| `consumer` | a violation, see section 6 | the fewest faults that do it |
| `threads` | the six safety properties of the Inductor path (among them `CircularWaitIsCapture`: threads that wait for each other include the capture of run `capture`); every call comes back unless threads wait for each other | 2 threads, 2 programs, 3 calls, 2 windows, one failure |
| `capture` | a violation, see section 6 | 2 calls |
| `coverage` | the three properties of the auditor and the refinement of `OwnedReport` | 2 auditors, 6 activities of all classes, 3 manifests, one failing write, one removal |
| `session` | a recorded end is true, SIGKILL after SIGTERM and to everyone, signals to others only in the window, the cleanup ends | 2 numbers, 2 births after the leader's (`MaxBirths`), one pause (`MaxSamples`), the controller may die, `stop_run.py` after it (`Overlap = FALSE`) |
| `control` | "exited" and "paused" are true, signals to others only in the window, pauses and interruptions end | 2 numbers, 2 births, all three kinds of watchdog, 2 interruptions (`MaxInterrupts`), one counted pause (`MaxPauses`), `stop_run.py` at any time |
| `decode` | the four properties of the decode path | 2 servers over one cache, one request of 40 tokens in a table of 64 (`MaxContext`), one crash (`MaxCrashes`), all three environments |
| `mode` | the four properties of the mode, and that nothing gets stuck | 2 threads, 2 nested modes each (`MaxFrames`), both scopes of the configuration |

Why these bounds are enough. *State bundle:* the state couples at most the
leaving and the entering owner of a slot with one bystander; requests and slots
are symmetric. *Replacement:* there is one file of each kind the code treats
differently: owned by both RECORDs, by the old one only and by the new one only.
Three crashes allow a crash in the recovery of a crash in a recovery; faults are
independent of them. *Inductor:* locks and trace windows couple two threads at a
time; three calls allow a compile whose prewarm fails, its retry and a launch,
and two windows tell "created in this window" from "created in an earlier one".
*Auditor:* the path is shared pairwise. *Processes:* a number is held by the
leader, by a descendant, by a stranger in turn: two numbers and two births let a
child outlive the leader, and a stranger take the place of either between a check
and a signal. SIGTERM may be ignored and a stopped process continued by anyone.
*Decode:* a ladder of 40 has an exact and an aligned rung for both graphs, that
is four geometries; two servers are enough for one to find what the other, or an
orphan, has published in the meantime. *Mode:* overlap without nesting needs two
threads, and the exit of a nested strict mode inside a strict mode two frames. The proofs (section 5) remove the bounds
where they reach.

## 4. Fairness

* `StateBundle!FairSpec`: the forward is a synchronous Python call, so it goes
  on (weak fairness of `Forward`). The scheduler admits a waiting request
  whenever nothing else runs, and ends each request it runs (strong fairness of
  `StartExtend({r}, 1)` and `Finish(r)`), which is SGLang's side of the
  interface.
* `Replacement!FairSpec`: the process that holds the lock works on; a consumer
  ends; and an operator repeats `--recover`, as the gate document tells him to.
  The last needs strong fairness because the lock is taken and dropped. Nothing
  is assumed of faults and crashes except that they are finitely many.
* `InductorCompile!FairSpec`: a thread that can take a step takes it. With
  finitely many calls weak fairness is enough: whoever waits for a lock is alone
  in the end.
* `SessionCleanup!FairSpec`: a cleaner that can step does, and its clock runs
  (strong fairness of `Expire`, because the deadline is looked at only between
  scans). The processes are under no obligation, not even to die of SIGKILL in
  finite time.
* `RunControl!FairSpec`: the parent polls and its wait runs out (`DrainExpires`).
  Neither the child nor the operator is obliged to do anything.
* `PagedDecode!FairSpec`: a request is a synchronous call, so its server goes on.
  Of the probe only the timeout is fair: it may hang. A compile in the server's
  own process is assumed to end.
* `CoverageAudit` and `InductorMode` need none: they have no liveness property.

## 5. Proofs

**StateBundleProofs** proves `TypeOK`, `OwnState`, `NoLeftoverClear`,
`GuardsSilentAlone` and the refinement of `PrivateState` for every finite set of requests, any set of slots, any number of layers and every
setting of the other parameters. `OwnState` is not inductive: it says nothing of
the forward in progress. The strengthening adds that the slots of running
requests are distinct, that a forward's debt is exactly the layers still ahead
of it, and that in those layers the slot of a new request is still owed its
clear; then each layer pays its own and the rest is arithmetic on token counts.
The refinement (`ServiceIsPrivate`) follows from `OwnState` before and after a
step: what is seen of a slot is a function of the scheduler's own numbers, and
only the last layer's step and the end of a forward move them. It is proved under
the assumption that no request diverges, without which it is false (section 6).
`AloneNeverGuarded` needs an invariant of its own: with one running request
everything that the guards compare counts to one. `OnlyDivergencePoisons` says how
far the NaN of section 6 spreads, and `FiniteIsCleared` that the document's claim
holds where there is none.

**ReplacementProofs** proves `TypeOK`, `BackedUpBeforeRemoval`,
`RolledBackIsRestored`, `JournalTellsPrefix`, `OnlyRollbackUndoes`,
`PrefixFrozenUnderConsumer` and the refinement of `Switch` for all
inventories of files, evidence paths and numbers of faults and crashes. The
inductive invariant says, for every value of the program counter, what the
prefix and the durable records are at that point (for example: between the
publication of the success evidence and the end of the apply all files are new
and synced), and, for a process that is not there, what the journal's phase
alone guarantees, because after a crash that is all a recovery knows. Its proof
has one lemma per action. The refinement needs nothing more: files change in
an apply only while undecided (`ApplyMoves`), and a restoration or a power loss
never ends in the new prefix (`RestoreMoves`). That a transaction and a consumer
exclude each other is a two-line invariant (`LockOK`). Two theorems are about
progress: `CommandsGoOn`, that wherever a command is the guard of its next step
holds (the next file of an order exists, the audit finds what it needs), and
`CommandsAdvance`, that every step that is not an interruption descends in a
measure of stages, files left and what is left of a file. Four more say where the
findings of section 6 begin; their invariants (`QuietInv`, `RestInv`,
`RepeatInv`) describe a system that nothing has interrupted yet.

**CoverageAuditProofs** proves the three properties of the auditor and the
refinement of `OwnedReport` (`ReportIsOwned`) for any auditors, activities and
manifests. `FinalReportImmutable` needs the invariant that an auditor whose last publication is the report on disk knows that it is
final (`FinalIsRemembered`); `PassedIsEarned` and `PoisonNeverPasses` need that a
misfiled or poisoned event has left a violation behind (`AuditorOK`).

**InductorCompileProofs** proves the six safety properties of run `threads` for
any threads and programs and any number of calls, trace windows and failures.
The invariant has one predicate per thread for the job it may be doing at a
place (`JobOK`), the locks it holds there (`LockOK`), what it has established on
its way (`KnownOK`) and what its capture holds (`CapturedOK`), and one per
program (`CacheOK`): it has a record only with an executable, was created at
most once, and its record was not written in the window it was created in. That
last fact is why a prewarm overtaken by a trace window is harmless: the record
that is refused keeps the executable from being launched inside that window.
`OnlyCapturesDeadlock` looks at who waits with a lock in hand: nobody with the bridge
lock, with the compile lock only a compilation before its callback, with the capture
lock only a capture before the compiler; so a circle of threads goes through both.
Without `run_fp32_swiglu` there is none (`NoDeadlockWithoutSwiglu`).
`CallsOnlyAdvance` is a measure: a call has eighteen places and no step takes it
back to an earlier one.

**SessionCleanupProofs** proves `TypeOK`, `RecordedEndIsEmpty`, `NoSurvivorSpared`,
`ForeignOnlyInWindow` and `KillAfterTerm` for any numbers and any number of births
and pauses, both cleaners at work at the same time included (the run has them one
after the other). Two facts about the process table carry it (`TableOK`): a start
time names one holder of a number, and as long as a process of the run lives in
the recorded session, whoever carries that session or the recorded group is one
of the run. Of a cleaner the invariant says that the members of the group that
were alive when a scan began are still ahead of it (in what the scan must see,
then in its list) or have been dealt with (`TermOK`, `KillOK`), and that an empty
last scan leaves nothing unless something slipped through it (`ResultOK`).
`CleanupsOnlyAdvance` is the measure behind `CleanupEnds`: phases descend, a round
of a loop is repeated only before the deadline of its phase, the members of a
round are struck off one by one, and the pass of SIGKILL has one round.

**RunControlProofs** proves `TypeOK`, `ExitedMeansEmpty`, `PausedMeansStopped` and
`ForeignOnlyInWindow` over the same kind of table. `PauseOK` is what
`PausedMeansStopped` needs: the status in memory may say "paused" of a run that is
not stopped only between the SIGCONT that lets it see SIGTERM and the SIGSTOP for
those that survive it. The two modules share the idea of the table and no lemma:
what each asks of a step on it differs. `ParentOnlyAdvances` orders the parent's
terminations by whose account they are on (a watchdog's, what was left behind, an
interruption or error) and each of them by its steps: once the parent has stopped
watching, nothing takes it back. Its invariant (`Attended`) says that the child is
not reaped while the parent watches it, which also yields `PausesMeetTheChild`:
between the check and the signal of a pause the group cannot become empty.

**PagedDecodeProofs** proves `TypeOK`, `ReadyIsRecorded`,
`AssemblesOnlyAsLastResort` and `ShapeIsStable` for any servers, requests, table
width and number of crashes. `ShapeIsStable` is what makes it long: a request
that is walked again must end at the graph it ended at before, although timeouts,
orphans and other requests have changed what is known since. The invariant
orders the graphs of a request as the code tries them (`Walk`, `Before`) and says
that everything before the graph chosen now, and before the graph it was served
with, is `Rejected`: known to fail and not compiled. That the last resort of
*another* request never compiles one of those needs arithmetic: the ladder of a
rung is the rest of the ladder (`LadderOfRung`). `RequestsAdvance` is the measure of
that walk: graphs, candidates and verdicts that are left only become fewer.

**InductorModeProofs** proves `TypeOK`, `NeverReplayed`, `StrictNeverWeakened`,
`NoImplicitFallback` and `Reversible` for any threads and any depth of nesting.
`StackOK` describes the stack of modes; `FallbackOK` says that inside a strict
mode fallbacks are off, and that every strict mode nested in a strict one writes
"off" back; with a configuration of the whole process it is the preparation
before the first mode that keeps every saved value "off".

Type invariants that a theorem proves are not repeated in the runs.

The assumptions are those of the modules (`ParameterAssumption`,
`InventoryAssumption`, `CompileAssumption`, `AuditAssumption`,
`ProcessAssumption`, `SessionAssumption`, `ControlAssumption`, `DecodeAssumption`,
`FramesAssumption`): constants have
their types and the special values are not members of the sets they are added
to. TLC evaluates them on each run.

Only model-checked: liveness (`EveryRequestServed`, `Settles`, `CallsReturn`,
`CleanupEnds`, `PauseAndInterruptEnd`, `RequestEnds`), since TLAPS has no support
for `ENABLED` and fairness, and the counterexamples of section 6. Of five of these
six the half without fairness is proved for every size: the steps that fairness
promises descend in a measure (`CommandsAdvance`, `CallsOnlyAdvance`,
`CleanupsOnlyAdvance`, `ParentOnlyAdvances`, `RequestsAdvance`). What remains to TLC
is that the steps come, and of the repetitions the theorems name (a round before a
deadline, a parent that watches, another `--recover`) that they come to an end. Induction over
data and recursive operators are out of the prover's reach; no module with
theorems uses them.

## 6. Where the code and what is said of it differ

Three runs that TLC must refute, each with the theorems that say how far the
disagreement goes:

* `diverging` (`ClearedBeforeUse`): a recurrent state that became NaN is not
  cleared for the slot's next owner: the clear multiplies by zero. Only a forward of
  the diverging request itself makes its slot NaN, no other slot is touched, and
  the slot is lost for good (`OnlyDivergencePoisons`); without a diverging request
  nobody reads one (`FiniteIsCleared`).
* `consumer` (`NoPartialPrefix`): after a SIGKILL in the middle of the install
  the lock is free, and both admission checks accept the half-installed prefix:
  names and versions are the same. It takes a fault or a crash
  (`QuietConsumersSeeOneEnvironment`), and the journal, which no admission reads,
  would have told (`PiecesAreJournaled`).
* `capture` (`NoCircularWait`): a SwiGLU capture takes the capture lock and then
  the compile lock; the artifact callback of any other compilation takes them in
  the other order. With bad timing both threads wait for ever. Every circle of
  waiting threads contains this one (`OnlyCapturesDeadlock`).

Four further configurations are refuted as well and are run by hand
(`tlc -config <name>.cfg <module>`):

* `Replacement_oldlock` of `MCReplacement` (`OldLockRefused`): the environment
  identity compares names and versions, which the replacement does not change.
* `Replacement_repeat` of `MCReplacement` (`FinishedUnlessInterrupted`):
  `--recover` and then `--rollback`, with nothing interrupted, ends with a journal
  that is rolling back for ever. The environment is then the old one, whole, with
  nothing left to undo (`CommandsComeToRest`), and without `--rollback` it does not
  happen (`RecoverIsIdempotent`).
* `Replacement_reverify` of `MCReplacement` (`CommitIsVerified`): a kill inside the
  post-audit of a `--recover` leaves the runtime view behind, after which a
  committed install can no longer be verified.
* `RunControl_reaprace` of `RunControl` (`ChildExitIsNoError`): "The child won the
  poll/verify race and needs only to be reaped" (`run_isolated.py:476`) handles
  `ProcessLookupError`. A zombie is refused with `RuntimeError` where its
  environment reads as empty, and the parent ends with an error. It depends on the
  kernel, which is why it is not one of the runs.

Seen while modelling, without a run of their own:

* `attention.py:979` says of a probed compile "or ``None`` when tileiras rejects
  the geometry; the caller then falls back". Without `PYPTO_CACHE_DIR` there is no
  probe and the rejection raises (`Consider`, first case of `Compile`).
* `context.py:48` says that Inductor's FX-graph cache is disabled while the mode is
  active. It is not inside a bound callback that runs after its mode has ended, nor
  when another thread's mode has just written the flag back. `NeverReplayed` holds
  nevertheless, because the wrapper of the mode cannot be cached; that is why the
  property is about the cache and not about the flag.
* Process-wide modes that overlap without nesting can leave `cuda_backend` at
  `"pypto"` after the last one: the one that began second saved the first one's
  value. A later original compile outside any mode then finds no backend of that
  name (`Construct` without `works`) and raises.
* `uninstall()` of `registration.py` leaves `torch_inductor._INSTALLED` set, so the
  next `mode()` would not install again; a test and a benchmark call the former
  directly and compile nothing afterwards. The same call drops the saved hash function under a compile that is about to use it
  (`registration.py:64`).

## 7. Not modelled

* Arithmetic of the kernels, code generation, and layouts: their results are
  compared numerically by the tests; TLC has nothing to say about floating point.
* `PyPTOStateBundle.copy_from`: its only caller is the radix cache, which the
  backend refuses.
* In the replacement: file modes, symbolic links, the wheel audit itself, the
  subprocess audits beyond their verdict, a second transaction over another
  backup root.
* In the mode: the hash guard, the Dynamo patches, the version assertions.
* In the decode path: shape checks of a request, `bootstrap` with its import race
  (`_boot.py:66`, a diagnostic path), the packet cache, CUDA-graph leases, forks
  (nothing in the repository forks a process that has launched a graph).
* Of the processes: launching, log rotation, GPU attribution, the contracts and
  evidence of the smoke controllers. Scans other than the last one are atomic in
  `RunControl`, where every later step looks again; `process.json` is written at
  once, so a field lost between two writers (`stop_run.py:739`) does not occur.
* `pypto_stream`: two `wait_stream` calls around a `yield` under one lock. What they
  order is execution by the CUDA runtime; a model would check the model of that.
* In the Inductor path: the disk artifact cache, the packet caches, device and
  stream checks, fork guards, alias names that collide across graphs (refused).
* In the auditor: the validation of single records, a power loss between the
  replacement of the report and the directory sync.
* `normalize_cupti_window`: one pass of one thread over the records of a closed
  window; the unit tests give it hand-made windows.
* Components without state or order of their own: inventories, version pins,
  build, download, benchmark and report tools, demos, vendored sources.

## 8. Plan

Done: `StateBundle` with `PrivateState`; `Replacement` with `Switch`;
`InductorCompile`; `CoverageAudit`; `SessionCleanup` and `RunControl` over
`OwnedProcesses`; `PagedDecode`; `InductorMode`; `OwnedReport`; proofs of the
safety of all of them, of the three refinements, of the measures behind five of the
six liveness properties, and of how far each of the three violations reaches.

Worth doing next, in this order:

1. The environment lock composed with `SessionCleanup`: a surviving member keeps the
   inherited descriptor and with it the shared lock.
2. A second replacement transaction over another backup root
   (`replace_triton_environment.py:4772`).
3. `KernelBoot`: the packet cache at its limit and the leases of CUDA graphs.
