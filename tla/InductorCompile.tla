-------------------------- MODULE InductorCompile --------------------------
(***************************************************************************)
(* The compile / prewarm / launch path of the PyPTO Inductor backend, run  *)
(* by several threads of one process: compile_pointwise and the artifact   *)
(* capture (torch/pointwise_codegen.py), the kernel registry and code      *)
(* generation (torch/scheduling.py), the executables and their provenance  *)
(* (torch/runtime_bridge.py), the cached SwiGLU callable                   *)
(* (torch/inductor_swiglu.py), and CUPTI trace windows, which are external *)
(* and may begin and end at any moment.                                    *)
(*                                                                         *)
(* A program stands for its whole chain: cache key, artifact, kernel name, *)
(* native identity.  The leaf locks (_RUNTIME_LOCK, the registry's) guard  *)
(* single dictionary operations and are the atomicity of a step.           *)
(***************************************************************************)
EXTENDS Naturals, FiniteSets

CONSTANTS
    Threads,
    Programs,    \* native programs
    Jobs,        \* the kinds of call that are made
    MaxCalls,    \* bound on the calls made
    MaxWindows,  \* bound on the trace windows opened
    MaxFaults,   \* bound on compiler, prewarm and launch failures
    None

Locks == {"swiglu", "capture", "compile", "bridge"}

ASSUME CompileAssumption ==
    /\ Jobs \subseteq {"codegen", "direct", "launch", "swiglu"}
    /\ MaxCalls \in Nat /\ MaxWindows \in Nat /\ MaxFaults \in Nat
    /\ None \notin Threads

VARIABLES
    th,          \* per thread: the call in progress, its program, pc, was
    lock,        \* owner of every re-entrant lock
    active,      \* _ACTIVE_CAPTURE: the thread whose capture it is
    captured,    \* artifacts the latest capture recorded
    window,      \* the open trace window, 0 if none
    cache,       \* _COMPILE_CACHE, and the retained runtime objects
    aliases,     \* runtime objects retained under a caller's name
    executables, \* _executables
    records,     \* _artifact_records
    registry,    \* REGISTRY
    emitted,     \* wrapper launch sources
    callables,   \* _callable_cache of inductor_swiglu
    creations,   \* how often an executable was created for a program
    createdIn,   \* the window it was created in, 0 if none
    calls, windows, faults

caches == <<cache, aliases, executables, records, registry, emitted,
            callables, creations, createdIn>>
bounds == <<calls, windows, faults>>
vars == <<th, lock, active, captured, window, cache, aliases, executables,
          records, registry, emitted, callables, creations, createdIn,
          calls, windows, faults>>

NoCall == [job |-> "none", prog |-> None, pc |-> "idle", was |-> FALSE]

Init ==
    /\ th = [t \in Threads |-> NoCall]
    /\ lock = [l \in Locks |-> None]
    /\ active = None /\ captured = {}
    /\ window = 0
    /\ cache = {} /\ aliases = {} /\ executables = {} /\ records = {}
    /\ registry = {} /\ emitted = {} /\ callables = {}
    /\ creations = [p \in Programs |-> 0]
    /\ createdIn = [p \in Programs |-> 0]
    /\ calls = 0 /\ windows = 0 /\ faults = 0

TraceWindowActive == window # 0

Prog(t) == th[t].prog
At(t, pc) == th[t].pc = pc
Goto(t, pc) == th' = [th EXCEPT ![t].pc = pc]

\* A re-entrant lock: free, or already held by the same thread.
CanTake(t, l) == lock[l] \in {None, t}
Take(t, l) == lock' = [lock EXCEPT ![l] = t]
Drop(l) == lock' = [lock EXCEPT ![l] = None]

\* Mutant: runtime_bridge works without its lock.
BridgeUnlocked(t) == TRUE

BridgeFree(t) == CanTake(t, "bridge")

\* Mutant: locks are released by hand, and not where a call raises.
LeaveHolding(t) ==
    /\ th' = [th EXCEPT ![t] = NoCall]
    /\ active' = IF active = t THEN None ELSE active
    /\ UNCHANGED <<lock, captured>>

\* The call ends, by returning or by raising: every with statement is left.
Leave(t) ==
    /\ th' = [th EXCEPT ![t] = NoCall]
    /\ lock' = [l \in Locks |-> IF lock[l] = t THEN None ELSE lock[l]]
    /\ active' = IF active = t THEN None ELSE active
    /\ UNCHANGED captured

Raise(t) == Leave(t) /\ UNCHANGED caches

-----------------------------------------------------------------------------
(* The calls. *)

Entry(job) ==
    CASE job = "swiglu" -> "swiglu" [] job = "launch" -> "launch"
      [] OTHER -> "enter"

\* Code generation for one graph, a direct compile_pointwise without prewarm,
\* a generated wrapper (or the direct caller) launching, run_fp32_swiglu.
Call(t, job, p) ==
    /\ At(t, "idle") /\ calls < MaxCalls
    /\ job = "launch" => p \in registry
    /\ th' = [th EXCEPT ![t] = [job |-> job, prog |-> p, pc |-> Entry(job),
                                was |-> FALSE]]
    /\ calls' = calls + 1
    /\ UNCHANGED <<lock, active, captured, caches>>

\* Mutant: the record of the artifact is not part of being prewarmed.
HasExecutable(p) == p \in executables

KernelIsPrewarmed(p) == p \in executables /\ p \in records

\* run_fp32_swiglu, on a callable that is cached: its registration and its
\* executable must still be there.
SwigluHit(t) ==
    /\ At(t, "swiglu") /\ CanTake(t, "swiglu") /\ Prog(t) \in callables
    /\ BridgeFree(t)
    /\ IF Prog(t) \in registry /\ KernelIsPrewarmed(Prog(t))
       THEN /\ Take(t, "swiglu") /\ Goto(t, "launch")
            /\ UNCHANGED <<active, captured, caches>>
       ELSE Raise(t)

SwigluMiss(t) ==
    /\ At(t, "swiglu") /\ CanTake(t, "swiglu") /\ Prog(t) \notin callables
    /\ IF TraceWindowActive
       THEN Raise(t)
       ELSE /\ Take(t, "swiglu") /\ Goto(t, "capture")
            /\ UNCHANGED <<active, captured, caches>>

\* Mutant: the callable is cached before its first call has succeeded.
CacheThenCapture(t) ==
    /\ At(t, "capture") /\ CanTake(t, "capture")
    /\ Take(t, "capture") /\ active' = t /\ captured' = {}
    /\ callables' = callables \cup {Prog(t)}
    /\ Goto(t, "enter")
    /\ UNCHANGED <<cache, aliases, executables, records, registry, emitted,
                   creations, createdIn>>

\* capture_pointwise_artifacts: the lock is held until the block is left.
EnterCapture(t) ==
    /\ At(t, "capture") /\ CanTake(t, "capture")
    /\ Take(t, "capture") /\ active' = t /\ captured' = {}
    /\ Goto(t, "enter")
    /\ UNCHANGED caches

LeaveCapture(t) ==
    /\ At(t, "close")
    /\ Drop("capture") /\ active' = None
    /\ Goto(t, "keep")
    /\ UNCHANGED <<captured, caches>>

KeepCallable(t) ==
    /\ At(t, "keep") /\ BridgeFree(t)
    /\ Leave(t)
    /\ callables' = IF /\ captured = {Prog(t)} /\ Prog(t) \in registry
                       /\ KernelIsPrewarmed(Prog(t))
                    THEN callables \cup {Prog(t)} ELSE callables
    /\ UNCHANGED <<cache, aliases, executables, records, registry, emitted,
                   creations, createdIn>>

-----------------------------------------------------------------------------
(* compile_pointwise, one transaction under _COMPILE_LOCK. *)

EnterCompile(t) ==
    /\ At(t, "enter") /\ CanTake(t, "compile")
    /\ IF Prog(t) \notin cache /\ TraceWindowActive
       THEN Raise(t)
       ELSE /\ Take(t, "compile")
            /\ th' = [th EXCEPT
                        ![t].was = TraceWindowActive,
                        ![t].pc = IF Prog(t) \notin cache THEN "compile"
                                  ELSE IF th[t].job = "direct" THEN "alias"
                                  ELSE "prewarm"]
            /\ UNCHANGED <<active, captured, caches>>

\* The structured compile, refused if a trace window began meanwhile.
Compile(t) ==
    /\ At(t, "compile")
    /\ IF TraceWindowActive
       THEN Raise(t)
       ELSE /\ cache' = cache \cup {Prog(t)}
            /\ Goto(t, IF th[t].job = "direct" THEN "alias" ELSE "prewarm")
            /\ UNCHANGED <<lock, active, captured, aliases, executables, records,
                           registry, emitted, callables, creations, createdIn>>

RetainAlias(t) ==
    /\ At(t, "alias")
    /\ IF th[t].was /\ Prog(t) \notin aliases
       THEN Raise(t)
       ELSE /\ aliases' = aliases \cup {Prog(t)}
            /\ Goto(t, "settle")
            /\ UNCHANGED <<lock, active, captured, cache, executables, records,
                           registry, emitted, callables, creations, createdIn>>

\* Inside a trace the executable must already be there.
CheckPrewarmed(t) ==
    /\ At(t, "prewarm") /\ th[t].was /\ BridgeFree(t)
    /\ IF KernelIsPrewarmed(Prog(t))
       THEN Goto(t, "settle") /\ UNCHANGED <<lock, active, captured, caches>>
       ELSE Raise(t)

Settle(t) ==
    /\ At(t, "settle")
    /\ IF TraceWindowActive /\ ~th[t].was
       THEN Raise(t)
       ELSE Goto(t, "callback") /\ UNCHANGED <<lock, active, captured, caches>>

\* Mutant: the callback works without the capture lock.
CallbackUnlocked(t) ==
    /\ At(t, "callback")
    /\ captured' = IF active # None THEN captured \cup {Prog(t)} ELSE captured
    /\ Drop("compile") /\ Goto(t, "register")
    /\ UNCHANGED <<active, caches>>

\* _record_active_capture takes the capture lock inside the compile lock.
Callback(t) ==
    /\ At(t, "callback") /\ CanTake(t, "capture")
    /\ captured' = IF active # None THEN captured \cup {Prog(t)} ELSE captured
    /\ Drop("compile") /\ Goto(t, "register")
    /\ UNCHANGED <<active, caches>>

Register(t) ==
    /\ At(t, "register")
    /\ registry' = registry \cup {Prog(t)}
    /\ IF th[t].job = "direct"
       THEN Leave(t)
       ELSE Goto(t, "emit") /\ UNCHANGED <<lock, active, captured>>
    /\ UNCHANGED <<cache, aliases, executables, records, emitted, callables,
                   creations, createdIn>>

\* The wrapper's launch line is emitted and recorded; SwiGLU then runs it.
Emit(t) ==
    /\ At(t, "emit")
    /\ emitted' = emitted \cup {Prog(t)}
    /\ IF th[t].job = "swiglu"
       THEN Goto(t, "launch") /\ UNCHANGED <<lock, active, captured>>
       ELSE Leave(t)
    /\ UNCHANGED <<cache, aliases, executables, records, registry, callables,
                   creations, createdIn>>

-----------------------------------------------------------------------------
(* runtime_bridge: prewarm_kernel holds the bridge lock from end to end,   *)
(* pypto_launch for one cache at a time.                                   *)

InPrewarm(t) == lock["compile"] = t

EnsureExecutable(t) ==
    /\ At(t, "launch") \/ (At(t, "prewarm") /\ ~th[t].was)
    /\ BridgeFree(t)
    /\ IF TraceWindowActive /\ (InPrewarm(t) \/ Prog(t) \notin executables)
       THEN Raise(t)
       ELSE /\ IF Prog(t) \in executables
               THEN /\ Goto(t, "record")
                    /\ lock' = [lock EXCEPT !["bridge"] =
                                  IF InPrewarm(t) THEN t ELSE @]
               ELSE Goto(t, "create") /\ Take(t, "bridge")
            /\ UNCHANGED <<active, captured, caches>>

\* The module is loaded and its function prewarmed; a trace window may have
\* begun in the meantime.
CreateExecutable(t) ==
    /\ At(t, "create")
    /\ executables' = executables \cup {Prog(t)}
    /\ creations' = [creations EXCEPT ![Prog(t)] = @ + 1]
    /\ createdIn' = [createdIn EXCEPT ![Prog(t)] = window]
    /\ lock' = [lock EXCEPT !["bridge"] = IF InPrewarm(t) THEN t ELSE None]
    /\ Goto(t, "record")
    /\ UNCHANGED <<active, captured, cache, aliases, records, registry, emitted,
                   callables>>

\* Mutant: the provenance may be recorded inside a trace.
RecordAnytime(p) == TRUE

MayRecord(p) == p \in records \/ ~TraceWindowActive

EnsureArtifactRecord(t) ==
    /\ At(t, "record") /\ BridgeFree(t)
    /\ IF MayRecord(Prog(t))
       THEN /\ records' = records \cup {Prog(t)}
            /\ Goto(t, IF InPrewarm(t) THEN "prewarmed" ELSE "run")
            /\ UNCHANGED <<lock, active, captured, cache, aliases, executables,
                           registry, emitted, callables, creations, createdIn>>
       ELSE Raise(t)

\* Mutant: the bridge lock is kept until the compile lock is released.
EndPrewarmHolding(t) ==
    /\ At(t, "prewarmed")
    /\ IF TraceWindowActive
       THEN Raise(t)
       ELSE /\ Goto(t, "settle")
            /\ UNCHANGED <<lock, active, captured, caches>>

EndPrewarm(t) ==
    /\ At(t, "prewarmed")
    /\ IF TraceWindowActive
       THEN Raise(t)
       ELSE /\ Goto(t, "settle") /\ Drop("bridge")
            /\ UNCHANGED <<active, captured, caches>>

\* executable.launch on the caller's stream.
Run(t) ==
    /\ At(t, "run")
    /\ IF active = t
       THEN Goto(t, "close") /\ UNCHANGED <<lock, active, captured>>
       ELSE Leave(t)
    /\ UNCHANGED caches

-----------------------------------------------------------------------------
Step(t) ==
    \/ SwigluHit(t) \/ SwigluMiss(t)
    \/ EnterCapture(t) \/ LeaveCapture(t) \/ KeepCallable(t)
    \/ EnterCompile(t) \/ Compile(t) \/ RetainAlias(t)
    \/ CheckPrewarmed(t) \/ Settle(t) \/ Callback(t)
    \/ Register(t) \/ Emit(t)
    \/ EnsureExecutable(t) \/ CreateExecutable(t) \/ EnsureArtifactRecord(t)
    \/ EndPrewarm(t) \/ Run(t)

\* The compiler, the driver or the launch raises.
Fails(t) ==
    /\ faults < MaxFaults
    /\ th[t].pc \in {"compile", "create", "run"}
    /\ faults' = faults + 1
    /\ Raise(t)
    /\ UNCHANGED <<window, calls, windows>>

BeginTraceWindow ==
    /\ window = 0 /\ windows < MaxWindows
    /\ windows' = windows + 1 /\ window' = windows + 1
    /\ UNCHANGED <<th, lock, active, captured, caches, calls, faults>>

EndTraceWindow ==
    /\ window # 0 /\ window' = 0
    /\ UNCHANGED <<th, lock, active, captured, caches, bounds>>

Next ==
    \/ \E t \in Threads :
         \/ Step(t) /\ UNCHANGED <<window, bounds>>
         \/ \E job \in Jobs, p \in Programs :
              Call(t, job, p) /\ UNCHANGED <<window, windows, faults>>
         \/ Fails(t)
    \/ BeginTraceWindow \/ EndTraceWindow

Spec == Init /\ [][Next]_vars

\* A thread that can take a step eventually does; calls are finitely many, so
\* a lock that is released stays free for the last of its waiters.
FairSpec ==
    Spec /\ \A t \in Threads : WF_vars(Step(t) /\ UNCHANGED <<window, bounds>>)

-----------------------------------------------------------------------------
Pcs == {"idle", "swiglu", "capture", "close", "keep", "enter", "compile",
        "alias", "prewarm", "settle", "callback", "register", "emit", "launch",
        "create", "record", "prewarmed", "run"}

ThreadStates ==
    [job: Jobs \cup {"none"}, prog: Programs \cup {None}, pc: Pcs, was: BOOLEAN]

\* The types of the threads, locks, caches and counters.
TypeOK ==
    /\ th \in [Threads -> ThreadStates]
    /\ lock \in [Locks -> Threads \cup {None}]
    /\ active \in Threads \cup {None}
    /\ captured \subseteq Programs
    /\ window \in Nat
    /\ cache \subseteq Programs /\ aliases \subseteq Programs
    /\ executables \subseteq Programs /\ records \subseteq Programs
    /\ registry \subseteq Programs /\ emitted \subseteq Programs
    /\ callables \subseteq Programs
    /\ creations \in [Programs -> Nat]
    /\ createdIn \in [Programs -> Nat]
    /\ calls \in Nat /\ windows \in Nat /\ faults \in Nat

\* "Unrelated compile threads cannot contaminate this capture": while a
\* capture is open only its own thread's artifact is in it, and when it is
\* read it holds exactly that one.
CaptureIsOwn ==
    /\ active # None => captured \subseteq {Prog(active)}
    /\ \A t \in Threads : th[t].pc \in {"close", "keep"} => captured = {Prog(t)}

\* A callable in the SwiGLU cache never "lost its artifact registration" or
\* "its executable prewarm", so a trace may rely on it.
CallablesReady ==
    \A p \in callables : p \in registry /\ KernelIsPrewarmed(p)

\* Every wrapper that was emitted can be launched inside a trace window
\* without creating anything, whatever failed on the way to it.
WrappersReady ==
    \A p \in emitted : p \in registry /\ p \in cache /\ p \in executables /\ p \in records

\* Racing prewarms and launches share one executable per artifact.
OneExecutable ==
    \A p \in Programs : creations[p] <= 1

\* A launch inside a trace window uses an executable created before that
\* window, also when the window opened in the middle of a prewarm: the
\* provenance record that is then refused keeps the executable from use.
PrewarmedBeforeTrace ==
    \A t \in Threads :
        At(t, "run") /\ window # 0 => createdIn[Prog(t)] # window

\* The lock a thread waits for, if any.
Wants(t) ==
    CASE At(t, "swiglu") -> "swiglu"
      [] th[t].pc \in {"capture", "callback"} -> "capture"
      [] At(t, "enter") -> "compile"
      [] th[t].pc \in {"prewarm", "launch", "record", "keep"} -> "bridge"
      [] OTHER -> "nothing"
WaitsFor(t, u) ==
    Wants(t) # "nothing" /\ t # u /\ lock[Wants(t)] = u

\* "Hold the re-entrant lock for the complete synchronous compiler
\* transaction. Same-thread artifact callbacks may re-enter"
\* (pointwise_codegen.py): no set of threads waits for itself.
NoCircularWait ==
    \A D \in (SUBSET Threads) \ {{}} :
        \E t \in D : \A u \in D : ~WaitsFor(t, u)

\* Where threads do wait for each other, one of them is a SwiGLU capture about
\* to enter the compiler (the capture lock, then the compile lock) and another
\* a compilation about to report its artifact (the compile lock, then the
\* capture lock): no other pair of the four locks is taken in two orders.
CircularWaitIsCapture ==
    \A D \in (SUBSET Threads) \ {{}} :
        (\A t \in D : \E u \in D : WaitsFor(t, u)) =>
            \E t, u \in D :
                /\ lock["capture"] = t /\ At(t, "enter")
                /\ lock["compile"] = u /\ At(u, "callback")

\* Every call comes back, unless threads wait for each other: nothing else, a
\* failure in the middle of a call included, leaves a lock behind or a call
\* without its next step.
CallsReturn ==
    \A t \in Threads : th[t].pc # "idle" ~> (th[t].pc = "idle" \/ ~NoCircularWait)
=============================================================================
