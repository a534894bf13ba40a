----------------------- MODULE InductorCompileProofs -----------------------
(***************************************************************************)
(* The safety properties of InductorCompile hold for every set of threads  *)
(* and programs and every bound.  IInv says where a thread may be while it *)
(* holds a lock, what it has established on its way, and what the caches   *)
(* of the process say of one program; one lemma per action shows that it   *)
(* is kept.                                                                *)
(***************************************************************************)
EXTENDS InductorCompile, TLAPS

\* The jobs that may be at a place: only code generation and SwiGLU prewarm.
JobOK(t) ==
    /\ At(t, "idle") <=> th[t].job = "none"
    /\ ~At(t, "idle") => th[t].job \in Jobs /\ Prog(t) \in Programs
    /\ th[t].pc \in {"swiglu", "capture", "close", "keep"} => th[t].job = "swiglu"
    /\ th[t].job = "launch" => th[t].pc \in {"launch", "create", "record", "run"}
    /\ At(t, "alias") => th[t].job = "direct"
    /\ th[t].pc \in {"prewarm", "prewarmed", "emit"} => th[t].job \in {"codegen", "swiglu"}
    /\ lock["compile"] = t /\ th[t].pc \in {"create", "record"} =>
         th[t].job \in {"codegen", "swiglu"}
    /\ th[t].job \in {"codegen", "direct"} /\ th[t].pc \in {"create", "record"} =>
         lock["compile"] = t
    /\ th[t].job \in {"codegen", "direct"} => th[t].pc \notin {"launch", "run"}

\* Inside the transaction of compile_pointwise, prewarm included.
Compiling == {"compile", "alias", "prewarm", "settle", "callback", "prewarmed"}

\* Which thread is where while it holds a lock.
LockOK(t) ==
    /\ th[t].pc \in Compiling => lock["compile"] = t
    /\ lock["compile"] = t => th[t].pc \in Compiling \cup {"create", "record"}
    /\ th[t].pc \in {"create", "prewarmed"} => lock["bridge"] = t
    /\ At(t, "record") => (lock["bridge"] = t <=> lock["compile"] = t)
    /\ lock["bridge"] = t => th[t].pc \in {"create", "record", "prewarmed"}
    /\ lock["swiglu"] = t <=> th[t].job = "swiglu" /\ ~At(t, "swiglu")
    /\ active = t <=> lock["capture"] = t
    /\ active = t => lock["swiglu"] = t /\ th[t].pc \notin {"capture", "keep"}
    /\ th[t].job = "swiglu" /\ th[t].pc \in {"enter", "register", "emit", "close"} =>
         active = t
    /\ th[t].job = "swiglu" /\ lock["compile"] = t => active = t

\* What a thread has established on its way.
KnownOK(t) ==
    /\ \/ th[t].pc \in {"alias", "prewarm", "settle", "callback", "register",
                        "emit", "prewarmed"}
       \/ lock["compile"] = t /\ th[t].pc \in {"create", "record"}
       => Prog(t) \in cache
    /\ At(t, "create") => Prog(t) \notin executables
    /\ th[t].pc \in {"record", "prewarmed", "run", "close"} => Prog(t) \in executables
    /\ th[t].pc \in {"prewarmed", "run", "close"} => Prog(t) \in records
    /\ th[t].pc \in {"settle", "callback", "register", "emit"} /\ th[t].job # "direct" =>
         Prog(t) \in executables /\ Prog(t) \in records
    /\ At(t, "emit") => Prog(t) \in registry

\* What the latest capture holds, seen from the thread it belongs to.
CapturedOK(t) ==
    /\ active = t => captured \subseteq {Prog(t)}
    /\ active = t /\ \/ th[t].pc \in {"register", "emit", "launch", "run", "close"}
                     \/ th[t].pc \in {"create", "record"} /\ lock["compile"] # t
       => captured = {Prog(t)}
    /\ At(t, "keep") => captured = {Prog(t)}

\* What the caches of the process say of a program.
CacheOK(p) ==
    /\ creations[p] = IF p \in executables THEN 1 ELSE 0
    /\ p \in records => p \in executables
    /\ createdIn[p] <= windows
    /\ p \in records /\ window # 0 => createdIn[p] < window
    /\ p \in emitted => p \in registry /\ p \in cache /\ p \in records
    /\ p \in callables => p \in registry /\ p \in records

WindowOK == window \in {0, windows}

IInv ==
    /\ TypeOK /\ WindowOK
    /\ \A t \in Threads : JobOK(t) /\ LockOK(t) /\ KnownOK(t) /\ CapturedOK(t)
    /\ \A p \in Programs : CacheOK(p)

-----------------------------------------------------------------------------
\* Ending a call, or moving to another place of it, keeps a thread's type.
LEMMA ThreadTyped ==
  ASSUME TypeOK, NEW t \in Threads,
         \/ th' = [th EXCEPT ![t] = NoCall]
         \/ \E pc \in Pcs : th' = [th EXCEPT ![t].pc = pc]
         \/ \E pc \in Pcs, was \in BOOLEAN :
              th' = [th EXCEPT ![t].was = was, ![t].pc = pc]
  PROVE  th' \in [Threads -> ThreadStates]
<1>1. CASE th' = [th EXCEPT ![t] = NoCall]
  BY <1>1 DEF TypeOK, NoCall, ThreadStates, Pcs
<1>2. CASE \E pc \in Pcs : th' = [th EXCEPT ![t].pc = pc]
  BY <1>2 DEF TypeOK, ThreadStates
<1>3. ASSUME NEW pc \in Pcs, NEW was \in BOOLEAN,
             th' = [th EXCEPT ![t].was = was, ![t].pc = pc]
      PROVE  th' \in [Threads -> ThreadStates]
  <2> DEFINE mid == [th EXCEPT ![t].was = was]
  <2>1. mid \in [Threads -> ThreadStates]
    BY DEF TypeOK, ThreadStates
  <2>2. th' = [mid EXCEPT ![t].pc = pc]
    BY <1>3
  <2> QED
    BY <2>1, <2>2 DEF ThreadStates
<1> QED
  BY <1>1, <1>2, <1>3

\* run_fp32_swiglu on a cached callable launches with what is there, or raises.
LEMMA SwigluHitKeeps ==
  ASSUME IInv, NEW t \in Threads, SwigluHit(t), UNCHANGED <<window, bounds>>
  PROVE  IInv'
<1> USE CompileAssumption
<1>1. TypeOK'
  <2>1. \/ th' = [th EXCEPT ![t] = NoCall]
        \/ \E pc \in Pcs : th' = [th EXCEPT ![t].pc = pc]
    BY DEF Pcs, SwigluHit, Goto, Raise, Leave
  <2>2. th' \in [Threads -> ThreadStates]
    BY <2>1, ThreadTyped DEF IInv
  <2> QED
    BY <2>2 DEF IInv, TypeOK, SwigluHit, Take, caches, bounds, Raise, Leave
<1>2. ASSUME NEW u \in Threads PROVE JobOK(u)'
  BY DEF IInv, TypeOK, ThreadStates, JobOK, SwigluHit, Goto, Take, At, Prog,
     NoCall, Locks, Raise, Leave
<1>3. ASSUME NEW u \in Threads PROVE LockOK(u)'
  BY DEF IInv, TypeOK, ThreadStates, LockOK, JobOK, Compiling, SwigluHit,
     Goto, Take, CanTake, At, NoCall, Locks, Raise, Leave
<1>4. ASSUME NEW u \in Threads PROVE KnownOK(u)'
  BY DEF IInv, TypeOK, ThreadStates, KnownOK, SwigluHit, Goto, Take, At, Prog,
     NoCall, caches, Locks, Raise, Leave
<1>5. ASSUME NEW u \in Threads PROVE CapturedOK(u)'
  BY DEF IInv, TypeOK, ThreadStates, CapturedOK, LockOK, SwigluHit, Goto,
     CanTake, At, Prog, NoCall, Raise, Leave
<1>6. ASSUME NEW p \in Programs PROVE CacheOK(p)'
  BY DEF IInv, CacheOK, SwigluHit, caches, bounds, Raise
<1>7. WindowOK'
  BY DEF IInv, WindowOK, bounds
<1> QED
  BY <1>1, <1>2, <1>3, <1>4, <1>5, <1>6, <1>7 DEF IInv

\* run_fp32_swiglu without a callable takes its lock, or raises inside a trace.
LEMMA SwigluMissKeeps ==
  ASSUME IInv, NEW t \in Threads, SwigluMiss(t), UNCHANGED <<window, bounds>>
  PROVE  IInv'
<1> USE CompileAssumption
<1>1. TypeOK'
  <2>1. \/ th' = [th EXCEPT ![t] = NoCall]
        \/ \E pc \in Pcs : th' = [th EXCEPT ![t].pc = pc]
    BY DEF Pcs, SwigluMiss, Goto, Raise, Leave
  <2>2. th' \in [Threads -> ThreadStates]
    BY <2>1, ThreadTyped DEF IInv
  <2> QED
    BY <2>2 DEF IInv, TypeOK, SwigluMiss, Take, caches, bounds, Raise, Leave
<1>2. ASSUME NEW u \in Threads PROVE JobOK(u)'
  BY DEF IInv, TypeOK, ThreadStates, JobOK, SwigluMiss, Goto, Take, At, Prog,
     NoCall, Locks, Raise, Leave
<1>3. ASSUME NEW u \in Threads PROVE LockOK(u)'
  BY DEF IInv, TypeOK, ThreadStates, LockOK, JobOK, Compiling, SwigluMiss,
     Goto, Take, CanTake, At, NoCall, Locks, Raise, Leave
<1>4. ASSUME NEW u \in Threads PROVE KnownOK(u)'
  BY DEF IInv, TypeOK, ThreadStates, KnownOK, SwigluMiss, Goto, Take, At,
     Prog, NoCall, caches, Locks, Raise, Leave
<1>5. ASSUME NEW u \in Threads PROVE CapturedOK(u)'
  BY DEF IInv, TypeOK, ThreadStates, CapturedOK, SwigluMiss, Goto, Take, At,
     Prog, NoCall, Locks, Raise, Leave
<1>6. ASSUME NEW p \in Programs PROVE CacheOK(p)'
  BY DEF IInv, CacheOK, SwigluMiss, caches, bounds, Raise
<1>7. WindowOK'
  BY DEF IInv, WindowOK, bounds
<1> QED
  BY <1>1, <1>2, <1>3, <1>4, <1>5, <1>6, <1>7 DEF IInv

\* capture_pointwise_artifacts opens an empty capture of its own thread.
LEMMA EnterCaptureKeeps ==
  ASSUME IInv, NEW t \in Threads, EnterCapture(t), UNCHANGED <<window, bounds>>
  PROVE  IInv'
<1> USE CompileAssumption
<1>1. TypeOK'
  <2>1. \/ th' = [th EXCEPT ![t] = NoCall]
        \/ \E pc \in Pcs : th' = [th EXCEPT ![t].pc = pc]
    BY DEF Pcs, EnterCapture, Goto
  <2>2. th' \in [Threads -> ThreadStates]
    BY <2>1, ThreadTyped DEF IInv
  <2> QED
    BY <2>2 DEF IInv, TypeOK, EnterCapture, Take, caches, bounds, Locks
<1>2. ASSUME NEW u \in Threads PROVE JobOK(u)'
  BY DEF IInv, JobOK, EnterCapture, Goto, Take, At, Prog
<1>3. ASSUME NEW u \in Threads PROVE LockOK(u)'
  BY DEF IInv, TypeOK, LockOK, JobOK, Compiling, EnterCapture, Goto, Take, At,
     Locks
<1>4. ASSUME NEW u \in Threads PROVE KnownOK(u)'
  BY DEF IInv, KnownOK, EnterCapture, Goto, Take, At, Prog, caches
<1>5. ASSUME NEW u \in Threads PROVE CapturedOK(u)'
  BY DEF IInv, CapturedOK, LockOK, JobOK, EnterCapture, Goto, At
<1>6. ASSUME NEW p \in Programs PROVE CacheOK(p)'
  BY DEF IInv, CacheOK, EnterCapture, caches, bounds
<1>7. WindowOK'
  BY DEF IInv, WindowOK, bounds
<1> QED
  BY <1>1, <1>2, <1>3, <1>4, <1>5, <1>6, <1>7 DEF IInv

\* Leaving the capture block keeps what the capture holds.
LEMMA LeaveCaptureKeeps ==
  ASSUME IInv, NEW t \in Threads, LeaveCapture(t), UNCHANGED <<window, bounds>>
  PROVE  IInv'
<1> USE CompileAssumption
<1>1. TypeOK'
  <2>1. \/ th' = [th EXCEPT ![t] = NoCall]
        \/ \E pc \in Pcs : th' = [th EXCEPT ![t].pc = pc]
    BY DEF Pcs, LeaveCapture, Goto
  <2>2. th' \in [Threads -> ThreadStates]
    BY <2>1, ThreadTyped DEF IInv
  <2> QED
    BY <2>2 DEF IInv, TypeOK, LeaveCapture, caches, bounds, Locks, Drop
<1>2. ASSUME NEW u \in Threads PROVE JobOK(u)'
  BY DEF IInv, JobOK, LeaveCapture, Goto, At, Prog, Drop
<1>3. ASSUME NEW u \in Threads PROVE LockOK(u)'
  BY DEF IInv, TypeOK, LockOK, JobOK, Compiling, LeaveCapture, Goto, At,
     Locks, Drop
<1>4. ASSUME NEW u \in Threads PROVE KnownOK(u)'
  BY DEF IInv, KnownOK, LeaveCapture, Goto, At, Prog, caches, Drop
<1>5. ASSUME NEW u \in Threads PROVE CapturedOK(u)'
  BY DEF IInv, CapturedOK, LockOK, JobOK, LeaveCapture, Goto, At, Prog
<1>6. ASSUME NEW p \in Programs PROVE CacheOK(p)'
  BY DEF IInv, CacheOK, LeaveCapture, caches, bounds
<1>7. WindowOK'
  BY DEF IInv, WindowOK, bounds
<1> QED
  BY <1>1, <1>2, <1>3, <1>4, <1>5, <1>6, <1>7 DEF IInv

\* A callable is cached only with its registration, executable and record.
LEMMA KeepCallableKeeps ==
  ASSUME IInv, NEW t \in Threads, KeepCallable(t), UNCHANGED <<window, bounds>>
  PROVE  IInv'
<1> USE CompileAssumption
<1>1. TypeOK'
  <2>1. \/ th' = [th EXCEPT ![t] = NoCall]
        \/ \E pc \in Pcs : th' = [th EXCEPT ![t].pc = pc]
    BY DEF KeepCallable, Leave
  <2>2. th' \in [Threads -> ThreadStates]
    BY <2>1, ThreadTyped DEF IInv
  <2> QED
    BY <2>2 DEF IInv, TypeOK, KeepCallable, bounds, Leave
<1>2. ASSUME NEW u \in Threads PROVE JobOK(u)'
  BY DEF IInv, JobOK, KeepCallable, At, Prog, NoCall, Locks, Leave
<1>3. ASSUME NEW u \in Threads PROVE LockOK(u)'
  BY DEF IInv, TypeOK, LockOK, Compiling, KeepCallable, At, NoCall, Locks,
     Leave
<1>4. ASSUME NEW u \in Threads PROVE KnownOK(u)'
  BY DEF IInv, KnownOK, KeepCallable, At, Prog, NoCall, Locks, Leave
<1>5. ASSUME NEW u \in Threads PROVE CapturedOK(u)'
  BY DEF IInv, CapturedOK, KeepCallable, At, Prog, NoCall, Leave
<1>6. ASSUME NEW p \in Programs PROVE CacheOK(p)'
  BY DEF IInv, CacheOK, KeepCallable, bounds, KernelIsPrewarmed
<1>7. WindowOK'
  BY DEF IInv, WindowOK, bounds
<1> QED
  BY <1>1, <1>2, <1>3, <1>4, <1>5, <1>6, <1>7 DEF IInv

\* Entering the compile transaction, or being refused by an open trace.
LEMMA EnterCompileKeeps ==
  ASSUME IInv, NEW t \in Threads, EnterCompile(t), UNCHANGED <<window, bounds>>
  PROVE  IInv'
<1> USE CompileAssumption
<1>1. TypeOK'
  <2> DEFINE next == IF Prog(t) \notin cache THEN "compile"
                     ELSE IF th[t].job = "direct" THEN "alias" ELSE "prewarm"
  <2>1. \/ th' = [th EXCEPT ![t] = NoCall]
        \/ \E pc \in Pcs, was \in BOOLEAN :
             th' = [th EXCEPT ![t].was = was, ![t].pc = pc]
    <3>1. \/ th' = [th EXCEPT ![t] = NoCall]
          \/ th' = [th EXCEPT ![t].was = TraceWindowActive, ![t].pc = next]
      BY DEF EnterCompile, Raise, Leave
    <3>2. next \in Pcs /\ TraceWindowActive \in BOOLEAN
      BY DEF Pcs, TraceWindowActive
    <3> HIDE DEF next
    <3> QED
      BY <3>1, <3>2, Zenon
  <2>2. th' \in [Threads -> ThreadStates]
    BY <2>1, ThreadTyped DEF IInv
  <2> QED
    BY <2>2 DEF IInv, TypeOK, EnterCompile, Take, caches, bounds, Raise, Leave
<1>2. ASSUME NEW u \in Threads PROVE JobOK(u)'
  BY DEF IInv, TypeOK, ThreadStates, JobOK, EnterCompile, At, Prog, NoCall,
     Locks, Raise, Leave
<1>3. ASSUME NEW u \in Threads PROVE LockOK(u)'
  BY DEF IInv, TypeOK, ThreadStates, LockOK, Compiling, EnterCompile, At,
     NoCall, Locks, Raise, Leave
<1>4. ASSUME NEW u \in Threads PROVE KnownOK(u)'
  BY DEF IInv, TypeOK, ThreadStates, KnownOK, EnterCompile, At, Prog, NoCall,
     caches, Locks, Raise, Leave
<1>5. ASSUME NEW u \in Threads PROVE CapturedOK(u)'
  BY DEF IInv, TypeOK, ThreadStates, CapturedOK, EnterCompile, CanTake, At,
     Prog, NoCall, Raise, Leave
<1>6. ASSUME NEW p \in Programs PROVE CacheOK(p)'
  BY DEF IInv, CacheOK, EnterCompile, caches, bounds, Raise
<1>7. WindowOK'
  BY DEF IInv, WindowOK, bounds
<1> QED
  BY <1>1, <1>2, <1>3, <1>4, <1>5, <1>6, <1>7 DEF IInv

\* The structured compile fills the compile cache, or raises.
LEMMA CompileKeeps ==
  ASSUME IInv, NEW t \in Threads, Compile(t), UNCHANGED <<window, bounds>>
  PROVE  IInv'
<1> USE CompileAssumption
<1>1. TypeOK'
  <2>1. \/ th' = [th EXCEPT ![t] = NoCall]
        \/ \E pc \in Pcs : th' = [th EXCEPT ![t].pc = pc]
    BY DEF Pcs, Compile, Goto, Raise, Leave
  <2>2. th' \in [Threads -> ThreadStates]
    BY <2>1, ThreadTyped DEF IInv
  <2> QED
    BY <2>2 DEF IInv, TypeOK, JobOK, Compile, At, caches, bounds, Raise, Leave
<1>2. ASSUME NEW u \in Threads PROVE JobOK(u)'
  BY DEF IInv, TypeOK, ThreadStates, JobOK, Compile, Goto, At, Prog, NoCall,
     Locks, Raise, Leave
<1>3. ASSUME NEW u \in Threads PROVE LockOK(u)'
  BY DEF IInv, TypeOK, ThreadStates, LockOK, Compiling, Compile, Goto, At,
     NoCall, Locks, Raise, Leave
<1>4. ASSUME NEW u \in Threads PROVE KnownOK(u)'
  BY DEF IInv, TypeOK, ThreadStates, KnownOK, Compile, Goto, At, Prog, NoCall,
     caches, Locks, Raise, Leave
<1>5. ASSUME NEW u \in Threads PROVE CapturedOK(u)'
  BY DEF IInv, TypeOK, ThreadStates, CapturedOK, Compile, Goto, At, Prog,
     NoCall, Locks, Raise, Leave
<1>6. ASSUME NEW p \in Programs PROVE CacheOK(p)'
  BY DEF IInv, CacheOK, Compile, caches, bounds, Raise
<1>7. WindowOK'
  BY DEF IInv, WindowOK, bounds
<1> QED
  BY <1>1, <1>2, <1>3, <1>4, <1>5, <1>6, <1>7 DEF IInv

\* Retaining a direct caller's runtime objects, or raising.
LEMMA RetainAliasKeeps ==
  ASSUME IInv, NEW t \in Threads, RetainAlias(t), UNCHANGED <<window, bounds>>
  PROVE  IInv'
<1> USE CompileAssumption
<1>1. TypeOK'
  <2>1. \/ th' = [th EXCEPT ![t] = NoCall]
        \/ \E pc \in Pcs : th' = [th EXCEPT ![t].pc = pc]
    BY DEF Pcs, RetainAlias, Goto, Raise, Leave
  <2>2. th' \in [Threads -> ThreadStates]
    BY <2>1, ThreadTyped DEF IInv
  <2> QED
    BY <2>2 DEF IInv, TypeOK, JobOK, RetainAlias, caches, bounds, Raise, Leave
<1>2. ASSUME NEW u \in Threads PROVE JobOK(u)'
  BY DEF IInv, TypeOK, ThreadStates, JobOK, RetainAlias, Goto, At, Prog,
     NoCall, Locks, Raise, Leave
<1>3. ASSUME NEW u \in Threads PROVE LockOK(u)'
  BY DEF IInv, TypeOK, ThreadStates, LockOK, Compiling, RetainAlias, Goto, At,
     NoCall, Locks, Raise, Leave
<1>4. ASSUME NEW u \in Threads PROVE KnownOK(u)'
  BY DEF IInv, TypeOK, ThreadStates, KnownOK, JobOK, RetainAlias, Goto, At,
     Prog, NoCall, caches, Locks, Raise, Leave
<1>5. ASSUME NEW u \in Threads PROVE CapturedOK(u)'
  BY DEF IInv, TypeOK, ThreadStates, CapturedOK, RetainAlias, Goto, At, Prog,
     NoCall, Locks, Raise, Leave
<1>6. ASSUME NEW p \in Programs PROVE CacheOK(p)'
  BY DEF IInv, CacheOK, RetainAlias, caches, bounds, Raise
<1>7. WindowOK'
  BY DEF IInv, WindowOK, bounds
<1> QED
  BY <1>1, <1>2, <1>3, <1>4, <1>5, <1>6, <1>7 DEF IInv

\* Inside a trace the prewarm only looks.
LEMMA CheckPrewarmedKeeps ==
  ASSUME IInv, NEW t \in Threads, CheckPrewarmed(t), UNCHANGED <<window, bounds>>
  PROVE  IInv'
<1> USE CompileAssumption
<1>1. TypeOK'
  <2>1. \/ th' = [th EXCEPT ![t] = NoCall]
        \/ \E pc \in Pcs : th' = [th EXCEPT ![t].pc = pc]
    BY DEF Pcs, CheckPrewarmed, Goto, Raise, Leave
  <2>2. th' \in [Threads -> ThreadStates]
    BY <2>1, ThreadTyped DEF IInv
  <2> QED
    BY <2>2 DEF IInv, TypeOK, CheckPrewarmed, caches, bounds, Raise, Leave
<1>2. ASSUME NEW u \in Threads PROVE JobOK(u)'
  BY DEF IInv, TypeOK, ThreadStates, JobOK, CheckPrewarmed, Goto, At, Prog,
     NoCall, Locks, Raise, Leave
<1>3. ASSUME NEW u \in Threads PROVE LockOK(u)'
  BY DEF IInv, TypeOK, ThreadStates, LockOK, Compiling, CheckPrewarmed, Goto,
     At, NoCall, Locks, Raise, Leave
<1>4. ASSUME NEW u \in Threads PROVE KnownOK(u)'
  BY DEF IInv, TypeOK, ThreadStates, KnownOK, CheckPrewarmed, Goto, At, Prog,
     NoCall, caches, Locks, Raise, Leave, KernelIsPrewarmed
<1>5. ASSUME NEW u \in Threads PROVE CapturedOK(u)'
  BY DEF IInv, TypeOK, ThreadStates, CapturedOK, CheckPrewarmed, Goto, At,
     Prog, NoCall, Locks, Raise, Leave
<1>6. ASSUME NEW p \in Programs PROVE CacheOK(p)'
  BY DEF IInv, CacheOK, CheckPrewarmed, caches, bounds, Raise
<1>7. WindowOK'
  BY DEF IInv, WindowOK, bounds
<1> QED
  BY <1>1, <1>2, <1>3, <1>4, <1>5, <1>6, <1>7 DEF IInv

\* The end of the transaction, or its refusal when a trace began.
LEMMA SettleKeeps ==
  ASSUME IInv, NEW t \in Threads, Settle(t), UNCHANGED <<window, bounds>>
  PROVE  IInv'
<1> USE CompileAssumption
<1>1. TypeOK'
  <2>1. \/ th' = [th EXCEPT ![t] = NoCall]
        \/ \E pc \in Pcs : th' = [th EXCEPT ![t].pc = pc]
    BY DEF Pcs, Settle, Goto, Raise, Leave
  <2>2. th' \in [Threads -> ThreadStates]
    BY <2>1, ThreadTyped DEF IInv
  <2> QED
    BY <2>2 DEF IInv, TypeOK, Settle, caches, bounds, Raise, Leave
<1>2. ASSUME NEW u \in Threads PROVE JobOK(u)'
  BY DEF IInv, TypeOK, ThreadStates, JobOK, Settle, Goto, At, Prog, NoCall,
     Locks, Raise, Leave
<1>3. ASSUME NEW u \in Threads PROVE LockOK(u)'
  BY DEF IInv, TypeOK, ThreadStates, LockOK, Compiling, Settle, Goto, At,
     NoCall, Locks, Raise, Leave
<1>4. ASSUME NEW u \in Threads PROVE KnownOK(u)'
  BY DEF IInv, TypeOK, ThreadStates, KnownOK, Settle, Goto, At, Prog, NoCall,
     caches, Locks, Raise, Leave
<1>5. ASSUME NEW u \in Threads PROVE CapturedOK(u)'
  BY DEF IInv, TypeOK, ThreadStates, CapturedOK, Settle, Goto, At, Prog,
     NoCall, Locks, Raise, Leave
<1>6. ASSUME NEW p \in Programs PROVE CacheOK(p)'
  BY DEF IInv, CacheOK, Settle, caches, bounds, Raise
<1>7. WindowOK'
  BY DEF IInv, WindowOK, bounds
<1> QED
  BY <1>1, <1>2, <1>3, <1>4, <1>5, <1>6, <1>7 DEF IInv

\* The artifact callback adds the caller's program to its own capture.
LEMMA CallbackKeeps ==
  ASSUME IInv, NEW t \in Threads, Callback(t), UNCHANGED <<window, bounds>>
  PROVE  IInv'
<1> USE CompileAssumption
<1>1. TypeOK'
  <2>1. \/ th' = [th EXCEPT ![t] = NoCall]
        \/ \E pc \in Pcs : th' = [th EXCEPT ![t].pc = pc]
    BY DEF Pcs, Callback, Goto
  <2>2. th' \in [Threads -> ThreadStates]
    BY <2>1, ThreadTyped DEF IInv
  <2> QED
    BY <2>2 DEF IInv, TypeOK, JobOK, Callback, At, caches, bounds, Locks, Drop
<1>2. ASSUME NEW u \in Threads PROVE JobOK(u)'
  BY DEF IInv, JobOK, LockOK, Compiling, Callback, Goto, At, Prog, Drop
<1>3. ASSUME NEW u \in Threads PROVE LockOK(u)'
  BY DEF IInv, TypeOK, LockOK, Compiling, Callback, Goto, At, Locks, Drop
<1>4. ASSUME NEW u \in Threads PROVE KnownOK(u)'
  BY DEF IInv, KnownOK, Callback, Goto, At, Prog, caches, Drop
<1>5. ASSUME NEW u \in Threads PROVE CapturedOK(u)'
  BY DEF IInv, TypeOK, CapturedOK, LockOK, JobOK, Callback, Goto, CanTake, At,
     Prog
<1>6. ASSUME NEW p \in Programs PROVE CacheOK(p)'
  BY DEF IInv, CacheOK, Callback, caches, bounds
<1>7. WindowOK'
  BY DEF IInv, WindowOK, bounds
<1> QED
  BY <1>1, <1>2, <1>3, <1>4, <1>5, <1>6, <1>7 DEF IInv

\* Registering the kernel; a direct call ends here.
LEMMA RegisterKeeps ==
  ASSUME IInv, NEW t \in Threads, Register(t), UNCHANGED <<window, bounds>>
  PROVE  IInv'
<1> USE CompileAssumption
<1>1. TypeOK'
  <2>1. \/ th' = [th EXCEPT ![t] = NoCall]
        \/ \E pc \in Pcs : th' = [th EXCEPT ![t].pc = pc]
    BY DEF Pcs, Register, Goto, Leave
  <2>2. th' \in [Threads -> ThreadStates]
    BY <2>1, ThreadTyped DEF IInv
  <2> QED
    BY <2>2 DEF IInv, TypeOK, JobOK, Register, At, bounds, Leave
<1>2. ASSUME NEW u \in Threads PROVE JobOK(u)'
  BY DEF IInv, TypeOK, ThreadStates, JobOK, Register, Goto, At, Prog, NoCall,
     Locks, Leave
<1>3. ASSUME NEW u \in Threads PROVE LockOK(u)'
  BY DEF IInv, TypeOK, ThreadStates, LockOK, Compiling, Register, Goto, At,
     NoCall, Locks, Leave
<1>4. ASSUME NEW u \in Threads PROVE KnownOK(u)'
  BY DEF IInv, TypeOK, ThreadStates, KnownOK, Register, Goto, At, Prog,
     NoCall, Locks, Leave
<1>5. ASSUME NEW u \in Threads PROVE CapturedOK(u)'
  BY DEF IInv, TypeOK, ThreadStates, CapturedOK, Register, Goto, At, Prog,
     NoCall, Locks, Leave
<1>6. ASSUME NEW p \in Programs PROVE CacheOK(p)'
  BY DEF IInv, CacheOK, Register, bounds
<1>7. WindowOK'
  BY DEF IInv, WindowOK, bounds
<1> QED
  BY <1>1, <1>2, <1>3, <1>4, <1>5, <1>6, <1>7 DEF IInv

\* The wrapper is emitted after registration, executable and record.
LEMMA EmitKeeps ==
  ASSUME IInv, NEW t \in Threads, Emit(t), UNCHANGED <<window, bounds>>
  PROVE  IInv'
<1> USE CompileAssumption
<1>1. TypeOK'
  <2>1. \/ th' = [th EXCEPT ![t] = NoCall]
        \/ \E pc \in Pcs : th' = [th EXCEPT ![t].pc = pc]
    BY DEF Pcs, Emit, Goto, Leave
  <2>2. th' \in [Threads -> ThreadStates]
    BY <2>1, ThreadTyped DEF IInv
  <2> QED
    BY <2>2 DEF IInv, TypeOK, JobOK, Emit, At, bounds, Leave
<1>2. ASSUME NEW u \in Threads PROVE JobOK(u)'
  BY DEF IInv, TypeOK, ThreadStates, JobOK, Emit, Goto, At, Prog, NoCall,
     Locks, Leave
<1>3. ASSUME NEW u \in Threads PROVE LockOK(u)'
  BY DEF IInv, TypeOK, ThreadStates, LockOK, Compiling, Emit, Goto, At,
     NoCall, Locks, Leave
<1>4. ASSUME NEW u \in Threads PROVE KnownOK(u)'
  BY DEF IInv, TypeOK, ThreadStates, KnownOK, Emit, Goto, At, Prog, NoCall,
     Locks, Leave
<1>5. ASSUME NEW u \in Threads PROVE CapturedOK(u)'
  BY DEF IInv, TypeOK, ThreadStates, CapturedOK, Emit, Goto, At, Prog, NoCall,
     Locks, Leave
<1>6. ASSUME NEW p \in Programs PROVE CacheOK(p)'
  BY DEF IInv, CacheOK, KnownOK, JobOK, Emit, At, bounds
<1>7. WindowOK'
  BY DEF IInv, WindowOK, bounds
<1> QED
  BY <1>1, <1>2, <1>3, <1>4, <1>5, <1>6, <1>7 DEF IInv

\* Finding the executable, or taking the bridge lock to create it.
LEMMA EnsureExecutableKeeps ==
  ASSUME IInv, NEW t \in Threads, EnsureExecutable(t), UNCHANGED <<window, bounds>>
  PROVE  IInv'
<1> USE CompileAssumption
<1>1. TypeOK'
  <2>1. \/ th' = [th EXCEPT ![t] = NoCall]
        \/ \E pc \in Pcs : th' = [th EXCEPT ![t].pc = pc]
    BY DEF Pcs, EnsureExecutable, Goto, Raise, Leave
  <2>2. th' \in [Threads -> ThreadStates]
    BY <2>1, ThreadTyped DEF IInv
  <2> QED
    BY <2>2 DEF IInv, TypeOK, EnsureExecutable, Take, caches, bounds, Raise,
       Leave
<1>2. ASSUME NEW u \in Threads PROVE JobOK(u)'
  BY DEF IInv, TypeOK, ThreadStates, JobOK, LockOK, Compiling,
     EnsureExecutable, Goto, Take, At, Prog, NoCall, Locks, Raise, Leave
<1>3. ASSUME NEW u \in Threads PROVE LockOK(u)'
  BY DEF IInv, TypeOK, ThreadStates, LockOK, Compiling, EnsureExecutable,
     Goto, Take, CanTake, At, NoCall, Locks, Raise, Leave, BridgeFree,
     InPrewarm
<1>4. ASSUME NEW u \in Threads PROVE KnownOK(u)'
  BY DEF IInv, TypeOK, ThreadStates, KnownOK, LockOK, Compiling,
     EnsureExecutable, Goto, Take, At, Prog, NoCall, caches, Locks, Raise,
     Leave
<1>5. ASSUME NEW u \in Threads PROVE CapturedOK(u)'
  BY DEF IInv, TypeOK, ThreadStates, CapturedOK, LockOK, Compiling,
     EnsureExecutable, Goto, Take, At, Prog, NoCall, Locks, Raise, Leave
<1>6. ASSUME NEW p \in Programs PROVE CacheOK(p)'
  BY DEF IInv, CacheOK, EnsureExecutable, caches, bounds, Raise
<1>7. WindowOK'
  BY DEF IInv, WindowOK, bounds
<1> QED
  BY <1>1, <1>2, <1>3, <1>4, <1>5, <1>6, <1>7 DEF IInv

\* The executable is created once, by the owner of the bridge lock.
LEMMA CreateExecutableKeeps ==
  ASSUME IInv, NEW t \in Threads, CreateExecutable(t), UNCHANGED <<window, bounds>>
  PROVE  IInv'
<1> USE CompileAssumption
<1>1. TypeOK'
  <2>1. \/ th' = [th EXCEPT ![t] = NoCall]
        \/ \E pc \in Pcs : th' = [th EXCEPT ![t].pc = pc]
    BY DEF Pcs, CreateExecutable, Goto
  <2>2. th' \in [Threads -> ThreadStates]
    BY <2>1, ThreadTyped DEF IInv
  <2> QED
    BY <2>2 DEF IInv, TypeOK, JobOK, CreateExecutable, At, bounds, Locks
<1>2. ASSUME NEW u \in Threads PROVE JobOK(u)'
  BY DEF IInv, JobOK, CreateExecutable, Goto, At, Prog
<1>3. ASSUME NEW u \in Threads PROVE LockOK(u)'
  BY DEF IInv, TypeOK, LockOK, Compiling, CreateExecutable, Goto, At, Locks,
     InPrewarm
<1>4. ASSUME NEW u \in Threads PROVE KnownOK(u)'
  BY DEF IInv, TypeOK, KnownOK, LockOK, CreateExecutable, Goto, At, Prog
<1>5. ASSUME NEW u \in Threads PROVE CapturedOK(u)'
  BY DEF IInv, CapturedOK, CreateExecutable, Goto, At, Prog
<1>6. ASSUME NEW p \in Programs PROVE CacheOK(p)'
  BY DEF IInv, TypeOK, CacheOK, KnownOK, WindowOK, CreateExecutable, bounds
<1>7. WindowOK'
  BY DEF IInv, WindowOK, bounds
<1> QED
  BY <1>1, <1>2, <1>3, <1>4, <1>5, <1>6, <1>7 DEF IInv

\* The record is written outside a trace, or the call raises.
LEMMA EnsureArtifactRecordKeeps ==
  ASSUME IInv, NEW t \in Threads, EnsureArtifactRecord(t), UNCHANGED <<window, bounds>>
  PROVE  IInv'
<1> USE CompileAssumption
<1>1. TypeOK'
  <2>1. \/ th' = [th EXCEPT ![t] = NoCall]
        \/ \E pc \in Pcs : th' = [th EXCEPT ![t].pc = pc]
    BY DEF Pcs, EnsureArtifactRecord, Goto, Raise, Leave
  <2>2. th' \in [Threads -> ThreadStates]
    BY <2>1, ThreadTyped DEF IInv
  <2> QED
    BY <2>2 DEF IInv, TypeOK, JobOK, EnsureArtifactRecord, At, caches, bounds,
       Raise, Leave
<1>2. ASSUME NEW u \in Threads PROVE JobOK(u)'
  BY DEF IInv, TypeOK, ThreadStates, JobOK, EnsureArtifactRecord, Goto, At,
     Prog, NoCall, Locks, Raise, Leave, InPrewarm
<1>3. ASSUME NEW u \in Threads PROVE LockOK(u)'
  BY DEF IInv, TypeOK, ThreadStates, LockOK, Compiling, EnsureArtifactRecord,
     Goto, At, NoCall, Locks, Raise, Leave, InPrewarm
<1>4. ASSUME NEW u \in Threads PROVE KnownOK(u)'
  BY DEF IInv, TypeOK, ThreadStates, KnownOK, EnsureArtifactRecord, Goto, At,
     Prog, NoCall, caches, Locks, Raise, Leave, BridgeFree, InPrewarm
<1>5. ASSUME NEW u \in Threads PROVE CapturedOK(u)'
  BY DEF IInv, TypeOK, ThreadStates, CapturedOK, EnsureArtifactRecord, Goto,
     At, Prog, NoCall, Locks, Raise, Leave, InPrewarm
<1>6. ASSUME NEW p \in Programs PROVE CacheOK(p)'
  BY DEF IInv, CacheOK, KnownOK, EnsureArtifactRecord, At, caches, bounds,
     TraceWindowActive, Raise, MayRecord
<1>7. WindowOK'
  BY DEF IInv, WindowOK, bounds
<1> QED
  BY <1>1, <1>2, <1>3, <1>4, <1>5, <1>6, <1>7 DEF IInv

\* The prewarm ends with executable and record in place, or raises.
LEMMA EndPrewarmKeeps ==
  ASSUME IInv, NEW t \in Threads, EndPrewarm(t), UNCHANGED <<window, bounds>>
  PROVE  IInv'
<1> USE CompileAssumption
<1>1. TypeOK'
  <2>1. \/ th' = [th EXCEPT ![t] = NoCall]
        \/ \E pc \in Pcs : th' = [th EXCEPT ![t].pc = pc]
    BY DEF Pcs, EndPrewarm, Goto, Raise, Leave
  <2>2. th' \in [Threads -> ThreadStates]
    BY <2>1, ThreadTyped DEF IInv
  <2> QED
    BY <2>2 DEF IInv, TypeOK, EndPrewarm, caches, bounds, Raise, Leave, Drop
<1>2. ASSUME NEW u \in Threads PROVE JobOK(u)'
  BY DEF IInv, TypeOK, ThreadStates, JobOK, EndPrewarm, Goto, At, Prog,
     NoCall, Locks, Raise, Leave, Drop
<1>3. ASSUME NEW u \in Threads PROVE LockOK(u)'
  BY DEF IInv, TypeOK, ThreadStates, LockOK, Compiling, EndPrewarm, Goto, At,
     NoCall, Locks, Raise, Leave, Drop
<1>4. ASSUME NEW u \in Threads PROVE KnownOK(u)'
  BY DEF IInv, TypeOK, ThreadStates, KnownOK, EndPrewarm, Goto, At, Prog,
     NoCall, caches, Locks, Raise, Leave, Drop
<1>5. ASSUME NEW u \in Threads PROVE CapturedOK(u)'
  BY DEF IInv, TypeOK, ThreadStates, CapturedOK, LockOK, EndPrewarm, Goto, At,
     Prog, NoCall, Raise, Leave
<1>6. ASSUME NEW p \in Programs PROVE CacheOK(p)'
  BY DEF IInv, CacheOK, EndPrewarm, caches, bounds, Raise
<1>7. WindowOK'
  BY DEF IInv, WindowOK, bounds
<1> QED
  BY <1>1, <1>2, <1>3, <1>4, <1>5, <1>6, <1>7 DEF IInv

\* A launch creates nothing.
LEMMA RunKeeps ==
  ASSUME IInv, NEW t \in Threads, Run(t), UNCHANGED <<window, bounds>>
  PROVE  IInv'
<1> USE CompileAssumption
<1>1. TypeOK'
  <2>1. \/ th' = [th EXCEPT ![t] = NoCall]
        \/ \E pc \in Pcs : th' = [th EXCEPT ![t].pc = pc]
    BY DEF Pcs, Run, Goto, Leave
  <2>2. th' \in [Threads -> ThreadStates]
    BY <2>1, ThreadTyped DEF IInv
  <2> QED
    BY <2>2 DEF IInv, TypeOK, Run, caches, bounds, Leave
<1>2. ASSUME NEW u \in Threads PROVE JobOK(u)'
  BY DEF IInv, TypeOK, ThreadStates, JobOK, LockOK, Run, Goto, At, Prog,
     NoCall, Locks, Leave
<1>3. ASSUME NEW u \in Threads PROVE LockOK(u)'
  BY DEF IInv, TypeOK, ThreadStates, LockOK, Compiling, Run, Goto, At, NoCall,
     Locks, Leave
<1>4. ASSUME NEW u \in Threads PROVE KnownOK(u)'
  BY DEF IInv, TypeOK, ThreadStates, KnownOK, Run, Goto, At, Prog, NoCall,
     caches, Locks, Leave
<1>5. ASSUME NEW u \in Threads PROVE CapturedOK(u)'
  BY DEF IInv, TypeOK, ThreadStates, CapturedOK, Run, Goto, At, Prog, NoCall,
     Locks, Leave
<1>6. ASSUME NEW p \in Programs PROVE CacheOK(p)'
  BY DEF IInv, CacheOK, Run, caches, bounds
<1>7. WindowOK'
  BY DEF IInv, WindowOK, bounds
<1> QED
  BY <1>1, <1>2, <1>3, <1>4, <1>5, <1>6, <1>7 DEF IInv

\* A compiler, driver or launch failure leaves every with statement.
LEMMA FailsKeeps ==
  ASSUME IInv, NEW t \in Threads, Fails(t)
  PROVE  IInv'
<1> USE CompileAssumption
<1>1. TypeOK'
  <2>1. th' = [th EXCEPT ![t] = NoCall]
    BY DEF Fails, Raise, Leave
  <2>2. th' \in [Threads -> ThreadStates]
    BY <2>1, ThreadTyped DEF IInv
  <2> QED
    BY <2>2 DEF IInv, TypeOK, Fails, caches, Raise, Leave
<1>2. ASSUME NEW u \in Threads PROVE JobOK(u)'
  BY DEF IInv, TypeOK, JobOK, Fails, At, Prog, NoCall, Locks, Raise, Leave
<1>3. ASSUME NEW u \in Threads PROVE LockOK(u)'
  BY DEF IInv, TypeOK, LockOK, Compiling, Fails, At, NoCall, Locks, Raise,
     Leave
<1>4. ASSUME NEW u \in Threads PROVE KnownOK(u)'
  BY DEF IInv, KnownOK, Fails, At, Prog, NoCall, caches, Locks, Raise, Leave
<1>5. ASSUME NEW u \in Threads PROVE CapturedOK(u)'
  BY DEF IInv, CapturedOK, Fails, At, Prog, NoCall, Locks, Raise, Leave
<1>6. ASSUME NEW p \in Programs PROVE CacheOK(p)'
  BY DEF IInv, CacheOK, Fails, caches, Raise
<1>7. WindowOK'
  BY DEF IInv, WindowOK, Fails
<1> QED
  BY <1>1, <1>2, <1>3, <1>4, <1>5, <1>6, <1>7 DEF IInv

\* A new call starts without locks and with nothing established.
LEMMA CallKeeps ==
  ASSUME IInv, NEW t \in Threads, NEW job \in Jobs, NEW q \in Programs,
         Call(t, job, q), UNCHANGED <<window, windows, faults>>
  PROVE  IInv'
<1> USE CompileAssumption
<1>1. TypeOK'
  <2>1. [job |-> job, prog |-> q, pc |-> Entry(job), was |-> FALSE] \in ThreadStates
    BY DEF ThreadStates, Pcs, Entry
  <2>2. th' \in [Threads -> ThreadStates]
    BY <2>1 DEF IInv, TypeOK, Call
  <2> QED
    BY <2>2 DEF IInv, TypeOK, Call, caches
<1>2. ASSUME NEW u \in Threads PROVE JobOK(u)'
  BY DEF IInv, JobOK, Call, Entry, At, Prog
<1>3. ASSUME NEW u \in Threads PROVE LockOK(u)'
  BY DEF IInv, LockOK, JobOK, Compiling, Call, Entry, At
<1>4. ASSUME NEW u \in Threads PROVE KnownOK(u)'
  BY DEF IInv, KnownOK, Call, Entry, At, Prog, caches
<1>5. ASSUME NEW u \in Threads PROVE CapturedOK(u)'
  BY DEF IInv, CapturedOK, LockOK, JobOK, Call, Entry, At, Prog
<1>6. ASSUME NEW p \in Programs PROVE CacheOK(p)'
  BY DEF IInv, CacheOK, Call, caches
<1>7. WindowOK'
  BY DEF IInv, WindowOK
<1> QED
  BY <1>1, <1>2, <1>3, <1>4, <1>5, <1>6, <1>7 DEF IInv

\* CUPTI may open a trace window at any moment: nothing was created in it yet.
LEMMA BeginTraceWindowKeeps ==
  ASSUME IInv, BeginTraceWindow
  PROVE  IInv'
<1>1. TypeOK'
  BY DEF IInv, TypeOK, BeginTraceWindow, caches
<1>2. ASSUME NEW u \in Threads PROVE JobOK(u)'
  BY DEF IInv, JobOK, BeginTraceWindow, At, Prog
<1>3. ASSUME NEW u \in Threads PROVE LockOK(u)'
  BY DEF IInv, LockOK, BeginTraceWindow, At
<1>4. ASSUME NEW u \in Threads PROVE KnownOK(u)'
  BY DEF IInv, KnownOK, BeginTraceWindow, At, Prog, caches
<1>5. ASSUME NEW u \in Threads PROVE CapturedOK(u)'
  BY DEF IInv, CapturedOK, BeginTraceWindow, At, Prog
<1>6. ASSUME NEW p \in Programs PROVE CacheOK(p)'
  BY DEF IInv, TypeOK, CacheOK, BeginTraceWindow, caches
<1>7. WindowOK'
  BY DEF IInv, WindowOK, BeginTraceWindow, bounds
<1> QED
  BY <1>1, <1>2, <1>3, <1>4, <1>5, <1>6, <1>7 DEF IInv

\* Closing the window changes nothing but the window.
LEMMA EndTraceWindowKeeps ==
  ASSUME IInv, EndTraceWindow
  PROVE  IInv'
<1>1. TypeOK'
  BY DEF IInv, TypeOK, EndTraceWindow, caches, bounds
<1>2. ASSUME NEW u \in Threads PROVE JobOK(u)'
  BY DEF IInv, JobOK, EndTraceWindow, At, Prog
<1>3. ASSUME NEW u \in Threads PROVE LockOK(u)'
  BY DEF IInv, LockOK, EndTraceWindow, At
<1>4. ASSUME NEW u \in Threads PROVE KnownOK(u)'
  BY DEF IInv, KnownOK, EndTraceWindow, At, Prog, caches
<1>5. ASSUME NEW u \in Threads PROVE CapturedOK(u)'
  BY DEF IInv, CapturedOK, EndTraceWindow, At, Prog
<1>6. ASSUME NEW p \in Programs PROVE CacheOK(p)'
  BY DEF IInv, CacheOK, EndTraceWindow, caches, bounds
<1>7. WindowOK'
  BY DEF IInv, WindowOK, EndTraceWindow, bounds
<1> QED
  BY <1>1, <1>2, <1>3, <1>4, <1>5, <1>6, <1>7 DEF IInv

\* A stuttering step.
LEMMA StutterKeeps ==
  ASSUME IInv, UNCHANGED vars
  PROVE  IInv'
<1>1. TypeOK'
  BY DEF IInv, TypeOK, vars
<1>2. ASSUME NEW u \in Threads PROVE JobOK(u)'
  BY DEF IInv, JobOK, vars, At, Prog
<1>3. ASSUME NEW u \in Threads PROVE LockOK(u)'
  BY DEF IInv, LockOK, vars, At
<1>4. ASSUME NEW u \in Threads PROVE KnownOK(u)'
  BY DEF IInv, KnownOK, vars, At, Prog
<1>5. ASSUME NEW u \in Threads PROVE CapturedOK(u)'
  BY DEF IInv, CapturedOK, vars, At, Prog
<1>6. ASSUME NEW p \in Programs PROVE CacheOK(p)'
  BY DEF IInv, CacheOK, vars
<1>7. WindowOK'
  BY DEF IInv, WindowOK, vars
<1> QED
  BY <1>1, <1>2, <1>3, <1>4, <1>5, <1>6, <1>7 DEF IInv

-----------------------------------------------------------------------------
\* A fresh process: no call, no lock, empty caches.
LEMMA InitInv == Init => IInv
<1> USE CompileAssumption
<1> SUFFICES ASSUME Init PROVE IInv
  OBVIOUS
<1>1. TypeOK
  BY DEF Init, TypeOK, NoCall, ThreadStates, Pcs, Locks
<1>2. ASSUME NEW u \in Threads
      PROVE  JobOK(u) /\ LockOK(u) /\ KnownOK(u) /\ CapturedOK(u)
  BY DEF Init, JobOK, LockOK, KnownOK, CapturedOK, Compiling, NoCall, At, Prog, Locks
<1>3. ASSUME NEW p \in Programs PROVE CacheOK(p)
  BY DEF Init, CacheOK
<1>4. WindowOK
  BY DEF Init, WindowOK
<1> QED
  BY <1>1, <1>2, <1>3, <1>4 DEF IInv

\* Whatever the threads, the tracer and the driver do next.
LEMMA NextInv == IInv /\ [Next]_vars => IInv'
<1> SUFFICES ASSUME IInv, [Next]_vars PROVE IInv'
  OBVIOUS
<1>1. ASSUME NEW t \in Threads, Step(t), UNCHANGED <<window, bounds>> PROVE IInv'
  <2>1. CASE SwigluHit(t)
    BY <1>1, <2>1, SwigluHitKeeps
  <2>2. CASE SwigluMiss(t)
    BY <1>1, <2>2, SwigluMissKeeps
  <2>3. CASE EnterCapture(t)
    BY <1>1, <2>3, EnterCaptureKeeps
  <2>4. CASE LeaveCapture(t)
    BY <1>1, <2>4, LeaveCaptureKeeps
  <2>5. CASE KeepCallable(t)
    BY <1>1, <2>5, KeepCallableKeeps
  <2>6. CASE EnterCompile(t)
    BY <1>1, <2>6, EnterCompileKeeps
  <2>7. CASE Compile(t)
    BY <1>1, <2>7, CompileKeeps
  <2>8. CASE RetainAlias(t)
    BY <1>1, <2>8, RetainAliasKeeps
  <2>9. CASE CheckPrewarmed(t)
    BY <1>1, <2>9, CheckPrewarmedKeeps
  <2>10. CASE Settle(t)
    BY <1>1, <2>10, SettleKeeps
  <2>11. CASE Callback(t)
    BY <1>1, <2>11, CallbackKeeps
  <2>12. CASE Register(t)
    BY <1>1, <2>12, RegisterKeeps
  <2>13. CASE Emit(t)
    BY <1>1, <2>13, EmitKeeps
  <2>14. CASE EnsureExecutable(t)
    BY <1>1, <2>14, EnsureExecutableKeeps
  <2>15. CASE CreateExecutable(t)
    BY <1>1, <2>15, CreateExecutableKeeps
  <2>16. CASE EnsureArtifactRecord(t)
    BY <1>1, <2>16, EnsureArtifactRecordKeeps
  <2>17. CASE EndPrewarm(t)
    BY <1>1, <2>17, EndPrewarmKeeps
  <2>18. CASE Run(t)
    BY <1>1, <2>18, RunKeeps
  <2> QED
    BY <1>1, <2>1, <2>2, <2>3, <2>4, <2>5, <2>6, <2>7, <2>8, <2>9, <2>10,
       <2>11, <2>12, <2>13, <2>14, <2>15, <2>16, <2>17, <2>18
       DEF Step
<1>2. ASSUME NEW t \in Threads, NEW job \in Jobs, NEW p \in Programs,
             Call(t, job, p), UNCHANGED <<window, windows, faults>>
      PROVE  IInv'
  BY <1>2, CallKeeps
<1>3. ASSUME NEW t \in Threads, Fails(t) PROVE IInv'
  BY <1>3, FailsKeeps
<1> QED
  BY <1>1, <1>2, <1>3, BeginTraceWindowKeeps, EndTraceWindowKeeps, StutterKeeps
     DEF Next

\* The compile path keeps IInv on every behaviour: the argument that the six
\* properties below rest on.
THEOREM Invariance == Spec => []IInv
BY InitInv, NextInv, PTL DEF Spec

\* Threads, locks and caches of the compile path keep their types.
THEOREM CompileTypeCorrect == Spec => []TypeOK
<1>1. IInv => TypeOK
  BY DEF IInv
<1> QED
  BY <1>1, Invariance, PTL

\* compile_pointwise's capture under _CAPTURE_LOCK: other threads' artifacts
\* never enter a capture, and its reader finds exactly its own program.
THEOREM CaptureStaysOwn == Spec => []CaptureIsOwn
<1>1. IInv => CaptureIsOwn
  <2> SUFFICES ASSUME IInv PROVE CaptureIsOwn
    OBVIOUS
  <2>1. ASSUME active # None PROVE captured \subseteq {Prog(active)}
    BY <2>1 DEF IInv, TypeOK, CapturedOK
  <2>2. ASSUME NEW t \in Threads, th[t].pc \in {"close", "keep"}
        PROVE  captured = {Prog(t)}
    BY <2>2 DEF IInv, TypeOK, ThreadStates, JobOK, LockOK, CapturedOK, At
  <2> QED
    BY <2>1, <2>2 DEF CaptureIsOwn
<1> QED
  BY <1>1, Invariance, PTL

\* A callable in inductor_swiglu's cache still has its registration, executable
\* and record: SwigluHit's error path is never taken.
THEOREM CachedCallablesReady == Spec => []CallablesReady
<1>1. IInv => CallablesReady
  BY DEF IInv, TypeOK, CacheOK, CallablesReady, KernelIsPrewarmed
<1> QED
  BY <1>1, Invariance, PTL

\* An emitted wrapper launches inside a trace without compiling, creating or
\* recording anything, whatever failed or raced on the way to it.
THEOREM EmittedWrappersReady == Spec => []WrappersReady
<1>1. IInv => WrappersReady
  BY DEF IInv, TypeOK, CacheOK, WrappersReady
<1> QED
  BY <1>1, Invariance, PTL

\* runtime_bridge's lock: racing prewarms and launches create one executable
\* per artifact.
THEOREM ExecutableIsShared == Spec => []OneExecutable
<1>1. IInv => OneExecutable
  BY DEF IInv, CacheOK, OneExecutable
<1> QED
  BY <1>1, Invariance, PTL

\* A launch inside a trace uses an executable created before that trace, also
\* when the trace began in the middle of a prewarm or launch.
THEOREM TracedLaunchIsPrewarmed == Spec => []PrewarmedBeforeTrace
<1>1. IInv => PrewarmedBeforeTrace
  BY DEF IInv, TypeOK, ThreadStates, JobOK, KnownOK, CacheOK, At, PrewarmedBeforeTrace
<1> QED
  BY <1>1, Invariance, PTL

-----------------------------------------------------------------------------
\* The thread that holds the bridge lock waits for nothing.
LEMMA BridgeHolderRuns ==
  ASSUME IInv, NEW t \in Threads, NEW u \in Threads, WaitsFor(t, u)
  PROVE  lock["bridge"] # t
<1>1. LockOK(t) /\ TypeOK
  BY DEF IInv
<1>2. SUFFICES ASSUME lock["bridge"] = t PROVE FALSE
  OBVIOUS
<1>3. th[t].pc \in {"create", "record", "prewarmed"}
  BY <1>1, <1>2 DEF LockOK
<1>4. Wants(t) \in {"bridge", "nothing"}
  BY <1>3 DEF Wants, At
<1> QED
  BY <1>2, <1>4 DEF WaitsFor

\* The thread in the compile transaction waits for a capture to end, to report
\* its artifact, or for the bridge.
LEMMA CompilerWaits ==
  ASSUME IInv, NEW t \in Threads, NEW u \in Threads, WaitsFor(t, u),
         lock["compile"] = t
  PROVE  Wants(t) = "bridge" \/ (At(t, "callback") /\ Wants(t) = "capture")
<1>1. LockOK(t)
  BY DEF IInv
<1>2. th[t].pc \in Compiling \cup {"create", "record"}
  BY <1>1 DEF LockOK
<1> QED
  BY <1>2 DEF Compiling, Wants, WaitsFor, At

\* The thread in a capture waits for the compile transaction, or for the bridge.
LEMMA CaptureWaits ==
  ASSUME IInv, NEW t \in Threads, NEW u \in Threads, WaitsFor(t, u),
         lock["capture"] = t
  PROVE  Wants(t) = "bridge" \/ (At(t, "enter") /\ Wants(t) = "compile")
<1>1. LockOK(t) /\ JobOK(t)
  BY DEF IInv
<1>2. active = t /\ th[t].pc \notin {"capture", "keep", "swiglu"}
  BY <1>1 DEF LockOK, At
<1>3. Wants(t) # "capture"
  BY DEF WaitsFor
<1> QED
  BY <1>2, <1>3 DEF Wants, WaitsFor, At

\* The thread in run_fp32_swiglu waits for one of the other three locks.
LEMMA SwigluWaits ==
  ASSUME IInv, NEW t \in Threads, NEW u \in Threads, WaitsFor(t, u),
         lock["swiglu"] = t
  PROVE  Wants(t) \in {"bridge", "capture", "compile"}
<1>1. ~At(t, "swiglu")
  BY DEF IInv, LockOK
<1> QED
  BY <1>1 DEF Wants, WaitsFor, At

\* Threads that wait for each other are a capture about to enter the compiler
\* and a compilation about to report to it: a waiting thread never holds the
\* bridge lock, so the chain of waits can only close through these two.
LEMMA InvCircularWait == IInv => CircularWaitIsCapture
<1> SUFFICES ASSUME IInv, NEW D \in (SUBSET Threads) \ {{}},
                    \A t \in D : \E u \in D : WaitsFor(t, u)
             PROVE  \E t, u \in D :
                      /\ lock["capture"] = t /\ At(t, "enter")
                      /\ lock["compile"] = u /\ At(u, "callback")
  BY DEF CircularWaitIsCapture
<1>1. ASSUME NEW t \in D PROVE Wants(t) \in {"swiglu", "capture", "compile"}
  <2>1. PICK u \in D : WaitsFor(t, u)
    OBVIOUS
  <2>2. lock["bridge"] # u
    BY BridgeHolderRuns
  <2>3. Wants(t) # "bridge"
    BY <2>1, <2>2 DEF WaitsFor
  <2> QED
    BY <2>1, <2>3 DEF Wants, WaitsFor
<1>2. ASSUME NEW t \in D, NEW u \in D, WaitsFor(t, u), Wants(t) = "compile"
      PROVE  lock["compile"] = u /\ At(u, "callback") /\ Wants(u) = "capture"
  <2>1. lock["compile"] = u
    BY <1>2 DEF WaitsFor
  <2>2. PICK v \in D : WaitsFor(u, v)
    OBVIOUS
  <2> QED
    BY <1>1, <2>1, <2>2, CompilerWaits
<1>3. ASSUME NEW t \in D, NEW u \in D, WaitsFor(t, u), Wants(t) = "capture"
      PROVE  lock["capture"] = u /\ At(u, "enter") /\ Wants(u) = "compile"
  <2>1. lock["capture"] = u
    BY <1>3 DEF WaitsFor
  <2>2. PICK v \in D : WaitsFor(u, v)
    OBVIOUS
  <2> QED
    BY <1>1, <2>1, <2>2, CaptureWaits
<1>4. \E t \in D : Wants(t) \in {"capture", "compile"}
  <2>1. PICK t \in D : \E u \in D : WaitsFor(t, u)
    BY D # {}
  <2>2. CASE Wants(t) = "swiglu"
    <3>1. PICK u \in D : WaitsFor(t, u)
      OBVIOUS
    <3>2. lock["swiglu"] = u
      BY <2>2, <3>1 DEF WaitsFor
    <3>3. PICK v \in D : WaitsFor(u, v)
      OBVIOUS
    <3> QED
      BY <1>1, <3>2, <3>3, SwigluWaits
  <2> QED
    BY <1>1, <2>2
<1>5. PICK t \in D : Wants(t) = "compile"
  BY <1>3, <1>4
<1>6. PICK k \in D : WaitsFor(t, k)
  OBVIOUS
<1>7. lock["compile"] = k /\ At(k, "callback") /\ Wants(k) = "capture"
  BY <1>2, <1>5, <1>6
<1>8. PICK c \in D : WaitsFor(k, c)
  OBVIOUS
<1>9. lock["capture"] = c /\ At(c, "enter")
  BY <1>3, <1>7, <1>8
<1> QED
  BY <1>7, <1>9

\* The finding is the whole story: whatever the threads do, they wait for each
\* other only where a capture meets a compilation that reports its artifact.
THEOREM OnlyCapturesDeadlock == Spec => []CircularWaitIsCapture
  BY Invariance, InvCircularWait, PTL

\* A process that never runs the cached SwiGLU callable never deadlocks in this
\* path: without captures, the four locks are taken in one order.
THEOREM NoDeadlockWithoutSwiglu ==
  ASSUME "swiglu" \notin Jobs
  PROVE  Spec => []NoCircularWait
<1>1. IInv => NoCircularWait
  <2> SUFFICES ASSUME IInv, NEW D \in (SUBSET Threads) \ {{}},
                      \A t \in D : \E u \in D : WaitsFor(t, u)
               PROVE  FALSE
    BY DEF NoCircularWait
  <2>1. PICK t \in D : lock["capture"] = t /\ At(t, "enter")
    BY InvCircularWait DEF CircularWaitIsCapture
  <2>2. JobOK(t) /\ LockOK(t)
    BY DEF IInv
  <2>3. th[t].job \in Jobs
    BY <2>1, <2>2 DEF JobOK, At
  <2>4. th[t].job = "swiglu"
    BY <2>1, <2>2 DEF LockOK
  <2> QED
    BY <2>3, <2>4
<1> QED
  BY <1>1, Invariance, PTL

-----------------------------------------------------------------------------
(* How far a call has come.  "create" and "record" are reached twice by     *)
(* SwiGLU, once inside the compile transaction and once by the launch.      *)

Place ==
    [idle |-> 0, swiglu |-> 1, capture |-> 2, enter |-> 3, compile |-> 4,
     alias |-> 5, prewarm |-> 5, create |-> 6, record |-> 7, prewarmed |-> 8,
     settle |-> 9, callback |-> 10, register |-> 11, emit |-> 12, launch |-> 13,
     run |-> 16, close |-> 17, keep |-> 18]

Launching(t) == th[t].pc \in {"create", "record"} /\ ~InPrewarm(t)
Progress(t) == IF Launching(t) THEN Place[th[t].pc] + 8 ELSE Place[th[t].pc]

\* Every step of a call ends it or takes it further, and nothing that another
\* thread or a trace window does moves it.
CallAdvances ==
    [][\A t \in Threads :
         /\ Step(t) => At(t, "idle")' \/ Progress(t)' > Progress(t)
         /\ ~At(t, "idle") =>
              \/ th'[t] = th[t] /\ Progress(t)' = Progress(t)
              \/ At(t, "idle")'
              \/ Progress(t)' > Progress(t)]_vars

\* A step of a call ends it or takes it to a later place.
LEMMA StepAdvances ==
  ASSUME IInv, NEW t \in Threads, Step(t)
  PROVE  At(t, "idle")' \/ Progress(t)' > Progress(t)
<1> USE DEF At, Progress, Launching, InPrewarm, Place
<1>0. /\ th[t] \in ThreadStates /\ th \in [Threads -> ThreadStates]
      /\ lock \in [Locks -> Threads \cup {None}]
      /\ JobOK(t) /\ LockOK(t)
  BY DEF IInv, TypeOK
<1>1. ASSUME Raise(t) \/ Leave(t) PROVE At(t, "idle")'
  BY <1>0, <1>1 DEF Raise, Leave, NoCall
<1>2. CASE SwigluHit(t) \/ SwigluMiss(t)
  BY <1>0, <1>1, <1>2 DEF SwigluHit, SwigluMiss, Goto, Take, Locks, ThreadStates
<1>3. CASE EnterCapture(t) \/ LeaveCapture(t) \/ KeepCallable(t)
  BY <1>0, <1>1, <1>3 DEF EnterCapture, LeaveCapture, KeepCallable, Goto, ThreadStates
<1>4. CASE EnterCompile(t)
  BY <1>0, <1>1, <1>4 DEF EnterCompile, ThreadStates
<1>5. CASE Compile(t) \/ RetainAlias(t) \/ CheckPrewarmed(t) \/ Settle(t)
  BY <1>0, <1>1, <1>5 DEF Compile, RetainAlias, CheckPrewarmed, Settle, Goto,
     ThreadStates
<1>6. CASE Callback(t) \/ Register(t) \/ Emit(t)
  BY <1>0, <1>1, <1>6 DEF Callback, Register, Emit, Goto, ThreadStates
<1>7. CASE EnsureExecutable(t)
  BY <1>0, <1>1, <1>7 DEF EnsureExecutable, Goto, Take, Locks, ThreadStates,
     LockOK, Compiling
<1>8. CASE CreateExecutable(t) \/ EnsureArtifactRecord(t)
  BY <1>0, <1>1, <1>8 DEF CreateExecutable, EnsureArtifactRecord, Goto, Locks,
     ThreadStates
<1>9. CASE EndPrewarm(t) \/ Run(t)
  BY <1>0, <1>1, <1>9 DEF EndPrewarm, Run, Goto, Drop, Locks, ThreadStates
<1> QED
  BY <1>2, <1>3, <1>4, <1>5, <1>6, <1>7, <1>8, <1>9 DEF Step

\* What a thread does leaves the place of every other call alone: a lock is
\* taken only when it is free, and dropped only by its owner.
LEMMA OthersStay ==
  ASSUME IInv, NEW t \in Threads, NEW u \in Threads, t # u,
         \/ Step(t)
         \/ Raise(t)
         \/ \E job \in Jobs, p \in Programs : Call(t, job, p)
  PROVE  th'[u] = th[u] /\ (InPrewarm(u)' <=> InPrewarm(u))
<1> USE DEF At, InPrewarm
<1>0. /\ th \in [Threads -> ThreadStates]
      /\ lock \in [Locks -> Threads \cup {None}]
      /\ LockOK(t) /\ LockOK(u) /\ None \notin Threads
  BY CompileAssumption DEF IInv, TypeOK
<1>1. CASE Raise(t) \/ Leave(t)
  BY <1>0, <1>1 DEF Raise, Leave, Locks
<1>2. CASE SwigluHit(t) \/ SwigluMiss(t)
  BY <1>0, <1>1, <1>2 DEF SwigluHit, SwigluMiss, Goto, Take, Locks
<1>3. CASE EnterCapture(t) \/ LeaveCapture(t) \/ KeepCallable(t)
  BY <1>0, <1>1, <1>3 DEF EnterCapture, LeaveCapture, KeepCallable, Goto, Take,
     Drop, Locks
<1>4. CASE EnterCompile(t)
  BY <1>0, <1>1, <1>4 DEF EnterCompile, CanTake, Take, Locks
<1>5. CASE Compile(t) \/ RetainAlias(t) \/ CheckPrewarmed(t) \/ Settle(t)
  BY <1>0, <1>1, <1>5 DEF Compile, RetainAlias, CheckPrewarmed, Settle, Goto
<1>6. CASE Callback(t) \/ Register(t) \/ Emit(t)
  BY <1>0, <1>1, <1>6 DEF Callback, Register, Emit, Goto, Drop, Locks, LockOK,
     Compiling
<1>7. CASE EnsureExecutable(t)
  BY <1>0, <1>1, <1>7 DEF EnsureExecutable, Goto, Take, Locks
<1>8. CASE CreateExecutable(t) \/ EnsureArtifactRecord(t)
  BY <1>0, <1>1, <1>8 DEF CreateExecutable, EnsureArtifactRecord, Goto, Locks
<1>9. CASE EndPrewarm(t) \/ Run(t)
  BY <1>0, <1>1, <1>9 DEF EndPrewarm, Run, Goto, Drop, Locks
<1>10. CASE \E job \in Jobs, p \in Programs : Call(t, job, p)
  BY <1>0, <1>10 DEF Call
<1> QED
  BY <1>1, <1>2, <1>3, <1>4, <1>5, <1>6, <1>7, <1>8, <1>9, <1>10 DEF Step

\* The safety half of CallsReturn: a call that is entered has eighteen places
\* before it and never goes back, so only a lock that is never released
\* could keep it from coming back.
THEOREM CallsOnlyAdvance == Spec => CallAdvances
<1>1. ASSUME IInv, [Next]_vars, NEW u \in Threads
      PROVE  /\ Step(u) => At(u, "idle")' \/ Progress(u)' > Progress(u)
             /\ ~At(u, "idle") =>
                  \/ th'[u] = th[u] /\ Progress(u)' = Progress(u)
                  \/ At(u, "idle")'
                  \/ Progress(u)' > Progress(u)
  <2>1. Step(u) => At(u, "idle")' \/ Progress(u)' > Progress(u)
    BY <1>1, StepAdvances
  <2>2. ASSUME th'[u] = th[u], InPrewarm(u)' <=> InPrewarm(u)
        PROVE  Progress(u)' = Progress(u)
    BY <2>2 DEF Progress, Launching
  <2>3. CASE \E t \in Threads : t # u /\ Step(t)
    BY <1>1, <2>1, <2>2, <2>3, OthersStay
  <2>4. CASE \E t \in Threads : Fails(t)
    <3>1. PICK t \in Threads : Raise(t)
      BY <2>4 DEF Fails
    <3>2. CASE t = u
      BY <1>1, <2>1, <3>1, <3>2 DEF IInv, TypeOK, Raise, Leave, NoCall, At
    <3>3. CASE t # u
      BY <1>1, <2>1, <2>2, <3>1, <3>3, OthersStay
    <3> QED
      BY <3>2, <3>3
  <2>5. CASE \E t \in Threads, job \in Jobs, p \in Programs : Call(t, job, p)
    <3>1. PICK t \in Threads : \E job \in Jobs, p \in Programs : Call(t, job, p)
      BY <2>5
    <3>2. CASE t = u
      BY <2>1, <3>1, <3>2 DEF Call
    <3>3. CASE t # u
      BY <1>1, <2>1, <2>2, <3>1, <3>3, OthersStay
    <3> QED
      BY <3>2, <3>3
  <2>6. CASE BeginTraceWindow \/ EndTraceWindow \/ UNCHANGED vars
    <3>1. th' = th /\ lock' = lock
      BY <2>6 DEF BeginTraceWindow, EndTraceWindow, vars
    <3> QED
      BY <2>1, <2>2, <3>1 DEF InPrewarm
  <2> QED
    BY <1>1, <2>1, <2>3, <2>4, <2>5, <2>6 DEF Next
<1>2. IInv /\ [Next]_vars =>
        [\A t \in Threads :
           /\ Step(t) => At(t, "idle")' \/ Progress(t)' > Progress(t)
           /\ ~At(t, "idle") =>
                \/ th'[t] = th[t] /\ Progress(t)' = Progress(t)
                \/ At(t, "idle")'
                \/ Progress(t)' > Progress(t)]_vars
  BY <1>1
<1> QED
  BY <1>2, Invariance, PTL DEF Spec, CallAdvances
=============================================================================
