------------------------- MODULE InductorModeProofs -------------------------
(***************************************************************************)
(* The safety properties of InductorMode hold for every set of threads and *)
(* every depth of nesting.  The invariant describes the stack of modes of  *)
(* a thread, and what the frames of strict modes write back when they end. *)
(***************************************************************************)
EXTENDS InductorMode, TLAPS, SequenceTheorems

-----------------------------------------------------------------------------
(* The invariant. *)

\* Frames whose configuration has been patched and not yet written back.
Patched(r) ==
    IF r.pc \in {"disable", "patch", "leave"} THEN Len(r.frames) - 1 ELSE Len(r.frames)
StrictFrame(frame) == frame.kind = "mode" /\ frame.mode = "strict"

\* The current mode is that of the top frame; every frame remembers the mode
\* below it, and strict modes contain strict modes only.
StackOK(r) ==
    /\ r.mode = IF r.frames = <<>> THEN "none" ELSE r.frames[Len(r.frames)].mode
    /\ r.pc \in {"disable", "patch", "leave"} =>
         r.frames # <<>> /\ r.frames[Len(r.frames)].kind = "mode"
    /\ r.pc = "activate" => r.wish # "none"
    /\ \A i \in 1 .. Len(r.frames) :
         /\ r.frames[i].mode # "none"
         /\ r.frames[i].outer = IF i = 1 THEN "none" ELSE r.frames[i - 1].mode
    /\ \A i, j \in 1 .. Len(r.frames) :
         i <= j /\ r.frames[i].mode = "strict" => r.frames[j].mode = "strict"

\* A compile that uses the FX cache is one outside the mode.
CacheOK(r) ==
    /\ r.cached => r.pc \in {"construct", "done"} /\ r.mode = "none"
    /\ r.from # "none" => r.pc = "done" /\ r.mode = "none"

\* Inside a strict mode fallbacks are off, and the exit of a strict mode in it
\* leaves them off.  A configuration of the whole process keeps them off.
FallbackOK(r, values, inst, pw) ==
    /\ \A i \in 1 .. Patched(r) : StrictFrame(r.frames[i]) => ~values.fallbacks
    /\ \A i, j \in 1 .. Patched(r) :
         i < j /\ StrictFrame(r.frames[i]) /\ StrictFrame(r.frames[j])
           => ~r.frames[j].fallbacks
    /\ pw /\ inst =>
         /\ ~values.fallbacks
         /\ \A i \in 1 .. Patched(r) : StrictFrame(r.frames[i]) => ~r.frames[i].fallbacks

ThreadOK(r, values, inst, pw) ==
    /\ StackOK(r) /\ CacheOK(r) /\ FallbackOK(r, values, inst, pw)
    /\ r.frames # <<>> \/ r.pc = "activate" => inst

RegistryOK ==
    /\ installed \in BOOLEAN /\ slot = (IF installed THEN 1 ELSE 0) /\ snapshot = 0
    /\ jobs \subseteq {"dev", "strict"}
    /\ jobs # {} => installed
    /\ disk \subseteq {"original"}

IInv ==
    /\ TypeOK /\ RegistryOK
    /\ \A t \in Threads : ThreadOK(th[t], config[t], installed, processWide)

-----------------------------------------------------------------------------
(* Stacks. *)

LEMMA Pushed ==
  ASSUME NEW q \in Seq(Frame), NEW f \in Frame
  PROVE  /\ Append(q, f) \in Seq(Frame) /\ Append(q, f) # <<>>
         /\ Len(Append(q, f)) = Len(q) + 1 /\ Len(q) \in Nat
         /\ \A i \in 1 .. Len(q) : Append(q, f)[i] = q[i]
         /\ Append(q, f)[Len(q) + 1] = f
  BY AppendProperties

LEMMA Popped ==
  ASSUME NEW q \in Seq(Frame), q # <<>>
  PROVE  LET p == SubSeq(q, 1, Len(q) - 1)
         IN  /\ p \in Seq(Frame) /\ Len(p) = Len(q) - 1 /\ Len(q) \in Nat \ {0}
             /\ \A i \in 1 .. Len(q) - 1 : p[i] = q[i]
             /\ p = <<>> <=> Len(q) = 1
             /\ \A i \in 1 .. Len(q) : q[i] \in Frame
<1> DEFINE p == SubSeq(q, 1, Len(q) - 1)
<1>1. Len(q) \in Nat \ {0}
  BY EmptySeq
<1>2. \A i \in 1 .. Len(q) : q[i] \in Frame
  BY ElementOfSeq
<1>4. /\ p \in Seq(Frame) /\ Len(p) = Len(q) - 1
      /\ \A i \in 1 .. Len(q) - 1 : p[i] = q[i]
  <2> DEFINE n == Len(q) - 1
  <2>1. n \in Nat /\ 1 \in Int /\ n \in Int /\ \A i \in 1 .. n : q[i] \in Frame
    BY <1>1, <1>2
  <2> HIDE DEF n
  <2>2. /\ SubSeq(q, 1, n) \in Seq(Frame)
        /\ Len(SubSeq(q, 1, n)) = IF 1 <= n THEN n - 1 + 1 ELSE 0
        /\ \A i \in 1 .. n - 1 + 1 : SubSeq(q, 1, n)[i] = q[1 + i - 1]
    BY <2>1, SubSeqProperties
  <2>3. p = SubSeq(q, 1, n)
    BY DEF n
  <2> HIDE DEF p
  <2>4. p \in Seq(Frame) /\ Len(p) = n /\ \A i \in 1 .. n : p[i] = q[i]
    <3>1. n - 1 + 1 = n /\ \A i \in 1 .. n : 1 + i - 1 = i
      BY <2>1
    <3> QED
      BY <2>1, <2>2, <2>3, <3>1
  <2> QED
    BY <2>4 DEF n
<1> HIDE DEF p
<1>5. p = <<>> <=> Len(q) = 1
  BY <1>1, <1>4, EmptySeq
<1> QED
  BY <1>1, <1>2, <1>4, <1>5 DEF p

\* The top frame gets its saved values.
LEMMA Replaced ==
  ASSUME NEW q \in Seq(Frame), q # <<>>, NEW f \in Frame
  PROVE  LET w == Append(SubSeq(q, 1, Len(q) - 1), f)
         IN  /\ w \in Seq(Frame) /\ w # <<>> /\ Len(w) = Len(q)
             /\ \A i \in 1 .. Len(q) - 1 : w[i] = q[i]
             /\ w[Len(q)] = f
<1> DEFINE p == SubSeq(q, 1, Len(q) - 1)
<1>1. p \in Seq(Frame) /\ Len(p) = Len(q) - 1 /\ Len(q) \in Nat \ {0}
      /\ \A i \in 1 .. Len(q) - 1 : p[i] = q[i]
  BY Popped
<1> HIDE DEF p
<1>2. /\ Append(p, f) \in Seq(Frame) /\ Append(p, f) # <<>>
      /\ Len(Append(p, f)) = Len(p) + 1
      /\ \A i \in 1 .. Len(p) : Append(p, f)[i] = p[i]
      /\ Append(p, f)[Len(p) + 1] = f
  BY <1>1, Pushed
<1> DEFINE w == Append(p, f)
<1> HIDE DEF w
<1>3. /\ w \in Seq(Frame) /\ w # <<>> /\ Len(w) = Len(q)
      /\ \A i \in 1 .. Len(q) - 1 : w[i] = q[i]
      /\ w[Len(q)] = f
  BY <1>1, <1>2 DEF w
<1> QED
  BY <1>3 DEF w, p

-----------------------------------------------------------------------------
\* What a step of one thread has to show for the others to be sound as well.
LEMMA ThreadStepKeeps ==
  ASSUME IInv, NEW t \in Threads, NEW r \in Thread, NEW values \in Values, Becomes(t, r),
         Configure(t, values) \/ (config' = config /\ installed' = installed /\ values = config[t]),
         processWide' = processWide, installed => installed', RegistryOK',
         ThreadOK(r, values, installed', processWide)
  PROVE  IInv'
<1>1. /\ th' \in [Threads -> Thread] /\ th'[t] = r
      /\ \A u \in Threads : u # t => th'[u] = th[u]
  BY DEF IInv, TypeOK, Becomes
<1>2. /\ config' \in [Threads -> Values] /\ config'[t] = values
      /\ \A u \in Threads : u # t =>
           \/ config'[u] = config[u] /\ (~processWide \/ installed' = installed)
           \/ config'[u] = values /\ processWide
  <2>1. config \in [Threads -> Values] /\ processWide \in BOOLEAN
    BY DEF IInv, TypeOK
  <2>2. CASE config' = config /\ installed' = installed /\ values = config[t]
    BY <2>1, <2>2
  <2>3. CASE Configure(t, values) /\ processWide
    <3>1. config' = [u \in Threads |-> values]
      BY <2>3 DEF Configure
    <3> QED
      BY <3>1, <2>3
  <2>4. CASE Configure(t, values) /\ ~processWide
    <3>1. config' = [u \in Threads |-> IF u = t THEN values ELSE config[u]]
      BY <2>4 DEF Configure
    <3> QED
      BY <2>1, <2>4, <3>1
  <2> QED
    BY <2>1, <2>2, <2>3, <2>4
<1>3. TypeOK'
  BY <1>1, <1>2 DEF IInv, TypeOK, RegistryOK, Modes
<1>4. ASSUME NEW u \in Threads, u # t
      PROVE  ThreadOK(th[u], config'[u], installed', processWide)
  <2>1. ThreadOK(th[u], config[u], installed, processWide) /\ th[u].frames \in Seq(Frame)
    BY DEF IInv, TypeOK, Thread
  <2>2. CASE installed
    <3>1. installed' /\ (processWide => ~values.fallbacks)
      BY <2>2 DEF ThreadOK, FallbackOK
    <3>2. CASE config'[u] = config[u]
      <4>1. installed' = installed
        BY <2>2, <3>1 DEF IInv, RegistryOK
      <4> QED
        BY <2>1, <3>2, <4>1
    <3>3. CASE config'[u] = values /\ processWide
      <4>1. ~config'[u].fallbacks
        BY <3>1, <3>3
      <4>2. FallbackOK(th[u], config'[u], installed', processWide)
        <5>1. FallbackOK(th[u], config[u], installed, processWide)
          BY <2>1 DEF ThreadOK
        <5> QED
          BY <2>2, <3>3, <4>1, <5>1 DEF FallbackOK
      <4> QED
        BY <2>1, <2>2, <3>1, <4>2 DEF ThreadOK
    <3> QED
      BY <1>2, <1>4, <3>2, <3>3
  <2>3. CASE ~installed
    <3>1. th[u].frames = <<>> /\ th[u].pc # "activate" /\ Len(th[u].frames) = 0
      BY <2>1, <2>3 DEF ThreadOK
    <3>2. Patched(th[u]) = 0
      BY <2>1, <3>1 DEF Patched, ThreadOK, StackOK
    <3>3. processWide /\ installed' => ~config'[u].fallbacks
      BY <1>2, <1>4, <2>1 DEF ThreadOK, FallbackOK
    <3> QED
      BY <2>1, <3>1, <3>2, <3>3 DEF ThreadOK, FallbackOK
  <2> QED
    BY <2>2, <2>3
<1> QED
  BY <1>1, <1>2, <1>3, <1>4 DEF IInv

-----------------------------------------------------------------------------
(* Steps that leave the stack alone. *)

LEMMA ThreadFacts ==
  ASSUME IInv, NEW t \in Threads
  PROVE  /\ th[t] \in Thread /\ config[t] \in Values /\ th[t].frames \in Seq(Frame)
         /\ ThreadOK(th[t], config[t], installed, processWide)
         /\ th[t].pc = "idle" => ~th[t].cached /\ th[t].from = "none"
         /\ th[t].mode # "none" => installed /\ th[t].frames # <<>>
         /\ Becomes(t, th[t]) <=> th' = th
<1>1. th \in [Threads -> Thread] /\ config \in [Threads -> Values]
      /\ ThreadOK(th[t], config[t], installed, processWide)
  BY DEF IInv, TypeOK
<1>2. th[t] \in Thread /\ config[t] \in Values /\ th[t].frames \in Seq(Frame)
  BY <1>1 DEF Thread
<1>3. [th EXCEPT ![t] = th[t]] = th
  BY <1>1
<1>4. th[t].cached \in BOOLEAN
  BY <1>2 DEF Thread
<1> QED
  BY <1>1, <1>2, <1>3, <1>4 DEF Becomes, ThreadOK, CacheOK, StackOK

\* The stack of a thread stays while its configuration keeps what it needs.
LEMMA SameStack ==
  ASSUME NEW r, NEW r2, r2.frames = r.frames, r2.mode = r.mode, StackOK(r),
         \/ r2.pc = r.pc
         \/ /\ r.pc \notin {"disable", "patch", "leave"}
            /\ r2.pc \notin {"disable", "patch", "leave"}
         \/ r.pc = "disable" /\ r2.pc = "patch",
         r2.pc = "activate" => r2.wish # "none"
  PROVE  /\ StackOK(r2)
         /\ \A values, inst, pw : FallbackOK(r, values, inst, pw)
                                   => FallbackOK(r2, values, inst, pw)
<1>1. StackOK(r2)
  BY DEF StackOK
<1>2. Patched(r2) = Patched(r)
  BY DEF Patched
<1> QED
  BY <1>1, <1>2 DEF FallbackOK

LEMMA EnterKeeps ==
  ASSUME IInv, NEW t \in Threads, NEW strict \in {"dev", "strict"}, Enter(t, strict)
  PROVE  IInv'
<1> DEFINE r == th[t]
           values == IF installed THEN config[t] ELSE Prepared(config[t])
           r2 == [r EXCEPT !.pc = "activate", !.wish = strict]
<1>1. /\ r \in Thread /\ config[t] \in Values /\ r.frames \in Seq(Frame) /\ r.pc = "idle"
      /\ ThreadOK(r, config[t], installed, processWide)
      /\ ~r.cached /\ r.from = "none"
  BY ThreadFacts DEF Enter, At
<1>2. values \in Values /\ (values.fallbacks => config[t].fallbacks)
      /\ (~installed => ~values.fallbacks)
  BY <1>1 DEF Values, Prepared
<1>3. Configure(t, values) /\ processWide' = processWide /\ disk' = disk /\ jobs' = jobs
  BY DEF Enter
<1> HIDE DEF values
<1>4. ASSUME NEW inst \in BOOLEAN PROVE FallbackOK(r, values, inst, processWide)
  <2>1. FallbackOK(r, config[t], installed, processWide)
    BY <1>1 DEF ThreadOK
  <2>2. CASE installed
    BY <1>2, <2>1, <2>2 DEF FallbackOK
  <2>3. CASE ~installed
    <3>1. Patched(r) = 0
      BY <1>1, <2>3, EmptySeq DEF ThreadOK, Patched
    <3> QED
      BY <1>2, <2>3, <3>1 DEF FallbackOK
  <2> QED
    BY <2>2, <2>3
<1>5. CASE Register /\ Becomes(t, r2)
  <2>1. r2 \in Thread /\ r2.frames = r.frames /\ r2.mode = r.mode /\ r2.pc = "activate"
        /\ r2.wish = strict /\ r2.cached = r.cached /\ r2.from = r.from
    BY <1>1 DEF Thread, Modes
  <2> HIDE DEF r2
  <2>2. RegistryOK' /\ installed' = TRUE
    <3>1. RegistryOK
      BY DEF IInv
    <3>2. CASE installed /\ UNCHANGED registry
      BY <1>3, <3>1, <3>2 DEF RegistryOK, registry
    <3>3. CASE ~installed /\ installed' = TRUE /\ snapshot' = slot /\ slot' = slot + 1
      BY <1>3, <3>1, <3>3 DEF RegistryOK
    <3> QED
      BY <1>5, <3>2, <3>3 DEF Register
  <2>3. FallbackOK(r, values, TRUE, processWide)
    BY <1>4
  <2>4. StackOK(r2) /\ FallbackOK(r2, values, TRUE, processWide)
    BY <1>1, <2>1, <2>3, SameStack DEF ThreadOK
  <2>5. ThreadOK(r2, values, installed', processWide)
    BY <1>1, <2>1, <2>2, <2>4 DEF ThreadOK, CacheOK
  <2> QED
    BY <1>2, <1>3, <1>5, <2>1, <2>2, <2>5, ThreadStepKeeps
<1>6. CASE UNCHANGED <<registry, th>>
  <2>1. RegistryOK' /\ installed' = installed /\ Becomes(t, r) /\ installed \in BOOLEAN
    BY <1>3, <1>6, ThreadFacts DEF IInv, RegistryOK, registry
  <2>2. ThreadOK(r, values, installed, processWide)
    BY <1>1, <1>4, <2>1 DEF ThreadOK
  <2> QED
    BY <1>1, <1>2, <1>3, <2>1, <2>2, ThreadStepKeeps
<1> QED
  BY <1>5, <1>6 DEF Enter

LEMMA UninstallKeeps ==
  ASSUME IInv, Uninstall
  PROVE  IInv'
<1>1. /\ installed' = FALSE /\ slot' = 0 /\ snapshot' = 0 /\ config' = config
      /\ disk' = disk /\ jobs' = jobs /\ jobs = {} /\ th' = th /\ processWide' = processWide
  BY DEF Uninstall, IInv, RegistryOK
<1>2. RegistryOK' /\ TypeOK'
  BY <1>1 DEF IInv, RegistryOK, TypeOK
<1>3. ASSUME NEW t \in Threads
      PROVE  ThreadOK(th[t], config[t], FALSE, processWide)
  <2>1. ThreadOK(th[t], config[t], installed, processWide)
    BY ThreadFacts
  <2>2. th[t].frames = <<>> /\ th[t].pc # "activate"
    BY DEF Uninstall
  <2> QED
    BY <2>1, <2>2 DEF ThreadOK, FallbackOK
<1> QED
  BY <1>1, <1>2, <1>3 DEF IInv

\* A step of a thread in its own context: neither the configuration nor the
\* stack changes.
LEMMA InPlaceKeeps ==
  ASSUME IInv, NEW t \in Threads, NEW r2 \in Thread, Becomes(t, r2),
         UNCHANGED <<processWide, config, installed, slot, snapshot>>,
         r2.frames = th[t].frames, r2.mode = th[t].mode, CacheOK(r2),
         th[t].pc \notin {"disable", "patch", "leave"},
         r2.pc \in {"idle", "construct", "done"},
         disk' \subseteq {"original"}, jobs' \subseteq {"dev", "strict"},
         jobs' # {} => installed
  PROVE  IInv'
<1> DEFINE r == th[t]
<1>1. /\ r \in Thread /\ config[t] \in Values
      /\ ThreadOK(r, config[t], installed, processWide)
  BY ThreadFacts
<1>2. StackOK(r2) /\ FallbackOK(r2, config[t], installed, processWide)
  BY <1>1, SameStack DEF ThreadOK
<1>3. ThreadOK(r2, config[t], installed, processWide)
  BY <1>1, <1>2 DEF ThreadOK
<1>4. RegistryOK' /\ installed' = installed
  BY DEF IInv, RegistryOK
<1> QED
  BY <1>1, <1>3, <1>4, ThreadStepKeeps

LEMMA CompileStepsKeep ==
  ASSUME IInv, NEW t \in Threads,
         \/ Bind(t) \/ Construct(t) \/ Return(t)
         \/ \E wrapper \in Wrappers : Lookup(t, wrapper)
  PROVE  IInv'
<1> DEFINE r == th[t]
<1>1. /\ r \in Thread /\ ThreadOK(r, config[t], installed, processWide)
      /\ (r.pc = "idle" => ~r.cached /\ r.from = "none")
      /\ (r.mode # "none" => installed /\ r.frames # <<>>)
      /\ (Becomes(t, r) <=> th' = th)
      /\ slot = (IF installed THEN 1 ELSE 0) /\ disk \subseteq {"original"}
      /\ jobs \subseteq {"dev", "strict"} /\ (jobs # {} => installed)
      /\ installed \in BOOLEAN /\ r.mode \in Modes /\ CacheOK(r)
  BY ThreadFacts DEF IInv, RegistryOK, Thread, ThreadOK
<1>2. CASE Bind(t)
  <2>1. r.mode \in {"dev", "strict"} /\ r.pc = "idle"
    BY <1>1, <1>2 DEF Bind, At, Modes
  <2> QED
    BY <1>1, <1>2, <2>1, InPlaceKeeps DEF Bind, registry
<1>3. CASE Return(t)
  <2> DEFINE r2 == [r EXCEPT !.pc = "idle", !.wrapper = "python",
                             !.cached = FALSE, !.from = "none"]
  <2>1. /\ r2 \in Thread /\ r2.frames = r.frames /\ r2.mode = r.mode /\ CacheOK(r2)
        /\ r2.pc = "idle" /\ r.pc = "done"
    BY <1>1, <1>3 DEF Thread, Wrappers, CacheOK, Return, At
  <2>2. Becomes(t, r2)
    BY <1>3 DEF Return
  <2> HIDE DEF r2
  <2> QED
    BY <1>1, <1>3, <2>1, <2>2, InPlaceKeeps DEF Return, registry
<1>4. ASSUME NEW wrapper \in Wrappers, Lookup(t, wrapper) PROVE IInv'
  <2> DEFINE selected == Selected(t, wrapper)
             cached == config[t].fx /\ SupportsCaching(selected)
             begun == [r EXCEPT !.wrapper = wrapper, !.cached = cached]
             cold == [begun EXCEPT !.pc = "construct"]
  <2>1. cached \in BOOLEAN /\ (cached => r.mode = "none")
    <3>1. selected = "original" => r.mode = "none"
      BY <1>1 DEF Selected
    <3>2. config[t].fx \in BOOLEAN
      BY ThreadFacts DEF Values
    <3> QED
      BY <3>1, <3>2 DEF SupportsCaching
  <2>2. r.pc = "idle"
    BY <1>4 DEF Lookup, At
  <2>3. CASE Becomes(t, cold)
    <3> HIDE DEF cached
    <3>1. cold \in Thread /\ cold.frames = r.frames /\ cold.mode = r.mode
          /\ cold.pc = "construct" /\ cold.cached = cached /\ cold.from = "none"
      BY <1>1, <2>1, <2>2 DEF Thread
    <3> HIDE DEF cold
    <3>2. CacheOK(cold)
      BY <2>1, <3>1 DEF CacheOK
    <3> QED
      BY <1>1, <1>4, <2>2, <2>3, <3>1, <3>2, InPlaceKeeps DEF Lookup, registry
  <2>4. ASSUME cached, NEW whose \in disk,
               Becomes(t, [begun EXCEPT !.pc = "done", !.from = whose])
        PROVE  IInv'
    <3> DEFINE warm == [begun EXCEPT !.pc = "done", !.from = whose]
    <3>0. r.mode = "none" /\ whose = "original"
      BY <1>1, <2>1, <2>4
    <3> HIDE DEF cached
    <3>1. warm \in Thread /\ warm.frames = r.frames /\ warm.mode = r.mode /\ warm.pc = "done"
      BY <1>1, <2>1, <3>0 DEF Thread
    <3>2. Becomes(t, warm)
      BY <2>4
    <3> HIDE DEF warm
    <3>3. CacheOK(warm)
      BY <3>0, <3>1 DEF CacheOK
    <3> QED
      BY <1>1, <1>4, <2>2, <3>1, <3>2, <3>3, InPlaceKeeps DEF Lookup, registry
  <2> QED
    BY <1>4, <2>3, <2>4 DEF Lookup
<1>5. CASE Construct(t)
  <2> DEFINE selected == Selected(t, r.wrapper)
             done == [r EXCEPT !.pc = "done", !.from = "none"]
             failed == [r EXCEPT !.pc = "idle", !.wrapper = "python", !.cached = FALSE]
  <2>1. r.pc = "construct" /\ UNCHANGED <<processWide, config, installed, slot, snapshot, jobs>>
    BY <1>5 DEF Construct, At, registry
  <2>2. CASE Becomes(t, done) /\ disk' = IF r.cached THEN disk \cup {selected} ELSE disk
    <3>1. /\ done \in Thread /\ done.frames = r.frames /\ done.mode = r.mode
          /\ done.pc = "done" /\ done.cached = r.cached /\ done.from = "none"
      BY <1>1 DEF Thread
    <3>2. r.cached => selected = "original"
      BY <1>1 DEF CacheOK, Selected
    <3>3. disk' \subseteq {"original"}
      BY <1>1, <2>2, <3>2
    <3> HIDE DEF done
    <3>4. CacheOK(done)
      BY <1>1, <2>1, <3>1 DEF CacheOK
    <3> QED
      BY <1>1, <2>1, <2>2, <3>1, <3>3, <3>4, InPlaceKeeps
  <2>3. CASE Becomes(t, failed) /\ UNCHANGED disk
    <3>1. /\ failed \in Thread /\ failed.frames = r.frames /\ failed.mode = r.mode
          /\ failed.pc = "idle" /\ ~failed.cached /\ failed.from = r.from
      BY <1>1 DEF Thread, Wrappers
    <3> HIDE DEF failed
    <3>2. r.from = "none"
      BY <1>1, <2>1 DEF CacheOK
    <3> QED
      BY <1>1, <2>1, <2>3, <3>1, <3>2, InPlaceKeeps DEF CacheOK
  <2> QED
    BY <1>5, <2>2, <2>3 DEF Construct
<1> QED
  BY <1>2, <1>3, <1>4, <1>5

-----------------------------------------------------------------------------
(* Steps that change the stack. *)

\* A mode begins: a frame on top, nothing patched yet.
LEMMA ActivateKeeps ==
  ASSUME IInv, NEW t \in Threads, Activate(t)
  PROVE  IInv'
<1> DEFINE r == th[t]
           effective == Effective(r.mode, r.wish)
           frame == [kind |-> "mode", outer |-> r.mode, mode |-> effective,
                     fx |-> config[t].fx, backend |-> "triton", fallbacks |-> TRUE]
           refused == [r EXCEPT !.pc = "idle", !.wish = "none"]
           begun == [r EXCEPT !.pc = "disable", !.mode = effective,
                              !.wish = "none", !.frames = Append(@, frame)]
           n == Len(r.frames)
<1>1. /\ r \in Thread /\ config[t] \in Values /\ r.frames \in Seq(Frame) /\ r.pc = "activate"
      /\ ThreadOK(r, config[t], installed, processWide)
      /\ ~r.cached /\ r.from = "none" /\ r.wish \in {"dev", "strict"} /\ r.mode \in Modes
  BY ThreadFacts DEF Activate, At, ThreadOK, CacheOK, StackOK, Thread, Modes
<1>2. RegistryOK' /\ installed' = installed /\ config' = config /\ processWide' = processWide
      /\ disk' = disk /\ jobs' = jobs
  BY DEF Activate, IInv, RegistryOK, registry
<1>3. CASE Becomes(t, refused)
  <2>1. /\ refused \in Thread /\ refused.frames = r.frames /\ refused.mode = r.mode
        /\ refused.pc = "idle" /\ refused.cached = r.cached /\ refused.from = r.from
    BY <1>1 DEF Thread, Modes
  <2> HIDE DEF refused
  <2>2. StackOK(refused) /\ FallbackOK(refused, config[t], installed, processWide)
    BY <1>1, <2>1, SameStack DEF ThreadOK
  <2>3. ThreadOK(refused, config[t], installed, processWide)
    BY <1>1, <2>1, <2>2 DEF ThreadOK, CacheOK
  <2> QED
    BY <1>1, <1>2, <1>3, <2>1, <2>3, ThreadStepKeeps
<1>4. CASE Becomes(t, begun) /\ ~Weakens(r.mode, r.wish)
  <2>1. /\ effective \in {"dev", "strict"} /\ (r.mode = "strict" => effective = "strict")
        /\ effective \in Modes
    BY <1>1 DEF Effective, Modes
  <2>2. frame \in Frame
    BY <1>1, <2>1 DEF Frame, Values
  <2>3. frame.kind = "mode" /\ frame.outer = r.mode /\ frame.mode = effective
    OBVIOUS
  <2> HIDE DEF frame, effective
  <2> DEFINE w == Append(r.frames, frame)
  <2>4. /\ w \in Seq(Frame) /\ w # <<>> /\ Len(w) = n + 1 /\ n \in Nat
        /\ \A i \in 1 .. n : w[i] = r.frames[i]
        /\ w[n + 1] = frame
    BY <1>1, <2>2, Pushed
  <2> HIDE DEF w
  <2>5. /\ begun \in Thread /\ begun.frames = w /\ begun.mode = effective
        /\ begun.pc = "disable" /\ begun.cached = r.cached /\ begun.from = r.from
    <3>1. begun = [r EXCEPT !.pc = "disable", !.mode = effective, !.wish = "none",
                            !.frames = w]
      BY DEF w
    <3> HIDE DEF begun
    <3> QED
      BY <1>1, <2>1, <2>4, <3>1 DEF Thread, Modes
  <2> HIDE DEF begun
  <2>6. StackOK(r) /\ FallbackOK(r, config[t], installed, processWide)
        /\ (r.frames = <<>> <=> n = 0)
    BY <1>1, EmptySeq DEF ThreadOK
  <2>7. StackOK(begun)
    <3>1. begun.mode = w[n + 1].mode /\ w[n + 1].kind = "mode"
      BY <2>3, <2>4, <2>5
    <3>2. ASSUME NEW i \in 1 .. n + 1
          PROVE  /\ w[i].mode # "none"
                 /\ w[i].outer = IF i = 1 THEN "none" ELSE w[i - 1].mode
      <4>1. CASE i \in 1 .. n
        <5>1. w[i] = r.frames[i] /\ (i # 1 => w[i - 1] = r.frames[i - 1])
          <6>1. i # 1 => i - 1 \in 1 .. n
            BY <2>4, <4>1
          <6> QED
            BY <2>4, <4>1, <6>1
        <5>2. /\ r.frames[i].mode # "none"
              /\ r.frames[i].outer = IF i = 1 THEN "none" ELSE r.frames[i - 1].mode
          BY <2>6, <4>1 DEF StackOK
        <5> QED
          BY <5>1, <5>2
      <4>2. CASE i = n + 1
        BY <2>1, <2>3, <2>4, <2>6, <4>2 DEF StackOK
      <4> QED
        BY <2>4, <4>1, <4>2
    <3>3. ASSUME NEW i \in 1 .. n + 1, NEW j \in 1 .. n + 1, i <= j, w[i].mode = "strict"
          PROVE  w[j].mode = "strict"
      <4>1. CASE j \in 1 .. n
        <5>1. i \in 1 .. n
          BY <2>4, <3>3, <4>1
        <5> QED
          BY <2>4, <2>6, <3>3, <4>1, <5>1 DEF StackOK
      <4>2. CASE j = n + 1 /\ i \in 1 .. n
        <5>1. n \in 1 .. n /\ i <= n
          BY <2>4, <4>2
        <5>2. r.frames[n].mode = "strict"
          BY <2>4, <2>6, <3>3, <4>2, <5>1 DEF StackOK
        <5>3. r.mode = "strict"
          BY <2>4, <2>6, <4>2, <5>2 DEF StackOK
        <5> QED
          BY <2>1, <2>3, <2>4, <4>2, <5>3
      <4> QED
        BY <2>4, <3>3, <4>1, <4>2
    <3> QED
      BY <2>4, <2>5, <3>1, <3>2, <3>3 DEF StackOK
  <2>8. FallbackOK(begun, config[t], installed, processWide)
    <3>1. Patched(begun) = n /\ Patched(r) = n
      BY <1>1, <2>4, <2>5 DEF Patched
    <3>2. \A i \in 1 .. n : begun.frames[i] = r.frames[i]
      BY <2>4, <2>5
    <3> QED
      BY <2>6, <3>1, <3>2 DEF FallbackOK
  <2>9. ThreadOK(begun, config[t], installed, processWide)
    BY <1>1, <2>5, <2>7, <2>8 DEF ThreadOK, CacheOK
  <2> QED
    BY <1>1, <1>2, <1>4, <2>5, <2>9, ThreadStepKeeps
<1> QED
  BY <1>3, <1>4 DEF Activate

\* config.patch: what the frame saves and what it sets.
LEMMA PatchKeeps ==
  ASSUME IInv, NEW t \in Threads, Patch(t)
  PROVE  IInv'
<1> DEFINE r == th[t]
           now == config[t]
           top == Top(t)
           saved == [top EXCEPT !.backend = now.backend, !.fallbacks = now.fallbacks]
           values == [now EXCEPT !.backend = "pypto",
                        !.fallbacks = IF top.mode = "strict" THEN FALSE ELSE @]
           w == Append(Pop(t), saved)
           r2 == [r EXCEPT !.pc = "idle", !.frames = w]
           n == Len(r.frames)
<1>1. /\ r \in Thread /\ now \in Values /\ r.frames \in Seq(Frame) /\ r.pc = "patch"
      /\ ThreadOK(r, now, installed, processWide)
      /\ StackOK(r) /\ FallbackOK(r, now, installed, processWide) /\ CacheOK(r)
      /\ r.frames # <<>> /\ top.kind = "mode" /\ top = r.frames[n]
  BY ThreadFacts DEF Patch, At, ThreadOK, StackOK, Top
<1>2. RegistryOK' /\ installed' = installed /\ processWide' = processWide
  BY DEF Patch, IInv, RegistryOK, registry
<1>3. /\ n \in Nat \ {0} /\ top \in Frame
  BY <1>1, EmptySeq, ElementOfSeq
<1>4. /\ saved \in Frame /\ saved.kind = "mode" /\ saved.mode = top.mode
      /\ saved.outer = top.outer /\ saved.fallbacks = now.fallbacks
  BY <1>1, <1>3 DEF Frame, Values
<1>5. /\ values \in Values /\ (top.mode = "strict" => ~values.fallbacks)
      /\ (values.fallbacks => now.fallbacks)
  BY <1>1, <1>3 DEF Values
<1> HIDE DEF saved, values
<1>6. /\ w \in Seq(Frame) /\ w # <<>> /\ Len(w) = n
      /\ \A i \in 1 .. n - 1 : w[i] = r.frames[i]
      /\ w[n] = saved
  BY <1>1, <1>4, Replaced DEF Pop
<1>7. Becomes(t, r2) /\ Configure(t, values)
  BY DEF Patch, saved, values
<1> HIDE DEF w, top
<1>8. /\ r2 \in Thread /\ r2.frames = w /\ r2.mode = r.mode
      /\ r2.pc = "idle" /\ r2.cached = r.cached /\ r2.from = r.from
  BY <1>1, <1>6 DEF Thread
<1> HIDE DEF r2
<1>9. \A i \in 1 .. n : /\ w[i].mode = r.frames[i].mode /\ w[i].kind = r.frames[i].kind
                         /\ w[i].outer = r.frames[i].outer
  BY <1>1, <1>3, <1>4, <1>6
<1>10. StackOK(r2)
  <2>1. r2.mode = w[n].mode
    BY <1>1, <1>3, <1>8, <1>9 DEF StackOK
  <2>2. ASSUME NEW i \in 1 .. n
        PROVE  /\ w[i].mode # "none"
               /\ w[i].outer = IF i = 1 THEN "none" ELSE w[i - 1].mode
    <3>1. /\ r.frames[i].mode # "none"
          /\ r.frames[i].outer = IF i = 1 THEN "none" ELSE r.frames[i - 1].mode
      BY <1>1 DEF StackOK
    <3>2. i # 1 => i - 1 \in 1 .. n
      BY <1>3
    <3> QED
      BY <1>9, <3>1, <3>2
  <2>3. ASSUME NEW i \in 1 .. n, NEW j \in 1 .. n, i <= j, w[i].mode = "strict"
        PROVE  w[j].mode = "strict"
    BY <1>1, <1>9, <2>3 DEF StackOK
  <2> QED
    BY <1>6, <1>8, <2>1, <2>2, <2>3 DEF StackOK
<1>11. FallbackOK(r2, values, installed, processWide)
  <2>1. Patched(r2) = n /\ Patched(r) = n - 1
    BY <1>1, <1>6, <1>8 DEF Patched
  <2>2. ASSUME NEW i \in 1 .. n, StrictFrame(w[i]) PROVE ~values.fallbacks
    <3>1. CASE i = n
      BY <1>4, <1>5, <1>6, <2>2, <3>1 DEF StrictFrame
    <3>2. CASE i \in 1 .. n - 1
      BY <1>1, <1>5, <1>6, <2>1, <2>2, <3>2 DEF FallbackOK
    <3> QED
      BY <1>3, <3>1, <3>2
  <2>3. ASSUME NEW i \in 1 .. n, NEW j \in 1 .. n, i < j,
               StrictFrame(w[i]), StrictFrame(w[j])
        PROVE  ~w[j].fallbacks
    <3>0. i \in 1 .. n - 1
      BY <1>3, <2>3
    <3>1. CASE j = n
      BY <1>1, <1>4, <1>6, <2>1, <2>3, <3>0, <3>1 DEF FallbackOK
    <3>2. CASE j \in 1 .. n - 1
      BY <1>1, <1>6, <2>1, <2>3, <3>0, <3>2 DEF FallbackOK
    <3> QED
      BY <1>3, <3>1, <3>2
  <2>4. ASSUME processWide, installed
        PROVE  /\ ~values.fallbacks
               /\ \A i \in 1 .. n : StrictFrame(w[i]) => ~w[i].fallbacks
    <3>1. ~now.fallbacks /\ \A i \in 1 .. n - 1 : StrictFrame(w[i]) => ~w[i].fallbacks
      BY <1>1, <1>6, <2>1, <2>4 DEF FallbackOK
    <3> QED
      BY <1>3, <1>4, <1>5, <1>6, <3>1
  <2> QED
    BY <1>8, <2>1, <2>2, <2>3, <2>4 DEF FallbackOK
<1>12. ThreadOK(r2, values, installed, processWide)
  BY <1>1, <1>8, <1>10, <1>11 DEF ThreadOK, CacheOK
<1> QED
  BY <1>2, <1>5, <1>7, <1>8, <1>12, ThreadStepKeeps

\* The FX cache is switched off while the mode begins.
LEMMA DisableCacheKeeps ==
  ASSUME IInv, NEW t \in Threads, DisableCache(t)
  PROVE  IInv'
<1> DEFINE r == th[t]
           values == [config[t] EXCEPT !.fx = FALSE]
           r2 == [r EXCEPT !.pc = "patch"]
<1>1. /\ r \in Thread /\ config[t] \in Values /\ r.pc = "disable"
      /\ ThreadOK(r, config[t], installed, processWide)
  BY ThreadFacts DEF DisableCache, At
<1>2. /\ RegistryOK' /\ installed' = installed /\ processWide' = processWide
      /\ Becomes(t, r2) /\ Configure(t, values)
  BY DEF DisableCache, IInv, RegistryOK, registry
<1>3. values \in Values /\ values.fallbacks = config[t].fallbacks
  BY <1>1 DEF Values
<1>4. /\ r2 \in Thread /\ r2.frames = r.frames /\ r2.mode = r.mode
      /\ r2.pc = "patch" /\ r2.cached = r.cached /\ r2.from = r.from
  BY <1>1 DEF Thread
<1> HIDE DEF r2, values
<1>5. StackOK(r2) /\ FallbackOK(r2, config[t], installed, processWide)
  BY <1>1, <1>4, SameStack DEF ThreadOK
<1>6. FallbackOK(r2, values, installed, processWide)
  BY <1>3, <1>5 DEF FallbackOK
<1>7. ThreadOK(r2, values, installed, processWide)
  BY <1>1, <1>4, <1>5, <1>6 DEF ThreadOK, CacheOK
<1> QED
  BY <1>2, <1>3, <1>4, <1>7, ThreadStepKeeps

\* The frame writes its saved values back.
LEMMA UnpatchKeeps ==
  ASSUME IInv, NEW t \in Threads, Unpatch(t)
  PROVE  IInv'
<1> DEFINE r == th[t]
           now == config[t]
           top == Top(t)
           values == [now EXCEPT !.backend = top.backend,
                        !.fallbacks = IF top.mode = "strict" THEN top.fallbacks ELSE @]
           r2 == [r EXCEPT !.pc = "leave"]
           n == Len(r.frames)
<1>1. /\ r \in Thread /\ now \in Values /\ r.frames \in Seq(Frame) /\ r.pc = "idle"
      /\ ThreadOK(r, now, installed, processWide)
      /\ StackOK(r) /\ FallbackOK(r, now, installed, processWide) /\ CacheOK(r)
      /\ ~r.cached /\ r.from = "none"
      /\ r.frames # <<>> /\ top.kind = "mode" /\ top = r.frames[n]
  BY ThreadFacts DEF Unpatch, At, ThreadOK, Top
<1>2. RegistryOK' /\ installed' = installed /\ processWide' = processWide
      /\ Becomes(t, r2) /\ Configure(t, values)
  BY DEF Unpatch, IInv, RegistryOK, registry
<1>3. n \in Nat \ {0} /\ top \in Frame
  BY <1>1, EmptySeq, ElementOfSeq
<1>4. /\ values \in Values
      /\ values.fallbacks = IF top.mode = "strict" THEN top.fallbacks ELSE now.fallbacks
  BY <1>1, <1>3 DEF Values, Frame
<1> HIDE DEF values, top
<1>5. /\ r2 \in Thread /\ r2.frames = r.frames /\ r2.mode = r.mode
      /\ r2.pc = "leave" /\ r2.cached = r.cached /\ r2.from = r.from
  BY <1>1 DEF Thread
<1> HIDE DEF r2
<1>6. StackOK(r2)
  BY <1>1, <1>5 DEF StackOK
<1>7. Patched(r2) = n - 1 /\ Patched(r) = n
  BY <1>1, <1>5 DEF Patched
<1>8. FallbackOK(r2, values, installed, processWide)
  <2>1. ASSUME NEW i \in 1 .. n - 1, StrictFrame(r.frames[i]) PROVE ~values.fallbacks
    <3>0. i \in 1 .. n /\ n \in 1 .. n /\ i < n
      BY <1>3
    <3>1. CASE top.mode = "strict"
      <4>1. StrictFrame(r.frames[n])
        BY <1>1, <3>1 DEF StrictFrame
      <4>2. ~r.frames[n].fallbacks
        BY <1>1, <1>7, <2>1, <3>0, <4>1 DEF FallbackOK
      <4> QED
        BY <1>1, <1>4, <3>1, <4>2
    <3>2. CASE top.mode # "strict"
      BY <1>1, <1>4, <1>7, <2>1, <3>0, <3>2 DEF FallbackOK
    <3> QED
      BY <3>1, <3>2
  <2>2. ASSUME NEW i \in 1 .. n - 1, NEW j \in 1 .. n - 1, i < j,
               StrictFrame(r.frames[i]), StrictFrame(r.frames[j])
        PROVE  ~r.frames[j].fallbacks
    BY <1>1, <1>3, <1>7, <2>2 DEF FallbackOK
  <2>3. ASSUME processWide, installed
        PROVE  /\ ~values.fallbacks
               /\ \A i \in 1 .. n - 1 : StrictFrame(r.frames[i]) => ~r.frames[i].fallbacks
    <3>1. ~now.fallbacks /\ \A i \in 1 .. n : StrictFrame(r.frames[i]) => ~r.frames[i].fallbacks
      BY <1>1, <1>7, <2>3 DEF FallbackOK
    <3>2. top.mode = "strict" => ~top.fallbacks
      BY <1>1, <1>3, <3>1 DEF StrictFrame
    <3> QED
      BY <1>3, <1>4, <3>1, <3>2
  <2> QED
    BY <1>5, <1>7, <2>1, <2>2, <2>3 DEF FallbackOK
<1>9. ThreadOK(r2, values, installed, processWide)
  BY <1>1, <1>5, <1>6, <1>8 DEF ThreadOK, CacheOK
<1> QED
  BY <1>2, <1>4, <1>5, <1>9, ThreadStepKeeps

\* The mode ends: the context is that of the frame below.
LEMMA DeactivateKeeps ==
  ASSUME IInv, NEW t \in Threads, Deactivate(t)
  PROVE  IInv'
<1> DEFINE r == th[t]
           now == config[t]
           values == [now EXCEPT !.fx = Top(t).fx]
           p == Pop(t)
           r2 == [r EXCEPT !.pc = "idle", !.mode = ModeAfter(t), !.frames = p]
           n == Len(r.frames)
<1>1. /\ r \in Thread /\ now \in Values /\ r.frames \in Seq(Frame) /\ r.pc = "leave"
      /\ ThreadOK(r, now, installed, processWide)
      /\ StackOK(r) /\ FallbackOK(r, now, installed, processWide) /\ CacheOK(r)
      /\ r.frames # <<>> /\ Top(t) = r.frames[n] /\ ModeAfter(t) = r.frames[n].outer
  BY ThreadFacts DEF Deactivate, At, ThreadOK, StackOK, Top, ModeAfter
<1>2. RegistryOK' /\ installed' = installed /\ processWide' = processWide
      /\ Becomes(t, r2) /\ Configure(t, values)
  BY DEF Deactivate, IInv, RegistryOK, registry
<1>3. /\ n \in Nat \ {0} /\ r.frames[n] \in Frame /\ p \in Seq(Frame) /\ Len(p) = n - 1
      /\ \A i \in 1 .. n - 1 : p[i] = r.frames[i]
      /\ (p = <<>> <=> n = 1)
  BY <1>1, Popped DEF Pop
<1>4. values \in Values /\ values.fallbacks = now.fallbacks
  BY <1>1, <1>3 DEF Values, Frame
<1> HIDE DEF values, p
<1>5. /\ r2 \in Thread /\ r2.frames = p /\ r2.mode = r.frames[n].outer
      /\ r2.pc = "idle" /\ r2.cached = r.cached /\ r2.from = r.from
  BY <1>1, <1>3 DEF Thread, Frame
<1> HIDE DEF r2
<1>6. StackOK(r2)
  <2>1. r2.mode = IF p = <<>> THEN "none" ELSE p[n - 1].mode
    <3>1. n \in 1 .. n /\ (n # 1 => n - 1 \in 1 .. n - 1)
      BY <1>3
    <3>2. r.frames[n].outer = IF n = 1 THEN "none" ELSE r.frames[n - 1].mode
      BY <1>1, <3>1 DEF StackOK
    <3> QED
      BY <1>3, <1>5, <3>1, <3>2
  <2>2. ASSUME NEW i \in 1 .. n - 1
        PROVE  /\ p[i].mode # "none"
               /\ p[i].outer = IF i = 1 THEN "none" ELSE p[i - 1].mode
    <3>1. i \in 1 .. n /\ (i # 1 => i - 1 \in 1 .. n - 1)
      BY <1>3
    <3>2. /\ r.frames[i].mode # "none"
          /\ r.frames[i].outer = IF i = 1 THEN "none" ELSE r.frames[i - 1].mode
      BY <1>1, <3>1 DEF StackOK
    <3> QED
      BY <1>3, <3>1, <3>2
  <2>3. ASSUME NEW i \in 1 .. n - 1, NEW j \in 1 .. n - 1, i <= j, p[i].mode = "strict"
        PROVE  p[j].mode = "strict"
    <3>1. i \in 1 .. n /\ j \in 1 .. n
      BY <1>3
    <3> QED
      BY <1>1, <1>3, <2>3, <3>1 DEF StackOK
  <2> QED
    BY <1>3, <1>5, <2>1, <2>2, <2>3 DEF StackOK
<1>7. FallbackOK(r2, values, installed, processWide)
  <2>1. Patched(r2) = n - 1 /\ Patched(r) = n - 1
    BY <1>1, <1>3, <1>5 DEF Patched
  <2>2. \A i \in 1 .. n - 1 : r2.frames[i] = r.frames[i]
    BY <1>3, <1>5
  <2> QED
    BY <1>1, <1>4, <2>1, <2>2 DEF FallbackOK
<1>8. ThreadOK(r2, values, installed, processWide)
  BY <1>1, <1>5, <1>6, <1>7 DEF ThreadOK, CacheOK
<1> QED
  BY <1>2, <1>4, <1>5, <1>8, ThreadStepKeeps

\* A callback runs in the mode it was bound to, and in no configuration of it.
LEMMA BoundKeeps ==
  ASSUME IInv, NEW t \in Threads, RunBound(t) \/ ReturnBound(t)
  PROVE  IInv'
<1> DEFINE r == th[t]
           now == config[t]
<1>1. /\ r \in Thread /\ now \in Values /\ r.pc = "idle"
      /\ ThreadOK(r, now, installed, processWide)
      /\ FallbackOK(r, now, installed, processWide)
      /\ ~r.cached /\ r.from = "none"
  BY ThreadFacts DEF RunBound, ReturnBound, At, ThreadOK
<1>2. /\ UNCHANGED <<processWide, config, installed, slot, snapshot, disk>>
      /\ jobs' \subseteq jobs
  BY DEF RunBound, ReturnBound, registry
<1>3. RegistryOK'
  BY <1>2 DEF IInv, RegistryOK
<1>4. ASSUME NEW r2 \in Thread, Becomes(t, r2), StackOK(r2), r2.pc = "idle",
             r2.cached = r.cached, r2.from = r.from,
             \A i \in 1 .. Len(r2.frames) : ~StrictFrame(r2.frames[i]),
             r2.frames # <<>> => installed
      PROVE  IInv'
  <2>1. FallbackOK(r2, now, installed, processWide)
    BY <1>1, <1>4 DEF FallbackOK, Patched
  <2>2. ThreadOK(r2, now, installed, processWide)
    BY <1>1, <1>4, <2>1 DEF ThreadOK, CacheOK
  <2> QED
    BY <1>1, <1>2, <1>3, <1>4, <2>2, ThreadStepKeeps
<1>5. CASE RunBound(t)
  <2>1. PICK mode \in jobs : Becomes(t, [r EXCEPT !.mode = mode, !.frames =
              <<[kind |-> "bound", outer |-> "none", mode |-> mode,
                 fx |-> TRUE, backend |-> "triton", fallbacks |-> TRUE]>>])
    BY <1>5 DEF RunBound
  <2> DEFINE frame == [kind |-> "bound", outer |-> "none", mode |-> mode,
                       fx |-> TRUE, backend |-> "triton", fallbacks |-> TRUE]
             q == <<frame>>
             r2 == [r EXCEPT !.mode = mode, !.frames = q]
  <2>2. mode \in {"dev", "strict"} /\ installed
    BY DEF IInv, RegistryOK
  <2>3. frame \in Frame /\ frame.kind = "bound" /\ frame.mode = mode /\ frame.outer = "none"
    BY <2>2 DEF Frame, Modes
  <2>4. Becomes(t, r2)
    BY <2>1
  <2> HIDE DEF frame
  <2>5. q \in Seq(Frame) /\ Len(q) = 1 /\ q[1] = frame /\ q # <<>>
    BY <2>3
  <2> HIDE DEF q
  <2>6. /\ r2 \in Thread /\ r2.frames = q /\ r2.mode = mode
        /\ r2.pc = "idle" /\ r2.cached = r.cached /\ r2.from = r.from
    BY <1>1, <2>2, <2>5 DEF Thread, Modes
  <2> HIDE DEF r2
  <2>0. Len(r2.frames) = 1 /\ r2.frames[1] = frame /\ \A i \in 1 .. 1 : i = 1
    BY <2>5, <2>6
  <2>7. StackOK(r2)
    <3>1. frame.mode # "none" /\ r2.mode = frame.mode /\ r2.frames # <<>> /\ r2.pc = "idle"
      BY <2>2, <2>3, <2>5, <2>6
    <3> QED
      BY <2>0, <2>3, <3>1 DEF StackOK
  <2>8. ASSUME NEW i \in 1 .. Len(r2.frames) PROVE ~StrictFrame(r2.frames[i])
    <3>1. i = 1 /\ frame.kind # "mode"
      BY <2>0, <2>3
    <3> QED
      BY <2>0, <3>1 DEF StrictFrame
  <2> QED
    BY <1>4, <2>2, <2>4, <2>6, <2>7, <2>8
<1>6. CASE ReturnBound(t)
  <2> DEFINE none == <<>>
             r2 == [r EXCEPT !.mode = "none", !.frames = none]
  <2>0. none \in Seq(Frame) /\ Len(none) = 0 /\ none = <<>>
    OBVIOUS
  <2>2. Becomes(t, r2)
    BY <1>6 DEF ReturnBound
  <2> HIDE DEF none
  <2>1. /\ r2 \in Thread /\ r2.frames = <<>> /\ r2.mode = "none"
        /\ r2.pc = "idle" /\ r2.cached = r.cached /\ r2.from = r.from
    BY <1>1, <2>0 DEF Thread, Modes
  <2> HIDE DEF r2
  <2>3. StackOK(r2) /\ Len(r2.frames) = 0
    BY <2>0, <2>1 DEF StackOK
  <2> QED
    BY <1>4, <2>1, <2>2, <2>3
<1> QED
  BY <1>5, <1>6

-----------------------------------------------------------------------------
LEMMA InitEstablishes == Init => IInv
<1> SUFFICES ASSUME Init PROVE IInv
  OBVIOUS
<1>1. Idle \in Thread /\ Default \in Values
  BY DEF Idle, Thread, Modes, Wrappers, Default, Values
<1>2. /\ \A t \in Threads : th[t] = Idle /\ config[t] = Default
      /\ installed = FALSE
  BY DEF Init
<1>3. TypeOK /\ RegistryOK
  <2>1. /\ processWide \in BOOLEAN /\ installed = FALSE /\ slot = 0 /\ snapshot = 0
        /\ disk = {} /\ jobs = {}
        /\ config \in [Threads -> Values] /\ th \in [Threads -> Thread]
    BY <1>1 DEF Init
  <2>2. RegistryOK
    BY <2>1 DEF RegistryOK
  <2>3. installed \in BOOLEAN
    BY <2>1, Zenon
  <2>4. slot \in 0 .. 2 /\ snapshot \in 0 .. 2
    BY <2>1
  <2>5. disk \subseteq {"original", "pypto"} /\ jobs \subseteq Modes
    BY <2>1
  <2> QED
    BY <2>1, <2>2, <2>3, <2>4, <2>5, Zenon DEF TypeOK
<1>4. /\ Idle.frames = <<>> /\ Idle.mode = "none" /\ Idle.pc = "idle" /\ Idle.cached = FALSE
      /\ Idle.from = "none" /\ Len(Idle.frames) = 0
  BY DEF Idle
<1>5. ThreadOK(Idle, Default, FALSE, processWide)
  BY <1>4 DEF ThreadOK, StackOK, CacheOK, FallbackOK, Patched
<1> QED
  BY <1>2, <1>3, <1>5 DEF IInv

LEMMA NextKeeps == IInv /\ [Next]_vars => IInv'
<1> SUFFICES ASSUME IInv, [Next]_vars PROVE IInv'
  OBVIOUS
<1>1. CASE UNCHANGED vars
  BY <1>1 DEF vars, IInv, TypeOK, RegistryOK
<1> QED
  BY <1>1, EnterKeeps, UninstallKeeps, ActivateKeeps, DisableCacheKeeps, PatchKeeps,
     UnpatchKeeps, DeactivateKeeps, BoundKeeps, CompileStepsKeep DEF Next

THEOREM Invariance == Spec => []IInv
  BY InitEstablishes, NextKeeps, PTL DEF Spec

\* The registry, the configuration and the contexts keep their types.
THEOREM TypeCorrect == Spec => []TypeOK
  BY Invariance, PTL DEF IInv

\* A wrapper of the mode never gets into the FX cache, nor a compile of the
\* mode out of it, for every overlap of modes.
THEOREM CacheIsBypassed == Spec => []NeverReplayed
<1>1. IInv => NeverReplayed
  BY DEF IInv, RegistryOK, ThreadOK, CacheOK, NeverReplayed
<1> QED
  BY <1>1, Invariance, PTL

\* Inside a strict mode the current mode is strict, at every depth.
THEOREM StrictStays == Spec => []StrictNeverWeakened
<1>1. IInv => StrictNeverWeakened
  <2> SUFFICES ASSUME IInv, NEW t \in Threads, NEW i \in DOMAIN th[t].frames,
                      th[t].frames[i].mode = "strict"
               PROVE  th[t].mode = "strict"
    BY DEF StrictNeverWeakened
  <2> DEFINE q == th[t].frames
  <2>1. StackOK(th[t]) /\ q \in Seq(Frame)
    BY ThreadFacts DEF ThreadOK
  <2>2. Len(q) \in Nat /\ DOMAIN q = 1 .. Len(q)
    BY <2>1
  <2>3. i \in 1 .. Len(q) /\ Len(q) \in 1 .. Len(q) /\ i <= Len(q) /\ q # <<>>
    BY <2>2
  <2> QED
    BY <2>1, <2>3 DEF StackOK
<1> QED
  BY <1>1, Invariance, PTL

\* A compile inside a strict mode sees no implicit fallbacks.
THEOREM FallbacksStayOff == Spec => []NoImplicitFallback
<1>1. IInv => NoImplicitFallback
  <2> SUFFICES ASSUME IInv, NEW t \in Threads, At(t, "construct") \/ At(t, "done"),
                      NEW i \in DOMAIN th[t].frames, StrictFrame(th[t].frames[i])
               PROVE  ~config[t].fallbacks
    BY DEF NoImplicitFallback, StrictFrame
  <2>1. /\ FallbackOK(th[t], config[t], installed, processWide)
        /\ th[t].frames \in Seq(Frame)
    BY ThreadFacts DEF ThreadOK
  <2>2. i \in 1 .. Patched(th[t])
    BY <2>1 DEF At, Patched
  <2> QED
    BY <2>1, <2>2 DEF FallbackOK
<1> QED
  BY <1>1, Invariance, PTL

\* The dispatcher is installed once and taken off whole.
THEOREM InstallationReverts == Spec => []Reversible
<1>1. IInv => Reversible
  BY DEF IInv, RegistryOK, ThreadOK, StackOK, Reversible
<1> QED
  BY <1>1, Invariance, PTL
=============================================================================
