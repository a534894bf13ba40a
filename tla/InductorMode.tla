---------------------------- MODULE InductorMode ----------------------------
(***************************************************************************)
(* The PyPTO mode of TorchInductor: a context-local policy                 *)
(* (torch/context.py) over two things that threads share, the installation *)
(* in Inductor's CUDA slot (torch/registration.py, torch/dispatch.py) and  *)
(* the values of Inductor's configuration, which each mode saves, changes  *)
(* and writes back (torch_inductor.py).                                    *)
(*                                                                         *)
(* Whether a configuration value belongs to the process or to a thread is  *)
(* up to the installed Torch: both are checked.                            *)
(***************************************************************************)
EXTENDS Integers, Sequences

CONSTANTS
    Threads,    \* threads or tasks, each with a context of its own
    MaxFrames   \* bound on the nesting of modes

ASSUME FramesAssumption == MaxFrames \in Nat

Modes == {"none", "dev", "strict"}
Wrappers == {"python", "cpp"}   \* "cpp" stands for the C++ and the FX wrapper

\* fx_graph_cache, cuda_backend and implicit_fallbacks.
Values == [fx: BOOLEAN, backend: {"triton", "pypto"}, fallbacks: BOOLEAN]
Default == [fx |-> TRUE, backend |-> "triton", fallbacks |-> TRUE]

VARIABLES
    processWide,  \* the scope of the configuration
    config,       \* its values, as each thread sees them
    installed,    \* torch_inductor._INSTALLED and registration._installed
    slot,         \* dispatchers wrapped around the original registration
    snapshot,     \* the same of the saved registration
    disk,         \* whose wrappers the FX cache directory holds
    jobs,         \* modes captured for callbacks of worker threads
    th

vars == <<processWide, config, installed, slot, snapshot, disk, jobs, th>>
registry == <<installed, slot, snapshot>>

Idle == [pc |-> "idle", mode |-> "none", frames |-> <<>>, wish |-> "none",
         wrapper |-> "python", cached |-> FALSE, from |-> "none"]

Init ==
    /\ processWide \in BOOLEAN
    /\ config = [t \in Threads |-> Default]
    /\ installed = FALSE /\ slot = 0 /\ snapshot = 0
    /\ disk = {} /\ jobs = {}
    /\ th = [t \in Threads |-> Idle]

At(t, pc) == th[t].pc = pc
Becomes(t, r) == th' = [th EXCEPT ![t] = r]
Configure(t, values) ==
    config' = [u \in Threads |-> IF processWide \/ u = t THEN values ELSE config[u]]
Top(t) == th[t].frames[Len(th[t].frames)]
Pop(t) == SubSeq(th[t].frames, 1, Len(th[t].frames) - 1)

-----------------------------------------------------------------------------
(* Installation. *)

\* prepare_process_strict.  Mutant: only the modes themselves forbid fallbacks.
PreparedByModes(values) == values
Prepared(values) == [values EXCEPT !.fallbacks = FALSE]

\* registration.install: the class of the saved constructor is found by calling
\* it, which looks up the configured backend.  Mutant: the dispatcher is
\* wrapped around whatever the slot holds.
RegisterAgain ==
    installed' = TRUE /\ snapshot' = slot /\ slot' = IF slot < 2 THEN slot + 1 ELSE slot
Register ==
    \/ installed /\ UNCHANGED registry
    \/ ~installed /\ installed' = TRUE /\ snapshot' = slot /\ slot' = slot + 1

\* torch_inductor.mode begins with install; when that raises, no mode begins.
Enter(t, strict) ==
    LET values == IF installed THEN config[t] ELSE Prepared(config[t])
    IN  /\ At(t, "idle") /\ Len(th[t].frames) < MaxFrames
        /\ Configure(t, values)
        /\ \/ /\ installed \/ config[t].backend = "triton"
              /\ Register
              /\ Becomes(t, [th[t] EXCEPT !.pc = "activate", !.wish = strict])
           \/ /\ ~installed
              /\ UNCHANGED <<registry, th>>
        /\ UNCHANGED <<processWide, disk, jobs>>

\* Nobody uninstalls under a mode: the tests and benchmarks that do it are
\* done compiling with PyPTO.
Uninstall ==
    /\ installed /\ jobs = {}
    /\ \A t \in Threads : th[t].frames = <<>> /\ th[t].pc \notin {"activate"}
    /\ installed' = FALSE /\ slot' = snapshot /\ snapshot' = 0
    /\ UNCHANGED <<processWide, config, disk, jobs, th>>

-----------------------------------------------------------------------------
(* activate_mode and config.patch. *)

Weakens(outer, wish) == outer = "strict" /\ wish # "strict"
Effective(outer, wish) == IF outer = "strict" THEN "strict" ELSE wish

\* The frame remembers what its exit writes back.
Activate(t) ==
    LET r == th[t]
        effective == Effective(r.mode, r.wish)
        frame == [kind |-> "mode", outer |-> r.mode, mode |-> effective,
                  fx |-> config[t].fx, backend |-> "triton", fallbacks |-> TRUE]
    IN  /\ At(t, "activate")
        /\ Becomes(t, IF Weakens(r.mode, r.wish)
                        THEN [r EXCEPT !.pc = "idle", !.wish = "none"]
                        ELSE [r EXCEPT !.pc = "disable", !.mode = effective,
                                       !.wish = "none", !.frames = Append(@, frame)])
        /\ UNCHANGED <<processWide, config, registry, disk, jobs>>

DisableCache(t) ==
    /\ At(t, "disable")
    /\ Configure(t, [config[t] EXCEPT !.fx = FALSE])
    /\ Becomes(t, [th[t] EXCEPT !.pc = "patch"])
    /\ UNCHANGED <<processWide, registry, disk, jobs>>

Patch(t) ==
    LET r == th[t]  now == config[t]
        saved == [Top(t) EXCEPT !.backend = now.backend, !.fallbacks = now.fallbacks]
    IN  /\ At(t, "patch")
        /\ Becomes(t, [r EXCEPT !.pc = "idle", !.frames = Append(Pop(t), saved)])
        /\ Configure(t, [now EXCEPT !.backend = "pypto",
                           !.fallbacks = IF Top(t).mode = "strict" THEN FALSE ELSE @])
        /\ UNCHANGED <<processWide, registry, disk, jobs>>

Unpatch(t) ==
    LET frame == Top(t)
    IN  /\ At(t, "idle") /\ th[t].frames # <<>> /\ frame.kind = "mode"
        /\ Configure(t, [config[t] EXCEPT !.backend = frame.backend,
                           !.fallbacks = IF frame.mode = "strict" THEN frame.fallbacks ELSE @])
        /\ Becomes(t, [th[t] EXCEPT !.pc = "leave"])
        /\ UNCHANGED <<processWide, registry, disk, jobs>>

\* Mutant: the context is cleared instead of reset.
ModeCleared(t) == "none"
ModeAfter(t) == Top(t).outer

Deactivate(t) ==
    /\ At(t, "leave")
    /\ Configure(t, [config[t] EXCEPT !.fx = Top(t).fx])
    /\ Becomes(t, [th[t] EXCEPT !.pc = "idle", !.mode = ModeAfter(t), !.frames = Pop(t)])
    /\ UNCHANGED <<processWide, registry, disk, jobs>>

-----------------------------------------------------------------------------
(* bind_current_context: a worker runs a callback in the captured context.   *)

Bind(t) ==
    /\ At(t, "idle") /\ th[t].mode # "none"
    /\ jobs' = jobs \cup {th[t].mode}
    /\ UNCHANGED <<processWide, config, registry, disk, th>>

RunBound(t) ==
    /\ At(t, "idle") /\ th[t].frames = <<>> /\ MaxFrames > 0
    /\ \E mode \in jobs :
         /\ jobs' = jobs \ {mode}
         /\ Becomes(t, [th[t] EXCEPT !.mode = mode, !.frames =
              <<[kind |-> "bound", outer |-> "none", mode |-> mode,
                 fx |-> TRUE, backend |-> "triton", fallbacks |-> TRUE]>>])
    /\ UNCHANGED <<processWide, config, registry, disk>>

ReturnBound(t) ==
    /\ At(t, "idle") /\ th[t].frames # <<>> /\ Top(t).kind = "bound"
    /\ Becomes(t, [th[t] EXCEPT !.mode = "none", !.frames = <<>>])
    /\ UNCHANGED <<processWide, config, registry, disk, jobs>>

-----------------------------------------------------------------------------
(* A compile.  Inductor asks its cache if the flag is on and the wrapper of   *)
(* the slot can be cached, then the slot for the constructors.                *)

Selected(t, wrapper) ==
    IF slot = 0 \/ th[t].mode = "none" THEN "original"
    ELSE IF wrapper = "python" THEN "pypto" ELSE "rejected"

\* Mutant: the wrapper of the PyPTO mode inherits the cacheability.
InheritedCaching(selected) == TRUE
SupportsCaching(selected) == selected = "original"

Lookup(t, wrapper) ==
    LET selected == Selected(t, wrapper)
        cached == config[t].fx /\ SupportsCaching(selected)
        begun == [th[t] EXCEPT !.wrapper = wrapper, !.cached = cached]
    IN  /\ At(t, "idle")
        /\ \/ selected # "rejected" /\ Becomes(t, [begun EXCEPT !.pc = "construct"])
           \/ /\ cached
              /\ \E whose \in disk : Becomes(t, [begun EXCEPT !.pc = "done", !.from = whose])
        /\ UNCHANGED <<processWide, config, registry, disk, jobs>>

\* The original constructor knows the backend by its configured name.  A node
\* without a kernel raises in the mode.
Construct(t) ==
    LET selected == Selected(t, th[t].wrapper)
        works == \/ selected = "original" /\ config[t].backend = "triton"
                 \/ selected = "pypto"
    IN  /\ At(t, "construct")
        /\ \/ /\ works
              /\ Becomes(t, [th[t] EXCEPT !.pc = "done", !.from = "none"])
              /\ disk' = IF th[t].cached THEN disk \cup {selected} ELSE disk
           \/ /\ selected # "original" \/ ~works
              /\ Becomes(t, [th[t] EXCEPT !.pc = "idle", !.wrapper = "python", !.cached = FALSE])
              /\ UNCHANGED disk
        /\ UNCHANGED <<processWide, config, registry, jobs>>

Return(t) ==
    /\ At(t, "done")
    /\ Becomes(t, [th[t] EXCEPT !.pc = "idle", !.wrapper = "python",
                                !.cached = FALSE, !.from = "none"])
    /\ UNCHANGED <<processWide, config, registry, disk, jobs>>

-----------------------------------------------------------------------------
Next ==
    \/ Uninstall
    \/ \E t \in Threads :
         \/ \E strict \in {"dev", "strict"} : Enter(t, strict)
         \/ Activate(t) \/ DisableCache(t) \/ Patch(t) \/ Unpatch(t) \/ Deactivate(t)
         \/ Bind(t) \/ RunBound(t) \/ ReturnBound(t)
         \/ \E wrapper \in Wrappers : Lookup(t, wrapper)
         \/ Construct(t) \/ Return(t)

Spec == Init /\ [][Next]_vars

-----------------------------------------------------------------------------
(* Properties. *)

Frame == [kind: {"mode", "bound"}, outer: Modes, mode: Modes,
          fx: BOOLEAN, backend: {"triton", "pypto"}, fallbacks: BOOLEAN]

Thread == [pc: {"idle", "activate", "disable", "patch", "leave", "construct", "done"},
           mode: Modes, frames: Seq(Frame), wish: Modes, wrapper: Wrappers,
           cached: BOOLEAN, from: {"none", "original", "pypto"}]

\* Type invariant.
TypeOK ==
    /\ processWide \in BOOLEAN /\ installed \in BOOLEAN
    /\ config \in [Threads -> Values]
    /\ slot \in 0 .. 2 /\ snapshot \in 0 .. 2
    /\ disk \subseteq {"original", "pypto"} /\ jobs \subseteq Modes
    /\ th \in [Threads -> Thread]

\* A wrapper of the PyPTO mode never gets into the FX cache, and no compile of
\* the mode is replayed from it (registration.py:101), also when overlapping
\* modes have put the flag of the other back on.
NeverReplayed ==
    /\ "pypto" \notin disk
    /\ \A t \in Threads : th[t].from # "none" => th[t].mode = "none"

\* A thread inside a strict mode of its own compiles without implicit
\* fallbacks, whatever the modes of other threads write back meanwhile.
NoImplicitFallback ==
    \A t \in Threads :
        /\ At(t, "construct") \/ At(t, "done")
        /\ \E i \in DOMAIN th[t].frames :
             th[t].frames[i].kind = "mode" /\ th[t].frames[i].mode = "strict"
        => ~config[t].fallbacks

\* Inside a strict mode, or a callback bound to one, the current mode is
\* strict, however modes nest, fail to begin and end (context.py:44).
StrictNeverWeakened ==
    \A t \in Threads :
        (\E i \in DOMAIN th[t].frames : th[t].frames[i].mode = "strict")
          => th[t].mode = "strict"

\* The installation is one dispatcher around the original registration, and
\* without it the slot holds the original, so that a compile of the mode never
\* falls back to Triton and one outside never sees PyPTO.
Reversible ==
    /\ slot = (IF installed THEN 1 ELSE 0) /\ snapshot = 0
    /\ \A t \in Threads : th[t].mode # "none" => installed
=============================================================================
