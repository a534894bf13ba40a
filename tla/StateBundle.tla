---------------------------- MODULE StateBundle ----------------------------
(***************************************************************************)
(* The slot-state lifecycle of the SGLang Gated DeltaNet adapter:          *)
(* PyPTOStateBundle (sglang/state_bundle.py) and the layer run of          *)
(* PyPTOGDNAttnBackend (sglang/gdn_backend.py), driven by SGLang's         *)
(* scheduler and Mamba pool, which are external.                           *)
(*                                                                         *)
(* A slot holds, per layer, a convolution history (the bundle's sidecar)   *)
(* and a recurrent state (the pool's tensor).  A new request's slot is not *)
(* zeroed by the pool: clear_slots only records that every layer owes one  *)
(* clear, and each layer pays it with two kernels launched just before its *)
(* own.  The contents are abstracted to whose tokens they summarise.       *)
(***************************************************************************)
EXTENDS Naturals, FiniteSets

CONSTANTS
    Requests,    \* requests the engine is given
    Slots,       \* usable pool slots (slot zero is reserved)
    NumLayers,   \* GDN layers, run in order 1 .. NumLayers
    StaticIds,   \* the pool publishes mamba_layer_ids
    MaxRunning,  \* --max-running-requests
    MaxTokens,   \* bound on the tokens of one request
    MaxRetracts, \* bound on retractions by the scheduler
    Diverging,   \* requests whose recurrence leaves the finite FP32 range
    LaunchFaults, \* a kernel launch may raise
    Nobody, NaN, Mixed, NoSlot

Layers == 1 .. NumLayers

ASSUME ParameterAssumption ==
    /\ IsFiniteSet(Requests)
    /\ NumLayers \in Nat \ {0}
    /\ StaticIds \in BOOLEAN /\ LaunchFaults \in BOOLEAN
    /\ MaxRunning \in Nat \ {0} /\ MaxTokens \in Nat /\ MaxRetracts \in Nat
    /\ Diverging \subseteq Requests
    /\ NoSlot \notin Slots
    /\ {Nobody, NaN, Mixed} \cap Requests = {}
    /\ Nobody # NaN /\ Nobody # Mixed /\ NaN # Mixed

VARIABLES
    phase,         \* scheduler: [Requests -> waiting | running | done]
    slotOf,        \* pool: the slot a request holds
    pos,           \* scheduler: tokens of the request already absorbed
    retracts,      \* retractions so far
    batch,         \* the forward in progress: its requests, mode, next layer
    registered,    \* bundle: layers with a sidecar (_conv_by_layer)
    clearBatch,    \* bundle: batch size in _recurrent_clear_geometry, 0 if none
    pending,       \* bundle: _pending_clear_layers
    pendingCount,  \* bundle: _pending_clear_count
    conv, rec,     \* contents of every slot, per layer
    failure        \* "none", or why the forward raised (the engine stops)

scheduler == <<phase, slotOf, pos, retracts>>
bundle == <<registered, clearBatch, pending, pendingCount>>
vars == <<phase, slotOf, pos, retracts, batch, registered, clearBatch,
          pending, pendingCount, conv, rec, failure>>

Zero == [owner |-> Nobody, n |-> 0]
Own(r, n) == [owner |-> r, n |-> n]
Content == [owner: Requests \cup {Nobody, NaN, Mixed}, n: Nat]

Idle == [mode |-> "idle", reqs |-> {}, tokens |-> 0, layer |-> 0]
Batches == {Idle} \cup
    [mode: {"extend", "decode"}, reqs: SUBSET Requests,
     tokens: Nat, layer: 1 .. NumLayers + 1]

Size == Cardinality(batch.reqs)
Running == {r \in Requests : phase[r] = "running"}
FreeSlots == Slots \ {slotOf[r] : r \in Requests}
BatchSlots == {slotOf[r] : r \in batch.reqs}

Init ==
    /\ phase = [r \in Requests |-> "waiting"]
    /\ slotOf = [r \in Requests |-> NoSlot]
    /\ pos = [r \in Requests |-> 0]
    /\ retracts = 0
    /\ batch = Idle
    /\ registered = {}
    /\ clearBatch = [l \in Layers |-> 0]
    /\ pending = {}
    /\ pendingCount = 0
    /\ conv = [l \in Layers |-> [s \in Slots |-> Zero]]
    /\ rec = [l \in Layers |-> [s \in Slots |-> Zero]]
    /\ failure = "none"

(***************************************************************************)
(* What one kernel does to a slot.  The clearing convolution feeds three   *)
(* zero tokens, which replaces the whole width-three history; the clearing *)
(* recurrence multiplies the state by exp(-inf) = 0, which is zero only    *)
(* for a finite state.  A kernel that reads anything but its own request's *)
(* state (or zero, for its first token) leaves a mixture behind.           *)
(***************************************************************************)
\* Mutant: a clear that leaves part of the history behind.
ClearConvOneToken(c) == IF c = Zero THEN Zero ELSE [owner |-> Mixed, n |-> 0]

ClearConv(c) == Zero
ClearRec(c) == IF c.owner = NaN THEN c ELSE Zero

Follows(c, r, p) == c = IF p = 0 THEN Zero ELSE Own(r, p)
StepConv(c, r, p, k) ==
    IF Follows(c, r, p) THEN Own(r, p + k) ELSE [owner |-> Mixed, n |-> 0]
StepRec(c, r, p, k) ==
    IF c.owner = NaN \/ r \in Diverging THEN [owner |-> NaN, n |-> 0]
                                        ELSE StepConv(c, r, p, k)

-----------------------------------------------------------------------------
(* The scheduler and the pool. *)

\* Mutant: only one layer is told about the clear.
ClearSlotsFirstLayer(selected) ==
    pending' = {1} /\ pendingCount' = Cardinality(selected)

\* PyPTOStateBundle.clear_slots, through the wrapped MambaPool.clear_slots:
\* the pool's own zeroing is skipped and the slot indices are not kept.
ClearSlots(selected) ==
    /\ pending' = IF StaticIds THEN Layers ELSE registered
    /\ pendingCount' = Cardinality(selected)

\* An EXTEND forward is scheduled: new requests get slots, and their deferred
\* clear is executed at the start of the forward; a request whose prompt is
\* being prefilled in chunks continues in its slot.
StartExtend(reqs, k) ==
    /\ failure = "none" /\ batch = Idle
    /\ reqs # {}
    /\ Cardinality(Running \cup reqs) <= MaxRunning
    /\ \A r \in reqs : phase[r] # "done" /\ pos[r] + k <= MaxTokens
    /\ LET new == reqs \ Running IN
       \E f \in [new -> FreeSlots] :
          /\ \A r1, r2 \in new : f[r1] = f[r2] => r1 = r2
          /\ slotOf' = [r \in Requests |-> IF r \in new THEN f[r] ELSE slotOf[r]]
          /\ IF new = {} THEN UNCHANGED <<pending, pendingCount>>
                         ELSE ClearSlots(new)
    /\ phase' = [r \in Requests |-> IF r \in reqs THEN "running" ELSE phase[r]]
    /\ batch' = [mode |-> "extend", reqs |-> reqs, tokens |-> k, layer |-> 1]
    /\ UNCHANGED <<pos, retracts, registered, clearBatch, conv, rec, failure>>

\* A DECODE forward advances every running request by one token.
StartDecode ==
    /\ failure = "none" /\ batch = Idle
    /\ Running # {}
    /\ \A r \in Running : pos[r] + 1 <= MaxTokens
    /\ batch' = [mode |-> "decode", reqs |-> Running, tokens |-> 1, layer |-> 1]
    /\ UNCHANGED <<scheduler, bundle, conv, rec, failure>>

\* The forward returned from its last layer.
EndForward ==
    /\ failure = "none" /\ batch # Idle
    /\ batch.layer = NumLayers + 1
    /\ pos' = [r \in Requests |->
                 IF r \in batch.reqs THEN pos[r] + batch.tokens ELSE pos[r]]
    /\ batch' = Idle
    /\ UNCHANGED <<phase, slotOf, retracts, bundle, conv, rec, failure>>

\* A finished request frees its slot; the contents stay behind.
Finish(r) ==
    /\ failure = "none" /\ batch = Idle
    /\ phase[r] = "running"
    /\ phase' = [phase EXCEPT ![r] = "done"]
    /\ slotOf' = [slotOf EXCEPT ![r] = NoSlot]
    /\ UNCHANGED <<pos, retracts, batch, bundle, conv, rec, failure>>

\* The scheduler takes the slot back under memory pressure; the request
\* starts over later, in whatever slot it then gets.
Retract(r) ==
    /\ failure = "none" /\ batch = Idle
    /\ phase[r] = "running"
    /\ retracts < MaxRetracts
    /\ retracts' = retracts + 1
    /\ phase' = [phase EXCEPT ![r] = "waiting"]
    /\ slotOf' = [slotOf EXCEPT ![r] = NoSlot]
    /\ pos' = [pos EXCEPT ![r] = 0]
    /\ UNCHANGED <<batch, bundle, conv, rec, failure>>

-----------------------------------------------------------------------------
(* One GDN layer of the forward: PyPTOGDNAttnBackend._run. *)

\* conv_for_layer allocates the sidecar on first use; without static layer
\* IDs a clear already requested reaches the new layer here.
PendingAfterRegister(l) ==
    IF l \notin registered /\ pendingCount # 0 /\ ~StaticIds
    THEN pending \cup {l} ELSE pending

AcceptsMode == batch.mode = "extend" => Size = 1
\* Mutant: the geometry is keyed by the rows instead of the batch size.
AcceptsSameRows(l) == clearBatch[l] \in {0, Size * batch.tokens}

AcceptsGeometry(l) == clearBatch[l] \in {0, Size}
OwesClear(l) == l \in PendingAfterRegister(l)
\* Mutant: a clear is payable only by a layer that has run before.
AcceptsClearIfKnown(l) == OwesClear(l) => Size = pendingCount /\ l \in registered

AcceptsClear(l) == OwesClear(l) => Size = pendingCount

Layer == batch.layer
InLayer == failure = "none" /\ batch # Idle /\ batch.layer <= NumLayers

\* forward_extend refuses the batch before _run touches the bundle.
RejectMode ==
    /\ InLayer /\ ~AcceptsMode
    /\ failure' = "guard"
    /\ UNCHANGED <<scheduler, batch, bundle, conv, rec>>

\* _run raises in prepare_recurrent_clear or in take_clear_payload.
RejectLayer ==
    /\ InLayer /\ AcceptsMode
    /\ ~AcceptsGeometry(Layer) \/ ~AcceptsClear(Layer)
    /\ registered' = registered \cup {Layer}
    /\ pending' = PendingAfterRegister(Layer)
    /\ clearBatch' = IF clearBatch[Layer] = 0
                     THEN [clearBatch EXCEPT ![Layer] = Size] ELSE clearBatch
    /\ failure' = "guard"
    /\ UNCHANGED <<scheduler, batch, pendingCount, conv, rec>>

\* Mutant: the debt is read but not struck off.
PeekClear(l) ==
    /\ registered' = registered \cup {l}
    /\ clearBatch' = [clearBatch EXCEPT ![l] = Size]
    /\ pending' = PendingAfterRegister(l)
    /\ UNCHANGED pendingCount

\* take_clear_payload: the layer's debt is struck off before its kernels run.
TakeClear(l) ==
    /\ registered' = registered \cup {l}
    /\ clearBatch' = [clearBatch EXCEPT ![l] = Size]
    /\ pending' = PendingAfterRegister(l) \ {l}
    /\ pendingCount' = IF OwesClear(l) /\ pending' = {} THEN 0 ELSE pendingCount

ReadyLayer == InLayer /\ AcceptsMode /\ AcceptsGeometry(Layer) /\ AcceptsClear(Layer)

\* The request whose slot s is, and what the layer's kernels leave in it: the
\* clearing kernels (if owed) and then the layer's own, all on one stream.
Holder(s) == CHOOSE r \in batch.reqs : slotOf[r] = s

ConvAfter(l, s) ==
    StepConv(IF OwesClear(l) THEN ClearConv(conv[l][s]) ELSE conv[l][s],
             Holder(s), pos[Holder(s)], batch.tokens)

RecAfter(l, s) ==
    StepRec(IF OwesClear(l) THEN ClearRec(rec[l][s]) ELSE rec[l][s],
            Holder(s), pos[Holder(s)], batch.tokens)

RunLayer ==
    /\ ReadyLayer
    /\ TakeClear(Layer)
    /\ conv' = [conv EXCEPT ![Layer] = [s \in Slots |->
                  IF s \in BatchSlots THEN ConvAfter(Layer, s) ELSE conv[Layer][s]]]
    /\ rec' = [rec EXCEPT ![Layer] = [s \in Slots |->
                  IF s \in BatchSlots THEN RecAfter(Layer, s) ELSE rec[Layer][s]]]
    /\ batch' = [batch EXCEPT !.layer = @ + 1]
    /\ UNCHANGED <<scheduler, failure>>

\* A launch raises after the debt was struck off; nothing runs afterwards.
LaunchFails ==
    /\ LaunchFaults
    /\ ReadyLayer
    /\ TakeClear(Layer)
    /\ failure' = "launch"
    /\ UNCHANGED <<scheduler, batch, conv, rec>>

-----------------------------------------------------------------------------
Forward == RunLayer \/ RejectMode \/ RejectLayer \/ LaunchFails \/ EndForward

Schedule ==
    \/ \E reqs \in SUBSET Requests, k \in 1 .. MaxTokens : StartExtend(reqs, k)
    \/ StartDecode
    \/ \E r \in Requests : Finish(r) \/ Retract(r)

Next == Schedule \/ Forward

Spec == Init /\ [][Next]_vars

\* The forward is synchronous, and the scheduler admits a waiting request
\* once no other runs and ends every request it runs.
Fairness ==
    /\ WF_vars(Forward)
    /\ \A r \in Requests :
         /\ SF_vars(StartExtend({r}, 1))
         /\ SF_vars(Finish(r))

FairSpec == Spec /\ Fairness

-----------------------------------------------------------------------------
\* The types of the scheduler's, the bundle's and the slots' state.
TypeOK ==
    /\ phase \in [Requests -> {"waiting", "running", "done"}]
    /\ slotOf \in [Requests -> Slots \cup {NoSlot}]
    /\ pos \in [Requests -> Nat]
    /\ retracts \in Nat
    /\ batch \in Batches
    /\ registered \subseteq Layers
    /\ clearBatch \in [Layers -> Nat]
    /\ pending \subseteq Layers
    /\ pendingCount \in Nat
    /\ conv \in [Layers -> [Slots -> Content]]
    /\ rec \in [Layers -> [Slots -> Content]]
    /\ failure \in {"none", "guard", "launch"}

\* Tokens of r a layer has absorbed: one step ahead once the forward passed it.
Absorbed(r, l) ==
    IF r \in batch.reqs /\ l < batch.layer THEN pos[r] + batch.tokens ELSE pos[r]

\* Every layer's state of a request is exactly the request's own tokens, in
\* both halves of the slot, whatever request held the slot before: what
\* the deferred, index-free clear of state_bundle.py has to guarantee.  Only a
\* diverging request can make a recurrent state anything else (NaN).
OwnState ==
    \A r \in Requests, l \in Layers :
        phase[r] = "running" /\ Absorbed(r, l) > 0 =>
            /\ conv[l][slotOf[r]] = Own(r, Absorbed(r, l))
            /\ \/ rec[l][slotOf[r]] = Own(r, Absorbed(r, l))
               \/ rec[l][slotOf[r]].owner = NaN /\ Diverging # {}

\* A clear never outlives the forward that carried it: were one left over,
\* the next forward of ANOTHER request would consume it and lose its state
\* (take_clear_payload matches by count, not by slot).
NoLeftoverClear ==
    batch = Idle => pending = {} /\ pendingCount = 0

\* With one running request, as the release launchers configure, no guard of
\* the bundle or the backend ever fires.
GuardsSilentAlone ==
    MaxRunning = 1 => failure # "guard"

\* "New slots are cleared before extend consumes them."
\* (docs/state_bundle_transfer_design.md): a request whose own arithmetic is
\* finite never sees a non-finite state.
ClearedBeforeUse ==
    \A r \in Requests \ Diverging, l \in Layers :
        phase[r] = "running" /\ Absorbed(r, l) > 0 =>
            rec[l][slotOf[r]].owner # NaN

\* Every request is served to the end when nothing raises from a launch.
EveryRequestServed ==
    \A r \in Requests : <>(phase[r] = "done")

-----------------------------------------------------------------------------
\* What a request can observe of the last layer's recurrent state.
Seen(r) ==
    IF /\ phase[r] = "running" /\ Absorbed(r, NumLayers) > 0
       /\ rec[NumLayers][slotOf[r]].owner = r
    THEN rec[NumLayers][slotOf[r]].n ELSE 0

Service == INSTANCE PrivateState WITH
    status <- phase,
    absorbed <- [r \in Requests |-> Seen(r)],
    accepted <- [r \in Requests |-> IF phase[r] = "running" THEN pos[r] ELSE 0]

\* The shared slots and the deferred clear implement private per-request state.
ImplementsPrivateState == Service!Spec
=============================================================================
