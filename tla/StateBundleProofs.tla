------------------------- MODULE StateBundleProofs -------------------------
(***************************************************************************)
(* Proofs about StateBundle, for any number of requests, slots and layers. *)
(***************************************************************************)
EXTENDS StateBundle, FiniteSetTheorems, TLAPS

LEMMA LayersFacts == 1 \in Layers /\ Layers \subseteq Nat
  BY ParameterAssumption DEF Layers

\* The kernels keep contents well formed.
LEMMA ContentTyping ==
  ASSUME NEW c \in Content, NEW r \in Requests, NEW p \in Nat, NEW k \in Nat
  PROVE  /\ Zero \in Content
         /\ ClearConv(c) \in Content /\ ClearRec(c) \in Content
         /\ StepConv(c, r, p, k) \in Content
         /\ StepRec(c, r, p, k) \in Content
  BY DEF Content, Zero, Own, ClearConv, ClearRec, StepConv, StepRec

\* The size of a set of requests is a natural number.
LEMMA SizeTyping ==
  ASSUME NEW reqs \in SUBSET Requests
  PROVE  Cardinality(reqs) \in Nat
  BY ParameterAssumption, FS_Subset, FS_CardinalityType

\* Every variable keeps its type, whatever the constants.
THEOREM TypeCorrect == Spec => []TypeOK
  <1>1. Init => TypeOK
    BY ParameterAssumption, ContentTyping
       DEF Init, TypeOK, Idle, Batches, Content, Zero, Layers
  <1>2. TypeOK /\ [Next]_vars => TypeOK'
    <2> SUFFICES ASSUME TypeOK, [Next]_vars PROVE TypeOK'
      OBVIOUS
    <2> USE ParameterAssumption
    <2>s. Size \in Nat
      BY SizeTyping DEF TypeOK, Size, Batches, Idle
    <2>1. ASSUME NEW reqs \in SUBSET Requests, NEW k \in 1 .. MaxTokens,
                 StartExtend(reqs, k)
          PROVE TypeOK'
      <3>1. PICK f \in [reqs \ Running -> FreeSlots] :
              slotOf' = [r \in Requests |->
                           IF r \in reqs \ Running THEN f[r] ELSE slotOf[r]]
        BY <2>1 DEF StartExtend
      <3>2. slotOf' \in [Requests -> Slots \cup {NoSlot}]
        BY <3>1 DEF TypeOK, FreeSlots
      <3>3. pending' \subseteq Layers /\ pendingCount' \in Nat
        <4>1. Cardinality(reqs \ Running) \in Nat
          BY SizeTyping
        <4> QED
          BY <2>1, <4>1 DEF StartExtend, ClearSlots, TypeOK
      <3>4. batch' \in Batches
        BY <2>1 DEF StartExtend, Batches
      <3>5. phase' \in [Requests -> {"waiting", "running", "done"}]
        BY <2>1 DEF StartExtend, TypeOK
      <3> QED
        BY <2>1, <3>2, <3>3, <3>4, <3>5 DEF StartExtend, TypeOK
    <2>2. ASSUME StartDecode PROVE TypeOK'
      BY <2>2 DEF StartDecode, TypeOK, Batches, scheduler, bundle, Running
    <2>3. ASSUME NEW r \in Requests, Finish(r) PROVE TypeOK'
      BY <2>3 DEF Finish, TypeOK, bundle
    <2>4. ASSUME NEW r \in Requests, Retract(r) PROVE TypeOK'
      BY <2>4 DEF Retract, TypeOK, bundle
    <2>5. ASSUME EndForward PROVE TypeOK'
      BY <2>5 DEF EndForward, TypeOK, bundle, Idle, Batches
    <2>6. ASSUME RejectMode PROVE TypeOK'
      BY <2>6 DEF RejectMode, TypeOK, scheduler, bundle
    <2>l. InLayer => Layer \in Layers
      BY DEF InLayer, TypeOK, Layer, Layers, Idle, Batches
    <2>7. ASSUME RejectLayer PROVE TypeOK'
      BY <2>7, <2>s, <2>l
         DEF RejectLayer, TypeOK, scheduler, PendingAfterRegister
    <2>t. ASSUME ReadyLayer, TakeClear(Layer)
          PROVE /\ registered' \subseteq Layers /\ pending' \subseteq Layers
                /\ clearBatch' \in [Layers -> Nat] /\ pendingCount' \in Nat
      BY <2>t, <2>s, <2>l DEF ReadyLayer, TakeClear, TypeOK, PendingAfterRegister
    <2>8. ASSUME RunLayer PROVE TypeOK'
      <3>1. Layer \in Layers
        BY <2>8, <2>l DEF RunLayer, ReadyLayer
      <3>2. ASSUME NEW s \in BatchSlots PROVE Holder(s) \in Requests
        <4>1. PICK r \in batch.reqs : slotOf[r] = s
          BY <3>2 DEF BatchSlots
        <4>2. Holder(s) \in batch.reqs
          BY <4>1 DEF Holder
        <4> QED
          BY <4>2 DEF TypeOK, Batches, Idle
      <3>k. batch.tokens \in Nat
        BY DEF TypeOK, Batches, Idle
      <3>3. ASSUME NEW s \in Slots, s \in BatchSlots
            PROVE ConvAfter(Layer, s) \in Content /\ RecAfter(Layer, s) \in Content
        <4> DEFINE c == IF OwesClear(Layer) THEN ClearConv(conv[Layer][s])
                                            ELSE conv[Layer][s]
                   d == IF OwesClear(Layer) THEN ClearRec(rec[Layer][s])
                                            ELSE rec[Layer][s]
        <4>1. c \in Content /\ d \in Content
          <5>1. conv[Layer][s] \in Content /\ rec[Layer][s] \in Content
            BY <3>1 DEF TypeOK
          <5> QED
            BY <5>1 DEF ClearConv, ClearRec, Zero, Content
        <4>2. Holder(s) \in Requests /\ pos[Holder(s)] \in Nat
          BY <3>2, <3>3 DEF TypeOK
        <4> HIDE DEF c, d
        <4>3. /\ StepConv(c, Holder(s), pos[Holder(s)], batch.tokens) \in Content
              /\ StepRec(d, Holder(s), pos[Holder(s)], batch.tokens) \in Content
          BY <4>1, <4>2, <3>k, ContentTyping
        <4> QED
          BY <4>3 DEF c, d, ConvAfter, RecAfter
      <3>4. /\ conv' \in [Layers -> [Slots -> Content]]
            /\ rec' \in [Layers -> [Slots -> Content]]
        BY <2>8, <3>1, <3>3 DEF RunLayer, TypeOK
      <3>5. batch' \in Batches
        <4>1. batch \in [mode: {"extend", "decode"}, reqs: SUBSET Requests,
                         tokens: Nat, layer: 1 .. NumLayers + 1]
          BY <2>8 DEF RunLayer, ReadyLayer, InLayer, TypeOK, Batches
        <4>2. batch.layer + 1 \in 1 .. NumLayers + 1
          BY <2>8, <4>1 DEF RunLayer, ReadyLayer, InLayer
        <4>3. batch' = [batch EXCEPT !.layer = batch.layer + 1]
          BY <2>8 DEF RunLayer
        <4> QED
          BY <4>1, <4>2, <4>3 DEF Batches
      <3> QED
        BY <2>8, <2>t, <3>4, <3>5 DEF RunLayer, TypeOK, scheduler
    <2>9. ASSUME LaunchFails PROVE TypeOK'
      BY <2>9, <2>t DEF LaunchFails, TypeOK, scheduler
    <2>10. CASE UNCHANGED vars
      BY <2>10 DEF vars, TypeOK
    <2> QED
      BY <2>1, <2>2, <2>3, <2>4, <2>5, <2>6, <2>7, <2>8, <2>9, <2>10
         DEF Next, Schedule, Forward
  <1> QED
    BY <1>1, <1>2, PTL DEF Spec

-----------------------------------------------------------------------------
(***************************************************************************)
(* OwnState alone is not inductive: whether a kernel reads zero depends on *)
(* the debts the bundle still holds.  The strengthening says who owns a    *)
(* slot, what a forward in progress looks like, and that every layer a     *)
(* request has not reached yet is either owed a clear or was never used.   *)
(***************************************************************************)
SlotOwnership ==
    /\ \A r \in Requests : slotOf[r] # NoSlot <=> phase[r] = "running"
    /\ \A r1, r2 \in Requests :
         slotOf[r1] = slotOf[r2] /\ slotOf[r1] # NoSlot => r1 = r2

BatchShape ==
    /\ batch.reqs \subseteq Running
    /\ batch # Idle => batch.tokens > 0
    /\ failure # "none" => batch # Idle
    /\ \A r \in Requests : phase[r] = "waiting" => pos[r] = 0

\* What is owed is owed to the forward in progress, by layers it has yet to run.
DebtOfForward ==
    /\ \A l \in pending : batch # Idle /\ batch.layer <= l
    /\ pendingCount # 0 =>
         /\ batch # Idle
         /\ pending # {} \/ (batch.layer = 1 /\ ~StaticIds /\ 1 \notin registered)
    /\ pending # {} \/ pendingCount # 0 =>
         batch.mode = "extend" /\ (Size = 1 => \A r \in batch.reqs : pos[r] = 0)

\* A layer that holds no token of a request will find a zero state.
DebtCoversFresh ==
    \A r \in Requests, l \in Layers :
        phase[r] = "running" /\ Absorbed(r, l) = 0 =>
            r \in batch.reqs /\ (l \in pending \/ l \notin registered)

UnusedIsZero ==
    \A l \in Layers, s \in Slots :
        l \notin registered => conv[l][s] = Zero /\ rec[l][s] = Zero

NaNNeedsDivergence ==
    \A l \in Layers, s \in Slots : rec[l][s].owner = NaN => Diverging # {}

Debts == failure = "none" => DebtOfForward /\ DebtCoversFresh /\ UnusedIsZero

IInv == /\ TypeOK /\ SlotOwnership /\ BatchShape
        /\ Debts /\ NaNNeedsDivergence /\ OwnState

LEMMA InitIInv == Init => IInv
  <1> SUFFICES ASSUME Init PROVE IInv
    OBVIOUS
  <1>1. TypeOK
    BY ParameterAssumption DEF Init, TypeOK, Idle, Batches, Content, Zero, Layers
  <1> QED
    BY <1>1, ParameterAssumption
       DEF Init, IInv, SlotOwnership, BatchShape, Debts, DebtOfForward,
           DebtCoversFresh, UnusedIsZero, NaNNeedsDivergence, OwnState, Idle,
           Absorbed, Running, Zero

\* Requests of a singleton batch coincide.
LEMMA SingleRequest ==
  ASSUME NEW reqs \in SUBSET Requests, Cardinality(reqs) = 1,
         NEW r1 \in reqs, NEW r2 \in reqs
  PROVE  r1 = r2
  BY ParameterAssumption, FS_Subset, FS_Singleton

LEMMA StartExtendIInv ==
  ASSUME IInv, TypeOK',
         NEW reqs \in SUBSET Requests, NEW k \in 1 .. MaxTokens, StartExtend(reqs, k)
  PROVE  IInv'
  <1> USE ParameterAssumption
  <1> DEFINE new == reqs \ Running
  <1>1. PICK f \in [new -> FreeSlots] :
          /\ \A r1, r2 \in new : f[r1] = f[r2] => r1 = r2
          /\ slotOf' = [r \in Requests |-> IF r \in new THEN f[r] ELSE slotOf[r]]
    BY DEF StartExtend
  <1>2. /\ batch = Idle /\ failure = "none" /\ UNCHANGED <<pos, registered, conv, rec, failure>>
        /\ phase' = [r \in Requests |-> IF r \in reqs THEN "running" ELSE phase[r]]
        /\ batch' = [mode |-> "extend", reqs |-> reqs, tokens |-> k, layer |-> 1]
        /\ batch' # Idle
        /\ \A r \in reqs : phase[r] # "done"
    BY DEF StartExtend, Idle
  <1>3. pending = {} /\ pendingCount = 0
    BY <1>2 DEF IInv, Debts, DebtOfForward
  <1>4. \A r \in new : r \in Requests /\ phase[r] = "waiting" /\ pos[r] = 0
    BY <1>2 DEF IInv, TypeOK, BatchShape, Running
  <1>5. SlotOwnership'
    <2>1. \A r \in new : f[r] \in Slots /\ f[r] # NoSlot
                         /\ \A q \in Requests : slotOf[q] # f[r]
      BY <1>1 DEF FreeSlots
    <2>2. \A r \in Requests : slotOf'[r] = IF r \in new THEN f[r] ELSE slotOf[r]
      BY <1>1
    <2>3. \A r \in Requests : slotOf'[r] # NoSlot <=> phase'[r] = "running"
      BY <1>2, <2>1, <2>2 DEF IInv, SlotOwnership, Running, TypeOK
    <2>4. \A r1, r2 \in Requests :
            slotOf'[r1] = slotOf'[r2] /\ slotOf'[r1] # NoSlot => r1 = r2
      BY <1>1, <2>1, <2>2 DEF IInv, SlotOwnership
    <2> QED
      BY <2>3, <2>4 DEF SlotOwnership
  <1>6. BatchShape'
    BY <1>2 DEF IInv, BatchShape, Running
  <1>7. \A r \in Requests, l \in Layers : Absorbed(r, l)' = pos[r] /\ Absorbed(r, l) = pos[r]
    BY <1>2 DEF Absorbed, Layers, Idle
  <1>8. DebtOfForward'
    <2>1. CASE new = {}
      BY <1>2, <1>3, <2>1 DEF StartExtend, DebtOfForward
    <2>2. CASE new # {}
      <3>1. /\ pending' = IF StaticIds THEN Layers ELSE registered
            /\ pendingCount' = Cardinality(new)
        BY <2>2 DEF StartExtend, ClearSlots
      <3>2. \A l \in pending' : batch'.layer <= l
        BY <1>2, <3>1 DEF IInv, TypeOK, Layers
      <3>3. pending' # {} \/ (batch'.layer = 1 /\ ~StaticIds /\ 1 \notin registered')
        BY <1>2, <3>1, LayersFacts DEF Layers
      <3>4. Size' = 1 => \A r \in reqs : pos'[r] = 0
        <4> SUFFICES ASSUME Size' = 1, NEW r \in reqs PROVE pos'[r] = 0
          OBVIOUS
        <4>1. Cardinality(reqs) = 1
          BY <1>2 DEF Size
        <4>2. PICK q \in reqs : q \in new
          BY <2>2
        <4>3. r = q
          BY <4>1, SingleRequest
        <4> QED
          BY <1>2, <1>4, <4>2, <4>3
      <3> QED
        BY <1>2, <3>2, <3>3, <3>4 DEF DebtOfForward
    <2> QED
      BY <2>1, <2>2
  <1>9. DebtCoversFresh'
    <2> SUFFICES ASSUME NEW r \in Requests, NEW l \in Layers,
                        phase'[r] = "running", Absorbed(r, l)' = 0
                 PROVE  r \in reqs /\ (l \in pending' \/ l \notin registered)
      BY <1>2 DEF DebtCoversFresh
    <2>1. pos[r] = 0
      BY <1>7
    <2>2. r \notin Running
      BY <1>2, <1>7, <2>1 DEF IInv, Debts, DebtCoversFresh, Running, Idle
    <2>3. r \in new
      BY <1>2, <2>2 DEF Running
    <2>4. pending' = IF StaticIds THEN Layers ELSE registered
      BY <2>3 DEF StartExtend, ClearSlots
    <2> QED
      BY <2>3, <2>4
  <1>10. UnusedIsZero' /\ NaNNeedsDivergence'
    BY <1>2 DEF IInv, Debts, UnusedIsZero, NaNNeedsDivergence
  <1>11. OwnState'
    <2> SUFFICES ASSUME NEW r \in Requests, NEW l \in Layers,
                        phase'[r] = "running", Absorbed(r, l)' > 0
                 PROVE  /\ conv'[l][slotOf'[r]] = Own(r, Absorbed(r, l)')
                        /\ \/ rec'[l][slotOf'[r]] = Own(r, Absorbed(r, l)')
                           \/ rec'[l][slotOf'[r]].owner = NaN /\ Diverging # {}
      BY DEF OwnState, Own
    <2>1. r \notin new
      BY <1>4, <1>7
    <2>2. phase[r] = "running" /\ slotOf'[r] = slotOf[r]
      BY <1>1, <1>2, <2>1 DEF Running
    <2> QED
      BY <1>2, <1>7, <2>2 DEF IInv, OwnState
  <1> QED
    BY <1>2, <1>5, <1>6, <1>8, <1>9, <1>10, <1>11 DEF IInv, Debts

LEMMA StartDecodeIInv ==
  ASSUME IInv, TypeOK', StartDecode
  PROVE  IInv'
  <1>1. /\ batch = Idle /\ failure = "none"
        /\ UNCHANGED <<phase, slotOf, pos, registered, pending, pendingCount, conv, rec, failure>>
        /\ batch' = [mode |-> "decode", reqs |-> Running, tokens |-> 1, layer |-> 1]
    BY DEF StartDecode, scheduler, bundle
  <1>2. pending = {} /\ pendingCount = 0
    BY <1>1 DEF IInv, Debts, DebtOfForward
  <1>3. \A r \in Requests, l \in Layers : Absorbed(r, l)' = pos[r] /\ Absorbed(r, l) = pos[r]
    BY <1>1 DEF Absorbed, Layers, Idle
  <1>4. SlotOwnership' /\ BatchShape' /\ UnusedIsZero' /\ NaNNeedsDivergence'
    BY <1>1 DEF IInv, SlotOwnership, BatchShape, Running, Debts, UnusedIsZero,
                NaNNeedsDivergence
  <1>5. DebtOfForward'
    BY <1>1, <1>2 DEF DebtOfForward
  <1>6. DebtCoversFresh'
    BY <1>1, <1>3 DEF IInv, Debts, DebtCoversFresh, Idle
  <1>7. OwnState'
    BY <1>1, <1>3 DEF IInv, OwnState, Own
  <1> QED
    BY <1>4, <1>5, <1>6, <1>7 DEF IInv, Debts

LEMMA EndForwardIInv ==
  ASSUME IInv, TypeOK', EndForward
  PROVE  IInv'
  <1>1. /\ batch # Idle /\ failure = "none" /\ batch.layer = NumLayers + 1
        /\ UNCHANGED <<phase, slotOf, registered, pending, pendingCount, conv, rec, failure>>
        /\ batch' = Idle
        /\ pos' = [r \in Requests |->
                     IF r \in batch.reqs THEN pos[r] + batch.tokens ELSE pos[r]]
    BY DEF EndForward, bundle
  <1>2. pending = {} /\ pendingCount = 0
    <2>1. \A l \in pending : l \in Layers /\ batch.layer <= l
      BY <1>1 DEF IInv, TypeOK, Debts, DebtOfForward
    <2>2. pending = {}
      BY <1>1, <2>1, ParameterAssumption DEF Layers
    <2> QED
      BY <1>1, <2>2, ParameterAssumption DEF IInv, Debts, DebtOfForward
  <1>3. \A r \in Requests, l \in Layers : Absorbed(r, l)' = Absorbed(r, l)
    BY <1>1, ParameterAssumption DEF Absorbed, Layers, Idle
  <1>4. SlotOwnership' /\ UnusedIsZero' /\ NaNNeedsDivergence'
    BY <1>1 DEF IInv, SlotOwnership, Debts, UnusedIsZero, NaNNeedsDivergence
  <1>5. BatchShape'
    BY <1>1 DEF IInv, BatchShape, Running, Idle
  <1>6. DebtOfForward'
    BY <1>1, <1>2 DEF DebtOfForward
  <1>7. \A r \in Requests, l \in Layers :
          phase[r] = "running" => Absorbed(r, l) > 0
    <2> SUFFICES ASSUME NEW r \in Requests, NEW l \in Layers, phase[r] = "running"
                 PROVE  Absorbed(r, l) > 0
      OBVIOUS
    <2>1. pos[r] \in Nat /\ batch.tokens \in Nat /\ batch.tokens > 0
      BY <1>1 DEF IInv, TypeOK, BatchShape, Batches
    <2>2. CASE r \in batch.reqs
      BY <1>1, <2>1, <2>2, ParameterAssumption DEF Absorbed, Layers
    <2>3. CASE r \notin batch.reqs
      BY <1>1, <2>1, <2>3 DEF IInv, Debts, DebtCoversFresh, Absorbed
    <2> QED
      BY <2>2, <2>3
  <1>8. DebtCoversFresh'
    BY <1>1, <1>3, <1>7 DEF DebtCoversFresh
  <1>9. OwnState'
    BY <1>1, <1>3 DEF IInv, OwnState, Own
  <1> QED
    BY <1>4, <1>5, <1>6, <1>8, <1>9 DEF IInv, Debts

\* A request leaves its slot between two forwards.
LEMMA ReleaseIInv ==
  ASSUME IInv, TypeOK', NEW r \in Requests, Finish(r) \/ Retract(r)
  PROVE  IInv'
  <1>1. /\ batch = Idle /\ failure = "none" /\ phase[r] = "running"
        /\ UNCHANGED <<batch, registered, pending, pendingCount, conv, rec, failure>>
        /\ slotOf' = [slotOf EXCEPT ![r] = NoSlot]
    BY DEF Finish, Retract, bundle
  <1>2. \A q \in Requests : q # r => pos'[q] = pos[q] /\ phase'[q] = phase[q]
    BY DEF Finish, Retract, IInv, TypeOK
  <1>3. phase'[r] # "running" /\ (phase'[r] = "waiting" => pos'[r] = 0)
    BY DEF Finish, Retract, IInv, TypeOK
  <1>4. \A q \in Requests, l \in Layers : q # r => Absorbed(q, l)' = Absorbed(q, l)
    BY <1>1, <1>2 DEF Absorbed, Idle
  <1>5. SlotOwnership'
    BY <1>1, <1>2, <1>3 DEF IInv, SlotOwnership, TypeOK
  <1>6. BatchShape'
    BY <1>1, <1>2, <1>3 DEF IInv, BatchShape, Running, Idle
  <1>7. DebtOfForward'
    BY <1>1 DEF IInv, Debts, DebtOfForward, Idle
  <1>8. DebtCoversFresh'
    BY <1>1, <1>2, <1>3, <1>4 DEF IInv, Debts, DebtCoversFresh
  <1>9. UnusedIsZero' /\ NaNNeedsDivergence'
    BY <1>1 DEF IInv, Debts, UnusedIsZero, NaNNeedsDivergence
  <1>10. OwnState'
    BY <1>1, <1>2, <1>3, <1>4 DEF IInv, OwnState, Own, TypeOK
  <1> QED
    BY <1>5, <1>6, <1>7, <1>8, <1>9, <1>10 DEF IInv, Debts

\* A forward that raises changes no content and no slot; the engine stops.
LEMMA FailureIInv ==
  ASSUME IInv, TypeOK', RejectMode \/ RejectLayer \/ LaunchFails
  PROVE  IInv'
  <1>1. /\ UNCHANGED <<phase, slotOf, pos, batch, conv, rec>>
        /\ failure' # "none" /\ batch # Idle
    BY DEF RejectMode, RejectLayer, LaunchFails, ReadyLayer, InLayer, scheduler, bundle
  <1>2. \A r \in Requests, l \in Layers : Absorbed(r, l)' = Absorbed(r, l)
    BY <1>1 DEF Absorbed
  <1> QED
    BY <1>1, <1>2 DEF IInv, SlotOwnership, BatchShape, Running, Debts,
                      NaNNeedsDivergence, OwnState, Own

\* The heart of the argument: the layer's kernels read either the request's
\* own state or a zero one.
LEMMA RunLayerIInv ==
  ASSUME IInv, TypeOK', RunLayer
  PROVE  IInv'
  <1> USE ParameterAssumption
  <1>1. /\ batch # Idle /\ failure = "none" /\ batch.layer <= NumLayers
        /\ UNCHANGED <<phase, slotOf, pos, failure>>
        /\ registered' = registered \cup {Layer}
        /\ pending' = PendingAfterRegister(Layer) \ {Layer}
        /\ pendingCount' = IF OwesClear(Layer) /\ pending' = {} THEN 0 ELSE pendingCount
    BY DEF RunLayer, ReadyLayer, InLayer, TakeClear, scheduler
  <1>2. batch \in [mode: {"extend", "decode"}, reqs: SUBSET Requests,
                   tokens: Nat, layer: 1 .. NumLayers + 1]
    BY <1>1 DEF IInv, TypeOK, Batches
  <1>3. /\ Layer \in Layers /\ Layer \in Nat
        /\ batch'.layer = Layer + 1 /\ batch'.reqs = batch.reqs
        /\ batch'.tokens = batch.tokens /\ batch'.mode = batch.mode
        /\ batch' # Idle
    <2>1. batch' = [batch EXCEPT !.layer = batch.layer + 1]
      BY DEF RunLayer
    <2>2. Layer \in Layers /\ Layer \in Nat
      BY <1>1, <1>2 DEF Layer, Layers
    <2>3. /\ batch'.layer = batch.layer + 1 /\ batch'.reqs = batch.reqs
          /\ batch'.tokens = batch.tokens /\ batch'.mode = batch.mode
      BY <1>2, <2>1
    <2> QED
      BY <1>2, <2>2, <2>3 DEF Layer, Idle
  <1>4. /\ \A l \in Layers \ {Layer}, s \in Slots :
             conv'[l][s] = conv[l][s] /\ rec'[l][s] = rec[l][s]
        /\ \A s \in Slots \ BatchSlots :
             conv'[Layer][s] = conv[Layer][s] /\ rec'[Layer][s] = rec[Layer][s]
        /\ \A s \in Slots \cap BatchSlots :
             /\ conv'[Layer][s] = ConvAfter(Layer, s)
             /\ rec'[Layer][s] = RecAfter(Layer, s)
    BY <1>3 DEF RunLayer, IInv, TypeOK
  <1>5. ASSUME NEW r \in batch.reqs
        PROVE  /\ r \in Requests /\ phase[r] = "running" /\ pos[r] \in Nat
               /\ slotOf[r] \in Slots /\ slotOf[r] \in BatchSlots
               /\ Holder(slotOf[r]) = r
    <2>1. r \in Requests /\ phase[r] = "running"
      BY <1>2 DEF IInv, BatchShape, Running
    <2>2. slotOf[r] \in Slots /\ pos[r] \in Nat
      BY <2>1 DEF IInv, TypeOK, SlotOwnership
    <2>3. Holder(slotOf[r]) \in batch.reqs /\ slotOf[Holder(slotOf[r])] = slotOf[r]
      BY DEF Holder
    <2>4. Holder(slotOf[r]) = r
      BY <1>2, <2>1, <2>2, <2>3 DEF IInv, SlotOwnership
    <2> QED
      BY <2>1, <2>2, <2>4 DEF BatchSlots
  <1>6. /\ \A r \in Requests : \A l \in Layers \ {Layer} : Absorbed(r, l)' = Absorbed(r, l)
        /\ \A r \in Requests \ batch.reqs, l \in Layers :
             Absorbed(r, l)' = pos[r] /\ Absorbed(r, l) = pos[r]
        /\ \A r \in batch.reqs, l \in Layers : l = Layer =>
             Absorbed(r, l) = pos[r] /\ Absorbed(r, l)' = pos[r] + batch.tokens
    BY <1>1, <1>2, <1>3 DEF Absorbed, Layer, Layers
  <1>7. PendingAfterRegister(Layer) \subseteq pending \cup {Layer}
        /\ pending \subseteq PendingAfterRegister(Layer)
    BY DEF PendingAfterRegister
  \* A clear is owed only in a prefill of a request that holds no token yet.
  <1>8. OwesClear(Layer) => \A r \in batch.reqs : pos[r] = 0
    <2> SUFFICES ASSUME OwesClear(Layer) PROVE \A r \in batch.reqs : pos[r] = 0
      OBVIOUS
    <2>1. pending # {} \/ pendingCount # 0
      BY DEF OwesClear, PendingAfterRegister
    <2>2. batch.mode = "extend" /\ (Size = 1 => \A r \in batch.reqs : pos[r] = 0)
      BY <1>1, <2>1 DEF IInv, Debts, DebtOfForward
    <2>3. Size = 1
      BY <2>2 DEF RunLayer, ReadyLayer, AcceptsMode
    <2> QED
      BY <2>2, <2>3
  \* Without one, a request that holds no token finds an unused, zero layer.
  <1>9. ASSUME NEW r \in batch.reqs, ~OwesClear(Layer), pos[r] = 0
        PROVE  conv[Layer][slotOf[r]] = Zero /\ rec[Layer][slotOf[r]] = Zero
    <2>1. Layer \notin pending
      BY <1>7, <1>9 DEF OwesClear
    <2>2. Layer \notin registered
      BY <1>1, <1>3, <1>5, <1>6, <1>9, <2>1 DEF IInv, Debts, DebtCoversFresh
    <2> QED
      BY <1>1, <1>3, <1>5, <2>2 DEF IInv, Debts, UnusedIsZero
  <1>10. ASSUME NEW r \in batch.reqs
         PROVE  LET s == slotOf[r] IN
                /\ Follows(IF OwesClear(Layer) THEN ClearConv(conv[Layer][s])
                                               ELSE conv[Layer][s], r, pos[r])
                /\ \/ Follows(IF OwesClear(Layer) THEN ClearRec(rec[Layer][s])
                                                  ELSE rec[Layer][s], r, pos[r])
                   \/ rec[Layer][s].owner = NaN /\ Diverging # {}
    <2>1. CASE OwesClear(Layer)
      <3>1. pos[r] = 0
        BY <1>8, <2>1
      <3>2. rec[Layer][slotOf[r]].owner = NaN => Diverging # {}
        BY <1>3, <1>5 DEF IInv, NaNNeedsDivergence
      <3> QED
        BY <2>1, <3>1, <3>2 DEF Follows, ClearConv, ClearRec
    <2>2. CASE ~OwesClear(Layer) /\ pos[r] = 0
      BY <1>9, <2>2 DEF Follows
    <2>3. CASE ~OwesClear(Layer) /\ pos[r] # 0
      <3>1. pos[r] > 0 /\ Absorbed(r, Layer) = pos[r] /\ r \in Requests /\ phase[r] = "running"
        BY <1>3, <1>5, <1>6, <2>3
      <3>2. /\ conv[Layer][slotOf[r]] = Own(r, pos[r])
            /\ \/ rec[Layer][slotOf[r]] = Own(r, pos[r])
               \/ rec[Layer][slotOf[r]].owner = NaN /\ Diverging # {}
        BY <1>3, <3>1 DEF IInv, OwnState
      <3> QED
        BY <2>3, <3>2 DEF Follows
    <2> QED
      BY <2>1, <2>2, <2>3
  <1>11. ASSUME NEW r \in batch.reqs
         PROVE  LET s == slotOf[r] IN
                /\ conv'[Layer][s] = Own(r, pos[r] + batch.tokens)
                /\ \/ rec'[Layer][s] = Own(r, pos[r] + batch.tokens)
                   \/ rec'[Layer][s].owner = NaN /\ Diverging # {}
    <2>1. conv'[Layer][slotOf[r]] = ConvAfter(Layer, slotOf[r])
          /\ rec'[Layer][slotOf[r]] = RecAfter(Layer, slotOf[r])
      BY <1>4, <1>5
    <2>2. Holder(slotOf[r]) = r
      BY <1>5
    <2>3. conv'[Layer][slotOf[r]] = Own(r, pos[r] + batch.tokens)
      BY <1>10, <2>1, <2>2 DEF ConvAfter, StepConv
    <2>4. rec'[Layer][slotOf[r]] =
            StepRec(IF OwesClear(Layer) THEN ClearRec(rec[Layer][slotOf[r]])
                                        ELSE rec[Layer][slotOf[r]],
                    r, pos[r], batch.tokens)
      BY <2>1, <2>2 DEF RecAfter
    <2>5. CASE r \in Diverging \/ rec[Layer][slotOf[r]].owner = NaN
      <3>1. rec'[Layer][slotOf[r]].owner = NaN
        BY <2>4, <2>5 DEF StepRec, ClearRec
      <3>2. Diverging # {}
        BY <1>3, <1>5, <2>5 DEF IInv, NaNNeedsDivergence
      <3> QED
        BY <2>3, <3>1, <3>2
    <2>6. CASE r \notin Diverging /\ rec[Layer][slotOf[r]].owner # NaN
      <3>1. Follows(IF OwesClear(Layer) THEN ClearRec(rec[Layer][slotOf[r]])
                                        ELSE rec[Layer][slotOf[r]], r, pos[r])
        BY <1>10, <2>6
      <3>2. (IF OwesClear(Layer) THEN ClearRec(rec[Layer][slotOf[r]])
                                 ELSE rec[Layer][slotOf[r]]).owner # NaN
        BY <2>6 DEF ClearRec, Zero
      <3> QED
        BY <2>3, <2>4, <2>6, <3>1, <3>2 DEF StepRec, StepConv
    <2> QED
      BY <2>5, <2>6
  <1>12. SlotOwnership'
    BY <1>1 DEF IInv, SlotOwnership
  <1>13. BatchShape'
    BY <1>1, <1>3 DEF IInv, BatchShape, Running
  <1>14. DebtOfForward'
    <2>1. \A l \in pending' : batch'.layer <= l
      <3> SUFFICES ASSUME NEW l \in pending' PROVE batch'.layer <= l
        OBVIOUS
      <3>1. l \in pending /\ l # Layer
        BY <1>1, <1>7
      <3>2. batch.layer <= l /\ l \in Nat
        BY <1>1, <3>1 DEF IInv, TypeOK, Debts, DebtOfForward, Layers
      <3> QED
        BY <1>2, <1>3, <3>1, <3>2 DEF Layer
    <2>2. pendingCount' # 0 => pending' # {}
      <3> SUFFICES ASSUME pendingCount # 0, ~OwesClear(Layer) PROVE pending' # {}
        BY <1>1
      <3>1. pending # {} \/ (batch.layer = 1 /\ ~StaticIds /\ 1 \notin registered)
        BY <1>1 DEF IInv, Debts, DebtOfForward
      <3> QED
        BY <1>1, <1>7, <3>1 DEF OwesClear, PendingAfterRegister, Layer
    <2>3. Size' = Size
      BY <1>3 DEF Size
    <2>4. pending' # {} \/ pendingCount' # 0 => pending # {} \/ pendingCount # 0
      BY <1>1 DEF PendingAfterRegister
    <2> QED
      BY <1>1, <1>3, <2>1, <2>2, <2>3, <2>4 DEF IInv, Debts, DebtOfForward
  <1>15. DebtCoversFresh'
    <2> SUFFICES ASSUME NEW r \in Requests, NEW l \in Layers,
                        phase[r] = "running", Absorbed(r, l)' = 0
                 PROVE  r \in batch.reqs /\ (l \in pending' \/ l \notin registered')
      BY <1>1, <1>3 DEF DebtCoversFresh
    <2>1. CASE l = Layer /\ r \in batch.reqs
      <3>1. pos[r] + batch.tokens = 0
        BY <1>6, <2>1
      <3> QED
        BY <1>1, <1>2, <1>5, <2>1, <3>1 DEF IInv, BatchShape
    <2>2. CASE l # Layer \/ r \notin batch.reqs
      <3>1. Absorbed(r, l) = 0
        BY <1>6, <2>2
      <3>2. r \in batch.reqs /\ (l \in pending \/ l \notin registered)
        BY <1>1, <3>1 DEF IInv, Debts, DebtCoversFresh
      <3> QED
        BY <1>1, <1>7, <2>2, <3>2
    <2> QED
      BY <2>1, <2>2
  <1>16. UnusedIsZero'
    <2>1. UnusedIsZero
      BY <1>1 DEF IInv, Debts
    <2> SUFFICES ASSUME NEW l \in Layers, NEW s \in Slots, l \notin registered'
                 PROVE  conv'[l][s] = Zero /\ rec'[l][s] = Zero
      BY DEF UnusedIsZero, Zero
    <2>2. l # Layer /\ l \notin registered
      BY <1>1
    <2>3. conv'[l][s] = conv[l][s] /\ rec'[l][s] = rec[l][s]
      BY <1>4, <2>2
    <2> QED
      BY <2>1, <2>2, <2>3 DEF UnusedIsZero
  <1>17. NaNNeedsDivergence'
    <2> SUFFICES ASSUME NEW l \in Layers, NEW s \in Slots, rec'[l][s].owner = NaN
                 PROVE  Diverging # {}
      BY DEF NaNNeedsDivergence
    <2>1. CASE l = Layer /\ s \in BatchSlots
      <3>1. PICK r \in batch.reqs : slotOf[r] = s
        BY <2>1 DEF BatchSlots
      <3>2. r \in Requests /\ r # NaN
        BY <1>5
      <3>3. rec'[Layer][s] = Own(r, pos[r] + batch.tokens) \/ Diverging # {}
        BY <1>11, <3>1
      <3> QED
        BY <2>1, <3>2, <3>3 DEF Own
    <2>2. CASE l # Layer \/ s \notin BatchSlots
      BY <1>4, <2>2 DEF IInv, NaNNeedsDivergence
    <2> QED
      BY <2>1, <2>2
  <1>18. OwnState'
    <2> SUFFICES ASSUME NEW r \in Requests, NEW l \in Layers,
                        phase[r] = "running", Absorbed(r, l)' > 0
                 PROVE  /\ conv'[l][slotOf[r]] = Own(r, Absorbed(r, l)')
                        /\ \/ rec'[l][slotOf[r]] = Own(r, Absorbed(r, l)')
                           \/ rec'[l][slotOf[r]].owner = NaN /\ Diverging # {}
      BY <1>1 DEF OwnState, Own
    <2>1. CASE l = Layer /\ r \in batch.reqs
      BY <1>6, <1>11, <2>1
    <2>2. CASE l # Layer \/ r \notin batch.reqs
      <3>1. Absorbed(r, l)' = Absorbed(r, l)
        BY <1>6, <2>2
      <3>2. slotOf[r] \in Slots
        BY DEF IInv, TypeOK, SlotOwnership
      <3>3. r \notin batch.reqs => slotOf[r] \notin BatchSlots
        BY <1>2, <3>2 DEF BatchSlots, IInv, SlotOwnership, TypeOK
      <3>4. conv'[l][slotOf[r]] = conv[l][slotOf[r]] /\ rec'[l][slotOf[r]] = rec[l][slotOf[r]]
        BY <1>4, <2>2, <3>2, <3>3
      <3> QED
        BY <3>1, <3>4 DEF IInv, OwnState
    <2> QED
      BY <2>1, <2>2
  <1> QED
    BY <1>12, <1>13, <1>14, <1>15, <1>16, <1>17, <1>18 DEF IInv, Debts

LEMMA StutterIInv ==
  ASSUME IInv, UNCHANGED vars
  PROVE  IInv'
  BY DEF IInv, vars, TypeOK, SlotOwnership, BatchShape, Running, Debts, DebtOfForward,
         DebtCoversFresh, UnusedIsZero, NaNNeedsDivergence, OwnState, Own, Absorbed, Size

LEMMA Inductive == Spec => []IInv
  <1>1. IInv /\ TypeOK' /\ [Next]_vars => IInv'
    BY StartExtendIInv, StartDecodeIInv, EndForwardIInv, ReleaseIInv, FailureIInv,
       RunLayerIInv, StutterIInv DEF Next, Schedule, Forward
  <1> QED
    BY InitIInv, <1>1, TypeCorrect, PTL DEF Spec

\* For any number of requests, slots, layers and running requests, a request's
\* state is exactly its own tokens, in every layer and both halves of its slot.
THEOREM StateIsOwn == Spec => []OwnState
  <1>1. IInv => OwnState
    BY DEF IInv
  <1> QED
    BY <1>1, Inductive, PTL

\* No clear survives the forward it was requested for, so none is ever
\* consumed by another request's forward.
THEOREM ClearsAreConsumed == Spec => []NoLeftoverClear
  <1>1. IInv => NoLeftoverClear
    BY DEF IInv, BatchShape, Debts, DebtOfForward, NoLeftoverClear
  <1> QED
    BY <1>1, Inductive, PTL

-----------------------------------------------------------------------------
(* The shared slots implement PrivateState. *)

\* A forward takes in at most as many tokens as a request may have.
BoundedForward == batch # Idle => batch.tokens \in 1 .. MaxTokens

LEMMA BoundedSteps == IInv /\ BoundedForward /\ [Next]_vars => BoundedForward'
  <1> SUFFICES ASSUME IInv, BoundedForward, [Next]_vars PROVE BoundedForward'
    OBVIOUS
  <1>1. ASSUME NEW reqs \in SUBSET Requests, NEW k \in 1 .. MaxTokens,
               StartExtend(reqs, k)
        PROVE  BoundedForward'
    BY <1>1 DEF StartExtend, BoundedForward
  <1>2. ASSUME StartDecode PROVE BoundedForward'
    <2>1. PICK r \in Running : pos[r] + 1 <= MaxTokens
      BY <1>2 DEF StartDecode
    <2>2. pos[r] \in Nat
      BY <2>1 DEF IInv, TypeOK, Running
    <2> QED
      BY <1>2, <2>1, <2>2, ParameterAssumption DEF StartDecode, BoundedForward
  <1>3. ASSUME RunLayer PROVE BoundedForward'
    BY <1>3 DEF RunLayer, ReadyLayer, InLayer, BoundedForward, IInv, TypeOK,
       Batches
  <1>4. CASE EndForward
    BY <1>4 DEF EndForward, BoundedForward
  <1>5. CASE \/ RejectMode \/ RejectLayer \/ LaunchFails \/ UNCHANGED vars
             \/ \E r \in Requests : Finish(r) \/ Retract(r)
    BY <1>5 DEF RejectMode, RejectLayer, LaunchFails, Finish, Retract, vars,
       BoundedForward
  <1> QED
    BY <1>1, <1>2, <1>3, <1>4, <1>5 DEF Next, Schedule, Forward

SeenIsAbsorbed ==
    \A r \in Requests :
        /\ Seen(r) = IF phase[r] = "running" THEN Absorbed(r, NumLayers) ELSE 0
        /\ Absorbed(r, NumLayers) \in Nat

\* Without a diverging request the last layer shows exactly what was absorbed.
LEMMA SeenFacts == IInv /\ Diverging = {} => SeenIsAbsorbed
  <1> SUFFICES ASSUME IInv, Diverging = {}, NEW r \in Requests
               PROVE  /\ Seen(r) = IF phase[r] = "running" THEN Absorbed(r, NumLayers) ELSE 0
                      /\ Absorbed(r, NumLayers) \in Nat
    BY DEF SeenIsAbsorbed
  <1>1. Absorbed(r, NumLayers) \in Nat
    BY DEF IInv, TypeOK, Batches, Idle, Absorbed
  <1>2. NumLayers \in Layers
    BY ParameterAssumption DEF Layers
  <1>3. ASSUME phase[r] = "running", Absorbed(r, NumLayers) > 0
        PROVE  /\ rec[NumLayers][slotOf[r]].owner = r
               /\ rec[NumLayers][slotOf[r]].n = Absorbed(r, NumLayers)
    <2>1. rec[NumLayers][slotOf[r]] = Own(r, Absorbed(r, NumLayers))
      BY <1>2, <1>3 DEF IInv, OwnState
    <2> HIDE DEF Absorbed
    <2> QED
      BY <2>1 DEF Own
  <1> HIDE DEF Absorbed
  <1> QED
    BY <1>1, <1>3 DEF Seen

\* Each step of the engine is a step of the service, or none.
LEMMA ServiceStep ==
  ASSUME IInv, IInv', BoundedForward, Diverging = {}, [Next]_vars
  PROVE  [Service!Next]_Service!svars
  <1> USE ParameterAssumption
  <1> DEFINE A(r) == IF r \in batch.reqs /\ NumLayers < batch.layer
                     THEN pos[r] + batch.tokens ELSE pos[r]
             S(r) == IF phase[r] = "running" THEN A(r) ELSE 0
             G(r) == IF phase[r] = "running" THEN pos[r] ELSE 0
  <1>a. \A r \in Requests : Seen(r) = S(r)
    BY SeenFacts DEF SeenIsAbsorbed, Absorbed
  <1>b. \A r \in Requests : Seen(r)' = S(r)'
    <2>1. SeenIsAbsorbed'
      BY SeenFacts, PTL
    <2> QED
      BY <2>1 DEF SeenIsAbsorbed, Absorbed
  <1>c. /\ phase \in [Requests -> {"waiting", "running", "done"}]
        /\ pos \in [Requests -> Nat] /\ batch.reqs \subseteq Running
        /\ \A r \in Requests : phase[r] = "waiting" => pos[r] = 0
        /\ batch \in Batches
    BY DEF IInv, TypeOK, BatchShape
  <1>i. batch = Idle => batch.reqs = {} /\ batch.layer = 0
    BY DEF Idle
  <1>x. ASSUME phase' = phase, \A r \in Requests : S(r)' = S(r) /\ G(r)' = G(r)
        PROVE  UNCHANGED Service!svars
    BY <1>a, <1>b, <1>x DEF Service!svars
  <1>1. ASSUME NEW reqs \in SUBSET Requests, NEW k \in 1 .. MaxTokens,
               StartExtend(reqs, k)
        PROVE  Service!Admit(reqs \ Running)
    <2>1. /\ batch = Idle /\ pos' = pos /\ batch'.layer = 1
          /\ phase' = [r \in Requests |-> IF r \in reqs THEN "running" ELSE phase[r]]
          /\ \A r \in reqs : phase[r] # "done"
      BY <1>1 DEF StartExtend
    <2>2. \A r \in reqs \ Running : phase[r] = "waiting" /\ pos[r] = 0
      BY <2>1, <1>c DEF Running
    <2>3. \A r \in Requests : S(r)' = S(r) /\ G(r)' = G(r)
      BY <2>1, <2>2, <1>c, <1>i DEF Running
    <2>4. phase' = [r \in Requests |->
                      IF r \in reqs \ Running THEN "running" ELSE phase[r]]
      BY <2>1 DEF Running
    <2> QED
      BY <1>a, <1>b, <2>2, <2>3, <2>4 DEF Service!Admit
  <1>2. ASSUME StartDecode PROVE UNCHANGED Service!svars
    <2>1. /\ batch = Idle /\ pos' = pos /\ phase' = phase /\ batch'.layer = 1
      BY <1>2 DEF StartDecode, scheduler
    <2> QED
      BY <2>1, <1>i, <1>x
  <1>3. ASSUME EndForward, NEW reqs, reqs = batch.reqs PROVE Service!Accept(reqs)
    <2>1. /\ batch # Idle /\ batch.layer = NumLayers + 1 /\ batch' = Idle
          /\ pos' = [r \in Requests |->
                       IF r \in batch.reqs THEN pos[r] + batch.tokens ELSE pos[r]]
          /\ phase' = phase
      BY <1>3 DEF EndForward
    <2>2. batch'.reqs = {}
      BY <2>1 DEF Idle
    <2>3. \A r \in Requests : S(r)' = S(r)
      BY <2>1, <2>2
    <2>4. \A r \in Requests : G(r)' = IF r \in reqs THEN S(r) ELSE G(r)
      BY <2>1, <1>c, <1>3 DEF Running
    <2> QED
      BY <1>a, <1>b, <2>1, <2>3, <2>4 DEF Service!Accept
  <1>4. ASSUME RunLayer PROVE [Service!Next]_Service!svars
    <2>1. /\ batch # Idle /\ batch.layer \in 1 .. NumLayers
          /\ batch' = [batch EXCEPT !.layer = @ + 1]
          /\ pos' = pos /\ phase' = phase
      BY <1>4, <1>c DEF RunLayer, ReadyLayer, InLayer, scheduler, Batches
    <2>2. /\ batch'.layer = batch.layer + 1 /\ batch'.reqs = batch.reqs
          /\ batch'.tokens = batch.tokens
      BY <2>1, <1>c DEF Batches
    <2>3. CASE batch.layer < NumLayers
      BY <2>1, <2>2, <2>3, <1>x
    <2>4. CASE batch.layer = NumLayers
      <3>1. batch.tokens \in 1 .. MaxTokens
        BY <2>1 DEF BoundedForward
      <3>2. \A r \in Requests :
              /\ S(r)' = IF r \in batch.reqs THEN S(r) + batch.tokens ELSE S(r)
              /\ G(r)' = G(r)
              /\ r \in batch.reqs => phase[r] = "running" /\ G(r) = S(r)
        BY <2>1, <2>2, <2>4, <1>c DEF Running
      <3>3. Service!Absorb(batch.reqs, batch.tokens)
        BY <1>a, <1>b, <2>1, <3>2, <1>c DEF Service!Absorb, Running
      <3>4. batch.reqs \in SUBSET Requests
        BY <1>c DEF Running
      <3> QED
        BY <3>1, <3>3, <3>4 DEF Service!Next
    <2> QED
      BY <2>1, <2>3, <2>4
  <1>5. ASSUME NEW q \in Requests, NEW outcome \in {"waiting", "done"},
               batch = Idle, batch' = batch, phase[q] = "running",
               phase' = [phase EXCEPT ![q] = outcome],
               \A r \in Requests \ {q} : pos'[r] = pos[r]
        PROVE  Service!Release(q, outcome)
    <2>2. \A r \in Requests :
            /\ S(r)' = IF r = q THEN 0 ELSE S(r)
            /\ G(r)' = IF r = q THEN 0 ELSE G(r)
      BY <1>5, <1>c, <1>i
    <2>3. G(q) = S(q)
      BY <1>5, <1>i
    <2> QED
      BY <1>a, <1>b, <1>5, <2>2, <2>3 DEF Service!Release
  <1>6. ASSUME RejectMode \/ RejectLayer \/ LaunchFails \/ UNCHANGED vars
        PROVE  UNCHANGED Service!svars
    <2>1. batch' = batch /\ pos' = pos /\ phase' = phase
      BY <1>6 DEF RejectMode, RejectLayer, LaunchFails, scheduler, vars
    <2> QED
      BY <2>1, <1>x
  <1>7. ASSUME NEW r \in Requests, Finish(r) PROVE Service!Release(r, "done")
    BY <1>5, <1>7 DEF Finish
  <1>8. ASSUME NEW r \in Requests, Retract(r) PROVE Service!Release(r, "waiting")
    BY <1>5, <1>8, <1>c DEF Retract
  <1>9. batch.reqs \in SUBSET Requests
    BY <1>c DEF Running
  <1> HIDE DEF A, S, G
  <1>10. ASSUME NEW reqs \in SUBSET Requests, NEW k \in 1 .. MaxTokens,
                StartExtend(reqs, k)
         PROVE  Service!Next
    <2>1. reqs \ Running \in SUBSET Requests
      OBVIOUS
    <2> QED
      BY <1>1, <1>10, <2>1 DEF Service!Next
  <1>11. ASSUME EndForward PROVE Service!Next
    <2>1. PICK reqs \in SUBSET Requests : reqs = batch.reqs
      BY <1>9
    <2>2. \E q \in SUBSET Requests : Service!Accept(q)
      BY <1>3, <1>11, <2>1
    <2> QED
      BY <2>2, Zenon DEF Service!Next
  <1>12. \A r \in Requests : Finish(r) \/ Retract(r) => Service!Next
    BY <1>7, <1>8 DEF Service!Next
  <1> QED
    BY <1>2, <1>4, <1>6, <1>10, <1>11, <1>12 DEF Next, Schedule, Forward

\* Whoever shares the slots, and however clears are deferred, each request is
\* served from a private state that began at zero.
THEOREM ServiceIsPrivate ==
  ASSUME Diverging = {}
  PROVE  Spec => ImplementsPrivateState
  <1>1. Init => Service!Init
    BY ParameterAssumption DEF Init, Service!Init, Seen
  <1>2. Init => BoundedForward
    BY DEF Init, BoundedForward
  <1>3. IInv /\ IInv' /\ BoundedForward /\ [Next]_vars => [Service!Next]_Service!svars
    BY ServiceStep
  <1> QED
    BY <1>1, <1>2, <1>3, BoundedSteps, Inductive, PTL
       DEF Spec, ImplementsPrivateState, Service!Spec

-----------------------------------------------------------------------------
(* One running request at a time. *)

\* Everything counts to one: the requests running, a forward's batch, the
\* geometry a layer remembers, and a clear that is owed.
AloneOK ==
    /\ failure # "guard"
    /\ Cardinality(Running) <= 1
    /\ batch # Idle => Size = 1
    /\ \A l \in Layers : clearBatch[l] \in {0, 1}
    /\ pendingCount \in {0, 1}
    /\ pending # {} => pendingCount = 1

\* A part of at most one request is none or one.
LEMMA AtMostOne ==
  ASSUME NEW S \in SUBSET Requests, NEW T \in SUBSET S, Cardinality(S) <= 1
  PROVE  /\ Cardinality(T) \in {0, 1}
         /\ T # {} => Cardinality(T) = 1
  <1>1. IsFiniteSet(S) /\ IsFiniteSet(T)
    BY ParameterAssumption, FS_Subset
  <1>2. Cardinality(T) <= Cardinality(S) /\ Cardinality(T) \in Nat /\ Cardinality(S) \in Nat
    BY <1>1, FS_Subset, FS_CardinalityType
  <1>3. T # {} => Cardinality(T) # 0
    BY <1>1, FS_EmptySet
  <1> QED
    BY <1>2, <1>3

LEMMA AloneSteps ==
  ASSUME MaxRunning = 1, IInv, AloneOK, [Next]_vars
  PROVE  AloneOK'
  <1> USE ParameterAssumption
  <1>r. Running \subseteq Requests
    BY DEF Running
  <1>l. InLayer => Layer \in Layers
    BY DEF InLayer, IInv, TypeOK, Layer, Layers, Idle, Batches
  <1>1. ASSUME NEW reqs \in SUBSET Requests, NEW k \in 1 .. MaxTokens,
               StartExtend(reqs, k)
        PROVE  AloneOK'
    <2>1. /\ batch'.reqs = reqs /\ reqs # {} /\ Cardinality(Running \cup reqs) <= 1
          /\ failure' = failure /\ clearBatch' = clearBatch
      BY <1>1 DEF StartExtend
    <2>2. Running' = Running \cup reqs
      BY <1>1 DEF StartExtend, Running
    <2>3. Cardinality(reqs) = 1
      BY <2>1, <1>r, AtMostOne
    <2>4. \/ pending' = pending /\ pendingCount' = pendingCount
          \/ pendingCount' = 1
      <3>1. CASE reqs \ Running = {}
        BY <1>1, <3>1 DEF StartExtend
      <3>2. CASE reqs \ Running # {}
        <4>1. Cardinality(reqs \ Running) = 1
          BY <2>1, <3>2, <1>r, AtMostOne
        <4> QED
          BY <1>1, <3>2, <4>1 DEF StartExtend, ClearSlots
      <3> QED
        BY <3>1, <3>2
    <2> QED
      BY <2>1, <2>2, <2>3, <2>4 DEF AloneOK, Size
  <1>2. CASE StartDecode
    <2>1. /\ batch'.reqs = Running /\ Running # {} /\ Running' = Running
          /\ UNCHANGED <<failure, clearBatch, pending, pendingCount>>
      BY <1>2 DEF StartDecode, scheduler, bundle, Running
    <2>2. Cardinality(Running) = 1
      BY <2>1, <1>r, AtMostOne DEF AloneOK
    <2> QED
      BY <2>1, <2>2 DEF AloneOK, Size
  <1>3. CASE EndForward \/ UNCHANGED vars
    BY <1>3 DEF EndForward, bundle, vars, AloneOK, Size, Running
  <1>4. CASE \E r \in Requests : Finish(r) \/ Retract(r)
    <2>1. Running' \subseteq Running
      BY <1>4 DEF Finish, Retract, Running, IInv, TypeOK
    <2>2. Cardinality(Running') <= 1
      BY <2>1, <1>r, AtMostOne DEF AloneOK
    <2> QED
      BY <1>4, <2>2 DEF Finish, Retract, bundle, AloneOK, Size
  <1>5. InLayer => AcceptsMode /\ AcceptsGeometry(Layer) /\ AcceptsClear(Layer)
    BY <1>l DEF InLayer, AloneOK, AcceptsMode, AcceptsGeometry, AcceptsClear,
       OwesClear, PendingAfterRegister
  <1>6. CASE RejectMode \/ RejectLayer
    BY <1>5, <1>6 DEF RejectMode, RejectLayer
  <1>7. ASSUME ReadyLayer, TakeClear(Layer)
        PROVE  /\ \A l \in Layers : clearBatch'[l] \in {0, 1}
               /\ pendingCount' \in {0, 1}
               /\ pending' # {} => pendingCount' = 1
    <2>1. Size = 1 /\ Layer \in Layers
      BY <1>7, <1>l DEF ReadyLayer, InLayer, AloneOK
    <2>2. clearBatch' = [clearBatch EXCEPT ![Layer] = 1]
      BY <1>7, <2>1 DEF TakeClear
    <2>3. pending' \subseteq pending
      BY <1>7 DEF TakeClear, PendingAfterRegister
    <2> QED
      BY <1>7, <2>1, <2>2, <2>3 DEF TakeClear, AloneOK, IInv, TypeOK
  <1>8. CASE RunLayer
    <2>1. batch'.reqs = batch.reqs
      BY <1>8 DEF RunLayer, ReadyLayer, InLayer, IInv, TypeOK, Batches
    <2> QED
      BY <1>7, <1>8, <2>1 DEF RunLayer, ReadyLayer, InLayer, scheduler, AloneOK,
         Size, Running
  <1>9. CASE LaunchFails
    BY <1>7, <1>9 DEF LaunchFails, scheduler, AloneOK, Size, Running
  <1> QED
    BY <1>1, <1>2, <1>3, <1>4, <1>6, <1>8, <1>9 DEF Next, Schedule, Forward

\* With one running request no guard ever fires, whatever the layers are that
\* owe a clear and whenever they are discovered.
THEOREM AloneNeverGuarded == Spec => []GuardsSilentAlone
  <1>1. MaxRunning = 1 /\ Init => AloneOK
    <2> SUFFICES ASSUME MaxRunning = 1, Init PROVE AloneOK
      OBVIOUS
    <2>1. Running = {}
      BY DEF Init, Running
    <2> QED
      BY <2>1, FS_EmptySet DEF Init, AloneOK
  <1>2. MaxRunning = 1 /\ IInv /\ AloneOK /\ [Next]_vars => AloneOK'
    BY AloneSteps
  <1>3. (MaxRunning = 1 => AloneOK) => GuardsSilentAlone
    BY DEF AloneOK, GuardsSilentAlone
  <1>4. Init => (MaxRunning = 1 => AloneOK)
    BY <1>1
  <1>5. IInv /\ (MaxRunning = 1 => AloneOK) /\ [Next]_vars => (MaxRunning = 1 => AloneOK)'
    BY <1>2
  <1> QED
    BY <1>3, <1>4, <1>5, Inductive, PTL DEF Spec

-----------------------------------------------------------------------------
(* What the clear cannot undo, and how far it spreads. *)

\* The slots of the diverging requests that a forward is running.
Poisoning == {slotOf[r] : r \in batch.reqs \cap Diverging}

\* A recurrent state stops being finite only while a diverging request holds
\* the slot, and never becomes finite again.
PoisonIsConfined ==
    [][\A l \in Layers, s \in Slots :
         /\ rec[l][s].owner = NaN => rec'[l][s].owner = NaN
         /\ rec[l][s].owner # NaN /\ rec'[l][s].owner = NaN => s \in Poisoning]_vars

\* A kernel leaves NaN where it found NaN, or for a diverging request; the
\* clearing kernel neither makes it nor removes it.
LEMMA NaNOfKernels ==
  ASSUME NEW c \in Content, NEW r \in Requests, NEW p, NEW k
  PROVE  /\ ClearRec(c).owner = NaN <=> c.owner = NaN
         /\ StepRec(c, r, p, k).owner = NaN <=> c.owner = NaN \/ r \in Diverging
  BY ParameterAssumption DEF ClearRec, StepRec, StepConv, Own, Zero

\* What the launches of one layer leave in one slot.
LEMMA NaNOfLayer ==
  ASSUME IInv, RunLayer, NEW s \in Slots, s \in BatchSlots
  PROVE  RecAfter(Layer, s).owner = NaN <=>
           rec[Layer][s].owner = NaN \/ s \in Poisoning
  <1>1. Layer \in Layers
    BY DEF RunLayer, ReadyLayer, InLayer, IInv, TypeOK, Layer, Layers, Idle, Batches
  <1>2. rec[Layer][s] \in Content
    BY <1>1 DEF IInv, TypeOK
  <1>3. PICK r \in batch.reqs : slotOf[r] = s
    BY DEF BatchSlots
  <1>4. batch.reqs \subseteq Requests
    BY DEF IInv, BatchShape, Running
  <1>5. Holder(s) \in batch.reqs /\ slotOf[Holder(s)] = s
    BY <1>3 DEF Holder
  <1>6. \A q \in batch.reqs : slotOf[q] = s => q = Holder(s)
    BY <1>4, <1>5, ParameterAssumption DEF IInv, SlotOwnership
  <1>7. s \in Poisoning <=> Holder(s) \in Diverging
    BY <1>5, <1>6 DEF Poisoning
  <1> DEFINE d == IF OwesClear(Layer) THEN ClearRec(rec[Layer][s]) ELSE rec[Layer][s]
  <1>8. d \in Content /\ (d.owner = NaN <=> rec[Layer][s].owner = NaN)
    BY <1>2, <1>4, <1>5, NaNOfKernels, ParameterAssumption DEF ClearRec, Zero, Content
  <1>9. RecAfter(Layer, s) = StepRec(d, Holder(s), pos[Holder(s)], batch.tokens)
    BY DEF RecAfter
  <1> HIDE DEF d
  <1> QED
    BY <1>4, <1>5, <1>7, <1>8, <1>9, NaNOfKernels

\* The index-free clear is no remedy for a state that is no longer finite, but
\* it is not a way for it to spread either: only the slot of a diverging
\* request is lost, in the forward of that request, and it is lost for good.
THEOREM OnlyDivergencePoisons == Spec => PoisonIsConfined
  <1>1. ASSUME IInv, [Next]_vars, NEW l \in Layers, NEW s \in Slots
        PROVE  /\ rec[l][s].owner = NaN => rec'[l][s].owner = NaN
               /\ rec[l][s].owner # NaN /\ rec'[l][s].owner = NaN => s \in Poisoning
    <2>1. CASE RunLayer
      <3>1. rec \in [Layers -> [Slots -> Content]]
        BY <1>1 DEF IInv, TypeOK
      <3>2. rec'[l][s] = IF l = Layer /\ s \in BatchSlots THEN RecAfter(Layer, s)
                                                         ELSE rec[l][s]
        BY <2>1, <3>1 DEF RunLayer
      <3> QED
        BY <1>1, <2>1, <3>2, NaNOfLayer
    <2>2. CASE rec' = rec
      BY <2>2
    <2>3. ~RunLayer => rec' = rec
      BY <1>1 DEF Next, Schedule, Forward, StartExtend, StartDecode, Finish, Retract,
         RejectMode, RejectLayer, LaunchFails, EndForward, vars
    <2> QED
      BY <2>1, <2>2, <2>3
  <1>2. IInv /\ [Next]_vars =>
          [\A l \in Layers, s \in Slots :
             /\ rec[l][s].owner = NaN => rec'[l][s].owner = NaN
             /\ rec[l][s].owner # NaN /\ rec'[l][s].owner = NaN => s \in Poisoning]_vars
    BY <1>1
  <1> QED
    BY <1>2, Inductive, PTL DEF Spec, PoisonIsConfined

\* Where no request diverges, the design document is right: nobody reads a
\* state that is not finite.
THEOREM FiniteIsCleared ==
  ASSUME Diverging = {}
  PROVE  Spec => []ClearedBeforeUse
  <1>1. IInv => ClearedBeforeUse
    <2> SUFFICES ASSUME IInv, NEW r \in Requests, NEW l \in Layers, phase[r] = "running"
                 PROVE  rec[l][slotOf[r]].owner # NaN
      BY DEF ClearedBeforeUse
    <2>1. slotOf[r] \in Slots
      BY DEF IInv, SlotOwnership, TypeOK
    <2> QED
      BY <2>1 DEF IInv, NaNNeedsDivergence
  <1> QED
    BY <1>1, Inductive, PTL
=============================================================================
