----------------------------- MODULE Scenes_proof -----------------------------
(* Safety of the way of a scene: of the store that hands it over (SceneStore),  *)
(* for every number of slots and every bound on publications, and of the       *)
(* pipeline that makes it (DesktopScenes), for any number of displays, any     *)
(* scopes, any pool depth, period and delay.                                   *)
EXTENDS DesktopScenes, SceneStore, FiniteSetTheorems, TLAPS

-------------------------------------------------------------------------------
(* The store.  The inductive invariant StoreInv strengthens the properties     *)
(* with what each side knows of the other's words at its own program point.    *)

(* What the consumer knows inside acquire_latest: it saw returned_ empty before
   it puts the retired slot there (only it ever fills that word), and it holds
   no retired slot when it takes. *)
AcquireKnows ==
    /\ acquiring = "return" => Held(retired) /\ ~Held(returned)
    /\ acquiring = "take" => ~Held(retired)
    /\ Held(retired) => Held(active)

(* The newest scene is the pending one, or the consumer has it in view. *)
NewestIsReachable ==
    IF Held(pending) THEN content[pending] = epoch ELSE Scene(active) = epoch

StoreCounts ==
    /\ epoch \in 0 .. MaxEpoch
    /\ replaced \in Nat
    /\ acquired \in Nat
    /\ PublicationsAccounted

StoreInv ==
    /\ SlotTypeOK
    /\ content \in [Slot -> 0 .. MaxEpoch]
    /\ SlotsPartitioned
    /\ AcquireKnows
    /\ NewestIsReachable
    /\ StoreCounts

-------------------------------------------------------------------------------
(* The invariant holds before initialize returns. *)
LEMMA StoreInitInv == StoreInit => StoreInv
BY SlotCountAssumption, MaxEpochAssumption
   DEF StoreInit, SlotInit, StoreInv, SlotTypeOK, SlotsPartitioned, OneOwner, NoSlotLost,
       AcquireKnows, NewestIsReachable, StoreCounts, PublicationsAccounted, Scene,
       Held, TakenSlots, Slot, NoSlot, Torn

(* Every step of the slot protocol alone keeps the partition and the consumer's
   knowledge. *)
LEMMA SlotStep ==
    ASSUME SlotTypeOK, SlotsPartitioned, AcquireKnows,
           BeginWrite \/ BeginWriteBusy \/ AbortWrite \/ Commit
           \/ AcquireNothingRetired \/ AcquireSeesRoom \/ AcquireRefused
           \/ AcquireReturn \/ AcquireTake
    PROVE  SlotTypeOK' /\ SlotsPartitioned' /\ AcquireKnows'
<1> USE DEF SlotTypeOK, SlotsPartitioned, OneOwner, NoSlotLost, AcquireKnows,
            Held, TakenSlots, NoSlot, producerSlots, consumerSlots
<1>0. 0 \notin Slot
  BY SlotCountAssumption DEF Slot
<1>1. CASE BeginWrite
  BY <1>0, <1>1 DEF BeginWrite, Drained, Lowest
<1>2. CASE BeginWriteBusy \/ AcquireRefused
  BY <1>2 DEF BeginWriteBusy, AcquireRefused, slotVars
<1>3. CASE AbortWrite
  BY <1>0, <1>3 DEF AbortWrite
<1>4. CASE Commit
  BY <1>0, <1>4 DEF Commit
<1>5. CASE AcquireNothingRetired \/ AcquireSeesRoom
  BY <1>5 DEF AcquireNothingRetired, AcquireSeesRoom
<1>6. CASE AcquireReturn
  BY <1>0, <1>6 DEF AcquireReturn
<1>7. CASE AcquireTake
  BY <1>0, <1>7 DEF AcquireTake
<1> QED
  BY <1>1, <1>2, <1>3, <1>4, <1>5, <1>6, <1>7

(* A writer never has its hands on a slot the other side can read. *)
LEMMA WriterAlone ==
    ASSUME SlotTypeOK, SlotsPartitioned, Held(writing)
    PROVE  writing \in Slot /\ writing \notin {pending, returned, active, retired}
BY DEF SlotTypeOK, SlotsPartitioned, OneOwner, Held, NoSlot

(* The steps that touch no packet and no count. *)
LEMMA SlotOnlyStep ==
    ASSUME StoreInv, UNCHANGED packetVars, UNCHANGED <<pending, active>>,
           BeginWrite \/ BeginWriteBusy \/ AbortWrite
           \/ AcquireNothingRetired \/ AcquireSeesRoom \/ AcquireRefused
           \/ AcquireReturn
    PROVE  StoreInv'
<1>1. SlotTypeOK' /\ SlotsPartitioned' /\ AcquireKnows'
  BY SlotStep DEF StoreInv
<1> QED
  BY <1>1 DEF StoreInv, NewestIsReachable, StoreCounts, PublicationsAccounted, packetVars,
              Scene, Held

LEMMA StoreNextInv == StoreInv /\ [StoreNext]_storeVars => StoreInv'
<1> SUFFICES ASSUME StoreInv, [StoreNext]_storeVars
             PROVE  StoreInv'
  OBVIOUS
<1>1. CASE ProducerBeginWrite
  <2>1. UNCHANGED <<pending, active>>
    BY <1>1 DEF ProducerBeginWrite, BeginWrite, BeginWriteBusy, slotVars, consumerSlots
  <2> QED
    BY <1>1, <2>1, SlotOnlyStep DEF ProducerBeginWrite
<1>2. CASE ProducerWritePart \/ ProducerWriteRest
  <2>1. writing \in Slot /\ writing \notin {pending, returned, active, retired}
    BY <1>2, WriterAlone DEF StoreInv, ProducerWritePart, ProducerWriteRest
  <2>2. UNCHANGED <<slotVars, epoch, replaced, acquired>>
    BY <1>2 DEF ProducerWritePart, ProducerWriteRest
  <2>3. /\ content' \in [Slot -> 0 .. MaxEpoch]
        /\ \A s \in Slot \ {writing} : content'[s] = content[s]
    BY <1>2, <2>1, MaxEpochAssumption
       DEF StoreInv, StoreCounts, ProducerWritePart, ProducerWriteRest, Torn
  <2>4. NewestIsReachable'
    BY <2>1, <2>2, <2>3
       DEF StoreInv, NewestIsReachable, Scene, SlotTypeOK, Held, NoSlot, slotVars
  <2>5. SlotTypeOK' /\ SlotsPartitioned' /\ AcquireKnows'
    BY <2>2 DEF StoreInv, slotVars, SlotTypeOK, SlotsPartitioned, OneOwner, NoSlotLost,
                TakenSlots, AcquireKnows, Held
  <2>6. StoreCounts'
    BY <2>2 DEF StoreInv, slotVars, StoreCounts, PublicationsAccounted, Held
  <2> QED
    BY <2>3, <2>4, <2>5, <2>6 DEF StoreInv
<1>3. CASE ProducerCommit
  <2>1. SlotTypeOK' /\ SlotsPartitioned' /\ AcquireKnows'
    BY <1>3, SlotStep DEF StoreInv, ProducerCommit
  <2>2. writing \in Slot
    BY <1>3, WriterAlone DEF StoreInv, ProducerCommit
  <2>3. epoch' \in 0 .. MaxEpoch
    BY <1>3, <2>2, MaxEpochAssumption DEF StoreInv, StoreCounts, ProducerCommit
  <2>4. StoreCounts'
    BY <1>3, <2>2, <2>3, SlotCountAssumption
       DEF StoreInv, StoreCounts, PublicationsAccounted, ProducerCommit, Commit, Held, Slot, NoSlot
  <2>5. NewestIsReachable'
    BY <1>3, <2>2, SlotCountAssumption
       DEF NewestIsReachable, ProducerCommit, Commit, Held, Slot, NoSlot
  <2> QED
    BY <1>3, <2>1, <2>4, <2>5 DEF StoreInv, ProducerCommit
<1>4. CASE ProducerAbortWrite
  <2>1. UNCHANGED <<pending, active>>
    BY <1>4 DEF ProducerAbortWrite, AbortWrite, consumerSlots
  <2> QED
    BY <1>4, <2>1, SlotOnlyStep DEF ProducerAbortWrite
<1>5. CASE ConsumerAcquireEntry
  <2>1. UNCHANGED <<pending, active>>
    BY <1>5 DEF ConsumerAcquireEntry, AcquireNothingRetired, AcquireSeesRoom, AcquireReturn
  <2> QED
    BY <1>5, <2>1, SlotOnlyStep DEF ConsumerAcquireEntry
<1>6. CASE ConsumerAcquireTake
  <2>1. SlotTypeOK' /\ SlotsPartitioned' /\ AcquireKnows'
    BY <1>6, SlotStep DEF StoreInv, ConsumerAcquireTake
  <2>2. StoreCounts'
    BY <1>6 DEF StoreInv, StoreCounts, PublicationsAccounted, ConsumerAcquireTake, AcquireTake,
                Held, NoSlot
  <2>3. NewestIsReachable'
    BY <1>6 DEF StoreInv, NewestIsReachable, Scene, ConsumerAcquireTake, AcquireTake, Held, NoSlot
  <2> QED
    BY <1>6, <2>1, <2>2, <2>3 DEF StoreInv, ConsumerAcquireTake
<1>7. CASE ConsumerRefused
  <2>1. UNCHANGED <<pending, active>>
    BY <1>7 DEF ConsumerRefused, AcquireRefused, slotVars
  <2> QED
    BY <1>7, <2>1, SlotOnlyStep DEF ConsumerRefused
<1>8. CASE UNCHANGED storeVars
  BY <1>8 DEF storeVars, slotVars, packetVars, StoreInv, SlotTypeOK, SlotsPartitioned, OneOwner,
              NoSlotLost, TakenSlots, AcquireKnows, NewestIsReachable, Scene, StoreCounts,
              PublicationsAccounted, Held
<1> QED
  BY <1>1, <1>2, <1>3, <1>4, <1>5, <1>6, <1>7, <1>8 DEF StoreNext, Producer, Consumer

(* In every behaviour of the two threads the inductive invariant holds. *)
THEOREM AlwaysStoreInv == StoreSafety => []StoreInv
BY StoreInitInv, StoreNextInv, PTL DEF StoreSafety

-------------------------------------------------------------------------------
(* Whatever begin_write, abort_write, commit and acquire_latest do in whatever
   order, the words and counts of SceneStore keep their ranges. *)
THEOREM StoreTypeCorrect == StoreSafety => []StoreTypeOK
<1>1. StoreInv => StoreTypeOK
  BY MaxEpochAssumption
     DEF StoreInv, StoreTypeOK, SlotTypeOK, StoreCounts, PublicationsAccounted, Held
<1> QED
  BY <1>1, AlwaysStoreInv, PTL

(* No slot is ever lost or owned twice, for every number of slots. *)
THEOREM Partitioned == StoreSafety => []SlotsPartitioned
<1>1. StoreInv => SlotsPartitioned
  BY DEF StoreInv
<1> QED
  BY <1>1, AlwaysStoreInv, PTL

(* Every publication is acquired, replaced or pending, in every state. *)
THEOREM Accounted == StoreSafety => []PublicationsAccounted
<1>1. StoreInv => PublicationsAccounted
  BY DEF StoreInv, StoreCounts
<1> QED
  BY <1>1, AlwaysStoreInv, PTL

(* No step writes a slot behind the consumer's current or previous view. *)
THEOREM ViewsStable == StoreSafety => HeldScenesUnchanged
<1> DEFINE Stable == \A s \in {active, retired} \ {NoSlot} : content'[s] = content[s]
<1>1. StoreInv /\ [StoreNext]_storeVars => [Stable]_storeVars
  <2> SUFFICES ASSUME StoreInv, StoreNext
               PROVE  Stable
    OBVIOUS
  <2>1. CASE ProducerWritePart \/ ProducerWriteRest
    <3>1. writing \in Slot /\ writing \notin {active, retired}
      BY <2>1, WriterAlone DEF StoreInv, ProducerWritePart, ProducerWriteRest
    <3> QED
      BY <2>1, <3>1 DEF StoreInv, SlotTypeOK, ProducerWritePart, ProducerWriteRest, NoSlot
  <2>2. CASE UNCHANGED content
    BY <2>2
  <2> QED
    BY <2>1, <2>2
       DEF StoreNext, Producer, Consumer, ProducerBeginWrite, ProducerCommit,
           ProducerAbortWrite, ConsumerAcquireEntry, ConsumerAcquireTake,
           ConsumerRefused, packetVars
<1> QED
  BY <1>1, AlwaysStoreInv, PTL DEF StoreSafety, HeldScenesUnchanged

-------------------------------------------------------------------------------
(* With three slots a refused consumer has the newest scene: the retired, the
   returned and the viewed slot are then all there are.  The argument is the
   count of slots, so it fails for a fourth. *)
RefusedHoldsAll == (Held(retired) /\ Held(returned)) => ~Held(pending) /\ ~Held(writing)

(* acquire_latest may answer ERROR_STATE only to a consumer that has the newest
   scene in view while none is being written. *)
THEOREM RefusalIsHarmless ==
    ASSUME SlotCount = 3
    PROVE  StoreSafety => []RefusedOnlyWhenCurrent
<1>1. StoreInit => RefusedHoldsAll
  BY DEF StoreInit, SlotInit, RefusedHoldsAll, Held
<1>2. StoreInv /\ RefusedHoldsAll /\ [StoreNext]_storeVars => RefusedHoldsAll'
  <2> SUFFICES ASSUME StoreInv, RefusedHoldsAll, [StoreNext]_storeVars
               PROVE  RefusedHoldsAll'
    OBVIOUS
  <2>1. CASE ProducerBeginWrite \/ ProducerCommit \/ ProducerAbortWrite
    BY <2>1 DEF RefusedHoldsAll, Held, ProducerBeginWrite, BeginWrite, BeginWriteBusy,
                ProducerCommit, Commit, ProducerAbortWrite, AbortWrite, slotVars,
                consumerSlots
  <2>2. CASE ConsumerAcquireEntry
    BY <2>2 DEF RefusedHoldsAll, Held, ConsumerAcquireEntry, AcquireNothingRetired,
                AcquireSeesRoom, AcquireReturn, producerSlots
  <2>3. CASE ConsumerAcquireTake
    <3>1. CASE Held(pending) /\ Held(active) /\ Held(returned)
      <4>1. {pending, active, returned} \subseteq 1 .. 3
        BY <3>1 DEF StoreInv, SlotTypeOK, Slot, Held, NoSlot
      <4>2. pending # active /\ pending # returned /\ active # returned
        BY <3>1, <4>1 DEF StoreInv, SlotsPartitioned, OneOwner, Slot
      <4>3. writing \notin 1 .. 3
        <5>1. writing \in 1 .. 3 => writing \notin {pending, active, returned}
          BY DEF StoreInv, SlotsPartitioned, OneOwner, Slot
        <5> QED
          BY <4>1, <4>2, <5>1
      <4>4. ~Held(writing)
        BY <4>3 DEF StoreInv, SlotTypeOK, Slot, Held
      <4> QED
        BY <2>3, <4>4 DEF RefusedHoldsAll, Held, ConsumerAcquireTake, AcquireTake,
                          producerSlots, NoSlot
    <3>2. CASE ~(Held(pending) /\ Held(active) /\ Held(returned))
      BY <2>3, <3>2 DEF StoreInv, AcquireKnows, RefusedHoldsAll, Held, ConsumerAcquireTake,
                        AcquireTake, producerSlots
    <3> QED
      BY <3>1, <3>2
  <2>4. CASE \/ ProducerWritePart \/ ProducerWriteRest
            \/ ConsumerRefused \/ UNCHANGED storeVars
    BY <2>4 DEF RefusedHoldsAll, Held, ProducerWritePart, ProducerWriteRest,
                ConsumerRefused, AcquireRefused, slotVars, storeVars
  <2> QED
    BY <2>1, <2>2, <2>3, <2>4 DEF StoreNext, Producer, Consumer
<1>3. StoreInv /\ RefusedHoldsAll => RefusedOnlyWhenCurrent
  BY DEF StoreInv, RefusedHoldsAll, NewestIsReachable, RefusedOnlyWhenCurrent
<1> QED
  BY <1>1, <1>2, <1>3, AlwaysStoreInv, PTL DEF StoreSafety

(* With the three slots of SceneStoreStorage, slots and scenes are where both
   threads of the store believe them to be, in every state. *)
THEOREM SlotsAreHeld ==
    ASSUME SlotCount = 3
    PROVE  StoreSafety => []SlotsHold
<1>1. StoreSafety => []RefusedOnlyWhenCurrent
  BY RefusalIsHarmless
<1>2. StoreTypeOK /\ SlotsPartitioned /\ PublicationsAccounted /\ RefusedOnlyWhenCurrent => SlotsHold
  BY DEF SlotsHold
<1> QED
  BY <1>1, <1>2, StoreTypeCorrect, Partitioned, Accounted, PTL

-------------------------------------------------------------------------------
(* Every step of the two threads is a publication, a take of the newest scene,
   or invisible: SceneStore is the newest-scene register of SceneHandoff. *)
THEOREM Refines == StoreSafety => Handoff!Safety
<1>1. StoreInit => Handoff!Init
  BY DEF StoreInit, SlotInit, Handoff!Init, Scene, Held
<1>2. StoreInv /\ [StoreNext]_storeVars => [Handoff!Next]_(Handoff!handoffVars)
  <2> SUFFICES ASSUME StoreInv, [StoreNext]_storeVars
               PROVE  [Handoff!Next]_(Handoff!handoffVars)
    OBVIOUS
  <2>1. CASE ProducerCommit
    <3>1. writing \in Slot
      BY <2>1, WriterAlone DEF StoreInv, ProducerCommit
    <3>2. epoch < MaxEpoch
      BY <2>1, <3>1, MaxEpochAssumption DEF StoreInv, StoreCounts, ProducerCommit
    <3>3. UNCHANGED <<active, content>>
      BY <2>1 DEF ProducerCommit, Commit, consumerSlots
    <3>4. Scene(active)' = Scene(active)
      BY <3>3 DEF Scene, Held
    <3> QED
      BY <2>1, <3>2, <3>4 DEF ProducerCommit, Handoff!Next, Handoff!Publish
  <2>2. CASE ConsumerAcquireTake
    <3>1. UNCHANGED <<content, epoch>>
      BY <2>2 DEF ConsumerAcquireTake
    <3>2. CASE Held(pending)
      <4>1. active' = pending
        BY <2>2, <3>2 DEF ConsumerAcquireTake, AcquireTake
      <4>2. Scene(active)' = epoch
        BY <3>1, <3>2, <4>1 DEF StoreInv, NewestIsReachable, Scene, Held
      <4> QED
        BY <3>1, <4>2 DEF Handoff!Next, Handoff!Take, Handoff!handoffVars
    <3>3. CASE ~Held(pending)
      <4>1. active' = active
        BY <2>2, <3>3 DEF ConsumerAcquireTake, AcquireTake
      <4> QED
        BY <3>1, <4>1 DEF Handoff!handoffVars, Scene, Held
    <3> QED
      BY <3>2, <3>3
  <2>3. CASE ProducerWritePart \/ ProducerWriteRest
    <3>1. writing \in Slot /\ writing # active
      BY <2>3, WriterAlone DEF StoreInv, ProducerWritePart, ProducerWriteRest
    <3>2. UNCHANGED <<active, epoch>>
      BY <2>3 DEF ProducerWritePart, ProducerWriteRest, slotVars
    <3>3. Held(active) => content'[active] = content[active]
      BY <2>3, <3>1 DEF StoreInv, SlotTypeOK, ProducerWritePart, ProducerWriteRest, Held
    <3> QED
      BY <3>2, <3>3 DEF Handoff!handoffVars, Scene, Held
  <2>4. CASE \/ ProducerBeginWrite \/ ProducerAbortWrite
            \/ ConsumerAcquireEntry \/ ConsumerRefused \/ UNCHANGED storeVars
    <3>1. UNCHANGED <<active, content, epoch>>
      BY <2>4 DEF ProducerBeginWrite, BeginWrite, BeginWriteBusy, ProducerAbortWrite,
                  AbortWrite, ConsumerAcquireEntry, AcquireNothingRetired,
                  AcquireSeesRoom, AcquireReturn, ConsumerRefused, AcquireRefused,
                  storeVars, slotVars, packetVars, consumerSlots
    <3> QED
      BY <3>1 DEF Handoff!handoffVars, Scene, Held
  <2> QED
    BY <2>1, <2>2, <2>3, <2>4 DEF StoreNext, Producer, Consumer
<1> QED
  BY <1>1, <1>2, AlwaysStoreInv, PTL DEF StoreSafety, Handoff!Safety

-------------------------------------------------------------------------------
(* The pipeline.  Inv adds to what ScenesHold says:                            *)
(*   Clocks    what the deadlines are worth at each phase,                     *)
(*   Batches   what the coordinator's fields say of one another,               *)
(*   Members   the frames of a batch are those of one scope, and               *)
(*   Newer     no frame is older than a scene made from earlier frames.        *)

Clocks ==
    /\ untilCapture >= 0
    /\ phase = "idle" \/ scheduled => untilScene >= 0
    /\ phase \in {"idle", "retire"} => ~scheduled
    /\ phase \in {"scene", "tick"} => scheduled

Batches ==
    /\ WriteFollowsBatch
    /\ ticket = "none" <=> running = None
    /\ ~BatchActive => batch = {} /\ merged = {} /\ running = None /\ ~failed
    /\ phase = "submit" => BatchActive /\ running = None
    /\ phase = "begin" => ~BatchActive /\ sceneRunning

(* How often release_frame is still to be called for a display. *)
Owed(s) ==
    (IF Offered(s) THEN 1 ELSE 0) + (IF s \in batch THEN 1 ELSE 0) + (IF running = s THEN 1 ELSE 0)
Leases == \A s \in Source : leased[s] = Owed(s)

Types ==
    /\ TypeOK
    /\ published \in [topology : 0 .. MaxTopology, whole : BOOLEAN]
    /\ viewed \in [topology : 0 .. MaxTopology, whole : BOOLEAN]
    /\ batchOf \in [topology : 0 .. MaxTopology, scopes : SUBSET Scopes]

Newer ==
    /\ \A s \in Source : Offered(s) =>
        /\ s \in offered[s].scope
        /\ offered[s].topology <= topology
        /\ batchOf.topology <= offered[s].topology
        /\ published.topology <= offered[s].topology
        /\ viewed.topology <= offered[s].topology
    /\ batchOf.topology <= topology
    /\ published.topology <= topology
    /\ viewed.topology <= topology
    /\ BatchActive => published.topology <= batchOf.topology /\ viewed.topology <= batchOf.topology
    /\ Held(pending) => viewed.topology <= published.topology

Inv == Types /\ Clocks /\ Batches /\ Leases /\ Newer

(* What a user must not be able to choose, so that counting the frames of a scope
   is enough: two scopes of several displays each, as many in one as in the
   other.  finish_batch and begin_batch compare counts only. *)
ScopesToldApart ==
    \A S, T \in Scopes : Cardinality(S) = Cardinality(T) /\ Cardinality(S) # 1 => S = T

(* All of a batch was captured for one scope, and the scope has as many displays. *)
Members ==
    BatchActive =>
        \E T \in Scopes :
            /\ batchOf.scopes = {T}
            /\ Cardinality(T) = batchSize
            /\ batch \cup merged \cup ({running} \ {None}) \subseteq T

-------------------------------------------------------------------------------
(* Helpers *)

(* The remainder of a division by a positive number. *)
LEMMA Remainder ==
    ASSUME NEW n \in Nat, NEW m \in Nat \ {0}
    PROVE  n % m \in 0 .. m - 1
OBVIOUS

(* consume_due leaves a deadline ahead of now, by one period at most. *)
LEMMA ConsumedAhead ==
    ASSUME NEW u \in (0 - MaxWake) .. ScenePeriod
    PROVE  Consumed(u) \in 1 .. ScenePeriod
<1>1. CASE u <= 0
  <2>1. (0 - u) \in Nat /\ ScenePeriod \in Nat \ {0}
    BY <1>1, DesktopAssumption
  <2>2. (0 - u) % ScenePeriod \in 0 .. ScenePeriod - 1
    BY <2>1, Remainder
  <2> QED
    BY <1>1, <2>1, <2>2 DEF Consumed, Due
<1>2. CASE ~(u <= 0)
  BY <1>2, DesktopAssumption DEF Consumed, Due
<1> QED
  BY <1>1, <1>2

(* The counts the code keeps of a display are what LeasesAccounted counts. *)
LEMMA OwedIsCounted ==
    ASSUME NEW s
    PROVE  Owed(s) = Cardinality({x \in {"offered", "batch", "running"} :
                                    \/ x = "offered" /\ Offered(s)
                                    \/ x = "batch" /\ s \in batch
                                    \/ x = "running" /\ running = s})
<1> DEFINE A == IF Offered(s) THEN {"offered"} ELSE {}
           B == IF s \in batch THEN A \cup {"batch"} ELSE A
           C == IF running = s THEN B \cup {"running"} ELSE B
<1>1. IsFiniteSet(A) /\ Cardinality(A) = IF Offered(s) THEN 1 ELSE 0
  BY FS_EmptySet, FS_Singleton
<1>2. IsFiniteSet(B) /\ Cardinality(B) = (IF Offered(s) THEN 1 ELSE 0) + (IF s \in batch THEN 1 ELSE 0)
  <2>1. "batch" \notin A
    OBVIOUS
  <2>2. Cardinality(A \cup {"batch"}) = Cardinality(A) + 1 /\ IsFiniteSet(A \cup {"batch"})
    BY <1>1, <2>1, FS_AddElement
  <2> HIDE DEF A
  <2> QED
    BY <1>1, <2>2
<1>3. IsFiniteSet(C) /\ Cardinality(C) = Owed(s)
  <2>1. "running" \notin B
    OBVIOUS
  <2>2. Cardinality(B \cup {"running"}) = Cardinality(B) + 1
    BY <1>2, <2>1, FS_AddElement
  <2>3. IsFiniteSet(B \cup {"running"})
    BY <1>2, FS_AddElement
  <2> HIDE DEF B
  <2> QED
    BY <1>2, <2>2, <2>3 DEF Owed
<1>4. C = {x \in {"offered", "batch", "running"} :
             \/ x = "offered" /\ Offered(s)
             \/ x = "batch" /\ s \in batch
             \/ x = "running" /\ running = s}
  OBVIOUS
<1> QED
  BY <1>3, <1>4

(* The slot actions keep the slots' types, and each says what it does to the
   word behind writing. *)
LEMMA SlotSteps ==
    ASSUME SlotTypeOK
    PROVE  /\ BeginWrite => SlotTypeOK' /\ ~Held(writing) /\ Held(writing)' /\ UNCHANGED pending
           /\ BeginWriteBusy => UNCHANGED slotVars
           /\ AbortWrite => SlotTypeOK' /\ ~Held(writing)' /\ UNCHANGED pending
           /\ Commit => SlotTypeOK' /\ Held(pending)' /\ ~Held(writing)'
           /\ AcquireNothingRetired \/ AcquireSeesRoom \/ AcquireReturn
                => SlotTypeOK' /\ UNCHANGED <<writing, pending>>
           /\ AcquireRefused => UNCHANGED slotVars
           /\ AcquireTake => SlotTypeOK' /\ UNCHANGED writing /\ ~Held(pending)'
<1> USE DEF SlotTypeOK, Held, NoSlot, consumerSlots, producerSlots
<1>0. 0 \notin Slot
  BY SlotCountAssumption DEF Slot
<1>1. BeginWrite => SlotTypeOK' /\ ~Held(writing) /\ Held(writing)' /\ UNCHANGED pending
  BY <1>0 DEF BeginWrite, Drained, Lowest
<1>2. AbortWrite => SlotTypeOK' /\ ~Held(writing)' /\ UNCHANGED pending
  BY <1>0 DEF AbortWrite
<1>3. Commit => SlotTypeOK' /\ Held(pending)' /\ ~Held(writing)'
  BY <1>0 DEF Commit
<1>4. AcquireNothingRetired \/ AcquireSeesRoom \/ AcquireReturn
        => SlotTypeOK' /\ UNCHANGED <<writing, pending>>
  BY <1>0 DEF AcquireNothingRetired, AcquireSeesRoom, AcquireReturn
<1>5. AcquireTake => SlotTypeOK' /\ UNCHANGED writing /\ ~Held(pending)'
  BY <1>0 DEF AcquireTake
<1> QED
  BY <1>1, <1>2, <1>3, <1>4, <1>5 DEF BeginWriteBusy, AcquireRefused

(* The frames begin_batch takes are of one layout. *)
LEMMA NewestTogether ==
    ASSUME Types, Newest # {}
    PROVE  \E n \in 1 .. MaxTopology :
              /\ \A s \in Newest : offered[s].topology = n
              /\ Max({offered[s].topology : s \in Newest}) = n
<1>1. PICK r \in Newest : TRUE
  OBVIOUS
<1>2. \A s \in Newest : s \in Source /\ offered[s] \in Frame
  BY DEF Types, TypeOK, Newest, Offered
<1>3. \A s \in Newest : offered[s].topology \in 1 .. MaxTopology
  BY <1>2 DEF Frame
<1>4. \A s \in Newest : offered[s].topology = offered[r].topology
  BY <1>1, <1>2, <1>3 DEF Newest
<1>5. {offered[s].topology : s \in Newest} = {offered[r].topology}
  BY <1>1, <1>4
<1>6. Max({offered[r].topology}) = offered[r].topology
  <2>1. offered[r].topology \in Int
    BY <1>3
  <2> QED
    BY <2>1 DEF Max
<1> QED
  BY <1>3, <1>4, <1>5, <1>6

(* The number of frames of a batch is a number of displays. *)
LEMMA NewestIsFinite ==
    ASSUME Types
    PROVE  /\ Newest \subseteq Source
           /\ IsFiniteSet(Newest)
           /\ Cardinality(Newest) \in 0 .. Cardinality(Source)
           /\ Cardinality(Newest) = 0 <=> Newest = {}
<1>1. Newest \in SUBSET Source
  BY DEF Newest
<1>2. IsFiniteSet(Newest) /\ Cardinality(Newest) <= Cardinality(Source)
  BY <1>1, DesktopAssumption, FS_Subset
<1>3. Cardinality(Newest) \in Nat /\ Cardinality(Source) \in Nat
  BY <1>2, DesktopAssumption, FS_CardinalityType
<1> QED
  BY <1>1, <1>2, <1>3, FS_EmptySet

LEMMA WholeHasFrames == Whole => Newest # {}
<1>1. Newest = {} => Counts = {}
  BY DEF Counts
<1> QED
  BY <1>1 DEF Whole

-------------------------------------------------------------------------------
(* Steps *)

LEMMA InitInv == Init => Inv
<1> SUFFICES ASSUME Init PROVE Inv
  OBVIOUS
<1> USE DesktopAssumption, SlotCountAssumption DEF Init, SlotInit
<1>1. Types
  <2>1. SlotTypeOK
    BY DEF SlotTypeOK, Slot, NoSlot
  <2>2. Cardinality(Source) \in Nat
    BY FS_CardinalityType
  <2>3. {sceneRunning, scenePending, failed, scheduled, ok} \subseteq BOOLEAN
    OBVIOUS
  <2>4. /\ {untilCapture, untilScene} \subseteq (0 - MaxWake) .. ScenePeriod
        /\ topology \in 1 .. MaxTopology
        /\ leased \in [Source -> 0 .. PoolDepth]
        /\ batchSize \in 0 .. Cardinality(Source)
    BY <2>2
  <2>5. /\ published \in [topology : 0 .. MaxTopology, whole : BOOLEAN]
        /\ viewed \in [topology : 0 .. MaxTopology, whole : BOOLEAN]
        /\ batchOf \in [topology : 0 .. MaxTopology, scopes : SUBSET Scopes]
    BY DEF NoScene, NoBatch
  <2> QED
    BY <2>1, <2>3, <2>4, <2>5 DEF Types, TypeOK, None
<1>2. Clocks
  BY DEF Clocks
<1>3. Batches
  BY DEF Batches, WriteFollowsBatch, BatchActive, Held
<1>4. Leases
  BY DEF Leases, Owed, Offered, None
<1>5. Newer
  BY DEF Newer, Offered, NoScene, NoBatch, BatchActive, Held
<1> QED
  BY <1>1, <1>2, <1>3, <1>4, <1>5 DEF Inv

(* What advance may leave behind: it goes on to the scheduler, to the scene, or
   ends the turn. *)
LEMMA OnwardSteps ==
    ASSUME NEW good \in BOOLEAN, Onward(good), Types
    PROVE  /\ phase' \in {"schedule", "scene", "idle"}
           /\ {scheduled', ok'} \subseteq BOOLEAN
           /\ phase' = "schedule" => ~scheduled /\ ~scheduled'
           /\ phase' = "scene" => scheduled /\ scheduled'
           /\ phase' = "idle" => scheduled /\ ~scheduled'
<1>1. scheduled \in BOOLEAN /\ ok \in BOOLEAN
  BY DEF Types, TypeOK
<1>2. CASE phase' = "schedule"
  <2>1. ~scheduled /\ ok' = (ok /\ good) /\ scheduled' = scheduled
    BY <1>2 DEF Onward, EndTurn
  <2>2. (ok /\ good) \in BOOLEAN
    BY Zenon
  <2> QED
    BY <1>1, <1>2, <2>1, <2>2
<1>3. CASE phase' = "scene"
  BY <1>1, <1>3, Zenon DEF Onward, EndTurn
<1>4. CASE phase' = "idle"
  BY <1>1, <1>4, Zenon DEF Onward, EndTurn
<1> QED
  BY <1>2, <1>3, <1>4 DEF Onward, EndTurn

LEMMA CompleteSceneSteps ==
    ASSUME CompleteScene, Types
    PROVE  /\ {scenePending', sceneRunning', scheduled', ok'} \subseteq BOOLEAN
           /\ phase' \in {"begin", "schedule", "scene", "idle"}
           /\ phase' = "begin" => UNCHANGED <<sceneRunning, scheduled>>
           /\ phase' = "schedule" => ~scheduled /\ ~scheduled'
           /\ phase' = "scene" => scheduled /\ scheduled'
           /\ phase' = "idle" => scheduled /\ ~scheduled'
<1>1. CASE scenePending
  BY <1>1 DEF CompleteScene, Types, TypeOK
<1>2. CASE ~scenePending
  <2>1. Onward(TRUE) /\ sceneRunning' = FALSE /\ UNCHANGED scenePending
    BY <1>2 DEF CompleteScene
  <2> QED
    BY <2>1, OnwardSteps DEF Types, TypeOK
<1> QED
  BY <1>1, <1>2

(* Every step keeps the deadlines in order: only a turn that has not reached the
   scheduler may be late for a scene. *)
LEMMA ClocksStep == Inv /\ [Next]_vars => Clocks'
<1> SUFFICES ASSUME Inv, [Next]_vars PROVE Clocks'
  OBVIOUS
<1> USE DEF Clocks
<1>0. Types /\ Clocks
  BY DEF Inv
<1>1. ASSUME NEW w \in 1 .. MaxWake, NEW S \in SUBSET Source, BeginTurn(w, S) PROVE Clocks'
  <2>1. untilCapture - w \in (0 - MaxWake) .. ScenePeriod
    BY <1>0, DesktopAssumption DEF Types, TypeOK
  <2> QED
    BY <1>0, <1>1, <2>1, ConsumedAhead, DesktopAssumption DEF BeginTurn
<1>2. CASE RetireNothing \/ RetireTicket
  BY <1>0, <1>2 DEF RetireNothing, RetireTicket, clockVars
<1>3. CASE SubmitAccepted \/ BeginDisagreed \/ BeginBusy
  <2>1. UNCHANGED clockVars /\ \E good \in BOOLEAN : Onward(good)
    BY <1>3 DEF SubmitAccepted, BeginDisagreed, BeginBusy
  <2> QED
    BY <1>0, <2>1, OnwardSteps DEF clockVars
<1>4. CASE SubmitRefused
  BY <1>0, <1>4 DEF SubmitRefused, clockVars, turnVars
<1>5. CASE FinishIncomplete \/ FinishPublish \/ BeginIncomplete
  <2>1. UNCHANGED clockVars /\ CompleteScene
    BY <1>5 DEF FinishIncomplete, FinishPublish, BeginIncomplete
  <2> QED
    BY <1>0, <2>1, CompleteSceneSteps DEF clockVars
<1>6. CASE Schedule
  <2>1. untilScene \in (0 - MaxWake) .. ScenePeriod
    BY <1>0, DesktopAssumption DEF Types, TypeOK
  <2>2. untilScene' \in 1 .. ScenePeriod /\ UNCHANGED untilCapture
    BY <1>6, <2>1, ConsumedAhead DEF Schedule
  <2>3. untilScene' >= 0
    BY <2>2, DesktopAssumption
  <2>4. \/ phase' \in {"begin", "scene"} /\ scheduled' = TRUE
        \/ phase' = "idle" /\ scheduled' = FALSE
    BY <1>6 DEF Schedule, EndTurn
  <2> QED
    BY <1>0, <2>2, <2>3, <2>4
<1>7. CASE BeginBatch
  BY <1>0, <1>7 DEF BeginBatch, clockVars
<1>8. CASE Acquire
  BY <1>0, <1>8 DEF Acquire, clockVars, turnVars, EndTurn
<1>9. CASE InteractionTick
  BY <1>0, <1>9 DEF InteractionTick, clockVars, EndTurn
<1>10. CASE WorkerEnds \/ ChangeTopology
  BY <1>0, <1>10 DEF WorkerEnds, ChangeTopology, clockVars, turnVars
<1>11. CASE ChangeScope
  BY <1>0, <1>11 DEF ChangeScope, turnVars
<1>12. CASE UNCHANGED vars
  BY <1>0, <1>12 DEF vars, clockVars, turnVars
<1> QED
  BY <1>1, <1>2, <1>3, <1>4, <1>5, <1>6, <1>7, <1>8, <1>9, <1>10, <1>11, <1>12 DEF Next, Turn

(* Every step keeps what the coordinator's fields say of one another. *)
LEMMA BatchesStep == Inv /\ [Next]_vars => Batches'
<1> SUFFICES ASSUME Inv, [Next]_vars PROVE Batches'
  OBVIOUS
<1> USE DEF Batches, WriteFollowsBatch, BatchActive
<1>0. Types /\ Batches /\ SlotTypeOK
  BY DEF Inv, Types, TypeOK
<1>1. ASSUME NEW w \in 1 .. MaxWake, NEW S \in SUBSET Source, BeginTurn(w, S) PROVE Batches'
  BY <1>0, <1>1 DEF BeginTurn, slotVars, schedulerVars, batchVars, Held
<1>2. CASE RetireNothing
  BY <1>0, <1>2 DEF RetireNothing, slotVars, schedulerVars, batchVars, Held
<1>3. CASE RetireTicket
  BY <1>0, <1>3 DEF RetireTicket, slotVars, schedulerVars, Held
<1>4. CASE SubmitAccepted
  <2>1. /\ running' \in Source /\ ticket' = "running"
        /\ UNCHANGED <<slotVars, schedulerVars, batchSize, merged, failed>>
    BY <1>0, <1>4 DEF SubmitAccepted, Lowest, Types, TypeOK
  <2>2. phase' \in {"schedule", "scene", "idle"}
    BY <1>0, <1>4, OnwardSteps DEF SubmitAccepted
  <2>3. running' # None
    BY <2>1, DesktopAssumption DEF None
  <2> QED
    BY <1>0, <1>4, <2>1, <2>2, <2>3 DEF SubmitAccepted, slotVars, schedulerVars, Held
<1>5. CASE SubmitRefused
  BY <1>0, <1>5 DEF SubmitRefused, slotVars, schedulerVars, turnVars, Held
<1>6. CASE FinishIncomplete \/ FinishPublish
  <2>1. ~Held(writing)' /\ ClearBatch /\ CompleteScene /\ batch = {} /\ phase = "submit"
    BY <1>0, <1>6, SlotSteps DEF FinishIncomplete, FinishPublish, BatchDone
  <2>2. phase' \in {"begin", "schedule", "scene", "idle"}
    BY <1>0, <2>1, CompleteSceneSteps
  <2>3. phase' = "begin" => sceneRunning'
    BY <1>0, <2>1, CompleteSceneSteps, Zenon
  <2> QED
    BY <1>0, <2>1, <2>2, <2>3 DEF ClearBatch
<1>7. CASE Schedule
  <2>1. /\ UNCHANGED <<slotVars, batchVars>>
        /\ sceneRunning' = (sceneRunning \/ Due(untilScene))
        /\ phase' \in {"begin", "scene", "idle"}
        /\ phase' = "begin" => Due(untilScene) /\ ~BatchActive /\ ticket = "none"
    BY <1>7 DEF Schedule, EndTurn
  <2> QED
    BY <1>0, <2>1 DEF slotVars, batchVars, Held
<1>8. CASE BeginDisagreed
  <2>1. phase' \in {"schedule", "scene", "idle"}
    BY <1>0, <1>8, OnwardSteps DEF BeginDisagreed
  <2> QED
    BY <1>0, <1>8, <2>1 DEF BeginDisagreed, slotVars, schedulerVars, batchVars, Held
<1>9. CASE BeginIncomplete
  <2>1. phase' \in {"begin", "schedule", "scene", "idle"}
    BY <1>0, <1>9, CompleteSceneSteps DEF BeginIncomplete
  <2>2. phase' = "begin" => sceneRunning'
    BY <1>0, <1>9, CompleteSceneSteps, Zenon DEF BeginIncomplete
  <2> QED
    BY <1>0, <1>9, <2>1, <2>2 DEF BeginIncomplete, slotVars, batchVars, Held
<1>10. CASE BeginBatch
  <2>1. batchSize' # 0
    BY <1>0, <1>10, WholeHasFrames, NewestIsFinite DEF BeginBatch
  <2>2. Held(writing)' /\ sceneRunning /\ running = None /\ ticket = "none"
    BY <1>0, <1>10, SlotSteps DEF BeginBatch
  <2> QED
    BY <1>0, <1>10, <2>1, <2>2 DEF BeginBatch, schedulerVars
<1>11. CASE BeginBusy
  <2>1. UNCHANGED slotVars
    BY <1>0, <1>11, SlotSteps DEF BeginBusy
  <2>2. phase' \in {"schedule", "scene", "idle"}
    BY <1>0, <1>11, OnwardSteps DEF BeginBusy
  <2> QED
    BY <1>0, <1>11, <2>1, <2>2 DEF BeginBusy, slotVars, schedulerVars, batchVars, Held
<1>12. CASE Acquire
  <2>1. UNCHANGED writing
    BY <1>0, <1>12, SlotSteps DEF Acquire, slotVars
  <2>2. phase' \in {"scene", "tick", "idle"}
    BY <1>12 DEF Acquire, turnVars, EndTurn
  <2> QED
    BY <1>0, <1>12, <2>1, <2>2 DEF Acquire, schedulerVars, batchVars, Held
<1>13. CASE InteractionTick
  BY <1>0, <1>13 DEF InteractionTick, EndTurn, slotVars, schedulerVars, batchVars, Held
<1>14. CASE WorkerEnds
  BY <1>0, <1>14 DEF WorkerEnds, slotVars, schedulerVars, turnVars, Held
<1>15. CASE ChangeTopology \/ ChangeScope
  BY <1>0, <1>15 DEF ChangeTopology, ChangeScope, slotVars, schedulerVars, batchVars, turnVars, Held
<1>16. CASE UNCHANGED vars
  BY <1>0, <1>16 DEF vars, slotVars, schedulerVars, batchVars, turnVars, Held
<1> QED
  BY <1>1, <1>2, <1>3, <1>4, <1>5, <1>6, <1>7, <1>8, <1>9, <1>10, <1>11, <1>12, <1>13, <1>14,
     <1>15, <1>16 DEF Next, Turn

(* Every frame leased is released as often as it was leased: on every path of
   retire_running, start_next, begin_batch and offer. *)
LEMMA LeasesStep == Inv /\ [Next]_vars => Leases'
<1> SUFFICES ASSUME Inv, [Next]_vars PROVE Leases'
  OBVIOUS
<1> USE DEF Leases, Owed, Offered
<1>0. /\ Types /\ Leases /\ Batches
      /\ leased \in [Source -> 0 .. PoolDepth]
      /\ offered \in [Source -> Frame \cup {NoFrame}]
      /\ batch \in SUBSET Source
      /\ None \notin Source
  BY DesktopAssumption DEF Inv, Types, TypeOK, None
<1>f. \A t \in Nat : \A S : t # 0 => [topology |-> t, scope |-> S] # NoFrame
  BY DEF NoFrame
<1>1. ASSUME NEW w \in 1 .. MaxWake, NEW S \in SUBSET Source, BeginTurn(w, S) PROVE Leases'
  <2>1. topology \in Nat /\ topology # 0
    BY <1>0, DesktopAssumption DEF Types, TypeOK
  <2>2. \A s \in Source : /\ Offered(s)' <=> s \in S \/ Offered(s)
                          /\ leased'[s] = IF s \in S /\ ~Offered(s) THEN leased[s] + 1 ELSE leased[s]
    BY <1>0, <1>f, <1>1, <2>1 DEF BeginTurn, OfferAll
  <2>3. UNCHANGED <<batch, running>>
    BY <1>1 DEF BeginTurn, batchVars
  <2> QED
    BY <1>0, <2>2, <2>3
<1>2. CASE RetireTicket
  <2>1. running \in Source
    BY <1>0, <1>2 DEF RetireTicket, Batches, Types, TypeOK
  <2>2. \A s \in Source : leased'[s] = IF s = running THEN leased[s] - 1 ELSE leased[s]
    BY <1>2 DEF RetireTicket, Release
  <2>3. running' = None /\ UNCHANGED <<batch, offered>>
    BY <1>2 DEF RetireTicket
  <2> QED
    BY <1>0, <2>1, <2>2, <2>3
<1>3. CASE SubmitAccepted
  <2>1. PICK s \in batch : running' = s /\ batch' = batch \ {s}
    BY <1>3 DEF SubmitAccepted
  <2>2. running = None /\ UNCHANGED frameVars
    BY <1>0, <1>3 DEF SubmitAccepted, Batches
  <2> QED
    BY <1>0, <2>1, <2>2 DEF frameVars
<1>4. CASE SubmitRefused
  <2>1. PICK s \in batch : Release({s}) /\ batch' = batch \ {s}
    BY <1>4 DEF SubmitRefused
  <2>2. UNCHANGED <<offered, running>>
    BY <1>4 DEF SubmitRefused
  <2>3. \A r \in Source : leased'[r] = IF r = s THEN leased[r] - 1 ELSE leased[r]
    BY <2>1 DEF Release
  <2> QED
    BY <1>0, <2>1, <2>2, <2>3
<1>5. CASE BeginBatch
  <2>1. batch = {} /\ running = None /\ batch' = Newest /\ UNCHANGED running
    BY <1>0, <1>5 DEF BeginBatch, Batches
  <2>2. \A s \in Source : /\ leased'[s] = IF s \in Stale THEN leased[s] - 1 ELSE leased[s]
                          /\ offered'[s] = NoFrame
    BY <1>5 DEF BeginBatch, Release
  <2>3. \A s \in Source : Offered(s) <=> s \in Newest \/ s \in Stale
    BY DEF Stale, Newest
  <2>4. Newest \cap Stale = {}
    BY DEF Stale
  <2> HIDE DEF Newest, Stale
  <2> QED
    BY <1>0, <2>1, <2>2, <2>3, <2>4
<1>6. CASE BeginBusy
  <2>1. UNCHANGED <<batch, running>>
    BY <1>6 DEF BeginBusy, batchVars
  <2>2. \A s \in Source : /\ leased'[s] = IF s \in Stale \cup Newest THEN leased[s] - 1 ELSE leased[s]
                          /\ offered'[s] = NoFrame
    BY <1>6 DEF BeginBusy, Release
  <2>3. \A s \in Source : Offered(s) <=> s \in Stale \cup Newest
    BY DEF Stale, Newest
  <2> QED
    BY <1>0, <2>1, <2>2, <2>3
<1>7. CASE FinishIncomplete \/ FinishPublish
  BY <1>0, <1>7 DEF FinishIncomplete, FinishPublish, ClearBatch, frameVars
<1>8. CASE RetireNothing \/ Schedule \/ BeginDisagreed \/ BeginIncomplete \/ Acquire \/ InteractionTick
  BY <1>0, <1>8 DEF RetireNothing, Schedule, BeginDisagreed, BeginIncomplete, Acquire,
                    InteractionTick, batchVars, frameVars
<1>9. CASE WorkerEnds \/ ChangeTopology \/ ChangeScope
  BY <1>0, <1>9 DEF WorkerEnds, ChangeTopology, ChangeScope, batchVars, frameVars
<1>10. CASE UNCHANGED vars
  BY <1>0, <1>10 DEF vars, batchVars, frameVars
<1> QED
  BY <1>1, <1>2, <1>3, <1>4, <1>5, <1>6, <1>7, <1>8, <1>9, <1>10 DEF Next, Turn

(* Every step keeps the types; leases stay within the pool, because a frame is
   leased only of a display that has one to spare. *)
LEMMA TypesStep == Inv /\ [Next]_vars => Types'
<1> SUFFICES ASSUME Inv, [Next]_vars PROVE Types'
  OBVIOUS
<1> DEFINE
      World == topology \in 1 .. MaxTopology /\ scope \in Scopes
      Times == {untilCapture, untilScene} \subseteq (0 - MaxWake) .. ScenePeriod
      Bools == {sceneRunning, scenePending, failed, scheduled, ok} \subseteq BOOLEAN
      Frames == /\ leased \in [Source -> 0 .. PoolDepth]
                /\ offered \in [Source -> Frame \cup {NoFrame}]
      Batched == /\ batch \in SUBSET Source
                 /\ merged \in SUBSET Source
                 /\ batchSize \in 0 .. Cardinality(Source)
                 /\ running \in Source \cup {None}
                 /\ ticket \in {"none", "running", "complete", "failed"}
                 /\ batchOf \in [topology : 0 .. MaxTopology, scopes : SUBSET Scopes]
      Phase == phase \in {"idle", "retire", "submit", "schedule", "begin", "scene", "tick"}
      Shown == /\ published \in [topology : 0 .. MaxTopology, whole : BOOLEAN]
               /\ viewed \in [topology : 0 .. MaxTopology, whole : BOOLEAN]
<1>0. /\ SlotTypeOK /\ World /\ Times /\ Bools /\ Frames /\ Batched /\ Phase /\ Shown
      /\ Types /\ Clocks /\ Batches /\ Leases
  BY DEF Inv, Types, TypeOK
<1>t. ASSUME SlotTypeOK', World', Times', Bools', Frames', Batched', Phase', Shown' PROVE Types'
  BY <1>t DEF Types, TypeOK
<1>1. ASSUME NEW w \in 1 .. MaxWake, NEW S \in SUBSET Source, BeginTurn(w, S) PROVE Types'
  <2>1. Times'
    <3>1. untilCapture - w \in (0 - MaxWake) .. ScenePeriod /\ untilScene >= 0 /\ untilScene \in Int
      BY <1>0, <1>1, DesktopAssumption DEF Clocks, BeginTurn
    <3>2. untilCapture' \in 1 .. ScenePeriod /\ untilScene' = untilScene - w
      BY <1>1, <3>1, ConsumedAhead DEF BeginTurn
    <3> QED
      BY <1>0, <3>1, <3>2, DesktopAssumption
  <2>2. Frames'
    <3>1. \A s \in S : s \in Source /\ leased[s] + 1 \in 0 .. PoolDepth
      BY <1>0, <1>1, DesktopAssumption DEF BeginTurn
    <3>2. [topology |-> topology, scope |-> scope] \in Frame
      BY <1>0 DEF Frame
    <3> QED
      BY <1>0, <1>1, <3>1, <3>2 DEF BeginTurn, OfferAll
  <2>3. World' /\ Bools' /\ Batched' /\ Phase' /\ Shown' /\ SlotTypeOK'
    BY <1>0, <1>1 DEF BeginTurn, slotVars, worldVars, schedulerVars, batchVars, sceneVars, SlotTypeOK
  <2> QED
    BY <1>t, <2>1, <2>2, <2>3
<1>r. ASSUME NEW R \in SUBSET Source, Release(R), \A s \in R : leased[s] # 0
      PROVE  leased' \in [Source -> 0 .. PoolDepth]
  BY <1>0, <1>r, DesktopAssumption DEF Release
<1>2. CASE RetireNothing
  BY <1>0, <1>2, <1>t DEF RetireNothing, slotVars, worldVars, clockVars, schedulerVars, batchVars,
                           frameVars, sceneVars, SlotTypeOK
<1>3. CASE RetireTicket
  <2>1. running \in Source /\ leased[running] # 0
    BY <1>0, <1>3 DEF RetireTicket, Batches, Leases, Owed
  <2>2. Frames'
    <3>1. {running} \in SUBSET Source /\ \A s \in {running} : leased[s] # 0
      BY <2>1
    <3> QED
      BY <1>0, <1>3, <1>r, <3>1 DEF RetireTicket
  <2>3. merged' \in SUBSET Source /\ failed' \in BOOLEAN /\ ok' \in BOOLEAN
    <3>1. failed \in BOOLEAN /\ ok \in BOOLEAN
      BY <1>0
    <3>2. CASE ticket = "complete"
      BY <1>0, <1>3, <2>1, <3>1, <3>2 DEF RetireTicket
    <3>3. CASE ticket # "complete"
      BY <1>0, <1>3, <2>1, <3>1, <3>3 DEF RetireTicket
    <3> QED
      BY <3>2, <3>3
  <2>4. Bools'
    BY <1>0, <1>3, <2>3 DEF RetireTicket, schedulerVars
  <2>5. World' /\ Times' /\ Batched' /\ Phase' /\ Shown' /\ SlotTypeOK'
    BY <1>0, <1>3, <2>3 DEF RetireTicket, slotVars, worldVars, clockVars, sceneVars, SlotTypeOK
  <2> QED
    BY <1>t, <2>2, <2>4, <2>5
<1>4. CASE SubmitAccepted
  <2>1. running' \in Source /\ batch' \in SUBSET Source
    BY <1>0, <1>4 DEF SubmitAccepted, Lowest
  <2>2. phase' \in {"schedule", "scene", "idle"} /\ {scheduled', ok'} \subseteq BOOLEAN
    BY <1>0, <1>4, OnwardSteps DEF SubmitAccepted
  <2>3. Bools'
    BY <1>0, <1>4, <2>2 DEF SubmitAccepted, schedulerVars
  <2>4. World' /\ Times' /\ Frames' /\ Batched' /\ Phase' /\ Shown' /\ SlotTypeOK'
    BY <1>0, <1>4, <2>1, <2>2 DEF SubmitAccepted, slotVars, worldVars, clockVars, frameVars, sceneVars, SlotTypeOK
  <2> QED
    BY <1>t, <2>3, <2>4
<1>5. CASE SubmitRefused
  <2>1. PICK s \in batch : Release({s}) /\ batch' = batch \ {s}
    BY <1>5 DEF SubmitRefused
  <2>2. s \in Source /\ leased[s] # 0
    BY <1>0, <2>1 DEF Leases, Owed
  <2>3. Frames'
    <3>1. {s} \in SUBSET Source /\ \A r \in {s} : leased[r] # 0
      BY <2>2
    <3> QED
      BY <1>0, <1>5, <1>r, <2>1, <3>1 DEF SubmitRefused
  <2>4. World' /\ Times' /\ Bools' /\ Batched' /\ Phase' /\ Shown' /\ SlotTypeOK'
    BY <1>0, <1>5, <2>1 DEF SubmitRefused, slotVars, worldVars, clockVars, schedulerVars, turnVars, sceneVars, SlotTypeOK
  <2> QED
    BY <1>t, <2>3, <2>4
<1>6. CASE FinishIncomplete \/ FinishPublish
  <2>1. SlotTypeOK' /\ ClearBatch /\ CompleteScene /\ UNCHANGED <<worldVars, clockVars, frameVars>>
    BY <1>0, <1>6, SlotSteps DEF FinishIncomplete, FinishPublish
  <2>2. /\ {scenePending', sceneRunning', scheduled', ok'} \subseteq BOOLEAN
        /\ phase' \in {"begin", "schedule", "scene", "idle"}
    BY <1>0, <2>1, CompleteSceneSteps
  <2>3. Shown'
    <3>1. CASE FinishIncomplete
      BY <1>0, <3>1 DEF FinishIncomplete, sceneVars
    <3>2. CASE FinishPublish
      <4> DEFINE all == batchOf.scopes = {merged}
      <4>1. all \in BOOLEAN
        BY Zenon
      <4>2. published' = [topology |-> batchOf.topology, whole |-> all] /\ UNCHANGED viewed
        BY <3>2 DEF FinishPublish
      <4> HIDE DEF all
      <4> QED
        BY <1>0, <4>1, <4>2
    <3> QED
      BY <1>6, <3>1, <3>2
  <2>4. failed' = FALSE /\ Bools'
    BY <2>1, <2>2 DEF ClearBatch
  <2>5. Batched'
    <3>1. 0 \in 0 .. Cardinality(Source) /\ NoBatch \in [topology : 0 .. MaxTopology, scopes : SUBSET Scopes]
      BY FS_CardinalityType, DesktopAssumption DEF NoBatch
    <3> QED
      BY <1>0, <2>1, <3>1 DEF ClearBatch
  <2>6. World' /\ Times' /\ Frames' /\ Phase'
    BY <1>0, <2>1, <2>2 DEF worldVars, clockVars, frameVars
  <2> QED
    BY <1>t, <2>1, <2>3, <2>4, <2>5, <2>6
<1>7. CASE Schedule
  <2>1. untilScene' \in 1 .. ScenePeriod /\ UNCHANGED untilCapture
    BY <1>0, <1>7, ConsumedAhead DEF Schedule
  <2>2. Times'
    BY <1>0, <2>1, DesktopAssumption
  <2>3. Bools'
    <3>1. {sceneRunning, scenePending, failed, scheduled, ok} \subseteq BOOLEAN
      BY <1>0
    <3>2. scenePending' \in BOOLEAN /\ sceneRunning' \in BOOLEAN
      BY <1>7, Zenon DEF Schedule
    <3>3. scheduled' \in BOOLEAN /\ ok' \in BOOLEAN
      BY <1>7, <3>1 DEF Schedule, EndTurn
    <3> QED
      BY <1>7, <3>1, <3>2, <3>3 DEF Schedule, batchVars
  <2>4. Phase'
    BY <1>7 DEF Schedule, EndTurn
  <2>5. World' /\ Frames' /\ Batched' /\ Shown' /\ SlotTypeOK'
    BY <1>0, <1>7 DEF Schedule, slotVars, worldVars, batchVars, frameVars, sceneVars, SlotTypeOK
  <2> QED
    BY <1>t, <2>2, <2>3, <2>4, <2>5
<1>8. CASE BeginDisagreed
  <2>1. phase' \in {"schedule", "scene", "idle"} /\ {scheduled', ok'} \subseteq BOOLEAN
    BY <1>0, <1>8, OnwardSteps DEF BeginDisagreed
  <2>2. Bools'
    BY <1>0, <1>8, <2>1 DEF BeginDisagreed, schedulerVars, batchVars
  <2>3. World' /\ Times' /\ Frames' /\ Batched' /\ Phase' /\ Shown' /\ SlotTypeOK'
    BY <1>0, <1>8, <2>1 DEF BeginDisagreed, slotVars, worldVars, clockVars, batchVars, frameVars, sceneVars, SlotTypeOK
  <2> QED
    BY <1>t, <2>2, <2>3
<1>9. CASE BeginIncomplete
  <2>1. /\ {scenePending', sceneRunning', scheduled', ok'} \subseteq BOOLEAN
        /\ phase' \in {"begin", "schedule", "scene", "idle"}
    BY <1>0, <1>9, CompleteSceneSteps DEF BeginIncomplete
  <2>2. Bools'
    BY <1>0, <1>9, <2>1 DEF BeginIncomplete, batchVars
  <2>3. World' /\ Times' /\ Frames' /\ Batched' /\ Phase' /\ Shown' /\ SlotTypeOK'
    BY <1>0, <1>9, <2>1 DEF BeginIncomplete, slotVars, worldVars, clockVars, batchVars, frameVars, sceneVars, SlotTypeOK
  <2> QED
    BY <1>t, <2>2, <2>3
<1>o. \A s \in Source : Offered(s) => leased[s] # 0
  BY <1>0, DesktopAssumption DEF Leases, Owed, None
<1>10. CASE BeginBatch
  <2>1. Newest # {}
    BY <1>10, WholeHasFrames DEF BeginBatch
  <2>2. PICK n \in 1 .. MaxTopology : Max({offered[s].topology : s \in Newest}) = n
    BY <1>0, <2>1, NewestTogether
  <2>3. {offered[s].scope : s \in Newest} \in SUBSET Scopes
    BY <1>0 DEF Newest, Offered, Frame
  <2>4. Batched'
    BY <1>0, <1>10, <2>2, <2>3, NewestIsFinite DEF BeginBatch
  <2>5. Frames'
    <3>1. Stale \in SUBSET Source /\ \A s \in Stale : leased[s] # 0
      BY <1>o DEF Stale
    <3> QED
      BY <1>0, <1>10, <1>r, <3>1 DEF BeginBatch
  <2>6. SlotTypeOK'
    BY <1>0, <1>10, SlotSteps DEF BeginBatch
  <2>7. World' /\ Times' /\ Bools' /\ Phase' /\ Shown'
    BY <1>0, <1>10 DEF BeginBatch, worldVars, clockVars, schedulerVars, sceneVars
  <2> QED
    BY <1>t, <2>4, <2>5, <2>6, <2>7
<1>11. CASE BeginBusy
  <2>1. UNCHANGED slotVars
    BY <1>0, <1>11, SlotSteps DEF BeginBusy
  <2>2. phase' \in {"schedule", "scene", "idle"} /\ {scheduled', ok'} \subseteq BOOLEAN
    BY <1>0, <1>11, OnwardSteps DEF BeginBusy
  <2>3. Frames'
    <3>1. Stale \cup Newest \in SUBSET Source /\ \A s \in Stale \cup Newest : leased[s] # 0
      BY <1>o DEF Stale, Newest
    <3> QED
      BY <1>0, <1>11, <1>r, <3>1 DEF BeginBusy
  <2>4. Bools'
    BY <1>0, <1>11, <2>2 DEF BeginBusy, schedulerVars, batchVars
  <2>5. World' /\ Times' /\ Batched' /\ Phase' /\ Shown' /\ SlotTypeOK'
    BY <1>0, <1>11, <2>1, <2>2 DEF BeginBusy, slotVars, worldVars, clockVars, batchVars, sceneVars, SlotTypeOK
  <2> QED
    BY <1>t, <2>3, <2>4, <2>5
<1>12. CASE Acquire
  <2>1. SlotTypeOK'
    BY <1>0, <1>12, SlotSteps DEF Acquire, slotVars, SlotTypeOK
  <2>2. Shown'
    <3>1. NoScene \in [topology : 0 .. MaxTopology, whole : BOOLEAN]
      BY DesktopAssumption DEF NoScene
    <3> HIDE DEF NoScene
    <3> QED
      BY <1>0, <1>12, <3>1 DEF Acquire, sceneVars
  <2>3. Phase' /\ scheduled' \in BOOLEAN /\ ok' \in BOOLEAN
    BY <1>0, <1>12 DEF Acquire, turnVars, EndTurn
  <2>4. Bools'
    BY <1>0, <1>12, <2>3 DEF Acquire, schedulerVars, batchVars
  <2>5. World' /\ Times' /\ Frames' /\ Batched'
    BY <1>0, <1>12 DEF Acquire, worldVars, clockVars, frameVars, batchVars
  <2> QED
    BY <1>t, <2>1, <2>2, <2>3, <2>4, <2>5
<1>13. CASE InteractionTick
  BY <1>0, <1>13, <1>t DEF InteractionTick, EndTurn, slotVars, worldVars, clockVars, schedulerVars, batchVars,
                           frameVars, sceneVars, SlotTypeOK
<1>14. CASE WorkerEnds
  BY <1>0, <1>14, <1>t DEF WorkerEnds, slotVars, worldVars, clockVars, schedulerVars, turnVars,
                           frameVars, sceneVars, SlotTypeOK
<1>15. CASE ChangeTopology
  BY <1>0, <1>15, <1>t, DesktopAssumption DEF ChangeTopology, slotVars, clockVars, schedulerVars, batchVars, turnVars,
                           frameVars, sceneVars, SlotTypeOK
<1>16. CASE ChangeScope
  BY <1>0, <1>16, <1>t, DesktopAssumption DEF ChangeScope, slotVars, schedulerVars, batchVars, turnVars,
                           frameVars, sceneVars, SlotTypeOK
<1>17. CASE UNCHANGED vars
  BY <1>0, <1>17, <1>t DEF vars, slotVars, worldVars, clockVars, schedulerVars, batchVars, turnVars,
                           frameVars, sceneVars, SlotTypeOK
<1> QED
  BY <1>1, <1>2, <1>3, <1>4, <1>5, <1>6, <1>7, <1>8, <1>9, <1>10, <1>11, <1>12, <1>13, <1>14,
     <1>15, <1>16, <1>17 DEF Next, Turn

(* Every step keeps the order of layouts: a frame offered now is no older than a
   batch, a batch than the scene on offer, that than the scene in view. *)
LEMMA NewerStep == Inv /\ [Next]_vars => Newer'
<1> SUFFICES ASSUME Inv, [Next]_vars PROVE Newer'
  OBVIOUS
<1> USE DEF Newer, Offered
<1>0. /\ Types /\ Newer /\ Batches /\ SlotTypeOK
      /\ topology \in Nat /\ topology # 0 /\ batchOf.topology \in Nat
      /\ published.topology \in Nat /\ viewed.topology \in Nat
      /\ offered \in [Source -> Frame \cup {NoFrame}]
      /\ \A s \in Source : Offered(s) => offered[s].topology \in Nat
  BY DesktopAssumption DEF Inv, Types, TypeOK, Frame
<1>f. \A t \in Nat : \A S : t # 0 => [topology |-> t, scope |-> S] # NoFrame
  BY DEF NoFrame
<1>1. ASSUME NEW w \in 1 .. MaxWake, NEW S \in SUBSET Source, BeginTurn(w, S) PROVE Newer'
  <2>1. UNCHANGED <<slotVars, worldVars, batchVars, sceneVars>> /\ S \subseteq scope
    BY <1>1 DEF BeginTurn
  <2>2. \A s \in Source :
          offered'[s] = IF s \in S THEN [topology |-> topology, scope |-> scope] ELSE offered[s]
    BY <1>1 DEF BeginTurn, OfferAll
  <2> QED
    BY <1>0, <2>1, <2>2 DEF slotVars, worldVars, batchVars, sceneVars, BatchActive, Held
<1>2. CASE RetireNothing \/ Schedule \/ BeginDisagreed \/ BeginIncomplete \/ InteractionTick
  BY <1>0, <1>2 DEF RetireNothing, Schedule, BeginDisagreed, BeginIncomplete, InteractionTick, slotVars,
                    worldVars, batchVars, frameVars, sceneVars, BatchActive, Held
<1>3. CASE RetireTicket \/ SubmitAccepted \/ SubmitRefused \/ WorkerEnds
  BY <1>0, <1>3 DEF RetireTicket, SubmitAccepted, SubmitRefused, WorkerEnds, slotVars,
                    worldVars, frameVars, sceneVars, BatchActive, Held
<1>4. CASE FinishIncomplete
  <2>1. UNCHANGED pending
    BY <1>0, <1>4, SlotSteps DEF FinishIncomplete
  <2> QED
    BY <1>0, <1>4, <2>1 DEF FinishIncomplete, ClearBatch, NoBatch, worldVars, frameVars, sceneVars, BatchActive, Held
<1>5. CASE FinishPublish
  <2>1. /\ published'.topology = batchOf.topology
        /\ batchOf'.topology = 0 /\ batchSize' = 0
        /\ UNCHANGED <<worldVars, frameVars, viewed>>
        /\ BatchActive
    BY <1>0, <1>5 DEF FinishPublish, ClearBatch, NoBatch, BatchDone, Batches
  <2> QED
    BY <1>0, <2>1 DEF worldVars, frameVars, BatchActive
<1>6. CASE BeginBatch
  <2>1. Newest # {}
    BY <1>6, WholeHasFrames DEF BeginBatch
  <2>2. PICK n \in 1 .. MaxTopology : /\ \A s \in Newest : offered[s].topology = n
                                      /\ Max({offered[s].topology : s \in Newest}) = n
    BY <1>0, <2>1, NewestTogether
  <2>3. PICK s \in Newest : s \in Source /\ Offered(s)
    BY <2>1 DEF Newest
  <2>4. n <= topology /\ published.topology <= n /\ viewed.topology <= n
    BY <1>0, <2>2, <2>3
  <2>5. batchOf'.topology = n /\ UNCHANGED <<worldVars, sceneVars>> /\ \A r \in Source : offered'[r] = NoFrame
    BY <1>6, <2>2 DEF BeginBatch
  <2>6. UNCHANGED pending
    BY <1>0, <1>6, SlotSteps DEF BeginBatch
  <2> QED
    BY <1>0, <2>2, <2>4, <2>5, <2>6 DEF worldVars, sceneVars, Held
<1>7. CASE BeginBusy
  <2>1. UNCHANGED slotVars /\ \A r \in Source : offered'[r] = NoFrame
    BY <1>0, <1>7, SlotSteps DEF BeginBusy
  <2> QED
    BY <1>0, <1>7, <2>1 DEF BeginBusy, slotVars, worldVars, batchVars, sceneVars, BatchActive, Held
<1>8. CASE Acquire
  <2>1. UNCHANGED <<worldVars, batchVars, frameVars>>
    BY <1>8 DEF Acquire
  <2>2. CASE /\ AcquireNothingRetired \/ AcquireSeesRoom \/ AcquireReturn \/ AcquireRefused
             /\ UNCHANGED sceneVars
    <3>1. UNCHANGED pending
      BY <1>0, <2>2, SlotSteps DEF slotVars
    <3> QED
      BY <1>0, <2>1, <2>2, <3>1 DEF worldVars, batchVars, frameVars, sceneVars, BatchActive, Held
  <2>3. CASE AcquireTake /\ viewed' = (IF Held(pending) THEN published ELSE viewed) /\ published' = NoScene
    <3>1. ~Held(pending)' /\ published'.topology = 0
      BY <1>0, <2>3, SlotSteps DEF NoScene
    <3> QED
      BY <1>0, <2>1, <2>3, <3>1 DEF worldVars, batchVars, frameVars, BatchActive
  <2> QED
    BY <1>8, <2>2, <2>3 DEF Acquire
<1>9. CASE ChangeTopology \/ ChangeScope
  BY <1>0, <1>9 DEF ChangeTopology, ChangeScope, slotVars, batchVars, frameVars, sceneVars, BatchActive, Held
<1>10. CASE UNCHANGED vars
  BY <1>0, <1>10 DEF vars, slotVars, worldVars, batchVars, frameVars, sceneVars, BatchActive, Held
<1> QED
  BY <1>1, <1>2, <1>3, <1>4, <1>5, <1>6, <1>7, <1>8, <1>9, <1>10 DEF Next, Turn

LEMMA NextInv == Inv /\ [Next]_vars => Inv'
BY TypesStep, ClocksStep, BatchesStep, LeasesStep, NewerStep DEF Inv

-------------------------------------------------------------------------------
(* Whole scopes *)

(* begin_batch takes the frames of all displays of one scope, or none. *)
LEMMA WholeIsOneScope ==
    ASSUME Types, Newer, ScopesToldApart, Whole
    PROVE  \E T \in Scopes :
              /\ {offered[s].scope : s \in Newest} = {T}
              /\ Cardinality(T) = Cardinality(Newest)
              /\ Newest \subseteq T
<1>1. PICK r \in Newest : TRUE
  BY WholeHasFrames
<1> DEFINE T == offered[r].scope
<1>2. \A s \in Newest : s \in Source /\ offered[s].scope \in Scopes /\ s \in offered[s].scope
  BY DEF Newest, Types, TypeOK, Frame, Offered, Newer
<1>3. \A s \in Newest : Cardinality(offered[s].scope) = Cardinality(Newest)
  BY DEF Whole, Counts
<1>4. \A s \in Newest : offered[s].scope = T
  <2>1. CASE Cardinality(Newest) = 1
    <3>1. PICK x : Newest = {x}
      BY <2>1, NewestIsFinite, FS_Singleton
    <3> QED
      BY <1>1, <3>1
  <2>2. CASE Cardinality(Newest) # 1
    BY <1>1, <1>2, <1>3, <2>2 DEF ScopesToldApart
  <2> QED
    BY <2>1, <2>2
<1>5. {offered[s].scope : s \in Newest} = {T}
  BY <1>1, <1>4
<1>6. Newest \subseteq T
  BY <1>2, <1>4
<1> QED
  BY <1>1, <1>2, <1>3, <1>5, <1>6

(* A batch whose every frame was merged is the scope. *)
LEMMA MergedIsScope ==
    ASSUME Members, BatchActive, ScopeComplete
    PROVE  batchOf.scopes = {merged}
<1>1. PICK T \in Scopes : batchOf.scopes = {T} /\ Cardinality(T) = batchSize /\ merged \subseteq T
  BY DEF Members
<1>2. IsFiniteSet(T)
  BY <1>1, DesktopAssumption, FS_Subset
<1>3. merged = T
  BY <1>1, <1>2, FS_Subset DEF ScopeComplete
<1> QED
  BY <1>1, <1>3

LEMMA WholeInit == Init => Members /\ WholeScope
BY DEF Init, Members, WholeScope, BatchActive, NoScene

LEMMA MembersStep == ScopesToldApart => (Inv /\ Members /\ [Next]_vars => Members')
<1> SUFFICES ASSUME ScopesToldApart, Inv, Members, [Next]_vars PROVE Members'
  OBVIOUS
<1> USE DEF Members, BatchActive
<1>0. Types /\ Batches /\ Newer
  BY DEF Inv
<1>1. CASE RetireTicket
  BY <1>0, <1>1 DEF RetireTicket, Batches, None
<1>2. CASE SubmitAccepted
  BY <1>2 DEF SubmitAccepted, None
<1>3. CASE SubmitRefused
  BY <1>3 DEF SubmitRefused, None
<1>4. CASE FinishIncomplete \/ FinishPublish
  BY <1>4 DEF FinishIncomplete, FinishPublish, ClearBatch
<1>5. CASE BeginBatch
  <2>1. PICK T \in Scopes : /\ {offered[s].scope : s \in Newest} = {T}
                            /\ Cardinality(T) = Cardinality(Newest)
                            /\ Newest \subseteq T
    BY <1>0, <1>5, WholeIsOneScope DEF BeginBatch
  <2>2. batchOf'.scopes = {T} /\ batchSize' = Cardinality(T) /\ batch' = Newest
    BY <1>5, <2>1 DEF BeginBatch
  <2>3. merged' = {} /\ running' = None
    BY <1>0, <1>5 DEF BeginBatch, Batches
  <2> QED
    BY <2>1, <2>2, <2>3
<1>6. CASE \E w \in 1 .. MaxWake, S \in SUBSET Source : BeginTurn(w, S)
  BY <1>6 DEF BeginTurn, batchVars
<1>7. CASE RetireNothing \/ Schedule \/ BeginDisagreed \/ BeginIncomplete \/ BeginBusy \/ Acquire \/ InteractionTick
  BY <1>7 DEF RetireNothing, Schedule, BeginDisagreed, BeginIncomplete, BeginBusy, Acquire, InteractionTick, batchVars
<1>8. CASE WorkerEnds
  BY <1>8 DEF WorkerEnds
<1>9. CASE ChangeTopology \/ ChangeScope \/ UNCHANGED vars
  BY <1>9 DEF ChangeTopology, ChangeScope, vars, batchVars
<1> QED
  BY <1>1, <1>2, <1>3, <1>4, <1>5, <1>6, <1>7, <1>8, <1>9 DEF Next, Turn

(* Only finish_batch publishes, and only a complete batch. *)
LEMMA WholeStep == Inv /\ Members /\ WholeScope /\ [Next]_vars => WholeScope'
<1> SUFFICES ASSUME Inv, Members, WholeScope, [Next]_vars PROVE WholeScope'
  OBVIOUS
<1> USE DEF WholeScope
<1>1. CASE FinishPublish
  <2>1. BatchActive /\ ScopeComplete
    BY <1>1 DEF Inv, Batches, FinishPublish, BatchDone
  <2>2. batchOf.scopes = {merged}
    BY <2>1, MergedIsScope
  <2>3. published'.whole = (batchOf.scopes = {merged}) /\ UNCHANGED viewed
    BY <1>1 DEF FinishPublish
  <2> QED
    BY <2>2, <2>3
<1>2. CASE Acquire
  BY <1>2 DEF Acquire, sceneVars, NoScene
<1>3. CASE UNCHANGED sceneVars
  BY <1>3 DEF sceneVars
<1>4. Next => FinishPublish \/ Acquire \/ UNCHANGED sceneVars
  BY DEF Next, Turn, BeginTurn, RetireNothing, RetireTicket, SubmitAccepted, SubmitRefused, FinishIncomplete,
         Schedule, BeginDisagreed, BeginIncomplete, BeginBatch, BeginBusy, InteractionTick, WorkerEnds,
         ChangeTopology, ChangeScope
<1> QED
  BY <1>1, <1>2, <1>3, <1>4 DEF vars

-------------------------------------------------------------------------------
(* Theorems *)

(* With one display, or two, counting the displays of a scope names the scope. *)
LEMMA TwoDisplaysToldApart ==
    ASSUME NEW a, NEW b, Source = {a, b}
    PROVE  ScopesToldApart
<1> SUFFICES ASSUME NEW S \in Scopes, NEW T \in Scopes, Cardinality(S) = Cardinality(T), Cardinality(S) # 1
             PROVE  S = T
  BY DEF ScopesToldApart
<1>1. \A R \in Scopes : R = {a} \/ R = {b} \/ R = {a, b}
  <2> SUFFICES ASSUME NEW R \in Scopes PROVE R = {a} \/ R = {b} \/ R = {a, b}
    OBVIOUS
  <2>1. R \subseteq {a, b} /\ R # {}
    BY DesktopAssumption
  <2> QED
    BY <2>1
<1>2. Cardinality({a}) = 1 /\ Cardinality({b}) = 1
  BY FS_Singleton
<1> QED
  BY <1>1, <1>2

(* Types of the pipeline's state (desktop_neural_coordinator.hpp,
   dual_rate_scheduler.hpp). *)
THEOREM TypeCorrect == Spec => []TypeOK
<1>1. Inv => TypeOK
  BY DEF Inv, Types
<1> QED
  BY <1>1, InitInv, NextInv, PTL DEF Spec, Safety

(* No frame of the capture set is lost and none released twice, on whatever path
   it leaves the coordinator (release_frame of
   desktop_neural_coordinator.cpp). *)
THEOREM LeasesAgree == Spec => []LeasesAccounted
<1>1. Inv => LeasesAccounted
  BY OwedIsCounted DEF Inv, Leases, LeasesAccounted
<1> QED
  BY <1>1, InitInv, NextInv, PTL DEF Spec, Safety

(* The store is being written exactly while a batch is open. *)
THEOREM WritesFollowBatches == Spec => []WriteFollowsBatch
<1>1. Inv => WriteFollowsBatch
  BY DEF Inv, Batches
<1> QED
  BY <1>1, InitInv, NextInv, PTL DEF Spec, Safety

(* Where the scopes can be told apart by counting, and always with two displays,
   frames, batches and scenes stay whole. *)
THEOREM ScenesAreWhole == ScopesToldApart => (Spec => []ScenesHold)
<1> SUFFICES ASSUME ScopesToldApart PROVE Spec => []ScenesHold
  OBVIOUS
<1> DEFINE All == Inv /\ Members /\ WholeScope
<1>1. Init => All
  BY InitInv, WholeInit
<1>2. All /\ [Next]_vars => All'
  BY NextInv, MembersStep, WholeStep
<1>3. All => ScenesHold
  BY OwedIsCounted DEF Inv, Types, Leases, Batches, LeasesAccounted, ScenesHold
<1> HIDE DEF All
<1> QED
  BY <1>1, <1>2, <1>3, PTL DEF Spec, Safety

(* The consumer never sees an older layout of the displays after a newer one. *)
THEOREM TopologyNeverFalls == Spec => TopologyForward
<1>1. Inv /\ [Next]_vars => viewed'.topology >= viewed.topology
  <2> SUFFICES ASSUME Inv, [Next]_vars PROVE viewed'.topology >= viewed.topology
    OBVIOUS
  <2>1. viewed.topology \in Int /\ published.topology \in Int
    BY DEF Inv, Types
  <2>2. Held(pending) => viewed.topology <= published.topology
    BY DEF Inv, Newer
  <2>3. viewed' = viewed \/ viewed' = (IF Held(pending) THEN published ELSE viewed)
    BY DEF vars, sceneVars, Next, Turn, BeginTurn, RetireNothing, RetireTicket, SubmitAccepted, SubmitRefused,
           FinishIncomplete, FinishPublish, Schedule, BeginDisagreed, BeginIncomplete, BeginBatch, BeginBusy,
           Acquire, InteractionTick, WorkerEnds, ChangeTopology, ChangeScope
  <2> QED
    BY <2>1, <2>2, <2>3
<1>2. Inv /\ [Next]_vars => [viewed'.topology >= viewed.topology]_vars
  BY <1>1
<1> QED
  BY <1>2, InitInv, NextInv, PTL DEF Spec, Safety, TopologyForward
===============================================================================
