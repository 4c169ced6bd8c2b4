------------------------------ MODULE SceneStore ------------------------------
(* SceneStore with its packets: a producer and a consumer thread over the slot *)
(* protocol of SceneSlots.  The contents of a slot are the number of the scene *)
(* it holds, or Torn while a writer is part way through it, so a read of a     *)
(* slot under a writer's hands is visible as a change of a held scene.         *)
EXTENDS SceneSlots

CONSTANT MaxEpoch           \* bound on publications

ASSUME MaxEpochAssumption == MaxEpoch \in Nat

VARIABLES
    content,                \* what each slot's bytes hold
    epoch,                  \* scenes published so far (stats published)
    replaced,               \* stats replaced: published and never acquired
    acquired                \* stats acquired: taken by the consumer

packetVars == <<content, epoch, replaced, acquired>>
storeVars == <<slotVars, packetVars>>

Torn == 0

StoreInit ==
    /\ SlotInit
    /\ content = [s \in Slot |-> Torn]
    /\ epoch = 0
    /\ replaced = 0
    /\ acquired = 0

-------------------------------------------------------------------------------
ProducerBeginWrite ==
    /\ BeginWrite \/ BeginWriteBusy
    /\ UNCHANGED packetVars

(* The caller fills the slot it was handed, in at least two stores: until the
   last one the bytes are neither the old packet nor the new one. *)
ProducerWritePart ==
    /\ Held(writing)
    /\ content' = [content EXCEPT ![writing] = Torn]
    /\ UNCHANGED <<slotVars, epoch, replaced, acquired>>

ProducerWriteRest ==
    /\ Held(writing)
    /\ epoch < MaxEpoch
    /\ content[writing] = Torn
    /\ content' = [content EXCEPT ![writing] = epoch + 1]
    /\ UNCHANGED <<slotVars, epoch, replaced, acquired>>

(* commit_trusted, or commit_checked of a valid packet.  A packet that
   commit_checked rejects leaves the write open and the caller aborts. *)
ProducerCommit ==
    /\ Held(writing)
    /\ content[writing] = epoch + 1
    /\ Commit
    /\ epoch' = epoch + 1
    /\ replaced' = IF Held(pending) THEN replaced + 1 ELSE replaced
    /\ UNCHANGED <<content, acquired>>

ProducerAbortWrite == AbortWrite /\ UNCHANGED packetVars

ConsumerAcquireTake ==
    /\ AcquireTake
    /\ acquired' = IF Held(pending) THEN acquired + 1 ELSE acquired
    /\ UNCHANGED <<content, epoch, replaced>>

ConsumerAcquireEntry ==
    /\ AcquireNothingRetired \/ AcquireSeesRoom \/ AcquireReturn
    /\ UNCHANGED packetVars

ConsumerRefused == AcquireRefused /\ UNCHANGED packetVars

Producer ==
    \/ ProducerBeginWrite
    \/ ProducerWritePart
    \/ ProducerWriteRest
    \/ ProducerCommit
    \/ ProducerAbortWrite

Consumer == ConsumerAcquireEntry \/ ConsumerAcquireTake \/ ConsumerRefused

StoreNext == Producer \/ Consumer

(* The interaction loop calls acquire_latest on every turn; nothing obliges a
   producer to publish. *)
StoreSafety == StoreInit /\ [][StoreNext]_storeVars
StoreSpec == StoreSafety /\ WF_storeVars(Consumer)

-------------------------------------------------------------------------------
Scene(s) == IF Held(s) THEN content[s] ELSE 0

StoreTypeOK ==
    /\ SlotTypeOK
    /\ content \in [Slot -> 0 .. MaxEpoch]
    /\ epoch \in 0 .. MaxEpoch
    /\ replaced \in 0 .. MaxEpoch
    /\ acquired \in 0 .. MaxEpoch

(* The bytes behind the consumer's view, and behind the view it got before its
   last swap, are not written while it may still read them: acquire_latest
   hands out pointers into the slot (store.cpp:135-138) and SceneCoordinator
   keeps them across calls. *)
HeldScenesUnchanged ==
    [][\A s \in {active, retired} \ {NoSlot} : content'[s] = content[s]]_storeVars

(* Every publication is acquired, replaced, or still pending: the balance the
   stress test closes with (tests/scene/store.cpp:118), here in every state. *)
PublicationsAccounted ==
    epoch = acquired + replaced + (IF Held(pending) THEN 1 ELSE 0)

(* acquire_latest refuses only a consumer that already sees the newest scene
   and while nothing newer is being written: the refusal costs the call, never
   a scene. *)
RefusedOnlyWhenCurrent ==
    (Held(retired) /\ Held(returned)) => /\ Scene(active) = epoch
                                         /\ ~Held(writing)

(* The slots and the scenes in them are where the two threads believe they are,
   after every access of either thread. *)
SlotsHold ==
    StoreTypeOK /\ SlotsPartitioned /\ PublicationsAccounted /\ RefusedOnlyWhenCurrent

(* A producer that found every slot taken gets one back while the consumer
   keeps acquiring: BUSY is never for ever. *)
BusyEnds == (writing = NoSlot /\ Drained = {}) ~> (Drained # {})

(* The store implements the newest-scene register. *)
Handoff == INSTANCE SceneHandoff
    WITH newest <- epoch, current <- Scene(active)

ImplementsHandoff == Handoff!Spec
===============================================================================
