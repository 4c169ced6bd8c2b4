------------------------------ MODULE SceneSlots ------------------------------
(* The slot ownership protocol of SceneStore (src/src/scene/store.{hpp,cpp}):  *)
(* a fixed set of packet slots passed between one producer thread and one      *)
(* consumer thread through two atomic words, pending_ and returned_.  Every    *)
(* other variable belongs to one side only.  Packet contents are added by      *)
(* SceneStore; the pipeline that runs both sides on one thread is              *)
(* DesktopScenes.                                                              *)
EXTENDS Integers, FiniteSets

CONSTANT SlotCount          \* slots in SceneStoreStorage; 3 in the code

ASSUME SlotCountAssumption == SlotCount \in Nat \ {0}

Slot == 1 .. SlotCount
NoSlot == 0                 \* the code numbers slots from 1 and keeps 0 for "none"

VARIABLES
    free,                   \* free_mask_: slots the producer may write next
    writing,                \* writing_slot_: the slot between begin_write and commit
    pending,                \* pending_: published and not yet acquired
    returned,               \* returned_: given back and not yet drained
    active,                 \* active_slot_: the slot behind the consumer's view
    retired,                \* retired_slot_: the slot behind its previous view
    acquiring               \* where the consumer is inside acquire_latest

producerSlots == <<free, writing>>
consumerSlots == <<active, retired, acquiring>>
slotVars == <<free, writing, pending, returned, active, retired, acquiring>>

Held(s) == s # NoSlot
TakenSlots == {writing, pending, returned, active, retired} \ {NoSlot}

SlotInit ==
    /\ free = Slot
    /\ writing = NoSlot
    /\ pending = NoSlot
    /\ returned = NoSlot
    /\ active = NoSlot
    /\ retired = NoSlot
    /\ acquiring = "idle"

-------------------------------------------------------------------------------
(* Producer side *)

(* drain_returned: exchange returned_ with 0 and free what was there. *)
Drained == free \cup ({returned} \ {NoSlot})

Lowest(s, S) == s \in S /\ \A t \in S : s <= t

(* Slip: load returned_ where drain_returned exchanges it. *)
BeginWriteLoads ==
    /\ writing = NoSlot
    /\ \E s \in Slot : Lowest(s, Drained) /\ writing' = s /\ free' = Drained \ {s}
    /\ UNCHANGED <<returned, pending, consumerSlots>>

BeginWrite ==
    /\ writing = NoSlot
    /\ \E s \in Slot :
          /\ Lowest(s, Drained)
          /\ writing' = s
          /\ free' = Drained \ {s}
    /\ returned' = NoSlot
    /\ UNCHANGED <<pending, consumerSlots>>

(* SACCADE_ERROR_BUSY, either because a write is open or because nothing is
   free after the drain (which then found nothing to drain). *)
BeginWriteBusy ==
    /\ Held(writing) \/ Drained = {}
    /\ UNCHANGED slotVars

AbortWrite ==
    /\ Held(writing)
    /\ free' = free \cup {writing}
    /\ writing' = NoSlot
    /\ UNCHANGED <<pending, returned, consumerSlots>>

(* Slip: free what the exchange gave back without testing it for 0. *)
CommitFreesAlways ==
    /\ Held(writing)
    /\ pending' = writing
    /\ free' = free \cup {pending}
    /\ writing' = NoSlot
    /\ UNCHANGED <<returned, consumerSlots>>

(* The publishing half of commit: one exchange on pending_.  A packet the
   consumer never acquired comes straight back to the producer. *)
Commit ==
    /\ Held(writing)
    /\ pending' = writing
    /\ free' = free \cup ({pending} \ {NoSlot})
    /\ writing' = NoSlot
    /\ UNCHANGED <<returned, consumerSlots>>

-------------------------------------------------------------------------------
(* Consumer side: acquire_latest, cut at its three accesses to shared words.  *)

AcquireNothingRetired ==
    /\ acquiring = "idle"
    /\ ~Held(retired)
    /\ acquiring' = "take"
    /\ UNCHANGED <<free, writing, pending, returned, active, retired>>

AcquireSeesRoom ==
    /\ acquiring = "idle"
    /\ Held(retired)
    /\ ~Held(returned)
    /\ acquiring' = "return"
    /\ UNCHANGED <<free, writing, pending, returned, active, retired>>

(* SACCADE_ERROR_STATE: the slot returned last time was not drained yet. *)
AcquireRefused ==
    /\ acquiring = "idle"
    /\ Held(retired)
    /\ Held(returned)
    /\ UNCHANGED slotVars

(* Slips: return the slot in view; keep the retired slot after giving it back;
   forget it without giving it back. *)
AcquireReturnsActive ==
    /\ acquiring = "return"
    /\ returned' = active
    /\ retired' = NoSlot
    /\ acquiring' = "take"
    /\ UNCHANGED <<producerSlots, pending, active>>

AcquireReturnKeeps ==
    /\ acquiring = "return"
    /\ returned' = retired
    /\ acquiring' = "take"
    /\ UNCHANGED <<producerSlots, pending, active, retired>>

AcquireReturnDrops ==
    /\ acquiring = "return"
    /\ retired' = NoSlot
    /\ acquiring' = "take"
    /\ UNCHANGED <<producerSlots, pending, returned, active>>

AcquireReturn ==
    /\ acquiring = "return"
    /\ returned' = retired
    /\ retired' = NoSlot
    /\ acquiring' = "take"
    /\ UNCHANGED <<producerSlots, pending, active>>

(* Slips: load pending_ where the code exchanges it; take it without testing
   it for 0. *)
AcquireTakeLoads ==
    /\ acquiring = "take"
    /\ acquiring' = "idle"
    /\ IF Held(pending) THEN retired' = active /\ active' = pending
                        ELSE UNCHANGED <<retired, active>>
    /\ UNCHANGED <<producerSlots, pending, returned>>

AcquireTakeAlways ==
    /\ acquiring = "take"
    /\ acquiring' = "idle"
    /\ pending' = NoSlot
    /\ retired' = active
    /\ active' = pending
    /\ UNCHANGED <<producerSlots, returned>>

AcquireTake ==
    /\ acquiring = "take"
    /\ acquiring' = "idle"
    /\ pending' = NoSlot
    /\ IF Held(pending) THEN /\ retired' = active
                             /\ active' = pending
                        ELSE UNCHANGED <<retired, active>>
    /\ UNCHANGED <<producerSlots, returned>>

-------------------------------------------------------------------------------
SlotTypeOK ==
    /\ free \in SUBSET Slot
    /\ {writing, pending, returned, active, retired} \subseteq Slot \cup {NoSlot}
    /\ acquiring \in {"idle", "return", "take"}

(* No slot has two owners. *)
OneOwner ==
    /\ TakenSlots \cap free = {}
    /\ \A s \in Slot :
          /\ writing = s => s \notin {pending, returned, active, retired}
          /\ pending = s => s \notin {returned, active, retired}
          /\ returned = s => s \notin {active, retired}
          /\ active = s => s # retired

(* No slot is lost: whatever the interleaving, three slots stay three slots. *)
NoSlotLost == Slot \subseteq free \cup TakenSlots

(* Slots partition between free, the writer, the two words in flight and the
   two views of the consumer (free_mask_ and the five slot indices of
   store.hpp:73-81).  A slot with two owners is a data race; a lost slot makes
   begin_write report BUSY for ever. *)
SlotsPartitioned == OneOwner /\ NoSlotLost
===============================================================================
