----------------------- MODULE InferenceProviders_proof -----------------------
(* The proofs about the two inference providers: the types, and what the       *)
(* worker owns as long as no call was ended by another ticket's signal.  At    *)
(* the end, the proofs about the registry in which providers are selected.     *)
EXTENDS InferenceProviders, Registry, FiniteSetTheorems, WellFoundedInduction, TLAPS

Owning == {"running", "reading", "deciding", "storing"}

(* The worker between taking a ticket and storing its end.                     *)
TakenIsLive ==
    /\ worker \in Owning => live # 0 /\ served = live /\ control = "running"
    /\ control = "running" => worker \in Owning
    /\ worker = "reading" <=> reads # 0
    /\ reads # 0 => reads = served

(* The worker after it stored the end, and the signals it has given.           *)
EndIsStored ==
    /\ worker = "signalling" /\ served = live => control \in Ended
    /\ \A n \in completion : n = live => control \in Ended \/ live = 0
    /\ served # 0 => served \notin completion

(* The packet of the ticket, from the moment the worker calls it complete.     *)
PacketIsOwn ==
    /\ worker \in {"deciding", "storing"} /\ verdict = "complete" => output = served
    /\ live # 0 /\ control = "complete" => output = live

(* What an acknowledged cancel leaves behind.                                  *)
CancelDone ==
    acknowledged # 0 =>
        /\ control \in Ended
        /\ worker \notin Owning
        /\ provider = "coreml" => control = "cancelled" /\ served # live

(* A call that waits for a signal waits for the ticket in flight.              *)
CallIsLive ==
    call \in {"wait", "synchronize", "cancel", "reset"} =>
        live # 0 /\ acknowledged = 0

(* The worker runs for a context, and is gone once the context was joined.     *)
WorkerFollowsStage ==
    /\ stage \in {"closed", "open", "model"} /\ call = "none" => worker = "none"
    /\ call = "start" => stage = "model"
    /\ call \in {"wait", "synchronize", "cancel", "reset"} => stage = "context"
    /\ live # 0 => stage \in {"context", "gone"}

(* What neither the owner nor the worker has yet, or has no more.              *)
Quiet ==
    /\ live = 0 => control = "none"
    /\ worker \in {"deciding", "storing"} => verdict \in Ended
    /\ served # 0 <=> worker \in Owning \cup {"signalling"}

Clean ==
    /\ Quiet /\ TakenIsLive /\ EndIsStored /\ PacketIsOwn /\ CancelDone /\ CallIsLive

IInv == TypeOK /\ WorkerFollowsStage /\ (~stale => Clean)

LEMMA InitIInv == Init => IInv
<1> SUFFICES ASSUME Init PROVE IInv
  OBVIOUS
<1> USE DEF Init
<1>1. TypeOK
  <2>1. OwnerTypeOK
    BY TicketAssumption DEF OwnerTypeOK, Providers
  <2>2. TicketTypeOK
    BY DEF TicketTypeOK
  <2>3. SignalTypeOK
    BY DEF SignalTypeOK
  <2>4. WorkerTypeOK
    BY DEF WorkerTypeOK
  <2>5. FlagTypeOK
    BY DEF FlagTypeOK
  <2>6. QED
    BY <2>1, <2>2, <2>3, <2>4, <2>5 DEF TypeOK
<1>2. WorkerFollowsStage
  BY DEF WorkerFollowsStage
<1>3. Quiet /\ TakenIsLive /\ EndIsStored
  BY DEF Quiet, TakenIsLive, EndIsStored, Owning
<1>4. PacketIsOwn /\ CancelDone /\ CallIsLive
  BY DEF PacketIsOwn, CancelDone, CallIsLive
<1>5. QED
  BY <1>1, <1>2, <1>3, <1>4 DEF IInv, Clean

LEMMA StepIInv == IInv /\ [Next]_vars => IInv'
<1> SUFFICES ASSUME IInv, [Next]_vars PROVE IInv'
  OBVIOUS
<1>a. OwnerTypeOK /\ TicketTypeOK /\ SignalTypeOK /\ WorkerTypeOK /\ FlagTypeOK
      /\ WorkerFollowsStage
  BY DEF IInv, TypeOK
<1>b. ~stale => Quiet /\ TakenIsLive /\ EndIsStored /\ PacketIsOwn /\ CancelDone /\ CallIsLive
  BY DEF IInv, Clean
<1> USE TicketAssumption, <1>a, <1>b DEF Quiet, TakenIsLive, EndIsStored, PacketIsOwn,
      CancelDone, CallIsLive, WorkerFollowsStage, OwnerTypeOK, TicketTypeOK,
      SignalTypeOK, WorkerTypeOK, FlagTypeOK, Owning, Ended, Pending,
      Blocking, Providers, Tickets, ownerVars, ticketVars, signalVars,
      workerVars, DIdle, DWaits, CIdle, CWaits, Issue, Release,
      Stop, Joined, Acquire
<1>1. CASE Adopt
  <2> USE <1>1 DEF Adopt
  <2>1. OwnerTypeOK' /\ TicketTypeOK' /\ WorkerTypeOK'
    OBVIOUS
  <2>2. SignalTypeOK'
    OBVIOUS
  <2>3. FlagTypeOK'
    OBVIOUS
  <2>4. WorkerFollowsStage'
    OBVIOUS
  <2>5. ASSUME ~stale' PROVE Clean'
    <3>0. ~stale
      BY <2>5
    <3>1. Quiet' /\ TakenIsLive' /\ EndIsStored'
      BY <2>5, <3>0
    <3>2. PacketIsOwn' /\ CancelDone' /\ CallIsLive'
      BY <2>5, <3>0
    <3>3. QED
      BY <3>1, <3>2 DEF Clean
  <2>6. QED
    BY <2>1, <2>2, <2>3, <2>4, <2>5 DEF IInv, TypeOK
<1>2. CASE Take
  <2> USE <1>2 DEF Take
  <2>1. OwnerTypeOK' /\ TicketTypeOK' /\ WorkerTypeOK'
    OBVIOUS
  <2>2. SignalTypeOK'
    OBVIOUS
  <2>3. FlagTypeOK'
    OBVIOUS
  <2>4. WorkerFollowsStage'
    OBVIOUS
  <2>5. ASSUME ~stale' PROVE Clean'
    <3>0. ~stale
      BY <2>5
    <3>1. Quiet' /\ TakenIsLive' /\ EndIsStored'
      BY <2>5, <3>0
    <3>2. PacketIsOwn' /\ CancelDone' /\ CallIsLive'
      BY <2>5, <3>0
    <3>3. QED
      BY <3>1, <3>2 DEF Clean
  <2>6. QED
    BY <2>1, <2>2, <2>3, <2>4, <2>5 DEF IInv, TypeOK
<1>3. CASE Begin
  <2> USE <1>3 DEF Begin
  <2>1. OwnerTypeOK' /\ TicketTypeOK' /\ WorkerTypeOK'
    OBVIOUS
  <2>2. SignalTypeOK'
    OBVIOUS
  <2>3. FlagTypeOK'
    OBVIOUS
  <2>4. WorkerFollowsStage'
    OBVIOUS
  <2>5. ASSUME ~stale' PROVE Clean'
    <3>0. ~stale
      BY <2>5
    <3>1. Quiet' /\ TakenIsLive' /\ EndIsStored'
      BY <2>5, <3>0
    <3>2. PacketIsOwn' /\ CancelDone' /\ CallIsLive'
      BY <2>5, <3>0
    <3>3. QED
      BY <3>1, <3>2 DEF Clean
  <2>6. QED
    BY <2>1, <2>2, <2>3, <2>4, <2>5 DEF IInv, TypeOK
<1>4. CASE Store
  <2> USE <1>4 DEF Store
  <2>1. OwnerTypeOK' /\ TicketTypeOK' /\ WorkerTypeOK'
    OBVIOUS
  <2>2. SignalTypeOK'
    OBVIOUS
  <2>3. FlagTypeOK'
    OBVIOUS
  <2>4. WorkerFollowsStage'
    OBVIOUS
  <2>5. ASSUME ~stale' PROVE Clean'
    <3>0. ~stale
      BY <2>5
    <3>1. Quiet' /\ TakenIsLive' /\ EndIsStored'
      BY <2>5, <3>0
    <3>2. PacketIsOwn' /\ CancelDone' /\ CallIsLive'
      BY <2>5, <3>0
    <3>3. QED
      BY <3>1, <3>2 DEF Clean
  <2>6. QED
    BY <2>1, <2>2, <2>3, <2>4, <2>5 DEF IInv, TypeOK
<1>5. CASE Signal
  <2> USE <1>5 DEF Signal
  <2>1. OwnerTypeOK' /\ TicketTypeOK' /\ WorkerTypeOK'
    OBVIOUS
  <2>2. SignalTypeOK'
    OBVIOUS
  <2>3. FlagTypeOK'
    OBVIOUS
  <2>4. WorkerFollowsStage'
    OBVIOUS
  <2>5. ASSUME ~stale' PROVE Clean'
    <3>0. ~stale
      BY <2>5
    <3>1. Quiet' /\ TakenIsLive' /\ EndIsStored'
      BY <2>5, <3>0
    <3>2. PacketIsOwn' /\ CancelDone' /\ CallIsLive'
      BY <2>5, <3>0
    <3>3. QED
      BY <3>1, <3>2 DEF Clean
  <2>6. QED
    BY <2>1, <2>2, <2>3, <2>4, <2>5 DEF IInv, TypeOK
<1>6. CASE Expire
  <2> USE <1>6 DEF Expire
  <2>1. OwnerTypeOK' /\ TicketTypeOK' /\ WorkerTypeOK'
    OBVIOUS
  <2>2. SignalTypeOK'
    OBVIOUS
  <2>3. FlagTypeOK'
    OBVIOUS
  <2>4. WorkerFollowsStage'
    OBVIOUS
  <2>5. ASSUME ~stale' PROVE Clean'
    <3>0. ~stale
      BY <2>5
    <3>1. Quiet' /\ TakenIsLive' /\ EndIsStored'
      BY <2>5, <3>0
    <3>2. PacketIsOwn' /\ CancelDone' /\ CallIsLive'
      BY <2>5, <3>0
    <3>3. QED
      BY <3>1, <3>2 DEF Clean
  <2>6. QED
    BY <2>1, <2>2, <2>3, <2>4, <2>5 DEF IInv, TypeOK
<1>7. CASE DInitialize
  <2> USE <1>7 DEF DInitialize
  <2>1. OwnerTypeOK' /\ TicketTypeOK' /\ WorkerTypeOK'
    OBVIOUS
  <2>2. SignalTypeOK'
    OBVIOUS
  <2>3. FlagTypeOK'
    OBVIOUS
  <2>4. WorkerFollowsStage'
    OBVIOUS
  <2>5. ASSUME ~stale' PROVE Clean'
    <3>0. ~stale
      BY <2>5
    <3>1. Quiet' /\ TakenIsLive' /\ EndIsStored'
      BY <2>5, <3>0
    <3>2. PacketIsOwn' /\ CancelDone' /\ CallIsLive'
      BY <2>5, <3>0
    <3>3. QED
      BY <3>1, <3>2 DEF Clean
  <2>6. QED
    BY <2>1, <2>2, <2>3, <2>4, <2>5 DEF IInv, TypeOK
<1>8. CASE DCreateModel
  <2> USE <1>8 DEF DCreateModel
  <2>1. OwnerTypeOK' /\ TicketTypeOK' /\ WorkerTypeOK'
    OBVIOUS
  <2>2. SignalTypeOK'
    OBVIOUS
  <2>3. FlagTypeOK'
    OBVIOUS
  <2>4. WorkerFollowsStage'
    OBVIOUS
  <2>5. ASSUME ~stale' PROVE Clean'
    <3>0. ~stale
      BY <2>5
    <3>1. Quiet' /\ TakenIsLive' /\ EndIsStored'
      BY <2>5, <3>0
    <3>2. PacketIsOwn' /\ CancelDone' /\ CallIsLive'
      BY <2>5, <3>0
    <3>3. QED
      BY <3>1, <3>2 DEF Clean
  <2>6. QED
    BY <2>1, <2>2, <2>3, <2>4, <2>5 DEF IInv, TypeOK
<1>9. CASE DDestroyModel
  <2> USE <1>9 DEF DDestroyModel
  <2>1. OwnerTypeOK' /\ TicketTypeOK' /\ WorkerTypeOK'
    OBVIOUS
  <2>2. SignalTypeOK'
    OBVIOUS
  <2>3. FlagTypeOK'
    OBVIOUS
  <2>4. WorkerFollowsStage'
    OBVIOUS
  <2>5. ASSUME ~stale' PROVE Clean'
    <3>0. ~stale
      BY <2>5
    <3>1. Quiet' /\ TakenIsLive' /\ EndIsStored'
      BY <2>5, <3>0
    <3>2. PacketIsOwn' /\ CancelDone' /\ CallIsLive'
      BY <2>5, <3>0
    <3>3. QED
      BY <3>1, <3>2 DEF Clean
  <2>6. QED
    BY <2>1, <2>2, <2>3, <2>4, <2>5 DEF IInv, TypeOK
<1>10. CASE DShutdown
  <2> USE <1>10 DEF DShutdown
  <2>1. OwnerTypeOK' /\ TicketTypeOK' /\ WorkerTypeOK'
    OBVIOUS
  <2>2. SignalTypeOK'
    OBVIOUS
  <2>3. FlagTypeOK'
    OBVIOUS
  <2>4. WorkerFollowsStage'
    OBVIOUS
  <2>5. ASSUME ~stale' PROVE Clean'
    <3>0. ~stale
      BY <2>5
    <3>1. Quiet' /\ TakenIsLive' /\ EndIsStored'
      BY <2>5, <3>0
    <3>2. PacketIsOwn' /\ CancelDone' /\ CallIsLive'
      BY <2>5, <3>0
    <3>3. QED
      BY <3>1, <3>2 DEF Clean
  <2>6. QED
    BY <2>1, <2>2, <2>3, <2>4, <2>5 DEF IInv, TypeOK
<1>11. CASE DCreateContext
  <2> USE <1>11 DEF DCreateContext
  <2>1. OwnerTypeOK' /\ TicketTypeOK' /\ WorkerTypeOK'
    OBVIOUS
  <2>2. SignalTypeOK'
    OBVIOUS
  <2>3. FlagTypeOK'
    OBVIOUS
  <2>4. WorkerFollowsStage'
    OBVIOUS
  <2>5. ASSUME ~stale' PROVE Clean'
    <3>0. ~stale
      BY <2>5
    <3>1. Quiet' /\ TakenIsLive' /\ EndIsStored'
      BY <2>5, <3>0
    <3>2. PacketIsOwn' /\ CancelDone' /\ CallIsLive'
      BY <2>5, <3>0
    <3>3. QED
      BY <3>1, <3>2 DEF Clean
  <2>6. QED
    BY <2>1, <2>2, <2>3, <2>4, <2>5 DEF IInv, TypeOK
<1>12. CASE DDestroyContext
  <2> USE <1>12 DEF DDestroyContext
  <2>1. OwnerTypeOK' /\ TicketTypeOK' /\ WorkerTypeOK'
    OBVIOUS
  <2>2. SignalTypeOK'
    OBVIOUS
  <2>3. FlagTypeOK'
    OBVIOUS
  <2>4. WorkerFollowsStage'
    OBVIOUS
  <2>5. ASSUME ~stale' PROVE Clean'
    <3>0. ~stale
      BY <2>5
    <3>1. Quiet' /\ TakenIsLive' /\ EndIsStored'
      BY <2>5, <3>0
    <3>2. PacketIsOwn' /\ CancelDone' /\ CallIsLive'
      BY <2>5, <3>0
    <3>3. QED
      BY <3>1, <3>2 DEF Clean
  <2>6. QED
    BY <2>1, <2>2, <2>3, <2>4, <2>5 DEF IInv, TypeOK
<1>13. CASE DDestroy
  <2> USE <1>13 DEF DDestroy
  <2>1. OwnerTypeOK' /\ TicketTypeOK' /\ WorkerTypeOK'
    OBVIOUS
  <2>2. SignalTypeOK'
    OBVIOUS
  <2>3. FlagTypeOK'
    OBVIOUS
  <2>4. WorkerFollowsStage'
    OBVIOUS
  <2>5. ASSUME ~stale' PROVE Clean'
    <3>0. ~stale
      BY <2>5
    <3>1. Quiet' /\ TakenIsLive' /\ EndIsStored'
      BY <2>5, <3>0
    <3>2. PacketIsOwn' /\ CancelDone' /\ CallIsLive'
      BY <2>5, <3>0
    <3>3. QED
      BY <3>1, <3>2 DEF Clean
  <2>6. QED
    BY <2>1, <2>2, <2>3, <2>4, <2>5 DEF IInv, TypeOK
<1>14. CASE DSubmit
  <2> USE <1>14 DEF DSubmit
  <2>1. OwnerTypeOK' /\ TicketTypeOK' /\ WorkerTypeOK'
    OBVIOUS
  <2>2. SignalTypeOK'
    OBVIOUS
  <2>3. FlagTypeOK'
    OBVIOUS
  <2>4. WorkerFollowsStage'
    OBVIOUS
  <2>5. ASSUME ~stale' PROVE Clean'
    <3>0. ~stale
      BY <2>5
    <3>1. Quiet' /\ TakenIsLive' /\ EndIsStored'
      BY <2>5, <3>0
    <3>2. PacketIsOwn' /\ CancelDone' /\ CallIsLive'
      BY <2>5, <3>0
    <3>3. QED
      BY <3>1, <3>2 DEF Clean
  <2>6. QED
    BY <2>1, <2>2, <2>3, <2>4, <2>5 DEF IInv, TypeOK
<1>15. CASE DCollect
  <2> USE <1>15 DEF DCollect
  <2>1. OwnerTypeOK' /\ TicketTypeOK' /\ WorkerTypeOK'
    OBVIOUS
  <2>2. SignalTypeOK'
    OBVIOUS
  <2>3. FlagTypeOK'
    OBVIOUS
  <2>4. WorkerFollowsStage'
    OBVIOUS
  <2>5. ASSUME ~stale' PROVE Clean'
    <3>0. ~stale
      BY <2>5
    <3>1. Quiet' /\ TakenIsLive' /\ EndIsStored'
      BY <2>5, <3>0
    <3>2. PacketIsOwn' /\ CancelDone' /\ CallIsLive'
      BY <2>5, <3>0
    <3>3. QED
      BY <3>1, <3>2 DEF Clean
  <2>6. QED
    BY <2>1, <2>2, <2>3, <2>4, <2>5 DEF IInv, TypeOK
<1>16. CASE DReset
  <2> USE <1>16 DEF DReset
  <2>1. OwnerTypeOK' /\ TicketTypeOK' /\ WorkerTypeOK'
    OBVIOUS
  <2>2. SignalTypeOK'
    OBVIOUS
  <2>3. FlagTypeOK'
    OBVIOUS
  <2>4. WorkerFollowsStage'
    OBVIOUS
  <2>5. ASSUME ~stale' PROVE Clean'
    <3>0. ~stale
      BY <2>5
    <3>1. Quiet' /\ TakenIsLive' /\ EndIsStored'
      BY <2>5, <3>0
    <3>2. PacketIsOwn' /\ CancelDone' /\ CallIsLive'
      BY <2>5, <3>0
    <3>3. QED
      BY <3>1, <3>2 DEF Clean
  <2>6. QED
    BY <2>1, <2>2, <2>3, <2>4, <2>5 DEF IInv, TypeOK
<1>17. CASE DContextStarted
  <2> USE <1>17 DEF DContextStarted
  <2>1. OwnerTypeOK' /\ TicketTypeOK' /\ WorkerTypeOK'
    OBVIOUS
  <2>2. SignalTypeOK'
    OBVIOUS
  <2>3. FlagTypeOK'
    OBVIOUS
  <2>4. WorkerFollowsStage'
    OBVIOUS
  <2>5. ASSUME ~stale' PROVE Clean'
    <3>0. ~stale
      BY <2>5
    <3>1. Quiet' /\ TakenIsLive' /\ EndIsStored'
      BY <2>5, <3>0
    <3>2. PacketIsOwn' /\ CancelDone' /\ CallIsLive'
      BY <2>5, <3>0
    <3>3. QED
      BY <3>1, <3>2 DEF Clean
  <2>6. QED
    BY <2>1, <2>2, <2>3, <2>4, <2>5 DEF IInv, TypeOK
<1>18. CASE DJoined
  <2> USE <1>18 DEF DJoined
  <2>1. OwnerTypeOK' /\ TicketTypeOK' /\ WorkerTypeOK'
    OBVIOUS
  <2>2. SignalTypeOK'
    OBVIOUS
  <2>3. FlagTypeOK'
    OBVIOUS
  <2>4. WorkerFollowsStage'
    OBVIOUS
  <2>5. ASSUME ~stale' PROVE Clean'
    <3>0. ~stale
      BY <2>5
    <3>1. Quiet' /\ TakenIsLive' /\ EndIsStored'
      BY <2>5, <3>0
    <3>2. PacketIsOwn' /\ CancelDone' /\ CallIsLive'
      BY <2>5, <3>0
    <3>3. QED
      BY <3>1, <3>2 DEF Clean
  <2>6. QED
    BY <2>1, <2>2, <2>3, <2>4, <2>5 DEF IInv, TypeOK
<1>19. CASE DWaited
  <2> USE <1>19 DEF DWaited
  <2>1. OwnerTypeOK' /\ TicketTypeOK' /\ WorkerTypeOK'
    OBVIOUS
  <2>2. SignalTypeOK'
    OBVIOUS
  <2>3. FlagTypeOK'
    OBVIOUS
  <2>4. WorkerFollowsStage'
    OBVIOUS
  <2>5. ASSUME ~stale' PROVE Clean'
    <3>0. ~stale
      BY <2>5
    <3>1. Quiet' /\ TakenIsLive' /\ EndIsStored'
      BY <2>5, <3>0
    <3>2. PacketIsOwn' /\ CancelDone' /\ CallIsLive'
      BY <2>5, <3>0
    <3>3. QED
      BY <3>1, <3>2 DEF Clean
  <2>6. QED
    BY <2>1, <2>2, <2>3, <2>4, <2>5 DEF IInv, TypeOK
<1>20. CASE DCancelled
  <2> USE <1>20 DEF DCancelled
  <2>1. OwnerTypeOK' /\ TicketTypeOK' /\ WorkerTypeOK'
    OBVIOUS
  <2>2. SignalTypeOK'
    OBVIOUS
  <2>3. FlagTypeOK'
    OBVIOUS
  <2>4. WorkerFollowsStage'
    OBVIOUS
  <2>5. ASSUME ~stale' PROVE Clean'
    <3>0. ~stale
      BY <2>5
    <3>1. Quiet' /\ TakenIsLive' /\ EndIsStored'
      BY <2>5, <3>0
    <3>2. PacketIsOwn' /\ CancelDone' /\ CallIsLive'
      BY <2>5, <3>0
    <3>3. QED
      BY <3>1, <3>2 DEF Clean
  <2>6. QED
    BY <2>1, <2>2, <2>3, <2>4, <2>5 DEF IInv, TypeOK
<1>21. CASE DResetEnds
  <2> USE <1>21 DEF DResetEnds
  <2>1. OwnerTypeOK' /\ TicketTypeOK' /\ WorkerTypeOK'
    OBVIOUS
  <2>2. SignalTypeOK'
    OBVIOUS
  <2>3. FlagTypeOK'
    OBVIOUS
  <2>4. WorkerFollowsStage'
    OBVIOUS
  <2>5. ASSUME ~stale' PROVE Clean'
    <3>0. ~stale
      BY <2>5
    <3>1. Quiet' /\ TakenIsLive' /\ EndIsStored'
      BY <2>5, <3>0
    <3>2. PacketIsOwn' /\ CancelDone' /\ CallIsLive'
      BY <2>5, <3>0
    <3>3. QED
      BY <3>1, <3>2 DEF Clean
  <2>6. QED
    BY <2>1, <2>2, <2>3, <2>4, <2>5 DEF IInv, TypeOK
<1>22. CASE DCompute
  <2> USE <1>22 DEF DCompute
  <2>1. OwnerTypeOK' /\ TicketTypeOK' /\ WorkerTypeOK'
    OBVIOUS
  <2>2. SignalTypeOK'
    OBVIOUS
  <2>3. FlagTypeOK'
    OBVIOUS
  <2>4. WorkerFollowsStage'
    OBVIOUS
  <2>5. ASSUME ~stale' PROVE Clean'
    <3>0. ~stale
      BY <2>5
    <3>1. Quiet' /\ TakenIsLive' /\ EndIsStored'
      BY <2>5, <3>0
    <3>2. PacketIsOwn' /\ CancelDone' /\ CallIsLive'
      BY <2>5, <3>0
    <3>3. QED
      BY <3>1, <3>2 DEF Clean
  <2>6. QED
    BY <2>1, <2>2, <2>3, <2>4, <2>5 DEF IInv, TypeOK
<1>23. CASE DDecide
  <2> USE <1>23 DEF DDecide
  <2>1. OwnerTypeOK' /\ TicketTypeOK' /\ WorkerTypeOK'
    OBVIOUS
  <2>2. SignalTypeOK'
    OBVIOUS
  <2>3. FlagTypeOK'
    OBVIOUS
  <2>4. WorkerFollowsStage'
    OBVIOUS
  <2>5. ASSUME ~stale' PROVE Clean'
    <3>0. ~stale
      BY <2>5
    <3>1. Quiet' /\ TakenIsLive' /\ EndIsStored'
      BY <2>5, <3>0
    <3>2. PacketIsOwn' /\ CancelDone' /\ CallIsLive'
      BY <2>5, <3>0
    <3>3. QED
      BY <3>1, <3>2 DEF Clean
  <2>6. QED
    BY <2>1, <2>2, <2>3, <2>4, <2>5 DEF IInv, TypeOK
<1>24. CASE CInitialize
  <2> USE <1>24 DEF CInitialize
  <2>1. OwnerTypeOK' /\ TicketTypeOK' /\ WorkerTypeOK'
    OBVIOUS
  <2>2. SignalTypeOK'
    OBVIOUS
  <2>3. FlagTypeOK'
    OBVIOUS
  <2>4. WorkerFollowsStage'
    OBVIOUS
  <2>5. ASSUME ~stale' PROVE Clean'
    <3>0. ~stale
      BY <2>5
    <3>1. Quiet' /\ TakenIsLive' /\ EndIsStored'
      BY <2>5, <3>0
    <3>2. PacketIsOwn' /\ CancelDone' /\ CallIsLive'
      BY <2>5, <3>0
    <3>3. QED
      BY <3>1, <3>2 DEF Clean
  <2>6. QED
    BY <2>1, <2>2, <2>3, <2>4, <2>5 DEF IInv, TypeOK
<1>25. CASE CCreateModel
  <2> USE <1>25 DEF CCreateModel
  <2>1. OwnerTypeOK' /\ TicketTypeOK' /\ WorkerTypeOK'
    OBVIOUS
  <2>2. SignalTypeOK'
    OBVIOUS
  <2>3. FlagTypeOK'
    OBVIOUS
  <2>4. WorkerFollowsStage'
    OBVIOUS
  <2>5. ASSUME ~stale' PROVE Clean'
    <3>0. ~stale
      BY <2>5
    <3>1. Quiet' /\ TakenIsLive' /\ EndIsStored'
      BY <2>5, <3>0
    <3>2. PacketIsOwn' /\ CancelDone' /\ CallIsLive'
      BY <2>5, <3>0
    <3>3. QED
      BY <3>1, <3>2 DEF Clean
  <2>6. QED
    BY <2>1, <2>2, <2>3, <2>4, <2>5 DEF IInv, TypeOK
<1>26. CASE CDestroyModel
  <2> USE <1>26 DEF CDestroyModel
  <2>1. OwnerTypeOK' /\ TicketTypeOK' /\ WorkerTypeOK'
    OBVIOUS
  <2>2. SignalTypeOK'
    OBVIOUS
  <2>3. FlagTypeOK'
    OBVIOUS
  <2>4. WorkerFollowsStage'
    OBVIOUS
  <2>5. ASSUME ~stale' PROVE Clean'
    <3>0. ~stale
      BY <2>5
    <3>1. Quiet' /\ TakenIsLive' /\ EndIsStored'
      BY <2>5, <3>0
    <3>2. PacketIsOwn' /\ CancelDone' /\ CallIsLive'
      BY <2>5, <3>0
    <3>3. QED
      BY <3>1, <3>2 DEF Clean
  <2>6. QED
    BY <2>1, <2>2, <2>3, <2>4, <2>5 DEF IInv, TypeOK
<1>27. CASE CShutdown
  <2> USE <1>27 DEF CShutdown
  <2>1. OwnerTypeOK' /\ TicketTypeOK' /\ WorkerTypeOK'
    OBVIOUS
  <2>2. SignalTypeOK'
    OBVIOUS
  <2>3. FlagTypeOK'
    OBVIOUS
  <2>4. WorkerFollowsStage'
    OBVIOUS
  <2>5. ASSUME ~stale' PROVE Clean'
    <3>0. ~stale
      BY <2>5
    <3>1. Quiet' /\ TakenIsLive' /\ EndIsStored'
      BY <2>5, <3>0
    <3>2. PacketIsOwn' /\ CancelDone' /\ CallIsLive'
      BY <2>5, <3>0
    <3>3. QED
      BY <3>1, <3>2 DEF Clean
  <2>6. QED
    BY <2>1, <2>2, <2>3, <2>4, <2>5 DEF IInv, TypeOK
<1>28. CASE CCreateContext
  <2> USE <1>28 DEF CCreateContext
  <2>1. OwnerTypeOK' /\ TicketTypeOK' /\ WorkerTypeOK'
    OBVIOUS
  <2>2. SignalTypeOK'
    OBVIOUS
  <2>3. FlagTypeOK'
    OBVIOUS
  <2>4. WorkerFollowsStage'
    OBVIOUS
  <2>5. ASSUME ~stale' PROVE Clean'
    <3>0. ~stale
      BY <2>5
    <3>1. Quiet' /\ TakenIsLive' /\ EndIsStored'
      BY <2>5, <3>0
    <3>2. PacketIsOwn' /\ CancelDone' /\ CallIsLive'
      BY <2>5, <3>0
    <3>3. QED
      BY <3>1, <3>2 DEF Clean
  <2>6. QED
    BY <2>1, <2>2, <2>3, <2>4, <2>5 DEF IInv, TypeOK
<1>29. CASE CDestroyContext
  <2> USE <1>29 DEF CDestroyContext
  <2>1. OwnerTypeOK' /\ TicketTypeOK' /\ WorkerTypeOK'
    OBVIOUS
  <2>2. SignalTypeOK'
    OBVIOUS
  <2>3. FlagTypeOK'
    OBVIOUS
  <2>4. WorkerFollowsStage'
    OBVIOUS
  <2>5. ASSUME ~stale' PROVE Clean'
    <3>0. ~stale
      BY <2>5
    <3>1. Quiet' /\ TakenIsLive' /\ EndIsStored'
      BY <2>5, <3>0
    <3>2. PacketIsOwn' /\ CancelDone' /\ CallIsLive'
      BY <2>5, <3>0
    <3>3. QED
      BY <3>1, <3>2 DEF Clean
  <2>6. QED
    BY <2>1, <2>2, <2>3, <2>4, <2>5 DEF IInv, TypeOK
<1>30. CASE CDestroy
  <2> USE <1>30 DEF CDestroy
  <2>1. OwnerTypeOK' /\ TicketTypeOK' /\ WorkerTypeOK'
    OBVIOUS
  <2>2. SignalTypeOK'
    OBVIOUS
  <2>3. FlagTypeOK'
    OBVIOUS
  <2>4. WorkerFollowsStage'
    OBVIOUS
  <2>5. ASSUME ~stale' PROVE Clean'
    <3>0. ~stale
      BY <2>5
    <3>1. Quiet' /\ TakenIsLive' /\ EndIsStored'
      BY <2>5, <3>0
    <3>2. PacketIsOwn' /\ CancelDone' /\ CallIsLive'
      BY <2>5, <3>0
    <3>3. QED
      BY <3>1, <3>2 DEF Clean
  <2>6. QED
    BY <2>1, <2>2, <2>3, <2>4, <2>5 DEF IInv, TypeOK
<1>31. CASE CSubmit
  <2> USE <1>31 DEF CSubmit
  <2>1. OwnerTypeOK' /\ TicketTypeOK' /\ WorkerTypeOK'
    OBVIOUS
  <2>2. SignalTypeOK'
    <3>1. command' \in Nat
      OBVIOUS
    <3>2. completion' \subseteq completion /\ 0..last \subseteq 0..last'
      OBVIOUS
    <3>3. QED
      BY <3>1, <3>2
  <2>3. FlagTypeOK'
    OBVIOUS
  <2>4. WorkerFollowsStage'
    OBVIOUS
  <2>5. ASSUME ~stale' PROVE Clean'
    <3>0. ~stale
      BY <2>5
    <3>1. Quiet' /\ TakenIsLive' /\ EndIsStored'
      BY <2>5, <3>0
    <3>2. PacketIsOwn' /\ CancelDone' /\ CallIsLive'
      BY <2>5, <3>0
    <3>3. QED
      BY <3>1, <3>2 DEF Clean
  <2>6. QED
    BY <2>1, <2>2, <2>3, <2>4, <2>5 DEF IInv, TypeOK
<1>32. CASE CCollect
  <2> USE <1>32 DEF CCollect
  <2>1. OwnerTypeOK' /\ TicketTypeOK' /\ WorkerTypeOK'
    OBVIOUS
  <2>2. SignalTypeOK'
    OBVIOUS
  <2>3. FlagTypeOK'
    OBVIOUS
  <2>4. WorkerFollowsStage'
    OBVIOUS
  <2>5. ASSUME ~stale' PROVE Clean'
    <3>0. ~stale
      BY <2>5
    <3>1. Quiet' /\ TakenIsLive' /\ EndIsStored'
      BY <2>5, <3>0
    <3>2. PacketIsOwn' /\ CancelDone' /\ CallIsLive'
      BY <2>5, <3>0
    <3>3. QED
      BY <3>1, <3>2 DEF Clean
  <2>6. QED
    BY <2>1, <2>2, <2>3, <2>4, <2>5 DEF IInv, TypeOK
<1>33. CASE CReset
  <2> USE <1>33 DEF CReset
  <2>1. OwnerTypeOK' /\ TicketTypeOK' /\ WorkerTypeOK'
    OBVIOUS
  <2>2. SignalTypeOK'
    OBVIOUS
  <2>3. FlagTypeOK'
    OBVIOUS
  <2>4. WorkerFollowsStage'
    OBVIOUS
  <2>5. ASSUME ~stale' PROVE Clean'
    <3>0. ~stale
      BY <2>5
    <3>1. Quiet' /\ TakenIsLive' /\ EndIsStored'
      BY <2>5, <3>0
    <3>2. PacketIsOwn' /\ CancelDone' /\ CallIsLive'
      BY <2>5, <3>0
    <3>3. QED
      BY <3>1, <3>2 DEF Clean
  <2>6. QED
    BY <2>1, <2>2, <2>3, <2>4, <2>5 DEF IInv, TypeOK
<1>34. CASE CJoined
  <2> USE <1>34 DEF CJoined
  <2>1. OwnerTypeOK' /\ TicketTypeOK' /\ WorkerTypeOK'
    OBVIOUS
  <2>2. SignalTypeOK'
    OBVIOUS
  <2>3. FlagTypeOK'
    OBVIOUS
  <2>4. WorkerFollowsStage'
    OBVIOUS
  <2>5. ASSUME ~stale' PROVE Clean'
    <3>0. ~stale
      BY <2>5
    <3>1. Quiet' /\ TakenIsLive' /\ EndIsStored'
      BY <2>5, <3>0
    <3>2. PacketIsOwn' /\ CancelDone' /\ CallIsLive'
      BY <2>5, <3>0
    <3>3. QED
      BY <3>1, <3>2 DEF Clean
  <2>6. QED
    BY <2>1, <2>2, <2>3, <2>4, <2>5 DEF IInv, TypeOK
<1>35. CASE CWaited
  <2> USE <1>35 DEF CWaited
  <2>1. OwnerTypeOK' /\ TicketTypeOK' /\ WorkerTypeOK'
    OBVIOUS
  <2>2. SignalTypeOK'
    OBVIOUS
  <2>3. FlagTypeOK'
    OBVIOUS
  <2>4. WorkerFollowsStage'
    OBVIOUS
  <2>5. ASSUME ~stale' PROVE Clean'
    <3>0. ~stale
      BY <2>5
    <3>1. Quiet' /\ TakenIsLive' /\ EndIsStored'
      BY <2>5, <3>0
    <3>2. PacketIsOwn' /\ CancelDone' /\ CallIsLive'
      BY <2>5, <3>0
    <3>3. QED
      BY <3>1, <3>2 DEF Clean
  <2>6. QED
    BY <2>1, <2>2, <2>3, <2>4, <2>5 DEF IInv, TypeOK
<1>36. CASE CSynchronized
  <2> USE <1>36 DEF CSynchronized
  <2>1. OwnerTypeOK' /\ TicketTypeOK' /\ WorkerTypeOK'
    OBVIOUS
  <2>2. SignalTypeOK'
    OBVIOUS
  <2>3. FlagTypeOK'
    OBVIOUS
  <2>4. WorkerFollowsStage'
    OBVIOUS
  <2>5. ASSUME ~stale' PROVE Clean'
    <3>0. ~stale
      BY <2>5
    <3>1. Quiet' /\ TakenIsLive' /\ EndIsStored'
      BY <2>5, <3>0
    <3>2. PacketIsOwn' /\ CancelDone' /\ CallIsLive'
      BY <2>5, <3>0
    <3>3. QED
      BY <3>1, <3>2 DEF Clean
  <2>6. QED
    BY <2>1, <2>2, <2>3, <2>4, <2>5 DEF IInv, TypeOK
<1>37. CASE CCancelled
  <2> USE <1>37 DEF CCancelled
  <2>1. OwnerTypeOK' /\ TicketTypeOK' /\ WorkerTypeOK'
    OBVIOUS
  <2>2. SignalTypeOK'
    OBVIOUS
  <2>3. FlagTypeOK'
    OBVIOUS
  <2>4. WorkerFollowsStage'
    OBVIOUS
  <2>5. ASSUME ~stale' PROVE Clean'
    <3>0. ~stale
      BY <2>5
    <3>1. Quiet' /\ TakenIsLive' /\ EndIsStored'
      BY <2>5, <3>0
    <3>2. PacketIsOwn' /\ CancelDone' /\ CallIsLive'
      BY <2>5, <3>0
    <3>3. QED
      BY <3>1, <3>2 DEF Clean
  <2>6. QED
    BY <2>1, <2>2, <2>3, <2>4, <2>5 DEF IInv, TypeOK
<1>38. CASE CResetEnds
  <2> USE <1>38 DEF CResetEnds
  <2>1. OwnerTypeOK' /\ TicketTypeOK' /\ WorkerTypeOK'
    OBVIOUS
  <2>2. SignalTypeOK'
    OBVIOUS
  <2>3. FlagTypeOK'
    OBVIOUS
  <2>4. WorkerFollowsStage'
    OBVIOUS
  <2>5. ASSUME ~stale' PROVE Clean'
    <3>0. ~stale
      BY <2>5
    <3>1. Quiet' /\ TakenIsLive' /\ EndIsStored'
      BY <2>5, <3>0
    <3>2. PacketIsOwn' /\ CancelDone' /\ CallIsLive'
      BY <2>5, <3>0
    <3>3. QED
      BY <3>1, <3>2 DEF Clean
  <2>6. QED
    BY <2>1, <2>2, <2>3, <2>4, <2>5 DEF IInv, TypeOK
<1>39. CASE CCompute
  <2> USE <1>39 DEF CCompute
  <2>1. OwnerTypeOK' /\ TicketTypeOK' /\ WorkerTypeOK'
    OBVIOUS
  <2>2. SignalTypeOK'
    OBVIOUS
  <2>3. FlagTypeOK'
    OBVIOUS
  <2>4. WorkerFollowsStage'
    OBVIOUS
  <2>5. ASSUME ~stale' PROVE Clean'
    <3>0. ~stale
      BY <2>5
    <3>1. Quiet' /\ TakenIsLive' /\ EndIsStored'
      BY <2>5, <3>0
    <3>2. PacketIsOwn' /\ CancelDone' /\ CallIsLive'
      BY <2>5, <3>0
    <3>3. QED
      BY <3>1, <3>2 DEF Clean
  <2>6. QED
    BY <2>1, <2>2, <2>3, <2>4, <2>5 DEF IInv, TypeOK
<1>40. CASE CDecide
  <2> USE <1>40 DEF CDecide
  <2>1. OwnerTypeOK' /\ TicketTypeOK' /\ WorkerTypeOK'
    OBVIOUS
  <2>2. SignalTypeOK'
    OBVIOUS
  <2>3. FlagTypeOK'
    OBVIOUS
  <2>4. WorkerFollowsStage'
    OBVIOUS
  <2>5. ASSUME ~stale' PROVE Clean'
    <3>0. ~stale
      BY <2>5
    <3>1. Quiet' /\ TakenIsLive' /\ EndIsStored'
      BY <2>5, <3>0
    <3>2. PacketIsOwn' /\ CancelDone' /\ CallIsLive'
      BY <2>5, <3>0
    <3>3. QED
      BY <3>1, <3>2 DEF Clean
  <2>6. QED
    BY <2>1, <2>2, <2>3, <2>4, <2>5 DEF IInv, TypeOK
<1>41. CASE \E kind \in {"wait", "synchronize", "cancel", "reset"} : DIdle /\ Block(kind)
  <2> USE <1>41 DEF Block
  <2>1. OwnerTypeOK' /\ TicketTypeOK' /\ WorkerTypeOK'
    OBVIOUS
  <2>2. SignalTypeOK'
    OBVIOUS
  <2>3. FlagTypeOK'
    OBVIOUS
  <2>4. WorkerFollowsStage'
    OBVIOUS
  <2>5. ASSUME ~stale' PROVE Clean'
    <3>0. ~stale
      BY <2>5
    <3>1. Quiet' /\ TakenIsLive' /\ EndIsStored'
      BY <2>5, <3>0
    <3>2. PacketIsOwn' /\ CancelDone' /\ CallIsLive'
      BY <2>5, <3>0
    <3>3. QED
      BY <3>1, <3>2 DEF Clean
  <2>6. QED
    BY <2>1, <2>2, <2>3, <2>4, <2>5 DEF IInv, TypeOK
<1>42. CASE \E kind \in {"wait", "synchronize", "cancel", "reset"} : CIdle /\ Block(kind)
  <2> USE <1>42 DEF Block
  <2>1. OwnerTypeOK' /\ TicketTypeOK' /\ WorkerTypeOK'
    OBVIOUS
  <2>2. SignalTypeOK'
    OBVIOUS
  <2>3. FlagTypeOK'
    OBVIOUS
  <2>4. WorkerFollowsStage'
    OBVIOUS
  <2>5. ASSUME ~stale' PROVE Clean'
    <3>0. ~stale
      BY <2>5
    <3>1. Quiet' /\ TakenIsLive' /\ EndIsStored'
      BY <2>5, <3>0
    <3>2. PacketIsOwn' /\ CancelDone' /\ CallIsLive'
      BY <2>5, <3>0
    <3>3. QED
      BY <3>1, <3>2 DEF Clean
  <2>6. QED
    BY <2>1, <2>2, <2>3, <2>4, <2>5 DEF IInv, TypeOK
<1>43. CASE UNCHANGED vars
  BY <1>43 DEF IInv, Clean, Quiet, TakenIsLive, EndIsStored, PacketIsOwn, CancelDone,
     CallIsLive, WorkerFollowsStage, TypeOK, OwnerTypeOK, TicketTypeOK,
     SignalTypeOK, WorkerTypeOK, FlagTypeOK, vars, ownerVars, ticketVars,
     signalVars, workerVars
<1>44. QED
  BY <1>1, <1>2, <1>3, <1>4, <1>5, <1>6, <1>7, <1>8, <1>9, <1>10, <1>11, <1>12, <1>13, <1>14, <1>15, <1>16, <1>17, <1>18, <1>19, <1>20, <1>21, <1>22, <1>23, <1>24, <1>25, <1>26, <1>27, <1>28, <1>29, <1>30, <1>31, <1>32, <1>33, <1>34, <1>35, <1>36, <1>37, <1>38, <1>39, <1>40, <1>41, <1>42, <1>43 DEF Next, DOwner, COwner, Return, DReturn, CReturn, Worker

(* The invariant holds in every reachable state.                               *)
LEMMA Invariance == Spec => []IInv
BY InitIInv, StepIInv, PTL DEF Spec

(* The state of both providers has its types, for any number of tickets.       *)
THEOREM TypeCorrect == Spec => []TypeOK
<1>1. IInv => TypeOK
  BY DEF IInv
<1>2. QED
  BY Invariance, <1>1, PTL

(* With either provider, until a cancel or a reset is ended by the signal of   *)
(* an earlier ticket, the worker reads only the frame of the ticket in flight  *)
(* and a complete ticket holds the packet of its own frame.                    *)
THEOREM FrameIsTheTickets == Spec => []OwnershipHeld
<1>1. IInv => OwnershipHeld
  BY DEF IInv, Clean, TakenIsLive, PacketIsOwn, OwnershipHeld, Owning
<1>2. QED
  BY Invariance, <1>1, PTL

(* Until then an acknowledged cancel means that the worker reads no frame, and *)
(* with Core ML that the packet stays suppressed.                              *)
THEOREM CancelEnds == Spec => []CancelIsOver
<1>1. IInv => CancelIsOver
  BY DEF IInv, Clean, TakenIsLive, CancelDone, CancelIsOver, Owning
<1>2. QED
  BY Invariance, <1>1, PTL

(* Together: frames and packets are the ticket's own, also when it is          *)
(* cancelled, with either provider and any number of tickets.                  *)
THEOREM ProvidersAgree == Spec => []ProvidersHold
<1>1. TypeOK /\ OwnershipHeld /\ CancelIsOver => ProvidersHold
  BY DEF ProvidersHold
<1>2. QED
  BY <1>1, TypeCorrect, FrameIsTheTickets, CancelEnds, PTL
-------------------------------------------------------------------------------
(* The registry.  What a registry is made of; a handle names the family and    *)
(* the slot of its provider.                                                   *)
Entries == [handle : [domain : {1}, family : Families, slot : Nat],
            id : {d.info.id : d \in Descriptors}, caps : {d.info.caps : d \in Descriptors}]
DeviceRecords == [provider : [domain : 1..2, family : {"inference"}, slot : Nat], info : DeviceInfos]
Registries == [domain : {1}, stores : [Families -> Seq(Entries)], devices : Seq(DeviceRecords), frozen : BOOLEAN]

HandlesPoint(r) ==
    \A f \in Families : \A i \in DOMAIN r.stores[f] :
       r.stores[f][i].handle = [domain |-> 1, family |-> f, slot |-> i]

RegistryInv == registry \in Registries /\ HandlesPoint(registry) /\ RegistryHolds

(* Numbers up to a bound have a least among them: a smallest set without one   *)
(* would still lack it without one of its elements.                            *)
LEMMA LeastNumber ==
    ASSUME NEW L \in Nat, NEW S \in SUBSET (0..L), S # {}
    PROVE  \E k \in S : \A j \in S : k <= j
<1> DEFINE Least(T) == \E k \in T : \A j \in T : k <= j
           Bad == {T \in FiniteSubsetsOf(Int) : T # {} /\ ~Least(T)}
<1> SUFFICES ASSUME Bad # {}
             PROVE  FALSE
  <2>1. S \in FiniteSubsetsOf(Int)
    <3>1. IsFiniteSet(0..L) /\ S \in SUBSET Int
      BY FS_Interval
    <3> QED BY <3>1, FS_Subset DEF FiniteSubsetsOf
  <2> QED BY <2>1
<1>1. PICK T \in Bad : \A U \in Bad : ~(<<U, T>> \in StrictSubsetOrdering(Int))
  <2>1. Bad \subseteq FiniteSubsetsOf(Int)
    OBVIOUS
  <2> HIDE DEF Bad
  <2> QED BY <2>1, WFMin, FS_StrictSubsetOrderingWellFounded
<1>2. T \in SUBSET Int /\ IsFiniteSet(T) /\ T # {}
  BY <1>1 DEF FiniteSubsetsOf
<1>3. PICK x \in T : TRUE
  BY <1>2
<1> DEFINE U == T \ {x}
<1>4. U \in FiniteSubsetsOf(Int)
  BY <1>2, FS_RemoveElement DEF FiniteSubsetsOf
<1>5. <<U, T>> \in StrictSubsetOrdering(Int)
  BY <1>2, <1>3 DEF StrictSubsetOrdering
<1>6. U = {} \/ Least(U)
  BY <1>1, <1>4, <1>5
<1>7. CASE U = {}
  <2>1. T = {x} /\ x <= x
    BY <1>2, <1>3, <1>7
  <2> QED BY <1>1, <2>1
<1>8. CASE Least(U)
  <2>1. PICK a \in U : \A j \in U : a <= j
    BY <1>8
  <2>2. x \in Int /\ a \in Int /\ a \in T
    BY <1>2, <1>3, <2>1
  <2>3. Least(T)
    <3>1. CASE x <= a
      BY <1>2, <1>3, <2>1, <2>2, <3>1
    <3>2. CASE a <= x
      BY <1>2, <1>3, <2>1, <2>2, <3>2
    <3> QED BY <2>2, <3>1, <3>2
  <2> QED BY <1>1, <2>3
<1> QED BY <1>6, <1>7, <1>8

(* The loop over the slots is defined: the first slot it would not reach has   *)
(* one before it.                                                              *)
BestFrom(suitable, score, n, best) ==
    IF n \in suitable /\ Preferable(score[n], best, IF best = 0 THEN 0 ELSE score[best]) THEN n ELSE best
Looked(f, slots, suitable, score) ==
    f = [n \in 0..slots |-> IF n = 0 THEN 0 ELSE BestFrom(suitable, score, n, f[n - 1])]

LEMMA LookExists ==
    ASSUME NEW slots \in Nat, NEW suitable, NEW score
    PROVE  \E f : Looked(f, slots, suitable, score)
<1> DEFINE Bad == {m \in 0..slots : ~\E f : Looked(f, m, suitable, score)}
<1> SUFFICES ASSUME Bad # {}
             PROVE  FALSE
  OBVIOUS
<1>1. PICK m \in Bad : \A j \in Bad : m <= j
  <2> HIDE DEF Bad
  <2>1. Bad \in SUBSET (0..slots)
    BY DEF Bad
  <2> QED BY <2>1, LeastNumber
<1>2. CASE m = 0
  <2> DEFINE f == [n \in 0..0 |-> 0]
  <2>1. f = [n \in 0..0 |-> IF n = 0 THEN 0 ELSE BestFrom(suitable, score, n, f[n - 1])]
    OBVIOUS
  <2> HIDE DEF f
  <2> QED BY <1>1, <1>2, <2>1 DEF Looked
<1>3. CASE m # 0
  <2>1. m - 1 \in 0..slots /\ m \in 1..slots
    BY <1>1, <1>3
  <2>2. PICK g : Looked(g, m - 1, suitable, score)
    BY <1>1, <2>1
  <2> DEFINE f == [n \in 0..m |-> IF n = m THEN BestFrom(suitable, score, m, g[m - 1]) ELSE g[n]]
  <2>3. \A n \in 0..(m - 1) : g[n] = IF n = 0 THEN 0 ELSE BestFrom(suitable, score, n, g[n - 1])
    BY <2>2 DEF Looked
  <2>4. \A n \in 0..m : f[n] = IF n = 0 THEN 0 ELSE BestFrom(suitable, score, n, f[n - 1])
    BY <2>1, <2>3
  <2>5. f = [n \in 0..m |-> f[n]]
    OBVIOUS
  <2> HIDE DEF f
  <2>6. Looked(f, m, suitable, score)
    BY <2>4, <2>5 DEF Looked
  <2> QED BY <1>1, <2>6
<1> QED BY <1>2, <1>3

(* The best of the first slots: none if none suits, and otherwise one that     *)
(* suits and that no other of them surpasses, nor equals from before it.       *)
IsBest(b, n, suitable, score) ==
    IF suitable \cap (1..n) = {} THEN b = 0
    ELSE /\ b \in suitable \cap (1..n)
         /\ \A i \in (suitable \cap (1..n)) \ {b} : score[i] < score[b] \/ (score[i] = score[b] /\ i > b)

LEMMA BestNext ==
    ASSUME NEW n \in Nat \ {0}, NEW suitable \in SUBSET (Nat \ {0}), NEW score, \A i \in suitable : score[i] \in Nat,
           NEW b, IsBest(b, n - 1, suitable, score)
    PROVE  IsBest(BestFrom(suitable, score, n, b), n, suitable, score)
<1> DEFINE P == suitable \cap (1..(n - 1))
           N == suitable \cap (1..n)
<1>1. CASE n \notin suitable
  <2>1. N = P
    BY <1>1
  <2>2. BestFrom(suitable, score, n, b) = b
    BY <1>1 DEF BestFrom
  <2> QED BY <2>1, <2>2 DEF IsBest
<1>2. CASE n \in suitable
  <2>1. N = P \cup {n} /\ n \notin P /\ N # {}
    BY <1>2
  <2>2. \A i \in P : i < n /\ i \in Nat /\ i # 0 /\ score[i] \in Nat
    OBVIOUS
  <2>3. score[n] \in Nat
    BY <1>2
  <2>4. CASE P = {}
    <3>1. b = 0 /\ N = {n}
      BY <2>1, <2>4 DEF IsBest
    <3>2. BestFrom(suitable, score, n, b) = n
      BY <1>2, <3>1 DEF BestFrom, Preferable
    <3> QED BY <3>1, <3>2 DEF IsBest
  <2>5. CASE P # {}
    <3>1. b \in P /\ \A i \in P \ {b} : score[i] < score[b] \/ (score[i] = score[b] /\ i > b)
      BY <2>5 DEF IsBest
    <3>2. b # 0 /\ b \in Nat /\ score[b] \in Nat /\ b < n
      BY <2>2, <3>1
    <3>3. CASE score[n] > score[b]
      <4>1. BestFrom(suitable, score, n, b) = n
        BY <1>2, <3>2, <3>3 DEF BestFrom, Preferable
      <4>2. \A i \in P : score[i] < score[n]
        BY <2>2, <2>3, <3>1, <3>2, <3>3
      <4>3. n \in N /\ \A i \in N \ {n} : score[i] < score[n] \/ (score[i] = score[n] /\ i > n)
        BY <2>1, <4>2
      <4> QED BY <2>1, <4>1, <4>3 DEF IsBest
    <3>4. CASE ~(score[n] > score[b])
      <4>1. BestFrom(suitable, score, n, b) = b
        BY <3>2, <3>4 DEF BestFrom, Preferable
      <4>2. score[n] < score[b] \/ (score[n] = score[b] /\ n > b)
        BY <2>3, <3>2, <3>4
      <4>3. b \in N /\ \A i \in N \ {b} : score[i] < score[b] \/ (score[i] = score[b] /\ i > b)
        BY <2>1, <3>1, <4>2
      <4> QED BY <2>1, <4>1, <4>3 DEF IsBest
    <3> QED BY <3>3, <3>4
  <2> QED BY <2>4, <2>5
<1> QED BY <1>1, <1>2

(* The loop ends at the best of all slots: the first slot at which it held     *)
(* another would have had the best of those before it.                         *)
LEMMA BestIs ==
    ASSUME NEW slots \in Nat, NEW suitable \in SUBSET (1..slots), NEW score, \A i \in suitable : score[i] \in Nat
    PROVE  IsBest(Best(slots, suitable, score), slots, suitable, score)
<1> DEFINE f == CHOOSE g : Looked(g, slots, suitable, score)
<1>1. Looked(f, slots, suitable, score)
  BY LookExists
<1>2. Best(slots, suitable, score) = f[slots]
  BY DEF Best, Looked, BestFrom
<1> HIDE DEF f
<1>3. f[0] = 0 /\ \A n \in 1..slots : f[n] = BestFrom(suitable, score, n, f[n - 1])
  BY <1>1 DEF Looked
<1> DEFINE Bad == {m \in 0..slots : ~IsBest(f[m], m, suitable, score)}
<1>4. Bad = {}
  <2> SUFFICES ASSUME Bad # {}
               PROVE  FALSE
    OBVIOUS
  <2>1. PICK m \in Bad : \A j \in Bad : m <= j
    <3> HIDE DEF Bad
    <3>1. Bad \in SUBSET (0..slots)
      BY DEF Bad
    <3> QED BY <3>1, LeastNumber
  <2>2. CASE m = 0
    <3>1. suitable \cap (1..0) = {}
      OBVIOUS
    <3> QED BY <1>3, <2>1, <2>2, <3>1 DEF IsBest
  <2>3. CASE m # 0
    <3>1. m - 1 \in 0..slots /\ m \in 1..slots /\ m \in Nat \ {0} /\ ~(m <= m - 1)
      BY <2>1, <2>3
    <3>2. IsBest(f[m - 1], m - 1, suitable, score)
      BY <2>1, <3>1
    <3>3. IsBest(BestFrom(suitable, score, m, f[m - 1]), m, suitable, score)
      BY <3>1, <3>2, BestNext
    <3> QED BY <1>3, <2>1, <3>1, <3>3
  <2> QED BY <2>2, <2>3
<1>5. slots \in 0..slots
  OBVIOUS
<1> HIDE DEF f
<1>6. IsBest(f[slots], slots, suitable, score)
  BY <1>4, <1>5
<1> QED BY <1>2, <1>6

LEMMA SelectionIsFirstBest ==
    ASSUME NEW slots \in Nat, NEW suitable \in SUBSET (1..slots), NEW score, \A i \in suitable : score[i] \in Nat
    PROVE  FirstBest(Selection(Best(slots, suitable, score), score), suitable, score)
<1> DEFINE b == Best(slots, suitable, score)
<1>1. suitable \cap (1..slots) = suitable
  OBVIOUS
<1>2. IF suitable = {} THEN b = 0
      ELSE b \in suitable /\ \A i \in suitable \ {b} : score[i] < score[b] \/ (score[i] = score[b] /\ i > b)
  BY <1>1, BestIs DEF IsBest
<1> HIDE DEF b
<1>3. CASE suitable = {}
  BY <1>2, <1>3 DEF FirstBest, Selection, b
<1>4. CASE suitable # {}
  <2>1. b # 0 /\ b \in suitable /\ \A i \in suitable \ {b} : score[i] < score[b] \/ (score[i] = score[b] /\ i > b)
    <3>1. b \in suitable /\ \A i \in suitable \ {b} : score[i] < score[b] \/ (score[i] = score[b] /\ i > b)
      <4> USE <1>2
      <4> QED BY <1>4, Zenon
    <3>2. b \in 1..slots
      BY <3>1
    <3> QED BY <3>1, <3>2
  <2>2. score[b] = 0 <=> \A i \in suitable : score[i] = 0
    <3>1. \A i \in suitable : score[i] \in Nat
      OBVIOUS
    <3>2. ASSUME score[b] = 0, NEW i \in suitable
          PROVE  score[i] = 0
      <4>1. CASE i = b
        BY <3>2, <4>1
      <4>2. CASE i # b
        <5>1. score[i] < score[b] \/ score[i] = score[b]
          BY <2>1, <4>2
        <5> QED BY <3>1, <3>2, <5>1
      <4> QED BY <4>1, <4>2
    <3> QED BY <2>1, <3>2
  <2>3. Selection(b, score).result = "OK" /\ Selection(b, score).slot = b
        /\ (Selection(b, score).reason = "registration_order" <=> score[b] = 0)
    BY <2>1 DEF Selection
  <2> QED BY <1>4, <2>1, <2>2, <2>3 DEF FirstBest, b
<1> QED BY <1>3, <1>4

(* What the scores are made of is finite.                                      *)
LEMMA ScoresAreNumbers ==
    ASSUME NEW r \in Registries
    PROVE  /\ \A preferred : \A f \in Families : \A i \in DOMAIN r.stores[f] : Scores(r.stores[f], preferred)[i] \in Nat
           /\ \A preferred : \A i \in DOMAIN r.devices : DeviceScores(r, preferred)[i] \in Nat
<1>1. ASSUME NEW f \in Families, NEW preferred, NEW i \in DOMAIN r.stores[f]
      PROVE  Scores(r.stores[f], preferred)[i] \in Nat
  <2>1. r.stores[f] \in Seq(Entries) /\ r.stores[f][i] \in Entries
    BY <1>1 DEF Registries
  <2>2. PICK d \in Descriptors : r.stores[f][i].caps = d.info.caps
    BY <2>1 DEF Entries
  <2>3. IsFiniteSet(r.stores[f][i].caps \cap preferred)
    BY <2>2, BitsAssumption, FS_Intersection
  <2>4. Cardinality(r.stores[f][i].caps \cap preferred) \in Nat
    BY <2>3, FS_CardinalityType
  <2> QED BY <1>1, <2>4 DEF Scores
<1>2. ASSUME NEW preferred, NEW i \in DOMAIN r.devices
      PROVE  DeviceScores(r, preferred)[i] \in Nat
  <2> DEFINE d == r.devices[i].info
  <2>1. r.devices \in Seq(DeviceRecords) /\ r.devices[i] \in DeviceRecords
    BY <1>2 DEF Registries
  <2>2. d \in DeviceInfos
    BY <2>1 DEF DeviceRecords
  <2> HIDE DEF d
  <2>3. IsFiniteSet(d.caps \cap preferred.caps) /\ IsFiniteSet(d.formats \cap preferred.formats)
        /\ IsFiniteSet(d.imports \cap preferred.imports)
    BY <2>2, BitsAssumption, FS_Intersection
  <2>4. Cardinality(d.caps \cap preferred.caps) \in Nat /\ Cardinality(d.formats \cap preferred.formats) \in Nat
        /\ Cardinality(d.imports \cap preferred.imports) \in Nat
    BY <2>3, FS_CardinalityType
  <2>5. DeviceScore(r.devices[i], preferred) \in Nat
    BY <2>4 DEF DeviceScore, d
  <2> QED BY <1>2, <2>5 DEF DeviceScores
<1> QED BY <1>1, <1>2

(* What is selected is the first of the best, whatever is asked for.           *)
LEMMA SelectsBest ==
    ASSUME NEW r \in Registries, NEW required, NEW preferred
    PROVE  /\ \A f \in Families :
                FirstBest(select(r, f, required, preferred), Suitable(r.stores[f], required), Scores(r.stores[f], preferred))
           /\ FirstBest(select_device(r, required, preferred), SuitableDevices(r, required), DeviceScores(r, preferred))
<1>1. ASSUME NEW f \in Families
      PROVE  FirstBest(select(r, f, required, preferred), Suitable(r.stores[f], required), Scores(r.stores[f], preferred))
  <2> DEFINE n == Len(r.stores[f])
             S == Suitable(r.stores[f], required)
             score == Scores(r.stores[f], preferred)
  <2>1. r.stores[f] \in Seq(Entries)
    BY DEF Registries
  <2>2. n \in Nat /\ DOMAIN r.stores[f] = 1..n
    BY <2>1
  <2>3. S \in SUBSET (1..n)
    BY <2>2 DEF Suitable
  <2>4. \A i \in S : score[i] \in Nat
    BY <2>2, <2>3, ScoresAreNumbers
  <2> HIDE DEF n, S, score
  <2>5. FirstBest(Selection(Best(n, S, score), score), S, score)
    BY <2>2, <2>3, <2>4, SelectionIsFirstBest
  <2> QED BY <2>5 DEF select, n, S, score
<1>2. FirstBest(select_device(r, required, preferred), SuitableDevices(r, required), DeviceScores(r, preferred))
  <2> DEFINE n == Len(r.devices)
             S == SuitableDevices(r, required)
             score == DeviceScores(r, preferred)
  <2>1. r.devices \in Seq(DeviceRecords)
    BY DEF Registries
  <2>2. n \in Nat /\ DOMAIN r.devices = 1..n
    BY <2>1
  <2>3. S \in SUBSET (1..n)
    BY <2>2 DEF SuitableDevices
  <2>4. \A i \in S : score[i] \in Nat
    BY <2>2, <2>3, ScoresAreNumbers
  <2> HIDE DEF n, S, score
  <2>5. FirstBest(Selection(Best(n, S, score), score), S, score)
    BY <2>2, <2>3, <2>4, SelectionIsFirstBest
  <2> QED BY <2>5 DEF select_device, n, S, score
<1> QED BY <1>1, <1>2

(* What is asked for by its id is found if it is there.                        *)
LEMMA ExplicitIs ==
    ASSUME NEW n \in Nat, NEW S \in SUBSET (1..n)
    PROVE  (Explicit(S).result = "OK" <=> S # {}) /\ (S # {} => Explicit(S).slot \in S)
<1>1. CASE S = {}
  BY <1>1 DEF Explicit
<1>2. CASE S # {}
  <2>1. S \in SUBSET (0..n)
    OBVIOUS
  <2>2. \E i \in S : \A j \in S : i <= j
    BY <1>2, <2>1, LeastNumber
  <2>3. (CHOOSE i \in S : \A j \in S : i <= j) \in S
    BY <2>2
  <2> QED BY <1>2, <2>3 DEF Explicit
<1> QED BY <1>1, <1>2

LEMMA SelectsById ==
    ASSUME NEW r \in Registries, NEW f \in Families, NEW id
    PROVE  select_by_id(r, f, id).result = "OK" <=> id # 0 /\ \E i \in DOMAIN r.stores[f] : r.stores[f][i].id = id
<1> DEFINE S == {i \in DOMAIN r.stores[f] : r.stores[f][i].id = id}
<1>1. r.stores[f] \in Seq(Entries)
  BY DEF Registries
<1>2. Len(r.stores[f]) \in Nat /\ S \in SUBSET (1..Len(r.stores[f]))
  BY <1>1
<1>3. Explicit(S).result = "OK" <=> S # {}
  <2> HIDE DEF S
  <2> QED BY <1>2, ExplicitIs
<1>4. S # {} <=> \E i \in DOMAIN r.stores[f] : r.stores[f][i].id = id
  OBVIOUS
<1> HIDE DEF S
<1> QED BY <1>3, <1>4 DEF select_by_id, S

LEMMA DeviceSelectsById ==
    ASSUME NEW r \in Registries, NEW given, NEW id, select_device_by_id(r, given, id).result = "OK"
    PROVE  LET d == r.devices[select_device_by_id(r, given, id).slot]
           IN d.provider = given /\ d.info.id = id
<1> DEFINE S == {i \in DOMAIN r.devices : r.devices[i].provider = given /\ r.devices[i].info.id = id}
<1>1. r.devices \in Seq(DeviceRecords)
  BY DEF Registries
<1>2. Len(r.devices) \in Nat /\ S \in SUBSET (1..Len(r.devices))
  BY <1>1
<1>3. (Explicit(S).result = "OK" => S # {}) /\ (S # {} => Explicit(S).slot \in S)
  <2> HIDE DEF S
  <2> QED BY <1>2, ExplicitIs
<1>4. select_device_by_id(r, given, id) = Explicit(S)
  BY DEF select_device_by_id
<1> QED BY <1>3, <1>4

(* A registration that is accepted adds a provider of its own id, to which its *)
(* handle leads, and no device loses its owner.                                *)
Agrees(r) == r \in Registries /\ HandlesPoint(r) /\ ProvidersAreApart(r) /\ DevicesAreInReach(r)

LEMMA HandlesLead ==
    ASSUME NEW r \in Registries, HandlesPoint(r), NEW f \in Families, NEW i \in DOMAIN r.stores[f], NEW g \in Families
    PROVE  lookup(r, g, r.stores[f][i].handle) = IF f = g THEN {r.stores[f][i]} ELSE {}
<1>1. r.stores[f][i].handle = [domain |-> 1, family |-> f, slot |-> i] /\ r.domain = 1
  BY DEF HandlesPoint, Registries
<1> QED BY <1>1 DEF lookup

LEMMA InsertAgrees ==
    ASSUME NEW r, Agrees(r), NEW family \in Families, NEW d \in Descriptors
    PROVE  LET o == insert(r, family, d.info) IN Agrees(o.registry) /\ (o.result # "OK" => o.registry = r)
<1> DEFINE store == r.stores[family]
           n == Len(store)
           entry == [handle |-> make_handle(r, family, n + 1), id |-> d.info.id, caps |-> d.info.caps]
           stores == [r.stores EXCEPT ![family] = Append(store, entry)]
           new == [r EXCEPT !.stores = stores]
<1>1. r \in Registries /\ HandlesPoint(r) /\ ProvidersAreApart(r) /\ DevicesAreInReach(r)
  BY DEF Agrees
<1>2. r.stores \in [Families -> Seq(Entries)] /\ store \in Seq(Entries) /\ n \in Nat /\ r.domain = 1
      /\ DOMAIN store = 1..n
  BY <1>1 DEF Registries
<1>3. CASE (\E i \in DOMAIN store : store[i].id = d.info.id) \/ n = ProviderCapacity
  BY <1>3 DEF insert, Registered, Agrees
<1>4. CASE ~((\E i \in DOMAIN store : store[i].id = d.info.id) \/ n = ProviderCapacity)
  <2>1. entry \in Entries /\ entry.handle = [domain |-> 1, family |-> family, slot |-> n + 1]
        /\ entry.id = d.info.id
    BY <1>2 DEF Entries, make_handle
  <2>2. insert(r, family, d.info) = [result |-> "OK", registry |-> new]
    BY <1>4 DEF insert, Registered
  <2> HIDE DEF entry
  <2>3. Append(store, entry) \in Seq(Entries) /\ Len(Append(store, entry)) = n + 1
        /\ DOMAIN Append(store, entry) = 1..(n + 1)
        /\ Append(store, entry)[n + 1] = entry /\ \A i \in 1..n : Append(store, entry)[i] = store[i]
    BY <1>2, <2>1
  <2>4. stores \in [Families -> Seq(Entries)] /\ stores[family] = Append(store, entry)
        /\ \A f \in Families \ {family} : stores[f] = r.stores[f]
    BY <1>2, <2>3
  <2> HIDE DEF stores
  <2>5. new.stores = stores /\ new.domain = r.domain /\ new.devices = r.devices /\ new.frozen = r.frozen
    BY <1>1 DEF Registries
  <2>6. new \in Registries
    BY <1>1, <2>4 DEF Registries
  <2> HIDE DEF new, store, n
  <2>7. \A f \in Families : \A i \in DOMAIN new.stores[f] :
          (i \in DOMAIN r.stores[f] /\ new.stores[f][i] = r.stores[f][i])
          \/ (f = family /\ i = n + 1 /\ new.stores[f][i] = entry)
    <3> SUFFICES ASSUME NEW f \in Families, NEW i \in DOMAIN new.stores[f]
                 PROVE  (i \in DOMAIN r.stores[f] /\ new.stores[f][i] = r.stores[f][i])
                        \/ (f = family /\ i = n + 1 /\ new.stores[f][i] = entry)
      OBVIOUS
    <3>1. CASE f = family
      <4>1. i \in 1..(n + 1) /\ new.stores[f] = Append(store, entry)
        BY <2>3, <2>4, <2>5, <3>1
      <4>2. CASE i = n + 1
        BY <2>3, <3>1, <4>1, <4>2
      <4>3. CASE i \in 1..n
        BY <1>2, <2>3, <3>1, <4>1, <4>3 DEF store
      <4> QED BY <1>2, <4>1, <4>2, <4>3
    <3>2. CASE f # family
      BY <2>4, <2>5, <3>2
    <3> QED BY <3>1, <3>2
  <2>8. \A f \in Families : \A i \in DOMAIN r.stores[f] : i \in DOMAIN new.stores[f] /\ new.stores[f][i] = r.stores[f][i]
    <3> SUFFICES ASSUME NEW f \in Families, NEW i \in DOMAIN r.stores[f]
                 PROVE  i \in DOMAIN new.stores[f] /\ new.stores[f][i] = r.stores[f][i]
      OBVIOUS
    <3>1. CASE f = family
      <4>1. new.stores[f] = Append(store, entry) /\ r.stores[f] = store /\ i \in 1..n
        BY <1>2, <2>4, <2>5, <3>1 DEF store
      <4>2. i \in 1..(n + 1)
        BY <1>2, <4>1
      <4> QED BY <2>3, <4>1, <4>2
    <3>2. CASE f # family
      BY <2>4, <2>5, <3>2
    <3> QED BY <3>1, <3>2
  <2>9. HandlesPoint(new)
    BY ZenonT(60), <1>1, <2>1, <2>7 DEF HandlesPoint
  <2>10. ProvidersAreApart(new)
    <3> SUFFICES ASSUME NEW f \in Families
                 PROVE  /\ Single([i \in DOMAIN new.stores[f] |-> new.stores[f][i].id])
                        /\ \A i \in DOMAIN new.stores[f], g \in Families :
                             lookup(new, g, new.stores[f][i].handle) = IF f = g THEN {new.stores[f][i]} ELSE {}
      BY DEF ProvidersAreApart
    <3>1. \A i, j \in DOMAIN r.stores[f] : r.stores[f][i].id = r.stores[f][j].id => i = j
      BY <1>1 DEF ProvidersAreApart, Single
    <3>2. \A i, j \in DOMAIN new.stores[f] : new.stores[f][i].id = new.stores[f][j].id => i = j
        <4> SUFFICES ASSUME NEW i \in DOMAIN new.stores[f], NEW j \in DOMAIN new.stores[f],
                          new.stores[f][i].id = new.stores[f][j].id
                   PROVE  i = j
        OBVIOUS
      <4>1. ASSUME NEW k \in DOMAIN r.stores[family]
            PROVE  r.stores[family][k].id # entry.id
        BY <1>4, <2>1, <4>1 DEF store
      <4>2. CASE i \in DOMAIN r.stores[f] /\ new.stores[f][i] = r.stores[f][i]
        BY <2>7, <3>1, <4>1, <4>2
      <4>3. CASE f = family /\ i = n + 1 /\ new.stores[f][i] = entry
        BY <2>7, <4>1, <4>3
      <4> QED BY <2>7, <4>2, <4>3
    <3>3. Single([i \in DOMAIN new.stores[f] |-> new.stores[f][i].id])
      BY <3>2 DEF Single
    <3> QED BY <2>6, <2>9, <3>3, HandlesLead
  <2>11. DevicesAreInReach(new)
    <3>1. \A h : lookup(r, "inference", h) # {} => lookup(new, "inference", h) = lookup(r, "inference", h)
      <4>1. "inference" \in Families
        BY RegistryAssumption
      <4> QED BY <2>5, <2>8, <4>1 DEF lookup
    <3>2. \A i \in DOMAIN r.devices :
            \E owner \in lookup(r, "inference", r.devices[i].provider) :
              /\ r.devices[i].info.caps \subseteq owner.caps
              /\ \A way \in r.devices[i].info.imports :
                   (IF way = "host" THEN "host_import" ELSE "native_import") \in owner.caps
      BY <1>1 DEF DevicesAreInReach
    <3>3. \A i \in DOMAIN r.devices :
            \E owner \in lookup(new, "inference", r.devices[i].provider) :
              /\ r.devices[i].info.caps \subseteq owner.caps
              /\ \A way \in r.devices[i].info.imports :
                   (IF way = "host" THEN "host_import" ELSE "native_import") \in owner.caps
      <4> SUFFICES ASSUME NEW i \in DOMAIN r.devices
                   PROVE  \E owner \in lookup(new, "inference", r.devices[i].provider) :
                            /\ r.devices[i].info.caps \subseteq owner.caps
                            /\ \A way \in r.devices[i].info.imports :
                                 (IF way = "host" THEN "host_import" ELSE "native_import") \in owner.caps
        OBVIOUS
      <4>1. lookup(new, "inference", r.devices[i].provider) = lookup(r, "inference", r.devices[i].provider)
        BY <3>1, <3>2
      <4> QED BY <3>2, <4>1
    <3> QED BY <1>1, <2>5, <3>3 DEF DevicesAreInReach
  <2> QED BY <2>2, <2>6, <2>9, <2>10, <2>11 DEF Agrees
<1> QED BY <1>3, <1>4

LEMMA ProviderAgrees ==
    ASSUME NEW r, Agrees(r), NEW family \in Families, NEW d \in Descriptors
    PROVE  LET o == register_provider(r, family, d)
           IN Agrees(o.registry) /\ (o.result # "OK" => o.registry = r) /\ (r.frozen => o.result # "OK")
<1> DEFINE v == copy_and_validate_descriptor(d, family)
<1>1. r.frozen \in BOOLEAN
  BY DEF Agrees, Registries
<1> HIDE DEF v
<1>2. CASE r.frozen
  <2>1. register_provider(r, family, d) = [result |-> "STATE", registry |-> r]
    BY <1>2 DEF register_provider, Registered
  <2> QED BY <2>1
<1>3. CASE ~r.frozen /\ v # "OK"
  <2>1. register_provider(r, family, d) = [result |-> v, registry |-> r]
    BY <1>3 DEF register_provider, Registered, v
  <2> QED BY <1>3, <2>1
<1>4. CASE ~r.frozen /\ v = "OK"
  <2>1. register_provider(r, family, d) = insert(r, family, d.info)
    BY <1>4 DEF register_provider, v
  <2> QED BY <1>4, <2>1, InsertAgrees
<1> QED BY <1>1, <1>2, <1>3, <1>4

(* Handles lead where they led while the stores are as they were.              *)
LEMMA SameStores ==
    ASSUME NEW r, NEW new, new.stores = r.stores, new.domain = r.domain, HandlesPoint(r), ProvidersAreApart(r)
    PROVE  HandlesPoint(new) /\ ProvidersAreApart(new)
<1>1. HandlesPoint(new)
  BY DEF HandlesPoint
<1>2. ASSUME NEW f \in Families
      PROVE  /\ Single([i \in DOMAIN new.stores[f] |-> new.stores[f][i].id])
             /\ \A i \in DOMAIN new.stores[f], g \in Families :
                   lookup(new, g, new.stores[f][i].handle) = IF f = g THEN {new.stores[f][i]} ELSE {}
  <2>1. Single([i \in DOMAIN r.stores[f] |-> r.stores[f][i].id])
    BY DEF ProvidersAreApart
  <2>2. \A i \in DOMAIN r.stores[f], g \in Families :
           lookup(r, g, r.stores[f][i].handle) = IF f = g THEN {r.stores[f][i]} ELSE {}
    BY DEF ProvidersAreApart
  <2>3. \A g, h : lookup(new, g, h) = lookup(r, g, h)
    BY DEF lookup
  <2>4. Single([i \in DOMAIN new.stores[f] |-> new.stores[f][i].id])
    BY <2>1
  <2>5. ASSUME NEW i \in DOMAIN new.stores[f], NEW g \in Families
        PROVE  lookup(new, g, new.stores[f][i].handle) = IF f = g THEN {new.stores[f][i]} ELSE {}
    <3>1. i \in DOMAIN r.stores[f] /\ new.stores[f][i] = r.stores[f][i]
      BY <2>5
    <3>2. lookup(r, g, r.stores[f][i].handle) = IF f = g THEN {r.stores[f][i]} ELSE {}
      BY <2>2, <3>1, Zenon
    <3> QED BY <2>3, <3>1, <3>2
  <2> QED BY <2>4, <2>5
<1> QED BY <1>1, <1>2 DEF ProvidersAreApart

(* A device is accepted with an owner that is there, whose reach it stays in.  *)
LEMMA InReachIs ==
    ASSUME NEW info, NEW owner, InReach(info, owner)
    PROVE  /\ info.caps \subseteq owner.caps
           /\ \A way \in info.imports : (IF way = "host" THEN "host_import" ELSE "native_import") \in owner.caps
<1>1. ASSUME NEW way \in info.imports
      PROVE  (IF way = "host" THEN "host_import" ELSE "native_import") \in owner.caps
  <2>1. CASE way = "host"
    BY <1>1, <2>1 DEF InReach
  <2>2. CASE way # "host"
    <3>1. info.imports \ {"host"} # {}
      BY <1>1, <2>2
    <3> QED BY <2>2, <3>1 DEF InReach
  <2> QED BY <2>1, <2>2
<1> QED BY <1>1 DEF InReach

LEMMA DeviceAgrees ==
    ASSUME NEW r, Agrees(r), NEW given \in [domain : 1..2, family : {"inference"}, slot : Nat],
           NEW info \in DeviceInfos
    PROVE  LET o == register_device(r, given, info)
           IN Agrees(o.registry) /\ (o.result # "OK" => o.registry = r) /\ (r.frozen => o.result # "OK")
<1> DEFINE owners == lookup(r, "inference", given)
           v == copy_and_validate_device_info(info)
           taken == \E i \in DOMAIN r.devices : r.devices[i].provider = given /\ r.devices[i].info.id = info.id
           apart == \E owner \in owners : ~InReach(info, owner)
           record == [provider |-> given, info |-> info]
           devices == Append(r.devices, record)
           new == [r EXCEPT !.devices = devices]
           o == register_device(r, given, info)
<1>1. r \in Registries /\ HandlesPoint(r) /\ ProvidersAreApart(r) /\ DevicesAreInReach(r) /\ r.frozen \in BOOLEAN
  BY DEF Agrees, Registries
<1>2. \/ o.registry = r /\ o.result # "OK"
      \/ ~r.frozen /\ owners # {} /\ ~apart /\ ~taken /\ o = [result |-> "OK", registry |-> new]
  <2> HIDE DEF owners, v, taken, apart, devices
  <2>1. o = IF r.frozen THEN [result |-> "STATE", registry |-> r]
            ELSE IF owners = {} THEN [result |-> "STALE", registry |-> r]
            ELSE IF v # "OK" THEN [result |-> v, registry |-> r]
            ELSE IF apart THEN [result |-> "INVALID", registry |-> r]
            ELSE IF taken THEN [result |-> "ALREADY_EXISTS", registry |-> r]
            ELSE IF Len(r.devices) = DeviceCapacity THEN [result |-> "CAPACITY", registry |-> r]
            ELSE [result |-> "OK", registry |-> new]
    BY DEF register_device, Registered, owners, v, taken, apart, devices
  <2> HIDE DEF o, new
  <2> QED BY <1>1, <2>1
<1>3. CASE o.registry = r /\ o.result # "OK"
  BY <1>3
<1>4. CASE ~r.frozen /\ owners # {} /\ ~apart /\ ~taken /\ o = [result |-> "OK", registry |-> new]
  <2>1. r.devices \in Seq(DeviceRecords) /\ Len(r.devices) \in Nat /\ DOMAIN r.devices = 1..Len(r.devices)
    BY <1>1 DEF Registries
  <2>2. record \in DeviceRecords
    BY DEF DeviceRecords
  <2> DEFINE n == Len(r.devices)
  <2>3. devices \in Seq(DeviceRecords) /\ DOMAIN devices = 1..(n + 1) /\ devices[n + 1] = record
        /\ \A i \in 1..n : devices[i] = r.devices[i]
    <3> HIDE DEF record
    <3> QED BY <2>1, <2>2
  <2>4. record.provider = given /\ record.info = info
    OBVIOUS
  <2> HIDE DEF devices, record
  <2>5. new.devices = devices /\ new.stores = r.stores /\ new.domain = r.domain /\ new.frozen = r.frozen
        /\ new \in Registries
    BY <1>1, <2>3 DEF Registries
  <2>6. \A g, h : lookup(new, g, h) = lookup(r, g, h)
    BY <2>5 DEF lookup
  <2> HIDE DEF new, n
  <2>7. HandlesPoint(new) /\ ProvidersAreApart(new)
    BY <1>1, <2>5, SameStores
  <2>8. \A i \in DOMAIN new.devices : (i \in DOMAIN r.devices /\ new.devices[i] = r.devices[i])
                                      \/ (i = n + 1 /\ new.devices[i] = record)
    BY <2>1, <2>3, <2>5 DEF n
  <2>9. Single([i \in DOMAIN new.devices |-> <<new.devices[i].provider, new.devices[i].info.id>>])
    <3>1. \A i, j \in DOMAIN r.devices :
             r.devices[i].provider = r.devices[j].provider /\ r.devices[i].info.id = r.devices[j].info.id => i = j
      BY <1>1 DEF DevicesAreInReach, Single
    <3>2. ASSUME NEW i \in DOMAIN new.devices, NEW j \in DOMAIN new.devices,
                 new.devices[i].provider = new.devices[j].provider, new.devices[i].info.id = new.devices[j].info.id
          PROVE  i = j
      <4>1. CASE i \in DOMAIN r.devices /\ new.devices[i] = r.devices[i]
        <5>1. CASE j \in DOMAIN r.devices /\ new.devices[j] = r.devices[j]
          BY <3>1, <3>2, <4>1, <5>1
        <5>2. CASE j = n + 1 /\ new.devices[j] = record
          BY <1>4, <2>4, <3>2, <4>1, <5>2
        <5> QED BY <2>8, <5>1, <5>2
      <4>2. CASE i = n + 1 /\ new.devices[i] = record
        <5>1. CASE j \in DOMAIN r.devices /\ new.devices[j] = r.devices[j]
          BY <1>4, <2>4, <3>2, <4>2, <5>1
        <5>2. CASE j = n + 1 /\ new.devices[j] = record
          BY <4>2, <5>2
        <5> QED BY <2>8, <5>1, <5>2
      <4> QED BY <2>8, <4>1, <4>2
    <3> QED BY <3>2 DEF Single
  <2>10. ASSUME NEW i \in DOMAIN new.devices
         PROVE  \E owner \in lookup(new, "inference", new.devices[i].provider) :
                   /\ new.devices[i].info.caps \subseteq owner.caps
                   /\ \A way \in new.devices[i].info.imports :
                        (IF way = "host" THEN "host_import" ELSE "native_import") \in owner.caps
    <3>1. CASE i \in DOMAIN r.devices /\ new.devices[i] = r.devices[i]
      <4>1. \E owner \in lookup(r, "inference", r.devices[i].provider) :
                   /\ r.devices[i].info.caps \subseteq owner.caps
                   /\ \A way \in r.devices[i].info.imports :
                        (IF way = "host" THEN "host_import" ELSE "native_import") \in owner.caps
        BY <1>1, <3>1 DEF DevicesAreInReach
      <4> QED BY <2>6, <3>1, <4>1
    <3>2. CASE i = n + 1 /\ new.devices[i] = record
      <4>1. PICK owner \in owners : InReach(info, owner)
        BY <1>4
      <4>2. owner \in lookup(new, "inference", new.devices[i].provider)
        BY <2>4, <2>6, <3>2, <4>1
      <4>3. /\ info.caps \subseteq owner.caps
            /\ \A way \in info.imports : (IF way = "host" THEN "host_import" ELSE "native_import") \in owner.caps
        BY <4>1, InReachIs
      <4> QED BY <2>4, <3>2, <4>2, <4>3
    <3> QED BY <2>8, <3>1, <3>2
  <2>11. DevicesAreInReach(new)
    BY <2>9, <2>10 DEF DevicesAreInReach
  <2> QED BY <1>4, <2>5, <2>7, <2>11 DEF Agrees
<1> QED BY <1>2, <1>3, <1>4

LEMMA FreezeAgrees ==
    ASSUME NEW r, Agrees(r)
    PROVE  Agrees(freeze(r))
<1>1. r \in Registries /\ HandlesPoint(r) /\ ProvidersAreApart(r) /\ DevicesAreInReach(r)
  BY DEF Agrees
<1> DEFINE new == freeze(r)
<1>2. new \in Registries /\ new.stores = r.stores /\ new.devices = r.devices /\ new.domain = r.domain
  BY <1>1 DEF Registries, freeze
<1> HIDE DEF new
<1>3. \A g, h : lookup(new, g, h) = lookup(r, g, h)
  BY <1>2 DEF lookup
<1>4. HandlesPoint(new) /\ ProvidersAreApart(new)
  BY <1>1, <1>2, SameStores
<1>5. DevicesAreInReach(new)
  BY <1>1, <1>2, <1>3 DEF DevicesAreInReach
<1> QED BY <1>2, <1>4, <1>5 DEF Agrees, new

LEMMA RegistryStarts == RegistryInit => RegistryInv
<1> SUFFICES ASSUME RegistryInit
             PROVE  RegistryInv
  OBVIOUS
<1>1. registry = NewRegistry /\ outcome = [op |-> "none"]
  BY DEF RegistryInit
<1>2. registry.domain = 1 /\ registry.stores = [f \in Families |-> <<>>] /\ registry.devices = <<>> /\ registry.frozen = FALSE
      /\ registry = [domain |-> registry.domain, stores |-> registry.stores, devices |-> registry.devices,
                     frozen |-> registry.frozen]
  BY <1>1 DEF NewRegistry
<1>3. <<>> \in Seq(Entries) /\ <<>> \in Seq(DeviceRecords) /\ DOMAIN <<>> = {}
  OBVIOUS
<1>4. registry \in Registries
  BY <1>2, <1>3 DEF Registries
<1>5. \A f \in Families : DOMAIN registry.stores[f] = {}
  BY <1>2, <1>3
<1>6. HandlesPoint(registry) /\ ProvidersAreApart(registry)
  BY <1>5 DEF HandlesPoint, ProvidersAreApart, Single
<1>7. DevicesAreInReach(registry)
  BY <1>2, <1>3 DEF DevicesAreInReach, Single
<1>8. RefusalIsHarmless /\ SelectionIsBest
  BY <1>1 DEF RefusalIsHarmless, SelectionIsBest
<1> QED BY <1>4, <1>6, <1>7, <1>8 DEF RegistryInv, RegistryHolds

(* A registration keeps the agreement, and a refusal leaves the registry.      *)
LEMMA RegisterStep ==
    ASSUME NEW op \in {"provider", "device", "freeze"}, NEW done, Register(op, done), Agrees(done.registry),
           op # "freeze" => (registry.frozen => done.result # "OK") /\ (done.result # "OK" => done.registry = registry)
    PROVE  RegistryInv'
<1>1. registry' = done.registry /\ outcome' = [op |-> op, result |-> done.result, before |-> registry]
  BY DEF Register
<1>2. outcome'.op = op /\ outcome'.result = done.result /\ outcome'.before = registry
  BY <1>1
<1>3. Agrees(registry)'
  <2>1. HandlesPoint(registry)' <=> HandlesPoint(done.registry)
    BY <1>1 DEF HandlesPoint
  <2>2. ProvidersAreApart(registry)' <=> ProvidersAreApart(done.registry)
    BY <1>1 DEF ProvidersAreApart, lookup, Single
  <2>3. DevicesAreInReach(registry)' <=> DevicesAreInReach(done.registry)
    BY <1>1 DEF DevicesAreInReach, lookup, Single
  <2>4. (registry \in Registries)' <=> done.registry \in Registries
    BY <1>1
  <2>5. Agrees(registry)' <=> Agrees(done.registry)
    BY <2>1, <2>2, <2>3, <2>4 DEF Agrees
  <2> QED BY <2>5
<1>4. RefusalIsHarmless'
  BY <1>1, <1>2 DEF RefusalIsHarmless
<1>5. SelectionIsBest'
  BY <1>2 DEF SelectionIsBest
<1> QED BY <1>3, <1>4, <1>5 DEF Agrees, RegistryInv, RegistryHolds

LEMMA RegistryStep == RegistryInv /\ [RegistryNext]_registryVars => RegistryInv'
<1> SUFFICES ASSUME RegistryInv, [RegistryNext]_registryVars
             PROVE  RegistryInv'
  OBVIOUS
<1>1. Agrees(registry) /\ registry \in Registries
  BY DEF RegistryInv, RegistryHolds, Agrees
<1>2. CASE RegisterProvider
  <2>1. PICK family \in Families, d \in Descriptors : Register("provider", register_provider(registry, family, d))
    BY <1>2 DEF RegisterProvider
  <2> DEFINE o == register_provider(registry, family, d)
  <2>2. Agrees(o.registry) /\ (o.result # "OK" => o.registry = registry) /\ (registry.frozen => o.result # "OK")
    BY <1>1, ProviderAgrees
  <2> HIDE DEF o
  <2> QED BY <2>1, <2>2, RegisterStep DEF o
<1>3. CASE RegisterDevice
  <2>1. PICK domain \in 1..2, slot \in 1..ProviderCapacity, info \in DeviceInfos :
          Register("device", register_device(registry, [domain |-> domain, family |-> "inference", slot |-> slot], info))
    BY <1>3 DEF RegisterDevice
  <2> DEFINE p == [domain |-> domain, family |-> "inference", slot |-> slot]
             o == register_device(registry, p, info)
  <2>2. p \in [domain : 1..2, family : {"inference"}, slot : Nat]
    BY RegistryAssumption
  <2> HIDE DEF p
  <2>3. Agrees(o.registry) /\ (o.result # "OK" => o.registry = registry) /\ (registry.frozen => o.result # "OK")
    BY <1>1, <2>2, DeviceAgrees
  <2>4. Register("device", o)
    BY <2>1 DEF p
  <2> HIDE DEF o
  <2> QED BY <2>3, <2>4, RegisterStep
<1>4. CASE Freeze
  <2> DEFINE o == Registered("OK", freeze(registry))
  <2>1. Agrees(o.registry)
    BY <1>1, FreezeAgrees DEF Registered
  <2>2. Register("freeze", o)
    BY <1>4 DEF Freeze
  <2> HIDE DEF o
  <2> QED BY <2>1, <2>2, RegisterStep
<1>5. ASSUME NEW selection, Selects(selection), SelectionIsBest',
             selection.op \in {"select", "select_device"}
      PROVE  RegistryInv'
  <2>1. registry' = registry /\ outcome' = selection
    BY <1>5 DEF Selects
  <2>2. (registry \in Registries)' /\ HandlesPoint(registry)'
    BY <1>1, <2>1 DEF Agrees, HandlesPoint
  <2>3. ProvidersAreApart(registry)' /\ DevicesAreInReach(registry)'
    BY <1>1, <2>1 DEF Agrees
  <2>4. RefusalIsHarmless'
    BY <1>5, <2>1 DEF RefusalIsHarmless
  <2> QED BY <1>5, <2>2, <2>3, <2>4 DEF RegistryInv, RegistryHolds
<1>6. CASE SelectProvider
  <2>1. PICK family \in Families, required \in Needs, preferred \in Needs, id \in Ids :
       Selects([op |-> "select", family |-> family, required |-> required, preferred |-> preferred, id |-> id,
                chosen |-> select(registry, family, required, preferred), named |-> select_by_id(registry, family, id)])
    BY <1>6 DEF SelectProvider
  <2> DEFINE c == select(registry, family, required, preferred)
             m == select_by_id(registry, family, id)
  <2>2. FirstBest(c, Suitable(registry.stores[family], required), Scores(registry.stores[family], preferred))
    BY <1>1, SelectsBest
  <2>3. m.result = "OK" <=> id # 0 /\ \E i \in DOMAIN registry.stores[family] : registry.stores[family][i].id = id
    BY <1>1, SelectsById
  <2> HIDE DEF c, m
  <2> DEFINE s == [op |-> "select", family |-> family, required |-> required, preferred |-> preferred, id |-> id,
                   chosen |-> c, named |-> m]
  <2>4. Selects(s)
    BY <2>1 DEF c, m
  <2>5. registry' = registry /\ outcome' = s
    BY <2>4 DEF Selects
  <2>6. s.op = "select" /\ s.family = family /\ s.required = required /\ s.preferred = preferred /\ s.id = id
        /\ s.chosen = c /\ s.named = m
    OBVIOUS
  <2> HIDE DEF s
  <2>7. SelectionIsBest'
    BY <2>2, <2>3, <2>5, <2>6 DEF SelectionIsBest
  <2> QED BY <1>5, <2>4, <2>6, <2>7
<1>7. CASE SelectDevice
  <2>1. PICK required \in DeviceNeeds, preferred \in DeviceNeeds, slot \in 1..ProviderCapacity, id \in Ids :
       LET given == make_handle(registry, "inference", slot)
       IN Selects([op |-> "select_device", required |-> required, preferred |-> preferred, provider |-> given, id |-> id,
                   chosen |-> select_device(registry, required, preferred),
                   named |-> select_device_by_id(registry, given, id)])
    BY <1>7 DEF SelectDevice
  <2> DEFINE p == make_handle(registry, "inference", slot)
             c == select_device(registry, required, preferred)
             m == select_device_by_id(registry, p, id)
  <2>2. FirstBest(c, SuitableDevices(registry, required), DeviceScores(registry, preferred))
    BY <1>1, SelectsBest
  <2> HIDE DEF p
  <2>3. m.result = "OK" => registry.devices[m.slot].provider = p /\ registry.devices[m.slot].info.id = id
    BY <1>1, DeviceSelectsById
  <2> HIDE DEF c, m
  <2> DEFINE s == [op |-> "select_device", required |-> required, preferred |-> preferred, provider |-> p, id |-> id,
                   chosen |-> c, named |-> m]
  <2>4. Selects(s)
    BY <2>1 DEF c, m, p
  <2>5. registry' = registry /\ outcome' = s
    BY <2>4 DEF Selects
  <2>6. s.op = "select_device" /\ s.required = required /\ s.preferred = preferred /\ s.provider = p /\ s.id = id
        /\ s.chosen = c /\ s.named = m
    OBVIOUS
  <2> HIDE DEF s
  <2>7. SelectionIsBest'
    BY <2>2, <2>3, <2>5, <2>6 DEF SelectionIsBest
  <2> QED BY <1>5, <2>4, <2>6, <2>7
<1>8. CASE UNCHANGED registryVars
  <2>1. registry' = registry /\ outcome' = outcome
    BY <1>8 DEF registryVars
  <2>2. RefusalIsHarmless'
    BY <2>1 DEF RegistryInv, RegistryHolds, RefusalIsHarmless
  <2>3. SelectionIsBest'
    BY <2>1 DEF RegistryInv, RegistryHolds, SelectionIsBest
  <2>4. (registry \in Registries)' /\ HandlesPoint(registry)' /\ ProvidersAreApart(registry)' /\ DevicesAreInReach(registry)'
    BY <2>1 DEF RegistryInv, RegistryHolds
  <2> QED BY <2>2, <2>3, <2>4 DEF RegistryInv, RegistryHolds
<1> QED BY <1>2, <1>3, <1>4, <1>6, <1>7, <1>8 DEF RegistryNext

(* What the registry holds was registered whole and agrees - single ids,       *)
(* handles that lead back to their providers, devices within their provider's  *)
(* reach - a refusal changes nothing, and what is selected is the first of     *)
(* the best, in a registry of any size and whatever is registered.             *)
THEOREM RegistryAgrees == RegistrySpec => []RegistryHolds
<1>1. RegistryInv => RegistryHolds
  BY DEF RegistryInv
<1>2. QED
  BY <1>1, RegistryStarts, RegistryStep, PTL DEF RegistrySpec
===============================================================================
