-------------------------- MODULE InferenceProviders --------------------------
(* The two providers under one specification: the owner makes one call at a    *)
(* time, as the provider contract asks, and the worker runs beside it.         *)
EXTENDS DirectMLProvider, CoreMLProvider, FiniteSets

Worker == Adopt \/ Take \/ Begin \/ DCompute \/ DDecide \/ CCompute \/ CDecide
          \/ Store \/ Signal

Return == DReturn \/ CReturn

Next == DOwner \/ COwner \/ Return \/ Expire \/ Worker

(* A thread that can run does, a prediction ends, and a call whose signal is   *)
(* up returns; nothing makes the owner call, or a time-out pass.               *)
Spec == Init /\ [][Next]_vars /\ WF_vars(Worker) /\ WF_vars(Return)

-------------------------------------------------------------------------------
OwnerTypeOK ==
    /\ provider \in Providers
    /\ stage \in {"closed", "open", "model", "context", "gone"}
    /\ last \in 0..MaxTicket /\ live \in {0, last}
    /\ call \in Blocking \cup {"none"}
    /\ acknowledged \in {0, live}

TicketTypeOK ==
    /\ control \in Pending \cup Ended \cup {"none"}
    /\ output \in 0..last

SignalTypeOK ==
    /\ command \in Nat
    /\ completion \subseteq 0..last

WorkerTypeOK ==
    /\ worker \in {"none", "starting", "idle", "running", "reading", "deciding",
                   "storing", "signalling", "exited"}
    /\ reads \in 0..last /\ served \in 0..last
    /\ verdict \in Ended \cup {"none"}

FlagTypeOK ==
    /\ cancelRequested \in BOOLEAN /\ stopRequested \in BOOLEAN
    /\ ready \in BOOLEAN /\ stale \in BOOLEAN

(* The owner's, the ticket's, the events' and the worker's variables have      *)
(* their types; the ticket in flight is the last one submitted.                *)
TypeOK == OwnerTypeOK /\ TicketTypeOK /\ SignalTypeOK /\ WorkerTypeOK
          /\ FlagTypeOK

(* As long as no cancel or reset was ended by the late signal of an earlier    *)
(* ticket, the worker reads only the frame of the ticket in flight, so the     *)
(* owner never gives a frame back under it (runtime.cpp releases the frame     *)
(* when collect or reset returns), and a ticket is complete only with the      *)
(* packet computed from its own frame.                                         *)
OwnershipHeld ==
    ~stale => /\ reads # 0 => reads = live
              /\ live # 0 /\ control = "complete" => output = live

(* Under the same condition a cancel that returned OK has ended the worker's   *)
(* hold on the frame, and with Core ML the packet is suppressed for good.      *)
CancelIsOver ==
    ~stale /\ acknowledged # 0 =>
        /\ reads = 0
        /\ provider = "coreml" => control = "cancelled"

(* Frames and packets are the ticket's own, and stay so when it is cancelled.  *)
ProvidersHold == TypeOK /\ OwnershipHeld /\ CancelIsOver

(* What the documentation promises without the condition: a cancel is          *)
(* acknowledged only after the worker's ownership ended, and the result is     *)
(* suppressed.                                                                 *)
CancelSuppresses == acknowledged # 0 => reads = 0 /\ control # "complete"

(* Every blocking call returns: no signal a call waits for is lost, whichever  *)
(* call took, lowered or drained the previous ones, and every join ends.       *)
CallsReturn == call # "none" ~> call = "none"

(* A queued ticket is run and reaches an end, unless its provider is destroyed:*)
(* no command is lost to a worker that was woken for an earlier one.           *)
TicketsEnd ==
    \A n \in Tickets :
        (live = n /\ control \in Pending)
            ~> (live # n \/ control \notin Pending \/ stage = "gone")

(* No signal and no command is lost between owner and worker: whoever waits,   *)
(* a call or a ticket, comes to an end.                                        *)
WaitsEnd == CallsReturn /\ TicketsEnd
===============================================================================
