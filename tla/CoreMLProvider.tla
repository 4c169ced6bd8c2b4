---------------------------- MODULE CoreMLProvider ----------------------------
(* CoreMlInferenceProvider: the command and the completion are binary          *)
(* semaphores, so a wait takes a signal away, submit takes at most one old one *)
(* away, and a release that finds the semaphore up leaves two.                 *)
EXTENDS InferenceTickets

(* The owner makes one call at a time. *)
CIdle == provider = "coreml" /\ call = "none"
CWaits(kind) == provider = "coreml" /\ call = kind

CInitialize ==
    /\ CIdle /\ stage = "closed" /\ stage' = "open"
    /\ UNCHANGED <<provider, last, live, call, acknowledged, stale, ticketVars,
                   signalVars, workerVars>>

CCreateModel ==
    /\ CIdle /\ stage = "open" /\ stage' = "model"
    /\ UNCHANGED <<provider, last, live, call, acknowledged, stale, ticketVars,
                   signalVars, workerVars>>

CDestroyModel ==
    /\ CIdle /\ stage = "model" /\ stage' = "open"
    /\ UNCHANGED <<provider, last, live, call, acknowledged, stale, ticketVars,
                   signalVars, workerVars>>

CShutdown ==
    /\ CIdle /\ stage \in {"open", "model"} /\ stage' = "closed"
    /\ UNCHANGED <<provider, last, live, call, acknowledged, stale, ticketVars,
                   signalVars, workerVars>>

(* create_context does not wait for the worker it starts.                      *)
CCreateContext ==
    /\ CIdle /\ stage = "model" /\ stage' = "context"
    /\ worker' = "idle"
    /\ UNCHANGED <<provider, last, live, call, acknowledged, stale, ticketVars,
                   signalVars, reads, verdict, served>>

CDestroyContext ==
    /\ CIdle /\ stage = "context" /\ live = 0 /\ stage' = "model"
    /\ Stop(command + 1)
    /\ UNCHANGED <<provider, last, live, acknowledged, stale, ticketVars,
                   completion, ready, workerVars>>

CDestroy ==
    /\ CIdle /\ stage # "gone" /\ stage' = "gone"
    /\ \/ worker = "none" /\ UNCHANGED <<stopRequested, command, call>>
       \/ worker # "none" /\ Stop(command + 1)
    /\ UNCHANGED <<provider, last, live, acknowledged, stale, ticketVars,
                   completion, ready, workerVars>>

(* After the join the destructor releases the ticket the owner left behind.    *)
CJoined ==
    /\ provider = "coreml" /\ Joined
    /\ IF stage = "gone" THEN Release
       ELSE UNCHANGED <<live, acknowledged, ticketVars>>
    /\ UNCHANGED <<provider, stage, last, stale, command, completion, ready,
                   reads, verdict, served>>

(* A completion signal taken off the semaphore; n is the ticket it was for.    *)
Acquire(n) == n \in completion /\ completion' = completion \ {n}

CSubmit ==
    /\ CIdle /\ Issue
    /\ command' = command + 1
    /\ \/ \E n \in completion : Acquire(n)
       \/ completion = {} /\ UNCHANGED completion
    /\ UNCHANGED <<provider, stage, call, acknowledged, stale, stopRequested,
                   ready, workerVars>>

(* process_ticket, second half: a prediction that failed is FAILED even when a *)
(* cancel came meanwhile; the packet counts only if none did.                  *)
CCompute ==
    /\ provider = "coreml" /\ worker = "reading"
    /\ \/ verdict' = "failed" /\ worker' = "storing"
       \/ verdict' = "complete" /\ worker' = "deciding"
    /\ output' = IF verdict' = "complete" THEN reads ELSE output
    /\ reads' = 0
    /\ UNCHANGED <<ownerVars, control, cancelRequested, signalVars, served>>

CDecide ==
    /\ provider = "coreml" /\ worker = "deciding"
    /\ verdict' = IF cancelRequested THEN "cancelled" ELSE verdict
    /\ output' = IF cancelRequested THEN 0 ELSE output
    /\ worker' = "storing"
    /\ UNCHANGED <<ownerVars, control, cancelRequested, signalVars, reads, served>>

CWaited ==
    /\ CWaits("wait")
    /\ \E n \in completion : Acquire(n)
    /\ call' = "none"
    /\ UNCHANGED <<provider, stage, last, live, acknowledged, stale, ticketVars,
                   stopRequested, command, ready, workerVars>>

CSynchronized ==
    /\ CWaits("synchronize")
    /\ \E n \in completion : Acquire(n)
    /\ call' = "none"
    /\ UNCHANGED <<provider, stage, last, live, acknowledged, stale, ticketVars,
                   stopRequested, command, ready, workerVars>>

CCancelledKeeps ==
    /\ CWaits("cancel")
    /\ \E n \in completion : Acquire(n) /\ stale' = (stale \/ n # live)
    /\ call' = "none" /\ acknowledged' = live
    /\ UNCHANGED <<provider, stage, last, live, ticketVars, stopRequested,
                   command, ready, workerVars>>

(* cancel writes the state itself, over whatever the worker stored.            *)
CCancelled ==
    /\ CWaits("cancel")
    /\ \E n \in completion : Acquire(n) /\ stale' = (stale \/ n # live)
    /\ call' = "none" /\ acknowledged' = live
    /\ output' = 0 /\ control' = "cancelled"
    /\ UNCHANGED <<provider, stage, last, live, cancelRequested, stopRequested,
                   command, ready, workerVars>>

CCollect ==
    /\ CIdle /\ stage = "context" /\ live # 0 /\ control \in Ended
    /\ Release
    /\ UNCHANGED <<provider, stage, last, call, stale, signalVars, workerVars>>

CReset ==
    /\ CIdle /\ stage = "context" /\ live # 0 /\ control \notin Pending
    /\ Release
    /\ UNCHANGED <<provider, stage, last, call, stale, signalVars, workerVars>>

CResetEnds ==
    /\ CWaits("reset")
    /\ \E n \in completion : Acquire(n) /\ stale' = (stale \/ n # live)
    /\ call' = "none" /\ Release
    /\ UNCHANGED <<provider, stage, last, stopRequested, command, ready, workerVars>>

COwner ==
    \/ CInitialize \/ CCreateModel \/ CDestroyModel \/ CShutdown
    \/ CCreateContext \/ CDestroyContext \/ CDestroy
    \/ CSubmit \/ CCollect \/ CReset
    \/ \E kind \in {"wait", "synchronize", "cancel", "reset"} :
          CIdle /\ Block(kind)

CReturn ==
    \/ CJoined \/ CWaited \/ CSynchronized \/ CCancelled \/ CResetEnds
===============================================================================
