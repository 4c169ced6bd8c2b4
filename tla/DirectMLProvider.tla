--------------------------- MODULE DirectMLProvider ---------------------------
(* DirectMlInferenceProvider: the completion is a manual-reset event, which a  *)
(* wait leaves up and which submit and release_ticket take down.               *)
EXTENDS InferenceTickets

(* The owner makes one call at a time. *)
DIdle == provider = "directml" /\ call = "none"
DWaits(kind) == provider = "directml" /\ call = kind

DInitialize ==
    /\ DIdle /\ stage = "closed" /\ stage' = "open"
    /\ UNCHANGED <<provider, last, live, call, acknowledged, stale, ticketVars,
                   signalVars, workerVars>>

DCreateModel ==
    /\ DIdle /\ stage = "open" /\ stage' = "model"
    /\ UNCHANGED <<provider, last, live, call, acknowledged, stale, ticketVars,
                   signalVars, workerVars>>

DDestroyModel ==
    /\ DIdle /\ stage = "model" /\ stage' = "open"
    /\ UNCHANGED <<provider, last, live, call, acknowledged, stale, ticketVars,
                   signalVars, workerVars>>

(* shutdown takes the model with it and refuses while a context lives.         *)
DShutdown ==
    /\ DIdle /\ stage \in {"open", "model"} /\ stage' = "closed"
    /\ UNCHANGED <<provider, last, live, call, acknowledged, stale, ticketVars,
                   signalVars, workerVars>>

(* create_context starts the worker and waits until it has adopted the device. *)
DCreateContext ==
    /\ DIdle /\ stage = "model"
    /\ ready' = FALSE
    /\ worker' = "starting" /\ call' = "start"
    /\ UNCHANGED <<provider, stage, last, live, acknowledged, stale, ticketVars,
                   stopRequested, command, completion, reads, verdict, served>>

(* A worker that cannot adopt the device says so and leaves.                   *)
Adopt ==
    /\ worker = "starting"
    /\ ready' = TRUE
    /\ worker' \in {"idle", "exited"}
    /\ UNCHANGED <<ownerVars, ticketVars, stopRequested, command, completion,
                   reads, verdict, served>>

(* The context lives once the worker is ready; a worker that failed, or that   *)
(* was not ready within five seconds, is stopped and joined.                   *)
DContextStarted ==
    /\ DWaits("start")
    /\ \/ /\ ready /\ worker # "exited"
          /\ stage' = "context" /\ call' = "none"
          /\ UNCHANGED <<stopRequested, command>>
       \/ /\ ~ready \/ worker = "exited"
          /\ Stop(1)
          /\ UNCHANGED stage
    /\ UNCHANGED <<provider, last, live, acknowledged, stale, ticketVars,
                   completion, ready, workerVars>>

DDestroyContext ==
    /\ DIdle /\ stage = "context" /\ live = 0
    /\ Stop(1) /\ stage' = "model"
    /\ UNCHANGED <<provider, last, live, acknowledged, stale, ticketVars,
                   completion, ready, workerVars>>

(* The destructor stops the worker whatever the ticket is doing.               *)
DDestroy ==
    /\ DIdle /\ stage # "gone" /\ stage' = "gone"
    /\ \/ worker = "none" /\ UNCHANGED <<stopRequested, command, call>>
       \/ worker # "none" /\ Stop(1)
    /\ UNCHANGED <<provider, last, live, acknowledged, stale, ticketVars,
                   completion, ready, workerVars>>

DJoined ==
    /\ provider = "directml" /\ Joined
    /\ UNCHANGED <<provider, stage, last, live, acknowledged, stale, ticketVars,
                   command, completion, ready, reads, verdict, served>>

DSubmitAsleep ==
    /\ DIdle /\ Issue
    /\ completion' = {}
    /\ UNCHANGED <<provider, stage, call, acknowledged, stale, stopRequested,
                   command, ready, workerVars>>

DSubmit ==
    /\ DIdle /\ Issue
    /\ completion' = {} /\ command' = 1
    /\ UNCHANGED <<provider, stage, call, acknowledged, stale, stopRequested,
                   ready, workerVars>>

(* process_ticket, second half: the packet is copied and a failure remembered, *)
(* then a cancel that came meanwhile wins over both.                           *)
DCompute ==
    /\ provider = "directml" /\ worker = "reading"
    /\ verdict' \in {"complete", "failed"}
    /\ output' = IF verdict' = "complete" THEN reads ELSE output
    /\ reads' = 0 /\ worker' = "deciding"
    /\ UNCHANGED <<ownerVars, control, cancelRequested, signalVars, served>>

DDecide ==
    /\ provider = "directml" /\ worker = "deciding"
    /\ verdict' = IF cancelRequested THEN "cancelled" ELSE verdict
    /\ output' = IF cancelRequested THEN 0 ELSE output
    /\ worker' = "storing"
    /\ UNCHANGED <<ownerVars, control, cancelRequested, signalVars, reads, served>>

(* wait looks at the state again; synchronize leaves it alone.                 *)
DWaited ==
    /\ provider = "directml" /\ call \in {"wait", "synchronize"}
    /\ completion # {}
    /\ call' = "none"
    /\ UNCHANGED <<provider, stage, last, live, acknowledged, stale, ticketVars,
                   signalVars, workerVars>>

DCancelled ==
    /\ DWaits("cancel") /\ completion # {}
    /\ call' = "none" /\ acknowledged' = live
    /\ stale' = (stale \/ live \notin completion)
    /\ UNCHANGED <<provider, stage, last, live, ticketVars, signalVars, workerVars>>

(* collect of an ended ticket: the packet is copied out, or the error returned.*)
DCollect ==
    /\ DIdle /\ stage = "context" /\ live # 0 /\ control \in Ended
    /\ Release /\ completion' = {}
    /\ UNCHANGED <<provider, stage, last, call, stale, stopRequested, command,
                   ready, workerVars>>

DResetUntested ==
    /\ DIdle /\ stage = "context" /\ live # 0
    /\ Release /\ completion' = {}
    /\ UNCHANGED <<provider, stage, last, call, stale, stopRequested, command,
                   ready, workerVars>>

(* reset releases an ended ticket at once, and any other at the signal.        *)
DReset ==
    /\ DIdle /\ stage = "context" /\ live # 0 /\ control \notin Pending
    /\ Release /\ completion' = {}
    /\ UNCHANGED <<provider, stage, last, call, stale, stopRequested, command,
                   ready, workerVars>>

DResetEnds ==
    /\ DWaits("reset") /\ completion # {}
    /\ call' = "none" /\ stale' = (stale \/ live \notin completion)
    /\ Release /\ completion' = {}
    /\ UNCHANGED <<provider, stage, last, stopRequested, command, ready, workerVars>>

DOwner ==
    \/ DInitialize \/ DCreateModel \/ DDestroyModel \/ DShutdown
    \/ DCreateContext \/ DDestroyContext \/ DDestroy
    \/ DSubmit \/ DCollect \/ DReset
    \/ \E kind \in {"wait", "synchronize", "cancel", "reset"} :
          DIdle /\ Block(kind)

DReturn == DContextStarted \/ DJoined \/ DWaited \/ DCancelled \/ DResetEnds
===============================================================================
