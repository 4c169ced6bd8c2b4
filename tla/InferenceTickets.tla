--------------------------- MODULE InferenceTickets ---------------------------
(* What the DirectML and the Core ML inference providers share: one worker     *)
(* thread, one ticket in flight, a command that wakes the worker and a         *)
(* completion that wakes the owner.  Tickets are numbered in the order they    *)
(* are submitted (ticket_generation_); 0 is no ticket.                         *)
EXTENDS Naturals

CONSTANT MaxTicket              \* bound on the tickets submitted
ASSUME TicketAssumption == MaxTicket \in Nat

Tickets == 1..MaxTicket
Providers == {"directml", "coreml"}
Pending == {"queued", "running"}
Ended == {"complete", "cancelled", "failed"}
Blocking == {"wait", "synchronize", "cancel", "reset", "start", "join"}

VARIABLES
    provider,           \* which of the two providers this is
    stage,              \* closed, open, model, context, gone
    last,               \* the newest ticket
    live,               \* ticket_.active_: the ticket in flight, or 0
    call,               \* the call the owner is blocked in, or none
    control,            \* control_state_
    output,             \* the ticket whose packet is in ticket_.output_
    cancelRequested,    \* cancel_requested_
    stopRequested,      \* stop_requested_
    command,            \* command_event_ or command_: how often it is raised
    completion,         \* the tickets whose completion signal is up
    ready,              \* worker_ready_event_
    worker,             \* where the worker thread is
    reads,              \* the ticket whose frame the worker reads
    verdict,            \* the state the worker is about to store
    served,             \* the ticket the worker took
    acknowledged,       \* the ticket whose cancel returned OK
    stale               \* a cancel or reset ended at another ticket's signal

ownerVars == <<provider, stage, last, live, call, acknowledged, stale>>
ticketVars == <<control, output, cancelRequested>>
signalVars == <<stopRequested, command, completion, ready>>
workerVars == <<worker, reads, verdict, served>>
vars == <<ownerVars, ticketVars, signalVars, workerVars>>

Init ==
    /\ provider \in Providers
    /\ stage = "closed"
    /\ last = 0 /\ live = 0
    /\ call = "none"
    /\ control = "none" /\ output = 0
    /\ cancelRequested = FALSE /\ stopRequested = FALSE
    /\ command = 0 /\ completion = {} /\ ready = FALSE
    /\ worker = "none" /\ reads = 0 /\ verdict = "none" /\ served = 0
    /\ acknowledged = 0 /\ stale = FALSE

-------------------------------------------------------------------------------
(* The worker thread *)

(* worker_loop: a command wakes the worker; it leaves when told to stop, takes *)
(* the ticket if one is queued, and otherwise waits again.                     *)
Take ==
    /\ worker = "idle" /\ command > 0
    /\ command' = command - 1
    /\ \/ stopRequested /\ worker' = "exited" /\ UNCHANGED <<control, served>>
       \/ /\ ~stopRequested /\ control = "queued"
          /\ control' = "running" /\ served' = live /\ worker' = "running"
       \/ /\ ~stopRequested /\ control # "queued"
          /\ UNCHANGED <<control, served, worker>>
    /\ UNCHANGED <<ownerVars, output, cancelRequested, stopRequested,
                   completion, ready, reads, verdict>>

(* process_ticket, first half: a ticket cancelled before it ran is not run.    *)
Begin ==
    /\ worker = "running"
    /\ \/ /\ cancelRequested
          /\ verdict' = "cancelled" /\ worker' = "storing" /\ UNCHANGED reads
       \/ /\ ~cancelRequested
          /\ reads' = live /\ worker' = "reading" /\ UNCHANGED verdict
    /\ UNCHANGED <<ownerVars, ticketVars, signalVars, served>>

StoreSilently ==
    /\ worker = "storing"
    /\ control' = verdict
    /\ worker' = IF verdict = "cancelled" THEN "idle" ELSE "signalling"
    /\ UNCHANGED <<ownerVars, output, cancelRequested, signalVars, reads,
                   verdict, served>>

(* complete: the state is stored before the completion is signalled.           *)
Store ==
    /\ worker = "storing"
    /\ control' = verdict
    /\ worker' = "signalling"
    /\ UNCHANGED <<ownerVars, output, cancelRequested, signalVars, reads,
                   verdict, served>>

Signal ==
    /\ worker = "signalling"
    /\ completion' = completion \cup {served}
    /\ worker' = "idle" /\ verdict' = "none" /\ served' = 0
    /\ UNCHANGED <<ownerVars, ticketVars, stopRequested, command, ready, reads>>

-------------------------------------------------------------------------------
(* The owner's calls, in the parts the providers have in common *)

IssueStaleHandle ==
    /\ stage = "context" /\ live = 0 /\ last < MaxTicket
    /\ last' = last + 1 /\ live' = last
    /\ control' = "queued" /\ output' = 0 /\ cancelRequested' = FALSE

(* submit, after the arguments were admitted.                                  *)
Issue ==
    /\ stage = "context" /\ live = 0 /\ last < MaxTicket
    /\ last' = last + 1 /\ live' = last + 1
    /\ control' = "queued" /\ output' = 0 /\ cancelRequested' = FALSE

(* release_ticket, and the generation that follows it.                         *)
Release ==
    /\ live' = 0 /\ acknowledged' = 0
    /\ control' = "none" /\ output' = 0 /\ cancelRequested' = FALSE

(* A call that waits for the completion of a ticket still with the worker;     *)
(* cancel and reset ask the worker to drop it first.                           *)
Block(kind) ==
    /\ stage = "context" /\ live # 0 /\ control \in Pending
    /\ call' = kind
    /\ cancelRequested' = (cancelRequested \/ kind \in {"cancel", "reset"})
    /\ UNCHANGED <<provider, stage, last, live, acknowledged, stale, control,
                   output, signalVars, workerVars>>

(* wait and synchronize give up when their time is over.                       *)
Expire ==
    /\ call \in {"wait", "synchronize"}
    /\ call' = "none"
    /\ UNCHANGED <<provider, stage, last, live, acknowledged, stale, ticketVars,
                   signalVars, workerVars>>

(* stop_worker: the flag, the command, and a join that lasts until the worker  *)
(* has left.                                                                   *)
Stop(raised) ==
    /\ stopRequested' = TRUE
    /\ command' = raised
    /\ call' = "join"

Joined ==
    /\ call = "join" /\ worker = "exited"
    /\ stopRequested' = FALSE
    /\ call' = "none" /\ worker' = "none"
===============================================================================
