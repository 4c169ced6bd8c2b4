----------------------------- MODULE FrameRuntime -----------------------------
(* core::RuntimeState: frames leased to a caller, to the newest-frame mailbox  *)
(* and to workers, inference sessions and the tickets that bind a frame to a   *)
(* session while a provider works on it.  The owner thread makes the calls,    *)
(* one step each; a provider finishes its tickets on its own thread.  Calls    *)
(* that refuse and change nothing are steps that need not be written down.     *)
EXTENDS HandleTable, FiniteSets

CONSTANTS
    FrameCapacity,          \* frame_capacity
    SessionCapacity,        \* inference_session_capacity
    TicketCapacity,         \* inference_ticket_capacity
    QueueLimit              \* bound on queue_capacity of a session

Owner == {"caller", "mailbox", "worker"}
Storage == {"host", "native"}
FrameHandle == [slot : 1..FrameCapacity, generation : 1..MaxGeneration]
SessionHandle == [slot : 1..SessionCapacity, generation : 1..MaxGeneration]
TicketHandle == [slot : 1..TicketCapacity, generation : 1..MaxGeneration]
Lease == [owners : SUBSET Owner, storage : Storage]
Session == [queue : 1..QueueLimit, active : 0..QueueLimit, context : BOOLEAN]
Ticket == [session : SessionHandle, frame : FrameHandle]

ASSUME CapacityAssumption ==
    /\ FrameCapacity \in Nat
    /\ SessionCapacity \in Nat
    /\ TicketCapacity \in Nat
    /\ QueueLimit \in Nat
ASSUME VacantAssumption == Vacant \notin Lease \cup Session \cup Ticket

VARIABLES
    frames,                 \* frames_, the leases
    pending,                \* newest_frame_: the frame in the mailbox
    sessions,               \* inference_sessions_
    tickets,                \* inference_tickets_
    running,                \* the provider's tickets that read their frame
    done,                   \* the provider's tickets that wait for collect
    alive                   \* the runtime has not been destroyed

inferenceVars == <<sessions, tickets, running, done>>
vars == <<frames, pending, inferenceVars, alive>>

Init ==
    /\ frames = EmptyTable(1..FrameCapacity)
    /\ pending = NoHandle
    /\ sessions = EmptyTable(1..SessionCapacity)
    /\ tickets = EmptyTable(1..TicketCapacity)
    /\ running = {}
    /\ done = {}
    /\ alive = TRUE

-------------------------------------------------------------------------------
(* Frame leases *)

Owners(t, f) == IF Resolves(t, f) THEN Value(t, f).owners ELSE {}

Owned(t, f, owner) == [t EXCEPT ![f.slot].value.owners = @ \cup {owner}]

(* release_owner: the lease goes with its last owner; a frame this owner does  *)
(* not hold, or no frame, is refused.                                          *)
Without(slot, owner) ==
    IF slot.value.owners = {owner}
    THEN Emptied(slot)
    ELSE [slot EXCEPT !.value.owners = @ \ {owner}]

Disowned(t, F, owner) ==
    [s \in DOMAIN t |->
        IF \E f \in F : f.slot = s /\ owner \in Owners(t, f) THEN Without(t[s], owner) ELSE t[s]]

(* Slip: the frame the mailbox replaced keeps its mailbox owner. *)
ImportFrameKeepsReplaced(storage) ==
    /\ alive
    /\ \E s \in 1..FrameCapacity :
        /\ FirstFree(frames, s)
        /\ frames' = Emplaced(frames, s, [owners |-> {"caller", "mailbox"}, storage |-> storage])
        /\ pending' = HandleAt(frames, s)
    /\ UNCHANGED <<inferenceVars, alive>>

(* import_host, import_native *)
ImportFrame(storage) ==
    /\ alive
    /\ \E s \in 1..FrameCapacity :
        /\ FirstFree(frames, s)
        /\ frames' = Disowned(Emplaced(frames, s, [owners |-> {"caller", "mailbox"}, storage |-> storage]),
                              {pending}, "mailbox")
        /\ pending' = HandleAt(frames, s)
    /\ UNCHANGED <<inferenceVars, alive>>

(* Slip: host frames are released like native ones. *)
LentOutNever(f) == FALSE

(* The caller's bytes are lent to a worker: a host frame is not given back. *)
LentOut(f) == Value(frames, f).storage = "host" /\ "worker" \in Owners(frames, f)

ReleaseFrame(f) ==
    /\ alive
    /\ "caller" \in Owners(frames, f)
    /\ ~LentOut(f)
    /\ LET taken == IF pending = f THEN {f} ELSE {}     \* remove_quiescent
       IN  frames' = Disowned(Disowned(frames, taken, "mailbox"), {f}, "caller")
    /\ pending' = IF pending = f THEN NoHandle ELSE pending
    /\ UNCHANGED <<inferenceVars, alive>>

-------------------------------------------------------------------------------
(* Inference sessions *)

CreateSession(queue) ==
    /\ alive
    /\ \E s \in 1..SessionCapacity :
        /\ FirstFree(sessions, s)
        /\ sessions' = Emplaced(sessions, s, [queue |-> queue, active |-> 0, context |-> TRUE])
    /\ UNCHANGED <<frames, pending, tickets, running, done, alive>>

(* Slip: the tickets of the session are not asked for. *)
MayDestroyBusy(s) ==
    /\ alive
    /\ Resolves(sessions, s)
    /\ Value(sessions, s).context

(* destroy_inference_session gets past its check, and the provider lets go of  *)
(* the context.                                                                *)
MayDestroy(s) ==
    /\ alive
    /\ Resolves(sessions, s)
    /\ Value(sessions, s).active = 0
    /\ Value(sessions, s).context

DestroySession(s) ==
    /\ MayDestroy(s)
    /\ sessions' = Erased(sessions, s)
    /\ UNCHANGED <<frames, pending, tickets, running, done, alive>>

(* The provider's context is gone, but it reported an error, or destroy_model  *)
(* did: the session stays, and later attempts end at the provider.             *)
DestroySessionHalf(s) ==
    /\ MayDestroy(s)
    /\ sessions' = [sessions EXCEPT ![s.slot].value.context = FALSE]
    /\ UNCHANGED <<frames, pending, tickets, running, done, alive>>

-------------------------------------------------------------------------------
(* Tickets *)

Bound(s) == {t \in Live(tickets) : Value(tickets, t).session = s}

(* submit_inference up to the provider's submit. *)
MaySubmit(s, f, slot) ==
    /\ alive
    /\ Resolves(sessions, s)
    /\ Resolves(frames, f)
    /\ Value(sessions, s).active < Value(sessions, s).queue
    /\ "worker" \notin Owners(frames, f)
    /\ FirstFree(tickets, slot)

Binding(s, f, slot) == Emplaced(tickets, slot, [session |-> s, frame |-> f])

Submit(s, f) ==
    \E slot \in 1..TicketCapacity :
        /\ MaySubmit(s, f, slot)
        /\ Value(sessions, s).context
        /\ tickets' = Binding(s, f, slot)
        /\ frames' = Owned(frames, f, "worker")
        /\ sessions' = [sessions EXCEPT ![s.slot].value.active = @ + 1]
        /\ running' = running \cup {HandleAt(tickets, slot)}
        /\ UNCHANGED <<pending, done, alive>>

(* Slip: the count of the session is not taken back. *)
SubmitRefusedCounts(s, f) ==
    \E slot \in 1..TicketCapacity :
        /\ MaySubmit(s, f, slot)
        /\ tickets' = Erased(Binding(s, f, slot), HandleAt(tickets, slot))
        /\ sessions' = [sessions EXCEPT ![s.slot].value.active = @ + 1]
        /\ UNCHANGED <<frames, pending, running, done, alive>>

(* The provider refuses: everything is undone, except that the ticket's slot   *)
(* has used up a generation.                                                   *)
SubmitRefused(s, f) ==
    \E slot \in 1..TicketCapacity :
        /\ MaySubmit(s, f, slot)
        /\ tickets' = Erased(Binding(s, f, slot), HandleAt(tickets, slot))
        /\ UNCHANGED <<frames, pending, sessions, running, done, alive>>

(* The provider's worker completes a ticket, or fails it. *)
Finish(t) ==
    /\ t \in running
    /\ running' = running \ {t}
    /\ done' = done \cup {t}
    /\ UNCHANGED <<frames, pending, sessions, tickets, alive>>

(* cancel_inference returns once the worker has left the ticket, which still   *)
(* waits for collect: with any outcome, for the worker may have looked at the  *)
(* request before it was made.                                                 *)
Cancel(t) ==
    /\ alive
    /\ Resolves(tickets, t)
    /\ Resolves(sessions, Value(tickets, t).session)
    /\ Finish(t)

(* Slip: the ticket stays in its table and can be collected again. *)
CollectKeepsTicket(t) ==
    /\ alive
    /\ Resolves(tickets, t)
    /\ Resolves(sessions, Value(tickets, t).session)
    /\ t \notin running
    /\ sessions' = [sessions EXCEPT ![Value(tickets, t).session.slot].value.active = @ - 1]
    /\ frames' = Disowned(frames, {Value(tickets, t).frame}, "worker")
    /\ done' = done \ {t}
    /\ UNCHANGED <<pending, tickets, running, alive>>

(* collect_inference of a ticket the provider does not work on: its result, or *)
(* STALE for one the provider has retired before.                              *)
Collect(t) ==
    /\ alive
    /\ Resolves(tickets, t)
    /\ Resolves(sessions, Value(tickets, t).session)
    /\ t \notin running
    /\ sessions' = [sessions EXCEPT ![Value(tickets, t).session.slot].value.active = @ - 1]
    /\ tickets' = Erased(tickets, t)
    /\ frames' = Disowned(frames, {Value(tickets, t).frame}, "worker")
    /\ done' = done \ {t}
    /\ UNCHANGED <<pending, running, alive>>

(* The ticket had failed, with BUSY, CAPACITY or TIMEOUT as the failure: the   *)
(* provider retires it and the runtime takes it for one still under way.       *)
CollectMisread(t) ==
    /\ alive
    /\ Resolves(tickets, t)
    /\ Resolves(sessions, Value(tickets, t).session)
    /\ t \in done
    /\ done' = done \ {t}
    /\ UNCHANGED <<frames, pending, sessions, tickets, running, alive>>

(* reset_inference: the provider ends its work, then every ticket goes. *)
Reset(s) ==
    /\ alive
    /\ Resolves(sessions, s)
    /\ Value(sessions, s).context
    /\ running' = running \ Bound(s)
    /\ done' = done \ Bound(s)
    /\ tickets' = ErasedAll(tickets, Bound(s))
    /\ frames' = Disowned(frames, {Value(tickets, t).frame : t \in Bound(s)}, "worker")
    /\ sessions' = [sessions EXCEPT ![s.slot].value.active = 0]
    /\ UNCHANGED <<pending, alive>>

(* ~RuntimeState: tickets are cancelled, then sessions, mailbox and frames go. *)
DestroyRuntime ==
    /\ alive
    /\ alive' = FALSE
    /\ running' = {}
    /\ done' = {}
    /\ tickets' = Cleared(tickets)
    /\ sessions' = Cleared(sessions)
    /\ frames' = Cleared(frames)
    /\ pending' = NoHandle

-------------------------------------------------------------------------------
Next ==
    \/ \E storage \in Storage : ImportFrame(storage)
    \/ \E f \in FrameHandle : ReleaseFrame(f)
    \/ \E queue \in 1..QueueLimit : CreateSession(queue)
    \/ \E s \in SessionHandle :
        \/ DestroySession(s)
        \/ DestroySessionHalf(s)
        \/ Reset(s)
        \/ \E f \in FrameHandle : Submit(s, f) \/ SubmitRefused(s, f)
    \/ \E t \in TicketHandle : Finish(t) \/ Cancel(t) \/ Collect(t) \/ CollectMisread(t)
    \/ DestroyRuntime

Spec == Init /\ [][Next]_vars

-------------------------------------------------------------------------------
(* Every variable keeps its type; in particular no count goes below zero. *)
TypeOK ==
    /\ frames \in Table(1..FrameCapacity, Lease)
    /\ pending \in FrameHandle \cup {NoHandle}
    /\ sessions \in Table(1..SessionCapacity, Session)
    /\ tickets \in Table(1..TicketCapacity, Ticket)
    /\ running \subseteq TicketHandle
    /\ done \subseteq TicketHandle
    /\ alive \in BOOLEAN

(* The owners of a lease are what the rest of the runtime says they are: the   *)
(* mailbox owns exactly the frame in it, a worker exactly the frames some      *)
(* ticket binds, no two tickets bind one frame, and a lease without an owner   *)
(* is gone (release_owner, release_frame, collect, reset).                     *)
OwnersMatch ==
    /\ \A f \in FrameHandle :
        /\ "mailbox" \in Owners(frames, f) <=> pending = f
        /\ "worker" \in Owners(frames, f) <=> \E t \in Live(tickets) : Value(tickets, t).frame = f
        /\ Resolves(frames, f) => Owners(frames, f) # {}
    /\ \A t, u \in Live(tickets) : Value(tickets, t).frame = Value(tickets, u).frame => t = u

(* A session counts its tickets, never has more than its queue holds, and no   *)
(* ticket outlives its session: the count is what destroy_inference_session    *)
(* and submit_inference rely on.                                               *)
TicketsCounted ==
    /\ \A s \in Live(sessions) :
        /\ Value(sessions, s).active = Cardinality(Bound(s))
        /\ Value(sessions, s).active <= Value(sessions, s).queue
    /\ \A t \in Live(tickets) : Value(tickets, t).session \in Live(sessions)

(* What a provider still has, the runtime can still ask for: a provider's      *)
(* ticket is bound in the runtime, to a session whose context the provider has *)
(* not destroyed, even after a destroy that failed half-way.                   *)
WorkIsReachable ==
    /\ running \cap done = {}
    /\ \A t \in running \cup done :
        /\ t \in Live(tickets)
        /\ Value(tickets, t).session \in Live(sessions)
        /\ Value(sessions, Value(tickets, t).session).context

(* Bytes a host lent stay lent while anything may read them: a lease of host   *)
(* memory, in the mailbox or with a worker, is never left without its caller.  *)
HostFramesLent ==
    \A f \in Live(frames) : Value(frames, f).storage = "host" => "caller" \in Owners(frames, f)

(* Leases, sessions and tickets agree with one another and with the provider.  *)
RuntimeHolds ==
    TypeOK /\ OwnersMatch /\ TicketsCounted /\ WorkIsReachable /\ HostFramesLent

(* A handle that was issued and no longer resolves never resolves again,       *)
(* whatever reuses its slot and however often.                                 *)
NoHandleRevives ==
    [][/\ \A f \in FrameHandle : DeadIn(frames, f) => DeadIn(frames', f)
       /\ \A s \in SessionHandle : DeadIn(sessions, s) => DeadIn(sessions', s)
       /\ \A t \in TicketHandle : DeadIn(tickets, t) => DeadIn(tickets', t)]_vars

(* What backends.md says of BUSY and CAPACITY from a ticket: it is still there *)
(* (queue full, output too small).  So a ticket the provider has retired is    *)
(* not left bound in the runtime, with its frame and its place in the queue.   *)
TicketsRetireTogether == Live(tickets) \subseteq running \cup done
===============================================================================
