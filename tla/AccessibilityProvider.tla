------------------------ MODULE AccessibilityProvider ------------------------
(* The accessibility providers of Windows and macOS: one worker thread walks   *)
(* the foreign application's element tree for one query at a time, and a       *)
(* client polls, waits for, cancels, collects and releases it.  The two share  *)
(* the protocol and differ in their signals: Windows events and a detach after *)
(* a bounded wait, Mach semaphores and unbounded waits on macOS.               *)
EXTENDS Naturals

CONSTANT MaxTicket              \* bound on the queries accepted

Pending == {"queued", "running"}
Retired == {"cancelled", "failed"}

VARIABLES
    platform,           \* windows or macos
    memory,             \* the worker's buffers: none, live, leaked
    state,              \* state_
    ticket, snapshot,   \* ticket_, snapshot_: the query's number, or 0
    next,               \* next_ticket_
    expired,            \* query_expired()
    cancelRequested,    \* cancel_requested_
    detached,           \* client_detached_
    stopRequested,      \* stop_requested_ or stopping_
    request, done,      \* how often the two signals are raised
    worker,             \* where the worker thread is
    walks,              \* the query whose tree the worker walks, or 0
    crossed             \* a query was accepted with the worker still in the last

queryVars == <<state, ticket, snapshot, next, expired, cancelRequested, detached>>
workerVars == <<worker, walks>>
providerVars == <<platform, memory, queryVars, stopRequested, request, done,
                  workerVars, crossed>>

Windows == platform = "windows"
Raised(n) == IF Windows THEN 1 ELSE n + 1       \* an event, or a semaphore

ProviderInit ==
    /\ platform \in {"windows", "macos"}
    /\ memory = "none"
    /\ state = "idle" /\ ticket = 0 /\ snapshot = 0 /\ next = 1
    /\ expired = FALSE /\ cancelRequested = FALSE /\ detached = FALSE
    /\ stopRequested = FALSE /\ request = 0 /\ done = 0
    /\ worker = "none" /\ walks = 0 /\ crossed = FALSE

-------------------------------------------------------------------------------
(* The worker thread *)

(* worker_loop: a raised request wakes the worker, which leaves when it is     *)
(* told to stop; on macOS it also looks whether a query is queued at all.      *)
Wake ==
    /\ worker = "idle" /\ request > 0
    /\ request' = request - 1
    /\ \/ stopRequested /\ worker' = "exited" /\ UNCHANGED state
       \/ ~stopRequested /\ Windows /\ worker' = "started" /\ state' = "running"
    /\ UNCHANGED <<platform, memory, ticket, snapshot, next, expired,
                   cancelRequested, detached, stopRequested, done, walks, crossed>>

MacWake ==
    /\ ~Windows
    /\ worker = "idle" /\ request > 0 /\ ~stopRequested
    /\ request' = request - 1
    /\ IF state = "queued" THEN state' = "running" /\ worker' = "started"
                           ELSE UNCHANGED <<state, worker>>
    /\ UNCHANGED <<platform, memory, ticket, snapshot, next, expired,
                   cancelRequested, detached, stopRequested, done, walks, crossed>>

Stored(s) == /\ state' = s /\ worker' = "signalling" /\ walks' = 0
             /\ snapshot' = IF s = "complete" THEN ticket ELSE snapshot
             /\ UNCHANGED <<platform, memory, ticket, next, expired,
                            cancelRequested, detached, stopRequested, request,
                            done, crossed>>

(* run_query up to its first look at the cancel flag.  A worker whose COM      *)
(* initialization failed completes every query, empty, without looking.        *)
Start ==
    /\ Windows /\ worker = "started"
    /\ \/ cancelRequested /\ Stored("cancelled")
       \/ Stored("complete")
       \/ /\ ~cancelRequested /\ worker' = "walking" /\ walks' = ticket
          /\ UNCHANGED <<platform, memory, queryVars, stopRequested, request,
                         done, crossed>>

(* macOS: no attributes, no permission or no window fail the query.            *)
MacStart ==
    /\ ~Windows /\ worker = "started"
    /\ \/ cancelRequested /\ Stored("cancelled")
       \/ Stored("failed")
       \/ /\ ~cancelRequested /\ worker' = "walking" /\ walks' = ticket
          /\ UNCHANGED <<platform, memory, queryVars, stopRequested, request,
                         done, crossed>>

(* The walk: between two elements the worker sees the cancel flag, or (past    *)
(* its budget) completes what it has; after its last look it completes.        *)
Walk == /\ Windows /\ worker = "walking"
        /\ \/ cancelRequested /\ Stored("cancelled")
           \/ Stored("complete")

MacWalk == /\ ~Windows /\ worker = "walking"
           /\ \/ cancelRequested /\ Stored("cancelled")
              \/ Stored("complete")

(* The state is stored inside the query; the signal comes after it.            *)
Signal ==
    /\ worker = "signalling"
    /\ done' = Raised(done)
    /\ worker' = IF Windows THEN "looking" ELSE "idle"
    /\ UNCHANGED <<platform, memory, queryVars, stopRequested, request, walks,
                   crossed>>

(* Windows: whose client has gone is retired by the worker, in two steps: the  *)
(* look at client_detached_ and the stores.                                    *)
Look ==
    /\ worker = "looking"
    /\ worker' = IF detached THEN "retiring" ELSE "idle"
    /\ UNCHANGED <<platform, memory, queryVars, stopRequested, request, done,
                   walks, crossed>>

Retire ==
    /\ worker = "retiring"
    /\ ticket' = 0 /\ snapshot' = 0 /\ state' = "idle"
    /\ worker' = "idle"
    /\ UNCHANGED <<platform, memory, next, expired, cancelRequested, detached,
                   stopRequested, request, done, walks, crossed>>

-------------------------------------------------------------------------------
(* What the client's calls do to the provider.  A call that the ticket or the  *)
(* state refuses changes nothing.                                              *)

AcceptsDetached == memory = "live" /\ ~stopRequested /\ (state = "idle" \/ detached)
Accepts == memory = "live" /\ ~stopRequested /\ state = "idle"

AcceptSkipping ==
    /\ Accepts
    /\ ticket' = next + 1 /\ next' = next + 1
    /\ snapshot' = 0 /\ expired' = FALSE
    /\ cancelRequested' = FALSE /\ detached' = FALSE
    /\ state' = "queued"
    /\ request' = Raised(request) /\ done' = 0
    /\ crossed' = (crossed \/ worker # "idle")
    /\ UNCHANGED <<platform, memory, stopRequested, workerVars>>

AcceptAttached ==
    /\ Accepts
    /\ ticket' = next /\ next' = next + 1
    /\ snapshot' = 0 /\ expired' = FALSE
    /\ cancelRequested' = FALSE
    /\ state' = "queued"
    /\ request' = Raised(request) /\ done' = 0
    /\ crossed' = (crossed \/ worker # "idle")
    /\ UNCHANGED <<platform, memory, detached, stopRequested, workerVars>>

(* request: the completion signal is lowered, or drained, before the query is  *)
(* queued.                                                                     *)
Accept ==
    /\ Accepts
    /\ ticket' = next /\ next' = next + 1
    /\ snapshot' = 0 /\ expired' = FALSE
    /\ cancelRequested' = FALSE /\ detached' = FALSE
    /\ state' = "queued"
    /\ request' = Raised(request) /\ done' = 0
    /\ crossed' = (crossed \/ worker # "idle")
    /\ UNCHANGED <<platform, memory, stopRequested, workerVars>>

(* The end of poll and wait for a state they saw cancelled or failed.          *)
Retires(seen) ==
    IF seen \in Retired THEN ticket' = 0 /\ state' = "idle"
                        ELSE UNCHANGED <<ticket, state>>

(* release *)
Free == ticket' = 0 /\ snapshot' = 0 /\ state' = "idle"

(* cancel: refused unless the query is queued or running.                      *)
Cancel == cancelRequested' = (cancelRequested \/ state \in Pending)

(* 500 ms after the request the Windows query is out of its budget.            *)
BudgetSpent ==
    /\ Windows /\ ~expired /\ state \in Pending
    /\ expired' = TRUE
    /\ UNCHANGED <<platform, memory, state, ticket, snapshot, next,
                   cancelRequested, detached, stopRequested, request, done,
                   workerVars, crossed>>

-------------------------------------------------------------------------------
(* Life of the provider *)

Initialize ==
    /\ memory = "none" /\ worker = "none"
    /\ memory' = "live" /\ worker' = "idle"
    /\ stopRequested' = FALSE /\ cancelRequested' = FALSE /\ state' = "idle"
    /\ request' = 0 /\ done' = 0
    /\ UNCHANGED <<platform, ticket, snapshot, next, expired, detached, walks,
                   crossed>>

(* shutdown, first half: the worker is told to stop and woken.                 *)
Stop ==
    /\ memory = "live" /\ ~stopRequested
    /\ stopRequested' = TRUE /\ cancelRequested' = TRUE
    /\ state' = IF Windows THEN state ELSE "stopping"
    /\ request' = Raised(request)
    /\ UNCHANGED <<platform, memory, ticket, snapshot, next, expired, detached,
                   done, workerVars, crossed>>

(* second half: the worker is joined and everything it used is freed.          *)
Joined ==
    /\ worker = "exited"
    /\ memory' = "none" /\ worker' = "none"
    /\ ticket' = IF Windows THEN 0 ELSE ticket
    /\ snapshot' = IF Windows THEN 0 ELSE snapshot
    /\ state' = "idle" /\ request' = 0 /\ done' = 0
    /\ UNCHANGED <<platform, next, expired, cancelRequested, detached,
                   stopRequested, walks, crossed>>

(* Windows gives the worker 750 ms; the destructor then leaves the block to    *)
(* it for good.                                                                *)
JoinExpired ==
    /\ Windows /\ worker # "exited"
    /\ memory' = "leaked"
    /\ UNCHANGED <<platform, queryVars, stopRequested, request, done, workerVars,
                   crossed>>
===============================================================================
