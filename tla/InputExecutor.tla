---------------------------- MODULE InputExecutor ----------------------------
(* The Windows input executor and the physical reducer it owns: input plans    *)
(* become key and button events, what a plan leaves pressed stays in a ledger, *)
(* and whatever the operating system did not take stays queued for release.    *)
(*                                                                             *)
(* Sources: platform/windows/input_executor.{hpp,cpp} and                      *)
(* src/input/physical_reducer.{hpp,cpp}.  One thread calls the executor.  A    *)
(* call that reaches continue_execution is cut at every turn of its loop (pc), *)
(* so an invariant is seen between two commands of a plan; every other call is *)
(* one step.  `clock' is the now_ns the pipeline passes.                       *)
(*                                                                             *)
(* Left out: pointer moves and wheel events (they press nothing), the tick     *)
(* period between two polls of a timed command, statistics and permissions; a  *)
(* plan refused for its permission epoch, buttons or desktop changes nothing.  *)
EXTENDS Integers, Sequences, FiniteSets

CONSTANTS
    Buttons, Keys, Modifiers,  \* what a plan can hold, and what a click chords
    Units,                     \* UTF-16 units typed as unicode events
    Plans,                     \* command sequences the planner builds
    KeyLimit,                  \* maximum_held_keys
    PendingCapacity,           \* pending_release_capacity_
    MaxClock,                  \* bound on time
    MaxTopology                \* bound on desktop changes

Things == Buttons \cup Keys \cup Modifiers \cup Units

(* A command presses and releases `what', around it its modifiers.  duration   *)
(* is zero for a command that completes in the call that reaches it.           *)
Command ==
    [kind : {"move", "scroll", "wait", "activate", "button_down", "button_up",
             "click", "key_down", "key_up", "text"},
     what : Things, modifiers : Seq(Modifiers), count : Nat, duration : Nat]

(* A command's subject fits its kind (command_valid), and only these kinds     *)
(* take a duration; the planner gives no other one.                            *)
Fitting(c) ==
    /\ c.kind \in {"button_down", "button_up", "click"} => c.what \in Buttons
    /\ c.kind \in {"key_down", "key_up"} => c.what \in Keys
    /\ c.duration # 0 => c.kind \in {"move", "scroll", "wait", "button_down"}
    /\ c.kind = "wait" => c.duration # 0

ASSUME ThingsAssumption ==
    /\ IsFiniteSet(Buttons) /\ IsFiniteSet(Modifiers)
    /\ Buttons \cap Keys = {}
ASSUME PlansAssumption ==
    \A p \in Plans :
        p \in Seq(Command) /\ p # <<>> /\ \A i \in 1 .. Len(p) : Fitting(p[i])
ASSUME BoundsAssumption ==
    KeyLimit \in Nat /\ MaxClock \in Nat /\ MaxTopology \in Nat \ {0}
(* One command leaves at most its modifiers and its subject half-way, a plan   *)
(* at most every button and KeyLimit keys: 288 slots are enough for both.      *)
ASSUME CapacityAssumption ==
    /\ PendingCapacity \in Nat
    /\ PendingCapacity >= Cardinality(Modifiers) + 1 + Cardinality(Buttons) + KeyLimit

VARIABLES
    os,           \* what the operating system holds pressed for the executor
    ledger,       \* buttons_ and held_keys_ of the reducer
    lease,        \* active_lease_id_ # 0
    deadline,     \* active_deadline_ns_, 0 for none
    begun,        \* active_header_ # nullptr: the reducer has a plan under way
    plan,         \* active_plan_
    next,         \* next_command_, the commands of the plan done so far
    timed,        \* timed_kind_ and timed_end_ns_
    pending,      \* pending_releases_, oldest first
    initialized, shutting,  \* initialized_ and shutdown_pending_
    pc,           \* where continue_execution is, "idle" between calls
    topology,     \* desktop_.topology_epoch
    clock

reducerVars == <<ledger, lease, deadline, begun>>
planVars == <<plan, next, timed>>
lifeVars == <<initialized, shutting>>
worldVars == <<topology, clock>>
vars == <<os, pending, pc, reducerVars, planVars, lifeVars, worldVars>>

NoPlan == [commands |-> <<>>, deadline |-> 0, topology |-> 0]
NotTimed == [kind |-> "none", end |-> 0]
-------------------------------------------------------------------------------
(* The events of a command, and what they leave pressed. *)

Press(x) == [op |-> "press", what |-> x]
Release(x) == [op |-> "release", what |-> x]

(* The subject of a command, without its modifiers. *)
Subject(c) ==
    CASE c.kind \in {"click", "text"} ->
            [i \in 1 .. 2 * c.count |-> IF i % 2 = 1 THEN Press(c.what) ELSE Release(c.what)]
      [] c.kind \in {"button_down", "key_down"} -> <<Press(c.what)>>
      [] c.kind \in {"button_up", "key_up"} -> <<Release(c.what)>>
      [] OTHER -> <<>>

(* Modifiers go down in order before the subject and up in reverse after it. *)
Chorded(m, inner) ==
    [i \in 1 .. (2 * Len(m) + Len(inner)) |->
        IF i <= Len(m) THEN Press(m[i])
        ELSE IF i <= Len(m) + Len(inner) THEN inner[i - Len(m)]
        ELSE Release(m[2 * Len(m) + Len(inner) + 1 - i])]

Chords(c) == c.kind \in {"click", "key_down", "key_up"}

Events(c) == IF Chords(c) THEN Chorded(c.modifiers, Subject(c)) ELSE Subject(c)

(* NativeEmitter::observe over the first n events: pressed and not released. *)
Open(events, n) ==
    {x \in Things : \E i \in 1 .. n :
        /\ events[i] = Press(x)
        /\ \A j \in (i + 1) .. n : events[j] # Release(x)}

(* What the operating system holds after taking the first n events. *)
Pressed(held, events, n) ==
    {x \in held : \A j \in 1 .. n : events[j] # Release(x)} \cup Open(events, n)
-------------------------------------------------------------------------------
(* The reducer's ledger. *)

(* apply_transition refuses to press what is held or to release what is not. *)
Allowed(held, c) ==
    CASE c.kind = "button_down" -> c.what \notin held
      [] c.kind = "key_down" -> c.what \notin held /\ Cardinality(held \cap Keys) < KeyLimit
      [] c.kind \in {"button_up", "key_up"} -> c.what \in held
      [] OTHER -> TRUE

(* Mutant: the modifiers of a chord are recorded as held. *)
AppliedChord(held, c) ==
    CASE c.kind = "button_down" -> held \cup {c.what}
      [] c.kind = "key_down" -> held \cup {c.what} \cup {c.modifiers[i] : i \in DOMAIN c.modifiers}
      [] c.kind \in {"button_up", "key_up"} -> held \ {c.what}
      [] OTHER -> held

Applied(held, c) ==
    CASE c.kind \in {"button_down", "key_down"} -> held \cup {c.what}
      [] c.kind \in {"button_up", "key_up"} -> held \ {c.what}
      [] OTHER -> held

(* The reducer accepts a plan only if every command in turn is allowed. *)
Legal(held, commands) ==
    LET at[i \in 0 .. Len(commands)] ==
            IF i = 0 THEN held ELSE Applied(at[i - 1], commands[i])
    IN  \A i \in 1 .. Len(commands) : Allowed(at[i - 1], commands[i])

(* Completion of a plan: a lease stands for what it leaves held. *)
Complete(held, until) ==
    /\ lease' = (held # {})
    /\ deadline' = IF held = {} THEN 0 ELSE until
    /\ begun' = FALSE

(* advance(next + 1): the command is applied, the last one completes the plan. *)
AdvanceReducer(c) ==
    /\ ledger' = Applied(ledger, c)
    /\ IF next + 1 = Len(plan.commands)
         THEN Complete(ledger', deadline)
         ELSE UNCHANGED <<lease, deadline, begun>>

(* collect_release empties the ledger; the caller gets what was in it. *)
CollectRelease ==
    /\ ledger' = {}
    /\ lease' = FALSE
    /\ deadline' = 0
    /\ begun' = FALSE
-------------------------------------------------------------------------------
(* Pending releases. *)

Listings(S) == {s \in [1 .. Cardinality(S) -> S] : \A x \in S : \E i \in DOMAIN s : s[i] = x}
Front(s, n) == {s[i] : i \in 1 .. n}
Queued == Front(pending, Len(pending))

(* A submission takes a prefix; the rest waits. *)
Submit(seen, queue, n) ==
    /\ os' = seen \ Front(queue, n)
    /\ pending' = SubSeq(queue, n + 1, Len(queue))

(* queue_release takes the whole of a ledger or, without room, nothing. *)
Room(queue, s) == Len(queue) + Len(s) <= PendingCapacity

(* append_pending_release, one event after the other. *)
WithOpen(queue, s) ==
    IF Room(queue, s) THEN queue \o s ELSE SubSeq(queue \o s, 1, PendingCapacity)

RetryPending == \E n \in 0 .. Len(pending) : Submit(os, pending, n)

EmitRelease ==
    \E s \in Listings(ledger) :
        IF Room(pending, s)
          THEN \E n \in 0 .. Len(pending \o s) : Submit(os, pending \o s, n)
          ELSE UNCHANGED <<os, pending>>

DropPlan ==
    /\ plan' = NoPlan
    /\ next' = 0
    /\ timed' = NotTimed

(* Mutant: releases still queued are not synthetic input. *)
SyntheticForgetsPending ==
    \/ ledger \cap Buttons # {}
    \/ lease
    \/ timed.kind # "none"

SyntheticInputActive ==
    \/ ledger \cap Buttons # {}
    \/ lease
    \/ timed.kind # "none"
    \/ pending # <<>>
-------------------------------------------------------------------------------
(* Calls. *)

Callable == pc = "idle" /\ initialized

(* A plan the reducer accepts; the others are refused without a trace. *)
Accepts(p, until) ==
    /\ ~begun
    /\ clock < until
    /\ Legal(ledger, p)

(* Mutant: a plan starts over a queue that is still waiting. *)
ExecuteKeepsPending(p, until) ==
    /\ Callable
    /\ ~shutting
    /\ plan = NoPlan
    /\ Accepts(p, until)
    /\ plan' = [commands |-> p, deadline |-> until, topology |-> topology]
    /\ next' = 0
    /\ begun' = TRUE
    /\ deadline' = until
    /\ pc' = "entry"
    /\ UNCHANGED <<os, pending, ledger, lease, timed, lifeVars, worldVars>>

(* execute: what is still to be released goes out first, and a plan starts only
   once nothing is left of it. *)
Execute(p, until) ==
    /\ Callable
    /\ ~shutting
    /\ plan = NoPlan
    /\ Accepts(p, until)
    /\ Submit(os, pending, Len(pending))
    /\ plan' = [commands |-> p, deadline |-> until, topology |-> topology]
    /\ next' = 0
    /\ begun' = TRUE
    /\ deadline' = until
    /\ pc' = "entry"
    /\ UNCHANGED <<ledger, lease, timed, lifeVars, worldVars>>

(* execute, refused after the releases were tried: busy, stale or not taken. *)
ExecuteRefused ==
    /\ Callable
    /\ ~shutting
    /\ pending # <<>>
    /\ RetryPending
    /\ UNCHANGED <<pc, reducerVars, planVars, lifeVars, worldVars>>

(* execute of a dry run: begin and advance over all commands, applying none. *)
ExecuteDryRun(p, until) ==
    /\ Callable
    /\ ~shutting
    /\ pending = <<>>
    /\ Accepts(p, until)
    /\ Complete(ledger, until)
    /\ UNCHANGED <<os, pending, pc, ledger, planVars, lifeVars, worldVars>>

(* Mutant: a poll without a plan retries nothing. *)
AdvanceOnlyPlans ==
    /\ Callable
    /\ ~shutting
    /\ plan # NoPlan
    /\ RetryPending
    /\ pc' = IF pending' = <<>> THEN "entry" ELSE "idle"
    /\ UNCHANGED <<reducerVars, planVars, lifeVars, worldVars>>

(* advance, which the pipeline calls at every poll while there is synthetic
   input: releases that do not go out end the call. *)
Advance ==
    /\ Callable
    /\ ~shutting
    /\ SyntheticInputActive
    /\ RetryPending
    /\ pc' = IF pending' = <<>> THEN "entry" ELSE "idle"
    /\ UNCHANGED <<reducerVars, planVars, lifeVars, worldVars>>

(* release_all (abort, lost agent, new desktop), physical_override (the user
   took over) and permission_lost: the plan is over, what it held is released. *)
Neutralize ==
    /\ Callable
    /\ ~shutting
    /\ CollectRelease
    /\ DropPlan
    /\ EmitRelease
    /\ UNCHANGED <<pc, lifeVars, worldVars>>

(* Mutant: only held buttons refuse a new desktop. *)
UpdateDesktopUnderPlan ==
    /\ Callable
    /\ topology < MaxTopology
    /\ ledger = {}
    /\ topology' = topology + 1
    /\ UNCHANGED <<os, pending, pc, reducerVars, planVars, lifeVars, clock>>

(* update_desktop, refused while there is synthetic input. *)
UpdateDesktop ==
    /\ Callable
    /\ topology < MaxTopology
    /\ ~SyntheticInputActive
    /\ topology' = topology + 1
    /\ UNCHANGED <<os, pending, pc, reducerVars, planVars, lifeVars, clock>>

(* Mutant: shutdown reports success whatever went out. *)
FinishAtOnce(queue) ==
    \E n \in 0 .. Len(queue) :
        /\ Submit(os, queue, n)
        /\ shutting' = FALSE
        /\ initialized' = FALSE

(* shutdown: the executor is gone once the queue is.  Its ledger always finds
   room, see ReleasesFit. *)
Finish(queue) ==
    \E n \in 0 .. Len(queue) :
        /\ Submit(os, queue, n)
        /\ shutting' = (n < Len(queue))
        /\ initialized' = (n < Len(queue))

Shutdown ==
    /\ Callable
    /\ ~shutting
    /\ CollectRelease
    /\ DropPlan
    /\ \E s \in Listings(ledger) : Room(pending, s) /\ Finish(pending \o s)
    /\ UNCHANGED <<pc, worldVars>>

(* shutdown or release_all again, after a shutdown that could not finish. *)
ShutdownAgain ==
    /\ Callable
    /\ shutting
    /\ \/ Finish(pending)
       \/ RetryPending /\ UNCHANGED lifeVars
    /\ UNCHANGED <<pc, reducerVars, planVars, worldVars>>

(* initialize of the next pipeline. *)
Initialize ==
    /\ pc = "idle"
    /\ ~initialized
    /\ initialized' = TRUE
    /\ shutting' = FALSE
    /\ pending' = <<>>
    /\ UNCHANGED <<os, pc, reducerVars, planVars, worldVars>>
-------------------------------------------------------------------------------
(* continue_execution. *)

CurrentCommand == plan.commands[next + 1]

Return == pc' = "idle"
Loop == pc' = "loop"

(* No plan: NOT_FOUND. *)
EntryNothing ==
    /\ pc = "entry"
    /\ plan = NoPlan
    /\ Return
    /\ UNCHANGED <<os, pending, reducerVars, planVars, lifeVars, worldVars>>

(* Mutant: expiry releases what is held and leaves the plan. *)
EntryExpiredKeepsPlan ==
    /\ pc = "entry"
    /\ plan # NoPlan
    /\ clock >= plan.deadline
    /\ IF deadline # 0 /\ clock >= deadline
         THEN CollectRelease /\ EmitRelease
         ELSE UNCHANGED <<os, pending, reducerVars>>
    /\ Return
    /\ UNCHANGED <<planVars, lifeVars, worldVars>>

(* Past the deadline of the plan the reducer is asked to expire, and refuses
   when its own deadline is later; the plan is dropped either way. *)
EntryExpired ==
    /\ pc = "entry"
    /\ plan # NoPlan
    /\ clock >= plan.deadline
    /\ IF deadline # 0 /\ clock >= deadline
         THEN CollectRelease /\ EmitRelease
         ELSE UNCHANGED <<os, pending, reducerVars>>
    /\ DropPlan
    /\ Return
    /\ UNCHANGED <<lifeVars, worldVars>>

EntryContinues ==
    /\ pc = "entry"
    /\ plan # NoPlan
    /\ clock < plan.deadline
    /\ Loop
    /\ UNCHANGED <<os, pending, reducerVars, planVars, lifeVars, worldVars>>

(* Mutant: only the ledger is released, not what this command left pressed. *)
FailForgetsOpen(events, n) ==
    \E t \in Listings(ledger) :
        LET queue == IF Room(pending, t) THEN pending \o t ELSE pending
        IN  /\ \E k \in 0 .. Len(queue) : Submit(Pressed(os, events, n), queue, k)
            /\ CollectRelease
            /\ DropPlan
            /\ Return
            /\ UNCHANGED <<lifeVars, worldVars>>

(* fail(): what this command left pressed and what the ledger holds are queued,
   one attempt is made to send them, and the plan is over. *)
Fail(events, n) ==
    \E s \in Listings(Open(events, n)), t \in Listings(ledger) :
        LET first == WithOpen(pending, s)
            queue == IF Room(first, t) THEN first \o t ELSE first
        IN  /\ \E k \in 0 .. Len(queue) : Submit(Pressed(os, events, n), queue, k)
            /\ CollectRelease
            /\ DropPlan
            /\ Return
            /\ UNCHANGED <<lifeVars, worldVars>>

(* The preflight refuses the command, or a pointer event does not go out, or the
   window is not activated: no key or button is touched. *)
LoopRefused ==
    /\ pc = "loop"
    /\ Fail(<<>>, 0)

(* A timed command has not reached its end: the next poll continues it. *)
LoopWaits ==
    /\ pc = "loop"
    /\ timed.kind # "none"
    /\ clock < timed.end
    /\ Return
    /\ UNCHANGED <<os, pending, reducerVars, planVars, lifeVars, worldVars>>

(* The end of a hold is the end of its plan. *)
LoopHoldEnds ==
    /\ pc = "loop"
    /\ timed.kind = "hold"
    /\ clock >= timed.end
    /\ CollectRelease
    /\ EmitRelease
    /\ DropPlan
    /\ Return
    /\ UNCHANGED <<lifeVars, worldVars>>

LoopTimedEnds ==
    /\ pc = "loop"
    /\ timed.kind \in {"move", "scroll", "wait"}
    /\ clock >= timed.end
    /\ AdvanceReducer(CurrentCommand)
    /\ next' = next + 1
    /\ timed' = NotTimed
    /\ Loop
    /\ UNCHANGED <<os, pending, plan, lifeVars, worldVars>>

LoopDone ==
    /\ pc = "loop"
    /\ timed.kind = "none"
    /\ next = Len(plan.commands)
    /\ DropPlan
    /\ Return
    /\ UNCHANGED <<os, pending, reducerVars, lifeVars, worldVars>>

AtCommand ==
    /\ pc = "loop"
    /\ timed.kind = "none"
    /\ next < Len(plan.commands)

LoopStartsTimed ==
    /\ AtCommand
    /\ CurrentCommand.duration # 0
    /\ CurrentCommand.kind # "button_down"
    /\ timed' = [kind |-> CurrentCommand.kind, end |-> clock + CurrentCommand.duration]
    /\ Return
    /\ UNCHANGED <<os, pending, reducerVars, plan, next, lifeVars, worldVars>>

(* Every event of the command went out: it is in the ledger, and the emitter
   forgets it. *)
Commit ==
    /\ Allowed(ledger, CurrentCommand)
    /\ os' = Pressed(os, Events(CurrentCommand), Len(Events(CurrentCommand)))
    /\ AdvanceReducer(CurrentCommand)
    /\ next' = next + 1
    /\ UNCHANGED <<pending, plan, lifeVars, worldVars>>

LoopStartsHold ==
    /\ AtCommand
    /\ CurrentCommand.duration # 0
    /\ CurrentCommand.kind = "button_down"
    /\ Commit
    /\ timed' = [kind |-> "hold", end |-> clock + CurrentCommand.duration]
    /\ Return

LoopRuns ==
    /\ AtCommand
    /\ CurrentCommand.duration = 0
    /\ Commit
    /\ Loop
    /\ UNCHANGED timed

(* The system took only the first n events. *)
LoopFails ==
    /\ AtCommand
    /\ \E n \in 0 .. Len(Events(CurrentCommand)) - 1 : Fail(Events(CurrentCommand), n)

Tick ==
    /\ pc = "idle"
    /\ clock < MaxClock
    /\ clock' = clock + 1
    /\ UNCHANGED <<os, pending, pc, reducerVars, planVars, lifeVars, topology>>
-------------------------------------------------------------------------------
Init ==
    /\ os = {}
    /\ ledger = {} /\ lease = FALSE /\ deadline = 0 /\ begun = FALSE
    /\ plan = NoPlan /\ next = 0 /\ timed = NotTimed
    /\ pending = <<>>
    /\ initialized = TRUE /\ shutting = FALSE
    /\ pc = "idle"
    /\ topology = 1
    /\ clock = 0

Continue ==
    \/ EntryNothing \/ EntryExpired \/ EntryContinues
    \/ LoopRefused \/ LoopWaits \/ LoopHoldEnds \/ LoopTimedEnds \/ LoopDone
    \/ LoopStartsTimed \/ LoopStartsHold \/ LoopRuns \/ LoopFails

Next ==
    \/ \E p \in Plans, until \in 1 .. MaxClock : Execute(p, until) \/ ExecuteDryRun(p, until)
    \/ ExecuteRefused \/ Advance \/ Neutralize \/ UpdateDesktop
    \/ Shutdown \/ ShutdownAgain \/ Initialize
    \/ Continue
    \/ Tick

(* A call always returns; the pipeline keeps polling and time keeps passing; a
   system asked again and again to take the releases takes them some day. *)
Fairness ==
    /\ WF_vars(Continue)
    /\ SF_vars(Advance)
    /\ SF_vars(Advance /\ pending' = <<>>)
    /\ SF_vars(Tick)

Spec == Init /\ [][Next]_vars /\ Fairness
-------------------------------------------------------------------------------
(* Properties. *)

(* Types; what one plan holds is a button or a key, and the queue fits. *)
TypeOK ==
    /\ os \subseteq Things
    /\ ledger \subseteq Buttons \cup Keys
    /\ lease \in BOOLEAN /\ begun \in BOOLEAN
    /\ deadline \in 0 .. MaxClock
    /\ plan = NoPlan \/ plan \in [commands : Plans, deadline : 1 .. MaxClock, topology : 1 .. MaxTopology]
    /\ next \in Nat /\ next <= Len(plan.commands)
    /\ timed.kind \in {"none", "move", "scroll", "wait", "hold"} /\ timed.end \in Nat
    /\ pending \in Seq(Things) /\ Len(pending) <= PendingCapacity
    /\ initialized \in BOOLEAN /\ shutting \in BOOLEAN
    /\ pc \in {"idle", "entry", "loop"}
    /\ topology \in 1 .. MaxTopology
    /\ clock \in 0 .. MaxClock

(* Nothing is stuck: whatever the operating system holds pressed for Saccade is
   in the ledger, which every way out of a plan releases, or waits in the queue.
   A partial SendInput, a plan that fails half-way through a chord, a queue that
   outlives its plan: none may forget a key. *)
NothingStuck == os \subseteq ledger \cup Queued

(* The controller neutralizes on physical input only when told that synthetic
   input is active, and the pipeline polls only then: between two calls nothing
   is held, and no plan is under way, that this test does not see. *)
HeldInputIsVisible ==
    pc = "idle" /\ (os # {} \/ plan # NoPlan) => SyntheticInputActive

(* While releases wait, no plan runs and nothing else is held: the queue never
   has to make room for a second ledger. *)
ReleasesFit == pending # <<>> => ledger = {} /\ plan = NoPlan

(* The commands of a plan were checked against the desktop it was accepted on;
   the desktop under a plan never changes. *)
PlanMatchesDesktop == plan # NoPlan => plan.topology = topology

(* shutdown reports success only when nothing is left pressed. *)
ShutdownLeavesNothing == ~initialized => os = {} /\ pending = <<>>

(* The executor forgets nothing it pressed, between calls and inside them. *)
ExecutorHolds ==
    /\ TypeOK /\ NothingStuck /\ HeldInputIsVisible
    /\ ReleasesFit /\ PlanMatchesDesktop /\ ShutdownLeavesNothing

(* What is queued for release goes out once the system takes events again,
   whatever else is asked of the executor meanwhile, shutdown apart. *)
ReleasesGoOut == pending # <<>> ~> (pending = <<>> \/ shutting)

(* No plan outlives its deadline: every timed command, failing preflight and
   late poll ends it. *)
PlansEnd == plan # NoPlan ~> plan = NoPlan

(* Releases and plans alike: whatever the executor has begun comes to an end. *)
WorkEnds == ReleasesGoOut /\ PlansEnd

(* "Abort, timeout, permission loss, backend failure, and process shutdown
   release every synthetic button" (docs/product/version-0.1.md:106): a poll past
   the deadline of what is held releases it.  A completed plan's button is never
   asked about. *)
LeaseExpires ==
    [][pc = "entry" /\ deadline # 0 /\ clock >= deadline /\ pc' = "idle" => ledger' = {}]_vars

(* The same of a plan under way: when its deadline drops it, what it holds is
   released.  A dry run during a hold gives the reducer another deadline. *)
TimeoutReleases ==
    [][pc = "entry" /\ plan # NoPlan /\ clock >= plan.deadline => ledger' = {}]_vars
===============================================================================
