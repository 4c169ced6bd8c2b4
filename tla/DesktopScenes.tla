---------------------------- MODULE DesktopScenes ----------------------------
(* The neural scene pipeline as one turn of the desktop loop runs it:          *)
(*   DesktopPipeline::advance    offers captured frames                        *)
(*   DesktopNeuralCoordinator    batches them, one inference ticket at a time  *)
(*   DualRateScheduler           two clocks, one running and one pending scene *)
(*   SceneStore                  hands the finished scene over                 *)
(*   SceneCoordinator            acquires it                                   *)
(*   InteractionController       ticks                                         *)
(* All of it runs on the owner thread; only the inference worker, which ends   *)
(* tickets, runs beside it.  A turn is cut into phases where the code decides. *)
EXTENDS SceneSlots, FiniteSetsExt

CONSTANTS
    Source,                 \* displays, ordered by id; 0 is no display
    Scopes,                 \* scopes the user can choose, each a set of displays
    MaxTopology,            \* bound on display layout changes
    PoolDepth,              \* frames of one display leased at once; 1 in both pipelines
    ScenePeriod,            \* scene period in interaction periods (33.3 ms / 8.3 ms)
    MaxWake                 \* longest delayed wake, in interaction periods

ASSUME DesktopAssumption ==
    /\ Source \subseteq Nat \ {0}
    /\ IsFiniteSet(Source)
    /\ Scopes \subseteq (SUBSET Source) \ {{}}
    /\ Scopes # {}
    /\ {MaxTopology, PoolDepth, ScenePeriod, MaxWake} \subseteq Nat \ {0}

VARIABLES
    topology,               \* epoch of the display snapshot
    scope,                  \* displays the chosen scope intersects
    untilCapture,           \* next_capture_ns_ less now, in interaction periods
    untilScene,             \* next_scene_ns_ less now
    sceneRunning,           \* scene_running_
    scenePending,           \* scene_pending_
    leased,                 \* frames of each display not released yet
    offered,                \* pending_: the newest frame of each display
    batch,                  \* batch_ from batch_index_ on
    batchOf,                \* topology of the running batch, scopes of its frames
    batchSize,              \* batch_count_, 0 when batch_active_ is false
    running,                \* running_: the display under inference
    ticket,                 \* the inference ticket of running
    merged,                 \* displays appended to the aggregate
    failed,                 \* batch_failed_count_ # 0
    phase,                  \* where the turn is
    scheduled,              \* the scheduler was advanced in this turn
    ok,                     \* no error so far in this turn
    published,              \* the scene in the pending slot
    viewed                  \* the scene in the active slot

clockVars == <<untilCapture, untilScene>>
worldVars == <<topology, scope>>
schedulerVars == <<sceneRunning, scenePending>>
batchVars == <<batch, batchOf, batchSize, running, ticket, merged, failed>>
turnVars == <<phase, scheduled, ok>>
frameVars == <<leased, offered>>
sceneVars == <<published, viewed>>
vars == <<slotVars, worldVars, clockVars, schedulerVars, batchVars, turnVars,
          frameVars, sceneVars>>

None == 0
Frame == [topology : 1 .. MaxTopology, scope : Scopes]
NoFrame == [topology |-> 0, scope |-> {}]
NoBatch == [topology |-> 0, scopes |-> {}]
NoScene == [topology |-> 0, whole |-> TRUE]

Init ==
    /\ SlotInit
    /\ topology = 1
    /\ scope \in Scopes
    /\ untilCapture = 0
    /\ untilScene = 0
    /\ sceneRunning = FALSE
    /\ scenePending = FALSE
    /\ leased = [s \in Source |-> 0]
    /\ offered = [s \in Source |-> NoFrame]
    /\ batch = {}
    /\ batchOf = NoBatch
    /\ batchSize = 0
    /\ running = None
    /\ ticket = "none"
    /\ merged = {}
    /\ failed = FALSE
    /\ phase = "idle"
    /\ scheduled = FALSE
    /\ ok = TRUE
    /\ published = NoScene
    /\ viewed = NoScene

BatchActive == batchSize # 0
Offered(s) == offered[s] # NoFrame
(* Slip: release_frame without its test for an empty frame. *)
ReleaseUntested(S) == leased' = [s \in Source |-> leased[s] - 1]
(* release_frame of one frame of every display in S. *)
Release(S) == leased' = [s \in Source |-> IF s \in S THEN leased[s] - 1 ELSE leased[s]]

-------------------------------------------------------------------------------
(* Around the turns *)

(* A display was moved or resized: displays_.refresh, then the capture set
   keeps its streams (no display went away). *)
ChangeTopology ==
    /\ phase = "idle"
    /\ topology < MaxTopology
    /\ topology' = topology + 1
    /\ UNCHANGED <<slotVars, scope, clockVars, schedulerVars, batchVars, turnVars,
                   frameVars, sceneVars>>

(* change_scope with an action pending or in progress: capture is due at once. *)
ChangeScope ==
    /\ phase = "idle"
    /\ scope' \in Scopes \ {scope}
    /\ untilCapture' = 0
    /\ UNCHANGED <<slotVars, topology, untilScene, schedulerVars, batchVars,
                   turnVars, frameVars, sceneVars>>

(* The worker ends a ticket; the owner sees it at its next poll. *)
WorkerEnds ==
    /\ ticket = "running"
    /\ ticket' \in {"complete", "failed"}
    /\ UNCHANGED <<slotVars, worldVars, clockVars, schedulerVars, batch, batchOf,
                   batchSize, running, merged, failed, turnVars, frameVars, sceneVars>>

-------------------------------------------------------------------------------
(* Capture *)

(* consume_due: a deadline that is met is moved past now, whatever the delay, and
   counts once.  Deadlines are kept relative to now. *)
Due(until) == until <= 0
Consumed(until) == IF Due(until) THEN ScenePeriod - ((0 - until) % ScenePeriod) ELSE until

(* DesktopNeuralCoordinator::offer of a new frame of every display in S: a frame
   still pending is replaced and released.  (Its answer to a frame older than the
   pending one is left out: frames are stamped with the snapshot they are
   offered under, whose epoch never falls.) *)
OfferAll(S) ==
    /\ offered' = [s \in Source |-> IF s \in S THEN [topology |-> topology, scope |-> scope]
                                               ELSE offered[s]]
    /\ leased' = [s \in Source |-> IF s \in S /\ ~Offered(s) THEN leased[s] + 1
                                                             ELSE leased[s]]

(* A turn starts w periods after the last.  S are the displays in scope with no
   lease outstanding and something new on them, which is up to the environment. *)
BeginTurn(w, S) ==
    /\ phase = "idle"
    /\ S \subseteq {s \in scope : leased[s] < PoolDepth}
    /\ S # {} => Due(untilCapture - w)
    /\ untilCapture' = Consumed(untilCapture - w)
    /\ untilScene' = untilScene - w
    /\ OfferAll(S)
    /\ phase' = "retire"
    /\ UNCHANGED <<slotVars, worldVars, schedulerVars, batchVars, scheduled, ok, sceneVars>>

-------------------------------------------------------------------------------
(* The neural part of a turn: DesktopNeuralCoordinator::advance *)

EndTurn ==
    /\ phase' = "idle"
    /\ scheduled' = FALSE
    /\ ok' = TRUE

(* An error of either half of advance makes DesktopRuntime::advance return
   before the scene coordinator and the interaction tick. *)
Onward(good) ==
    \/ /\ ~scheduled
       /\ phase' = "schedule"
       /\ ok' = (ok /\ good)
       /\ UNCHANGED scheduled
    \/ /\ scheduled
       /\ ok /\ good
       /\ phase' = "scene"
       /\ UNCHANGED <<scheduled, ok>>
    \/ /\ scheduled
       /\ ~(ok /\ good)
       /\ EndTurn

(* Slip: complete_scene promotes and leaves the pending flag set. *)
CompleteSceneKeeps ==
    \/ /\ scenePending
       /\ phase' = "begin"
       /\ UNCHANGED <<schedulerVars, scheduled, ok>>
    \/ /\ ~scenePending
       /\ sceneRunning' = FALSE
       /\ Onward(TRUE)
       /\ UNCHANGED scenePending

(* DualRateScheduler::complete_scene, and begin_batch at once for the pending
   deadline it promotes. *)
CompleteScene ==
    \/ /\ scenePending
       /\ scenePending' = FALSE
       /\ phase' = "begin"
       /\ UNCHANGED <<sceneRunning, scheduled, ok>>
    \/ /\ ~scenePending
       /\ sceneRunning' = FALSE
       /\ Onward(TRUE)
       /\ UNCHANGED scenePending

(* retire_running *)
RetireNothing ==
    /\ phase = "retire"
    /\ ticket \in {"none", "running"}
    /\ phase' = "schedule"
    /\ UNCHANGED <<slotVars, worldVars, clockVars, schedulerVars, batchVars, scheduled,
                   ok, frameVars, sceneVars>>

RetireTicket ==
    /\ phase = "retire"
    /\ ticket \in {"complete", "failed"}
    /\ IF ticket = "complete" THEN /\ merged' = merged \cup {running}
                                   /\ UNCHANGED <<failed, ok>>
                              ELSE /\ failed' = TRUE
                                   /\ ok' = FALSE
                                   /\ UNCHANGED merged
    /\ Release({running})
    /\ running' = None
    /\ ticket' = "none"
    /\ phase' = "submit"
    /\ UNCHANGED <<slotVars, worldVars, clockVars, schedulerVars, batch, batchOf,
                   batchSize, scheduled, offered, sceneVars>>

(* start_next: one pass of its loop. *)
SubmitAccepted ==
    /\ phase = "submit"
    /\ \E s \in batch :
          /\ Lowest(s, batch)
          /\ running' = s
          /\ batch' = batch \ {s}
    /\ ticket' = "running"
    /\ Onward(TRUE)
    /\ UNCHANGED <<slotVars, worldVars, clockVars, schedulerVars, batchOf, batchSize,
                   merged, failed, frameVars, sceneVars>>

SubmitRefused ==
    /\ phase = "submit"
    /\ \E s \in batch :
          /\ Lowest(s, batch)
          /\ Release({s})
          /\ batch' = batch \ {s}
    /\ failed' = TRUE
    /\ UNCHANGED <<slotVars, worldVars, clockVars, schedulerVars, batchOf, batchSize,
                   running, ticket, merged, turnVars, offered, sceneVars>>

(* finish_batch *)
BatchDone == phase = "submit" /\ batch = {}
ScopeComplete == Cardinality(merged) = batchSize /\ ~failed

ClearBatch ==
    /\ batchOf' = NoBatch
    /\ batchSize' = 0
    /\ merged' = {}
    /\ failed' = FALSE
    /\ UNCHANGED <<batch, running, ticket>>

(* Slip: leave the store's write open when the batch failed. *)
FinishIncompleteOpen ==
    /\ BatchDone
    /\ ~ScopeComplete
    /\ ClearBatch
    /\ CompleteScene
    /\ UNCHANGED <<slotVars, worldVars, clockVars, frameVars, sceneVars>>

FinishIncomplete ==
    /\ BatchDone
    /\ ~ScopeComplete
    /\ AbortWrite
    /\ ClearBatch
    /\ CompleteScene
    /\ UNCHANGED <<worldVars, clockVars, frameVars, sceneVars>>

FinishPublish ==
    /\ BatchDone
    /\ ScopeComplete
    /\ Commit
    /\ published' = [topology |-> batchOf.topology, whole |-> batchOf.scopes = {merged}]
    /\ UNCHANGED viewed
    /\ ClearBatch
    /\ CompleteScene
    /\ UNCHANGED <<worldVars, clockVars, frameVars>>

(* DualRateScheduler::advance: a deadline met while a scene runs is kept, newest
   only, and otherwise starts one. *)
Schedule ==
    /\ phase = "schedule"
    /\ untilScene' = Consumed(untilScene)
    /\ scenePending' = (scenePending \/ (Due(untilScene) /\ sceneRunning))
    /\ sceneRunning' = (sceneRunning \/ Due(untilScene))
    /\ \/ /\ Due(untilScene) /\ ~sceneRunning
          /\ ~BatchActive /\ ticket = "none"
          /\ phase' = "begin"
          /\ scheduled' = TRUE
          /\ UNCHANGED ok
       \/ /\ ~Due(untilScene) \/ sceneRunning
          /\ ok
          /\ phase' = "scene"
          /\ scheduled' = TRUE
          /\ UNCHANGED ok
       \/ /\ ~Due(untilScene) \/ sceneRunning
          /\ ~ok
          /\ EndTurn
    /\ UNCHANGED <<slotVars, worldVars, untilCapture, batchVars, frameVars, sceneVars>>

-------------------------------------------------------------------------------
(* begin_batch: the newest frames, if they make up the scope they were offered
   for.  Only the number of displays of that scope is known here. *)
Newest == {s \in Source : /\ Offered(s)
                          /\ \A r \in Source : offered[r].topology <= offered[s].topology}
Stale == {s \in Source : Offered(s)} \ Newest
(* Slip: take whatever frames there are. *)
WholeIfAny == Newest # {}
Counts == {Cardinality(offered[s].scope) : s \in Newest}
Agreed == Cardinality(Counts) <= 1 /\ \A c \in Counts : Cardinality(Newest) <= c
Whole == Counts = {Cardinality(Newest)}

(* Frames of disagreeing scopes: SACCADE_ERROR_STATE. *)
BeginDisagreed ==
    /\ phase = "begin"
    /\ ~Agreed
    /\ Onward(FALSE)
    /\ UNCHANGED <<slotVars, worldVars, clockVars, schedulerVars, batchVars, frameVars,
                   sceneVars>>

(* No frame, or not yet one of every display: the deadline passes. *)
BeginIncomplete ==
    /\ phase = "begin"
    /\ Agreed
    /\ ~Whole
    /\ CompleteScene
    /\ UNCHANGED <<slotVars, worldVars, clockVars, batchVars, frameVars, sceneVars>>

(* Slips: drop stale frames without releasing them; keep them for a later
   batch. *)
BeginBatchLeaks ==
    /\ phase = "begin"
    /\ Whole
    /\ BeginWrite
    /\ offered' = [s \in Source |-> NoFrame]
    /\ batch' = Newest
    /\ batchOf' = [topology |-> Max({offered[s].topology : s \in Newest}),
                   scopes |-> {offered[s].scope : s \in Newest}]
    /\ batchSize' = Cardinality(Newest)
    /\ phase' = "submit"
    /\ UNCHANGED <<worldVars, clockVars, schedulerVars, running, ticket, merged, failed,
                   scheduled, ok, leased, sceneVars>>

BeginBatchKeepsStale ==
    /\ phase = "begin"
    /\ Whole
    /\ BeginWrite
    /\ offered' = [s \in Source |-> IF s \in Newest THEN NoFrame ELSE offered[s]]
    /\ batch' = Newest
    /\ batchOf' = [topology |-> Max({offered[s].topology : s \in Newest}),
                   scopes |-> {offered[s].scope : s \in Newest}]
    /\ batchSize' = Cardinality(Newest)
    /\ phase' = "submit"
    /\ UNCHANGED <<worldVars, clockVars, schedulerVars, running, ticket, merged, failed,
                   scheduled, ok, leased, sceneVars>>

BeginBatch ==
    /\ phase = "begin"
    /\ Whole
    /\ BeginWrite
    /\ Release(Stale)
    /\ offered' = [s \in Source |-> NoFrame]
    /\ batch' = Newest
    /\ batchOf' = [topology |-> Max({offered[s].topology : s \in Newest}),
                   scopes |-> {offered[s].scope : s \in Newest}]
    /\ batchSize' = Cardinality(Newest)
    /\ phase' = "submit"
    /\ UNCHANGED <<worldVars, clockVars, schedulerVars, running, ticket, merged, failed,
                   scheduled, ok, sceneVars>>

(* The store is full: every offered frame is dropped, and the error leaves the
   scheduler believing that the scene runs. *)
BeginBusy ==
    /\ phase = "begin"
    /\ Whole
    /\ BeginWriteBusy
    /\ Release(Stale \cup Newest)
    /\ offered' = [s \in Source |-> NoFrame]
    /\ Onward(FALSE)
    /\ UNCHANGED <<worldVars, clockVars, schedulerVars, batchVars, sceneVars>>

-------------------------------------------------------------------------------
(* The rest of the turn: SceneCoordinator::advance acquires the newest scene,
   and the interaction tick follows unless it was refused. *)
Acquire ==
    /\ phase = "scene"
    /\ \/ /\ AcquireNothingRetired \/ AcquireSeesRoom \/ AcquireReturn
          /\ UNCHANGED <<turnVars, sceneVars>>
       \/ /\ AcquireTake
          /\ viewed' = IF Held(pending) THEN published ELSE viewed
          /\ published' = NoScene
          /\ phase' = "tick"
          /\ UNCHANGED <<scheduled, ok>>
       \/ /\ AcquireRefused
          /\ EndTurn
          /\ UNCHANGED sceneVars
    /\ UNCHANGED <<worldVars, clockVars, schedulerVars, batchVars, frameVars>>

InteractionTick ==
    /\ phase = "tick"
    /\ EndTurn
    /\ UNCHANGED <<slotVars, worldVars, clockVars, schedulerVars, batchVars, frameVars,
                   sceneVars>>

-------------------------------------------------------------------------------
Turn ==
    \/ RetireNothing \/ RetireTicket
    \/ SubmitAccepted \/ SubmitRefused
    \/ FinishIncomplete \/ FinishPublish
    \/ Schedule
    \/ BeginDisagreed \/ BeginIncomplete \/ BeginBatch \/ BeginBusy
    \/ Acquire \/ InteractionTick

Next ==
    \/ \E w \in 1 .. MaxWake, S \in SUBSET Source : BeginTurn(w, S)
    \/ Turn
    \/ WorkerEnds
    \/ ChangeTopology
    \/ ChangeScope

(* The loop turns for ever, a turn always ends, and the worker ends every ticket. *)
SomeTurn == \E w \in 1 .. MaxWake, S \in SUBSET Source : BeginTurn(w, S)

Safety == Init /\ [][Next]_vars
Spec == Safety /\ WF_vars(Turn) /\ WF_vars(WorkerEnds) /\ WF_vars(SomeTurn)

(* Besides, every display keeps changing: capture that is due finds a frame of
   every display it may lease one of, again and again. *)
CaptureTurn == \E w \in 1 .. MaxWake :
    /\ Due(untilCapture - w)
    /\ BeginTurn(w, {s \in scope : leased[s] < PoolDepth})
SpecChanging == Spec /\ SF_vars(CaptureTurn)

-------------------------------------------------------------------------------
TypeOK ==
    /\ SlotTypeOK
    /\ topology \in 1 .. MaxTopology
    /\ scope \in Scopes
    /\ {untilCapture, untilScene} \subseteq (0 - MaxWake) .. ScenePeriod
    /\ {sceneRunning, scenePending, failed, scheduled, ok} \subseteq BOOLEAN
    /\ leased \in [Source -> 0 .. PoolDepth]
    /\ offered \in [Source -> Frame \cup {NoFrame}]
    /\ batch \in SUBSET Source
    /\ merged \in SUBSET Source
    /\ batchSize \in 0 .. Cardinality(Source)
    /\ running \in Source \cup {None}
    /\ ticket \in {"none", "running", "complete", "failed"}
    /\ phase \in {"idle", "retire", "submit", "schedule", "begin", "scene", "tick"}

(* Every frame leased from the capture set is offered, in the batch or under
   inference, and none of those was released already: the two halves of
   release_frame reach each frame exactly once on every path. *)
LeasesAccounted ==
    \A s \in Source :
        leased[s] = Cardinality({x \in {"offered", "batch", "running"} :
                                    \/ x = "offered" /\ Offered(s)
                                    \/ x = "batch" /\ s \in batch
                                    \/ x = "running" /\ running = s})

(* A store slot is being written exactly while a batch is open, and a batch is
   open only while the scheduler counts a scene as running. *)
WriteFollowsBatch ==
    /\ Held(writing) <=> BatchActive
    /\ BatchActive => sceneRunning

(* A scene the consumer can get covers exactly the scope all of its frames were
   captured for (scope_complete of finish_batch). *)
WholeScope == published.whole /\ viewed.whole

(* Frames, batches and scenes of the desktop stay whole in whatever order
   displays, scope, scheduler and worker interrupt one another. *)
ScenesHold == TypeOK /\ LeasesAccounted /\ WriteFollowsBatch /\ WholeScope

(* The consumer never goes back to an older display topology. *)
TopologyForward == [][viewed'.topology >= viewed.topology]_vars

(* begin_batch, start_next, finish_batch and complete_scene call one another; a
   turn still ends. *)
TurnEnds == (phase = "retire") ~> (phase = "idle")

(* What concurrency.md:83-86 says of the scheduler: a running item is an item,
   so a turn that ends with a scene running has a batch open. *)
RunningSceneHasBatch == (phase = "idle" /\ sceneRunning) => BatchActive

(* inference.md:276-278: interaction goes on whatever the neural side does. *)
TicksGoOn == []<>(phase = "tick")

(* inference.md:261-263: displays that keep changing are batched again and
   again. *)
BatchesGoOn == []<>BatchActive
===============================================================================
