----------------------------- MODULE SceneReaders -----------------------------
(* The two scene stores of DesktopRuntime.  neural_scenes_ has one producer and *)
(* one consumer, as SceneStore has it.  output_scenes_ has one consumer in its  *)
(* protocol and several readers on the owner's thread: a command that starts a  *)
(* session reads twice (read_environment, begin_latest), so does a tick that    *)
(* finds a newer scene (read_environment, refresh_latest), any other tick reads *)
(* once, and so do the agent service, the preflight of an input command and     *)
(* the debugger.  A turn may publish a scene, then ticks the session, then      *)
(* starts the command that waits for a scene; grid and window commands publish  *)
(* and start at once, as such a turn does when no tick is due.  The stores      *)
(* share no slot, so a behaviour follows one of them.                           *)
EXTENDS SceneStore

CONSTANTS
    MaxScenes,              \* bound on publications to output_scenes_
    MaxSpace                \* bound on changes of transform or topology

ASSUME ReadersAssumption == {MaxScenes, MaxSpace} \subseteq Nat \ {0}

VARIABLES
    store,                  \* the store this behaviour follows
    outFree, outWriting, outPending, outReturned,       \* the slots of
    outActive, outRetired, outAcquiring,                \* output_scenes_
    contents,               \* the scene in each of them
    latest,                 \* the scene published last
    reader,                 \* where the turn, or the call beside it, is
    fresh,                  \* scene_published of this turn
    seen,                   \* what read_environment told of the scene
    session,                \* the scene an open session holds a copy of
    reads,                  \* ghost: acquisitions since the last publication, to 2
    lone                    \* ghost: a scene was succeeded when acquired just once

Out == INSTANCE SceneSlots
    WITH free <- outFree, writing <- outWriting, pending <- outPending, returned <- outReturned,
         active <- outActive, retired <- outRetired, acquiring <- outAcquiring

outSlots == <<outFree, outWriting, outPending, outReturned, outActive, outRetired, outAcquiring>>
worldVars == <<contents, latest, lone>>
readerVars == <<outSlots, worldVars, reader, fresh, seen, session, reads>>
vars == <<store, storeVars, readerVars>>

NoScene == [epoch |-> 0, space |-> 0]
Interaction == {"tick", "refresh", "start", "begin"}
Readers == Interaction \cup {"single"}

Init ==
    /\ store \in {"neural", "output"}
    /\ StoreInit /\ Out!SlotInit
    /\ contents = [s \in Slot |-> NoScene] /\ latest = [epoch |-> 0, space |-> 1]
    /\ reader = "idle" /\ fresh = FALSE /\ seen = NoScene /\ session = NoScene
    /\ reads = 0 /\ lone = FALSE

(* The turn, or the call, is over.                                             *)
Over == reader' = "idle" /\ fresh' = FALSE /\ seen' = NoScene
Onward(where) == reader' = where /\ UNCHANGED <<fresh, seen>>

-------------------------------------------------------------------------------
(* Publication: SceneCoordinator::advance, publish_grid or publish_windows. A  *)
(* store without a free slot, or a fusion that fails, ends the turn.           *)
PublicationBegins ==
    /\ reader = "idle" /\ latest.epoch < MaxScenes
    /\ Out!BeginWrite
    /\ Onward("publish") /\ UNCHANGED <<worldVars, session, reads>>
PublicationBusy ==
    /\ reader = "idle"
    /\ Out!BeginWriteBusy /\ UNCHANGED readerVars
PublicationFails ==
    /\ reader = "publish"
    /\ Out!AbortWrite
    /\ Over /\ UNCHANGED <<worldVars, session, reads>>
Publishes(moved) ==
    /\ reader = "publish"
    /\ latest' = [epoch |-> latest.epoch + 1, space |-> latest.space + (IF moved THEN 1 ELSE 0)]
    /\ latest'.space <= MaxSpace
    /\ contents' = [contents EXCEPT ![outWriting] = latest']
    /\ Out!Commit
    /\ reads' = 0 /\ lone' = (lone \/ (reads = 1 /\ latest.epoch > 0))
    /\ reader' = "advanced" /\ fresh' = TRUE /\ UNCHANGED <<seen, session>>
NothingPublished ==
    /\ reader = "idle"
    /\ Onward("advanced") /\ UNCHANGED <<outSlots, worldVars, session, reads>>

-------------------------------------------------------------------------------
(* acquire_latest, on behalf of whoever reads; its last step grants the newest *)
(* scene, or it is refused.                                                    *)
Acquires ==
    /\ reader \in Readers
    /\ Out!AcquireNothingRetired \/ Out!AcquireSeesRoom \/ Out!AcquireReturn
    /\ UNCHANGED <<worldVars, reader, fresh, seen, session, reads>>
Viewed == contents[IF Held(outPending) THEN outPending ELSE outActive]
Granted(who) ==
    /\ reader = who /\ Out!AcquireTake
    /\ reads' = IF reads = 2 THEN 2 ELSE reads + 1
    /\ UNCHANGED worldVars

(* Mutant: a scene that could not be read is no reason to end.                 *)
ReadRefusedStays ==
    /\ reader \in Readers /\ Out!AcquireRefused
    /\ Over /\ UNCHANGED <<worldVars, session, reads>>

(* SACCADE_ERROR_STATE. A tick ends its session, as if permission were lost    *)
(* when it had not read yet and as stale when it wanted to refresh; a start    *)
(* does not begin; a single reader has its error.                              *)
ReadRefused ==
    /\ reader \in Readers /\ Out!AcquireRefused
    /\ session' = IF reader \in Interaction THEN NoScene ELSE session
    /\ Over /\ UNCHANGED <<worldVars, reads>>

-------------------------------------------------------------------------------
(* InteractionController::tick and SessionEngine::tick. A session that is ended*)
(* as stale ends the turn too (desktop_pipeline.cpp:1023); when permission is  *)
(* withdrawn, what is left of the turn reads no scene.                         *)
NotTicked ==
    /\ reader = "advanced"
    /\ Onward("ticked") /\ UNCHANGED <<outSlots, worldVars, session, reads>>
TickUnread ==
    /\ reader = "advanced" /\ session # NoScene
    /\ session' = NoScene /\ Over
    /\ UNCHANGED <<outSlots, worldVars, reads>>
TickReads ==
    /\ reader = "advanced" /\ session # NoScene
    /\ Onward("tick") /\ UNCHANGED <<outSlots, worldVars, session, reads>>

(* Focus, permission and deadline may end the session whatever the scene; only *)
(* a newer scene of the same space is read again.                              *)
TickGranted ==
    /\ Granted("tick")
    /\ \/ /\ Viewed = session
          /\ Onward("ticked") /\ UNCHANGED session
       \/ /\ Viewed # session /\ Viewed.space = session.space
          /\ reader' = "refresh" /\ seen' = Viewed /\ UNCHANGED <<fresh, session>>
       \/ session' = NoScene /\ Over

(* refresh_latest: hints and selection follow, unless one lost a target.       *)
RefreshGranted ==
    /\ Granted("refresh")
    /\ \/ Viewed = seen /\ session' = Viewed /\ Onward("ticked")
       \/ session' = NoScene /\ Over

-------------------------------------------------------------------------------
(* dispatch of the pending command in the turn that published a scene:         *)
(* begin_action reads the environment, begin_latest the scene; a request may   *)
(* be refused after either.                                                    *)
Starts ==
    /\ reader = "ticked" /\ fresh /\ session = NoScene
    /\ Onward("start") /\ UNCHANGED <<outSlots, worldVars, session, reads>>
NoCommand ==
    /\ reader = "ticked"
    /\ Over /\ UNCHANGED <<outSlots, worldVars, session, reads>>
StartGranted == Granted("start") /\ (Onward("begin") \/ Over) /\ UNCHANGED session
BeginGranted == Granted("begin") /\ session' \in {Viewed, NoScene} /\ Over

-------------------------------------------------------------------------------
(* Between turns: one acquisition of observe, query, a batch or one of its     *)
(* later actions, of the preflight of a command, of the debugger; and the end  *)
(* of a session by its plan, its user or its owner.                            *)
SingleReads ==
    /\ reader = "idle"
    /\ Onward("single") /\ UNCHANGED <<outSlots, worldVars, session, reads>>
SingleGranted == Granted("single") /\ Over /\ UNCHANGED session
SessionOver ==
    /\ reader = "idle" /\ session # NoScene
    /\ session' = NoScene
    /\ UNCHANGED <<outSlots, worldVars, reader, fresh, seen, reads>>

Publication ==
    \/ PublicationBegins \/ PublicationBusy \/ PublicationFails
    \/ (\E moved \in BOOLEAN : Publishes(moved)) \/ NothingPublished
Ticks == NotTicked \/ TickUnread \/ TickReads \/ TickGranted \/ RefreshGranted
Commands == Starts \/ NoCommand \/ StartGranted \/ BeginGranted
Beside == SingleReads \/ SingleGranted \/ SessionOver
Desktop == Publication \/ Acquires \/ ReadRefused \/ Ticks \/ Commands \/ Beside

Following(name) == store = name /\ UNCHANGED store
Threads(step) == Following("neural") /\ step /\ UNCHANGED readerVars
Next == Threads(StoreNext) \/ (Following("output") /\ Desktop /\ UNCHANGED storeVars)

(* Turns that get past their neural half acquire from neural_scenes_            *)
(* (scene_coordinator.cpp:554); nothing makes anybody read output_scenes_.      *)
Spec == Init /\ [][Next]_vars /\ WF_vars(Threads(Consumer))

-------------------------------------------------------------------------------
Scenes == [epoch : 0..MaxScenes, space : 0..MaxSpace]
TypeOK ==
    /\ store \in {"neural", "output"}
    /\ Out!SlotTypeOK
    /\ contents \in [Slot -> Scenes] /\ {latest, seen, session} \subseteq Scenes
    /\ reader \in Readers \cup {"idle", "publish", "advanced", "ticked"}
    /\ {fresh, lone} \subseteq BOOLEAN /\ reads \in 0..2

(* The store refuses a reader (store.cpp:114-117) only after some scene was    *)
(* succeeded when it had been acquired exactly once: readers that come in      *)
(* pairs, or not at all, are never refused, whatever is lost, aborted or       *)
(* replaced between them.                                                      *)
RefusedOnlyAfterLoneRead == (Held(outRetired) /\ Held(outReturned)) => lone
ReadersHold == TypeOK /\ Out!SlotsPartitioned /\ RefusedOnlyAfterLoneRead

(* A tick never leaves a session behind the newest scene: it is on that scene, *)
(* or it is over, also when either of the tick's reads was refused             *)
(* (interaction_controller.cpp:413, session.cpp:377). An action that begins,   *)
(* begins on the newest scene.                                                 *)
SessionKeepsUp ==
    [][(reader \in Interaction /\ reader' \notin Interaction /\ session' # NoScene)
        => session' = latest]_readerVars

(* What the readers of one store get: they are refused only so, and whether    *)
(* they are or not, the session agrees with the newest scene after each.       *)
ReadersAgree == []ReadersHold /\ SessionKeepsUp

(* What memory.md:54-56 says of the interaction path, that it consumes the     *)
(* latest scene, and what tests/application/desktop_runtime.cpp:252-255 expects*)
(* of a start after a publication: no tick and no start is refused the scene.  *)
InteractionIsServed ==
    (reader \in Interaction /\ outAcquiring = "idle") => ~(Held(outRetired) /\ Held(outReturned))

(* inference.md:180-182: publication remains available. A desktop without a    *)
(* session has room for the scene the next command waits for; nothing of its   *)
(* own would make room, since no tick reads without a session and no command   *)
(* starts without a publication. Refuted, like InteractionIsServed.            *)
RoomForNextScene == (reader = "idle" /\ session = NoScene) => Out!Drained # {}
===============================================================================
