------------------------------ MODULE Activation ------------------------------
(* How a targeting session is asked for, begins and ends on a desktop: the     *)
(* desktop pipeline of the owner thread, its capture, its overlay and the       *)
(* keys it routes (src/platform/windows/desktop_pipeline.cpp), with the         *)
(* session, the scene coordinator and the executor seen from above (Session,    *)
(* SceneCoordinator and InputExecutor have their detail).  A call that the      *)
(* system fails sends the pipeline to recovery (Lifecycle); what fails here is  *)
(* what the pipeline refuses by itself.                                         *)
EXTENDS Naturals

VARIABLES p,            \* the pipeline: the fields of Pipeline
          qualified,    \* what qualify_surface says of the surface under input
          asked         \* the last word of the user, or of the system, was to activate
pipelineVars == <<p, qualified, asked>>

Sources == {"pixel", "semantic", "grid"}        \* fused is as semantic
Scopes == {"desktop", "window"}                 \* monitor is as window

Pipeline ==
    [available : BOOLEAN,           \* input_available_
     topology : BOOLEAN,            \* topology_pending_
     source : Sources,              \* source_
     scope : Scopes,                \* scope_
     scene : Sources \cup {"windows"},  \* the source of the scene coordinator
     redo : BOOLEAN,                \* its source_dirty_
     held : SUBSET {"pixel", "semantic"},   \* its neural_ and semantic_, as they last came
     windowed : BOOLEAN,            \* window_scene_active_
     pending : BOOLEAN,             \* pending_command_
     late : BOOLEAN,                \* pending_deadline_ns_ has passed
     active : BOOLEAN,              \* runtime_.active()
     synthetic : BOOLEAN,           \* input_.synthetic_input_active()
     capture : BOOLEAN,             \* capture_running_
     frames : {"none", "waiting", "running"},   \* frames leased of the capture
     query : BOOLEAN,               \* runtime_.semantic_running()
     window : {"none", "current", "other"},     \* semantic_window_id_, against the foreground
     overlay : BOOLEAN,             \* overlay_running_
     dirty : BOOLEAN,               \* overlay_dirty_
     drawn : BOOLEAN]               \* the packets published are of this session

PipelineInit ==
    [available |-> TRUE, topology |-> FALSE, source |-> "pixel", scope |-> "desktop",
     scene |-> "pixel", redo |-> TRUE, held |-> {}, windowed |-> FALSE, pending |-> FALSE,
     late |-> FALSE, active |-> FALSE, synthetic |-> FALSE, capture |-> FALSE,
     frames |-> "none", query |-> FALSE, window |-> "none",
     overlay |-> FALSE, dirty |-> TRUE, drawn |-> FALSE]

-------------------------------------------------------------------------------
(* A call has outcomes: the pipeline it leaves and whether it returned OK.      *)
Ok(s) == {[s |-> s, result |-> "OK"]}
Fails(s) == {[s |-> s, result |-> "ERROR"]}
MayFail(s) == Ok(s) \cup Fails(s)
Then(outcomes, After(_)) ==
    UNION {IF o.result = "OK" THEN After(o.s) ELSE {o} : o \in outcomes}
Finally(outcomes, Call(_)) ==                   \* the result of Call is ignored
    UNION {{[s |-> c.s, result |-> o.result] : c \in Call(o.s)} : o \in outcomes}

(* What the runtime does when it is told to: end the session, change the        *)
(* source, cancel the query.  A refused dispatch leaves everything.             *)
SessionEnd(s) == [s EXCEPT !.active = FALSE, !.drawn = FALSE]
Begin(s) ==
    Fails(s) \cup IF qualified THEN Ok([s EXCEPT !.active = TRUE, !.drawn = FALSE]) ELSE {}
cancel_semantic(s) ==
    [s EXCEPT !.query = FALSE, !.held = @ \ {"semantic"}, !.redo = TRUE]
SceneSource(s, source) ==
    IF s.scene = source THEN s
    ELSE LET t == IF s.scene = "semantic" THEN cancel_semantic(s) ELSE s
         IN  [t EXCEPT !.scene = source, !.redo = TRUE]
leave_window_scene(s) ==
    IF s.windowed THEN [SceneSource(s, s.source) EXCEPT !.windowed = FALSE] ELSE s
invalidate_semantic(s) == [cancel_semantic(s) EXCEPT !.window = "none"]
release_all(s) == [s EXCEPT !.synthetic = FALSE]

-------------------------------------------------------------------------------
publish_overlays(s) ==
    IF s.active THEN Ok([s EXCEPT !.drawn = TRUE, !.dirty = FALSE]) ELSE Fails(s)

start_overlay(s) ==
    Then(IF s.dirty THEN publish_overlays(s) ELSE Ok(s),
         LAMBDA t : Ok([t EXCEPT !.overlay = TRUE]))

stop_overlay(s) == [s EXCEPT !.overlay = FALSE]
start_capture(s) == [s EXCEPT !.capture = TRUE]

(* Mutant: capture stops without asking what it still serves.                   *)
stop_capture_at_once(s) == Ok([s EXCEPT !.capture = FALSE])

(* Capture stops when nothing needs it, and is refused while a frame is leased. *)
stop_capture(s) ==
    IF ~s.capture \/ s.pending \/ s.active \/ s.synthetic THEN Ok(s)
    ELSE IF s.frames # "none" THEN Fails(s)
    ELSE Ok([s EXCEPT !.capture = FALSE])

(* apply_scope: a scope that is a window has to have one.                       *)
apply_scope(s) == IF s.scope = "desktop" THEN Ok(s) ELSE MayFail(s)

-------------------------------------------------------------------------------
(* begin_grid_action: the scene is built on the spot; publish_grid resolves     *)
(* the scope and needs the grid as the source of the scene.                     *)
publish_grid(s) ==
    Then(apply_scope(s),
         LAMBDA t : IF t.scene = "grid" THEN Ok([t EXCEPT !.redo = FALSE]) ELSE Fails(t))
begin_grid_action(s) ==
    Then(publish_grid(s), LAMBDA t : Then(Begin(t), start_overlay))

(* Mutant: the pipeline takes the windows for its source, as it takes the grid.  *)
begin_window_source(s) ==
    Begin([SceneSource(s, "windows") EXCEPT !.source = "windows", !.redo = FALSE])

(* begin_window_action: the windows are collected, or that fails.               *)
begin_window_action(s) ==
    Then(MayFail(s),
         LAMBDA t : Then(Begin([SceneSource(t, "windows") EXCEPT !.redo = FALSE]),
                         LAMBDA u : start_overlay([u EXCEPT !.windowed = TRUE])))

(* Begins the pending action at once when the source is the grid, and starts    *)
(* capture for it otherwise.                                                    *)
Serve(s) ==
    IF s.source = "grid"
    THEN Finally(begin_grid_action([s EXCEPT !.pending = FALSE, !.late = FALSE]), stop_capture)
    ELSE Ok(start_capture(s))

restart_action(s) ==
    Serve([SceneSource(s, s.source) EXCEPT !.windowed = FALSE, !.pending = TRUE, !.late = FALSE])

(* After a change of source or scope: a session begins again, a pending action  *)
(* is served from the new source.                                               *)
Resume(s, restart) ==
    IF restart THEN restart_action(stop_overlay(s))
    ELSE IF s.pending THEN Serve(stop_overlay(s)) ELSE Ok(stop_overlay(s))

change_source(s, source) ==
    IF s.source = source THEN Ok(s)
    ELSE LET t == SceneSource(SessionEnd(s), source)
         IN  Resume([t EXCEPT !.source = source,
                              !.window = IF source = "semantic" THEN @ ELSE "none"], s.active)

change_scope(s, scope) ==
    IF s.scope = scope THEN Ok(s)
    ELSE Then(apply_scope([SessionEnd(s) EXCEPT !.scope = scope]),
              LAMBDA t : Resume([t EXCEPT !.window = "none"], s.active))

-------------------------------------------------------------------------------
(* update_input_desktop and the rest of synchronize_topology: everything held   *)
(* is released, and a display whose frame is leased keeps the topology waiting. *)
synchronize_topology(s) ==
    LET t == release_all(s)
    IN  Ok([t EXCEPT !.topology = FALSE, !.dirty = TRUE])
        \cup IF s.frames = "none" THEN {} ELSE Fails(t)

(* refresh_topology, when the displays did change: what runs is called off.     *)
topology_changes(s) ==
    [invalidate_semantic(SessionEnd(s)) EXCEPT !.pending = FALSE, !.late = FALSE, !.topology = TRUE]
refresh_topology(s, changed) ==
    LET t == IF changed THEN topology_changes(s) ELSE s
    IN  IF t.topology THEN Finally(Ok(t), synchronize_topology) ELSE Ok(t)

(* Mutant: a pending action survives what the user does instead.                *)
session_called_off_late(s) == stop_overlay(leave_window_scene(SessionEnd(s)))

(* What the physical input of the user and the loss of the surface both do.     *)
session_called_off(s) ==
    stop_overlay(leave_window_scene([SessionEnd(s) EXCEPT !.pending = FALSE, !.late = FALSE]))

observe_physical_input(s) == stop_capture(session_called_off(release_all(s)))

set_input_available(s, available) ==
    IF s.available = available THEN Ok(s)
    ELSE LET t == [release_all(s) EXCEPT !.available = available]
         IN  IF available THEN Ok(t) ELSE stop_capture(session_called_off(invalidate_semantic(t)))

(* navigate_window: the window is found and brought to the front, or that       *)
(* fails; an agent has to find everything as it was, the user restarts what was *)
(* active.                                                                      *)
navigate_window(s, agent, changed) ==
    LET t == IF agent THEN s ELSE SessionEnd(s)
        same(u) == IF u.topology \/ changed \/ ~u.available \/ ~qualified
                   THEN Fails(u) ELSE MayFail(u)
        found == IF agent THEN Then(refresh_topology(t, changed), same)
                               \cup (IF changed THEN {} ELSE Fails(t))
                 ELSE MayFail(t)
    IN  Then(found,
             LAMBDA u : Then(apply_scope(invalidate_semantic(u)),
                             LAMBDA v : IF ~agent /\ s.active THEN restart_action(stop_overlay(v))
                                        ELSE Ok(v)))

-------------------------------------------------------------------------------
(* request: what every command passes first.                                    *)
Admitted(s, Command(_)) ==
    Then(IF s.topology THEN synchronize_topology(s) ELSE Ok(s),
         LAMBDA t : IF ~t.available THEN Fails(t)
                    ELSE IF ~qualified
                    THEN Then(set_input_available(t, FALSE), Fails)
                    ELSE Command(t))

ModeCommand(s) == IF s.active THEN restart_action(stop_overlay(SessionEnd(s))) ELSE Ok(s)

FreePointerCommand(s) ==
    IF s.pending \/ s.active THEN Fails(s)
    ELSE Then(apply_scope(s),
              LAMBDA t : begin_grid_action(IF t.source = "grid" THEN t
                                           ELSE [SceneSource(t, "grid") EXCEPT !.source = "grid"]))

WindowActivate(s) == IF s.pending \/ s.active THEN Fails(s) ELSE begin_window_action(s)

(* A command that targets the scene: begun on the grid, or pending until        *)
(* capture has a scene to begin it on.                                          *)
TargetScene(s) ==
    IF s.pending \/ s.active THEN Fails(s)
    ELSE Then(apply_scope(SceneSource(s, s.source)),
              LAMBDA t : IF t.source = "grid" THEN begin_grid_action(t)
                         ELSE Ok([start_capture(t) EXCEPT !.pending = TRUE, !.late = FALSE]))

(* Confirm, backspace, cancel and the adjustments: the session takes them, and  *)
(* may end by them with a plan executed.                                        *)
Other(s) == IF s.active THEN MayFail(s) \cup Ok(SessionEnd(s))
                               \cup Ok([SessionEnd(s) EXCEPT !.synthetic = TRUE])
            ELSE MayFail(s)

Commands(s) ==
    UNION {UNION {change_source(s, source) : source \in Sources},
           UNION {change_scope(s, scope) : scope \in Scopes},
           ModeCommand(s), FreePointerCommand(s), navigate_window(s, FALSE, FALSE),
           WindowActivate(s), TargetScene(s), Other(s)}

request(s) == Admitted(s, Commands)

(* route_key: a key of an active session is a command or a symbol, its result   *)
(* is not looked at.                                                            *)
route_key(s) ==
    UNION {LET t == [o.s EXCEPT !.dirty = @ \/ o.s.active]
           IN  IF t.active THEN Ok(t)
               ELSE stop_capture(leave_window_scene(stop_overlay(t))) :
               o \in request(s) \cup Other(s)}

-------------------------------------------------------------------------------
(* advance, part by part, in its order.  A part that fails is where it returns. *)
Surface(s) ==
    IF ~s.available
    THEN IF qualified THEN set_input_available(s, TRUE) ELSE Fails(s)
    ELSE IF s.synthetic /\ ~qualified THEN Then(set_input_available(s, FALSE), Fails)
    ELSE Ok(s)

Topology(s) == IF s.topology THEN Finally(Ok(s), synchronize_topology) ELSE Ok(s)

Foreground(s) == Ok(IF s.window = "other" THEN invalidate_semantic(s) ELSE s)

Timed(s) == Ok(s) \cup Ok(release_all(s))

(* Mutant: the deadline of a pending action is not looked at.                   *)
NoDeadline(s) == Ok(s)

Deadline(s) ==
    IF s.pending /\ s.late
    THEN Finally(Fails([s EXCEPT !.pending = FALSE, !.late = FALSE]), stop_capture)
    ELSE Ok(s)

(* offer_frames, when it is due: a new frame or none, and NOT_FOUND for a scope *)
(* that meets no display.                                                       *)
offer_frames(s) ==
    IF s.topology \/ ~s.capture \/ (s.source = "semantic" /\ s.query) THEN Ok(s)
    ELSE Ok(s) \cup Ok([s EXCEPT !.frames = IF @ = "none" THEN "waiting" ELSE @])
               \cup (IF s.scope = "window" THEN Fails(s) ELSE {})

(* runtime_.advance: the batch, the query, what the coordinator publishes of    *)
(* them (an old scene too, for a source it was just given) and the tick of the  *)
(* session, which may end it.                                                   *)
Batch(s) ==
    {[s |-> s, neural |-> FALSE]} \cup
    (IF s.frames = "waiting" THEN {[s |-> [s EXCEPT !.frames = "running"], neural |-> FALSE]} ELSE {}) \cup
    (IF s.frames = "running"
     THEN {[s |-> [s EXCEPT !.frames = "none", !.held = @ \cup {"pixel"}], neural |-> TRUE]} ELSE {})

cleared(s) == [s EXCEPT !.query = FALSE, !.held = @ \ {"semantic"}]
Poll(s) ==
    {[s |-> s, collected |-> FALSE]} \cup
    (IF s.query THEN {[s |-> cleared(s), collected |-> FALSE]} ELSE {}) \cup
    (IF s.query /\ s.source = "semantic" /\ s.window = "current"
     THEN {[s |-> [s EXCEPT !.query = FALSE, !.held = @ \cup {"semantic"}], collected |-> TRUE]} ELSE {})

Published(s, neural, collected) ==
    LET new == (s.scene = "pixel" /\ neural) \/ (s.scene = "semantic" /\ collected)
    IN  {new, new \/ (s.redo /\ s.scene \in s.held)}

SessionTick(s) == IF s.active THEN {s, SessionEnd(s)} ELSE {s}

Runtime(s) ==
    UNION {UNION {UNION {
        [s : SessionTick([c.s EXCEPT !.redo = @ /\ ~published]), neural : {b.neural},
         collected : {c.collected}, published : {published}] :
            published \in Published(c.s, b.neural, c.collected)} : c \in Poll(b.s)} : b \in Batch(s)}

Marked(r) ==
    [r.s EXCEPT !.dirty = @ \/ (r.s.active /\ (r.neural \/ r.published))]

request_semantic(s) ==
    IF s.query THEN Ok(s)
    ELSE Fails(s) \cup Ok([s EXCEPT !.query = TRUE, !.window = "current"])

(* Mutant: the labels of a session that begins are not asked for.               *)
BeginUndrawn(s) ==
    Then(Begin(s), LAMBDA t : start_overlay([t EXCEPT !.pending = FALSE, !.late = FALSE]))

(* The pending action begins on the scene it waited for; refused, it waits on.  *)
BeginPending(s) ==
    Then(Begin(s),
         LAMBDA t : start_overlay([t EXCEPT !.pending = FALSE, !.late = FALSE, !.dirty = TRUE]))

Show(s) == IF ~s.topology /\ s.overlay /\ s.dirty THEN publish_overlays(s) ELSE Ok(s)

Quiet(s) == IF s.active THEN Ok(s) ELSE Ok(stop_overlay(leave_window_scene(s)))

Interact(s, r) ==
    LET semantic == s.source = "semantic"
        asks == IF semantic /\ r.neural THEN request_semantic(Marked(r)) ELSE Ok(Marked(r))
        begun == Then(asks, LAMBDA t : IF t.pending /\ r.published /\ (~semantic \/ r.collected)
                                       THEN BeginPending(t) ELSE Ok(t))
    IN  Then(Then(Then(begun, Show), Quiet), stop_capture)

advance(s) ==
    LET ready == Then(Then(Then(Then(Surface(s), Topology), Foreground),
                           LAMBDA t : IF t.synthetic THEN Timed(t) ELSE Ok(t)), Deadline)
    IN  Then(Then(ready, offer_frames), LAMBDA t : UNION {Interact(t, r) : r \in Runtime(t)})

-------------------------------------------------------------------------------
(* A handler runs as a whole on the owner thread.                               *)
Runs(outcomes) == \E o \in outcomes : p' = o.s

PipelineStarts == p = PipelineInit /\ qualified = TRUE /\ asked = FALSE

Advance == Runs(advance(p)) /\ UNCHANGED <<qualified, asked>>

(* A hotkey; a key of the session.                                              *)
Hotkey == Runs(request(p)) /\ asked' = TRUE /\ UNCHANGED qualified
RouteKey == p.active /\ Runs(route_key(p)) /\ asked' = TRUE /\ UNCHANGED qualified

(* The user's own input, seen by the hooks; a command key only releases.        *)
UserInput ==
    Runs(observe_physical_input(p)) /\ asked' = FALSE /\ UNCHANGED qualified
CommandKey == p' = release_all(p) /\ UNCHANGED <<qualified, asked>>

(* The session of the desktop is locked or unlocked, the displays change.       *)
InputAvailable(available) ==
    /\ Runs(set_input_available(p, available))
    /\ asked' = (asked /\ available) /\ UNCHANGED qualified
DisplayChange(changed) ==
    /\ Runs(refresh_topology(p, changed))
    /\ asked' = (asked /\ ~changed) /\ UNCHANGED qualified

(* An agent cycles the windows, or holds input.                                 *)
AgentCycle(changed) ==
    /\ Runs(navigate_window(p, TRUE, changed))
    /\ asked' = (asked /\ ~changed) /\ UNCHANGED qualified
AgentHolds ==
    /\ p.available /\ qualified /\ p' = [p EXCEPT !.synthetic = TRUE]
    /\ UNCHANGED <<qualified, asked>>

(* apply_settings, but for a change of the compute device (Lifecycle): a source *)
(* and a scope, rolled back when the scope cannot be applied.                   *)
Rolled(s, t) ==
    SceneSource([t EXCEPT !.source = s.source, !.scope = s.scope], s.source)
apply_settings(s, source, scope) ==
    IF s.pending \/ s.active \/ s.synthetic THEN Fails(s)
    ELSE LET t == [SceneSource(s, source) EXCEPT !.source = source, !.scope = scope]
             kept == source = "semantic" /\ scope = s.scope
         IN  {IF o.result = "OK" THEN [o EXCEPT !.s.dirty = TRUE, !.s.window = IF kept THEN @ ELSE "none"]
                      ELSE [o EXCEPT !.s = Rolled(s, o.s)] :
                 o \in apply_scope(t)}
ApplySettings(source, scope) ==
    Runs(apply_settings(p, source, scope)) /\ UNCHANGED <<qualified, asked>>

(* The surface under the input, the foreground window, the clock.               *)
SurfaceChanges == qualified' = ~qualified /\ UNCHANGED <<p, asked>>
ForegroundChanges ==
    p.window = "current" /\ p' = [p EXCEPT !.window = "other"] /\ UNCHANGED <<qualified, asked>>
PendingRunsOut ==
    p.pending /\ ~p.late /\ p' = [p EXCEPT !.late = TRUE] /\ UNCHANGED <<qualified, asked>>

PipelineNext ==
    \/ Advance \/ Hotkey \/ RouteKey \/ UserInput \/ CommandKey
    \/ \E available \in BOOLEAN : InputAvailable(available)
    \/ \E changed \in BOOLEAN : DisplayChange(changed) \/ AgentCycle(changed)
    \/ AgentHolds
    \/ \E source \in Sources, scope \in Scopes : ApplySettings(source, scope)
    \/ SurfaceChanges \/ ForegroundChanges \/ PendingRunsOut

Fairness == WF_pipelineVars(Advance) /\ WF_pipelineVars(PendingRunsOut)
PipelineSpec == PipelineStarts /\ [][PipelineNext]_pipelineVars /\ Fairness

-------------------------------------------------------------------------------
(* Types of the variables.                                                      *)
PipelineTypeOK == p \in Pipeline /\ qualified \in BOOLEAN /\ asked \in BOOLEAN

(* A session, or one that waits to begin, is what was last asked for: after     *)
(* input of the user, a lock or a change of the displays no session begins      *)
(* until the next command, and nothing shows while input is not available.      *)
SessionIsAsked ==
    /\ PipelineTypeOK
    /\ p.pending \/ p.active => asked
    /\ ~p.available => ~p.pending /\ ~p.active /\ ~p.overlay

(* An action that is pending has capture running and the scenes of its source   *)
(* coming, with no session in its way.                                          *)
PendingIsServed ==
    p.pending => p.capture /\ ~p.active /\ p.scene = p.source /\ p.source # "grid"

(* The labels on show are those of the session, or will be redrawn, for a       *)
(* session whose scene was captured.                                            *)
LabelsFollow ==
    p.overlay /\ p.active /\ p.scene \in {"pixel", "semantic"} => p.drawn \/ p.dirty

(* Every command is on its way to the session it asked for, and shows it.       *)
CommandIsServed == PendingIsServed /\ LabelsFollow

(* What was asked for is what begins, and what is shown.                        *)
ActivationHolds == SessionIsAsked /\ CommandIsServed

(* An action does not stay pending: it begins, is called off or times out.      *)
PendingEnds == p.pending ~> ~p.pending

(* Activation: the labels on show are always those of the session               *)
(* (docs/product/version-0.1.md:31).                                            *)
LabelsAreTheSessions == p.overlay /\ p.active => p.drawn \/ p.dirty

(* Capture stops while the application is idle (docs/product/version-0.1.md:9): *)
(* left to itself, on pixels of the whole desktop, it comes to a stop.           *)
LeftAlone ==
    /\ <>[][Advance \/ PendingRunsOut]_pipelineVars
    /\ <>[](p.source = "pixel" /\ p.scope = "desktop" /\ qualified)
IdleStops ==
    LeftAlone =>
        []<>(~p.capture \/ p.pending \/ p.active \/ p.synthetic)
===============================================================================
