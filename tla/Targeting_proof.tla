--------------------------- MODULE Targeting_proof ---------------------------
(* Safety of targeting, from the command that asks for a session to the plan   *)
(* the session ends with: the pipeline seen from above (Activation), the order *)
(* of the places that can be aimed at (Aim), and the session (Session).        *)
EXTENDS Session, Aim, Activation, FiniteSetTheorems, SequenceTheorems,
        WellFoundedInduction, TLAPS

(* The pipelines that hold what ActivationHolds says, where `may` says         *)
(* whether a session has been asked for.                                      *)
Fine(may) ==
    {s \in Pipeline :
        /\ s.pending \/ s.active => may
        /\ ~s.available => ~s.pending /\ ~s.active /\ ~s.overlay
        /\ s.pending => s.capture /\ ~s.active /\ s.scene = s.source /\ s.source # "grid"
        /\ s.overlay /\ s.active /\ s.scene \in {"pixel", "semantic"} => s.drawn \/ s.dirty}

(* What a handler leaves when it keeps that.                                  *)
Outcomes(may) == [s : Fine(may), result : {"OK", "ERROR"}]

USE DEF Sources, Scopes

LEMMA HoldsIsFine == ActivationHolds <=> p \in Fine(asked) /\ qualified \in BOOLEAN /\ asked \in BOOLEAN
BY DEF ActivationHolds, SessionIsAsked, CommandIsServed, PendingIsServed, LabelsFollow, PipelineTypeOK, Fine

LEMMA OutcomesAre ==
    ASSUME NEW may \in BOOLEAN, NEW s \in Fine(may), NEW result \in {"OK", "ERROR"}
    PROVE  [s |-> s, result |-> result] \in Outcomes(may)
BY DEF Outcomes

LEMMA OutcomesHave ==
    ASSUME NEW may \in BOOLEAN, NEW o \in Outcomes(may)
    PROVE  o.s \in Fine(may) /\ o.result \in {"OK", "ERROR"}
BY DEF Outcomes

LEMMA OkIs ==
    ASSUME NEW s, NEW q \in Ok(s)
    PROVE  q.s = s /\ q.result = "OK"
BY DEF Ok

LEMMA FailsIs ==
    ASSUME NEW s, NEW q \in Fails(s)
    PROVE  q.s = s /\ q.result = "ERROR"
BY DEF Fails

LEMMA EitherFine ==
    ASSUME NEW may \in BOOLEAN, NEW s \in Fine(may)
    PROVE  Ok(s) \subseteq Outcomes(may) /\ Fails(s) \subseteq Outcomes(may)
BY OutcomesAre DEF Ok, Fails

LEMMA AskedForMore == Fine(FALSE) \subseteq Fine(TRUE)
BY DEF Fine

(* The calls of the runtime.                                                  *)
LEMMA CancelIs ==
    ASSUME NEW s \in Pipeline
    PROVE  /\ cancel_semantic(s) \in Pipeline
           /\ LET t == cancel_semantic(s)
              IN  /\ t.scene = s.scene
                  /\ t.available = s.available /\ t.pending = s.pending /\ t.active = s.active
                  /\ t.capture = s.capture /\ t.overlay = s.overlay /\ t.dirty = s.dirty
                  /\ t.drawn = s.drawn /\ t.source = s.source /\ t.topology = s.topology
<1>1. s.held \ {"semantic"} \in SUBSET {"pixel", "semantic"}
  BY DEF Pipeline
<1> QED BY <1>1 DEF cancel_semantic, Pipeline

LEMMA SceneSourceIs ==
    ASSUME NEW s \in Pipeline, NEW source \in Sources \cup {"windows"}
    PROVE  /\ SceneSource(s, source) \in Pipeline
           /\ LET t == SceneSource(s, source)
              IN  /\ t.scene = source
                  /\ t.available = s.available /\ t.pending = s.pending /\ t.active = s.active
                  /\ t.capture = s.capture /\ t.overlay = s.overlay /\ t.dirty = s.dirty
                  /\ t.drawn = s.drawn /\ t.source = s.source /\ t.topology = s.topology
<1> DEFINE Kept(t) == /\ t.available = s.available /\ t.pending = s.pending /\ t.active = s.active
                      /\ t.capture = s.capture /\ t.overlay = s.overlay /\ t.dirty = s.dirty
                      /\ t.drawn = s.drawn /\ t.source = s.source /\ t.topology = s.topology
<1>1. cancel_semantic(s) \in Pipeline /\ Kept(cancel_semantic(s))
  BY CancelIs
<1>2. ASSUME NEW t \in Pipeline, Kept(t)
      PROVE  LET u == [t EXCEPT !.scene = source, !.redo = TRUE]
             IN  u \in Pipeline /\ Kept(u) /\ u.scene = source
  BY <1>2 DEF Pipeline
<1>3. CASE s.scene = source
  BY <1>3 DEF SceneSource
<1>4. CASE s.scene # source /\ s.scene = "semantic"
  BY <1>1, <1>2, <1>4 DEF SceneSource
<1>5. CASE s.scene # source /\ s.scene # "semantic"
  BY <1>2, <1>5 DEF SceneSource
<1> QED BY <1>3, <1>4, <1>5

LEMMA SessionEndIs ==
    ASSUME NEW s \in Pipeline
    PROVE  /\ SessionEnd(s) \in Pipeline
           /\ LET t == SessionEnd(s)
              IN  /\ ~t.active /\ t.scene = s.scene
                  /\ t.available = s.available /\ t.pending = s.pending
                  /\ t.capture = s.capture /\ t.overlay = s.overlay /\ t.dirty = s.dirty
                  /\ t.source = s.source /\ t.topology = s.topology
BY DEF SessionEnd, Pipeline

LEMMA SessionEndFine ==
    ASSUME NEW may \in BOOLEAN, NEW s \in Fine(may)
    PROVE  SessionEnd(s) \in Fine(may)
BY SessionEndIs DEF Fine

LEMMA PublishFine ==
    ASSUME NEW may \in BOOLEAN, NEW s \in Fine(may)
    PROVE  publish_overlays(s) \subseteq Outcomes(may)
<1>1. [s EXCEPT !.drawn = TRUE, !.dirty = FALSE] \in Fine(may)
  BY DEF Fine, Pipeline
<1> QED BY <1>1, OutcomesAre DEF publish_overlays, Ok, Fails

(* The overlay shows what is published of the session.                         *)
LEMMA StartOverlayFine ==
    ASSUME NEW may \in BOOLEAN, NEW s \in Fine(may), s.available,
           s.active /\ s.scene \in {"pixel", "semantic"} => s.drawn \/ s.dirty
    PROVE  start_overlay(s) \subseteq Outcomes(may)
<1> DEFINE Shown(t) == [t EXCEPT !.overlay = TRUE]
           drawn == [s EXCEPT !.drawn = TRUE, !.dirty = FALSE]
<1>1. ASSUME NEW o \in start_overlay(s)
      PROVE  \E q \in IF s.dirty THEN publish_overlays(s) ELSE Ok(s) :
                o \in IF q.result = "OK" THEN Ok(Shown(q.s)) ELSE {q}
  BY DEF start_overlay, Then
<1>2. s.dirty => publish_overlays(s) \subseteq Ok(drawn) \cup Fails(s)
  BY DEF publish_overlays
<1>3. /\ ~s.dirty => Shown(s) \in Fine(may)
      /\ Shown(drawn) \in Fine(may)
  BY ZenonT(60) DEF Fine, Pipeline
<1> HIDE DEF Shown, drawn
<1>4. ASSUME NEW o \in start_overlay(s) PROVE o \in Outcomes(may)
  <2>1. PICK q \in IF s.dirty THEN publish_overlays(s) ELSE Ok(s) :
               o \in IF q.result = "OK" THEN Ok(Shown(q.s)) ELSE {q}
    BY <1>1, <1>4
  <2>2. CASE q \in Fails(s)
    BY <2>1, <2>2, FailsIs, EitherFine
  <2>3. CASE s.dirty /\ q \in Ok(drawn)
    BY <1>3, <2>1, <2>3, OkIs, EitherFine
  <2>4. CASE ~s.dirty /\ q \in Ok(s)
    BY <1>3, <2>1, <2>4, OkIs, EitherFine
  <2> QED BY <1>2, <2>1, <2>2, <2>3, <2>4
<1> QED BY <1>4

LEMMA StopOverlayFine ==
    ASSUME NEW may \in BOOLEAN, NEW s \in Fine(may)
    PROVE  /\ stop_overlay(s) \in Fine(may) /\ ~stop_overlay(s).overlay
           /\ LET t == stop_overlay(s)
              IN  /\ t.available = s.available /\ t.pending = s.pending /\ t.active = s.active
                  /\ t.scene = s.scene /\ t.source = s.source
BY DEF stop_overlay, Fine, Pipeline

(* Capture stops only when no session or pending action is left with it.       *)
LEMMA StopCaptureFine ==
    ASSUME NEW may \in BOOLEAN, NEW s \in Fine(may)
    PROVE  stop_capture(s) \subseteq Outcomes(may)
<1>1. CASE ~s.pending
  <2>1. [s EXCEPT !.capture = FALSE] \in Fine(may)
    BY <1>1 DEF Fine, Pipeline
  <2> QED BY <2>1, OutcomesAre DEF stop_capture, Ok, Fails
<1>2. CASE s.pending
  BY <1>2, OutcomesAre DEF stop_capture, Ok
<1> QED BY <1>1, <1>2

(* A session begins, or the dispatch is refused.                               *)
LEMMA BeginIs ==
    ASSUME NEW s
    PROVE  Begin(s) \subseteq Fails(s) \cup Ok([s EXCEPT !.active = TRUE, !.drawn = FALSE])
BY DEF Begin

(* It begins and is shown, when its scene will be drawn.                       *)
LEMMA BegunFine ==
    ASSUME NEW s \in Fine(TRUE), s.available, ~s.pending, s.scene \notin {"pixel", "semantic"}
    PROVE  Then(Begin(s), start_overlay) \subseteq Outcomes(TRUE)
<1> DEFINE t == [s EXCEPT !.active = TRUE, !.drawn = FALSE]
<1>1. t \in Fine(TRUE) /\ t.available /\ t.scene \notin {"pixel", "semantic"}
  BY DEF Fine, Pipeline
<1>2. start_overlay(t) \subseteq Outcomes(TRUE)
  BY <1>1, StartOverlayFine
<1>3. Begin(s) \subseteq Fails(s) \cup Ok(t)
  BY BeginIs
<1> HIDE DEF t
<1>4. ASSUME NEW o \in Then(Begin(s), start_overlay) PROVE o \in Outcomes(TRUE)
  <2>1. PICK q \in Begin(s) : o \in IF q.result = "OK" THEN start_overlay(q.s) ELSE {q}
    BY <1>4 DEF Then
  <2>2. CASE q \in Fails(s)
    BY <2>1, <2>2, FailsIs, EitherFine
  <2>3. CASE q \in Ok(t)
    BY <1>2, <2>1, <2>3, OkIs
  <2> QED BY <1>3, <2>1, <2>2, <2>3
<1> QED BY <1>4

(* On the grid it begins on the spot.                                          *)
LEMMA GridFine ==
    ASSUME NEW s \in Fine(TRUE), s.available, ~s.pending
    PROVE  begin_grid_action(s) \subseteq Outcomes(TRUE)
<1> DEFINE t == [s EXCEPT !.redo = FALSE]
           Gridded(u) == IF u.scene = "grid" THEN Ok([u EXCEPT !.redo = FALSE]) ELSE Fails(u)
           Begun(u) == Then(Begin(u), start_overlay)
<1>1. t \in Fine(TRUE) /\ t.available /\ ~t.pending /\ t.scene = s.scene
  BY DEF Fine, Pipeline
<1>2. Gridded(s) \subseteq Fails(s) \cup Ok(t) /\ (s.scene # "grid" => Gridded(s) = Fails(s))
  OBVIOUS
<1>3. ASSUME NEW o \in publish_grid(s)
      PROVE  o \in Fails(s) \/ (o \in Ok(t) /\ s.scene = "grid")
  <2>1. PICK q \in apply_scope(s) : o \in IF q.result = "OK" THEN Gridded(q.s) ELSE {q}
    BY <1>3 DEF publish_grid, Then
  <2> HIDE DEF Gridded, t
  <2>2. CASE q \in Fails(s)
    BY <2>1, <2>2, FailsIs
  <2>3. CASE q \in Ok(s)
    BY <1>2, <2>1, <2>3, OkIs
  <2> QED BY <2>1, <2>2, <2>3 DEF apply_scope, MayFail
<1>4. s.scene = "grid" => Begun(t) \subseteq Outcomes(TRUE)
  BY <1>1, BegunFine
<1>5. ASSUME NEW o \in begin_grid_action(s) PROVE o \in Outcomes(TRUE)
  <2>1. PICK q \in publish_grid(s) : o \in IF q.result = "OK" THEN Begun(q.s) ELSE {q}
    BY <1>5 DEF begin_grid_action, Then
  <2> HIDE DEF Begun, t
  <2>2. CASE q \in Fails(s)
    BY <2>1, <2>2, FailsIs, EitherFine
  <2>3. CASE q \in Ok(t) /\ s.scene = "grid"
    BY <1>4, <2>1, <2>3, OkIs
  <2> QED BY <1>3, <2>1, <2>2, <2>3
<1> QED BY <1>5

(* On the windows, when they are collected.                                    *)
LEMMA WindowFine ==
    ASSUME NEW s \in Fine(TRUE), s.available, ~s.pending, ~s.active
    PROVE  begin_window_action(s) \subseteq Outcomes(TRUE)
<1> DEFINE v == SceneSource(s, "windows")
           t == [v EXCEPT !.redo = FALSE]
           u == [t EXCEPT !.active = TRUE, !.drawn = FALSE]
           w == [u EXCEPT !.windowed = TRUE]
           Windowed(x) == start_overlay([x EXCEPT !.windowed = TRUE])
           Begun(x) == Then(Begin([SceneSource(x, "windows") EXCEPT !.redo = FALSE]), Windowed)
<1>1. /\ v \in Pipeline /\ v.scene = "windows" /\ v.available = s.available /\ v.pending = s.pending
      /\ v.active = s.active
  BY SceneSourceIs DEF Fine
<1> HIDE DEF v
<1>2. t \in Fine(TRUE) /\ w \in Fine(TRUE) /\ w.available /\ w.scene = "windows"
  <2>1. t \in Fine(TRUE) /\ t.available /\ ~t.pending /\ t.scene = "windows"
    BY <1>1 DEF Fine, Pipeline
  <2> HIDE DEF t
  <2>2. u \in Fine(TRUE) /\ u.available /\ u.scene = "windows"
    BY <2>1 DEF Fine, Pipeline
  <2> HIDE DEF u
  <2> QED BY <2>1, <2>2 DEF Fine, Pipeline
<1>3. Windowed(u) \subseteq Outcomes(TRUE)
  BY <1>2, StartOverlayFine
<1>4. Begin(t) \subseteq Fails(t) \cup Ok(u)
  BY BeginIs
<1> HIDE DEF t, u, Windowed
<1>5. ASSUME NEW o \in Begun(s) PROVE o \in Outcomes(TRUE)
  <2>1. PICK q \in Begin(t) : o \in IF q.result = "OK" THEN Windowed(q.s) ELSE {q}
    BY <1>5 DEF Then, t, v
  <2>2. CASE q \in Fails(t)
    BY <1>2, <2>1, <2>2, FailsIs, EitherFine
  <2>3. CASE q \in Ok(u)
    BY <1>3, <2>1, <2>3, OkIs
  <2> QED BY <1>4, <2>1, <2>2, <2>3
<1>6. ASSUME NEW o \in begin_window_action(s) PROVE o \in Outcomes(TRUE)
  <2>1. PICK q \in MayFail(s) : o \in IF q.result = "OK" THEN Begun(q.s) ELSE {q}
    BY <1>6 DEF begin_window_action, Then, Windowed
  <2> HIDE DEF Begun
  <2>2. CASE q \in Fails(s)
    BY <2>1, <2>2, FailsIs, EitherFine
  <2>3. CASE q \in Ok(s)
    BY <1>5, <2>1, <2>3, OkIs
  <2> QED BY <2>1, <2>2, <2>3 DEF MayFail
<1> QED BY <1>6

-------------------------------------------------------------------------------
(* An action that is asked for again: begun on the grid, or pending.            *)
LEMMA AlsoStops ==
    ASSUME NEW may \in BOOLEAN, NEW results \in SUBSET Outcomes(may)
    PROVE  Finally(results, stop_capture) \subseteq Outcomes(may)
<1>1. ASSUME NEW o \in Finally(results, stop_capture) PROVE o \in Outcomes(may)
  <2>1. PICK q \in results : \E c \in stop_capture(q.s) : o = [s |-> c.s, result |-> q.result]
    BY <1>1 DEF Finally
  <2>2. PICK c \in stop_capture(q.s) : o = [s |-> c.s, result |-> q.result]
    BY <2>1
  <2>3. q.s \in Fine(may) /\ q.result \in {"OK", "ERROR"}
    BY OutcomesHave
  <2>4. c \in Outcomes(may)
    BY <2>3, StopCaptureFine
  <2>5. c.s \in Fine(may)
    BY <2>4, OutcomesHave
  <2> QED BY <2>2, <2>3, <2>5, OutcomesAre
<1> QED BY <1>1

LEMMA ServeFine ==
    ASSUME NEW s \in Pipeline, s.available, ~s.active, s.scene = s.source
    PROVE  Serve(s) \subseteq Outcomes(TRUE)
<1> DEFINE t == [s EXCEPT !.pending = FALSE, !.late = FALSE]
<1>1. t \in Fine(TRUE) /\ t.available /\ ~t.pending
  BY DEF Fine, Pipeline
<1>2. begin_grid_action(t) \subseteq Outcomes(TRUE)
  BY <1>1, GridFine
<1>3. Finally(begin_grid_action(t), stop_capture) \subseteq Outcomes(TRUE)
  BY <1>2, AlsoStops
<1>4. s.source # "grid" => start_capture(s) \in Fine(TRUE)
  BY DEF Fine, Pipeline, start_capture
<1>5. s.source # "grid" => Ok(start_capture(s)) \subseteq Outcomes(TRUE)
  BY <1>4, EitherFine
<1> QED BY <1>3, <1>5 DEF Serve

LEMMA RestartFine ==
    ASSUME NEW s \in Pipeline, s.available, ~s.active
    PROVE  restart_action(s) \subseteq Outcomes(TRUE)
<1> DEFINE v == SceneSource(s, s.source)
           t == [v EXCEPT !.windowed = FALSE, !.pending = TRUE, !.late = FALSE]
<1>1. /\ v \in Pipeline /\ v.scene = s.source /\ v.available = s.available
      /\ v.active = s.active /\ v.source = s.source
  <2>1. s.source \in Sources
    BY DEF Pipeline
  <2> QED BY <2>1, SceneSourceIs
<1> HIDE DEF v
<1>2. t \in Pipeline /\ t.available /\ ~t.active /\ t.scene = t.source
  BY ZenonT(60), <1>1 DEF Pipeline
<1>3. Serve(t) \subseteq Outcomes(TRUE)
  BY <1>2, ServeFine
<1> QED BY <1>3 DEF restart_action, v

LEMMA ResumeFine ==
    ASSUME NEW s \in Pipeline, s.available, ~s.active, s.pending => s.scene = s.source,
           NEW restart \in BOOLEAN
    PROVE  Resume(s, restart) \subseteq Outcomes(TRUE)
<1> DEFINE t == stop_overlay(s)
<1>1. /\ t \in Pipeline /\ t.available /\ ~t.active /\ t.pending = s.pending
      /\ t.scene = s.scene /\ t.source = s.source
      /\ ~s.pending => t \in Fine(TRUE)
  BY DEF stop_overlay, Pipeline, Fine
<1> HIDE DEF t
<1>2. restart_action(t) \subseteq Outcomes(TRUE)
  BY <1>1, RestartFine
<1>3. s.pending => Serve(t) \subseteq Outcomes(TRUE)
  BY <1>1, ServeFine
<1>4. ~s.pending => Ok(t) \subseteq Outcomes(TRUE)
  BY <1>1, EitherFine
<1> QED BY <1>2, <1>3, <1>4 DEF Resume, t

-------------------------------------------------------------------------------
(* The commands that change what is targeted.                                   *)
LEMMA ScopeIs ==
    ASSUME NEW s
    PROVE  apply_scope(s) \subseteq Ok(s) \cup Fails(s)
BY DEF apply_scope, MayFail

LEMMA ChangeSourceFine ==
    ASSUME NEW s \in Fine(TRUE), s.available, NEW source \in Sources
    PROVE  change_source(s, source) \subseteq Outcomes(TRUE)
<1> DEFINE e == SessionEnd(s)
           t == SceneSource(e, source)
           u == [t EXCEPT !.source = source,
                          !.window = IF source = "semantic" THEN @ ELSE "none"]
<1>1. e \in Pipeline /\ e.available /\ ~e.active
  BY SessionEndIs DEF Fine
<1> HIDE DEF e
<1>2. t \in Pipeline /\ t.available /\ ~t.active /\ t.scene = source
  BY <1>1, SceneSourceIs
<1> HIDE DEF t
<1>3. u \in Pipeline /\ u.available /\ ~u.active /\ u.scene = u.source
  BY <1>2 DEF Pipeline
<1> HIDE DEF u
<1>4. s.active \in BOOLEAN
  BY DEF Fine, Pipeline
<1>5. Resume(u, s.active) \subseteq Outcomes(TRUE)
  BY <1>3, <1>4, ResumeFine
<1>6. Ok(s) \subseteq Outcomes(TRUE)
  BY EitherFine
<1> QED BY <1>5, <1>6 DEF change_source, u, t, e

LEMMA ChangeScopeFine ==
    ASSUME NEW s \in Fine(TRUE), s.available, NEW scope \in Scopes
    PROVE  change_scope(s, scope) \subseteq Outcomes(TRUE)
<1> DEFINE e == SessionEnd(s)
           t == [e EXCEPT !.scope = scope]
           u == [t EXCEPT !.window = "none"]
           Resumed(x) == Resume([x EXCEPT !.window = "none"], s.active)
<1>1. /\ e \in Pipeline /\ e \in Fine(TRUE) /\ e.available /\ ~e.active
  BY SessionEndIs, SessionEndFine DEF Fine
<1> HIDE DEF e
<1>2. t \in Fine(TRUE) /\ t.available /\ ~t.active
  BY <1>1 DEF Fine, Pipeline
<1>3. u \in Pipeline /\ u.available /\ ~u.active /\ (u.pending => u.scene = u.source)
  BY ZenonT(60), <1>2 DEF Fine, Pipeline
<1> HIDE DEF t
<1>4. s.active \in BOOLEAN
  BY DEF Fine, Pipeline
<1>5. Resumed(t) \subseteq Outcomes(TRUE)
  BY <1>3, <1>4, ResumeFine
<1>6. ASSUME NEW o \in change_scope(s, scope), s.scope # scope PROVE o \in Outcomes(TRUE)
  <2>1. PICK q \in apply_scope(t) : o \in IF q.result = "OK" THEN Resumed(q.s) ELSE {q}
    BY <1>6 DEF change_scope, Then, t, e
  <2> HIDE DEF Resumed
  <2>2. CASE q \in Fails(t)
    BY <1>2, <2>1, <2>2, FailsIs, EitherFine
  <2>3. CASE q \in Ok(t)
    BY <1>5, <2>1, <2>3, OkIs
  <2> QED BY <2>1, <2>2, <2>3, ScopeIs
<1>7. Ok(s) \subseteq Outcomes(TRUE)
  BY EitherFine
<1> QED BY <1>6, <1>7 DEF change_scope

-------------------------------------------------------------------------------
(* What calls a session off.                                                    *)
LEMMA ReleaseFine ==
    ASSUME NEW may \in BOOLEAN, NEW s \in Fine(may)
    PROVE  release_all(s) \in Fine(may)
BY ZenonT(60) DEF release_all, Fine, Pipeline

LEMMA InvalidateFine ==
    ASSUME NEW may \in BOOLEAN, NEW s \in Fine(may)
    PROVE  /\ invalidate_semantic(s) \in Fine(may)
           /\ LET t == invalidate_semantic(s)
              IN  /\ t.available = s.available /\ t.pending = s.pending /\ t.active = s.active
                  /\ t.scene = s.scene /\ t.source = s.source
<1> DEFINE c == cancel_semantic(s)
<1>1. /\ c \in Pipeline /\ c.scene = s.scene
      /\ c.available = s.available /\ c.pending = s.pending /\ c.active = s.active
      /\ c.capture = s.capture /\ c.overlay = s.overlay /\ c.dirty = s.dirty
      /\ c.drawn = s.drawn /\ c.source = s.source
  BY CancelIs DEF Fine
<1> HIDE DEF c
<1>2. LET t == [c EXCEPT !.window = "none"]
      IN  /\ t \in Fine(may)
          /\ t.available = s.available /\ t.pending = s.pending /\ t.active = s.active
          /\ t.scene = s.scene /\ t.source = s.source
  BY <1>1 DEF Fine, Pipeline
<1> QED BY <1>2 DEF invalidate_semantic, c

LEMMA LeaveFine ==
    ASSUME NEW s \in Pipeline
    PROVE  /\ leave_window_scene(s) \in Pipeline
           /\ LET t == leave_window_scene(s)
              IN  /\ t.available = s.available /\ t.pending = s.pending /\ t.active = s.active
                  /\ t.capture = s.capture /\ t.overlay = s.overlay /\ t.source = s.source
                  /\ t.scene \in {s.scene, s.source}
<1> DEFINE v == SceneSource(s, s.source)
<1>0. s.source \in Sources
  BY DEF Pipeline
<1>1. /\ v \in Pipeline /\ v.scene = s.source
      /\ v.available = s.available /\ v.pending = s.pending /\ v.active = s.active
      /\ v.capture = s.capture /\ v.overlay = s.overlay /\ v.source = s.source
  BY <1>0, SceneSourceIs
<1> HIDE DEF v
<1>2. LET t == [v EXCEPT !.windowed = FALSE]
      IN  /\ t \in Pipeline
          /\ t.available = s.available /\ t.pending = s.pending /\ t.active = s.active
          /\ t.capture = s.capture /\ t.overlay = s.overlay /\ t.source = s.source
          /\ t.scene = s.source
  BY <1>1 DEF Pipeline
<1> QED BY <1>2 DEF leave_window_scene, v

LEMMA CalledOffFine ==
    ASSUME NEW s \in Pipeline
    PROVE  session_called_off(s) \in Fine(FALSE)
<1> DEFINE e == SessionEnd(s)
           t == [e EXCEPT !.pending = FALSE, !.late = FALSE]
           l == leave_window_scene(t)
<1>1. e \in Pipeline /\ ~e.active
  BY SessionEndIs
<1> HIDE DEF e
<1>2. t \in Pipeline /\ ~t.active /\ ~t.pending
  BY <1>1 DEF Pipeline
<1> HIDE DEF t
<1>3. l \in Pipeline /\ ~l.active /\ ~l.pending
  BY <1>2, LeaveFine
<1> HIDE DEF l
<1>4. stop_overlay(l) \in Fine(FALSE)
  BY <1>3 DEF stop_overlay, Fine, Pipeline
<1> QED BY <1>4 DEF session_called_off, l, t, e

LEMMA ObserveFine ==
    ASSUME NEW s \in Pipeline
    PROVE  observe_physical_input(s) \subseteq Outcomes(FALSE)
<1>1. release_all(s) \in Pipeline
  BY DEF release_all, Pipeline
<1> QED BY <1>1, CalledOffFine, StopCaptureFine DEF observe_physical_input

LEMMA AvailableFine ==
    ASSUME NEW may \in BOOLEAN, NEW s \in Fine(may), NEW available \in BOOLEAN
    PROVE  set_input_available(s, available) \subseteq Outcomes(may /\ available)
<1> DEFINE t == [release_all(s) EXCEPT !.available = available]
           i == invalidate_semantic(t)
<1>1. CASE s.available = available
  <2>1. s \in Fine(may /\ available)
    BY <1>1 DEF Fine
  <2> QED BY <1>1, <2>1, EitherFine DEF set_input_available
<1>2. CASE s.available # available /\ available
  <2>1. t \in Fine(may)
    BY <1>2 DEF Fine, Pipeline, release_all
  <2>2. Ok(t) \subseteq Outcomes(may)
    BY <2>1, EitherFine
  <2> QED BY <1>2, <2>2 DEF set_input_available
<1>3. CASE s.available # available /\ ~available
  <2>1. t \in Pipeline
    BY DEF Fine, Pipeline, release_all
  <2> HIDE DEF t
  <2>2. i \in Pipeline
    <3> DEFINE c == cancel_semantic(t)
    <3>1. c \in Pipeline
      BY <2>1, CancelIs
    <3> HIDE DEF c
    <3>2. [c EXCEPT !.window = "none"] \in Pipeline
      BY <3>1 DEF Pipeline
    <3> QED BY <3>2 DEF invalidate_semantic, c
  <2> HIDE DEF i
  <2>3. session_called_off(i) \in Fine(FALSE)
    BY <2>2, CalledOffFine
  <2>4. stop_capture(session_called_off(i)) \subseteq Outcomes(FALSE)
    BY <2>3, StopCaptureFine
  <2> QED BY <1>3, <2>4 DEF set_input_available, i, t
<1> QED BY <1>1, <1>2, <1>3

-------------------------------------------------------------------------------
(* The displays.                                                                *)
LEMMA SynchronizeFine ==
    ASSUME NEW may \in BOOLEAN, NEW s \in Fine(may)
    PROVE  synchronize_topology(s) \subseteq Outcomes(may)
<1> DEFINE t == release_all(s)
           u == [t EXCEPT !.topology = FALSE, !.dirty = TRUE]
<1>1. t \in Fine(may)
  BY ReleaseFine
<1> HIDE DEF t
<1>2. u \in Fine(may)
  BY ZenonT(60), <1>1 DEF Fine, Pipeline
<1> HIDE DEF u
<1>3. Ok(u) \subseteq Outcomes(may) /\ Fails(t) \subseteq Outcomes(may)
  BY <1>1, <1>2, EitherFine
<1> QED BY <1>3 DEF synchronize_topology, u, t

LEMMA AlsoSynchronizes ==
    ASSUME NEW may \in BOOLEAN, NEW results \in SUBSET Outcomes(may)
    PROVE  Finally(results, synchronize_topology) \subseteq Outcomes(may)
<1>1. ASSUME NEW o \in Finally(results, synchronize_topology) PROVE o \in Outcomes(may)
  <2>1. PICK q \in results : \E c \in synchronize_topology(q.s) : o = [s |-> c.s, result |-> q.result]
    BY <1>1 DEF Finally
  <2>2. PICK c \in synchronize_topology(q.s) : o = [s |-> c.s, result |-> q.result]
    BY <2>1
  <2>3. q.s \in Fine(may) /\ q.result \in {"OK", "ERROR"}
    BY OutcomesHave
  <2>4. c \in Outcomes(may)
    BY <2>3, SynchronizeFine
  <2>5. c.s \in Fine(may)
    BY <2>4, OutcomesHave
  <2> QED BY <2>2, <2>3, <2>5, OutcomesAre
<1> QED BY <1>1

LEMMA RefreshFine ==
    ASSUME NEW may \in BOOLEAN, NEW s \in Fine(may), NEW changed \in BOOLEAN
    PROVE  refresh_topology(s, changed) \subseteq Outcomes(may /\ ~changed)
<1> DEFINE e == SessionEnd(s)
           i == invalidate_semantic(e)
           t == IF changed THEN topology_changes(s) ELSE s
<1>1. e \in Fine(may) /\ ~e.active
  BY SessionEndFine, SessionEndIs DEF Fine
<1> HIDE DEF e
<1>2. i \in Fine(may) /\ ~i.active
  BY <1>1, InvalidateFine
<1> HIDE DEF i
<1>3. [i EXCEPT !.pending = FALSE, !.late = FALSE, !.topology = TRUE] \in Fine(FALSE)
  BY ZenonT(60), <1>2 DEF Fine, Pipeline
<1>4. topology_changes(s) \in Fine(FALSE)
  BY <1>3 DEF topology_changes, i, e
<1>5. t \in Fine(may /\ ~changed)
  BY <1>4
<1> HIDE DEF t
<1>6. Ok(t) \subseteq Outcomes(may /\ ~changed)
  BY <1>5, EitherFine
<1>7. Finally(Ok(t), synchronize_topology) \subseteq Outcomes(may /\ ~changed)
  BY <1>6, AlsoSynchronizes
<1> QED BY <1>6, <1>7 DEF refresh_topology, t

-------------------------------------------------------------------------------
(* The windows are cycled: an agent begins nothing, the user may.               *)
LEMMA NavigateFine ==
    ASSUME NEW may \in BOOLEAN, NEW s \in Fine(may), NEW agent \in BOOLEAN, NEW changed \in BOOLEAN,
           agent \/ (may /\ s.available /\ ~changed)
    PROVE  navigate_window(s, agent, changed) \subseteq Outcomes(may /\ ~changed)
<1> DEFINE now == may /\ ~changed
           t == IF agent THEN s ELSE SessionEnd(s)
           Same(u) == IF u.topology \/ changed \/ ~u.available \/ ~qualified
                      THEN Fails(u) ELSE MayFail(u)
           found == IF agent THEN Then(refresh_topology(t, changed), Same)
                                  \cup (IF changed THEN {} ELSE Fails(t))
                    ELSE MayFail(t)
           Restarted(v) == IF ~agent /\ s.active THEN restart_action(stop_overlay(v)) ELSE Ok(v)
           Scoped(u) == Then(apply_scope(invalidate_semantic(u)), Restarted)
<1>0. now \in BOOLEAN
  OBVIOUS
<1>1. t \in Fine(may) /\ t.available = s.available /\ (~agent => ~t.active)
  BY SessionEndFine, SessionEndIs DEF Fine
<1>2. ASSUME NEW q \in found
      PROVE  q \in Outcomes(now) /\ (~agent => q.s = t)
  <2> HIDE DEF t
  <2>1. CASE agent /\ q \in Then(refresh_topology(t, changed), Same)
    <3>1. PICK r \in refresh_topology(t, changed) : q \in IF r.result = "OK" THEN Same(r.s) ELSE {r}
      BY <2>1 DEF Then
    <3>2. r \in Outcomes(now)
      BY <1>1, RefreshFine
    <3>3. r.s \in Fine(now)
      BY <1>0, <3>2, OutcomesHave
    <3>4. Same(r.s) \subseteq Ok(r.s) \cup Fails(r.s)
      BY DEF MayFail
    <3>5. Ok(r.s) \subseteq Outcomes(now) /\ Fails(r.s) \subseteq Outcomes(now)
      BY <1>0, <3>3, EitherFine
    <3> HIDE DEF Same, now
    <3> QED BY <2>1, <3>1, <3>2, <3>4, <3>5
  <2>2. CASE agent /\ ~changed /\ q \in Fails(t)
    BY <1>1, <2>2, EitherFine
  <2>3. CASE ~agent /\ q \in MayFail(t)
    BY <1>1, <2>3, EitherFine, OkIs, FailsIs DEF MayFail
  <2> QED BY <1>2, <2>1, <2>2, <2>3
<1>3. ASSUME NEW u \in Fine(now), agent \/ (u.available /\ ~u.active)
      PROVE  Scoped(u) \subseteq Outcomes(now)
  <2> DEFINE i == invalidate_semantic(u)
  <2>1. i \in Fine(now) /\ (agent \/ (i.available /\ ~i.active))
    BY <1>0, <1>3, InvalidateFine
  <2> HIDE DEF i
  <2>2. Restarted(i) \subseteq Outcomes(now)
    <3>1. ~agent => restart_action(stop_overlay(i)) \subseteq Outcomes(now)
      <4>1. stop_overlay(i) \in Pipeline /\ (~agent => stop_overlay(i).available /\ ~stop_overlay(i).active)
        BY ZenonT(60), <2>1 DEF stop_overlay, Fine, Pipeline
      <4> QED BY <4>1, RestartFine
    <3>2. Ok(i) \subseteq Outcomes(now)
      BY <1>0, <2>1, EitherFine
    <3> QED BY <3>1, <3>2
  <2>3. ASSUME NEW o \in Scoped(u) PROVE o \in Outcomes(now)
    <3>1. PICK q \in apply_scope(i) : o \in IF q.result = "OK" THEN Restarted(q.s) ELSE {q}
      BY <2>3 DEF Then, i
    <3> HIDE DEF Restarted, now
    <3>2. CASE q \in Fails(i)
      BY <1>0, <2>1, <3>1, <3>2, FailsIs, EitherFine
    <3>3. CASE q \in Ok(i)
      BY <2>2, <3>1, <3>3, OkIs
    <3> QED BY <3>1, <3>2, <3>3, ScopeIs
  <2> QED BY <2>3
<1>4. navigate_window(s, agent, changed) = Then(found, Scoped)
  BY DEF navigate_window
<1> HIDE DEF Scoped, found, t, now
<1>5. ASSUME NEW o \in Then(found, Scoped) PROVE o \in Outcomes(now)
  <2>1. PICK q \in found : o \in IF q.result = "OK" THEN Scoped(q.s) ELSE {q}
    BY <1>5 DEF Then
  <2>2. q \in Outcomes(now) /\ q.s \in Fine(now) /\ (~agent => q.s = t)
    BY <1>0, <1>2, OutcomesHave
  <2>3. Scoped(q.s) \subseteq Outcomes(now)
    BY <1>1, <1>3, <2>2
  <2> QED BY <2>1, <2>2, <2>3
<1> QED BY <1>4, <1>5 DEF now

-------------------------------------------------------------------------------
(* The commands.                                                                *)
LEMMA OtherFine ==
    ASSUME NEW s \in Fine(TRUE)
    PROVE  Other(s) \subseteq Outcomes(TRUE)
<1>1. SessionEnd(s) \in Fine(TRUE)
  BY SessionEndFine
<1>2. [SessionEnd(s) EXCEPT !.synthetic = TRUE] \in Fine(TRUE)
  BY <1>1 DEF Fine, Pipeline
<1>3. /\ Ok(s) \subseteq Outcomes(TRUE) /\ Fails(s) \subseteq Outcomes(TRUE)
      /\ Ok(SessionEnd(s)) \subseteq Outcomes(TRUE)
      /\ Ok([SessionEnd(s) EXCEPT !.synthetic = TRUE]) \subseteq Outcomes(TRUE)
  BY <1>1, <1>2, EitherFine
<1> QED BY <1>3 DEF Other, MayFail

LEMMA ModeFine ==
    ASSUME NEW s \in Fine(TRUE), s.available
    PROVE  ModeCommand(s) \subseteq Outcomes(TRUE)
<1> DEFINE e == SessionEnd(s)
           t == stop_overlay(e)
<1>1. e \in Pipeline /\ e.available /\ ~e.active
  BY SessionEndIs DEF Fine
<1> HIDE DEF e
<1>2. t \in Pipeline /\ t.available /\ ~t.active
  BY <1>1 DEF stop_overlay, Pipeline
<1> HIDE DEF t
<1>3. restart_action(t) \subseteq Outcomes(TRUE)
  BY <1>2, RestartFine
<1>4. Ok(s) \subseteq Outcomes(TRUE)
  BY EitherFine
<1> QED BY <1>3, <1>4 DEF ModeCommand, t, e

(* A scope that is not there refuses the command and leaves all as it is.      *)
LEMMA FreePointerFine ==
    ASSUME NEW s \in Fine(TRUE), s.available
    PROVE  FreePointerCommand(s) \subseteq Outcomes(TRUE)
<1> DEFINE v == SceneSource(s, "grid")
           w == [v EXCEPT !.source = "grid"]
           After(t) == begin_grid_action(IF t.source = "grid" THEN t
                                         ELSE [SceneSource(t, "grid") EXCEPT !.source = "grid"])
<1>1. Fails(s) \subseteq Outcomes(TRUE)
  BY EitherFine
<1>2. CASE s.pending \/ s.active
  BY <1>1, <1>2 DEF FreePointerCommand
<1>3. CASE ~s.pending /\ ~s.active
  <2>1. v \in Pipeline /\ v.available /\ ~v.pending /\ ~v.active
    BY <1>3, SceneSourceIs DEF Fine
  <2> HIDE DEF v
  <2>2. w \in Fine(TRUE) /\ w.available /\ ~w.pending
    BY <2>1 DEF Fine, Pipeline
  <2> HIDE DEF w
  <2>3. begin_grid_action(s) \subseteq Outcomes(TRUE) /\ begin_grid_action(w) \subseteq Outcomes(TRUE)
    BY <1>3, <2>2, GridFine
  <2>4. After(s) \subseteq Outcomes(TRUE)
    BY <2>3 DEF w, v
  <2>5. ASSUME NEW o \in FreePointerCommand(s) PROVE o \in Outcomes(TRUE)
    <3>1. PICK q \in apply_scope(s) : o \in IF q.result = "OK" THEN After(q.s) ELSE {q}
      BY <1>3, <2>5 DEF FreePointerCommand, Then
    <3> HIDE DEF After
    <3>2. CASE q \in Fails(s)
      BY <1>1, <3>1, <3>2, FailsIs
    <3>3. CASE q \in Ok(s)
      BY <2>4, <3>1, <3>3, OkIs
    <3> QED BY <3>1, <3>2, <3>3, ScopeIs
  <2> QED BY <2>5
<1> QED BY <1>2, <1>3

LEMMA WindowActivateFine ==
    ASSUME NEW s \in Fine(TRUE), s.available
    PROVE  WindowActivate(s) \subseteq Outcomes(TRUE)
BY WindowFine, EitherFine DEF WindowActivate

(* What is pending has capture started for it.                                 *)
LEMMA TargetFine ==
    ASSUME NEW s \in Fine(TRUE), s.available
    PROVE  TargetScene(s) \subseteq Outcomes(TRUE)
<1> DEFINE v == SceneSource(s, s.source)
           w == [start_capture(v) EXCEPT !.pending = TRUE, !.late = FALSE]
           After(t) == IF t.source = "grid" THEN begin_grid_action(t)
                       ELSE Ok([start_capture(t) EXCEPT !.pending = TRUE, !.late = FALSE])
<1>1. Fails(s) \subseteq Outcomes(TRUE)
  BY EitherFine
<1>2. CASE s.pending \/ s.active
  BY <1>1, <1>2 DEF TargetScene
<1>3. CASE ~s.pending /\ ~s.active
  <2>0. s.source \in Sources /\ s \in Pipeline
    BY DEF Fine, Pipeline
  <2>1. /\ v \in Pipeline /\ v.available /\ ~v.pending /\ ~v.active
        /\ v.scene = s.source /\ v.source = s.source
    BY <1>3, <2>0, SceneSourceIs
  <2> HIDE DEF v
  <2>2. v \in Fine(TRUE) /\ (v.source # "grid" => w \in Fine(TRUE))
    <3>1. v \in Fine(TRUE)
      BY <2>1 DEF Fine, Pipeline
    <3> DEFINE x == start_capture(v)
    <3>2. /\ x \in Pipeline /\ x.available /\ ~x.active /\ x.capture
          /\ x.scene = s.source /\ x.source = s.source
      BY <2>1 DEF start_capture, Pipeline
    <3> HIDE DEF x
    <3>3. v.source # "grid" => [x EXCEPT !.pending = TRUE, !.late = FALSE] \in Fine(TRUE)
      BY ZenonT(60), <2>1, <3>2 DEF Fine, Pipeline
    <3> QED BY <3>1, <3>3 DEF x
  <2> HIDE DEF w
  <2>3. begin_grid_action(v) \subseteq Outcomes(TRUE)
    BY <2>1, <2>2, GridFine
  <2>4. v.source # "grid" => Ok(w) \subseteq Outcomes(TRUE)
    BY <2>2, EitherFine
  <2>5. After(v) \subseteq Outcomes(TRUE)
    BY <2>3, <2>4 DEF w
  <2>6. ASSUME NEW o \in TargetScene(s) PROVE o \in Outcomes(TRUE)
    <3>1. PICK q \in apply_scope(v) : o \in IF q.result = "OK" THEN After(q.s) ELSE {q}
      BY <1>3, <2>6 DEF TargetScene, Then, v
    <3> HIDE DEF After
    <3>2. CASE q \in Fails(v)
      BY <2>2, <3>1, <3>2, FailsIs, EitherFine
    <3>3. CASE q \in Ok(v)
      BY <2>5, <3>1, <3>3, OkIs
    <3> QED BY <3>1, <3>2, <3>3, ScopeIs
  <2> QED BY <2>6
<1> QED BY <1>2, <1>3

LEMMA CommandsFine ==
    ASSUME NEW s \in Fine(TRUE), s.available
    PROVE  Commands(s) \subseteq Outcomes(TRUE)
<1>1. navigate_window(s, FALSE, FALSE) \subseteq Outcomes(TRUE)
  BY NavigateFine
<1>2. UNION {change_source(s, source) : source \in Sources} \subseteq Outcomes(TRUE)
  BY ChangeSourceFine
<1>3. UNION {change_scope(s, scope) : scope \in Scopes} \subseteq Outcomes(TRUE)
  BY ChangeScopeFine
<1>4. /\ ModeCommand(s) \subseteq Outcomes(TRUE) /\ FreePointerCommand(s) \subseteq Outcomes(TRUE)
      /\ WindowActivate(s) \subseteq Outcomes(TRUE) /\ TargetScene(s) \subseteq Outcomes(TRUE)
      /\ Other(s) \subseteq Outcomes(TRUE)
  BY ModeFine, FreePointerFine, WindowActivateFine, TargetFine, OtherFine
<1> QED BY <1>1, <1>2, <1>3, <1>4 DEF Commands

LEMMA LockedFine ==
    ASSUME NEW may \in BOOLEAN, NEW s \in Fine(may)
    PROVE  Then(set_input_available(s, FALSE), Fails) \subseteq Outcomes(may)
<1>1. ASSUME NEW o \in Then(set_input_available(s, FALSE), Fails) PROVE o \in Outcomes(may)
  <2>1. PICK q \in set_input_available(s, FALSE) : o \in IF q.result = "OK" THEN Fails(q.s) ELSE {q}
    BY <1>1 DEF Then
  <2>2. set_input_available(s, FALSE) \subseteq Outcomes(may /\ FALSE)
    BY AvailableFine
  <2>3. q \in Outcomes(FALSE) /\ q.s \in Fine(FALSE) /\ q.result \in {"OK", "ERROR"}
    BY <2>2, OutcomesHave
  <2>4. q.s \in Fine(may)
    BY <2>3, AskedForMore
  <2>5. q \in Outcomes(may)
    BY <2>3, AskedForMore DEF Outcomes
  <2> QED BY <2>1, <2>4, <2>5, EitherFine
<1> QED BY <1>1

LEMMA RequestFine ==
    ASSUME NEW s \in Fine(TRUE), qualified \in BOOLEAN
    PROVE  request(s) \subseteq Outcomes(TRUE)
<1> DEFINE After(t) == IF ~t.available THEN Fails(t)
                       ELSE IF ~qualified THEN Then(set_input_available(t, FALSE), Fails)
                       ELSE Commands(t)
           ready == IF s.topology THEN synchronize_topology(s) ELSE Ok(s)
<1>1. ready \subseteq Outcomes(TRUE)
  BY SynchronizeFine, EitherFine
<1>3. ASSUME NEW t \in Fine(TRUE) PROVE After(t) \subseteq Outcomes(TRUE)
  BY LockedFine, EitherFine, CommandsFine
<1>4. request(s) = Then(ready, After)
  BY DEF request, Admitted
<1> HIDE DEF ready, After
<1>5. ASSUME NEW o \in Then(ready, After) PROVE o \in Outcomes(TRUE)
  <2>1. PICK q \in ready : o \in IF q.result = "OK" THEN After(q.s) ELSE {q}
    BY <1>5 DEF Then
  <2>2. q \in Outcomes(TRUE) /\ q.s \in Fine(TRUE)
    BY <1>1, OutcomesHave
  <2> QED BY <1>3, <2>1, <2>2
<1> QED BY <1>4, <1>5

-------------------------------------------------------------------------------
(* A session that is over leaves its overlay and its windows.                   *)
LEMMA LeftFine ==
    ASSUME NEW may \in BOOLEAN, NEW s \in Fine(may), ~s.active
    PROVE  /\ leave_window_scene(stop_overlay(s)) \in Fine(may)
           /\ stop_overlay(leave_window_scene(s)) \in Fine(may)
<1>1. ASSUME NEW t \in Fine(may), ~t.active
      PROVE  leave_window_scene(t) \in Fine(may) /\ ~leave_window_scene(t).active
  <2> DEFINE l == leave_window_scene(t)
  <2>1. /\ l \in Pipeline /\ l.scene \in {t.scene, t.source}
        /\ l.available = t.available /\ l.pending = t.pending /\ l.active = t.active
        /\ l.capture = t.capture /\ l.overlay = t.overlay /\ l.source = t.source
    BY LeaveFine DEF Fine
  <2> HIDE DEF l
  <2>2. l \in Fine(may) /\ ~l.active
    BY <1>1, <2>1 DEF Fine, Pipeline
  <2> QED BY <2>2 DEF l
<1> QED BY <1>1, StopOverlayFine

LEMMA RouteFine ==
    ASSUME NEW s \in Fine(TRUE), qualified \in BOOLEAN
    PROVE  route_key(s) \subseteq Outcomes(TRUE)
<1>1. ASSUME NEW o \in route_key(s) PROVE o \in Outcomes(TRUE)
  <2>1. PICK q \in request(s) \cup Other(s) :
               o \in LET t == [q.s EXCEPT !.dirty = @ \/ q.s.active]
                     IN  IF t.active THEN Ok(t)
                         ELSE stop_capture(leave_window_scene(stop_overlay(t)))
    BY <1>1 DEF route_key
  <2> DEFINE t == [q.s EXCEPT !.dirty = @ \/ q.s.active]
  <2>2. q \in Outcomes(TRUE)
    BY RequestFine, OtherFine
  <2>3. q.s \in Fine(TRUE)
    BY <2>2, OutcomesHave
  <2>4. t \in Fine(TRUE)
    BY <2>3 DEF Fine, Pipeline
  <2>5. o \in IF t.active THEN Ok(t) ELSE stop_capture(leave_window_scene(stop_overlay(t)))
    BY <2>1
  <2> HIDE DEF t
  <2>6. ~t.active => stop_capture(leave_window_scene(stop_overlay(t))) \subseteq Outcomes(TRUE)
    BY <2>4, LeftFine, StopCaptureFine
  <2> QED BY <2>4, <2>5, <2>6, EitherFine
<1> QED BY <1>1

(* Settings apply to a pipeline that is at rest.                                *)
LEMMA SettingsFine ==
    ASSUME NEW may \in BOOLEAN, NEW s \in Fine(may), NEW source \in Sources, NEW scope \in Scopes
    PROVE  \A o \in apply_settings(s, source, scope) : o.s \in Fine(may)
<1> DEFINE v == SceneSource(s, source)
           t == [v EXCEPT !.source = source, !.scope = scope]
           x == [t EXCEPT !.source = s.source, !.scope = s.scope]
           kept == source = "semantic" /\ scope = s.scope
<1>1. CASE s.pending \/ s.active \/ s.synthetic
  <2>1. apply_settings(s, source, scope) = Fails(s)
    BY <1>1 DEF apply_settings
  <2> QED BY <2>1, FailsIs
<1>2. CASE ~(s.pending \/ s.active \/ s.synthetic)
  <2>1. /\ v \in Pipeline /\ ~v.pending /\ ~v.active
        /\ v.available = s.available /\ v.overlay = s.overlay
    BY <1>2, SceneSourceIs DEF Fine
  <2> HIDE DEF v
  <2>2. /\ t \in Pipeline /\ ~t.pending /\ ~t.active
        /\ t.available = s.available /\ t.overlay = s.overlay
    BY <2>1 DEF Pipeline
  <2> HIDE DEF t
  <2>3. ASSUME NEW w \in {"none", "current", "other"}
        PROVE  [t EXCEPT !.dirty = TRUE, !.window = w] \in Fine(may)
    <3> DEFINE u == [t EXCEPT !.dirty = TRUE, !.window = w]
    <3>1. u \in Pipeline /\ u.pending = t.pending /\ u.active = t.active
          /\ u.available = t.available /\ u.overlay = t.overlay
      BY ZenonT(60), <2>2, <2>3 DEF Pipeline
    <3> HIDE DEF u
    <3>2. u \in Fine(may)
      BY <2>2, <3>1 DEF Fine
    <3> QED BY <3>2 DEF u
  <2>4. s.source \in Sources /\ s.scope \in Scopes
    BY DEF Fine, Pipeline
  <2>5. /\ x \in Pipeline /\ ~x.pending /\ ~x.active
        /\ x.available = s.available /\ x.overlay = s.overlay
    BY <2>2, <2>4 DEF Pipeline
  <2> HIDE DEF x
  <2>6. SceneSource(x, s.source) \in Fine(may)
    <3> DEFINE y == SceneSource(x, s.source)
    <3>1. /\ y \in Pipeline /\ ~y.pending /\ ~y.active
          /\ y.available = s.available /\ y.overlay = s.overlay
      BY <2>4, <2>5, SceneSourceIs
    <3> HIDE DEF y
    <3>2. y \in Fine(may)
      BY <3>1 DEF Fine
    <3> QED BY <3>2 DEF y
  <2>7. ASSUME NEW o \in apply_settings(s, source, scope) PROVE o.s \in Fine(may)
    <3>1. PICK q \in apply_scope(t) :
                 o = IF q.result = "OK"
                     THEN [q EXCEPT !.s.dirty = TRUE, !.s.window = IF kept THEN @ ELSE "none"]
                     ELSE [q EXCEPT !.s = Rolled(s, q.s)]
      BY <1>2, <2>7 DEF apply_settings, t, v
    <3>2. Rolled(s, t) = SceneSource(x, s.source)
      BY DEF Rolled, x
    <3>3. CASE q \in Ok(t)
      <4>1. q = [s |-> t, result |-> "OK"]
        BY <3>3 DEF Ok
      <4>2. o.s = [t EXCEPT !.dirty = TRUE, !.window = IF kept THEN @ ELSE "none"]
        BY <3>1, <4>1, <2>2 DEF Pipeline
      <4>3. t.window \in {"none", "current", "other"}
        BY <2>2 DEF Pipeline
      <4> QED BY <2>3, <4>2, <4>3
    <3>4. CASE q \in Fails(t)
      <4>1. q = [s |-> t, result |-> "ERROR"]
        BY <3>4 DEF Fails
      <4>2. o.s = Rolled(s, t)
        BY <3>1, <4>1
      <4> QED BY <2>6, <3>2, <4>2
    <3> QED BY <3>1, <3>3, <3>4, ScopeIs
  <2> QED BY <2>7
<1> QED BY <1>1, <1>2

-------------------------------------------------------------------------------
(* The parts of advance.                                                        *)
LEMMA SurfaceFine ==
    ASSUME NEW may \in BOOLEAN, NEW s \in Fine(may)
    PROVE  Surface(s) \subseteq Outcomes(may)
<1>1. set_input_available(s, TRUE) \subseteq Outcomes(may)
  <2>1. set_input_available(s, TRUE) \subseteq Outcomes(may /\ TRUE)
    BY AvailableFine
  <2> QED BY <2>1
<1> QED BY <1>1, LockedFine, EitherFine DEF Surface

LEMMA TopologyFine ==
    ASSUME NEW may \in BOOLEAN, NEW s \in Fine(may)
    PROVE  Topology(s) \subseteq Outcomes(may)
<1>1. Ok(s) \subseteq Outcomes(may)
  BY EitherFine
<1>2. Finally(Ok(s), synchronize_topology) \subseteq Outcomes(may)
  BY <1>1, AlsoSynchronizes
<1> QED BY <1>1, <1>2 DEF Topology

LEMMA ForegroundFine ==
    ASSUME NEW may \in BOOLEAN, NEW s \in Fine(may)
    PROVE  Foreground(s) \subseteq Outcomes(may)
<1>1. (IF s.window = "other" THEN invalidate_semantic(s) ELSE s) \in Fine(may)
  BY InvalidateFine
<1> QED BY <1>1, EitherFine DEF Foreground

LEMMA TimedFine ==
    ASSUME NEW may \in BOOLEAN, NEW s \in Fine(may)
    PROVE  Timed(s) \subseteq Outcomes(may)
BY ReleaseFine, EitherFine DEF Timed

LEMMA DeadlineFine ==
    ASSUME NEW may \in BOOLEAN, NEW s \in Fine(may)
    PROVE  Deadline(s) \subseteq Outcomes(may)
<1> DEFINE t == [s EXCEPT !.pending = FALSE, !.late = FALSE]
<1>1. t \in Fine(may)
  BY DEF Fine, Pipeline
<1>2. Ok(s) \subseteq Outcomes(may) /\ Fails(t) \subseteq Outcomes(may)
  BY <1>1, EitherFine
<1>3. Finally(Fails(t), stop_capture) \subseteq Outcomes(may)
  BY <1>2, AlsoStops
<1> QED BY <1>2, <1>3 DEF Deadline

LEMMA OfferFine ==
    ASSUME NEW may \in BOOLEAN, NEW s \in Fine(may)
    PROVE  offer_frames(s) \subseteq Outcomes(may)
<1>1. [s EXCEPT !.frames = IF @ = "none" THEN "waiting" ELSE @] \in Fine(may)
  BY DEF Fine, Pipeline
<1>2. /\ Ok(s) \subseteq Outcomes(may) /\ Fails(s) \subseteq Outcomes(may)
      /\ Ok([s EXCEPT !.frames = IF @ = "none" THEN "waiting" ELSE @]) \subseteq Outcomes(may)
  BY <1>1, EitherFine
<1> QED BY <1>2 DEF offer_frames

(* What the runtime brings of its advance.                                      *)
Brought(may) ==
    [s : Fine(may), neural : BOOLEAN, collected : BOOLEAN, published : BOOLEAN]

LEMMA BatchFine ==
    ASSUME NEW may \in BOOLEAN, NEW s \in Fine(may), NEW b \in Batch(s)
    PROVE  b.s \in Fine(may) /\ b.neural \in BOOLEAN
<1>1. [s EXCEPT !.frames = "running"] \in Fine(may)
  BY DEF Fine, Pipeline
<1>2. [s EXCEPT !.frames = "none", !.held = @ \cup {"pixel"}] \in Fine(may)
  <2>1. s.held \cup {"pixel"} \in SUBSET {"pixel", "semantic"}
    BY DEF Fine, Pipeline
  <2> QED BY <2>1 DEF Fine, Pipeline
<1> DEFINE x == [s EXCEPT !.frames = "running"]
           y == [s EXCEPT !.frames = "none", !.held = @ \cup {"pixel"}]
<1>3. \/ b = [s |-> s, neural |-> FALSE]
      \/ b = [s |-> x, neural |-> FALSE]
      \/ b = [s |-> y, neural |-> TRUE]
  BY DEF Batch
<1>4. x \in Fine(may) /\ y \in Fine(may)
  BY <1>1, <1>2
<1> HIDE DEF x, y
<1>5. CASE b = [s |-> s, neural |-> FALSE]
  BY <1>5
<1>6. CASE b = [s |-> x, neural |-> FALSE]
  BY <1>4, <1>6
<1>7. CASE b = [s |-> y, neural |-> TRUE]
  BY <1>4, <1>7
<1> QED BY <1>3, <1>5, <1>6, <1>7

LEMMA PollFine ==
    ASSUME NEW may \in BOOLEAN, NEW s \in Fine(may), NEW c \in Poll(s)
    PROVE  c.s \in Fine(may) /\ c.collected \in BOOLEAN
<1> DEFINE y == [s EXCEPT !.query = FALSE, !.held = @ \cup {"semantic"}]
           x == cleared(s)
<1>1. x \in Fine(may)
  <2>1. s.held \ {"semantic"} \in SUBSET {"pixel", "semantic"}
    BY DEF Fine, Pipeline
  <2> QED BY <2>1 DEF Fine, Pipeline, cleared
<1>2. y \in Fine(may)
  <2>1. s.held \cup {"semantic"} \in SUBSET {"pixel", "semantic"}
    BY DEF Fine, Pipeline
  <2> QED BY <2>1 DEF Fine, Pipeline
<1>3. \/ c = [s |-> s, collected |-> FALSE]
      \/ c = [s |-> x, collected |-> FALSE]
      \/ c = [s |-> y, collected |-> TRUE]
  BY DEF Poll
<1> HIDE DEF x, y
<1>4. CASE c = [s |-> s, collected |-> FALSE]
  BY <1>4
<1>5. CASE c = [s |-> x, collected |-> FALSE]
  BY <1>1, <1>5
<1>6. CASE c = [s |-> y, collected |-> TRUE]
  BY <1>2, <1>6
<1> QED BY <1>3, <1>4, <1>5, <1>6

LEMMA RuntimeFine ==
    ASSUME NEW may \in BOOLEAN, NEW s \in Fine(may)
    PROVE  Runtime(s) \subseteq Brought(may)
<1>1. ASSUME NEW r \in Runtime(s) PROVE r \in Brought(may)
  <2> DEFINE Brings(b, c, published) ==
                 r \in [s : SessionTick([c.s EXCEPT !.redo = @ /\ ~published]), neural : {b.neural},
                        collected : {c.collected}, published : {published}]
  <2>0. PICK b \in Batch(s) :
            \E c \in Poll(b.s) : \E published \in Published(c.s, b.neural, c.collected) :
                Brings(b, c, published)
    BY <1>1 DEF Runtime
  <2>1. PICK c \in Poll(b.s) : \E published \in Published(c.s, b.neural, c.collected) :
                Brings(b, c, published)
    BY <2>0
  <2>1a. PICK published \in Published(c.s, b.neural, c.collected) : Brings(b, c, published)
    BY <2>1
  <2>2. b.s \in Fine(may) /\ b.neural \in BOOLEAN
    BY BatchFine
  <2>3. c.s \in Fine(may) /\ c.collected \in BOOLEAN
    BY <2>2, PollFine
  <2>4. published \in BOOLEAN
    BY <2>2, <2>3 DEF Published, Fine, Pipeline
  <2> DEFINE t == [c.s EXCEPT !.redo = @ /\ ~published]
  <2>5. t \in Fine(may)
    BY <2>3, <2>4 DEF Fine, Pipeline
  <2> HIDE DEF t
  <2>6. SessionTick(t) \subseteq Fine(may)
    BY <2>5, SessionEndFine DEF SessionTick
  <2> QED BY <2>1a, <2>2, <2>3, <2>4, <2>6 DEF Brought, t
<1> QED BY <1>1

LEMMA AsksFine ==
    ASSUME NEW may \in BOOLEAN, NEW r \in Brought(may)
    PROVE  /\ Ok(Marked(r)) \subseteq Outcomes(may)
           /\ request_semantic(Marked(r)) \subseteq Outcomes(may)
<1> DEFINE m == Marked(r)
<1>1. r.s \in Fine(may) /\ r.neural \in BOOLEAN /\ r.published \in BOOLEAN
  BY DEF Brought
<1>2. m \in Fine(may)
  BY <1>1 DEF Marked, Fine, Pipeline
<1> HIDE DEF m
<1>3. [m EXCEPT !.query = TRUE, !.window = "current"] \in Fine(may)
  BY ZenonT(60), <1>2 DEF Fine, Pipeline
<1>4. /\ Ok(m) \subseteq Outcomes(may) /\ Fails(m) \subseteq Outcomes(may)
      /\ Ok([m EXCEPT !.query = TRUE, !.window = "current"]) \subseteq Outcomes(may)
  BY <1>2, <1>3, EitherFine
<1> QED BY <1>4 DEF request_semantic, m

(* What was pending begins, and its labels are asked for.                       *)
LEMMA BeginPendingFine ==
    ASSUME NEW may \in BOOLEAN, NEW s \in Fine(may), s.pending
    PROVE  BeginPending(s) \subseteq Outcomes(may)
<1> DEFINE u == [s EXCEPT !.active = TRUE, !.drawn = FALSE]
           Started(t) == start_overlay([t EXCEPT !.pending = FALSE, !.late = FALSE, !.dirty = TRUE])
           w == [u EXCEPT !.pending = FALSE, !.late = FALSE, !.dirty = TRUE]
<1>1. may /\ s.available /\ s \in Pipeline
  BY DEF Fine
<1>2. u \in Pipeline /\ u.available
  BY <1>1 DEF Pipeline
<1>3. Begin(s) \subseteq Fails(s) \cup Ok(u)
  BY BeginIs
<1> HIDE DEF u
<1>4. w \in Fine(may) /\ w.available /\ w.dirty
  <2>1. w \in Pipeline /\ w.available /\ w.dirty /\ ~w.pending
    BY <1>2 DEF Pipeline
  <2> HIDE DEF w
  <2> QED BY <1>1, <2>1 DEF Fine
<1>5. Started(u) \subseteq Outcomes(may)
  BY <1>4, StartOverlayFine
<1>6. ASSUME NEW o \in BeginPending(s) PROVE o \in Outcomes(may)
  <2>1. PICK q \in Begin(s) : o \in IF q.result = "OK" THEN Started(q.s) ELSE {q}
    BY <1>6 DEF BeginPending, Then
  <2> HIDE DEF Started
  <2>2. CASE q \in Fails(s)
    BY <2>1, <2>2, FailsIs, EitherFine
  <2>3. CASE q \in Ok(u)
    BY <1>5, <2>1, <2>3, OkIs
  <2> QED BY <1>3, <2>1, <2>2, <2>3
<1> QED BY <1>6

LEMMA ShowFine ==
    ASSUME NEW may \in BOOLEAN, NEW s \in Fine(may)
    PROVE  Show(s) \subseteq Outcomes(may)
BY PublishFine, EitherFine DEF Show

LEMMA QuietFine ==
    ASSUME NEW may \in BOOLEAN, NEW s \in Fine(may)
    PROVE  Quiet(s) \subseteq Outcomes(may)
BY LeftFine, EitherFine DEF Quiet

(* One part after another: the next runs on what the last has left.             *)
LEMMA PartsFine ==
    ASSUME NEW may \in BOOLEAN, NEW results \in SUBSET Outcomes(may)
    PROVE  /\ Then(results, Topology) \subseteq Outcomes(may)
           /\ Then(results, Foreground) \subseteq Outcomes(may)
           /\ Then(results, Deadline) \subseteq Outcomes(may)
           /\ Then(results, offer_frames) \subseteq Outcomes(may)
           /\ Then(results, Show) \subseteq Outcomes(may)
           /\ Then(results, Quiet) \subseteq Outcomes(may)
           /\ Then(results, stop_capture) \subseteq Outcomes(may)
<1>0. \A q \in results : q.s \in Fine(may) /\ q \in Outcomes(may)
  BY OutcomesHave
<1>1. ASSUME NEW o \in Then(results, Topology) PROVE o \in Outcomes(may)
  <2>1. PICK q \in results : o \in IF q.result = "OK" THEN Topology(q.s) ELSE {q}
    BY <1>1 DEF Then
  <2> QED BY <1>0, <2>1, TopologyFine
<1>2. ASSUME NEW o \in Then(results, Foreground) PROVE o \in Outcomes(may)
  <2>1. PICK q \in results : o \in IF q.result = "OK" THEN Foreground(q.s) ELSE {q}
    BY <1>2 DEF Then
  <2> QED BY <1>0, <2>1, ForegroundFine
<1>3. ASSUME NEW o \in Then(results, Deadline) PROVE o \in Outcomes(may)
  <2>1. PICK q \in results : o \in IF q.result = "OK" THEN Deadline(q.s) ELSE {q}
    BY <1>3 DEF Then
  <2> QED BY <1>0, <2>1, DeadlineFine
<1>4. ASSUME NEW o \in Then(results, offer_frames) PROVE o \in Outcomes(may)
  <2>1. PICK q \in results : o \in IF q.result = "OK" THEN offer_frames(q.s) ELSE {q}
    BY <1>4 DEF Then
  <2> QED BY <1>0, <2>1, OfferFine
<1>5. ASSUME NEW o \in Then(results, Show) PROVE o \in Outcomes(may)
  <2>1. PICK q \in results : o \in IF q.result = "OK" THEN Show(q.s) ELSE {q}
    BY <1>5 DEF Then
  <2> QED BY <1>0, <2>1, ShowFine
<1>6. ASSUME NEW o \in Then(results, Quiet) PROVE o \in Outcomes(may)
  <2>1. PICK q \in results : o \in IF q.result = "OK" THEN Quiet(q.s) ELSE {q}
    BY <1>6 DEF Then
  <2> QED BY <1>0, <2>1, QuietFine
<1>7. ASSUME NEW o \in Then(results, stop_capture) PROVE o \in Outcomes(may)
  <2>1. PICK q \in results : o \in IF q.result = "OK" THEN stop_capture(q.s) ELSE {q}
    BY <1>7 DEF Then
  <2> QED BY <1>0, <2>1, StopCaptureFine
<1> QED BY <1>1, <1>2, <1>3, <1>4, <1>5, <1>6, <1>7

LEMMA InteractFine ==
    ASSUME NEW may \in BOOLEAN, NEW s \in Fine(may), NEW r \in Brought(may)
    PROVE  Interact(s, r) \subseteq Outcomes(may)
<1> DEFINE semantic == s.source = "semantic"
           asks == IF semantic /\ r.neural THEN request_semantic(Marked(r)) ELSE Ok(Marked(r))
           Begun(t) == IF t.pending /\ r.published /\ (~semantic \/ r.collected)
                        THEN BeginPending(t) ELSE Ok(t)
           first == Then(asks, Begun)
           visible == Then(first, Show)
           still == Then(visible, Quiet)
<1>1. asks \subseteq Outcomes(may)
  BY AsksFine
<1>2. ASSUME NEW t \in Fine(may) PROVE Begun(t) \subseteq Outcomes(may)
  BY BeginPendingFine, EitherFine
<1>3. Interact(s, r) = Then(still, stop_capture)
  BY DEF Interact
<1> HIDE DEF asks, Begun
<1>4. ASSUME NEW o \in first PROVE o \in Outcomes(may)
  <2>1. PICK q \in asks : o \in IF q.result = "OK" THEN Begun(q.s) ELSE {q}
    BY <1>4 DEF Then
  <2>2. q \in Outcomes(may) /\ q.s \in Fine(may)
    BY <1>1, OutcomesHave
  <2> QED BY <1>2, <2>1, <2>2
<1> HIDE DEF first
<1>5. first \in SUBSET Outcomes(may)
  BY <1>4
<1>6. visible \in SUBSET Outcomes(may)
  BY <1>5, PartsFine
<1> HIDE DEF visible
<1>7. still \in SUBSET Outcomes(may)
  BY <1>6, PartsFine
<1> HIDE DEF still
<1> QED BY <1>3, <1>7, PartsFine

LEMMA AdvanceFine ==
    ASSUME NEW may \in BOOLEAN, NEW s \in Fine(may)
    PROVE  advance(s) \subseteq Outcomes(may)
<1> DEFINE surface == Surface(s)
           placed == Then(surface, Topology)
           facing == Then(placed, Foreground)
           TimedOut(t) == IF t.synthetic THEN Timed(t) ELSE Ok(t)
           timely == Then(facing, TimedOut)
           ready == Then(timely, Deadline)
           offered == Then(ready, offer_frames)
           Interacts(t) == UNION {Interact(t, r) : r \in Runtime(t)}
<1>1. surface \in SUBSET Outcomes(may)
  BY SurfaceFine
<1>2. advance(s) = Then(offered, Interacts)
  BY DEF advance
<1> HIDE DEF surface
<1>3. placed \in SUBSET Outcomes(may)
  BY <1>1, PartsFine
<1> HIDE DEF placed
<1>4. facing \in SUBSET Outcomes(may)
  BY <1>3, PartsFine
<1>5. ASSUME NEW t \in Fine(may) PROVE TimedOut(t) \subseteq Outcomes(may)
  BY TimedFine, EitherFine
<1> HIDE DEF facing, TimedOut
<1>6. ASSUME NEW o \in timely PROVE o \in Outcomes(may)
  <2>1. PICK q \in facing : o \in IF q.result = "OK" THEN TimedOut(q.s) ELSE {q}
    BY <1>6 DEF Then
  <2>2. q \in Outcomes(may) /\ q.s \in Fine(may)
    BY <1>4, OutcomesHave
  <2> QED BY <1>5, <2>1, <2>2
<1> HIDE DEF timely
<1>7. timely \in SUBSET Outcomes(may)
  BY <1>6
<1>8. ready \in SUBSET Outcomes(may)
  BY <1>7, PartsFine
<1> HIDE DEF ready
<1>9. offered \in SUBSET Outcomes(may)
  BY <1>8, PartsFine
<1>10. ASSUME NEW t \in Fine(may) PROVE Interacts(t) \subseteq Outcomes(may)
  <2>1. \A r \in Runtime(t) : Interact(t, r) \subseteq Outcomes(may)
    BY <1>10, RuntimeFine, InteractFine
  <2> QED BY <2>1
<1> HIDE DEF offered, Interacts
<1>11. ASSUME NEW o \in Then(offered, Interacts) PROVE o \in Outcomes(may)
  <2>1. PICK q \in offered : o \in IF q.result = "OK" THEN Interacts(q.s) ELSE {q}
    BY <1>11 DEF Then
  <2>2. q \in Outcomes(may) /\ q.s \in Fine(may)
    BY <1>9, OutcomesHave
  <2> QED BY <1>10, <2>1, <2>2
<1> QED BY <1>2, <1>11

-------------------------------------------------------------------------------
LEMMA PipelineInitFine == PipelineStarts => ActivationHolds
<1>1. PipelineInit \in Fine(FALSE)
  BY DEF PipelineInit, Fine, Pipeline
<1> QED BY <1>1, HoldsIsFine DEF PipelineStarts

LEMMA PipelineNextFine == ActivationHolds /\ [PipelineNext]_pipelineVars => ActivationHolds'
<1> SUFFICES ASSUME p \in Fine(asked), qualified \in BOOLEAN, asked \in BOOLEAN,
                    [PipelineNext]_pipelineVars
             PROVE  p' \in Fine(asked') /\ qualified' \in BOOLEAN /\ asked' \in BOOLEAN
  <2>1. ActivationHolds' <=> p' \in Fine(asked') /\ qualified' \in BOOLEAN /\ asked' \in BOOLEAN
    BY DEF ActivationHolds, SessionIsAsked, CommandIsServed, PendingIsServed, LabelsFollow,
           PipelineTypeOK, Fine
  <2> QED BY <2>1, HoldsIsFine
<1>0. ASSUME NEW may \in BOOLEAN, NEW outcomes \in SUBSET Outcomes(may), Runs(outcomes)
      PROVE  p' \in Fine(may)
  BY <1>0, OutcomesHave DEF Runs
<1>1. CASE Advance
  <2>1. advance(p) \in SUBSET Outcomes(asked)
    BY AdvanceFine
  <2> QED BY <1>0, <1>1, <2>1 DEF Advance
<1>2. p \in Fine(TRUE)
  BY DEF Fine
<1>3. CASE Hotkey
  <2>1. request(p) \in SUBSET Outcomes(TRUE)
    BY <1>2, RequestFine
  <2> QED BY <1>0, <1>3, <2>1 DEF Hotkey
<1>4. CASE RouteKey
  <2>1. route_key(p) \in SUBSET Outcomes(TRUE)
    BY <1>2, RouteFine
  <2> QED BY <1>0, <1>4, <2>1 DEF RouteKey
<1>5. CASE UserInput
  <2>1. observe_physical_input(p) \in SUBSET Outcomes(FALSE)
    BY ObserveFine DEF Fine
  <2> QED BY <1>0, <1>5, <2>1 DEF UserInput
<1>6. CASE CommandKey
  BY <1>6, ReleaseFine DEF CommandKey
<1>7. ASSUME NEW available \in BOOLEAN, InputAvailable(available)
      PROVE  p' \in Fine(asked') /\ qualified' \in BOOLEAN /\ asked' \in BOOLEAN
  <2>1. set_input_available(p, available) \in SUBSET Outcomes(asked /\ available)
    BY AvailableFine
  <2> QED BY <1>0, <1>7, <2>1 DEF InputAvailable
<1>8. ASSUME NEW changed \in BOOLEAN, DisplayChange(changed)
      PROVE  p' \in Fine(asked') /\ qualified' \in BOOLEAN /\ asked' \in BOOLEAN
  <2>1. refresh_topology(p, changed) \in SUBSET Outcomes(asked /\ ~changed)
    BY RefreshFine
  <2> QED BY <1>0, <1>8, <2>1 DEF DisplayChange
<1>9. ASSUME NEW changed \in BOOLEAN, AgentCycle(changed)
      PROVE  p' \in Fine(asked') /\ qualified' \in BOOLEAN /\ asked' \in BOOLEAN
  <2>1. navigate_window(p, TRUE, changed) \in SUBSET Outcomes(asked /\ ~changed)
    BY NavigateFine
  <2> QED BY <1>0, <1>9, <2>1 DEF AgentCycle
<1>10. CASE AgentHolds
  <2>1. [p EXCEPT !.synthetic = TRUE] \in Fine(asked)
    BY DEF Fine, Pipeline
  <2> QED BY <1>10, <2>1 DEF AgentHolds
<1>11. ASSUME NEW source \in Sources, NEW scope \in Scopes, ApplySettings(source, scope)
       PROVE  p' \in Fine(asked') /\ qualified' \in BOOLEAN /\ asked' \in BOOLEAN
  BY <1>11, SettingsFine DEF ApplySettings, Runs
<1>12. CASE SurfaceChanges
  BY <1>12 DEF SurfaceChanges
<1>13. CASE ForegroundChanges
  <2>1. [p EXCEPT !.window = "other"] \in Fine(asked)
    BY DEF Fine, Pipeline
  <2> QED BY <1>13, <2>1 DEF ForegroundChanges
<1>14. CASE PendingRunsOut
  <2>1. [p EXCEPT !.late = TRUE] \in Fine(asked)
    BY DEF Fine, Pipeline
  <2> QED BY <1>14, <2>1 DEF PendingRunsOut
<1>15. CASE UNCHANGED pipelineVars
  BY <1>15 DEF pipelineVars
<1> QED BY <1>1, <1>3, <1>4, <1>5, <1>6, <1>7, <1>8, <1>9, <1>10, <1>11, <1>12, <1>13, <1>14, <1>15
        DEF PipelineNext

(* No session begins that was called off, an action that waits is served by    *)
(* the source it waits for, and the labels on show are of the session or will  *)
(* be redrawn, whatever the commands, keys, locks, displays and frames.        *)
THEOREM SessionsAreAskedFor == PipelineSpec => []ActivationHolds
BY PipelineInitFine, PipelineNextFine, PTL DEF PipelineSpec

-------------------------------------------------------------------------------
(* What holds of every target, however thin, and of every range of numbers     *)

(* The inset is at most a quarter of the extent.                               *)
LEMMA InsetIsSmall ==
    ASSUME NEW extent \in Nat \ {0}
    PROVE  Inset(extent) \in Nat /\ 4 * Inset(extent) <= extent - 1
<1>1. (extent - 1) \div 4 \in Nat /\ 4 * ((extent - 1) \div 4) <= extent - 1
  OBVIOUS
<1>2. QED BY <1>1, AimAssumption DEF Inset

(* The three places of an axis lie on the target, in their order: the first    *)
(* adjustment of InteractionController never moves a click off a thin target.  *)
THEOREM PlacesInOrder ==
    ASSUME NEW at \in Int, NEW extent \in Nat \ {0}
    PROVE  /\ \A place \in 0..2 : AlongAxis(at, extent, place) \in at..(at + extent - 1)
           /\ AlongAxis(at, extent, 0) <= AlongAxis(at, extent, 1)
           /\ AlongAxis(at, extent, 1) <= AlongAxis(at, extent, 2)
<1> DEFINE half == (extent - 1) \div 2
           inset == Inset(extent)
<1>1. half \in Nat /\ 2 * half <= extent - 1 /\ extent - 2 <= 2 * half
  OBVIOUS
<1>2. inset \in Nat /\ 4 * inset <= extent - 1
  BY InsetIsSmall
<1>3. /\ AlongAxis(at, extent, 0) = at + inset
      /\ AlongAxis(at, extent, 1) = at + half
      /\ AlongAxis(at, extent, 2) = at + (extent - 1 - inset)
  BY DEF AlongAxis
<1> HIDE DEF half, inset
<1>4. inset <= half
  BY <1>1, <1>2
<1>5. half <= extent - 1 - inset
  BY <1>1, <1>2
<1>6. QED BY <1>1, <1>2, <1>3, <1>4, <1>5

(* The table holds every place once.                                           *)
LEMMA PlaceInTable ==
    ASSUME NEW column \in 0..2, NEW row \in 0..2
    PROVE  /\ position_index(column, row) \in 1..9
           /\ target_positions[position_index(column, row)] = [column |-> column, row |-> row]
<1>1. PICK k \in 1..9 : <<1, 0, 1, 2, 2, 2, 1, 0, 0>>[k] = column /\ <<1, 0, 0, 0, 1, 2, 2, 2, 1>>[k] = row
  OBVIOUS
<1>2. target_positions[k] = [column |-> column, row |-> row]
  BY <1>1 DEF target_positions
<1>3. QED BY <1>2 DEF position_index

LEMMA PlacesKnown == \A k \in 1..9 : target_positions[k].column \in 0..2 /\ target_positions[k].row \in 0..2
BY DEF target_positions

(* A snap keeps the other axis of the place it starts from, the key of a place *)
(* gives its column and row in reading order, and neither leaves a nudge.      *)
THEOREM SnapKeepsOtherAxis ==
    ASSUME NEW aim \in Aims, aim.position # Unset, NEW direction \in Directions
    PROVE  LET from == target_positions[aim.position]
               to == target_positions[snap_target(aim, direction).position]
           IN /\ direction \in {"left", "right"} => to.row = from.row
              /\ direction \in {"up", "down"} => to.column = from.column
              /\ direction = "left" => to.column = 0
              /\ direction = "right" => to.column = 2
              /\ direction = "up" => to.row = 0
              /\ direction = "down" => to.row = 2
<1> DEFINE from == target_positions[aim.position]
           column == CASE direction = "left" -> 0 [] direction = "right" -> 2 [] OTHER -> from.column
           row == CASE direction = "up" -> 0 [] direction = "down" -> 2 [] OTHER -> from.row
<1>1. aim.position \in 1..9
  BY DEF Aims, Unset
<1>2. from.column \in 0..2 /\ from.row \in 0..2
  BY <1>1, PlacesKnown
<1>3. column \in 0..2 /\ row \in 0..2
  BY <1>2
<1>4. snap_target(aim, direction).position = position_index(column, row)
  BY DEF snap_target, Snapped, Aimed, Unaimed
<1>5. target_positions[position_index(column, row)] = [column |-> column, row |-> row]
  BY <1>3, PlaceInTable
<1>6. QED BY <1>4, <1>5 DEF Directions

(* No adjustment the session takes leads out of its types: a place of the      *)
(* table or none, a nudge in the range of its numbers.                         *)
THEOREM AimsAreClosed ==
    ASSUME NEW aim \in Aims, NEW command \in Adjustments, Adjustable(aim, command)
    PROVE  Adjusted(aim, command) \in Aims
<1>1. \A position \in 0..9 : Aimed(position) \in Aims
  BY AimAssumption DEF Aimed, Unaimed, Unset, Aims
<1>2. CASE command.kind = "next"
  <2>1. (aim.position % 9) + 1 \in 0..9
    BY DEF Aims
  <2>2. Adjusted(aim, command) = Aimed((aim.position % 9) + 1)
    BY <1>2 DEF Adjusted, cycle_target_position
  <2>3. QED BY <1>1, <2>1, <2>2
<1>3. CASE command.kind = "place"
  <2>1. command.index \in 0..8
    BY <1>3 DEF Adjustments
  <2>2. command.index % 3 \in 0..2 /\ command.index \div 3 \in 0..2
    BY <2>1
  <2>3. position_index(command.index % 3, command.index \div 3) \in 0..9
    BY <2>2, PlaceInTable
  <2>4. Adjusted(aim, command) = Aimed(position_index(command.index % 3, command.index \div 3))
    BY <1>3 DEF Adjusted, set_target_position
  <2>5. QED BY <1>1, <2>3, <2>4
<1>4. CASE command.kind = "snap"
  <2> DEFINE from == IF aim.position = Unset THEN target_positions[1] ELSE target_positions[aim.position]
             column == CASE command.direction = "left" -> 0 [] command.direction = "right" -> 2 [] OTHER -> from.column
             row == CASE command.direction = "up" -> 0 [] command.direction = "down" -> 2 [] OTHER -> from.row
  <2>1. from.column \in 0..2 /\ from.row \in 0..2
    BY PlacesKnown DEF Aims, Unset
  <2>2. column \in 0..2 /\ row \in 0..2
    BY <2>1
  <2>3. position_index(column, row) \in 0..9
    BY <2>2, PlaceInTable
  <2>4. Adjusted(aim, command) = Aimed(position_index(column, row))
    BY <1>4 DEF Adjusted, snap_target, Snapped
  <2>5. QED BY <1>1, <2>3, <2>4
<1>5. CASE command.kind = "nudge"
  <2>1. NudgeFits(aim, Away(command.direction))
    BY <1>5 DEF Adjustable
  <2>2. Adjusted(aim, command) = nudge_target(aim, Away(command.direction))
    BY <1>5 DEF Adjusted
  <2>3. QED BY <2>1, <2>2 DEF nudge_target, NudgeFits, Aims
<1>6. QED BY <1>2, <1>3, <1>4, <1>5 DEF Adjustments

-------------------------------------------------------------------------------
(* A set of naturals has a least element: the intervals below its elements are
   finite sets, which the strict inclusion orders well. *)
LEMMA LeastNumber ==
    ASSUME NEW T \in SUBSET Nat, T # {}
    PROVE  \E k \in T : \A j \in T : k <= j
<1> DEFINE Below(n) == 0..(n - 1)
           Intervals == {Below(n) : n \in T}
<1>1. Intervals \subseteq FiniteSubsetsOf(Nat) /\ Intervals # {}
  <2>1. \A n \in T : Below(n) \subseteq Nat /\ IsFiniteSet(Below(n))
    BY FS_Interval
  <2> QED
    BY <2>1 DEF FiniteSubsetsOf
<1>2. \E x \in Intervals : \A y \in Intervals : ~(<<y, x>> \in StrictSubsetOrdering(Nat))
  BY <1>1, WFMin, FS_StrictSubsetOrderingWellFounded
<1>3. PICK k \in T : \A j \in T : ~(<<Below(j), Below(k)>> \in StrictSubsetOrdering(Nat))
  BY <1>2
<1>4. \A j \in T : j < k => Below(j) \subseteq Below(k) /\ Below(j) # Below(k)
  <2> TAKE j \in T
  <2> HAVE j < k
  <2>1. j \in Below(k) /\ j \notin Below(j)
    OBVIOUS
  <2> QED
    BY <2>1
<1>5. \A j \in T : j < k => <<Below(j), Below(k)>> \in StrictSubsetOrdering(Nat)
  BY <1>4 DEF StrictSubsetOrdering
<1>6. \A j \in T : k <= j \/ j < k
  OBVIOUS
<1> QED
  BY <1>3, <1>5, <1>6

(* In a finite set of numbers every rank is taken by one element.               *)
Ahead(S, up, t) == {s \in S : IF up THEN s < t ELSE s > t}
LEMMA Ranked ==
    ASSUME NEW S \in SUBSET Nat, IsFiniteSet(S), NEW up \in BOOLEAN
    PROVE  /\ Cardinality(S) \in Nat
           /\ \A i \in 1..Cardinality(S) : \E t \in S : Cardinality(Ahead(S, up, t)) = i - 1
           /\ \A s, t \in S : Cardinality(Ahead(S, up, s)) = Cardinality(Ahead(S, up, t)) => s = t
<1> DEFINE n == Cardinality(S)
           rank == [t \in S |-> Cardinality(Ahead(S, up, t)) + 1]
<1>1. n \in Nat
  BY FS_CardinalityType
<1>2. ASSUME NEW t \in S
      PROVE  /\ IsFiniteSet(Ahead(S, up, t)) /\ Cardinality(Ahead(S, up, t)) \in Nat
             /\ Cardinality(Ahead(S, up, t)) <= n - 1
  <2>1. IsFiniteSet(S \ {t}) /\ Cardinality(S \ {t}) = n - 1
    BY FS_RemoveElement
  <2>2. Ahead(S, up, t) \in SUBSET (S \ {t})
    BY DEF Ahead
  <2>3. IsFiniteSet(Ahead(S, up, t)) /\ Cardinality(Ahead(S, up, t)) <= Cardinality(S \ {t})
    BY <2>1, <2>2, FS_Subset
  <2>4. Cardinality(Ahead(S, up, t)) \in Nat
    BY <2>3, FS_CardinalityType
  <2> QED BY <2>1, <2>3, <2>4
<1>3. ASSUME NEW s \in S, NEW t \in S, IF up THEN s < t ELSE s > t
      PROVE  Cardinality(Ahead(S, up, s)) < Cardinality(Ahead(S, up, t))
  <2>1. Ahead(S, up, s) \cup {s} \in SUBSET Ahead(S, up, t)
    <3>1. s \in Nat /\ t \in Nat /\ \A x \in S : x \in Nat
      OBVIOUS
    <3>2. \A x \in S : (IF up THEN x < s ELSE x > s) => (IF up THEN x < t ELSE x > t)
      BY <1>3, <3>1
    <3> QED BY <1>3, <3>2 DEF Ahead
  <2>2. s \notin Ahead(S, up, s)
    BY DEF Ahead
  <2>3. Cardinality(Ahead(S, up, s) \cup {s}) = Cardinality(Ahead(S, up, s)) + 1
    BY <1>2, <2>2, FS_AddElement
  <2>4. Cardinality(Ahead(S, up, s) \cup {s}) <= Cardinality(Ahead(S, up, t))
    BY <1>2, <2>1, FS_Subset
  <2> QED BY <1>2, <2>3, <2>4
<1>4. \A s, t \in S : Cardinality(Ahead(S, up, s)) = Cardinality(Ahead(S, up, t)) => s = t
  <2> SUFFICES ASSUME NEW s \in S, NEW t \in S, s # t
               PROVE  Cardinality(Ahead(S, up, s)) # Cardinality(Ahead(S, up, t))
    OBVIOUS
  <2>1. (IF up THEN s < t ELSE s > t) \/ (IF up THEN t < s ELSE t > s)
    OBVIOUS
  <2> QED BY <1>2, <1>3, <2>1
<1>5. rank \in Injection(S, 1..n)
  BY <1>1, <1>2, <1>4 DEF Injection, IsInjective
<1>6. IsFiniteSet(1..n) /\ Cardinality(1..n) = n
  BY <1>1, FS_Interval
<1>7. rank \in Surjection(S, 1..n)
  BY <1>5, <1>6, FS_Injection
<1>8. \A i \in 1..n : \E t \in S : rank[t] = i
  BY <1>7 DEF Surjection
<1>9. \A i \in 1..n : \E t \in S : Cardinality(Ahead(S, up, t)) = i - 1
  BY <1>1, <1>2, <1>8
<1> QED BY <1>1, <1>4, <1>9

-------------------------------------------------------------------------------
(* Quotients: what division leaves, and division in two steps.                  *)
LEMMA Divided ==
    ASSUME NEW a \in Nat, NEW d \in Nat \ {0}
    PROVE  /\ a = d * (a \div d) + (a % d)
           /\ (a % d) \in Nat /\ (a % d) < d /\ (a \div d) \in Nat
OBVIOUS

LEMMA Product == ASSUME NEW a \in Nat, NEW b \in Nat PROVE a * b \in Nat
OBVIOUS

LEMMA Grows == ASSUME NEW a \in Nat, NEW b \in Nat, NEW c \in Nat, b <= c PROVE a * b <= a * c
OBVIOUS

LEMMA QuotientIs ==
    ASSUME NEW a \in Nat, NEW d \in Nat \ {0}, NEW q \in Nat, NEW r \in Nat, r < d, a = d * q + r
    PROVE  a \div d = q /\ a % d = r
<1>1. a = d * (a \div d) + (a % d) /\ (a % d) \in Nat /\ (a % d) < d /\ (a \div d) \in Nat
  BY Divided
<1>2. ASSUME NEW m \in Nat, NEW n \in Nat, m + 1 <= n PROVE d * m + d <= d * n
  <2>1. d * (m + 1) <= d * n
    BY <1>2, Grows
  <2>2. d * (m + 1) = d * m + d
    OBVIOUS
  <2> QED BY <2>1, <2>2
<1>3. d * q \in Nat /\ d * (a \div d) \in Nat
  BY <1>1, Product
<1>4. ~(q + 1 <= (a \div d))
  <2>1. q + 1 <= (a \div d) => d * q + d <= d * (a \div d)
    BY <1>1, <1>2
  <2> QED BY <1>1, <1>3, <2>1
<1>5. ~((a \div d) + 1 <= q)
  <2>1. (a \div d) + 1 <= q => d * (a \div d) + d <= d * q
    BY <1>1, <1>2
  <2> QED BY <1>1, <1>3, <2>1
<1>6. (a \div d) = q
  BY <1>1, <1>4, <1>5
<1>7. a = d * q + (a % d)
  BY <1>1, <1>6
<1> DEFINE m == d * q
           n == a % d
<1>8. m \in Nat /\ n \in Nat /\ a = m + r /\ a = m + n
  BY <1>1, <1>3, <1>7
<1> HIDE DEF m, n
<1>9. n = r
  BY <1>8
<1> QED BY <1>6, <1>9 DEF n

LEMMA DividedTwice ==
    ASSUME NEW a \in Nat, NEW d \in Nat \ {0}, NEW s \in Nat \ {0}
    PROVE  a \div (s * d) = (a \div d) \div s
<1> DEFINE q == a \div d
           r == a % d
           u == q \div s
           v == q % s
<1>1. q \in Nat /\ r \in Nat /\ r < d /\ a = d * q + r
  BY Divided
<1> HIDE DEF q, r
<1>2. u \in Nat /\ v \in Nat /\ v < s /\ q = s * u + v
  BY <1>1, Divided
<1> HIDE DEF u, v
<1>3. a = (s * d) * u + (d * v + r)
  <2>1. d * q = d * (s * u) + d * v
    BY <1>1, <1>2
  <2>2. d * (s * u) = (s * d) * u
    BY <1>2
  <2>3. d * v \in Nat /\ (s * d) * u \in Nat
    BY <1>2, Product
  <2> QED BY <1>1, <2>1, <2>2, <2>3
<1>4. d * v \in Nat /\ d * v + r < s * d
  <2>1. d * (v + 1) <= d * s
    BY <1>2, Grows
  <2>2. d * (v + 1) = d * v + d /\ d * s = s * d /\ d * v \in Nat /\ s * d \in Nat
    BY <1>2, Product
  <2> QED BY <1>1, <2>1, <2>2
<1>5. s * d \in Nat \ {0}
  <2>1. 1 * d <= s * d
    OBVIOUS
  <2> QED BY <2>1, Product
<1>6. a \div (s * d) = u
  BY <1>1, <1>2, <1>3, <1>4, <1>5, QuotientIs
<1> QED BY <1>6 DEF u, q

(* How many codes of a length there are: a power of the size.                   *)
CodesUpTo(f, size, n) == f = [k \in 0..n |-> IF k = 0 THEN 1 ELSE size * f[k - 1]]

LEMMA CodesExist ==
    ASSUME NEW size, NEW count \in Nat
    PROVE  \E f : CodesUpTo(f, size, count)
<1> DEFINE Bad == {n \in Nat : ~ \E f : CodesUpTo(f, size, n)}
<1> SUFFICES ASSUME Bad # {}
             PROVE  FALSE
  OBVIOUS
<1>1. PICK n \in Bad : \A m \in Bad : n <= m
  <2>1. Bad \in SUBSET Nat
    OBVIOUS
  <2> HIDE DEF Bad
  <2> QED BY <2>1, LeastNumber
<1>2. CASE n = 0
  <2> DEFINE f == [k \in 0..0 |-> 1]
  <2>1. f = [k \in 0..0 |-> IF k = 0 THEN 1 ELSE size * f[k - 1]]
    OBVIOUS
  <2> HIDE DEF f
  <2> QED BY <1>1, <1>2, <2>1 DEF CodesUpTo
<1>3. CASE n # 0
  <2>1. n - 1 \in Nat /\ n \in Nat
    BY <1>3
  <2>2. n - 1 \notin Bad
    BY <1>1, <2>1
  <2>3. PICK g : CodesUpTo(g, size, n - 1)
    BY <2>1, <2>2
  <2> DEFINE f == [k \in 0..n |-> IF k = n THEN size * g[n - 1] ELSE g[k]]
  <2>4. ASSUME NEW k \in 0..n
        PROVE  f[k] = IF k = 0 THEN 1 ELSE size * f[k - 1]
    <3>1. CASE k = n
      <4>0. n \in 0..n /\ n - 1 \in 0..n /\ n - 1 # n
        BY <2>1
      <4>1. f[n] = size * g[n - 1] /\ f[n - 1] = g[n - 1]
        BY <4>0, Zenon
      <4> HIDE DEF f
      <4> QED BY <1>3, <3>1, <4>1
    <3>2. CASE k # n
      <4>1. k \in 0..(n - 1)
        BY <2>1, <3>2
      <4>2. f[k] = g[k]
        BY <3>2
      <4>3. g[k] = IF k = 0 THEN 1 ELSE size * g[k - 1]
        BY <2>3, <4>1 DEF CodesUpTo
      <4>4. k # 0 => f[k - 1] = g[k - 1]
        BY <2>1, <4>1
      <4> HIDE DEF f
      <4> QED BY <4>2, <4>3, <4>4
    <3> QED BY <3>1, <3>2
  <2>5. f = [k \in 0..n |-> f[k]]
    OBVIOUS
  <2> HIDE DEF f
  <2>6. CodesUpTo(f, size, n)
    BY <2>4, <2>5 DEF CodesUpTo
  <2> QED BY <1>1, <2>6
<1> QED BY <1>2, <1>3

LEMMA CodesAre ==
    ASSUME NEW size, NEW f, NEW n \in Nat, CodesUpTo(f, size, n)
    PROVE  \A m \in Nat : \A g : m <= n /\ CodesUpTo(g, size, m) => g[m] = f[m]
<1> SUFFICES ASSUME NEW m \in Nat, NEW g, m <= n, CodesUpTo(g, size, m)
             PROVE  g[m] = f[m]
  OBVIOUS
<1> DEFINE Bad == {k \in 0..m : g[k] # f[k]}
<1>1. ASSUME Bad # {} PROVE FALSE
  <2>1. PICK k \in Bad : \A j \in Bad : k <= j
    <3>1. Bad \in SUBSET Nat
      OBVIOUS
    <3> HIDE DEF Bad
    <3> QED BY <1>1, <3>1, LeastNumber
  <2>2. k \in 0..m /\ k \in 0..n
    OBVIOUS
  <2>3. /\ g[k] = IF k = 0 THEN 1 ELSE size * g[k - 1]
        /\ f[k] = IF k = 0 THEN 1 ELSE size * f[k - 1]
    BY <2>2 DEF CodesUpTo
  <2>4. k # 0
    BY <2>1, <2>3
  <2>5. k - 1 \in 0..m /\ k - 1 \notin Bad
    BY <2>1, <2>2, <2>4
  <2> QED BY <2>1, <2>3, <2>4, <2>5
<1> QED BY <1>1

LEMMA CodesStep ==
    ASSUME NEW size \in Nat \ {0}
    PROVE  /\ Codes(size, 0) = 1
           /\ \A n \in Nat : Codes(size, n + 1) = size * Codes(size, n)
           /\ \A n \in Nat : Codes(size, n) \in Nat \ {0}
<1> DEFINE Fun(n) == CHOOSE f : CodesUpTo(f, size, n)
<1>1. \A n \in Nat : CodesUpTo(Fun(n), size, n) /\ Codes(size, n) = Fun(n)[n]
  <2> TAKE n \in Nat
  <2>1. CodesUpTo(Fun(n), size, n)
    BY CodesExist
  <2>2. Codes(size, n) = Fun(n)[n]
    BY DEF Codes, CodesUpTo
  <2> QED BY <2>1, <2>2
<1> HIDE DEF Fun
<1>2. Codes(size, 0) = 1
  <2>1. CodesUpTo(Fun(0), size, 0) /\ Codes(size, 0) = Fun(0)[0]
    BY <1>1
  <2> QED BY <2>1 DEF CodesUpTo
<1>3. ASSUME NEW n \in Nat
      PROVE  Codes(size, n + 1) = size * Codes(size, n)
  <2>1. CodesUpTo(Fun(n + 1), size, n + 1) /\ CodesUpTo(Fun(n), size, n)
    BY <1>1
  <2>2. Fun(n + 1)[n + 1] = size * Fun(n + 1)[n]
    <3>1. n + 1 \in 0..(n + 1) /\ n + 1 # 0 /\ n + 1 - 1 = n
      OBVIOUS
    <3>2. Fun(n + 1)[n + 1] = IF n + 1 = 0 THEN 1 ELSE size * Fun(n + 1)[n + 1 - 1]
      BY <2>1, <3>1 DEF CodesUpTo
    <3> QED BY <3>1, <3>2
  <2>3. Fun(n)[n] = Fun(n + 1)[n]
    BY <2>1, CodesAre
  <2> QED BY <1>1, <2>2, <2>3
<1> DEFINE Bad == {n \in Nat : Codes(size, n) \notin Nat \ {0}}
<1>4. ASSUME Bad # {} PROVE FALSE
  <2>1. PICK k \in Bad : \A j \in Bad : k <= j
    <3>1. Bad \in SUBSET Nat
      OBVIOUS
    <3> HIDE DEF Bad
    <3> QED BY <1>4, <3>1, LeastNumber
  <2>2. k # 0
    BY <1>2, <2>1
  <2>3. k - 1 \in Nat /\ k - 1 \notin Bad /\ k = (k - 1) + 1
    BY <2>1, <2>2
  <2>4. Codes(size, k) = size * Codes(size, k - 1) /\ Codes(size, k - 1) \in Nat \ {0}
    BY <1>3, <2>3
  <2>5. ASSUME NEW c \in Nat \ {0} PROVE size * c \in Nat \ {0}
    <3>1. 1 * c <= size * c
      OBVIOUS
    <3> QED BY <3>1, Product
  <2> QED BY <2>1, <2>4, <2>5
<1> QED BY <1>2, <1>3, <1>4

(* Codes grow with their length.                                                *)
LEMMA CodesGrow ==
    ASSUME NEW size \in Nat \ {0, 1}
    PROVE  \A n \in Nat : n < Codes(size, n)
<1> DEFINE Bad == {n \in Nat : ~(n < Codes(size, n))}
<1>1. ASSUME Bad # {} PROVE FALSE
  <2>1. PICK k \in Bad : \A j \in Bad : k <= j
    <3>1. Bad \in SUBSET Nat
      OBVIOUS
    <3> HIDE DEF Bad
    <3> QED BY <1>1, <3>1, LeastNumber
  <2>2. k # 0
    BY <2>1, CodesStep
  <2>3. k - 1 \in Nat /\ k - 1 \notin Bad /\ k = (k - 1) + 1
    BY <2>1, <2>2
  <2>4. /\ Codes(size, k) = size * Codes(size, k - 1) /\ Codes(size, k - 1) \in Nat \ {0}
        /\ k - 1 < Codes(size, k - 1)
    BY <2>3, CodesStep
  <2>5. ASSUME NEW c \in Nat \ {0} PROVE c + 1 <= size * c
    <3>1. c * 2 <= c * size
      BY Grows
    <3>2. c * 2 = c + c /\ c * size = size * c /\ size * c \in Nat
      BY Product
    <3> QED BY <3>1, <3>2
  <2>6. Codes(size, k - 1) + 1 <= Codes(size, k)
    BY <2>4, <2>5
  <2>7. Codes(size, k) \in Nat
    BY <2>1, CodesStep
  <2> HIDE DEF Bad
  <2>8. k < Codes(size, k)
    BY <2>3, <2>4, <2>6, <2>7
  <2> QED BY <2>1, <2>8 DEF Bad
<1> QED BY <1>1

(* The depth of the labels.                                                     *)
LEMMA DepthIs ==
    ASSUME NEW size \in Nat \ {0, 1}, NEW count \in Nat, size <= count
    PROVE  /\ Depth(count, size) \in Nat \ {0}
           /\ Codes(size, Depth(count, size)) <= count
           /\ count < size * Codes(size, Depth(count, size))
<1> DEFINE Long == {n \in Nat : count < Codes(size, n)}
<1>0. count \in Long
  BY CodesGrow
<1>1. PICK k \in Long : \A j \in Long : k <= j
  <2>1. Long \in SUBSET Nat /\ Long # {}
    BY <1>0
  <2> HIDE DEF Long
  <2> QED BY <2>1, LeastNumber
<1>2. Codes(size, 0) = 1 /\ Codes(size, 1) = size
  <2>1. Codes(size, 0 + 1) = size * Codes(size, 0) /\ Codes(size, 0) = 1
    BY CodesStep
  <2>2. 0 + 1 = 1 /\ size * 1 = size
    OBVIOUS
  <2> QED BY <2>1, <2>2
<1>3. k # 0 /\ k # 1
  BY <1>1, <1>2
<1>4. k - 1 \in Nat \ {0} /\ k - 1 + 1 = k /\ k - 1 \notin Long /\ k <= count
  BY <1>0, <1>1, <1>3
<1>5. k - 1 \in 1..count /\ Codes(size, k - 1) <= count /\ count < Codes(size, k - 1 + 1)
  BY <1>1, <1>4, CodesStep
<1> DEFINE Is(d) == Codes(size, d) <= count /\ count < Codes(size, d + 1)
<1>6. Depth(count, size) = CHOOSE d \in 1..count : Is(d)
  BY DEF Depth
<1>7. Depth(count, size) \in 1..count /\ Is(Depth(count, size))
  <2> HIDE DEF Is
  <2> QED BY <1>5, <1>6 DEF Is
<1> QED BY <1>7, CodesStep

(* The code of an ordinal has its digits, and only its.                         *)
LEMMA CodeIs ==
    ASSUME NEW size \in Nat \ {0, 1}, NEW length \in Nat, NEW a \in Nat
    PROVE  /\ encode_ordinal(a, length, size) \in Seq(0..size - 1)
           /\ Len(encode_ordinal(a, length, size)) = length
           /\ DOMAIN encode_ordinal(a, length, size) = 1..length
<1> DEFINE code == [k \in 1..length |-> (a \div Codes(size, length - k)) % size]
<1>1. ASSUME NEW k \in 1..length
      PROVE  (a \div Codes(size, length - k)) % size \in 0..size - 1
  <2>0. length - k \in Nat
    OBVIOUS
  <2>1. Codes(size, length - k) \in Nat \ {0}
    BY <2>0, CodesStep
  <2> HIDE DEF code
  <2>2. a \div Codes(size, length - k) \in Nat
    BY <2>1, Divided
  <2> DEFINE q == a \div Codes(size, length - k)
  <2> HIDE DEF q
  <2>3. q \in Nat
    BY <2>2 DEF q
  <2>4. q % size \in 0..size - 1
    BY <2>3
  <2> QED BY <2>4 DEF q
<1>2. code \in [1..length -> 0..size - 1]
  BY <1>1
<1>3. encode_ordinal(a, length, size) = code
  BY DEF encode_ordinal
<1> HIDE DEF code
<1>4. code \in Seq(0..size - 1) /\ Len(code) = length /\ DOMAIN code = 1..length
  BY <1>2, SeqDef, LenProperties
<1> QED BY <1>3, <1>4

LEMMA CodesDiffer ==
    ASSUME NEW size \in Nat \ {0, 1}, NEW length \in Nat, NEW a \in Nat, NEW b \in Nat,
           a < Codes(size, length), b < Codes(size, length),
           encode_ordinal(a, length, size) = encode_ordinal(b, length, size)
    PROVE  a = b
<1> DEFINE Same(k) == a \div Codes(size, k) = b \div Codes(size, k)
           Bad == {j \in Nat : j <= length /\ ~Same(length - j)}
<1>0. \A k \in Nat : Codes(size, k) \in Nat \ {0}
  BY CodesStep
<1>1. ASSUME NEW k \in Nat, k < length, Same(k + 1) PROVE Same(k)
  <2> DEFINE c == Codes(size, k)
             q == a \div c
             r == b \div c
  <2>1. c \in Nat \ {0} /\ Codes(size, k + 1) = size * c
    BY CodesStep
  <2>2. q \in Nat /\ r \in Nat
    BY <2>1, Divided
  <2>3. q \div size = r \div size
    <3>1. a \div (size * c) = q \div size /\ b \div (size * c) = r \div size
      BY <2>1, DividedTwice
    <3> QED BY <1>1, <2>1, <3>1
  <2>4. q % size = r % size
    <3>1. length - k \in 1..length /\ length - (length - k) = k
      BY <1>1
    <3>2. /\ encode_ordinal(a, length, size)[length - k] = q % size
          /\ encode_ordinal(b, length, size)[length - k] = r % size
      BY <3>1 DEF encode_ordinal
    <3> QED BY <3>2
  <2> HIDE DEF q, r, c
  <2>5. q = size * (q \div size) + (q % size) /\ r = size * (r \div size) + (r % size)
    BY <2>2, Divided
  <2>6. q = r
    BY <2>3, <2>4, <2>5
  <2> QED BY <2>6 DEF q, r, c
<1>2. Same(length)
  <2>1. Codes(size, length) \in Nat \ {0}
    BY <1>0
  <2> DEFINE c == Codes(size, length)
  <2>2. a = c * 0 + a /\ b = c * 0 + b
    BY <2>1
  <2>3. a \div c = 0 /\ b \div c = 0
    BY <2>1, <2>2, QuotientIs
  <2> QED BY <2>3
<1> HIDE DEF Same
<1>3. ASSUME Bad # {} PROVE FALSE
  <2>1. PICK j \in Bad : \A i \in Bad : j <= i
    <3>1. Bad \in SUBSET Nat
      OBVIOUS
    <3> HIDE DEF Bad
    <3> QED BY <1>3, <3>1, LeastNumber
  <2>2. j \in Nat /\ j <= length /\ ~Same(length - j)
    BY <2>1
  <2>3. j # 0
    BY <1>2, <2>2
  <2>4. j - 1 \in Nat /\ j - 1 <= length /\ j - 1 \notin Bad
    BY <2>1, <2>2, <2>3
  <2>5. Same(length - (j - 1)) /\ length - (j - 1) = (length - j) + 1
    BY <2>2, <2>4
  <2>6. length - j \in Nat /\ length - j < length
    BY <2>2, <2>3
  <2> QED BY <1>1, <2>2, <2>5, <2>6
<1>4. Same(0)
  <2>1. length \in Nat /\ length <= length /\ length - length = 0
    OBVIOUS
  <2> QED BY <1>3, <2>1
<1>5. Codes(size, 0) = 1
  BY CodesStep
<1>6. a \div 1 = a /\ b \div 1 = b
  OBVIOUS
<1> QED BY <1>4, <1>5, <1>6 DEF Same

(* How the codes are shared out: short of them name a target each, and the      *)
(* others are given up for their extensions, the first in part.                 *)
Part(partial) == IF partial = 0 THEN 0 ELSE 1
LEMMA SharedOut ==
    ASSUME NEW size \in Nat \ {0, 1}, NEW count \in Nat, size < count
    PROVE  LET total   == Codes(size, Depth(count, size))
               short   == ShortestCount(count, size)
               partial == PartialChildren(count, size)
           IN  /\ total \in Nat /\ short \in Nat /\ partial \in 0..size - 1
               /\ \E full \in Nat : /\ short + Part(partial) + full = total
                                    /\ count - short = size * full + partial
<1> DEFINE depth == Depth(count, size)
           total == Codes(size, depth)
           needed == count - total
           full == needed \div (size - 1)
           left == needed % (size - 1)
           one == IF left = 0 THEN 0 ELSE 1
<1>1. depth \in Nat \ {0} /\ total <= count /\ count < size * total
  BY DepthIs
<1>2. total \in Nat \ {0}
  BY <1>1, CodesStep
<1>3. Needed(count, size) = needed /\ needed \in Nat
  <2>1. Needed(count, size) = IF count > total THEN count - total ELSE 0
    BY DEF Needed
  <2> HIDE DEF total
  <2> QED BY <1>1, <1>2, <2>1
<1>4. PartialChildren(count, size) = IF left = 0 THEN 0 ELSE left + 1
  BY <1>3 DEF PartialChildren
<1> HIDE DEF needed
<1>5. /\ full \in Nat /\ left \in Nat /\ left < size - 1 /\ needed = (size - 1) * full + left
      /\ size - 1 \in Nat \ {0}
  <2>1. size - 1 \in Nat \ {0}
    OBVIOUS
  <2>2. /\ needed = (size - 1) * (needed \div (size - 1)) + (needed % (size - 1))
        /\ (needed % (size - 1)) \in Nat /\ (needed % (size - 1)) < size - 1
        /\ (needed \div (size - 1)) \in Nat
    BY <1>3, <2>1, Divided
  <2> QED BY <2>1, <2>2
<1>6. PartialChildren(count, size) = 0 <=> left = 0
  BY <1>4, <1>5
<1>7. ShortestCount(count, size) = total - full - one
  BY <1>3, <1>6 DEF ShortestCount
<1> HIDE DEF full, left, total
<1>8. full < total
  <2>1. SUFFICES ASSUME total <= full PROVE FALSE
    BY <1>2, <1>5
  <2>2. (size - 1) * total <= (size - 1) * full
    BY <1>2, <1>5, <2>1, Grows
  <2>3. (size - 1) * total = size * total - total /\ size * total \in Nat /\ (size - 1) * full \in Nat
    BY <1>2, <1>5, Product
  <2>4. needed = count - total
    BY DEF needed
  <2> QED BY <1>1, <1>2, <1>5, <2>2, <2>3, <2>4
<1>9. total - full - one \in Nat
  BY <1>2, <1>5, <1>8
<1>10. count - (total - full - one) = size * full + (IF left = 0 THEN 0 ELSE left + 1)
  <2>1. size * full = (size - 1) * full + full
    BY <1>5
  <2>2. (size - 1) * full \in Nat /\ needed = count - total
    BY <1>5, Product DEF needed
  <2>3. count = total + (size - 1) * full + left
    BY <1>2, <1>5, <2>2
  <2> QED BY <1>2, <1>5, <2>1, <2>2, <2>3
<1>11. PartialChildren(count, size) \in 0..size - 1
  BY <1>4, <1>5
<1>12. Part(PartialChildren(count, size)) = one
  BY <1>6 DEF Part
<1>13. ShortestCount(count, size) + one + full = total
  BY <1>2, <1>5, <1>7, <1>9
<1>14. count - ShortestCount(count, size) = size * full + PartialChildren(count, size)
  BY <1>4, <1>7, <1>10
<1> QED BY <1>2, <1>5, <1>7, <1>9, <1>11, <1>12, <1>13, <1>14 DEF total

(* Each extension has its parent and its symbol, and is known by them.          *)
Placed(behind, child, short, partial, size) ==
    behind = IF child[1] = short /\ partial # 0 THEN child[2]
             ELSE partial + size * (child[1] - short - Part(partial)) + child[2]
LEMMA ChildIs ==
    ASSUME NEW size \in Nat \ {0, 1}, NEW count \in Nat, size < count,
           NEW full \in Nat, NEW behind \in Nat,
           behind < size * full + PartialChildren(count, size),
           PartialChildren(count, size) \in 0..size - 1, ShortestCount(count, size) \in Nat
    PROVE  LET short   == ShortestCount(count, size)
               partial == PartialChildren(count, size)
               child   == Child(count, size, behind)
           IN  /\ child[1] \in Nat /\ short <= child[1] /\ child[1] < short + Part(partial) + full
               /\ child[2] \in 0..size - 1
               /\ Placed(behind, child, short, partial, size)
<1> DEFINE short   == ShortestCount(count, size)
           partial == PartialChildren(count, size)
           child   == Child(count, size, behind)
           after == behind - partial
           q == after \div size
           r == after % size
<1>1. /\ behind < partial => child[1] = short /\ child[2] = behind
      /\ ~(behind < partial) => child[1] = short + Part(partial) + q /\ child[2] = r
  BY DEF Child, Part
<1>2. short \in Nat /\ partial \in 0..size - 1 /\ behind < size * full + partial
  OBVIOUS
<1> HIDE DEF short, partial, child
<1>a. partial \in Nat /\ partial < size /\ Part(partial) \in {0, 1} /\ (partial # 0 => Part(partial) = 1)
  BY <1>2 DEF Part
<1>3. CASE behind < partial
  <2>1. partial # 0 /\ Part(partial) = 1
    BY <1>a, <1>3
  <2>2. child[1] = short /\ child[2] = behind /\ behind \in 0..size - 1
    BY <1>1, <1>a, <1>3
  <2>3. short < short + Part(partial) + full
    BY <1>2, <2>1
  <2>4. short <= short
    BY <1>2
  <2> QED BY <1>2, <2>1, <2>2, <2>3, <2>4 DEF short, partial, child, Placed
<1>4. CASE ~(behind < partial)
  <2>1. after \in Nat /\ after < size * full /\ behind = partial + after
    <3>1. size * full \in Nat
      BY Product
    <3> QED BY <1>2, <1>4, <3>1
  <2> HIDE DEF after
  <2>2. q \in Nat /\ r \in 0..size - 1 /\ after = size * q + r
    <3>1. /\ after = size * (after \div size) + (after % size)
          /\ (after % size) \in Nat /\ (after % size) < size /\ (after \div size) \in Nat
      BY <2>1, Divided
    <3> QED BY <3>1
  <2> HIDE DEF q, r
  <2>3. q < full
    <3> SUFFICES ASSUME full <= q PROVE FALSE
      BY <2>2
    <3>1. size * full <= size * q /\ size * full \in Nat /\ size * q \in Nat
      BY <2>2, Grows, Product
    <3> QED BY <2>1, <2>2, <3>1
  <2>4. Part(partial) \in {0, 1} /\ (partial # 0 => Part(partial) = 1)
    BY DEF Part
  <2>5. child[1] = short + Part(partial) + q /\ child[2] = r
    BY <1>1, <1>4
  <2>6. child[1] \in Nat /\ short <= child[1] /\ child[1] < short + Part(partial) + full
    BY <1>2, <2>2, <2>3, <2>4, <2>5
  <2>7. child[1] - short - Part(partial) = q /\ ~(child[1] = short /\ partial # 0)
    BY <1>2, <2>2, <2>4, <2>5
  <2>8. Placed(behind, child, short, partial, size)
    <3>1. size * q \in Nat
      BY <2>2, Product
    <3>2. behind = partial + size * q + r
      BY <1>a, <2>1, <2>2, <3>1
    <3> QED BY <2>5, <2>7, <3>2 DEF Placed
  <2>9. child[2] \in 0..size - 1
    BY <2>2, <2>5
  <2> QED BY <2>6, <2>8, <2>9 DEF short, partial, child
<1> QED BY <1>3, <1>4

(* The labels of two ranks: neither is the beginning of the other.              *)
LEMMA LabelIs ==
    ASSUME NEW size \in Nat \ {0, 1}, NEW count \in Nat, NEW rank \in 0..count - 1, size < count
    PROVE  LET depth == Depth(count, size)
               short == ShortestCount(count, size)
               child == Child(count, size, rank - short)
               label == assign_label(rank, count, size)
               code  == encode_ordinal(IF rank < short THEN rank ELSE child[1], depth, size)
           IN  /\ label \in Seq(0..size - 1) /\ label # <<>>
               /\ depth \in Nat \ {0} /\ code \in Seq(0..size - 1) /\ Len(code) = depth
               /\ rank < short => label = code /\ rank < Codes(size, depth)
               /\ rank >= short => /\ label = Append(code, child[2]) /\ child[2] \in 0..size - 1
                                   /\ child[1] \in Nat /\ child[1] >= short
                                   /\ child[1] < Codes(size, depth)
<1> DEFINE depth == Depth(count, size)
           short == ShortestCount(count, size)
           partial == PartialChildren(count, size)
           child == Child(count, size, rank - short)
           label == assign_label(rank, count, size)
           code  == encode_ordinal(IF rank < short THEN rank ELSE child[1], depth, size)
<1>1. depth \in Nat \ {0}
  BY DepthIs
<1>2. /\ Codes(size, depth) \in Nat /\ short \in Nat /\ partial \in 0..size - 1
      /\ \E full \in Nat : /\ short + Part(partial) + full = Codes(size, depth)
                           /\ count - short = size * full + partial
  BY SharedOut
<1>3. PICK full \in Nat : /\ short + Part(partial) + full = Codes(size, depth)
                          /\ count - short = size * full + partial
  BY <1>2
<1>4. label = IF rank < short THEN code ELSE Append(code, child[2])
  BY DEF assign_label
<1>5. Part(partial) \in {0, 1}
  BY DEF Part
<1>6. CASE rank < short
  <2>1. code = encode_ordinal(rank, depth, size)
    BY <1>6
  <2>2. code \in Seq(0..size - 1) /\ Len(code) = depth
    BY <1>1, <2>1, CodeIs
  <2> HIDE DEF code, label, short, depth, partial
  <2>3. rank < Codes(size, depth)
    BY <1>2, <1>3, <1>5, <1>6
  <2>4. label = code /\ label # <<>>
    BY <1>1, <1>4, <1>6, <2>2, EmptySeq
  <2>5. ~(rank >= short)
    BY <1>2, <1>6
  <2> QED BY <1>1, <1>6, <2>2, <2>3, <2>4, <2>5 DEF code, label, short, depth
<1>7. CASE ~(rank < short)
  <2>0. rank - short \in Nat /\ rank - short < size * full + partial
    <3> HIDE DEF short, partial
    <3>1. size * full \in Nat
      BY Product
    <3> QED BY <1>2, <1>3, <1>7, <3>1
  <2>1. /\ child[1] \in Nat /\ short <= child[1] /\ child[1] < short + Part(partial) + full
        /\ child[2] \in 0..size - 1
    BY <1>2, <2>0, ChildIs
  <2>2. code = encode_ordinal(child[1], depth, size)
    BY <1>7
  <2> HIDE DEF code, label, short, depth, partial, child
  <2>3. code \in Seq(0..size - 1) /\ Len(code) = depth
    BY <1>1, <2>1, <2>2, CodeIs
  <2>4. label = Append(code, child[2])
    BY <1>4, <1>7
  <2>5. label \in Seq(0..size - 1) /\ label # <<>>
    BY <2>1, <2>3, <2>4, AppendProperties
  <2>6. child[1] < Codes(size, depth) /\ child[1] >= short
    BY <1>2, <1>3, <2>1
  <2> QED BY <1>1, <1>7, <2>1, <2>3, <2>4, <2>5, <2>6 DEF code, label, short, depth, child
<1> QED BY <1>6, <1>7

LEMMA ChildrenDiffer ==
    ASSUME NEW size \in Nat \ {0, 1}, NEW count \in Nat, size < count,
           NEW a \in 0..count - 1, NEW b \in 0..count - 1,
           a >= ShortestCount(count, size), b >= ShortestCount(count, size),
           LET s == Child(count, size, a - ShortestCount(count, size))
               t == Child(count, size, b - ShortestCount(count, size))
           IN  s[1] = t[1] /\ s[2] = t[2]
    PROVE  a = b
<1> DEFINE short == ShortestCount(count, size)
           partial == PartialChildren(count, size)
           s == Child(count, size, a - short)
           t == Child(count, size, b - short)
           total == Codes(size, Depth(count, size))
<1>1. /\ total \in Nat /\ short \in Nat /\ partial \in 0..size - 1
      /\ \E full \in Nat : /\ short + Part(partial) + full = total
                           /\ count - short = size * full + partial
  BY SharedOut
<1>2. PICK full \in Nat : count - short = size * full + partial
  BY <1>1
<1>3. /\ a - short \in Nat /\ a - short < size * full + partial
      /\ b - short \in Nat /\ b - short < size * full + partial
  <2> HIDE DEF short, partial
  <2>0. a >= short /\ b >= short
    BY DEF short
  <2>1. size * full \in Nat
    BY Product
  <2> QED BY <1>1, <1>2, <2>0, <2>1
<1>b. /\ partial \in 0..size - 1 /\ short \in Nat
      /\ partial = PartialChildren(count, size) /\ short = ShortestCount(count, size)
      /\ s = Child(count, size, a - short) /\ t = Child(count, size, b - short)
  BY <1>1
<1> HIDE DEF short, partial, s, t
<1>4. Placed(a - short, s, short, partial, size)
  <2> DEFINE behind == a - short
  <2>1. behind \in Nat /\ behind < size * full + partial
    BY <1>3
  <2> HIDE DEF behind
  <2>2. Placed(behind, Child(count, size, behind), short, partial, size)
    BY <1>b, <2>1, ChildIs
  <2> QED BY <1>b, <2>2 DEF behind
<1>5. Placed(b - short, t, short, partial, size)
  <2> DEFINE behind == b - short
  <2>1. behind \in Nat /\ behind < size * full + partial
    BY <1>3
  <2> HIDE DEF behind
  <2>2. Placed(behind, Child(count, size, behind), short, partial, size)
    BY <1>b, <2>1, ChildIs
  <2> QED BY <1>b, <2>2 DEF behind
<1>6. s[1] = t[1] /\ s[2] = t[2]
  BY DEF s, t, short
<1>7. a - short = b - short
  BY <1>4, <1>5, <1>6 DEF Placed
<1> QED BY <1>1, <1>3, <1>7

LEMMA LabelsDiffer ==
    ASSUME NEW size \in Nat \ {0, 1}, NEW count \in Nat,
           NEW a \in 0..count - 1, NEW b \in 0..count - 1,
           prefix_matches(assign_label(a, count, size), assign_label(b, count, size))
    PROVE  a = b
<1> DEFINE x == assign_label(a, count, size)
           y == assign_label(b, count, size)
<1>0. DOMAIN y \subseteq DOMAIN x /\ \A i \in DOMAIN y : x[i] = y[i]
  BY DEF prefix_matches
<1>1. CASE count <= size
  <2>1. x = <<a>> /\ y = <<b>>
    BY <1>1 DEF assign_label
  <2> HIDE DEF x, y
  <2>2. 1 \in DOMAIN y /\ x[1] = a /\ y[1] = b
    BY <2>1
  <2> QED BY <1>0, <2>2
<1>2. CASE ~(count <= size)
  <2> DEFINE depth == Depth(count, size)
             short == ShortestCount(count, size)
             s == Child(count, size, a - short)
             t == Child(count, size, b - short)
             m == IF a < short THEN a ELSE s[1]
             n == IF b < short THEN b ELSE t[1]
             u == encode_ordinal(m, depth, size)
             v == encode_ordinal(n, depth, size)
  <2>0. size < count /\ short \in Nat /\ Codes(size, depth) \in Nat
    <3>1. size < count
      BY <1>2
    <3> QED BY <3>1, SharedOut
  <2>1. /\ depth \in Nat \ {0} /\ u \in Seq(0..size - 1) /\ Len(u) = depth
        /\ a < short => x = u /\ a < Codes(size, depth)
        /\ a >= short => /\ x = Append(u, s[2]) /\ s[2] \in 0..size - 1
                         /\ s[1] \in Nat /\ s[1] >= short /\ s[1] < Codes(size, depth)
    BY <2>0, LabelIs
  <2>2. /\ v \in Seq(0..size - 1) /\ Len(v) = depth
        /\ b < short => y = v /\ b < Codes(size, depth)
        /\ b >= short => /\ y = Append(v, t[2]) /\ t[2] \in 0..size - 1
                         /\ t[1] \in Nat /\ t[1] >= short /\ t[1] < Codes(size, depth)
    BY <2>0, LabelIs
  <2>3. a \in Nat /\ b \in Nat /\ (a < short \/ a >= short) /\ (b < short \/ b >= short)
    <3> HIDE DEF short
    <3> QED BY <2>0
  <2>4. a >= short /\ b >= short /\ s[1] = t[1] /\ s[2] = t[2] => a = b
    BY <2>0, ChildrenDiffer
  <2>5. m \in Nat /\ n \in Nat /\ m < Codes(size, depth) /\ n < Codes(size, depth)
    BY <2>1, <2>2, <2>3
  <2>6. u = v => m = n
    BY <2>1, <2>5, CodesDiffer
  <2> HIDE DEF u, v, x, y, s, t, depth, short
  <2>7. /\ DOMAIN u = 1..depth /\ DOMAIN v = 1..depth
        /\ u = [i \in 1..depth |-> u[i]] /\ v = [i \in 1..depth |-> v[i]]
    BY <2>1, <2>2, LenProperties
  <2>8. /\ \A i \in 1..depth : x[i] = u[i]
        /\ a < short => DOMAIN x = 1..depth
        /\ a >= short => DOMAIN x = 1..depth + 1 /\ x[depth + 1] = s[2]
    <3>1. CASE a < short
      BY <2>0, <2>1, <2>3, <2>7, <3>1
    <3>2. CASE a >= short
      <4>1. /\ Append(u, s[2]) \in Seq(0..size - 1) /\ Len(Append(u, s[2])) = depth + 1
            /\ \A i \in 1..depth : Append(u, s[2])[i] = u[i]
            /\ Append(u, s[2])[depth + 1] = s[2]
        BY <2>1, <3>2, AppendProperties
      <4>2. DOMAIN Append(u, s[2]) = 1..depth + 1
        BY <4>1, LenProperties
      <4> QED BY <2>0, <2>1, <2>3, <3>2, <4>1, <4>2
    <3> QED BY <2>3, <3>1, <3>2
  <2>9. /\ \A i \in 1..depth : y[i] = v[i]
        /\ b < short => DOMAIN y = 1..depth
        /\ b >= short => DOMAIN y = 1..depth + 1 /\ y[depth + 1] = t[2]
    <3>1. CASE b < short
      BY <2>0, <2>2, <2>3, <2>7, <3>1
    <3>2. CASE b >= short
      <4>1. /\ Append(v, t[2]) \in Seq(0..size - 1) /\ Len(Append(v, t[2])) = depth + 1
            /\ \A i \in 1..depth : Append(v, t[2])[i] = v[i]
            /\ Append(v, t[2])[depth + 1] = t[2]
        BY <2>2, <3>2, AppendProperties
      <4>2. DOMAIN Append(v, t[2]) = 1..depth + 1
        BY <4>1, LenProperties
      <4> QED BY <2>0, <2>2, <2>3, <3>2, <4>1, <4>2
    <3> QED BY <2>3, <3>1, <3>2
  <2>10. 1..depth \subseteq DOMAIN y
    BY <2>1, <2>3, <2>9
  <2>11. u = v
    <3>1. \A i \in 1..depth : u[i] = v[i]
      BY <1>0, <2>8, <2>9, <2>10
    <3> QED BY <2>7, <3>1
  <2>12. m = n
    BY <2>6, <2>11
  <2>13. CASE a < short
    <3>1. ~(b >= short)
      <4>1. b >= short => depth + 1 \in DOMAIN y /\ depth + 1 \notin DOMAIN x
        BY <2>1, <2>8, <2>9, <2>13
      <4> QED BY <1>0, <4>1
    <3> QED BY <2>3, <2>12, <2>13, <3>1
  <2>14. CASE a >= short /\ b < short
    BY <2>0, <2>1, <2>3, <2>12, <2>14
  <2>15. CASE a >= short /\ b >= short
    <3>1. s[1] = t[1]
      BY <2>0, <2>3, <2>12, <2>15
    <3>2. depth + 1 \in DOMAIN y
      BY <2>1, <2>9, <2>15
    <3>3. s[2] = t[2]
      BY <1>0, <2>8, <2>9, <2>15, <3>2
    <3> QED BY <2>4, <2>15, <3>1, <3>3
  <2> QED BY <2>3, <2>13, <2>14, <2>15
<1> QED BY <1>1, <1>2

LEMMA LabelExists ==
    ASSUME NEW size \in Nat \ {0, 1}, NEW count \in Nat, NEW rank \in 0..count - 1
    PROVE  assign_label(rank, count, size) \in Seq(0..size - 1) /\ assign_label(rank, count, size) # <<>>
<1>1. CASE count <= size
  <2>1. assign_label(rank, count, size) = <<rank>> /\ rank \in 0..size - 1
    BY <1>1 DEF assign_label
  <2> QED BY <2>1
<1>2. CASE size < count
  BY <1>2, LabelIs
<1> QED BY <1>1, <1>2

(* Whatever the targets and the alphabet, each has a label, and none begins     *)
(* with the label of another: typing a label names its target and no other, and *)
(* can be gone on with until it does (hints.cpp, freeze and assign_label).      *)
THEOREM LabelsAreApart ==
    ASSUME NEW ids \in SUBSET Nat, IsFiniteSet(ids), NEW size \in Nat \ {0, 1}
    PROVE  LabelsAgree(freeze(ids, size), size)
<1> DEFINE count == Cardinality(ids)
           rank(t) == Cardinality(Ahead(ids, TRUE, t))
           names == freeze(ids, size)
<1>1. count \in Nat /\ \A s, t \in ids : rank(s) = rank(t) => s = t
  BY Ranked
<1>2. ASSUME NEW t \in ids PROVE rank(t) \in 0..count - 1
  <2>1. IsFiniteSet(ids \ {t}) /\ Cardinality(ids \ {t}) = count - 1
    BY FS_RemoveElement
  <2>2. Ahead(ids, TRUE, t) \in SUBSET (ids \ {t})
    BY DEF Ahead
  <2>3. IsFiniteSet(Ahead(ids, TRUE, t)) /\ Cardinality(Ahead(ids, TRUE, t)) <= Cardinality(ids \ {t})
    BY <2>1, <2>2, FS_Subset
  <2>4. Cardinality(Ahead(ids, TRUE, t)) \in Nat
    BY <2>3, FS_CardinalityType
  <2> HIDE DEF count
  <2>5. Cardinality(Ahead(ids, TRUE, t)) <= count - 1
    BY <2>1, <2>3
  <2>6. rank(t) \in Nat /\ rank(t) <= count - 1 /\ count \in Nat
    BY <1>1, <2>4, <2>5
  <2> HIDE DEF rank
  <2> QED BY <2>6
<1>3. DOMAIN names = ids /\ \A t \in ids : names[t] = assign_label(rank(t), count, size)
  BY DEF freeze, Ahead
<1> HIDE DEF names, count, rank
<1>4. \A t \in DOMAIN names : names[t] \in Seq(0..size - 1) /\ names[t] # <<>>
  <2> TAKE t \in DOMAIN names
  <2>1. t \in ids /\ names[t] = assign_label(rank(t), count, size) /\ rank(t) \in 0..count - 1
    BY <1>2, <1>3
  <2> QED BY <1>1, <2>1, LabelExists
<1>5. ASSUME NEW s \in ids, NEW t \in ids, s # t
      PROVE  ~prefix_matches(names[s], names[t])
  <2>1. rank(s) # rank(t)
    BY <1>1, <1>5
  <2> QED BY <1>1, <1>2, <1>3, <2>1, LabelsDiffer
<1>6. LabelsAgree(names, size)
  BY <1>3, <1>4, <1>5 DEF LabelsAgree
<1> QED BY <1>6 DEF names

-------------------------------------------------------------------------------
(* From one anchor to the next.                                                 *)
LEMMA BetweenIs ==
    ASSUME storage \in SUBSET Nat, IsFiniteSet(storage), NEW a \in storage, NEW b \in storage
    PROVE  /\ Between(a, b) \in Seq(storage) /\ Between(a, b) # <<>>
           /\ Between(a, b)[1] = a /\ Between(a, b)[Len(Between(a, b))] = b
<1> DEFINE ids == {t \in storage : (a <= t /\ t <= b) \/ (b <= t /\ t <= a)}
           up == a < b
           n == Cardinality(ids)
           At(i) == CHOOSE t \in ids : Cardinality(Ahead(ids, up, t)) = i - 1
<1>0. a \in Nat /\ b \in Nat /\ \A t \in ids : t \in Nat
  OBVIOUS
<1>1. a \in ids /\ b \in ids /\ ids \in SUBSET Nat /\ ids \subseteq storage /\ up \in BOOLEAN
  <2>1. a <= a /\ b <= b /\ (a <= b \/ b <= a)
    BY <1>0
  <2>2. a \in ids /\ b \in ids
    BY <2>1
  <2>3. ids \subseteq storage
    OBVIOUS
  <2>4. ids \in SUBSET Nat
    BY <1>0
  <2>5. up \in BOOLEAN
    OBVIOUS
  <2> QED BY <2>2, <2>3, <2>4, <2>5
<1>2. IsFiniteSet(ids)
  BY FS_Subset
<1>3. /\ n \in Nat
      /\ \A i \in 1..n : \E t \in ids : Cardinality(Ahead(ids, up, t)) = i - 1
      /\ \A s, t \in ids : Cardinality(Ahead(ids, up, s)) = Cardinality(Ahead(ids, up, t)) => s = t
  BY ZenonT(60), <1>1, <1>2, Ranked
<1>4. Between(a, b) = [i \in 1..n |-> At(i)]
  BY DEF Between, Ahead
<1>5. Ahead(ids, up, a) = {} /\ Ahead(ids, up, b) = ids \ {b}
  BY <1>0, <1>1 DEF Ahead
<1>6. Cardinality(Ahead(ids, up, a)) = 0 /\ Cardinality(Ahead(ids, up, b)) = n - 1 /\ n # 0
  <2>1. Cardinality({}) = 0 /\ Cardinality(ids \ {b}) = n - 1
    BY <1>1, <1>2, FS_EmptySet, FS_RemoveElement
  <2>2. n # 0
    BY <1>1, <1>2, FS_EmptySet
  <2> QED BY <1>5, <2>1, <2>2
<1> HIDE DEF ids, up, n
<1>7. \A i \in 1..n : At(i) \in ids /\ Cardinality(Ahead(ids, up, At(i))) = i - 1
  BY <1>3
<1> HIDE DEF At
<1>8. 1 \in 1..n /\ n \in 1..n
  BY <1>3, <1>6
<1>9. At(1) = a /\ At(n) = b
  <2>1. /\ At(1) \in ids /\ Cardinality(Ahead(ids, up, At(1))) = 1 - 1
        /\ At(n) \in ids /\ Cardinality(Ahead(ids, up, At(n))) = n - 1
    BY <1>7, <1>8
  <2>2. \A s, t \in ids : Cardinality(Ahead(ids, up, s)) = Cardinality(Ahead(ids, up, t)) => s = t
    BY <1>3
  <2>3. At(1) = a
    <3>1. Cardinality(Ahead(ids, up, At(1))) = Cardinality(Ahead(ids, up, a))
      BY <1>6, <2>1
    <3> QED BY <1>1, <2>1, <2>2, <3>1
  <2>4. At(n) = b
    <3>1. Cardinality(Ahead(ids, up, At(n))) = Cardinality(Ahead(ids, up, b))
      BY <1>6, <2>1
    <3> QED BY <1>1, <2>1, <2>2, <3>1
  <2> QED BY <2>3, <2>4
<1>10. [i \in 1..n |-> At(i)] \in Seq(storage)
  <2>1. \A i \in 1..n : At(i) \in storage
    BY <1>1, <1>7
  <2> QED BY <1>3, <2>1
<1>11. Len([i \in 1..n |-> At(i)]) = n
  BY <1>3
<1> QED BY <1>3, <1>4, <1>6, <1>8, <1>9, <1>10, <1>11

(* The path that a segment more makes of a path.                                *)
LEMMA Extended ==
    ASSUME NEW T, NEW path \in Seq(T), path # <<>>, NEW piece \in Seq(T), piece # <<>>,
           path[Len(path)] = piece[1]
    PROVE  LET longer == path \o Tail(piece)
           IN  /\ longer \in Seq(T) /\ longer # <<>>
               /\ longer[1] = path[1] /\ longer[Len(longer)] = piece[Len(piece)]
               /\ Range(path) \subseteq Range(longer)
<1> DEFINE tail == Tail(piece)
           longer == path \o tail
<1>1. /\ tail \in Seq(T) /\ Len(tail) = Len(piece) - 1
      /\ \A i \in 1..Len(tail) : tail[i] = piece[i + 1]
  OBVIOUS
<1>2. Len(path) \in Nat \ {0} /\ Len(piece) \in Nat \ {0}
  OBVIOUS
<1> HIDE DEF tail
<1>3. /\ longer \in Seq(T) /\ Len(longer) = Len(path) + Len(tail)
      /\ \A i \in 1..Len(longer) :
            longer[i] = IF i <= Len(path) THEN path[i] ELSE tail[i - Len(path)]
  <2>1. /\ path \o tail \in Seq(T) /\ Len(path \o tail) = Len(path) + Len(tail)
        /\ \A i \in 1..Len(path) + Len(tail) :
              (path \o tail)[i] = IF i <= Len(path) THEN path[i] ELSE tail[i - Len(path)]
    <3>1. path \in Seq(T) /\ tail \in Seq(T)
      BY <1>1
    <3> QED BY <3>1, ConcatProperties, Zenon
  <2> QED BY <2>1
<1> HIDE DEF longer
<1>3a. Len(tail) \in Nat /\ Len(longer) \in Nat /\ Len(longer) = Len(path) + Len(piece) - 1
  BY <1>1, <1>2, <1>3
<1>4. longer # <<>> /\ longer[1] = path[1]
  <2>0. Len(<<>>) = 0
    OBVIOUS
  <2>1. Len(longer) # 0 /\ 1 \in 1..Len(longer) /\ 1 <= Len(path)
    BY <1>2, <1>3a
  <2> QED BY <1>3, <2>0, <2>1
<1>5. longer[Len(longer)] = piece[Len(piece)]
  <2>1. Len(longer) \in 1..Len(longer)
    BY <1>2, <1>3a
  <2>2. CASE Len(piece) = 1
    BY <1>2, <1>3, <1>3a, <2>1, <2>2
  <2>3. CASE Len(piece) # 1
    <3>1. ~(Len(longer) <= Len(path)) /\ Len(longer) - Len(path) = Len(tail) /\ Len(tail) \in 1..Len(tail)
      BY <1>1, <1>2, <1>3a, <2>3
    <3>2. longer[Len(longer)] = tail[Len(tail)]
      BY <1>3, <2>1, <3>1
    <3>3. tail[Len(tail)] = piece[Len(tail) + 1] /\ Len(tail) + 1 = Len(piece)
      BY <1>1, <1>2, <3>1
    <3> QED BY <3>2, <3>3
  <2> QED BY <2>2, <2>3
<1>6. Range(path) \subseteq Range(longer)
  <2>1. ASSUME NEW i \in 1..Len(path) PROVE longer[i] = path[i] /\ i \in 1..Len(longer)
    BY <1>2, <1>3, <1>3a
  <2>2. DOMAIN path = 1..Len(path) /\ DOMAIN longer = 1..Len(longer)
    BY <1>3
  <2> QED BY <2>1, <2>2 DEF Range
<1> QED BY <1>3, <1>4, <1>5, <1>6 DEF longer, tail

(* A path goes from the first of its anchors to the last, over all of them.     *)
PathUpTo(f, anchors, n) ==
    f = [i \in 1..n |-> IF i = 1 THEN <<anchors[1]>>
                        ELSE f[i - 1] \o Tail(Between(anchors[i - 1], anchors[i]))]
Leads(path, anchors, n) ==
    /\ path \in Seq(storage) /\ path # <<>>
    /\ path[1] = anchors[1] /\ path[Len(path)] = anchors[n]
    /\ \A j \in 1..n : anchors[j] \in Range(path)

(* The function that expand_path chooses exists.                               *)
LEMMA PathExists ==
    ASSUME NEW anchors, NEW count \in Nat \ {0}
    PROVE  \E f : PathUpTo(f, anchors, count)
<1> DEFINE Bad == {n \in Nat \ {0} : ~ \E f : PathUpTo(f, anchors, n)}
<1> SUFFICES ASSUME Bad # {}
             PROVE  FALSE
  OBVIOUS
<1>1. PICK n \in Bad : \A m \in Bad : n <= m
  <2>1. Bad \in SUBSET Nat
    OBVIOUS
  <2> HIDE DEF Bad
  <2> QED BY <2>1, LeastNumber
<1>2. CASE n = 1
  <2> DEFINE f == [i \in 1..1 |-> <<anchors[1]>>]
  <2>1. PathUpTo(f, anchors, 1)
    BY DEF PathUpTo
  <2> QED BY <1>2, <2>1
<1>3. CASE n # 1
  <2>1. n - 1 \in Nat \ {0} /\ n \in Nat
    BY <1>3
  <2>2. n - 1 \notin Bad
    BY <1>1, <2>1
  <2>3. PICK g : PathUpTo(g, anchors, n - 1)
    BY <2>1, <2>2
  <2> DEFINE f == [i \in 1..n |-> IF i = n THEN g[n - 1] \o Tail(Between(anchors[n - 1], anchors[n])) ELSE g[i]]
  <2>4. ASSUME NEW i \in 1..n
        PROVE  f[i] = IF i = 1 THEN <<anchors[1]>>
                      ELSE f[i - 1] \o Tail(Between(anchors[i - 1], anchors[i]))
    <3>1. CASE i = n
      <4>0. n \in 1..n /\ n - 1 \in 1..n /\ n - 1 # n
        BY <2>1
      <4>1. f[n] = g[n - 1] \o Tail(Between(anchors[n - 1], anchors[n])) /\ f[n - 1] = g[n - 1]
        BY <4>0, Zenon
      <4> HIDE DEF f
      <4> QED BY <1>3, <3>1, <4>1
    <3>2. CASE i # n
      <4>1. i \in 1..(n - 1)
        BY <2>1, <3>2
      <4>2. f[i] = g[i]
        BY <3>2
      <4>3. g[i] = IF i = 1 THEN <<anchors[1]>>
                   ELSE g[i - 1] \o Tail(Between(anchors[i - 1], anchors[i]))
        BY <2>3, <4>1 DEF PathUpTo
      <4>4. i # 1 => f[i - 1] = g[i - 1]
        BY <2>1, <4>1
      <4> HIDE DEF f
      <4> QED BY <4>2, <4>3, <4>4
    <3> QED BY <3>1, <3>2
  <2>5. f = [i \in 1..n |-> f[i]]
    OBVIOUS
  <2> HIDE DEF f
  <2>6. PathUpTo(f, anchors, n)
    BY <2>4, <2>5 DEF PathUpTo
  <2> QED BY <1>1, <2>6
<1> QED BY <1>2, <1>3

(* What expand_path gives: a sequence over the scene from the first anchor to   *)
(* the last, on which all the others lie. By induction over the anchors.        *)
THEOREM PathLeads ==
    ASSUME storage \in SUBSET Nat, IsFiniteSet(storage), NEW anchors \in Seq(storage),
           anchors # <<>>
    PROVE  Leads(expand_path(anchors), anchors, Len(anchors))
<1> DEFINE count == Len(anchors)
           path == CHOOSE f : PathUpTo(f, anchors, count)
           Bad == {n \in 1..count : ~Leads(path[n], anchors, n)}
<1>1. count \in Nat \ {0}
  BY EmptySeq
<1>2. PathUpTo(path, anchors, count)
  BY <1>1, PathExists
<1>3. expand_path(anchors) = path[count]
  BY DEF expand_path, PathUpTo
<1> HIDE DEF path
<1>4. ASSUME Bad # {} PROVE FALSE
  <2>1. PICK n \in Bad : \A m \in Bad : n <= m
    <3>1. Bad \in SUBSET Nat
      BY <1>1
    <3> HIDE DEF Bad
    <3> QED BY <1>4, <3>1, LeastNumber
  <2>2. n \in 1..count /\ count \in Nat
    BY <1>1
  <2>3. path[n] = IF n = 1 THEN <<anchors[1]>>
                  ELSE path[n - 1] \o Tail(Between(anchors[n - 1], anchors[n]))
    BY <1>2, <2>2 DEF PathUpTo
  <2>4. \A i \in 1..count : anchors[i] \in storage
    BY ElementOfSeq
  <2>5. CASE n = 1
    <3>1. path[1] = <<anchors[1]>> /\ anchors[1] \in storage
      BY <2>2, <2>3, <2>4, <2>5
    <3>2. Leads(<<anchors[1]>>, anchors, 1)
      <4>1. /\ <<anchors[1]>> \in Seq(storage) /\ <<anchors[1]>> # <<>>
            /\ Len(<<anchors[1]>>) = 1 /\ <<anchors[1]>>[1] = anchors[1] /\ 1 \in DOMAIN <<anchors[1]>>
        BY <3>1
      <4>2. \A j \in 1..1 : j = 1
        OBVIOUS
      <4>3. anchors[1] \in Range(<<anchors[1]>>)
        BY <4>1 DEF Range
      <4> QED BY <4>1, <4>2, <4>3 DEF Leads
    <3> QED BY <2>1, <2>5, <3>1, <3>2
  <2>6. CASE n # 1
    <3> DEFINE piece == Between(anchors[n - 1], anchors[n])
               before == path[n - 1]
    <3>1. n - 1 \in 1..count
      BY <2>2, <2>6
    <3>2. n - 1 \notin Bad
      BY <2>1, <2>2, <3>1
    <3>3. Leads(before, anchors, n - 1)
      BY <3>1, <3>2
    <3>4. /\ piece \in Seq(storage) /\ piece # <<>>
          /\ piece[1] = anchors[n - 1] /\ piece[Len(piece)] = anchors[n]
      BY <2>2, <2>4, <3>1, BetweenIs
    <3>5. path[n] = before \o Tail(piece)
      BY <2>3, <2>6
    <3> HIDE DEF before, piece
    <3>6. LET longer == before \o Tail(piece)
          IN  /\ longer \in Seq(storage) /\ longer # <<>>
              /\ longer[1] = before[1] /\ longer[Len(longer)] = piece[Len(piece)]
              /\ Range(before) \subseteq Range(longer)
      BY <3>3, <3>4, Extended DEF Leads
    <3>7. /\ path[n] \in Seq(storage) /\ path[n] # <<>>
          /\ path[n][1] = anchors[1] /\ path[n][Len(path[n])] = anchors[n]
          /\ Range(before) \subseteq Range(path[n])
      BY <3>3, <3>4, <3>5, <3>6 DEF Leads
    <3>8. ASSUME NEW j \in 1..n PROVE anchors[j] \in Range(path[n])
      <4>1. CASE j = n
        <5>1. Len(path[n]) \in DOMAIN path[n]
          BY <3>7, EmptySeq, LenProperties
        <5> QED BY <3>7, <4>1, <5>1 DEF Range
      <4>2. CASE j # n
        <5>1. j \in 1..(n - 1)
          BY <2>2, <4>2
        <5> QED BY <3>3, <3>7, <5>1 DEF Leads
      <4> QED BY <4>1, <4>2
    <3>9. Leads(path[n], anchors, n)
      BY <3>7, <3>8 DEF Leads
    <3> QED BY <2>1, <3>9
  <2> QED BY <2>5, <2>6
<1> QED BY <1>1, <1>3, <1>4

-------------------------------------------------------------------------------
(* What is typed and what is chosen go together, and nothing is executed while  *)
(* a session is open.                                                          *)
ChosenAsTyped ==
    active =>
        /\ typed \in Seq(Seq(0..Alphabet - 1)) /\ Len(typed) = Len(selection.ids)
        /\ \A i \in 1..Len(typed) : selection.ids[i] = Named(shown, typed[i])
        /\ plan = <<>>

(* The types, in the parts that the actions change apart.                       *)
EnvTypes ==
    /\ scene \in [epoch : 1..MaxScene, space : 1..MaxSpace, ids : Scenes]
    /\ focus \in 1..MaxFocus /\ permission \in 1..MaxPermission /\ allowed \in BOOLEAN
LastTypes == last \in [kind : Kinds \cup {"none"}, deferred : BOOLEAN, mode : Modes]
EngineTypes ==
    /\ active \in BOOLEAN /\ late \in BOOLEAN
    /\ context \in [scene : 0..MaxScene, space : 0..MaxSpace,
                    focus : 0..MaxFocus, permission : 0..MaxPermission]
    /\ action \in [kind : Kinds \cup {"none"}, deferred : BOOLEAN]
    /\ mode \in Modes
    /\ storage \subseteq Ids /\ DOMAIN labels \subseteq Ids \cup {0} /\ hinted \in 0..MaxScene
    /\ selection \in [state : {"idle", "collecting", "complete"}, ids : Seq(Ids)]
    /\ prefix \in Seq(0..Alphabet - 1)
    /\ plan \in Seq(Ids)

LEMMA TypesAre == TypeOK <=> EnvTypes /\ LastTypes /\ EngineTypes
BY DEF TypeOK, EnvTypes, LastTypes, EngineTypes

(* The inductive invariant of the session.                                      *)
SessionInv == EnvTypes /\ LastTypes /\ EngineTypes /\ SessionAgrees /\ ChosenAsTyped

(* Facts about the bounds, the empty sequence, Front, Range and Append.         *)
LEMMA Bounds == MaxScene \in Nat \ {0} /\ MaxSpace \in Nat \ {0} /\ MaxFocus \in Nat \ {0} /\ MaxPermission \in Nat \ {0}
BY SessionAssumption

LEMMA Nothing == <<>> \in Seq(Ids) /\ <<>> \in Seq(0..Alphabet - 1) /\ Len(<<>>) = 0 /\ DOMAIN <<>> = {}
BY EmptySeq

LEMMA FrontIs ==
    ASSUME NEW S, NEW s \in Seq(S), s # <<>>
    PROVE  /\ Front(s) \in Seq(S) /\ Len(Front(s)) = Len(s) - 1 /\ Len(s) \in Nat \ {0}
           /\ \A i \in 1..Len(s) - 1 : Front(s)[i] = s[i]
<1> DEFINE n == Len(s)
<1>1. n \in Nat \ {0}
  BY EmptySeq
<1>2. \A i \in 1..(n - 1) : s[i] \in S
  BY <1>1, ElementOfSeq
<1>3. /\ SubSeq(s, 1, n - 1) \in Seq(S)
      /\ Len(SubSeq(s, 1, n - 1)) = IF 1 <= n - 1 THEN n - 1 - 1 + 1 ELSE 0
      /\ \A i \in 1..(n - 1 - 1 + 1) : SubSeq(s, 1, n - 1)[i] = s[1 + i - 1]
  BY <1>1, <1>2, SubSeqProperties
<1>a. Front(s) = SubSeq(s, 1, n - 1)
  BY DEF Front
<1> HIDE DEF n
<1>4. n - 1 - 1 + 1 = n - 1 /\ (1 <= n - 1 \/ n - 1 = 0)
  BY <1>1
<1>5. Len(SubSeq(s, 1, n - 1)) = n - 1
  BY <1>3, <1>4
<1>6. \A i \in 1..n - 1 : SubSeq(s, 1, n - 1)[i] = s[i]
  <2> TAKE i \in 1..n - 1
  <2>1. 1 + i - 1 = i
    BY <1>1
  <2> QED BY <1>3, <1>4, <2>1
<1> QED BY <1>1, <1>3, <1>5, <1>6, <1>a DEF n

LEMMA RangeSeq ==
    ASSUME NEW S, NEW s \in Seq(S), NEW D
    PROVE  /\ Range(s) \subseteq D <=> s \in Seq(D)
           /\ Range(s) \subseteq S
<1>1. s \in [1..Len(s) -> S] /\ Len(s) \in Nat /\ DOMAIN s = 1..Len(s)
  BY LenProperties
<1>2. Range(s) \subseteq D => s \in [1..Len(s) -> D]
  BY <1>1 DEF Range
<1>3. s \in [1..Len(s) -> D] => s \in Seq(D)
  BY <1>1, SeqDef
<1>4. s \in Seq(D) => s \in [1..Len(s) -> D]
  BY LenProperties
<1>5. s \in [1..Len(s) -> D] => Range(s) \subseteq D
  BY DEF Range
<1>6. Range(s) \subseteq S
  BY <1>1 DEF Range
<1> QED BY <1>2, <1>3, <1>4, <1>5, <1>6

(* A session that ends leaves nothing.                                          *)
LEMMA ResetLeavesNothing ==
    ASSUME reset_session, plan' \in Seq(Ids)
    PROVE  EngineTypes' /\ SessionAgrees' /\ ChosenAsTyped'
<1>1. EngineTypes'
  <2>1. active' \in BOOLEAN /\ late' \in BOOLEAN /\ mode' \in Modes
    BY DEF reset_session, Modes
  <2>2. context' \in [scene : 0..MaxScene, space : 0..MaxSpace,
                      focus : 0..MaxFocus, permission : 0..MaxPermission]
    BY Bounds DEF reset_session, NoContext
  <2>3. action' \in [kind : Kinds \cup {"none"}, deferred : BOOLEAN]
    BY DEF reset_session, None
  <2>4. storage' \subseteq Ids /\ DOMAIN labels' \subseteq Ids \cup {0} /\ hinted' \in 0..MaxScene
    BY Bounds, Nothing DEF reset_session
  <2>5. selection' \in [state : {"idle", "collecting", "complete"}, ids : Seq(Ids)]
    BY Nothing DEF reset_session, Idle
  <2>6. prefix' \in Seq(0..Alphabet - 1)
    BY Nothing DEF reset_session
  <2> QED BY <2>1, <2>2, <2>3, <2>4, <2>5, <2>6 DEF EngineTypes
<1>2. SessionAgrees'
  BY DEF reset_session, SessionAgrees
<1>3. ChosenAsTyped'
  BY DEF reset_session, ChosenAsTyped
<1> QED BY <1>1, <1>2, <1>3

LEMMA EndedHolds ==
    ASSUME SessionInv, Ended, UNCHANGED env
    PROVE  EnvTypes' /\ EngineTypes' /\ SessionAgrees' /\ ChosenAsTyped' /\ plan' = plan
<1>1. EnvTypes'
  BY DEF SessionInv, EnvTypes, env
<1>2. plan' = plan /\ plan' \in Seq(Ids)
  BY DEF Ended, SessionInv, EngineTypes
<1> QED BY <1>1, <1>2, ResetLeavesNothing DEF Ended

(* What a step that leaves the session alone keeps.                             *)
LEMMA EngineKept ==
    ASSUME SessionInv, UNCHANGED <<engine, ghosts, plan>>, late' \in BOOLEAN, late' => active \/ late,
           scene'.epoch \in Nat, scene.epoch <= scene'.epoch
    PROVE  EngineTypes' /\ SessionAgrees' /\ ChosenAsTyped'
<1>1. EngineTypes'
  BY DEF SessionInv, EngineTypes, engine
<1>2. ChosenAsTyped'
  BY DEF SessionInv, ChosenAsTyped, engine, ghosts
<1>3. active => context.scene \in Nat /\ scene.epoch \in Nat /\ context.scene <= scene.epoch
  BY Bounds DEF SessionInv, SessionAgrees, EngineTypes, EnvTypes
<1>4. SessionAgrees'
  BY <1>3 DEF SessionInv, SessionAgrees, engine, ghosts, Candidates
<1> QED BY <1>1, <1>2, <1>4

(* A session that begins.                                                      *)
LEMMA BeginHolds ==
    ASSUME SessionInv, NEW what, what.kind \in Kinds, what.deferred \in BOOLEAN,
           NEW m \in Modes, begin_action(what, m)
    PROVE  SessionInv' /\ plan' = <<>>
<1> USE DEF begin_action, begin_scene, Begins
<1>1. scene.ids \in Scenes /\ scene.ids \subseteq Ids /\ scene.ids # {}
  BY SessionAssumption DEF SessionInv, EnvTypes
<1>2. EnvTypes' /\ LastTypes'
  BY DEF SessionInv, EnvTypes, LastTypes, env, Kinds
<1>3. DOMAIN labels' = scene.ids
  BY DEF freeze
<1>4. EngineTypes'
  <2>1. active' \in BOOLEAN /\ late' \in BOOLEAN /\ mode' \in Modes
    OBVIOUS
  <2>2. context' \in [scene : 0..MaxScene, space : 0..MaxSpace,
                      focus : 0..MaxFocus, permission : 0..MaxPermission]
    BY Bounds DEF SessionInv, EnvTypes
  <2>3. action' \in [kind : Kinds \cup {"none"}, deferred : BOOLEAN]
    OBVIOUS
  <2>4. storage' \subseteq Ids /\ DOMAIN labels' \subseteq Ids \cup {0} /\ hinted' \in 0..MaxScene
    BY <1>1, <1>3, Bounds DEF SessionInv, EnvTypes
  <2>5. selection' \in [state : {"idle", "collecting", "complete"}, ids : Seq(Ids)]
    BY Nothing DEF Collecting
  <2>6. prefix' \in Seq(0..Alphabet - 1) /\ plan' \in Seq(Ids)
    BY Nothing
  <2> QED BY <2>1, <2>2, <2>3, <2>4, <2>5, <2>6 DEF EngineTypes
<1>5. SessionAgrees'
  <2>1. Candidates(labels', <<>>) # {}
    BY <1>1, <1>3, Nothing DEF Candidates, prefix_matches
  <2>2. Range(selection'.ids) \subseteq DOMAIN labels'
    BY Nothing DEF Collecting, Range
  <2>3. context'.scene <= scene'.epoch
    BY Bounds DEF SessionInv, EnvTypes, env
  <2>4. Candidates(labels, prefix)' = Candidates(labels', <<>>)
    BY DEF Candidates, prefix_matches
  <2>5. LabelsAgree(labels', Alphabet)
    <3>1. scene.ids \in SUBSET Nat /\ IsFiniteSet(scene.ids) /\ Alphabet \in Nat \ {0, 1}
      BY <1>1, SessionAssumption, FS_Subset
    <3> QED BY <3>1, LabelsAreApart
  <2>6. LabelsAgree(labels, Alphabet)' = LabelsAgree(labels', Alphabet)
    BY DEF LabelsAgree, prefix_matches
  <2> QED BY <1>1, <1>3, <2>1, <2>2, <2>3, <2>4, <2>5, <2>6 DEF SessionAgrees, Collecting
<1>6. ChosenAsTyped'
  <2>1. <<>> \in Seq(Seq(0..Alphabet - 1))
    BY EmptySeq
  <2> QED BY <2>1, Nothing DEF ChosenAsTyped, Collecting
<1> QED BY <1>2, <1>4, <1>5, <1>6 DEF SessionInv

LEMMA AppendIs ==
    ASSUME NEW S, NEW s \in Seq(S), NEW x \in S
    PROVE  /\ Append(s, x) \in Seq(S) /\ Len(Append(s, x)) = Len(s) + 1 /\ Len(s) \in Nat
           /\ \A i \in 1..Len(s) : Append(s, x)[i] = s[i]
           /\ Append(s, x)[Len(s) + 1] = x
BY AppendProperties, LenProperties

(* A plan is executed, or refused: the session ends either way.                 *)
LEMMA ExecuteHolds ==
    ASSUME SessionInv, NEW ids \in Seq(Ids), NEW keys, NEW left, Range(ids) \subseteq storage,
           execute_selection(ids, keys, left), UNCHANGED <<env, last>>
    PROVE  /\ SessionInv' /\ reset_session /\ typed' = keys /\ shown' = shown
           /\ plan' = plan \/ (plan' = ids /\ validate_execution_preflight(ids))
<1>1. /\ reset_session /\ typed' = keys /\ shown' = shown
      /\ plan' = plan \/ (plan' = ids /\ validate_execution_preflight(ids))
  BY DEF execute_selection
<1>2. plan' \in Seq(Ids)
  BY <1>1 DEF SessionInv, EngineTypes
<1>3. EngineTypes' /\ SessionAgrees' /\ ChosenAsTyped'
  BY <1>1, <1>2, ResetLeavesNothing
<1>4. EnvTypes' /\ LastTypes'
  BY DEF SessionInv, EnvTypes, LastTypes, env
<1> QED BY <1>1, <1>3, <1>4 DEF SessionInv

(* What was typed, read with the labels that were shown, is what was chosen.    *)
Said == [i \in DOMAIN typed |-> Named(shown, typed[i])]
LEMMA SaidIsChosen ==
    ASSUME SessionInv, active
    PROVE  Said = selection.ids
<1>1. /\ typed \in Seq(Seq(0..Alphabet - 1)) /\ Len(typed) = Len(selection.ids)
      /\ \A i \in 1..Len(typed) : selection.ids[i] = Named(shown, typed[i])
  BY DEF SessionInv, ChosenAsTyped
<1>2. selection.ids \in Seq(Ids)
  BY DEF SessionInv, EngineTypes
<1>3. /\ DOMAIN typed = 1..Len(typed) /\ DOMAIN selection.ids = 1..Len(selection.ids)
      /\ selection.ids = [i \in 1..Len(selection.ids) |-> selection.ids[i]]
  BY <1>1, <1>2, LenProperties
<1> QED BY <1>1, <1>3 DEF Said

(* A target that is chosen is the one whose label was typed.                    *)
LEMMA Chooses ==
    ASSUME SessionInv, active, NEW symbols \in Seq(0..Alphabet - 1), Exact(labels, symbols)
    PROVE  LET target == Named(labels, symbols)
               chosen == Append(selection.ids, target)
               keys   == Append(typed, symbols)
           IN  /\ target \in DOMAIN labels /\ target \in Ids
               /\ chosen \in Seq(Ids) /\ Range(chosen) \subseteq DOMAIN labels
               /\ keys \in Seq(Seq(0..Alphabet - 1)) /\ Len(keys) = Len(chosen)
               /\ \A i \in 1..Len(keys) : chosen[i] = Named(shown, keys[i])
<1> DEFINE target == Named(labels, symbols)
           chosen == Append(selection.ids, target)
           keys   == Append(typed, symbols)
<1>1. /\ labels = shown /\ DOMAIN labels \subseteq storage /\ storage \subseteq Ids
      /\ selection.ids \in Seq(Ids) /\ Range(selection.ids) \subseteq DOMAIN labels
      /\ typed \in Seq(Seq(0..Alphabet - 1)) /\ Len(typed) = Len(selection.ids)
      /\ \A i \in 1..Len(typed) : selection.ids[i] = Named(shown, typed[i])
  BY DEF SessionInv, SessionAgrees, ChosenAsTyped, EngineTypes
<1>2. target \in DOMAIN labels /\ target \in Ids /\ target = Named(shown, symbols)
  BY <1>1 DEF Exact, Named
<1> HIDE DEF target
<1>3. selection.ids \in Seq(DOMAIN labels)
  BY <1>1, RangeSeq
<1>4. chosen \in Seq(DOMAIN labels) /\ chosen \in Seq(Ids)
  BY <1>1, <1>2, <1>3, AppendIs
<1>5. Range(chosen) \subseteq DOMAIN labels
  BY <1>4, RangeSeq
<1>6. /\ Len(chosen) = Len(selection.ids) + 1 /\ Len(selection.ids) \in Nat
      /\ \A i \in 1..Len(selection.ids) : chosen[i] = selection.ids[i]
      /\ chosen[Len(selection.ids) + 1] = target
  BY <1>1, <1>2, AppendIs
<1>7. /\ keys \in Seq(Seq(0..Alphabet - 1)) /\ Len(keys) = Len(typed) + 1
      /\ \A i \in 1..Len(typed) : keys[i] = typed[i]
      /\ keys[Len(typed) + 1] = symbols
  BY <1>1, AppendIs
<1> HIDE DEF chosen, keys
<1>8. ASSUME NEW i \in 1..Len(keys) PROVE chosen[i] = Named(shown, keys[i])
  <2>1. CASE i = Len(typed) + 1
    BY <1>1, <1>2, <1>6, <1>7, <2>1
  <2>2. CASE i # Len(typed) + 1
    <3>1. i \in 1..Len(typed)
      BY <1>1, <1>6, <1>7, <2>2
    <3> QED BY <1>1, <1>6, <1>7, <3>1
  <2> QED BY <2>1, <2>2
<1> QED BY <1>1, <1>2, <1>4, <1>5, <1>6, <1>7, <1>8 DEF target, chosen, keys

(* An open session whose keys or choices change.                                *)
LEMMA KeysHold ==
    ASSUME SessionInv, active, UNCHANGED <<env, last, active, context, action, storage, labels,
                                           hinted, late, shown, plan>>,
           mode' \in Modes,
           prefix' \in Seq(0..Alphabet - 1), Candidates(labels, prefix') # {},
           selection'.state = "collecting" \/ (selection'.state = "complete" /\ action.deferred),
           selection' \in [state : {"idle", "collecting", "complete"}, ids : Seq(Ids)],
           Range(selection'.ids) \subseteq DOMAIN labels,
           typed' \in Seq(Seq(0..Alphabet - 1)), Len(typed') = Len(selection'.ids),
           \A i \in 1..Len(typed') : selection'.ids[i] = Named(shown, typed'[i])
    PROVE  SessionInv' /\ plan' = plan
<1>1. EnvTypes' /\ LastTypes'
  BY DEF SessionInv, EnvTypes, LastTypes, env
<1>2. EngineTypes'
  BY DEF SessionInv, EngineTypes
<1>3. ChosenAsTyped'
  BY DEF SessionInv, ChosenAsTyped, Named
<1>4. SessionAgrees'
  <2>1. Candidates(labels, prefix)' = Candidates(labels, prefix')
    BY DEF Candidates, prefix_matches
  <2> QED BY <2>1 DEF SessionInv, SessionAgrees, env
<1> QED BY <1>1, <1>2, <1>3, <1>4 DEF SessionInv

(* A symbol narrows the prefix, chooses a target or executes what is chosen.    *)
LEMMA EnterHolds ==
    ASSUME SessionInv, NEW symbol \in 0..Alphabet - 1, EnterSymbol(symbol)
    PROVE  /\ SessionInv'
           /\ \/ plan' = plan
              \/ /\ active /\ ~active' /\ ~late /\ mode # "path" /\ plan' = Said'
                 /\ shown' = shown
                 /\ Range(plan') \subseteq scene.ids
<1> DEFINE symbols == Append(prefix, symbol)
           exact   == Exact(labels, symbols)
           target  == Named(labels, symbols)
           chosen  == Append(selection.ids, target)
           keys    == Append(typed, symbols)
           full    == mode = "single" \/ (mode = "dual" /\ Len(chosen) = 2)
<1>1. active /\ ~late /\ Candidates(labels, symbols) # {}
  BY DEF EnterSymbol
<1>2. prefix \in Seq(0..Alphabet - 1) /\ symbols \in Seq(0..Alphabet - 1)
  BY AppendIs DEF SessionInv, EngineTypes
<1>3. CASE /\ prefix' = symbols /\ Keeps /\ UNCHANGED <<selection, typed>>
  <2>1. /\ mode' \in Modes /\ Range(selection'.ids) \subseteq DOMAIN labels
        /\ selection' \in [state : {"idle", "collecting", "complete"}, ids : Seq(Ids)]
        /\ selection'.state = "collecting" \/ (selection'.state = "complete" /\ action.deferred)
        /\ typed' \in Seq(Seq(0..Alphabet - 1)) /\ Len(typed') = Len(selection'.ids)
        /\ \A i \in 1..Len(typed') : selection'.ids[i] = Named(shown, typed'[i])
    BY <1>1, <1>3 DEF SessionInv, SessionAgrees, ChosenAsTyped, EngineTypes, Keeps
  <2> HIDE DEF symbols
  <2> QED BY <1>1, <1>2, <1>3, <2>1, KeysHold DEF Keeps
<1>4. CASE exact /\ selection.state = "collecting" /\ ~(prefix' = symbols /\ Keeps /\ UNCHANGED <<selection, typed>>)
  <2>1. /\ target \in DOMAIN labels /\ target \in Ids
        /\ chosen \in Seq(Ids) /\ Range(chosen) \subseteq DOMAIN labels
        /\ keys \in Seq(Seq(0..Alphabet - 1)) /\ Len(keys) = Len(chosen)
        /\ \A i \in 1..Len(keys) : chosen[i] = Named(shown, keys[i])
    BY <1>1, <1>2, <1>4, Chooses
  <2>2. IF full /\ ~action.deferred
        THEN execute_selection(chosen, keys, <<>>) /\ UNCHANGED <<env, last>>
        ELSE /\ prefix' = <<>> /\ typed' = keys
             /\ selection' = [state |-> IF full THEN "complete" ELSE "collecting",
                              ids |-> chosen]
             /\ Keeps
    BY <1>4 DEF EnterSymbol
  <2> HIDE DEF target, chosen, keys, symbols, exact
  <2>3. CASE full /\ ~action.deferred
    <3>1. Range(chosen) \subseteq storage
      BY <1>1, <2>1 DEF SessionInv, SessionAgrees
    <3>2. /\ SessionInv' /\ reset_session /\ typed' = keys /\ shown' = shown
          /\ plan' = plan \/ (plan' = chosen /\ validate_execution_preflight(chosen))
      BY <2>1, <2>2, <2>3, <3>1, ExecuteHolds
    <3>3. ~active' /\ mode # "path"
      BY <2>3, <3>2 DEF reset_session
    <3>4. Said' = chosen
      <4>1. Said' = [i \in DOMAIN keys |-> Named(shown, keys[i])]
        BY <3>2 DEF Said, Named
      <4>2. /\ DOMAIN keys = 1..Len(keys) /\ chosen = [i \in 1..Len(chosen) |-> chosen[i]]
        BY <2>1, LenProperties
      <4> QED BY <2>1, <4>1, <4>2
    <3>5. plan' = plan \/ (plan' = chosen /\ Range(plan') \subseteq scene.ids)
      BY <3>2 DEF validate_execution_preflight
    <3> QED BY <1>1, <3>2, <3>3, <3>4, <3>5
  <2>4. CASE ~(full /\ ~action.deferred)
    <3>1. /\ prefix' = <<>> /\ typed' = keys /\ Keeps
          /\ selection' = [state |-> IF full THEN "complete" ELSE "collecting", ids |-> chosen]
      BY <2>2, <2>4
    <3>2. /\ selection'.ids = chosen
          /\ selection' \in [state : {"idle", "collecting", "complete"}, ids : Seq(Ids)]
          /\ selection'.state = "collecting" \/ (selection'.state = "complete" /\ action.deferred)
      BY <2>1, <2>4, <3>1
    <3>3. Candidates(labels, <<>>) # {}
      BY <2>1, Nothing DEF Candidates, prefix_matches
    <3>4. mode' \in Modes
      BY <3>1 DEF Keeps, SessionInv, EngineTypes
    <3> QED BY <1>1, <2>1, <3>1, <3>2, <3>3, <3>4, Nothing, KeysHold DEF Keeps
  <2> QED BY <2>3, <2>4
<1>5. \/ prefix' = symbols /\ Keeps /\ UNCHANGED <<selection, typed>>
      \/ exact /\ selection.state = "collecting"
  BY DEF EnterSymbol
<1> QED BY <1>3, <1>4, <1>5

(* What is confirmed is what was chosen, or the path over it.                   *)
LEMMA ConfirmHolds ==
    ASSUME SessionInv, Confirm
    PROVE  /\ SessionInv'
           /\ \/ plan' = plan
              \/ /\ active /\ ~active' /\ ~late /\ Range(plan') \subseteq scene.ids
                 /\ shown' = shown
                 /\ \/ plan' = Said'
                    \/ /\ mode = "path" /\ Said' # <<>> /\ Said' \in Seq(Ids)
                       /\ Leads(plan', Said', Len(Said'))
<1> DEFINE ids == Confirmed
<1>1. active /\ ~late /\ execute_selection(ids, typed, prefix) /\ UNCHANGED <<env, last>>
  BY DEF Confirm
<1>2. /\ selection.ids \in Seq(Ids) /\ Range(selection.ids) \subseteq storage
      /\ storage \subseteq Ids
  BY <1>1 DEF SessionInv, SessionAgrees, EngineTypes
<1>3. selection.ids \in Seq(storage)
  BY <1>2, RangeSeq
<1>4. \/ ids = selection.ids
      \/ mode = "path" /\ selection.ids # <<>> /\ Leads(ids, selection.ids, Len(selection.ids))
  <2>1. CASE mode = "path" /\ selection.state = "collecting"
    <3>1. Len(selection.ids) >= 2 \/ (action.deferred /\ selection.state = "complete")
             \/ (mode = "multi")
      BY DEF Confirm
    <3>2. selection.ids # <<>>
      BY <1>2, <2>1, <3>1, EmptySeq
    <3>3. storage \in SUBSET Nat /\ IsFiniteSet(storage)
      BY <1>2, SessionAssumption, FS_Subset
    <3>4. Leads(expand_path(selection.ids), selection.ids, Len(selection.ids))
      BY <1>3, <3>2, <3>3, PathLeads
    <3> QED BY <2>1, <3>2, <3>4 DEF Confirmed
  <2>2. CASE ~(mode = "path" /\ selection.state = "collecting")
    BY <2>2 DEF Confirmed
  <2> QED BY <2>1, <2>2
<1>5. ids \in Seq(storage)
  BY <1>3, <1>4 DEF Leads
<1>6. Range(ids) \subseteq storage /\ ids \in Seq(Ids)
  BY <1>2, <1>5, RangeSeq
<1> HIDE DEF ids
<1>7. /\ SessionInv' /\ reset_session /\ typed' = typed /\ shown' = shown
      /\ plan' = plan \/ (plan' = ids /\ validate_execution_preflight(ids))
  BY <1>1, <1>6, ExecuteHolds
<1>8. Said' = selection.ids
  <2>1. Said' = Said
    BY <1>7 DEF Said, Named
  <2> QED BY <1>1, <2>1, SaidIsChosen
<1>9. CASE plan' = ids /\ validate_execution_preflight(ids)
  <2>1. Range(plan') \subseteq scene.ids /\ ~active'
    BY <1>7, <1>9 DEF validate_execution_preflight, reset_session
  <2>2. CASE ids = selection.ids
    BY <1>1, <1>7, <1>8, <1>9, <2>1, <2>2
  <2>3. CASE mode = "path" /\ selection.ids # <<>> /\ Leads(ids, selection.ids, Len(selection.ids))
    <3>1. Leads(plan', Said', Len(Said')) = Leads(ids, selection.ids, Len(selection.ids))
      BY <1>8, <1>9
    <3> QED BY <1>1, <1>2, <1>7, <1>8, <1>9, <2>1, <2>3, <3>1
  <2> QED BY <1>4, <2>2, <2>3
<1> QED BY <1>7, <1>9

(* Backspace takes back one symbol or one choice of both sequences.             *)
LEMMA BackHolds ==
    ASSUME SessionInv, Backspace
    PROVE  SessionInv' /\ plan' = plan
<1>1. /\ active
      /\ UNCHANGED <<env, active, context, action, storage, labels, hinted, late, last, shown, plan>>
  BY DEF Backspace
<1>2. /\ mode \in Modes /\ selection.ids \in Seq(Ids) /\ Range(selection.ids) \subseteq DOMAIN labels
      /\ selection \in [state : {"idle", "collecting", "complete"}, ids : Seq(Ids)]
      /\ selection.state = "collecting" \/ (selection.state = "complete" /\ action.deferred)
      /\ typed \in Seq(Seq(0..Alphabet - 1)) /\ Len(typed) = Len(selection.ids)
      /\ \A i \in 1..Len(typed) : selection.ids[i] = Named(shown, typed[i])
      /\ prefix \in Seq(0..Alphabet - 1) /\ Candidates(labels, prefix) # {}
  BY <1>1 DEF SessionInv, SessionAgrees, ChosenAsTyped, EngineTypes
<1>3. CASE prefix # <<>> /\ prefix' = Front(prefix) /\ UNCHANGED <<mode, selection, typed>>
  <2>1. /\ prefix' \in Seq(0..Alphabet - 1) /\ Len(prefix') = Len(prefix) - 1
        /\ Len(prefix) \in Nat \ {0}
        /\ \A i \in 1..Len(prefix) - 1 : prefix'[i] = prefix[i]
    BY <1>2, <1>3, FrontIs
  <2>2. DOMAIN prefix' = 1..Len(prefix) - 1 /\ DOMAIN prefix = 1..Len(prefix)
    BY <1>2, <2>1, LenProperties
  <2>3. DOMAIN prefix' \subseteq DOMAIN prefix /\ \A i \in DOMAIN prefix' : prefix'[i] = prefix[i]
    BY <2>1, <2>2
  <2>4. Candidates(labels, prefix) \subseteq Candidates(labels, prefix')
    BY <2>3 DEF Candidates, prefix_matches
  <2> QED BY <1>1, <1>2, <1>3, <2>1, <2>4, KeysHold
<1>4. CASE /\ prefix = <<>> /\ action.deferred /\ selection.state = "complete"
           /\ selection' = Collecting /\ mode' = "single" /\ typed' = <<>>
           /\ UNCHANGED prefix
  <2>1. /\ selection'.ids = <<>> /\ selection'.state = "collecting" /\ Len(typed') = 0
        /\ selection' \in [state : {"idle", "collecting", "complete"}, ids : Seq(Ids)]
        /\ typed' \in Seq(Seq(0..Alphabet - 1)) /\ <<>> \in Seq(Ids)
        /\ Range(selection'.ids) \subseteq DOMAIN labels /\ mode' \in Modes
    BY <1>4, Nothing, EmptySeq DEF Collecting, Modes, Range
  <2> QED BY <1>1, <1>2, <1>4, <2>1, Nothing, KeysHold
<1>5. CASE /\ prefix = <<>> /\ selection.state = "collecting" /\ selection.ids # <<>>
           /\ selection' = [selection EXCEPT !.ids = Front(@)] /\ typed' = Front(typed)
           /\ UNCHANGED <<mode, prefix>>
  <2>0. typed # <<>>
    BY <1>2, <1>5, EmptySeq
  <2>1. /\ typed' \in Seq(Seq(0..Alphabet - 1)) /\ Len(typed') = Len(typed) - 1
        /\ Len(typed) \in Nat \ {0} /\ \A i \in 1..Len(typed) - 1 : typed'[i] = typed[i]
    BY <1>2, <1>5, <2>0, FrontIs
  <2>2. selection'.ids = Front(selection.ids) /\ selection'.state = "collecting"
    BY <1>2, <1>5
  <2>3. selection.ids \in Seq(DOMAIN labels)
    BY <1>2, RangeSeq
  <2>4. /\ selection'.ids \in Seq(DOMAIN labels) /\ selection'.ids \in Seq(Ids)
        /\ Len(selection'.ids) = Len(typed) - 1
        /\ \A i \in 1..Len(typed) - 1 : selection'.ids[i] = selection.ids[i]
    BY <1>2, <1>5, <2>2, <2>3, FrontIs
  <2>4a. selection' \in [state : {"idle", "collecting", "complete"}, ids : Seq(Ids)]
    BY <1>2, <1>5, <2>2, <2>4
  <2>5. Range(selection'.ids) \subseteq DOMAIN labels
    BY <2>4, RangeSeq
  <2>6. ASSUME NEW i \in 1..Len(typed') PROVE selection'.ids[i] = Named(shown, typed'[i])
    <3>1. i \in 1..Len(typed) - 1 /\ i \in 1..Len(typed)
      BY <2>1
    <3> QED BY <1>2, <2>1, <2>4, <3>1
  <2> QED BY <1>1, <1>2, <1>5, <2>1, <2>2, <2>4, <2>4a, <2>5, <2>6, KeysHold
<1> QED BY <1>3, <1>4, <1>5 DEF Backspace

(* tick keeps the session, with its scene or a newer one, or ends it.           *)
LEMMA TickHolds ==
    ASSUME SessionInv, Tick
    PROVE  SessionInv' /\ plan' = plan
<1>1. active /\ UNCHANGED <<env, last>>
  BY DEF Tick
<1>2. CASE Ended
  BY <1>1, <1>2, EndedHolds DEF SessionInv, LastTypes
<1>3. CASE /\ UNCHANGED <<context, storage, hinted, labels>>
           /\ UNCHANGED <<active, action, mode, selection, prefix, ghosts, late, plan>>
  <2>1. scene.epoch \in Nat /\ scene' = scene /\ late \in BOOLEAN
    BY <1>1, Bounds DEF SessionInv, EnvTypes, EngineTypes, env
  <2>2. EngineTypes' /\ SessionAgrees' /\ ChosenAsTyped'
    BY <1>3, <2>1, EngineKept DEF engine
  <2> QED BY <1>1, <1>3, <2>2 DEF SessionInv, EnvTypes, LastTypes, env
<1>4. CASE /\ Stays /\ Refreshable /\ refresh_latest
           /\ UNCHANGED <<active, action, mode, selection, prefix, ghosts, late, plan>>
  <2>1. /\ DOMAIN labels \subseteq scene.ids /\ Range(selection.ids) \subseteq scene.ids
        /\ storage' = scene.ids /\ hinted' = scene.epoch /\ labels' = labels
        /\ context' = [context EXCEPT !.scene = scene.epoch]
    BY <1>4 DEF refresh_latest, refresh_hints, refresh_selection
  <2>2. scene.epoch \in 1..MaxScene /\ scene.ids \subseteq Ids
    BY SessionAssumption DEF SessionInv, EnvTypes
  <2>3. /\ context' \in [scene : 0..MaxScene, space : 0..MaxSpace,
                         focus : 0..MaxFocus, permission : 0..MaxPermission]
        /\ context'.scene = scene.epoch
    <3>1. context \in [scene : 0..MaxScene, space : 0..MaxSpace,
                       focus : 0..MaxFocus, permission : 0..MaxPermission]
      BY DEF SessionInv, EngineTypes
    <3>2. scene.epoch \in 0..MaxScene
      BY <2>2, Bounds
    <3> QED BY <2>1, <3>1, <3>2
  <2>4. EngineTypes'
    BY <1>4, <2>1, <2>2, <2>3, Bounds DEF SessionInv, EngineTypes
  <2>5. ChosenAsTyped'
    BY <1>4 DEF SessionInv, ChosenAsTyped, ghosts
  <2>6. SessionAgrees'
    <3>1. Candidates(labels, prefix)' = Candidates(labels, prefix)
      BY <1>4, <2>1 DEF Candidates, prefix_matches
    <3>2. scene.epoch <= scene.epoch
      BY <2>2, Bounds
    <3> QED BY <1>1, <1>4, <2>1, <2>3, <3>1, <3>2 DEF SessionInv, SessionAgrees, ghosts, env
  <2>7. EnvTypes' /\ LastTypes'
    BY <1>1 DEF SessionInv, EnvTypes, LastTypes, env
  <2> QED BY <1>4, <2>4, <2>5, <2>6, <2>7 DEF SessionInv
<1> QED BY <1>2, <1>3, <1>4 DEF Tick

(* The actions that start nothing and choose nothing.                           *)
LEMMA OthersHold ==
    ASSUME SessionInv, Settings \/ Desktop \/ DeadlinePassed \/ Cancel \/ DeadlinePasses
    PROVE  SessionInv' /\ plan' = plan
<1>0. /\ scene.epoch \in Nat /\ late \in BOOLEAN /\ active \in BOOLEAN /\ scene.epoch <= scene.epoch
      /\ scene \in [epoch : 1..MaxScene, space : 1..MaxSpace, ids : Scenes]
  BY Bounds DEF SessionInv, EnvTypes, EngineTypes
<1>1. CASE Settings
  <2>1. LastTypes'
    <3>1. CASE Restart
      BY <3>1 DEF Restart, LastTypes, Modes
    <3>2. CASE \E m \in Modes : ChangeMode(m)
      BY <3>2 DEF ChangeMode, SessionInv, LastTypes
    <3> QED BY <1>1, <3>1, <3>2 DEF Settings
  <2>2. UNCHANGED env /\ (Ended \/ UNCHANGED <<engine, late, ghosts, plan>>)
    BY <1>1 DEF Settings, Restart, ChangeMode
  <2>3. CASE Ended
    BY <2>1, <2>2, <2>3, EndedHolds DEF SessionInv
  <2>4. CASE UNCHANGED <<engine, late, ghosts, plan>>
    <3>1. EngineTypes' /\ SessionAgrees' /\ ChosenAsTyped'
      BY <1>0, <2>2, <2>4, EngineKept DEF env
    <3> QED BY <2>1, <2>2, <2>4, <3>1 DEF SessionInv, EnvTypes, env
  <2> QED BY <2>2, <2>3, <2>4
<1>2. CASE DeadlinePassed \/ Cancel
  BY <1>2, EndedHolds DEF DeadlinePassed, Cancel, SessionInv, LastTypes
<1>3. CASE Desktop
  <2>1. /\ UNCHANGED <<engine, last, ghosts, late, plan>>
        /\ scene'.epoch \in Nat /\ scene.epoch <= scene'.epoch /\ EnvTypes'
    <3>1. CASE \E ids \in Scenes, moved \in BOOLEAN : Publish(ids, moved)
      <4>1. PICK ids \in Scenes, moved \in BOOLEAN : Publish(ids, moved)
        BY <3>1
      <4>2. /\ scene' = [epoch |-> scene.epoch + 1, ids |-> ids,
                         space |-> scene.space + (IF moved THEN 1 ELSE 0)]
            /\ scene.epoch < MaxScene /\ scene'.space <= MaxSpace
            /\ UNCHANGED <<focus, permission, allowed, engine, last, ghosts, late, plan>>
        BY <4>1 DEF Publish
      <4>3. scene.epoch + 1 \in 1..MaxScene /\ scene.epoch <= scene.epoch + 1
        BY <1>0, <4>2, Bounds
      <4>4. scene.space + (IF moved THEN 1 ELSE 0) \in 1..MaxSpace
        BY <1>0, <4>2, Bounds
      <4> QED BY <4>2, <4>3, <4>4, Bounds DEF SessionInv, EnvTypes
    <3>2. CASE ChangeFocus
      BY <1>0, <3>2, Bounds DEF ChangeFocus, SessionInv, EnvTypes
    <3>3. CASE ChangePermission
      BY <1>0, <3>3, Bounds DEF ChangePermission, SessionInv, EnvTypes
    <3> QED BY <1>3, <3>1, <3>2, <3>3 DEF Desktop
  <2>2. EngineTypes' /\ SessionAgrees' /\ ChosenAsTyped'
    BY <1>0, <2>1, EngineKept
  <2> QED BY <2>1, <2>2 DEF SessionInv, LastTypes
<1>4. CASE DeadlinePasses
  <2>1. /\ UNCHANGED <<engine, ghosts, plan, last, env>> /\ late' = TRUE /\ active
    BY <1>4 DEF DeadlinePasses
  <2>2. EngineTypes' /\ SessionAgrees' /\ ChosenAsTyped'
    BY <1>0, <2>1, EngineKept DEF env
  <2> QED BY <2>1, <2>2 DEF SessionInv, EnvTypes, LastTypes, env
<1> QED BY <1>1, <1>2, <1>3, <1>4

(* The actions that start a session.                                            *)
LEMMA StartsHold ==
    ASSUME SessionInv, Starts
    PROVE  SessionInv' /\ plan' = <<>>
<1>1. CASE Click
  <2>1. PICK m \in Modes : begin_action([kind |-> "click", deferred |-> FALSE], m)
    BY <1>1 DEF Click
  <2>2. [kind |-> "click", deferred |-> FALSE].kind \in Kinds
    BY DEF Kinds
  <2> QED BY <2>1, <2>2, BeginHolds
<1>2. CASE Hover \/ FreePointer
  <2>1. PICK d \in BOOLEAN : begin_action([kind |-> "move", deferred |-> d], "single")
    BY <1>2 DEF Hover, FreePointer
  <2>2. [kind |-> "move", deferred |-> d].kind \in Kinds /\ "single" \in Modes
    BY DEF Kinds, Modes
  <2> QED BY <2>1, <2>2, BeginHolds
<1>3. CASE Drag
  <2>1. [kind |-> "drag", deferred |-> FALSE].kind \in Kinds /\ "dual" \in Modes
    BY DEF Kinds, Modes
  <2> QED BY <1>3, <2>1, BeginHolds DEF Drag
<1>4. CASE RepeatAction
  <2>1. last.kind \in Kinds /\ last.deferred \in BOOLEAN /\ last.mode \in Modes
    BY <1>4 DEF RepeatAction, SessionInv, LastTypes
  <2> QED BY <1>4, <2>1, BeginHolds DEF RepeatAction
<1> QED BY <1>1, <1>2, <1>3, <1>4 DEF Starts

(* The invariant holds at first, in every step, and so always.                  *)
LEMMA SessionStarts == SessionInit => SessionInv
<1> SUFFICES ASSUME SessionInit
             PROVE  SessionInv
  OBVIOUS
<1>1. EnvTypes /\ LastTypes
  BY Bounds DEF SessionInit, EnvTypes, LastTypes, Modes
<1>2. EngineTypes
  <2>1. <<>> \in Seq(Ids) /\ <<>> \in Seq(0..Alphabet - 1) /\ DOMAIN <<>> = {}
    BY Nothing
  <2>2. context \in [scene : 0..MaxScene, space : 0..MaxSpace,
                     focus : 0..MaxFocus, permission : 0..MaxPermission]
    BY Bounds DEF SessionInit, NoContext
  <2>3. hinted \in 0..MaxScene /\ storage \subseteq Ids /\ DOMAIN labels \subseteq Ids \cup {0}
    BY <2>1, Bounds DEF SessionInit
  <2>4. action \in [kind : Kinds \cup {"none"}, deferred : BOOLEAN] /\ mode \in Modes
    BY DEF SessionInit, None, Modes
  <2>5. /\ selection \in [state : {"idle", "collecting", "complete"}, ids : Seq(Ids)]
        /\ prefix \in Seq(0..Alphabet - 1) /\ plan \in Seq(Ids)
    BY <2>1 DEF SessionInit, Idle
  <2>6. active \in BOOLEAN /\ late \in BOOLEAN
    BY DEF SessionInit
  <2> QED BY <2>2, <2>3, <2>4, <2>5, <2>6 DEF EngineTypes
<1>3. SessionAgrees /\ ChosenAsTyped
  BY DEF SessionInit, SessionAgrees, ChosenAsTyped
<1> QED BY <1>1, <1>2, <1>3 DEF SessionInv

(* What a step does to the plan.                                                *)
Acts ==
    \/ plan' = plan \/ plan' = <<>>
    \/ /\ active /\ ~active' /\ ~late /\ Range(plan') \subseteq scene.ids
       /\ shown' = shown
       /\ \/ plan' = Said'
          \/ /\ mode = "path" /\ Said' # <<>> /\ Said' \in Seq(Ids)
             /\ Leads(plan', Said', Len(Said'))

LEMMA SessionSteps == SessionInv /\ [Next]_vars => SessionInv' /\ Acts
<1> SUFFICES ASSUME SessionInv, [Next]_vars
             PROVE  SessionInv' /\ Acts
  OBVIOUS
<1>1. CASE Starts
  BY <1>1, StartsHold DEF Acts
<1>2. CASE \E symbol \in 0..Alphabet - 1 : EnterSymbol(symbol)
  <2>1. PICK symbol \in 0..Alphabet - 1 : EnterSymbol(symbol)
    BY <1>2
  <2> QED BY <2>1, EnterHolds DEF Acts
<1>3. CASE Confirm
  BY <1>3, ConfirmHolds DEF Acts
<1>4. CASE Backspace
  BY <1>4, BackHolds DEF Acts
<1>5. CASE Tick
  BY <1>5, TickHolds DEF Acts
<1>6. CASE Settings \/ Desktop \/ DeadlinePassed \/ Cancel \/ DeadlinePasses
  BY <1>6, OthersHold DEF Acts
<1>7. CASE UNCHANGED vars
  <2>1. UNCHANGED <<env, engine, last, ghosts, late, plan>>
    BY <1>7 DEF vars
  <2>2. /\ scene.epoch \in Nat /\ late \in BOOLEAN /\ scene.epoch <= scene.epoch
        /\ UNCHANGED <<engine, ghosts, plan>> /\ late' = late /\ scene' = scene
    BY <2>1, Bounds DEF SessionInv, EnvTypes, EngineTypes, env
  <2>3. EngineTypes' /\ SessionAgrees' /\ ChosenAsTyped'
    BY <2>2, EngineKept
  <2> QED BY <2>1, <2>3 DEF SessionInv, EnvTypes, LastTypes, env, Acts
<1> QED BY <1>1, <1>2, <1>3, <1>4, <1>5, <1>6, <1>7 DEF Next, Keys, ReadFails, PhysicalInput

LEMMA SessionInvariant == Spec => []SessionInv
<1>1. SessionInv /\ [Next]_vars => SessionInv'
  BY SessionSteps
<1> QED BY SessionStarts, <1>1, PTL DEF Spec

(* The parts of a session agree in every reachable state: labels, choices and   *)
(* what was typed name targets of the scene it holds, whose epochs are one, and *)
(* an ended session leaves nothing to the next.                                 *)
THEOREM SessionsAgree == Spec => []SessionHolds
<1>1. SessionInv => SessionHolds
  BY TypesAre DEF SessionInv, SessionHolds
<1> QED BY SessionInvariant, <1>1, PTL

(* Every plan that is executed names what the user typed, read with the labels  *)
(* that were shown, all of it in the latest scene; a path leads over all of it. *)
THEOREM PlansAreMeant == Spec => PlanIsMeant
<1> DEFINE Act == plan' \notin {plan, <<>>} =>
                    /\ active /\ ~active' /\ ~late /\ plan = <<>>
                    /\ Range(plan') \subseteq scene.ids
                    /\ IF mode = "path"
                       THEN /\ Range(Meant) \subseteq Range(plan')
                            /\ plan'[1] = Meant[1] /\ Last(plan') = Last(Meant)
                       ELSE plan' = Meant
<1>1. ASSUME SessionInv, [Next]_vars
      PROVE  Act
  <2> SUFFICES ASSUME plan' \notin {plan, <<>>}
               PROVE  /\ active /\ ~active' /\ ~late /\ plan = <<>>
                      /\ Range(plan') \subseteq scene.ids
                      /\ IF mode = "path"
                         THEN /\ Range(Meant) \subseteq Range(plan')
                              /\ plan'[1] = Meant[1] /\ Last(plan') = Last(Meant)
                         ELSE plan' = Meant
    OBVIOUS
  <2>1. /\ active /\ ~active' /\ ~late /\ Range(plan') \subseteq scene.ids
        /\ shown' = shown
        /\ \/ plan' = Said'
           \/ /\ mode = "path" /\ Said' # <<>> /\ Said' \in Seq(Ids)
              /\ Leads(plan', Said', Len(Said'))
    BY <1>1, SessionSteps DEF Acts
  <2>2. plan = <<>>
    BY <1>1, <2>1 DEF SessionInv, ChosenAsTyped
  <2>3. Meant = Said'
    BY <2>1 DEF Meant, Said, Named
  <2>4. CASE plan' = Said'
    <3>1. Range(Meant) \subseteq Range(plan') /\ plan'[1] = Meant[1] /\ Last(plan') = Last(Meant)
      BY <2>3, <2>4
    <3> QED BY <2>1, <2>2, <2>3, <2>4, <3>1
  <2>5. CASE /\ mode = "path" /\ Said' # <<>> /\ Said' \in Seq(Ids)
             /\ Leads(plan', Said', Len(Said'))
    <3>1. /\ Len(Meant) \in Nat \ {0} /\ DOMAIN Meant = 1..Len(Meant)
          /\ Leads(plan', Meant, Len(Meant))
      <4>1. Meant \in Seq(Ids) /\ Meant # <<>> /\ Leads(plan', Meant, Len(Meant))
        BY <2>3, <2>5
      <4> HIDE DEF Meant
      <4> QED BY <4>1, EmptySeq, LenProperties
    <3> HIDE DEF Meant
    <3>2. Range(Meant) \subseteq Range(plan')
      <4> SUFFICES ASSUME NEW t \in Range(Meant)
                   PROVE  t \in Range(plan')
        OBVIOUS
      <4>1. PICK j \in 1..Len(Meant) : t = Meant[j]
        BY <3>1 DEF Range
      <4> QED BY <3>1, <4>1 DEF Leads
    <3>3. plan'[1] = Meant[1] /\ Last(plan') = Last(Meant)
      BY <3>1 DEF Leads, Last
    <3> QED BY <2>1, <2>2, <2>5, <3>2, <3>3
  <2> QED BY <2>1, <2>4, <2>5
<1> QED BY SessionInvariant, <1>1, PTL DEF Spec, PlanIsMeant
===============================================================================
