----------------------------- MODULE Lifecycle ------------------------------
(***************************************************************************)
(* The Windows application as a process: src/apps/windows/main.cpp with    *)
(* the desktop host, the settings controller, the recovery schedule, the   *)
(* keyboard hook and the platform pipeline it owns.  Everything runs on    *)
(* the thread that pumps the window's messages, so every message, hook and *)
(* timer is one action; what interleaves is the human, the system (locks,  *)
(* power, displays, failures), the runtime timer and the end of the        *)
(* process, after which a replacement starts from the file alone.          *)
(*                                                                         *)
(* A call is the set of its outcomes (see PlatformPipeline).  The state    *)
(* the calls pass along is a record: app, pipe, recovery and the failures  *)
(* they cost.                                                              *)
(***************************************************************************)
EXTENDS PlatformPipeline

CONSTANTS MaximumBackoffShift,  \* recovery_maximum_backoff_shift: 5
          HooksAccept,          \* the documents whose bindings the hook takes
          MaxFailures,          \* bound: failures of the system in a run
          MaxLaunches           \* bound: processes in a run

ASSUME LifecycleAssumption ==
  /\ HooksAccept \subseteq Documents /\ DefaultDocument \in HooksAccept
  /\ MaximumBackoffShift \in Nat /\ MaxFailures \in Nat /\ MaxLaunches \in Nat \ {0}

---------------------------------------------------------------------------
\* The owner of the settings document
\* (src/application/settings_controller.cpp).  A document is edited as a staged
\* copy; commit hands the copy to the sink, which may refuse it, and only then
\* makes it current.  Documents are compared, never read: what they contain is
\* in the modules that use them.  Every document that is staged or decoded has
\* passed validate_settings.
Controllers == [initialized : BOOLEAN, editing : BOOLEAN,
                current : Documents \cup {NoDocument}, staged : Documents \cup {NoDocument}]

Closed == [initialized |-> FALSE, editing |-> FALSE, current |-> NoDocument, staged |-> NoDocument]

\* initialize, once the sink has accepted the document
Opened(document) == [initialized |-> TRUE, editing |-> FALSE,
                     current |-> document, staged |-> document]

CanEdit(c) == c.initialized /\ ~c.editing
BeginEdit(c) == [c EXCEPT !.staged = c.current, !.editing = TRUE]

CanStage(c) == c.initialized /\ c.editing

\* stage, import_document, and the resets, which stage a document of their own
Stage(c, document) == [c EXCEPT !.staged = document]

\* commit, once the sink has accepted the staged document
Commit(c) == [c EXCEPT !.current = c.staged, !.editing = FALSE]

Cancel(c) == [c EXCEPT !.staged = c.current, !.editing = FALSE]

---------------------------------------------------------------------------
\* The keyboard hook (src/platform/windows/global_hotkeys.cpp).  It sees every
\* key of the human first and decides whether the applications see it too: a
\* key the session reads and a key that is bound are consumed, with their ups.
\* pressed and session remember what was consumed, so that a key held down,
\* which repeats, dispatches once.  One key is enough: the one that activates,
\* bound with modifiers.  The always-active binding that suspends does what the
\* menu's command does.
Hooks == [bindings : Documents \cup {NoDocument}, pressed : BOOLEAN,
          session : BOOLEAN, suspended : BOOLEAN]

Unhooked == [bindings |-> NoDocument, pressed |-> FALSE, session |-> FALSE, suspended |-> FALSE]

Replace(h, document) == [h EXCEPT !.bindings = document, !.pressed = FALSE, !.session = FALSE]

\* The up of the key, kept from the applications when one of the two flags was set.
Released(h) == IF h.session THEN [h EXCEPT !.session = FALSE] ELSE [h EXCEPT !.pressed = FALSE]

\* The key is down already and was dispatched.
RepeatsNever(h) == FALSE    \* mutant: a key held down dispatches again
Repeats(h) == h.pressed

SessionTook(h) == [h EXCEPT !.session = TRUE]
Pressed(h) == [h EXCEPT !.pressed = TRUE]

---------------------------------------------------------------------------
\* When a lost pipeline is built again (src/application/recovery_schedule.hpp):
\* after the initial delay, and twice as late after every failure, up to a
\* ceiling.  Time is counted in initial delays (250 ms), as the time left.
Schedules == [pending : BOOLEAN, attempt : 0..MaximumBackoffShift, left : 0..2^MaximumBackoffShift]
Complete == [pending |-> FALSE, attempt |-> 0, left |-> 0]
Schedule(attempt) == [pending |-> TRUE, attempt |-> attempt, left |-> 2^attempt]
Start == Schedule(0)
Retry(r) == Schedule(IF r.attempt < MaximumBackoffShift THEN r.attempt + 1 ELSE MaximumBackoffShift)
Due(r) == r.pending /\ r.left = 0
Elapse(r) == [r EXCEPT !.left = @ - 1]

\* A settings file this version cannot decode.
Foreign == "foreign"

ASSUME ForeignAssumption == Foreign \notin Documents

VARIABLES app,                  \* Application: its flags, what it asked of itself
          pipe, recovery, controller, hooks,
          file,                 \* settings.bin
          locked,               \* the system shows another desktop
          held,                 \* the human holds the bound key
          failures, launches,   \* counted for the bounds
          fired,                \* dispatches since the held key went down or was rebound
          adrift                \* a rollback of the pipeline's settings was refused

system == <<app, pipe, recovery>>
settings == <<controller, file, adrift>>
human == <<locked, held, fired>>
bounds == <<failures, launches>>
vars == <<app, pipe, recovery, controller, hooks, file, locked, held,
          failures, launches, fired, adrift>>

\* refused: the first build was refused for another reason than the backend.
\* What a call answers otherwise is only shown, in the tray.
Applications == [phase : {"starting", "running", "closed", "ended"},
                 verifier : BOOLEAN, pipeline : BOOLEAN, cleanup : BOOLEAN,
                 agentPipe : {"off", "on", "stopped"},
                 restart : BOOLEAN, closing : BOOLEAN, refused : BOOLEAN]

Fresh == [phase |-> "starting", verifier |-> FALSE, pipeline |-> FALSE, cleanup |-> FALSE,
          agentPipe |-> "off", restart |-> FALSE, closing |-> FALSE, refused |-> FALSE]

State(result, a, p, r, cost) == [result |-> result, app |-> a, pipe |-> p, recovery |-> r, cost |-> cost]
Now == State("OK", app, pipe, recovery, 0)

---------------------------------------------------------------------------
(* The pipeline, built and taken down                                      *)

\* Mutant: forgets that the failed build could not be taken down.
DiscardedBlind(s, code, o) ==
  {State(code, s.app, t.pipe, s.recovery, s.cost + o.cost + t.cost) : t \in ShutdownOutcomes(o.pipe)}

\* The failed build is taken down at once; what cannot be is remembered.
Discarded(s, code, o) ==
  {State(IF t.result = "OK" THEN code ELSE "STATE",
         [s.app EXCEPT !.cleanup = t.result # "OK"], t.pipe, s.recovery, s.cost + o.cost + t.cost)
     : t \in ShutdownOutcomes(o.pipe)}

Occupied(a) == a.verifier \/ a.pipeline \/ a.cleanup \/ a.agentPipe # "off"

InitializePipeline(s, document) ==
  IF Occupied(s.app) THEN {[s EXCEPT !.result = "STATE"]}
  ELSE
    LET up == [s.app EXCEPT !.verifier = TRUE, !.pipeline = TRUE, !.agentPipe = "on"]
        Piped(o) == {State("OK", up, o.pipe, s.recovery, s.cost + o.cost)}
                    \cup UNION {Discarded(s, code, [o EXCEPT !.cost = @ + 1]) : code \in {"BACKEND", "REFUSED"}}
    IN  {[s EXCEPT !.result = code, !.cost = @ + 1] : code \in {"BACKEND", "REFUSED"}}
        \cup UNION {IF o.result = "OK" THEN Piped(o) ELSE Discarded(s, o.result, o)
                      : o \in InitializeOutcomes(s.pipe, document)}

Neutralize(s) ==
  IF s.app.pipeline
  THEN {State(o.result, s.app, o.pipe, s.recovery, s.cost + o.cost) : o \in ObserveOutcomes(s.pipe)}
  ELSE {[s EXCEPT !.result = "OK"]}

\* The endpoint stops whatever happens, but answers with how letting go of its
\* client's input went, and is asked again when that failed.
StopAgentPipe(s) ==
  CASE s.app.agentPipe = "off" -> {[s EXCEPT !.result = "OK"]}
    [] s.app.agentPipe = "stopped" -> {[s EXCEPT !.result = "STATE"]}
    [] s.app.agentPipe = "on" ->
         {[t EXCEPT !.app.agentPipe = IF t.result = "OK" THEN "off" ELSE "stopped"]
            : t \in Neutralize(s) \cup {[s EXCEPT !.result = "OK"]}}

Stopping(s) ==
  IF s.app.pipeline \/ s.app.cleanup THEN ShutdownOutcomes(s.pipe) ELSE {Outcome("OK", s.pipe, 0)}
Stopped(s, o) ==
  State(IF s.result = "OK" THEN o.result ELSE s.result,
        [s.app EXCEPT !.verifier = FALSE, !.pipeline = @ /\ o.result # "OK", !.cleanup = @ /\ o.result # "OK"],
        o.pipe, s.recovery, s.cost + o.cost)
ShutdownPipeline(s) == UNION {{Stopped(t, o) : o \in Stopping(t)} : t \in StopAgentPipe(s)}

\* request_restart posts the close that ends the process.
RequestRestart(a) == [a EXCEPT !.restart = TRUE, !.closing = TRUE]

\* Mutant: takes the pipeline down and schedules nothing.
BeginRecoveryOnce(s) == ShutdownPipeline(s)

\* begin_pipeline_recovery
BeginRecovery(s) ==
  {IF t.result = "OK" THEN [t EXCEPT !.recovery = Start]
   ELSE [t EXCEPT !.app = RequestRestart(t.app), !.recovery = Complete] : t \in ShutdownPipeline(s)}

\* What the application makes of a call's outcome: the platform lost its
\* native side, or it refused.
React(s, o) ==
  LET after == State(o.result, s.app, o.pipe, s.recovery, s.cost + o.cost)
  IN  IF o.result = "BACKEND" THEN BeginRecovery(after) ELSE {after}

\* Calls the application makes only when it believes it has a pipeline.
Guarded(s, outcomes) ==
  IF s.app.pipeline THEN UNION {React(s, o) : o \in outcomes} ELSE {s}

RefreshTopology(s) ==
  Guarded(s, IF Whole(s.pipe) THEN {Outcome("OK", s.pipe, 0), Outcome("BACKEND", s.pipe, 1),
                                    Outcome("REFUSED", s.pipe, 1)}
                              ELSE {Outcome("INVALID", s.pipe, 0)})

SetInputAvailable(s, value) == Guarded(s, AvailableOutcomes(s.pipe, value))

\* The runtime timer with a pipeline: its session may open or end.
PipelineAdvance(p) ==
  IF ~Whole(p) THEN {Outcome("INVALID", p, 0)}
  ELSE {Outcome("OK", [p EXCEPT !.session = next], 0)
          : next \in IF p.session = "idle" THEN {"idle"} ELSE {"idle", "active", p.session}}
       \cup {Outcome("BACKEND", p, 1), Outcome("REFUSED", p, 1)}

\* Mutant: one attempt only.
RebuildOnce(s, document) ==
  {[t EXCEPT !.recovery = Complete] : t \in InitializePipeline(s, document)}

\* The runtime timer without one: the rebuild, when it is due.
Rebuild(s, document) ==
  {CASE t.result = "OK" -> [t EXCEPT !.recovery = Complete]
     [] t.result = "STATE" -> [t EXCEPT !.app = RequestRestart(t.app), !.recovery = Complete]
     [] OTHER -> [t EXCEPT !.recovery = Retry(s.recovery)]
     : t \in InitializePipeline(s, document)}

AdvancePipeline(s, document) ==
  IF s.app.pipeline THEN Guarded(s, PipelineAdvance(s.pipe))
  ELSE IF Due(s.recovery) THEN Rebuild(s, document)
  ELSE {s}

---------------------------------------------------------------------------
(* Commands                                                                *)

\* dispatch, reached through the host, which drops it when it is suspended
DispatchCommand(s, suspended) ==
  IF suspended \/ ~s.app.pipeline THEN {s}
  ELSE {State(o.result, s.app, o.pipe, s.recovery, s.cost + o.cost)
          : o \in RequestOutcomes(s.pipe, locked)}

\* The host's suspend, restart and quit: synthetic input is let go of first,
\* and a refusal of that refuses the command.
Suspend(s, value) == IF value THEN Neutralize(s) ELSE {s}
Ending(s, restart) ==
  {IF t.result # "OK" THEN t
   ELSE [t EXCEPT !.app = IF restart THEN RequestRestart(t.app) ELSE [t.app EXCEPT !.closing = TRUE]]
     : t \in Neutralize(s)}

---------------------------------------------------------------------------
(* Settings                                                                *)

Pipelined(p, document) == IF app.pipeline THEN ApplyOutcomes(p, document) ELSE {Outcome("OK", p, 0)}

Applied(result, o, h, f, off, cost) ==
  [result |-> result, pipe |-> o.pipe, hooks |-> h, file |-> f, adrift |-> off, cost |-> cost]

\* save_settings writes beside the file and renames: what the file holds is all
\* of the old document or all of the new one.
Saves(document) == {file, document}

HookTakesAny(document) == TRUE    \* mutant: replace copies without a look
HookTakes(document) == document \in HooksAccept

RehookedNot(h) == h    \* mutant: the hook keeps what could not be saved
Rehooked(h) == Replace(h, controller.current)

RolledBack(o, h, cost) ==
  {Applied("REFUSED", r, h, file, adrift \/ r.result # "OK", cost + o.cost + r.cost)
     : r \in Pipelined(o.pipe, controller.current)}

\* The sink of the settings controller: the pipeline, the hook, the file; a
\* refusal puts back what was already changed, and does not look at how that
\* went.
ApplySettings(document) ==
  LET rehooked == Replace(hooks, document)
      Hooked(o) ==
        IF ~HookTakes(document) THEN RolledBack(o, hooks, 0)
        ELSE UNION {IF f = document THEN {Applied("OK", o, rehooked, f, FALSE, o.cost)}
                    ELSE RolledBack(o, Rehooked(rehooked), 1) : f \in Saves(document)}
  IN  UNION {IF o.result = "OK" THEN Hooked(o)
             ELSE {Applied(o.result, o, hooks, file, adrift, o.cost)} : o \in Pipelined(pipe, document)}

Spend(cost) == failures + cost <= MaxFailures /\ failures' = failures + cost

\* One of the outcomes happens.
Become(outcomes) ==
  \E s \in outcomes : /\ Spend(s.cost)
                      /\ app' = s.app /\ pipe' = s.pipe /\ recovery' = s.recovery
---------------------------------------------------------------------------
(* The messages, hooks and timer of the thread                             *)

Running == app.phase = "running"

\* Application::initialize: the file, when it decodes, or the defaults; a file
\* that does not decode leaves an empty document, which no one accepts.
Loaded == CASE file = NoDocument -> DefaultDocument
            [] file = Foreign -> NoDocument
            [] OTHER -> file

\* What the first build's answer makes of the process.
Started(t) ==
  LET a == [t.app EXCEPT !.phase = "running", !.refused = t.result = "REFUSED"]
  IN  CASE t.result = "BACKEND" -> [t EXCEPT !.app = a, !.recovery = Start]
        [] t.result = "STATE" -> [t EXCEPT !.app = RequestRestart(a)]
        [] OTHER -> [t EXCEPT !.app = a]

Launch ==
  /\ app.phase = "starting"
  /\ IF Loaded \notin HooksAccept
     THEN /\ app' = [app EXCEPT !.phase = "ended"]
          /\ UNCHANGED <<pipe, recovery, controller, hooks, failures>>
     ELSE /\ Become({Started(t) : t \in InitializePipeline(Now, Loaded)})
          /\ hooks' = Replace(hooks, Loaded)
          /\ controller' = Opened(Loaded)
  /\ UNCHANGED <<file, human, launches, adrift>>

Timer ==
  /\ Running
  /\ Become(AdvancePipeline(Now, controller.current))
  /\ UNCHANGED <<controller, hooks, file, human, launches, adrift>>

TimePasses ==
  /\ Running /\ recovery.pending /\ recovery.left > 0
  /\ recovery' = Elapse(recovery)
  /\ UNCHANGED <<app, pipe, controller, hooks, settings, human, bounds>>

\* WM_WTSSESSION_CHANGE and WM_POWERBROADCAST
Lock ==
  /\ Running /\ ~locked /\ locked' = TRUE
  /\ Become(SetInputAvailable(Now, FALSE))
  /\ UNCHANGED <<hooks, settings, held, fired, launches>>

Unlock ==
  /\ Running /\ locked /\ locked' = FALSE
  /\ Become(SetInputAvailable(Now, TRUE))
  /\ UNCHANGED <<hooks, settings, held, fired, launches>>

PowerSuspend ==
  /\ Running
  /\ Become(SetInputAvailable(Now, FALSE))
  /\ UNCHANGED <<hooks, settings, human, launches>>

PowerResume ==
  /\ Running
  /\ Become(UNION {RefreshTopology(s) : s \in SetInputAvailable(Now, TRUE)})
  /\ UNCHANGED <<hooks, settings, human, launches>>

DisplayChange ==
  /\ Running
  /\ Become(RefreshTopology(Now))
  /\ UNCHANGED <<hooks, settings, human, launches>>

---------------------------------------------------------------------------
(* The settings window                                                     *)

OpenSettings ==
  /\ Running /\ CanEdit(controller)
  /\ controller' = BeginEdit(controller)
  /\ UNCHANGED <<system, hooks, file, adrift, human, bounds>>

\* The bindings window stages one binding at a time.
ModifyBinding(document) ==
  /\ Running /\ CanStage(controller) /\ document # controller.staged
  /\ controller' = Stage(controller, document)
  /\ UNCHANGED <<system, hooks, file, adrift, human, bounds>>

CommitFrom(c) ==
  /\ \E o \in ApplySettings(c.staged) :
       /\ Spend(o.cost)
       /\ pipe' = o.pipe /\ hooks' = o.hooks /\ file' = o.file /\ adrift' = o.adrift
       /\ controller' = IF o.result = "OK" THEN Commit(c) ELSE c
       /\ fired' = IF o.hooks # hooks THEN 0 ELSE fired
  /\ UNCHANGED <<app, recovery, locked, held, launches>>

\* Its button that is done commits what was staged.
BindingsDone == Running /\ CanStage(controller) /\ CommitFrom(controller)

\* The settings window's buttons stage what the view holds, a page's defaults,
\* all defaults or an imported document, and commit it at once.
ApplyView(document) ==
  /\ Running /\ CanStage(controller) /\ document # controller.staged
  /\ CommitFrom(Stage(controller, document))

CancelSettings ==
  /\ Running /\ CanStage(controller)
  /\ controller' = Cancel(controller)
  /\ UNCHANGED <<system, hooks, file, adrift, human, bounds>>

---------------------------------------------------------------------------
(* The human's keys                                                        *)

\* The menu's suspend, and the binding that is always active.
SuspendToggle ==
  /\ Running
  /\ \E s \in Suspend(Now, ~hooks.suspended) :
       /\ Become({s})
       /\ hooks' = [hooks EXCEPT !.suspended = IF s.result = "OK" THEN ~@ ELSE @]
  /\ UNCHANGED <<settings, human, launches>>

\* A key no binding asks for, a button, the mouse.
PhysicalInput ==
  /\ Running /\ app.pipeline
  /\ Become(Neutralize(Now))
  /\ UNCHANGED <<hooks, settings, human, launches>>

\* The key goes down, or repeats while it is held.
KeyDown == Running /\ held' = TRUE

SessionReads == app.pipeline /\ Whole(pipe) /\ pipe.session = "active"

KeySwallowed ==
  /\ KeyDown /\ hooks.session
  /\ UNCHANGED <<system, hooks, settings, locked, fired, bounds>>

\* Without modifiers an open session reads the key, whatever it is bound to.
KeyToSession ==
  /\ KeyDown /\ ~hooks.session /\ SessionReads
  /\ hooks' = SessionTook(hooks)
  /\ \E next \in {"active", "idle"} : pipe' = [pipe EXCEPT !.session = next]
  /\ UNCHANGED <<app, recovery, settings, locked, fired, bounds>>

\* With them it is bound, and is dispatched once.
KeyRepeats ==
  /\ KeyDown /\ ~hooks.session /\ (hooks.suspended \/ Repeats(hooks))
  /\ UNCHANGED <<system, hooks, settings, locked, fired, bounds>>

Activate ==
  /\ KeyDown /\ ~hooks.session /\ ~hooks.suspended /\ ~Repeats(hooks)
  /\ hooks' = Pressed(hooks)
  /\ fired' = fired + 1
  /\ Become(DispatchCommand(Now, hooks.suspended))
  /\ UNCHANGED <<settings, locked, launches>>

\* Without modifiers or a session the application in front sees the key, and
\* what the human had asked for ends.
KeyPasses ==
  /\ KeyDown /\ ~hooks.session /\ ~SessionReads
  /\ Become(Neutralize(Now))
  /\ UNCHANGED <<hooks, settings, locked, fired, launches>>

KeyUp ==
  /\ Running /\ held /\ held' = FALSE /\ fired' = 0
  /\ hooks' = Released(hooks)
  /\ UNCHANGED <<system, settings, locked, bounds>>

---------------------------------------------------------------------------
(* The end of the process, and the next one                                *)

\* The menu's quit and restart.
Leave(restart) ==
  /\ Running /\ ~app.closing
  /\ Become(Ending(Now, restart))
  /\ UNCHANGED <<hooks, settings, human, launches>>

\* shutdown, first for the destroyed window and again when run returns
Shutdown(next) ==
  /\ \E s \in ShutdownPipeline([Now EXCEPT !.recovery = Complete]) :
       Become({[s EXCEPT !.app.phase = next]})
  /\ hooks' = Unhooked
  /\ controller' = Closed
  /\ UNCHANGED <<file, human, launches, adrift>>

Destroy == Running /\ app.closing /\ Shutdown("closed")
Return == app.phase = "closed" /\ Shutdown("ended")

NewProcess ==
  /\ launches < MaxLaunches /\ launches' = launches + 1
  /\ app' = Fresh /\ pipe' = Down /\ recovery' = Complete
  /\ controller' = Closed /\ hooks' = Unhooked /\ adrift' = FALSE
  /\ fired' = 0
  /\ UNCHANGED <<file, locked, held, failures>>

\* launch_replacement, or the human starts the program again after the system
\* ended it.
Replacement == app.phase = "ended" /\ app.restart /\ NewProcess
Killed == Running /\ NewProcess

---------------------------------------------------------------------------
Init ==
  /\ app = Fresh /\ pipe = Down /\ recovery = Complete
  /\ controller = Closed /\ hooks = Unhooked
  /\ file \in {NoDocument, Foreign}
  /\ locked = FALSE /\ held = FALSE
  /\ failures = 0 /\ launches = 1 /\ fired = 0 /\ adrift = FALSE

Human ==
  \/ OpenSettings \/ BindingsDone \/ CancelSettings
  \/ \E document \in Documents : ModifyBinding(document) \/ ApplyView(document)
  \/ SuspendToggle \/ PhysicalInput
  \/ KeySwallowed \/ KeyToSession \/ KeyRepeats \/ Activate \/ KeyPasses \/ KeyUp
  \/ \E restart \in BOOLEAN : Leave(restart)

Machine ==
  \/ Lock \/ Unlock \/ PowerSuspend \/ PowerResume \/ DisplayChange \/ Killed

Thread == Launch \/ Timer \/ TimePasses \/ Destroy \/ Return \/ Replacement

Next == Human \/ Machine \/ Thread

\* The thread is scheduled and its timer fires; failures are bounded.
Spec == /\ Init /\ [][Next]_vars
        /\ WF_vars(Launch) /\ WF_vars(Timer) /\ WF_vars(TimePasses)
        /\ WF_vars(Destroy) /\ WF_vars(Return)

---------------------------------------------------------------------------
TypeOK ==
  /\ app \in Applications /\ pipe \in Pipelines /\ recovery \in Schedules
  /\ controller \in Controllers /\ hooks \in Hooks
  /\ file \in Documents \cup {NoDocument, Foreign}
  /\ locked \in BOOLEAN /\ held \in BOOLEAN
  /\ failures \in 0..MaxFailures /\ launches \in 1..MaxLaunches
  /\ fired \in Nat /\ adrift \in BOOLEAN

---------------------------------------------------------------------------
(* Properties                                                              *)

\* Where the application believes it has no pipeline and nothing to clean up,
\* no native owner but the capture provider is left standing: the next stack is
\* built over nothing else (initialize_pipeline, shutdown_pipeline).
NothingUpWhenDown ==
  ~app.pipeline /\ ~app.cleanup => pipe.up \subseteq Kept /\ ~pipe.initialized

\* A running process without a pipeline has its rebuild on the schedule or is
\* about to be replaced.  The exception is a process whose first build was
\* refused for another reason than the backend: that one is not tried again.
DownIsScheduled ==
  Running /\ ~app.pipeline => recovery.pending \/ app.closing \/ app.refused

\* The hook, the file and the pipeline hold the document the controller calls
\* current, whatever was refused or failed half-way; the pipeline may hold
\* another only after its own rollback was refused.
SettingsAgree ==
  controller.initialized =>
    /\ hooks.bindings = controller.current
    /\ file \in {controller.current, NoDocument}
    /\ file = NoDocument => controller.current = DefaultDocument
    /\ app.pipeline /\ pipe.initialized /\ ~adrift => pipe.settings = controller.current

\* A document this program has saved is one the next process starts with.
SavedStarts == file # Foreign => Loaded \in HooksAccept

\* What the application believes of the pipeline is so, and a pipeline that is
\* gone is on its way back.
Standing == TypeOK /\ NothingUpWhenDown /\ DownIsScheduled

\* The copies of the settings agree, and none of them stops the next process.
SettingsHold == SettingsAgree /\ SavedStarts

\* While the system shows another desktop no command of the human opens a
\* session, also on a pipeline that was rebuilt, and so believes it has input,
\* after the lock.
LockedStartsNothing ==
  [][pipe.session = "idle" /\ pipe'.session = "asked" => ~locked]_vars

\* Holding a bound key down dispatches its command once, unless the bindings
\* are replaced under it.
OncePerPress == fired <= 1

\* A rebuild that is pending comes to a pipeline, to the end of the process, or
\* to a build that went past an owner shutdown does not take down.
RecoveryEnds ==
  (recovery.pending /\ pipe.up \cap Kept = {}) ~> (app.pipeline \/ ~Running \/ pipe.up \cap Kept # {})

\* docs/architecture/backends.md: a pipeline that is lost is rebuilt, or the
\* process is replaced.  After the first build that reached the capture
\* provider, none succeeds.
PipelineComesBack == recovery.pending ~> (app.pipeline \/ ~Running)
=============================================================================
