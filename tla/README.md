# Saccade: TLA+ models and proofs

Saccade puts hint labels on everything that can be acted on in a desktop and
turns a chosen label into clicks, drags, scrolls and keys. It captures frames,
runs a neural target detector on them, merges the result with accessibility
targets into a *scene*, shows labels over the scene, and executes *plans* of
input commands for the user or for a local agent. This directory holds TLA+
models of the parts whose correctness depends on order, failure, sharing or
arithmetic at an edge; TLC checks them on small instances, and TLAPS proves the
main safety properties for every instance.

    tlc -config MCInputExecutor.cfg MCInputExecutor     # any run of PROJECT.json
    tlapm InputExecutor_proof.tla                       # any module with theorems

`PROJECT.json` lists components, runs, hazards, theorems, what each definition
translates (`map`) and, for every property of a passing run, plausible bugs of the
code that break it (`mutants`: operators beside the definition they replace, such
as `Migrated` and `MigratedTwice`).

Contents: 1 the system, 2 the modules, 3 the runs, 4 the proofs, 5 findings and
what the model refutes, 6 what is not modelled.

## 1. The system

Paths are below `src/`. "Thread" says where the code runs; the owner thread pumps
the window's messages and a runtime timer.

| Part (source) | State | Operations | Thread, interactions | What makes it correct |
|---|---|---|---|---|
| Scene store (`src/scene/store`) | three packet slots, words `pending_`, `returned_` | `begin_write`, `commit`, `abort_write`, `acquire_latest` | one producer, one consumer, no lock | no slot has two owners or none; a view is not overwritten; the newest scene can be had |
| Core runtime (`src/core`) | table of runtimes and its hot copy, handle tables, frame leases, mailbox, sessions, tickets | create, destroy, import, release, submit, collect, cancel, reset | any thread at the gate; the owner inside a runtime; provider workers | an ended handle never resolves; owners match what holds a frame; counts match tickets |
| Inference providers (`backends/d3d12/directml_provider`, `platform/macos/coreml_provider`) | one ticket in flight, command and completion signals | submit, wait, collect, cancel, reset, synchronize, destroy | the owner against one worker | a worker reads only its ticket's frame; calls return; tickets end |
| Capture path (`platform/windows/screen_capture`, `scene_capture`, `d3d12_capture_transfer`, `neural_bridge`) | streams, slots, shared textures, leases | create, start, acquire, import, release, stop, destroy | owner; the system reports a closed source on its own thread | one slot and texture for one frame; all of it comes back |
| Neural coordinator, scheduler, desktop runtime (`src/scheduler`, `src/application/desktop_runtime`) | frames on offer, a batch, an aggregate, two clocks | `offer`, `advance` | owner; inference tickets, store | each frame is released once; a scene covers its scope |
| Scene coordinator, accessibility providers (`src/application/scene_coordinator`, `platform/*/accessibility_provider`) | source, semantic ticket; the provider's query and worker | `request_semantic`, `advance`, `set_source`, grid, windows | owner against a worker that walks a foreign program | a late answer serves only the query it was for |
| Session (`src/application/session`, `interaction_controller`, `src/interaction`) | mode, selection, labels, prefix, aim, the last action | begin, symbols, confirm, tick, dispatch | owner; scenes, executor | what was typed on the labels as shown is what is executed, once |
| Windows pipeline (`platform/windows/desktop_pipeline`) | pending action, capture, overlay, scopes, epochs | request, keys, observe, topology, advance | owner; all of the above | a session asked for begins or is called off, and is shown |
| Input executor (`platform/windows/input_executor`, `src/input`) | ledger, plan under way, releases queued | `execute`, `advance`, `release_all`, `shutdown` … | owner; `SendInput` | nothing pressed is forgotten |
| Agent channel (`src/agent`, `platform/windows/agent_pipe`, `tools/agent_client`, `tools/mcp_server`) | connection, grants, batch, held input | hello, observe, query, batch, goodbye | the pipe is polled by the owner; the client is another process | what is held is a connected client's; a batch acts under the conditions it names |
| Application (`apps/windows/main`, `desktop_host`, `recovery_schedule`, `settings_controller`, `global_hotkeys`) | phase, native stack, retry delay, documents, hook | start, rebuild, settings, lock, suspend, quit, replace | owner, keyboard hook, system events | a lost pipeline comes back; settings agree everywhere |
| Reference backend (`backends/reference_cpu`) | models, contexts, tickets, the counts between them | load, create, submit, run, collect, cancel, destroy | behind the runtime's tickets; a job runs inside the poll or wait that asks how it is | nothing is unloaded under what uses it; a job ends once |
| Sequential parts (settings, fusion, hints, overlay, planner, geometry, navigator, registry, detector, post-processor) | none or one document | functions of their inputs | called by the parts above | results their readers can rely on |

Hard behaviours: two lock-free threads at the store; workers that outlive the
call that started them and signals that outlive their ticket; early returns that
skip the rest of a turn; a system that takes any prefix of an input submission or
refuses to close what it opened; deadlines that race late polls; clients that go
away between two actions; a desktop that changes while a batch runs; bounded
slots, leases, queues and generations.

## 2. Modules

    SceneSlots       slot protocol, one action per access to a shared word
      SceneStore       + contents, two threads; implements SceneHandoff (INSTANCE)
        SceneReaders     + the store whose readers are the owner's calls
      DesktopScenes    + capture, batch, scheduler, turn of the desktop loop
                                      Scenes_proof (SceneStore, DesktopScenes)
    SceneHandoff     what the store promises: a newest-scene register
    HandleTable      slots, generations, retirement
      FrameRuntime     one runtime: leases, sessions, tickets
      RuntimeStore     many runtimes: gate, hot copy, domains, threads
      ReferenceBackend  a backend's models, contexts and jobs
        CoreRuntime      the three under one specification    CoreRuntime_proof
    InferenceTickets   what both inference providers share
      DirectMLProvider, CoreMLProvider
        InferenceProviders                                   InferenceProviders_proof
                                                             (and Registry)
    AccessibilityProvider
      SceneCoordinator   the owner against the provider's worker
    Capture            streams, set, ring, bridge, pipeline
      PlatformProviders  Capture and an INSTANCE of SceneCoordinator
                                                             PlatformProviders_proof
    InputExecutor      executor and reducer                  InputExecutor_proof
    Session            controller, engine, selection, labels
    Activation         the pipeline between the parts
                                        Targeting_proof (Session, Activation, Aim)
    Agent              client, pipe, service, desktop        Agent_proof
    PlatformPipeline   the stack of native owners
      Lifecycle        the process, settings, hook           Lifecycle_proof
    Geometry
      Fusion -> Overlay, ActionPlanner;  AgentQuery
      Detector         bright areas of a frame; rows of a model to targets
    Settings, Registry, Aim
      Algorithms       all sequential parts under one specification
    MC*              constants of runs that need definitions; the other runs
                     give their constants in the .cfg

**SceneSlots, SceneStore, SceneHandoff.** `acquire_latest` is cut at its three
accesses to shared words (`AcquireSeesRoom`, `AcquireReturn`, `AcquireTake`); a
producer call is one step, because it touches a shared word once. Contents are
scene numbers, `Torn` while the caller fills a slot, so a data race on bytes shows
as a change of a held scene.

**DesktopScenes** extends `SceneSlots` with a turn of `DesktopRuntime::advance`, cut
where the code branches: `retire`, `submit`, `schedule`, `begin`, `scene`, `tick`.
Time is relative to the two deadlines, so the state space is finite without a
clock. A frame is the topology and the scope it was captured under.

**SceneReaders** has both stores of `DesktopRuntime`, of which a behaviour follows one:
`neural_scenes_`, which is `SceneStore` as it stands, and `output_scenes_`, an `INSTANCE`
of `SceneSlots` with all who read it on the owner's thread. A turn publishes (or fails
to), ticks the session, and starts a waiting command; ticks that find a newer scene and
starts read twice, other ticks and everybody else once. What the slot protocol costs
readers that come in pairs shows only here: `Session` takes the outcome of a read as
given (`ReadFails`).

**HandleTable, FrameRuntime, RuntimeStore, ReferenceBackend, CoreRuntime.** A table maps slots to a
generation, a retired flag and an object. `FrameRuntime` is one `RuntimeState`; its
calls are the owner's and atomic, as the header demands, and a provider finishes a
ticket at any moment. `SubmitRefused` is the undo path of `submit_inference`,
`DestroySessionHalf` a destroy whose provider context is gone though the call
failed, `CollectMisread` a failure taken for BUSY. `RuntimeStore` is what threads do
to the table of runtimes: the gate's test, wait and wake (a spurious wake-up
included, a spurious failure of compare-exchange not), publication to the hot
table, blocks of handle domains, and uses of a handle that may be stale. The
environment obeys `saccade.h:134-136`: no runtime is used while it is destroyed.
`ReferenceBackend` is the reference implementation on the other side of the tickets:
tables of models, contexts and jobs whose counts keep one from going while another
uses it, and jobs that run when a poll, a wait or `synchronize` asks, in any order
among the calls of the runtime. What a job detects is in `Detector`.

**InferenceTickets, DirectMLProvider, CoreMLProvider.** A call is cut where it waits
or looks at shared state, the worker at every look. DirectML's completion is a
manual-reset event, which a wait leaves up; Core ML's are binary semaphores, which
a wait takes. Either provider is chosen in the initial state.

**AccessibilityProvider, SceneCoordinator.** Request, poll, wait,
cancel, collect and release against the worker; Windows detaches a worker that does
not answer in time, macOS waits. The coordinator adds its sources (fused, neural,
semantic, grid, windows), the semantic ticket and publication.

**Capture.** Every call is the set of its outcomes: what it returns, the state it
leaves, and how many failures of the system it took. The callback that reports a
closed source is a step of its own, which may come late, for a slot used again.

**InputExecutor** has the reducer (`ledger`, `lease`, `deadline`, `begun`), the plan,
the queue of releases and, as environment, `os`: what the system holds pressed. A
submission takes any prefix. `continue_execution` is cut at every turn of its loop.

**Session.** Labels are sequences over an alphabet, computed as the code
computes them; the session copies a scene, freezes labels, follows newer scenes
while it may, and builds its plan from its copy.

**Activation** is `DesktopPipeline` seen from above: one record for its fields, one
action per entry point, `Advance` for the turn. Session, coordinator and executor
appear by what they answer.

**Agent, AgentQuery.** One poll is one step, except that a batch is
cut at every look at the desktop and every action. `AgentQuery` is observe and query
as functions: scope, filters, relations, and the packing of texts.

**PlatformPipeline, Lifecycle.** The pipeline is
a stack of owners of which a start may stop half-way and a shutdown may leave some
up. Each window message, timer and key is an action.

**Algorithms** runs the functions of `Settings`, `Fusion`, `Overlay`, `Aim`,
`ActionPlanner`, `Geometry` (with the window navigator), `Registry`, `AgentQuery` and `Detector`
on every input of small sets; settings, the display catalog, the aim and the registry
(a state machine of its own, `RegistrySpec`, whose steps are kinds of this work) keep
state over several operations. A behaviour does one kind of work, since the parts
share no state; `answer` holds the last question and its answer, which the
properties compare with a definition that knows nothing of the algorithm.

## 3. Runs

| Run (cfg) | Bounds | States | Shows |
|---|---|---|---|
| SceneReaders | 3 slots, 5 publications between threads; 6 publications and 2 transforms among readers | 36,690 | slots and counts, held scenes, BUSY ends, refinement of `SceneHandoff!Spec` with its liveness; a reader is refused only after a scene was read just once; a session is on the newest scene after a read, or over |
| DesktopScenes | 2 displays, every scope, 2 layouts, wakes up to a period late | 467,460 | leases, writing and batches, whole scopes, topology forward, turns end |
| FrameRuntime (CoreRuntime) | 2 frames, sessions, tickets, generations; 3 threads, 4 calls, a table of one runtime; 1 model, 2 contexts, 2 jobs | 674,529 | owners, counts, lent bytes, live runtimes only, no lost wake-up, no handle revives; the backend's counts, jobs end once |
| InferenceProviders | 3 tickets, either provider | 3,054 | the worker's frame and packet are the ticket's, calls return, tickets end |
| PlatformProviders | 2 displays, 2 streams, 2 textures, 3 changes, 2 failures; 2 queries, either platform | 381,869 | frames, slots, streams and textures agree; the query held is the provider's; calls return |
| InputExecutor (MCInputExecutor) | 9 plans, 2 buttons, 1 key, 2 modifiers, time 0..4, 2 layouts | 5,082 | nothing stuck, held input visible, queue fits, plans end, releases go out |
| Session | 4 targets, 3 scenes, 3 symbols, epochs to 3 | 300,644 | what a session holds agrees, no label begins another; the plan is what was typed; sessions end while turns reach the tick |
| Activation | none needed: the record is finite | 56,280 | no session called off begins, commands reach their source, labels follow, nothing stays pending |
| Agent (MCAgent) | 6 batches of up to 3 actions, 2 windows, 2 requests, 2 connections, 1 fault | 369,456 | held input is a connected client's, dispatch as agreed, answers true, the endpoint comes back |
| Lifecycle (MCLifecycle) | 3 owners, 3 documents, 2 failures, 2 processes, ceiling of one doubling | 92,583 | nothing left standing, settings agree, one dispatch per press, no session when locked, rebuilds end |
| LifecycleRebuild | as Lifecycle | violation | the finding of section 5 |
| Algorithms (MCAlgorithms) | sets of MCAlgorithms | 149,715 | each property below, on every input |

Properties of `Algorithms`: `SettingsHold` (no sequence of edits, imports and resets
stages a document that a later stage refuses; files are read back as written),
`SceneHolds` (no duplicate left, safety flags dominate, texts stay with their records,
labels apart), `ActionsAreMeant` (transforms, atlas, display and window lists; the
point is where the user put it; a plan acts only on what is allowed), `RegistryHolds`,
`QueriesAnswer` (what is listed is what was asked for, texts fit, nothing outside the
message is read), and `DetectionHolds`: the reference detector finds the connected
bright areas, each once and whole, however its labels were joined, and fails only
where it says so; of a model's candidates those are told that the order among them
decides, whatever way they took through the heap, and none that a better one stands
for.

*Why the bounds suffice.* Two displays let one frame be stale or missing while
another is current. Five publications let each store slot be reused after a return,
a replacement and an abort; six let a lone read, the refusals after it and an abort
follow one another. The nine plans take each branch of `emit_command` and each
kind of timed command; four units of time let a hold meet a deadline before, at and
after its end. Two generations let a slot be reused once and then retired. Three
threads make two wait at the gate while one passes. Three tickets let a signal of
the first reach the wait of the third. Two failures are one in the work and one in
the undoing. A stack of three owners has one below, one kept for ever and one with
two parts. Two targets in every position, three in every family, and rectangles of one
unit, thin, wide and at the end of the range are what the formulas distinguish. One
model, two contexts, two jobs and a queue of two let a context go beside one that has
work, or while a job it cancelled is still to be collected. Frames of five by
three pixels hold areas that part, meet further down and enclose one another; four
labels and three targets put both limits within reach. Five candidates in every order,
with room for four, three or two, fill a heap of three levels and displace from it.

*Deadlock* is not checked where the system may stop: a destroyed runtime or one with
every slot retired; threads whose calls are used up; providers that are destroyed;
sessions past their last epoch; a process that ended; algorithms that have
answered; providers of the platform past their last change. It is checked in the
other runs.

*Fairness.* `SceneReaders`: only the consumer of `neural_scenes_`, which every turn calls
that gets past its neural half (`scene_coordinator.cpp:554`); nothing obliges anybody to read `output_scenes_`, so
nothing is claimed to happen there in the end.
`DesktopScenes`: a turn that began goes on, turns come, the worker ends every ticket
(`inference_status` reports complete or failed). `InferenceProviders`,
`SceneCoordinator`: a thread that can run does, and a call whose signal is up returns;
nothing makes the owner call or a foreign program answer. `InputExecutor`: a call
returns; the pipeline polls while synthetic input is active
(`desktop_pipeline.cpp:1000`) and time goes on, both only between calls, hence
strong; a system asked again and again takes the releases some day, used by
`ReleasesGoOut` alone. `Session`: the passing of deadlines only. That a turn reaches
the tick is a hypothesis of `SessionEnds` (`WF_vars(Tick) => ...`), since the code does
not promise it: a turn whose neural or scene advance fails returns before
(`desktop_runtime.cpp:165-168`), the timer then only notes the failure, and `TicksGoOn`
is refuted below. `Activation`: the timer's turn, whose own
deadline check comes before the runtime's advance (`desktop_pipeline.cpp:1006`), and the
passing of deadlines. `Agent`: the pipe is polled. `Lifecycle`: the timer, the messages the
process posted to itself, and time. `RuntimeStore` claims no fairness: with ever new
calls a thread may starve at the gate; what is checked is that no wake-up is lost.

## 4. Proofs

All theorems are checked by `tlapm` from nothing. `PROJECT.json` lists those a reader
should know of.

**Scenes_proof**, *the store*, for every number of slots and publications: types, partition
of the slots, balance of publications, stability of held views, harmlessness of a
refusal (three slots), and the safety half of the refinement (`Refines`). `SlotsAreHeld`
states the run's property `SlotsHold`, for the program's three slots. The partition is
not inductive alone: `Inv` adds what the consumer knows inside `acquire_latest` (only it
fills `returned_`, so the emptiness it saw still holds) and that the newest scene is
pending or in view.

*The desktop loop*, for any displays, scopes, pool depth, period and delay:
types, `LeasesAccounted`, `WriteFollowsBatch`, `TopologyForward`, and, under
`ScopesToldApart`, `ScenesHold`. The invariant adds what the clocks are worth at each
phase, how often the capture of a display is still to be released (offered, waiting
in the batch, running), and that no offered frame is older than a scene made from
earlier ones. `ScopesToldApart` says that two scopes with the same number of displays,
more than one, are the same scope. It is needed, since batches are told apart by their
counts alone (section 5 has the case without it), and it holds for two displays with
any scopes (`TwoDisplaysToldApart`), which is the run's instance.

**InputExecutor_proof**, for every set of buttons, keys, modifiers and plans: types,
`NothingStuck`, `HeldInputIsVisible`, `ReleasesFit`, `PlanMatchesDesktop`,
`ShutdownLeavesNothing`, together `NothingIsForgotten` (the run's `ExecutorHolds`).
Assumptions: buttons and modifiers are finite, no key is a button, commands fit
their kinds (what `command_valid` checks), and the queue has room for one command's
modifiers and subject besides all buttons and the key limit (the code has 288
slots for 4 + 1 + 3 + 16). A command that went out whole leaves pressed only what
the ledger records (`Committed`); one that went out in part leaves open only a
modifier or its subject (`OpenIsSmall`), so both lists fit; a partial submission
loses nothing (`SubmissionKeeps`); and `Control`, the strengthening, says how calls
cut a plan: without it neither visibility nor the room in the queue is preserved.

**CoreRuntime_proof** has four parts. *Handle tables and one runtime* (`Spec`), for
tables of any size, queues of any length and any number of generations: types,
`OwnersMatch`, `TicketsCounted`, `WorkIsReachable`, `HostFramesLent`, together
`RuntimeAgrees` (the run's `RuntimeHolds`), and `NoHandleRevives`. The five invariants
are inductive together. A count stays a natural number because it is the number of
tickets; a frame never belongs to two tickets because submit refuses one a worker
has. `NoHandleRevives` follows from a relation of each table to its successor
(`Onward`): a generation never falls, and a retired empty slot stays so.
*The store of runtimes* (`StoreSpec`), for any number of threads, calls, runtimes and
blocks of handle domains: `StoreAgrees` (the run's `StoreHolds`). Its invariant says
which program points each call can be at (`OnPath`); that one thread is past each
gate, exactly when the gate is claimed, and that a thread asleep at a free gate has
its wake-up under way; that the hot copy differs from the table only in the slot of
the thread past the store's gate, whose slot is the only one it changes; that frame
domains of live runtimes and of threads about to make one are different, and below
the next block. *The reference backend*
(`BackendSpec`), for tables of any size: `BackendAgrees` (the run's `BackendHolds`), which is
inductive as it stands, and `JobsComeToOneEnd` (`JobsEndOnce`), from a relation of each
job to its successor. *All together* (`CoreSpec`): each step of it is a step of one part
with the others left alone, so the theorems carry over.

**InferenceProviders_proof**, for either provider and any number of tickets:
`TypeCorrect`, `FrameIsTheTickets`, `CancelEnds`, together `ProvidersAgree` (the run's
`ProvidersHold`). The invariant relates the program points of owner and worker: who
has the command, whose completion is up, and which ticket the worker took. What is
claimed is conditional on no call having been ended by an earlier ticket's signal,
since that does happen (`CancelSuppresses`, below). *The registry*, for any capacities,
descriptors, devices and questions: `RegistryAgrees` (the run's `RegistryHolds`). Its
invariant adds the types and that each handle names the family and the slot it is stored
under (`HandlesPoint`): then an accepted provider cannot answer to an older handle, and
no device loses its owner. That a selection takes the first of the best (`BestIs`) is an
induction over the slots, done from the least slot at which the loop would hold another
(`LeastNumber`, as in Lifecycle_proof); it needs scores to be numbers
(`ScoresAreNumbers`), hence finite sets of bits (`BitsAssumption`).

**Agent_proof**, for any batches, windows and capabilities: `HeldIsTheClients`,
`ClientIsTold` and the action property `DispatchIsAgreed`. What is held and what was
granted go with the connection, on which one message is under way at a time (`Line`).
That an answer is true needs to know whose answer it is: which request the pipe has,
which response it holds, and what the client last sent and still asks again (`Asked`).
That a completed batch was done needs the loop's record against the executor's
(`Progress`, `Reported`): the count of completed actions is the size of a set of past
actions that holds every one that was done, and otherwise only such as leave no trace
(an action of a dry run); and the first failure is the one reported.

**Lifecycle_proof**, for any stack of owners, documents, back-off and bounds:
`Standing`, `SettingsHold`, `OncePerPress` and `LockedStartsNothing`. Each call is the
set of its outcomes, so each operator has a lemma on all of them, from
`InitializeOutcomes` up to `AdvancePipeline`: what a failed build leaves is taken down
or remembered (`Fit`), a pipeline that is gone stays awaited (`Awaited`), no call but
a command's asks for a session (`AsksNothing`). The strengthening is small: a process
that starts has nothing (`StartsFresh`), the current document is one the hook took
(`Decided`), and the hook remembers a dispatch while the process runs
(`PressRemembered`). The back-off's delays are powers of two, which the provers know
only as sizes of powersets (`Powers`), and the first owner that is still up exists by
`LeastNumber`, the least-number principle from the well-founded inclusion of finite
sets.

**Targeting_proof**, *the session*, for any targets, scenes, alphabet and bounds:
`SessionsAgree` (the run's `SessionHolds`) and the action property `PlansAreMeant`
(`PlanIsMeant`). What the run's invariant says of labels, choices and epochs is
preserved by itself; that a plan is what was typed needs `ChosenAsTyped`: while a
session is open the choices are, one by one, the targets the typed labels named when
they were shown, and nothing has been executed since it began. Every execution ends
the session (`ExecuteHolds`), because what is chosen is still in the session's copy of
the scene, so the early return of `execute_selection` is never taken. For paths,
`PathLeads` shows by induction over the anchors (`LeastNumber`, as in Lifecycle_proof)
that `expand_path` goes from the first anchor to the last over all others; that needs
every rank in a finite set of numbers to be taken by exactly one element (`Ranked`).
`LabelsAreApart`, part of what every session keeps: for any finite number of targets and
any alphabet of two symbols or more, no label that `freeze` gives begins with the label
of another. The codes of a length are a power of the alphabet (`CodesStep`), the depth
that the loop looks for exists (`DepthIs`), the codes are shared out exactly
(`SharedOut`: as many are given up as the targets beyond them need), a code is known by
its digits (`CodesDiffer`, by division in two steps) and an extension by its parent and
symbol (`ChildIs`).
*The pipeline*: `SessionsAreAskedFor` (the run's `ActivationHolds`), which is inductive as
it stands; the work is one lemma per handler about all its outcomes (`Fine`,
`Outcomes`). *Aim*, for every inset, extent, step and range: the three places of an axis
lie on the target in their order (`PlacesInOrder`), a snap keeps the other axis
(`SnapKeepsOtherAxis`), and no adjustment leaves the types (`AimsAreClosed`).

**PlatformProviders_proof** has two parts. *The capture path*, for any finite set of
displays and any number of streams and textures: `CaptureHeldByAll` (the run's
`CaptureHolds`). A call is the set of its outcomes and a turn is calls of calls, so the
invariant must hold half-way: `Path` says of every state a call passes through what each
slot holds of the provider's streams (`Fitted`), that what is closed is not lent
(`Resting`) and that frames, slots, streams and textures are lent one to one
(`Lending`). Between calls a set that is up also runs as one (`Runs`) and shows the
layout, or has it pending (`Lined`). Streams and slots are used again, so a slot may name
a stream that has since gone to another display; generations tell them apart, and a
report of a closed source is never newer than its stream (`Reports`). A call over all
slots is `InTurn`; that it is defined (`TurnsExist`) and carries a relation between the
path before and after through every slot (`TurnsKeep`) is shown from the least number
for which it fails. The relations
say what each kind of call leaves alone, such as `SameStreams` and `Settled`. That
a refused start or stop puts back what ran needs the slots before it and after it told
apart (`RunAs`). Only `faulted`, the slots under which the system failed to stop,
release or close, is exempt. *The queries*, for any number of queries, frames and
topologies on either platform: `QueryHeldByBoth` (the run's `QueryHolds`): the ticket
the coordinator holds is the provider's, and nothing stale is published.

Assumptions on constants are the named `ASSUME`s of the modules; TLC evaluates each.
Besides sizes and disjointness they say that a scope has a display and displays have
numbers (`DesktopAssumption`), that the capture path has a finite set of displays, not
empty (`CaptureAssumption`), that the bits of providers and devices are finitely many
(`BitsAssumption`), that the vacant mark is no object (`ObjectAssumption`),
that a batch is not empty and no longer than `MaxActions` (`WorldAssumption`;
`service.cpp:704` refuses others), that the hook takes the default document
(`LifecycleAssumption`), and that the two marks of a file without a document are no
documents.

*Only model-checked*: all liveness (beyond the prover used, with ENABLED); what the readers
of `output_scenes_` get (`ReadersAgree`); and what the
algorithms compute, the registry's selection excepted: `Settings`, `Geometry` and `Detector` use RECURSIVE operators, with
which the prover has no SMT backend, and what a recursion or a fold computes for every
input needs an induction principle with an operator as its parameter, which no prover
here can instantiate. (Where a proof rests on one recursive function, as in `Session` and `Registry`,
the induction is done by hand, from the least number for which the claim fails.)

## 5. Findings

**LifecycleRebuild** (`PipelineComesBack`, a violation run). `backends.md:48` promises
that a native failure is answered by a rebuild. `ScreenCaptureProvider` has no
shutdown and answers ALREADY_EXISTS to a second `initialize`
(`screen_capture.cpp:787`); `DesktopPipeline::initialize` calls it on the same member
every time (`desktop_pipeline.cpp:303`). Every rebuild after a build that got so far
fails, for ever, and a change of the compute device fails together with its way back.

### What the model refutes

These definitions state what a document or a test says; TLC finds each violated when
it is added to the cfg named here. They have no run of their own, so that each run
stays one question.

| Definition | Cfg | What is said | What the code does |
|---|---|---|---|
| `RunningSceneHasBatch` | DesktopScenes | `concurrency.md:83-86`: a running item is an item | `desktop_neural_coordinator.cpp:144` refuses frames that disagree without `complete_scene`; a scene runs for good |
| `TicksGoOn` | DesktopScenes | `inference.md:275-277`: interaction goes on | two scenes committed between two acquisitions fill `returned_`; the refused acquisition ends turns before the tick (`desktop_runtime.cpp:167`), so `SessionEnds` without its hypothesis fails too |
| `InteractionIsServed` | SceneReaders | `memory.md:54-56`: the interaction path consumes the latest scene; `tests/application/desktop_runtime.cpp:252-255`: a start after a publication begins | one read by itself between two publications (an agent's question, `service.cpp:543`; the preflight of an input command, `desktop_pipeline.cpp:1225`; a tick that ends its session on a newer scene) leaves a scene retired, and from then on the second of every two reads is refused (`store.cpp:115`): no start begins (`session.cpp:60`) and a session that meets a newer scene ends as stale instead of following it (`session.cpp:126`). Only an aborted write, which empties the returned slot and publishes nothing, ends that |
| `RoomForNextScene` | SceneReaders | `inference.md:180-182`: packet publication remains available and interaction uses the newest scene | after such a read, and one more scene that nobody reads because the session is over, all three slots are taken. Every publication is BUSY, a pending command starts only in a turn that published (`desktop_pipeline.cpp:1032`), and nothing reads while there is no session: commands time out until an agent asks or the pipeline is rebuilt |
| `BatchesGoOn` (under `SpecChanging`) | DesktopScenes | `inference.md:260-262`: displays that change are batched again | the lease of an offered frame blocks that display's next capture (`scene_capture.cpp:231`), and only a complete batch releases it (`desktop_neural_coordinator.cpp:150`) |
| `WholeScope` with `Source = {1, 2, 3}`, `Scopes = {{1, 2}, {2, 3}}` | DesktopScenes | `version-0.1.md:201-203`: one scene covers the scope | two scopes of equally many displays mix (`:143` compares counts) |
| `LeaseExpires` | MCInputExecutor | `version-0.1.md:106`: timeout releases every button | a completed untimed hold outlives its deadline: expiry is asked for only under a plan (`input_executor.cpp:460`) |
| `TimeoutReleases` | MCInputExecutor | `version-0.1.md:143-145` | a dry run accepted during a timed hold moves the reducer's deadline; the poll drops the plan and releases nothing (`:458`) |
| `TicketsRetireTogether` | CoreRuntime | `backends.md:33-34`: BUSY and CAPACITY are not the end of a ticket | `directml_provider.cpp:858` retires a ticket that failed so, and `reference_cpu.cpp:829-833` a job whose frame has more than 32 bright areas or 128 beginnings; the runtime (`runtime.cpp:407`) keeps it, with its frame |
| `CancelSuppresses` | InferenceProviders | `inference.md:159`: a cancelled result is suppressed | a cancel after the worker last looked at the flag (`directml_provider.cpp:293`) is acknowledged although the ticket completes; and a late signal of an earlier ticket ends a cancel's wait while the worker still runs |
| `Query!QueryRetired` | PlatformProviders | `tests/application/scene_coordinator.cpp:360` | `accessibility_provider.cpp:753` gives up a query that does not answer; the provider stays busy |
| `LabelsAreTheSessions` | Activation | `version-0.1.md:59` | `desktop_pipeline.cpp:803` begins grid and window sessions without marking the overlay dirty, so labels of an earlier session may stay |
| `IdleStops` | Activation | `version-0.1.md:9`: capture stops when idle | `advance` returns early before it hides the overlay and stops capture; after a display change in a session the refused overlay (`desktop_pipeline.cpp:1050`) comes back every turn |
| `FusedIsValid` | MCAlgorithms | `tests/scene/fusion.cpp:133` | a target that has a text takes the `truncated` flag of a candidate merged into it (`fusion.cpp:157`); `validate_packet` refuses a text that is truncated |

### Other disagreements met while modelling

*Input, session.* A path action is a drag in `README.md:16` and a click in
`action_compatible`. A plan with a text action and no button, or a key with a final
pointer, is refused by its own validation. Grid and window frames share one ordering
with capture frames. `set_source` and a cancelled semantic query mark the source
dirty, so an old neural scene may be published again.

*Agents.* A batch whose deadline passed is INVALID_ARGUMENT and ends the connection,
where `agent-protocol.md` promises a typed completion. Key plans carry no window, so
preflight compares only the process. A dry run of hold and release fails at the
release. A client that leaves also cancels the human's session. With CONTINUE,
`failed_action_index` is the last failure. An active-window scope that names another
window takes the bounds of the window in front (`service.cpp:136-143`).

*Application.* A first build refused for another reason than BACKEND is not retried.
`decode_settings` clears its output before it fails and the result of `load_settings`
is not looked at, so a corrupt file stops the program from starting. A failing
neutralization leaves the agent's endpoint up, and the process is replaced. Resuming
makes input available on a locked desktop. A quit during a posted restart restarts.

*Capture.* The closed-source callback of a slot used again reports the new stream
closed. A release the system refuses keeps the slot leased and is only counted
(`neural_bridge.cpp:142`). An error of stop is ignored, after which every stop answers
STATE. A display attached again before the refresh keeps a dead stream.

*Sequential parts.* Containment duplicates of distant size classes survive fusion. A
font size of 1..15 eighths is accepted and gives no usable style. One label without a
place makes `compose` refuse the whole overlay. The registry reads a longer
descriptor but refuses a longer embedded structure. A grid with margins may have
targets without width. Rollbacks of `apply_settings` ignore their results.

*macOS.* A STALE offer is released by the coordinator and again by the pipeline
(`desktop_pipeline.mm:1046`). The wait for the accessibility worker is unbounded.

## 6. Not modelled

* Left out of modelled parts: binary layouts and packet bytes, wheel and pointer
  events, statistics, names and colours,
  descriptors of the core interface (except in the registry), damage, overlay
  presentation, diagnostics views. Calls that change nothing (poll, queries,
  statistics) are not actions. `cancel_scene` and `synchronize` of the accessibility
  provider have no caller.
* `Activation` leaves out the errors of the runtime's turn other than PERMISSION
  (`desktop_pipeline.cpp:1023`), which end the turn before the overlay is looked at; such
  turns are in `DesktopScenes` and `SceneReaders`. `AgentQuery` leaves out whether a
  text is valid UTF-8 (`service.cpp:630`) and the questions whose scene or state cannot be
  had (`:543`, `:636-639`), which are answered with that error and nothing else.
* Scopes are sets of displays; a text is a sequence of its owner's marks; time is
  counted in the unit of the timer it belongs to.
* macOS: the inference and accessibility providers are modelled; capture, input,
  overlay and the application are not. They are the Windows roles over frameworks
  whose threading the sources do not show.
* The reference backend's `register_frame` and `release_frame`: nothing ever refers to
  a registered frame there (its count of references stays 0).
* The post-processors on D3D12 and Metal, which are to give the packets of the modelled
  one; the aggregate's heap of the desktop coordinator, which is the same heap with the
  identity as the last key.
* Numeric code (luma kernels, GPU backends), byte formats and signatures (model
  artifacts but for the rows a model returns, ABI tables, UTF-8), calls of the system around the modelled
  parts (overlay surface, glyphs, keyboard layout) and tools: sequential, with
  properties about numbers or bytes that bounded inputs do not show.
* The single-display neural coordinator has no caller; `InferenceRuntime` loads one
  model and owns handles `FrameRuntime` models. The debugger observes.
* Faults of the system are counted and bounded. A spurious failure of
  compare-exchange and a system that never takes releases are left out.
