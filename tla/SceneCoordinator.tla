--------------------------- MODULE SceneCoordinator ---------------------------
(* The scene coordinator of the interaction thread: it holds at most one       *)
(* semantic query of the accessibility provider, takes the newest neural scene *)
(* from the store, and publishes what its source asks for.  A scene or a query *)
(* is known by its frame and topology (the transform epoch changes with the    *)
(* topology).                                                                  *)
EXTENDS AccessibilityProvider

CONSTANTS
    MaxFrame,           \* bound on the neural scenes
    MaxTopology         \* bound on the topology changes

Sources == {"pixel", "semantic", "fused", "grid"}       \* windows is as grid
Semantic(s) == s \in {"semantic", "fused"}
None == [frame |-> 0, topology |-> 0]

VARIABLES
    neuralNewest,       \* the newest scene in the neural store
    foreground,         \* the query's window and topology are still current
    source, dirty,      \* source_, source_dirty_
    neural, semantic,   \* neural_, semantic_
    semanticTicket,     \* semantic_ticket_
    semanticQuery,      \* semantic_query_
    published,          \* last_frame_id_, last_topology_epoch_
    call, seen, goal \* the call in progress, the state it read, what follows

sceneVars == <<neuralNewest, foreground, source, dirty, neural, semantic,
               semanticTicket, semanticQuery, published>>
callVars == <<call, seen, goal>>
vars == <<providerVars, sceneVars, callVars>>

CoordinatorInit ==
    /\ neuralNewest = None /\ foreground = TRUE
    /\ source \in Sources /\ dirty = TRUE
    /\ neural = None /\ semantic = None
    /\ semanticTicket = 0 /\ semanticQuery = None
    /\ published = None
    /\ call = "none" /\ seen = "idle" /\ goal = "none"

(* newer_than, the same frame included                                         *)
Newer(p, q) == IF p.topology # q.topology THEN p.topology > q.topology
                                          ELSE p.frame >= q.frame

-------------------------------------------------------------------------------
(* request_semantic: asked for by the pipeline when a neural scene was         *)
(* published under a semantic source, for the frame of that scene.             *)
RequestSemantic ==
    /\ call = "none" /\ Semantic(source) /\ semanticTicket = 0
    /\ neural # None /\ next <= MaxTicket
    /\ Accept
    /\ semanticTicket' = next /\ semanticQuery' = neural
    /\ foreground' = TRUE
    /\ UNCHANGED <<neuralNewest, source, dirty, neural, semantic, published,
                   callVars>>

(* publish: the packets the source needs, if they are new or the source is     *)
(* dirty, and never behind what was published.                                 *)
Primary(n, s) ==
    CASE source = "pixel" -> n
      [] source = "semantic" -> s
      [] source = "fused" -> IF n = s THEN s ELSE None
      [] source = "grid" -> None

Publish(packet, neuralChanged, semanticChanged) ==
    LET primary == Primary(neuralNewest, packet)
        changed == \/ dirty
                   \/ neuralChanged /\ source # "semantic"
                   \/ semanticChanged /\ source # "pixel"
    IN  IF primary # None /\ changed /\ Newer(primary, published)
        THEN published' = primary /\ dirty' = FALSE
        ELSE UNCHANGED <<published, dirty>>

(* advance, after the semantic part: the newest neural scene, and publish.     *)
Proceed(packet, semanticChanged) ==
    /\ semantic' = packet
    /\ neural' = neuralNewest
    /\ Publish(packet, neuralNewest # neural, semanticChanged)

NoQuery == semanticQuery' = None /\ semanticTicket' = 0

(* poll_semantic by the state that status() reported.                          *)
Polled ==
    \/ /\ state \in Pending \cup {"stopping"}
       /\ Retires(seen) /\ UNCHANGED <<snapshot, semanticTicket, semanticQuery>>
       /\ Proceed(semantic, FALSE)
    \/ /\ state \in Retired
       /\ Retires(seen) /\ UNCHANGED snapshot
       /\ NoQuery /\ Proceed(None, FALSE)
    \/ /\ state = "complete" /\ foreground
       /\ Free
       /\ semanticTicket' = 0 /\ UNCHANGED semanticQuery
       /\ Proceed(semanticQuery, TRUE)
    \/ /\ state = "complete" /\ ~foreground
       /\ Free /\ NoQuery /\ Proceed(None, FALSE)

(* advance without a query in flight.                                          *)
Advance ==
    /\ call = "none" /\ semanticTicket = 0
    /\ Proceed(semantic, FALSE)
    /\ UNCHANGED <<providerVars, neuralNewest, foreground, source,
                   semanticTicket, semanticQuery, callVars>>

(* advance with one: the provider's poll reads the state twice, once for what  *)
(* it retires and once for what it reports.                                    *)
PollReads ==
    /\ call = "none" /\ semanticTicket # 0
    /\ ticket = semanticTicket /\ state # "idle"
    /\ cancelRequested' = (cancelRequested \/ expired)
    /\ seen' = state /\ call' = "poll"
    /\ UNCHANGED <<platform, memory, state, ticket, snapshot, next, expired,
                   detached, stopRequested, request, done, workerVars, crossed,
                   sceneVars, goal>>

(* A poll refused as stale is reported, and the ticket stays.                  *)
PollStale ==
    /\ call = "none" /\ semanticTicket # 0
    /\ ticket # semanticTicket \/ state = "idle"
    /\ Proceed(semantic, FALSE)
    /\ UNCHANGED <<providerVars, neuralNewest, foreground, source,
                   semanticTicket, semanticQuery, callVars>>

PollReports ==
    /\ call = "poll"
    /\ Polled
    /\ call' = "none"
    /\ UNCHANGED <<platform, memory, next, expired, cancelRequested, detached,
                   stopRequested, request, done, workerVars, crossed,
                   neuralNewest, foreground, source, seen, goal>>

(* publish_grid and publish_windows: under their own source, with a frame      *)
(* number of their own and no comparison.                                      *)
PublishGrid ==
    /\ call = "none" /\ source = "grid"
    /\ \E frame \in 1..MaxFrame :
          published' = [frame |-> frame, topology |-> neuralNewest.topology]
    /\ dirty' = FALSE
    /\ UNCHANGED <<providerVars, neuralNewest, foreground, source, neural,
                   semantic, semanticTicket, semanticQuery, callVars>>

(* set_filter and set_fusion                                                   *)
SetFilter ==
    /\ call = "none"
    /\ dirty' = TRUE
    /\ UNCHANGED <<providerVars, neuralNewest, foreground, source, neural,
                   semantic, semanticTicket, semanticQuery, published, callVars>>

-------------------------------------------------------------------------------
(* cancel_semantic, which ends the query for set_source, set_scope, shutdown   *)
(* and the pipeline's invalidate_semantic.                                     *)

Goals == Sources \cup {"invalidate", "shutdown"}

(* What the caller does once the query is over.                                *)
Conclude(g) ==
    /\ NoQuery /\ semantic' = None
    /\ source' = IF g \in Sources THEN g ELSE source
    /\ dirty' = TRUE
    /\ call' = IF g = "shutdown" THEN "stop" ELSE "none"
    /\ goal' = "none"
    /\ UNCHANGED <<neuralNewest, foreground, neural, published, seen>>

(* set_source cancels only when a semantic source is left for one that is not. *)
Cancels(g) == g \in Sources => Semantic(source) /\ ~Semantic(g)

SetSource ==
    /\ call = "none"
    /\ \E s \in Sources \ {source} :
          /\ ~Cancels(s)
          /\ source' = s
    /\ dirty' = TRUE
    /\ UNCHANGED <<providerVars, neuralNewest, foreground, neural, semantic,
                   semanticTicket, semanticQuery, published, callVars>>

CancelNothing ==
    /\ call = "none" /\ semanticTicket = 0
    /\ \E g \in Goals : Cancels(g) /\ Conclude(g)
    /\ UNCHANGED providerVars

CancelQuery ==
    /\ call = "none" /\ semanticTicket # 0
    /\ IF ticket = semanticTicket THEN Cancel ELSE UNCHANGED cancelRequested
    /\ call' = "cancelled"
    /\ \E g \in Goals : Cancels(g) /\ goal' = g
    /\ UNCHANGED <<platform, memory, state, ticket, snapshot, next, expired,
                   detached, stopRequested, request, done, workerVars, crossed,
                   sceneVars, seen>>

(* wait: a ticket that is not the provider's is stale, and the coordinator     *)
(* forgets it; a query that is not over is waited for.                         *)
WaitStale ==
    /\ call = "cancelled" /\ ticket # semanticTicket
    /\ Conclude(goal)
    /\ UNCHANGED providerVars

WaitReads ==
    /\ call = "cancelled" /\ ticket = semanticTicket
    /\ call' = IF state \in Pending THEN "blocked" ELSE "terminal"
    /\ UNCHANGED <<providerVars, sceneVars, seen, goal>>

Woken ==
    /\ call = "blocked" /\ done > 0
    /\ done' = IF Windows THEN done ELSE done - 1
    /\ call' = "terminal"
    /\ UNCHANGED <<platform, memory, queryVars, stopRequested, request, workerVars,
                   crossed, sceneVars, seen, goal>>

(* Like poll, wait reads the state twice at its end.                           *)
WaitRereads ==
    /\ call = "terminal"
    /\ seen' = state /\ call' = "reporting"
    /\ UNCHANGED <<providerVars, sceneVars, goal>>

(* cancel_semantic after the wait: a snapshot that status() reported is        *)
(* released, whatever the state.                                               *)
WaitReports ==
    /\ call = "reporting"
    /\ IF state = "complete" THEN Free ELSE Retires(seen) /\ UNCHANGED snapshot
    /\ Conclude(goal)
    /\ UNCHANGED <<platform, memory, next, expired, cancelRequested, detached,
                   stopRequested, request, done, workerVars, crossed>>

WaitForever ==
    /\ Windows /\ call = "blocked" /\ done = 0 /\ ~cancelRequested
    /\ call' = "expired"
    /\ UNCHANGED <<providerVars, sceneVars, seen, goal>>

(* Windows: 16 ms after the cancel the wait gives up and detaches.             *)
WaitExpires ==
    /\ Windows /\ call = "blocked" /\ done = 0 /\ cancelRequested
    /\ call' = "expired"
    /\ UNCHANGED <<providerVars, sceneVars, seen, goal>>

Detach ==
    /\ call = "expired"
    /\ detached' = TRUE
    /\ call' = "detached"
    /\ UNCHANGED <<platform, memory, state, ticket, snapshot, next, expired,
                   cancelRequested, stopRequested, request, done, workerVars,
                   crossed, sceneVars, seen, goal>>

(* The report of a detached wait says CANCELLED, but carries the snapshot of a *)
(* query that completed meanwhile.                                             *)
DetachReports ==
    /\ call = "detached"
    /\ IF state = "complete" THEN Free ELSE UNCHANGED <<ticket, snapshot, state>>
    /\ Conclude(goal)
    /\ UNCHANGED <<platform, memory, next, expired, cancelRequested, detached,
                   stopRequested, request, done, workerVars, crossed>>

-------------------------------------------------------------------------------
(* The pipeline shuts the coordinator down first and the provider after it.    *)
Open ==
    /\ call = "none" /\ memory = "none"
    /\ Initialize
    /\ UNCHANGED <<sceneVars, callVars>>

ShutdownProvider ==
    /\ call = "stop"
    /\ IF memory = "live" THEN Stop /\ call' = "joining"
                          ELSE UNCHANGED providerVars /\ call' = "none"
    /\ UNCHANGED <<sceneVars, seen, goal>>

JoinProvider ==
    /\ call = "joining" /\ (Joined \/ JoinExpired)
    /\ call' = "none"
    /\ UNCHANGED <<sceneVars, seen, goal>>

(* The neural thread publishes a scene; the user moves to another window or    *)
(* the displays change, and no query made before is current.                   *)
NeuralScene ==
    /\ \E t \in {neuralNewest.topology, neuralNewest.topology + 1} \cap 1..MaxTopology :
          neuralNewest' = [frame |-> neuralNewest.frame + 1, topology |-> t]
    /\ neuralNewest.frame < MaxFrame
    /\ UNCHANGED <<providerVars, foreground, source, dirty, neural, semantic,
                   semanticTicket, semanticQuery, published, callVars>>

Leave ==
    /\ foreground /\ semanticTicket # 0
    /\ foreground' = FALSE
    /\ UNCHANGED <<providerVars, neuralNewest, source, dirty, neural, semantic,
                   semanticTicket, semanticQuery, published, callVars>>

-------------------------------------------------------------------------------
(* The coordinator's thread and the provider's worker thread together. *)

Init == ProviderInit /\ CoordinatorInit

(* The steps of the worker that its own code bounds, and the walk: on macOS    *)
(* every Accessibility message has a time-out and the elements are counted; a  *)
(* UIA call may ignore its time-out and its cancellation.                      *)
Step == /\ Wake \/ MacWake \/ Start \/ MacStart \/ MacWalk \/ Signal \/ Look \/ Retire
        /\ UNCHANGED <<sceneVars, callVars>>
WindowsWalk == Walk /\ UNCHANGED <<sceneVars, callVars>>

(* A call goes on when it can; its time-out passes.                            *)
Return == \/ PollReports \/ WaitStale \/ WaitReads \/ Woken \/ WaitRereads \/ WaitReports
          \/ WaitExpires \/ Detach \/ DetachReports
          \/ ShutdownProvider \/ JoinProvider

Next == \/ Step \/ WindowsWalk \/ Return
        \/ BudgetSpent /\ UNCHANGED <<sceneVars, callVars>>
        \/ RequestSemantic \/ Advance \/ PollStale \/ PollReads \/ PublishGrid \/ SetFilter
        \/ SetSource \/ CancelNothing \/ CancelQuery \/ Open
        \/ NeuralScene \/ Leave

Spec == Init /\ [][Next]_vars /\ WF_vars(Step) /\ WF_vars(Return)

(* As Spec, with UIA calls that keep to their time-outs.                       *)
BoundedSpec == Spec /\ WF_vars(WindowsWalk)

-------------------------------------------------------------------------------
ProviderTypeOK ==
    /\ platform \in {"windows", "macos"}
    /\ memory \in {"none", "live", "leaked"}
    /\ state \in Pending \cup Retired \cup {"idle", "complete", "stopping"}
    /\ next \in 1..MaxTicket + 1
    /\ ticket \in 0..next - 1 /\ snapshot \in 0..next - 1
    /\ request \in Nat /\ done \in Nat
    /\ worker \in {"none", "idle", "started", "walking", "signalling", "looking",
                   "retiring", "exited"}
    /\ walks \in 0..next - 1

Packets == [frame : 0..MaxFrame, topology : 0..MaxTopology]

CoordinatorTypeOK ==
    /\ neuralNewest \in Packets /\ source \in Sources
    /\ neural \in Packets /\ semantic \in Packets
    /\ semanticQuery \in Packets /\ published \in Packets
    /\ semanticTicket \in 0..next - 1
    /\ call \in {"none", "poll", "cancelled", "blocked", "terminal", "reporting",
                 "expired", "detached", "stop", "joining"}
    /\ goal \in Goals \cup {"none"}

(* All variables have their types.                                             *)
TypeOK == ProviderTypeOK /\ CoordinatorTypeOK

(* As long as no query was accepted while the worker was still in the tail of  *)
(* the last one, the ticket the coordinator holds is the provider's: it is     *)
(* never refused as stale, which advance would report for ever.                *)
QueryHeld ==
    ~crossed /\ semanticTicket # 0 /\ call \in {"none", "poll"} =>
        ticket = semanticTicket /\ state # "idle"

(* The worker walks only the query in flight, with its buffers in place: a     *)
(* query whose client is gone keeps the provider busy until the walk ends, and *)
(* nothing is freed or overwritten under it.                                   *)
WalkOwnsQuery ==
    walks # 0 => /\ walks = ticket /\ state \in {"running", "stopping"}
                 /\ memory # "none"

(* Every call returns, on Windows even when the application under query never  *)
(* answers.                                                                    *)
CallsReturn == call # "none" ~> call = "none"

(* What the coordinator's test says of cancel_semantic: when the query is      *)
(* over for the coordinator it is over for the provider, which then accepts    *)
(* another.                                                                    *)
QueryRetired ==
    (semanticTicket = 0 /\ state # "idle" /\ memory = "live")
        ~> (semanticTicket # 0 \/ state = "idle" \/ memory # "live")
===============================================================================
