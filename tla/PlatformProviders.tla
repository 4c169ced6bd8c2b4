------------------------- MODULE PlatformProviders -------------------------
(***************************************************************************)
(* What feeds the pipeline from the platform: the capture path and the     *)
(* semantic queries.  They share no state and no thread waits for another, *)
(* so a behaviour follows one of them.                                     *)
(***************************************************************************)
EXTENDS Capture

CONSTANTS MaxTicket, MaxFrame, MaxTopology     \* bounds of SceneCoordinator

ASSUME QueryAssumption == MaxTicket \in Nat /\ MaxFrame \in Nat /\ MaxTopology \in Nat

VARIABLES part,         \* the one this behaviour follows
          platform, memory, state, ticket, snapshot, next, expired, cancelRequested, detached,
          stopRequested, request, done, worker, walks, crossed,
          neuralNewest, foreground, source, dirty, neural, semantic, semanticTicket, semanticQuery,
          published, call, seen, goal

Query == INSTANCE SceneCoordinator
queryVars == <<platform, memory, state, ticket, snapshot, next, expired, cancelRequested, detached,
               stopRequested, request, done, worker, walks, crossed,
               neuralNewest, foreground, source, dirty, neural, semantic, semanticTicket, semanticQuery,
               published, call, seen, goal>>
providers == <<part, captureVars, queryVars>>

Init ==
  /\ part \in {"capture", "query"}
  /\ CaptureInit /\ Query!Init
  /\ part = "capture" => platform = "windows" /\ source = "fused"

Following(name) == part = name /\ UNCHANGED part

Next ==
  \/ Following("capture") /\ CaptureNext /\ UNCHANGED queryVars
  \/ Following("query") /\ Query!Next /\ UNCHANGED captureVars

Of(step) == Following("query") /\ step /\ UNCHANGED captureVars

Spec == Init /\ [][Next]_providers /\ WF_providers(Of(Query!Step)) /\ WF_providers(Of(Query!Return))

---------------------------------------------------------------------------
\* The ticket held is the provider's, and the worker walks only the query in
\* flight.
QueryHolds == Query!TypeOK /\ Query!QueryHeld /\ Query!WalkOwnsQuery

\* Every call of the coordinator returns.
CallsReturn == Query!CallsReturn
=============================================================================
