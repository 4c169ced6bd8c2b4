------------------------------- MODULE Capture -------------------------------
(***************************************************************************)
(* The capture path of the Windows pipeline, from the display to the frame *)
(* the neural path holds: the streams of the capture provider              *)
(* (screen_capture.cpp), the set that keeps one stream per display         *)
(* (scene_capture.cpp), the ring of textures shared with the inference     *)
(* device (d3d12_capture_transfer.cpp) and the bridge that lends a frame   *)
(* and takes all of it back (neural_bridge.cpp).                           *)
(*                                                                         *)
(* The pipeline calls all of them on its thread; displays come, go and are *)
(* resized at any time, and the system reports a closed source on a thread *)
(* of its own.  A call is the set of its outcomes, each with what it       *)
(* returns, the capture path it leaves and the failures of the system it   *)
(* took.  One holder has a frame, so a frame's own generation is left out. *)
(***************************************************************************)
EXTENDS Integers, FiniteSets

CONSTANTS Displays,             \* display ids, in their order
          Streams,              \* streams of the provider, slots of the set
          Transfers,            \* textures of the ring, frames of the bridge
          MaxChanges,           \* bound: displays that come, go or are resized
          MaxFailures           \* bound: failures of the system

ASSUME CaptureAssumption == /\ Displays \subseteq Nat \ {0} /\ IsFiniteSet(Displays) /\ Displays # {}
                            /\ Streams \in Nat /\ Cardinality(Displays) <= Streams
                            /\ Transfers \in Nat /\ Cardinality(Displays) <= Transfers
                            /\ MaxChanges \in Nat /\ MaxFailures \in Nat

VARIABLES capture,              \* the objects the pipeline owns
          attached, content,    \* the displays of the system and their sizes
          layout,               \* the pipeline's snapshot of them, with its epoch
          callbacks,            \* reports of a closed source on their way
          phase,                \* the pipeline: up, taken down, or not to be taken down
          changes, failures,    \* counted for the bounds
          overtaken               \* a report was stored over a later stream's

world == <<attached, content, changes>>
captureVars == <<capture, attached, content, layout, callbacks, phase, changes, failures, overtaken>>

Handles == [slot : 1..Streams, generation : Nat]

\* gone: the display went away under the stream
Stream(generation) ==
  [active |-> FALSE, generation |-> generation, display |-> 0, started |-> FALSE, leased |-> FALSE,
   size |-> 0, pool |-> 0, recreate |-> FALSE, gone |-> FALSE]
FreeSlot == [active |-> FALSE, display |-> 0, stream |-> [slot |-> 1, generation |-> 0],
             running |-> FALSE, leased |-> FALSE]

\* faulted: slots a failure of the system left behind what the set believes
Empty == [streams |-> [k \in 1..Streams |-> Stream(1)],
          signals |-> [k \in 1..Streams |-> [generation |-> 0, closed |-> FALSE]],
          slots |-> [k \in 1..Streams |-> FreeSlot],
          running |-> FALSE, epoch |-> 0, pending |-> FALSE,
          ring |-> [k \in 1..Transfers |-> [leased |-> FALSE, size |-> 0]],
          frames |-> {}, faulted |-> {}]

Call(result, c, cost) == [result |-> result, c |-> c, cost |-> cost]
Fails(c) == Call("BACKEND", c, 1)
Affordable(outcomes) == {o \in outcomes : failures + o.cost <= MaxFailures}

\* What happens after a call that succeeded, and after any call.
Then(outcomes, Op(_)) ==
  Affordable(UNION {IF o.result = "OK" THEN {[p EXCEPT !.cost = @ + o.cost] : p \in Op(o.c)} ELSE {o}
                      : o \in outcomes})
Regardless(outcomes, Op(_)) ==
  Affordable(UNION {{[o EXCEPT !.c = p.c, !.cost = @ + p.cost] : p \in Op(o.c)} : o \in outcomes})

First(S) == CHOOSE k \in S : \A j \in S : k <= j
Last(S) == IF S = {} THEN 0 ELSE CHOOSE k \in S : \A j \in S : j <= k

\* The items in their order, each on what the ones before it left.
InTurn(outcomes, items, Op(_, _)) ==
  LET After[n \in 0..Last(items)] ==
        IF n = 0 THEN outcomes
        ELSE IF n \in items THEN Then(After[n - 1], LAMBDA c : Op(c, n)) ELSE After[n - 1]
  IN  After[Last(items)]

---------------------------------------------------------------------------
(* ScreenCaptureProvider                                                   *)

Live(c, h) == c.streams[h.slot].active /\ c.streams[h.slot].generation = h.generation

CloseStream(c, k) == [c EXCEPT !.streams[k] = Stream(@.generation + 1), !.signals[k].generation = 0]

Opened(c, k, d) ==
  [c EXCEPT !.streams[k] = [@ EXCEPT !.active = TRUE, !.display = d, !.size = content[d]],
            !.signals[k] = [generation |-> c.streams[k].generation, closed |-> FALSE]]

\* The system may refuse the item, or the registration after the item.
CreateStream(c, d) ==
  LET free == {k \in 1..Streams : ~c.streams[k].active}
      k == First(free)
  IN  IF d \notin attached THEN {Call("NOT_FOUND", c, 0)}
      ELSE IF free = {} THEN {Call("CAPACITY", c, 0)}
      ELSE {Call("OK", Opened(c, k, d), 0), Fails(c), Fails(CloseStream(Opened(c, k, d), k))}

\* A stream that does not close cleanly is gone all the same.
DestroyStream(c, h) ==
  IF ~Live(c, h) THEN {Call("STALE", c, 0)}
  ELSE IF c.streams[h.slot].started \/ c.streams[h.slot].leased THEN {Call("BUSY", c, 0)}
  ELSE {Call("OK", CloseStream(c, h.slot), 0), Fails(CloseStream(c, h.slot))}

StartStream(c, h) ==
  IF ~Live(c, h) THEN {Call("STALE", c, 0)}
  ELSE IF c.streams[h.slot].started THEN {Call("ALREADY_EXISTS", c, 0)}
  ELSE {Call("OK", [c EXCEPT !.streams[h.slot].started = TRUE,
                              !.streams[h.slot].pool = c.streams[h.slot].size], 0), Fails(c)}

StopStream(c, h) ==
  LET stopped == [c EXCEPT !.streams[h.slot].started = FALSE, !.streams[h.slot].pool = 0]
  IN  IF ~Live(c, h) THEN {Call("STALE", c, 0)}
      ELSE IF ~c.streams[h.slot].started \/ c.streams[h.slot].leased THEN {Call("STATE", c, 0)}
      ELSE {Call("OK", stopped, 0), Fails(stopped)}

Closed(c, k) == c.signals[k].generation = c.streams[k].generation /\ c.signals[k].closed

\* A frame of another size than the pool's marks the pool to be made again,
\* also when reading the rest of the frame fails.
AcquireFrame(c, h) ==
  LET s == c.streams[h.slot]
      now == content[s.display]
      seen == [s EXCEPT !.size = now, !.recreate = @ \/ now # s.size]
      With(stream) == [c EXCEPT !.streams[h.slot] = stream]
  IN  IF ~Live(c, h) THEN {Call("STALE", c, 0)}
      ELSE IF ~s.started \/ s.leased THEN {Call("STATE", c, 0)}
      ELSE IF Closed(c, h.slot) THEN {Call("BACKEND", c, 0)}
      ELSE {Call("BUSY", c, 0), Call("OK", With([seen EXCEPT !.leased = TRUE]), 0), Fails(c), Fails(With(seen))}

ReleaseFrame(c, h) ==
  LET s == c.streams[h.slot]
      closed == [c EXCEPT !.streams[h.slot].leased = FALSE]
      made == [closed EXCEPT !.streams[h.slot].recreate = FALSE,
                             !.streams[h.slot].pool = IF s.recreate THEN s.size ELSE @]
  IN  IF ~Live(c, h) \/ ~c.streams[h.slot].leased THEN {Call("STALE", c, 0)}
      ELSE {Call("OK", made, 0), Fails(made), Fails(closed)}

---------------------------------------------------------------------------
(* SceneCaptureSet                                                         *)

SlotsOf(c) == {i \in 1..Streams : c.slots[i].active}
SlotOf(c, d) == {i \in SlotsOf(c) : c.slots[i].display = d}
Faulted(c, i) == [c EXCEPT !.faulted = @ \cup {i}]

\* The stop before a removal; STATE says that it has stopped.
Stopped(c, i) ==
  {CASE o.result = "STATE" -> [o EXCEPT !.result = "OK"]
     [] o.result = "BACKEND" -> [o EXCEPT !.c = Faulted(o.c, i)]
     [] OTHER -> o : o \in StopStream(c, c.slots[i].stream)}

RemoveSlot(c, i) ==
  LET Destroyed(b) ==
        {IF o.result = "OK" THEN [o EXCEPT !.c.slots[i] = FreeSlot, !.c.faulted = @ \ {i}]
         ELSE [o EXCEPT !.c = Faulted(o.c, i)] : o \in DestroyStream(b, b.slots[i].stream)}
  IN  IF c.slots[i].leased THEN {Call("BUSY", c, 0)}
      ELSE Then(IF c.slots[i].running THEN Stopped(c, i) ELSE {Call("OK", c, 0)}, Destroyed)

\* A display's stream, started when the set is running; one that does not
\* start is destroyed, whatever that returns.
Add(c, d) ==
  LET i == First(1..Streams \ SlotsOf(c))
      Running(h, b) ==
        UNION {IF o.result = "OK"
               THEN {[o EXCEPT !.c.slots[i] = [active |-> TRUE, display |-> d, stream |-> h,
                                               running |-> b.running, leased |-> FALSE]]}
               ELSE Regardless({o}, LAMBDA a : DestroyStream(a, h))
                 : o \in IF b.running THEN StartStream(b, h) ELSE {Call("OK", b, 0)}}
  IN  IF SlotOf(c, d) # {} THEN {Call("OK", c, 0)}
      ELSE IF SlotsOf(c) = 1..Streams THEN {Call("CAPACITY", c, 0)}
      ELSE UNION {IF o.result # "OK" THEN {o}
                  ELSE LET k == First({j \in 1..Streams : ~c.streams[j].active})
                       IN Then({o}, LAMBDA b : Running([slot |-> k, generation |-> b.streams[k].generation], b))
                    : o \in CreateStream(c, d)}

RemoveAll(c, slots) == InTurn({Call("OK", c, 0)}, slots, RemoveSlot)
AddAll(outcomes, displays) == InTurn(outcomes, displays, Add)

\* Mutant: the epoch is taken before the streams follow.
SynchronizeEarly(c, shown) ==
  LET early == [c EXCEPT !.epoch = shown.epoch]
      outside == {i \in SlotsOf(c) : c.slots[i].display \notin shown.displays}
  IN  IF c.epoch = shown.epoch THEN {Call("OK", c, 0)}
      ELSE IF \E i \in outside : c.slots[i].leased THEN {Call("BUSY", early, 0)}
      ELSE AddAll(RemoveAll(early, outside), shown.displays)

\* The streams follow the layout, or stay where a refusal left them until the
\* next attempt.
Synchronize(c, shown) ==
  LET outside == {i \in SlotsOf(c) : c.slots[i].display \notin shown.displays}
      followed == AddAll(RemoveAll(c, outside), shown.displays)
  IN  IF c.epoch = shown.epoch THEN {Call("OK", c, 0)}
      ELSE {Fails(c)} \cup
           IF \E i \in outside : c.slots[i].leased THEN {Call("BUSY", c, 0)}
           ELSE Then(followed, LAMBDA b : {Call("OK", [b EXCEPT !.epoch = shown.epoch], 0)})

Switch(c, i, enabled) ==
  IF enabled THEN StartStream(c, c.slots[i].stream)
  ELSE {IF o.result = "BACKEND" THEN [o EXCEPT !.c = Faulted(o.c, i)] ELSE o : o \in StopStream(c, c.slots[i].stream)}

RollbackNothing(o, before, enabled) == {o}     \* mutant: what was changed stays changed

\* What was changed before the refusal is changed back, whatever that returns.
PutBack(c, i, enabled) ==
  {[o EXCEPT !.result = "OK", !.c.slots[i].running = enabled,
             !.c.faulted = IF o.result = "OK" THEN @ ELSE @ \cup {i}] : o \in Switch(c, i, enabled)}
PutAllBack(c, slots, enabled) == InTurn({Call("OK", c, 0)}, slots, LAMBDA b, i : PutBack(b, i, enabled))
Rollback(o, before, enabled) == Regardless({o}, LAMBDA c : PutAllBack(c, before, ~enabled))

\* One stream starts or stops; a refusal ends the change of them all.
SwitchSlot(c, i, enabled) ==
  UNION {IF o.result = "OK" THEN {[o EXCEPT !.c.slots[i].running = enabled]}
         ELSE Rollback(o, {j \in SlotsOf(c) : j < i}, enabled) : o \in Switch(c, i, enabled)}
SwitchAll(c, slots, enabled) == InTurn({Call("OK", c, 0)}, slots, LAMBDA b, i : SwitchSlot(b, i, enabled))

SetRunning(c, enabled) ==
  IF c.running = enabled THEN {Call("OK", c, 0)}
  ELSE IF ~enabled /\ \E i \in SlotsOf(c) : c.slots[i].leased THEN {Call("BUSY", c, 0)}
  ELSE Then(SwitchAll(c, SlotsOf(c), enabled), LAMBDA b : {Call("OK", [b EXCEPT !.running = enabled], 0)})

Acquire(c, d) ==
  IF SlotOf(c, d) = {} THEN {Call("NOT_FOUND", c, 0)}
  ELSE LET i == First(SlotOf(c, d))
       IN  IF ~c.slots[i].running THEN {Call("STATE", c, 0)}
           ELSE IF c.slots[i].leased THEN {Call("BUSY", c, 0)}
           ELSE {IF o.result = "OK" THEN [o EXCEPT !.c.slots[i].leased = TRUE] ELSE o
                   : o \in AcquireFrame(c, c.slots[i].stream)}

\* A release the system refuses has ended the provider's lease; the set keeps
\* its own.
Release(c, i, d) ==
  IF ~c.slots[i].active \/ ~c.slots[i].leased \/ c.slots[i].display # d THEN {Call("STALE", c, 0)}
  ELSE {IF o.result = "OK" THEN [o EXCEPT !.c.slots[i].leased = FALSE] ELSE [o EXCEPT !.c = Faulted(o.c, i)]
          : o \in ReleaseFrame(c, c.slots[i].stream)}

ShutdownSet(c) ==
  IF \E i \in SlotsOf(c) : c.slots[i].leased THEN {Call("BUSY", c, 0)}
  ELSE Then(RemoveAll(c, SlotsOf(c)), LAMBDA b : {Call("OK", [b EXCEPT !.running = FALSE], 0)})

---------------------------------------------------------------------------
(* D3d12CaptureTransfer and NeuralBridge                                   *)

\* The free texture a copy goes to: one of the size, or one to be made again.
Texture(c, size) ==
  LET free == {r \in 1..Transfers : ~c.ring[r].leased}
      fitting == {r \in free : c.ring[r].size = size}
  IN  IF fitting # {} THEN First(fitting) ELSE IF free # {} THEN First(free) ELSE 0

\* The frame of slot i is copied, and the copy lent to the runtime; a texture
\* that is not signalled, or that the runtime refuses, is free again.
Import(c, i) ==
  LET size == c.streams[c.slots[i].stream.slot].pool
      r == Texture(c, size)
      sized == [c EXCEPT !.ring[r].size = size]
      lent == [sized EXCEPT !.ring[r].leased = TRUE,
                            !.frames = @ \cup {[slot |-> i, display |-> c.slots[i].display, texture |-> r]}]
  IN  IF Cardinality(c.frames) = Transfers \/ r = 0 THEN {Call("CAPACITY", c, 0)}
      ELSE {Call("OK", lent, 0), Fails(sized)}
           \cup IF c.ring[r].size = size THEN {} ELSE {Fails([c EXCEPT !.ring[r].size = 0])}

\* The bridge takes a frame back, and only counts what is refused.
Retire(c, f) ==
  {[o EXCEPT !.result = "OK", !.c.ring[f.texture].leased = FALSE, !.c.frames = @ \ {f}]
     : o \in Release(c, f.slot, f.display)}
FrameOf(c, i) == CHOOSE f \in c.frames : f.slot = i
RetireAll(c, slots) == InTurn({Call("OK", c, 0)}, slots, LAMBDA b, i : Retire(b, FrameOf(b, i)))

---------------------------------------------------------------------------
(* The pipeline                                                            *)

SynchronizeTopology(c, shown) ==
  Then(Synchronize(c, shown), LAMBDA b : {Call("OK", [b EXCEPT !.pending = FALSE], 0)})

\* One display of offer_frames.  The coordinator keeps the frame or refuses it,
\* and a refused frame is retired at once.
OfferDisplay(c, d) ==
  LET Lent(i, b) ==
        UNION {IF o.result # "OK" THEN Regardless({o}, LAMBDA a : Release(a, i, d))
               ELSE {o} \cup Regardless({[o EXCEPT !.result = "REFUSED", !.cost = @ + 1]},
                                        LAMBDA a : Retire(a, FrameOf(a, i)))
                 : o \in Import(b, i)}
  IN  UNION {CASE o.result = "BUSY" -> {[o EXCEPT !.result = "OK"]}
               [] o.result = "OK" -> Then({o}, LAMBDA b : Lent(First(SlotOf(b, d)), b))
               [] OTHER -> {o} : o \in Acquire(c, d)}

OfferFrames(c, scope) == InTurn({Call("OK", c, 0)}, scope, OfferDisplay)

\* One turn: the topology, the frames that are due, the batches that end, and
\* the capture that is no longer needed.
Turn(c, offers, scope, retiring, stops) ==
  LET Synchronized == IF c.pending THEN SynchronizeTopology(c, layout) ELSE {Call("OK", c, 0)}
      Going == {IF o.result = "BUSY" THEN [o EXCEPT !.result = "OK"] ELSE o : o \in Synchronized}
      Offered(b) == IF offers /\ b.running /\ ~b.pending THEN OfferFrames(b, scope) ELSE {Call("OK", b, 0)}
      Ended(b) == RetireAll(b, {f.slot : f \in {f \in b.frames : f.display \in retiring}})
      Idle(b) == IF stops /\ b.running THEN SetRunning(b, FALSE) ELSE {Call("OK", b, 0)}
  IN  Then(Then(Then(Going, Offered), Ended), Idle)

\* The runtime lets go of the frames it holds before the bridge and the set are
\* taken down; what cannot be is left to the end of the process.
TakenDown(c) ==
  UNION {IF o.c.frames # {} \/ \E r \in 1..Transfers : o.c.ring[r].leased
         THEN {[o EXCEPT !.result = "BUSY"]} ELSE Then({o}, ShutdownSet)
           : o \in RetireAll(c, {f.slot : f \in c.frames})}

Become(outcomes, reacts) ==
  \E o \in Affordable(outcomes) :
     IF o.result = "BACKEND" /\ reacts
     THEN \E t \in Affordable({[p EXCEPT !.cost = @ + o.cost] : p \in TakenDown(o.c)}) :
            /\ capture' = t.c /\ failures' = failures + t.cost
            /\ phase' = IF t.result = "OK" THEN "down" ELSE "stuck"
     ELSE /\ capture' = o.c /\ failures' = failures + o.cost
          /\ UNCHANGED phase

Up == phase = "up"

\* The application's timer; a native failure takes the pipeline down.
Advance ==
  /\ Up
  /\ \E offers, stops \in BOOLEAN, scope \in SUBSET layout.displays \ {{}}, retiring \in SUBSET Displays :
       Become(Turn(capture, offers, scope, retiring, stops), TRUE)
  /\ UNCHANGED <<world, layout, callbacks, overtaken>>

\* A command that needs the neural path; what it answers is only shown.
Request ==
  /\ Up
  /\ Become(Then(IF capture.pending THEN SynchronizeTopology(capture, layout) ELSE {Call("OK", capture, 0)},
                 LAMBDA c : SetRunning(c, TRUE)), FALSE)
  /\ UNCHANGED <<world, layout, callbacks, overtaken>>

\* The end of a session by a key, or of a request by time: what the stop
\* answers is not looked at.
EndSession ==
  /\ Up /\ capture.running
  /\ Become(SetRunning(capture, FALSE), FALSE)
  /\ UNCHANGED <<world, layout, callbacks, overtaken>>

\* The window's message that the displays have changed: a layout is a new one
\* when a display came, went or has another size.
RefreshTopology ==
  /\ Up
  /\ LET changed == layout.displays # attached \/ layout.sizes # content
         now == [displays |-> attached, sizes |-> content, epoch |-> layout.epoch + IF changed THEN 1 ELSE 0]
         asked == [capture EXCEPT !.pending = @ \/ changed]
     IN  \/ Become({Fails(capture)}, TRUE) /\ UNCHANGED layout
         \/ /\ Become(IF asked.pending THEN SynchronizeTopology(asked, now) ELSE {Call("OK", asked, 0)}, TRUE)
            /\ layout' = now
  /\ UNCHANGED <<world, callbacks, overtaken>>

---------------------------------------------------------------------------
(* The system                                                              *)

\* What comes after the pipeline is gone concerns no stream.
Changing == Up /\ changes < MaxChanges /\ changes' = changes + 1

Attach(d) ==
  /\ Changing /\ d \notin attached
  /\ attached' = attached \cup {d}
  /\ UNCHANGED <<capture, content, layout, callbacks, phase, failures, overtaken>>

\* The source of every stream of the display is closed, and its report set out.
Detach(d) ==
  /\ Changing /\ d \in attached /\ attached # {d}
  /\ LET ended == {k \in 1..Streams : capture.streams[k].active /\ capture.streams[k].display = d}
     IN  /\ capture' = [capture EXCEPT !.streams = [k \in 1..Streams |->
                          IF k \in ended THEN [@[k] EXCEPT !.gone = TRUE] ELSE @[k]]]
         /\ callbacks' = callbacks \cup {[slot |-> k, generation |-> capture.streams[k].generation, loaded |-> FALSE]
                                           : k \in ended}
  /\ attached' = attached \ {d}
  /\ UNCHANGED <<content, layout, phase, failures, overtaken>>

Resize(d) ==
  /\ Changing /\ d \in attached
  /\ content' = [content EXCEPT ![d] = 3 - @]
  /\ UNCHANGED <<capture, attached, layout, callbacks, phase, failures, overtaken>>

\* The report, on a thread of the system: it looks whose signal it is, and then
\* stores.
Looks(k) ==
  /\ ~k.loaded
  /\ callbacks' = (callbacks \ {k}) \cup
       IF capture.signals[k.slot].generation = k.generation THEN {[k EXCEPT !.loaded = TRUE]} ELSE {}
  /\ UNCHANGED <<capture, world, layout, phase, failures, overtaken>>

Stores(k) ==
  /\ k.loaded
  /\ callbacks' = callbacks \ {k}
  /\ capture' = [capture EXCEPT !.signals[k.slot].closed = TRUE]
  /\ overtaken' = (overtaken \/ capture.signals[k.slot].generation \notin {0, k.generation})
  /\ UNCHANGED <<world, layout, phase, failures>>

CaptureInit ==
  /\ attached = {First(Displays)} /\ content = [d \in Displays |-> 1]
  /\ layout = [displays |-> attached, sizes |-> content, epoch |-> 1]
  /\ failures = 0 /\ changes = 0
  /\ \E o \in Synchronize(Empty, layout) : o.result = "OK" /\ capture = o.c
  /\ callbacks = {} /\ phase = "up" /\ overtaken = FALSE

CaptureNext ==
  \/ Advance \/ Request \/ EndSession \/ RefreshTopology
  \/ \E d \in Displays : Attach(d) \/ Detach(d) \/ Resize(d)
  \/ \E k \in callbacks : Looks(k) \/ Stores(k)

CaptureSpec == CaptureInit /\ [][CaptureNext]_captureVars

---------------------------------------------------------------------------
(* Properties                                                              *)

StreamTypes == [active : BOOLEAN, generation : Nat, display : Displays \cup {0}, started : BOOLEAN,
                leased : BOOLEAN, size : 0..2, pool : 0..2, recreate : BOOLEAN, gone : BOOLEAN]
CaptureTypeOK ==
  /\ capture.streams \in [1..Streams -> StreamTypes]
  /\ capture.signals \in [1..Streams -> [generation : Nat, closed : BOOLEAN]]
  /\ capture.slots \in [1..Streams -> [active : BOOLEAN, display : Displays \cup {0}, stream : Handles,
                                       running : BOOLEAN, leased : BOOLEAN]]
  /\ capture.ring \in [1..Transfers -> [leased : BOOLEAN, size : 0..2]]
  /\ capture.frames \subseteq [slot : 1..Streams, display : Displays, texture : 1..Transfers]
  /\ attached \subseteq Displays /\ phase \in {"up", "down", "stuck"}

\* A frame that is lent has a slot, a stream and a texture to itself, and
\* nothing is lent without one; only a slot whose release the system refused
\* stays taken.
LeasesAgree ==
  LET OfStream(k) == {f \in capture.frames : capture.slots[f.slot].stream.slot = k}
      OfTexture(r) == {f \in capture.frames : f.texture = r}
      OfSlot(i) == {f \in capture.frames : f.slot = i}
  IN  /\ \A r \in 1..Transfers : Cardinality(OfTexture(r)) = IF capture.ring[r].leased THEN 1 ELSE 0
      /\ \A k \in 1..Streams : Cardinality(OfStream(k)) = IF capture.streams[k].leased THEN 1 ELSE 0
      /\ \A i \in 1..Streams :
           /\ OfSlot(i) # {} => capture.slots[i].leased
           /\ capture.slots[i].leased => OfSlot(i) # {} \/ i \in capture.faulted

\* The provider has no stream the set does not know, and a slot's stream is the
\* provider's unless the system failed under it.
StreamsOwned ==
  /\ \A k \in 1..Streams : capture.streams[k].active =>
       \E i \in SlotsOf(capture) : /\ capture.slots[i].stream = [slot |-> k, generation |-> capture.streams[k].generation]
                                   /\ capture.slots[i].display = capture.streams[k].display
  /\ \A i \in SlotsOf(capture) \ capture.faulted : Live(capture, capture.slots[i].stream)

\* When no topology is pending every display of the layout is captured, and no
\* other: whatever stopped an earlier attempt half-way.
LayoutIsCaptured ==
  Up /\ ~capture.pending => {capture.slots[i].display : i \in SlotsOf(capture)} = layout.displays

\* The capture path holds together.
CaptureHeld == CaptureTypeOK /\ LeasesAgree /\ StreamsOwned /\ LayoutIsCaptured

\* The streams run when the set does, also after a start or a stop of one of
\* them was refused and the others were put back.
RunningAgrees ==
  Up => \A i \in SlotsOf(capture) \ capture.faulted :
          /\ capture.slots[i].running = capture.running
          /\ capture.streams[capture.slots[i].stream.slot].started = capture.running

\* A stream that reports a closed source lost its own, as long as no report was
\* between its look and its store while its slot went to another stream.
ClosedIsItsOwn ==
  ~overtaken => \A k \in 1..Streams : capture.streams[k].active /\ Closed(capture, k) => capture.streams[k].gone

\* The pipeline is taken down unless the system failed to stop, release or
\* close something under it.
StuckIsFaulted == phase = "stuck" => capture.faulted # {}

\* Streams do what they are told, and tell what is so.
StreamsObey == RunningAgrees /\ ClosedIsItsOwn /\ StuckIsFaulted

(* The set, its streams and the provider under them agree. *)
CaptureHolds == CaptureHeld /\ StreamsObey
=============================================================================
