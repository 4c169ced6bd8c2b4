----------------------- MODULE PlatformProviders_proof -----------------------
(* Safety of the capture path and of the semantic queries, for every number   *)
(* of displays, streams, textures, queries, scenes and topologies.            *)
(*                                                                            *)
(* The capture path: CaptureInv says of the paths a refresh passes through,   *)
(* half-way ones included, what each slot holds of the provider's streams and *)
(* of the ring (Path), and of the settled ones that they run together (Runs)  *)
(* and follow the layout (Lined).  Every call over the slots is a turn taken  *)
(* slot by slot; a lemma on turns carries the path through them.              *)
(*                                                                            *)
(* The queries: the ticket the coordinator holds is the provider's, and the   *)
(* worker walks only the query in flight.  QueryInv strengthens this with     *)
(* what the two threads know of each other: which states a raised request, a  *)
(* walk and a call half-way leave possible.                                   *)
EXTENDS PlatformProviders, FiniteSetTheorems, WellFoundedInduction, TLAPS

(* What a capture path is made of.                                            *)
SlotTypes == [active : BOOLEAN, display : Displays \cup {0}, stream : Handles,
              running : BOOLEAN, leased : BOOLEAN]
FrameTypes == [slot : 1..Streams, display : Displays, texture : 1..Transfers]
Paths == [streams : [1..Streams -> StreamTypes], signals : [1..Streams -> [generation : Nat, closed : BOOLEAN]],
          slots : [1..Streams -> SlotTypes], running : BOOLEAN, epoch : Nat, pending : BOOLEAN,
          ring : [1..Transfers -> [leased : BOOLEAN, size : 0..2]],
          frames : SUBSET FrameTypes, faulted : SUBSET (1..Streams)]

(* A stream has the signal of its generation while it is open.                *)
Signalled(c) ==
  \A k \in 1..Streams :
    /\ c.streams[k].generation # 0
    /\ c.streams[k].active => c.streams[k].display # 0
    /\ c.signals[k].generation = IF c.streams[k].active THEN c.streams[k].generation ELSE 0

(* A report is of a stream whose display is gone, or of one closed since.     *)
Reports(c) ==
  \A x \in callbacks :
    /\ x.generation <= c.streams[x.slot].generation
    /\ x.generation = c.streams[x.slot].generation => c.streams[x.slot].active /\ c.streams[x.slot].gone

Own(c) == ~overtaken => \A k \in 1..Streams : c.streams[k].active /\ Closed(c, k) => c.streams[k].gone

(* What a slot of the set holds of the provider's streams.                    *)
Kept(c) ==
  \A i \in SlotsOf(c) :
    LET h == c.slots[i].stream
        s == c.streams[c.slots[i].stream.slot]
    IN  /\ c.slots[i].display # 0
        /\ h.generation <= s.generation
        /\ h.generation = s.generation => s.active /\ s.display = c.slots[i].display
        /\ i \notin c.faulted => Live(c, h)

Apart(c) ==
  \A i, j \in SlotsOf(c) :
    i # j => c.slots[i].display # c.slots[j].display /\ c.slots[i].stream # c.slots[j].stream

Owned(c) ==
  \A k \in 1..Streams : c.streams[k].active =>
    \E i \in SlotsOf(c) : c.slots[i].stream = [slot |-> k, generation |-> c.streams[k].generation]

Fitted(c) == Signalled(c) /\ Reports(c) /\ Own(c) /\ Kept(c) /\ Apart(c) /\ Owned(c)

(* What is closed is not lent.                                                *)
Resting(c) ==
  /\ \A k \in 1..Streams : ~c.streams[k].active => ~c.streams[k].leased /\ ~c.streams[k].started
  /\ \A i \in 1..Streams : ~c.slots[i].active => ~c.slots[i].leased

(* A frame has its slot, its stream and its texture, and each of them it.     *)
Holding(c) ==
  \A f \in c.frames :
    /\ c.slots[f.slot].active /\ c.slots[f.slot].leased /\ c.slots[f.slot].display = f.display
    /\ Live(c, c.slots[f.slot].stream)
    /\ c.streams[c.slots[f.slot].stream.slot].leased
    /\ c.ring[f.texture].leased
Alone(c) == \A f, g \in c.frames : f.slot = g.slot \/ f.texture = g.texture => f = g
Held(c) ==
  /\ \A k \in 1..Streams : c.streams[k].leased => \E f \in c.frames : c.slots[f.slot].stream.slot = k
  /\ \A r \in 1..Transfers : c.ring[r].leased => \E f \in c.frames : f.texture = r
  /\ \A i \in 1..Streams : c.slots[i].leased => i \in c.faulted \/ \E f \in c.frames : f.slot = i
Lending(c) == Holding(c) /\ Alone(c) /\ Held(c)

Path(c) == c \in Paths /\ Fitted(c) /\ Resting(c) /\ Lending(c)

(* The slots of a set, and their streams, run or do not.                      *)
RunAs(c, S, running) ==
  \A i \in (S \cap SlotsOf(c)) \ c.faulted :
    c.slots[i].running = running /\ c.streams[c.slots[i].stream.slot].started = running
Runs(c) == RunAs(c, 1..Streams, c.running)

(* Paths with the same streams and slots, whatever runs and is lent.          *)
SameStreams(b, c) ==
  /\ \A k \in 1..Streams : /\ b.streams[k].active = c.streams[k].active
                           /\ b.streams[k].generation = c.streams[k].generation
                           /\ b.streams[k].display = c.streams[k].display
                           /\ b.streams[k].gone = c.streams[k].gone
  /\ b.signals = c.signals
  /\ \A i \in 1..Streams : /\ b.slots[i].active = c.slots[i].active
                           /\ b.slots[i].display = c.slots[i].display
                           /\ b.slots[i].stream = c.slots[i].stream
  /\ \A i \in c.faulted : i \in b.faulted
SameSet(b, c) == b.running = c.running /\ b.epoch = c.epoch /\ b.pending = c.pending

SameLeases(b, c) ==
  /\ \A k \in 1..Streams : b.streams[k].leased = c.streams[k].leased
  /\ \A i \in 1..Streams : b.slots[i].leased = c.slots[i].leased
  /\ \A r \in 1..Transfers : b.ring[r].leased = c.ring[r].leased
  /\ b.frames = c.frames

Alike(b, c) == SameStreams(b, c) /\ SameSet(b, c) /\ SameLeases(b, c)

CallbacksOK == callbacks \subseteq [slot : 1..Streams, generation : Nat \ {0}, loaded : BOOLEAN]

-------------------------------------------------------------------------------
LEMMA Typed ==
    ASSUME NEW c \in Paths
    PROVE  /\ \A k \in 1..Streams : /\ c.streams[k] \in StreamTypes
                                    /\ c.signals[k] \in [generation : Nat, closed : BOOLEAN]
                                    /\ c.slots[k] \in SlotTypes
                                    /\ c.slots[k].stream \in Handles
                                    /\ c.slots[k].stream.slot \in 1..Streams
                                    /\ c.slots[k].stream.generation \in Nat
                                    /\ c.streams[k].generation \in Nat
           /\ \A r \in 1..Transfers : c.ring[r] \in [leased : BOOLEAN, size : 0..2]
           /\ c.faulted \subseteq 1..Streams /\ c.frames \subseteq FrameTypes
           /\ \A f \in c.frames : f.slot \in 1..Streams /\ f.display \in Displays /\ f.texture \in 1..Transfers
           /\ SlotsOf(c) \subseteq 1..Streams
           /\ c.running \in BOOLEAN /\ c.epoch \in Nat /\ c.pending \in BOOLEAN
<1>1. \A k \in 1..Streams : /\ c.streams[k] \in StreamTypes
                            /\ c.signals[k] \in [generation : Nat, closed : BOOLEAN]
                            /\ c.slots[k] \in SlotTypes
  BY DEF Paths
<1>2. \A k \in 1..Streams : c.slots[k].stream \in Handles
  BY <1>1 DEF SlotTypes
<1>3. \A k \in 1..Streams : c.slots[k].stream.slot \in 1..Streams /\ c.slots[k].stream.generation \in Nat
  BY <1>2 DEF Handles
<1>4. \A k \in 1..Streams : c.streams[k].generation \in Nat
  BY <1>1 DEF StreamTypes
<1>5. /\ \A r \in 1..Transfers : c.ring[r] \in [leased : BOOLEAN, size : 0..2]
      /\ c.faulted \subseteq 1..Streams /\ c.frames \subseteq FrameTypes
      /\ c.running \in BOOLEAN /\ c.epoch \in Nat /\ c.pending \in BOOLEAN
  BY DEF Paths
<1>6. \A f \in c.frames : f.slot \in 1..Streams /\ f.display \in Displays /\ f.texture \in 1..Transfers
  BY <1>5 DEF FrameTypes
<1>7. SlotsOf(c) \subseteq 1..Streams
  BY DEF SlotsOf
<1> QED BY <1>1, <1>2, <1>3, <1>4, <1>5, <1>6, <1>7

LEMMA SameSlots ==
    ASSUME NEW b, NEW c, SameStreams(b, c)
    PROVE  SlotsOf(b) = SlotsOf(c)
BY DEF SameStreams, SlotsOf

(* Slots that keep their streams are kept when those streams stay themselves. *)
LEMMA KeptAs ==
    ASSUME NEW b, NEW c, Kept(c), SlotsOf(b) = SlotsOf(c),
           \A i \in SlotsOf(c) : /\ b.slots[i].stream = c.slots[i].stream
                                 /\ b.slots[i].display = c.slots[i].display
                                 /\ i \in c.faulted => i \in b.faulted
                                 /\ LET s == b.streams[c.slots[i].stream.slot]
                                        t == c.streams[c.slots[i].stream.slot]
                                    IN  s.active = t.active /\ s.generation = t.generation /\ s.display = t.display
    PROVE  Kept(b)
<1> SUFFICES ASSUME NEW i \in SlotsOf(c)
             PROVE  LET h == b.slots[i].stream
                        s == b.streams[b.slots[i].stream.slot]
                    IN  /\ b.slots[i].display # 0
                        /\ h.generation <= s.generation
                        /\ h.generation = s.generation => s.active /\ s.display = b.slots[i].display
                        /\ i \notin b.faulted => Live(b, h)
  BY Zenon DEF Kept
<1> DEFINE h == c.slots[i].stream
           s == c.streams[h.slot]
<1>1. /\ c.slots[i].display # 0 /\ h.generation <= s.generation
      /\ h.generation = s.generation => s.active /\ s.display = c.slots[i].display
      /\ i \notin c.faulted => s.active /\ s.generation = h.generation
  BY Zenon DEF Kept, Live
<1> QED BY Zenon, <1>1 DEF Live

LEMMA SameFitted ==
    ASSUME NEW b \in Paths, NEW c \in Paths, CallbacksOK, Fitted(c), SameStreams(b, c)
    PROVE  Fitted(b)
<1>1. SlotsOf(b) = SlotsOf(c)
  BY SameSlots
<1>2. Signalled(b)
  BY DEF Signalled, Fitted, SameStreams
<1>3. Reports(b)
  <2>1. \A x \in callbacks : x.slot \in 1..Streams
    BY DEF CallbacksOK
  <2> QED BY <2>1 DEF Reports, Fitted, SameStreams
<1>4. Own(b)
  BY SMTT(30) DEF Own, Closed, Fitted, SameStreams
<1>5. Kept(b)
  <2>1. \A i \in SlotsOf(c) : /\ i \in 1..Streams /\ c.slots[i].stream.slot \in 1..Streams
                              /\ b.slots[i].stream = c.slots[i].stream
                              /\ b.slots[i].display = c.slots[i].display
                              /\ i \in c.faulted => i \in b.faulted
    BY Typed DEF SameStreams
  <2>2. \A i \in SlotsOf(c) :
           LET s == b.streams[c.slots[i].stream.slot]
               t == c.streams[c.slots[i].stream.slot]
           IN  s.active = t.active /\ s.generation = t.generation /\ s.display = t.display
    BY <2>1 DEF SameStreams
  <2>3. Kept(c)
    BY DEF Fitted
  <2> QED BY Zenon, <1>1, <2>1, <2>2, <2>3, KeptAs
<1>6. Apart(b)
  BY <1>1, Typed DEF Apart, Fitted, SameStreams
<1>7. Owned(b)
  BY <1>1, Typed DEF Owned, Fitted, SameStreams
<1> QED BY <1>2, <1>3, <1>4, <1>5, <1>6, <1>7 DEF Fitted

LEMMA SameLending ==
    ASSUME NEW b \in Paths, NEW c \in Paths, Lending(c), SameStreams(b, c), SameLeases(b, c)
    PROVE  Lending(b)
<1>1. Holding(b)
  <2>1. \A f \in c.frames : f.slot \in 1..Streams /\ f.texture \in 1..Transfers
                            /\ c.slots[f.slot].stream.slot \in 1..Streams
    BY SMTT(30), Typed
  <2>2. ASSUME NEW f \in c.frames
        PROVE  /\ b.slots[f.slot].active /\ b.slots[f.slot].leased /\ b.slots[f.slot].display = f.display
               /\ Live(b, b.slots[f.slot].stream)
               /\ b.streams[b.slots[f.slot].stream.slot].leased /\ b.ring[f.texture].leased
    <3>1. /\ c.slots[f.slot].active /\ c.slots[f.slot].leased /\ c.slots[f.slot].display = f.display
          /\ Live(c, c.slots[f.slot].stream)
          /\ c.streams[c.slots[f.slot].stream.slot].leased /\ c.ring[f.texture].leased
      BY DEF Holding, Lending
    <3>2. b.slots[f.slot].stream = c.slots[f.slot].stream
      BY <2>1 DEF SameStreams
    <3> QED BY ZenonT(60), <2>1, <3>1, <3>2 DEF SameStreams, SameLeases, Live
  <2>3. b.frames = c.frames
    BY DEF SameLeases
  <2> QED BY <2>2, <2>3 DEF Holding
<1>2. Alone(b)
  BY DEF Alone, Lending, SameLeases
<1>3. Held(b)
  BY Typed DEF Held, Lending, SameStreams, SameLeases
<1> QED BY <1>1, <1>2, <1>3 DEF Lending

LEMMA AlikePath ==
    ASSUME NEW b \in Paths, NEW c, CallbacksOK, Path(c), Alike(b, c), Resting(b)
    PROVE  Path(b)
BY SameFitted, SameLending DEF Path, Alike

-------------------------------------------------------------------------------
(* Outcomes, and paths that differ in one place.                              *)
IsCall(o) == o = [result |-> o.result, c |-> o.c, cost |-> o.cost]

LEMMA CallIs ==
    ASSUME NEW result, NEW c, NEW cost
    PROVE  /\ IsCall(Call(result, c, cost)) /\ Call(result, c, cost).result = result
           /\ Call(result, c, cost).c = c /\ Call(result, c, cost).cost = cost
BY DEF Call, IsCall

LEMMA FailsIs ==
    ASSUME NEW c
    PROVE  IsCall(Fails(c)) /\ Fails(c).result = "BACKEND" /\ Fails(c).c = c
BY CallIs DEF Fails

LEMMA Costs ==
    ASSUME NEW p, IsCall(p), NEW x, NEW o, o = [p EXCEPT !.cost = @ + x]
    PROVE  IsCall(o) /\ o.result = p.result /\ o.c = p.c
BY DEF IsCall

LEMMA Renamed ==
    ASSUME NEW p, IsCall(p), NEW result, NEW o, o = [p EXCEPT !.result = result]
    PROVE  IsCall(o) /\ o.result = result /\ o.c = p.c
BY DEF IsCall

(* A path with another stream at k.                                           *)
Elsewhere(b, c) ==
  b.signals = c.signals /\ b.slots = c.slots /\ b.ring = c.ring /\ b.frames = c.frames /\ b.faulted = c.faulted
Moved(b, c, k, s) ==
  b \in Paths /\ b.streams = [c.streams EXCEPT ![k] = s] /\ Elsewhere(b, c) /\ SameSet(b, c)

LEMMA StreamPut ==
    ASSUME NEW c \in Paths, NEW b, b = [c EXCEPT !.streams = b.streams], NEW k \in 1..Streams,
           NEW s \in StreamTypes, b.streams = [c.streams EXCEPT ![k] = s]
    PROVE  Moved(b, c, k, s)
<1>1. Elsewhere(b, c) /\ SameSet(b, c)
  BY DEF Paths, Elsewhere, SameSet
<1>2. b.streams \in [1..Streams -> StreamTypes]
  BY DEF Paths
<1>3. b \in Paths
  BY <1>2 DEF Paths
<1> QED BY <1>1, <1>3 DEF Moved

Still(t, s) ==
  t.active = s.active /\ t.generation = s.generation /\ t.display = s.display /\ t.gone = s.gone
Halted(s) == [s EXCEPT !.started = FALSE, !.pool = 0]
Begun(s) == [s EXCEPT !.started = TRUE, !.pool = s.size]

LEMMA StreamForms ==
    ASSUME NEW s \in StreamTypes
    PROVE  /\ Halted(s) \in StreamTypes /\ Halted(s).started = FALSE
           /\ Begun(s) \in StreamTypes /\ Begun(s).started = TRUE
           /\ Still(Halted(s), s) /\ Still(Begun(s), s)
           /\ Halted(s).leased = s.leased /\ Begun(s).leased = s.leased
<1>1. Halted(s) \in StreamTypes
  <2>1. [s EXCEPT !.started = FALSE] \in StreamTypes
    BY DEF StreamTypes
  <2>2. ASSUME NEW t \in StreamTypes PROVE [t EXCEPT !.pool = 0] \in StreamTypes
    BY DEF StreamTypes
  <2>3. Halted(s) = [[s EXCEPT !.started = FALSE] EXCEPT !.pool = 0]
    BY DEF StreamTypes, Halted
  <2> QED BY <2>1, <2>2, <2>3
<1>4. Begun(s) \in StreamTypes
  <2>1. s.size \in 0..2
    BY DEF StreamTypes
  <2> QED BY <2>1 DEF StreamTypes, Begun
<1>2. /\ Halted(s).started = FALSE /\ Halted(s).active = s.active /\ Halted(s).generation = s.generation
      /\ Halted(s).display = s.display /\ Halted(s).gone = s.gone /\ Halted(s).leased = s.leased
  BY DEF StreamTypes, Halted
<1>3. /\ Begun(s).started = TRUE /\ Begun(s).active = s.active /\ Begun(s).generation = s.generation
      /\ Begun(s).display = s.display /\ Begun(s).gone = s.gone /\ Begun(s).leased = s.leased
  BY DEF StreamTypes, Begun
<1> QED BY <1>1, <1>2, <1>3, <1>4 DEF Still

LEMMA Stops ==
    ASSUME NEW c \in Paths, NEW h \in Handles, NEW o \in StopStream(c, h)
    PROVE  /\ IsCall(o)
           /\ \/ o.result = "STALE" /\ o.c = c /\ ~Live(c, h)
              \/ o.result = "STATE" /\ o.c = c /\ Live(c, h)
                 /\ (~c.streams[h.slot].started \/ c.streams[h.slot].leased)
              \/ /\ o.result \in {"OK", "BACKEND"} /\ Live(c, h)
                 /\ c.streams[h.slot].started /\ ~c.streams[h.slot].leased
                 /\ Moved(o.c, c, h.slot, Halted(c.streams[h.slot]))
<1> DEFINE k == h.slot
           b == [c EXCEPT !.streams[k].started = FALSE, !.streams[k].pool = 0]
<1>1. k \in 1..Streams
  BY DEF Handles
<1>2. c.streams[k] \in StreamTypes
  BY <1>1, Typed
<1>3. Moved(b, c, k, Halted(c.streams[k]))
  <2>1. b.streams = [c.streams EXCEPT ![k] = Halted(c.streams[k])]
    BY <1>1 DEF Paths, Halted
  <2>2. b = [c EXCEPT !.streams = b.streams]
    BY ZenonT(60) DEF Paths
  <2> HIDE DEF b
  <2> QED BY <1>1, <1>2, <2>1, <2>2, StreamForms, StreamPut
<1>4. \/ o = Call("STALE", c, 0) /\ ~Live(c, h)
      \/ o = Call("STATE", c, 0) /\ Live(c, h) /\ (~c.streams[k].started \/ c.streams[k].leased)
      \/ /\ Live(c, h) /\ c.streams[k].started /\ ~c.streams[k].leased
         /\ o \in {Call("OK", b, 0), Fails(b)}
  BY DEF StopStream
<1> HIDE DEF b
<1> QED BY <1>3, <1>4, CallIs, FailsIs

LEMMA Starts ==
    ASSUME NEW c \in Paths, NEW h \in Handles, NEW o \in StartStream(c, h)
    PROVE  /\ IsCall(o)
           /\ \/ o.result = "STALE" /\ o.c = c /\ ~Live(c, h)
              \/ o.result = "ALREADY_EXISTS" /\ o.c = c /\ Live(c, h) /\ c.streams[h.slot].started
              \/ o.result = "BACKEND" /\ o.c = c /\ Live(c, h) /\ ~c.streams[h.slot].started
              \/ /\ o.result = "OK" /\ Live(c, h) /\ ~c.streams[h.slot].started
                 /\ Moved(o.c, c, h.slot, Begun(c.streams[h.slot]))
<1> DEFINE k == h.slot
           b == [c EXCEPT !.streams[k].started = TRUE, !.streams[k].pool = c.streams[k].size]
<1>1. k \in 1..Streams
  BY DEF Handles
<1>2. c.streams[k] \in StreamTypes
  BY <1>1, Typed
<1>3. Moved(b, c, k, Begun(c.streams[k]))
  <2>1. b.streams = [c.streams EXCEPT ![k] = Begun(c.streams[k])]
    BY <1>1 DEF Paths, Begun
  <2>2. b = [c EXCEPT !.streams = b.streams]
    BY ZenonT(60) DEF Paths
  <2> HIDE DEF b
  <2> QED BY <1>1, <1>2, <2>1, <2>2, StreamForms, StreamPut
<1>4. \/ o = Call("STALE", c, 0) /\ ~Live(c, h)
      \/ o = Call("ALREADY_EXISTS", c, 0) /\ Live(c, h) /\ c.streams[k].started
      \/ Live(c, h) /\ ~c.streams[k].started /\ o \in {Call("OK", b, 0), Fails(c)}
  BY DEF StartStream
<1> HIDE DEF b
<1> QED BY <1>3, <1>4, CallIs, FailsIs

(* A path with another slot at i.                                             *)
ElsewhereSlots(b, c) ==
  b.streams = c.streams /\ b.signals = c.signals /\ b.ring = c.ring /\ b.frames = c.frames
MovedSlot(b, c, i, t) ==
  b \in Paths /\ b.slots = [c.slots EXCEPT ![i] = t] /\ ElsewhereSlots(b, c) /\ SameSet(b, c)

LEMMA SlotPut ==
    ASSUME NEW c \in Paths, NEW b, b = [c EXCEPT !.slots = b.slots, !.faulted = b.faulted], NEW i \in 1..Streams,
           NEW t \in SlotTypes, b.slots = [c.slots EXCEPT ![i] = t], b.faulted \subseteq 1..Streams
    PROVE  MovedSlot(b, c, i, t)
<1>1. ElsewhereSlots(b, c) /\ SameSet(b, c)
  BY DEF Paths, ElsewhereSlots, SameSet
<1>2. b.slots \in [1..Streams -> SlotTypes]
  BY DEF Paths
<1>3. b \in Paths
  BY <1>2 DEF Paths
<1> QED BY <1>1, <1>3 DEF MovedSlot

LEMMA Faulting ==
    ASSUME NEW c \in Paths, NEW i \in 1..Streams
    PROVE  /\ Faulted(c, i) \in Paths /\ Alike(Faulted(c, i), c) /\ Faulted(c, i).faulted = c.faulted \cup {i}
           /\ Faulted(c, i).streams = c.streams /\ Faulted(c, i).slots = c.slots
<1> DEFINE b == Faulted(c, i)
<1>1. /\ b.faulted = c.faulted \cup {i} /\ b.streams = c.streams /\ b.slots = c.slots /\ b.signals = c.signals
      /\ b.ring = c.ring /\ b.frames = c.frames /\ SameSet(b, c)
  BY DEF Faulted, Paths, SameSet
<1>2. b \in Paths
  BY DEF Faulted, Paths
<1> HIDE DEF b
<1>3. Alike(b, c)
  BY <1>1 DEF Alike, SameStreams, SameLeases
<1> QED BY <1>1, <1>2, <1>3 DEF b

LEMMA FaultedPath ==
    ASSUME NEW c, CallbacksOK, Path(c), NEW i \in 1..Streams
    PROVE  Path(Faulted(c, i))
<1>1. c \in Paths /\ Resting(c)
  BY DEF Path
<1>2. Resting(Faulted(c, i))
  BY <1>1, Faulting DEF Resting
<1> QED BY <1>1, <1>2, Faulting, AlikePath

LEMMA MovedStill ==
    ASSUME NEW b, NEW c, CallbacksOK, Path(c), NEW k \in 1..Streams, NEW s, Moved(b, c, k, s),
           Still(s, c.streams[k]), s.leased = c.streams[k].leased, c.streams[k].active
    PROVE  Alike(b, c) /\ Path(b)
<1>1. c \in Paths /\ Resting(c) /\ b \in Paths
  BY DEF Path, Moved
<1>2. DOMAIN c.streams = 1..Streams
  BY <1>1 DEF Paths
<1>3. b.streams[k] = s /\ \A j \in 1..Streams : j # k => b.streams[j] = c.streams[j]
  BY <1>2 DEF Moved
<1>4. Alike(b, c)
  BY <1>3 DEF Alike, SameStreams, SameLeases, SameSet, Moved, Elsewhere, Still
<1>5. Resting(b)
  BY <1>1, <1>3 DEF Resting, Moved, Elsewhere, Still
<1> QED BY <1>1, <1>4, <1>5, AlikePath

(* Streams of two slots that live are two.                                    *)
LEMMA TwoStreams ==
    ASSUME NEW c, Path(c), NEW i \in SlotsOf(c), NEW j \in SlotsOf(c), i # j,
           Live(c, c.slots[i].stream), Live(c, c.slots[j].stream)
    PROVE  c.slots[i].stream.slot # c.slots[j].stream.slot
<1>1. c \in Paths /\ Apart(c)
  BY DEF Path, Fitted
<1>2. i \in 1..Streams /\ j \in 1..Streams /\ c.slots[i].stream \in Handles /\ c.slots[j].stream \in Handles
  BY <1>1, Typed
<1>3. c.slots[i].stream # c.slots[j].stream
  BY <1>1 DEF Apart
<1>4. \A g, h \in Handles : g.slot = h.slot /\ g.generation = h.generation => g = h
  BY DEF Handles
<1> QED BY <1>2, <1>3, <1>4 DEF Live

LEMMA MovedRun ==
    ASSUME NEW b, NEW c, Path(c), NEW i \in SlotsOf(c), Live(c, c.slots[i].stream), NEW s,
           Moved(b, c, c.slots[i].stream.slot, s), NEW S, i \notin S \/ i \in c.faulted, NEW v, RunAs(c, S, v)
    PROVE  RunAs(b, S, v)
<1>1. c \in Paths /\ Kept(c)
  BY DEF Path, Fitted
<1>2. DOMAIN c.streams = 1..Streams
  BY <1>1 DEF Paths
<1>3. SlotsOf(b) = SlotsOf(c) /\ b.slots = c.slots /\ b.faulted = c.faulted
  BY DEF Moved, Elsewhere, SlotsOf
<1>4. ASSUME NEW j \in (S \cap SlotsOf(c)) \ c.faulted
      PROVE  b.streams[c.slots[j].stream.slot] = c.streams[c.slots[j].stream.slot]
  <2>1. Live(c, c.slots[j].stream) /\ j # i
    BY <1>1 DEF Kept
  <2>2. c.slots[j].stream.slot # c.slots[i].stream.slot
    BY <2>1, TwoStreams
  <2>3. c.slots[j].stream.slot \in 1..Streams
    BY <1>1, Typed
  <2> QED BY <1>2, <2>2, <2>3 DEF Moved
<1> QED BY <1>3, <1>4 DEF RunAs

(* A stream that is lent is lent by its slot.                                 *)
LEMMA LentBySlot ==
    ASSUME NEW c, Path(c), NEW i \in SlotsOf(c), Live(c, c.slots[i].stream),
           c.streams[c.slots[i].stream.slot].leased
    PROVE  c.slots[i].leased /\ \E f \in c.frames : f.slot = i
<1>1. c \in Paths /\ Held(c) /\ Holding(c)
  BY DEF Path, Lending
<1>2. c.slots[i].stream.slot \in 1..Streams
  BY <1>1, Typed
<1>3. PICK f \in c.frames : c.slots[f.slot].stream.slot = c.slots[i].stream.slot
  BY <1>1, <1>2 DEF Held
<1>4. f.slot \in SlotsOf(c) /\ Live(c, c.slots[f.slot].stream) /\ c.slots[f.slot].leased
  BY <1>1, Typed DEF Holding, SlotsOf
<1>5. f.slot = i
  BY <1>3, <1>4, TwoStreams
<1> QED BY <1>4, <1>5

LEMMA LiveIsActive ==
    ASSUME NEW c, Path(c), NEW i \in SlotsOf(c), Live(c, c.slots[i].stream)
    PROVE  c.streams[c.slots[i].stream.slot].active
BY DEF Live

(* A path alike, in which only slot i may run otherwise.                      *)
Only(b, c, i) ==
  Path(b) /\ Alike(b, c) /\ \A S, v : RunAs(c, S, v) /\ i \notin S => RunAs(b, S, v)

Answers(o, c, i, enabled) ==
  /\ IsCall(o) /\ Only(o.c, c, i) /\ o.c.slots = c.slots
  /\ o.result = "OK" => o.c.streams[c.slots[i].stream.slot].started = enabled
  /\ o.result # "OK" /\ RunAs(c, {i}, ~enabled) /\ (~enabled => ~c.slots[i].leased) =>
       RunAs(o.c, {i}, ~enabled)

(* What a switch of one stream leaves of the others, and when it fails.       *)
LEMMA Switches ==
    ASSUME CallbacksOK, NEW c, Path(c), NEW i \in SlotsOf(c), NEW enabled \in BOOLEAN,
           NEW o \in Switch(c, i, enabled)
    PROVE  Answers(o, c, i, enabled)
<1> USE DEF Answers
<1> DEFINE h == c.slots[i].stream
           s == c.streams[h.slot]
<1>1. c \in Paths /\ Kept(c)
  BY DEF Path, Fitted
<1>2. i \in 1..Streams /\ h \in Handles /\ h.slot \in 1..Streams /\ s \in StreamTypes
  BY <1>1, Typed
<1>3. DOMAIN c.streams = 1..Streams
  BY <1>1 DEF Paths
<1>4. Alike(c, c)
  BY DEF Alike, SameStreams, SameSet, SameLeases
<1>5. ASSUME NEW b, NEW t, Live(c, h), Moved(b, c, h.slot, t), Still(t, s), t.leased = s.leased
      PROVE  Only(b, c, i) /\ b.slots = c.slots /\ b.streams[h.slot] = t
  <2>1. s.active
    BY <1>5 DEF Live
  <2>2. Path(b) /\ Alike(b, c)
    BY <1>2, <1>5, <2>1, MovedStill
  <2>3. b.slots = c.slots /\ b.streams[h.slot] = t
    BY <1>2, <1>3, <1>5 DEF Moved, Elsewhere
  <2>4. \A S, v : RunAs(c, S, v) /\ i \notin S => RunAs(b, S, v)
    BY <1>5, MovedRun
  <2> QED BY <2>2, <2>3, <2>4 DEF Only
<1>6. CASE enabled
  <2>1. o \in StartStream(c, h)
    BY SMTT(30), <1>6 DEF Switch
  <2>2. CASE o.result = "OK"
    <3>1. IsCall(o) /\ Live(c, h) /\ Moved(o.c, c, h.slot, Begun(s))
      BY <1>1, <1>2, <2>1, <2>2, Starts
    <3>2. Still(Begun(s), s) /\ Begun(s).leased = s.leased /\ Begun(s).started = TRUE
      BY <1>2, StreamForms
    <3> QED BY Zenon, <1>5, <1>6, <2>2, <3>1, <3>2
  <2>3. CASE o.result # "OK"
    <3>1. /\ IsCall(o) /\ o.c = c
          /\ ~Live(c, h) \/ s.started \/ (Live(c, h) /\ ~s.started /\ o.result = "BACKEND")
      BY SMTT(30), <1>1, <1>2, <2>1, <2>3, Starts
    <3> QED BY <1>4, <2>3, <3>1 DEF Only
  <2> QED BY <2>2, <2>3
<1>7. CASE ~enabled
  <2>0. PICK q \in StopStream(c, h) : o = IF q.result = "BACKEND" THEN [q EXCEPT !.c = Faulted(q.c, i)] ELSE q
    BY <1>7 DEF Switch
  <2>1. /\ IsCall(q)
        /\ \/ q.result = "STALE" /\ q.c = c /\ ~Live(c, h)
           \/ q.result = "STATE" /\ q.c = c /\ Live(c, h) /\ (~s.started \/ s.leased)
           \/ /\ q.result \in {"OK", "BACKEND"} /\ Live(c, h) /\ s.started /\ ~s.leased
              /\ Moved(q.c, c, h.slot, Halted(s))
    BY <1>1, <1>2, <2>0, Stops
  <2>2. Still(Halted(s), s) /\ Halted(s).leased = s.leased /\ Halted(s).started = FALSE
    BY <1>2, StreamForms
  <2>3. CASE q.result \in {"STALE", "STATE"}
    <3>1. o = q /\ o.c = c
      BY SMTT(30), <2>0, <2>1, <2>3
    <3>2. RunAs(c, {i}, TRUE) /\ ~c.slots[i].leased => i \in c.faulted
      BY Zenon, <1>1, <2>1, <2>3, LentBySlot DEF Kept, RunAs
    <3>3. i \in c.faulted => RunAs(c, {i}, TRUE)
      BY SMTT(30) DEF RunAs
    <3> QED BY <1>4, <1>7, <2>1, <2>3, <3>1, <3>2 DEF Only
  <2>4. CASE q.result = "OK"
    <3>1. o = q
      BY <2>0, <2>4
    <3> QED BY Zenon, <1>5, <1>7, <2>1, <2>2, <2>4, <3>1
  <2>5. CASE q.result = "BACKEND"
    <3>1. o = [q EXCEPT !.c = Faulted(q.c, i)]
      BY SMTT(30), <2>0, <2>5
    <3>2. IsCall(o) /\ o.result = "BACKEND" /\ o.c = Faulted(q.c, i)
      BY ZenonT(60), <2>1, <2>5, <3>1 DEF IsCall
    <3>3. /\ Path(q.c) /\ Alike(q.c, c) /\ q.c.slots = c.slots
          /\ \A S, v : RunAs(c, S, v) /\ i \notin S => RunAs(q.c, S, v)
      BY Zenon, <1>5, <2>1, <2>2, <2>5 DEF Only
    <3>4. q.c \in Paths
      BY <3>3 DEF Path
    <3>5. /\ Alike(o.c, q.c) /\ o.c.faulted = q.c.faulted \cup {i} /\ o.c.slots = q.c.slots
          /\ o.c.streams = q.c.streams
      BY <1>2, <3>2, <3>4, Faulting
    <3>6. Path(o.c)
      BY <1>2, <3>2, <3>3, FaultedPath
    <3>7. Alike(o.c, c)
      BY <3>3, <3>5 DEF Alike, SameStreams, SameSet, SameLeases
    <3>8. SlotsOf(o.c) = SlotsOf(q.c)
      BY <3>5 DEF SlotsOf
    <3>9. \A S, v : RunAs(q.c, S, v) => RunAs(o.c, S, v)
      BY <3>5, <3>8 DEF RunAs
    <3>10. RunAs(o.c, {i}, TRUE)
      BY <3>5 DEF RunAs
    <3> QED BY <1>7, <3>2, <3>3, <3>5, <3>6, <3>7, <3>9, <3>10 DEF Only
  <2> QED BY <2>1, <2>3, <2>4, <2>5
<1> QED BY <1>6, <1>7

-------------------------------------------------------------------------------
(* A finite set of numbers has a least and a greatest element: a smallest     *)
(* set without them would still lack them without one of its elements.        *)
LEMMA Ends ==
    ASSUME NEW S \in SUBSET Int, IsFiniteSet(S), S # {}
    PROVE  (\E k \in S : \A j \in S : k <= j) /\ (\E k \in S : \A j \in S : j <= k)
<1> DEFINE Ended(T) == (\E k \in T : \A j \in T : k <= j) /\ (\E k \in T : \A j \in T : j <= k)
           Bad == {T \in FiniteSubsetsOf(Int) : T # {} /\ ~Ended(T)}
<1> SUFFICES ASSUME Bad # {}
             PROVE  FALSE
  <2>1. S \in FiniteSubsetsOf(Int)
    BY DEF FiniteSubsetsOf
  <2> QED BY <2>1
<1>1. PICK T \in Bad : \A U \in Bad : ~(<<U, T>> \in StrictSubsetOrdering(Int))
  <2>1. Bad \subseteq FiniteSubsetsOf(Int)
    OBVIOUS
  <2> HIDE DEF Bad
  <2> QED BY <2>1, WFMin, FS_StrictSubsetOrderingWellFounded
<1>2. T \in SUBSET Int /\ IsFiniteSet(T) /\ T # {}
  BY <1>1 DEF FiniteSubsetsOf
<1>3. PICK x \in T : TRUE
  BY <1>2
<1> DEFINE U == T \ {x}
<1>4. U \in FiniteSubsetsOf(Int)
  BY <1>2, FS_RemoveElement DEF FiniteSubsetsOf
<1>5. <<U, T>> \in StrictSubsetOrdering(Int)
  BY <1>2, <1>3 DEF StrictSubsetOrdering
<1>6. U = {} \/ Ended(U)
  BY <1>1, <1>4, <1>5
<1>7. ~Ended(T)
  BY <1>1
<1>8. CASE U = {}
  <2>1. T = {x}
    BY <1>3, <1>8
  <2>2. Ended({x})
    BY <1>2, <1>3
  <2> QED BY <1>7, <2>1, <2>2
<1>9. CASE Ended(U)
  <2>1. PICK a \in U : \A j \in U : a <= j
    BY <1>9
  <2>2. PICK b \in U : \A j \in U : j <= b
    BY <1>9
  <2>3. x \in Int /\ a \in Int /\ b \in Int /\ a \in T /\ b \in T
    BY <1>2, <1>3, <2>1, <2>2
  <2>4. \E k \in T : \A j \in T : k <= j
    <3>1. CASE x <= a
      BY <1>2, <1>3, <2>1, <2>3, <3>1
    <3>2. CASE a <= x
      BY <1>2, <1>3, <2>1, <2>3, <3>2
    <3> QED BY <2>3, <3>1, <3>2
  <2>5. \E k \in T : \A j \in T : j <= k
    <3>1. CASE b <= x
      BY <1>2, <1>3, <2>2, <2>3, <3>1
    <3>2. CASE x <= b
      BY <1>2, <1>3, <2>2, <2>3, <3>2
    <3> QED BY <2>3, <3>1, <3>2
  <2> QED BY <1>7, <2>4, <2>5
<1> QED BY <1>6, <1>8, <1>9

LEMMA FirstIs ==
    ASSUME NEW n \in Nat, NEW S \in SUBSET (1..n), S # {}
    PROVE  First(S) \in S
<1>1. IsFiniteSet(S) /\ S \in SUBSET Int
  <2>1. IsFiniteSet(1..n)
    BY FS_Interval
  <2>2. IsFiniteSet(S)
    BY <2>1, FS_Subset
  <2>3. S \in SUBSET Int
    OBVIOUS
  <2> QED BY <2>2, <2>3
<1>2. \E k \in S : \A j \in S : k <= j
  BY <1>1, Ends
<1> QED BY <1>2 DEF First

LEMMA LastIs ==
    ASSUME NEW S \in SUBSET (Nat \ {0}), IsFiniteSet(S)
    PROVE  Last(S) \in Nat /\ S \subseteq 1..Last(S) /\ (S # {} => Last(S) \in S)
<1>1. CASE S = {}
  BY <1>1 DEF Last
<1>2. CASE S # {}
  <2>1. \E k \in S : \A j \in S : j <= k
    BY <1>2, Ends
  <2>2. Last(S) \in S /\ \A j \in S : j <= Last(S)
    BY <1>2, <2>1 DEF Last
  <2>3. Last(S) \in Nat
    BY <2>2
  <2>4. \A j \in S : j \in Nat /\ 1 <= j /\ j <= Last(S)
    BY <2>2
  <2> QED BY <2>2, <2>3, <2>4
<1> QED BY <1>1, <1>2

(* What a step of a count keeps holds at its end.                             *)
LEMMA CountKeeps ==
    ASSUME NEW n \in Nat, NEW F, NEW G, F[0] \subseteq G[0],
           \A m \in 1..n : F[m - 1] \subseteq G[m - 1] => F[m] \subseteq G[m]
    PROVE  F[n] \subseteq G[n]
<1> DEFINE Bad == {m \in 0..n : ~(F[m] \subseteq G[m])}
<1> SUFFICES ASSUME Bad # {}
             PROVE  FALSE
  OBVIOUS
<1>1. Bad \in SUBSET Int /\ IsFiniteSet(Bad)
  <2>1. IsFiniteSet(0..n) /\ Bad \in SUBSET (0..n)
    BY FS_Interval
  <2>2. Bad \in SUBSET Int
    OBVIOUS
  <2> HIDE DEF Bad
  <2> QED BY <2>1, <2>2, FS_Subset
<1>2. PICK m \in Bad : \A j \in Bad : m <= j
  <2> HIDE DEF Bad
  <2> QED BY <1>1, Ends
<1>3. m \in 1..n /\ m - 1 \in 0..n
  BY <1>2
<1>4. m - 1 \notin Bad
  BY <1>2, <1>3
<1> QED BY <1>2, <1>3, <1>4

(* What is done in turn, by its name.                                         *)
Does(kind, enabled, c, n) ==
  CASE kind = "remove" -> RemoveSlot(c, n)
    [] kind = "add" -> Add(c, n)
    [] kind = "switch" -> SwitchSlot(c, n, enabled)
    [] kind = "put back" -> PutBack(c, n, enabled)
    [] kind = "retire" -> Retire(c, FrameOf(c, n))
    [] OTHER -> OfferDisplay(c, n)
Follow(kind, enabled, n, outs) == Then(outs, LAMBDA b : Does(kind, enabled, b, n))
Turned(F, kind, enabled, A, items) ==
  /\ F = [n \in 0..Last(items) |-> F[n]] /\ F[0] = A
  /\ \A n \in 1..Last(items) : F[n] = IF n \in items THEN Follow(kind, enabled, n, F[n - 1]) ELSE F[n - 1]

(* The outcomes of a call followed by others in turn are defined.             *)
LEMMA TurnsExist ==
    ASSUME NEW kind, NEW enabled, NEW A, NEW items, NEW L \in Nat, L = Last(items)
    PROVE  \E F : Turned(F, kind, enabled, A, items)
<1> DEFINE Step(n, x) == IF n \in items THEN Follow(kind, enabled, n, x) ELSE x
           Is(f, m) == f = [n \in 0..m |-> IF n = 0 THEN A ELSE Step(n, f[n - 1])]
           Bad == {m \in 0..L : ~\E f : Is(f, m)}
<1> HIDE DEF Step
<1>0. Bad = {} => \E f : Is(f, L)
  <2> HIDE DEF Is
  <2> QED OBVIOUS
<1>1. SUFFICES Bad = {}
  <2>1. ASSUME NEW f, Is(f, L)
        PROVE  Turned(f, kind, enabled, A, items)
    <3>1. f[0] = A /\ \A n \in 1..L : f[n] = Step(n, f[n - 1])
      BY <2>1
    <3>2. f = [n \in 0..L |-> f[n]]
      BY <2>1
    <3> QED BY <3>1, <3>2 DEF Turned, Step
  <2> QED BY <1>0, <2>1
<1> SUFFICES ASSUME Bad # {}
             PROVE  FALSE
  OBVIOUS
<1>2. IsFiniteSet(Bad) /\ Bad \in SUBSET Int
  <2>1. IsFiniteSet(0..L) /\ Bad \in SUBSET (0..L)
    BY FS_Interval
  <2>2. Bad \in SUBSET Int
    OBVIOUS
  <2> HIDE DEF Bad
  <2> QED BY <2>1, <2>2, FS_Subset
<1>3. PICK m \in Bad : \A j \in Bad : m <= j
  <2> HIDE DEF Bad
  <2> QED BY <1>2, Ends
<1>4. CASE m = 0
  <2> DEFINE f == [n \in 0..0 |-> A]
  <2>1. f = [n \in 0..0 |-> IF n = 0 THEN A ELSE Step(n, f[n - 1])]
    OBVIOUS
  <2> HIDE DEF f
  <2>2. Is(f, m)
    BY <1>4, <2>1
  <2> QED BY <1>3, <2>2
<1>5. CASE m # 0
  <2>1. m - 1 \in 0..L /\ m \in 1..L
    BY <1>3, <1>5
  <2>2. PICK g : Is(g, m - 1)
    BY <1>3, <2>1
  <2> DEFINE f == [n \in 0..m |-> IF n = m THEN Step(m, g[m - 1]) ELSE g[n]]
  <2>3. \A n \in 0..(m - 1) : g[n] = IF n = 0 THEN A ELSE Step(n, g[n - 1])
    BY <2>2
  <2>4. \A n \in 0..m : f[n] = IF n = 0 THEN A ELSE Step(n, f[n - 1])
    BY <2>1, <2>3
  <2>5. f = [n \in 0..m |-> f[n]]
    OBVIOUS
  <2> HIDE DEF f
  <2>6. Is(f, m)
    BY <2>4, <2>5
  <2> QED BY <1>3, <2>6
<1> QED BY <1>4, <1>5

LEMMA PutBackTurns ==
    ASSUME NEW c, NEW items \in SUBSET (Nat \ {0}), IsFiniteSet(items), NEW enabled
    PROVE  \E F : PutAllBack(c, items, enabled) = F[Last(items)] /\ Turned(F, "put back", enabled, {Call("OK", c, 0)}, items)
<1> DEFINE L == Last(items)
           A == {Call("OK", c, 0)}
           Also(n, x) == Then(x, LAMBDA b : PutBack(b, n, enabled))
           Is(f) == f = [n \in 0..L |-> IF n = 0 THEN A ELSE IF n \in items THEN Also(n, f[n - 1]) ELSE f[n - 1]]
           F == CHOOSE f : Is(f)
<1>1. L \in Nat
  BY LastIs
<1>2. \A n, x : Follow("put back", enabled, n, x) = Also(n, x)
  BY DEF Follow, Does
<1>3. \E f : Is(f)
  <2>1. PICK f : Turned(f, "put back", enabled, A, items)
    BY Zenon, <1>1, TurnsExist
  <2> HIDE DEF L, A, Also
  <2>2. f[0] = A /\ \A n \in 1..L : f[n] = IF n \in items THEN Follow("put back", enabled, n, f[n - 1]) ELSE f[n - 1]
    BY Zenon, <2>1 DEF Turned, L
  <2>3. f = [n \in 0..L |-> f[n]]
    BY Zenon, <2>1 DEF Turned, L
  <2>4. \A n \in 0..L : f[n] = IF n = 0 THEN A ELSE IF n \in items THEN Also(n, f[n - 1]) ELSE f[n - 1]
    <3> TAKE n \in 0..L
    <3>1. n # 0 => n \in 1..L
      BY <1>1
    <3> QED BY Zenon, <1>2, <2>2, <3>1
  <2>5. Is(f)
    BY <2>3, <2>4
  <2> QED BY <2>5
<1>4. Is(F)
  <2> HIDE DEF Is
  <2> QED BY <1>3
<1>5. PutAllBack(c, items, enabled) = F[L]
  BY DEF PutAllBack, InTurn
<1> HIDE DEF F
<1>6. F[0] = A /\ \A n \in 1..L : F[n] = IF n \in items THEN Also(n, F[n - 1]) ELSE F[n - 1]
  <2> HIDE DEF Also, L, A
  <2> QED BY <1>1, <1>4
<1>7. F = [n \in 0..L |-> F[n]]
  <2> HIDE DEF Also, L, A
  <2> QED BY <1>4
<1>8. Turned(F, "put back", enabled, A, items)
  <2> HIDE DEF Also, A
  <2> QED BY Zenon, <1>2, <1>6, <1>7 DEF Turned
<1> QED BY Zenon, <1>5, <1>8

LEMMA RemoveTurns ==
    ASSUME NEW c, NEW items \in SUBSET (Nat \ {0}), IsFiniteSet(items)
    PROVE  \E F : RemoveAll(c, items) = F[Last(items)] /\ Turned(F, "remove", FALSE, {Call("OK", c, 0)}, items)
<1> DEFINE L == Last(items)
           A == {Call("OK", c, 0)}
           Also(n, x) == Then(x, LAMBDA b : RemoveSlot(b, n))
           Is(f) == f = [n \in 0..L |-> IF n = 0 THEN A ELSE IF n \in items THEN Also(n, f[n - 1]) ELSE f[n - 1]]
           F == CHOOSE f : Is(f)
<1>1. L \in Nat
  BY LastIs
<1>2. \A n, x : Follow("remove", FALSE, n, x) = Also(n, x)
  BY DEF Follow, Does
<1>3. \E f : Is(f)
  <2>1. PICK f : Turned(f, "remove", FALSE, A, items)
    BY <1>1, TurnsExist
  <2> HIDE DEF L, A, Also
  <2>2. f[0] = A /\ \A n \in 1..L : f[n] = IF n \in items THEN Follow("remove", FALSE, n, f[n - 1]) ELSE f[n - 1]
    BY <2>1 DEF Turned, L
  <2>3. f = [n \in 0..L |-> f[n]]
    BY <2>1 DEF Turned, L
  <2>4. \A n \in 0..L : f[n] = IF n = 0 THEN A ELSE IF n \in items THEN Also(n, f[n - 1]) ELSE f[n - 1]
    <3> TAKE n \in 0..L
    <3>1. n # 0 => n \in 1..L
      BY <1>1
    <3> QED BY <1>2, <2>2, <3>1
  <2>5. Is(f)
    BY <2>3, <2>4
  <2> QED BY <2>5
<1>4. Is(F)
  <2> HIDE DEF Is
  <2> QED BY <1>3
<1>5. RemoveAll(c, items) = F[L]
  BY DEF RemoveAll, InTurn
<1> HIDE DEF F
<1>6. F[0] = A /\ \A n \in 1..L : F[n] = IF n \in items THEN Also(n, F[n - 1]) ELSE F[n - 1]
  <2> HIDE DEF Also, L, A
  <2> QED BY <1>1, <1>4
<1>7. F = [n \in 0..L |-> F[n]]
  <2> HIDE DEF Also, L, A
  <2> QED BY <1>4
<1>8. Turned(F, "remove", FALSE, A, items)
  <2> HIDE DEF Also, A
  <2> QED BY <1>2, <1>6, <1>7 DEF Turned
<1> QED BY <1>5, <1>8

LEMMA AddTurns ==
    ASSUME NEW outcomes, NEW items \in SUBSET (Nat \ {0}), IsFiniteSet(items)
    PROVE  \E F : AddAll(outcomes, items) = F[Last(items)] /\ Turned(F, "add", FALSE, outcomes, items)
<1> DEFINE L == Last(items)
           A == outcomes
           Also(n, x) == Then(x, LAMBDA b : Add(b, n))
           Is(f) == f = [n \in 0..L |-> IF n = 0 THEN A ELSE IF n \in items THEN Also(n, f[n - 1]) ELSE f[n - 1]]
           F == CHOOSE f : Is(f)
<1>1. L \in Nat
  BY LastIs
<1>2. \A n, x : Follow("add", FALSE, n, x) = Also(n, x)
  BY DEF Follow, Does
<1>3. \E f : Is(f)
  <2>1. PICK f : Turned(f, "add", FALSE, A, items)
    BY <1>1, TurnsExist
  <2> HIDE DEF L, A, Also
  <2>2. f[0] = A /\ \A n \in 1..L : f[n] = IF n \in items THEN Follow("add", FALSE, n, f[n - 1]) ELSE f[n - 1]
    BY <2>1 DEF Turned, L
  <2>3. f = [n \in 0..L |-> f[n]]
    BY <2>1 DEF Turned, L
  <2>4. \A n \in 0..L : f[n] = IF n = 0 THEN A ELSE IF n \in items THEN Also(n, f[n - 1]) ELSE f[n - 1]
    <3> TAKE n \in 0..L
    <3>1. n # 0 => n \in 1..L
      BY <1>1
    <3> QED BY <1>2, <2>2, <3>1
  <2>5. Is(f)
    BY <2>3, <2>4
  <2> QED BY <2>5
<1>4. Is(F)
  <2> HIDE DEF Is
  <2> QED BY <1>3
<1>5. AddAll(outcomes, items) = F[L]
  BY DEF AddAll, InTurn
<1> HIDE DEF F
<1>6. F[0] = A /\ \A n \in 1..L : F[n] = IF n \in items THEN Also(n, F[n - 1]) ELSE F[n - 1]
  <2> HIDE DEF Also, L, A
  <2> QED BY <1>1, <1>4
<1>7. F = [n \in 0..L |-> F[n]]
  <2> HIDE DEF Also, L, A
  <2> QED BY <1>4
<1>8. Turned(F, "add", FALSE, A, items)
  <2> HIDE DEF Also, A
  <2> QED BY <1>2, <1>6, <1>7 DEF Turned
<1> QED BY <1>5, <1>8

LEMMA SwitchTurns ==
    ASSUME NEW c, NEW items \in SUBSET (Nat \ {0}), IsFiniteSet(items), NEW enabled
    PROVE  \E F : SwitchAll(c, items, enabled) = F[Last(items)] /\ Turned(F, "switch", enabled, {Call("OK", c, 0)}, items)
<1> DEFINE L == Last(items)
           A == {Call("OK", c, 0)}
           Also(n, x) == Then(x, LAMBDA b : SwitchSlot(b, n, enabled))
           Is(f) == f = [n \in 0..L |-> IF n = 0 THEN A ELSE IF n \in items THEN Also(n, f[n - 1]) ELSE f[n - 1]]
           F == CHOOSE f : Is(f)
<1>1. L \in Nat
  BY LastIs
<1>2. \A n, x : Follow("switch", enabled, n, x) = Also(n, x)
  BY DEF Follow, Does
<1>3. \E f : Is(f)
  <2>1. PICK f : Turned(f, "switch", enabled, A, items)
    BY <1>1, TurnsExist
  <2> HIDE DEF L, A, Also
  <2>2. f[0] = A /\ \A n \in 1..L : f[n] = IF n \in items THEN Follow("switch", enabled, n, f[n - 1]) ELSE f[n - 1]
    BY <2>1 DEF Turned, L
  <2>3. f = [n \in 0..L |-> f[n]]
    BY <2>1 DEF Turned, L
  <2>4. \A n \in 0..L : f[n] = IF n = 0 THEN A ELSE IF n \in items THEN Also(n, f[n - 1]) ELSE f[n - 1]
    <3> TAKE n \in 0..L
    <3>1. n # 0 => n \in 1..L
      BY <1>1
    <3> QED BY <1>2, <2>2, <3>1
  <2>5. Is(f)
    BY <2>3, <2>4
  <2> QED BY <2>5
<1>4. Is(F)
  <2> HIDE DEF Is
  <2> QED BY <1>3
<1>5. SwitchAll(c, items, enabled) = F[L]
  BY DEF SwitchAll, InTurn
<1> HIDE DEF F
<1>6. F[0] = A /\ \A n \in 1..L : F[n] = IF n \in items THEN Also(n, F[n - 1]) ELSE F[n - 1]
  <2> HIDE DEF Also, L, A
  <2> QED BY <1>1, <1>4
<1>7. F = [n \in 0..L |-> F[n]]
  <2> HIDE DEF Also, L, A
  <2> QED BY <1>4
<1>8. Turned(F, "switch", enabled, A, items)
  <2> HIDE DEF Also, A
  <2> QED BY <1>2, <1>6, <1>7 DEF Turned
<1> QED BY <1>5, <1>8

LEMMA OfferTurns ==
    ASSUME NEW c, NEW items \in SUBSET (Nat \ {0}), IsFiniteSet(items)
    PROVE  \E F : OfferFrames(c, items) = F[Last(items)] /\ Turned(F, "offer", FALSE, {Call("OK", c, 0)}, items)
<1> DEFINE L == Last(items)
           A == {Call("OK", c, 0)}
           Also(n, x) == Then(x, LAMBDA b : OfferDisplay(b, n))
           Is(f) == f = [n \in 0..L |-> IF n = 0 THEN A ELSE IF n \in items THEN Also(n, f[n - 1]) ELSE f[n - 1]]
           F == CHOOSE f : Is(f)
<1>1. L \in Nat
  BY LastIs
<1>2. \A n, x : Follow("offer", FALSE, n, x) = Also(n, x)
  BY DEF Follow, Does
<1>3. \E f : Is(f)
  <2>1. PICK f : Turned(f, "offer", FALSE, A, items)
    BY <1>1, TurnsExist
  <2> HIDE DEF L, A, Also
  <2>2. f[0] = A /\ \A n \in 1..L : f[n] = IF n \in items THEN Follow("offer", FALSE, n, f[n - 1]) ELSE f[n - 1]
    BY <2>1 DEF Turned, L
  <2>3. f = [n \in 0..L |-> f[n]]
    BY <2>1 DEF Turned, L
  <2>4. \A n \in 0..L : f[n] = IF n = 0 THEN A ELSE IF n \in items THEN Also(n, f[n - 1]) ELSE f[n - 1]
    <3> TAKE n \in 0..L
    <3>1. n # 0 => n \in 1..L
      BY <1>1
    <3> QED BY <1>2, <2>2, <3>1
  <2>5. Is(f)
    BY <2>3, <2>4
  <2> QED BY <2>5
<1>4. Is(F)
  <2> HIDE DEF Is
  <2> QED BY <1>3
<1>5. OfferFrames(c, items) = F[L]
  BY DEF OfferFrames, InTurn
<1> HIDE DEF F
<1>6. F[0] = A /\ \A n \in 1..L : F[n] = IF n \in items THEN Also(n, F[n - 1]) ELSE F[n - 1]
  <2> HIDE DEF Also, L, A
  <2> QED BY <1>1, <1>4
<1>7. F = [n \in 0..L |-> F[n]]
  <2> HIDE DEF Also, L, A
  <2> QED BY <1>4
<1>8. Turned(F, "offer", FALSE, A, items)
  <2> HIDE DEF Also, A
  <2> QED BY <1>2, <1>6, <1>7 DEF Turned
<1> QED BY <1>5, <1>8

LEMMA FollowIs ==
    ASSUME NEW kind, NEW enabled, NEW n, NEW outs, NEW o \in Follow(kind, enabled, n, outs)
    PROVE  \E p \in outs : IF p.result = "OK"
                           THEN \E x \in Does(kind, enabled, p.c, n) : o = [x EXCEPT !.cost = @ + p.cost]
                           ELSE o = p
<1> DEFINE Op(c) == Does(kind, enabled, c, n)
<1>1. o \in UNION {IF p.result = "OK" THEN {[x EXCEPT !.cost = @ + p.cost] : x \in Op(p.c)} ELSE {p} : p \in outs}
  BY DEF Follow, Then, Affordable
<1> HIDE DEF Op
<1>2. \E p \in outs : IF p.result = "OK" THEN \E x \in Op(p.c) : o = [x EXCEPT !.cost = @ + p.cost] ELSE o = p
  BY <1>1
<1> QED BY <1>2 DEF Op

(* The items up to one.                                                       *)
UpTo(S, m) == {j \in S : j <= m}
LEMMA UpToIs ==
    ASSUME NEW S \in SUBSET (Nat \ {0}), IsFiniteSet(S)
    PROVE  /\ UpTo(S, 0) = {} /\ UpTo(S, Last(S)) = S
           /\ \A m \in 1..Last(S) : /\ m \notin S => UpTo(S, m) = UpTo(S, m - 1)
                                    /\ m \in S => UpTo(S, m) = UpTo(S, m - 1) \cup {m} /\ m \notin UpTo(S, m - 1)
<1>1. S \subseteq 1..Last(S) /\ Last(S) \in Nat
  BY LastIs
<1>0. \A j \in S : j \in Nat /\ 1 <= j /\ j <= Last(S) /\ ~(j <= 0)
  BY <1>1
<1>2. UpTo(S, 0) = {}
  BY <1>0 DEF UpTo
<1>3. UpTo(S, Last(S)) = S
  BY <1>0 DEF UpTo
<1>4. ASSUME NEW m \in 1..Last(S)
      PROVE  /\ m \notin S => UpTo(S, m) = UpTo(S, m - 1)
             /\ m \in S => UpTo(S, m) = UpTo(S, m - 1) \cup {m} /\ m \notin UpTo(S, m - 1)
  <2>1. \A j \in S : j \in Nat /\ (j <= m <=> j <= m - 1 \/ j = m)
    BY <1>1
  <2>2. ~(m <= m - 1)
    BY <1>1
  <2> QED BY <2>1, <2>2 DEF UpTo
<1> QED BY <1>2, <1>3, <1>4

(* What every call in turn keeps holds of the outcomes of all of them.        *)
Keeps(F, G, kind, enabled, items) ==
  /\ \A m \in 1..Last(items) : m \notin items => \A q \in F[m] : q \in G[m - 1] => q \in G[m]
  /\ \A m \in items : \A p \in G[m - 1] : \A o \in F[m] :
       IF p.result = "OK" THEN \A x \in Does(kind, enabled, p.c, m) : o = [x EXCEPT !.cost = @ + p.cost] => o \in G[m]
       ELSE o = p => o \in G[m]

LEMMA TurnsKeep ==
    ASSUME NEW F, NEW kind, NEW enabled, NEW A, NEW items \in SUBSET (Nat \ {0}), IsFiniteSet(items),
           Turned(F, kind, enabled, A, items), NEW G, A \subseteq G[0],
           Keeps(F, G, kind, enabled, items)
    PROVE  F[Last(items)] \subseteq G[Last(items)]
<1>1. Last(items) \in Nat
  BY LastIs
<1>2. F[0] \subseteq G[0]
  BY DEF Turned
<1>3. ASSUME NEW m \in 1..Last(items), F[m - 1] \subseteq G[m - 1]
      PROVE  F[m] \subseteq G[m]
  <2>1. CASE m \notin items
    <3>1. F[m] = F[m - 1]
      BY <2>1 DEF Turned
    <3> QED BY <1>3, <2>1, <3>1 DEF Keeps
  <2>2. CASE m \in items
    <3> SUFFICES ASSUME NEW o \in F[m]
                 PROVE  o \in G[m]
      OBVIOUS
    <3>1. o \in Follow(kind, enabled, m, F[m - 1])
      BY <2>2 DEF Turned
    <3>2. PICK p \in F[m - 1] : IF p.result = "OK"
                                THEN \E x \in Does(kind, enabled, p.c, m) : o = [x EXCEPT !.cost = @ + p.cost]
                                ELSE o = p
      BY <3>1, FollowIs
    <3>3. p \in G[m - 1]
      BY <1>3, <3>2
    <3> QED BY <2>2, <3>2, <3>3 DEF Keeps
  <2> QED BY <2>1, <2>2
<1> QED BY <1>1, <1>2, <1>3, CountKeeps

-------------------------------------------------------------------------------
(* Starts and stops of all the streams.                                       *)
LEMMA AlikeTwice ==
    ASSUME NEW a, NEW b, NEW c, Alike(a, b), Alike(b, c)
    PROVE  Alike(a, c)
BY DEF Alike, SameStreams, SameSet, SameLeases

LEMMA AlikeSelf == ASSUME NEW c PROVE Alike(c, c)
BY DEF Alike, SameStreams, SameSet, SameLeases

LEMMA AlikeSlots ==
    ASSUME NEW b, NEW c, Alike(b, c)
    PROVE  SlotsOf(b) = SlotsOf(c)
BY SameSlots DEF Alike

SlotRuns(c, i, running, X) == [c EXCEPT !.slots[i].running = running, !.faulted = X]

LEMMA SlotRunning ==
    ASSUME CallbacksOK, NEW c, Path(c), NEW i \in SlotsOf(c), NEW running \in BOOLEAN, NEW X,
           X \in {c.faulted, c.faulted \cup {i}}, NEW b, b = SlotRuns(c, i, running, X)
    PROVE  Only(b, c, i) /\ b.streams = c.streams /\ b.faulted = X /\ b.slots[i].running = running
<1> DEFINE t == [c.slots[i] EXCEPT !.running = running]
<1>1. c \in Paths /\ i \in 1..Streams /\ Resting(c)
  BY Typed DEF Path
<1>2. c.slots[i] \in SlotTypes /\ c.faulted \subseteq 1..Streams
  BY <1>1, Typed
<1>3. t \in SlotTypes
  BY <1>2 DEF SlotTypes
<1>4. /\ t.running = running /\ t.active = c.slots[i].active /\ t.display = c.slots[i].display
      /\ t.stream = c.slots[i].stream /\ t.leased = c.slots[i].leased
  BY <1>2 DEF SlotTypes
<1>5. b.slots = [c.slots EXCEPT ![i] = t] /\ b.faulted = X
  BY <1>1 DEF Paths, SlotRuns
<1>6. b = [c EXCEPT !.slots = b.slots, !.faulted = b.faulted]
  BY <1>5 DEF Paths, SlotRuns
<1>7. X \subseteq 1..Streams /\ c.faulted \subseteq X
  BY <1>1, <1>2
<1> HIDE DEF t
<1>8. MovedSlot(b, c, i, t)
  BY Zenon, <1>1, <1>3, <1>5, <1>6, <1>7, SlotPut
<1>9. DOMAIN c.slots = 1..Streams
  BY <1>1 DEF Paths
<1>10. b.slots[i] = t /\ \A j \in 1..Streams : j # i => b.slots[j] = c.slots[j]
  BY <1>1, <1>5, <1>9
<1>11. Alike(b, c)
  BY <1>4, <1>5, <1>7, <1>8, <1>10 DEF Alike, SameStreams, SameSet, SameLeases, MovedSlot, ElsewhereSlots
<1>12. Resting(b)
  BY <1>1, <1>4, <1>8, <1>10 DEF Resting, MovedSlot, ElsewhereSlots
<1>13. Path(b)
  BY <1>8, <1>11, <1>12, AlikePath DEF MovedSlot
<1>14. b.streams = c.streams
  BY <1>8 DEF MovedSlot, ElsewhereSlots
<1>15. ASSUME NEW S, NEW v, RunAs(c, S, v), i \notin S
       PROVE  RunAs(b, S, v)
  <2>1. SlotsOf(b) = SlotsOf(c)
    BY <1>11, AlikeSlots
  <2>2. \A j \in (S \cap SlotsOf(b)) \ b.faulted : j \in (S \cap SlotsOf(c)) \ c.faulted /\ j # i /\ j \in 1..Streams
    BY <1>5, <1>7, <1>15, <2>1 DEF SlotsOf
  <2>3. \A j \in (S \cap SlotsOf(b)) \ b.faulted : b.slots[j] = c.slots[j]
    BY <1>10, <2>2
  <2> QED BY <1>14, <1>15, <2>2, <2>3 DEF RunAs
<1> QED BY <1>4, <1>5, <1>10, <1>11, <1>13, <1>14, <1>15 DEF Only

LEMMA OnlyTwice ==
    ASSUME NEW a, NEW b, NEW c, NEW i, Only(a, b, i), Only(b, c, i)
    PROVE  Only(a, c, i)
BY AlikeTwice DEF Only

LEMMA PutsBack ==
    ASSUME CallbacksOK, NEW c, Path(c), NEW i \in SlotsOf(c), NEW enabled \in BOOLEAN,
           NEW o \in PutBack(c, i, enabled)
    PROVE  IsCall(o) /\ o.result = "OK" /\ Only(o.c, c, i) /\ RunAs(o.c, {i}, enabled)
<1>1. PICK q \in Switch(c, i, enabled) :
         o = [q EXCEPT !.result = "OK", !.c.slots[i].running = enabled,
                       !.c.faulted = IF q.result = "OK" THEN @ ELSE @ \cup {i}]
  BY Zenon DEF PutBack
<1>2. /\ IsCall(q) /\ Only(q.c, c, i) /\ q.c.slots = c.slots
      /\ q.result = "OK" => q.c.streams[c.slots[i].stream.slot].started = enabled
  <2>1. q \in Switch(c, i, enabled)
    BY <1>1
  <2>2. Answers(q, c, i, enabled)
    BY <2>1, Switches
  <2> QED BY <2>2 DEF Answers
<1>3. Path(q.c) /\ i \in SlotsOf(q.c)
  BY <1>2, AlikeSlots DEF Only
<1> DEFINE X == IF q.result = "OK" THEN q.c.faulted ELSE q.c.faulted \cup {i}
<1>4. IsCall(o) /\ o.result = "OK" /\ o.c = SlotRuns(q.c, i, enabled, X)
  BY <1>1, <1>2 DEF IsCall, SlotRuns
<1>5. X \in {q.c.faulted, q.c.faulted \cup {i}}
  OBVIOUS
<1>6. q.result # "OK" => i \in X
  OBVIOUS
<1> HIDE DEF X
<1>7. /\ Only(o.c, q.c, i) /\ o.c.streams = q.c.streams /\ o.c.faulted = X
      /\ o.c.slots[i].running = enabled
  BY <1>3, <1>4, <1>5, SlotRunning
<1>8. Only(o.c, c, i)
  BY <1>2, <1>7, OnlyTwice
<1>9. o.c.slots[i].stream = c.slots[i].stream
  <2>1. i \in 1..Streams
    BY DEF SlotsOf
  <2> QED BY <1>8, <2>1 DEF Only, Alike, SameStreams
<1>10. RunAs(o.c, {i}, enabled)
  BY <1>2, <1>6, <1>7, <1>9 DEF RunAs
<1> QED BY <1>4, <1>8, <1>10

LEMMA RunsUnion ==
    ASSUME NEW c, NEW S, NEW T, NEW v, RunAs(c, S, v), RunAs(c, T, v)
    PROVE  RunAs(c, S \cup T, v)
BY DEF RunAs

LEMMA RunsSubset ==
    ASSUME NEW c, NEW S, NEW T, NEW v, RunAs(c, S, v), T \cap SlotsOf(c) \subseteq S
    PROVE  RunAs(c, T, v)
BY DEF RunAs

(* A set of slots is finite, and its numbers are positive.                    *)
LEMMA SlotItems ==
    ASSUME NEW S \in SUBSET (1..Streams)
    PROVE  S \in SUBSET (Nat \ {0}) /\ IsFiniteSet(S)
<1>1. IsFiniteSet(1..Streams)
  BY CaptureAssumption, FS_Interval
<1>2. IsFiniteSet(S)
  BY <1>1, FS_Subset
<1> QED BY <1>2, CaptureAssumption

(* A path alike, in which only the slots in S may run otherwise.              *)
OnlyIn(b, c, S) ==
  Path(b) /\ Alike(b, c) /\ \A T, v : RunAs(c, T, v) /\ S \cap T = {} => RunAs(b, T, v)

LEMMA RollsBack ==
    ASSUME CallbacksOK, NEW o, IsCall(o), Path(o.c), NEW before \in SUBSET SlotsOf(o.c),
           NEW enabled \in BOOLEAN, NEW r \in Rollback(o, before, enabled)
    PROVE  IsCall(r) /\ r.result = o.result /\ OnlyIn(r.c, o.c, before) /\ RunAs(r.c, before, ~enabled)
<1> DEFINE c == o.c
           v == ~enabled
           A == {Call("OK", c, 0)}
           P(m, q) == /\ IsCall(q) /\ q.result = "OK"
                      /\ OnlyIn(q.c, c, UpTo(before, m)) /\ RunAs(q.c, UpTo(before, m), v)
<1>0. before \in SUBSET (1..Streams) /\ v \in BOOLEAN
  BY DEF SlotsOf
<1>1. before \in SUBSET (Nat \ {0}) /\ IsFiniteSet(before)
  BY <1>0, SlotItems
<1>2. PICK F : PutAllBack(c, before, v) = F[Last(before)] /\ Turned(F, "put back", v, A, before)
  BY Zenon, <1>1, PutBackTurns
<1>3. Last(before) \in Nat /\ before \subseteq 1..Last(before)
  BY <1>1, LastIs
<1>4. P(0, Call("OK", c, 0))
  <2>1. RunAs(c, {}, v)
    BY DEF RunAs
  <2>2. OnlyIn(c, c, {})
    BY AlikeSelf DEF OnlyIn
  <2> QED BY <1>1, <2>1, <2>2, CallIs, UpToIs
<1>5. ASSUME NEW m \in before, NEW p, P(m - 1, p), NEW x \in PutBack(p.c, m, v),
             NEW q, q = [x EXCEPT !.cost = @ + p.cost]
      PROVE  P(m, q)
  <2>1. m \in SlotsOf(p.c) /\ Path(p.c)
    BY <1>5, AlikeSlots DEF OnlyIn
  <2>2. IsCall(x) /\ x.result = "OK" /\ Only(x.c, p.c, m) /\ RunAs(x.c, {m}, v)
    BY <1>0, <2>1, PutsBack
  <2>3. IsCall(q) /\ q.result = "OK" /\ q.c = x.c
    BY <1>5, <2>2, Costs
  <2>4. UpTo(before, m) = UpTo(before, m - 1) \cup {m} /\ m \notin UpTo(before, m - 1)
    BY <1>1, <1>3, UpToIs
  <2>5. RunAs(x.c, UpTo(before, m - 1), v)
    BY <1>5, <2>2, <2>4 DEF Only
  <2>6. RunAs(x.c, UpTo(before, m), v)
    BY <2>2, <2>4, <2>5, RunsUnion
  <2>7. OnlyIn(x.c, c, UpTo(before, m))
    BY <1>5, <2>2, <2>4, AlikeTwice DEF OnlyIn, Only
  <2> QED BY <2>3, <2>6, <2>7
<1>6. \A q \in F[Last(before)] : P(Last(before), q)
  <2> DEFINE G == [m \in 0..Last(before) |-> {q \in F[m] : P(m, q)}]
  <2>1. \A m \in 1..Last(before) : m \notin before => UpTo(before, m) = UpTo(before, m - 1)
    BY <1>1, UpToIs
  <2>2. \A m \in 1..Last(before) : m \notin before => \A q : P(m - 1, q) => P(m, q)
    BY <2>1
  <2>3. \A m \in before : \A p, q : P(m - 1, p) =>
          \A x \in Does("put back", v, p.c, m) : q = [x EXCEPT !.cost = @ + p.cost] => P(m, q)
    BY ZenonT(60), <1>5 DEF Does
  <2>4. \A m, q : P(m, q) => q.result = "OK"
    OBVIOUS
  <2> HIDE DEF P
  <2>5. \A m \in 0..Last(before) : \A q : q \in G[m] <=> q \in F[m] /\ P(m, q)
    OBVIOUS
  <2> HIDE DEF G, A
  <2>6. A \subseteq G[0]
    <3>1. 0 \in 0..Last(before)
      BY <1>3
    <3>2. F[0] = A
      BY Zenon, <1>2 DEF Turned
    <3> QED BY <1>4, <2>5, <3>1, <3>2 DEF A
  <2>7. \A m \in 1..Last(before) : m - 1 \in 0..Last(before) /\ m \in 0..Last(before)
    BY <1>3
  <2>8. \A m \in 1..Last(before) : m \notin before => \A q \in F[m] : q \in G[m - 1] => q \in G[m]
    BY <2>2, <2>5, <2>7
  <2>9. \A m \in before : \A p \in G[m - 1] : \A q \in F[m] :
           IF p.result = "OK" THEN \A x \in Does("put back", v, p.c, m) : q = [x EXCEPT !.cost = @ + p.cost] => q \in G[m]
           ELSE q = p => q \in G[m]
    BY Zenon, <1>3, <2>3, <2>4, <2>5, <2>7
  <2>10. Keeps(F, G, "put back", v, before)
    BY Zenon, <2>8, <2>9 DEF Keeps
  <2>11. F[Last(before)] \subseteq G[Last(before)]
    BY Zenon, <1>1, <1>2, <2>6, <2>10, TurnsKeep
  <2> QED BY <1>3, <2>5, <2>11
<1>7. PICK p \in PutAllBack(c, before, v) : r = [o EXCEPT !.c = p.c, !.cost = @ + p.cost]
  <2> DEFINE Also(q, p) == [q EXCEPT !.c = p.c, !.cost = @ + p.cost]
  <2>1. r \in UNION {{Also(q, p) : p \in PutAllBack(q.c, before, ~enabled)} : q \in {o}}
    BY Zenon DEF Rollback, Regardless, Affordable
  <2> HIDE DEF Also
  <2>2. \E p \in PutAllBack(o.c, before, ~enabled) : r = Also(o, p)
    BY <2>1
  <2> QED BY Zenon, <2>2 DEF Also
<1>8. IsCall(r) /\ r.result = o.result /\ r.c = p.c
  BY <1>7 DEF IsCall
<1>9. UpTo(before, Last(before)) = before
  BY <1>1, UpToIs
<1> QED BY Zenon, <1>2, <1>6, <1>7, <1>8, <1>9

LEMMA SwitchesSlot ==
    ASSUME CallbacksOK, NEW c, Path(c), NEW i \in SlotsOf(c), NEW enabled \in BOOLEAN,
           ~enabled => \A j \in SlotsOf(c) : ~c.slots[j].leased,
           RunAs(c, {j \in 1..Streams : j < i}, enabled), RunAs(c, {j \in 1..Streams : j >= i}, ~enabled),
           NEW o \in SwitchSlot(c, i, enabled)
    PROVE  /\ IsCall(o) /\ Path(o.c) /\ Alike(o.c, c)
           /\ o.result = "OK" => /\ RunAs(o.c, {j \in 1..Streams : j <= i}, enabled)
                                 /\ RunAs(o.c, {j \in 1..Streams : j > i}, ~enabled)
           /\ o.result # "OK" => RunAs(o.c, 1..Streams, ~enabled)
<1> DEFINE Low == {j \in 1..Streams : j < i}
           High == {j \in 1..Streams : j > i}
           before == {j \in SlotsOf(c) : j < i}
<1>0. i \in 1..Streams
  BY DEF SlotsOf
<1>1. PICK q \in Switch(c, i, enabled) :
         IF q.result = "OK" THEN o = [q EXCEPT !.c.slots[i].running = enabled] ELSE o \in Rollback(q, before, enabled)
  BY DEF SwitchSlot
<1>2. Answers(q, c, i, enabled)
  <2>1. q \in Switch(c, i, enabled)
    BY <1>1
  <2> QED BY <2>1, Switches
<1>3. IsCall(q) /\ Path(q.c) /\ Alike(q.c, c) /\ q.c.slots = c.slots /\ i \in SlotsOf(q.c) /\ SlotsOf(q.c) = SlotsOf(c)
  BY <1>2, AlikeSlots DEF Answers, Only
<1>4. i \notin Low /\ i \notin High
  BY <1>0
<1>5. RunAs(c, High, ~enabled)
  BY <1>0 DEF RunAs
<1>6. RunAs(q.c, Low, enabled) /\ RunAs(q.c, High, ~enabled)
  BY <1>2, <1>4, <1>5 DEF Answers, Only
<1>7. CASE q.result = "OK"
  <2>1. q.c \in Paths
    BY <1>3 DEF Path
  <2>2. IsCall(o) /\ o.result = "OK" /\ o.c = [q.c EXCEPT !.slots[i].running = enabled]
    BY <1>1, <1>3, <1>7 DEF IsCall
  <2>3. o.c = SlotRuns(q.c, i, enabled, q.c.faulted)
    BY <2>1, <2>2 DEF SlotRuns, Paths
  <2>4. Only(o.c, q.c, i) /\ o.c.streams = q.c.streams /\ o.c.slots[i].running = enabled
    BY <1>3, <2>3, SlotRunning
  <2>5. Alike(o.c, c) /\ Path(o.c)
    BY <1>3, <2>4, AlikeTwice DEF Only
  <2>6. o.c.slots[i].stream = c.slots[i].stream
    BY <1>0, <2>5 DEF Alike, SameStreams
  <2>7. RunAs(o.c, {i}, enabled)
    BY <1>2, <1>7, <2>4, <2>6 DEF RunAs, Answers
  <2>8. RunAs(o.c, Low, enabled) /\ RunAs(o.c, High, ~enabled)
    BY <1>4, <1>6, <2>4 DEF Only
  <2>9. {j \in 1..Streams : j <= i} = Low \cup {i}
    BY <1>0
  <2> HIDE DEF Low
  <2> QED BY <2>2, <2>5, <2>7, <2>8, <2>9, RunsUnion
<1>8. CASE q.result # "OK"
  <2>1. o \in Rollback(q, before, enabled)
    BY <1>1, <1>8
  <2>2. before \in SUBSET SlotsOf(q.c)
    BY <1>3
  <2>3. RunAs(q.c, {i}, ~enabled)
    <3>1. RunAs(c, {i}, ~enabled)
      BY <1>0 DEF RunAs
    <3> QED BY <1>2, <1>8, <3>1 DEF Answers
  <2> HIDE DEF before
  <2>4. IsCall(o) /\ o.result = q.result /\ OnlyIn(o.c, q.c, before) /\ RunAs(o.c, before, ~enabled)
    BY <1>3, <2>1, <2>2, RollsBack
  <2>5. Path(o.c) /\ Alike(o.c, c)
    BY <1>3, <2>4, AlikeTwice DEF OnlyIn
  <2>6. before \cap {i} = {} /\ before \cap High = {}
    BY <1>0 DEF before, SlotsOf
  <2>7. RunAs(o.c, {i}, ~enabled) /\ RunAs(o.c, High, ~enabled)
    BY <1>6, <2>3, <2>4, <2>6 DEF OnlyIn
  <2>8. RunAs(o.c, (before \cup {i}) \cup High, ~enabled)
    BY <2>4, <2>7, RunsUnion
  <2>9. SlotsOf(o.c) = SlotsOf(c)
    BY <2>5, AlikeSlots
  <2>10. (1..Streams) \cap SlotsOf(o.c) \subseteq (before \cup {i}) \cup High
    BY <1>0, <2>9 DEF before, SlotsOf
  <2>11. RunAs(o.c, 1..Streams, ~enabled)
    BY <2>8, <2>10, RunsSubset
  <2> QED BY <1>8, <2>4, <2>5, <2>11
<1> QED BY <1>7, <1>8

LEMMA SwitchesAll ==
    ASSUME CallbacksOK, NEW c, Path(c), NEW enabled \in BOOLEAN, RunAs(c, 1..Streams, ~enabled),
           ~enabled => \A j \in SlotsOf(c) : ~c.slots[j].leased, NEW o \in SwitchAll(c, SlotsOf(c), enabled)
    PROVE  /\ IsCall(o) /\ Path(o.c) /\ Alike(o.c, c)
           /\ o.result = "OK" => RunAs(o.c, 1..Streams, enabled)
           /\ o.result # "OK" => RunAs(o.c, 1..Streams, ~enabled)
<1> DEFINE items == SlotsOf(c)
           A == {Call("OK", c, 0)}
           P(m, q) == /\ IsCall(q) /\ Path(q.c) /\ Alike(q.c, c)
                      /\ q.result = "OK" => /\ RunAs(q.c, {j \in 1..Streams : j <= m}, enabled)
                                            /\ RunAs(q.c, {j \in 1..Streams : j > m}, ~enabled)
                      /\ q.result # "OK" => RunAs(q.c, 1..Streams, ~enabled)
<1>0. items \in SUBSET (1..Streams)
  BY DEF SlotsOf
<1>1. items \in SUBSET (Nat \ {0}) /\ IsFiniteSet(items)
  BY <1>0, SlotItems
<1> HIDE DEF items
<1>2. PICK F : SwitchAll(c, items, enabled) = F[Last(items)] /\ Turned(F, "switch", enabled, A, items)
  BY <1>1, SwitchTurns
<1>3. Last(items) \in Nat /\ items \subseteq 1..Last(items)
  BY <1>1, LastIs
<1>4. \A q \in A : P(0, q)
  <2>1. RunAs(c, {j \in 1..Streams : j <= 0}, enabled)
    BY DEF RunAs
  <2>2. RunAs(c, {j \in 1..Streams : j > 0}, ~enabled)
    BY DEF RunAs
  <2>3. Alike(c, c)
    BY AlikeSelf
  <2> QED BY <2>1, <2>2, <2>3, CallIs
<1>5. \A m \in 1..Last(items) : m \notin items => \A q : P(m - 1, q) => P(m, q)
  <2> SUFFICES ASSUME NEW m \in 1..Last(items), m \notin items, NEW q, P(m - 1, q)
               PROVE  P(m, q)
    OBVIOUS
  <2>1. SlotsOf(q.c) = items
    BY AlikeSlots DEF items
  <2>2. \A j \in items : (j <= m <=> j <= m - 1) /\ (j > m <=> j > m - 1)
    BY <1>1
  <2>3. /\ {j \in 1..Streams : j <= m} \cap SlotsOf(q.c) \subseteq {j \in 1..Streams : j <= m - 1}
        /\ {j \in 1..Streams : j > m} \cap SlotsOf(q.c) \subseteq {j \in 1..Streams : j > m - 1}
    BY <2>1, <2>2
  <2> QED BY <2>3, RunsSubset
<1>6. ASSUME NEW m \in items, NEW p, P(m - 1, p), p.result = "OK", NEW x \in SwitchSlot(p.c, m, enabled),
             NEW q, q = [x EXCEPT !.cost = @ + p.cost]
      PROVE  P(m, q)
  <2>1. m \in SlotsOf(p.c) /\ SlotsOf(p.c) = items
    BY <1>6, AlikeSlots DEF items
  <2>2. {j \in 1..Streams : j < m} = {j \in 1..Streams : j <= m - 1}
    BY <1>1
  <2>3. {j \in 1..Streams : j >= m} = {j \in 1..Streams : j > m - 1}
    BY <1>1
  <2>4. ~enabled => \A j \in SlotsOf(p.c) : ~p.c.slots[j].leased
    BY <1>0, <1>6, <2>1 DEF Alike, SameLeases, items
  <2>5. RunAs(p.c, {j \in 1..Streams : j < m}, enabled) /\ RunAs(p.c, {j \in 1..Streams : j >= m}, ~enabled)
    BY <1>6, <2>2, <2>3
  <2>6. /\ IsCall(x) /\ Path(x.c) /\ Alike(x.c, p.c)
        /\ x.result = "OK" => /\ RunAs(x.c, {j \in 1..Streams : j <= m}, enabled)
                              /\ RunAs(x.c, {j \in 1..Streams : j > m}, ~enabled)
        /\ x.result # "OK" => RunAs(x.c, 1..Streams, ~enabled)
    BY <1>6, <2>1, <2>4, <2>5, SwitchesSlot
  <2>7. IsCall(q) /\ q.result = x.result /\ q.c = x.c
    BY <1>6, <2>6, Costs
  <2>8. Alike(x.c, c)
    BY <1>6, <2>6, AlikeTwice
  <2> QED BY <2>6, <2>7, <2>8
<1>7. \A m \in items : \A q : P(m - 1, q) /\ q.result # "OK" => P(m, q)
  OBVIOUS
<1>8. \A q \in F[Last(items)] : P(Last(items), q)
  <2> DEFINE G == [m \in 0..Last(items) |-> {q \in F[m] : P(m, q)}]
  <2> HIDE DEF P, A
  <2>1. \A m \in items : \A p, q : P(m - 1, p) /\ p.result = "OK" =>
          \A x \in Does("switch", enabled, p.c, m) : q = [x EXCEPT !.cost = @ + p.cost] => P(m, q)
    BY <1>6 DEF Does
  <2>2. \A m \in 0..Last(items) : \A q : q \in G[m] <=> q \in F[m] /\ P(m, q)
    OBVIOUS
  <2> HIDE DEF G
  <2>3. A \subseteq G[0]
    <3>1. 0 \in 0..Last(items)
      BY <1>3
    <3>2. F[0] = A
      BY <1>2 DEF Turned
    <3> QED BY <1>4, <2>2, <3>1, <3>2
  <2>4. \A m \in 1..Last(items) : m - 1 \in 0..Last(items) /\ m \in 0..Last(items)
    BY <1>3
  <2>5. \A m \in 1..Last(items) : m \notin items => \A q \in F[m] : q \in G[m - 1] => q \in G[m]
    BY <1>5, <2>2, <2>4
  <2>6. \A m \in items : \A p \in G[m - 1] : \A q \in F[m] :
           IF p.result = "OK" THEN \A x \in Does("switch", enabled, p.c, m) : q = [x EXCEPT !.cost = @ + p.cost] => q \in G[m]
           ELSE q = p => q \in G[m]
    BY <1>3, <1>7, <2>1, <2>2, <2>4
  <2>7. Keeps(F, G, "switch", enabled, items)
    BY <2>5, <2>6 DEF Keeps
  <2>8. F[Last(items)] \subseteq G[Last(items)]
    BY <1>1, <1>2, <2>3, <2>7, TurnsKeep
  <2> QED BY <1>3, <2>2, <2>8
<1>9. o \in F[Last(items)]
  BY <1>2 DEF items
<1>10. P(Last(items), o)
  BY <1>8, <1>9
<1>11. SlotsOf(o.c) = items
  BY <1>10, AlikeSlots DEF items
<1>12. (1..Streams) \cap SlotsOf(o.c) \subseteq {j \in 1..Streams : j <= Last(items)}
  BY <1>3, <1>11
<1> QED BY <1>10, <1>12, RunsSubset

(* A path with the same parts, under other switches of the set.               *)
LEMMA PartsPath ==
    ASSUME CallbacksOK, NEW c, Path(c), NEW b \in Paths,
           b.streams = c.streams, b.signals = c.signals, b.slots = c.slots, b.ring = c.ring,
           b.frames = c.frames, b.faulted = c.faulted
    PROVE  Path(b) /\ SameStreams(b, c) /\ SameLeases(b, c) /\ (\A S, v : RunAs(c, S, v) => RunAs(b, S, v))
<1>1. SameStreams(b, c) /\ SameLeases(b, c) /\ c \in Paths
  BY DEF SameStreams, SameLeases, Path
<1>2. Resting(b)
  BY DEF Path, Resting
<1>3. Path(b)
  BY <1>1, <1>2, SameFitted, SameLending DEF Path
<1>4. SlotsOf(b) = SlotsOf(c)
  BY DEF SlotsOf
<1> QED BY <1>1, <1>3, <1>4 DEF RunAs

(* The same streams and slots for the same layout.                            *)
Settled(b, c) == SameStreams(b, c) /\ b.epoch = c.epoch /\ b.pending = c.pending

LEMMA SetsRunning ==
    ASSUME CallbacksOK, NEW c, Path(c), Runs(c), NEW enabled \in BOOLEAN, NEW o \in SetRunning(c, enabled)
    PROVE  IsCall(o) /\ Path(o.c) /\ Runs(o.c) /\ Settled(o.c, c)
<1>1. c \in Paths /\ c.running \in BOOLEAN
  BY Typed DEF Path
<1>2. CASE o \in {Call("OK", c, 0), Call("BUSY", c, 0)}
  <2>1. SameStreams(c, c)
    BY DEF SameStreams
  <2> QED BY <1>2, <2>1, CallIs DEF Settled
<1>3. CASE o \notin {Call("OK", c, 0), Call("BUSY", c, 0)}
  <2>0. /\ c.running # enabled /\ ~(~enabled /\ \E i \in SlotsOf(c) : c.slots[i].leased)
        /\ o \in Then(SwitchAll(c, SlotsOf(c), enabled), LAMBDA b : {Call("OK", [b EXCEPT !.running = enabled], 0)})
    BY Zenon, <1>3 DEF SetRunning
  <2>1. c.running = ~enabled
    BY Zenon, <1>1, <2>0
  <2>2. RunAs(c, 1..Streams, ~enabled)
    BY <2>1 DEF Runs
  <2>3. ~enabled => \A j \in SlotsOf(c) : ~c.slots[j].leased
    BY Zenon, <2>0
  <2> DEFINE Runner(b) == Call("OK", [b EXCEPT !.running = enabled], 0)
  <2>4. \E q \in SwitchAll(c, SlotsOf(c), enabled) :
           IF q.result = "OK" THEN \E x \in {Runner(q.c)} : o = [x EXCEPT !.cost = @ + q.cost] ELSE o = q
    BY <2>0 DEF Then, Affordable
  <2> HIDE DEF Runner
  <2>5. PICK q \in SwitchAll(c, SlotsOf(c), enabled) :
           IF q.result = "OK" THEN o = [Runner(q.c) EXCEPT !.cost = @ + q.cost] ELSE o = q
    BY <2>4
  <2>6. /\ IsCall(q) /\ Path(q.c) /\ Alike(q.c, c)
        /\ q.result = "OK" => RunAs(q.c, 1..Streams, enabled)
        /\ q.result # "OK" => RunAs(q.c, 1..Streams, ~enabled)
    BY <2>2, <2>3, <2>5, SwitchesAll
  <2>7. CASE q.result # "OK"
    BY <2>1, <2>5, <2>6, <2>7 DEF Runs, Settled, Alike, SameSet
  <2>8. CASE q.result = "OK"
    <3> DEFINE b == [q.c EXCEPT !.running = enabled]
    <3>1. IsCall(o) /\ o.c = b
      BY <2>5, <2>8, CallIs, Costs DEF Runner
    <3>2. q.c \in Paths
      BY <2>6 DEF Path
    <3>3. b \in Paths /\ b.running = enabled /\ b.epoch = q.c.epoch /\ b.pending = q.c.pending
      BY <3>2 DEF Paths
    <3>4. /\ b.streams = q.c.streams /\ b.signals = q.c.signals /\ b.slots = q.c.slots /\ b.ring = q.c.ring
          /\ b.frames = q.c.frames /\ b.faulted = q.c.faulted
      BY <3>2 DEF Paths
    <3> HIDE DEF b
    <3>5. Path(b) /\ SameStreams(b, q.c) /\ RunAs(b, 1..Streams, enabled)
      BY <2>6, <2>8, <3>3, <3>4, PartsPath
    <3>6. Runs(b)
      BY <3>3, <3>5 DEF Runs
    <3>7. Settled(b, c)
      BY <2>6, <3>3, <3>5 DEF Settled, SameStreams, Alike, SameSet
    <3> QED BY <3>1, <3>5, <3>6, <3>7
  <2> QED BY <2>7, <2>8
<1> QED BY <1>2, <1>3

-------------------------------------------------------------------------------
(* Streams that are closed.                                                   *)
LEMMA Closes ==
    ASSUME NEW c \in Paths, NEW k \in 1..Streams, NEW b, b = CloseStream(c, k)
    PROVE  /\ b \in Paths /\ b.streams = [c.streams EXCEPT ![k] = Stream(c.streams[k].generation + 1)]
           /\ b.signals[k].generation = 0 /\ (\A j \in 1..Streams : j # k => b.signals[j] = c.signals[j])
           /\ b.slots = c.slots /\ b.ring = c.ring /\ b.frames = c.frames /\ b.faulted = c.faulted /\ SameSet(b, c)
<1>1. c.streams[k].generation \in Nat /\ c.signals[k] \in [generation : Nat, closed : BOOLEAN]
  BY Typed
<1>2. Stream(c.streams[k].generation + 1) \in StreamTypes
  BY <1>1 DEF Stream, StreamTypes
<1>3. [c.signals[k] EXCEPT !.generation = 0] \in [generation : Nat, closed : BOOLEAN]
  BY <1>1
<1>4. b.streams = [c.streams EXCEPT ![k] = Stream(c.streams[k].generation + 1)]
  BY DEF Paths, CloseStream
<1>5. b.signals = [c.signals EXCEPT ![k] = [c.signals[k] EXCEPT !.generation = 0]]
  BY DEF Paths, CloseStream
<1>6. /\ b.slots = c.slots /\ b.ring = c.ring /\ b.frames = c.frames /\ b.faulted = c.faulted
      /\ b.running = c.running /\ b.epoch = c.epoch /\ b.pending = c.pending
  BY DEF Paths, CloseStream
<1>7. b.streams \in [1..Streams -> StreamTypes]
  BY <1>2, <1>4 DEF Paths
<1>8. b.signals \in [1..Streams -> [generation : Nat, closed : BOOLEAN]]
  BY <1>3, <1>5 DEF Paths
<1>9. b = [streams |-> b.streams, signals |-> b.signals, slots |-> b.slots, running |-> b.running,
           epoch |-> b.epoch, pending |-> b.pending, ring |-> b.ring, frames |-> b.frames, faulted |-> b.faulted]
  BY DEF Paths, CloseStream
<1>10. b \in Paths
  <2>1. /\ c.slots \in [1..Streams -> SlotTypes] /\ c.running \in BOOLEAN /\ c.epoch \in Nat /\ c.pending \in BOOLEAN
        /\ c.ring \in [1..Transfers -> [leased : BOOLEAN, size : 0..2]]
        /\ c.frames \in SUBSET FrameTypes /\ c.faulted \in SUBSET (1..Streams)
    BY DEF Paths
  <2> QED BY <1>6, <1>7, <1>8, <1>9, <2>1 DEF Paths
<1>11. DOMAIN c.signals = 1..Streams
  BY DEF Paths
<1>12. b.signals[k].generation = 0 /\ \A j \in 1..Streams : j # k => b.signals[j] = c.signals[j]
  BY <1>1, <1>5, <1>11
<1> QED BY <1>4, <1>6, <1>10, <1>12 DEF SameSet

LEMMA Destroys ==
    ASSUME NEW c, NEW h, NEW o \in DestroyStream(c, h)
    PROVE  /\ IsCall(o)
           /\ \/ o.result = "STALE" /\ o.c = c /\ ~Live(c, h)
              \/ o.result = "BUSY" /\ o.c = c /\ (c.streams[h.slot].started \/ c.streams[h.slot].leased)
              \/ /\ o.result \in {"OK", "BACKEND"} /\ o.c = CloseStream(c, h.slot)
                 /\ Live(c, h) /\ ~c.streams[h.slot].started /\ ~c.streams[h.slot].leased
<1>1. \/ o = Call("STALE", c, 0) /\ ~Live(c, h)
      \/ o = Call("BUSY", c, 0) /\ (c.streams[h.slot].started \/ c.streams[h.slot].leased)
      \/ /\ o = Call("OK", CloseStream(c, h.slot), 0) \/ o = Fails(CloseStream(c, h.slot))
         /\ Live(c, h) /\ ~c.streams[h.slot].started /\ ~c.streams[h.slot].leased
  BY DEF DestroyStream
<1> QED BY <1>1, CallIs, FailsIs

(* Slot i has lost its stream: it is free, or known to have failed.           *)
Lost(b, c, i, k) ==
  /\ b \in Paths /\ b.streams = [c.streams EXCEPT ![k] = Stream(c.streams[k].generation + 1)]
  /\ b.signals[k].generation = 0 /\ (\A j \in 1..Streams : j # k => b.signals[j] = c.signals[j])
  /\ b.ring = c.ring /\ b.frames = c.frames
  /\ \/ b.slots = c.slots /\ b.faulted = c.faulted \cup {i}
     \/ b.slots = [c.slots EXCEPT ![i] = FreeSlot] /\ b.faulted = c.faulted \ {i}

LEMMA LostSlot ==
    ASSUME NEW b, NEW c \in Paths, NEW i \in SlotsOf(c), NEW k \in 1..Streams, Lost(b, c, i, k)
    PROVE  /\ i \in 1..Streams /\ b.streams[k] = Stream(c.streams[k].generation + 1)
           /\ \A j \in 1..Streams : j # k => b.streams[j] = c.streams[j]
           /\ \A j \in 1..Streams : j # i => b.slots[j] = c.slots[j] /\ (j \in b.faulted <=> j \in c.faulted)
           /\ \/ b.slots[i] = FreeSlot /\ SlotsOf(b) = SlotsOf(c) \ {i}
              \/ b.slots[i] = c.slots[i] /\ i \in b.faulted /\ SlotsOf(b) = SlotsOf(c)
<1>1. i \in 1..Streams /\ DOMAIN c.streams = 1..Streams /\ DOMAIN c.slots = 1..Streams
  BY DEF SlotsOf, Paths
<1>2. b.streams[k] = Stream(c.streams[k].generation + 1) /\ \A j \in 1..Streams : j # k => b.streams[j] = c.streams[j]
  BY <1>1 DEF Lost
<1>3. CASE b.slots = c.slots /\ b.faulted = c.faulted \cup {i}
  <2>1. SlotsOf(b) = SlotsOf(c)
    BY <1>3 DEF SlotsOf
  <2> QED BY <1>1, <1>2, <1>3, <2>1
<1>4. CASE b.slots = [c.slots EXCEPT ![i] = FreeSlot] /\ b.faulted = c.faulted \ {i}
  <2>1. b.slots[i] = FreeSlot /\ \A j \in 1..Streams : j # i => b.slots[j] = c.slots[j]
    BY <1>1, <1>4
  <2>2. FreeSlot.active = FALSE
    BY DEF FreeSlot
  <2>3. SlotsOf(b) = SlotsOf(c) \ {i}
    BY <2>1, <2>2 DEF SlotsOf
  <2> QED BY <1>1, <1>2, <1>4, <2>1, <2>3
<1> QED BY <1>3, <1>4 DEF Lost

LEMMA LostPath ==
    ASSUME CallbacksOK, NEW b, NEW c, Path(c), NEW i \in SlotsOf(c), ~c.slots[i].leased,
           Live(c, c.slots[i].stream), Lost(b, c, i, c.slots[i].stream.slot)
    PROVE  Path(b) /\ \A S, v : RunAs(c, S \ {i}, v) => RunAs(b, S, v)
<1> DEFINE h == c.slots[i].stream
           k == c.slots[i].stream.slot
           g == c.streams[k].generation
<1>1. c \in Paths /\ Fitted(c) /\ Resting(c) /\ Lending(c) /\ b \in Paths
  BY DEF Path, Lost
<1>2. i \in 1..Streams /\ h \in Handles /\ k \in 1..Streams /\ g \in Nat /\ h.generation = g
  BY <1>1, Typed DEF Live
<1>3. /\ b.streams[k] = Stream(g + 1)
      /\ \A j \in 1..Streams : j # k => b.streams[j] = c.streams[j]
      /\ \A j \in 1..Streams : j # i => b.slots[j] = c.slots[j] /\ (j \in b.faulted <=> j \in c.faulted)
      /\ \/ b.slots[i] = FreeSlot /\ SlotsOf(b) = SlotsOf(c) \ {i}
         \/ b.slots[i] = c.slots[i] /\ i \in b.faulted /\ SlotsOf(b) = SlotsOf(c)
  BY <1>1, <1>2, LostSlot
<1>4. /\ Stream(g + 1).active = FALSE /\ Stream(g + 1).generation = g + 1
      /\ Stream(g + 1).leased = FALSE /\ Stream(g + 1).started = FALSE
  BY DEF Stream
<1>5. SlotsOf(b) \subseteq SlotsOf(c) /\ SlotsOf(c) \subseteq 1..Streams
      /\ \A j \in SlotsOf(c) : j # i => j \in SlotsOf(b)
  BY <1>3 DEF SlotsOf
<1>6. \A j \in SlotsOf(b) : b.slots[j] = c.slots[j]
  BY <1>2, <1>3, <1>5
<1>7. \A j \in 1..Streams : c.streams[j].generation \in Nat /\ c.slots[j].stream \in Handles
                            /\ c.slots[j].stream.slot \in 1..Streams /\ c.slots[j].stream.generation \in Nat
  BY <1>1, Typed
<1>8. \A j \in SlotsOf(c) : j # i /\ Live(c, c.slots[j].stream) => c.slots[j].stream.slot # k
  BY TwoStreams
<1> HIDE DEF k, g
<1>9. Signalled(b)
  <2>1. g + 1 # 0
    BY <1>2
  <2>2. b.signals[k].generation = 0 /\ \A j \in 1..Streams : j # k => b.signals[j] = c.signals[j]
    BY DEF Lost, k
  <2>3. \A j \in 1..Streams : /\ c.streams[j].generation # 0
                              /\ c.streams[j].active => c.streams[j].display # 0
                              /\ c.signals[j].generation = IF c.streams[j].active THEN c.streams[j].generation ELSE 0
    BY <1>1 DEF Signalled, Fitted
  <2> SUFFICES ASSUME NEW j \in 1..Streams
               PROVE  /\ b.streams[j].generation # 0
                      /\ b.streams[j].active => b.streams[j].display # 0
                      /\ b.signals[j].generation = IF b.streams[j].active THEN b.streams[j].generation ELSE 0
    BY DEF Signalled
  <2>4. CASE j = k
    BY <1>3, <1>4, <2>1, <2>2, <2>4
  <2>5. CASE j # k
    <3>1. b.streams[j] = c.streams[j] /\ b.signals[j] = c.signals[j]
      BY <1>3, <2>2, <2>5
    <3>2. /\ c.streams[j].generation # 0
          /\ c.streams[j].active => c.streams[j].display # 0
          /\ c.signals[j].generation = IF c.streams[j].active THEN c.streams[j].generation ELSE 0
      BY <2>3
    <3> QED BY <3>1, <3>2
  <2> QED BY <2>4, <2>5
<1>10. Reports(b)
  <2>1. \A x \in callbacks : x.slot \in 1..Streams /\ x.generation \in Nat
    BY DEF CallbacksOK
  <2> SUFFICES ASSUME NEW x \in callbacks
               PROVE  /\ x.generation <= b.streams[x.slot].generation
                      /\ x.generation = b.streams[x.slot].generation => b.streams[x.slot].active /\ b.streams[x.slot].gone
    BY DEF Reports
  <2>2. /\ x.generation <= c.streams[x.slot].generation
        /\ x.generation = c.streams[x.slot].generation => c.streams[x.slot].active /\ c.streams[x.slot].gone
    BY <1>1 DEF Fitted, Reports
  <2>3. CASE x.slot = k
    <3>1. x.generation <= g
      BY <2>2, <2>3 DEF g, k
    <3>2. b.streams[x.slot].generation = g + 1
      BY <1>3, <1>4, <2>3
    <3> QED BY <1>2, <2>1, <3>1, <3>2
  <2>4. CASE x.slot # k
    BY <1>3, <2>1, <2>2, <2>4
  <2> QED BY <2>3, <2>4
<1>11. Own(b)
  <2>1. \A j \in 1..Streams : b.streams[j].active => j # k
    BY <1>3, <1>4
  <2>2. \A j \in 1..Streams : j # k => b.streams[j] = c.streams[j] /\ b.signals[j] = c.signals[j]
    BY ZenonT(60), <1>3 DEF Lost, k
  <2> QED BY <1>1, <2>1, <2>2 DEF Own, Closed, Fitted
<1>12. Kept(b)
  <2> SUFFICES ASSUME NEW j \in SlotsOf(b)
               PROVE  LET f == b.slots[j].stream
                          s == b.streams[b.slots[j].stream.slot]
                      IN  /\ b.slots[j].display # 0
                          /\ f.generation <= s.generation
                          /\ f.generation = s.generation => s.active /\ s.display = b.slots[j].display
                          /\ j \notin b.faulted => Live(b, f)
    BY DEF Kept
  <2> DEFINE f == c.slots[j].stream
             s == c.streams[c.slots[j].stream.slot]
  <2>1. j \in SlotsOf(c) /\ j \in 1..Streams /\ b.slots[j] = c.slots[j] /\ f.slot \in 1..Streams
        /\ f.generation \in Nat /\ s.generation \in Nat
    BY SMTT(30), <1>5, <1>6, <1>7
  <2>2. /\ c.slots[j].display # 0 /\ f.generation <= s.generation
        /\ f.generation = s.generation => s.active /\ s.display = c.slots[j].display
        /\ j \notin c.faulted => Live(c, f)
    BY <1>1, <2>1 DEF Fitted, Kept
  <2>3. CASE f.slot = k
    <3>1. b.streams[f.slot].generation = g + 1 /\ s.generation = g
      BY <1>3, <1>4, <2>3 DEF g
    <3>2. j \in b.faulted
      BY SMTT(30), <1>3, <1>5, <1>8, <2>1, <2>2, <2>3
    <3>3. f.generation \in Nat /\ g \in Nat /\ f.generation <= g /\ b.streams[f.slot].generation = g + 1
      BY <2>1, <2>2, <3>1
    <3>4. f.generation <= b.streams[f.slot].generation /\ f.generation # b.streams[f.slot].generation
      BY <3>3
    <3> QED BY ZenonT(60), <2>1, <2>2, <3>2, <3>4
  <2>4. CASE f.slot # k
    <3>1. b.streams[f.slot] = s
      BY <1>3, <2>1, <2>4
    <3>2. j \notin b.faulted => j \notin c.faulted
      BY <1>3, <2>1
    <3> QED BY <2>1, <2>2, <3>1, <3>2 DEF Live
  <2> QED BY ZenonT(60), <2>3, <2>4
<1>13. Apart(b)
  BY <1>1, <1>5, <1>6 DEF Apart, Fitted
<1>14. Owned(b)
  <2> SUFFICES ASSUME NEW j \in 1..Streams, b.streams[j].active
               PROVE  \E n \in SlotsOf(b) : b.slots[n].stream = [slot |-> j, generation |-> b.streams[j].generation]
    BY DEF Owned
  <2>1. j # k /\ b.streams[j] = c.streams[j]
    BY <1>3, <1>4
  <2>2. PICK n \in SlotsOf(c) : c.slots[n].stream = [slot |-> j, generation |-> c.streams[j].generation]
    BY <1>1, <2>1 DEF Fitted, Owned
  <2>3. n # i
    BY <2>1, <2>2 DEF k
  <2> QED BY <1>5, <1>6, <2>1, <2>2, <2>3
<1>15. Resting(b)
  <2>1. FreeSlot.leased = FALSE
    BY DEF FreeSlot
  <2>2. \A j \in 1..Streams : ~b.streams[j].active => ~b.streams[j].leased /\ ~b.streams[j].started
    BY <1>1, <1>3, <1>4 DEF Resting
  <2>3. \A j \in 1..Streams : ~b.slots[j].active => ~b.slots[j].leased
    BY <1>1, <1>3, <2>1 DEF Resting
  <2> QED BY <2>2, <2>3 DEF Resting
<1>16. \A f \in c.frames : f.slot # i /\ f.slot \in SlotsOf(c) /\ f.slot \in 1..Streams
                           /\ c.slots[f.slot].stream.slot # k
  <2> TAKE f \in c.frames
  <2>1. f.slot \in 1..Streams
    BY <1>1, Typed
  <2>2. c.slots[f.slot].active /\ c.slots[f.slot].leased /\ Live(c, c.slots[f.slot].stream)
    BY <1>1 DEF Lending, Holding
  <2>3. f.slot # i /\ f.slot \in SlotsOf(c)
    BY <2>1, <2>2 DEF SlotsOf
  <2> QED BY <1>8, <2>1, <2>2, <2>3
<1>17. b.frames = c.frames /\ b.ring = c.ring
  BY SMTT(30) DEF Lost
<1>18. Holding(b)
  <2> SUFFICES ASSUME NEW f \in c.frames
               PROVE  /\ b.slots[f.slot].active /\ b.slots[f.slot].leased /\ b.slots[f.slot].display = f.display
                      /\ Live(b, b.slots[f.slot].stream)
                      /\ b.streams[b.slots[f.slot].stream.slot].leased
                      /\ b.ring[f.texture].leased
    BY <1>17 DEF Holding
  <2>1. b.slots[f.slot] = c.slots[f.slot]
    BY <1>3, <1>16
  <2>2. b.streams[c.slots[f.slot].stream.slot] = c.streams[c.slots[f.slot].stream.slot]
    BY <1>3, <1>7, <1>16
  <2> QED BY ZenonT(60), <1>1, <1>17, <2>1, <2>2 DEF Lending, Holding, Live
<1>19. Alone(b)
  BY <1>1, <1>17 DEF Lending, Alone
<1>20. Held(b)
  <2>1. \A f \in c.frames : b.slots[f.slot] = c.slots[f.slot]
    BY <1>3, <1>16
  <2>2. \A j \in 1..Streams : b.streams[j].leased => b.streams[j] = c.streams[j]
    BY <1>3, <1>4
  <2>3. \A j \in 1..Streams : b.streams[j].leased => \E f \in b.frames : b.slots[f.slot].stream.slot = j
    BY <1>1, <1>17, <2>1, <2>2 DEF Lending, Held
  <2>4. \A r \in 1..Transfers : b.ring[r].leased => \E f \in b.frames : f.texture = r
    BY <1>1, <1>17 DEF Lending, Held
  <2>5. FreeSlot.leased = FALSE
    BY DEF FreeSlot
  <2>6. \A j \in 1..Streams : b.slots[j].leased => j \in b.faulted \/ \E f \in b.frames : f.slot = j
    BY <1>1, <1>3, <1>17, <2>5 DEF Lending, Held
  <2> QED BY <2>3, <2>4, <2>6 DEF Held
<1>21. Path(b)
  BY <1>1, <1>9, <1>10, <1>11, <1>12, <1>13, <1>14, <1>15, <1>18, <1>19, <1>20 DEF Path, Fitted, Lending
<1>22. ASSUME NEW S, NEW v, RunAs(c, S \ {i}, v)
       PROVE  RunAs(b, S, v)
  <2> SUFFICES ASSUME NEW j \in (S \cap SlotsOf(b)) \ b.faulted
               PROVE  b.slots[j].running = v /\ b.streams[b.slots[j].stream.slot].started = v
    BY DEF RunAs
  <2>1. j # i /\ j \in SlotsOf(c) /\ j \in 1..Streams /\ j \notin c.faulted
    BY <1>3, <1>5
  <2>2. c.slots[j].running = v /\ c.streams[c.slots[j].stream.slot].started = v
    BY <1>22, <2>1 DEF RunAs
  <2>3. c.slots[j].stream.slot # k
    BY <1>1, <1>8, <2>1 DEF Fitted, Kept
  <2>4. b.slots[j] = c.slots[j] /\ b.streams[c.slots[j].stream.slot] = c.streams[c.slots[j].stream.slot]
    BY <1>3, <1>6, <1>7, <2>1, <2>3
  <2> QED BY <2>2, <2>4
<1> QED BY <1>21, <1>22

LEMMA RunsWithout ==
    ASSUME NEW c, NEW i, i \in c.faulted
    PROVE  \A S, v : RunAs(c, S \ {i}, v) => RunAs(c, S, v)
BY DEF RunAs

(* What the stop before a removal leaves.                                     *)
LEMMA StopsFirst ==
    ASSUME CallbacksOK, NEW c, Path(c), NEW i \in SlotsOf(c), NEW q \in Stopped(c, i)
    PROVE  IsCall(q) /\ Only(q.c, c, i) /\ q.c.slots = c.slots /\ (q.result # "OK" => i \in q.c.faulted)
<1> DEFINE h == c.slots[i].stream
           s == c.streams[h.slot]
<1>1. c \in Paths /\ Kept(c)
  BY DEF Path, Fitted
<1>2. i \in 1..Streams /\ h \in Handles /\ h.slot \in 1..Streams /\ s \in StreamTypes
  BY <1>1, Typed
<1>3. PICK r \in StopStream(c, h) : q = CASE r.result = "STATE" -> [r EXCEPT !.result = "OK"]
                                        [] r.result = "BACKEND" -> [r EXCEPT !.c = Faulted(r.c, i)]
                                        [] OTHER -> r
  BY DEF Stopped
<1>4. /\ IsCall(r)
      /\ \/ r.result = "STALE" /\ r.c = c /\ ~Live(c, h)
         \/ r.result = "STATE" /\ r.c = c /\ Live(c, h)
         \/ /\ r.result \in {"OK", "BACKEND"} /\ Live(c, h) /\ Moved(r.c, c, h.slot, Halted(s))
  BY <1>1, <1>2, <1>3, Stops
<1>5. Only(c, c, i)
  BY AlikeSelf DEF Only
<1>6. CASE r.result \in {"STALE", "STATE"}
  <2>1. IsCall(q) /\ q.c = c /\ (q.result # "OK" => r.result = "STALE")
    BY <1>3, <1>4, <1>6 DEF IsCall
  <2>2. q.result # "OK" => i \in c.faulted
    BY <1>1, <1>4, <2>1 DEF Kept
  <2> QED BY <1>5, <2>1, <2>2
<1>7. CASE r.result \in {"OK", "BACKEND"}
  <2>1. Live(c, h) /\ Moved(r.c, c, h.slot, Halted(s)) /\ s.active
    BY <1>4, <1>7 DEF Live
  <2>2. Path(r.c) /\ Alike(r.c, c)
    BY ZenonT(60), <1>2, <2>1, MovedStill, StreamForms
  <2>3. \A S, v : RunAs(c, S, v) /\ i \notin S => RunAs(r.c, S, v)
    BY <2>1, MovedRun
  <2>4. r.c.slots = c.slots /\ r.c \in Paths
    BY <2>1 DEF Moved, Elsewhere
  <2>5. CASE r.result = "OK"
    BY <1>3, <1>4, <2>2, <2>3, <2>4, <2>5 DEF Only
  <2>6. CASE r.result = "BACKEND"
    <3>1. IsCall(q) /\ q.c = Faulted(r.c, i)
      BY <1>3, <1>4, <2>6 DEF IsCall
    <3>2. /\ Alike(q.c, r.c) /\ q.c.faulted = r.c.faulted \cup {i} /\ q.c.slots = r.c.slots
          /\ q.c.streams = r.c.streams
      BY <1>2, <2>4, <3>1, Faulting
    <3>3. Path(q.c)
      BY <1>2, <2>2, <3>1, FaultedPath
    <3>4. SlotsOf(q.c) = SlotsOf(r.c)
      BY <3>2 DEF SlotsOf
    <3>5. \A S, v : RunAs(r.c, S, v) => RunAs(q.c, S, v)
      BY <3>2, <3>4 DEF RunAs
    <3>6. Alike(q.c, c)
      BY <2>2, <3>2, AlikeTwice
    <3> QED BY <2>3, <2>4, <3>1, <3>2, <3>3, <3>5, <3>6 DEF Only
  <2> QED BY <1>7, <2>5, <2>6
<1> QED BY <1>4, <1>6, <1>7

(* What the removal of slot i leaves.                                         *)
Without(b, c, i) ==
  /\ Path(b) /\ SameSet(b, c)
  /\ \A S, v : RunAs(c, S \ {i}, v) => RunAs(b, S, v)
  /\ SlotsOf(b) \subseteq SlotsOf(c)
  /\ \A j \in SlotsOf(b) : b.slots[j].display = c.slots[j].display /\ b.slots[j].leased = c.slots[j].leased

LEMMA LostWithout ==
    ASSUME CallbacksOK, NEW b, NEW c, Path(c), NEW i \in SlotsOf(c), ~c.slots[i].leased,
           Live(c, c.slots[i].stream), Lost(b, c, i, c.slots[i].stream.slot), SameSet(b, c)
    PROVE  Without(b, c, i) /\ (b.slots = [c.slots EXCEPT ![i] = FreeSlot] => SlotsOf(b) = SlotsOf(c) \ {i})
<1>1. c \in Paths /\ i \in 1..Streams /\ c.slots[i].stream.slot \in 1..Streams
  BY Typed DEF Path
<1>2. Path(b) /\ \A S, v : RunAs(c, S \ {i}, v) => RunAs(b, S, v)
  BY LostPath
<1> DEFINE k == c.slots[i].stream.slot
<1>3. /\ i \in 1..Streams /\ b.streams[k] = Stream(c.streams[k].generation + 1)
      /\ \A j \in 1..Streams : j # k => b.streams[j] = c.streams[j]
      /\ \A j \in 1..Streams : j # i => b.slots[j] = c.slots[j] /\ (j \in b.faulted <=> j \in c.faulted)
      /\ \/ b.slots[i] = FreeSlot /\ SlotsOf(b) = SlotsOf(c) \ {i}
         \/ b.slots[i] = c.slots[i] /\ i \in b.faulted /\ SlotsOf(b) = SlotsOf(c)
  BY <1>1, LostSlot
<1>4. SlotsOf(b) \subseteq SlotsOf(c) /\ SlotsOf(c) \subseteq 1..Streams
  BY <1>3 DEF SlotsOf
<1>5. \A j \in SlotsOf(b) : b.slots[j] = c.slots[j]
  BY <1>3, <1>4
<1>6. b.slots = [c.slots EXCEPT ![i] = FreeSlot] => SlotsOf(b) = SlotsOf(c) \ {i}
  <2>1. DOMAIN c.slots = 1..Streams /\ FreeSlot.active = FALSE
    BY <1>1 DEF Paths, FreeSlot
  <2> QED BY <1>1, <1>3, <2>1 DEF SlotsOf
<1> QED BY <1>2, <1>4, <1>5, <1>6 DEF Without

LEMMA DestroysSlot ==
    ASSUME CallbacksOK, NEW c, Path(c), NEW i \in SlotsOf(c), ~c.slots[i].leased,
           NEW r \in DestroyStream(c, c.slots[i].stream),
           NEW p, p = IF r.result = "OK" THEN [r EXCEPT !.c.slots[i] = FreeSlot, !.c.faulted = @ \ {i}]
                      ELSE [r EXCEPT !.c = Faulted(r.c, i)]
    PROVE  /\ IsCall(p) /\ Without(p.c, c, i)
           /\ IF p.result = "OK" THEN SlotsOf(p.c) = SlotsOf(c) \ {i} ELSE i \in p.c.faulted
<1> DEFINE h == c.slots[i].stream
           k == c.slots[i].stream.slot
<1>1. c \in Paths
  BY DEF Path
<1>2. i \in 1..Streams /\ h \in Handles /\ k \in 1..Streams
  BY <1>1, Typed
<1>3. /\ IsCall(r)
      /\ \/ r.result \in {"STALE", "BUSY"} /\ r.c = c
         \/ r.result \in {"OK", "BACKEND"} /\ r.c = CloseStream(c, k) /\ Live(c, h) /\ ~c.streams[k].leased
  BY Destroys
<1>4. CASE r.result \in {"STALE", "BUSY"}
  <2>1. r.c = c
    BY <1>3, <1>4
  <2>2. IsCall(p) /\ p.c = Faulted(c, i) /\ p.result # "OK"
    BY <1>3, <1>4, <2>1 DEF IsCall
  <2>3. /\ Alike(p.c, c) /\ p.c.faulted = c.faulted \cup {i} /\ p.c.slots = c.slots
        /\ p.c.streams = c.streams
    BY <1>1, <1>2, <2>2, Faulting
  <2>4. Path(p.c)
    BY <1>2, <2>2, FaultedPath
  <2>5. SlotsOf(p.c) = SlotsOf(c)
    BY SMTT(30), <2>3 DEF SlotsOf
  <2>6. \A S, v : RunAs(c, S \ {i}, v) => RunAs(p.c, S, v)
    BY ZenonT(60), <2>3, <2>5 DEF RunAs
  <2> QED BY <2>2, <2>3, <2>4, <2>5, <2>6 DEF Without, Alike
<1>5. CASE r.result \in {"OK", "BACKEND"}
  <2>1. r.c = CloseStream(c, k) /\ Live(c, h) /\ ~c.streams[k].leased
    BY <1>3, <1>5
  <2>2. /\ r.c \in Paths /\ r.c.streams = [c.streams EXCEPT ![k] = Stream(c.streams[k].generation + 1)]
        /\ r.c.signals[k].generation = 0 /\ (\A j \in 1..Streams : j # k => r.c.signals[j] = c.signals[j])
        /\ r.c.slots = c.slots /\ r.c.ring = c.ring /\ r.c.frames = c.frames /\ r.c.faulted = c.faulted
        /\ SameSet(r.c, c)
    BY <1>1, <1>2, <2>1, Closes
  <2>3. /\ IsCall(p) /\ Lost(p.c, c, i, k) /\ SameSet(p.c, c)
        /\ p.result = "OK" => p.c.slots = [c.slots EXCEPT ![i] = FreeSlot]
        /\ p.result # "OK" => i \in p.c.faulted
    <3>1. CASE r.result = "BACKEND"
      <4>1. IsCall(p) /\ p.c = Faulted(r.c, i) /\ p.result # "OK"
        BY <1>3, <3>1 DEF IsCall
      <4>2. /\ p.c \in Paths /\ p.c.faulted = r.c.faulted \cup {i}
            /\ p.c.streams = r.c.streams /\ p.c.slots = r.c.slots
            /\ p.c.signals = r.c.signals /\ p.c.ring = r.c.ring /\ p.c.frames = r.c.frames /\ SameSet(p.c, r.c)
        <5>1. Alike(p.c, r.c) /\ p.c \in Paths /\ p.c.faulted = r.c.faulted \cup {i}
              /\ p.c.streams = r.c.streams /\ p.c.slots = r.c.slots
          BY <1>2, <2>2, <4>1, Faulting
        <5>2. p.c.signals = r.c.signals /\ p.c.ring = r.c.ring /\ p.c.frames = r.c.frames
          BY SMTT(30), <2>2, <4>1 DEF Faulted, Paths
        <5> QED BY <5>1, <5>2 DEF Alike
      <4> QED BY <2>2, <4>1, <4>2 DEF Lost, SameSet
    <3>2. CASE r.result = "OK"
      <4> DEFINE b == [r.c EXCEPT !.slots[i] = FreeSlot, !.faulted = @ \ {i}]
      <4>1. IsCall(p) /\ p.c = b /\ p.result = "OK"
        BY <1>3, <3>2 DEF IsCall
      <4>2. b.slots = [c.slots EXCEPT ![i] = FreeSlot] /\ b.faulted = c.faulted \ {i}
        BY <2>2 DEF Paths
      <4>3. b = [r.c EXCEPT !.slots = b.slots, !.faulted = b.faulted]
        BY <2>2, <4>2 DEF Paths
      <4>4. FreeSlot \in SlotTypes
        <5>1. Streams \in Nat \ {0}
          BY <1>2, CaptureAssumption
        <5> QED BY <5>1 DEF FreeSlot, SlotTypes, Handles
      <4>5. b.faulted \subseteq 1..Streams
        BY SMTT(30), <1>1, <4>2, Typed
      <4> HIDE DEF b
      <4>6. MovedSlot(b, r.c, i, FreeSlot)
        BY Zenon, <1>2, <2>2, <4>2, <4>3, <4>4, <4>5, SlotPut
      <4>7. /\ b \in Paths /\ b.streams = r.c.streams /\ b.signals = r.c.signals /\ b.ring = r.c.ring
            /\ b.frames = r.c.frames /\ SameSet(b, r.c)
        BY Zenon, <4>6 DEF MovedSlot, ElsewhereSlots
      <4>8. SameSet(b, c)
        BY Zenon, <2>2, <4>7 DEF SameSet
      <4>9. Lost(b, c, i, k)
        BY Zenon, <2>2, <4>2, <4>7 DEF Lost
      <4> QED BY Zenon, <4>1, <4>2, <4>8, <4>9
    <3> QED BY <1>5, <3>1, <3>2
  <2> QED BY ZenonT(60), <2>1, <2>3, LostWithout
<1> QED BY <1>3, <1>4, <1>5

LEMMA WithoutOnly ==
    ASSUME NEW a, NEW b, NEW c, NEW i, Only(b, c, i), b.slots = c.slots, Without(a, b, i)
    PROVE  Without(a, c, i) /\ SlotsOf(b) = SlotsOf(c)
<1>1. Alike(b, c) /\ SlotsOf(b) = SlotsOf(c)
  BY AlikeSlots DEF Only
<1>2. SameSet(a, c)
  BY <1>1 DEF Without, Alike, SameSet
<1>3. ASSUME NEW S, NEW v, RunAs(c, S \ {i}, v)
      PROVE  RunAs(a, S, v)
  BY <1>3 DEF Only, Without
<1> QED BY <1>1, <1>2, <1>3 DEF Without

LEMMA WithoutSelf ==
    ASSUME NEW c, Path(c), NEW i, i \in c.faulted
    PROVE  Without(c, c, i)
BY DEF Without, SameSet, RunAs

(* What a removal answers.                                                    *)
Removed(o, c, i) ==
  /\ IsCall(o) /\ Path(o.c) /\ SameSet(o.c, c) /\ SlotsOf(o.c) \subseteq SlotsOf(c)
  /\ \A j \in SlotsOf(o.c) : o.c.slots[j].display = c.slots[j].display /\ o.c.slots[j].leased = c.slots[j].leased
  /\ \A S, v : RunAs(c, S, v) => RunAs(o.c, S, v)
  /\ IF o.result = "OK" THEN SlotsOf(o.c) = SlotsOf(c) \ {i} ELSE c.slots[i].leased \/ i \in o.c.faulted

LEMMA Removes ==
    ASSUME CallbacksOK, NEW c, Path(c), NEW i \in SlotsOf(c), NEW o \in RemoveSlot(c, i)
    PROVE  Removed(o, c, i)
<1> DEFINE Ready == IF c.slots[i].running THEN Stopped(c, i) ELSE {Call("OK", c, 0)}
           Left(r) == IF r.result = "OK" THEN [r EXCEPT !.c.slots[i] = FreeSlot, !.c.faulted = @ \ {i}]
                      ELSE [r EXCEPT !.c = Faulted(r.c, i)]
           Destroyed(b) == {Left(r) : r \in DestroyStream(b, b.slots[i].stream)}
<1>0. \A S, v : RunAs(c, S, v) => RunAs(c, S \ {i}, v)
  BY DEF RunAs
<1>1. CASE c.slots[i].leased
  <2>1. o = Call("BUSY", c, 0)
    BY Zenon, <1>1 DEF RemoveSlot
  <2> QED BY <1>1, <2>1, CallIs DEF Removed, SameSet
<1>2. CASE ~c.slots[i].leased
  <2>1. o \in UNION {IF q.result = "OK" THEN {[x EXCEPT !.cost = @ + q.cost] : x \in Destroyed(q.c)} ELSE {q} : q \in Ready}
    BY Zenon, <1>2 DEF RemoveSlot, Then, Affordable
  <2> HIDE DEF Destroyed, Ready
  <2>2. PICK q \in Ready : IF q.result = "OK" THEN \E x \in Destroyed(q.c) : o = [x EXCEPT !.cost = @ + q.cost] ELSE o = q
    BY <2>1
  <2>3. IsCall(q) /\ Only(q.c, c, i) /\ q.c.slots = c.slots /\ (q.result # "OK" => i \in q.c.faulted)
    <3>1. CASE c.slots[i].running
      BY <2>2, <3>1, StopsFirst DEF Ready
    <3>2. CASE ~c.slots[i].running
      <4>1. q = Call("OK", c, 0)
        BY <2>2, <3>2 DEF Ready
      <4> QED BY <4>1, CallIs, AlikeSelf DEF Only
    <3> QED BY <3>1, <3>2
  <2>4. Path(q.c) /\ i \in SlotsOf(q.c) /\ SlotsOf(q.c) = SlotsOf(c)
    BY <2>3, AlikeSlots DEF Only
  <2>5. CASE q.result = "OK"
    <3>1. PICK x \in Destroyed(q.c) : o = [x EXCEPT !.cost = @ + q.cost]
      BY <2>2, <2>5
    <3>2. \E r \in DestroyStream(q.c, q.c.slots[i].stream) : x = Left(r)
      BY Zenon, <3>1 DEF Destroyed
    <3>3. /\ IsCall(x) /\ Without(x.c, q.c, i)
          /\ IF x.result = "OK" THEN SlotsOf(x.c) = SlotsOf(q.c) \ {i} ELSE i \in x.c.faulted
      BY Zenon, <1>2, <2>3, <2>4, <3>2, DestroysSlot
    <3> HIDE DEF Left
    <3>4. IsCall(o) /\ o.result = x.result /\ o.c = x.c
      BY <3>1, <3>3, Costs
    <3>5. Without(o.c, c, i)
      BY <2>3, <3>3, <3>4, WithoutOnly
    <3> QED BY <1>0, <2>4, <3>3, <3>4, <3>5 DEF Removed, Without
  <2>6. CASE q.result # "OK"
    <3>1. o = q /\ i \in q.c.faulted
      BY <2>2, <2>3, <2>6
    <3>2. Without(o.c, c, i)
      BY <2>3, <2>4, <3>1, WithoutSelf, WithoutOnly
    <3> QED BY <1>0, <2>3, <2>6, <3>1, <3>2 DEF Removed, Without
  <2> QED BY <2>5, <2>6
<1> QED BY <1>1, <1>2

RemovedAll(q, c, S) ==
  /\ IsCall(q) /\ Path(q.c) /\ SameSet(q.c, c) /\ SlotsOf(q.c) \subseteq SlotsOf(c)
  /\ \A j \in SlotsOf(q.c) : q.c.slots[j].display = c.slots[j].display /\ q.c.slots[j].leased = c.slots[j].leased
  /\ \A T, v : RunAs(c, T, v) => RunAs(q.c, T, v)
  /\ IF q.result = "OK" THEN SlotsOf(q.c) = SlotsOf(c) \ S ELSE q.c.faulted # {}

LEMMA RemovesAll ==
    ASSUME CallbacksOK, NEW c, Path(c), NEW items \in SUBSET SlotsOf(c), \A i \in items : ~c.slots[i].leased,
           NEW o \in RemoveAll(c, items)
    PROVE  RemovedAll(o, c, items)
<1> DEFINE A == {Call("OK", c, 0)}
           P(m, q) == RemovedAll(q, c, UpTo(items, m))
<1>0. items \in SUBSET (1..Streams)
  BY DEF SlotsOf
<1>1. items \in SUBSET (Nat \ {0}) /\ IsFiniteSet(items)
  BY <1>0, SlotItems
<1>2. PICK F : RemoveAll(c, items) = F[Last(items)] /\ Turned(F, "remove", FALSE, A, items)
  BY <1>1, RemoveTurns
<1>3. Last(items) \in Nat /\ items \subseteq 1..Last(items)
  BY <1>1, LastIs
<1>4. \A q \in A : P(0, q)
  <2>1. UpTo(items, 0) = {}
    BY <1>1, UpToIs
  <2> QED BY <2>1, CallIs DEF RemovedAll, SameSet
<1>5. \A m \in 1..Last(items) : m \notin items => \A q : P(m - 1, q) => P(m, q)
  <2>1. \A m \in 1..Last(items) : m \notin items => UpTo(items, m) = UpTo(items, m - 1)
    BY <1>1, UpToIs
  <2> QED BY <2>1
<1>6. ASSUME NEW m \in items, NEW p, P(m - 1, p), p.result = "OK", NEW x \in RemoveSlot(p.c, m),
             NEW q, q = [x EXCEPT !.cost = @ + p.cost]
      PROVE  P(m, q)
  <2>1. UpTo(items, m) = UpTo(items, m - 1) \cup {m} /\ m \notin UpTo(items, m - 1)
    BY <1>1, <1>3, UpToIs
  <2>2. Path(p.c) /\ m \in SlotsOf(p.c) /\ ~p.c.slots[m].leased
    BY <1>6, <2>1 DEF RemovedAll
  <2>3. Removed(x, p.c, m)
    BY <2>2, Removes
  <2>4. IsCall(q) /\ q.result = x.result /\ q.c = x.c
    BY <1>6, <2>3, Costs DEF Removed
  <2>5. Path(q.c) /\ SameSet(q.c, c) /\ SlotsOf(q.c) \subseteq SlotsOf(c)
    BY <1>6, <2>3, <2>4 DEF Removed, RemovedAll, SameSet
  <2>6. \A j \in SlotsOf(q.c) : q.c.slots[j].display = c.slots[j].display /\ q.c.slots[j].leased = c.slots[j].leased
    BY <1>6, <2>3, <2>4 DEF Removed, RemovedAll
  <2>7. \A T, v : RunAs(c, T, v) => RunAs(q.c, T, v)
    BY <1>6, <2>3, <2>4 DEF Removed, RemovedAll
  <2>8. q.result = "OK" => SlotsOf(q.c) = SlotsOf(c) \ UpTo(items, m)
    BY <1>6, <2>1, <2>3, <2>4 DEF Removed, RemovedAll
  <2>9. q.result # "OK" => q.c.faulted # {}
    BY <2>2, <2>3, <2>4 DEF Removed
  <2> QED BY <2>4, <2>5, <2>6, <2>7, <2>8, <2>9 DEF RemovedAll
<1>7. \A m \in items : \A q : P(m - 1, q) /\ q.result # "OK" => P(m, q)
  BY DEF RemovedAll
<1>8. \A q \in F[Last(items)] : P(Last(items), q)
  <2> DEFINE G == [m \in 0..Last(items) |-> {q \in F[m] : P(m, q)}]
  <2> HIDE DEF P, A
  <2>1. \A m \in items : \A p, q : P(m - 1, p) /\ p.result = "OK" =>
          \A x \in Does("remove", FALSE, p.c, m) : q = [x EXCEPT !.cost = @ + p.cost] => P(m, q)
    BY <1>6 DEF Does
  <2>2. \A m \in 0..Last(items) : \A q : q \in G[m] <=> q \in F[m] /\ P(m, q)
    OBVIOUS
  <2> HIDE DEF G
  <2>3. A \subseteq G[0]
    <3>1. 0 \in 0..Last(items)
      BY <1>3
    <3>2. F[0] = A
      BY <1>2 DEF Turned
    <3> QED BY <1>4, <2>2, <3>1, <3>2
  <2>4. \A m \in 1..Last(items) : m - 1 \in 0..Last(items) /\ m \in 0..Last(items)
    BY <1>3
  <2>5. \A m \in 1..Last(items) : m \notin items => \A q \in F[m] : q \in G[m - 1] => q \in G[m]
    BY <1>5, <2>2, <2>4
  <2>6. \A m \in items : \A p \in G[m - 1] : \A q \in F[m] :
           IF p.result = "OK" THEN \A x \in Does("remove", FALSE, p.c, m) : q = [x EXCEPT !.cost = @ + p.cost] => q \in G[m]
           ELSE q = p => q \in G[m]
    BY <1>3, <1>7, <2>1, <2>2, <2>4
  <2>7. Keeps(F, G, "remove", FALSE, items)
    BY <2>5, <2>6 DEF Keeps
  <2>8. F[Last(items)] \subseteq G[Last(items)]
    BY <1>1, <1>2, <2>3, <2>7, TurnsKeep
  <2> QED BY <1>3, <2>2, <2>8
<1>9. P(Last(items), o)
  BY <1>2, <1>8
<1>10. UpTo(items, Last(items)) = items
  BY <1>1, UpToIs
<1> QED BY <1>9, <1>10

-------------------------------------------------------------------------------
(* Streams that are opened.                                                   *)

(* What is left of a stream that is not open: reports and slots of its past.  *)
Unused(c, k) ==
  /\ ~c.streams[k].started /\ ~c.streams[k].leased
  /\ \A x \in callbacks : x.slot = k => x.generation < c.streams[k].generation
  /\ \A j \in SlotsOf(c) : c.slots[j].stream.slot = k =>
       c.slots[j].stream.generation < c.streams[k].generation /\ j \in c.faulted
  /\ \A f \in c.frames : c.slots[f.slot].stream.slot # k

LEMMA Closeds ==
    ASSUME CallbacksOK, NEW c, Path(c), NEW k \in 1..Streams, ~c.streams[k].active
    PROVE  Unused(c, k)
<1>1. c \in Paths /\ Fitted(c) /\ Resting(c) /\ Lending(c)
  BY DEF Path
<1>2. c.streams[k].generation \in Nat
  BY <1>1, Typed
<1>3. \A x \in callbacks : x.slot = k => x.generation < c.streams[k].generation
  <2> TAKE x \in callbacks
  <2> HAVE x.slot = k
  <2>1. x.generation \in Nat
    BY DEF CallbacksOK
  <2>2. x.generation <= c.streams[k].generation /\ x.generation # c.streams[k].generation
    BY <1>1 DEF Fitted, Reports
  <2> QED BY <1>2, <2>1, <2>2
<1>4. \A j \in SlotsOf(c) : c.slots[j].stream.slot = k =>
        c.slots[j].stream.generation < c.streams[k].generation /\ j \in c.faulted
  <2> TAKE j \in SlotsOf(c)
  <2> HAVE c.slots[j].stream.slot = k
  <2>1. c.slots[j].stream.generation \in Nat
    BY <1>1, Typed
  <2>2. /\ c.slots[j].stream.generation <= c.streams[k].generation
        /\ c.slots[j].stream.generation # c.streams[k].generation
        /\ j \in c.faulted
    BY <1>1 DEF Fitted, Kept, Live
  <2> QED BY <1>2, <2>1, <2>2
<1>5. \A f \in c.frames : c.slots[f.slot].stream.slot # k
  BY <1>1 DEF Lending, Holding, Live
<1>6. ~c.streams[k].started /\ ~c.streams[k].leased
  BY <1>1 DEF Resting
<1> QED BY <1>3, <1>4, <1>5, <1>6 DEF Unused

(* A stream was opened and closed again.                                      *)
Spent(b, c, k) ==
  /\ b \in Paths /\ SameSet(b, c) /\ b.streams = [c.streams EXCEPT ![k] = Stream(c.streams[k].generation + 1)]
  /\ b.signals[k].generation = 0 /\ (\A j \in 1..Streams : j # k => b.signals[j] = c.signals[j])
  /\ b.slots = c.slots /\ b.ring = c.ring /\ b.frames = c.frames /\ b.faulted = c.faulted

LEMMA SpentPath ==
    ASSUME CallbacksOK, NEW b, NEW c, Path(c), NEW k \in 1..Streams, ~c.streams[k].active, Spent(b, c, k)
    PROVE  Path(b) /\ SlotsOf(b) = SlotsOf(c) /\ \A S, v : RunAs(c, S, v) => RunAs(b, S, v)
<1> DEFINE g == c.streams[k].generation
<1>1. c \in Paths /\ Fitted(c) /\ Resting(c) /\ Lending(c) /\ b \in Paths /\ Unused(c, k)
  BY Closeds DEF Path, Spent
<1>2. g \in Nat /\ DOMAIN c.streams = 1..Streams
  BY <1>1, Typed DEF Paths
<1>3. b.streams[k] = Stream(g + 1) /\ \A j \in 1..Streams : j # k => b.streams[j] = c.streams[j]
  BY <1>2 DEF Spent
<1>4. /\ Stream(g + 1).active = FALSE /\ Stream(g + 1).generation = g + 1
      /\ Stream(g + 1).leased = FALSE /\ Stream(g + 1).started = FALSE
  BY DEF Stream
<1>5. SlotsOf(b) = SlotsOf(c)
  BY DEF SlotsOf, Spent
<1>6. /\ b.signals[k].generation = 0 /\ (\A j \in 1..Streams : j # k => b.signals[j] = c.signals[j])
      /\ b.slots = c.slots /\ b.ring = c.ring /\ b.frames = c.frames /\ b.faulted = c.faulted
  BY DEF Spent
<1>7. \A j \in 1..Streams : c.streams[j].generation \in Nat /\ c.slots[j].stream \in Handles
                            /\ c.slots[j].stream.slot \in 1..Streams /\ c.slots[j].stream.generation \in Nat
  BY <1>1, Typed
<1> HIDE DEF g
<1>8. Signalled(b)
  <2> SUFFICES ASSUME NEW j \in 1..Streams
               PROVE  /\ b.streams[j].generation # 0
                      /\ b.streams[j].active => b.streams[j].display # 0
                      /\ b.signals[j].generation = IF b.streams[j].active THEN b.streams[j].generation ELSE 0
    BY DEF Signalled
  <2>1. CASE j = k
    BY <1>2, <1>3, <1>4, <1>6, <2>1
  <2>2. CASE j # k
    <3>1. b.streams[j] = c.streams[j] /\ b.signals[j] = c.signals[j]
      BY <1>3, <1>6, <2>2
    <3> QED BY <1>1, <3>1 DEF Fitted, Signalled
  <2> QED BY <2>1, <2>2
<1>9. Reports(b)
  <2> SUFFICES ASSUME NEW x \in callbacks
               PROVE  /\ x.generation <= b.streams[x.slot].generation
                      /\ x.generation = b.streams[x.slot].generation => b.streams[x.slot].active /\ b.streams[x.slot].gone
    BY DEF Reports
  <2>1. x.slot \in 1..Streams /\ x.generation \in Nat
    BY DEF CallbacksOK
  <2>2. CASE x.slot = k
    <3>1. x.generation < g /\ b.streams[x.slot].generation = g + 1
      BY <1>1, <1>3, <1>4, <2>2 DEF Unused, g
    <3> QED BY <1>2, <2>1, <3>1
  <2>3. CASE x.slot # k
    <3>1. b.streams[x.slot] = c.streams[x.slot]
      BY <1>3, <2>1, <2>3
    <3> QED BY <1>1, <3>1 DEF Fitted, Reports
  <2> QED BY <2>2, <2>3
<1>10. Own(b)
  <2>1. \A j \in 1..Streams : b.streams[j].active => j # k
    BY <1>3, <1>4
  <2> QED BY <1>1, <1>3, <1>6, <2>1 DEF Own, Closed, Fitted
<1>11. Kept(b)
  <2> SUFFICES ASSUME NEW j \in SlotsOf(c)
               PROVE  LET f == c.slots[j].stream
                          s == b.streams[c.slots[j].stream.slot]
                      IN  /\ c.slots[j].display # 0
                          /\ f.generation <= s.generation
                          /\ f.generation = s.generation => s.active /\ s.display = c.slots[j].display
                          /\ j \notin c.faulted => Live(b, f)
    BY <1>5, <1>6 DEF Kept
  <2> DEFINE f == c.slots[j].stream
             s == c.streams[c.slots[j].stream.slot]
  <2>1. j \in 1..Streams /\ f.slot \in 1..Streams /\ f.generation \in Nat
    BY <1>7 DEF SlotsOf
  <2>2. /\ c.slots[j].display # 0 /\ f.generation <= s.generation
        /\ f.generation = s.generation => s.active /\ s.display = c.slots[j].display
        /\ j \notin c.faulted => Live(c, f)
    BY <1>1 DEF Fitted, Kept
  <2>3. CASE f.slot = k
    <3>1. b.streams[f.slot].generation = g + 1 /\ f.generation < g /\ j \in c.faulted
      BY <1>1, <1>3, <1>4, <2>3 DEF g, Unused
    <3> QED BY SMTT(120), <1>2, <2>1, <2>2, <3>1
  <2>4. CASE f.slot # k
    <3>1. b.streams[f.slot] = s
      BY <1>3, <2>1, <2>4
    <3> QED BY <2>1, <2>2, <3>1 DEF Live
  <2> QED BY <2>3, <2>4
<1>12. Apart(b)
  BY <1>1, <1>5, <1>6 DEF Apart, Fitted
<1>13. Owned(b)
  BY <1>1, <1>3, <1>4, <1>5, <1>6 DEF Owned, Fitted
<1>14. Resting(b)
  BY <1>1, <1>3, <1>4, <1>6 DEF Resting
<1>15. Lending(b)
  <2>1. \A f \in c.frames : f.slot \in 1..Streams /\ c.slots[f.slot].stream.slot # k
                            /\ c.slots[f.slot].stream.slot \in 1..Streams
    BY <1>1, <1>7, Typed DEF Unused
  <2>2. \A f \in c.frames : b.streams[c.slots[f.slot].stream.slot] = c.streams[c.slots[f.slot].stream.slot]
    BY SMTT(30), <1>3, <2>1
  <2>3. Holding(b)
    <3> SUFFICES ASSUME NEW f \in c.frames
                 PROVE  /\ c.slots[f.slot].active /\ c.slots[f.slot].leased
                        /\ c.slots[f.slot].display = f.display
                        /\ Live(b, c.slots[f.slot].stream)
                        /\ b.streams[c.slots[f.slot].stream.slot].leased
                        /\ c.ring[f.texture].leased
      BY <1>6 DEF Holding
    <3>1. b.streams[c.slots[f.slot].stream.slot] = c.streams[c.slots[f.slot].stream.slot]
      BY <2>2
    <3>2. Holding(c)
      BY <1>1 DEF Lending
    <3> QED BY Zenon, <3>1, <3>2 DEF Holding, Live
  <2>4. Alone(b)
    BY <1>1, <1>6 DEF Lending, Alone
  <2>5. \A j \in 1..Streams : b.streams[j].leased => c.streams[j].leased
    BY <1>3, <1>4
  <2>6. Held(b)
    BY <1>1, <1>6, <2>5 DEF Lending, Held
  <2> QED BY <2>3, <2>4, <2>6 DEF Lending
<1>16. Path(b)
  BY <1>1, <1>8, <1>9, <1>10, <1>11, <1>12, <1>13, <1>14, <1>15 DEF Path, Fitted
<1>17. ASSUME NEW S, NEW v, RunAs(c, S, v)
       PROVE  RunAs(b, S, v)
  <2> SUFFICES ASSUME NEW j \in (S \cap SlotsOf(c)) \ c.faulted
               PROVE  c.slots[j].running = v /\ b.streams[c.slots[j].stream.slot].started = v
    BY <1>5, <1>6 DEF RunAs
  <2>1. c.slots[j].stream.slot # k /\ c.slots[j].stream.slot \in 1..Streams
    BY <1>1, <1>7 DEF Unused, SlotsOf
  <2> QED BY <1>3, <1>17, <2>1 DEF RunAs
<1> QED BY <1>5, <1>16, <1>17

(* Slot i, free before, has a stream of its own at k for display d.           *)
Gained(b, c, i, k, d) ==
  /\ b \in Paths /\ SameSet(b, c) /\ b.ring = c.ring /\ b.frames = c.frames /\ b.faulted = c.faulted
  /\ \A j \in 1..Streams : j # k => b.streams[j] = c.streams[j] /\ b.signals[j] = c.signals[j]
  /\ \A j \in 1..Streams : j # i => b.slots[j] = c.slots[j]
  /\ b.streams[k].active /\ b.streams[k].generation = c.streams[k].generation /\ b.streams[k].display = d
  /\ ~b.streams[k].leased /\ b.streams[k].started = c.running
  /\ b.signals[k] = [generation |-> c.streams[k].generation, closed |-> FALSE]
  /\ b.slots[i] = [active |-> TRUE, display |-> d, stream |-> [slot |-> k, generation |-> c.streams[k].generation],
                   running |-> c.running, leased |-> FALSE]

Shown(c) == {c.slots[i].display : i \in SlotsOf(c)}

LEMMA GainedPath ==
    ASSUME CallbacksOK, NEW b, NEW c, Path(c), NEW k \in 1..Streams, ~c.streams[k].active,
           NEW i \in (1..Streams) \ SlotsOf(c), NEW d \in Displays, d \notin Shown(c), Gained(b, c, i, k, d)
    PROVE  Path(b) /\ (Runs(c) => Runs(b)) /\ Shown(b) = Shown(c) \cup {d} /\ SlotsOf(c) \subseteq SlotsOf(b)
<1> DEFINE g == c.streams[k].generation
           h == [slot |-> k, generation |-> g]
<1>1. c \in Paths /\ Fitted(c) /\ Resting(c) /\ Lending(c) /\ b \in Paths /\ Unused(c, k)
  BY Closeds DEF Path, Gained
<1>2. g \in Nat /\ d # 0
  BY <1>1, Typed, CaptureAssumption
<1>3. /\ \A j \in 1..Streams : j # k => b.streams[j] = c.streams[j] /\ b.signals[j] = c.signals[j]
      /\ b.streams[k].active /\ b.streams[k].generation = g /\ b.streams[k].display = d
      /\ ~b.streams[k].leased /\ b.streams[k].started = c.running
      /\ b.signals[k].generation = g /\ b.signals[k].closed = FALSE
  BY DEF Gained
<1>4. /\ \A j \in 1..Streams : j # i => b.slots[j] = c.slots[j]
      /\ b.slots[i].active /\ b.slots[i].display = d /\ b.slots[i].stream = h
      /\ b.slots[i].running = c.running /\ b.slots[i].leased = FALSE
  BY DEF Gained
<1>5. b.ring = c.ring /\ b.frames = c.frames /\ b.faulted = c.faulted /\ SameSet(b, c)
  BY DEF Gained
<1>6. SlotsOf(b) = SlotsOf(c) \cup {i}
  BY <1>4 DEF SlotsOf
<1>7. \A j \in SlotsOf(c) : j \in 1..Streams /\ j # i /\ b.slots[j] = c.slots[j]
  BY <1>4 DEF SlotsOf
<1>8. \A j \in 1..Streams : c.streams[j].generation \in Nat /\ c.slots[j].stream \in Handles
                            /\ c.slots[j].stream.slot \in 1..Streams /\ c.slots[j].stream.generation \in Nat
  BY <1>1, Typed
<1>9. h.slot = k /\ h.generation = g
  OBVIOUS
<1> HIDE DEF g, h
<1>10. Shown(b) = Shown(c) \cup {d}
  BY <1>4, <1>6, <1>7 DEF Shown
<1>11. Signalled(b)
  <2> SUFFICES ASSUME NEW j \in 1..Streams
               PROVE  /\ b.streams[j].generation # 0
                      /\ b.streams[j].active => b.streams[j].display # 0
                      /\ b.signals[j].generation = IF b.streams[j].active THEN b.streams[j].generation ELSE 0
    BY DEF Signalled
  <2>1. CASE j = k
    <3>1. g # 0
      BY <1>1 DEF Fitted, Signalled, g
    <3> QED BY <1>2, <1>3, <2>1, <3>1
  <2>2. CASE j # k
    <3>1. b.streams[j] = c.streams[j] /\ b.signals[j] = c.signals[j]
      BY <1>3, <2>2
    <3> QED BY <1>1, <3>1 DEF Fitted, Signalled
  <2> QED BY <2>1, <2>2
<1>12. Reports(b)
  <2> SUFFICES ASSUME NEW x \in callbacks
               PROVE  /\ x.generation <= b.streams[x.slot].generation
                      /\ x.generation = b.streams[x.slot].generation => b.streams[x.slot].active /\ b.streams[x.slot].gone
    BY DEF Reports
  <2>1. x.slot \in 1..Streams /\ x.generation \in Nat
    BY DEF CallbacksOK
  <2>2. CASE x.slot = k
    <3>1. x.generation < g /\ b.streams[x.slot].generation = g
      BY <1>1, <1>3, <2>2 DEF Unused, g
    <3> QED BY <1>2, <2>1, <3>1
  <2>3. CASE x.slot # k
    <3>1. b.streams[x.slot] = c.streams[x.slot]
      BY <1>3, <2>1, <2>3
    <3> QED BY <1>1, <3>1 DEF Fitted, Reports
  <2> QED BY <2>2, <2>3
<1>13. Own(b)
  <2>1. ~Closed(b, k)
    BY <1>3 DEF Closed
  <2>2. \A j \in 1..Streams : j # k => (Closed(b, j) <=> Closed(c, j))
    BY <1>3 DEF Closed
  <2> QED BY <1>1, <1>3, <2>1, <2>2 DEF Own, Fitted
<1>14. Kept(b)
  <2> SUFFICES ASSUME NEW j \in SlotsOf(b)
               PROVE  LET f == b.slots[j].stream
                          s == b.streams[b.slots[j].stream.slot]
                      IN  /\ b.slots[j].display # 0
                          /\ f.generation <= s.generation
                          /\ f.generation = s.generation => s.active /\ s.display = b.slots[j].display
                          /\ j \notin b.faulted => Live(b, f)
    BY DEF Kept
  <2>1. CASE j = i
    <3>1. b.slots[j].stream = h /\ b.streams[h.slot].active /\ b.streams[h.slot].generation = g
          /\ b.streams[h.slot].display = d /\ b.slots[j].display = d
      BY <1>3, <1>4, <1>9, <2>1
    <3> QED BY <1>2, <1>9, <3>1 DEF Live
  <2>2. CASE j # i
    <3> DEFINE f == c.slots[j].stream
               s == c.streams[c.slots[j].stream.slot]
    <3>1. j \in SlotsOf(c) /\ j \in 1..Streams /\ f.slot \in 1..Streams /\ f.generation \in Nat
          /\ b.slots[j] = c.slots[j]
      BY <1>6, <1>7, <1>8, <2>2
    <3>2. /\ c.slots[j].display # 0 /\ f.generation <= s.generation
          /\ f.generation = s.generation => s.active /\ s.display = c.slots[j].display
          /\ j \notin c.faulted => Live(c, f)
      BY <1>1, <3>1 DEF Fitted, Kept
    <3>3. CASE f.slot = k
      <4>1. b.streams[f.slot].generation = g /\ f.generation < g /\ j \in c.faulted
        BY <1>1, <1>3, <3>1, <3>3 DEF g, Unused
      <4> QED BY <1>2, <1>5, <3>1, <3>2, <4>1
    <3>4. CASE f.slot # k
      <4>1. b.streams[f.slot] = s
        BY <1>3, <3>1, <3>4
      <4> QED BY <1>5, <3>1, <3>2, <4>1 DEF Live
    <3> QED BY <3>3, <3>4
  <2> QED BY <2>1, <2>2
<1>15. Apart(b)
  <2>1. \A j \in SlotsOf(c) : c.slots[j].display # d /\ c.slots[j].stream # h
    <3> TAKE j \in SlotsOf(c)
    <3>1. c.slots[j].display # d
      BY DEF Shown
    <3>2. c.slots[j].stream.slot = k => c.slots[j].stream.generation < g
      BY <1>1 DEF Unused, g
    <3> QED BY <1>2, <1>9, <3>1, <3>2
  <2>2. \A j \in SlotsOf(b) : j = i \/ j \in SlotsOf(c)
    BY <1>6
  <2>3. \A j, n \in SlotsOf(c) :
          j # n => c.slots[j].display # c.slots[n].display /\ c.slots[j].stream # c.slots[n].stream
    BY <1>1 DEF Fitted, Apart
  <2> QED BY <1>4, <1>7, <2>1, <2>2, <2>3 DEF Apart
<1>16. Owned(b)
  <2> SUFFICES ASSUME NEW j \in 1..Streams, b.streams[j].active
               PROVE  \E n \in SlotsOf(b) : b.slots[n].stream = [slot |-> j, generation |-> b.streams[j].generation]
    BY DEF Owned
  <2>1. CASE j = k
    BY <1>3, <1>4, <1>6, <2>1 DEF h
  <2>2. CASE j # k
    <3>1. b.streams[j] = c.streams[j]
      BY <1>3, <2>2
    <3>2. PICK n \in SlotsOf(c) : c.slots[n].stream = [slot |-> j, generation |-> c.streams[j].generation]
      BY <1>1, <3>1 DEF Fitted, Owned
    <3> QED BY <1>6, <1>7, <3>1, <3>2
  <2> QED BY <2>1, <2>2
<1>17. Resting(b)
  BY <1>1, <1>3, <1>4 DEF Resting
<1>18. \A f \in c.frames : /\ f.slot \in SlotsOf(c) /\ c.slots[f.slot].stream.slot # k
                           /\ c.slots[f.slot].stream.slot \in 1..Streams
                           /\ b.slots[f.slot] = c.slots[f.slot]
  <2> TAKE f \in c.frames
  <2>1. f.slot \in 1..Streams
    BY <1>1, Typed
  <2>2. f.slot \in SlotsOf(c)
    BY <1>1, <2>1 DEF Lending, Holding, SlotsOf
  <2>3. c.slots[f.slot].stream.slot # k
    BY <1>1 DEF Unused
  <2> QED BY <1>7, <1>8, <2>1, <2>2, <2>3
<1>19. Lending(b)
  <2>1. \A f \in c.frames : b.streams[c.slots[f.slot].stream.slot] = c.streams[c.slots[f.slot].stream.slot]
    BY SMTT(30), <1>3, <1>18
  <2>2. Holding(b)
    <3> SUFFICES ASSUME NEW f \in c.frames
                 PROVE  /\ b.slots[f.slot].active /\ b.slots[f.slot].leased /\ b.slots[f.slot].display = f.display
                        /\ Live(b, b.slots[f.slot].stream)
                        /\ b.streams[b.slots[f.slot].stream.slot].leased
                        /\ b.ring[f.texture].leased
      BY <1>5 DEF Holding
    <3>1. b.slots[f.slot] = c.slots[f.slot] /\ b.ring = c.ring
      BY <1>5, <1>18
    <3> QED BY ZenonT(60), <1>1, <2>1, <3>1 DEF Lending, Holding, Live
  <2>3. Alone(b)
    BY <1>1, <1>5 DEF Lending, Alone
  <2>4. \A j \in 1..Streams : b.streams[j].leased => c.streams[j].leased
    BY <1>3
  <2>5. \A j \in 1..Streams : b.slots[j].leased => c.slots[j].leased
    BY <1>4
  <2>6. Held(b)
    BY <1>1, <1>5, <1>18, <2>4, <2>5 DEF Lending, Held
  <2> QED BY <2>2, <2>3, <2>6 DEF Lending
<1>20. Path(b)
  BY <1>1, <1>11, <1>12, <1>13, <1>14, <1>15, <1>16, <1>17, <1>19 DEF Path, Fitted
<1>21. ASSUME Runs(c)
       PROVE  Runs(b)
  <2>1. b.running = c.running
    BY <1>5 DEF SameSet
  <2> SUFFICES ASSUME NEW j \in ((1..Streams) \cap SlotsOf(b)) \ b.faulted
               PROVE  b.slots[j].running = c.running /\ b.streams[b.slots[j].stream.slot].started = c.running
    BY <2>1 DEF Runs, RunAs
  <2>2. CASE j = i
    BY <1>3, <1>4, <1>9, <2>2
  <2>3. CASE j # i
    <3>1. j \in SlotsOf(c) /\ j \notin c.faulted /\ b.slots[j] = c.slots[j]
      BY <1>5, <1>6, <1>7, <2>3
    <3>2. c.slots[j].running = c.running /\ c.streams[c.slots[j].stream.slot].started = c.running
      BY <1>21, <3>1 DEF Runs, RunAs
    <3>3. c.slots[j].stream.slot # k /\ c.slots[j].stream.slot \in 1..Streams
      BY <1>1, <1>8, <3>1 DEF Unused
    <3> QED BY <1>3, <3>1, <3>2, <3>3
  <2> QED BY <2>2, <2>3
<1> QED BY <1>6, <1>10, <1>20, <1>21

(* A stream is open at k, and no slot has it yet.                             *)
Open(b, c, k, s) ==
  /\ b \in Paths /\ SameSet(b, c) /\ b.slots = c.slots /\ b.ring = c.ring /\ b.frames = c.frames
  /\ b.faulted = c.faulted /\ b.streams = [c.streams EXCEPT ![k] = s]
  /\ b.signals = [c.signals EXCEPT ![k] = [generation |-> c.streams[k].generation, closed |-> FALSE]]
  /\ s \in StreamTypes /\ s.active /\ s.generation = c.streams[k].generation /\ ~s.leased
ContentOK == content \in [Displays -> 1..2] /\ attached \subseteq Displays

LEMMA Opens ==
    ASSUME NEW c \in Paths, ContentOK, NEW k \in 1..Streams, NEW d \in Displays,
           ~c.streams[k].leased, ~c.streams[k].started
    PROVE  \E s : Open(Opened(c, k, d), c, k, s) /\ s.display = d /\ s.started = FALSE
<1> DEFINE s == [c.streams[k] EXCEPT !.active = TRUE, !.display = d, !.size = content[d]]
           b == Opened(c, k, d)
<1>1. c.streams[k] \in StreamTypes /\ content[d] \in 0..2
  BY Typed DEF ContentOK
<1>2. s \in StreamTypes
  <2>1. [c.streams[k] EXCEPT !.active = TRUE] \in StreamTypes
    BY <1>1 DEF StreamTypes
  <2>2. ASSUME NEW t \in StreamTypes PROVE [t EXCEPT !.display = d] \in StreamTypes
    BY DEF StreamTypes
  <2>3. ASSUME NEW t \in StreamTypes PROVE [t EXCEPT !.size = content[d]] \in StreamTypes
    BY <1>1 DEF StreamTypes
  <2>4. s = [[[c.streams[k] EXCEPT !.active = TRUE] EXCEPT !.display = d] EXCEPT !.size = content[d]]
    BY <1>1 DEF StreamTypes
  <2> QED BY <2>1, <2>2, <2>3, <2>4
<1>3. /\ s.active /\ s.generation = c.streams[k].generation /\ s.leased = c.streams[k].leased
      /\ s.display = d /\ s.started = c.streams[k].started
  BY <1>1 DEF StreamTypes
<1>4. c.streams[k].started \in BOOLEAN /\ c.streams[k].generation \in Nat
  BY <1>1 DEF StreamTypes
<1> DEFINE x == [generation |-> c.streams[k].generation, closed |-> FALSE]
<1>5. /\ b.streams = [c.streams EXCEPT ![k] = s] /\ b.signals = [c.signals EXCEPT ![k] = x]
      /\ b.slots = c.slots /\ b.ring = c.ring /\ b.frames = c.frames /\ b.faulted = c.faulted
      /\ b.running = c.running /\ b.epoch = c.epoch /\ b.pending = c.pending
  BY DEF Paths, Opened
<1>6. b = [streams |-> b.streams, signals |-> b.signals, slots |-> b.slots, running |-> b.running,
           epoch |-> b.epoch, pending |-> b.pending, ring |-> b.ring, frames |-> b.frames, faulted |-> b.faulted]
  <2>1. b = [c EXCEPT !.streams[k] = s, !.signals[k] = x]
    BY DEF Opened
  <2> HIDE DEF s, x, b
  <2>2. ASSUME NEW X, NEW Y, b = [c EXCEPT !.streams[k] = X, !.signals[k] = Y]
        PROVE  b = [streams |-> b.streams, signals |-> b.signals, slots |-> b.slots, running |-> b.running,
           epoch |-> b.epoch, pending |-> b.pending, ring |-> b.ring, frames |-> b.frames, faulted |-> b.faulted]
    BY <2>2 DEF Paths
  <2> QED BY Zenon, <2>1, <2>2
<1>7. x \in [generation : Nat, closed : BOOLEAN]
  BY <1>4
<1> HIDE DEF s, b, x
<1>8. b.streams \in [1..Streams -> StreamTypes]
  BY <1>2, <1>5 DEF Paths
<1>9. b.signals \in [1..Streams -> [generation : Nat, closed : BOOLEAN]]
  BY <1>5, <1>7 DEF Paths
<1>10. b \in Paths
  <2>1. /\ c.slots \in [1..Streams -> SlotTypes] /\ c.running \in BOOLEAN /\ c.epoch \in Nat /\ c.pending \in BOOLEAN
        /\ c.ring \in [1..Transfers -> [leased : BOOLEAN, size : 0..2]]
        /\ c.frames \in SUBSET FrameTypes /\ c.faulted \in SUBSET (1..Streams)
    BY DEF Paths
  <2> QED BY <1>5, <1>6, <1>8, <1>9, <2>1 DEF Paths
<1>11. Open(b, c, k, s)
  BY <1>2, <1>3, <1>5, <1>10 DEF Open, SameSet, x
<1>12. s.display = d /\ s.started = FALSE
  BY <1>3, <1>4
<1> QED BY <1>11, <1>12 DEF b

LEMMA OpenEnds ==
    ASSUME NEW c \in Paths, NEW k \in 1..Streams, NEW s, NEW b, Open(b, c, k, s)
    PROVE  Spent(CloseStream(b, k), c, k)
<1> DEFINE a == CloseStream(b, k)
<1>1. b \in Paths
  BY DEF Open
<1>2. /\ a \in Paths /\ a.streams = [b.streams EXCEPT ![k] = Stream(b.streams[k].generation + 1)]
      /\ a.signals[k].generation = 0 /\ (\A j \in 1..Streams : j # k => a.signals[j] = b.signals[j])
      /\ a.slots = b.slots /\ a.ring = b.ring /\ a.frames = b.frames /\ a.faulted = b.faulted /\ SameSet(a, b)
  BY <1>1, Closes
<1>3. DOMAIN c.streams = 1..Streams /\ DOMAIN c.signals = 1..Streams
  BY DEF Paths
<1>4. b.streams = [c.streams EXCEPT ![k] = s] /\ s.generation = c.streams[k].generation
  BY DEF Open
<1>5. b.streams[k].generation = c.streams[k].generation
  BY <1>3, <1>4
<1> HIDE DEF a
<1>6. a.streams = [c.streams EXCEPT ![k] = Stream(c.streams[k].generation + 1)]
  BY <1>2, <1>4, <1>5
<1>7. \A j \in 1..Streams : j # k => a.signals[j] = c.signals[j]
  BY <1>2, <1>3 DEF Open
<1> QED BY <1>2, <1>6, <1>7 DEF Spent, Open, SameSet, a

Names(h, c, k) == h \in Handles /\ h.slot = k /\ h.generation = c.streams[k].generation
Started(o, b, c, k, s) ==
  /\ IsCall(o) /\ (o.result # "OK" => o.c = b)
  /\ o.result = "OK" => Open(o.c, c, k, Begun(s)) /\ Begun(s).started = TRUE /\ Begun(s).display = s.display

LEMMA OpenStarts ==
    ASSUME NEW c \in Paths, NEW k \in 1..Streams, NEW s, NEW b, Open(b, c, k, s), s.started = FALSE,
           NEW h, Names(h, c, k), NEW o \in StartStream(b, h)
    PROVE  Started(o, b, c, k, s)
<1> USE DEF Names, Started
<1>1. b \in Paths /\ s \in StreamTypes /\ DOMAIN c.streams = 1..Streams
  BY DEF Open, Paths
<1>2. b.streams[k] = s
  BY <1>1 DEF Open
<1>3. Live(b, h)
  BY <1>2 DEF Live, Open
<1>4. /\ IsCall(o)
      /\ \/ o.result = "BACKEND" /\ o.c = b
         \/ o.result = "OK" /\ Moved(o.c, b, k, Begun(s))
  BY <1>1, <1>2, <1>3, Starts
<1>5. /\ Begun(s) \in StreamTypes /\ Begun(s).started = TRUE /\ Still(Begun(s), s) /\ Begun(s).leased = s.leased
  BY <1>1, StreamForms
<1>6. ASSUME Moved(o.c, b, k, Begun(s))
      PROVE  Open(o.c, c, k, Begun(s)) /\ Begun(s).display = s.display
  <2>1. o.c.streams = [c.streams EXCEPT ![k] = Begun(s)]
    <3>1. o.c.streams = [b.streams EXCEPT ![k] = Begun(s)] /\ b.streams = [c.streams EXCEPT ![k] = s]
      BY <1>6 DEF Moved, Open
    <3> QED BY <1>1, <3>1
  <2>2. /\ o.c \in Paths /\ SameSet(o.c, c) /\ o.c.slots = c.slots /\ o.c.ring = c.ring /\ o.c.frames = c.frames
        /\ o.c.faulted = c.faulted /\ o.c.signals = b.signals
    BY <1>6 DEF Moved, Elsewhere, Open, SameSet
  <2>3. Begun(s).active /\ Begun(s).generation = c.streams[k].generation /\ ~Begun(s).leased /\ Begun(s).display = s.display
    BY <1>5 DEF Open, Still
  <2> QED BY <1>5, <2>1, <2>2, <2>3 DEF Open
<1> QED BY <1>4, <1>5, <1>6

LEMMA FunctionPut ==
    ASSUME NEW f, NEW S, DOMAIN f = S, NEW k \in S, NEW x, NEW e, e = [f EXCEPT ![k] = x]
    PROVE  e[k] = x /\ \A j \in S : j # k => e[j] = f[j]
OBVIOUS

Taken(d, h, running) == [active |-> TRUE, display |-> d, stream |-> h, running |-> running, leased |-> FALSE]

LEMMA Takes ==
    ASSUME NEW a \in Paths, NEW d \in Displays, NEW h \in Handles, NEW i \in 1..Streams,
           NEW b, b = [a EXCEPT !.slots[i] = Taken(d, h, a.running)]
    PROVE  MovedSlot(b, a, i, Taken(d, h, a.running)) /\ b.faulted = a.faulted
<1> DEFINE t == Taken(d, h, a.running)
<1>1. t \in SlotTypes
  BY Typed DEF Taken, SlotTypes
<1> HIDE DEF t
<1>2. b.slots = [a.slots EXCEPT ![i] = t] /\ b.faulted = a.faulted
  BY DEF Paths, t
<1>3. b = [a EXCEPT !.slots = b.slots, !.faulted = b.faulted]
  BY <1>2 DEF Paths
<1>4. b.faulted \subseteq 1..Streams
  BY <1>2, Typed
<1>5. MovedSlot(b, a, i, t)
  BY Zenon, <1>1, <1>2, <1>3, <1>4, SlotPut
<1> QED BY <1>2, <1>5 DEF t

LEMMA OpenGains ==
    ASSUME NEW c \in Paths, NEW k \in 1..Streams, NEW s, NEW a, Open(a, c, k, s), NEW d \in Displays, s.display = d,
           s.started = c.running, NEW i \in 1..Streams, NEW b, b.faulted = a.faulted,
           MovedSlot(b, a, i, Taken(d, [slot |-> k, generation |-> c.streams[k].generation], c.running))
    PROVE  Gained(b, c, i, k, d)
<1> DEFINE t == Taken(d, [slot |-> k, generation |-> c.streams[k].generation], c.running)
           x == [generation |-> c.streams[k].generation, closed |-> FALSE]
<1> HIDE DEF t, x
<1>1. DOMAIN c.streams = 1..Streams /\ DOMAIN c.signals = 1..Streams /\ DOMAIN c.slots = 1..Streams
  BY DEF Paths
<1>2. /\ b.slots = [c.slots EXCEPT ![i] = t] /\ b.streams = [c.streams EXCEPT ![k] = s]
      /\ b.signals = [c.signals EXCEPT ![k] = x]
  BY DEF MovedSlot, ElsewhereSlots, Open, t, x
<1>3. b \in Paths /\ b.ring = c.ring /\ b.frames = c.frames /\ b.faulted = c.faulted /\ SameSet(b, c)
  BY DEF MovedSlot, ElsewhereSlots, Open, SameSet
<1>4. s.active /\ s.generation = c.streams[k].generation /\ ~s.leased
  BY DEF Open
<1>5. b.streams[k] = s /\ \A j \in 1..Streams : j # k => b.streams[j] = c.streams[j]
  BY <1>1, <1>2, FunctionPut
<1>6. b.signals[k] = x /\ \A j \in 1..Streams : j # k => b.signals[j] = c.signals[j]
  BY <1>1, <1>2, FunctionPut
<1>7. b.slots[i] = t /\ \A j \in 1..Streams : j # i => b.slots[j] = c.slots[j]
  BY <1>1, <1>2, FunctionPut
<1>8. t = [active |-> TRUE, display |-> d, stream |-> [slot |-> k, generation |-> c.streams[k].generation],
           running |-> c.running, leased |-> FALSE]
  BY DEF t, Taken
<1> QED BY <1>3, <1>4, <1>5, <1>6, <1>7, <1>8 DEF Gained, x

Added(o, c, d) ==
  /\ IsCall(o) /\ Path(o.c) /\ SameSet(o.c, c) /\ (Runs(c) => Runs(o.c))
  /\ o.result = "OK" => Shown(o.c) = Shown(c) \cup {d}

LEMMA AddedNot ==
    ASSUME CallbacksOK, NEW c, Path(c), NEW o, IsCall(o), o.result # "OK",
           o.c = c \/ \E k \in 1..Streams : ~c.streams[k].active /\ Spent(o.c, c, k)
    PROVE  \A d : Added(o, c, d)
<1>1. CASE o.c = c
  BY <1>1 DEF Added, SameSet
<1>2. ASSUME NEW k \in 1..Streams, ~c.streams[k].active, Spent(o.c, c, k)
      PROVE  \A d : Added(o, c, d)
  <2>1. Path(o.c) /\ \A S, v : RunAs(c, S, v) => RunAs(o.c, S, v)
    BY <1>2, SpentPath
  <2>2. SameSet(o.c, c)
    BY <1>2 DEF Spent
  <2> QED BY <2>1, <2>2 DEF Added, Runs, SameSet
<1> QED BY <1>1, <1>2

LEMMA Adds ==
    ASSUME CallbacksOK, ContentOK, NEW c, Path(c), NEW d \in Displays, NEW o \in Add(c, d)
    PROVE  Added(o, c, d)
<1> DEFINE i == First(1..Streams \ SlotsOf(c))
           k == First({j \in 1..Streams : ~c.streams[j].active})
           Running(h, b) ==
             UNION {IF q.result = "OK" THEN {[q EXCEPT !.c.slots[i] = Taken(d, h, b.running)]}
                    ELSE Regardless({q}, LAMBDA a : DestroyStream(a, h))
                      : q \in IF b.running THEN StartStream(b, h) ELSE {Call("OK", b, 0)}}
           Handle(b) == [slot |-> k, generation |-> b.streams[k].generation]
<1>0. c \in Paths
  BY DEF Path
<1>1. CASE SlotOf(c, d) # {}
  <2>1. o = Call("OK", c, 0)
    BY Zenon, <1>1 DEF Add
  <2>2. d \in Shown(c)
    BY <1>1 DEF SlotOf, Shown
  <2>3. Shown(c) = Shown(c) \cup {d}
    BY <2>2
  <2> QED BY <2>1, <2>3, CallIs DEF Added, SameSet
<1>2. CASE SlotOf(c, d) = {} /\ SlotsOf(c) = 1..Streams
  <2>1. o = Call("CAPACITY", c, 0)
    BY Zenon, <1>2 DEF Add
  <2> QED BY <2>1, CallIs, AddedNot
<1>3. CASE SlotOf(c, d) = {} /\ SlotsOf(c) # 1..Streams
  <2>1. d \notin Shown(c)
    BY <1>3 DEF SlotOf, Shown
  <2>2. i \in (1..Streams) \ SlotsOf(c)
    <3>1. (1..Streams) \ SlotsOf(c) # {}
      BY <1>3 DEF SlotsOf
    <3> QED BY <3>1, FirstIs, CaptureAssumption
  <2>3. o \in UNION {IF q.result # "OK" THEN {q} ELSE Then({q}, LAMBDA b : Running(Handle(b), b)) : q \in CreateStream(c, d)}
    BY Zenon, <1>3 DEF Add, Taken
  <2> HIDE DEF Running, Handle, i
  <2>4. PICK q \in CreateStream(c, d) : o \in IF q.result # "OK" THEN {q} ELSE Then({q}, LAMBDA b : Running(Handle(b), b))
    BY <2>3
  <2>5. \/ q = Call("NOT_FOUND", c, 0) \/ q = Call("CAPACITY", c, 0)
        \/ /\ {j \in 1..Streams : ~c.streams[j].active} # {}
           /\ q \in {Call("OK", Opened(c, k, d), 0), Fails(c), Fails(CloseStream(Opened(c, k, d), k))}
    BY <2>4 DEF CreateStream
  <2>6. CASE q = Call("NOT_FOUND", c, 0) \/ q = Call("CAPACITY", c, 0) \/ q = Fails(c)
    <3>1. IsCall(q) /\ q.result # "OK" /\ q.c = c
      BY <2>6, CallIs, FailsIs
    <3> QED BY <2>4, <3>1, AddedNot
  <2>7. CASE {j \in 1..Streams : ~c.streams[j].active} # {}
             /\ q \in {Call("OK", Opened(c, k, d), 0), Fails(CloseStream(Opened(c, k, d), k))}
    <3>1. k \in 1..Streams /\ ~c.streams[k].active
      <4>1. k \in {j \in 1..Streams : ~c.streams[j].active}
        BY <2>7, FirstIs, CaptureAssumption
      <4> QED BY <4>1
    <3> DEFINE b == Opened(c, k, d)
    <3>2. ~c.streams[k].leased /\ ~c.streams[k].started
      BY <3>1 DEF Path, Resting
    <3> HIDE DEF k
    <3>3. PICK s : Open(b, c, k, s) /\ s.display = d /\ s.started = FALSE
      BY <1>0, <3>1, <3>2, Opens
    <3> HIDE DEF b
    <3>4. Spent(CloseStream(b, k), c, k)
      BY <1>0, <3>1, <3>3, OpenEnds
    <3>5. CASE q = Fails(CloseStream(b, k))
      <4>1. IsCall(q) /\ q.result # "OK" /\ q.c = CloseStream(b, k)
        BY <3>5, FailsIs
      <4> QED BY <2>4, <3>1, <3>4, <4>1, AddedNot
    <3>6. CASE q = Call("OK", b, 0)
      <4> DEFINE h == Handle(b)
      <4>1. IsCall(q) /\ q.result = "OK" /\ q.c = b
        BY <3>6, CallIs
      <4>2. o \in Then({q}, LAMBDA a : Running(Handle(a), a))
        BY <2>4, <4>1
      <4>3. PICK x \in Running(h, b) : o = [x EXCEPT !.cost = @ + q.cost]
        BY <4>1, <4>2 DEF Then, Affordable
      <4>4. h = [slot |-> k, generation |-> c.streams[k].generation] /\ h \in Handles
            /\ h.slot = k /\ h.generation = c.streams[k].generation
        <5>1. DOMAIN c.streams = 1..Streams /\ c.streams[k].generation \in Nat
          BY <1>0, <3>1, Typed DEF Paths
        <5>2. b.streams[k].generation = c.streams[k].generation
          BY <3>1, <3>3, <5>1 DEF Open
        <5> QED BY <3>1, <5>1, <5>2 DEF Handle, Handles
      <4> HIDE DEF h
      <4>5. b.running = c.running /\ c.running \in BOOLEAN
        BY <1>0, <3>3, Typed DEF Open, SameSet
      <4> DEFINE Again(r) == [r EXCEPT !.c.slots[i] = Taken(d, h, b.running)]
                 After(r) == Regardless({r}, LAMBDA a : DestroyStream(a, h))
      <4>6. x \in UNION {IF r.result = "OK" THEN {Again(r)} ELSE After(r)
                           : r \in IF b.running THEN StartStream(b, h) ELSE {Call("OK", b, 0)}}
        BY <4>3 DEF Running
      <4> HIDE DEF Again, After
      <4>7. PICK r \in IF b.running THEN StartStream(b, h) ELSE {Call("OK", b, 0)} :
               IF r.result = "OK" THEN x = Again(r) ELSE x \in After(r)
        BY <4>6
      <4>8. /\ IsCall(r) /\ (r.result # "OK" => r.c = b)
            /\ r.result = "OK" => \E t : Open(r.c, c, k, t) /\ t.started = c.running /\ t.display = d
        <5>1. CASE b.running
          <6>1. r \in StartStream(b, h)
            BY <4>7, <5>1
          <6>2. /\ IsCall(r) /\ (r.result # "OK" => r.c = b)
                /\ r.result = "OK" => Open(r.c, c, k, Begun(s)) /\ Begun(s).started = TRUE /\ Begun(s).display = s.display
            <7>1. Names(h, c, k)
              BY <4>4 DEF Names
            <7>2. Open(b, c, k, s) /\ s.started = FALSE
              BY <3>3
            <7>3. Started(r, b, c, k, s)
              BY <1>0, <3>1, <6>1, <7>1, <7>2, OpenStarts
            <7> QED BY <7>3 DEF Started
          <6> QED BY <3>3, <4>5, <5>1, <6>2
        <5>2. CASE ~b.running
          <6>1. r = Call("OK", b, 0)
            BY <4>7, <5>2
          <6>2. IsCall(r) /\ r.result = "OK" /\ r.c = b
            BY <6>1, CallIs
          <6>3. Open(r.c, c, k, s) /\ s.started = c.running /\ s.display = d
            BY <3>3, <4>5, <5>2, <6>2
          <6> QED BY <6>2, <6>3
        <5> QED BY <5>1, <5>2
      <4>9. CASE r.result = "OK"
        <5>1. PICK t : Open(r.c, c, k, t) /\ t.started = c.running /\ t.display = d
          BY <4>8, <4>9
        <5>2. r.c.running = c.running
          BY <5>1 DEF Open, SameSet
        <5>3. x = [r EXCEPT !.c.slots[i] = Taken(d, h, c.running)]
          BY <4>5, <4>7, <4>9 DEF Again
        <5>4. IsCall(x) /\ x.result = "OK" /\ x.c = [r.c EXCEPT !.slots[i] = Taken(d, h, r.c.running)]
          BY <4>8, <4>9, <5>2, <5>3 DEF IsCall
        <5>5. Gained(x.c, c, i, k, d)
          <6>1. r.c \in Paths
            BY <5>1 DEF Open
          <6>2. MovedSlot(x.c, r.c, i, Taken(d, h, r.c.running)) /\ x.c.faulted = r.c.faulted
            BY <2>2, <4>4, <5>4, <6>1, Takes
          <6>3. MovedSlot(x.c, r.c, i, Taken(d, [slot |-> k, generation |-> c.streams[k].generation], c.running))
            BY <4>4, <5>2, <6>2
          <6> QED BY <1>0, <2>2, <3>1, <5>1, <6>2, <6>3, OpenGains
        <5>6. Path(x.c) /\ (Runs(c) => Runs(x.c)) /\ Shown(x.c) = Shown(c) \cup {d}
          BY <2>1, <2>2, <3>1, <5>5, GainedPath
        <5>7. IsCall(o) /\ o.c = x.c
          BY <4>3, <5>4, Costs
        <5>8. SameSet(o.c, c)
          BY <5>5, <5>7 DEF Gained
        <5> QED BY <5>6, <5>7, <5>8 DEF Added
      <4>10. CASE r.result # "OK"
        <5>1. x \in After(r) /\ r.c = b
          BY <4>7, <4>8, <4>10
        <5>2. PICK y \in DestroyStream(b, h) : x = [r EXCEPT !.c = y.c, !.cost = @ + y.cost]
          <6> DEFINE Also(u, y) == [u EXCEPT !.c = y.c, !.cost = @ + y.cost]
          <6>1. x \in UNION {{Also(u, y) : y \in DestroyStream(u.c, h)} : u \in {r}}
            BY Zenon, <5>1 DEF After, Regardless, Affordable
          <6> HIDE DEF Also
          <6>2. \E y \in DestroyStream(b, h) : x = Also(r, y)
            BY <5>1, <6>1
          <6> QED BY Zenon, <6>2 DEF Also
        <5>3. IsCall(x) /\ x.result = r.result /\ x.c = y.c
          BY <4>8, <5>2 DEF IsCall
        <5>4. y.c = CloseStream(b, k)
          <6>1. /\ b.streams[k] = s /\ s.active /\ s.generation = c.streams[k].generation /\ ~s.leased
            <7>1. DOMAIN c.streams = 1..Streams
              BY <1>0 DEF Paths
            <7> QED BY <3>1, <3>3, <7>1 DEF Open
          <6>2. Live(b, h) /\ ~b.streams[h.slot].leased /\ ~b.streams[h.slot].started
            BY <3>3, <4>4, <6>1 DEF Live
          <6> QED BY <4>4, <5>2, <6>2, Destroys
        <5>5. IsCall(o) /\ o.result = x.result /\ o.c = x.c
          BY <4>3, <5>3, Costs
        <5> QED BY <3>1, <3>4, <4>10, <5>3, <5>4, <5>5, AddedNot
      <4> QED BY <4>9, <4>10
    <3> QED BY <2>7, <3>5, <3>6 DEF b
  <2> QED BY <2>5, <2>6, <2>7
<1> QED BY <1>1, <1>2, <1>3

(* A call after which the displays shown are these, when it has succeeded.     *)
Reaches(q, c, S) ==
  /\ IsCall(q) /\ Path(q.c) /\ SameSet(q.c, c) /\ (Runs(c) => Runs(q.c))
  /\ q.result = "OK" => Shown(q.c) = S

LEMMA FollowsAll ==
    ASSUME CallbacksOK, ContentOK, NEW c, Path(c), NEW items \in SUBSET Displays,
           NEW outside, outside = {i \in SlotsOf(c) : c.slots[i].display \notin items},
           \A i \in outside : ~c.slots[i].leased, NEW o \in AddAll(RemoveAll(c, outside), items)
    PROVE  Reaches(o, c, items)
<1> DEFINE A == RemoveAll(c, outside)
           P(m, q) == Reaches(q, c, (Shown(c) \cap items) \cup UpTo(items, m))
<1>1. items \in SUBSET (Nat \ {0}) /\ IsFiniteSet(items)
  <2>1. IsFiniteSet(Displays) /\ Displays \subseteq Nat \ {0}
    BY CaptureAssumption
  <2>2. IsFiniteSet(items)
    BY <2>1, FS_Subset
  <2> QED BY <2>1, <2>2
<1>2. PICK F : AddAll(A, items) = F[Last(items)] /\ Turned(F, "add", FALSE, A, items)
  <2> HIDE DEF A
  <2> QED BY <1>1, AddTurns
<1>3. Last(items) \in Nat /\ items \subseteq 1..Last(items)
  BY <1>1, LastIs
<1>4. \A q \in A : P(0, q)
  <2> SUFFICES ASSUME NEW q \in RemoveAll(c, outside)
               PROVE  P(0, q)
    OBVIOUS
  <2>1. UpTo(items, 0) = {}
    BY <1>1, UpToIs
  <2>2. RemovedAll(q, c, outside)
    <3>1. outside \in SUBSET SlotsOf(c)
      OBVIOUS
    <3> QED BY <3>1, RemovesAll
  <2>3. IsCall(q) /\ Path(q.c) /\ SameSet(q.c, c)
    BY <2>2 DEF RemovedAll
  <2>4. Runs(c) => Runs(q.c)
    BY <2>2, <2>3 DEF RemovedAll, Runs, SameSet
  <2>5. q.result = "OK" => Shown(q.c) = Shown(c) \cap items
    <3> HAVE q.result = "OK"
    <3>1. SlotsOf(q.c) = SlotsOf(c) \ outside
      BY <2>2 DEF RemovedAll
    <3>2. \A j \in SlotsOf(q.c) : q.c.slots[j].display = c.slots[j].display
      BY <2>2 DEF RemovedAll
    <3> QED BY <3>1, <3>2 DEF Shown
  <2> QED BY <2>1, <2>3, <2>4, <2>5 DEF Reaches
<1>5. \A m \in 1..Last(items) : m \notin items => \A q : P(m - 1, q) => P(m, q)
  <2>1. \A m \in 1..Last(items) : m \notin items => UpTo(items, m) = UpTo(items, m - 1)
    BY <1>1, UpToIs
  <2> QED BY <2>1
<1>6. ASSUME NEW m \in items, NEW p, P(m - 1, p), p.result = "OK", NEW x \in Add(p.c, m),
             NEW q, q = [x EXCEPT !.cost = @ + p.cost]
      PROVE  P(m, q)
  <2>1. UpTo(items, m) = UpTo(items, m - 1) \cup {m} /\ m \notin UpTo(items, m - 1)
    BY <1>1, <1>3, UpToIs
  <2>2. Path(p.c) /\ m \in Displays
    BY <1>6 DEF Reaches
  <2>3. Added(x, p.c, m)
    BY <2>2, Adds
  <2>4. IsCall(q) /\ q.result = x.result /\ q.c = x.c
    BY <1>6, <2>3, Costs DEF Added
  <2>5. Path(q.c) /\ SameSet(q.c, c) /\ (Runs(c) => Runs(q.c))
    BY <1>6, <2>3, <2>4 DEF Added, Reaches, SameSet
  <2>6. q.result = "OK" => Shown(q.c) = ((Shown(c) \cap items) \cup UpTo(items, m - 1)) \cup {m}
    BY <1>6, <2>3, <2>4 DEF Added, Reaches
  <2> QED BY <2>1, <2>4, <2>5, <2>6 DEF Reaches
<1>7. \A m \in items : \A q : P(m - 1, q) /\ q.result # "OK" => P(m, q)
  BY DEF Reaches
<1>8. \A q \in F[Last(items)] : P(Last(items), q)
  <2> DEFINE G == [m \in 0..Last(items) |-> {q \in F[m] : P(m, q)}]
  <2> HIDE DEF P, A
  <2>1. \A m \in items : \A p, q : P(m - 1, p) /\ p.result = "OK" =>
          \A x \in Does("add", FALSE, p.c, m) : q = [x EXCEPT !.cost = @ + p.cost] => P(m, q)
    BY <1>6 DEF Does
  <2>2. \A m \in 0..Last(items) : \A q : q \in G[m] <=> q \in F[m] /\ P(m, q)
    OBVIOUS
  <2> HIDE DEF G
  <2>3. A \subseteq G[0]
    <3>1. 0 \in 0..Last(items)
      BY <1>3
    <3>2. F[0] = A
      BY <1>2 DEF Turned
    <3> QED BY <1>4, <2>2, <3>1, <3>2
  <2>4. \A m \in 1..Last(items) : m - 1 \in 0..Last(items) /\ m \in 0..Last(items)
    BY <1>3
  <2>5. \A m \in 1..Last(items) : m \notin items => \A q \in F[m] : q \in G[m - 1] => q \in G[m]
    BY <1>5, <2>2, <2>4
  <2>6. \A m \in items : \A p \in G[m - 1] : \A q \in F[m] :
           IF p.result = "OK" THEN \A x \in Does("add", FALSE, p.c, m) : q = [x EXCEPT !.cost = @ + p.cost] => q \in G[m]
           ELSE q = p => q \in G[m]
    BY <1>3, <1>7, <2>1, <2>2, <2>4
  <2>7. Keeps(F, G, "add", FALSE, items)
    BY <2>5, <2>6 DEF Keeps
  <2>8. F[Last(items)] \subseteq G[Last(items)]
    BY <1>1, <1>2, <2>3, <2>7, TurnsKeep
  <2> QED BY <1>3, <2>2, <2>8
<1>9. P(Last(items), o)
  BY <1>2, <1>8
<1>10. UpTo(items, Last(items)) = items
  BY <1>1, UpToIs
<1>11. (Shown(c) \cap items) \cup items = items
  OBVIOUS
<1> QED BY <1>9, <1>10, <1>11

(* The set after a change of the layout.                                      *)
Synced(o, c, shown) ==
  /\ IsCall(o) /\ Path(o.c) /\ o.c.running = c.running /\ o.c.pending = c.pending /\ (Runs(c) => Runs(o.c))
  /\ \/ o.c.epoch = shown.epoch /\ Shown(o.c) = shown.displays /\ c.epoch # shown.epoch
     \/ o.c.epoch = c.epoch /\ o.result # "OK" /\ c.epoch # shown.epoch
     \/ c.epoch = shown.epoch /\ o.c = c

LEMMA Synchronizes ==
    ASSUME CallbacksOK, ContentOK, NEW c, Path(c), NEW shown, shown.displays \in SUBSET Displays,
           shown.epoch \in Nat, NEW o \in Synchronize(c, shown)
    PROVE  Synced(o, c, shown)
<1> DEFINE outside == {i \in SlotsOf(c) : c.slots[i].display \notin shown.displays}
           followed == AddAll(RemoveAll(c, outside), shown.displays)
           Also(b) == Call("OK", [b EXCEPT !.epoch = shown.epoch], 0)
<1>1. CASE c.epoch = shown.epoch
  <2>1. o = Call("OK", c, 0)
    BY Zenon, <1>1 DEF Synchronize
  <2> QED BY <1>1, <2>1, CallIs DEF Synced
<1>2. CASE c.epoch # shown.epoch /\ (o = Fails(c) \/ o = Call("BUSY", c, 0))
  <2>1. IsCall(o) /\ o.c = c /\ o.result # "OK"
    BY <1>2, CallIs, FailsIs
  <2> QED BY <1>2, <2>1 DEF Synced
<1>3. CASE c.epoch # shown.epoch /\ ~(o = Fails(c) \/ o = Call("BUSY", c, 0))
  <2>1. (\A i \in outside : ~c.slots[i].leased) /\ o \in Then(followed, LAMBDA b : {Also(b)})
    BY Zenon, <1>3 DEF Synchronize
  <2> HIDE DEF followed, Also
  <2>2. \E q \in followed : IF q.result = "OK" THEN \E x \in {Also(q.c)} : o = [x EXCEPT !.cost = @ + q.cost] ELSE o = q
    BY <2>1 DEF Then, Affordable
  <2>3. PICK q \in followed : IF q.result = "OK" THEN o = [Also(q.c) EXCEPT !.cost = @ + q.cost] ELSE o = q
    BY <2>2
  <2>4. Reaches(q, c, shown.displays)
    BY Zenon, <2>1, <2>3, FollowsAll DEF followed
  <2>5. CASE q.result # "OK"
    BY <1>3, <2>3, <2>4, <2>5 DEF Synced, Reaches, SameSet
  <2>6. CASE q.result = "OK"
    <3> DEFINE b == [q.c EXCEPT !.epoch = shown.epoch]
    <3>1. IsCall(o) /\ o.c = b
      BY <2>3, <2>6, CallIs, Costs DEF Also
    <3>2. q.c \in Paths /\ Path(q.c)
      BY <2>4 DEF Reaches, Path
    <3>3. b \in Paths /\ b.running = q.c.running /\ b.epoch = shown.epoch /\ b.pending = q.c.pending
      BY <3>2 DEF Paths
    <3>4. /\ b.streams = q.c.streams /\ b.signals = q.c.signals /\ b.slots = q.c.slots /\ b.ring = q.c.ring
          /\ b.frames = q.c.frames /\ b.faulted = q.c.faulted
      BY <3>2 DEF Paths
    <3> HIDE DEF b
    <3>5. Path(b) /\ (\A S, v : RunAs(q.c, S, v) => RunAs(b, S, v))
      BY <3>2, <3>3, <3>4, PartsPath
    <3>6. Shown(b) = shown.displays
      BY <2>4, <2>6, <3>4 DEF Reaches, Shown, SlotsOf
    <3>7. Runs(c) => Runs(b)
      BY <2>4, <3>3, <3>5 DEF Reaches, Runs
    <3>8. b.running = c.running /\ b.pending = c.pending
      BY <2>4, <3>3 DEF Reaches, SameSet
    <3> QED BY <1>3, <3>1, <3>3, <3>5, <3>6, <3>7, <3>8 DEF Synced
  <2> QED BY <2>5, <2>6
<1> QED BY <1>1, <1>2, <1>3

(* The set follows the layout: what it has of it is what it shows.            *)
Lined(c, shown) ==
  /\ c.epoch <= shown.epoch /\ (c.epoch = shown.epoch => Shown(c) = shown.displays)
  /\ ~c.pending => c.epoch = shown.epoch
Well(c, shown) == Path(c) /\ Runs(c) /\ Lined(c, shown)

LEMMA SettledLined ==
    ASSUME NEW b, NEW c, Settled(b, c), NEW shown, Lined(c, shown)
    PROVE  Lined(b, shown)
<1>1. SlotsOf(b) = SlotsOf(c) /\ SlotsOf(c) \subseteq 1..Streams
  BY SameSlots DEF Settled, SlotsOf
<1>2. \A i \in SlotsOf(c) : b.slots[i].display = c.slots[i].display
  BY <1>1 DEF Settled, SameStreams
<1>3. Shown(b) = Shown(c)
  BY <1>1, <1>2 DEF Shown
<1> QED BY <1>3 DEF Settled, Lined

Pended(c, pending) == [c EXCEPT !.pending = pending]

LEMMA Pends ==
    ASSUME CallbacksOK, NEW c, Path(c), NEW pending \in BOOLEAN, NEW b, b = Pended(c, pending)
    PROVE  /\ Path(b) /\ Shown(b) = Shown(c) /\ b.running = c.running /\ b.epoch = c.epoch /\ b.pending = pending
           /\ Runs(c) => Runs(b)
<1>1. c \in Paths
  BY DEF Path
<1>2. b \in Paths /\ b.running = c.running /\ b.epoch = c.epoch /\ b.pending = pending
  BY <1>1 DEF Paths, Pended
<1>3. /\ b.streams = c.streams /\ b.signals = c.signals /\ b.slots = c.slots /\ b.ring = c.ring
      /\ b.frames = c.frames /\ b.faulted = c.faulted
  BY <1>1 DEF Paths, Pended
<1>4. Path(b) /\ (\A S, v : RunAs(c, S, v) => RunAs(b, S, v))
  BY <1>2, <1>3, PartsPath
<1> QED BY <1>2, <1>3, <1>4 DEF Shown, SlotsOf, Runs

LEMMA SynchronizesTopology ==
    ASSUME CallbacksOK, ContentOK, NEW shown, shown.displays \in SUBSET Displays, shown.epoch \in Nat,
           NEW c, Well(c, shown), NEW o \in SynchronizeTopology(c, shown)
    PROVE  IsCall(o) /\ Well(o.c, shown) /\ o.c.running = c.running
<1> DEFINE Also(b) == Call("OK", [b EXCEPT !.pending = FALSE], 0)
<1>1. o \in Then(Synchronize(c, shown), LAMBDA b : {Also(b)})
  BY Zenon DEF SynchronizeTopology
<1> HIDE DEF Also
<1>2. \E q \in Synchronize(c, shown) :
         IF q.result = "OK" THEN \E x \in {Also(q.c)} : o = [x EXCEPT !.cost = @ + q.cost] ELSE o = q
  BY <1>1 DEF Then, Affordable
<1>3. PICK q \in Synchronize(c, shown) :
         IF q.result = "OK" THEN o = [Also(q.c) EXCEPT !.cost = @ + q.cost] ELSE o = q
  BY <1>2
<1>4. Synced(q, c, shown)
  BY <1>3, Synchronizes DEF Well
<1>5. /\ IsCall(q) /\ Path(q.c) /\ q.c.running = c.running /\ q.c.pending = c.pending /\ Runs(q.c)
      /\ q.c.epoch <= shown.epoch /\ (q.c.epoch = shown.epoch => Shown(q.c) = shown.displays)
      /\ q.result = "OK" => q.c.epoch = shown.epoch
      /\ ~c.pending => q.c.epoch = shown.epoch
  BY <1>4 DEF Synced, Well, Lined
<1>6. CASE q.result # "OK"
  BY <1>3, <1>5, <1>6 DEF Well, Lined
<1>7. CASE q.result = "OK"
  <2> DEFINE b == [q.c EXCEPT !.pending = FALSE]
  <2>1. IsCall(o) /\ o.c = b
    <3>1. Also(q.c) = Call("OK", b, 0)
      BY DEF Also
    <3> HIDE DEF b
    <3>2. IsCall(Also(q.c)) /\ Also(q.c).c = b
      BY <3>1, CallIs
    <3> QED BY <1>3, <1>7, <3>2, Costs
  <2>2. /\ Path(b) /\ Shown(b) = Shown(q.c) /\ b.running = q.c.running /\ b.epoch = q.c.epoch /\ b.pending = FALSE
        /\ Runs(q.c) => Runs(b)
    <3>1. b = Pended(q.c, FALSE) /\ Path(q.c)
      BY <1>5 DEF Pended
    <3> HIDE DEF b
    <3> DEFINE p == FALSE
    <3>2. p \in BOOLEAN /\ b = Pended(q.c, p)
      BY <3>1
    <3> HIDE DEF p
    <3>3. /\ Path(b) /\ Shown(b) = Shown(q.c) /\ b.running = q.c.running /\ b.epoch = q.c.epoch /\ b.pending = p
          /\ Runs(q.c) => Runs(b)
      BY <3>1, <3>2, Pends
    <3> QED BY <3>3 DEF p
  <2> HIDE DEF b
  <2> QED BY <1>5, <1>7, <2>1, <2>2 DEF Well, Lined
<1> QED BY <1>6, <1>7

-------------------------------------------------------------------------------
(* Frames that are lent and taken back.                                       *)
LEMMA Two ==
    ASSUME NEW c \in Paths, Apart(c), NEW i \in SlotsOf(c), NEW j \in SlotsOf(c), i # j,
           Live(c, c.slots[i].stream), Live(c, c.slots[j].stream)
    PROVE  c.slots[i].stream.slot # c.slots[j].stream.slot
<1>2. i \in 1..Streams /\ j \in 1..Streams /\ c.slots[i].stream \in Handles /\ c.slots[j].stream \in Handles
  BY Typed
<1>3. c.slots[i].stream # c.slots[j].stream
  BY DEF Apart
<1>4. \A g, h \in Handles : g.slot = h.slot /\ g.generation = h.generation => g = h
  BY DEF Handles
<1> QED BY <1>2, <1>3, <1>4 DEF Live

(* What runs is the same.                                                     *)
SameRuns(b, c) ==
  /\ \A j \in 1..Streams : b.slots[j].running = c.slots[j].running /\ b.streams[j].started = c.streams[j].started
  /\ b.running = c.running

LEMMA SameRunning ==
    ASSUME NEW b, NEW c \in Paths, SameStreams(b, c), SameRuns(b, c), Runs(c)
    PROVE  Runs(b)
<1>1. SlotsOf(b) = SlotsOf(c)
  BY SameSlots
<1> SUFFICES ASSUME NEW j \in ((1..Streams) \cap SlotsOf(b)) \ b.faulted
             PROVE  b.slots[j].running = b.running /\ b.streams[b.slots[j].stream.slot].started = b.running
  BY DEF Runs, RunAs
<1>2. j \in ((1..Streams) \cap SlotsOf(c)) \ c.faulted /\ b.slots[j].stream = c.slots[j].stream
      /\ c.slots[j].stream.slot \in 1..Streams
  BY <1>1, Typed DEF SameStreams
<1>3. c.slots[j].running = c.running /\ c.streams[c.slots[j].stream.slot].started = c.running
  BY <1>2 DEF Runs, RunAs
<1> QED BY <1>2, <1>3 DEF SameRuns

(* Everything lent has its frame but slot i and its stream.                   *)
HeldBut(c, i) ==
  /\ \A k \in 1..Streams : c.streams[k].leased =>
       k = c.slots[i].stream.slot \/ \E f \in c.frames : c.slots[f.slot].stream.slot = k
  /\ \A r \in 1..Transfers : c.ring[r].leased => \E f \in c.frames : f.texture = r
  /\ \A j \in 1..Streams : c.slots[j].leased => j = i \/ j \in c.faulted \/ \E f \in c.frames : f.slot = j
(* Slot i is lent, with or without a frame.                                   *)
Lends(c, i) ==
  /\ c \in Paths /\ Fitted(c) /\ Resting(c) /\ Holding(c) /\ Alone(c) /\ HeldBut(c, i)
  /\ i \in SlotsOf(c) /\ c.slots[i].leased /\ Live(c, c.slots[i].stream) /\ c.streams[c.slots[i].stream.slot].leased

(* Slot i and its stream are no longer lent, or the slot has failed.          *)
Unlent(b, c, i) ==
  /\ b \in Paths /\ SameStreams(b, c) /\ SameSet(b, c) /\ SameRuns(b, c)
  /\ \A j \in 1..Streams : b.streams[j].leased => c.streams[j].leased /\ j # c.slots[i].stream.slot
  /\ \A j \in 1..Streams : j # c.slots[i].stream.slot /\ c.streams[j].leased => b.streams[j].leased
  /\ \A j \in 1..Streams : j # i => b.slots[j].leased = c.slots[j].leased
  /\ b.slots[i].leased => i \in b.faulted

LEMMA UnlentPath ==
    ASSUME CallbacksOK, NEW c, NEW i, Lends(c, i), NEW b, Unlent(b, c, i),
           b.frames = {f \in c.frames : f.slot # i},
           \A r \in 1..Transfers : b.ring[r].leased <=> c.ring[r].leased /\ ~\E f \in c.frames : f.slot = i /\ f.texture = r
    PROVE  Path(b) /\ Settled(b, c) /\ (Runs(c) => Runs(b))
<1> DEFINE k == c.slots[i].stream.slot
<1>1. /\ b \in Paths /\ c \in Paths /\ i \in 1..Streams /\ i \in SlotsOf(c) /\ Live(c, c.slots[i].stream)
      /\ SameStreams(b, c) /\ SameSet(b, c) /\ SameRuns(b, c) /\ Apart(c) /\ HeldBut(c, i) /\ Holding(c)
      /\ k \in 1..Streams
  BY Typed DEF Lends, Unlent, Fitted
<1>2. Fitted(b)
  BY <1>1, SameFitted DEF Lends
<1>3. /\ \A j \in 1..Streams : b.streams[j].leased => c.streams[j].leased /\ j # k
      /\ \A j \in 1..Streams : j # k /\ c.streams[j].leased => b.streams[j].leased
      /\ \A j \in 1..Streams : j # i => b.slots[j].leased = c.slots[j].leased
      /\ b.slots[i].leased => i \in b.faulted
  BY DEF Unlent
<1>4. \A j \in 1..Streams : b.slots[j].stream = c.slots[j].stream /\ b.slots[j].active = c.slots[j].active
                            /\ b.slots[j].display = c.slots[j].display
  BY <1>1 DEF SameStreams
<1>5. Resting(b)
  <2>1. c.slots[i].active /\ Resting(c)
    BY <1>1 DEF Lends, SlotsOf
  <2>2. \A j \in 1..Streams : b.streams[j].active = c.streams[j].active /\ b.streams[j].started = c.streams[j].started
    BY <1>1 DEF SameStreams, SameRuns
  <2> QED BY <1>3, <1>4, <2>1, <2>2 DEF Resting
<1>6. \A f \in c.frames : f.slot \in 1..Streams /\ f.slot \in SlotsOf(c) /\ Live(c, c.slots[f.slot].stream)
                          /\ c.slots[f.slot].stream.slot \in 1..Streams /\ f.texture \in 1..Transfers
  <2>1. \A f \in c.frames : f.slot \in 1..Streams /\ f.texture \in 1..Transfers
    BY <1>1, Typed
  <2>2. \A f \in c.frames : f.slot \in SlotsOf(c) /\ Live(c, c.slots[f.slot].stream)
    BY <1>1, <2>1 DEF Holding, SlotsOf
  <2> QED BY <1>1, <2>1, <2>2, Typed
<1>7. \A f \in b.frames : f \in c.frames /\ f.slot # i /\ c.slots[f.slot].stream.slot # k
  BY <1>1, <1>6, Two
<1> HIDE DEF k
<1>8. Holding(b)
  <2> SUFFICES ASSUME NEW f \in b.frames
               PROVE  /\ b.slots[f.slot].active /\ b.slots[f.slot].leased /\ b.slots[f.slot].display = f.display
                      /\ Live(b, b.slots[f.slot].stream)
                      /\ b.streams[b.slots[f.slot].stream.slot].leased
                      /\ b.ring[f.texture].leased
    BY DEF Holding
  <2>1. /\ c.slots[f.slot].active /\ c.slots[f.slot].leased /\ c.slots[f.slot].display = f.display
        /\ Live(c, c.slots[f.slot].stream)
        /\ c.streams[c.slots[f.slot].stream.slot].leased
        /\ c.ring[f.texture].leased
    BY <1>1, <1>7 DEF Holding
  <2>2. b.ring[f.texture].leased
    BY <1>6, <1>7, <2>1 DEF Lends, Alone
  <2>3. b.slots[f.slot].leased /\ b.streams[c.slots[f.slot].stream.slot].leased
    BY ZenonT(60), <1>3, <1>6, <1>7, <2>1
  <2>4. Live(b, c.slots[f.slot].stream)
    BY Zenon, <1>1, <1>6, <1>7, <2>1 DEF SameStreams, Live
  <2> QED BY <1>4, <1>6, <1>7, <2>1, <2>2, <2>3, <2>4
<1>9. Alone(b)
  BY <1>7 DEF Lends, Alone
<1>10. Held(b)
  <2>1. \A j \in 1..Streams : b.streams[j].leased => \E f \in b.frames : b.slots[f.slot].stream.slot = j
    <3> SUFFICES ASSUME NEW j \in 1..Streams, b.streams[j].leased
                 PROVE  \E f \in b.frames : b.slots[f.slot].stream.slot = j
      OBVIOUS
    <3>1. c.streams[j].leased /\ j # k
      BY <1>3
    <3>2. PICK f \in c.frames : c.slots[f.slot].stream.slot = j
      BY <1>1, <3>1 DEF HeldBut, k
    <3>3. f.slot # i
      BY <3>1, <3>2 DEF k
    <3> QED BY <1>4, <1>6, <3>2, <3>3
  <2>2. \A r \in 1..Transfers : b.ring[r].leased => \E f \in b.frames : f.texture = r
    BY <1>1 DEF HeldBut
  <2>3. \A j \in 1..Streams : b.slots[j].leased => j \in b.faulted \/ \E f \in b.frames : f.slot = j
    BY <1>1, <1>3 DEF HeldBut, SameStreams
  <2> QED BY <2>1, <2>2, <2>3 DEF Held
<1>11. Path(b)
  BY <1>1, <1>2, <1>5, <1>8, <1>9, <1>10 DEF Path, Lending
<1> QED BY <1>1, <1>11, SameRunning DEF Settled, SameSet

(* A stream whose frame was released.                                         *)
Freed(t, s) == t \in StreamTypes /\ Still(t, s) /\ t.leased = FALSE /\ t.started = s.started

LEMMA Frees ==
    ASSUME NEW s \in StreamTypes, NEW pool \in 0..2
    PROVE  /\ Freed([s EXCEPT !.leased = FALSE], s)
           /\ Freed([s EXCEPT !.leased = FALSE, !.recreate = FALSE, !.pool = pool], s)
<1>1. ASSUME NEW t \in StreamTypes
      PROVE  /\ [t EXCEPT !.leased = FALSE] \in StreamTypes /\ [t EXCEPT !.recreate = FALSE] \in StreamTypes
             /\ [t EXCEPT !.pool = pool] \in StreamTypes
  BY DEF StreamTypes
<1> DEFINE a == [s EXCEPT !.leased = FALSE]
           b == [a EXCEPT !.recreate = FALSE]
           e == [b EXCEPT !.pool = pool]
<1>2. e = [s EXCEPT !.leased = FALSE, !.recreate = FALSE, !.pool = pool]
  BY DEF StreamTypes
<1>3. Still(a, s) /\ a.leased = FALSE /\ a.started = s.started /\ Still(e, s) /\ e.leased = FALSE /\ e.started = s.started
  BY DEF StreamTypes, Still
<1>4. a \in StreamTypes /\ e \in StreamTypes
  <2>1. a \in StreamTypes
    BY <1>1
  <2> HIDE DEF a
  <2>2. b \in StreamTypes
    BY <1>1, <2>1
  <2> HIDE DEF b
  <2> QED BY <1>1, <2>1, <2>2
<1> HIDE DEF e
<1> QED BY <1>2, <1>3, <1>4 DEF Freed

LEMMA ReleasesFrame ==
    ASSUME NEW c \in Paths, NEW h \in Handles, NEW o \in ReleaseFrame(c, h)
    PROVE  /\ IsCall(o)
           /\ \/ o.result = "STALE" /\ o.c = c /\ (~Live(c, h) \/ ~c.streams[h.slot].leased)
              \/ /\ o.result \in {"OK", "BACKEND"} /\ Live(c, h) /\ c.streams[h.slot].leased
                 /\ \E t : Freed(t, c.streams[h.slot]) /\ Moved(o.c, c, h.slot, t)
<1> DEFINE k == h.slot
           s == c.streams[h.slot]
           closed == [c EXCEPT !.streams[h.slot].leased = FALSE]
           made == [closed EXCEPT !.streams[h.slot].recreate = FALSE,
                                  !.streams[h.slot].pool = IF s.recreate THEN s.size ELSE @]
           pool == IF s.recreate THEN s.size ELSE s.pool
           t == [s EXCEPT !.leased = FALSE]
           u == [s EXCEPT !.leased = FALSE, !.recreate = FALSE, !.pool = pool]
<1>1. k \in 1..Streams
  BY DEF Handles
<1>2. s \in StreamTypes
  BY <1>1, Typed
<1>3. pool \in 0..2
  BY <1>2 DEF StreamTypes
<1>4. closed.streams = [c.streams EXCEPT ![k] = t] /\ closed = [c EXCEPT !.streams = closed.streams]
  BY <1>1 DEF Paths
<1>5. made.streams = [c.streams EXCEPT ![k] = u] /\ made = [c EXCEPT !.streams = made.streams]
  <2>1. CASE s.recreate
    BY <1>1, <1>2, <2>1 DEF Paths, StreamTypes
  <2>2. CASE ~s.recreate
    BY <1>1, <1>2, <2>2 DEF Paths, StreamTypes
  <2> QED BY <2>1, <2>2
<1>6. Freed(t, s) /\ Freed(u, s)
  <2> HIDE DEF pool
  <2> QED BY Zenon, <1>2, <1>3, Frees
<1>7. \/ o = Call("STALE", c, 0) /\ (~Live(c, h) \/ ~s.leased)
      \/ Live(c, h) /\ s.leased /\ o \in {Call("OK", made, 0), Fails(made), Fails(closed)}
  BY DEF ReleaseFrame
<1> HIDE DEF closed, made, pool, t, u
<1>8. Moved(closed, c, k, t) /\ Moved(made, c, k, u)
  BY <1>1, <1>4, <1>5, <1>6, StreamPut DEF Freed
<1> HIDE DEF s, k
<1>9. CASE o = Call("STALE", c, 0) /\ (~Live(c, h) \/ ~s.leased)
  <2>1. IsCall(o) /\ o.result = "STALE" /\ o.c = c
    BY <1>9, CallIs
  <2> QED BY <1>9, <2>1 DEF s
<1>10. CASE Live(c, h) /\ s.leased /\ o \in {Call("OK", made, 0), Fails(made), Fails(closed)}
  <2>1. IsCall(o) /\ o.result \in {"OK", "BACKEND"} /\ o.c \in {made, closed}
    BY <1>10, CallIs, FailsIs
  <2>2. \E w : Freed(w, s) /\ Moved(o.c, c, k, w)
    BY <1>6, <1>8, <2>1
  <2> QED BY <1>10, <2>1, <2>2 DEF s, k
<1> QED BY <1>7, <1>9, <1>10

Released(b, c, i) == Unlent(b, c, i) /\ b.frames = c.frames /\ b.ring = c.ring

(* The slot of a stream whose frame was released is free, or has failed.      *)
LEMMA FreedUnlent ==
    ASSUME NEW c, NEW i, Lends(c, i), NEW a, NEW t, Freed(t, c.streams[c.slots[i].stream.slot]),
           Moved(a, c, c.slots[i].stream.slot, t), NEW b, b \in Paths, b.streams = a.streams, b.signals = a.signals,
           b.ring = a.ring, b.frames = a.frames, SameSet(b, a),
           \/ b.slots = a.slots /\ b.faulted = a.faulted \cup {i}
           \/ b.slots = [a.slots EXCEPT ![i] = [a.slots[i] EXCEPT !.leased = FALSE]] /\ b.faulted = a.faulted
    PROVE  Released(b, c, i)
<1> DEFINE k == c.slots[i].stream.slot
<1>1. c \in Paths /\ i \in SlotsOf(c) /\ i \in 1..Streams /\ k \in 1..Streams /\ DOMAIN c.streams = 1..Streams
      /\ DOMAIN c.slots = 1..Streams /\ c.slots[i] \in SlotTypes
  <2>1. c \in Paths /\ i \in SlotsOf(c)
    BY DEF Lends
  <2>2. i \in 1..Streams
    BY <2>1, Typed
  <2> QED BY <2>1, <2>2, Typed DEF Paths
<1>2. /\ a.streams = [c.streams EXCEPT ![k] = t] /\ a.slots = c.slots /\ a.faulted = c.faulted
      /\ a.signals = c.signals /\ a.ring = c.ring /\ a.frames = c.frames /\ SameSet(a, c)
  BY DEF Moved, Elsewhere
<1>3. b.streams[k] = t /\ \A j \in 1..Streams : j # k => b.streams[j] = c.streams[j]
  <2>1. b.streams = [c.streams EXCEPT ![k] = t]
    BY <1>2
  <2> QED BY <1>1, <2>1, FunctionPut
<1>4. /\ Still(t, c.streams[k]) /\ t.leased = FALSE /\ t.started = c.streams[k].started
  BY DEF Freed
<1>5. /\ \A j \in 1..Streams : j # i => b.slots[j] = c.slots[j]
      /\ /\ b.slots[i].active = c.slots[i].active /\ b.slots[i].display = c.slots[i].display
         /\ b.slots[i].stream = c.slots[i].stream /\ b.slots[i].running = c.slots[i].running
      /\ b.slots[i].leased => i \in b.faulted
      /\ \A j \in c.faulted : j \in b.faulted
  <2>1. CASE b.slots = a.slots /\ b.faulted = a.faulted \cup {i}
    BY <1>2, <2>1
  <2>2. CASE b.slots = [a.slots EXCEPT ![i] = [a.slots[i] EXCEPT !.leased = FALSE]] /\ b.faulted = a.faulted
    <3> DEFINE x == [c.slots[i] EXCEPT !.leased = FALSE]
    <3>1. b.slots = [c.slots EXCEPT ![i] = x]
      BY <1>2, <2>2
    <3>2. /\ x.active = c.slots[i].active /\ x.display = c.slots[i].display /\ x.stream = c.slots[i].stream
          /\ x.running = c.slots[i].running /\ x.leased = FALSE
      BY <1>1 DEF SlotTypes
    <3> HIDE DEF x
    <3>3. b.slots[i] = x /\ \A j \in 1..Streams : j # i => b.slots[j] = c.slots[j]
      BY <1>1, <3>1, FunctionPut
    <3> QED BY <1>2, <2>2, <3>2, <3>3
  <2> QED BY <2>1, <2>2
<1> HIDE DEF k
<1>6. SameStreams(b, c)
  <2>1. b.signals = c.signals
    BY <1>2
  <2>2. \A j \in 1..Streams : /\ b.streams[j].active = c.streams[j].active /\ b.streams[j].generation = c.streams[j].generation
                              /\ b.streams[j].display = c.streams[j].display /\ b.streams[j].gone = c.streams[j].gone
    BY <1>1, <1>3, <1>4 DEF Still
  <2>3. \A j \in 1..Streams : b.slots[j].active = c.slots[j].active /\ b.slots[j].display = c.slots[j].display
                              /\ b.slots[j].stream = c.slots[j].stream
    BY <1>5
  <2> QED BY <1>5, <2>1, <2>2, <2>3 DEF SameStreams
<1>7. SameSet(b, c)
  BY <1>2 DEF SameSet
<1>8. SameRuns(b, c)
  BY <1>3, <1>4, <1>5, <1>7 DEF SameRuns, SameSet
<1>9. /\ \A j \in 1..Streams : b.streams[j].leased => c.streams[j].leased /\ j # k
      /\ \A j \in 1..Streams : j # k /\ c.streams[j].leased => b.streams[j].leased
      /\ \A j \in 1..Streams : j # i => b.slots[j].leased = c.slots[j].leased
  BY <1>3, <1>4, <1>5
<1>10. Unlent(b, c, i)
  BY <1>5, <1>6, <1>7, <1>8, <1>9 DEF Unlent, k
<1> QED BY <1>2, <1>10 DEF Released

LEMMA Releases ==
    ASSUME NEW c, NEW i, Lends(c, i), NEW d, c.slots[i].display = d, NEW o \in Release(c, i, d)
    PROVE  IsCall(o) /\ Released(o.c, c, i)
<1> DEFINE h == c.slots[i].stream
           k == c.slots[i].stream.slot
<1>1. c \in Paths /\ i \in SlotsOf(c) /\ i \in 1..Streams /\ h \in Handles /\ Live(c, h) /\ c.streams[k].leased
      /\ c.slots[i].active /\ c.slots[i].leased
  BY Typed DEF Lends, SlotsOf
<1>2. PICK q \in ReleaseFrame(c, h) :
         o = IF q.result = "OK" THEN [q EXCEPT !.c.slots[i].leased = FALSE] ELSE [q EXCEPT !.c = Faulted(q.c, i)]
  BY <1>1 DEF Release
<1>3. IsCall(q) /\ q.result \in {"OK", "BACKEND"} /\ \E t : Freed(t, c.streams[k]) /\ Moved(q.c, c, k, t)
  BY <1>1, <1>2, ReleasesFrame
<1>4. PICK t : Freed(t, c.streams[k]) /\ Moved(q.c, c, k, t)
  BY <1>3
<1>5. q.c \in Paths
  BY <1>4 DEF Moved
<1>6. CASE q.result = "OK"
  <2> DEFINE b == [q.c EXCEPT !.slots[i].leased = FALSE]
             x == [q.c.slots[i] EXCEPT !.leased = FALSE]
  <2>1. IsCall(o) /\ o.c = b
    BY <1>2, <1>3, <1>6 DEF IsCall
  <2>2. b.slots = [q.c.slots EXCEPT ![i] = x] /\ b.faulted = q.c.faulted
    BY <1>1, <1>5 DEF Paths
  <2>3. b = [q.c EXCEPT !.slots = b.slots, !.faulted = b.faulted]
    BY <1>5, <2>2 DEF Paths
  <2>4. x \in SlotTypes /\ b.faulted \subseteq 1..Streams
    <3>1. q.c.slots[i] \in SlotTypes /\ q.c.faulted \subseteq 1..Streams
      BY <1>1, <1>5, Typed
    <3>2. x \in SlotTypes
      BY <3>1 DEF SlotTypes
    <3> QED BY <2>2, <3>1, <3>2
  <2> HIDE DEF b, x
  <2>5. MovedSlot(b, q.c, i, x)
    BY Zenon, <1>1, <1>5, <2>2, <2>3, <2>4, SlotPut
  <2>6. /\ b \in Paths /\ b.streams = q.c.streams /\ b.signals = q.c.signals
        /\ b.ring = q.c.ring /\ b.frames = q.c.frames /\ SameSet(b, q.c)
    BY <2>5 DEF MovedSlot, ElsewhereSlots
  <2>7. b.slots = [q.c.slots EXCEPT ![i] = [q.c.slots[i] EXCEPT !.leased = FALSE]]
    BY <2>2 DEF x
  <2>8. Released(b, c, i)
    BY <1>4, <2>2, <2>6, <2>7, FreedUnlent
  <2> QED BY <2>1, <2>8
<1>7. CASE q.result = "BACKEND"
  <2>1. IsCall(o) /\ o.c = Faulted(q.c, i)
    BY <1>2, <1>3, <1>7 DEF IsCall
  <2>2. /\ o.c \in Paths /\ o.c.faulted = q.c.faulted \cup {i}
        /\ o.c.streams = q.c.streams /\ o.c.slots = q.c.slots
        /\ o.c.signals = q.c.signals /\ o.c.ring = q.c.ring /\ o.c.frames = q.c.frames /\ SameSet(o.c, q.c)
    <3>1. Alike(o.c, q.c) /\ o.c \in Paths /\ o.c.faulted = q.c.faulted \cup {i}
          /\ o.c.streams = q.c.streams /\ o.c.slots = q.c.slots
      BY <1>1, <1>5, <2>1, Faulting
    <3>2. o.c.signals = q.c.signals /\ o.c.ring = q.c.ring /\ o.c.frames = q.c.frames
      BY <1>5, <2>1 DEF Faulted, Paths
    <3> QED BY <3>1, <3>2 DEF Alike
  <2>3. Released(o.c, c, i)
    BY <1>4, <2>2, FreedUnlent
  <2> QED BY <2>1, <2>3
<1> QED BY <1>3, <1>6, <1>7

LEMMA UnlentSame ==
    ASSUME NEW b \in Paths, NEW a, NEW c, NEW i, Unlent(a, c, i), b.streams = a.streams, b.signals = a.signals,
           b.slots = a.slots, b.faulted = a.faulted, SameSet(b, a)
    PROVE  Unlent(b, c, i)
<1>1. SameStreams(b, c)
  BY DEF Unlent, SameStreams
<1>2. SameSet(b, c)
  BY DEF Unlent, SameSet
<1>3. SameRuns(b, c)
  BY <1>2 DEF Unlent, SameRuns, SameSet
<1> QED BY <1>1, <1>2, <1>3 DEF Unlent

LEMMA FrameLends ==
    ASSUME NEW c, Path(c), NEW f \in c.frames
    PROVE  Lends(c, f.slot) /\ c.slots[f.slot].display = f.display
<1>1. c \in Paths /\ Fitted(c) /\ Resting(c) /\ Holding(c) /\ Alone(c) /\ Held(c)
  BY DEF Path, Lending
<1>2. f.slot \in 1..Streams
  BY <1>1, Typed
<1>3. /\ c.slots[f.slot].active /\ c.slots[f.slot].leased /\ c.slots[f.slot].display = f.display
      /\ Live(c, c.slots[f.slot].stream) /\ c.streams[c.slots[f.slot].stream.slot].leased
  BY <1>1 DEF Holding
<1>4. f.slot \in SlotsOf(c)
  BY <1>2, <1>3 DEF SlotsOf
<1>5. HeldBut(c, f.slot)
  BY <1>1 DEF Held, HeldBut
<1> QED BY <1>1, <1>3, <1>4, <1>5 DEF Lends

Retired(o, c, f) ==
  /\ IsCall(o) /\ o.result = "OK" /\ Path(o.c) /\ Settled(o.c, c) /\ o.c.running = c.running
  /\ (Runs(c) => Runs(o.c)) /\ o.c.frames = c.frames \ {f}

(* A path with another ring and other frames.                                 *)
Rings == [1..Transfers -> [leased : BOOLEAN, size : 0..2]]
Ringed(c, X, Y) == [c EXCEPT !.ring = X, !.frames = Y]
RingOf(c, r, x) == [c.ring EXCEPT ![r] = x]

LEMMA RingPut ==
    ASSUME NEW c \in Paths, NEW X \in Rings, NEW Y \in SUBSET FrameTypes,
           NEW b, b = Ringed(c, X, Y)
    PROVE  /\ b \in Paths /\ b.ring = X /\ b.frames = Y
           /\ b.streams = c.streams /\ b.signals = c.signals /\ b.slots = c.slots /\ b.faulted = c.faulted
           /\ SameSet(b, c)
BY DEF Paths, SameSet, Ringed, Rings

LEMMA RingTyped ==
    ASSUME NEW c \in Paths, NEW r \in 1..Transfers, NEW x \in [leased : BOOLEAN, size : 0..2], NEW X,
           X = RingOf(c, r, x)
    PROVE  /\ X \in Rings /\ X[r] = x
           /\ \A n \in 1..Transfers : n # r => X[n] = c.ring[n]
BY DEF Paths, RingOf, Rings

LEMMA Retires ==
    ASSUME CallbacksOK, NEW c, Path(c), NEW f \in c.frames, NEW o \in Retire(c, f)
    PROVE  Retired(o, c, f)
<1> DEFINE i == f.slot
           r == f.texture
<1>1. Lends(c, i) /\ c.slots[i].display = f.display
  BY FrameLends
<1>2. PICK q \in Release(c, i, f.display) :
         o = [q EXCEPT !.result = "OK", !.c.ring[r].leased = FALSE, !.c.frames = @ \ {f}]
  BY Zenon DEF Retire
<1>3. IsCall(q) /\ Released(q.c, c, i)
  BY <1>1, <1>2, Releases
<1> DEFINE b == [q.c EXCEPT !.ring[r].leased = FALSE, !.frames = @ \ {f}]
<1>4. IsCall(o) /\ o.result = "OK" /\ o.c = b
  BY <1>2, <1>3 DEF IsCall
<1>5. q.c \in Paths /\ r \in 1..Transfers /\ c \in Paths
  BY <1>3, Typed DEF Released, Unlent, Path
<1> DEFINE x == [q.c.ring[r] EXCEPT !.leased = FALSE]
<1> DEFINE X == RingOf(q.c, r, x)
           Y == q.c.frames \ {f}
<1>6. b = Ringed(q.c, X, Y)
  BY <1>5 DEF Paths, Ringed, RingOf
<1>7. q.c.ring[r] \in [leased : BOOLEAN, size : 0..2] /\ q.c.frames \in SUBSET FrameTypes
  BY <1>5, Typed
<1>8. x \in [leased : BOOLEAN, size : 0..2] /\ x.leased = FALSE
  BY <1>7
<1> HIDE DEF x
<1>17. /\ X \in Rings /\ X[r] = x
       /\ \A n \in 1..Transfers : n # r => X[n] = q.c.ring[n]
  <2> HIDE DEF b
  <2> QED BY <1>5, <1>8, RingTyped
<1>18. Y \in SUBSET FrameTypes
  BY <1>7
<1> HIDE DEF X, b
<1>9. /\ b \in Paths /\ b.ring = X /\ b.frames = Y
      /\ b.streams = q.c.streams /\ b.signals = q.c.signals /\ b.slots = q.c.slots /\ b.faulted = q.c.faulted
      /\ SameSet(b, q.c)
  <2> HIDE DEF Y
  <2> QED BY <1>5, <1>6, <1>17, <1>18, RingPut
<1>10. Unlent(b, c, i)
  BY <1>3, <1>9, UnlentSame DEF Released
<1>11. q.c.frames = c.frames /\ q.c.ring = c.ring
  BY <1>3 DEF Released
<1>12. \A g \in c.frames : g.slot = i \/ g.texture = r => g = f
  BY DEF Path, Lending, Alone
<1>13. b.frames = {g \in c.frames : g.slot # i}
  BY <1>9, <1>11, <1>12
<1>14. \A n \in 1..Transfers : b.ring[n].leased <=> c.ring[n].leased /\ ~\E g \in c.frames : g.slot = i /\ g.texture = n
  <2>3. b.ring[r] = x /\ \A n \in 1..Transfers : n # r => b.ring[n] = c.ring[n]
    BY <1>9, <1>11, <1>17
  <2> QED BY <1>8, <1>12, <2>3
<1>15. Path(b) /\ Settled(b, c) /\ (Runs(c) => Runs(b))
  BY <1>1, <1>10, <1>13, <1>14, UnlentPath
<1>16. b.running = c.running /\ b.frames = c.frames \ {f}
  BY <1>9, <1>10, <1>11 DEF Unlent, SameSet
<1> QED BY <1>4, <1>15, <1>16 DEF Retired

LEMMA RetireTurns ==
    ASSUME NEW c, NEW items \in SUBSET (Nat \ {0}), IsFiniteSet(items)
    PROVE  \E F : RetireAll(c, items) = F[Last(items)] /\ Turned(F, "retire", FALSE, {Call("OK", c, 0)}, items)
<1> DEFINE L == Last(items)
           A == {Call("OK", c, 0)}
           Also(n, x) == Then(x, LAMBDA b : Retire(b, FrameOf(b, n)))
           Is(f) == f = [n \in 0..L |-> IF n = 0 THEN A ELSE IF n \in items THEN Also(n, f[n - 1]) ELSE f[n - 1]]
           F == CHOOSE f : Is(f)
<1>1. L \in Nat
  BY LastIs
<1>2. \A n, x : Follow("retire", FALSE, n, x) = Also(n, x)
  BY DEF Follow, Does
<1>3. \E f : Is(f)
  <2>1. PICK f : Turned(f, "retire", FALSE, A, items)
    BY <1>1, TurnsExist
  <2> HIDE DEF L, A, Also
  <2>2. f[0] = A /\ \A n \in 1..L : f[n] = IF n \in items THEN Follow("retire", FALSE, n, f[n - 1]) ELSE f[n - 1]
    BY <2>1 DEF Turned, L
  <2>3. f = [n \in 0..L |-> f[n]]
    BY <2>1 DEF Turned, L
  <2>4. \A n \in 0..L : f[n] = IF n = 0 THEN A ELSE IF n \in items THEN Also(n, f[n - 1]) ELSE f[n - 1]
    <3> TAKE n \in 0..L
    <3>1. n # 0 => n \in 1..L
      BY <1>1
    <3> QED BY <1>2, <2>2, <3>1
  <2>5. Is(f)
    BY <2>3, <2>4
  <2> QED BY <2>5
<1>4. Is(F)
  <2> HIDE DEF Is
  <2> QED BY <1>3
<1>5. RetireAll(c, items) = F[L]
  BY DEF RetireAll, InTurn
<1> HIDE DEF F
<1>6. F[0] = A /\ \A n \in 1..L : F[n] = IF n \in items THEN Also(n, F[n - 1]) ELSE F[n - 1]
  <2> HIDE DEF Also, L, A
  <2> QED BY <1>1, <1>4
<1>7. F = [n \in 0..L |-> F[n]]
  <2> HIDE DEF Also, L, A
  <2> QED BY <1>4
<1>8. Turned(F, "retire", FALSE, A, items)
  <2> HIDE DEF Also, A
  <2> QED BY <1>2, <1>6, <1>7 DEF Turned
<1> QED BY <1>5, <1>8

LEMMA FrameIs ==
    ASSUME NEW c, Alone(c), NEW f \in c.frames
    PROVE  FrameOf(c, f.slot) = f
<1>1. \A g \in c.frames : g.slot = f.slot => g = f
  BY DEF Alone
<1> QED BY <1>1 DEF FrameOf

(* A call after which the frames of the slots are taken back.                 *)
RetiredAll(q, c, S) ==
  /\ IsCall(q) /\ q.result = "OK" /\ Path(q.c) /\ Settled(q.c, c) /\ q.c.running = c.running
  /\ (Runs(c) => Runs(q.c)) /\ q.c.frames = {f \in c.frames : f.slot \notin S}

LEMMA RetiresAll ==
    ASSUME CallbacksOK, NEW c, Path(c), NEW items, \A i \in items : \E f \in c.frames : f.slot = i,
           NEW o \in RetireAll(c, items)
    PROVE  RetiredAll(o, c, items)
<1> DEFINE A == {Call("OK", c, 0)}
           P(m, q) == RetiredAll(q, c, UpTo(items, m))
<1>0. items \in SUBSET (1..Streams)
  <2>1. c \in Paths
    BY DEF Path
  <2>2. \A f \in c.frames : f.slot \in 1..Streams
    BY <2>1, Typed
  <2> QED BY <2>2
<1>1. items \in SUBSET (Nat \ {0}) /\ IsFiniteSet(items)
  BY <1>0, SlotItems
<1>2. PICK F : RetireAll(c, items) = F[Last(items)] /\ Turned(F, "retire", FALSE, A, items)
  BY <1>1, RetireTurns
<1>3. Last(items) \in Nat /\ items \subseteq 1..Last(items)
  BY <1>1, LastIs
<1>4. \A q \in A : P(0, q)
  <2>1. UpTo(items, 0) = {}
    BY <1>1, UpToIs
  <2>2. SameStreams(c, c)
    BY DEF SameStreams
  <2> QED BY <2>1, <2>2, CallIs DEF RetiredAll, Settled
<1>5. \A m \in 1..Last(items) : m \notin items => \A q : P(m - 1, q) => P(m, q)
  <2>1. \A m \in 1..Last(items) : m \notin items => UpTo(items, m) = UpTo(items, m - 1)
    BY <1>1, UpToIs
  <2> QED BY <2>1
<1>6. ASSUME NEW m \in items, NEW p, P(m - 1, p), p.result = "OK", NEW x \in Retire(p.c, FrameOf(p.c, m)),
             NEW q, q = [x EXCEPT !.cost = @ + p.cost]
      PROVE  P(m, q)
  <2>1. UpTo(items, m) = UpTo(items, m - 1) \cup {m} /\ m \notin UpTo(items, m - 1)
    BY <1>1, <1>3, UpToIs
  <2>2. Path(p.c) /\ p.c.frames = {g \in c.frames : g.slot \notin UpTo(items, m - 1)}
    BY <1>6 DEF RetiredAll
  <2>3. PICK f \in p.c.frames : f.slot = m
    BY <2>1, <2>2
  <2>4. FrameOf(p.c, m) = f
    BY <2>2, <2>3, FrameIs DEF Path, Lending
  <2>5. Retired(x, p.c, f)
    BY <1>6, <2>2, <2>3, <2>4, Retires
  <2>6. IsCall(q) /\ q.result = x.result /\ q.c = x.c
    BY <1>6, <2>5, Costs DEF Retired
  <2>7. Path(q.c) /\ q.c.running = c.running /\ (Runs(c) => Runs(q.c)) /\ q.result = "OK"
    BY <1>6, <2>5, <2>6 DEF Retired, RetiredAll
  <2>8. Settled(q.c, c)
    BY <1>6, <2>5, <2>6 DEF Retired, RetiredAll, Settled, SameStreams
  <2>9. q.c.frames = {g \in c.frames : g.slot \notin UpTo(items, m)}
    <3>1. q.c.frames = p.c.frames \ {f}
      BY <2>5, <2>6 DEF Retired
    <3>2. \A g \in p.c.frames : g.slot = m => g = f
      BY <2>2, <2>3 DEF Path, Lending, Alone
    <3> QED BY <2>1, <2>2, <2>3, <3>1, <3>2
  <2> QED BY <2>6, <2>7, <2>8, <2>9 DEF RetiredAll
<1>7. \A m \in items : \A q : P(m - 1, q) /\ q.result # "OK" => P(m, q)
  BY DEF RetiredAll
<1>8. \A q \in F[Last(items)] : P(Last(items), q)
  <2> DEFINE G == [m \in 0..Last(items) |-> {q \in F[m] : P(m, q)}]
  <2> HIDE DEF P, A
  <2>1. \A m \in items : \A p, q : P(m - 1, p) /\ p.result = "OK" =>
          \A x \in Does("retire", FALSE, p.c, m) : q = [x EXCEPT !.cost = @ + p.cost] => P(m, q)
    BY <1>6 DEF Does
  <2>2. \A m \in 0..Last(items) : \A q : q \in G[m] <=> q \in F[m] /\ P(m, q)
    OBVIOUS
  <2> HIDE DEF G
  <2>3. A \subseteq G[0]
    <3>1. 0 \in 0..Last(items)
      BY <1>3
    <3>2. F[0] = A
      BY <1>2 DEF Turned
    <3> QED BY <1>4, <2>2, <3>1, <3>2
  <2>4. \A m \in 1..Last(items) : m - 1 \in 0..Last(items) /\ m \in 0..Last(items)
    BY <1>3
  <2>5. \A m \in 1..Last(items) : m \notin items => \A q \in F[m] : q \in G[m - 1] => q \in G[m]
    BY <1>5, <2>2, <2>4
  <2>6. \A m \in items : \A p \in G[m - 1] : \A q \in F[m] :
           IF p.result = "OK" THEN \A x \in Does("retire", FALSE, p.c, m) : q = [x EXCEPT !.cost = @ + p.cost] => q \in G[m]
           ELSE q = p => q \in G[m]
    BY <1>3, <1>7, <2>1, <2>2, <2>4
  <2>7. Keeps(F, G, "retire", FALSE, items)
    BY <2>5, <2>6 DEF Keeps
  <2>8. F[Last(items)] \subseteq G[Last(items)]
    BY <1>1, <1>2, <2>3, <2>7, TurnsKeep
  <2> QED BY <1>3, <2>2, <2>8
<1>9. P(Last(items), o)
  BY <1>2, <1>8
<1>10. UpTo(items, Last(items)) = items
  BY <1>1, UpToIs
<1> QED BY <1>9, <1>10

-------------------------------------------------------------------------------
(* Frames that are acquired.                                                  *)

(* A stream that is the same but for what was seen of a frame of it.          *)
Observed(t, s) == t \in StreamTypes /\ Still(t, s) /\ t.started = s.started

Seeing(s, now, flag) == [s EXCEPT !.size = now, !.recreate = flag]
Leasing(s) == [s EXCEPT !.leased = TRUE]

LEMMA Observes ==
    ASSUME NEW s \in StreamTypes, NEW now \in 0..2, NEW flag \in BOOLEAN,
           NEW u, u = Seeing(s, now, flag), NEW v, v = Leasing(u)
    PROVE  Observed(u, s) /\ u.leased = s.leased /\ Observed(v, s) /\ v.leased = TRUE
<1>1. u \in StreamTypes
  <2> DEFINE a == [s EXCEPT !.size = now]
  <2>1. a \in StreamTypes
    BY DEF StreamTypes
  <2>2. u = [a EXCEPT !.recreate = flag]
    BY DEF StreamTypes, Seeing
  <2> HIDE DEF a
  <2> QED BY <2>1, <2>2 DEF StreamTypes
<1>2. Still(u, s) /\ u.started = s.started /\ u.leased = s.leased
  BY DEF Still, StreamTypes, Seeing
<1>3. v \in StreamTypes /\ v.leased = TRUE /\ v.started = u.started /\ Still(v, u)
  BY <1>1 DEF Still, StreamTypes, Leasing
<1> QED BY <1>1, <1>2, <1>3 DEF Observed, Still

LEMMA AcquiresFrame ==
    ASSUME ContentOK, NEW c \in Paths, Signalled(c), NEW h \in Handles, NEW o \in AcquireFrame(c, h)
    PROVE  /\ IsCall(o)
           /\ \/ o.result # "OK" /\ o.c = c
              \/ /\ o.result \in {"OK", "BACKEND"} /\ Live(c, h) /\ ~c.streams[h.slot].leased
                 /\ \E t : /\ Observed(t, c.streams[h.slot]) /\ Moved(o.c, c, h.slot, t)
                           /\ IF o.result = "OK" THEN t.leased = TRUE ELSE t.leased = c.streams[h.slot].leased
<1> DEFINE k == h.slot
           s == c.streams[h.slot]
           now == content[s.display]
           flag == s.recreate \/ now # s.size
           looked == [s EXCEPT !.size = now, !.recreate = @ \/ now # s.size]
           lent == [looked EXCEPT !.leased = TRUE]
           With(stream) == [c EXCEPT !.streams[h.slot] = stream]
<1>1. k \in 1..Streams
  BY DEF Handles
<1>2. s \in StreamTypes
  BY <1>1, Typed
<1>3. \/ o \in {Call("STALE", c, 0), Call("STATE", c, 0), Call("BACKEND", c, 0), Call("BUSY", c, 0), Fails(c)}
      \/ Live(c, h) /\ ~s.leased /\ o \in {Call("OK", With(lent), 0), Fails(With(looked))}
  BY DEF AcquireFrame
<1>4. CASE o \in {Call("STALE", c, 0), Call("STATE", c, 0), Call("BACKEND", c, 0), Call("BUSY", c, 0), Fails(c)}
  <2>1. IsCall(o) /\ o.result # "OK" /\ o.c = c
    BY <1>4, CallIs, FailsIs
  <2> QED BY <2>1
<1>5. CASE Live(c, h) /\ ~s.leased /\ o \in {Call("OK", With(lent), 0), Fails(With(looked))}
  <2>1. s.display \in Displays
    BY <1>1, <1>2, <1>5 DEF Live, Signalled, StreamTypes
  <2>2. now \in 0..2 /\ flag \in BOOLEAN
    BY <1>2, <2>1 DEF ContentOK, StreamTypes
  <2>3. looked = Seeing(s, now, flag) /\ lent = Leasing(looked)
    BY <1>2 DEF StreamTypes, Seeing, Leasing
  <2>4. ASSUME NEW t \in StreamTypes
        PROVE  Moved(With(t), c, k, t)
    <3> DEFINE b == With(t)
    <3>1. b.streams = [c.streams EXCEPT ![k] = t] /\ b = [c EXCEPT !.streams = b.streams]
      BY <1>1 DEF Paths
    <3> HIDE DEF b
    <3>2. Moved(b, c, k, t)
      BY <1>1, <3>1, StreamPut
    <3> QED BY <3>2 DEF b
  <2> HIDE DEF now, flag, looked, lent, With, s, k
  <2>5. Observed(looked, s) /\ looked.leased = s.leased /\ Observed(lent, s) /\ lent.leased = TRUE
    BY <1>2, <2>2, <2>3, Observes
  <2>6. Moved(With(looked), c, k, looked) /\ Moved(With(lent), c, k, lent)
    BY <2>4, <2>5 DEF Observed
  <2>7. CASE o = Call("OK", With(lent), 0)
    <3>1. IsCall(o) /\ o.result = "OK" /\ o.c = With(lent)
      BY <2>7, CallIs
    <3> QED BY <1>5, <2>5, <2>6, <3>1 DEF s, k
  <2>8. CASE o = Fails(With(looked))
    <3>1. IsCall(o) /\ o.result = "BACKEND" /\ o.c = With(looked)
      BY <2>8, FailsIs
    <3> QED BY <1>5, <2>5, <2>6, <3>1 DEF s, k
  <2> QED BY <1>5, <2>7, <2>8
<1> QED BY <1>3, <1>4, <1>5

(* Slot i, that was free, and its stream are lent.                            *)
Loaned(b, c, i) ==
  /\ b \in Paths /\ SameStreams(b, c) /\ SameSet(b, c) /\ SameRuns(b, c) /\ b.frames = c.frames /\ b.ring = c.ring
  /\ i \in SlotsOf(c) /\ ~c.slots[i].leased /\ Live(c, c.slots[i].stream)
  /\ b.slots[i].leased /\ b.streams[c.slots[i].stream.slot].leased
  /\ \A j \in 1..Streams : j # i => b.slots[j].leased = c.slots[j].leased
  /\ \A j \in 1..Streams : j # c.slots[i].stream.slot => b.streams[j].leased = c.streams[j].leased

LEMMA LoanedLends ==
    ASSUME CallbacksOK, NEW c, Path(c), NEW i, NEW b, Loaned(b, c, i)
    PROVE  Lends(b, i) /\ (\A f \in b.frames : f.slot # i) /\ Settled(b, c) /\ b.running = c.running /\ (Runs(c) => Runs(b))
<1> DEFINE k == c.slots[i].stream.slot
<1>1. /\ b \in Paths /\ c \in Paths /\ i \in 1..Streams /\ i \in SlotsOf(c) /\ Live(c, c.slots[i].stream)
      /\ SameStreams(b, c) /\ SameSet(b, c) /\ SameRuns(b, c) /\ Held(c) /\ Holding(c) /\ Resting(c) /\ Fitted(c)
      /\ Alone(c) /\ k \in 1..Streams /\ b.frames = c.frames /\ b.ring = c.ring /\ SlotsOf(b) = SlotsOf(c)
  BY Typed, SameSlots DEF Loaned, Path, Lending
<1>2. Fitted(b)
  BY <1>1, SameFitted
<1>3. \A j \in 1..Streams : b.slots[j].stream = c.slots[j].stream /\ b.slots[j].active = c.slots[j].active
                            /\ b.slots[j].display = c.slots[j].display
  BY <1>1 DEF SameStreams
<1>4. /\ b.slots[i].leased /\ b.streams[k].leased
      /\ \A j \in 1..Streams : j # i => b.slots[j].leased = c.slots[j].leased
      /\ \A j \in 1..Streams : j # k => b.streams[j].leased = c.streams[j].leased
  BY DEF Loaned
<1>5. c.streams[k].active /\ c.slots[i].active
  BY SMTT(30), <1>1 DEF Live, SlotsOf
<1>6. Live(b, b.slots[i].stream) /\ b.streams[b.slots[i].stream.slot].leased
  BY <1>1, <1>3, <1>4 DEF Live, SameStreams
<1>7. \A f \in c.frames : f.slot \in 1..Streams /\ c.slots[f.slot].stream.slot \in 1..Streams /\ f.slot # i
  BY <1>1, Typed DEF Loaned, Holding
<1> HIDE DEF k
<1>8. Resting(b)
  <2>1. \A j \in 1..Streams : b.streams[j].active = c.streams[j].active /\ b.streams[j].started = c.streams[j].started
    BY SMTT(30), <1>1 DEF SameStreams, SameRuns
  <2> QED BY <1>1, <1>3, <1>4, <1>5, <2>1 DEF Resting
<1>9. Holding(b)
  <2> SUFFICES ASSUME NEW f \in c.frames
               PROVE  /\ b.slots[f.slot].active /\ b.slots[f.slot].leased /\ b.slots[f.slot].display = f.display
                      /\ Live(b, b.slots[f.slot].stream)
                      /\ b.streams[b.slots[f.slot].stream.slot].leased
                      /\ b.ring[f.texture].leased
    BY <1>1 DEF Holding
  <2>1. /\ c.slots[f.slot].active /\ c.slots[f.slot].leased /\ c.slots[f.slot].display = f.display
        /\ Live(c, c.slots[f.slot].stream)
        /\ c.streams[c.slots[f.slot].stream.slot].leased
        /\ c.ring[f.texture].leased
    BY <1>1 DEF Holding
  <2>2. b.streams[c.slots[f.slot].stream.slot].leased
    BY SMTT(30), <1>4, <1>7, <2>1
  <2>3. Live(b, c.slots[f.slot].stream)
    BY <1>1, <1>7, <2>1 DEF SameStreams, Live
  <2> QED BY ZenonT(60), <1>1, <1>3, <1>4, <1>7, <2>1, <2>2, <2>3
<1>10. Alone(b)
  BY <1>1 DEF Alone
<1>11. HeldBut(b, i)
  <2>1. \A j \in 1..Streams : b.streams[j].leased =>
          j = b.slots[i].stream.slot \/ \E f \in b.frames : b.slots[f.slot].stream.slot = j
    BY <1>1, <1>3, <1>4, <1>7 DEF Held, k
  <2>2. \A r \in 1..Transfers : b.ring[r].leased => \E f \in b.frames : f.texture = r
    BY <1>1 DEF Held
  <2>3. \A j \in 1..Streams : b.slots[j].leased => j = i \/ j \in b.faulted \/ \E f \in b.frames : f.slot = j
    BY <1>1, <1>4 DEF Held, SameStreams
  <2> QED BY <2>1, <2>2, <2>3 DEF HeldBut
<1>12. Lends(b, i)
  BY <1>1, <1>2, <1>4, <1>6, <1>8, <1>9, <1>10, <1>11 DEF Lends
<1> QED BY <1>1, <1>7, <1>12, SameRunning DEF Settled, SameSet

(* The same streams for the same layout, of which as many run.                *)
Carried(b, c) == Path(b) /\ Settled(b, c) /\ b.running = c.running /\ (Runs(c) => Runs(b))

LEMMA CarriedTwice ==
    ASSUME NEW a, NEW b, NEW c, Carried(a, b), Carried(b, c)
    PROVE  Carried(a, c)
BY DEF Carried, Settled, SameStreams

LEMMA CarriedSelf ==
    ASSUME NEW c, Path(c)
    PROVE  Carried(c, c)
BY DEF Carried, Settled, SameStreams

(* The first slot of a display is lent, or no slot is.                        *)
Acquired(o, c, d) ==
  /\ IsCall(o)
  /\ IF o.result = "OK" THEN /\ First(SlotOf(o.c, d)) \in SlotOf(o.c, d)
                             /\ Loaned(o.c, c, First(SlotOf(o.c, d)))
     ELSE Carried(o.c, c)

LEMMA Acquires ==
    ASSUME CallbacksOK, ContentOK, NEW c, Path(c), NEW d, NEW o \in Acquire(c, d)
    PROVE  Acquired(o, c, d)
<1> DEFINE i == First(SlotOf(c, d))
           h == c.slots[i].stream
           k == c.slots[i].stream.slot
<1>1. CASE o \in {Call("NOT_FOUND", c, 0), Call("STATE", c, 0), Call("BUSY", c, 0)}
  <2>1. IsCall(o) /\ o.result # "OK" /\ o.c = c
    BY SMTT(30), <1>1, CallIs
  <2> QED BY <2>1, CarriedSelf DEF Acquired
<1>2. CASE o \notin {Call("NOT_FOUND", c, 0), Call("STATE", c, 0), Call("BUSY", c, 0)}
  <2>1. /\ SlotOf(c, d) # {} /\ ~c.slots[i].leased
        /\ \E q \in AcquireFrame(c, h) : o = IF q.result = "OK" THEN [q EXCEPT !.c.slots[i].leased = TRUE] ELSE q
    BY <1>2 DEF Acquire
  <2>2. c \in Paths /\ Signalled(c) /\ Resting(c)
    BY DEF Path, Fitted
  <2>3. i \in SlotOf(c, d)
    <3>1. SlotOf(c, d) \in SUBSET (1..Streams) /\ Streams \in Nat
      BY CaptureAssumption DEF SlotOf, SlotsOf
    <3> QED BY <2>1, <3>1, FirstIs
  <2>4. i \in 1..Streams /\ i \in SlotsOf(c)
    BY <2>3 DEF SlotOf, SlotsOf
  <2> HIDE DEF i
  <2>5. h \in Handles /\ k \in 1..Streams /\ c.slots[i] \in SlotTypes /\ c.streams[k] \in StreamTypes
    BY <2>2, <2>4, Typed
  <2>6. PICK q \in AcquireFrame(c, h) : o = IF q.result = "OK" THEN [q EXCEPT !.c.slots[i].leased = TRUE] ELSE q
    BY <2>1
  <2>7. /\ IsCall(q)
        /\ \/ q.result # "OK" /\ q.c = c
           \/ /\ q.result \in {"OK", "BACKEND"} /\ Live(c, h) /\ ~c.streams[h.slot].leased
              /\ \E t : /\ Observed(t, c.streams[h.slot]) /\ Moved(q.c, c, h.slot, t)
                        /\ IF q.result = "OK" THEN t.leased = TRUE ELSE t.leased = c.streams[h.slot].leased
    BY <2>2, <2>5, <2>6, AcquiresFrame
  <2>8. CASE q.result # "OK" /\ q.c = c
    BY <2>6, <2>7, <2>8, CarriedSelf DEF Acquired
  <2>9. CASE ~(q.result # "OK" /\ q.c = c)
    <3>1. PICK t : /\ Observed(t, c.streams[k]) /\ Moved(q.c, c, k, t)
                   /\ IF q.result = "OK" THEN t.leased = TRUE ELSE t.leased = c.streams[k].leased
      BY ZenonT(60), <2>7, <2>9
    <3>2. Live(c, h) /\ c.streams[k].active
      BY Zenon, <2>7, <2>9 DEF Live
    <3>3. /\ q.c \in Paths /\ q.c.streams = [c.streams EXCEPT ![k] = t] /\ q.c.slots = c.slots /\ q.c.faulted = c.faulted
          /\ q.c.signals = c.signals /\ q.c.ring = c.ring /\ q.c.frames = c.frames /\ SameSet(q.c, c)
      BY <3>1 DEF Moved, Elsewhere
    <3>4. DOMAIN c.streams = 1..Streams /\ DOMAIN c.slots = 1..Streams
      BY <2>2 DEF Paths
    <3>5. q.c.streams[k] = t /\ \A j \in 1..Streams : j # k => q.c.streams[j] = c.streams[j]
      BY <2>5, <3>3, <3>4, FunctionPut
    <3>6. SameRuns(q.c, c)
      BY <3>1, <3>3, <3>5 DEF SameRuns, Observed, SameSet
    <3>7. SameStreams(q.c, c)
      BY Zenon, <3>1, <3>3, <3>5 DEF SameStreams, Observed, Still
    <3>8. CASE q.result # "OK"
      <4>1. Alike(q.c, c) /\ Path(q.c)
        BY <2>5, <3>1, <3>2, <3>8, MovedStill DEF Observed
      <4>2. Carried(q.c, c)
        BY <2>2, <3>3, <3>6, <3>7, <4>1, SameRunning DEF Carried, Settled, SameSet
      <4> QED BY ZenonT(60), <2>6, <2>7, <3>8, <4>2 DEF Acquired
    <3>9. CASE q.result = "OK"
      <4> DEFINE b == [q.c EXCEPT !.slots[i].leased = TRUE]
                 x == [c.slots[i] EXCEPT !.leased = TRUE]
      <4>1. IsCall(o) /\ o.result = "OK" /\ o.c = b
        BY <2>6, <2>7, <3>9 DEF IsCall
      <4>2. b.slots = [q.c.slots EXCEPT ![i] = x] /\ b.faulted = q.c.faulted
        BY <2>4, <3>3 DEF Paths
      <4>3. b = [q.c EXCEPT !.slots = b.slots, !.faulted = b.faulted]
        BY <3>3, <4>2 DEF Paths
      <4>4. x \in SlotTypes /\ b.faulted \subseteq 1..Streams
        <5>1. q.c.faulted \subseteq 1..Streams
          BY <3>3, Typed
        <5>2. x \in SlotTypes
          BY <2>5 DEF SlotTypes
        <5> QED BY <4>2, <5>1, <5>2
      <4>5. /\ x.active = c.slots[i].active /\ x.display = c.slots[i].display /\ x.stream = c.slots[i].stream
            /\ x.running = c.slots[i].running /\ x.leased = TRUE
        BY <2>5 DEF SlotTypes
      <4> HIDE DEF b, x
      <4>6. MovedSlot(b, q.c, i, x)
        BY Zenon, <2>4, <3>3, <4>2, <4>3, <4>4, SlotPut
      <4>7. /\ b \in Paths /\ b.streams = q.c.streams /\ b.signals = q.c.signals
            /\ b.ring = q.c.ring /\ b.frames = q.c.frames /\ SameSet(b, q.c)
        BY <4>6 DEF MovedSlot, ElsewhereSlots
      <4>8. b.slots = [c.slots EXCEPT ![i] = x]
        BY <3>3, <4>2
      <4>9. b.slots[i] = x /\ \A j \in 1..Streams : j # i => b.slots[j] = c.slots[j]
        BY <2>4, <3>4, <4>8, FunctionPut
      <4>10. SameStreams(b, c)
        BY <3>3, <3>7, <4>2, <4>5, <4>7, <4>9 DEF SameStreams
      <4>11. SameSet(b, c) /\ SameRuns(b, c)
        BY SMTT(30), <3>3, <3>6, <4>5, <4>7, <4>9 DEF SameSet, SameRuns
      <4>12. Loaned(b, c, i)
        BY <2>1, <2>4, <3>1, <3>2, <3>3, <3>5, <3>9, <4>5, <4>7, <4>9, <4>10, <4>11 DEF Loaned
      <4>13. SlotOf(b, d) = SlotOf(c, d)
        <5>1. SlotsOf(b) = SlotsOf(c)
          BY <4>10, SameSlots
        <5>2. \A j \in SlotsOf(c) : b.slots[j].display = c.slots[j].display
          BY <4>10 DEF SameStreams, SlotsOf
        <5> QED BY <5>1, <5>2 DEF SlotOf
      <4> QED BY <2>3, <4>1, <4>12, <4>13 DEF Acquired, i
    <3> QED BY SMTT(30), <3>8, <3>9
  <2> QED BY <2>7, <2>8, <2>9
<1> QED BY <1>1, <1>2

-------------------------------------------------------------------------------
(* Frames that are lent.                                                      *)

(* Paths with the same streams and slots.                                     *)
Kin(b, c) ==
  b.streams = c.streams /\ b.signals = c.signals /\ b.slots = c.slots /\ b.faulted = c.faulted /\ SameSet(b, c)
SameLent(b, c) == b.frames = c.frames /\ \A r \in 1..Transfers : b.ring[r].leased = c.ring[r].leased

LEMMA KinSame ==
    ASSUME NEW b, NEW c, Kin(b, c)
    PROVE  SameStreams(b, c) /\ SameRuns(b, c) /\ SlotsOf(b) = SlotsOf(c)
BY DEF Kin, SameStreams, SameRuns, SameSet, SlotsOf

LEMMA KinLends ==
    ASSUME CallbacksOK, NEW c, NEW i, Lends(c, i), NEW b \in Paths, Kin(b, c), SameLent(b, c)
    PROVE  Lends(b, i)
<1>1. c \in Paths /\ Fitted(c) /\ SlotsOf(b) = SlotsOf(c) /\ SameStreams(b, c)
  BY KinSame DEF Lends
<1>2. Fitted(b)
  BY <1>1, SameFitted
<1>3. Resting(b) /\ Alone(b) /\ HeldBut(b, i)
  BY DEF Lends, Resting, Alone, HeldBut, Kin, SameLent
<1>4. Holding(b)
  <2>1. \A f \in c.frames : f.texture \in 1..Transfers
    BY <1>1, Typed
  <2>2. \A f \in c.frames : b.ring[f.texture].leased
    BY SMTT(30), <2>1 DEF Lends, Holding, SameLent
  <2>3. \A f \in c.frames : /\ b.slots[f.slot].active /\ b.slots[f.slot].leased /\ b.slots[f.slot].display = f.display
                            /\ Live(b, b.slots[f.slot].stream)
                            /\ b.streams[b.slots[f.slot].stream.slot].leased
    BY Zenon DEF Lends, Holding, Kin, Live
  <2> QED BY <2>2, <2>3 DEF Holding, SameLent
<1> QED BY <1>1, <1>2, <1>3, <1>4 DEF Lends, Kin, Live

(* A frame of slot i is lent with a texture that was free.                    *)
Frame(c, i, r) == [slot |-> i, display |-> c.slots[i].display, texture |-> r]
Borrowed(b, c, i, r) ==
  /\ b.frames = c.frames \cup {Frame(c, i, r)} /\ r \in 1..Transfers /\ ~c.ring[r].leased /\ b.ring[r].leased
  /\ \A n \in 1..Transfers : n # r => b.ring[n].leased = c.ring[n].leased

LEMMA Borrows ==
    ASSUME CallbacksOK, NEW c, NEW i, Lends(c, i), \A f \in c.frames : f.slot # i,
           NEW b \in Paths, Kin(b, c), NEW r, Borrowed(b, c, i, r)
    PROVE  Path(b) /\ Settled(b, c) /\ b.running = c.running /\ (Runs(c) => Runs(b))
           /\ \E f \in b.frames : f.slot = i /\ f.display = c.slots[i].display
<1> DEFINE g == Frame(c, i, r)
<1>1. c \in Paths /\ Fitted(c) /\ SlotsOf(b) = SlotsOf(c) /\ SameStreams(b, c) /\ SameRuns(b, c)
  BY KinSame DEF Lends
<1>2. Fitted(b)
  BY <1>1, SameFitted
<1>3. Resting(b)
  BY DEF Lends, Resting, Kin
<1>4. g.slot = i /\ g.display = c.slots[i].display /\ g.texture = r /\ b.frames = c.frames \cup {g}
  BY DEF Frame, Borrowed
<1>5. r \in 1..Transfers /\ ~c.ring[r].leased /\ b.ring[r].leased
      /\ \A n \in 1..Transfers : n # r => b.ring[n].leased = c.ring[n].leased
  BY DEF Borrowed
<1>6. \A f \in c.frames : f.slot \in 1..Streams /\ f.texture \in 1..Transfers /\ c.ring[f.texture].leased /\ f.texture # r
  BY <1>1, <1>5, Typed DEF Lends, Holding
<1>7. /\ c.slots[i].active /\ c.slots[i].leased /\ Live(c, c.slots[i].stream) /\ c.streams[c.slots[i].stream.slot].leased
      /\ i \in 1..Streams
  BY DEF Lends, SlotsOf
<1> HIDE DEF g
<1>8. Holding(b)
  <2>1. \A f \in c.frames : b.ring[f.texture].leased
    BY <1>5, <1>6
  <2>2. \A f \in c.frames : /\ b.slots[f.slot].active /\ b.slots[f.slot].leased /\ b.slots[f.slot].display = f.display
                            /\ Live(b, b.slots[f.slot].stream)
                            /\ b.streams[b.slots[f.slot].stream.slot].leased
    BY Zenon DEF Lends, Holding, Kin, Live
  <2>3. /\ b.slots[g.slot].active /\ b.slots[g.slot].leased /\ b.slots[g.slot].display = g.display
        /\ Live(b, b.slots[g.slot].stream)
        /\ b.streams[b.slots[g.slot].stream.slot].leased
        /\ b.ring[g.texture].leased
    BY <1>4, <1>5, <1>7 DEF Kin, Live
  <2> QED BY ZenonT(60), <1>4, <2>1, <2>2, <2>3 DEF Holding
<1>9. Alone(b)
  BY <1>4, <1>6 DEF Lends, Alone
<1>10. Held(b)
  <2>1. \A j \in 1..Streams : b.streams[j].leased => \E f \in b.frames : b.slots[f.slot].stream.slot = j
    BY <1>4 DEF Lends, HeldBut, Kin
  <2>2. \A n \in 1..Transfers : b.ring[n].leased => \E f \in b.frames : f.texture = n
    BY <1>4, <1>5 DEF Lends, HeldBut
  <2>3. \A j \in 1..Streams : b.slots[j].leased => j \in b.faulted \/ \E f \in b.frames : f.slot = j
    BY <1>4 DEF Lends, HeldBut, Kin
  <2> QED BY <2>1, <2>2, <2>3 DEF Held
<1>11. Path(b)
  BY <1>2, <1>3, <1>8, <1>9, <1>10 DEF Path, Lending
<1>12. Runs(c) => Runs(b)
  BY <1>1, SameRunning
<1> QED BY <1>1, <1>4, <1>11, <1>12 DEF Settled, Kin, SameSet

LEMMA TextureIs ==
    ASSUME NEW c, NEW size, Texture(c, size) # 0
    PROVE  Texture(c, size) \in 1..Transfers /\ ~c.ring[Texture(c, size)].leased
<1> DEFINE free == {r \in 1..Transfers : ~c.ring[r].leased}
           fitting == {r \in free : c.ring[r].size = size}
<1>1. Transfers \in Nat
  BY CaptureAssumption
<1>2. fitting # {} => First(fitting) \in fitting
  <2>1. fitting \in SUBSET (1..Transfers)
    OBVIOUS
  <2> HIDE DEF fitting
  <2> QED BY <1>1, <2>1, FirstIs
<1>3. free # {} => First(free) \in free
  <2>1. free \in SUBSET (1..Transfers)
    OBVIOUS
  <2> HIDE DEF free
  <2> QED BY <1>1, <2>1, FirstIs
<1>4. \/ fitting # {} /\ Texture(c, size) = First(fitting)
      \/ free # {} /\ Texture(c, size) = First(free)
  BY DEF Texture
<1>5. Texture(c, size) \in free
  <2>1. fitting \subseteq free
    OBVIOUS
  <2> HIDE DEF free, fitting
  <2> QED BY <1>2, <1>3, <1>4, <2>1
<1> QED BY <1>5

Imported(o, c, i) ==
  /\ IsCall(o) /\ o.c \in Paths /\ Kin(o.c, c)
  /\ IF o.result = "OK" THEN \E r : Borrowed(o.c, c, i, r) ELSE SameLent(o.c, c)

LEMMA Imports ==
    ASSUME CallbacksOK, NEW c, NEW i, Lends(c, i), NEW o \in Import(c, i)
    PROVE  Imported(o, c, i)
<1> DEFINE size == c.streams[c.slots[i].stream.slot].pool
           r == Texture(c, size)
           sized == [c EXCEPT !.ring[r].size = size]
           voided == [c EXCEPT !.ring[r].size = 0]
           g == Frame(c, i, r)
           lent == [sized EXCEPT !.ring[r].leased = TRUE, !.frames = @ \cup {g}]
<1>1. c \in Paths /\ i \in 1..Streams /\ c.slots[i].stream.slot \in 1..Streams /\ c.slots[i].active /\ Kept(c)
      /\ i \in SlotsOf(c)
  BY Typed DEF Lends, SlotsOf, Fitted
<1>2. size \in 0..2
  <2>1. c.streams[c.slots[i].stream.slot] \in StreamTypes
    BY <1>1, Typed
  <2> QED BY <2>1 DEF StreamTypes
<1>3. CASE o = Call("CAPACITY", c, 0)
  <2>1. IsCall(o) /\ o.result # "OK" /\ o.c = c
    BY <1>3, CallIs
  <2> QED BY <1>1, <2>1 DEF Imported, Kin, SameLent, SameSet
<1>4. CASE o # Call("CAPACITY", c, 0)
  <2>1. r # 0 /\ o \in {Call("OK", lent, 0), Fails(sized), Fails(voided)}
    BY Zenon, <1>4 DEF Import, Frame
  <2>2. r \in 1..Transfers /\ ~c.ring[r].leased
    <3> HIDE DEF size
    <3> QED BY <2>1, TextureIs
  <2> HIDE DEF size
  <2> DEFINE x == [c.ring[r] EXCEPT !.size = size]
             y == [c.ring[r] EXCEPT !.size = 0]
             z == [x EXCEPT !.leased = TRUE]
             Y == c.frames \cup {g}
  <2>3. c.ring[r] \in [leased : BOOLEAN, size : 0..2]
    BY <1>1, <2>2, Typed
  <2> HIDE DEF r, g
  <2>4. c.ring[r].leased = FALSE
    BY <2>2, <2>3
  <2>5. x.leased = FALSE /\ y.leased = FALSE /\ x \in [leased : BOOLEAN, size : 0..2] /\ y \in [leased : BOOLEAN, size : 0..2]
    BY <1>2, <2>3, <2>4
  <2>6. z.leased = TRUE /\ z \in [leased : BOOLEAN, size : 0..2]
    <3> HIDE DEF x
    <3> QED BY <2>5
  <2>7. sized = Ringed(c, RingOf(c, r, x), c.frames) /\ voided = Ringed(c, RingOf(c, r, y), c.frames)
    BY <1>1, <2>2 DEF Paths, Ringed, RingOf
  <2>8. lent = Ringed(c, RingOf(c, r, z), Y)
    <3>1. sized = [c EXCEPT !.ring = [c.ring EXCEPT ![r] = x]]
      BY <1>1, <2>2 DEF Paths
    <3> HIDE DEF x, sized
    <3>2. sized.ring = [c.ring EXCEPT ![r] = x] /\ sized.frames = c.frames /\ DOMAIN c.ring = 1..Transfers
      BY <1>1, <3>1 DEF Paths
    <3>3. sized.ring[r] = x
      BY <2>2, <3>2
    <3>4. lent = [sized EXCEPT !.ring = [sized.ring EXCEPT ![r] = z], !.frames = Y]
      BY <1>1, <3>1, <3>2, <3>3 DEF Paths
    <3> HIDE DEF z
    <3>5. [sized.ring EXCEPT ![r] = z] = [c.ring EXCEPT ![r] = z]
      BY <2>2, <3>2
    <3> QED BY ZenonT(60), <1>1, <3>1, <3>4, <3>5 DEF Paths, Ringed, RingOf
  <2>9. Y \in SUBSET FrameTypes /\ c.frames \in SUBSET FrameTypes
    <3>1. c.frames \subseteq FrameTypes /\ c.slots[i] \in SlotTypes /\ c.slots[i].display # 0
      BY <1>1, Typed DEF Kept
    <3>2. c.slots[i].display \in Displays
      BY <3>1 DEF SlotTypes
    <3>3. g \in FrameTypes
      BY <1>1, <2>2, <3>2 DEF g, Frame, FrameTypes
    <3> QED BY <3>1, <3>3
  <2> HIDE DEF sized, voided, lent, Y
  <2>10. ASSUME NEW w \in [leased : BOOLEAN, size : 0..2], NEW Z \in SUBSET FrameTypes, NEW b, b = Ringed(c, RingOf(c, r, w), Z)
         PROVE  /\ b \in Paths /\ Kin(b, c) /\ b.frames = Z /\ b.ring[r] = w
                /\ \A n \in 1..Transfers : n # r => b.ring[n] = c.ring[n]
    <3> DEFINE R == RingOf(c, r, w)
    <3>1. R \in Rings /\ R[r] = w /\ \A n \in 1..Transfers : n # r => R[n] = c.ring[n]
      BY <1>1, <2>2, <2>10, RingTyped
    <3> HIDE DEF R
    <3>2. b = Ringed(c, R, Z)
      BY <2>10 DEF R
    <3>3. /\ b \in Paths /\ b.ring = R /\ b.frames = Z
          /\ b.streams = c.streams /\ b.signals = c.signals /\ b.slots = c.slots /\ b.faulted = c.faulted
          /\ SameSet(b, c)
      BY <1>1, <3>1, <3>2, RingPut
    <3> QED BY <3>1, <3>3 DEF Kin
  <2> HIDE DEF x, y, z
  <2>12. CASE o = Call("OK", lent, 0)
    <3>1. IsCall(o) /\ o.result = "OK" /\ o.c = lent
      BY <2>12, CallIs
    <3>2. /\ lent \in Paths /\ Kin(lent, c) /\ lent.frames = Y /\ lent.ring[r] = z
          /\ \A n \in 1..Transfers : n # r => lent.ring[n] = c.ring[n]
      BY <2>6, <2>8, <2>9, <2>10
    <3>3. Borrowed(lent, c, i, r)
      BY <2>2, <2>6, <3>2 DEF Borrowed, Y, g
    <3> QED BY <3>1, <3>2, <3>3 DEF Imported
  <2>13. ASSUME NEW b, NEW w, w \in [leased : BOOLEAN, size : 0..2], w.leased = FALSE,
                b = Ringed(c, RingOf(c, r, w), c.frames), o = Fails(b)
         PROVE  Imported(o, c, i)
    <3>1. IsCall(o) /\ o.result # "OK" /\ o.c = b
      BY <2>13, FailsIs
    <3>2. /\ b \in Paths /\ Kin(b, c) /\ b.frames = c.frames /\ b.ring[r] = w
          /\ \A n \in 1..Transfers : n # r => b.ring[n] = c.ring[n]
      BY <2>9, <2>10, <2>13
    <3>3. SameLent(b, c)
      BY <2>2, <2>4, <2>13, <3>2 DEF SameLent
    <3> QED BY <3>1, <3>2, <3>3 DEF Imported
  <2> QED BY Zenon, <2>1, <2>5, <2>7, <2>12, <2>13
<1> QED BY <1>3, <1>4

-------------------------------------------------------------------------------
(* Frames that are offered.                                                   *)
Borne(b, c) == Settled(b, c) /\ b.running = c.running /\ (Runs(c) => Runs(b))

LEMMA BorneTwice ==
    ASSUME NEW a, NEW b, NEW c, Borne(a, b), Borne(b, c)
    PROVE  Borne(a, c)
BY DEF Borne, Settled, SameStreams

LEMMA BornePath ==
    ASSUME NEW b, NEW c
    PROVE  Carried(b, c) <=> Path(b) /\ Borne(b, c)
BY DEF Borne, Carried

LEMMA ReleasedPath ==
    ASSUME CallbacksOK, NEW c, NEW i, Lends(c, i), \A f \in c.frames : f.slot # i, NEW b, Released(b, c, i)
    PROVE  Path(b) /\ Borne(b, c)
<1>1. Unlent(b, c, i) /\ b.frames = c.frames /\ b.ring = c.ring
  BY DEF Released
<1>2. b.frames = {f \in c.frames : f.slot # i}
  BY <1>1
<1>3. \A r \in 1..Transfers : b.ring[r].leased <=> c.ring[r].leased /\ ~\E f \in c.frames : f.slot = i /\ f.texture = r
  BY <1>1
<1>4. Path(b) /\ Settled(b, c) /\ (Runs(c) => Runs(b))
  BY <1>1, <1>2, <1>3, UnlentPath
<1> QED BY <1>1, <1>4 DEF Borne, Unlent, SameSet

(* The frame of a slot that is lent is copied or released, and its copy kept  *)
(* or taken back.                                                             *)
LEMMA Copies ==
    ASSUME CallbacksOK, NEW c, NEW i, Lends(c, i), \A f \in c.frames : f.slot # i, NEW d, c.slots[i].display = d,
           NEW q \in Import(c, i)
    PROVE  /\ IsCall(q)
           /\ q.result = "OK" => /\ Path(q.c) /\ Borne(q.c, c)
                                /\ \A x \in Retire(q.c, FrameOf(q.c, i)) : Path(x.c) /\ Borne(x.c, c)
           /\ q.result # "OK" => \A x \in Release(q.c, i, d) : Path(x.c) /\ Borne(x.c, c)
<1>1. Imported(q, c, i)
  BY Imports
<1>2. IsCall(q) /\ q.c \in Paths /\ Kin(q.c, c) /\ c \in Paths
  BY <1>1 DEF Imported, Lends
<1>3. CASE q.result = "OK"
  <2>1. PICK r : Borrowed(q.c, c, i, r)
    BY <1>1, <1>3 DEF Imported
  <2>2. Path(q.c) /\ Settled(q.c, c) /\ q.c.running = c.running /\ (Runs(c) => Runs(q.c))
        /\ \E f \in q.c.frames : f.slot = i /\ f.display = c.slots[i].display
    BY <1>2, <2>1, Borrows
  <2>3. PICK f \in q.c.frames : f.slot = i
    BY <2>2
  <2>4. FrameOf(q.c, i) = f
    BY <2>2, <2>3, FrameIs DEF Path, Lending
  <2>5. Borne(q.c, c)
    BY <2>2 DEF Borne
  <2>6. \A x \in Retire(q.c, f) : Path(x.c) /\ Borne(x.c, q.c)
    BY <2>2, <2>3, Retires DEF Retired, Borne
  <2> QED BY <1>2, <1>3, <2>2, <2>4, <2>5, <2>6, BorneTwice
<1>4. CASE q.result # "OK"
  <2>1. SameLent(q.c, c)
    BY <1>1, <1>4 DEF Imported
  <2>2. Lends(q.c, i)
    BY <1>2, <2>1, KinLends
  <2>3. (\A f \in q.c.frames : f.slot # i) /\ q.c.slots[i].display = d
    BY <1>2, <2>1 DEF SameLent, Kin
  <2>4. \A x \in Release(q.c, i, d) : Released(x.c, q.c, i)
    BY <2>2, <2>3, Releases
  <2>5. \A x \in Release(q.c, i, d) : Path(x.c) /\ Borne(x.c, q.c)
    BY <2>2, <2>3, <2>4, ReleasedPath
  <2>6. Borne(q.c, c)
    <3>1. SameStreams(q.c, c) /\ SameRuns(q.c, c) /\ SameSet(q.c, c)
      BY <1>2, KinSame DEF Kin
    <3> QED BY <1>2, <3>1, SameRunning DEF Borne, Settled, SameSet
  <2> QED BY <1>2, <1>4, <2>5, <2>6, BorneTwice
<1> QED BY <1>3, <1>4

LEMMA Refuses ==
    ASSUME NEW r, IsCall(r), NEW z, z = [r EXCEPT !.result = "REFUSED", !.cost = @ + 1]
    PROVE  IsCall(z) /\ z.c = r.c
<1> DEFINE y == [r EXCEPT !.result = "REFUSED"]
<1>1. z = [y EXCEPT !.cost = @ + 1]
  BY DEF IsCall
<1>2. IsCall(y) /\ y.c = r.c
  BY Renamed
<1> HIDE DEF y
<1> QED BY <1>1, <1>2 DEF IsCall

LEMMA OffersDisplay ==
    ASSUME CallbacksOK, ContentOK, NEW c, Path(c), NEW d, NEW o \in OfferDisplay(c, d)
    PROVE  IsCall(o) /\ Carried(o.c, c)
<1> DEFINE Back(i, b) == Release(b, i, d)
           Taken2(i, b) == Retire(b, FrameOf(b, i))
           Refused(q) == [q EXCEPT !.result = "REFUSED", !.cost = @ + 1]
           Outs(i, q) == IF q.result # "OK" THEN Regardless({q}, LAMBDA a : Back(i, a))
                         ELSE {q} \cup Regardless({Refused(q)}, LAMBDA a : Taken2(i, a))
           Lent(i, b) == UNION {Outs(i, q) : q \in Import(b, i)}
           Whole(b) == Lent(First(SlotOf(b, d)), b)
<1>1. PICK q \in Acquire(c, d) : o \in CASE q.result = "BUSY" -> {[q EXCEPT !.result = "OK"]}
                                      [] q.result = "OK" -> Then({q}, LAMBDA b : Whole(b))
                                      [] OTHER -> {q}
  BY Zenon DEF OfferDisplay
<1>2. Acquired(q, c, d)
  BY Zenon, <1>1, Acquires
<1>3. IsCall(q)
  BY <1>2 DEF Acquired
<1> HIDE DEF Whole
<1>4. CASE q.result = "BUSY"
  <2>1. o = [q EXCEPT !.result = "OK"]
    BY <1>1, <1>4
  <2>2. IsCall(o) /\ o.c = q.c
    BY <1>3, <2>1, Renamed
  <2> QED BY <1>2, <1>4, <2>2 DEF Acquired
<1>5. CASE q.result # "BUSY" /\ q.result # "OK"
  <2>1. o = q
    BY <1>1, <1>5
  <2> QED BY <1>2, <1>5, <2>1 DEF Acquired
<1>6. CASE q.result = "OK"
  <2> DEFINE b == q.c
             i == First(SlotOf(b, d))
  <2>1. i \in SlotOf(b, d) /\ Loaned(b, c, i)
    BY <1>2, <1>6 DEF Acquired
  <2>2. o \in Then({q}, LAMBDA a : Whole(a))
    BY <1>1, <1>6
  <2>3. \E x \in Whole(b) : o = [x EXCEPT !.cost = @ + q.cost]
    BY <1>6, <2>2 DEF Then, Affordable
  <2>4. PICK x \in Whole(b) : o = [x EXCEPT !.cost = @ + q.cost]
    BY <2>3
  <2>5. b.slots[i].display = d
    BY <2>1 DEF SlotOf
  <2>6. Lends(b, i) /\ (\A f \in b.frames : f.slot # i) /\ Settled(b, c) /\ b.running = c.running /\ (Runs(c) => Runs(b))
    BY <2>1, LoanedLends
  <2>7. Borne(b, c)
    BY <2>6 DEF Borne
  <2> HIDE DEF Outs
  <2>8. \E r \in Import(b, i) : x \in Outs(i, r)
    BY <2>4 DEF Whole
  <2> HIDE DEF i, b
  <2>9. PICK r \in Import(b, i) : x \in Outs(i, r)
    BY <2>8
  <2>10. /\ IsCall(r)
         /\ r.result = "OK" => /\ Path(r.c) /\ Borne(r.c, b)
                              /\ \A y \in Taken2(i, r.c) : Path(y.c) /\ Borne(y.c, b)
         /\ r.result # "OK" => \A y \in Back(i, r.c) : Path(y.c) /\ Borne(y.c, b)
    BY <2>5, <2>6, <2>9, Copies
  <2> HIDE DEF Back, Taken2
  <2>11. IsCall(x) /\ Path(x.c) /\ Borne(x.c, b)
    <3>1. CASE r.result # "OK"
      <4>1. x \in Regardless({r}, LAMBDA a : Back(i, a))
        BY <2>9, <3>1 DEF Outs
      <4>2. \E y \in Back(i, r.c) : x = [r EXCEPT !.c = y.c, !.cost = @ + y.cost]
        BY ZenonT(120), <4>1 DEF Regardless, Affordable
      <4>3. PICK y \in Back(i, r.c) : x = [r EXCEPT !.c = y.c, !.cost = @ + y.cost]
        BY Zenon, <4>2
      <4>4. IsCall(x) /\ x.c = y.c
        BY <2>10, <4>3 DEF IsCall
      <4> QED BY <2>10, <3>1, <4>3, <4>4
    <3>2. CASE r.result = "OK"
      <4>1. x = r \/ x \in Regardless({Refused(r)}, LAMBDA a : Taken2(i, a))
        BY <2>9, <3>2 DEF Outs
      <4>2. CASE x = r
        BY <2>10, <3>2, <4>2
      <4>3. CASE x \in Regardless({Refused(r)}, LAMBDA a : Taken2(i, a))
        <5> DEFINE z == Refused(r)
        <5>0. IsCall(r)
          BY <2>10
        <5> HIDE DEF Outs
        <5>1. IsCall(z) /\ z.c = r.c
          BY Zenon, <5>0, Refuses
        <5> HIDE DEF Refused
        <5>2. \E y \in Taken2(i, z.c) : x = [z EXCEPT !.c = y.c, !.cost = @ + y.cost]
          BY ZenonT(120), <4>3 DEF Regardless, Affordable
        <5>3. PICK y \in Taken2(i, z.c) : x = [z EXCEPT !.c = y.c, !.cost = @ + y.cost]
          BY Zenon, <5>2
        <5> HIDE DEF z
        <5>4. IsCall(x) /\ x.c = y.c
          BY <5>1, <5>3 DEF IsCall
        <5> QED BY <2>10, <3>2, <5>1, <5>3, <5>4
      <4> QED BY <4>1, <4>2, <4>3
    <3> QED BY <3>1, <3>2
  <2>12. IsCall(o) /\ o.c = x.c
    BY <2>4, <2>11, Costs
  <2> QED BY <2>7, <2>11, <2>12, BorneTwice, BornePath
<1> QED BY <1>4, <1>5, <1>6

LEMMA OffersFrames ==
    ASSUME CallbacksOK, ContentOK, NEW c, Path(c), NEW items \in SUBSET Displays, NEW o \in OfferFrames(c, items)
    PROVE  IsCall(o) /\ Carried(o.c, c)
<1> DEFINE A == {Call("OK", c, 0)}
           P(m, q) == IsCall(q) /\ Carried(q.c, c)
<1>1. items \in SUBSET (Nat \ {0}) /\ IsFiniteSet(items)
  <2>1. IsFiniteSet(Displays) /\ Displays \subseteq Nat \ {0}
    BY CaptureAssumption
  <2>2. IsFiniteSet(items)
    BY <2>1, FS_Subset
  <2> QED BY <2>1, <2>2
<1>2. PICK F : OfferFrames(c, items) = F[Last(items)] /\ Turned(F, "offer", FALSE, A, items)
  BY <1>1, OfferTurns
<1>3. Last(items) \in Nat /\ items \subseteq 1..Last(items)
  BY <1>1, LastIs
<1>4. \A q \in A : P(0, q)
  BY CallIs, CarriedSelf
<1>5. \A m \in 1..Last(items) : m \notin items => \A q : P(m - 1, q) => P(m, q)
  OBVIOUS
<1>6. ASSUME NEW m \in items, NEW p, P(m - 1, p), p.result = "OK", NEW x \in OfferDisplay(p.c, m),
             NEW q, q = [x EXCEPT !.cost = @ + p.cost]
      PROVE  P(m, q)
  <2>1. Path(p.c)
    BY <1>6 DEF Carried
  <2>2. IsCall(x) /\ Carried(x.c, p.c)
    BY <1>6, <2>1, OffersDisplay
  <2>3. IsCall(q) /\ q.c = x.c
    BY <1>6, <2>2, Costs
  <2> QED BY <1>6, <2>2, <2>3, CarriedTwice
<1>7. \A m \in items : \A q : P(m - 1, q) /\ q.result # "OK" => P(m, q)
  OBVIOUS
<1>8. \A q \in F[Last(items)] : P(Last(items), q)
  <2> DEFINE G == [m \in 0..Last(items) |-> {q \in F[m] : P(m, q)}]
  <2> HIDE DEF P, A
  <2>1. \A m \in items : \A p, q : P(m - 1, p) /\ p.result = "OK" =>
          \A x \in Does("offer", FALSE, p.c, m) : q = [x EXCEPT !.cost = @ + p.cost] => P(m, q)
    BY <1>6 DEF Does
  <2>2. \A m \in 0..Last(items) : \A q : q \in G[m] <=> q \in F[m] /\ P(m, q)
    OBVIOUS
  <2> HIDE DEF G
  <2>3. A \subseteq G[0]
    <3>1. 0 \in 0..Last(items)
      BY <1>3
    <3>2. F[0] = A
      BY <1>2 DEF Turned
    <3> QED BY <1>4, <2>2, <3>1, <3>2
  <2>4. \A m \in 1..Last(items) : m - 1 \in 0..Last(items) /\ m \in 0..Last(items)
    BY <1>3
  <2>5. \A m \in 1..Last(items) : m \notin items => \A q \in F[m] : q \in G[m - 1] => q \in G[m]
    BY <1>5, <2>2, <2>4
  <2>6. \A m \in items : \A p \in G[m - 1] : \A q \in F[m] :
           IF p.result = "OK" THEN \A x \in Does("offer", FALSE, p.c, m) : q = [x EXCEPT !.cost = @ + p.cost] => q \in G[m]
           ELSE q = p => q \in G[m]
    BY <1>3, <1>7, <2>1, <2>2, <2>4
  <2>7. Keeps(F, G, "offer", FALSE, items)
    BY <2>5, <2>6 DEF Keeps
  <2>8. F[Last(items)] \subseteq G[Last(items)]
    BY <1>1, <1>2, <2>3, <2>7, TurnsKeep
  <2> QED BY <1>3, <2>2, <2>8
<1> QED BY <1>2, <1>8

-------------------------------------------------------------------------------
(* The pipeline.                                                              *)
LEMMA Shuts ==
    ASSUME CallbacksOK, NEW c, Path(c), c.frames = {}, NEW o \in ShutdownSet(c)
    PROVE  IsCall(o) /\ Path(o.c) /\ (o.result # "OK" => o.c.faulted # {})
<1>1. CASE \E i \in SlotsOf(c) : c.slots[i].leased
  <2>1. o = Call("BUSY", c, 0)
    BY Zenon, <1>1 DEF ShutdownSet
  <2>2. PICK i \in SlotsOf(c) : c.slots[i].leased
    BY <1>1
  <2>3. i \in c.faulted
    BY <2>2 DEF Path, Lending, Held, SlotsOf
  <2> QED BY <2>1, <2>3, CallIs
<1>2. CASE ~\E i \in SlotsOf(c) : c.slots[i].leased
  <2> DEFINE Also(b) == Call("OK", [b EXCEPT !.running = FALSE], 0)
  <2>1. o \in Then(RemoveAll(c, SlotsOf(c)), LAMBDA b : {Also(b)})
    BY Zenon, <1>2 DEF ShutdownSet
  <2> HIDE DEF Also
  <2>2. \E q \in RemoveAll(c, SlotsOf(c)) :
           IF q.result = "OK" THEN \E x \in {Also(q.c)} : o = [x EXCEPT !.cost = @ + q.cost] ELSE o = q
    BY <2>1 DEF Then, Affordable
  <2>3. PICK q \in RemoveAll(c, SlotsOf(c)) : IF q.result = "OK" THEN o = [Also(q.c) EXCEPT !.cost = @ + q.cost] ELSE o = q
    BY <2>2
  <2>4. RemovedAll(q, c, SlotsOf(c))
    BY <1>2, <2>3, RemovesAll
  <2>5. CASE q.result # "OK"
    BY <2>3, <2>4, <2>5 DEF RemovedAll
  <2>6. CASE q.result = "OK"
    <3> DEFINE b == [q.c EXCEPT !.running = FALSE]
    <3>1. IsCall(Also(q.c)) /\ Also(q.c).result = "OK" /\ Also(q.c).c = b
      BY CallIs DEF Also
    <3>2. IsCall(o) /\ o.result = "OK" /\ o.c = b
      BY <2>3, <2>6, <3>1, Costs
    <3>3. q.c \in Paths /\ Path(q.c)
      BY <2>4 DEF RemovedAll, Path
    <3>4. b \in Paths
      BY <3>3 DEF Paths
    <3>5. /\ b.streams = q.c.streams /\ b.signals = q.c.signals /\ b.slots = q.c.slots /\ b.ring = q.c.ring
          /\ b.frames = q.c.frames /\ b.faulted = q.c.faulted
      BY <3>3 DEF Paths
    <3> HIDE DEF b
    <3>6. Path(b)
      BY <3>3, <3>4, <3>5, PartsPath
    <3> QED BY <3>2, <3>6
  <2> QED BY <2>5, <2>6
<1> QED BY <1>1, <1>2

LEMMA TakesDown ==
    ASSUME CallbacksOK, NEW c, Path(c), NEW o \in TakenDown(c)
    PROVE  IsCall(o) /\ Path(o.c) /\ (o.result # "OK" => o.c.faulted # {})
<1> DEFINE slots == {f.slot : f \in c.frames}
           Out(q) == IF q.c.frames # {} \/ \E r \in 1..Transfers : q.c.ring[r].leased
                     THEN {[q EXCEPT !.result = "BUSY"]} ELSE Then({q}, ShutdownSet)
<1>1. o \in UNION {Out(q) : q \in RetireAll(c, slots)}
  BY DEF TakenDown
<1> HIDE DEF Out
<1>2. PICK q \in RetireAll(c, slots) : o \in Out(q)
  BY <1>1
<1>3. \A i \in slots : \E f \in c.frames : f.slot = i
  OBVIOUS
<1>4. RetiredAll(q, c, slots)
  <2> HIDE DEF slots
  <2> QED BY <1>2, <1>3, RetiresAll
<1>5. Path(q.c) /\ q.result = "OK" /\ q.c.frames = {}
  BY <1>4 DEF RetiredAll
<1>6. ~\E r \in 1..Transfers : q.c.ring[r].leased
  BY <1>5 DEF Path, Lending, Held
<1>7. o \in Then({q}, ShutdownSet)
  BY <1>2, <1>5, <1>6 DEF Out
<1>8. \E x \in ShutdownSet(q.c) : o = [x EXCEPT !.cost = @ + q.cost]
  BY <1>5, <1>7 DEF Then, Affordable
<1>9. PICK x \in ShutdownSet(q.c) : o = [x EXCEPT !.cost = @ + q.cost]
  BY <1>8
<1>10. IsCall(x) /\ Path(x.c) /\ (x.result # "OK" => x.c.faulted # {})
  BY <1>5, <1>9, Shuts
<1>11. IsCall(o) /\ o.result = x.result /\ o.c = x.c
  BY <1>9, <1>10, Costs
<1> QED BY <1>10, <1>11

LEMMA CarriedWell ==
    ASSUME NEW b, NEW c, Carried(b, c), NEW shown, Well(c, shown)
    PROVE  Well(b, shown)
BY SettledLined DEF Carried, Well

LEMMA RunsWell ==
    ASSUME CallbacksOK, NEW c, NEW shown, Well(c, shown), NEW enabled \in BOOLEAN, NEW o \in SetRunning(c, enabled)
    PROVE  IsCall(o) /\ Well(o.c, shown)
<1>1. IsCall(o) /\ Path(o.c) /\ Runs(o.c) /\ Settled(o.c, c)
  BY SetsRunning DEF Well
<1> QED BY <1>1, SettledLined DEF Well

(* A turn leaves the path as well as it found it.                             *)
LEMMA Turns ==
    ASSUME CallbacksOK, ContentOK, layout.displays \in SUBSET Displays, layout.epoch \in Nat,
           NEW c, Well(c, layout), NEW offers, NEW scope \in SUBSET layout.displays, NEW retiring, NEW stops,
           NEW o \in Turn(c, offers, scope, retiring, stops)
    PROVE  IsCall(o) /\ Well(o.c, layout)
<1> DEFINE Synchronized == IF c.pending THEN SynchronizeTopology(c, layout) ELSE {Call("OK", c, 0)}
           Going == {IF q.result = "BUSY" THEN [q EXCEPT !.result = "OK"] ELSE q : q \in Synchronized}
           Offered(b) == IF offers /\ b.running /\ ~b.pending THEN OfferFrames(b, scope) ELSE {Call("OK", b, 0)}
           Slots(b) == {f.slot : f \in {f \in b.frames : f.display \in retiring}}
           Ended(b) == RetireAll(b, Slots(b))
           Idle(b) == IF stops /\ b.running THEN SetRunning(b, FALSE) ELSE {Call("OK", b, 0)}
           Two1 == Then(Going, LAMBDA b : Offered(b))
           Three == Then(Two1, LAMBDA b : Ended(b))
<1>1. o \in Then(Three, LAMBDA b : Idle(b))
  BY Zenon DEF Turn
<1>2. \A q \in Synchronized : IsCall(q) /\ Well(q.c, layout)
  BY CallIs, SynchronizesTopology
<1> HIDE DEF Synchronized
<1>3. \A q \in Going : IsCall(q) /\ Well(q.c, layout)
  BY <1>2, Renamed
<1> HIDE DEF Going
<1>4. \A b : Well(b, layout) => \A x \in Offered(b) : IsCall(x) /\ Well(x.c, layout)
  <2> SUFFICES ASSUME NEW b, Well(b, layout), NEW x \in Offered(b)
               PROVE  IsCall(x) /\ Well(x.c, layout)
    OBVIOUS
  <2>1. CASE x \in OfferFrames(b, scope)
    <3>1. scope \in SUBSET Displays /\ Path(b)
      BY DEF Well
    <3>2. IsCall(x) /\ Carried(x.c, b)
      BY <2>1, <3>1, OffersFrames
    <3> QED BY <3>2, CarriedWell
  <2>2. CASE x = Call("OK", b, 0)
    BY <2>2, CallIs
  <2> QED BY <2>1, <2>2
<1> HIDE DEF Offered
<1>5. \A b : Well(b, layout) => \A x \in Ended(b) : IsCall(x) /\ Well(x.c, layout)
  <2> SUFFICES ASSUME NEW b, Well(b, layout), NEW x \in Ended(b)
               PROVE  IsCall(x) /\ Well(x.c, layout)
    OBVIOUS
  <2>1. \A i \in Slots(b) : \E f \in b.frames : f.slot = i
    OBVIOUS
  <2>2. Path(b) /\ x \in RetireAll(b, Slots(b))
    BY DEF Well
  <2> HIDE DEF Slots
  <2>3. RetiredAll(x, b, Slots(b))
    BY <2>1, <2>2, RetiresAll
  <2>4. IsCall(x) /\ Carried(x.c, b)
    BY <2>3 DEF RetiredAll, Carried
  <2> QED BY <2>4, CarriedWell
<1> HIDE DEF Ended
<1>6. \A b : Well(b, layout) => \A x \in Idle(b) : IsCall(x) /\ Well(x.c, layout)
  <2> SUFFICES ASSUME NEW b, Well(b, layout), NEW x \in Idle(b)
               PROVE  IsCall(x) /\ Well(x.c, layout)
    OBVIOUS
  <2>1. CASE x \in SetRunning(b, FALSE)
    <3> DEFINE off == FALSE
    <3>1. x \in SetRunning(b, off) /\ off \in BOOLEAN
      BY <2>1
    <3> HIDE DEF off
    <3> QED BY <3>1, RunsWell
  <2>2. CASE x = Call("OK", b, 0)
    BY <2>2, CallIs
  <2> QED BY <2>1, <2>2
<1> HIDE DEF Idle
<1>7. \A q \in Two1 : IsCall(q) /\ Well(q.c, layout)
  <2> SUFFICES ASSUME NEW q \in Two1
               PROVE  IsCall(q) /\ Well(q.c, layout)
    OBVIOUS
  <2>1. PICK p \in Going : IF p.result = "OK" THEN \E x \in Offered(p.c) : q = [x EXCEPT !.cost = @ + p.cost] ELSE q = p
    BY DEF Then, Affordable
  <2> QED BY <1>3, <1>4, <2>1, Costs
<1> HIDE DEF Two1
<1>8. \A q \in Three : IsCall(q) /\ Well(q.c, layout)
  <2> SUFFICES ASSUME NEW q \in Three
               PROVE  IsCall(q) /\ Well(q.c, layout)
    OBVIOUS
  <2>1. PICK p \in Two1 : IF p.result = "OK" THEN \E x \in Ended(p.c) : q = [x EXCEPT !.cost = @ + p.cost] ELSE q = p
    BY DEF Then, Affordable
  <2> QED BY <1>5, <1>7, <2>1, Costs
<1> HIDE DEF Three
<1>9. PICK p \in Three : IF p.result = "OK" THEN \E x \in Idle(p.c) : o = [x EXCEPT !.cost = @ + p.cost] ELSE o = p
  BY <1>1 DEF Then, Affordable
<1> QED BY <1>6, <1>8, <1>9, Costs

-------------------------------------------------------------------------------
(* The capture path holds together, also in a pipeline that was taken down;   *)
(* while it is up its streams run as the set does and follow the layout.      *)
CaptureInv ==
  /\ CallbacksOK /\ ContentOK /\ layout.displays \in SUBSET Displays /\ layout.epoch \in Nat
  /\ phase \in {"up", "down", "stuck"}
  /\ Path(capture) /\ (Up => Well(capture, layout)) /\ (phase = "stuck" => capture.faulted # {})

(* A path is as well after a step that leaves the reports alone.              *)
LEMMA PathNext ==
    ASSUME NEW c, capture' = c, UNCHANGED <<callbacks, overtaken>>
    PROVE  Path(c) => Path(capture)'
<1> SUFFICES ASSUME Path(c)
             PROVE  Path(capture)'
  OBVIOUS
<1>1. SlotsOf(capture)' = SlotsOf(c)
  BY DEF SlotsOf
<1>2. /\ Signalled(capture)' /\ Reports(capture)' /\ Apart(capture)' /\ Owned(capture)'
  BY <1>1 DEF Path, Fitted, Signalled, Reports, Apart, Owned
<1>3. Own(capture)'
  BY SMTT(30) DEF Path, Fitted, Own, Closed
<1>4. Kept(capture)'
  BY <1>1 DEF Path, Fitted, Kept, Live
<1>5. Resting(capture)' /\ Alone(capture)' /\ Held(capture)'
  BY SMTT(30) DEF Path, Lending, Resting, Alone, Held
<1>6. Holding(capture)'
  BY DEF Path, Lending, Holding, Live
<1>7. capture' \in Paths
  BY DEF Path
<1>8. Fitted(capture)'
  BY <1>2, <1>3, <1>4 DEF Fitted
<1>9. Lending(capture)'
  BY <1>5, <1>6 DEF Lending
<1> QED BY <1>5, <1>7, <1>8, <1>9 DEF Path, Paths, StreamTypes

LEMMA WellNext ==
    ASSUME NEW c, capture' = c, UNCHANGED <<callbacks, overtaken>>, NEW shown, layout' = shown, Well(c, shown)
    PROVE  Well(capture, layout)'
<1>1. Path(capture)'
  BY PathNext DEF Well
<1>2. SlotsOf(capture)' = SlotsOf(c)
  BY DEF SlotsOf
<1>3. Runs(capture)'
  BY <1>2 DEF Well, Runs, RunAs
<1>4. Shown(capture)' = Shown(c)
  BY <1>2 DEF Shown
<1>5. Lined(capture, layout)'
  BY <1>4 DEF Well, Lined
<1> QED BY <1>1, <1>3, <1>5 DEF Well

(* What comes of a call on a pipeline that is up.                             *)
LEMMA Becomes ==
    ASSUME CallbacksOK, Up, NEW shown, NEW outcomes, \A o \in outcomes : IsCall(o) /\ Well(o.c, shown),
           NEW reacts, Become(outcomes, reacts)
    PROVE  \E c : /\ capture' = c /\ Path(c) /\ phase' \in {"up", "down", "stuck"}
                  /\ phase' = "up" => Well(c, shown)
                  /\ phase' = "stuck" => c.faulted # {}
<1>1. PICK o \in outcomes :
         IF o.result = "BACKEND" /\ reacts
         THEN \E t \in Affordable({[p EXCEPT !.cost = @ + o.cost] : p \in TakenDown(o.c)}) :
                /\ capture' = t.c /\ failures' = failures + t.cost
                /\ phase' = IF t.result = "OK" THEN "down" ELSE "stuck"
         ELSE /\ capture' = o.c /\ failures' = failures + o.cost
              /\ UNCHANGED phase
  BY DEF Become, Affordable
<1>2. Well(o.c, shown) /\ Path(o.c)
  BY <1>1 DEF Well
<1>3. CASE o.result = "BACKEND" /\ reacts
  <2>1. PICK t \in Affordable({[p EXCEPT !.cost = @ + o.cost] : p \in TakenDown(o.c)}) :
           capture' = t.c /\ phase' = IF t.result = "OK" THEN "down" ELSE "stuck"
    BY <1>1, <1>3
  <2>2. PICK p \in TakenDown(o.c) : t = [p EXCEPT !.cost = @ + o.cost]
    BY <2>1 DEF Affordable
  <2>3. IsCall(p) /\ Path(p.c) /\ (p.result # "OK" => p.c.faulted # {})
    BY <1>2, <2>2, TakesDown
  <2>4. IsCall(t) /\ t.result = p.result /\ t.c = p.c
    BY <2>2, <2>3, Costs
  <2> QED BY <2>1, <2>3, <2>4
<1>4. CASE ~(o.result = "BACKEND" /\ reacts)
  <2>1. capture' = o.c /\ phase' = phase
    BY <1>1, <1>4
  <2> QED BY <1>2, <2>1 DEF Up
<1> QED BY <1>3, <1>4

LEMMA BecomesInv ==
    ASSUME CaptureInv, Up, NEW outcomes, NEW reacts, Become(outcomes, reacts), NEW shown, layout' = shown,
           shown.displays \in SUBSET Displays, shown.epoch \in Nat,
           \A o \in outcomes : IsCall(o) /\ Well(o.c, shown), UNCHANGED <<world, callbacks, overtaken>>
    PROVE  CaptureInv'
<1>1. PICK c : /\ capture' = c /\ Path(c) /\ phase' \in {"up", "down", "stuck"}
               /\ phase' = "up" => Well(c, shown)
               /\ phase' = "stuck" => c.faulted # {}
  BY Becomes DEF CaptureInv
<1>2. CallbacksOK' /\ ContentOK'
  BY DEF CaptureInv, CallbacksOK, ContentOK, world
<1>3. Path(capture)'
  BY <1>1, PathNext
<1>4. Up' => Well(capture, layout)'
  BY <1>1, WellNext DEF Up
<1> QED BY <1>1, <1>2, <1>3, <1>4 DEF CaptureInv

LEMMA AdvanceKeeps == CaptureInv /\ Advance => CaptureInv'
<1> SUFFICES ASSUME CaptureInv, Advance
             PROVE  CaptureInv'
  OBVIOUS
<1>1. PICK offers \in BOOLEAN, stops \in BOOLEAN, scope \in SUBSET layout.displays \ {{}}, retiring \in SUBSET Displays :
         Become(Turn(capture, offers, scope, retiring, stops), TRUE)
  BY DEF Advance
<1>2. Up /\ layout' = layout /\ UNCHANGED <<world, callbacks, overtaken>>
  BY DEF Advance
<1> DEFINE outs == Turn(capture, offers, scope, retiring, stops)
<1>3. \A o \in outs : IsCall(o) /\ Well(o.c, layout)
  BY <1>2, Turns DEF CaptureInv
<1> HIDE DEF outs
<1> QED BY <1>1, <1>2, <1>3, BecomesInv DEF CaptureInv, outs

LEMMA SetRunsWell ==
    ASSUME CallbacksOK, NEW c, NEW shown, Well(c, shown), NEW o
    PROVE  (o \in SetRunning(c, TRUE) \/ o \in SetRunning(c, FALSE)) => IsCall(o) /\ Well(o.c, shown)
<1>1. \A enabled \in BOOLEAN : o \in SetRunning(c, enabled) => IsCall(o) /\ Well(o.c, shown)
  BY RunsWell
<1> DEFINE on == TRUE
           off == FALSE
<1>2. on \in BOOLEAN /\ off \in BOOLEAN
  OBVIOUS
<1> HIDE DEF on, off
<1>3. (o \in SetRunning(c, on) \/ o \in SetRunning(c, off)) => IsCall(o) /\ Well(o.c, shown)
  BY <1>1, <1>2
<1> QED BY <1>3 DEF on, off

LEMMA RequestKeepsCapture == CaptureInv /\ Request => CaptureInv'
<1> SUFFICES ASSUME CaptureInv, Request
             PROVE  CaptureInv'
  OBVIOUS
<1> DEFINE Synchronized == IF capture.pending THEN SynchronizeTopology(capture, layout) ELSE {Call("OK", capture, 0)}
           Runner(c) == SetRunning(c, TRUE)
           outs == Then(Synchronized, LAMBDA c : Runner(c))
<1>1. Up /\ layout' = layout /\ UNCHANGED <<world, callbacks, overtaken>> /\ Become(outs, FALSE)
  BY DEF Request
<1>2. Well(capture, layout) /\ CallbacksOK /\ ContentOK /\ layout.displays \in SUBSET Displays /\ layout.epoch \in Nat
  BY <1>1 DEF CaptureInv
<1>3. \A q \in Synchronized : IsCall(q) /\ Well(q.c, layout)
  BY <1>2, CallIs, SynchronizesTopology
<1>4. \A c : Well(c, layout) => \A x \in Runner(c) : IsCall(x) /\ Well(x.c, layout)
  BY <1>2, SetRunsWell
<1> HIDE DEF Synchronized, Runner
<1>5. \A o \in outs : IsCall(o) /\ Well(o.c, layout)
  <2> SUFFICES ASSUME NEW o \in outs
               PROVE  IsCall(o) /\ Well(o.c, layout)
    OBVIOUS
  <2>1. PICK p \in Synchronized : IF p.result = "OK" THEN \E x \in Runner(p.c) : o = [x EXCEPT !.cost = @ + p.cost] ELSE o = p
    BY DEF Then, Affordable
  <2> QED BY <1>3, <1>4, <2>1, Costs
<1> HIDE DEF outs
<1> QED BY <1>1, <1>2, <1>5, BecomesInv

LEMMA EndSessionKeeps == CaptureInv /\ EndSession => CaptureInv'
<1> SUFFICES ASSUME CaptureInv, EndSession
             PROVE  CaptureInv'
  OBVIOUS
<1> DEFINE outs == SetRunning(capture, FALSE)
<1>1. Up /\ layout' = layout /\ UNCHANGED <<world, callbacks, overtaken>> /\ Become(outs, FALSE)
  BY DEF EndSession
<1>2. Well(capture, layout) /\ CallbacksOK /\ layout.displays \in SUBSET Displays /\ layout.epoch \in Nat
  BY <1>1 DEF CaptureInv
<1>3. \A o \in outs : IsCall(o) /\ Well(o.c, layout)
  BY <1>2, SetRunsWell
<1> HIDE DEF outs
<1> QED BY <1>1, <1>2, <1>3, BecomesInv

LEMMA RefreshKeeps == CaptureInv /\ RefreshTopology => CaptureInv'
<1> SUFFICES ASSUME CaptureInv, RefreshTopology
             PROVE  CaptureInv'
  OBVIOUS
<1> DEFINE changed == layout.displays # attached \/ layout.sizes # content
           now == [displays |-> attached, sizes |-> content, epoch |-> layout.epoch + IF changed THEN 1 ELSE 0]
           asked == [capture EXCEPT !.pending = @ \/ changed]
           outs == IF asked.pending THEN SynchronizeTopology(asked, now) ELSE {Call("OK", asked, 0)}
<1>1. /\ Up /\ UNCHANGED <<world, callbacks, overtaken>>
      /\ (Become({Fails(capture)}, TRUE) /\ layout' = layout) \/ (Become(outs, TRUE) /\ layout' = now)
  BY DEF RefreshTopology
<1>2. /\ Well(capture, layout) /\ CallbacksOK /\ ContentOK
      /\ layout.displays \in SUBSET Displays /\ layout.epoch \in Nat
  BY <1>1 DEF CaptureInv
<1>3. Path(capture) /\ Runs(capture) /\ Lined(capture, layout) /\ capture \in Paths
  BY <1>2 DEF Well, Path
<1>4. CASE Become({Fails(capture)}, TRUE) /\ layout' = layout
  <2> DEFINE fails == {Fails(capture)}
  <2>1. \A o \in fails : IsCall(o) /\ Well(o.c, layout)
    BY <1>2, FailsIs
  <2>2. Become(fails, TRUE)
    BY <1>4
  <2> HIDE DEF fails
  <2> QED BY <1>1, <1>2, <1>4, <2>1, <2>2, BecomesInv
<1>5. CASE Become(outs, TRUE) /\ layout' = now
  <2> DEFINE pending == capture.pending \/ changed
  <2>1. now.displays = attached /\ now.displays \in SUBSET Displays /\ now.epoch \in Nat
        /\ (changed => now.epoch = layout.epoch + 1) /\ (~changed => now.epoch = layout.epoch /\ now.displays = layout.displays)
    BY <1>2 DEF ContentOK
  <2>2. capture.pending \in BOOLEAN /\ capture.epoch \in Nat
    BY <1>3 DEF Paths
  <2>3. asked = Pended(capture, pending) /\ pending \in BOOLEAN
    BY <1>3, <2>2 DEF Pended, Paths
  <2> HIDE DEF changed, now
  <2>4. /\ Path(asked) /\ Shown(asked) = Shown(capture) /\ asked.running = capture.running /\ asked.epoch = capture.epoch
        /\ asked.pending = pending /\ Runs(asked)
    <3> HIDE DEF asked, pending
    <3> QED BY <1>2, <1>3, <2>3, Pends
  <2>5. Lined(asked, now)
    <3> HIDE DEF asked
    <3>1. /\ capture.epoch <= layout.epoch /\ (capture.epoch = layout.epoch => Shown(capture) = layout.displays)
          /\ ~capture.pending => capture.epoch = layout.epoch
      BY <1>3 DEF Lined
    <3>2. CASE changed
      <4>1. asked.epoch < now.epoch /\ asked.epoch # now.epoch /\ asked.epoch <= now.epoch
        BY <1>2, <2>1, <2>2, <2>4, <3>1, <3>2
      <4>2. asked.pending
        BY <2>4, <3>2
      <4> QED BY <4>1, <4>2 DEF Lined
    <3>3. CASE ~changed
      <4>1. asked.epoch = capture.epoch /\ now.epoch = layout.epoch /\ now.displays = layout.displays
        BY <2>1, <2>4, <3>3
      <4>2. ~asked.pending => ~capture.pending
        BY <2>4
      <4> QED BY <2>4, <3>1, <4>1, <4>2 DEF Lined
    <3> QED BY <3>2, <3>3
  <2>6. Well(asked, now)
    BY <2>4, <2>5 DEF Well
  <2> HIDE DEF asked, pending
  <2>7. \A o \in outs : IsCall(o) /\ Well(o.c, now)
    BY <1>2, <2>1, <2>6, CallIs, SynchronizesTopology
  <2> HIDE DEF outs
  <2> QED BY <1>1, <1>5, <2>1, <2>7, BecomesInv
<1> QED BY <1>1, <1>4, <1>5

-------------------------------------------------------------------------------
(* The system.                                                                *)
LEMMA PathParts ==
    ASSUME NEW c, capture' = c, c \in Paths, Reports(capture)', Own(capture)', Signalled(c), Kept(c), Apart(c), Owned(c),
           Resting(c), Holding(c), Alone(c), Held(c)
    PROVE  Path(capture)'
<1>1. SlotsOf(capture)' = SlotsOf(c)
  BY DEF SlotsOf
<1>2. Signalled(capture)' /\ Apart(capture)' /\ Owned(capture)'
  BY SMTT(30), <1>1 DEF Signalled, Apart, Owned
<1>3. Kept(capture)'
  BY <1>1 DEF Kept, Live
<1>4. Resting(capture)' /\ Alone(capture)' /\ Held(capture)'
  BY SMTT(30) DEF Resting, Alone, Held
<1>5. Holding(capture)'
  BY DEF Holding, Live
<1>6. Fitted(capture)' /\ Lending(capture)'
  BY <1>2, <1>3, <1>4, <1>5 DEF Fitted, Lending
<1> QED BY <1>4, <1>6 DEF Path, Paths, StreamTypes

LEMMA WellParts ==
    ASSUME NEW c, capture' = c, layout' = layout, Path(capture)', Runs(c), Lined(c, layout)
    PROVE  Well(capture, layout)'
<1>1. SlotsOf(capture)' = SlotsOf(c)
  BY DEF SlotsOf
<1>2. Runs(capture)'
  BY <1>1 DEF Runs, RunAs
<1>3. Shown(capture)' = Shown(c)
  BY <1>1 DEF Shown
<1>4. Lined(capture, layout)'
  BY <1>3 DEF Lined
<1> QED BY <1>2, <1>4 DEF Well

LEMMA AttachKeeps == \A d \in Displays : CaptureInv /\ (Attach(d) \/ Resize(d)) => CaptureInv'
<1> SUFFICES ASSUME NEW d \in Displays, CaptureInv, Attach(d) \/ Resize(d)
             PROVE  CaptureInv'
  OBVIOUS
<1>1. UNCHANGED <<capture, layout, callbacks, phase, overtaken>> /\ Up
  BY DEF Attach, Resize, Changing
<1>2. ContentOK'
  <2>1. CASE Attach(d)
    BY <2>1 DEF CaptureInv, ContentOK, Attach
  <2>2. CASE Resize(d)
    <3>1. content[d] \in 1..2
      BY DEF CaptureInv, ContentOK
    <3>2. 3 - content[d] \in 1..2
      BY <3>1
    <3> QED BY <2>2, <3>2 DEF CaptureInv, ContentOK, Resize
  <2> QED BY <2>1, <2>2
<1>3. Path(capture) /\ Well(capture, layout)
  BY <1>1 DEF CaptureInv
<1>4. Path(capture)'
  BY <1>1, <1>3, PathNext
<1>5. Well(capture, layout)'
  BY <1>1, <1>3, WellNext
<1>6. CallbacksOK'
  BY <1>1 DEF CaptureInv, CallbacksOK
<1> QED BY <1>1, <1>2, <1>4, <1>5, <1>6 DEF CaptureInv

(* A path some of whose streams have lost their displays.                     *)
Gone(c, ended) ==
  [c EXCEPT !.streams = [k \in 1..Streams |-> IF k \in ended THEN [@[k] EXCEPT !.gone = TRUE] ELSE @[k]]]

LEMMA GoneIs ==
    ASSUME NEW c \in Paths, NEW ended, NEW b, b = Gone(c, ended)
    PROVE  /\ b \in Paths /\ Elsewhere(b, c) /\ SameSet(b, c)
           /\ \A k \in 1..Streams :
                /\ b.streams[k].active = c.streams[k].active /\ b.streams[k].generation = c.streams[k].generation
                /\ b.streams[k].display = c.streams[k].display /\ b.streams[k].started = c.streams[k].started
                /\ b.streams[k].leased = c.streams[k].leased
                /\ b.streams[k].gone <=> c.streams[k].gone \/ k \in ended
<1> DEFINE streams == [k \in 1..Streams |-> IF k \in ended THEN [c.streams[k] EXCEPT !.gone = TRUE] ELSE c.streams[k]]
<1>1. \A s \in StreamTypes : [s EXCEPT !.gone = TRUE] \in StreamTypes
  BY DEF StreamTypes
<1>2. \A s \in StreamTypes : LET t == [s EXCEPT !.gone = TRUE] IN
         /\ t.active = s.active /\ t.generation = s.generation /\ t.display = s.display /\ t.started = s.started
         /\ t.leased = s.leased /\ t.gone = TRUE
  BY DEF StreamTypes
<1>3. \A k \in 1..Streams : c.streams[k] \in StreamTypes
  BY Typed
<1>4. streams \in [1..Streams -> StreamTypes]
  BY <1>1, <1>3
<1>5. b = [c EXCEPT !.streams = streams]
  BY DEF Gone, Paths
<1>6. \A k \in 1..Streams : streams[k] = IF k \in ended THEN [c.streams[k] EXCEPT !.gone = TRUE] ELSE c.streams[k]
  OBVIOUS
<1>7. \A k \in 1..Streams :
         /\ streams[k].active = c.streams[k].active /\ streams[k].generation = c.streams[k].generation
         /\ streams[k].display = c.streams[k].display /\ streams[k].started = c.streams[k].started
         /\ streams[k].leased = c.streams[k].leased
         /\ streams[k].gone <=> c.streams[k].gone \/ k \in ended
  <2> HIDE DEF streams
  <2> SUFFICES ASSUME NEW k \in 1..Streams
               PROVE  /\ streams[k].active = c.streams[k].active /\ streams[k].generation = c.streams[k].generation
                      /\ streams[k].display = c.streams[k].display /\ streams[k].started = c.streams[k].started
                      /\ streams[k].leased = c.streams[k].leased
                      /\ streams[k].gone <=> c.streams[k].gone \/ k \in ended
    OBVIOUS
  <2>1. CASE k \in ended
    BY <1>2, <1>3, <1>6, <2>1
  <2>2. CASE k \notin ended
    BY <1>6, <2>2
  <2> QED BY <2>1, <2>2
<1> HIDE DEF streams
<1>8. b.streams = streams /\ b \in Paths /\ Elsewhere(b, c) /\ SameSet(b, c)
  BY <1>4, <1>5 DEF Paths, Elsewhere, SameSet
<1> QED BY <1>7, <1>8

LEMMA DetachKeeps == \A d \in Displays : CaptureInv /\ Detach(d) => CaptureInv'
<1> SUFFICES ASSUME NEW d \in Displays, CaptureInv, Detach(d)
             PROVE  CaptureInv'
  OBVIOUS
<1> DEFINE c == capture
           ended == {k \in 1..Streams : capture.streams[k].active /\ capture.streams[k].display = d}
           new == {[slot |-> k, generation |-> capture.streams[k].generation, loaded |-> FALSE] : k \in ended}
           b == Gone(c, ended)
<1>1. /\ Up /\ capture' = b /\ callbacks' = callbacks \cup new /\ attached' = attached \ {d}
      /\ UNCHANGED <<content, layout, phase, overtaken>>
  BY DEF Detach, Changing, Gone
<1>2. /\ Path(c) /\ Well(c, layout) /\ c \in Paths /\ CallbacksOK /\ ContentOK
  BY <1>1 DEF CaptureInv, Path
<1>3. /\ Signalled(c) /\ Reports(c) /\ Own(c) /\ Kept(c) /\ Apart(c) /\ Owned(c) /\ Resting(c) /\ Holding(c) /\ Alone(c) /\ Held(c)
  BY <1>2 DEF Path, Fitted, Lending
<1>4. \A k \in 1..Streams : c.streams[k].generation \in Nat
  BY <1>2, Typed
<1>5. \A x \in new : /\ x.slot \in ended /\ x.generation = c.streams[x.slot].generation
                     /\ x \in [slot : 1..Streams, generation : Nat \ {0}, loaded : BOOLEAN]
  <2>1. \A k \in ended : capture.streams[k].generation \in Nat \ {0} /\ k \in 1..Streams
    BY <1>3, <1>4 DEF Signalled
  <2>2. \A x \in new : \E k \in ended : x = [slot |-> k, generation |-> capture.streams[k].generation, loaded |-> FALSE]
    OBVIOUS
  <2> HIDE DEF ended, new
  <2> SUFFICES ASSUME NEW x \in new
               PROVE  /\ x.slot \in ended /\ x.generation = c.streams[x.slot].generation
                      /\ x \in [slot : 1..Streams, generation : Nat \ {0}, loaded : BOOLEAN]
    OBVIOUS
  <2>3. PICK k \in ended : x = [slot |-> k, generation |-> capture.streams[k].generation, loaded |-> FALSE]
    BY <2>2
  <2>4. x.slot = k /\ x.generation = capture.streams[k].generation
    BY <2>3
  <2>5. k \in ended /\ k \in 1..Streams /\ capture.streams[k].generation \in Nat \ {0}
    BY <2>1, <2>3
  <2>6. x \in [slot : 1..Streams, generation : Nat \ {0}, loaded : BOOLEAN]
    BY <2>3, <2>5
  <2> QED BY <2>4, <2>5, <2>6
<1> HIDE DEF new, b
<1>6. /\ b \in Paths /\ Elsewhere(b, c) /\ SameSet(b, c)
      /\ \A k \in 1..Streams :
           /\ b.streams[k].active = c.streams[k].active /\ b.streams[k].generation = c.streams[k].generation
           /\ b.streams[k].display = c.streams[k].display /\ b.streams[k].started = c.streams[k].started
           /\ b.streams[k].leased = c.streams[k].leased
           /\ b.streams[k].gone <=> c.streams[k].gone \/ k \in ended
  <2> HIDE DEF ended, c
  <2> QED BY <1>2, GoneIs DEF b
<1>7. \A x \in callbacks : x.slot \in 1..Streams
  BY <1>2 DEF CallbacksOK
<1>8. \A k \in ended : k \in 1..Streams /\ c.streams[k].active
  OBVIOUS
<1> HIDE DEF c, ended
<1>9. SlotsOf(b) = SlotsOf(c) /\ b.slots = c.slots /\ b.faulted = c.faulted /\ b.frames = c.frames /\ b.ring = c.ring
      /\ b.signals = c.signals
  BY <1>6 DEF Elsewhere, SlotsOf
<1>10. \A i \in SlotsOf(c) : i \in 1..Streams /\ c.slots[i].stream.slot \in 1..Streams
  BY <1>2, Typed
<1>11. \A f \in c.frames : f.slot \in 1..Streams /\ c.slots[f.slot].stream.slot \in 1..Streams
  BY <1>2, Typed
<1>12. Signalled(b)
  BY SMTT(30), <1>3, <1>6, <1>9 DEF Signalled
<1>13. Kept(b)
  BY Zenon, <1>3, <1>6, <1>9, <1>10, KeptAs
<1>14. Apart(b) /\ Alone(b)
  BY <1>3, <1>9 DEF Apart, Alone
<1>15. Owned(b) /\ Resting(b) /\ Held(b)
  BY <1>3, <1>6, <1>9 DEF Owned, Resting, Held
<1>16. Holding(b)
  <2> SUFFICES ASSUME NEW f \in c.frames
               PROVE  /\ b.slots[f.slot].active /\ b.slots[f.slot].leased /\ b.slots[f.slot].display = f.display
                      /\ Live(b, b.slots[f.slot].stream)
                      /\ b.streams[b.slots[f.slot].stream.slot].leased
                      /\ b.ring[f.texture].leased
    BY <1>9 DEF Holding
  <2>1. /\ c.slots[f.slot].active /\ c.slots[f.slot].leased /\ c.slots[f.slot].display = f.display
        /\ Live(c, c.slots[f.slot].stream)
        /\ c.streams[c.slots[f.slot].stream.slot].leased
        /\ c.ring[f.texture].leased
    BY <1>3 DEF Holding
  <2> QED BY ZenonT(60), <1>6, <1>9, <1>11, <2>1 DEF Live
<1>17. Reports(capture)'
  <2>1. \A x \in callbacks : /\ x.generation <= b.streams[x.slot].generation
                             /\ x.generation = b.streams[x.slot].generation => b.streams[x.slot].active /\ b.streams[x.slot].gone
    BY <1>3, <1>6, <1>7 DEF Reports
  <2>2. \A x \in new : /\ x.generation <= b.streams[x.slot].generation
                       /\ x.generation = b.streams[x.slot].generation => b.streams[x.slot].active /\ b.streams[x.slot].gone
    BY <1>4, <1>5, <1>6, <1>8
  <2> QED BY <1>1, <2>1, <2>2 DEF Reports
<1>18. Own(capture)'
  BY <1>1, <1>3, <1>6, <1>9 DEF Own, Closed
<1>19. Path(capture)'
  BY <1>1, <1>6, <1>12, <1>13, <1>14, <1>15, <1>16, <1>17, <1>18, PathParts
<1>20. Runs(b)
  BY <1>2, <1>6, <1>9, <1>10 DEF Well, Runs, RunAs, SameSet
<1>21. Lined(b, layout)
  BY <1>2, <1>6, <1>9 DEF Well, Lined, Shown, SameSet
<1>22. Well(capture, layout)'
  BY <1>1, <1>19, <1>20, <1>21, WellParts
<1>23. CallbacksOK' /\ ContentOK'
  BY <1>1, <1>2, <1>5 DEF CallbacksOK, ContentOK
<1> QED BY <1>1, <1>19, <1>22, <1>23 DEF CaptureInv, Up

LEMMA LooksKeeps == \A k \in callbacks : CaptureInv /\ Looks(k) => CaptureInv'
<1> SUFFICES ASSUME NEW k \in callbacks, CaptureInv, Looks(k)
             PROVE  CaptureInv'
  OBVIOUS
<1> DEFINE x == [k EXCEPT !.loaded = TRUE]
<1>1. /\ UNCHANGED <<capture, layout, phase, overtaken, content, attached>>
      /\ callbacks' \subseteq callbacks \cup {x}
  BY DEF Looks, world
<1>2. /\ Path(capture) /\ capture \in Paths /\ CallbacksOK /\ ContentOK
  BY DEF CaptureInv, Path
<1>3. x \in [slot : 1..Streams, generation : Nat \ {0}, loaded : BOOLEAN] /\ x.slot = k.slot /\ x.generation = k.generation
  BY <1>2 DEF CallbacksOK
<1> HIDE DEF x
<1>4. /\ Signalled(capture) /\ Reports(capture) /\ Own(capture) /\ Kept(capture) /\ Apart(capture) /\ Owned(capture)
      /\ Resting(capture) /\ Holding(capture) /\ Alone(capture) /\ Held(capture)
  BY <1>2 DEF Path, Fitted, Lending
<1>5. Reports(capture)'
  BY <1>1, <1>3, <1>4 DEF Reports
<1>6. Own(capture)'
  BY <1>1, <1>4 DEF Own, Closed
<1>7. Path(capture)'
  BY <1>1, <1>2, <1>4, <1>5, <1>6, PathParts
<1>8. Up => Well(capture, layout)'
  <2>1. Up => Runs(capture) /\ Lined(capture, layout)
    BY DEF CaptureInv, Well
  <2> QED BY <1>1, <1>7, <2>1, WellParts
<1>9. CallbacksOK' /\ ContentOK'
  BY <1>1, <1>2, <1>3 DEF CallbacksOK, ContentOK
<1> QED BY <1>1, <1>7, <1>8, <1>9 DEF CaptureInv, Up

(* A path with a signal that says its source is closed.                       *)
Signals(c, k) == [c EXCEPT !.signals[k].closed = TRUE]

LEMMA SignalsIs ==
    ASSUME NEW c \in Paths, NEW k \in 1..Streams, NEW b, b = Signals(c, k)
    PROVE  /\ b \in Paths /\ b.streams = c.streams /\ b.slots = c.slots /\ b.ring = c.ring
           /\ b.frames = c.frames /\ b.faulted = c.faulted /\ SameSet(b, c)
           /\ \A j \in 1..Streams : /\ b.signals[j].generation = c.signals[j].generation
                                    /\ j # k => b.signals[j].closed = c.signals[j].closed
<1> DEFINE x == [c.signals[k] EXCEPT !.closed = TRUE]
           signals == [c.signals EXCEPT ![k] = x]
<1>1. c.signals[k] \in [generation : Nat, closed : BOOLEAN]
  BY Typed
<1>2. x \in [generation : Nat, closed : BOOLEAN] /\ x.generation = c.signals[k].generation
  BY <1>1
<1> HIDE DEF x
<1>3. signals \in [1..Streams -> [generation : Nat, closed : BOOLEAN]]
  BY <1>2 DEF Paths
<1>4. signals[k] = x /\ \A j \in 1..Streams : j # k => signals[j] = c.signals[j]
  BY DEF Paths
<1>5. b = [c EXCEPT !.signals = signals]
  BY DEF Signals, Paths, x
<1> HIDE DEF signals
<1>6. b.signals = signals /\ b \in Paths
  BY <1>3, <1>5 DEF Paths
<1>7. b.streams = c.streams /\ b.slots = c.slots /\ b.ring = c.ring
      /\ b.frames = c.frames /\ b.faulted = c.faulted /\ SameSet(b, c)
  BY <1>5 DEF Paths, SameSet
<1> QED BY <1>2, <1>4, <1>6, <1>7

LEMMA StoresKeeps == \A k \in callbacks : CaptureInv /\ Stores(k) => CaptureInv'
<1> SUFFICES ASSUME NEW k \in callbacks, CaptureInv, Stores(k)
             PROVE  CaptureInv'
  OBVIOUS
<1> DEFINE c == capture
           j == k.slot
           b == Signals(c, j)
<1>1. /\ UNCHANGED <<layout, phase, content, attached>> /\ capture' = b
      /\ callbacks' = callbacks \ {k} /\ overtaken' = (overtaken \/ c.signals[j].generation \notin {0, k.generation})
  BY DEF Stores, world, Signals
<1>2. /\ Path(c) /\ c \in Paths /\ CallbacksOK /\ ContentOK
  BY DEF CaptureInv, Path
<1>3. j \in 1..Streams
  BY <1>2 DEF CallbacksOK
<1>4. /\ Signalled(c) /\ Reports(c) /\ Own(c) /\ Kept(c) /\ Apart(c) /\ Owned(c)
      /\ Resting(c) /\ Holding(c) /\ Alone(c) /\ Held(c)
  BY <1>2 DEF Path, Fitted, Lending
<1> HIDE DEF b
<1>5. /\ b \in Paths /\ b.streams = c.streams /\ b.slots = c.slots /\ b.ring = c.ring
      /\ b.frames = c.frames /\ b.faulted = c.faulted /\ SameSet(b, c)
      /\ \A n \in 1..Streams : /\ b.signals[n].generation = c.signals[n].generation
                               /\ n # j => b.signals[n].closed = c.signals[n].closed
  <2> HIDE DEF c, j
  <2> QED BY <1>2, <1>3, SignalsIs DEF b
<1>6. Reports(c) /\ \A x \in callbacks' : x \in callbacks
  BY <1>1, <1>4
<1>7. Reports(capture)'
  BY <1>1, <1>5, <1>6 DEF Reports
<1>8. Own(capture)'
  <2> SUFFICES ASSUME ~overtaken', NEW n \in 1..Streams, b.streams[n].active, Closed(b, n)
               PROVE  b.streams[n].gone
    BY <1>1 DEF Own, Closed
  <2>1. ~overtaken /\ c.signals[j].generation \in {0, k.generation}
    BY <1>1
  <2>2. CASE n # j
    BY <1>4, <1>5, <2>1, <2>2 DEF Own, Closed
  <2>3. CASE n = j
    <3>1. c.signals[j].generation = c.streams[j].generation /\ c.streams[j].generation # 0
      BY <1>3, <1>4, <1>5, <2>3 DEF Signalled
    <3>2. k.generation = c.streams[j].generation
      BY <2>1, <3>1
    <3> QED BY <1>4, <1>5, <2>3, <3>2 DEF Reports
  <2> QED BY <2>2, <2>3
<1> HIDE DEF c, j
<1>9. SlotsOf(b) = SlotsOf(c)
  BY <1>5 DEF SlotsOf
<1>10. Signalled(b)
  BY SMTT(30), <1>4, <1>5 DEF Signalled
<1>11. Kept(b) /\ Apart(b) /\ Owned(b)
  <2>1. Kept(b)
    BY Zenon, <1>4, <1>5, <1>9, KeptAs
  <2>2. b.streams = c.streams /\ b.slots = c.slots
    BY <1>5
  <2>3. Apart(c) /\ Owned(c)
    BY <1>4
  <2>4. Apart(b)
    BY <1>9, <2>2, <2>3 DEF Apart
  <2>5. Owned(b)
    BY <1>9, <2>2, <2>3 DEF Owned
  <2> QED BY <2>1, <2>4, <2>5
<1>12. Resting(b) /\ Holding(b) /\ Alone(b) /\ Held(b)
  <2>1. b.streams = c.streams /\ b.slots = c.slots /\ b.ring = c.ring /\ b.frames = c.frames /\ b.faulted = c.faulted
    BY <1>5
  <2>2. Resting(c) /\ Holding(c) /\ Alone(c) /\ Held(c)
    BY <1>4
  <2>3. Resting(b) /\ Alone(b)
    BY Zenon, <2>1, <2>2 DEF Resting, Alone
  <2>4. Holding(b)
    BY Zenon, <2>1, <2>2 DEF Holding, Live
  <2>5. Held(b)
    BY <2>1, <2>2 DEF Held
  <2> QED BY <2>3, <2>4, <2>5
<1>13. Path(capture)'
  BY <1>1, <1>5, <1>7, <1>8, <1>10, <1>11, <1>12, PathParts
<1>14. Up => Runs(b) /\ Lined(b, layout)
  <2>1. Up => Runs(c) /\ Lined(c, layout)
    BY DEF CaptureInv, Well, c
  <2>2. Runs(c) => Runs(b)
    BY <1>5, <1>9 DEF Runs, RunAs, SameSet
  <2>3. Lined(c, layout) => Lined(b, layout)
    BY <1>5, <1>9 DEF Lined, Shown, SameSet
  <2> QED BY <2>1, <2>2, <2>3
<1>15. Up => Well(capture, layout)'
  BY <1>1, <1>13, <1>14, WellParts
<1>16. CallbacksOK' /\ ContentOK'
  BY <1>1, <1>2 DEF CallbacksOK, ContentOK
<1>17. capture'.faulted = capture.faulted
  BY <1>1, <1>5 DEF c
<1> QED BY <1>1, <1>13, <1>15, <1>16, <1>17 DEF CaptureInv, Up

-------------------------------------------------------------------------------
LEMMA EmptyPath ==
    ASSUME callbacks = {}
    PROVE  /\ Path(Empty) /\ Runs(Empty) /\ Empty.epoch = 0 /\ Empty.pending = FALSE
<1>1. \A k \in 1..Streams : 1 \in 1..Streams
  BY CaptureAssumption
<1>2. Stream(1) \in StreamTypes /\ \A k \in 1..Streams : FreeSlot \in SlotTypes
  BY <1>1 DEF Stream, StreamTypes, FreeSlot, SlotTypes, Handles
<1>3. /\ Empty.streams = [k \in 1..Streams |-> Stream(1)]
      /\ Empty.signals = [k \in 1..Streams |-> [generation |-> 0, closed |-> FALSE]]
      /\ Empty.slots = [k \in 1..Streams |-> FreeSlot]
      /\ Empty.ring = [k \in 1..Transfers |-> [leased |-> FALSE, size |-> 0]]
      /\ Empty.frames = {} /\ Empty.faulted = {} /\ Empty.running = FALSE /\ Empty.epoch = 0 /\ Empty.pending = FALSE
  BY DEF Empty
<1>4. Empty \in Paths
  <2>1. Empty.streams \in [1..Streams -> StreamTypes] /\ Empty.slots \in [1..Streams -> SlotTypes]
    BY <1>2, <1>3
  <2>2. Empty.signals \in [1..Streams -> [generation : Nat, closed : BOOLEAN]]
        /\ Empty.ring \in [1..Transfers -> [leased : BOOLEAN, size : 0..2]]
    BY <1>3
  <2> DEFINE streams == Empty.streams
             signals == Empty.signals
             slots == Empty.slots
             ring == Empty.ring
  <2>3. Empty = [streams |-> streams, signals |-> signals, slots |-> slots, running |-> FALSE, epoch |-> 0,
                 pending |-> FALSE, ring |-> ring, frames |-> {}, faulted |-> {}]
    BY DEF Empty
  <2>4. streams \in [1..Streams -> StreamTypes] /\ slots \in [1..Streams -> SlotTypes]
        /\ signals \in [1..Streams -> [generation : Nat, closed : BOOLEAN]]
        /\ ring \in [1..Transfers -> [leased : BOOLEAN, size : 0..2]]
    BY <2>1, <2>2
  <2> HIDE DEF streams, signals, slots, ring
  <2> QED BY <2>3, <2>4 DEF Paths
<1>5. /\ \A k \in 1..Streams : /\ Empty.streams[k].active = FALSE /\ Empty.streams[k].generation = 1
                               /\ Empty.streams[k].started = FALSE /\ Empty.streams[k].leased = FALSE
                               /\ Empty.signals[k].generation = 0
                               /\ Empty.slots[k].active = FALSE /\ Empty.slots[k].leased = FALSE
      /\ \A r \in 1..Transfers : Empty.ring[r].leased = FALSE
  BY <1>3 DEF Stream, FreeSlot
<1>6. SlotsOf(Empty) = {}
  BY <1>5 DEF SlotsOf
<1>7. Fitted(Empty)
  BY <1>5, <1>6 DEF Fitted, Signalled, Reports, Own, Kept, Apart, Owned
<1>8. Resting(Empty) /\ Lending(Empty)
  BY <1>3, <1>5 DEF Resting, Lending, Holding, Alone, Held
<1> QED BY <1>3, <1>4, <1>6, <1>7, <1>8 DEF Path, Runs, RunAs

LEMMA CaptureStarts == CaptureInit => CaptureInv
<1> SUFFICES ASSUME CaptureInit
             PROVE  CaptureInv
  OBVIOUS
<1>1. /\ attached = {First(Displays)} /\ content = [d \in Displays |-> 1]
      /\ layout = [displays |-> attached, sizes |-> content, epoch |-> 1]
      /\ callbacks = {} /\ phase = "up"
  BY DEF CaptureInit
<1>2. PICK o \in Synchronize(Empty, layout) : o.result = "OK" /\ capture = o.c
  BY DEF CaptureInit
<1>3. First(Displays) \in Displays
  <2>1. Displays \in SUBSET Int /\ IsFiniteSet(Displays) /\ Displays # {}
    BY CaptureAssumption
  <2>2. \E k \in Displays : \A j \in Displays : k <= j
    BY <2>1, Ends
  <2> QED BY <2>2 DEF First
<1>4. CallbacksOK /\ ContentOK /\ layout.displays \in SUBSET Displays /\ layout.epoch \in Nat /\ layout.epoch = 1
  BY <1>1, <1>3 DEF CallbacksOK, ContentOK
<1>5. Path(Empty) /\ Runs(Empty) /\ Empty.epoch = 0 /\ Empty.pending = FALSE
  BY <1>1, EmptyPath
<1>6. Synced(o, Empty, layout)
  BY <1>2, <1>4, <1>5, Synchronizes
<1>7. /\ Path(capture) /\ Runs(capture) /\ capture.epoch = layout.epoch /\ Shown(capture) = layout.displays
  BY <1>2, <1>4, <1>5, <1>6 DEF Synced
<1>8. Lined(capture, layout)
  BY <1>4, <1>7 DEF Lined
<1> QED BY <1>1, <1>4, <1>7, <1>8 DEF CaptureInv, Well

LEMMA CaptureSteps == CaptureInv /\ [CaptureNext]_captureVars => CaptureInv'
<1> SUFFICES ASSUME CaptureInv, [CaptureNext]_captureVars
             PROVE  CaptureInv'
  OBVIOUS
<1>1. CASE UNCHANGED captureVars
  <2>1. UNCHANGED <<capture, callbacks, overtaken, layout, phase, content, attached>>
    BY <1>1 DEF captureVars
  <2>2. Path(capture)'
    BY <2>1, PathNext DEF CaptureInv
  <2>3. Up => Well(capture, layout)'
    BY <2>1, WellNext DEF CaptureInv
  <2> QED BY <2>1, <2>2, <2>3 DEF CaptureInv, CallbacksOK, ContentOK, Up
<1>2. CASE CaptureNext
  BY <1>2, AdvanceKeeps, RequestKeepsCapture, EndSessionKeeps, RefreshKeeps, AttachKeeps, DetachKeeps, LooksKeeps, StoresKeeps
     DEF CaptureNext
<1> QED BY <1>1, <1>2

(* One frame at most, of those that are told apart.                           *)
LEMMA OneOrNone ==
    ASSUME NEW S, \A f, g \in S : f = g, NEW leased \in BOOLEAN, leased <=> S # {}
    PROVE  Cardinality(S) = IF leased THEN 1 ELSE 0
<1>1. CASE S = {}
  BY <1>1, FS_EmptySet
<1>2. CASE S # {}
  <2>1. PICK f : S = {f}
    BY <1>2
  <2> QED BY <1>2, <2>1, FS_Singleton
<1> QED BY <1>1, <1>2

LEMMA LeasesDo == CaptureInv => LeasesAgree
<1> SUFFICES ASSUME CaptureInv
             PROVE  LeasesAgree
  OBVIOUS
<1> DEFINE c == capture
           OfStream(k) == {f \in c.frames : c.slots[f.slot].stream.slot = k}
           OfTexture(r) == {f \in c.frames : f.texture = r}
           OfSlot(i) == {f \in c.frames : f.slot = i}
<1>1. c \in Paths /\ Path(c) /\ Holding(c) /\ Alone(c) /\ Held(c)
  BY DEF CaptureInv, Path, Lending
<1>2. \A f \in c.frames : f.slot \in SlotsOf(c) /\ Live(c, c.slots[f.slot].stream)
  BY <1>1, Typed DEF Holding, SlotsOf
<1> HIDE DEF c
<1>3. ASSUME NEW r \in 1..Transfers
      PROVE  Cardinality(OfTexture(r)) = IF c.ring[r].leased THEN 1 ELSE 0
  <2>1. \A f, g \in OfTexture(r) : f = g
    BY <1>1 DEF Alone
  <2>2. c.ring[r].leased <=> OfTexture(r) # {}
    BY <1>1 DEF Held, Holding
  <2>3. c.ring[r].leased \in BOOLEAN
    <3>1. c.ring[r] \in [leased : BOOLEAN, size : 0..2]
      BY <1>1, Typed
    <3> QED BY <3>1
  <2> HIDE DEF OfTexture
  <2> QED BY <2>1, <2>2, <2>3, OneOrNone
<1>4. ASSUME NEW k \in 1..Streams
      PROVE  Cardinality(OfStream(k)) = IF c.streams[k].leased THEN 1 ELSE 0
  <2>1. \A f, g \in OfStream(k) : f = g
    <3> SUFFICES ASSUME NEW f \in OfStream(k), NEW g \in OfStream(k)
                 PROVE  f = g
      OBVIOUS
    <3>1. f.slot = g.slot
      BY <1>1, <1>2, TwoStreams
    <3> QED BY <1>1, <3>1 DEF Alone
  <2>2. c.streams[k].leased <=> OfStream(k) # {}
    BY <1>1 DEF Held, Holding
  <2>3. c.streams[k].leased \in BOOLEAN
    <3>1. c.streams[k] \in StreamTypes
      BY <1>1, Typed
    <3> QED BY <3>1 DEF StreamTypes
  <2> HIDE DEF OfStream
  <2> QED BY <2>1, <2>2, <2>3, OneOrNone
<1>5. ASSUME NEW i \in 1..Streams
      PROVE  /\ OfSlot(i) # {} => c.slots[i].leased
             /\ c.slots[i].leased => OfSlot(i) # {} \/ i \in c.faulted
  BY <1>1 DEF Held, Holding
<1> QED BY <1>3, <1>4, <1>5 DEF LeasesAgree, c

LEMMA StreamsDo == CaptureInv => StreamsOwned
<1> SUFFICES ASSUME CaptureInv
             PROVE  StreamsOwned
  OBVIOUS
<1>1. capture \in Paths /\ Kept(capture) /\ Owned(capture)
  BY DEF CaptureInv, Path, Fitted
<1>2. ASSUME NEW k \in 1..Streams, capture.streams[k].active
      PROVE  \E i \in SlotsOf(capture) : /\ capture.slots[i].stream = [slot |-> k, generation |-> capture.streams[k].generation]
                                         /\ capture.slots[i].display = capture.streams[k].display
  <2>1. PICK i \in SlotsOf(capture) : capture.slots[i].stream = [slot |-> k, generation |-> capture.streams[k].generation]
    BY <1>1, <1>2 DEF Owned
  <2>2. capture.slots[i].stream.slot = k /\ capture.slots[i].stream.generation = capture.streams[k].generation
    BY <2>1
  <2>3. capture.slots[i].display = capture.streams[k].display
    BY <1>1, <2>2 DEF Kept
  <2> QED BY <2>1, <2>3
<1>3. \A i \in SlotsOf(capture) \ capture.faulted : Live(capture, capture.slots[i].stream)
  BY <1>1 DEF Kept
<1> QED BY <1>2, <1>3 DEF StreamsOwned

LEMMA CaptureDoes == CaptureInv => CaptureHolds
<1> SUFFICES ASSUME CaptureInv
             PROVE  CaptureHolds
  OBVIOUS
<1>1. capture \in Paths /\ Own(capture) /\ (Up => Runs(capture) /\ Lined(capture, layout))
  BY DEF CaptureInv, Path, Fitted, Well
<1>2. CaptureTypeOK
  BY <1>1 DEF CaptureTypeOK, CaptureInv, ContentOK, Paths, SlotTypes, FrameTypes
<1>3. LayoutIsCaptured
  BY <1>1 DEF LayoutIsCaptured, Lined, Shown
<1>4. RunningAgrees
  BY <1>1 DEF RunningAgrees, Runs, RunAs, SlotsOf
<1>5. ClosedIsItsOwn /\ StuckIsFaulted
  BY <1>1 DEF ClosedIsItsOwn, Own, StuckIsFaulted, CaptureInv
<1> QED BY <1>2, <1>3, <1>4, <1>5, LeasesDo, StreamsDo DEF CaptureHolds, CaptureHeld, StreamsObey

(* The capture path of the pipeline: the queries leave it alone.              *)
LEMMA CaptureStep == CaptureInv /\ [Next]_providers => CaptureInv'
<1> SUFFICES ASSUME CaptureInv, [Next]_providers PROVE CaptureInv'
  OBVIOUS
<1>1. [CaptureNext]_captureVars
  BY DEF Next, Following, providers
<1> QED BY <1>1, CaptureSteps

(* Whatever the desktop does to displays and windows, and whichever call of   *)
(* the platform fails, each open stream belongs to one slot of the set, what  *)
(* is leased is lent to exactly one frame, a settled set follows the layout,  *)
(* its streams run as it does, and a closed capture item is its own stream's. *)
THEOREM CaptureHeldByAll == Spec => []CaptureHolds
<1>1. Init => CaptureInv
  BY CaptureStarts DEF Init
<1> QED BY <1>1, CaptureStep, CaptureDoes, PTL DEF Spec

-------------------------------------------------------------------------------
(* A raised request has its query still queued, or retired by a worker that   *)
(* took it for the last one's; on macOS there is one request to a query.      *)
RequestIsQueued ==
    /\ request > 0 => stopRequested \/ state \in {"queued", "idle"}
    /\ platform = "windows" => request <= 1
    /\ platform = "macos" /\ request > 0 => stopRequested \/ (state = "queued" /\ request = 1)

(* A worker at a query has it running, and no other asked of it.              *)
WorkerAtQuery ==
    /\ worker \in {"started", "walking"} =>
         state \in {"running", "stopping"} /\ (request = 0 \/ stopRequested)
    /\ walks # 0 => worker = "walking" /\ walks = ticket
    /\ worker \in {"looking", "retiring"} => platform = "windows"

(* A poll or a wait that has read the query retired still finds it so.        *)
RetiredStays ==
    call \in {"poll", "reporting"} /\ seen \in {"cancelled", "failed"} =>
        state \in {"cancelled", "failed", "idle"} /\ (request = 0 \/ stopRequested)

(* Only a client that has detached has its query retired by the worker, and   *)
(* then the coordinator holds none.                                           *)
DetachedIsGone ==
    /\ worker = "retiring" /\ ~crossed => detached
    /\ detached => semanticTicket = 0 \/ call = "detached"

(* A query is held of a provider that lives; the worker's buffers outlive it. *)
ProviderLives ==
    /\ semanticTicket # 0 => memory = "live"
    /\ call \in {"stop", "joining"} => semanticTicket = 0
    /\ worker # "none" => memory # "none"

QueryInv ==
    /\ QueryHolds
    /\ RequestIsQueued /\ WorkerAtQuery /\ RetiredStays /\ DetachedIsGone /\ ProviderLives

-------------------------------------------------------------------------------
(* The worker's steps: nothing of the coordinator changes.                    *)
Worker == Query!Wake \/ Query!MacWake \/ Query!Start \/ Query!MacStart \/ Query!Walk \/ Query!MacWalk
          \/ Query!Signal \/ Query!Look \/ Query!Retire \/ Query!BudgetSpent

USE DEF QueryInv, QueryHolds, RequestIsQueued, WorkerAtQuery, RetiredStays, DetachedIsGone, ProviderLives,
        Query!TypeOK, Query!ProviderTypeOK, Query!CoordinatorTypeOK, Query!QueryHeld, Query!WalkOwnsQuery,
        Query!Pending, Query!Retired, Query!Windows, Query!Raised, Query!queryVars, Query!workerVars,
        Query!providerVars, Query!sceneVars, Query!callVars

LEMMA WorkerKeeps ==
    ASSUME QueryInv, Worker, UNCHANGED <<Query!sceneVars, Query!callVars>>
    PROVE  QueryInv'
<1>1. CASE Query!Wake
  BY <1>1 DEF Query!Wake
<1>2. CASE Query!MacWake
  BY <1>2 DEF Query!MacWake
<1>3. CASE Query!Start
  BY <1>3 DEF Query!Start, Query!Stored
<1>4. CASE Query!MacStart
  BY <1>4 DEF Query!MacStart, Query!Stored
<1>5. CASE Query!Walk
  BY <1>5 DEF Query!Walk, Query!Stored
<1>6. CASE Query!MacWalk
  BY <1>6 DEF Query!MacWalk, Query!Stored
<1>7. CASE Query!Signal
  BY <1>7 DEF Query!Signal
<1>8. CASE Query!Look
  BY <1>8 DEF Query!Look
<1>9. CASE Query!Retire
  BY <1>9 DEF Query!Retire
<1>10. CASE Query!BudgetSpent
  BY <1>10 DEF Query!BudgetSpent
<1> QED BY <1>1, <1>2, <1>3, <1>4, <1>5, <1>6, <1>7, <1>8, <1>9, <1>10 DEF Worker

(* What is published is a scene of the coordinator's.                         *)
LEMMA PublishTyped ==
    ASSUME QueryInv, NEW packet \in Query!Packets, NEW new \in BOOLEAN, NEW changed \in BOOLEAN,
           Query!Publish(packet, new, changed)
    PROVE  published' \in Query!Packets
<1>1. Query!None \in Query!Packets
  BY QueryAssumption DEF Query!None, Query!Packets
<1>2. Query!Primary(neuralNewest, packet) \in Query!Packets
  BY <1>1 DEF Query!Primary, Query!Sources
<1>3. QED BY <1>2 DEF Query!Publish

LEMMA ProceedTyped ==
    ASSUME QueryInv, NEW packet \in Query!Packets, NEW changed \in BOOLEAN, Query!Proceed(packet, changed)
    PROVE  published' \in Query!Packets /\ semantic' \in Query!Packets /\ neural' \in Query!Packets
BY PublishTyped DEF Query!Proceed

(* The calls of the coordinator that ask the provider nothing, or refuse.     *)
LEMMA CoordinatorKeeps ==
    ASSUME QueryInv,
           Query!Advance \/ Query!PollStale \/ Query!PublishGrid \/ Query!SetFilter \/ Query!SetSource
           \/ Query!NeuralScene \/ Query!Leave
    PROVE  QueryInv'
<1> USE QueryAssumption
<1>1. CASE Query!Advance
  <2>1. published' \in Query!Packets /\ semantic' \in Query!Packets /\ neural' \in Query!Packets
    BY <1>1, ProceedTyped DEF Query!Advance
  <2> QED BY <1>1, <2>1 DEF Query!Advance
<1>2. CASE Query!PollStale
  <2>1. published' \in Query!Packets /\ semantic' \in Query!Packets /\ neural' \in Query!Packets
    BY <1>2, ProceedTyped DEF Query!PollStale
  <2> QED BY <1>2, <2>1 DEF Query!PollStale
<1>3. CASE Query!PublishGrid
  BY <1>3 DEF Query!PublishGrid, Query!Packets
<1>4. CASE Query!SetFilter
  BY <1>4 DEF Query!SetFilter
<1>5. CASE Query!SetSource
  BY <1>5 DEF Query!SetSource
<1>6. CASE Query!NeuralScene
  <2>1. neuralNewest' \in Query!Packets
    BY <1>6 DEF Query!NeuralScene, Query!Packets
  <2> QED BY <1>6, <2>1 DEF Query!NeuralScene
<1>7. CASE Query!Leave
  BY <1>7 DEF Query!Leave
<1> QED BY <1>1, <1>2, <1>3, <1>4, <1>5, <1>6, <1>7

(* The start of a query.                                                      *)
LEMMA RequestKeeps ==
    ASSUME QueryInv, Query!RequestSemantic
    PROVE  QueryInv'
<1> USE QueryAssumption DEF Query!RequestSemantic, Query!Accept, Query!Accepts
<1>1. next \in 1..MaxTicket /\ next' = next + 1 /\ next' \in 1..MaxTicket + 1
  OBVIOUS
<1>2. /\ ticket' \in 0..next' - 1 /\ snapshot' \in 0..next' - 1 /\ walks' \in 0..next' - 1
      /\ semanticTicket' \in 0..next' - 1
  BY <1>1
<1>3. Query!ProviderTypeOK'
  BY <1>1, <1>2
<1>4. Query!CoordinatorTypeOK'
  BY <1>2
<1>5. RequestIsQueued'
  OBVIOUS
<1>8. WorkerAtQuery'
  OBVIOUS
<1>9. RetiredStays'
  OBVIOUS
<1>10. DetachedIsGone' /\ ProviderLives'
  OBVIOUS
<1>6. Query!QueryHeld'
  OBVIOUS
<1>7. Query!WalkOwnsQuery'
  OBVIOUS
<1> QED BY <1>3, <1>4, <1>5, <1>6, <1>7, <1>8, <1>9, <1>10

(* A poll reads the query's state and, after steps of the worker, reports.    *)
LEMMA PollKeeps ==
    ASSUME QueryInv, Query!PollReads \/ Query!PollReports
    PROVE  QueryInv'
<1>1. CASE Query!PollReads
  BY <1>1 DEF Query!PollReads
<1>2. CASE Query!PollReports
  <2>1. Query!None \in Query!Packets
    BY QueryAssumption DEF Query!None, Query!Packets
  <2>2. published' \in Query!Packets /\ semantic' \in Query!Packets /\ neural' \in Query!Packets
    BY <1>2, <2>1, ProceedTyped DEF Query!PollReports, Query!Polled
  <2> USE <1>2, <2>1, <2>2 DEF Query!PollReports, Query!Retires, Query!Free, Query!NoQuery
  <2>3. CASE state \in {"queued", "running", "stopping"} /\ UNCHANGED <<snapshot, ticket, state, semanticTicket, semanticQuery>>
    BY <2>3
  <2>4. CASE state \in Query!Retired
    BY ZenonT(60), <2>4 DEF Query!Polled
  <2>5. CASE state = "complete"
    BY ZenonT(60), <2>5 DEF Query!Polled
  <2> QED BY <2>3, <2>4, <2>5 DEF Query!Polled
<1> QED BY <1>1, <1>2

(* What ends a query for the coordinator.                                     *)
LEMMA EndKeeps ==
    ASSUME QueryInv,
           Query!CancelNothing \/ Query!CancelQuery \/ Query!WaitStale \/ Query!WaitReads \/ Query!Woken
           \/ Query!WaitRereads \/ Query!WaitReports \/ Query!WaitExpires \/ Query!Detach
           \/ Query!DetachReports
    PROVE  QueryInv'
<1>0. Query!None \in Query!Packets
  BY QueryAssumption DEF Query!None, Query!Packets
<1> USE <1>0 DEF Query!Conclude, Query!NoQuery, Query!Goals
<1>1. CASE Query!CancelNothing
  BY <1>1 DEF Query!CancelNothing
<1>2. CASE Query!CancelQuery
  BY <1>2 DEF Query!CancelQuery, Query!Cancel
<1>3. CASE Query!WaitStale
  BY <1>3 DEF Query!WaitStale
<1>4. CASE Query!WaitReads
  BY <1>4 DEF Query!WaitReads
<1>5. CASE Query!Woken
  BY <1>5 DEF Query!Woken
<1>6. CASE Query!WaitRereads
  BY <1>6 DEF Query!WaitRereads
<1>7. CASE Query!WaitReports
  BY <1>7 DEF Query!WaitReports, Query!Free, Query!Retires
<1>8. CASE Query!WaitExpires
  BY <1>8 DEF Query!WaitExpires
<1>9. CASE Query!Detach
  BY <1>9 DEF Query!Detach
<1>10. CASE Query!DetachReports
  BY <1>10 DEF Query!DetachReports, Query!Free
<1> QED BY <1>1, <1>2, <1>3, <1>4, <1>5, <1>6, <1>7, <1>8, <1>9, <1>10

(* The provider's life.                                                       *)
LEMMA LifeKeeps ==
    ASSUME QueryInv, Query!Open \/ Query!ShutdownProvider \/ Query!JoinProvider
    PROVE  QueryInv'
<1>1. CASE Query!Open
  BY <1>1 DEF Query!Open, Query!Initialize
<1>2. CASE Query!ShutdownProvider
  BY <1>2 DEF Query!ShutdownProvider, Query!Stop
<1>3. CASE Query!JoinProvider
  BY <1>3 DEF Query!JoinProvider, Query!Joined, Query!JoinExpired
<1> QED BY <1>1, <1>2, <1>3

-------------------------------------------------------------------------------
HIDE DEF QueryInv, QueryHolds

LEMMA QueryInit == Init => QueryInv
BY QueryAssumption DEF Init, Query!Init, Query!ProviderInit, Query!CoordinatorInit, Query!None, Query!Packets,
     Query!Goals, QueryInv, QueryHolds

LEMMA QueryStep == QueryInv /\ [Next]_providers => QueryInv'
<1> SUFFICES ASSUME QueryInv, [Next]_providers PROVE QueryInv'
  OBVIOUS
<1>1. CASE UNCHANGED queryVars
  BY <1>1 DEF queryVars, QueryInv, QueryHolds
<1>2. CASE Query!Next
  <2>1. CASE Query!Step \/ Query!WindowsWalk \/ (Query!BudgetSpent /\ UNCHANGED <<Query!sceneVars, Query!callVars>>)
    BY <2>1, WorkerKeeps DEF Query!Step, Query!WindowsWalk, Worker
  <2>2. CASE Query!Return
    BY <2>2, PollKeeps, EndKeeps, LifeKeeps DEF Query!Return
  <2> QED BY <1>2, <2>1, <2>2, RequestKeeps, CoordinatorKeeps, PollKeeps, EndKeeps, LifeKeeps DEF Query!Next
<1> QED BY <1>1, <1>2 DEF Next, providers

(* The ticket the coordinator holds is the provider's, unless a query was     *)
(* accepted with the worker in the tail of the last; the worker walks only    *)
(* the query in flight, and nothing is freed or overwritten under it.         *)
THEOREM QueryHeldByBoth == Spec => []QueryHolds
<1>1. QueryInv => QueryHolds
  BY DEF QueryInv
<1> QED BY QueryInit, QueryStep, <1>1, PTL DEF Spec
===============================================================================
