--------------------------- MODULE CoreRuntime_proof ---------------------------
(* Safety of the core runtime.  First one runtime (FrameRuntime), for tables of *)
(* any size, queues of any length and any number of generations: the properties *)
(* of its run are inductive together, since the count of a session needs no     *)
(* type of its own and a release by the last owner needs the mailbox and the    *)
(* tickets to agree with the owners. Then the store of runtimes (RuntimeStore), *)
(* for any number of threads, calls, runtimes and domains: the invariant says   *)
(* where a thread can be in each call, who holds each gate, in which slot the   *)
(* hot copy may differ from the table, and who owns each domain; then the two   *)
(* under one specification (CoreRuntime).  Last the reference backend, for      *)
(* tables and queues of any size: its properties are inductive together, since  *)
(* a count says nothing unless the counted job has its context.                 *)
EXTENDS CoreRuntime, FiniteSetTheorems, FunctionTheorems, TLAPS

-------------------------------------------------------------------------------
(* What the operations of a handle table do to its live handles, for tables of *)
(* any size and any objects.                                                   *)

(* Two live handles of one slot are the same handle. *)
LEMMA LiveIsOne ==
    ASSUME NEW t, NEW g \in Live(t), NEW h \in Live(t), g.slot = h.slot
    PROVE  g = h
BY DEF Live, Resolves, HandlesOf

(* The empty table has no live handle. *)
LEMMA EmptyTableHasNone ==
    ASSUME NEW S, NEW V, Vacant \notin V
    PROVE  EmptyTable(S) \in Table(S, V) /\ Live(EmptyTable(S)) = {}
BY GenerationAssumption DEF EmptyTable, Table, Live, Resolves, Occupied

(* emplace issues a handle that was not live, and disturbs no other. *)
LEMMA EmplaceAddsOne ==
    ASSUME NEW S, NEW V, Vacant \notin V, NEW t \in Table(S, V), NEW s, FirstFree(t, s), NEW v \in V
    PROVE  /\ Emplaced(t, s, v) \in Table(S, V)
           /\ s \in S
           /\ HandleAt(t, s) \in HandlesOf(t)
           /\ HandleAt(t, s) \notin Live(t)
           /\ Live(Emplaced(t, s, v)) = Live(t) \cup {HandleAt(t, s)}
           /\ Value(Emplaced(t, s, v), HandleAt(t, s)) = v
           /\ \A h \in Live(t) : h.slot # s /\ Value(Emplaced(t, s, v), h) = Value(t, h)
<1> DEFINE u == Emplaced(t, s, v)
           n == HandleAt(t, s)
<1>1. s \in S /\ t[s].value = Vacant /\ ~t[s].retired /\ DOMAIN t = S
  BY DEF FirstFree, Occupied, Table
<1>2. u \in Table(S, V) /\ u[s].value = v /\ u[s].generation = t[s].generation
  BY <1>1 DEF Emplaced, Table
<1>3. \A r \in S : r # s => u[r] = t[r]
  BY <1>1 DEF Emplaced, Table
<1>4. n \in HandlesOf(t) /\ n.slot = s /\ n.generation = t[s].generation
  BY <1>1 DEF HandleAt, HandlesOf, Table
<1>5. DOMAIN u = S
  BY <1>2 DEF Table
<1> HIDE DEF u, n
<1>6. n \notin Live(t) /\ \A h \in Live(t) : h.slot # s
  BY <1>1, <1>4 DEF Live, Resolves, Occupied
<1>7. Live(u) \subseteq Live(t) \cup {n}
  <2> SUFFICES ASSUME NEW h \in Live(u), h # n PROVE h \in Live(t)
    OBVIOUS
  <2>1. h \in HandlesOf(t) /\ h.slot \in S /\ Occupied(u, h.slot) /\ u[h.slot].generation = h.generation
    BY <1>1, <1>5 DEF Live, HandlesOf, Resolves
  <2>2. h.slot # s
    BY <1>2, <1>4, <2>1 DEF HandlesOf
  <2> QED
    BY <1>1, <1>3, <2>1, <2>2 DEF Live, Resolves, Occupied
<1>8. Live(t) \subseteq Live(u)
  BY <1>1, <1>3, <1>5, <1>6 DEF Live, Resolves, Occupied, HandlesOf
<1>9. n \in Live(u)
  BY <1>1, <1>2, <1>4, <1>5 DEF Live, Resolves, Occupied, HandlesOf
<1>10. \A h \in Live(t) : Value(u, h) = Value(t, h)
  BY <1>1, <1>3, <1>6 DEF Live, Resolves, Value
<1>11. Value(u, n) = v
  BY <1>2, <1>4 DEF Value
<1> QED
  BY <1>1, <1>2, <1>4, <1>6, <1>7, <1>8, <1>9, <1>10, <1>11 DEF u, n

(* An erased slot is empty and of a later generation, or retired.              *)
LEMMA EmptiedSlot ==
    ASSUME NEW V, NEW a \in [generation : 1..MaxGeneration, retired : BOOLEAN, value : V \cup {Vacant}]
    PROVE  /\ Emptied(a) \in [generation : 1..MaxGeneration, retired : BOOLEAN, value : V \cup {Vacant}]
           /\ Emptied(a).value = Vacant
           /\ Emptied(a).generation >= a.generation
           /\ Emptied(a).generation = a.generation => Emptied(a).retired
<1> DEFINE n == IF a.generation = MaxGeneration THEN a.generation ELSE a.generation + 1
           r == a.retired \/ a.generation = MaxGeneration
<1>1. n \in 1..MaxGeneration /\ n >= a.generation /\ (n = a.generation => a.generation = MaxGeneration)
  BY GenerationAssumption
<1>2. r \in BOOLEAN /\ (a.generation = MaxGeneration => r)
  BY Zenon
<1>3. Emptied(a) = [generation |-> n, retired |-> r, value |-> Vacant]
  BY Zenon DEF Emptied
<1> HIDE DEF n, r
<1> QED
  BY <1>1, <1>2, <1>3

(* Erasing live handles ends them, and no other. *)
LEMMA EraseEndsThem ==
    ASSUME NEW S, NEW V, Vacant \notin V, NEW t \in Table(S, V), NEW H \in SUBSET Live(t)
    PROVE  /\ ErasedAll(t, H) \in Table(S, V)
           /\ Live(ErasedAll(t, H)) = Live(t) \ H
           /\ \A h \in Live(t) \ H : Value(ErasedAll(t, H), h) = Value(t, h)
<1> DEFINE u == ErasedAll(t, H)
<1>1. DOMAIN t = S /\ \A s \in S : t[s] \in [generation : 1..MaxGeneration, retired : BOOLEAN, value : V \cup {Vacant}]
  BY DEF Table
<1>2. DOMAIN u = S /\ \A s \in S : u[s] = IF \E h \in H : h.slot = s THEN Emptied(t[s]) ELSE t[s]
  BY <1>1 DEF ErasedAll
<1>3. \A s \in S : u[s] \in [generation : 1..MaxGeneration, retired : BOOLEAN, value : V \cup {Vacant}]
  BY <1>1, <1>2, EmptiedSlot
<1>4. u \in Table(S, V)
  <2>1. u = [s \in S |-> u[s]]
    BY <1>1 DEF ErasedAll
  <2> QED
    BY <1>3, <2>1 DEF Table
<1>5. \A s \in S : (\E h \in H : h.slot = s) => u[s].value = Vacant
  BY <1>1, <1>2, EmptiedSlot
<1> HIDE DEF u
<1>6. \A h \in Live(t) \ H : u[h.slot] = t[h.slot]
  <2> SUFFICES ASSUME NEW h \in Live(t) \ H PROVE ~\E g \in H : g.slot = h.slot
    BY <1>1, <1>2 DEF Live, Resolves
  <2> QED
    BY LiveIsOne
<1>7. Live(t) \ H \subseteq Live(u)
  BY <1>1, <1>2, <1>6 DEF Live, Resolves, Occupied, HandlesOf
<1>8. \A h \in Live(u) : h \in Live(t) \ H
  <2> SUFFICES ASSUME NEW h \in Live(u) PROVE h \in Live(t) \ H
    OBVIOUS
  <2>1. h \in HandlesOf(t) /\ h.slot \in S /\ u[h.slot].value # Vacant /\ u[h.slot].generation = h.generation
    BY <1>1, <1>2 DEF Live, Resolves, Occupied, HandlesOf
  <2>2. ~\E g \in H : g.slot = h.slot
    BY <1>5, <2>1
  <2> QED
    BY <1>1, <1>2, <2>1, <2>2 DEF Live, Resolves, Occupied
<1> QED
  BY <1>4, <1>6, <1>7, <1>8 DEF u, Value

(* erase is erasing the one handle. *)
LEMMA EraseOne ==
    ASSUME NEW S, NEW V, NEW t \in Table(S, V), NEW h \in Live(t)
    PROVE  Erased(t, h) = ErasedAll(t, {h})
BY DEF Erased, ErasedAll, Table, Live, Resolves

(* emplace undone at once leaves no trace among the live handles. *)
LEMMA EmplaceUndone ==
    ASSUME NEW S, NEW V, Vacant \notin V, NEW t \in Table(S, V), NEW s, FirstFree(t, s), NEW v \in V
    PROVE  LET u == Erased(Emplaced(t, s, v), HandleAt(t, s))
           IN  u \in Table(S, V) /\ Live(u) = Live(t) /\ \A h \in Live(t) : Value(u, h) = Value(t, h)
<1> DEFINE e == Emplaced(t, s, v)
           n == HandleAt(t, s)
           u == Erased(e, n)
<1>1. /\ e \in Table(S, V)
      /\ n \notin Live(t)
      /\ Live(e) = Live(t) \cup {n}
      /\ \A h \in Live(t) : Value(e, h) = Value(t, h)
  BY EmplaceAddsOne
<1> HIDE DEF e, n
<1>2. u = ErasedAll(e, {n})
  BY <1>1, EraseOne
<1>3. u \in Table(S, V) /\ Live(u) = Live(e) \ {n} /\ \A h \in Live(e) \ {n} : Value(u, h) = Value(e, h)
  BY <1>1, <1>2, EraseEndsThem
<1> HIDE DEF u
<1>4. u \in Table(S, V) /\ Live(u) = Live(t) /\ \A h \in Live(t) : Value(u, h) = Value(t, h)
  BY <1>1, <1>3
<1> QED
  BY <1>4 DEF e, n, u

(* Changing the object of a live handle changes that object only. *)
Updated(t, h, v) == [t EXCEPT ![h.slot].value = v]

LEMMA UpdateChangesOne ==
    ASSUME NEW S, NEW V, Vacant \notin V, NEW t \in Table(S, V), NEW h \in Live(t), NEW v \in V
    PROVE  /\ Updated(t, h, v) \in Table(S, V)
           /\ Live(Updated(t, h, v)) = Live(t)
           /\ Value(Updated(t, h, v), h) = v
           /\ \A g \in Live(t) : g # h => Value(Updated(t, h, v), g) = Value(t, g)
<1> DEFINE u == Updated(t, h, v)
<1> USE DEF Updated
<1>1. DOMAIN t = S /\ h.slot \in S /\ Occupied(t, h.slot)
  BY DEF Table, Live, Resolves
<1>2. u \in Table(S, V) /\ u[h.slot].value = v /\ u[h.slot].generation = t[h.slot].generation
  BY <1>1 DEF Table
<1>3. \A s \in S : s # h.slot => u[s] = t[s]
  BY <1>1 DEF Table
<1>4. DOMAIN u = S
  BY <1>2 DEF Table
<1>5. Live(u) = Live(t)
  <2>1. \A s \in S : u[s].generation = t[s].generation /\ (Occupied(u, s) <=> Occupied(t, s))
    BY <1>1, <1>2, <1>3 DEF Occupied
  <2> QED
    BY <1>1, <1>4, <2>1 DEF Live, HandlesOf, Resolves
<1>6. \A g \in Live(t) : g # h => g.slot # h.slot /\ g.slot \in S
  BY <1>1, LiveIsOne DEF Live, Resolves
<1> QED
  BY <1>2, <1>3, <1>5, <1>6 DEF Value

-------------------------------------------------------------------------------
(* What no operation undoes: a generation that is past, and a slot that is     *)
(* retired and empty.                                                          *)
Kept(a, b) ==
    /\ a.generation <= b.generation
    /\ a.generation = b.generation /\ a.retired /\ a.value = Vacant => b.retired /\ b.value = Vacant

Onward(t, u) == DOMAIN u = DOMAIN t /\ \A s \in DOMAIN t : Kept(t[s], u[s])

(* A table left alone goes onward.                                             *)
LEMMA OnwardStays ==
    ASSUME NEW S, NEW V, NEW t \in Table(S, V)
    PROVE  Onward(t, t)
BY DEF Onward, Kept, Table

(* So do two steps, if each does.                                              *)
LEMMA OnwardGoesOn ==
    ASSUME NEW S, NEW V, NEW t \in Table(S, V), NEW u \in Table(S, V), NEW w \in Table(S, V),
           Onward(t, u), Onward(u, w)
    PROVE  Onward(t, w)
<1>1. DOMAIN t = S /\ DOMAIN u = S /\ DOMAIN w = S
  BY DEF Table
<1>2. ASSUME NEW s \in S PROVE Kept(t[s], w[s])
  <2>1. t[s].generation \in Nat /\ u[s].generation \in Nat /\ w[s].generation \in Nat
    BY DEF Table
  <2>2. Kept(t[s], u[s]) /\ Kept(u[s], w[s])
    BY <1>1 DEF Onward
  <2>3. t[s].generation <= w[s].generation
    BY <2>1, <2>2 DEF Kept
  <2>4. ASSUME t[s].generation = w[s].generation, t[s].retired, t[s].value = Vacant
        PROVE  w[s].retired /\ w[s].value = Vacant
    <3>1. t[s].generation = u[s].generation /\ u[s].generation = w[s].generation
      BY <2>1, <2>2, <2>4 DEF Kept
    <3>2. u[s].retired /\ u[s].value = Vacant
      BY <2>2, <2>4, <3>1 DEF Kept
    <3> QED
      BY <2>2, <3>1, <3>2 DEF Kept
  <2> QED
    BY <2>3, <2>4 DEF Kept
<1> QED
  BY <1>1, <1>2 DEF Onward

(* emplace takes an empty slot that is not retired.                            *)
LEMMA EmplaceIsOnward ==
    ASSUME NEW S, NEW V, NEW t \in Table(S, V), NEW s, FirstFree(t, s), NEW v
    PROVE  Onward(t, Emplaced(t, s, v))
<1>1. s \in S /\ ~t[s].retired /\ DOMAIN t = S
  BY DEF FirstFree, Table
<1> QED
  BY <1>1 DEF Onward, Kept, Table, Emplaced

(* A change of an object leaves generations and empty slots alone.             *)
LEMMA UpdateIsOnward ==
    ASSUME NEW S, NEW V, NEW t \in Table(S, V), NEW h \in Live(t), NEW v
    PROVE  Onward(t, Updated(t, h, v))
<1>1. h.slot \in S /\ t[h.slot].value # Vacant /\ DOMAIN t = S
  BY DEF Live, Resolves, Occupied, Table
<1>2. \A s \in S : t[s].generation \in Nat
  BY DEF Table
<1>3. DOMAIN Updated(t, h, v) = S
  BY <1>1 DEF Updated
<1>4. \A s \in S : s # h.slot => Updated(t, h, v)[s] = t[s]
  BY <1>1 DEF Updated
<1>5. Updated(t, h, v)[h.slot].generation = t[h.slot].generation
  BY <1>1 DEF Updated, Table
<1>6. \A s \in S : Kept(t[s], Updated(t, h, v)[s])
  BY <1>1, <1>2, <1>4, <1>5 DEF Kept
<1> QED
  BY <1>1, <1>3, <1>6 DEF Onward

(* erase moves the generation on, or retires the slot.                         *)
LEMMA EraseIsOnward ==
    ASSUME NEW S, NEW V, NEW t \in Table(S, V), NEW H
    PROVE  Onward(t, ErasedAll(t, H))
<1> DEFINE Slots == [generation : 1..MaxGeneration, retired : BOOLEAN, value : V \cup {Vacant}]
<1>1. DOMAIN t = S /\ \A s \in S : t[s] \in Slots
  BY DEF Table
<1>2. \A a \in Slots : Kept(a, Emptied(a))
  BY EmptiedSlot DEF Kept
<1>3. \A a \in Slots : Kept(a, a)
  BY DEF Kept
<1>4. DOMAIN ErasedAll(t, H) = S
  BY <1>1 DEF ErasedAll
<1>5. \A s \in S : ErasedAll(t, H)[s] = IF \E h \in H : h.slot = s THEN Emptied(t[s]) ELSE t[s]
  BY <1>1 DEF ErasedAll
<1> HIDE DEF Slots
<1> QED
  BY <1>1, <1>2, <1>3, <1>4, <1>5 DEF Onward

-------------------------------------------------------------------------------

Frames == Table(1..FrameCapacity, Lease)
Sessions == Table(1..SessionCapacity, Session)
Tickets == Table(1..TicketCapacity, Ticket)

Inv ==
    /\ TypeOK
    /\ OwnersMatch
    /\ TicketsCounted
    /\ WorkIsReachable
    /\ HostFramesLent

-------------------------------------------------------------------------------
(* The tables issue the handles their types name. *)
LEMMA HandleSets ==
    /\ \A t \in Frames : HandlesOf(t) = FrameHandle /\ Live(t) \subseteq FrameHandle
    /\ \A t \in Sessions : HandlesOf(t) = SessionHandle /\ Live(t) \subseteq SessionHandle
    /\ \A t \in Tickets : HandlesOf(t) = TicketHandle /\ Live(t) \subseteq TicketHandle
BY DEF Frames, Sessions, Tickets, Table, HandlesOf, FrameHandle, SessionHandle, TicketHandle, Live

(* The empty slot holds no lease, session or ticket.                           *)
LEMMA VacantIsNoObject == Vacant \notin Lease /\ Vacant \notin Session /\ Vacant \notin Ticket
BY VacantAssumption

(* The object of a live handle is of the table's type. *)
LEMMA LiveValue ==
    /\ \A t \in Frames : \A h \in Live(t) : Value(t, h) \in Lease
    /\ \A t \in Sessions : \A h \in Live(t) : Value(t, h) \in Session
    /\ \A t \in Tickets : \A h \in Live(t) : Value(t, h) \in Ticket
BY DEF Frames, Sessions, Tickets, Table, Live, Resolves, Occupied, Value

(* The invalid handle names no frame.                                          *)
LEMMA NoHandleIsNone == NoHandle \notin FrameHandle /\ \A t \in Frames : ~Resolves(t, NoHandle)
BY CapacityAssumption DEF NoHandle, FrameHandle, Resolves, Frames, Table

(* release_owner of some frames takes this owner from each of them, and the    *)
(* lease from those it was the last owner of.                                  *)
LEMMA DisownTakes ==
    ASSUME NEW t \in Frames, NEW F \in SUBSET (FrameHandle \cup {NoHandle}), NEW o \in Owner
    PROVE  /\ Disowned(t, F, o) \in Frames
           /\ \A g \in FrameHandle :
                /\ Owners(Disowned(t, F, o), g) = IF g \in F THEN Owners(t, g) \ {o} ELSE Owners(t, g)
                /\ Resolves(Disowned(t, F, o), g) <=> Resolves(t, g) /\ ~(g \in F /\ Owners(t, g) = {o})
                /\ Resolves(Disowned(t, F, o), g) => Value(Disowned(t, F, o), g).storage = Value(t, g).storage
<1> DEFINE u == Disowned(t, F, o)
           Slots == [generation : 1..MaxGeneration, retired : BOOLEAN, value : Lease \cup {Vacant}]
           Hit(s) == \E f \in F : f.slot = s /\ o \in Owners(t, f)
<1>1. DOMAIN t = 1..FrameCapacity /\ \A s \in 1..FrameCapacity : t[s] \in Slots
  BY DEF Frames, Table
<1>2. DOMAIN u = 1..FrameCapacity /\ \A s \in 1..FrameCapacity : u[s] = IF Hit(s) THEN Without(t[s], o) ELSE t[s]
  BY <1>1 DEF Disowned
<1>3. \A f \in F : o \in Owners(t, f) => Resolves(t, f) /\ f \in FrameHandle
  BY NoHandleIsNone DEF Owners
<1>4. \A s \in 1..FrameCapacity : Hit(s) => Occupied(t, s) /\ t[s].value \in Lease
  BY <1>1, <1>3 DEF Resolves, Occupied
<1>5. ASSUME NEW a \in Slots, a.value \in Lease
      PROVE  /\ Without(a, o) \in Slots
             /\ IF a.value.owners = {o}
                THEN Without(a, o).value = Vacant
                ELSE /\ Without(a, o).value \in Lease
                     /\ Without(a, o).value.owners = a.value.owners \ {o}
                     /\ Without(a, o).value.storage = a.value.storage
                     /\ Without(a, o).generation = a.generation
  <2>1. CASE a.value.owners = {o}
    BY <1>5, <2>1, EmptiedSlot DEF Without
  <2>2. CASE a.value.owners # {o}
    BY <1>5, <2>2 DEF Without, Lease
  <2> QED
    BY <2>1, <2>2
<1>6. \A s \in 1..FrameCapacity : u[s] \in Slots
  BY <1>1, <1>2, <1>4, <1>5
<1>7. u \in Frames
  <2>1. u = [s \in 1..FrameCapacity |-> u[s]]
    BY <1>1 DEF Disowned
  <2> QED
    BY <1>6, <2>1 DEF Frames, Table
<1> HIDE DEF u, Slots, Hit
<1>8. ASSUME NEW g \in FrameHandle
      PROVE  /\ Owners(u, g) = IF g \in F THEN Owners(t, g) \ {o} ELSE Owners(t, g)
             /\ Resolves(u, g) <=> Resolves(t, g) /\ ~(g \in F /\ Owners(t, g) = {o})
             /\ Resolves(u, g) => Value(u, g).storage = Value(t, g).storage
  <2>1. g.slot \in 1..FrameCapacity
    BY DEF FrameHandle
  <2>2. CASE Resolves(t, g)
    <3>1. t[g.slot].value \in Lease /\ t[g.slot].generation = g.generation /\ Owners(t, g) = t[g.slot].value.owners
      BY <1>1, <2>1, <2>2 DEF Resolves, Occupied, Owners, Value, Slots
    <3>2. Hit(g.slot) <=> g \in F /\ o \in Owners(t, g)
      BY <1>3, <3>1 DEF Hit, Resolves, FrameHandle
    <3>3. CASE Hit(g.slot) /\ Owners(t, g) = {o}
      <4>1. u[g.slot].value = Vacant
        BY <1>1, <1>2, <1>5, <2>1, <3>1, <3>3
      <4>2. ~Resolves(u, g)
        BY <4>1 DEF Resolves, Occupied
      <4> QED
        BY <3>2, <3>3, <4>2 DEF Owners
    <3>4. CASE Hit(g.slot) /\ Owners(t, g) # {o}
      <4>1. /\ u[g.slot].value \in Lease
            /\ u[g.slot].value.owners = Owners(t, g) \ {o}
            /\ u[g.slot].value.storage = t[g.slot].value.storage
            /\ u[g.slot].generation = g.generation
        BY <1>1, <1>2, <1>5, <2>1, <3>1, <3>4
      <4>2. Resolves(u, g)
        BY <1>2, <2>1, <4>1, VacantIsNoObject DEF Resolves, Occupied
      <4> QED
        BY <2>2, <3>2, <3>4, <4>1, <4>2 DEF Owners, Value
    <3>5. CASE ~Hit(g.slot)
      <4>1. u[g.slot] = t[g.slot]
        BY <1>2, <2>1, <3>5
      <4>2. Resolves(u, g) /\ Owners(u, g) = Owners(t, g)
        BY <1>1, <1>2, <2>1, <2>2, <4>1 DEF Resolves, Occupied, Owners, Value
      <4>3. g \in F => o \notin Owners(t, g)
        BY <3>2, <3>5
      <4> QED
        BY <2>2, <4>1, <4>2, <4>3 DEF Value
    <3> QED
      BY <3>3, <3>4, <3>5
  <2>3. CASE ~Resolves(t, g)
    <3>1. ~Resolves(u, g)
      <4>1. CASE Hit(g.slot)
        <5>1. Occupied(t, g.slot) /\ t[g.slot].value \in Lease /\ t[g.slot].generation # g.generation
          BY <1>1, <1>4, <2>1, <2>3, <4>1 DEF Resolves
        <5> QED
          BY <1>1, <1>2, <1>5, <2>1, <4>1, <5>1 DEF Resolves, Occupied
      <4>2. CASE ~Hit(g.slot)
        BY <1>1, <1>2, <2>1, <2>3, <4>2 DEF Resolves, Occupied
      <4> QED
        BY <4>1, <4>2
    <3> QED
      BY <2>3, <3>1 DEF Owners
  <2> QED
    BY <2>2, <2>3
<1> QED
  BY <1>7, <1>8 DEF u

(* emplace adds a lease with its owners. *)
LEMMA ImportAdds ==
    ASSUME NEW t \in Frames, NEW s, FirstFree(t, s), NEW v \in Lease
    PROVE  /\ Emplaced(t, s, v) \in Frames
           /\ HandleAt(t, s) \in FrameHandle
           /\ ~Resolves(t, HandleAt(t, s))
           /\ \A g \in FrameHandle :
                /\ Owners(Emplaced(t, s, v), g) = IF g = HandleAt(t, s) THEN v.owners ELSE Owners(t, g)
                /\ Resolves(Emplaced(t, s, v), g) <=> Resolves(t, g) \/ g = HandleAt(t, s)
                /\ Value(Emplaced(t, s, v), HandleAt(t, s)) = v
                /\ Resolves(t, g) => Value(Emplaced(t, s, v), g) = Value(t, g)
<1> DEFINE u == Emplaced(t, s, v)
           n == HandleAt(t, s)
<1>1. /\ u \in Frames
      /\ n \in HandlesOf(t)
      /\ n \notin Live(t)
      /\ Live(u) = Live(t) \cup {n}
      /\ Value(u, n) = v
      /\ \A h \in Live(t) : Value(u, h) = Value(t, h)
  BY EmplaceAddsOne, VacantIsNoObject DEF Frames
<1>2. HandlesOf(t) = FrameHandle /\ HandlesOf(u) = FrameHandle
  BY <1>1, HandleSets
<1> HIDE DEF u, n
<1>3. \A g \in FrameHandle : (Resolves(t, g) <=> g \in Live(t)) /\ (Resolves(u, g) <=> g \in Live(u))
  BY <1>2 DEF Live
<1>4. u \in Frames /\ n \in FrameHandle /\ ~Resolves(t, n)
  BY <1>1, <1>2, <1>3
<1>5. \A g \in FrameHandle :
        /\ Owners(u, g) = IF g = n THEN v.owners ELSE Owners(t, g)
        /\ Resolves(u, g) <=> Resolves(t, g) \/ g = n
        /\ Value(u, n) = v
        /\ Resolves(t, g) => Value(u, g) = Value(t, g)
  BY <1>1, <1>3 DEF Owners
<1> QED
  BY <1>4, <1>5 DEF u, n

(* add_owner adds the owner to that lease only. *)
LEMMA OwnAdds ==
    ASSUME NEW t \in Frames, NEW f \in FrameHandle, Resolves(t, f), NEW o \in Owner
    PROVE  /\ Owned(t, f, o) \in Frames
           /\ \A g \in FrameHandle :
                /\ Owners(Owned(t, f, o), g) = IF g = f THEN Owners(t, g) \cup {o} ELSE Owners(t, g)
                /\ Resolves(Owned(t, f, o), g) <=> Resolves(t, g)
                /\ Resolves(t, g) => Value(Owned(t, f, o), g).storage = Value(t, g).storage
<1> DEFINE u == Owned(t, f, o)
           v == [Value(t, f) EXCEPT !.owners = @ \cup {o}]
<1>1. f \in Live(t) /\ Value(t, f) \in Lease
  BY HandleSets, LiveValue DEF Live
<1>2. v \in Lease /\ v.owners = Value(t, f).owners \cup {o} /\ v.storage = Value(t, f).storage
  BY <1>1 DEF Lease
<1>3. u = Updated(t, f, v)
  BY <1>1 DEF Owned, Value, Updated, Live, Resolves, Frames, Table
<1> HIDE DEF u, v
<1>4. u \in Frames /\ Live(u) = Live(t) /\ Value(u, f) = v /\ \A g \in Live(t) : g # f => Value(u, g) = Value(t, g)
  BY <1>1, <1>2, <1>3, UpdateChangesOne, VacantIsNoObject DEF Frames
<1>5. \A g \in FrameHandle : (Resolves(t, g) <=> g \in Live(t)) /\ (Resolves(u, g) <=> g \in Live(u))
  BY <1>4, HandleSets DEF Live
<1>6. \A g \in FrameHandle :
        /\ Owners(u, g) = IF g = f THEN Owners(t, g) \cup {o} ELSE Owners(t, g)
        /\ Resolves(u, g) <=> Resolves(t, g)
        /\ Resolves(t, g) => Value(u, g).storage = Value(t, g).storage
  BY <1>1, <1>2, <1>4, <1>5 DEF Owners
<1> QED
  BY <1>4, <1>6 DEF u

-------------------------------------------------------------------------------
(* The frames: what imports and releases do to the owners. *)

(* import_host, import_native: the new frame replaces the one in the mailbox.  *)
LEMMA ImportKeeps ==
    ASSUME TypeOK, OwnersMatch, HostFramesLent, NEW storage \in Storage, ImportFrame(storage)
    PROVE  /\ frames' \in Frames /\ pending' \in FrameHandle
           /\ OwnersMatch' /\ HostFramesLent'
<1> DEFINE v == [owners |-> {"caller", "mailbox"}, storage |-> storage]
<1>1. PICK s \in 1..FrameCapacity :
        /\ FirstFree(frames, s)
        /\ frames' = Disowned(Emplaced(frames, s, v), {pending}, "mailbox")
        /\ pending' = HandleAt(frames, s)
        /\ tickets' = tickets
  BY DEF ImportFrame, inferenceVars
<1> DEFINE e == Emplaced(frames, s, v)
           n == HandleAt(frames, s)
<1>2. v \in Lease /\ v.owners = {"caller", "mailbox"}
  BY DEF Lease, Owner
<1>3. frames \in Frames /\ pending \in FrameHandle \cup {NoHandle}
  BY DEF TypeOK, Frames
<1>4. /\ e \in Frames /\ n \in FrameHandle /\ ~Resolves(frames, n)
      /\ \A g \in FrameHandle :
           /\ Owners(e, g) = IF g = n THEN {"caller", "mailbox"} ELSE Owners(frames, g)
           /\ Resolves(e, g) <=> Resolves(frames, g) \/ g = n
  BY <1>1, <1>2, <1>3, ImportAdds
<1> DEFINE P == {pending}
<1>5. frames' = Disowned(e, P, "mailbox") /\ pending' = n
  BY <1>1
<1> HIDE DEF e, n, v
<1>6. P \in SUBSET (FrameHandle \cup {NoHandle}) /\ \A g : g \in P <=> g = pending
  BY <1>3
<1> HIDE DEF P
<1>7. /\ frames' \in Frames
      /\ \A g \in FrameHandle :
           /\ Owners(frames', g) = IF g = pending THEN Owners(e, g) \ {"mailbox"} ELSE Owners(e, g)
           /\ Resolves(frames', g) <=> Resolves(e, g) /\ ~(g = pending /\ Owners(e, g) = {"mailbox"})
           /\ Resolves(frames', g) => Value(frames', g).storage = Value(e, g).storage
  BY <1>4, <1>5, <1>6, DisownTakes DEF Owner
<1>8. pending # n /\ \A g \in FrameHandle : "mailbox" \in Owners(frames, g) <=> pending = g
  BY <1>4 DEF OwnersMatch, Owners
<1>9. OwnersMatch'
  <2>1. ASSUME NEW g \in FrameHandle
        PROVE  /\ "mailbox" \in Owners(frames', g) <=> pending' = g
               /\ "worker" \in Owners(frames', g) <=> "worker" \in Owners(frames, g)
               /\ Resolves(frames', g) => Owners(frames', g) # {}
    <3>1. "worker" \notin Owners(frames, n)
      BY <1>4 DEF Owners
    <3>2. Resolves(frames, g) => Owners(frames, g) # {}
      BY DEF OwnersMatch
    <3> QED
      BY <1>4, <1>5, <1>7, <1>8, <3>1, <3>2
  <2> QED
    BY <1>1, <2>1 DEF OwnersMatch
<1>10. HostFramesLent'
  <2> SUFFICES ASSUME NEW g \in Live(frames'), Value(frames', g).storage = "host"
               PROVE  "caller" \in Value(frames', g).owners
    BY <1>7, HandleSets DEF HostFramesLent, Live, Owners
  <2>1. g \in FrameHandle /\ Resolves(frames', g) /\ Resolves(e, g) /\ Value(e, g).storage = "host"
    BY <1>7, HandleSets DEF Live
  <2>2. "caller" \in Owners(e, g)
    <3>1. CASE g = n
      BY <1>4, <2>1, <3>1
    <3>2. CASE g # n
      <4>1. Resolves(frames, g) /\ Value(e, g) = Value(frames, g)
        BY <1>1, <1>2, <1>3, <1>4, <2>1, <3>2, ImportAdds DEF e
      <4>2. "caller" \in Value(frames, g).owners
        BY <1>3, <2>1, <4>1, HandleSets DEF HostFramesLent, Live, Owners
      <4> QED
        BY <1>4, <2>1, <3>2, <4>1, <4>2 DEF Owners
    <3> QED
      BY <3>1, <3>2
  <2> QED
    BY <1>7, <2>1, <2>2 DEF Owners
<1> QED
  BY <1>4, <1>5, <1>7, <1>9, <1>10

(* release_frame: the caller gives its frame up, and the mailbox with it.      *)
LEMMA ReleaseKeeps ==
    ASSUME TypeOK, OwnersMatch, HostFramesLent, NEW f \in FrameHandle, ReleaseFrame(f)
    PROVE  /\ frames' \in Frames /\ pending' \in FrameHandle \cup {NoHandle}
           /\ OwnersMatch' /\ HostFramesLent'
<1> DEFINE taken == IF pending = f THEN {f} ELSE {}
           own == {f}
           d == Disowned(frames, taken, "mailbox")
<1>1. /\ "caller" \in Owners(frames, f) /\ ~LentOut(f)
      /\ frames' = Disowned(d, own, "caller")
      /\ pending' = IF pending = f THEN NoHandle ELSE pending
      /\ tickets' = tickets
  BY DEF ReleaseFrame, inferenceVars
<1>2. frames \in Frames /\ pending \in FrameHandle \cup {NoHandle}
  BY DEF TypeOK, Frames
<1>3. /\ taken \in SUBSET (FrameHandle \cup {NoHandle}) /\ own \in SUBSET (FrameHandle \cup {NoHandle})
      /\ \A g : (g \in own <=> g = f) /\ (g \in taken <=> g = f /\ pending = f)
  OBVIOUS
<1> HIDE DEF taken, own
<1>4. /\ d \in Frames
      /\ \A g \in FrameHandle :
           /\ Owners(d, g) = IF g \in taken THEN Owners(frames, g) \ {"mailbox"} ELSE Owners(frames, g)
           /\ Resolves(d, g) <=> Resolves(frames, g) /\ ~(g \in taken /\ Owners(frames, g) = {"mailbox"})
           /\ Resolves(d, g) => Value(d, g).storage = Value(frames, g).storage
  BY <1>2, <1>3, DisownTakes DEF Owner
<1> HIDE DEF d
<1>5. /\ frames' \in Frames
      /\ \A g \in FrameHandle :
           /\ Owners(frames', g) = IF g \in own THEN Owners(d, g) \ {"caller"} ELSE Owners(d, g)
           /\ Resolves(frames', g) <=> Resolves(d, g) /\ ~(g \in own /\ Owners(d, g) = {"caller"})
           /\ Resolves(frames', g) => Value(frames', g).storage = Value(d, g).storage
  BY <1>1, <1>3, <1>4, DisownTakes DEF Owner
<1>6. \A g \in FrameHandle :
        /\ "mailbox" \in Owners(frames, g) <=> pending = g
        /\ Resolves(frames, g) => Owners(frames, g) # {}
  BY DEF OwnersMatch
<1>7. NoHandle \notin FrameHandle
  BY NoHandleIsNone
<1>8. Owners(frames', f) = Owners(frames, f) \ {"caller", "mailbox"}
  BY <1>3, <1>4, <1>5, <1>6
<1>9. \A g \in FrameHandle : g # f =>
        /\ Owners(frames', g) = Owners(frames, g)
        /\ Resolves(frames', g) <=> Resolves(frames, g)
  BY <1>3, <1>4, <1>5
<1>10. /\ Resolves(frames, f)
       /\ Resolves(frames', f) => Owners(frames', f) # {}
  BY ZenonT(60), <1>1, <1>3, <1>4, <1>5 DEF Owners
<1>11. OwnersMatch'
  <2>1. ASSUME NEW g \in FrameHandle
        PROVE  /\ "mailbox" \in Owners(frames', g) <=> pending' = g
               /\ "worker" \in Owners(frames', g) <=> "worker" \in Owners(frames, g)
               /\ Resolves(frames', g) => Owners(frames', g) # {}
    BY <1>1, <1>6, <1>7, <1>8, <1>9, <1>10
  <2> QED
    BY <1>1, <2>1 DEF OwnersMatch
<1>12. HostFramesLent'
  <2> SUFFICES ASSUME NEW g \in Live(frames'), Value(frames', g).storage = "host"
               PROVE  "caller" \in Owners(frames', g)
    BY DEF HostFramesLent
  <2>1. g \in FrameHandle /\ Resolves(frames', g) /\ Resolves(frames, g) /\ Value(frames, g).storage = "host"
    BY <1>4, <1>5, HandleSets DEF Live
  <2>2. CASE g = f
    <3>1. "worker" \notin Owners(frames, f)
      BY <1>1, <2>1, <2>2 DEF LentOut
    <3>2. Owners(frames, f) \subseteq {"caller", "mailbox", "worker"}
      BY <1>2, <1>10, HandleSets, LiveValue DEF Owners, Lease, Owner, Live
    <3> QED
      BY <1>8, <1>10, <2>1, <2>2, <3>1, <3>2
  <2>3. CASE g # f
    BY <1>2, <1>9, <2>1, <2>3, HandleSets DEF HostFramesLent, Live
  <2> QED
    BY <2>2, <2>3
<1> QED
  BY <1>1, <1>2, <1>5, <1>11, <1>12

(* The step leaves the frames alone, and the frames the tickets bind.          *)
LEMMA FramesUntouched ==
    ASSUME TypeOK, OwnersMatch, HostFramesLent, UNCHANGED <<frames, pending>>,
           tickets' \in Tickets, Live(tickets') = Live(tickets),
           \A t \in Live(tickets) : Value(tickets', t) = Value(tickets, t)
    PROVE  OwnersMatch' /\ HostFramesLent'
<1>1. OwnersMatch'
  BY DEF OwnersMatch
<1>2. HostFramesLent'
  BY DEF HostFramesLent
<1> QED
  BY <1>1, <1>2

(* A new ticket takes its frame for the worker.                                *)
LEMMA SubmitKeepsOwners ==
    ASSUME TypeOK, OwnersMatch, HostFramesLent, pending' = pending,
           NEW f \in FrameHandle, Resolves(frames, f), "worker" \notin Owners(frames, f),
           frames' = Owned(frames, f, "worker"),
           NEW n, n \notin Live(tickets), Live(tickets') = Live(tickets) \cup {n},
           Value(tickets', n).frame = f, \A t \in Live(tickets) : Value(tickets', t) = Value(tickets, t)
    PROVE  frames' \in Frames /\ OwnersMatch' /\ HostFramesLent'
<1>1. /\ frames' \in Frames
      /\ \A g \in FrameHandle :
           /\ Owners(frames', g) = IF g = f THEN Owners(frames, g) \cup {"worker"} ELSE Owners(frames, g)
           /\ Resolves(frames', g) <=> Resolves(frames, g)
           /\ Resolves(frames, g) => Value(frames', g).storage = Value(frames, g).storage
  BY OwnAdds DEF TypeOK, Frames, Owner
<1>2. OwnersMatch'
  <2>1. ASSUME NEW g \in FrameHandle
        PROVE  "mailbox" \in Owners(frames', g) <=> pending' = g
    BY <1>1 DEF OwnersMatch
  <2>2. ASSUME NEW g \in FrameHandle
        PROVE  "worker" \in Owners(frames', g) <=> \E t \in Live(tickets') : Value(tickets', t).frame = g
    <3>1. "worker" \in Owners(frames, g) <=> \E t \in Live(tickets) : Value(tickets, t).frame = g
      BY DEF OwnersMatch
    <3>2. CASE g = f
      BY <1>1, <3>2
    <3>3. CASE g # f
      BY <1>1, <3>1, <3>3
    <3> QED
      BY <3>2, <3>3
  <2>3. ASSUME NEW g \in FrameHandle, Resolves(frames', g)
        PROVE  Owners(frames', g) # {}
    BY <1>1, <2>3 DEF OwnersMatch
  <2>4. ASSUME NEW t \in Live(tickets'), NEW u \in Live(tickets'), Value(tickets', t).frame = Value(tickets', u).frame
        PROVE  t = u
    <3>1. \A x \in Live(tickets) : Value(tickets, x).frame # f
      BY DEF OwnersMatch
    <3> QED
      BY <2>4, <3>1 DEF OwnersMatch
  <2> QED
    BY <2>1, <2>2, <2>3, <2>4 DEF OwnersMatch
<1>3. HostFramesLent'
  <2> SUFFICES ASSUME NEW g \in Live(frames'), Value(frames', g).storage = "host"
               PROVE  "caller" \in Owners(frames', g)
    BY DEF HostFramesLent
  <2>1. g \in FrameHandle /\ g \in Live(frames) /\ Value(frames, g).storage = "host"
    BY <1>1, HandleSets DEF Live, TypeOK, Frames
  <2> QED
    BY <1>1, <2>1 DEF HostFramesLent
<1> QED
  BY <1>1, <1>2, <1>3

(* Ending tickets takes their frames from the worker: collect ends one, reset  *)
(* those of a session.                                                         *)
LEMMA EndKeepsOwners ==
    ASSUME TypeOK, OwnersMatch, HostFramesLent, pending' = pending,
           NEW H \in SUBSET Live(tickets),
           NEW F, \A g : g \in F <=> \E t \in H : g = Value(tickets, t).frame,
           frames' = Disowned(frames, F, "worker"),
           Live(tickets') = Live(tickets) \ H,
           \A t \in Live(tickets) \ H : Value(tickets', t) = Value(tickets, t)
    PROVE  frames' \in Frames /\ OwnersMatch' /\ HostFramesLent'
<1>1. F \in SUBSET (FrameHandle \cup {NoHandle})
  <2>1. \A t \in H : Value(tickets, t) \in Ticket
    BY LiveValue DEF TypeOK, Tickets
  <2> QED
    BY <2>1 DEF Ticket
<1>2. /\ frames' \in Frames
      /\ \A g \in FrameHandle :
           /\ Owners(frames', g) = IF g \in F THEN Owners(frames, g) \ {"worker"} ELSE Owners(frames, g)
           /\ Resolves(frames', g) <=> Resolves(frames, g) /\ ~(g \in F /\ Owners(frames, g) = {"worker"})
           /\ Resolves(frames', g) => Value(frames', g).storage = Value(frames, g).storage
  BY <1>1, DisownTakes DEF TypeOK, Frames, Owner
<1>3. \A g \in FrameHandle : Resolves(frames, g) => Owners(frames, g) # {}
  BY DEF OwnersMatch
<1>4. OwnersMatch'
  <2>1. ASSUME NEW g \in FrameHandle
        PROVE  "mailbox" \in Owners(frames', g) <=> pending' = g
    BY <1>2 DEF OwnersMatch
  <2>2. ASSUME NEW g \in FrameHandle
        PROVE  "worker" \in Owners(frames', g) <=> \E t \in Live(tickets') : Value(tickets', t).frame = g
    <3>1. "worker" \in Owners(frames, g) <=> \E t \in Live(tickets) : Value(tickets, t).frame = g
      BY DEF OwnersMatch
    <3>2. \A t, u \in Live(tickets) : Value(tickets, t).frame = Value(tickets, u).frame => t = u
      BY DEF OwnersMatch
    <3>3. CASE g \in F
      <4>1. \A t \in Live(tickets) \ H : Value(tickets, t).frame # g
        BY <3>2, <3>3
      <4> QED
        BY <1>2, <3>3, <4>1
    <3>4. CASE g \notin F
      BY <1>2, <3>1, <3>4
    <3> QED
      BY <3>3, <3>4
  <2>3. ASSUME NEW g \in FrameHandle, Resolves(frames', g)
        PROVE  Owners(frames', g) # {}
    <3>1. Owners(frames, g) # {} /\ ~(g \in F /\ Owners(frames, g) = {"worker"})
      BY <1>2, <1>3, <2>3
    <3>2. PICK o \in Owners(frames, g) : g \in F => o # "worker"
      BY <3>1
    <3> QED
      BY <1>2, <3>2
  <2>4. \A t, u \in Live(tickets') : Value(tickets', t).frame = Value(tickets', u).frame => t = u
    BY DEF OwnersMatch
  <2> QED
    BY <2>1, <2>2, <2>3, <2>4 DEF OwnersMatch
<1>5. HostFramesLent'
  <2> SUFFICES ASSUME NEW g \in Live(frames'), Value(frames', g).storage = "host"
               PROVE  "caller" \in Owners(frames', g)
    BY DEF HostFramesLent
  <2>1. g \in FrameHandle /\ g \in Live(frames) /\ Value(frames, g).storage = "host"
    BY <1>2, HandleSets DEF Live, TypeOK, Frames
  <2> QED
    BY <1>2, <2>1 DEF HostFramesLent
<1> QED
  BY <1>2, <1>4, <1>5


-------------------------------------------------------------------------------
(* The sessions: counts and what providers still have.                         *)

(* A table has finitely many live handles.                                     *)
LEMMA LiveIsFinite ==
    ASSUME NEW t \in Tickets
    PROVE  IsFiniteSet(Live(t))
<1> DEFINE slotOf == [h \in Live(t) |-> h.slot]
<1>1. slotOf \in [Live(t) -> 1..TicketCapacity]
  BY DEF Live, HandlesOf, Tickets, Table
<1>2. \A g, h \in Live(t) : slotOf[g] = slotOf[h] => g = h
  BY LiveIsOne
<1>3. slotOf \in Injection(Live(t), 1..TicketCapacity)
  BY <1>1, <1>2, Fun_IsInj
<1>4. IsFiniteSet(1..TicketCapacity)
  BY CapacityAssumption, FS_Interval
<1> QED
  BY <1>3, <1>4, FS_Injection

(* Setting the count of a session. *)
Counting(t, s, k) == [t EXCEPT ![s.slot].value.active = k]

(* Setting the count of one session leaves every other session alone.          *)
LEMMA CountingSetsOne ==
    ASSUME NEW t \in Sessions, NEW s \in Live(t), NEW k \in 0..QueueLimit
    PROVE  /\ Counting(t, s, k) \in Sessions
           /\ Live(Counting(t, s, k)) = Live(t)
           /\ Value(Counting(t, s, k), s).active = k
           /\ Value(Counting(t, s, k), s).queue = Value(t, s).queue
           /\ Value(Counting(t, s, k), s).context = Value(t, s).context
           /\ \A g \in Live(t) : g # s => Value(Counting(t, s, k), g) = Value(t, g)
<1> DEFINE v == [Value(t, s) EXCEPT !.active = k]
<1>1. Value(t, s) \in Session
  BY LiveValue
<1>2. v \in Session /\ v.active = k /\ v.queue = Value(t, s).queue /\ v.context = Value(t, s).context
  BY <1>1 DEF Session
<1>3. Counting(t, s, k) = Updated(t, s, v)
  BY DEF Counting, Updated, Value, Sessions, Table, Live, Resolves
<1> HIDE DEF v
<1>4. /\ Updated(t, s, v) \in Sessions
      /\ Live(Updated(t, s, v)) = Live(t)
      /\ Value(Updated(t, s, v), s) = v
      /\ \A g \in Live(t) : g # s => Value(Updated(t, s, v), g) = Value(t, g)
  BY <1>2, UpdateChangesOne, VacantIsNoObject DEF Sessions
<1> QED
  BY <1>2, <1>3, <1>4

(* submit_inference adds one ticket to a session, and counts one more.         *)
LEMMA SubmitKeepsCounts ==
    ASSUME TypeOK, TicketsCounted, WorkIsReachable,
           NEW s \in Live(sessions), Value(sessions, s).active < Value(sessions, s).queue,
           Value(sessions, s).context,
           NEW k, k = Value(sessions, s).active + 1, sessions' = Counting(sessions, s, k),
           NEW n, n \notin Live(tickets), Live(tickets') = Live(tickets) \cup {n},
           Value(tickets', n).session = s, \A t \in Live(tickets) : Value(tickets', t) = Value(tickets, t),
           running' = running \cup {n}, done' = done
    PROVE  sessions' \in Sessions /\ TicketsCounted' /\ WorkIsReachable'
<1>1. sessions \in Sessions /\ Value(sessions, s) \in Session
  BY LiveValue DEF TypeOK, Sessions
<1>2. k \in 0..QueueLimit /\ k <= Value(sessions, s).queue
  BY <1>1, CapacityAssumption DEF Session
<1>4. /\ sessions' \in Sessions
      /\ Live(sessions') = Live(sessions)
      /\ Value(sessions', s).active = k
      /\ Value(sessions', s).queue = Value(sessions, s).queue
      /\ Value(sessions', s).context
      /\ \A g \in Live(sessions) : g # s => Value(sessions', g) = Value(sessions, g)
  BY <1>1, <1>2, CountingSetsOne
<1>5. \A x \in Live(tickets) : Value(tickets', x).session \in Live(sessions)
  BY DEF TicketsCounted
<1>6. ASSUME NEW g \in Live(sessions')
      PROVE  Value(sessions', g).active = Cardinality(Bound(g)') /\ Value(sessions', g).active <= Value(sessions', g).queue
  <2>1. Value(sessions, g).active = Cardinality(Bound(g)) /\ Value(sessions, g).active <= Value(sessions, g).queue
    BY <1>4, <1>6 DEF TicketsCounted
  <2>2. CASE g = s
    <3>1. Bound(g)' = Bound(g) \cup {n} /\ n \notin Bound(g)
      BY <2>2 DEF Bound
    <3>2. IsFiniteSet(Bound(g))
      BY LiveIsFinite, FS_Subset DEF Bound, TypeOK, Tickets
    <3>3. Cardinality(Bound(g)') = Cardinality(Bound(g)) + 1
      BY <3>1, <3>2, FS_AddElement
    <3> QED
      BY <1>2, <1>4, <2>1, <2>2, <3>3
  <2>3. CASE g # s
    <3>1. Bound(g)' = Bound(g)
      BY <2>3 DEF Bound
    <3> QED
      BY <1>4, <2>1, <2>3, <3>1
  <2> QED
    BY <2>2, <2>3
<1>7. TicketsCounted'
  BY <1>4, <1>5, <1>6 DEF TicketsCounted
<1>8. WorkIsReachable'
  <2>1. running' \cap done' = {}
    BY DEF WorkIsReachable
  <2>2. ASSUME NEW t \in running' \cup done'
        PROVE  t \in Live(tickets') /\ Value(tickets', t).session \in Live(sessions')
               /\ Value(sessions', Value(tickets', t).session).context
    <3>1. CASE t = n
      BY <1>4, <3>1
    <3>2. CASE t # n
      <4>1. /\ t \in Live(tickets)
            /\ Value(tickets, t).session \in Live(sessions)
            /\ Value(sessions, Value(tickets, t).session).context
        BY <2>2, <3>2 DEF WorkIsReachable
      <4> QED
        BY <1>4, <4>1
    <3> QED
      BY <3>1, <3>2
  <2> QED
    BY <2>1, <2>2 DEF WorkIsReachable
<1> QED
  BY <1>4, <1>7, <1>8


(* collect ends one ticket of a session, and counts one less. *)
LEMMA CollectKeepsCounts ==
    ASSUME TypeOK, TicketsCounted, WorkIsReachable,
           NEW t \in Live(tickets), NEW s, s = Value(tickets, t).session,
           NEW k, k = Value(sessions, s).active - 1, sessions' = Counting(sessions, s, k),
           Live(tickets') = Live(tickets) \ {t},
           \A u \in Live(tickets) \ {t} : Value(tickets', u) = Value(tickets, u),
           t \notin running, running' = running, done' = done \ {t}
    PROVE  sessions' \in Sessions /\ TicketsCounted' /\ WorkIsReachable'
<1>1. /\ sessions \in Sessions /\ s \in Live(sessions) /\ Value(sessions, s) \in Session
      /\ Value(sessions, s).active = Cardinality(Bound(s))
      /\ Value(sessions, s).active <= Value(sessions, s).queue
  BY LiveValue DEF TypeOK, Sessions, TicketsCounted
<1>2. \A g : IsFiniteSet(Bound(g))
  BY LiveIsFinite, FS_Subset DEF Bound, TypeOK, Tickets
<1>3. t \in Bound(s) /\ Bound(s)' = Bound(s) \ {t}
  BY DEF Bound
<1>4. Cardinality(Bound(s)') = k /\ Bound(s) # {}
  BY <1>1, <1>2, <1>3, FS_RemoveElement
<1>5. k \in 0..QueueLimit /\ k <= Value(sessions, s).queue
  BY <1>1, <1>2, <1>4, CapacityAssumption, FS_EmptySet DEF Session
<1>6. /\ sessions' \in Sessions
      /\ Live(sessions') = Live(sessions)
      /\ Value(sessions', s).active = k
      /\ Value(sessions', s).queue = Value(sessions, s).queue
      /\ Value(sessions', s).context = Value(sessions, s).context
      /\ \A g \in Live(sessions) : g # s => Value(sessions', g) = Value(sessions, g)
  BY <1>1, <1>5, CountingSetsOne
<1>7. ASSUME NEW g \in Live(sessions')
      PROVE  Value(sessions', g).active = Cardinality(Bound(g)') /\ Value(sessions', g).active <= Value(sessions', g).queue
  <2>1. CASE g = s
    BY <1>4, <1>5, <1>6, <2>1
  <2>2. CASE g # s
    <3>1. Bound(g)' = Bound(g)
      BY <2>2 DEF Bound
    <3> QED
      BY <1>6, <1>7, <2>2, <3>1 DEF TicketsCounted
  <2> QED
    BY <2>1, <2>2
<1>8. TicketsCounted'
  BY <1>6, <1>7 DEF TicketsCounted
<1>9. WorkIsReachable'
  <2>1. ASSUME NEW u \in running' \cup done'
        PROVE  u \in Live(tickets') /\ Value(tickets', u).session \in Live(sessions')
               /\ Value(sessions', Value(tickets', u).session).context
    <3>1. /\ u # t /\ u \in Live(tickets)
          /\ Value(tickets, u).session \in Live(sessions)
          /\ Value(sessions, Value(tickets, u).session).context
      BY <2>1 DEF WorkIsReachable
    <3>2. Value(tickets', u) = Value(tickets, u)
      BY <3>1
    <3> QED
      BY <1>6, <3>1, <3>2
  <2> QED
    BY <2>1 DEF WorkIsReachable
<1> QED
  BY <1>6, <1>8, <1>9

(* reset ends every ticket of a session. *)
LEMMA ResetKeepsCounts ==
    ASSUME TypeOK, TicketsCounted, WorkIsReachable, NEW s \in Live(sessions),
           sessions' = Counting(sessions, s, 0),
           NEW H, H = Bound(s), Live(tickets') = Live(tickets) \ H,
           \A u \in Live(tickets) \ H : Value(tickets', u) = Value(tickets, u),
           running' = running \ H, done' = done \ H
    PROVE  sessions' \in Sessions /\ TicketsCounted' /\ WorkIsReachable'
<1>1. sessions \in Sessions /\ Value(sessions, s) \in Session /\ 0 \in 0..QueueLimit
  BY LiveValue, CapacityAssumption DEF TypeOK, Sessions
<1>2. /\ sessions' \in Sessions
      /\ Live(sessions') = Live(sessions)
      /\ Value(sessions', s).active = 0
      /\ Value(sessions', s).queue = Value(sessions, s).queue
      /\ \A g \in Live(sessions) : g # s => Value(sessions', g) = Value(sessions, g)
  BY <1>1, CountingSetsOne
<1>3. ASSUME NEW g \in Live(sessions')
      PROVE  Value(sessions', g).active = Cardinality(Bound(g)') /\ Value(sessions', g).active <= Value(sessions', g).queue
  <2>1. CASE g = s
    <3>1. Bound(s)' = {}
      BY DEF Bound
    <3>2. Cardinality(Bound(s)') = 0
      BY <3>1, FS_EmptySet
    <3>3. Value(sessions, s).queue >= 0
      BY <1>1 DEF Session
    <3> QED
      BY <1>2, <2>1, <3>2, <3>3
  <2>2. CASE g # s
    <3>1. Bound(g)' = Bound(g)
      BY <2>2 DEF Bound
    <3> QED
      BY <1>2, <1>3, <2>2, <3>1 DEF TicketsCounted
  <2> QED
    BY <2>1, <2>2
<1>4. TicketsCounted'
  BY <1>2, <1>3 DEF TicketsCounted
<1>5. WorkIsReachable'
  <2>1. ASSUME NEW u \in running' \cup done'
        PROVE  u \in Live(tickets') /\ Value(tickets', u).session \in Live(sessions')
               /\ Value(sessions', Value(tickets', u).session).context
    <3>1. /\ u \notin H /\ u \in Live(tickets)
          /\ Value(tickets, u).session \in Live(sessions)
          /\ Value(sessions, Value(tickets, u).session).context
      BY <2>1 DEF WorkIsReachable
    <3>2. Value(tickets', u) = Value(tickets, u) /\ Value(tickets, u).session # s
      BY <3>1 DEF Bound
    <3> QED
      BY <1>2, <3>1, <3>2
  <2> QED
    BY <2>1 DEF WorkIsReachable
<1> QED
  BY <1>2, <1>4, <1>5


(* A new session has no ticket and counts none.                                *)
LEMMA CreateKeepsCounts ==
    ASSUME TypeOK, TicketsCounted, WorkIsReachable, NEW queue \in 1..QueueLimit, CreateSession(queue)
    PROVE  sessions' \in Sessions /\ TicketsCounted' /\ WorkIsReachable'
<1> DEFINE v == [queue |-> queue, active |-> 0, context |-> TRUE]
<1>1. PICK s \in 1..SessionCapacity : FirstFree(sessions, s) /\ sessions' = Emplaced(sessions, s, v)
  BY DEF CreateSession
<1>2. v \in Session /\ v.active = 0 /\ v.queue \in Nat
  BY CapacityAssumption DEF Session
<1>3. sessions \in Sessions /\ tickets' = tickets /\ running' = running /\ done' = done
  BY DEF TypeOK, Sessions, CreateSession
<1> HIDE DEF v
<1>4. PICK n :
      /\ sessions' \in Sessions
      /\ n \notin Live(sessions)
      /\ Live(sessions') = Live(sessions) \cup {n}
      /\ Value(sessions', n) = v
      /\ \A h \in Live(sessions) : Value(sessions', h) = Value(sessions, h)
  BY <1>1, <1>2, <1>3, EmplaceAddsOne, VacantIsNoObject DEF Sessions
<1>5. \A g : Bound(g)' = Bound(g)
  BY <1>3 DEF Bound
<1>6. Bound(n) = {}
  <2>1. \A t \in Live(tickets) : Value(tickets, t).session \in Live(sessions)
    BY DEF TicketsCounted
  <2> QED
    BY <1>4, <2>1 DEF Bound
<1>7. Cardinality(Bound(n)') = 0
  BY <1>5, <1>6, FS_EmptySet
<1>8. TicketsCounted'
  <2>1. \A g \in Live(sessions') :
          Value(sessions', g).active = Cardinality(Bound(g)') /\ Value(sessions', g).active <= Value(sessions', g).queue
    <3>1. v.queue >= 0 /\ v.active = 0
      BY <1>2
    <3>2. \A g \in Live(sessions) :
            Value(sessions, g).active = Cardinality(Bound(g)) /\ Value(sessions, g).active <= Value(sessions, g).queue
      BY DEF TicketsCounted
    <3> QED
      BY <1>4, <1>5, <1>7, <3>1, <3>2
  <2> QED
    BY <1>3, <1>4, <2>1 DEF TicketsCounted
<1>9. WorkIsReachable'
  BY <1>3, <1>4 DEF WorkIsReachable
<1> QED
  BY <1>4, <1>8, <1>9

(* A session that may be destroyed has no ticket. *)
LEMMA DestroyKeepsCounts ==
    ASSUME TypeOK, TicketsCounted, WorkIsReachable, NEW s \in SessionHandle,
           DestroySession(s) \/ DestroySessionHalf(s)
    PROVE  sessions' \in Sessions /\ TicketsCounted' /\ WorkIsReachable'
<1>1. /\ sessions \in Sessions /\ s \in Live(sessions) /\ Value(sessions, s) \in Session
      /\ Value(sessions, s).active = 0
      /\ tickets' = tickets /\ running' = running /\ done' = done
  <2>1. MayDestroy(s) /\ tickets' = tickets /\ running' = running /\ done' = done
    BY DEF DestroySession, DestroySessionHalf
  <2>2. sessions \in Sessions /\ s \in Live(sessions)
    BY <2>1, HandleSets DEF MayDestroy, TypeOK, Sessions, Live
  <2> QED
    BY <2>1, <2>2, LiveValue DEF MayDestroy
<1>2. IsFiniteSet(Bound(s)) /\ Cardinality(Bound(s)) = 0
  BY <1>1, LiveIsFinite, FS_Subset DEF Bound, TypeOK, Tickets, TicketsCounted
<1>3. \A t \in Live(tickets) : Value(tickets, t).session # s
  BY <1>2, FS_EmptySet DEF Bound
<1>4. \A g : Bound(g)' = Bound(g)
  BY <1>1 DEF Bound
<1>5. /\ sessions' \in Sessions
      /\ Live(sessions) \ {s} \subseteq Live(sessions')
      /\ Live(sessions') \subseteq Live(sessions)
      /\ \A g \in Live(sessions) \ {s} : Value(sessions', g) = Value(sessions, g)
      /\ s \in Live(sessions') => /\ Value(sessions', s).active = 0
                                  /\ Value(sessions', s).queue = Value(sessions, s).queue
  <2>1. CASE DestroySession(s)
    <3> DEFINE only == {s}
    <3>1. sessions' = ErasedAll(sessions, only)
      BY <1>1, <2>1, EraseOne DEF DestroySession, Sessions
    <3>2. only \in SUBSET Live(sessions)
      BY <1>1
    <3> HIDE DEF only
    <3>3. /\ sessions' \in Sessions
          /\ Live(sessions') = Live(sessions) \ only
          /\ \A g \in Live(sessions) \ only : Value(sessions', g) = Value(sessions, g)
      BY <1>1, <3>1, <3>2, EraseEndsThem, VacantIsNoObject DEF Sessions
    <3> QED
      BY <3>3 DEF only
  <2>2. CASE DestroySessionHalf(s)
    <3> DEFINE v == [Value(sessions, s) EXCEPT !.context = FALSE]
    <3>1. v \in Session /\ v.active = 0 /\ v.queue = Value(sessions, s).queue
      BY <1>1 DEF Session
    <3>2. sessions' = Updated(sessions, s, v)
      BY <1>1, <2>2 DEF DestroySessionHalf, Updated, Value, Sessions, Table, Live, Resolves
    <3> HIDE DEF v
    <3>3. /\ sessions' \in Sessions
          /\ Live(sessions') = Live(sessions)
          /\ Value(sessions', s) = v
          /\ \A g \in Live(sessions) : g # s => Value(sessions', g) = Value(sessions, g)
      BY <1>1, <3>1, <3>2, UpdateChangesOne, VacantIsNoObject DEF Sessions
    <3> QED
      BY <3>1, <3>3
  <2> QED
    BY <2>1, <2>2
<1>6. TicketsCounted'
  <2>1. ASSUME NEW g \in Live(sessions')
        PROVE  Value(sessions', g).active = Cardinality(Bound(g)') /\ Value(sessions', g).active <= Value(sessions', g).queue
    <3>1. CASE g = s
      BY <1>1, <1>2, <1>4, <1>5, <2>1, <3>1 DEF Session
    <3>2. CASE g # s
      BY <1>4, <1>5, <2>1, <3>2 DEF TicketsCounted
    <3> QED
      BY <3>1, <3>2
  <2>2. \A t \in Live(tickets') : Value(tickets', t).session \in Live(sessions')
    <3>1. \A t \in Live(tickets) : Value(tickets, t).session \in Live(sessions) \ {s}
      BY <1>3 DEF TicketsCounted
    <3> QED
      BY <1>1, <1>5, <3>1
  <2> QED
    BY <2>1, <2>2 DEF TicketsCounted
<1>7. WorkIsReachable'
  <2>1. ASSUME NEW t \in running \cup done
        PROVE  t \in Live(tickets) /\ Value(tickets, t).session \in Live(sessions')
               /\ Value(sessions', Value(tickets, t).session).context
    <3>1. /\ t \in Live(tickets)
          /\ Value(tickets, t).session \in Live(sessions) \ {s}
          /\ Value(sessions, Value(tickets, t).session).context
      BY <1>3, <2>1 DEF WorkIsReachable
    <3> QED
      BY <1>5, <3>1
  <2>2. running \cap done = {}
    BY DEF WorkIsReachable
  <2> QED
    BY <1>1, <2>1, <2>2 DEF WorkIsReachable
<1> QED
  BY <1>5, <1>6, <1>7


-------------------------------------------------------------------------------
(* Every action keeps the invariant. *)

(* What TypeOK needs beside the invariants that are proved anyway. *)
LEMMA TypesFollow ==
    ASSUME frames' \in Frames, pending' \in FrameHandle \cup {NoHandle}, sessions' \in Sessions,
           tickets' \in Tickets, WorkIsReachable', alive' \in BOOLEAN
    PROVE  TypeOK'
<1>1. Live(tickets') \subseteq TicketHandle
  BY HandleSets
<1>2. running' \subseteq TicketHandle /\ done' \subseteq TicketHandle
  BY <1>1 DEF WorkIsReachable
<1> QED
  BY <1>2 DEF TypeOK, Frames, Sessions, Tickets

(* The tables and the mailbox have the types the lemmas above ask for.         *)
LEMMA InvTypes ==
    ASSUME Inv
    PROVE  /\ frames \in Frames /\ sessions \in Sessions /\ tickets \in Tickets
           /\ pending \in FrameHandle \cup {NoHandle} /\ alive \in BOOLEAN
BY DEF Inv, TypeOK, Frames, Sessions, Tickets

(* The owner calls that only touch frames. *)
LEMMA FrameCalls ==
    ASSUME Inv,
           \/ \E storage \in Storage : ImportFrame(storage)
           \/ \E f \in FrameHandle : ReleaseFrame(f)
    PROVE  Inv'
<1>1. /\ frames' \in Frames /\ pending' \in FrameHandle \cup {NoHandle}
      /\ OwnersMatch' /\ HostFramesLent'
  BY ImportKeeps, ReleaseKeeps DEF Inv
<1>2. UNCHANGED <<sessions, tickets, running, done, alive>>
  BY DEF ImportFrame, ReleaseFrame, inferenceVars
<1>3. TicketsCounted'
  BY <1>2 DEF Inv, TicketsCounted, Bound
<1>4. WorkIsReachable'
  BY <1>2 DEF Inv, WorkIsReachable
<1>5. TypeOK'
  BY <1>1, <1>2, <1>4, InvTypes, TypesFollow
<1> QED
  BY <1>1, <1>3, <1>4, <1>5 DEF Inv

(* The owner calls that only touch sessions. *)
LEMMA SessionCalls ==
    ASSUME Inv,
           \/ \E queue \in 1..QueueLimit : CreateSession(queue)
           \/ \E s \in SessionHandle : DestroySession(s) \/ DestroySessionHalf(s)
    PROVE  Inv'
<1>1. sessions' \in Sessions /\ TicketsCounted' /\ WorkIsReachable'
  BY CreateKeepsCounts, DestroyKeepsCounts DEF Inv
<1>2. UNCHANGED <<frames, pending, tickets, alive>>
  BY DEF CreateSession, DestroySession, DestroySessionHalf
<1>3. OwnersMatch' /\ HostFramesLent'
  BY <1>2, InvTypes, FramesUntouched DEF Inv
<1>4. TypeOK'
  BY <1>1, <1>2, InvTypes, TypesFollow
<1> QED
  BY <1>1, <1>3, <1>4 DEF Inv

(* A provider that finishes a ticket, and a collect that misreads a failure,   *)
(* change only what the provider has.                                          *)
LEMMA ProviderSteps ==
    ASSUME Inv, NEW t \in TicketHandle, Finish(t) \/ Cancel(t) \/ CollectMisread(t)
    PROVE  Inv'
<1>1. UNCHANGED <<frames, pending, sessions, tickets, alive>>
  BY DEF Finish, Cancel, CollectMisread
<1>2. WorkIsReachable'
  <2>1. running' \cap done' = {} /\ running' \cup done' \subseteq running \cup done
    BY DEF Inv, WorkIsReachable, Finish, Cancel, CollectMisread
  <2> QED
    BY <1>1, <2>1 DEF Inv, WorkIsReachable
<1>3. TicketsCounted'
  BY <1>1 DEF Inv, TicketsCounted, Bound
<1>4. OwnersMatch' /\ HostFramesLent'
  BY <1>1, InvTypes, FramesUntouched DEF Inv
<1>5. TypeOK'
  BY <1>1, <1>2, InvTypes, TypesFollow
<1> QED
  BY <1>2, <1>3, <1>4, <1>5 DEF Inv

(* submit_inference: owners, counts and the provider agree on the new ticket.  *)
LEMMA SubmitKeeps ==
    ASSUME Inv, NEW s \in SessionHandle, NEW f \in FrameHandle, Submit(s, f)
    PROVE  Inv'
<1> DEFINE v == [session |-> s, frame |-> f]
<1>1. PICK slot \in 1..TicketCapacity :
        /\ MaySubmit(s, f, slot)
        /\ Value(sessions, s).context
        /\ tickets' = Emplaced(tickets, slot, v)
        /\ frames' = Owned(frames, f, "worker")
        /\ sessions' = [sessions EXCEPT ![s.slot].value.active = @ + 1]
        /\ running' = running \cup {HandleAt(tickets, slot)}
        /\ UNCHANGED <<pending, done, alive>>
  BY DEF Submit, Binding
<1>2. /\ s \in Live(sessions) /\ Resolves(frames, f) /\ "worker" \notin Owners(frames, f)
      /\ Value(sessions, s).active < Value(sessions, s).queue
      /\ FirstFree(tickets, slot)
  BY <1>1, InvTypes, HandleSets DEF MaySubmit, Live
<1>3. v \in Ticket /\ v.session = s /\ v.frame = f
  BY DEF Ticket
<1>4. PICK k : k = Value(sessions, s).active + 1 /\ sessions' = Counting(sessions, s, k)
  BY <1>1 DEF Counting, Value
<1> HIDE DEF v
<1>5. PICK n :
        /\ n = HandleAt(tickets, slot)
        /\ tickets' \in Tickets
        /\ n \notin Live(tickets)
        /\ Live(tickets') = Live(tickets) \cup {n}
        /\ Value(tickets', n) = v
        /\ \A t \in Live(tickets) : Value(tickets', t) = Value(tickets, t)
  BY <1>1, <1>2, <1>3, InvTypes, EmplaceAddsOne, VacantIsNoObject DEF Tickets
<1>6. running' = running \cup {n} /\ done' = done /\ pending' = pending /\ alive' = alive
  BY <1>1, <1>5
<1>7. frames' \in Frames /\ OwnersMatch' /\ HostFramesLent'
  BY <1>1, <1>2, <1>3, <1>5, <1>6, SubmitKeepsOwners DEF Inv
<1>8. sessions' \in Sessions /\ TicketsCounted' /\ WorkIsReachable'
  BY <1>1, <1>2, <1>3, <1>4, <1>5, <1>6, SubmitKeepsCounts DEF Inv
<1>9. TypeOK'
  BY <1>5, <1>6, <1>7, <1>8, InvTypes, TypesFollow
<1> QED
  BY <1>7, <1>8, <1>9 DEF Inv

(* submit_inference refused by the provider: nothing of it is left.            *)
LEMMA SubmitRefusedKeeps ==
    ASSUME Inv, NEW s \in SessionHandle, NEW f \in FrameHandle, SubmitRefused(s, f)
    PROVE  Inv'
<1> DEFINE v == [session |-> s, frame |-> f]
<1>1. PICK slot \in 1..TicketCapacity :
        /\ FirstFree(tickets, slot)
        /\ tickets' = Erased(Emplaced(tickets, slot, v), HandleAt(tickets, slot))
        /\ UNCHANGED <<frames, pending, sessions, running, done, alive>>
  BY DEF SubmitRefused, MaySubmit, Binding
<1>2. v \in Ticket
  BY DEF Ticket
<1> HIDE DEF v
<1>3. /\ tickets' \in Tickets
      /\ Live(tickets') = Live(tickets)
      /\ \A t \in Live(tickets) : Value(tickets', t) = Value(tickets, t)
  BY <1>1, <1>2, InvTypes, EmplaceUndone, VacantIsNoObject DEF Tickets
<1>4. OwnersMatch' /\ HostFramesLent'
  BY <1>1, <1>3, FramesUntouched DEF Inv
<1>5. TicketsCounted'
  <2>1. \A g : Bound(g)' = Bound(g)
    BY <1>3 DEF Bound
  <2> QED
    BY <1>1, <1>3, <2>1 DEF Inv, TicketsCounted
<1>6. WorkIsReachable'
  BY <1>1, <1>3 DEF Inv, WorkIsReachable
<1>7. TypeOK'
  BY <1>1, <1>3, <1>6, InvTypes, TypesFollow
<1> QED
  BY <1>4, <1>5, <1>6, <1>7 DEF Inv


(* collect_inference, whose ticket is over for the provider too.               *)
LEMMA CollectKeeps ==
    ASSUME Inv, NEW t \in TicketHandle, Collect(t)
    PROVE  Inv'
<1>1. /\ t \in Live(tickets) /\ t \notin running
      /\ sessions' = [sessions EXCEPT ![Value(tickets, t).session.slot].value.active = @ - 1]
      /\ tickets' = Erased(tickets, t)
      /\ frames' = Disowned(frames, {Value(tickets, t).frame}, "worker")
      /\ done' = done \ {t}
      /\ UNCHANGED <<pending, running, alive>>
  BY InvTypes, HandleSets DEF Collect, Live
<1>2. PICK s : s = Value(tickets, t).session
  OBVIOUS
<1>3. PICK k : k = Value(sessions, s).active - 1 /\ sessions' = Counting(sessions, s, k)
  BY <1>1, <1>2 DEF Counting, Value
<1>4. PICK H : H = {t}
  OBVIOUS
<1>5. H \in SUBSET Live(tickets) /\ tickets' = ErasedAll(tickets, H)
  BY <1>1, <1>4, InvTypes, EraseOne DEF Tickets
<1>6. /\ tickets' \in Tickets
      /\ Live(tickets') = Live(tickets) \ H
      /\ \A u \in Live(tickets) \ H : Value(tickets', u) = Value(tickets, u)
  BY <1>5, InvTypes, EraseEndsThem, VacantIsNoObject DEF Tickets
<1>7. PICK F : F = {Value(tickets, t).frame}
  OBVIOUS
<1>8. frames' = Disowned(frames, F, "worker") /\ \A g : g \in F <=> \E u \in H : g = Value(tickets, u).frame
  BY <1>1, <1>4, <1>7
<1>9. frames' \in Frames /\ OwnersMatch' /\ HostFramesLent'
  BY <1>1, <1>5, <1>6, <1>8, EndKeepsOwners DEF Inv
<1>10. sessions' \in Sessions /\ TicketsCounted' /\ WorkIsReachable'
  BY <1>1, <1>2, <1>3, <1>4, <1>6, CollectKeepsCounts DEF Inv
<1>11. TypeOK'
  BY <1>1, <1>6, <1>9, <1>10, InvTypes, TypesFollow
<1> QED
  BY <1>9, <1>10, <1>11 DEF Inv

(* reset_inference: the tickets of the session end on both sides.              *)
LEMMA ResetKeeps ==
    ASSUME Inv, NEW s \in SessionHandle, Reset(s)
    PROVE  Inv'
<1>1. PICK H : H = Bound(s)
  OBVIOUS
<1>2. /\ s \in Live(sessions)
      /\ running' = running \ H /\ done' = done \ H
      /\ tickets' = ErasedAll(tickets, H)
      /\ frames' = Disowned(frames, {Value(tickets, t).frame : t \in H}, "worker")
      /\ sessions' = [sessions EXCEPT ![s.slot].value.active = 0]
      /\ UNCHANGED <<pending, alive>>
  BY <1>1, InvTypes, HandleSets DEF Reset, Live
<1>3. sessions' = Counting(sessions, s, 0)
  BY <1>2 DEF Counting
<1>4. H \in SUBSET Live(tickets)
  BY <1>1 DEF Bound
<1>5. /\ tickets' \in Tickets
      /\ Live(tickets') = Live(tickets) \ H
      /\ \A u \in Live(tickets) \ H : Value(tickets', u) = Value(tickets, u)
  BY <1>2, <1>4, InvTypes, EraseEndsThem, VacantIsNoObject DEF Tickets
<1>6. PICK F : F = {Value(tickets, t).frame : t \in H}
  OBVIOUS
<1>7. frames' = Disowned(frames, F, "worker") /\ \A g : g \in F <=> \E u \in H : g = Value(tickets, u).frame
  BY <1>2, <1>6
<1>8. frames' \in Frames /\ OwnersMatch' /\ HostFramesLent'
  BY <1>2, <1>4, <1>5, <1>7, EndKeepsOwners DEF Inv
<1>9. sessions' \in Sessions /\ TicketsCounted' /\ WorkIsReachable'
  BY <1>1, <1>2, <1>3, <1>5, ResetKeepsCounts DEF Inv
<1>10. TypeOK'
  BY <1>2, <1>5, <1>8, <1>9, InvTypes, TypesFollow
<1> QED
  BY <1>8, <1>9, <1>10 DEF Inv

(* Nothing of the runtime is left, so there is nothing to be said of it. *)
LEMMA DestroyRuntimeKeeps ==
    ASSUME Inv, DestroyRuntime
    PROVE  Inv'
<1>1. /\ frames' = ErasedAll(frames, Live(frames)) /\ sessions' = ErasedAll(sessions, Live(sessions))
      /\ tickets' = ErasedAll(tickets, Live(tickets))
      /\ pending' = NoHandle /\ running' = {} /\ done' = {} /\ alive' = FALSE
  BY DEF DestroyRuntime, Cleared
<1>2. frames' \in Frames /\ Live(frames') = {}
  BY <1>1, InvTypes, EraseEndsThem, VacantIsNoObject DEF Frames
<1>3. sessions' \in Sessions /\ Live(sessions') = {}
  BY <1>1, InvTypes, EraseEndsThem, VacantIsNoObject DEF Sessions
<1>4. tickets' \in Tickets /\ Live(tickets') = {}
  BY <1>1, InvTypes, EraseEndsThem, VacantIsNoObject DEF Tickets
<1>5. \A f \in FrameHandle : ~Resolves(frames', f)
  BY <1>2, HandleSets DEF Live
<1>6. OwnersMatch'
  BY <1>1, <1>4, <1>5, NoHandleIsNone DEF OwnersMatch, Owners
<1>7. HostFramesLent' /\ TicketsCounted' /\ WorkIsReachable'
  BY <1>1, <1>2, <1>3, <1>4 DEF HostFramesLent, TicketsCounted, WorkIsReachable
<1>8. TypeOK'
  BY <1>1, <1>2, <1>3, <1>4, <1>7, TypesFollow
<1> QED
  BY <1>6, <1>7, <1>8 DEF Inv

(* The invariant holds initially.                                              *)
LEMMA InitInv == Init => Inv
<1> SUFFICES ASSUME Init PROVE Inv
  OBVIOUS
<1>1. frames \in Frames /\ Live(frames) = {}
  BY EmptyTableHasNone, VacantIsNoObject DEF Init, Frames
<1>2. sessions \in Sessions /\ Live(sessions) = {}
  BY EmptyTableHasNone, VacantIsNoObject DEF Init, Sessions
<1>3. tickets \in Tickets /\ Live(tickets) = {}
  BY EmptyTableHasNone, VacantIsNoObject DEF Init, Tickets
<1>4. \A f \in FrameHandle : ~Resolves(frames, f)
  BY <1>1, HandleSets DEF Live
<1>5. OwnersMatch
  BY <1>3, <1>4, NoHandleIsNone DEF Init, OwnersMatch, Owners
<1>6. HostFramesLent /\ TicketsCounted /\ WorkIsReachable
  BY <1>1, <1>2, <1>3 DEF Init, HostFramesLent, TicketsCounted, WorkIsReachable
<1>7. TypeOK
  BY <1>1, <1>2, <1>3 DEF Init, TypeOK, Frames, Sessions, Tickets
<1> QED
  BY <1>5, <1>6, <1>7 DEF Inv

(* Every step preserves the invariant.                                         *)
LEMMA NextInv == Inv /\ [Next]_vars => Inv'
<1> SUFFICES ASSUME Inv, [Next]_vars PROVE Inv'
  OBVIOUS
<1>1. CASE \/ \E storage \in Storage : ImportFrame(storage)
           \/ \E f \in FrameHandle : ReleaseFrame(f)
  BY <1>1, FrameCalls
<1>2. CASE \/ \E queue \in 1..QueueLimit : CreateSession(queue)
           \/ \E s \in SessionHandle : DestroySession(s) \/ DestroySessionHalf(s)
  BY <1>2, SessionCalls
<1>3. CASE \E s \in SessionHandle : Reset(s)
  BY <1>3, ResetKeeps
<1>4. CASE \E s \in SessionHandle, f \in FrameHandle : Submit(s, f) \/ SubmitRefused(s, f)
  BY <1>4, SubmitKeeps, SubmitRefusedKeeps
<1>5. CASE \E t \in TicketHandle : Finish(t) \/ Cancel(t) \/ CollectMisread(t)
  BY <1>5, ProviderSteps
<1>6. CASE \E t \in TicketHandle : Collect(t)
  BY <1>6, CollectKeeps
<1>7. CASE DestroyRuntime
  BY <1>7, DestroyRuntimeKeeps
<1>8. CASE UNCHANGED vars
  BY <1>8 DEF vars, inferenceVars, Inv, TypeOK, OwnersMatch, TicketsCounted, WorkIsReachable, HostFramesLent, Bound
<1> QED
  BY <1>1, <1>2, <1>3, <1>4, <1>5, <1>6, <1>7, <1>8 DEF Next

(* The invariant holds in every reachable state. *)
LEMMA Invariance == Spec => []Inv
<1> QED
  BY InitInv, NextInv, PTL DEF Spec

-------------------------------------------------------------------------------
(* Every variable keeps its type in every reachable state: in particular the   *)
(* count of a session is never decremented below zero (collect_inference).     *)
THEOREM TypeCorrect == Spec => []TypeOK
BY Invariance, PTL DEF Inv

(* In every reachable state the owners of every lease are the mailbox that has *)
(* it, the ticket that binds it and the caller (frame_lease.hpp, runtime.cpp). *)
THEOREM OwnersAgree == Spec => []OwnersMatch
BY Invariance, PTL DEF Inv

(* The count of every session is the number of its tickets, within its queue   *)
(* (submit_inference, collect_inference, reset_inference).                     *)
THEOREM CountsAgree == Spec => []TicketsCounted
BY Invariance, PTL DEF Inv

(* A provider never has a ticket the runtime cannot reach, also after a        *)
(* destroy_inference_session that failed half-way.                             *)
THEOREM NothingStranded == Spec => []WorkIsReachable
BY Invariance, PTL DEF Inv

(* A host's bytes stay lent while the mailbox or a worker has the frame        *)
(* (release_frame).                                                            *)
THEOREM LentBytes == Spec => []HostFramesLent
BY Invariance, PTL DEF Inv

(* Together: leases, sessions and tickets of the runtime agree with one        *)
(* another and with the provider, for tables of any size.                      *)
THEOREM RuntimeAgrees == Spec => []RuntimeHolds
<1>1. TypeOK /\ OwnersMatch /\ TicketsCounted /\ WorkIsReachable /\ HostFramesLent => RuntimeHolds
  BY DEF RuntimeHolds
<1>2. QED
  BY <1>1, TypeCorrect, OwnersAgree, CountsAgree, NothingStranded, LentBytes, PTL


-------------------------------------------------------------------------------
(* No handle that was issued comes back to life. *)

(* A table that only went onward has no dead handle come back. *)
LEMMA OnwardKeepsDead ==
    ASSUME NEW S, NEW V, NEW t \in Table(S, V), NEW u \in Table(S, V), Onward(t, u),
           NEW h, h.generation \in Nat, DeadIn(t, h)
    PROVE  DeadIn(u, h)
<1>1. DOMAIN t = S /\ DOMAIN u = S /\ h.slot \in S
  BY DEF Table, DeadIn, Issued
<1>2. t[h.slot].generation \in Nat /\ u[h.slot].generation \in Nat
  BY <1>1 DEF Table
<1>3. Kept(t[h.slot], u[h.slot])
  BY <1>1 DEF Onward
<1>4. CASE h.generation < t[h.slot].generation
  BY <1>1, <1>2, <1>3, <1>4 DEF Kept, DeadIn, Issued, Resolves
<1>5. CASE h.generation = t[h.slot].generation /\ t[h.slot].retired /\ ~Occupied(t, h.slot)
  BY <1>1, <1>2, <1>3, <1>5 DEF Kept, DeadIn, Issued, Resolves, Occupied
<1> QED
  BY <1>1, <1>4, <1>5 DEF DeadIn, Issued, Resolves

(* release_owner only empties slots and removes owners.                        *)
LEMMA DisownIsOnward ==
    ASSUME NEW t \in Frames, NEW F, NEW o
    PROVE  Onward(t, Disowned(t, F, o))
<1> DEFINE Slots == [generation : 1..MaxGeneration, retired : BOOLEAN, value : Lease \cup {Vacant}]
<1>1. DOMAIN t = 1..FrameCapacity /\ \A s \in 1..FrameCapacity : t[s] \in Slots
  BY DEF Frames, Table
<1>2. \A a \in Slots : Kept(a, a)
  BY DEF Kept
<1>3. ASSUME NEW a \in Slots, a.value # Vacant
      PROVE  Kept(a, Without(a, o))
  <2>1. CASE a.value.owners = {o}
    BY <1>3, <2>1, EmptiedSlot DEF Without, Kept
  <2>2. CASE a.value.owners # {o}
    BY <1>3, <2>2 DEF Without, Kept
  <2> QED
    BY <2>1, <2>2
<1>4. DOMAIN Disowned(t, F, o) = 1..FrameCapacity
  BY <1>1 DEF Disowned
<1>5. \A s \in 1..FrameCapacity :
        Disowned(t, F, o)[s] = IF \E f \in F : f.slot = s /\ o \in Owners(t, f) THEN Without(t[s], o) ELSE t[s]
  BY <1>1 DEF Disowned
<1>6. \A f \in F : o \in Owners(t, f) => t[f.slot].value # Vacant
  BY DEF Owners, Resolves, Occupied
<1> HIDE DEF Slots
<1> QED
  BY <1>1, <1>2, <1>3, <1>4, <1>5, <1>6 DEF Onward


(* Every step takes the frames onward.                                         *)
LEMMA FramesGoOn ==
    ASSUME Inv, Inv', [Next]_vars
    PROVE  Onward(frames, frames')
<1>1. frames \in Frames /\ frames' \in Frames
  BY DEF Inv, TypeOK, Frames
<1>2. ASSUME NEW storage \in Storage, ImportFrame(storage) PROVE Onward(frames, frames')
  <2> DEFINE v == [owners |-> {"caller", "mailbox"}, storage |-> storage]
  <2>1. PICK s \in 1..FrameCapacity :
          FirstFree(frames, s) /\ frames' = Disowned(Emplaced(frames, s, v), {pending}, "mailbox")
    BY <1>2 DEF ImportFrame
  <2>2. v \in Lease
    BY DEF Lease, Owner
  <2> HIDE DEF v
  <2>3. PICK e : e = Emplaced(frames, s, v)
    OBVIOUS
  <2>4. e \in Frames /\ Onward(frames, e)
    BY <1>1, <2>1, <2>2, <2>3, ImportAdds, EmplaceIsOnward DEF Frames
  <2>5. Onward(e, frames')
    BY <2>1, <2>3, <2>4, DisownIsOnward
  <2> QED
    BY <1>1, <2>4, <2>5, OnwardGoesOn DEF Frames
<1>3. ASSUME NEW f \in FrameHandle, ReleaseFrame(f) PROVE Onward(frames, frames')
  <2>1. PICK taken : /\ taken \in SUBSET (FrameHandle \cup {NoHandle})
                     /\ frames' = Disowned(Disowned(frames, taken, "mailbox"), {f}, "caller")
    BY <1>3 DEF ReleaseFrame
  <2>2. PICK d : d = Disowned(frames, taken, "mailbox")
    OBVIOUS
  <2>3. d \in Frames /\ Onward(frames, d)
    BY <1>1, <2>1, <2>2, DisownTakes, DisownIsOnward DEF Owner
  <2>4. Onward(d, frames')
    BY <2>1, <2>2, <2>3, DisownIsOnward
  <2> QED
    BY <1>1, <2>3, <2>4, OnwardGoesOn DEF Frames
<1>4. ASSUME NEW s \in SessionHandle, NEW f \in FrameHandle, Submit(s, f) PROVE Onward(frames, frames')
  <2>1. f \in Live(frames) /\ frames' = Owned(frames, f, "worker")
    BY <1>1, <1>4, HandleSets DEF Submit, MaySubmit, Live
  <2>2. PICK v : frames' = Updated(frames, f, v)
    <3> DEFINE v == [Value(frames, f) EXCEPT !.owners = @ \cup {"worker"}]
    <3>1. frames' = Updated(frames, f, v)
      BY <1>1, <2>1, LiveValue DEF Owned, Updated, Value, Frames, Table, Live, Resolves
    <3> QED
      BY <3>1
  <2> QED
    BY <1>1, <2>1, <2>2, UpdateIsOnward DEF Frames
<1>5. ASSUME NEW t \in TicketHandle, Collect(t) PROVE Onward(frames, frames')
  <2>1. frames' = Disowned(frames, {Value(tickets, t).frame}, "worker")
    BY <1>5 DEF Collect
  <2> QED
    BY <1>1, <2>1, DisownIsOnward
<1>6. ASSUME NEW s \in SessionHandle, Reset(s) PROVE Onward(frames, frames')
  <2>1. PICK F : frames' = Disowned(frames, F, "worker")
    BY <1>6 DEF Reset
  <2> QED
    BY <1>1, <2>1, DisownIsOnward
<1>7. CASE DestroyRuntime
  <2>1. frames' = ErasedAll(frames, Live(frames))
    BY <1>7 DEF DestroyRuntime, Cleared
  <2> QED
    BY <1>1, <2>1, EraseIsOnward DEF Frames
<1>8. CASE frames' = frames
  BY <1>1, <1>8, OnwardStays DEF Frames
<1>9. CASE \/ \E queue \in 1..QueueLimit : CreateSession(queue)
           \/ \E s \in SessionHandle : DestroySession(s) \/ DestroySessionHalf(s)
           \/ \E s \in SessionHandle, f \in FrameHandle : SubmitRefused(s, f)
           \/ \E t \in TicketHandle : Finish(t) \/ Cancel(t) \/ CollectMisread(t)
           \/ UNCHANGED vars
  BY <1>8, <1>9 DEF CreateSession, DestroySession, DestroySessionHalf, SubmitRefused, Finish, Cancel, CollectMisread, vars
<1> QED
  BY <1>2, <1>3, <1>4, <1>5, <1>6, <1>7, <1>9 DEF Next

(* Every step takes the sessions onward.                                       *)
LEMMA SessionsGoOn ==
    ASSUME Inv, Inv', [Next]_vars
    PROVE  Onward(sessions, sessions')
<1>1. sessions \in Sessions /\ sessions' \in Sessions
  BY DEF Inv, TypeOK, Sessions
<1>2. ASSUME NEW queue \in 1..QueueLimit, CreateSession(queue) PROVE Onward(sessions, sessions')
  <2>1. PICK s \in 1..SessionCapacity : \E v : FirstFree(sessions, s) /\ sessions' = Emplaced(sessions, s, v)
    BY <1>2 DEF CreateSession
  <2> QED
    BY <1>1, <2>1, EmplaceIsOnward DEF Sessions
<1>3. ASSUME NEW s \in SessionHandle, DestroySession(s) PROVE Onward(sessions, sessions')
  <2>1. s \in Live(sessions) /\ sessions' = Erased(sessions, s)
    BY <1>1, <1>3, HandleSets DEF DestroySession, MayDestroy, Live
  <2>2. sessions' = ErasedAll(sessions, {s})
    BY <1>1, <2>1, EraseOne DEF Sessions
  <2> QED
    BY <1>1, <2>2, EraseIsOnward DEF Sessions
<1>4. ASSUME NEW s \in SessionHandle, DestroySessionHalf(s) PROVE Onward(sessions, sessions')
  <2>1. s \in Live(sessions)
    BY <1>1, <1>4, HandleSets DEF DestroySessionHalf, MayDestroy, Live
  <2>2. PICK v : sessions' = Updated(sessions, s, v)
    <3> DEFINE v == [Value(sessions, s) EXCEPT !.context = FALSE]
    <3>1. sessions' = Updated(sessions, s, v)
      BY <1>1, <1>4, <2>1 DEF DestroySessionHalf, Updated, Value, Sessions, Table, Live, Resolves
    <3> QED
      BY <3>1
  <2> QED
    BY <1>1, <2>1, <2>2, UpdateIsOnward DEF Sessions
<1>5. ASSUME NEW s \in Live(sessions), NEW k, sessions' = Counting(sessions, s, k)
      PROVE  Onward(sessions, sessions')
  <2>1. PICK v : sessions' = Updated(sessions, s, v)
    <3> DEFINE v == [Value(sessions, s) EXCEPT !.active = k]
    <3>1. sessions' = Updated(sessions, s, v)
      BY <1>1, <1>5 DEF Counting, Updated, Value, Sessions, Table, Live, Resolves
    <3> QED
      BY <3>1
  <2> QED
    BY <1>1, <2>1, UpdateIsOnward DEF Sessions
<1>6. ASSUME NEW s \in SessionHandle, NEW f \in FrameHandle, Submit(s, f) PROVE Onward(sessions, sessions')
  <2>1. s \in Live(sessions) /\ sessions' = Counting(sessions, s, Value(sessions, s).active + 1)
    BY <1>1, <1>6, HandleSets DEF Submit, MaySubmit, Live, Counting, Value
  <2> QED
    BY <1>5, <2>1
<1>7. ASSUME NEW t \in TicketHandle, Collect(t) PROVE Onward(sessions, sessions')
  <2>1. PICK s : /\ s = Value(tickets, t).session /\ s \in Live(sessions)
                 /\ sessions' = [sessions EXCEPT ![s.slot].value.active = @ - 1]
    <3>1. t \in Live(tickets)
      BY <1>7, InvTypes, HandleSets DEF Collect, Live
    <3> QED
      BY <1>7, <3>1 DEF Collect, Inv, TicketsCounted
  <2>2. sessions' = Counting(sessions, s, Value(sessions, s).active - 1)
    BY <2>1 DEF Counting, Value
  <2> QED
    BY <1>5, <2>1, <2>2
<1>8. ASSUME NEW s \in SessionHandle, Reset(s) PROVE Onward(sessions, sessions')
  <2>1. s \in Live(sessions) /\ sessions' = Counting(sessions, s, 0)
    BY <1>1, <1>8, HandleSets DEF Reset, Live, Counting
  <2> QED
    BY <1>5, <2>1
<1>9. CASE DestroyRuntime
  <2>1. sessions' = ErasedAll(sessions, Live(sessions))
    BY <1>9 DEF DestroyRuntime, Cleared
  <2> QED
    BY <1>1, <2>1, EraseIsOnward DEF Sessions
<1>10. CASE \/ \E storage \in Storage : ImportFrame(storage)
            \/ \E f \in FrameHandle : ReleaseFrame(f)
            \/ \E s \in SessionHandle, f \in FrameHandle : SubmitRefused(s, f)
            \/ \E t \in TicketHandle : Finish(t) \/ Cancel(t) \/ CollectMisread(t)
            \/ UNCHANGED vars
  <2>1. sessions' = sessions
    BY <1>10 DEF ImportFrame, ReleaseFrame, SubmitRefused, Finish, Cancel, CollectMisread, vars, inferenceVars
  <2> QED
    BY <1>1, <2>1, OnwardStays DEF Sessions
<1> QED
  BY <1>2, <1>3, <1>4, <1>6, <1>7, <1>8, <1>9, <1>10 DEF Next

(* Every step takes the tickets onward.                                        *)
LEMMA TicketsGoOn ==
    ASSUME Inv, Inv', [Next]_vars
    PROVE  Onward(tickets, tickets')
<1>1. tickets \in Tickets /\ tickets' \in Tickets
  BY DEF Inv, TypeOK, Tickets
<1>2. ASSUME NEW s \in SessionHandle, NEW f \in FrameHandle, Submit(s, f) PROVE Onward(tickets, tickets')
  <2>1. PICK slot \in 1..TicketCapacity : \E v : FirstFree(tickets, slot) /\ tickets' = Emplaced(tickets, slot, v)
    BY <1>2 DEF Submit, MaySubmit, Binding
  <2> QED
    BY <1>1, <2>1, EmplaceIsOnward DEF Tickets
<1>3. ASSUME NEW s \in SessionHandle, NEW f \in FrameHandle, SubmitRefused(s, f) PROVE Onward(tickets, tickets')
  <2> DEFINE v == [session |-> s, frame |-> f]
  <2>1. PICK slot \in 1..TicketCapacity :
          FirstFree(tickets, slot) /\ tickets' = Erased(Emplaced(tickets, slot, v), HandleAt(tickets, slot))
    BY <1>3 DEF SubmitRefused, MaySubmit, Binding
  <2>2. v \in Ticket
    BY DEF Ticket
  <2> HIDE DEF v
  <2>3. PICK e, n : e = Emplaced(tickets, slot, v) /\ n = HandleAt(tickets, slot)
    OBVIOUS
  <2>4. e \in Tickets /\ n \in Live(e) /\ Onward(tickets, e)
    BY <1>1, <2>1, <2>2, <2>3, EmplaceAddsOne, EmplaceIsOnward, VacantIsNoObject DEF Tickets
  <2>5. tickets' = ErasedAll(e, {n})
    BY <2>1, <2>3, <2>4, EraseOne DEF Tickets
  <2>6. Onward(e, tickets')
    BY <2>4, <2>5, EraseIsOnward DEF Tickets
  <2> QED
    BY <1>1, <2>4, <2>6, OnwardGoesOn DEF Tickets
<1>4. ASSUME NEW t \in TicketHandle, Collect(t) PROVE Onward(tickets, tickets')
  <2>1. t \in Live(tickets) /\ tickets' = Erased(tickets, t)
    BY <1>1, <1>4, HandleSets DEF Collect, Live
  <2>2. tickets' = ErasedAll(tickets, {t})
    BY <1>1, <2>1, EraseOne DEF Tickets
  <2> QED
    BY <1>1, <2>2, EraseIsOnward DEF Tickets
<1>5. ASSUME NEW s \in SessionHandle, Reset(s) PROVE Onward(tickets, tickets')
  <2>1. tickets' = ErasedAll(tickets, Bound(s))
    BY <1>5 DEF Reset
  <2> QED
    BY <1>1, <2>1, EraseIsOnward DEF Tickets
<1>6. CASE DestroyRuntime
  <2>1. tickets' = ErasedAll(tickets, Live(tickets))
    BY <1>6 DEF DestroyRuntime, Cleared
  <2> QED
    BY <1>1, <2>1, EraseIsOnward DEF Tickets
<1>7. CASE \/ \E storage \in Storage : ImportFrame(storage)
           \/ \E f \in FrameHandle : ReleaseFrame(f)
           \/ \E queue \in 1..QueueLimit : CreateSession(queue)
           \/ \E s \in SessionHandle : DestroySession(s) \/ DestroySessionHalf(s)
           \/ \E t \in TicketHandle : Finish(t) \/ Cancel(t) \/ CollectMisread(t)
           \/ UNCHANGED vars
  <2>1. tickets' = tickets
    BY <1>7 DEF ImportFrame, ReleaseFrame, CreateSession, DestroySession, DestroySessionHalf,
                Finish, Cancel, CollectMisread, vars, inferenceVars
  <2> QED
    BY <1>1, <2>1, OnwardStays DEF Tickets
<1> QED
  BY <1>2, <1>3, <1>4, <1>5, <1>6, <1>7 DEF Next

(* No handle of a frame, a session or a ticket that was issued and ended ever  *)
(* resolves again, whatever takes its slot (handle_table.hpp): a slot that has *)
(* used its last generation is retired.                                        *)
THEOREM HandlesStayDead == Spec => NoHandleRevives
<1> DEFINE Dead == /\ \A f \in FrameHandle : DeadIn(frames, f) => DeadIn(frames', f)
                   /\ \A s \in SessionHandle : DeadIn(sessions, s) => DeadIn(sessions', s)
                   /\ \A t \in TicketHandle : DeadIn(tickets, t) => DeadIn(tickets', t)
<1>1. ASSUME Inv, Inv', [Next]_vars PROVE Dead
  <2>1. /\ frames \in Frames /\ sessions \in Sessions /\ tickets \in Tickets
        /\ frames' \in Frames /\ sessions' \in Sessions /\ tickets' \in Tickets
    BY <1>1 DEF Inv, TypeOK, Frames, Sessions, Tickets
  <2>2. Onward(frames, frames') /\ Onward(sessions, sessions') /\ Onward(tickets, tickets')
    BY <1>1, FramesGoOn, SessionsGoOn, TicketsGoOn
  <2>3. \A f \in FrameHandle : f.generation \in Nat
    BY DEF FrameHandle
  <2>4. \A s \in SessionHandle : s.generation \in Nat
    BY DEF SessionHandle
  <2>5. \A t \in TicketHandle : t.generation \in Nat
    BY DEF TicketHandle
  <2>6. \A f \in FrameHandle : DeadIn(frames, f) => DeadIn(frames', f)
    BY <2>1, <2>2, <2>3, OnwardKeepsDead DEF Frames
  <2>7. \A s \in SessionHandle : DeadIn(sessions, s) => DeadIn(sessions', s)
    BY <2>1, <2>2, <2>4, OnwardKeepsDead DEF Sessions
  <2>8. \A t \in TicketHandle : DeadIn(tickets, t) => DeadIn(tickets', t)
    BY <2>1, <2>2, <2>5, OnwardKeepsDead DEF Tickets
  <2> QED
    BY <2>6, <2>7, <2>8
<1> QED
  BY <1>1, Invariance, PTL DEF Spec, NoHandleRevives

-------------------------------------------------------------------------------
(* The store of runtimes.                                                      *)

Waiting == {"enter", "wait", "asleep"}

(* The program points of each call, at the gate of the store and at the        *)
(* source's.                                                                   *)
StorePoints ==
    [none     |-> {"out"},
     create   |-> Waiting \cup {"inside", "domain", "construct", "state", "handle", "leave", "notify", "return"},
     registry |-> {"domain", "construct", "return"},
     destroy  |-> Waiting \cup {"inside", "clear", "erase", "leave", "notify", "return"},
     register |-> Waiting \cup {"inside", "change", "leave", "notify", "return"},
     use      |-> {"load", "read", "using", "return"}]
Steps == Waiting \cup {"out", "inside", "domain", "construct", "state", "handle", "leave", "notify", "return",
                       "clear", "erase", "change", "load", "read", "using"}
SourcePoints == Waiting \cup {"inside", "leave", "notify"}
Step(t) == pc[t][1]
Gate(t) == pc[t][2]
OnPath(t) ==
    IF Gate(t) = "store" THEN Step(t) \in StorePoints[call[t].kind]
                         ELSE Step(t) \in SourcePoints /\ call[t].kind \in {"create", "registry"}

Kinds == {"none", "create", "registry", "destroy", "register", "use"}
OnRuntime == {"destroy", "register", "use"}
CallType == [kind : Kinds, runtime : RuntimeHandle \cup {NoHandle}]
Entry == [object : Objects, handle : RuntimeHandle \cup {NoHandle}, returned : BOOLEAN]

Types ==
    /\ StoreTypeOK
    /\ block \in [Threads -> [next : 0..MaxRegistry + 1, end : 0..MaxRegistry + 1]]
    /\ call \in [Threads -> CallType]
    /\ pc \in [Threads -> Steps \X Gates]
    /\ made \in Seq(Entry)
    /\ \A t \in Threads : OnPath(t)
    /\ \A t \in Threads : call[t].kind \in OnRuntime => call[t].runtime \in RuntimeHandle

(* One thread is past a gate, exactly when it is claimed. *)
Gated ==
    /\ \A g \in Gates, t, u \in Threads : Past(t, g) /\ Past(u, g) => t = u
    /\ \A g \in Gates : claimed[g] <=> \E t \in Threads : Past(t, g)

Holds(t, steps) == Gate(t) = "store" /\ Step(t) \in steps

(* The slot that the thread past the gate is changing: in the table it has an  *)
(* object, in the hot copy no handle.                                          *)
Changing(t, s) ==
    \/ Holds(t, {"state", "handle"}) /\ runtimes[s].value = found[t]
    \/ Holds(t, {"clear", "erase"}) /\ call[t].runtime.slot = s

HotFollows ==
    /\ \A s \in 1..Capacity : hot[s].handle # NoHandle =>
        Resolves(runtimes, hot[s].handle) /\ hot[s].handle.slot = s /\ hot[s].state = runtimes[s].value
    /\ \A s \in 1..Capacity : (hot[s].handle = NoHandle <=> ~Occupied(runtimes, s))
                                \/ \E t \in Threads : Changing(t, s)
    /\ \A t \in Threads, s \in 1..Capacity : Changing(t, s) => Occupied(runtimes, s) /\ hot[s].handle = NoHandle

(* What a thread knows at each point of its call. *)
KnowsOf(t) ==
    /\ Holds(t, {"read", "using"}) => hot[call[t].runtime.slot].handle = call[t].runtime
    /\ Holds(t, {"using"}) => found[t] = hot[call[t].runtime.slot].state
    /\ Holds(t, {"change", "clear", "erase"}) => Resolves(runtimes, call[t].runtime)
    /\ Holds(t, {"change"}) => found[t] = Value(runtimes, call[t].runtime)
    /\ Holds(t, {"state", "handle"}) =>
        /\ found[t].frames = nextDomain /\ nextDomain <= MaxDomain
        /\ \E s \in 1..Capacity : runtimes[s].value = found[t]
    /\ Holds(t, {"handle"}) => \A s \in 1..Capacity : runtimes[s].value = found[t] => hot[s].state = found[t]
    /\ call[t].kind = "create" /\ (Holds(t, {"domain", "construct"}) \/ Gate(t) = "source") =>
        nextDomain <= MaxDomain /\ \E s \in 1..Capacity : FirstFree(runtimes, s)

(* What callers keep to: nobody uses a runtime that is being destroyed. *)
UseAndDestroyApart ==
    \A t, u \in Threads : call[t].kind = "use" /\ call[u].kind = "destroy" => call[t].runtime # call[u].runtime

Knows == (\A t \in Threads : KnowsOf(t)) /\ UseAndDestroyApart

(* Frame domains: those given are below the next, and no two runtimes share one. *)
Framed ==
    /\ \A i \in DOMAIN made : /\ made[i].object.frames <= nextDomain
                              /\ made[i].object.frames = nextDomain
                                    => \E t \in Threads : Holds(t, {"state", "handle"})
    /\ \A i, j \in DOMAIN made : i # j /\ made[i].object.frames = made[j].object.frames
                                    => made[i].object.frames = 0
    /\ \A s \in 1..Capacity : Occupied(runtimes, s) =>
        /\ runtimes[s].value.frames <= nextDomain
        /\ runtimes[s].value.frames = nextDomain => \E t \in Threads : Holds(t, {"state", "handle"})
    /\ \A r, s \in 1..Capacity : r # s /\ Occupied(runtimes, r) /\ Occupied(runtimes, s)
                                    => runtimes[r].value.frames # runtimes[s].value.frames

(* A domain taken for a registry that is not made yet. *)
Fresh(t) == \/ Gate(t) = "store" /\ Step(t) = "construct"
            \/ Gate(t) = "source" /\ Step(t) \in {"leave", "notify"}

(* A thread that has found nothing yet. *)
Empty(t) == \/ Gate(t) = "store" /\ Step(t) \in Waiting \cup {"out", "inside", "domain"}
            \/ Gate(t) = "source" /\ Step(t) \in Waiting \cup {"inside"}
Covers(b, d) == b.next <= d /\ d < b.end

(* Registry domains: a domain is in one block, or taken once, or still to come. *)
Registered ==
    /\ \A t \in Threads : block[t].next <= block[t].end /\ block[t].end <= nextBlock
    /\ \A t \in Threads : block[t].next # block[t].end => block[t].next # 0
    /\ \A t, u \in Threads, d \in 1..MaxRegistry : Covers(block[t], d) /\ Covers(block[u], d) => t = u
    /\ \A t \in Threads : Fresh(t) /\ found[t].registry # 0 =>
        /\ found[t].registry < nextBlock
        /\ \A u \in Threads : ~Covers(block[u], found[t].registry)
        /\ \A u \in Threads : Fresh(u) /\ found[u].registry = found[t].registry => u = t
        /\ \A i \in DOMAIN made : made[i].object.registry # found[t].registry
    /\ \A t \in Threads : Fresh(t) => found[t].frames = 0
    /\ \A t \in Threads : Empty(t) => found[t] = NoObject
    /\ \A i \in DOMAIN made : made[i].object.registry # 0 =>
        /\ made[i].object.registry < nextBlock
        /\ \A u \in Threads : ~Covers(block[u], made[i].object.registry)
    /\ \A i, j \in DOMAIN made : i # j /\ made[i].object.registry = made[j].object.registry
                                    => made[i].object.registry = 0

StoreInv == Types /\ Gated /\ HotFollows /\ Knows /\ Framed /\ Registered /\ WakesUp

-------------------------------------------------------------------------------
(* Threads, gates and program points *)

(* Where a thread is, as a pair. *)
LEMMA PlaceIsPair ==
    ASSUME pc \in [Threads -> Steps \X Gates]
    PROVE  \A t \in Threads : /\ pc[t] = <<Step(t), Gate(t)>>
                              /\ Gate(t) = "store" \/ Gate(t) = "source"
                              /\ Step(t) \in Steps
                              /\ \A x, g : At(t, x, g) <=> Step(t) = x /\ Gate(t) = g
BY DEF Step, Gate, At, Gates

(* Goto moves one thread. *)
LEMMA GotoMoves ==
    ASSUME pc \in [Threads -> Steps \X Gates], NEW t \in Threads, NEW x \in Steps, NEW g \in Gates, Goto(t, x, g)
    PROVE  /\ pc' \in [Threads -> Steps \X Gates]
           /\ Step(t)' = x /\ Gate(t)' = g
           /\ \A u \in Threads : u # t => pc'[u] = pc[u] /\ Step(u)' = Step(u) /\ Gate(u)' = Gate(u)
BY DEF Goto, Step, Gate

(* Past, of a thread on its path: it is inside the call that the gate guards.  *)
Inner == {"inside", "domain", "construct", "state", "handle", "leave", "clear", "erase", "change"}
PastStore(t) == \/ Gate(t) = "store" /\ Step(t) \in Inner /\ call[t].kind # "registry"
                \/ Gate(t) = "source" /\ call[t].kind = "create"
PastSource(t) == Gate(t) = "source" /\ Step(t) \in {"inside", "leave"}

LEMMA PastMeans ==
    ASSUME NEW t \in Threads, OnPath(t), call[t].kind \in Kinds, Gate(t) \in Gates
    PROVE  /\ Past(t, "store") <=> PastStore(t)
           /\ Past(t, "source") <=> PastSource(t)
<1> USE DEF OnPath, Past, PastStore, PastSource, Gate, Step, Gates, Kinds, StorePoints, SourcePoints, Waiting, Inner
<1>1. CASE Gate(t) = "store"
  <2>1. Step(t) \in StorePoints[call[t].kind]
    BY <1>1
  <2>2. CASE call[t].kind = "none"
    BY <1>1, <2>1, <2>2
  <2>3. CASE call[t].kind = "create"
    BY <1>1, <2>1, <2>3
  <2>4. CASE call[t].kind = "registry"
    BY <1>1, <2>1, <2>4
  <2>5. CASE call[t].kind = "destroy"
    BY <1>1, <2>1, <2>5
  <2>6. CASE call[t].kind = "register"
    BY <1>1, <2>1, <2>6
  <2>7. CASE call[t].kind = "use"
    BY <1>1, <2>1, <2>7
  <2> QED
    BY <2>2, <2>3, <2>4, <2>5, <2>6, <2>7
<1>2. CASE Gate(t) = "source"
  BY <1>2
<1> QED
  BY <1>1, <1>2

(* A step of one thread that opens and closes no gate. *)
Plain(t) ==
    /\ UNCHANGED claimed
    /\ pc' \in [Threads -> Steps \X Gates] /\ call' \in [Threads -> CallType]
    /\ \A u \in Threads : u # t => Step(u)' = Step(u) /\ Gate(u)' = Gate(u) /\ call'[u] = call[u]
    /\ OnPath(t)'
    /\ call'[t].kind \in OnRuntime => call'[t].runtime \in RuntimeHandle
    /\ PastStore(t)' <=> PastStore(t)
    /\ PastSource(t)' <=> PastSource(t)
    /\ Step(t) \notin {"enter", "wait", "notify"}
    /\ Step(t)' # "asleep"

(* The parts of a call but its beginning and end leave the calls alone. *)
LEMMA PlainWithin ==
    ASSUME Types, NEW t \in Threads, NEW x \in Steps, NEW g \in Gates, Goto(t, x, g),
           UNCHANGED <<claimed, call>>, x # "asleep", Step(t) \notin {"enter", "wait", "notify"},
           g = "store" => x \in StorePoints[call[t].kind],
           g = "source" => x \in SourcePoints /\ call[t].kind \in {"create", "registry"},
           PastStore(t) <=> (g = "store" /\ x \in Inner /\ call[t].kind # "registry")
                                \/ (g = "source" /\ call[t].kind = "create"),
           PastSource(t) <=> g = "source" /\ x \in {"inside", "leave"}
    PROVE  Plain(t)
<1>1. pc \in [Threads -> Steps \X Gates] /\ call \in [Threads -> CallType]
  BY DEF Types
<1>2. /\ pc' \in [Threads -> Steps \X Gates] /\ Step(t)' = x /\ Gate(t)' = g
      /\ \A u \in Threads : u # t => Step(u)' = Step(u) /\ Gate(u)' = Gate(u)
  BY <1>1, GotoMoves
<1>3. OnPath(t)'
  BY <1>2 DEF OnPath, Gates
<1>4. PastStore(t)' <=> PastStore(t)
  BY <1>2 DEF PastStore
<1>5. PastSource(t)' <=> PastSource(t)
  BY <1>2 DEF PastSource
<1>6. call'[t].kind \in OnRuntime => call'[t].runtime \in RuntimeHandle
  BY DEF Types
<1> QED
  BY <1>1, <1>2, <1>3, <1>4, <1>5, <1>6 DEF Plain

(* What a thread on its path at the store's gate can be doing. *)
LEMMA CallAt ==
    ASSUME Types, NEW t \in Threads
    PROVE  /\ call[t].kind \in Kinds
           /\ Gate(t) = "source" => Step(t) \in SourcePoints /\ call[t].kind \in {"create", "registry"}
           /\ Gate(t) = "store" =>
                /\ Step(t) = "out" => call[t].kind = "none"
                /\ Step(t) \in {"state", "handle"} => call[t].kind = "create"
                /\ Step(t) \in {"domain", "construct"} => call[t].kind \in {"create", "registry"}
                /\ Step(t) \in {"clear", "erase"} => call[t].kind = "destroy"
                /\ Step(t) = "change" => call[t].kind = "register"
                /\ Step(t) \in {"load", "read", "using"} => call[t].kind = "use"
                /\ Step(t) \in Waiting \cup {"inside", "leave", "notify"} => call[t].kind \in {"create", "destroy", "register"}
                /\ Step(t) = "return" => call[t].kind # "none"
<1>1. call[t].kind \in Kinds /\ OnPath(t) /\ (Gate(t) = "store" \/ Gate(t) = "source")
  BY PlaceIsPair DEF Types, CallType
<1>2. CASE Gate(t) = "source"
  BY <1>1, <1>2 DEF OnPath
<1>3. CASE Gate(t) = "store"
  <2> USE DEF StorePoints, Waiting
  <2>1. Step(t) \in StorePoints[call[t].kind]
    BY <1>1, <1>3 DEF OnPath
  <2>2. CASE call[t].kind = "none"
    BY <1>3, <2>1, <2>2 DEF Kinds
  <2>3. CASE call[t].kind = "create"
    BY <1>3, <2>1, <2>3 DEF Kinds
  <2>4. CASE call[t].kind = "registry"
    BY <1>3, <2>1, <2>4 DEF Kinds
  <2>5. CASE call[t].kind = "destroy"
    BY <1>3, <2>1, <2>5 DEF Kinds
  <2>6. CASE call[t].kind = "register"
    BY <1>3, <2>1, <2>6 DEF Kinds
  <2>7. CASE call[t].kind = "use"
    BY <1>3, <2>1, <2>7 DEF Kinds
  <2> QED
    BY <1>1, <2>2, <2>3, <2>4, <2>5, <2>6, <2>7 DEF Kinds
<1> QED
  BY <1>1, <1>2, <1>3

(* Every step of a call is plain but those at a gate. *)
LEMMA PlainSteps ==
    ASSUME Types, NEW t \in Threads, Calls(t) \/ Within(t)
    PROVE  Plain(t)
<1>0. /\ pc \in [Threads -> Steps \X Gates] /\ call \in [Threads -> CallType]
      /\ call[t].kind \in Kinds /\ {"store", "source"} = Gates
      /\ \A x, g : At(t, x, g) <=> Step(t) = x /\ Gate(t) = g
  BY CallAt, PlaceIsPair DEF Types, Gates
<1> USE DEF StorePoints, SourcePoints, Waiting, Inner, PastSource, PastStore, Steps
<1>1. ASSUME NEW kind \in {"create", "registry", "destroy", "use", "register"}, NEW h \in RuntimeHandle \cup {NoHandle},
             Call(t, kind, h), kind \in OnRuntime => h \in RuntimeHandle
      PROVE  Plain(t)
  <2>1. PICK x \in {"load", "domain", "enter"} :
           /\ Goto(t, x, "store")
           /\ x = IF kind = "use" THEN "load" ELSE IF kind = "registry" THEN "domain" ELSE "enter"
    BY <1>1 DEF Call
  <2>2. /\ pc' \in [Threads -> Steps \X Gates] /\ Step(t)' = x /\ Gate(t)' = "store"
        /\ \A u \in Threads : u # t => Step(u)' = Step(u) /\ Gate(u)' = Gate(u)
    BY <1>0, <2>1, GotoMoves
  <2>3. /\ call' \in [Threads -> CallType] /\ call'[t] = [kind |-> kind, runtime |-> h]
        /\ \A u \in Threads : u # t => call'[u] = call[u]
    BY <1>0, <1>1 DEF Call, CallType, Kinds
  <2>4. Step(t) = "out" /\ Gate(t) = "store" /\ UNCHANGED claimed
    BY <1>0, <1>1 DEF Call
  <2>5. OnPath(t)'
    BY <2>1, <2>2, <2>3 DEF OnPath
  <2>6. ~PastStore(t) /\ ~PastStore(t)'
    BY <2>1, <2>2, <2>3, <2>4 DEF PastStore
  <2> QED
    BY <1>1, <2>1, <2>2, <2>3, <2>4, <2>5, <2>6 DEF Plain
<1>2. CASE Calls(t)
  BY <1>1, <1>2 DEF Calls, OnRuntime
<1>3. CASE Return(t)
  <2>1. /\ pc' \in [Threads -> Steps \X Gates] /\ Step(t)' = "out" /\ Gate(t)' = "store"
        /\ \A u \in Threads : u # t => Step(u)' = Step(u) /\ Gate(u)' = Gate(u)
    BY <1>0, <1>3, GotoMoves DEF Return
  <2>2. /\ call' \in [Threads -> CallType] /\ call'[t].kind = "none"
        /\ \A u \in Threads : u # t => call'[u] = call[u]
    BY <1>0, <1>3 DEF Return, CallType, Kinds, NoCall
  <2>3. Step(t) = "return" /\ Gate(t) = "store" /\ UNCHANGED claimed
    BY <1>0, <1>3 DEF Return
  <2>4. OnPath(t)'
    BY <2>1, <2>2 DEF OnPath
  <2>5. ~PastStore(t) /\ ~PastStore(t)'
    BY <2>1, <2>2, <2>3 DEF PastStore
  <2> QED
    BY <2>1, <2>2, <2>3, <2>4, <2>5 DEF Plain, OnRuntime
<1>4. CASE Create(t)
  <2>1. PICK x \in {"domain", "leave"} : Goto(t, x, "store")
    BY <1>4 DEF Create
  <2> QED
    BY <1>0, <1>4, <2>1, PlainWithin DEF Create, Inside
<1>5. CASE TakeDomain(t)
  <2>1. Step(t) = "domain" /\ Gate(t) = "store" /\ call[t].kind \in {"create", "registry"} /\ UNCHANGED <<claimed, call>>
    BY <1>0, <1>5, CallAt DEF TakeDomain
  <2>2. Goto(t, "construct", "store") \/ Goto(t, "enter", "source")
    BY <1>5 DEF TakeDomain
  <2> QED
    BY <1>0, <2>1, <2>2, PlainWithin
<1>6. CASE Reserve(t)
  <2>1. Step(t) = "inside" /\ Gate(t) = "source" /\ call[t].kind \in {"create", "registry"}
    BY <1>0, <1>6, CallAt DEF Reserve
  <2>2. Goto(t, "leave", "source") /\ UNCHANGED <<claimed, call>>
    BY <1>6 DEF Reserve
  <2> QED
    BY <1>0, <2>1, <2>2, PlainWithin
<1>7. CASE Construct(t)
  <2>1. Step(t) = "construct" /\ Gate(t) = "store" /\ call[t].kind \in {"create", "registry"} /\ UNCHANGED <<claimed, call>>
    BY <1>0, <1>7, CallAt DEF Construct
  <2>2. IF call[t].kind = "registry" THEN Goto(t, "return", "store") ELSE Goto(t, "state", "store")
    BY <1>7 DEF Construct
  <2> QED
    BY <1>0, <2>1, <2>2, PlainWithin
<1>8. CASE StoreState(t) \/ StoreHandle(t)
  <2>1. Step(t) \in {"state", "handle"} /\ Gate(t) = "store" /\ call[t].kind = "create" /\ UNCHANGED <<claimed, call>>
    BY <1>0, <1>8, CallAt DEF StoreState, StoreHandle
  <2>2. PICK x \in {"handle", "leave"} : Goto(t, x, "store")
    BY <1>8 DEF StoreState, StoreHandle
  <2> QED
    BY <1>0, <2>1, <2>2, PlainWithin
<1>9. CASE Destroy(t) \/ ClearState(t) \/ Erase(t)
  <2>1. Step(t) \in {"inside", "clear", "erase"} /\ Gate(t) = "store" /\ call[t].kind = "destroy" /\ UNCHANGED <<claimed, call>>
    BY <1>0, <1>9, CallAt DEF Destroy, ClearState, Erase, Inside
  <2>2. PICK x \in {"clear", "erase", "leave"} : Goto(t, x, "store")
    BY <1>9 DEF Destroy, ClearState, Erase
  <2> QED
    BY <1>0, <2>1, <2>2, PlainWithin
<1>10. CASE Register(t) \/ Change(t)
  <2>1. Step(t) \in {"inside", "change"} /\ Gate(t) = "store" /\ call[t].kind = "register" /\ UNCHANGED <<claimed, call>>
    BY <1>0, <1>10, CallAt DEF Register, Change, Inside
  <2>2. PICK x \in {"change", "leave"} : Goto(t, x, "store")
    BY <1>10 DEF Register, Change
  <2> QED
    BY <1>0, <2>1, <2>2, PlainWithin
<1>11. CASE LoadHandle(t) \/ LoadState(t) \/ Use(t)
  <2>1. Step(t) \in {"load", "read", "using"} /\ Gate(t) = "store" /\ call[t].kind = "use" /\ UNCHANGED <<claimed, call>>
    BY <1>0, <1>11, CallAt DEF LoadHandle, LoadState, Use
  <2>2. PICK x \in {"read", "using", "return"} : Goto(t, x, "store")
    BY <1>11 DEF LoadHandle, LoadState, Use
  <2> QED
    BY <1>0, <2>1, <2>2, PlainWithin
<1> QED
  BY <1>2, <1>3, <1>4, <1>5, <1>6, <1>7, <1>8, <1>9, <1>10, <1>11 DEF Within

-------------------------------------------------------------------------------
(* The gates *)

PastGate(t, g) == IF g = "store" THEN PastStore(t) ELSE PastSource(t)
At2(t, steps, g) == Gate(t) = g /\ Step(t) \in steps

(* Past, of threads on their paths. *)
LEMMA PastIs == Types => \A t \in Threads, g \in Gates : Past(t, g) <=> PastGate(t, g)
<1> SUFFICES ASSUME Types, NEW t \in Threads, NEW g \in Gates PROVE Past(t, g) <=> PastGate(t, g)
  OBVIOUS
<1>1. OnPath(t) /\ call[t].kind \in Kinds /\ Gate(t) \in Gates
  BY CallAt, PlaceIsPair DEF Types, Gates
<1> QED
  BY <1>1, PastMeans DEF PastGate, Gates

LEMMA PastIsAfter == Types' => \A t \in Threads, g \in Gates : Past(t, g)' <=> PastGate(t, g)'
<1>1. (Types => \A t \in Threads, g \in Gates : Past(t, g) <=> PastGate(t, g))'
  BY PastIs, PTL
<1> QED
  BY <1>1

(* The three things a step of one thread may do to a gate: nothing, pass it, or
   leave it. *)
LEMMA GateKept ==
    ASSUME Types, Types', Gated, NEW t \in Threads,
           \A u \in Threads, g \in Gates : u # t => (PastGate(u, g)' <=> PastGate(u, g)),
           \A g \in Gates :
              \/ (PastGate(t, g)' <=> PastGate(t, g)) /\ claimed'[g] = claimed[g]
              \/ ~claimed[g] /\ PastGate(t, g)' /\ claimed'[g]
              \/ PastGate(t, g) /\ ~PastGate(t, g)' /\ ~claimed'[g]
    PROVE  Gated'
<1>1. \A u \in Threads, g \in Gates : (Past(u, g) <=> PastGate(u, g)) /\ (Past(u, g)' <=> PastGate(u, g)')
  BY PastIs, PastIsAfter
<1>2. \A g \in Gates, u, v \in Threads : PastGate(u, g) /\ PastGate(v, g) => u = v
  BY <1>1 DEF Gated
<1>3. \A g \in Gates : claimed[g] <=> \E u \in Threads : PastGate(u, g)
  BY <1>1 DEF Gated
<1>4. ASSUME NEW g \in Gates, NEW u \in Threads, NEW v \in Threads, PastGate(u, g)', PastGate(v, g)' PROVE u = v
  BY <1>2, <1>3, <1>4
<1>5. ASSUME NEW g \in Gates PROVE claimed'[g] <=> \E u \in Threads : PastGate(u, g)'
  <2>1. CASE (PastGate(t, g)' <=> PastGate(t, g)) /\ claimed'[g] = claimed[g]
    BY <1>3, <2>1, Zenon
  <2>2. CASE PastGate(t, g)' /\ claimed'[g]
    BY <2>2
  <2>3. CASE PastGate(t, g) /\ ~PastGate(t, g)' /\ ~claimed'[g]
    BY <1>2, <2>3
  <2> QED
    BY <2>1, <2>2, <2>3
<1>6. \A g \in Gates, u, v \in Threads : PastGate(u, g)' /\ PastGate(v, g)' => u = v
  BY <1>4
<1>7. \A g \in Gates, u, v \in Threads : Past(u, g)' /\ Past(v, g)' => u = v
  BY <1>1, <1>6
<1>8. \A g \in Gates : claimed'[g] <=> \E u \in Threads : Past(u, g)'
  BY <1>1, <1>5
<1> QED
  BY <1>7, <1>8 DEF Gated

(* While it stands at these points, a thread is one that makes a sleeper look
   again, or looks itself. *)
Alert(t, g) == PastGate(t, g) \/ At2(t, {"notify", "wait", "enter"}, g)

LEMMA WakesIs ==
    Types => (WakesUp <=> \A t \in Threads, g \in Gates : At2(t, {"asleep"}, g) => \E u \in Threads : Alert(u, g))
<1> SUFFICES ASSUME Types
             PROVE  WakesUp <=> \A t \in Threads, g \in Gates : At2(t, {"asleep"}, g) => \E u \in Threads : Alert(u, g)
  OBVIOUS
<1>1. \A t \in Threads : \A x, g : At(t, x, g) <=> Step(t) = x /\ Gate(t) = g
  BY PlaceIsPair DEF Types
<1>2. \A t \in Threads, g \in Gates :
         Alert(t, g) <=> Past(t, g) \/ At(t, "notify", g) \/ At(t, "wait", g) \/ At(t, "enter", g)
  BY <1>1, PastIs DEF Alert, At2
<1>3. \A t \in Threads, g \in Gates : At2(t, {"asleep"}, g) <=> Wakes(t, g)
  BY <1>1 DEF At2, Wakes
<1> QED
  BY <1>2, <1>3 DEF WakesUp

LEMMA WakesIsAfter ==
    Types' => (WakesUp' <=> \A t \in Threads, g \in Gates : At2(t, {"asleep"}, g)' => \E u \in Threads : Alert(u, g)')
<1>1. (Types => (WakesUp <=> \A t \in Threads, g \in Gates : At2(t, {"asleep"}, g) => \E u \in Threads : Alert(u, g)))'
  BY WakesIs, PTL
<1> QED
  BY <1>1

(* A step of t loses no wake-up, if t does not fall asleep and stays alert or
   nobody sleeps. *)
LEMMA WakesKept ==
    ASSUME Types, Types', WakesUp, NEW t \in Threads,
           \A u \in Threads, g \in Gates : u # t =>
              /\ At2(u, {"asleep"}, g)' => At2(u, {"asleep"}, g)
              /\ Alert(u, g) => Alert(u, g)',
           \A g \in Gates :
              /\ At2(t, {"asleep"}, g)' => At2(t, {"asleep"}, g) \/ \E u \in Threads : Alert(u, g)'
              /\ Alert(t, g) => \/ \E u \in Threads : Alert(u, g)'
                                \/ \A u \in Threads : ~At2(u, {"asleep"}, g)'
    PROVE  WakesUp'
<1>1. \A u \in Threads, g \in Gates : At2(u, {"asleep"}, g) => \E v \in Threads : Alert(v, g)
  BY WakesIs
<1>2. ASSUME NEW u \in Threads, NEW g \in Gates, At2(u, {"asleep"}, g)' PROVE \E v \in Threads : Alert(v, g)'
  <2>1. CASE At2(u, {"asleep"}, g)
    <3>1. PICK v \in Threads : Alert(v, g)
      BY <1>1, <2>1
    <3>2. CASE v = t
      BY <1>2, <3>1, <3>2
    <3>3. CASE v # t
      BY <3>1, <3>3
    <3> QED
      BY <3>2, <3>3
  <2>2. CASE ~At2(u, {"asleep"}, g)
    BY <1>2, <2>2
  <2> QED
    BY <2>1, <2>2
<1> QED
  BY <1>2, WakesIsAfter

LEMMA PlainKeepsGates ==
    ASSUME Types, Types', Gated, WakesUp, NEW t \in Threads, Plain(t)
    PROVE  Gated' /\ WakesUp'
<1>1. \A u \in Threads, g \in Gates : PastGate(u, g)' <=> PastGate(u, g)
  BY DEF Plain, PastGate, PastStore, PastSource
<1>2. \A g \in Gates : claimed'[g] = claimed[g]
  BY DEF Plain
<1>3. Gated'
  BY <1>1, <1>2, GateKept
<1>4. \A u \in Threads, g \in Gates : u # t =>
         (At2(u, {"asleep"}, g)' <=> At2(u, {"asleep"}, g)) /\ (Alert(u, g) <=> Alert(u, g)')
  BY <1>1 DEF Plain, Alert, At2
<1>5. \A g \in Gates : ~At2(t, {"asleep"}, g)' /\ (Alert(t, g) => Alert(t, g)')
  BY <1>1 DEF Plain, Alert, At2
<1>6. WakesUp'
  BY <1>4, <1>5, WakesKept
<1> QED
  BY <1>3, <1>6

(* A step at a gate changes nothing else. *)
LEMMA GateTypes ==
    ASSUME Types, UNCHANGED notGate, claimed' \in [Gates -> BOOLEAN], pc' \in [Threads -> Steps \X Gates],
           \A u \in Threads : OnPath(u)'
    PROVE  Types'
BY DEF Types, StoreTypeOK, notGate

(* The threads that do not move. *)
LEMMA OthersStay ==
    ASSUME Types, NEW u \in Threads, call' = call, Step(u)' = Step(u), Gate(u)' = Gate(u)
    PROVE  /\ OnPath(u)'
           /\ \A h \in Gates : /\ PastGate(u, h)' <=> PastGate(u, h)
                               /\ Alert(u, h)' <=> Alert(u, h)
                               /\ At2(u, {"asleep"}, h)' <=> At2(u, {"asleep"}, h)
<1>1. OnPath(u)
  BY DEF Types
<1>2. OnPath(u)'
  BY <1>1 DEF OnPath
<1>3. \A h \in Gates : PastGate(u, h)' <=> PastGate(u, h)
  BY DEF PastGate, PastStore, PastSource
<1> QED
  BY <1>2, <1>3 DEF Alert, At2

(* A thread that waits at a gate, passes it or leaves it. *)
AtGate == Waiting \cup {"inside", "leave", "notify"}

LEMMA AtGateMoves ==
    ASSUME Types, NEW t \in Threads, NEW g \in Gates, Gate(t) = g, Step(t) \in AtGate, call' = call,
           Gate(t)' = g, Step(t)' \in AtGate
    PROVE  /\ OnPath(t)'
           /\ \A h \in Gates : h # g => /\ PastGate(t, h)' <=> PastGate(t, h)
                                        /\ Alert(t, h)' <=> Alert(t, h)
                                        /\ ~At2(t, {"asleep"}, h)'
           /\ PastGate(t, g) <=> Step(t) \in {"inside", "leave"}
           /\ PastGate(t, g)' <=> Step(t)' \in {"inside", "leave"}
<1> USE DEF Waiting, AtGate
<1>1. /\ g = "store" => call[t].kind \in {"create", "destroy", "register"}
      /\ g = "source" => call[t].kind \in {"create", "registry"}
      /\ g = "store" \/ g = "source"
  BY CallAt DEF Gates
<1>2. OnPath(t)'
  BY <1>1 DEF OnPath, StorePoints, SourcePoints
<1>3. CASE g = "store"
  BY <1>1, <1>2, <1>3 DEF PastGate, PastStore, PastSource, Alert, At2, Inner, Gates
<1>4. CASE g = "source"
  BY <1>1, <1>2, <1>4 DEF PastGate, PastStore, PastSource, Alert, At2, Inner, Gates
<1> QED
  BY <1>1, <1>3, <1>4

(* Enter, Wait, Leave, Spurious: one thread moves at its gate. *)
LEMMA OneAtGate ==
    ASSUME Types, Gated, WakesUp, NEW t \in Threads, NEW g \in Gates, UNCHANGED notGate,
           NEW x \in AtGate, Goto(t, x, g), Gate(t) = g, Step(t) \in AtGate, claimed' \in [Gates -> BOOLEAN],
           \A h \in Gates : h # g => claimed'[h] = claimed[h],
           \/ Step(t) = "enter" /\ ~claimed[g] /\ x = "inside" /\ claimed'[g]
           \/ Step(t) = "enter" /\ x = "wait" /\ claimed'[g] = claimed[g]
           \/ Step(t) = "wait" /\ x = "enter" /\ claimed'[g] = claimed[g]
           \/ Step(t) = "wait" /\ x = "asleep" /\ claimed[g] /\ claimed'[g] = claimed[g]
           \/ Step(t) = "asleep" /\ x = "wait" /\ claimed'[g] = claimed[g]
           \/ Step(t) = "leave" /\ x = "notify" /\ ~claimed'[g]
    PROVE  Types' /\ Gated' /\ WakesUp'
<1>1. pc \in [Threads -> Steps \X Gates] /\ x \in Steps /\ call' = call
  BY DEF Types, AtGate, Steps, Waiting, notGate
<1>2. /\ pc' \in [Threads -> Steps \X Gates] /\ Step(t)' = x /\ Gate(t)' = g
      /\ \A u \in Threads : u # t => Step(u)' = Step(u) /\ Gate(u)' = Gate(u)
  BY <1>1, GotoMoves
<1>3. ASSUME NEW u \in Threads, u # t
      PROVE  /\ OnPath(u)'
             /\ \A h \in Gates : /\ PastGate(u, h)' <=> PastGate(u, h)
                                 /\ Alert(u, h)' <=> Alert(u, h)
                                 /\ At2(u, {"asleep"}, h)' <=> At2(u, {"asleep"}, h)
  BY <1>1, <1>2, <1>3, OthersStay
<1>4. /\ OnPath(t)'
      /\ \A h \in Gates : h # g => /\ PastGate(t, h)' <=> PastGate(t, h)
                                   /\ Alert(t, h)' <=> Alert(t, h)
                                   /\ ~At2(t, {"asleep"}, h)'
      /\ PastGate(t, g) <=> Step(t) \in {"inside", "leave"}
      /\ PastGate(t, g)' <=> x \in {"inside", "leave"}
  BY <1>1, <1>2, AtGateMoves
<1>5. Types'
  BY <1>2, <1>3, <1>4, GateTypes
<1>6. \A h \in Gates :
         \/ (PastGate(t, h)' <=> PastGate(t, h)) /\ claimed'[h] = claimed[h]
         \/ ~claimed[h] /\ PastGate(t, h)' /\ claimed'[h]
         \/ PastGate(t, h) /\ ~PastGate(t, h)' /\ ~claimed'[h]
  BY <1>4
<1>7. Gated'
  BY <1>3, <1>5, <1>6, GateKept
<1>8. x = "asleep" => \E u \in Threads : Alert(u, g)'
  <2> SUFFICES ASSUME x = "asleep" PROVE \E u \in Threads : Alert(u, g)'
    OBVIOUS
  <2>1. PICK u \in Threads : PastGate(u, g)
    BY PastIs DEF Gated
  <2>2. u # t
    BY <1>4, <2>1
  <2> QED
    BY <1>3, <2>1, <2>2 DEF Alert
<1>9. x # "asleep" => Alert(t, g)' /\ ~At2(t, {"asleep"}, g)'
  BY <1>2, <1>4 DEF Alert, At2
<1>10. \A h \in Gates : /\ At2(t, {"asleep"}, h)' => \E u \in Threads : Alert(u, h)'
                        /\ Alert(t, h) => \E u \in Threads : Alert(u, h)'
  BY <1>4, <1>8, <1>9
<1>11. WakesUp'
  BY <1>3, <1>5, <1>10, WakesKept
<1> QED
  BY <1>5, <1>7, <1>11

(* Notify: the thread goes on with its call, and wakes one that sleeps. *)
LEMMA NotifyKeeps ==
    ASSUME Types, Gated, WakesUp, NEW t \in Threads, NEW g \in Gates, Notify(t, g)
    PROVE  Types' /\ Gated' /\ WakesUp'
<1>1. /\ pc \in [Threads -> Steps \X Gates] /\ call' = call /\ claimed' = claimed /\ UNCHANGED notGate
      /\ claimed \in [Gates -> BOOLEAN] /\ Step(t) = "notify" /\ Gate(t) = g
      /\ g = "store" \/ g = "source"
  BY PlaceIsPair DEF Types, StoreTypeOK, notGate, Notify, Gates
<1>2. After(g) \in Steps \X Gates
  BY <1>1 DEF After, Steps, Gates
<1>3. /\ g = "store" => call[t].kind \in {"create", "destroy", "register"}
      /\ g = "source" => call[t].kind \in {"create", "registry"}
  BY <1>1, CallAt
<1>4. PICK W \in SUBSET Threads :
         /\ pc' = [pc EXCEPT ![t] = After(g)] /\ W = {} /\ (\A v \in Threads : ~Wakes(v, g))
         \/ \E u \in Threads : Wakes(u, g) /\ W = {u} /\ pc' = [pc EXCEPT ![t] = After(g), ![u] = <<"wait", g>>]
  <2>1. CASE \E u \in Threads : Wakes(u, g) /\ pc' = [pc EXCEPT ![t] = After(g), ![u] = <<"wait", g>>]
    <3>1. PICK u \in Threads : Wakes(u, g) /\ pc' = [pc EXCEPT ![t] = After(g), ![u] = <<"wait", g>>]
      BY <2>1
    <3> WITNESS {u} \in SUBSET Threads
    <3> QED
      BY <3>1
  <2>2. CASE (\A v \in Threads : ~Wakes(v, g)) /\ pc' = [pc EXCEPT ![t] = After(g)]
    <3> WITNESS {} \in SUBSET Threads
    <3> QED
      BY <2>2
  <2> QED
    BY <2>1, <2>2 DEF Notify
<1>5. /\ t \notin W
      /\ \A u \in W : Step(u) = "asleep" /\ Gate(u) = g
      /\ W = {} => \A v \in Threads : ~At2(v, {"asleep"}, g)
      /\ pc' = [v \in Threads |-> IF v \in W THEN <<"wait", g>> ELSE IF v = t THEN After(g) ELSE pc[v]]
  <2>1. \A v \in Threads : Wakes(v, g) <=> Step(v) = "asleep" /\ Gate(v) = g
    BY <1>1, PlaceIsPair DEF Wakes
  <2>2. CASE pc' = [pc EXCEPT ![t] = After(g)] /\ W = {} /\ (\A v \in Threads : ~Wakes(v, g))
    BY <1>1, <2>1, <2>2 DEF At2
  <2>3. CASE \E u \in Threads : Wakes(u, g) /\ W = {u} /\ pc' = [pc EXCEPT ![t] = After(g), ![u] = <<"wait", g>>]
    BY <1>1, <2>1, <2>3
  <2> QED
    BY <1>4, <2>2, <2>3
<1>6. /\ pc' \in [Threads -> Steps \X Gates]
      /\ \A u \in W : Step(u)' = "wait" /\ Gate(u)' = g
      /\ \A u \in Threads \ W : u # t => Step(u)' = Step(u) /\ Gate(u)' = Gate(u)
      /\ <<Step(t)', Gate(t)'>> = After(g)
  BY <1>1, <1>2, <1>5 DEF Step, Gate, Steps, Waiting
<1>7. ASSUME NEW u \in Threads \ W, u # t
      PROVE  /\ OnPath(u)'
             /\ \A h \in Gates : /\ PastGate(u, h)' <=> PastGate(u, h)
                                 /\ Alert(u, h)' <=> Alert(u, h)
                                 /\ At2(u, {"asleep"}, h)' <=> At2(u, {"asleep"}, h)
  BY <1>1, <1>6, <1>7, OthersStay
<1>8. ASSUME NEW u \in W
      PROVE  /\ OnPath(u)'
             /\ \A h \in Gates : /\ PastGate(u, h)' <=> PastGate(u, h)
                                 /\ Alert(u, h) => Alert(u, h)'
                                 /\ ~At2(u, {"asleep"}, h)'
             /\ Alert(u, g)'
  BY <1>1, <1>5, <1>6, AtGateMoves DEF AtGate, Waiting, Alert, At2
<1>9. /\ OnPath(t)'
      /\ \A h \in Gates : /\ PastGate(t, h)' <=> PastGate(t, h)
                          /\ h # g /\ Alert(t, h) => Alert(t, h)'
                          /\ ~At2(t, {"asleep"}, h)'
  <2>1. CASE g = "store"
    <3>1. Step(t)' = "return" /\ Gate(t)' = "store"
      BY <1>6, <2>1 DEF After
    <3> QED
      BY <1>1, <1>3, <2>1, <3>1 DEF OnPath, StorePoints, PastGate, PastStore, PastSource, Alert, At2, Inner, Gates
  <2>2. CASE g = "source"
    <3>1. Step(t)' = "construct" /\ Gate(t)' = "store"
      BY <1>6, <2>2 DEF After
    <3> QED
      BY <1>1, <1>3, <2>2, <3>1 DEF OnPath, StorePoints, PastGate, PastStore, PastSource, Alert, At2, Inner, Gates
  <2> QED
    BY <1>1, <2>1, <2>2
<1>10. Types'
  BY <1>1, <1>6, <1>7, <1>8, <1>9, GateTypes
<1>11. \A u \in Threads, h \in Gates : PastGate(u, h)' <=> PastGate(u, h)
  BY <1>7, <1>8, <1>9
<1>12. Gated'
  BY <1>1, <1>10, <1>11, GateKept
<1>13. \A u \in Threads, h \in Gates : u # t => /\ At2(u, {"asleep"}, h)' => At2(u, {"asleep"}, h)
                                                /\ Alert(u, h) => Alert(u, h)'
  BY <1>7, <1>8
<1>14. \/ \E u \in Threads : Alert(u, g)'
       \/ \A u \in Threads : ~At2(u, {"asleep"}, g)'
  <2>1. CASE W = {}
    <3>1. ASSUME NEW u \in Threads PROVE ~At2(u, {"asleep"}, g)'
      <4>1. CASE u = t
        BY <1>9, <4>1
      <4>2. CASE u # t
        BY <1>5, <1>13, <2>1, <4>2
      <4> QED
        BY <4>1, <4>2
    <3> QED
      BY <3>1
  <2>2. CASE W # {}
    BY <1>8, <2>2
  <2> QED
    BY <2>1, <2>2
<1>15. \A h \in Gates : Alert(t, h) => \/ \E u \in Threads : Alert(u, h)'
                                       \/ \A u \in Threads : ~At2(u, {"asleep"}, h)'
  BY <1>9, <1>14
<1>16. \A h \in Gates :
          /\ At2(t, {"asleep"}, h)' => At2(t, {"asleep"}, h) \/ \E u \in Threads : Alert(u, h)'
          /\ Alert(t, h) => \/ \E u \in Threads : Alert(u, h)'
                            \/ \A u \in Threads : ~At2(u, {"asleep"}, h)'
  BY <1>9, <1>15
<1>17. WakesUp'
  BY <1>10, <1>13, <1>16, WakesKept
<1> QED
  BY <1>10, <1>12, <1>17

(* The gates: what every step of RareGlobalGate keeps. *)
LEMMA GatesKeep ==
    ASSUME Types, Gated, WakesUp, NEW t \in Threads, Pass(t) \/ \E g \in Gates : Spurious(t, g)
    PROVE  Types' /\ Gated' /\ WakesUp'
<1>1. claimed \in [Gates -> BOOLEAN] /\ \A x, g : At(t, x, g) <=> Step(t) = x /\ Gate(t) = g
  BY PlaceIsPair DEF Types, StoreTypeOK
<1> USE DEF AtGate, Waiting
<1>2. ASSUME NEW g \in Gates, Enter(t, g) PROVE Types' /\ Gated' /\ WakesUp'
  <2>1. claimed' \in [Gates -> BOOLEAN] /\ claimed'[g] /\ (\A h \in Gates : h # g => claimed'[h] = claimed[h])
    BY <1>1, <1>2 DEF Enter
  <2>2. Step(t) = "enter" /\ Gate(t) = g /\ UNCHANGED notGate
    BY <1>1, <1>2 DEF Enter
  <2>3. CASE claimed[g]
    <3>1. Goto(t, "wait", g) /\ claimed'[g] = claimed[g]
      BY <1>1, <1>2, <2>1, <2>3 DEF Enter
    <3> QED
      BY <2>1, <2>2, <3>1, OneAtGate
  <2>4. CASE ~claimed[g]
    <3>1. Goto(t, "inside", g)
      BY <1>2, <2>4 DEF Enter
    <3> QED
      BY <2>1, <2>2, <2>4, <3>1, OneAtGate
  <2> QED
    BY <2>3, <2>4
<1>3. ASSUME NEW g \in Gates, Wait(t, g) PROVE Types' /\ Gated' /\ WakesUp'
  <2>1. Step(t) = "wait" /\ Gate(t) = g /\ UNCHANGED notGate /\ claimed' = claimed
    BY <1>1, <1>3 DEF Wait, notGate
  <2>2. (Goto(t, "asleep", g) /\ claimed[g]) \/ Goto(t, "enter", g)
    BY <1>3 DEF Wait
  <2> QED
    BY <1>1, <2>1, <2>2, OneAtGate
<1>4. ASSUME NEW g \in Gates, Leave(t, g) PROVE Types' /\ Gated' /\ WakesUp'
  <2>1. Step(t) = "leave" /\ Gate(t) = g /\ UNCHANGED notGate /\ Goto(t, "notify", g)
    BY <1>1, <1>4 DEF Leave, notGate
  <2>2. claimed' \in [Gates -> BOOLEAN] /\ ~claimed'[g] /\ (\A h \in Gates : h # g => claimed'[h] = claimed[h])
    BY <1>1, <1>4 DEF Leave
  <2> QED
    BY <2>1, <2>2, OneAtGate
<1>5. ASSUME NEW g \in Gates, Spurious(t, g) PROVE Types' /\ Gated' /\ WakesUp'
  <2>1. Step(t) = "asleep" /\ Gate(t) = g /\ UNCHANGED notGate /\ claimed' = claimed /\ Goto(t, "wait", g)
    BY <1>1, <1>5 DEF Spurious, Wakes, notGate
  <2> QED
    BY <1>1, <2>1, OneAtGate
<1> QED
  BY <1>2, <1>3, <1>4, <1>5, NotifyKeeps DEF Pass

-------------------------------------------------------------------------------
(* What one thread does to the data leaves what the others know. *)

(* The thread past the gate of the store is alone there. *)
LEMMA Alone ==
    ASSUME Types, Gated, NEW t \in Threads, PastStore(t), NEW u \in Threads, u # t
    PROVE  /\ ~PastStore(u)
           /\ ~Holds(u, {"state", "handle", "clear", "erase", "change"})
           /\ ~(call[u].kind = "create" /\ (Holds(u, {"domain", "construct"}) \/ Gate(u) = "source"))
<1>1. ~PastStore(u)
  BY PastIs DEF Gated, PastGate, Gates
<1> QED
  BY <1>1, CallAt DEF PastStore, Inner, Holds, Waiting

(* A thread that a step does not touch. *)
Same(u) == Step(u)' = Step(u) /\ Gate(u)' = Gate(u) /\ call'[u] = call[u] /\ found'[u] = found[u]

LEMMA OthersKnow ==
    ASSUME Types, Gated, NEW t \in Threads, PastStore(t), NEW u \in Threads, u # t, Same(u), KnowsOf(u),
           Holds(u, {"read", "using"}) => hot'[call[u].runtime.slot] = hot[call[u].runtime.slot]
    PROVE  KnowsOf(u)'
<1>1. /\ ~Holds(u, {"state", "handle", "clear", "erase", "change"})
      /\ ~(call[u].kind = "create" /\ (Holds(u, {"domain", "construct"}) \/ Gate(u) = "source"))
  BY Alone
<1>2. Holds(u, {"using"}) => Holds(u, {"read", "using"})
  BY DEF Holds
<1> QED
  BY <1>1, <1>2 DEF KnowsOf, Holds, Same

LEMMA OthersKnowStill ==
    ASSUME NEW u \in Threads, Same(u), KnowsOf(u), UNCHANGED <<runtimes, hot, nextDomain>>
    PROVE  KnowsOf(u)'
BY DEF KnowsOf, Holds, Same, Resolves, Value, Occupied, FirstFree

(* The slots a thread is changing. *)
Changer(t) == Holds(t, {"state", "handle", "clear", "erase"})

LEMMA ChangingKept ==
    ASSUME NEW u, Same(u) \/ (~Changer(u) /\ ~Changer(u)'), runtimes' = runtimes
    PROVE  \A s \in 1..Capacity : Changing(u, s)' <=> Changing(u, s)
BY DEF Same, Changing, Changer, Holds

LEMMA HotFollowsStill ==
    ASSUME HotFollows, UNCHANGED <<runtimes, hot>>, \A u \in Threads, s \in 1..Capacity : Changing(u, s)' <=> Changing(u, s)
    PROVE  HotFollows'
<1>1. \A s \in 1..Capacity : /\ Occupied(runtimes, s)' <=> Occupied(runtimes, s)
                             /\ Resolves(runtimes, hot[s].handle)' <=> Resolves(runtimes, hot[s].handle)
  BY DEF Occupied, Resolves
<1> QED
  BY <1>1 DEF HotFollows

(* The objects made, whatever has been returned of them. *)
SameMade == DOMAIN made' = DOMAIN made /\ \A i \in DOMAIN made : made'[i].object = made[i].object

LEMMA FramedStill ==
    ASSUME Framed, UNCHANGED <<runtimes, nextDomain>>, SameMade,
           \A u \in Threads : Holds(u, {"state", "handle"}) => Holds(u, {"state", "handle"})'
    PROVE  Framed'
<1>1. /\ \A i \in DOMAIN made' : /\ made'[i].object.frames <= nextDomain'
                                 /\ made'[i].object.frames = nextDomain'
                                        => \E t \in Threads : Holds(t, {"state", "handle"})'
      /\ \A i, j \in DOMAIN made' : i # j /\ made'[i].object.frames = made'[j].object.frames
                                        => made'[i].object.frames = 0
  BY DEF Framed, SameMade
<1>2. \A s \in 1..Capacity : Occupied(runtimes, s)' <=> Occupied(runtimes, s)
  BY DEF Occupied
<1>3. \A s \in 1..Capacity : Occupied(runtimes', s) =>
        /\ runtimes'[s].value.frames <= nextDomain'
        /\ runtimes'[s].value.frames = nextDomain' => \E t \in Threads : Holds(t, {"state", "handle"})'
  BY <1>2 DEF Framed
<1>4. \A r, s \in 1..Capacity : r # s /\ Occupied(runtimes', r) /\ Occupied(runtimes', s)
                                    => runtimes'[r].value.frames # runtimes'[s].value.frames
  BY <1>2 DEF Framed
<1> QED
  BY <1>1, <1>3, <1>4 DEF Framed

LEMMA RegisteredStill ==
    ASSUME Registered, UNCHANGED <<block, nextBlock>>, SameMade,
           \A u \in Threads : /\ Fresh(u)' => Fresh(u) /\ found'[u] = found[u]
                              /\ Empty(u)' => found'[u] = NoObject
    PROVE  Registered'
<1>1. \A u \in Threads : \A d : Covers(block'[u], d) <=> Covers(block[u], d)
  BY DEF Covers
<1>2. \A t \in Threads : Fresh(t)' /\ found'[t].registry # 0 =>
        /\ found'[t].registry < nextBlock
        /\ \A u \in Threads : ~Covers(block[u], found'[t].registry)
        /\ \A u \in Threads : Fresh(u)' /\ found'[u].registry = found'[t].registry => u = t
        /\ \A i \in DOMAIN made : made[i].object.registry # found'[t].registry
  BY DEF Registered
<1>3. \A t \in Threads : Fresh(t)' => found'[t].frames = 0
  BY DEF Registered
<1> QED
  BY <1>1, <1>2, <1>3 DEF Registered, SameMade, Covers

Data == HotFollows /\ Knows /\ Framed /\ Registered

(* Steps that change no data but what a thread has found. *)
LEMMA Quiet ==
    ASSUME Data, UNCHANGED <<runtimes, hot, nextDomain, block, nextBlock>>, SameMade,
           \A u \in Threads : /\ Same(u) \/ (~Changer(u) /\ ~Changer(u)')
                              /\ KnowsOf(u)'
                              /\ Fresh(u)' => Fresh(u) /\ found'[u] = found[u]
                              /\ Empty(u)' => found'[u] = NoObject,
           UseAndDestroyApart'
    PROVE  Data'
<1>1. HotFollows'
  BY ChangingKept, HotFollowsStill DEF Data
<1>2. \A u \in Threads : Holds(u, {"state", "handle"}) => Holds(u, {"state", "handle"})'
  BY DEF Same, Changer, Holds
<1>3. Framed'
  BY <1>2, FramedStill DEF Data
<1>4. Registered'
  BY RegisteredStill DEF Data
<1>5. Knows'
  BY DEF Knows
<1> QED
  BY <1>1, <1>3, <1>4, <1>5 DEF Data

(* The steps at a gate are of that kind. *)
LEMMA GateMoves ==
    ASSUME Types, NEW t \in Threads, Pass(t) \/ \E g \in Gates : Spurious(t, g)
    PROVE  /\ UNCHANGED notGate
           /\ \A u \in Threads :
                \/ Step(u)' = Step(u) /\ Gate(u)' = Gate(u)
                \/ /\ Gate(u)' = Gate(u)
                   /\ \/ Step(u) \in Waiting /\ Step(u)' \in Waiting \cup {"inside"}
                      \/ Step(u) = "leave" /\ Step(u)' = "notify"
                \/ Step(u) = "notify" /\ Gate(u) = "store" /\ Step(u)' = "return" /\ Gate(u)' = "store"
                \/ Step(u) = "notify" /\ Gate(u) = "source" /\ Step(u)' = "construct" /\ Gate(u)' = "store"
<1>1. pc \in [Threads -> Steps \X Gates] /\ \A u \in Threads : \A x, g : At(u, x, g) <=> Step(u) = x /\ Gate(u) = g
  BY PlaceIsPair DEF Types
<1>2. ASSUME NEW g \in Gates, NEW x \in Waiting \cup {"inside"}, Goto(t, x, g), Step(t) \in Waiting, Gate(t) = g
      PROVE  \A u \in Threads :
                \/ Step(u)' = Step(u) /\ Gate(u)' = Gate(u)
                \/ Gate(u)' = Gate(u) /\ Step(u) \in Waiting /\ Step(u)' \in Waiting \cup {"inside"}
  BY <1>1, <1>2, GotoMoves DEF Steps
<1>3. ASSUME NEW g \in Gates, Enter(t, g) \/ Wait(t, g) \/ Spurious(t, g)
      PROVE  /\ UNCHANGED notGate
             /\ \A u \in Threads :
                \/ Step(u)' = Step(u) /\ Gate(u)' = Gate(u)
                \/ Gate(u)' = Gate(u) /\ Step(u) \in Waiting /\ Step(u)' \in Waiting \cup {"inside"}
  <2>1. Step(t) \in Waiting /\ Gate(t) = g /\ UNCHANGED notGate
    BY <1>1, <1>3 DEF Enter, Wait, Spurious, Wakes, Waiting, notGate
  <2>2. \E x \in Waiting \cup {"inside"} : Goto(t, x, g)
    BY <1>3 DEF Enter, Wait, Spurious, Waiting
  <2> QED
    BY <1>2, <2>1, <2>2
<1>4. ASSUME NEW g \in Gates, Leave(t, g)
      PROVE  /\ UNCHANGED notGate
             /\ \A u \in Threads :
                \/ Step(u)' = Step(u) /\ Gate(u)' = Gate(u)
                \/ Gate(u)' = Gate(u) /\ Step(u) = "leave" /\ Step(u)' = "notify"
  <2>1. Step(t) = "leave" /\ Gate(t) = g /\ UNCHANGED notGate /\ Goto(t, "notify", g)
    BY <1>1, <1>4 DEF Leave, notGate
  <2> QED
    BY <1>1, <2>1, GotoMoves DEF Steps
<1>5. ASSUME NEW g \in Gates, Notify(t, g)
      PROVE  /\ UNCHANGED notGate
             /\ \A u \in Threads :
                \/ Step(u)' = Step(u) /\ Gate(u)' = Gate(u)
                \/ Gate(u)' = Gate(u) /\ Step(u) \in Waiting /\ Step(u)' \in Waiting
                \/ Step(u) = "notify" /\ Gate(u) = "store" /\ Step(u)' = "return" /\ Gate(u)' = "store"
                \/ Step(u) = "notify" /\ Gate(u) = "source" /\ Step(u)' = "construct" /\ Gate(u)' = "store"
  <2>1. Step(t) = "notify" /\ Gate(t) = g /\ UNCHANGED notGate
    BY <1>1, <1>5 DEF Notify, notGate
  <2>2. \/ After(g) = <<"return", "store">> /\ g = "store"
        \/ After(g) = <<"construct", "store">> /\ g = "source"
    BY SMT DEF After, Gates
  <2>3. CASE pc' = [pc EXCEPT ![t] = After(g)]
    BY <1>1, <2>1, <2>2, <2>3 DEF Step, Gate
  <2>4. CASE \E u \in Threads : Wakes(u, g) /\ pc' = [pc EXCEPT ![t] = After(g), ![u] = <<"wait", g>>]
    <3>1. PICK v \in Threads : Wakes(v, g) /\ pc' = [pc EXCEPT ![t] = After(g), ![v] = <<"wait", g>>]
      BY <2>4
    <3>2. Step(v) = "asleep" /\ Gate(v) = g /\ v # t
      BY <1>1, <2>1, <3>1 DEF Wakes
    <3>3. pc'[v] = <<"wait", g>> /\ pc'[t] = After(g) /\ \A u \in Threads : u # t /\ u # v => pc'[u] = pc[u]
      BY <1>1, <3>1, <3>2
    <3> QED
      BY <2>1, <2>2, <3>2, <3>3 DEF Step, Gate, Waiting
  <2> QED
    BY <1>5, <2>1, <2>3, <2>4 DEF Notify
<1> QED
  BY <1>3, <1>4, <1>5 DEF Pass

LEMMA GateKeepsData ==
    ASSUME Types, Data, NEW t \in Threads, Pass(t) \/ \E g \in Gates : Spurious(t, g)
    PROVE  Data'
<1>1. /\ UNCHANGED notGate
      /\ \A u \in Threads :
                \/ Step(u)' = Step(u) /\ Gate(u)' = Gate(u)
                \/ /\ Gate(u)' = Gate(u)
                   /\ \/ Step(u) \in Waiting /\ Step(u)' \in Waiting \cup {"inside"}
                      \/ Step(u) = "leave" /\ Step(u)' = "notify"
                \/ Step(u) = "notify" /\ Gate(u) = "store" /\ Step(u)' = "return" /\ Gate(u)' = "store"
                \/ Step(u) = "notify" /\ Gate(u) = "source" /\ Step(u)' = "construct" /\ Gate(u)' = "store"
  BY GateMoves
<1>2. /\ UNCHANGED <<runtimes, hot, nextDomain, block, nextBlock, call, found>> /\ SameMade /\ UseAndDestroyApart'
  BY <1>1 DEF notGate, SameMade, UseAndDestroyApart, Data, Knows
<1>3. ASSUME NEW u \in Threads
      PROVE  /\ Same(u) \/ (~Changer(u) /\ ~Changer(u)')
             /\ Fresh(u)' => Fresh(u) /\ found'[u] = found[u]
             /\ Empty(u)' => Empty(u)
  BY <1>1, <1>2, <1>3, PlaceIsPair DEF Types, Same, Changer, Holds, Waiting, Fresh, Empty
<1>4. ASSUME NEW u \in Threads PROVE KnowsOf(u)'
  <2>1. KnowsOf(u)
    BY DEF Data, Knows
  <2>2. CASE Same(u)
    BY <1>2, <2>1, <2>2, OthersKnowStill
  <2>3. CASE ~Same(u)
    <3>1. /\ ~Holds(u, {"read", "using"})' /\ ~Holds(u, {"using"})' /\ ~Holds(u, {"change", "clear", "erase"})'
          /\ ~Holds(u, {"change"})' /\ ~Holds(u, {"state", "handle"})' /\ ~Holds(u, {"handle"})'
          /\ Holds(u, {"domain", "construct"})' \/ Gate(u)' = "source" => Gate(u) = "source"
      BY <1>1, <1>2, <2>3 DEF Same, Holds, Waiting
    <3> QED
      BY <1>2, <2>1, <3>1 DEF KnowsOf, FirstFree, Occupied
  <2> QED
    BY <2>2, <2>3
<1>5. \A u \in Threads : Empty(u)' => found'[u] = NoObject
  BY <1>2, <1>3 DEF Data, Registered
<1> QED
  BY <1>2, <1>3, <1>4, <1>5, Quiet

-------------------------------------------------------------------------------
(* The steps of a call *)

LEMMA PlainTypes ==
    ASSUME Types, NEW t \in Threads, Plain(t), StoreTypeOK', made' \in Seq(Entry),
           block' \in [Threads -> [next : 0..MaxRegistry + 1, end : 0..MaxRegistry + 1]]
    PROVE  Types'
<1>1. ASSUME NEW u \in Threads, u # t PROVE OnPath(u)' /\ (call'[u].kind \in OnRuntime => call'[u].runtime \in RuntimeHandle)
  BY <1>1 DEF Plain, Types, OnPath
<1> QED
  BY <1>1 DEF Plain, Types

(* Where one step of a call, but its first, takes its thread. *)
LEMMA Moves ==
    ASSUME Types, NEW t \in Threads, NEW x \in Steps, NEW g \in Gates, Goto(t, x, g), call' = call
    PROVE  /\ Step(t)' = x /\ Gate(t)' = g
           /\ \A u \in Threads : u # t => /\ Step(u)' = Step(u) /\ Gate(u)' = Gate(u) /\ call'[u] = call[u]
                                          /\ found'[u] = found[u] => Same(u)
BY GotoMoves DEF Types, Same

LEMMA Stands ==
    ASSUME Types, NEW t \in Threads, NEW x, NEW g
    PROVE  At(t, x, g) <=> Step(t) = x /\ Gate(t) = g
BY PlaceIsPair DEF Types

(* The parts of a call that read, decide and move on. *)
LEMMA QuietStep ==
    ASSUME Types, Gated, Data, NEW t \in Threads, Plain(t), NEW x \in Steps, Goto(t, x, "store"),
           UNCHANGED <<runtimes, hot, nextDomain, block, nextBlock, call, calls, made>>,
           ~Changer(t), x \notin {"state", "handle", "clear", "erase", "construct"},
           found' \in [Threads -> Objects], \A u \in Threads : u # t => found'[u] = found[u],
           Empty(t)' => found'[t] = NoObject, KnowsOf(t)'
    PROVE  Types' /\ Data'
<1>1. "store" \in Gates
  BY DEF Gates
<1>2. /\ Step(t)' = x /\ Gate(t)' = "store"
      /\ \A u \in Threads : u # t => Same(u)
  BY <1>1, Moves
<1>3. Types'
  BY PlainTypes DEF Types, StoreTypeOK, Plain
<1>4. \A u \in Threads : KnowsOf(u)'
  BY <1>2, OthersKnowStill DEF Data, Knows
<1>5. SameMade /\ UseAndDestroyApart'
  BY DEF SameMade, UseAndDestroyApart, Data, Knows
<1>6. \A u \in Threads : /\ Same(u) \/ (~Changer(u) /\ ~Changer(u)')
                         /\ Fresh(u)' => Fresh(u) /\ found'[u] = found[u]
                         /\ Empty(u)' => found'[u] = NoObject
  <2>1. ~Changer(t)' /\ ~Fresh(t)'
    BY <1>2 DEF Changer, Holds, Fresh
  <2>2. ASSUME NEW u \in Threads, u # t PROVE (Fresh(u)' => Fresh(u)) /\ (Empty(u)' => found'[u] = NoObject)
    BY <1>2, <2>2 DEF Same, Fresh, Empty, Data, Registered
  <2> QED
    BY <1>2, <2>1, <2>2
<1>7. Data'
  BY <1>4, <1>5, <1>6, Quiet
<1> QED
  BY <1>3, <1>7

(* What the slot of a live handle holds. *)
LEMMA ValueIsObject ==
    ASSUME Types, NEW h, Resolves(runtimes, h)
    PROVE  h.slot \in 1..Capacity /\ Value(runtimes, h) \in Objects
BY DEF Types, StoreTypeOK, Table, Resolves, Occupied, Value

LEMMA SlotsOfCalls ==
    ASSUME Types, NEW t \in Threads, call[t].kind \in OnRuntime
    PROVE  /\ call[t].runtime \in RuntimeHandle /\ call[t].runtime # NoHandle
           /\ call[t].runtime.slot \in 1..Capacity /\ hot[call[t].runtime.slot].state \in Objects
<1>1. call[t].runtime \in RuntimeHandle
  BY DEF Types
<1>2. call[t].runtime.slot \in 1..Capacity /\ call[t].runtime # NoHandle
  BY <1>1, StoreAssumption DEF RuntimeHandle, NoHandle
<1> QED
  BY <1>1, <1>2 DEF Types, StoreTypeOK

LEMMA ReadingKeeps ==
    ASSUME Types, Gated, Data, NEW t \in Threads,
           Create(t) \/ Register(t) \/ Change(t) \/ LoadHandle(t) \/ LoadState(t) \/ Use(t)
    PROVE  Types' /\ Data'
<1>1. Plain(t) /\ found \in [Threads -> Objects] /\ KnowsOf(t)
  BY PlainSteps DEF Within, Types, StoreTypeOK, Data, Knows
<1>2. "store" \in Gates
  BY DEF Gates
<1> USE DEF Steps, Waiting
<1>3. CASE Create(t)
  <2>1. Step(t) = "inside" /\ Gate(t) = "store" /\ call[t].kind = "create"
    BY <1>3, Stands DEF Create, Inside
  <2>2. UNCHANGED <<runtimes, hot, nextDomain, block, nextBlock, call, calls, made, found>>
    BY <1>3 DEF Create
  <2>3. PICK x \in {"domain", "leave"} :
           Goto(t, x, "store") /\ (x = "domain" => nextDomain <= MaxDomain /\ \E s \in 1..Capacity : FirstFree(runtimes, s))
    BY <1>3 DEF Create, Room
  <2>4. Step(t)' = x /\ Gate(t)' = "store"
    BY <1>2, <2>2, <2>3, Moves
  <2>5. found[t] = NoObject
    BY <2>1 DEF Data, Registered, Empty
  <2>6. KnowsOf(t)'
    BY <2>2, <2>3, <2>4 DEF KnowsOf, Holds, FirstFree, Occupied
  <2> QED
    BY <1>1, <2>1, <2>2, <2>3, <2>5, <2>6, QuietStep DEF Changer, Holds
<1>4. CASE Register(t)
  <2>1. Step(t) = "inside" /\ Gate(t) = "store" /\ call[t].kind = "register"
    BY <1>4, Stands DEF Register, Inside
  <2>2. UNCHANGED <<runtimes, hot, nextDomain, block, nextBlock, call, calls, made>>
    BY <1>4 DEF Register
  <2>3. CASE Resolves(runtimes, call[t].runtime)
    <3>1. Goto(t, "change", "store") /\ found' = [found EXCEPT ![t] = Value(runtimes, call[t].runtime)]
      BY <1>4, <2>3 DEF Register
    <3>2. Step(t)' = "change" /\ Gate(t)' = "store"
      BY <1>2, <2>2, <3>1, Moves
    <3>3. Value(runtimes, call[t].runtime) \in Objects
      BY <2>3, ValueIsObject
    <3>4. KnowsOf(t)'
      BY <1>1, <2>1, <2>2, <2>3, <3>1, <3>2 DEF KnowsOf, Holds, Resolves, Value, Occupied
    <3>5. ~Empty(t)'
      BY <3>2 DEF Empty
    <3>6. found' \in [Threads -> Objects] /\ \A u \in Threads : u # t => found'[u] = found[u]
      BY <1>1, <3>1, <3>3
    <3> QED
      BY <1>1, <2>1, <2>2, <3>1, <3>4, <3>5, <3>6, QuietStep DEF Changer, Holds
  <2>4. CASE ~Resolves(runtimes, call[t].runtime)
    <3>1. Goto(t, "leave", "store") /\ found' = found
      BY <1>4, <2>4 DEF Register
    <3>2. Step(t)' = "leave" /\ Gate(t)' = "store"
      BY <1>2, <2>2, <3>1, Moves
    <3>3. KnowsOf(t)'
      BY <3>2 DEF KnowsOf, Holds
    <3>4. ~Empty(t)'
      BY <3>2 DEF Empty
    <3> QED
      BY <1>1, <2>1, <2>2, <3>1, <3>3, <3>4, QuietStep DEF Changer, Holds
  <2> QED
    BY <2>3, <2>4
<1>5. CASE Change(t) \/ Use(t)
  <2>1. Step(t) \in {"change", "using"} /\ Gate(t) = "store"
    BY <1>5, Stands DEF Change, Use
  <2>2. UNCHANGED <<runtimes, hot, nextDomain, block, nextBlock, call, calls, made, found>>
    BY <1>5 DEF Change, Use
  <2>3. PICK x \in {"leave", "return"} : Goto(t, x, "store")
    BY <1>5 DEF Change, Use
  <2>4. Step(t)' = x /\ Gate(t)' = "store"
    BY <1>2, <2>2, <2>3, Moves
  <2>5. KnowsOf(t)' /\ ~Empty(t)'
    BY <2>4 DEF KnowsOf, Holds, Empty
  <2> QED
    BY <1>1, <2>1, <2>2, <2>3, <2>5, QuietStep DEF Changer, Holds
<1>6. CASE LoadHandle(t)
  <2>1. Step(t) = "load" /\ Gate(t) = "store" /\ call[t].kind = "use"
    BY <1>6, Stands, CallAt DEF LoadHandle
  <2>2. UNCHANGED <<runtimes, hot, nextDomain, block, nextBlock, call, calls, made, found>>
    BY <1>6 DEF LoadHandle
  <2>3. PICK x \in {"read", "return"} :
           Goto(t, x, "store") /\ (x = "read" => hot[call[t].runtime.slot].handle = call[t].runtime)
    BY <1>6 DEF LoadHandle
  <2>4. Step(t)' = x /\ Gate(t)' = "store"
    BY <1>2, <2>2, <2>3, Moves
  <2>5. KnowsOf(t)' /\ ~Empty(t)'
    BY <2>1, <2>2, <2>3, <2>4 DEF KnowsOf, Holds, Empty
  <2> QED
    BY <1>1, <2>1, <2>2, <2>3, <2>5, QuietStep DEF Changer, Holds
<1>7. CASE LoadState(t)
  <2>1. Step(t) = "read" /\ Gate(t) = "store" /\ call[t].kind = "use"
    BY <1>7, Stands, CallAt DEF LoadState
  <2>2. UNCHANGED <<runtimes, hot, nextDomain, block, nextBlock, call, calls, made>> /\ Goto(t, "using", "store")
    BY <1>7 DEF LoadState
  <2>3. hot[call[t].runtime.slot].state \in Objects
    BY <2>1, SlotsOfCalls DEF OnRuntime
  <2>4. found' = [found EXCEPT ![t] = hot[call[t].runtime.slot].state]
    BY <1>7 DEF LoadState
  <2>5. Step(t)' = "using" /\ Gate(t)' = "store"
    BY <1>2, <2>2, Moves
  <2>6. hot[call[t].runtime.slot].handle = call[t].runtime
    BY <1>1, <2>1 DEF KnowsOf, Holds
  <2>7. KnowsOf(t)' /\ ~Empty(t)'
    BY <1>1, <2>1, <2>2, <2>4, <2>5, <2>6 DEF KnowsOf, Holds, Empty
  <2>8. found' \in [Threads -> Objects] /\ \A u \in Threads : u # t => found'[u] = found[u]
    BY <1>1, <2>3, <2>4
  <2> QED
    BY <1>1, <2>1, <2>2, <2>7, <2>8, QuietStep DEF Changer, Holds
<1> QED
  BY <1>3, <1>4, <1>5, <1>6, <1>7

(* The beginning of a call, and its end. *)
LEMMA CallKeeps ==
    ASSUME Types, Gated, Data, NEW t \in Threads, NEW kind \in {"create", "registry", "destroy", "use", "register"},
           NEW h \in RuntimeHandle \cup {NoHandle}, Call(t, kind, h), Plain(t),
           kind = "use" => ~Destroying(h), kind = "destroy" => ~Using(h)
    PROVE  Types' /\ Data'
<1> USE DEF Steps, Waiting
<1>1. /\ UNCHANGED <<runtimes, hot, nextDomain, nextBlock, block, claimed, found, made>>
      /\ call' = [call EXCEPT ![t] = [kind |-> kind, runtime |-> h]]
      /\ Step(t) = "out" /\ Gate(t) = "store"
  BY Stands DEF Call
<1>2. call \in [Threads -> CallType] /\ pc \in [Threads -> Steps \X Gates] /\ "store" \in Gates
  BY DEF Types, Gates
<1>3. PICK x \in {"load", "domain", "enter"} : Goto(t, x, "store") /\ (x = "domain" => kind = "registry")
  BY DEF Call
<1>4. /\ Step(t)' = x /\ Gate(t)' = "store"
      /\ \A u \in Threads : u # t => Step(u)' = Step(u) /\ Gate(u)' = Gate(u)
  BY <1>2, <1>3, GotoMoves
<1>5. call'[t] = [kind |-> kind, runtime |-> h] /\ \A u \in Threads : u # t => call'[u] = call[u] /\ Same(u)
  BY <1>1, <1>2, <1>4 DEF Same
<1>6. Types'
  BY <1>1, PlainTypes DEF Types, StoreTypeOK, Plain
<1>7. KnowsOf(t)'
  BY <1>3, <1>4, <1>5 DEF KnowsOf, Holds
<1>8. \A u \in Threads : KnowsOf(u)'
  BY <1>1, <1>5, <1>7, OthersKnowStill DEF Data, Knows
<1>9. UseAndDestroyApart'
  <2>1. \A u \in Threads : call[u] = [kind |-> call[u].kind, runtime |-> call[u].runtime]
    BY <1>2 DEF CallType
  <2>2. ASSUME NEW a \in Threads, NEW b \in Threads, call'[a].kind = "use", call'[b].kind = "destroy"
        PROVE  call'[a].runtime # call'[b].runtime
    <3>1. CASE a = t
      BY <1>5, <2>1, <2>2, <3>1 DEF Destroying
    <3>2. CASE b = t
      BY <1>5, <2>1, <2>2, <3>2 DEF Using
    <3>3. CASE a # t /\ b # t
      BY <1>5, <2>2, <3>3 DEF Data, Knows, UseAndDestroyApart
    <3> QED
      BY <3>1, <3>2, <3>3
  <2> QED
    BY <2>2 DEF UseAndDestroyApart
<1>10. \A u \in Threads : /\ Same(u) \/ (~Changer(u) /\ ~Changer(u)')
                          /\ Fresh(u)' => Fresh(u) /\ found'[u] = found[u]
                          /\ Empty(u)' => found'[u] = NoObject
  <2>1. ~Changer(t) /\ ~Changer(t)' /\ ~Fresh(t)' /\ Empty(t)
    BY <1>1, <1>4 DEF Changer, Holds, Fresh, Empty
  <2>2. ASSUME NEW u \in Threads, u # t PROVE (Fresh(u)' => Fresh(u)) /\ (Empty(u)' => Empty(u))
    BY <1>5, <2>2 DEF Same, Fresh, Empty
  <2> QED
    BY <1>1, <1>5, <2>1, <2>2 DEF Data, Registered
<1>11. SameMade
  BY <1>1 DEF SameMade
<1>12. Data'
  BY <1>1, <1>8, <1>9, <1>10, <1>11, Quiet
<1> QED
  BY <1>6, <1>12

LEMMA CallsKeep ==
    ASSUME Types, Gated, Data, NEW t \in Threads, Calls(t)
    PROVE  Types' /\ Data'
<1>1. Plain(t)
  BY PlainSteps
<1> QED
  BY <1>1, CallKeeps DEF Calls

LEMMA ReturnKeeps ==
    ASSUME Types, Gated, Data, NEW t \in Threads, Return(t)
    PROVE  Types' /\ Data'
<1> USE DEF Steps, Waiting
<1>1. /\ UNCHANGED <<runtimes, hot, nextDomain, nextBlock, block, claimed>>
      /\ call' = [call EXCEPT ![t] = NoCall] /\ found' = [found EXCEPT ![t] = NoObject]
      /\ Step(t) = "return" /\ Gate(t) = "store" /\ Goto(t, "out", "store") /\ Plain(t)
  BY Stands, PlainSteps DEF Return, Within
<1>2. /\ call \in [Threads -> CallType] /\ pc \in [Threads -> Steps \X Gates] /\ "store" \in Gates
      /\ found \in [Threads -> Objects] /\ made \in Seq(Entry) /\ NoObject \in Objects
  BY StoreAssumption DEF Types, Gates, StoreTypeOK, NoObject, Objects
<1>3. /\ Step(t)' = "out" /\ Gate(t)' = "store"
      /\ \A u \in Threads : u # t => Step(u)' = Step(u) /\ Gate(u)' = Gate(u)
  BY <1>1, <1>2, GotoMoves
<1>4. call'[t].kind = "none" /\ found'[t] = NoObject /\ \A u \in Threads : u # t => call'[u] = call[u] /\ Same(u)
  BY <1>1, <1>2, <1>3 DEF Same, NoCall
<1>5. made' \in Seq(Entry) /\ SameMade
  <2> DEFINE ok(i) == call[t].kind = "create" /\ found[t].frames # 0 /\ made[i].object = found[t]
             e(i) == [made[i] EXCEPT !.returned = @ \/ ok(i)]
  <2>1. made' = [i \in DOMAIN made |-> e(i)]
    BY DEF Return
  <2>2. \A i \in DOMAIN made : made[i] \in Entry
    BY <1>2
  <2>3. ASSUME NEW i \in DOMAIN made PROVE e(i) \in Entry /\ e(i).object = made[i].object
    <3> DEFINE r == made[i].returned \/ ok(i)
    <3>1. r \in BOOLEAN
      BY Zenon
    <3>2. e(i) = [made[i] EXCEPT !.returned = r]
      BY <2>2 DEF Entry
    <3> HIDE DEF r, e, ok
    <3> QED
      BY <2>2, <3>1, <3>2 DEF Entry
  <2> HIDE DEF e
  <2>4. DOMAIN made = 1..Len(made) /\ Len(made) \in Nat
    BY <1>2
  <2>5. made' \in [1..Len(made) -> Entry]
    BY <2>1, <2>3, <2>4
  <2>6. made' \in Seq(Entry)
    BY <2>4, <2>5
  <2> QED
    BY <2>1, <2>3, <2>6 DEF SameMade
<1>6. Types'
  BY <1>1, <1>2, <1>5, PlainTypes DEF Types, StoreTypeOK, Plain
<1>7. KnowsOf(t)'
  BY <1>3, <1>4 DEF KnowsOf, Holds
<1>8. \A u \in Threads : KnowsOf(u)'
  BY <1>1, <1>4, <1>7, OthersKnowStill DEF Data, Knows
<1>9. UseAndDestroyApart'
  BY <1>4 DEF UseAndDestroyApart, Data, Knows
<1>10. \A u \in Threads : /\ Same(u) \/ (~Changer(u) /\ ~Changer(u)')
                          /\ Fresh(u)' => Fresh(u) /\ found'[u] = found[u]
                          /\ Empty(u)' => found'[u] = NoObject
  <2>1. ~Changer(t) /\ ~Changer(t)' /\ ~Fresh(t)'
    BY <1>1, <1>3 DEF Changer, Holds, Fresh
  <2>2. ASSUME NEW u \in Threads, u # t PROVE (Fresh(u)' => Fresh(u)) /\ (Empty(u)' => Empty(u))
    BY <1>4, <2>2 DEF Same, Fresh, Empty
  <2> QED
    BY <1>4, <2>1, <2>2 DEF Data, Registered, Same
<1>11. Data'
  BY <1>1, <1>5, <1>8, <1>9, <1>10, Quiet
<1> QED
  BY <1>6, <1>11

-------------------------------------------------------------------------------
(* The domains of registries *)

(* A step that takes a domain leaves everything else alone. *)
LEMMA DomainStep ==
    ASSUME Types, Gated, Data, NEW t \in Threads, Plain(t), NEW x \in Steps, NEW g \in Gates, Goto(t, x, g),
           UNCHANGED <<runtimes, hot, nextDomain, call, calls, made>>, ~Changer(t),
           g = "store" => x = "construct" /\ Step(t) = "domain" /\ Gate(t) = "store",
           g = "source" => Gate(t) = "source" \/ (Step(t) = "domain" /\ Gate(t) = "store"),
           found' \in [Threads -> Objects], \A u \in Threads : u # t => found'[u] = found[u],
           nextBlock' \in 1..MaxRegistry + 1,
           block' \in [Threads -> [next : 0..MaxRegistry + 1, end : 0..MaxRegistry + 1]]
    PROVE  Types' /\ HotFollows' /\ Knows' /\ Framed' /\ Step(t)' = x /\ Gate(t)' = g /\ \A u \in Threads : u # t => Same(u)
<1>1. /\ Step(t)' = x /\ Gate(t)' = g
      /\ \A u \in Threads : u # t => Same(u)
  BY Moves
<1>2. Types'
  BY PlainTypes DEF Types, StoreTypeOK, Plain
<1>3. ~Changer(t)' /\ ~Holds(t, {"state", "handle"})
  BY <1>1 DEF Changer, Holds, Gates
<1>4. HotFollows'
  BY <1>1, <1>3, ChangingKept, HotFollowsStill DEF Data
<1>5. \A u \in Threads : Holds(u, {"state", "handle"}) => Holds(u, {"state", "handle"})'
  BY <1>1, <1>3 DEF Same, Holds
<1>6. Framed'
  BY <1>5, FramedStill DEF Data, SameMade
<1>7. KnowsOf(t)'
  <2>1. KnowsOf(t)
    BY DEF Data, Knows
  <2>2. /\ ~Holds(t, {"read", "using"})' /\ ~Holds(t, {"using"})' /\ ~Holds(t, {"change", "clear", "erase"})'
        /\ ~Holds(t, {"change"})' /\ ~Holds(t, {"state", "handle"})' /\ ~Holds(t, {"handle"})'
        /\ Holds(t, {"domain", "construct"}) \/ Gate(t) = "source"
    BY <1>1 DEF Holds, Gates
  <2> QED
    BY <2>1, <2>2 DEF KnowsOf, FirstFree, Occupied
<1>8. Knows'
  BY <1>1, <1>7, OthersKnowStill DEF Data, Knows, UseAndDestroyApart
<1> QED
  BY <1>1, <1>2, <1>4, <1>6, <1>8

(* A thread has taken a domain, or knows that there is none. *)
LEMMA RegisteredNow ==
    ASSUME Types, Types', Registered, NEW t \in Threads, made' = made, Fresh(t)', found'[t].frames = 0, ~Empty(t)',
           \A u \in Threads : u # t => Same(u) /\ block'[u] = block[u],
           nextBlock <= nextBlock',
           block'[t].next <= block'[t].end, block'[t].end <= nextBlock',
           block'[t].next # block'[t].end => block'[t].next # 0,
           \A d \in 1..MaxRegistry : Covers(block'[t], d) => Covers(block[t], d) \/ nextBlock <= d,
           found'[t].registry # 0 =>
              /\ found'[t].registry < nextBlock'
              /\ \A u \in Threads : ~Covers(block'[u], found'[t].registry)
              /\ \A u \in Threads : u # t /\ Fresh(u) => found[u].registry # found'[t].registry
              /\ \A i \in DOMAIN made : made[i].object.registry # found'[t].registry
    PROVE  Registered'
<1>1. /\ nextBlock \in Nat /\ nextBlock' \in Nat
      /\ \A u \in Threads : block[u].next \in Nat /\ block[u].end \in Nat /\ found[u] \in Objects
      /\ \A u \in Threads : block'[u].next \in Nat /\ block'[u].end \in Nat /\ found'[u] \in Objects
      /\ \A i \in DOMAIN made : made[i].object \in Objects
  <2>1. /\ block \in [Threads -> [next : Nat, end : Nat]] /\ block' \in [Threads -> [next : Nat, end : Nat]]
        /\ found \in [Threads -> Objects] /\ found' \in [Threads -> Objects]
        /\ nextBlock \in Nat /\ nextBlock' \in Nat
    BY SMTT(60), StoreAssumption DEF Types, StoreTypeOK
  <2>2. \A i \in DOMAIN made : made[i] \in Entry
    BY DEF Types
  <2> QED
    BY <2>1, <2>2 DEF Entry
<1>2. \A o \in Objects : o.registry \in Nat /\ (o.registry # 0 => o.registry \in 1..MaxRegistry)
  BY StoreAssumption DEF Objects
<1>3. \A u \in Threads : u # t => \A d : Covers(block'[u], d) <=> Covers(block[u], d)
  BY DEF Covers
<1>4. \A u \in Threads : \A d \in 1..MaxRegistry : Covers(block[u], d) => d < nextBlock
  <2> SUFFICES ASSUME NEW u \in Threads, NEW d \in 1..MaxRegistry, Covers(block[u], d) PROVE d < nextBlock
    OBVIOUS
  <2>1. d < block[u].end /\ block[u].end <= nextBlock /\ block[u].end \in Nat /\ nextBlock \in Nat /\ d \in Nat
    BY <1>1, StoreAssumption DEF Registered, Covers
  <2> QED
    BY <2>1
<1>5. \A u \in Threads : /\ u # t => (Fresh(u)' <=> Fresh(u)) /\ (Empty(u)' <=> Empty(u)) /\ found'[u] = found[u]
  BY DEF Same, Fresh, Empty
<1>6. \A u \in Threads : block'[u].next <= block'[u].end /\ block'[u].end <= nextBlock'
  BY <1>1 DEF Registered
<1>7. \A u \in Threads : block'[u].next # block'[u].end => block'[u].next # 0
  BY DEF Registered
<1>8. ASSUME NEW u \in Threads, NEW v \in Threads, NEW d \in 1..MaxRegistry, Covers(block'[u], d), Covers(block'[v], d) PROVE u = v
  <2>1. d \in Nat
    BY StoreAssumption
  <2>2. CASE u # t /\ v # t
    BY <1>3, <1>8, <2>2 DEF Registered
  <2>3. CASE u = t /\ v # t
    BY <1>1, <1>3, <1>4, <1>8, <2>1, <2>3 DEF Registered
  <2>4. CASE u # t /\ v = t
    BY <1>1, <1>3, <1>4, <1>8, <2>1, <2>4 DEF Registered
  <2> QED
    BY <2>2, <2>3, <2>4
<1>9. ASSUME NEW d \in 1..MaxRegistry, d < nextBlock, \A u \in Threads : ~Covers(block[u], d)
      PROVE  d < nextBlock' /\ \A u \in Threads : ~Covers(block'[u], d)
  <2>1. d \in Nat
    BY StoreAssumption
  <2> QED
    BY <1>1, <1>3, <1>9, <2>1
<1>10. ASSUME NEW u \in Threads, Fresh(u)', found'[u].registry # 0
       PROVE  /\ found'[u].registry < nextBlock'
              /\ \A v \in Threads : ~Covers(block'[v], found'[u].registry)
              /\ \A v \in Threads : Fresh(v)' /\ found'[v].registry = found'[u].registry => v = u
              /\ \A i \in DOMAIN made' : made'[i].object.registry # found'[u].registry
  <2>1. CASE u = t
    BY <1>5, <1>10, <2>1
  <2>2. CASE u # t
    <3>1. Fresh(u) /\ found'[u] = found[u] /\ found[u].registry \in 1..MaxRegistry
      BY <1>1, <1>2, <1>5, <1>10, <2>2
    <3>2. /\ found[u].registry < nextBlock
          /\ \A v \in Threads : ~Covers(block[v], found[u].registry)
          /\ \A v \in Threads : Fresh(v) /\ found[v].registry = found[u].registry => v = u
          /\ \A i \in DOMAIN made : made[i].object.registry # found[u].registry
      BY <1>10, <3>1 DEF Registered
    <3>3. /\ found[u].registry < nextBlock'
          /\ \A v \in Threads : ~Covers(block'[v], found[u].registry)
      BY <1>9, <3>1, <3>2
    <3>4. found'[t].registry # found[u].registry
      BY <1>10, <2>2, <3>1
    <3>5. \A v \in Threads : Fresh(v)' /\ found'[v].registry = found[u].registry => v = u
      BY <1>5, <3>2, <3>4
    <3> QED
      BY <3>1, <3>2, <3>3, <3>5
  <2> QED
    BY <2>1, <2>2
<1>11. \A u \in Threads : (Fresh(u)' => found'[u].frames = 0) /\ (Empty(u)' => found'[u] = NoObject)
  BY <1>5 DEF Registered
<1>12. ASSUME NEW i \in DOMAIN made', made'[i].object.registry # 0
       PROVE  /\ made'[i].object.registry < nextBlock'
              /\ \A u \in Threads : ~Covers(block'[u], made'[i].object.registry)
  BY <1>1, <1>2, <1>9, <1>12 DEF Registered
<1>13. \A i, j \in DOMAIN made' : i # j /\ made'[i].object.registry = made'[j].object.registry
                                        => made'[i].object.registry = 0
  BY DEF Registered
<1> QED
  BY <1>6, <1>7, <1>8, <1>10, <1>11, <1>12, <1>13 DEF Registered

LEMMA TakeDomainKeeps ==
    ASSUME Types, Gated, Data, NEW t \in Threads, TakeDomain(t)
    PROVE  Types' /\ Data'
<1> USE DEF Steps, Waiting
<1>1. /\ Plain(t) /\ Step(t) = "domain" /\ Gate(t) = "store" /\ Registered
      /\ found \in [Threads -> Objects] /\ {"store", "source"} = Gates
      /\ block \in [Threads -> [next : 0..MaxRegistry + 1, end : 0..MaxRegistry + 1]]
      /\ nextBlock \in 1..MaxRegistry + 1 /\ MaxRegistry \in Nat /\ MaxDomain \in Nat
  BY Stands, PlainSteps, StoreAssumption DEF TakeDomain, Within, Types, StoreTypeOK, Data, Gates
<1>2. UNCHANGED <<runtimes, hot, nextDomain, nextBlock, call, calls, made>>
  BY DEF TakeDomain
<1>3. ~Changer(t)
  BY <1>1 DEF Changer, Holds
<1>4. CASE block[t].next = block[t].end
  <2>1. Goto(t, "enter", "source") /\ UNCHANGED <<found, block>>
    BY <1>4 DEF TakeDomain
  <2>2. /\ Types' /\ HotFollows' /\ Knows' /\ Framed'
        /\ Step(t)' = "enter" /\ Gate(t)' = "source" /\ \A u \in Threads : u # t => Same(u)
    BY <1>1, <1>2, <1>3, <2>1, DomainStep
  <2>3. ~Fresh(t)' /\ Empty(t)
    BY <1>1, <2>2 DEF Fresh, Empty
  <2>4. \A u \in Threads : (Fresh(u)' => Fresh(u) /\ found'[u] = found[u]) /\ (Empty(u)' => found'[u] = NoObject)
    BY <1>1, <2>1, <2>2, <2>3 DEF Same, Fresh, Empty, Registered
  <2> QED
    BY <1>1, <1>2, <2>1, <2>2, <2>4, RegisteredStill DEF Data, SameMade
<1>5. CASE block[t].next # block[t].end
  <2> DEFINE d == block[t].next
             o == [frames |-> 0, registry |-> d]
  <2>1. /\ Goto(t, "construct", "store") /\ found' = [found EXCEPT ![t] = o]
        /\ block' = [block EXCEPT ![t].next = @ + 1]
    BY <1>5 DEF TakeDomain
  <2>2. d \in 1..MaxRegistry /\ d < block[t].end /\ d < nextBlock /\ block[t].end \in 0..MaxRegistry + 1 /\ block[t].end <= nextBlock
    <3>1. block[t].next \in Nat /\ block[t].end \in 0..MaxRegistry + 1 /\ block[t].next <= block[t].end /\ block[t].next # 0
          /\ block[t].end <= nextBlock
      BY <1>1, <1>5 DEF Registered
    <3> QED
      BY <1>1, <1>5, <3>1
  <2>3. Covers(block[t], d)
    BY <2>2 DEF Covers
  <2>4. o \in Objects /\ o.frames = 0 /\ o.registry = d
    BY <1>1, <2>2 DEF Objects
  <2> HIDE DEF d, o
  <2>5. found' \in [Threads -> Objects] /\ found'[t] = o /\ \A u \in Threads : u # t => found'[u] = found[u]
    BY <1>1, <2>1, <2>4
  <2>6. block' \in [Threads -> [next : 0..MaxRegistry + 1, end : 0..MaxRegistry + 1]]
    BY <1>1, <2>1, <2>2 DEF d
  <2>7. block'[t].next = d + 1 /\ block'[t].end = block[t].end /\ \A u \in Threads : u # t => block'[u] = block[u]
    BY <1>1, <2>1 DEF d
  <2>8. /\ Types' /\ HotFollows' /\ Knows' /\ Framed'
        /\ Step(t)' = "construct" /\ Gate(t)' = "store" /\ \A u \in Threads : u # t => Same(u)
    BY <1>1, <1>2, <1>3, <2>1, <2>5, <2>6, DomainStep
  <2>9. Fresh(t)' /\ ~Empty(t)'
    BY <2>8 DEF Fresh, Empty
  <2>10. \A x \in 1..MaxRegistry : Covers(block'[t], x) => Covers(block[t], x) /\ x # d
    BY <1>1, <2>2, <2>7 DEF Covers, d
  <2>11. \A u \in Threads : ~Covers(block'[u], d)
    <3> SUFFICES ASSUME NEW u \in Threads, u # t PROVE ~Covers(block'[u], d)
      BY <2>2, <2>10
    <3> QED
      BY <1>1, <2>2, <2>3, <2>7 DEF Registered, Covers
  <2>12. \A u \in Threads : Fresh(u) => found[u].registry # d
    BY <1>1, <2>2, <2>3 DEF Registered
  <2>13. \A i \in DOMAIN made : made[i].object.registry # d
    BY <1>1, <2>2, <2>3 DEF Registered
  <2>14. /\ nextBlock <= nextBlock' /\ block'[t].next <= block'[t].end /\ block'[t].end <= nextBlock'
         /\ block'[t].next # 0
    BY <1>1, <1>2, <2>2, <2>7
  <2>15. Registered'
    BY <1>1, <1>2, <2>2, <2>4, <2>5, <2>7, <2>8, <2>9, <2>10, <2>11, <2>12, <2>13, <2>14, RegisteredNow
  <2> QED
    BY <2>8, <2>15 DEF Data
<1> QED
  BY <1>4, <1>5

LEMMA ReserveKeeps ==
    ASSUME Types, Gated, Data, NEW t \in Threads, Reserve(t)
    PROVE  Types' /\ Data'
<1> USE DEF Steps, Waiting
<1>1. /\ Plain(t) /\ Step(t) = "inside" /\ Gate(t) = "source" /\ Registered
      /\ found \in [Threads -> Objects] /\ {"store", "source"} = Gates
      /\ block \in [Threads -> [next : 0..MaxRegistry + 1, end : 0..MaxRegistry + 1]]
      /\ nextBlock \in 1..MaxRegistry + 1 /\ MaxRegistry \in Nat /\ MaxDomain \in Nat /\ BlockSize \in Nat \ {0}
  BY Stands, PlainSteps, StoreAssumption DEF Reserve, Within, Types, StoreTypeOK, Data, Gates
<1>2. UNCHANGED <<runtimes, hot, nextDomain, call, calls, made>> /\ Goto(t, "leave", "source")
  BY DEF Reserve
<1>3. ~Changer(t) /\ Empty(t)
  BY <1>1 DEF Changer, Holds, Empty
<1>4. CASE nextBlock > MaxRegistry
  <2>1. UNCHANGED <<found, block, nextBlock>>
    BY <1>4 DEF Reserve
  <2>2. /\ Types' /\ HotFollows' /\ Knows' /\ Framed'
        /\ Step(t)' = "leave" /\ Gate(t)' = "source" /\ \A u \in Threads : u # t => Same(u)
    BY <1>1, <1>2, <1>3, <2>1, DomainStep
  <2>3. Fresh(t)' /\ ~Empty(t)' /\ found'[t].frames = 0 /\ found'[t].registry = 0
    BY <1>1, <1>3, <2>1, <2>2 DEF Fresh, Empty, Registered, NoObject
  <2>4. \A x \in 1..MaxRegistry : Covers(block'[t], x) => Covers(block[t], x)
    BY <2>1 DEF Covers
  <2>5. /\ nextBlock <= nextBlock' /\ block'[t].next <= block'[t].end /\ block'[t].end <= nextBlock'
        /\ block'[t].next # block'[t].end => block'[t].next # 0
    BY <1>1, <2>1 DEF Registered
  <2>6. Registered'
    BY <1>1, <1>2, <2>1, <2>2, <2>3, <2>4, <2>5, RegisteredNow
  <2> QED
    BY <2>2, <2>6 DEF Data
<1>5. CASE ~(nextBlock > MaxRegistry)
  <2>1. PICK end : end = IF nextBlock + BlockSize > MaxRegistry THEN MaxRegistry + 1 ELSE nextBlock + BlockSize
    OBVIOUS
  <2> DEFINE o == [frames |-> 0, registry |-> nextBlock]
             b == [next |-> nextBlock + 1, end |-> end]
  <2>2. found' = [found EXCEPT ![t] = o] /\ block' = [block EXCEPT ![t] = b] /\ nextBlock' = end
    BY <1>5, <2>1 DEF Reserve
  <2>3. end \in 1..MaxRegistry + 1 /\ nextBlock + 1 <= end /\ nextBlock \in 1..MaxRegistry
    BY <1>1, <1>5, <2>1
  <2>4. o \in Objects /\ o.frames = 0 /\ o.registry = nextBlock
    BY <1>1, <2>3 DEF Objects
  <2>5. b \in [next : 0..MaxRegistry + 1, end : 0..MaxRegistry + 1] /\ b.next = nextBlock + 1 /\ b.end = end
    BY <1>1, <2>3
  <2> HIDE DEF b, o
  <2>6. found' \in [Threads -> Objects] /\ found'[t] = o /\ \A u \in Threads : u # t => found'[u] = found[u]
    BY <1>1, <2>2, <2>4
  <2>7. /\ block' \in [Threads -> [next : 0..MaxRegistry + 1, end : 0..MaxRegistry + 1]]
        /\ block'[t] = b /\ \A u \in Threads : u # t => block'[u] = block[u]
    BY <1>1, <2>2, <2>5
  <2>8. /\ Types' /\ HotFollows' /\ Knows' /\ Framed'
        /\ Step(t)' = "leave" /\ Gate(t)' = "source" /\ \A u \in Threads : u # t => Same(u)
    BY <1>1, <1>2, <1>3, <2>2, <2>3, <2>6, <2>7, DomainStep
  <2>9. Fresh(t)' /\ ~Empty(t)'
    BY <2>8 DEF Fresh, Empty
  <2>10. \A x \in 1..MaxRegistry : Covers(block'[t], x) => nextBlock < x
    BY <1>1, <2>3, <2>5, <2>7 DEF Covers
  <2>11. \A u \in Threads : ~Covers(block'[u], nextBlock)
    <3> SUFFICES ASSUME NEW u \in Threads, u # t PROVE ~Covers(block'[u], nextBlock)
      BY <1>1, <2>3, <2>10
    <3>1. block'[u].end <= nextBlock /\ block'[u].end \in Nat
      BY <1>1, <2>7 DEF Registered
    <3> QED
      BY <1>1, <3>1 DEF Covers
  <2>12. \A u \in Threads : Fresh(u) => found[u].registry # nextBlock
    BY <1>1, <2>3 DEF Registered
  <2>13. \A i \in DOMAIN made : made[i].object.registry # nextBlock
    BY <1>1, <2>3 DEF Registered
  <2>14. /\ nextBlock <= nextBlock' /\ block'[t].next <= block'[t].end /\ block'[t].end <= nextBlock'
         /\ block'[t].next # 0 /\ nextBlock < nextBlock'
    BY <1>1, <2>2, <2>3, <2>5, <2>7
  <2>15. \A x \in 1..MaxRegistry : Covers(block'[t], x) => Covers(block[t], x) \/ nextBlock <= x
    BY <1>1, <2>10
  <2>16. Registered'
    BY <1>1, <1>2, <2>4, <2>6, <2>7, <2>8, <2>9, <2>11, <2>12, <2>13, <2>14, <2>15, RegisteredNow
  <2> QED
    BY <2>8, <2>16 DEF Data
<1> QED
  BY <1>4, <1>5

-------------------------------------------------------------------------------
(* The steps that change the table or its hot copy *)

(* A thread that reads a runtime has its slot in the hot copy. *)
LEMMA Readers ==
    ASSUME Types, Data, NEW u \in Threads, Holds(u, {"read", "using"})
    PROVE  /\ call[u].kind = "use" /\ call[u].runtime.slot \in 1..Capacity
           /\ call[u].runtime # NoHandle /\ hot[call[u].runtime.slot].handle = call[u].runtime
           /\ Resolves(runtimes, call[u].runtime)
<1>1. call[u].kind = "use"
  BY CallAt DEF Holds
<1>2. call[u].runtime \in RuntimeHandle /\ call[u].runtime # NoHandle /\ call[u].runtime.slot \in 1..Capacity
  BY <1>1, SlotsOfCalls DEF OnRuntime
<1>3. KnowsOf(u)
  BY DEF Data, Knows
<1>4. hot[call[u].runtime.slot].handle = call[u].runtime
  BY <1>3 DEF KnowsOf
<1> QED
  BY <1>1, <1>2, <1>4 DEF Data, HotFollows

(* The slot of the runtime that is being made. *)
LEMMA SlotMade ==
    ASSUME Types, Data, NEW t \in Threads, Holds(t, {"state", "handle"})
    PROVE  /\ SlotOf(found[t]) \in 1..Capacity
           /\ \A s \in 1..Capacity : runtimes[s].value = found[t] <=> s = SlotOf(found[t])
           /\ \A s \in 1..Capacity : Changing(t, s) <=> s = SlotOf(found[t])
           /\ Occupied(runtimes, SlotOf(found[t]))
           /\ hot[SlotOf(found[t])].handle = NoHandle
<1>1. found[t] \in Objects /\ found[t] # Vacant
  BY ObjectAssumption DEF Types, StoreTypeOK
<1>2. \E s \in 1..Capacity : runtimes[s].value = found[t]
  BY DEF Data, Knows, KnowsOf
<1>3. SlotOf(found[t]) \in 1..Capacity /\ runtimes[SlotOf(found[t])].value = found[t]
  BY <1>2 DEF SlotOf
<1>4. ASSUME NEW s \in 1..Capacity, runtimes[s].value = found[t] PROVE s = SlotOf(found[t])
  BY <1>1, <1>3, <1>4 DEF Data, Framed, Occupied
<1>5. \A s \in 1..Capacity : Changing(t, s) <=> runtimes[s].value = found[t]
  BY DEF Changing, Holds
<1>6. Occupied(runtimes, SlotOf(found[t])) /\ hot[SlotOf(found[t])].handle = NoHandle
  BY <1>3, <1>5 DEF Data, HotFollows
<1> QED
  BY <1>3, <1>4, <1>5, <1>6

(* What a step inside the gate keeps, but for the slot it changes. *)
LEMMA InsideStep ==
    ASSUME Types, Gated, Data, NEW t \in Threads, Plain(t), NEW x \in {"handle", "leave", "clear", "erase"},
           Goto(t, x, "store"), PastStore(t), UNCHANGED <<nextBlock, block, call, found, made>>, StoreTypeOK',
           \A u \in Threads : u # t /\ Holds(u, {"read", "using"}) =>
              hot'[call[u].runtime.slot] = hot[call[u].runtime.slot],
           KnowsOf(t)'
    PROVE  /\ Types' /\ Knows' /\ Registered'
           /\ Step(t)' = x /\ Gate(t)' = "store"
           /\ \A u \in Threads : u # t => Same(u) /\ ~Changer(u) /\ ~Changer(u)'
<1>1. "store" \in Gates /\ x \in Steps
  BY DEF Gates, Steps
<1>2. Step(t)' = x /\ Gate(t)' = "store" /\ \A u \in Threads : u # t => Same(u)
  BY <1>1, Moves
<1>3. \A u \in Threads : u # t => ~Changer(u) /\ ~Changer(u)'
  BY <1>2, Alone DEF Changer, Holds, Same
<1>4. Types'
  BY PlainTypes DEF Types
<1>5. \A u \in Threads : KnowsOf(u)'
  BY <1>2, OthersKnow DEF Data, Knows
<1>6. Knows'
  BY <1>5 DEF Data, Knows, UseAndDestroyApart
<1>7. \A u \in Threads : /\ Fresh(u)' => Fresh(u) /\ found'[u] = found[u]
                         /\ Empty(u)' => found'[u] = NoObject
  <2>1. ~Fresh(t)' /\ ~Empty(t)'
    BY <1>2 DEF Fresh, Empty, Waiting
  <2>2. \A u \in Threads : u # t => (Fresh(u)' => Fresh(u)) /\ (Empty(u)' => found'[u] = NoObject)
    BY <1>2 DEF Same, Fresh, Empty, Data, Registered
  <2> QED
    BY <2>1, <2>2
<1>8. Registered'
  BY <1>7, RegisteredStill DEF Data, SameMade
<1> QED
  BY <1>2, <1>3, <1>4, <1>6, <1>8

(* Frame domains are not affected by what becomes of the hot copy. *)
LEMMA FramedInside ==
    ASSUME Data, NEW t \in Threads, \A u \in Threads : u # t => Same(u), UNCHANGED <<runtimes, nextDomain, made>>,
           Holds(t, {"state", "handle"}) => Holds(t, {"state", "handle"})'
    PROVE  Framed'
<1>1. \A u \in Threads : Holds(u, {"state", "handle"}) => Holds(u, {"state", "handle"})'
  BY DEF Same, Holds
<1> QED
  BY <1>1, FramedStill DEF Data, SameMade

LEMMA StoreStateKeeps ==
    ASSUME Types, Gated, Data, NEW t \in Threads, StoreState(t)
    PROVE  Types' /\ Data'
<1>1. /\ Plain(t) /\ Step(t) = "state" /\ Gate(t) = "store" /\ call[t].kind = "create"
      /\ UNCHANGED <<runtimes, nextDomain, nextBlock, block, claimed, call, found, calls, made>>
      /\ Goto(t, "handle", "store")
  BY Stands, PlainSteps, CallAt DEF StoreState, Within
<1>2. Holds(t, {"state", "handle"}) /\ PastStore(t) /\ KnowsOf(t) /\ found[t] \in Objects
  BY <1>1 DEF Holds, PastStore, Inner, Data, Knows, Types, StoreTypeOK
<1>3. PICK s \in 1..Capacity : s = SlotOf(found[t])
  BY <1>2, SlotMade
<1>4. /\ hot \in [1..Capacity -> [handle : RuntimeHandle \cup {NoHandle}, state : Objects]]
      /\ hot' = [hot EXCEPT ![s].state = found[t]]
  BY <1>3 DEF StoreState, Types, StoreTypeOK
<1>5. /\ hot' \in [1..Capacity -> [handle : RuntimeHandle \cup {NoHandle}, state : Objects]]
      /\ \A r \in 1..Capacity : hot'[r].handle = hot[r].handle /\ (r # s => hot'[r] = hot[r])
      /\ hot'[s].state = found[t]
  BY <1>2, <1>4
<1>6. hot[s].handle = NoHandle /\ \A r \in 1..Capacity : runtimes[r].value = found[t] <=> r = s
  BY <1>2, <1>3, SlotMade
<1>7. \A u \in Threads : u # t /\ Holds(u, {"read", "using"}) => hot'[call[u].runtime.slot] = hot[call[u].runtime.slot]
  BY <1>5, <1>6, Readers
<1>8. Step(t)' = "handle" /\ Gate(t)' = "store"
  BY <1>1, Moves DEF Steps, Gates
<1>9. KnowsOf(t)'
  BY <1>1, <1>2, <1>5, <1>6, <1>8 DEF KnowsOf, Holds
<1>10. StoreTypeOK'
  BY <1>1, <1>5 DEF Types, StoreTypeOK, Plain
<1>11. /\ Types' /\ Knows' /\ Registered'
       /\ \A u \in Threads : u # t => Same(u) /\ ~Changer(u) /\ ~Changer(u)'
  BY <1>1, <1>2, <1>7, <1>9, <1>10, InsideStep
<1>12. Framed'
  BY <1>1, <1>8, <1>11, FramedInside DEF Holds
<1>13. \A u \in Threads, r \in 1..Capacity : Changing(u, r)' <=> Changing(u, r)
  <2>1. \A u \in Threads : u # t => \A r \in 1..Capacity : Changing(u, r)' <=> Changing(u, r)
    BY <1>1, <1>11, ChangingKept
  <2>2. \A r \in 1..Capacity : Changing(t, r)' <=> Changing(t, r)
    BY <1>1, <1>8 DEF Changing, Holds
  <2> QED
    BY <2>1, <2>2
<1>14. HotFollows'
  <2>1. \A r \in 1..Capacity : /\ Occupied(runtimes', r) <=> Occupied(runtimes, r)
                               /\ runtimes'[r].value = runtimes[r].value
                               /\ Resolves(runtimes', hot'[r].handle) <=> Resolves(runtimes, hot[r].handle)
    BY <1>1, <1>5 DEF Resolves, Occupied
  <2>2. \A r \in 1..Capacity : hot'[r].handle # NoHandle => hot'[r] = hot[r]
    BY <1>5, <1>6
  <2> QED
    BY <1>5, <1>13, <2>1, <2>2 DEF Data, HotFollows
<1> QED
  BY <1>11, <1>12, <1>14 DEF Data

LEMMA StoreHandleKeeps ==
    ASSUME Types, Gated, Data, NEW t \in Threads, StoreHandle(t)
    PROVE  Types' /\ Data'
<1>1. /\ Plain(t) /\ Step(t) = "handle" /\ Gate(t) = "store" /\ call[t].kind = "create"
      /\ UNCHANGED <<runtimes, nextBlock, block, claimed, call, found, calls, made>>
      /\ Goto(t, "leave", "store") /\ nextDomain' = nextDomain + 1
  BY Stands, PlainSteps, CallAt DEF StoreHandle, Within
<1>2. Holds(t, {"state", "handle"}) /\ PastStore(t) /\ KnowsOf(t) /\ found[t] \in Objects
  BY <1>1 DEF Holds, PastStore, Inner, Data, Knows, Types, StoreTypeOK
<1>3. PICK s \in 1..Capacity : s = SlotOf(found[t])
  BY <1>2, SlotMade
<1>4. PICK h : h = HandleAt(runtimes, s)
  OBVIOUS
<1>5. h \in RuntimeHandle /\ h # NoHandle /\ h.slot = s /\ h.generation = runtimes[s].generation
  BY <1>4, StoreAssumption DEF HandleAt, RuntimeHandle, NoHandle, Types, StoreTypeOK, Table
<1>6. /\ hot \in [1..Capacity -> [handle : RuntimeHandle \cup {NoHandle}, state : Objects]]
      /\ hot' = [hot EXCEPT ![s].handle = h]
  BY <1>3, <1>4 DEF StoreHandle, Types, StoreTypeOK
<1>7. /\ hot' \in [1..Capacity -> [handle : RuntimeHandle \cup {NoHandle}, state : Objects]]
      /\ \A r \in 1..Capacity : hot'[r].state = hot[r].state /\ (r # s => hot'[r] = hot[r])
      /\ hot'[s].handle = h
  BY <1>5, <1>6
<1>8. /\ hot[s].handle = NoHandle /\ Occupied(runtimes, s) /\ hot[s].state = found[t] /\ runtimes[s].value = found[t]
      /\ \A r \in 1..Capacity : Changing(t, r) <=> r = s
  BY <1>1, <1>2, <1>3, SlotMade DEF KnowsOf, Holds
<1>9. \A u \in Threads : u # t /\ Holds(u, {"read", "using"}) => hot'[call[u].runtime.slot] = hot[call[u].runtime.slot]
  BY <1>7, <1>8, Readers
<1>10. Step(t)' = "leave" /\ Gate(t)' = "store"
  BY <1>1, Moves DEF Steps, Gates
<1>11. KnowsOf(t)'
  BY <1>10 DEF KnowsOf, Holds
<1>12. nextDomain \in 1..MaxDomain /\ nextDomain' \in 1..MaxDomain + 1
  BY <1>1, <1>2, StoreAssumption DEF KnowsOf, Types, StoreTypeOK
<1>13. StoreTypeOK'
  BY <1>1, <1>7, <1>12 DEF Types, StoreTypeOK, Plain
<1>14. /\ Types' /\ Knows' /\ Registered'
       /\ \A u \in Threads : u # t => Same(u) /\ ~Changer(u) /\ ~Changer(u)'
  BY <1>1, <1>2, <1>9, <1>11, <1>13, InsideStep
<1>15. Framed'
  <2>1. \A i \in DOMAIN made : made[i].object.frames \in Nat
    <3>1. \A i \in DOMAIN made : made[i] \in Entry
      BY DEF Types
    <3> QED
      BY <3>1, StoreAssumption DEF Entry, Objects
  <2>2. \A r \in 1..Capacity : Occupied(runtimes, r) => runtimes[r].value.frames \in Nat
    BY DEF Types, StoreTypeOK, Table, Objects, Occupied
  <2>3. \A i \in DOMAIN made : made[i].object.frames <= nextDomain' /\ made[i].object.frames # nextDomain'
    BY <1>1, <1>12, <2>1, StoreAssumption DEF Data, Framed
  <2>4. \A r \in 1..Capacity : Occupied(runtimes, r) =>
           runtimes[r].value.frames <= nextDomain' /\ runtimes[r].value.frames # nextDomain'
    BY <1>1, <1>12, <2>2, StoreAssumption DEF Data, Framed
  <2>5. \A r \in 1..Capacity : Occupied(runtimes', r) <=> Occupied(runtimes, r)
    BY <1>1 DEF Occupied
  <2>6. /\ \A i, j \in DOMAIN made' : i # j /\ made'[i].object.frames = made'[j].object.frames
                                        => made'[i].object.frames = 0
        /\ \A q, r \in 1..Capacity : q # r /\ Occupied(runtimes', q) /\ Occupied(runtimes', r)
                                        => runtimes'[q].value.frames # runtimes'[r].value.frames
    BY <1>1, <2>5 DEF Data, Framed
  <2> QED
    BY <1>1, <2>3, <2>4, <2>5, <2>6 DEF Framed
<1>16. \A u \in Threads, r \in 1..Capacity : ~Changing(u, r)' /\ (Changing(u, r) => r = s)
  <2>1. \A u \in Threads : u # t => \A r \in 1..Capacity : ~Changing(u, r)' /\ ~Changing(u, r)
    BY <1>14 DEF Changing, Changer, Holds
  <2>2. \A r \in 1..Capacity : ~Changing(t, r)'
    BY <1>10 DEF Changing, Holds
  <2> QED
    BY <1>8, <2>1, <2>2
<1>17. HotFollows'
  <2>1. \A r \in 1..Capacity : /\ Occupied(runtimes', r) <=> Occupied(runtimes, r)
                               /\ runtimes'[r].value = runtimes[r].value
                               /\ Resolves(runtimes', hot'[r].handle) <=> Resolves(runtimes, hot'[r].handle)
    BY <1>1 DEF Resolves, Occupied
  <2>2. Resolves(runtimes, h)
    BY <1>5, <1>8 DEF Resolves, Types, StoreTypeOK, Table
  <2>3. \A r \in 1..Capacity : hot'[r].handle # NoHandle =>
           Resolves(runtimes', hot'[r].handle) /\ hot'[r].handle.slot = r /\ hot'[r].state = runtimes'[r].value
    BY <1>5, <1>7, <1>8, <2>1, <2>2 DEF Data, HotFollows
  <2>4. \A r \in 1..Capacity : hot'[r].handle = NoHandle <=> ~Occupied(runtimes', r)
    BY <1>5, <1>7, <1>8, <1>16, <2>1 DEF Data, HotFollows
  <2> QED
    BY <1>16, <2>3, <2>4 DEF HotFollows
<1> QED
  BY <1>14, <1>15, <1>17 DEF Data

(* destroy: the hot copy first, then the table. *)
LEMMA DestroyKeeps ==
    ASSUME Types, Gated, Data, NEW t \in Threads, Destroy(t)
    PROVE  Types' /\ Data'
<1>1. /\ Plain(t) /\ Step(t) = "inside" /\ Gate(t) = "store" /\ call[t].kind = "destroy"
      /\ UNCHANGED <<runtimes, nextDomain, nextBlock, block, claimed, call, found, calls, made>>
  BY Stands, PlainSteps DEF Destroy, Inside, Within
<1>2. PastStore(t) /\ ~Changer(t) /\ ~Holds(t, {"state", "handle"})
  BY <1>1 DEF Holds, PastStore, Inner, Changer
<1>3. PICK h : h = call[t].runtime
  OBVIOUS
<1>4. h \in RuntimeHandle /\ h # NoHandle /\ h.slot \in 1..Capacity
  BY <1>1, <1>3, SlotsOfCalls DEF OnRuntime
<1>5. hot \in [1..Capacity -> [handle : RuntimeHandle \cup {NoHandle}, state : Objects]]
  BY DEF Types, StoreTypeOK
<1>6. CASE Resolves(runtimes, h)
  <2>1. hot' = [hot EXCEPT ![h.slot].handle = NoHandle] /\ Goto(t, "clear", "store")
    BY <1>3, <1>6 DEF Destroy
  <2>2. /\ hot' \in [1..Capacity -> [handle : RuntimeHandle \cup {NoHandle}, state : Objects]]
        /\ \A r \in 1..Capacity : hot'[r].state = hot[r].state /\ (r # h.slot => hot'[r] = hot[r])
        /\ hot'[h.slot].handle = NoHandle
    BY <1>4, <1>5, <2>1
  <2>3. Step(t)' = "clear" /\ Gate(t)' = "store"
    BY <1>1, <2>1, Moves DEF Steps, Gates
  <2>4. ASSUME NEW u \in Threads, u # t, Holds(u, {"read", "using"})
        PROVE  hot'[call[u].runtime.slot] = hot[call[u].runtime.slot]
    <3>1. /\ call[u].kind = "use" /\ call[u].runtime.slot \in 1..Capacity
          /\ Resolves(runtimes, call[u].runtime) /\ call[u].runtime \in RuntimeHandle
      BY <2>4, Readers, SlotsOfCalls DEF OnRuntime
    <3>2. call[u].runtime # h
      BY <1>1, <1>3, <3>1 DEF Data, Knows, UseAndDestroyApart
    <3>3. call[u].runtime.slot # h.slot
      BY <1>4, <1>6, <3>1, <3>2 DEF Resolves, RuntimeHandle
    <3> QED
      BY <2>2, <3>1, <3>3
  <2>5. KnowsOf(t)'
    BY <1>1, <1>3, <1>6, <2>3 DEF KnowsOf, Holds, Resolves, Occupied
  <2>6. StoreTypeOK'
    BY <1>1, <2>2 DEF Types, StoreTypeOK, Plain
  <2>7. /\ Types' /\ Knows' /\ Registered'
        /\ \A u \in Threads : u # t => Same(u) /\ ~Changer(u) /\ ~Changer(u)'
    BY <1>1, <1>2, <2>1, <2>4, <2>5, <2>6, InsideStep
  <2>8. Framed'
    BY <1>1, <1>2, <2>7, FramedInside
  <2>9. \A r \in 1..Capacity : Changing(t, r)' <=> r = h.slot
    BY <1>1, <1>3, <1>4, <2>3 DEF Changing, Holds
  <2>10. \A u \in Threads, r \in 1..Capacity : ~Changing(u, r) /\ (u # t => ~Changing(u, r)')
    BY <1>2, <2>7 DEF Changing, Changer, Holds
  <2>11. HotFollows'
    <3>1. \A r \in 1..Capacity : /\ Occupied(runtimes', r) <=> Occupied(runtimes, r)
                                 /\ runtimes'[r].value = runtimes[r].value
                                 /\ Resolves(runtimes', hot'[r].handle) <=> Resolves(runtimes, hot'[r].handle)
      BY <1>1 DEF Resolves, Occupied
    <3>2. Occupied(runtimes, h.slot)
      BY <1>6 DEF Resolves
    <3>3. \A r \in 1..Capacity : hot'[r].handle # NoHandle => hot'[r] = hot[r]
      BY <2>2
    <3>4. \A r \in 1..Capacity : (hot'[r].handle = NoHandle <=> ~Occupied(runtimes', r)) \/ r = h.slot
      BY <2>2, <2>10, <3>1 DEF Data, HotFollows
    <3>5. \A r \in 1..Capacity : (hot'[r].handle = NoHandle <=> ~Occupied(runtimes', r))
                                    \/ \E u \in Threads : Changing(u, r)'
      BY <2>9, <3>4
    <3>6. \A u \in Threads, r \in 1..Capacity : Changing(u, r)' => Occupied(runtimes', r) /\ hot'[r].handle = NoHandle
      BY <2>2, <2>9, <2>10, <3>1, <3>2
    <3>7. \A r \in 1..Capacity : hot'[r].handle # NoHandle =>
             Resolves(runtimes', hot'[r].handle) /\ hot'[r].handle.slot = r /\ hot'[r].state = runtimes'[r].value
      BY <3>1, <3>3 DEF Data, HotFollows
    <3> QED
      BY <3>5, <3>6, <3>7 DEF HotFollows
  <2> QED
    BY <2>7, <2>8, <2>11 DEF Data
<1>7. CASE ~Resolves(runtimes, h)
  <2>1. hot' = hot /\ Goto(t, "leave", "store")
    BY <1>3, <1>7 DEF Destroy
  <2>2. Step(t)' = "leave" /\ Gate(t)' = "store"
    BY <1>1, <2>1, Moves DEF Steps, Gates
  <2>3. KnowsOf(t)'
    BY <2>2 DEF KnowsOf, Holds
  <2>4. StoreTypeOK'
    BY <1>1, <2>1 DEF Types, StoreTypeOK, Plain
  <2>5. /\ Types' /\ Knows' /\ Registered'
        /\ \A u \in Threads : u # t => Same(u) /\ ~Changer(u) /\ ~Changer(u)'
    BY <1>1, <1>2, <2>1, <2>3, <2>4, InsideStep
  <2>6. Framed'
    BY <1>1, <1>2, <2>5, FramedInside
  <2>7. ~Changer(t)'
    BY <2>2 DEF Changer, Holds
  <2>8. HotFollows'
    BY <1>1, <1>2, <2>1, <2>5, <2>7, ChangingKept, HotFollowsStill DEF Data
  <2> QED
    BY <2>5, <2>6, <2>8 DEF Data
<1> QED
  BY <1>6, <1>7

LEMMA ClearStateKeeps ==
    ASSUME Types, Gated, Data, NEW t \in Threads, ClearState(t)
    PROVE  Types' /\ Data'
<1>1. /\ Plain(t) /\ Step(t) = "clear" /\ Gate(t) = "store" /\ call[t].kind = "destroy"
      /\ UNCHANGED <<runtimes, nextDomain, nextBlock, block, claimed, call, found, calls, made>>
      /\ Goto(t, "erase", "store")
  BY Stands, PlainSteps, CallAt DEF ClearState, Within
<1>2. PastStore(t) /\ ~Holds(t, {"state", "handle"}) /\ KnowsOf(t)
  BY <1>1 DEF Holds, PastStore, Inner, Data, Knows
<1>3. PICK s : s = call[t].runtime.slot
  OBVIOUS
<1>4. s \in 1..Capacity /\ NoObject \in Objects
  BY <1>1, <1>3, SlotsOfCalls, StoreAssumption DEF OnRuntime, NoObject, Objects
<1>5. /\ hot \in [1..Capacity -> [handle : RuntimeHandle \cup {NoHandle}, state : Objects]]
      /\ hot' = [hot EXCEPT ![s].state = NoObject]
  BY <1>3 DEF Types, StoreTypeOK, ClearState
<1>6. /\ hot' \in [1..Capacity -> [handle : RuntimeHandle \cup {NoHandle}, state : Objects]]
      /\ \A r \in 1..Capacity : hot'[r].handle = hot[r].handle /\ (r # s => hot'[r] = hot[r])
  BY <1>4, <1>5
<1>7. Changing(t, s) /\ hot[s].handle = NoHandle
  BY <1>1, <1>3, <1>4 DEF Changing, Holds, Data, HotFollows
<1>8. \A u \in Threads : u # t /\ Holds(u, {"read", "using"}) => hot'[call[u].runtime.slot] = hot[call[u].runtime.slot]
  BY <1>6, <1>7, Readers
<1>9. Step(t)' = "erase" /\ Gate(t)' = "store"
  BY <1>1, Moves DEF Steps, Gates
<1>10. KnowsOf(t)'
  BY <1>1, <1>2, <1>9 DEF KnowsOf, Holds, Resolves, Occupied
<1>11. StoreTypeOK'
  BY <1>1, <1>6 DEF Types, StoreTypeOK, Plain
<1>12. /\ Types' /\ Knows' /\ Registered'
       /\ \A u \in Threads : u # t => Same(u) /\ ~Changer(u) /\ ~Changer(u)'
  BY <1>1, <1>2, <1>8, <1>10, <1>11, InsideStep
<1>13. Framed'
  BY <1>1, <1>2, <1>12, FramedInside
<1>14. \A u \in Threads, r \in 1..Capacity : Changing(u, r)' <=> Changing(u, r)
  <2>1. \A u \in Threads : u # t => \A r \in 1..Capacity : Changing(u, r)' <=> Changing(u, r)
    BY <1>1, <1>12, ChangingKept
  <2>2. \A r \in 1..Capacity : Changing(t, r)' <=> Changing(t, r)
    BY <1>1, <1>9 DEF Changing, Holds
  <2> QED
    BY <2>1, <2>2
<1>15. HotFollows'
  <2>1. \A r \in 1..Capacity : /\ Occupied(runtimes', r) <=> Occupied(runtimes, r)
                               /\ runtimes'[r].value = runtimes[r].value
                               /\ Resolves(runtimes', hot'[r].handle) <=> Resolves(runtimes, hot[r].handle)
    BY <1>1, <1>6 DEF Resolves, Occupied
  <2>2. \A r \in 1..Capacity : hot'[r].handle # NoHandle => hot'[r] = hot[r]
    BY <1>6, <1>7
  <2> QED
    BY <1>6, <1>14, <2>1, <2>2 DEF Data, HotFollows
<1> QED
  BY <1>12, <1>13, <1>15 DEF Data

LEMMA EraseKeeps ==
    ASSUME Types, Gated, Data, NEW t \in Threads, Erase(t)
    PROVE  Types' /\ Data'
<1>1. /\ Plain(t) /\ Step(t) = "erase" /\ Gate(t) = "store" /\ call[t].kind = "destroy"
      /\ UNCHANGED <<hot, nextDomain, nextBlock, block, claimed, call, found, calls, made>>
      /\ Goto(t, "leave", "store")
  BY Stands, PlainSteps, CallAt DEF Erase, Within
<1>2. PastStore(t) /\ KnowsOf(t) /\ ~Holds(t, {"state", "handle"})
  BY <1>1 DEF Holds, PastStore, Inner, Data, Knows
<1>3. PICK s : s = call[t].runtime.slot
  OBVIOUS
<1>4. s \in 1..Capacity
  BY <1>1, <1>3, SlotsOfCalls DEF OnRuntime
<1>5. Changing(t, s) /\ hot[s].handle = NoHandle
  BY <1>1, <1>3, <1>4 DEF Changing, Holds, Data, HotFollows
<1>6. runtimes \in Table(1..Capacity, Objects) /\ runtimes' = [runtimes EXCEPT ![s] = Emptied(@)]
  BY <1>3 DEF Types, StoreTypeOK, Erase, Erased
<1>7. /\ runtimes' \in Table(1..Capacity, Objects) /\ ~Occupied(runtimes', s)
      /\ \A r \in 1..Capacity : r # s => runtimes'[r] = runtimes[r]
  <2>1. runtimes[s] \in [generation : 1..MaxGeneration, retired : BOOLEAN, value : Objects \cup {Vacant}]
    BY <1>4, <1>6 DEF Table
  <2>2. PICK e : e = Emptied(runtimes[s])
    OBVIOUS
  <2>3. e \in [generation : 1..MaxGeneration, retired : BOOLEAN, value : Objects \cup {Vacant}] /\ e.value = Vacant
    BY <2>1, <2>2, EmptiedSlot
  <2>4. runtimes' = [runtimes EXCEPT ![s] = e]
    BY <1>6, <2>2
  <2> QED
    BY <1>4, <1>6, <2>3, <2>4 DEF Table, Occupied
<1>8. Step(t)' = "leave" /\ Gate(t)' = "store"
  BY <1>1, Moves DEF Steps, Gates
<1>9. KnowsOf(t)'
  BY <1>8 DEF KnowsOf, Holds
<1>10. StoreTypeOK'
  BY <1>1, <1>7 DEF Types, StoreTypeOK, Plain
<1>11. /\ Types' /\ Knows' /\ Registered'
       /\ \A u \in Threads : u # t => Same(u) /\ ~Changer(u) /\ ~Changer(u)'
  BY <1>1, <1>2, <1>9, <1>10, InsideStep
<1>12. \A r \in 1..Capacity : Occupied(runtimes', r) <=> Occupied(runtimes, r) /\ r # s
  BY <1>7 DEF Occupied
<1>13. \A u \in Threads : Holds(u, {"state", "handle"}) => Holds(u, {"state", "handle"})'
  BY <1>2, <1>11 DEF Same, Holds
<1>14. Framed'
  <2>1. /\ \A i \in DOMAIN made' : /\ made'[i].object.frames <= nextDomain'
                                   /\ made'[i].object.frames = nextDomain'
                                        => \E u \in Threads : Holds(u, {"state", "handle"})'
        /\ \A i, j \in DOMAIN made' : i # j /\ made'[i].object.frames = made'[j].object.frames
                                        => made'[i].object.frames = 0
    BY <1>1, <1>13 DEF Data, Framed
  <2>2. \A r \in 1..Capacity : Occupied(runtimes', r) =>
           /\ runtimes'[r].value.frames <= nextDomain'
           /\ runtimes'[r].value.frames = nextDomain' => \E u \in Threads : Holds(u, {"state", "handle"})'
    BY <1>1, <1>7, <1>12, <1>13 DEF Data, Framed
  <2>3. \A q, r \in 1..Capacity : q # r /\ Occupied(runtimes', q) /\ Occupied(runtimes', r)
                                        => runtimes'[q].value.frames # runtimes'[r].value.frames
    BY <1>7, <1>12 DEF Data, Framed
  <2> QED
    BY <2>1, <2>2, <2>3 DEF Framed
<1>15. \A u \in Threads, r \in 1..Capacity : ~Changing(u, r)' /\ (Changing(u, r) => r = s)
  <2>1. \A u \in Threads : u # t => \A r \in 1..Capacity : ~Changing(u, r)' /\ ~Changing(u, r)
    BY <1>11 DEF Changing, Changer, Holds
  <2>2. \A r \in 1..Capacity : ~Changing(t, r)' /\ (Changing(t, r) => r = s)
    BY <1>1, <1>3, <1>8 DEF Changing, Holds
  <2> QED
    BY <2>1, <2>2
<1>16. HotFollows'
  <2>1. \A r \in 1..Capacity : hot[r].handle # NoHandle =>
           Resolves(runtimes', hot[r].handle) /\ hot[r].handle.slot = r /\ hot[r].state = runtimes'[r].value
    <3> SUFFICES ASSUME NEW r \in 1..Capacity, hot[r].handle # NoHandle
                 PROVE  Resolves(runtimes', hot[r].handle) /\ hot[r].handle.slot = r /\ hot[r].state = runtimes'[r].value
      OBVIOUS
    <3>1. Resolves(runtimes, hot[r].handle) /\ hot[r].handle.slot = r /\ hot[r].state = runtimes[r].value /\ r # s
      BY <1>5 DEF Data, HotFollows
    <3>2. runtimes'[r] = runtimes[r] /\ r \in DOMAIN runtimes'
      BY <1>7, <3>1 DEF Table
    <3> QED
      BY <3>1, <3>2 DEF Resolves, Occupied
  <2>2. \A r \in 1..Capacity : hot[r].handle = NoHandle <=> ~Occupied(runtimes', r)
    BY <1>5, <1>12, <1>15 DEF Data, HotFollows
  <2> QED
    BY <1>1, <1>15, <2>1, <2>2 DEF HotFollows
<1> QED
  BY <1>11, <1>14, <1>16 DEF Data

(* One more object made. *)
LEMMA AppendOne ==
    ASSUME made \in Seq(Entry), NEW e \in Entry, made' = Append(made, e)
    PROVE  /\ made' \in Seq(Entry)
           /\ \E n : /\ n \notin DOMAIN made /\ DOMAIN made' = DOMAIN made \cup {n} /\ made'[n] = e
                     /\ \A i \in DOMAIN made : made'[i] = made[i]
<1> DEFINE n == Len(made) + 1
<1>1. made' \in Seq(Entry) /\ Len(made') = n /\ made'[n] = e /\ \A i \in 1..Len(made) : made'[i] = made[i]
  OBVIOUS
<1>2. Len(made) \in Nat /\ DOMAIN made = 1..Len(made) /\ DOMAIN made' = 1..Len(made')
  BY <1>1
<1>3. n \notin DOMAIN made /\ DOMAIN made' = DOMAIN made \cup {n}
  BY <1>1, <1>2
<1> QED
  BY <1>1, <1>2, <1>3

(* Its registry is the one its thread had taken a domain for. *)
LEMMA RegisteredMade ==
    ASSUME Types, Registered, NEW t \in Threads, Fresh(t), ~Fresh(t)', ~Empty(t)',
           NEW e \in Entry, made' = Append(made, e), e.object.registry = found[t].registry,
           UNCHANGED <<block, nextBlock>>, \A u \in Threads : u # t => Same(u)
    PROVE  Registered'
<1>1. PICK n : /\ n \notin DOMAIN made /\ DOMAIN made' = DOMAIN made \cup {n} /\ made'[n] = e
               /\ \A i \in DOMAIN made : made'[i] = made[i]
  BY AppendOne DEF Types
<1>2. \A u \in Threads : /\ Fresh(u)' => Fresh(u) /\ u # t /\ found'[u] = found[u]
                         /\ Empty(u)' => found'[u] = NoObject
  BY DEF Same, Fresh, Empty, Registered
<1>3. found[t].registry # 0 =>
        /\ found[t].registry < nextBlock
        /\ \A u \in Threads : ~Covers(block[u], found[t].registry)
        /\ \A u \in Threads : Fresh(u) /\ found[u].registry = found[t].registry => u = t
        /\ \A i \in DOMAIN made : made[i].object.registry # found[t].registry
  BY DEF Registered
<1>4. ASSUME NEW u \in Threads, Fresh(u)', found'[u].registry # 0
      PROVE  /\ found'[u].registry < nextBlock'
             /\ \A v \in Threads : ~Covers(block'[v], found'[u].registry)
             /\ \A v \in Threads : Fresh(v)' /\ found'[v].registry = found'[u].registry => v = u
             /\ \A i \in DOMAIN made' : made'[i].object.registry # found'[u].registry
  <2>1. /\ found[u].registry < nextBlock
        /\ \A v \in Threads : ~Covers(block[v], found[u].registry)
        /\ \A v \in Threads : Fresh(v) /\ found[v].registry = found[u].registry => v = u
        /\ \A i \in DOMAIN made : made[i].object.registry # found[u].registry
    BY <1>2, <1>4 DEF Registered
  <2>2. e.object.registry # found[u].registry
    BY <1>2, <1>4, <2>1
  <2> QED
    BY <1>1, <1>2, <1>4, <2>1, <2>2
<1>5. ASSUME NEW i \in DOMAIN made', made'[i].object.registry # 0
      PROVE  /\ made'[i].object.registry < nextBlock'
             /\ \A u \in Threads : ~Covers(block'[u], made'[i].object.registry)
  <2>1. CASE i = n
    BY <1>1, <1>3, <1>5, <2>1
  <2>2. CASE i # n
    BY <1>1, <1>5, <2>2 DEF Registered
  <2> QED
    BY <2>1, <2>2
<1>6. ASSUME NEW i \in DOMAIN made', NEW j \in DOMAIN made', i # j, made'[i].object.registry = made'[j].object.registry
      PROVE  made'[i].object.registry = 0
  <2>1. CASE i = n \/ j = n
    BY <1>1, <1>3, <1>6, <2>1
  <2>2. CASE i # n /\ j # n
    BY <1>1, <1>6, <2>2 DEF Registered
  <2> QED
    BY <2>1, <2>2
<1>7. /\ \A u \in Threads : block'[u].next <= block'[u].end /\ block'[u].end <= nextBlock'
      /\ \A u \in Threads : block'[u].next # block'[u].end => block'[u].next # 0
      /\ \A u, v \in Threads, d \in 1..MaxRegistry : Covers(block'[u], d) /\ Covers(block'[v], d) => u = v
      /\ \A u \in Threads : Fresh(u)' => found'[u].frames = 0
  BY <1>2 DEF Registered
<1> QED
  BY <1>2, <1>4, <1>5, <1>6, <1>7 DEF Registered

(* A registry of its own. *)
LEMMA ConstructRegistry ==
    ASSUME Types, Gated, Data, NEW t \in Threads, Construct(t), call[t].kind = "registry"
    PROVE  Types' /\ Data'
<1>1. /\ Plain(t) /\ Step(t) = "construct" /\ Gate(t) = "store"
      /\ UNCHANGED <<runtimes, found, hot, nextDomain, nextBlock, block, claimed, call, calls>>
      /\ made' = Append(made, Made(found[t], NoHandle)) /\ Goto(t, "return", "store")
  BY Stands, PlainSteps DEF Construct, Within
<1>2. Fresh(t) /\ found[t].frames = 0 /\ found[t] \in Objects
  BY <1>1 DEF Fresh, Data, Registered, Types, StoreTypeOK
<1>3. PICK e : e = Made(found[t], NoHandle)
  OBVIOUS
<1>4. e \in Entry /\ e.object = found[t]
  BY <1>2, <1>3 DEF Made, Entry
<1>5. made \in Seq(Entry) /\ made' = Append(made, e)
  BY <1>1, <1>3 DEF Types
<1>6. PICK n : /\ n \notin DOMAIN made /\ DOMAIN made' = DOMAIN made \cup {n} /\ made'[n] = e
               /\ \A i \in DOMAIN made : made'[i] = made[i]
  BY <1>4, <1>5, AppendOne
<1>7. Step(t)' = "return" /\ Gate(t)' = "store" /\ \A u \in Threads : u # t => Same(u)
  BY <1>1, Moves DEF Steps, Gates
<1>8. Types'
  BY <1>1, <1>4, <1>5, AppendOne, PlainTypes DEF Types, StoreTypeOK, Plain
<1>9. KnowsOf(t)'
  BY <1>7 DEF KnowsOf, Holds
<1>10. Knows'
  BY <1>1, <1>7, <1>9, OthersKnowStill DEF Data, Knows, UseAndDestroyApart
<1>11. ~Changer(t) /\ ~Changer(t)' /\ ~Fresh(t)' /\ ~Empty(t)' /\ ~Holds(t, {"state", "handle"})
  BY <1>1, <1>7 DEF Changer, Holds, Fresh, Empty, Waiting
<1>12. HotFollows'
  BY <1>1, <1>7, <1>11, ChangingKept, HotFollowsStill DEF Data
<1>13. Registered'
  BY <1>1, <1>2, <1>4, <1>5, <1>7, <1>11, RegisteredMade DEF Data
<1>14. \A u \in Threads : Holds(u, {"state", "handle"}) => Holds(u, {"state", "handle"})'
  BY <1>7, <1>11 DEF Same, Holds
<1>15. Framed'
  <2>1. nextDomain \in Nat /\ nextDomain > 0
    BY StoreAssumption DEF Types, StoreTypeOK
  <2>2. \A i \in DOMAIN made' : /\ made'[i].object.frames <= nextDomain'
                                /\ made'[i].object.frames = nextDomain'
                                        => \E u \in Threads : Holds(u, {"state", "handle"})'
    BY <1>1, <1>2, <1>4, <1>6, <1>14, <2>1 DEF Data, Framed
  <2>3. \A i, j \in DOMAIN made' : i # j /\ made'[i].object.frames = made'[j].object.frames
                                        => made'[i].object.frames = 0
    BY <1>2, <1>4, <1>6 DEF Data, Framed
  <2>4. \A s \in 1..Capacity : Occupied(runtimes', s) =>
           /\ runtimes'[s].value.frames <= nextDomain'
           /\ runtimes'[s].value.frames = nextDomain' => \E u \in Threads : Holds(u, {"state", "handle"})'
    BY <1>1, <1>14 DEF Data, Framed, Occupied
  <2>5. \A r, s \in 1..Capacity : r # s /\ Occupied(runtimes', r) /\ Occupied(runtimes', s)
                                        => runtimes'[r].value.frames # runtimes'[s].value.frames
    BY <1>1 DEF Data, Framed, Occupied
  <2> QED
    BY <2>2, <2>3, <2>4, <2>5 DEF Framed
<1> QED
  BY <1>8, <1>10, <1>12, <1>13, <1>15 DEF Data

(* emplace: the runtime is in the table, and not in the hot copy yet. *)
LEMMA ConstructRuntime ==
    ASSUME Types, Gated, Data, NEW t \in Threads, Construct(t), call[t].kind # "registry"
    PROVE  Types' /\ Data'
<1>1. /\ Plain(t) /\ Step(t) = "construct" /\ Gate(t) = "store" /\ call[t].kind = "create"
      /\ UNCHANGED <<hot, nextDomain, nextBlock, block, claimed, call, calls>>
  BY Stands, PlainSteps, CallAt DEF Construct, Within
<1>2. /\ Fresh(t) /\ found[t].frames = 0 /\ found[t] \in Objects /\ found \in [Threads -> Objects]
      /\ PastStore(t) /\ KnowsOf(t)
  BY <1>1 DEF Fresh, Data, Registered, Types, StoreTypeOK, PastStore, Inner, Knows
<1>3. nextDomain \in 1..MaxDomain
  BY <1>1, <1>2, StoreAssumption DEF KnowsOf, Holds, Types, StoreTypeOK
<1>4. PICK s \in 1..Capacity :
         /\ FirstFree(runtimes, s)
         /\ runtimes' = Emplaced(runtimes, s, [found[t] EXCEPT !.frames = nextDomain])
         /\ found' = [found EXCEPT ![t] = [found[t] EXCEPT !.frames = nextDomain]]
         /\ made' = Append(made, Made([found[t] EXCEPT !.frames = nextDomain], HandleAt(runtimes, s)))
         /\ Goto(t, "state", "store")
  BY DEF Construct
<1>5. PICK o, e : o = [found[t] EXCEPT !.frames = nextDomain] /\ e = Made(o, HandleAt(runtimes, s))
  OBVIOUS
<1>6. o \in Objects /\ o.frames = nextDomain /\ o.registry = found[t].registry /\ o # Vacant
  BY <1>2, <1>3, <1>5, ObjectAssumption DEF Objects
<1>7. runtimes \in Table(1..Capacity, Objects) /\ made \in Seq(Entry)
  BY DEF Types, StoreTypeOK
<1>8. e \in Entry /\ e.object = o
  <2>1. HandleAt(runtimes, s) \in RuntimeHandle
    BY <1>7 DEF HandleAt, RuntimeHandle, Table
  <2> QED
    BY <1>5, <1>6, <2>1 DEF Made, Entry
<1>9. /\ runtimes' \in Table(1..Capacity, Objects)
      /\ runtimes'[s].value = o /\ ~Occupied(runtimes, s)
      /\ \A r \in 1..Capacity : r # s => runtimes'[r] = runtimes[r]
  BY <1>4, <1>5, <1>6, <1>7 DEF Table, Emplaced, FirstFree
<1>10. found' \in [Threads -> Objects] /\ found'[t] = o /\ \A u \in Threads : u # t => found'[u] = found[u]
  BY <1>2, <1>4, <1>5, <1>6
<1>11. Step(t)' = "state" /\ Gate(t)' = "store" /\ \A u \in Threads : u # t => Same(u)
  BY <1>1, <1>4, <1>10, Moves DEF Steps, Gates
<1>12. PICK n : /\ n \notin DOMAIN made /\ DOMAIN made' = DOMAIN made \cup {n} /\ made'[n] = e
                /\ \A i \in DOMAIN made : made'[i] = made[i]
  BY <1>4, <1>5, <1>7, <1>8, AppendOne
<1>13. Types'
  BY <1>1, <1>4, <1>5, <1>7, <1>8, <1>9, <1>10, AppendOne, PlainTypes DEF Types, StoreTypeOK, Plain
<1>14. \A u \in Threads : u # t => ~Changer(u) /\ ~Changer(u)' /\ ~Holds(u, {"state", "handle"})
  BY <1>2, <1>11, Alone DEF Changer, Holds, Same
<1>15. ~Changer(t) /\ ~Holds(t, {"state", "handle"}) /\ Holds(t, {"state", "handle"})' /\ ~Fresh(t)' /\ ~Empty(t)'
  BY <1>1, <1>11 DEF Changer, Holds, Fresh, Empty, Waiting
<1>16. Knows'
  <2>1. KnowsOf(t)'
    BY <1>3, <1>6, <1>9, <1>10, <1>11, <1>1 DEF KnowsOf, Holds
  <2>2. \A u \in Threads : u # t => KnowsOf(u)'
    BY <1>1, <1>2, <1>11, OthersKnow DEF Data, Knows
  <2> QED
    BY <1>1, <2>1, <2>2 DEF Data, Knows, UseAndDestroyApart
<1>17. Registered'
  BY <1>1, <1>2, <1>4, <1>5, <1>6, <1>8, <1>11, <1>15, RegisteredMade DEF Data
<1>18. \A r \in 1..Capacity : Occupied(runtimes', r) <=> Occupied(runtimes, r) \/ r = s
  BY <1>6, <1>9 DEF Occupied
<1>19. /\ \A i \in DOMAIN made : made[i].object.frames < nextDomain /\ made[i].object.frames \in Nat
       /\ \A r \in 1..Capacity : Occupied(runtimes, r) =>
             runtimes[r].value.frames < nextDomain /\ runtimes[r].value.frames \in Nat
  <2>1. ~\E u \in Threads : Holds(u, {"state", "handle"})
    BY <1>14, <1>15
  <2>2. \A i \in DOMAIN made : made[i].object.frames \in Nat
    <3>1. \A i \in DOMAIN made : made[i] \in Entry
      BY <1>7
    <3> QED
      BY <3>1, StoreAssumption DEF Entry, Objects
  <2>3. \A r \in 1..Capacity : Occupied(runtimes, r) => runtimes[r].value.frames \in Nat
    BY <1>7, StoreAssumption DEF Table, Objects, Occupied
  <2> QED
    BY <1>3, <2>1, <2>2, <2>3, StoreAssumption DEF Data, Framed
<1>20. Framed'
  <2>1. \A i \in DOMAIN made' : /\ made'[i].object.frames <= nextDomain'
                                /\ made'[i].object.frames = nextDomain'
                                        => \E u \in Threads : Holds(u, {"state", "handle"})'
    BY <1>1, <1>3, <1>6, <1>8, <1>12, <1>15, <1>19
  <2>2. \A i, j \in DOMAIN made' : i # j /\ made'[i].object.frames = made'[j].object.frames
                                        => made'[i].object.frames = 0
    BY <1>3, <1>6, <1>8, <1>12, <1>19 DEF Data, Framed
  <2>3. \A r \in 1..Capacity : Occupied(runtimes', r) =>
           /\ runtimes'[r].value.frames <= nextDomain'
           /\ runtimes'[r].value.frames = nextDomain' => \E u \in Threads : Holds(u, {"state", "handle"})'
    BY <1>1, <1>3, <1>6, <1>9, <1>15, <1>18, <1>19
  <2>4. \A q, r \in 1..Capacity : q # r /\ Occupied(runtimes', q) /\ Occupied(runtimes', r)
                                        => runtimes'[q].value.frames # runtimes'[r].value.frames
    BY <1>3, <1>6, <1>9, <1>18, <1>19 DEF Data, Framed
  <2> QED
    BY <2>1, <2>2, <2>3, <2>4 DEF Framed
<1>21. \A u \in Threads, r \in 1..Capacity : ~Changing(u, r) /\ (Changing(u, r)' <=> u = t /\ r = s)
  <2>1. \A u \in Threads, r \in 1..Capacity : ~Changing(u, r) /\ (u # t => ~Changing(u, r)')
    BY <1>14, <1>15 DEF Changing, Changer, Holds
  <2>2. \A r \in 1..Capacity : Changing(t, r)' <=> runtimes'[r].value = o
    BY <1>10, <1>11 DEF Changing, Holds
  <2>3. \A r \in 1..Capacity : runtimes'[r].value = o <=> r = s
    BY <1>3, <1>6, <1>9, <1>19 DEF Occupied
  <2> QED
    BY <2>1, <2>2, <2>3
<1>22. HotFollows'
  <2>1. hot[s].handle = NoHandle
    BY <1>9, <1>21 DEF Data, HotFollows
  <2>2. \A r \in 1..Capacity : hot[r].handle # NoHandle =>
           Resolves(runtimes', hot[r].handle) /\ hot[r].handle.slot = r /\ hot[r].state = runtimes'[r].value
    <3> SUFFICES ASSUME NEW r \in 1..Capacity, hot[r].handle # NoHandle
                 PROVE  Resolves(runtimes', hot[r].handle) /\ hot[r].handle.slot = r /\ hot[r].state = runtimes'[r].value
      OBVIOUS
    <3>1. Resolves(runtimes, hot[r].handle) /\ hot[r].handle.slot = r /\ hot[r].state = runtimes[r].value /\ r # s
      BY <2>1 DEF Data, HotFollows
    <3>2. runtimes'[r] = runtimes[r] /\ r \in DOMAIN runtimes'
      BY <1>9, <3>1 DEF Table
    <3> QED
      BY <3>1, <3>2 DEF Resolves, Occupied
  <2>3. \A r \in 1..Capacity : (hot[r].handle = NoHandle <=> ~Occupied(runtimes', r)) \/ r = s
    BY <1>18, <1>21 DEF Data, HotFollows
  <2> QED
    BY <1>1, <1>18, <1>21, <2>1, <2>2, <2>3 DEF HotFollows
<1> QED
  BY <1>13, <1>16, <1>17, <1>20, <1>22 DEF Data

-------------------------------------------------------------------------------
(* The invariant *)

LEMMA StoreInitInv == StoreInit => StoreInv
<1> SUFFICES ASSUME StoreInit PROVE StoreInv
  OBVIOUS
<1>1. /\ runtimes = EmptyTable(1..Capacity) /\ hot = [s \in 1..Capacity |-> NotHot]
      /\ nextDomain = 1 /\ nextBlock = 1 /\ block = [t \in Threads |-> [next |-> 0, end |-> 0]]
      /\ claimed = [g \in Gates |-> FALSE] /\ pc = [t \in Threads |-> <<"out", "store">>]
      /\ call = [t \in Threads |-> NoCall] /\ found = [t \in Threads |-> NoObject] /\ made = <<>>
  BY DEF StoreInit
<1>2. \A t \in Threads : Step(t) = "out" /\ Gate(t) = "store"
  BY <1>1 DEF Step, Gate
<1>3. \A s \in 1..Capacity : ~Occupied(runtimes, s) /\ hot[s].handle = NoHandle
  BY <1>1 DEF EmptyTable, Occupied, NotHot
<1>4. Types
  <2>1. NoObject \in Objects /\ NoHandle \in RuntimeHandle \cup {NoHandle} /\ NoCall \in CallType
    BY StoreAssumption DEF NoObject, Objects, NoCall, CallType, Kinds
  <2>2. runtimes \in Table(1..Capacity, Objects)
    BY <1>1, ObjectAssumption, EmptyTableHasNone
  <2>3. hot \in [1..Capacity -> [handle : RuntimeHandle \cup {NoHandle}, state : Objects]]
    BY <1>1, <2>1 DEF NotHot
  <2>4. nextDomain \in 1..MaxDomain + 1 /\ nextBlock \in 1..MaxRegistry + 1
    BY <1>1, StoreAssumption
  <2>5. claimed \in [Gates -> BOOLEAN] /\ found \in [Threads -> Objects]
    BY <1>1, <2>1
  <2>6. block \in [Threads -> [next : 0..MaxRegistry + 1, end : 0..MaxRegistry + 1]]
    BY <1>1, StoreAssumption
  <2>7. call \in [Threads -> CallType] /\ \A t \in Threads : call[t].kind = "none"
    BY <1>1, <2>1 DEF NoCall
  <2>8. pc \in [Threads -> Steps \X Gates]
    BY <1>1 DEF Steps, Gates
  <2>9. \A t \in Threads : OnPath(t) /\ (call[t].kind \in OnRuntime => call[t].runtime \in RuntimeHandle)
    BY <1>2, <2>7 DEF OnPath, StorePoints, OnRuntime
  <2>10. made \in Seq(Entry)
    BY <1>1
  <2> QED
    BY <2>2, <2>3, <2>4, <2>5, <2>6, <2>7, <2>8, <2>9, <2>10 DEF Types, StoreTypeOK
<1>5. \A t \in Threads, g \in Gates : ~PastGate(t, g)
  BY <1>2 DEF PastGate, PastStore, PastSource, Inner
<1>6. Gated
  BY <1>1, <1>4, <1>5, PastIs DEF Gated
<1>7. \A t \in Threads, g \in Gates : ~At2(t, {"asleep"}, g)
  BY <1>2 DEF At2
<1>8. WakesUp
  BY <1>4, <1>7, WakesIs
<1>9. HotFollows
  BY <1>2, <1>3 DEF HotFollows, Changing, Holds
<1>10. Knows
  <2>1. \A t \in Threads : KnowsOf(t)
    BY <1>2 DEF KnowsOf, Holds
  <2>2. \A t \in Threads : call[t].kind = "none"
    BY <1>1 DEF NoCall
  <2> QED
    BY <2>1, <2>2 DEF Knows, UseAndDestroyApart
<1>11. DOMAIN made = {}
  BY <1>1
<1>12. Framed
  BY <1>3, <1>11 DEF Framed
<1>13. Registered
  <2>1. \A t \in Threads : ~Fresh(t) /\ found[t] = NoObject
    BY <1>1, <1>2 DEF Fresh
  <2>2. \A t \in Threads : block[t].next = 0 /\ block[t].end = 0
    BY <1>1
  <2>3. \A t \in Threads, d \in 1..MaxRegistry : ~Covers(block[t], d)
    BY <2>2, StoreAssumption DEF Covers
  <2>4. \A t \in Threads : block[t].next <= block[t].end /\ block[t].end <= nextBlock
    BY <1>1, <2>2
  <2> QED
    BY <1>11, <2>1, <2>2, <2>3, <2>4 DEF Registered
<1> QED
  BY <1>4, <1>6, <1>8, <1>9, <1>10, <1>12, <1>13 DEF StoreInv

LEMMA StoreNextInv == StoreInv /\ StoreNext => StoreInv'
<1> SUFFICES ASSUME StoreInv, StoreNext PROVE StoreInv'
  OBVIOUS
<1>1. Types /\ Gated /\ Data /\ WakesUp
  BY DEF StoreInv, Data
<1>2. PICK t \in Threads : Calls(t) \/ Pass(t) \/ Within(t) \/ \E g \in Gates : Spurious(t, g)
  BY DEF StoreNext
<1>3. CASE Pass(t) \/ \E g \in Gates : Spurious(t, g)
  <2>1. Types' /\ Gated' /\ WakesUp'
    BY <1>1, <1>3, GatesKeep
  <2>2. Data'
    BY <1>1, <1>3, GateKeepsData
  <2> QED
    BY <2>1, <2>2 DEF StoreInv, Data
<1>4. CASE Calls(t) \/ Within(t)
  <2>1. Types' /\ Data'
    <3>1. CASE Calls(t)
      BY <1>1, <3>1, CallsKeep
    <3>2. CASE Create(t) \/ Register(t) \/ Change(t) \/ LoadHandle(t) \/ LoadState(t) \/ Use(t)
      BY <1>1, <3>2, ReadingKeeps
    <3>3. CASE TakeDomain(t)
      BY <1>1, <3>3, TakeDomainKeeps
    <3>4. CASE Reserve(t)
      BY <1>1, <3>4, ReserveKeeps
    <3>5. CASE Construct(t)
      BY <1>1, <3>5, ConstructRegistry, ConstructRuntime
    <3>6. CASE StoreState(t)
      BY <1>1, <3>6, StoreStateKeeps
    <3>7. CASE StoreHandle(t)
      BY <1>1, <3>7, StoreHandleKeeps
    <3>8. CASE Destroy(t)
      BY <1>1, <3>8, DestroyKeeps
    <3>9. CASE ClearState(t)
      BY <1>1, <3>9, ClearStateKeeps
    <3>10. CASE Erase(t)
      BY <1>1, <3>10, EraseKeeps
    <3>11. CASE Return(t)
      BY <1>1, <3>11, ReturnKeeps
    <3> QED
      BY <1>4, <3>1, <3>2, <3>3, <3>4, <3>5, <3>6, <3>7, <3>8, <3>9, <3>10, <3>11 DEF Within
  <2>2. Plain(t)
    BY <1>1, <1>4, PlainSteps
  <2>3. Gated' /\ WakesUp'
    BY <1>1, <2>1, <2>2, PlainKeepsGates
  <2> QED
    BY <2>1, <2>3 DEF StoreInv, Data
<1> QED
  BY <1>2, <1>3, <1>4

LEMMA StoreStays == StoreInv /\ UNCHANGED storeVars => StoreInv'
<1> SUFFICES ASSUME StoreInv, UNCHANGED storeVars PROVE StoreInv'
  OBVIOUS
<1>1. UNCHANGED <<runtimes, hot, nextDomain, nextBlock, block, claimed, pc, call, found, made>>
  BY DEF storeVars
<1>2. \A t \in Threads : Step(t)' = Step(t) /\ Gate(t)' = Gate(t) /\ Same(t)
  BY <1>1 DEF Step, Gate, Same
<1>3. Types /\ Gated /\ Data /\ WakesUp
  BY DEF StoreInv, Data
<1>4. Types'
  <2>1. \A u \in Threads : OnPath(u)'
    BY <1>1, <1>2, <1>3 DEF Types, OnPath
  <2> QED
    BY <1>1, <1>3, <2>1 DEF Types, StoreTypeOK
<1>5. \A u \in Threads, g \in Gates :
         (Past(u, g)' <=> Past(u, g)) /\ (\A x : At(u, x, g)' <=> At(u, x, g)) /\ (Wakes(u, g)' <=> Wakes(u, g))
  BY <1>1 DEF Past, At, Wakes
<1>6. Gated' /\ WakesUp'
  BY <1>1, <1>3, <1>5 DEF Gated, WakesUp
<1>7. \A u \in Threads : KnowsOf(u)'
  BY <1>1, <1>2, <1>3, OthersKnowStill DEF Data, Knows
<1>8. \A u \in Threads : (Fresh(u)' => Fresh(u) /\ found'[u] = found[u]) /\ (Empty(u)' => found'[u] = NoObject)
  BY <1>1, <1>2, <1>3 DEF Fresh, Empty, Data, Registered
<1>9. Data'
  BY <1>1, <1>2, <1>3, <1>7, <1>8, Quiet DEF SameMade, UseAndDestroyApart, Data, Knows
<1> QED
  BY <1>4, <1>6, <1>9 DEF StoreInv, Data

-------------------------------------------------------------------------------
(* What the invariant gives *)

LEMMA StoreInvGives == StoreInv => StoreHolds
<1> SUFFICES ASSUME StoreInv PROVE StoreHolds
  OBVIOUS
<1>1. Types /\ Gated /\ Data
  BY DEF StoreInv, Data
<1>2. GatesExclude
  <2> SUFFICES ASSUME NEW g \in Gates
               PROVE  Cardinality({t \in Threads : Past(t, g)}) = IF claimed[g] THEN 1 ELSE 0
    BY DEF GatesExclude
  <2>1. CASE claimed[g]
    <3>1. PICK t \in Threads : Past(t, g)
      BY <1>1, <2>1 DEF Gated
    <3>2. {u \in Threads : Past(u, g)} = {t}
      BY <1>1, <3>1 DEF Gated
    <3> QED
      BY <2>1, <3>2, FS_Singleton
  <2>2. CASE ~claimed[g]
    <3>1. {u \in Threads : Past(u, g)} = {}
      BY <1>1, <2>2 DEF Gated
    <3> QED
      BY <2>2, <3>1, FS_EmptySet
  <2> QED
    BY <2>1, <2>2
<1>3. HotAgrees
  <2>1. ~claimed["store"] => \A t \in Threads, s \in 1..Capacity : ~Changing(t, s)
    <3> SUFFICES ASSUME ~claimed["store"], NEW t \in Threads, NEW s \in 1..Capacity, Changing(t, s) PROVE FALSE
      OBVIOUS
    <3>1. PastStore(t)
      BY <1>1, CallAt DEF Changing, Holds, PastStore, Inner
    <3> QED
      BY <1>1, <3>1, PastIs DEF Gated, PastGate, Gates
  <2> QED
    BY <1>1, <2>1 DEF HotAgrees, Data, HotFollows
<1>4. OnlyLiveOnes
  <2> SUFFICES ASSUME NEW t \in Threads, Step(t) \in {"using", "change"}
               PROVE  Resolves(runtimes, call[t].runtime) /\ found[t] = Value(runtimes, call[t].runtime)
    BY DEF OnlyLiveOnes, Step
  <2>1. Gate(t) = "store" /\ KnowsOf(t)
    BY <1>1, CallAt, PlaceIsPair DEF Types, SourcePoints, Waiting, Data, Knows
  <2>2. CASE Step(t) = "using"
    <3>1. Holds(t, {"read", "using"}) /\ Holds(t, {"using"})
      BY <2>1, <2>2 DEF Holds
    <3> QED
      BY <1>1, <2>1, <3>1, Readers DEF KnowsOf, Data, HotFollows, Value
  <2>3. CASE Step(t) = "change"
    BY <2>1, <2>3 DEF KnowsOf, Holds
  <2> QED
    BY <2>2, <2>3
<1>5. DomainsApart
  BY <1>1 DEF DomainsApart, Data, Framed, Registered
<1> QED
  BY <1>1, <1>2, <1>3, <1>4, <1>5 DEF StoreHolds, StoreInv, Types

LEMMA StoreInvariance == StoreSpec => []StoreInv
<1>1. StoreInv /\ [StoreNext]_storeVars => StoreInv'
  BY StoreNextInv, StoreStays
<1> QED
  BY <1>1, StoreInitInv, PTL DEF StoreSpec

(* The gates let one thread through each and lose no wake-up, the hot copy     *)
(* names only runtimes that live and shows each with its own state, a call     *)
(* works on a runtime that is alive, and no two runtimes share a domain: for   *)
(* any number of threads and calls (runtime_store.hpp, rare_global_gate.hpp).  *)
THEOREM StoreAgrees == StoreSpec => []StoreHolds
BY StoreInvGives, StoreInvariance, PTL

(* The joined behaviours of CoreRuntime keep both invariants.                  *)
LEMMA CoreInvariance == CoreSpec => [](Inv /\ StoreInv)
<1>1. CoreInit => Inv /\ StoreInv
  BY InitInv, StoreInitInv DEF CoreInit
<1>2. Inv /\ StoreInv /\ [CoreNext]_<<part, vars, storeVars, backendVars>> => Inv' /\ StoreInv'
  <2> SUFFICES ASSUME Inv, StoreInv, [CoreNext]_<<part, vars, storeVars, backendVars>> PROVE Inv' /\ StoreInv'
    OBVIOUS
  <2>1. CASE Next /\ UNCHANGED storeVars
    BY <2>1, NextInv, StoreStays
  <2>2. CASE StoreNext /\ UNCHANGED vars
    BY <2>2, NextInv, StoreNextInv
  <2>3. CASE UNCHANGED vars /\ UNCHANGED storeVars
    BY <2>3, NextInv, StoreStays
  <2> QED
    BY <2>1, <2>2, <2>3 DEF CoreNext
<1> QED
  BY <1>1, <1>2, PTL DEF CoreSpec

(* In the core library as a whole the store keeps its invariant,               *)
THEOREM CoreStoreAgrees == CoreSpec => []StoreHolds
BY CoreInvariance, StoreInvGives, PTL

(* and leases, sessions and tickets theirs.                                    *)
THEOREM CoreRuntimeAgrees == CoreSpec => []RuntimeHolds
<1>1. Inv => RuntimeHolds
  BY DEF Inv, RuntimeHolds
<1> QED
  BY <1>1, CoreInvariance, PTL

(* A step of the store leaves the runtime a behaviour follows alone.           *)
LEMMA CoreSteps == [CoreNext]_<<part, vars, storeVars, backendVars>> => [Next]_vars
BY DEF CoreNext

(* No handle of a frame, a session or a ticket that has ended resolves again.  *)
THEOREM CoreHandlesStayDead == CoreSpec => NoHandleRevives
<1>1. CoreSpec => Spec
  BY CoreSteps, PTL DEF CoreSpec, CoreInit, Spec
<1> QED
  BY <1>1, HandlesStayDead, PTL

-------------------------------------------------------------------------------
(* The reference backend *)

Models == Table(1..ModelCapacity, Model)
Contexts == Table(1..ContextCapacity, Context)
Jobs == Table(1..JobCapacity, Job)

(* What a live handle is, and that there are finitely many.                    *)
LEMMA LiveIs ==
    ASSUME NEW n \in Nat, NEW V, NEW t \in Table(1..n, V)
    PROVE  /\ \A h : h \in Live(t) <=> h \in [slot : 1..n, generation : 1..MaxGeneration] /\ Resolves(t, h)
           /\ \A h \in Live(t) : Value(t, h) \in V /\ h.slot \in 1..n
           /\ IsFiniteSet(Live(t))
<1>1. DOMAIN t = 1..n
  BY DEF Table
<1>2. \A h : h \in Live(t) <=> h \in [slot : 1..n, generation : 1..MaxGeneration] /\ Resolves(t, h)
  BY <1>1 DEF Live, HandlesOf
<1>3. \A h \in Live(t) : Value(t, h) \in V /\ h.slot \in 1..n
  BY <1>1 DEF Live, Resolves, Occupied, Value, Table
<1> DEFINE slotOf == [h \in Live(t) |-> h.slot]
<1>4. slotOf \in [Live(t) -> 1..n] /\ \A g, h \in Live(t) : slotOf[g] = slotOf[h] => g = h
  BY <1>3, LiveIsOne
<1>5. slotOf \in Injection(Live(t), 1..n)
  BY <1>4, Fun_IsInj
<1> QED
  BY <1>2, <1>3, <1>5, FS_Interval, FS_Injection

LEMMA BackendSets ==
    /\ \A t \in Models : /\ \A h : h \in Live(t) <=> h \in ModelHandle /\ Resolves(t, h)
                         /\ \A h \in Live(t) : Value(t, h) \in Model /\ h.slot \in DOMAIN t
    /\ \A t \in Contexts : /\ \A h : h \in Live(t) <=> h \in ContextHandle /\ Resolves(t, h)
                           /\ \A h \in Live(t) : Value(t, h) \in Context /\ h.slot \in DOMAIN t
                           /\ IsFiniteSet(Live(t))
    /\ \A t \in Jobs : /\ \A h : h \in Live(t) <=> h \in JobHandle /\ Resolves(t, h)
                       /\ \A h \in Live(t) : Value(t, h) \in Job /\ h.slot \in DOMAIN t
                       /\ IsFiniteSet(Live(t))
<1>1. ModelCapacity \in Nat /\ ContextCapacity \in Nat /\ JobCapacity \in Nat
  BY BackendAssumption
<1>2. \A t \in Models : DOMAIN t = 1..ModelCapacity
  BY DEF Models, Table
<1>3. \A t \in Contexts : DOMAIN t = 1..ContextCapacity
  BY DEF Contexts, Table
<1>4. \A t \in Jobs : DOMAIN t = 1..JobCapacity
  BY DEF Jobs, Table
<1>5. ASSUME NEW t \in Models
      PROVE  /\ \A h : h \in Live(t) <=> h \in ModelHandle /\ Resolves(t, h)
             /\ \A h \in Live(t) : Value(t, h) \in Model /\ h.slot \in DOMAIN t
  BY <1>1, <1>2, LiveIs DEF Models, ModelHandle
<1>6. ASSUME NEW t \in Contexts
      PROVE  /\ \A h : h \in Live(t) <=> h \in ContextHandle /\ Resolves(t, h)
             /\ \A h \in Live(t) : Value(t, h) \in Context /\ h.slot \in DOMAIN t
             /\ IsFiniteSet(Live(t))
  BY <1>1, <1>3, LiveIs DEF Contexts, ContextHandle
<1>7. ASSUME NEW t \in Jobs
      PROVE  /\ \A h : h \in Live(t) <=> h \in JobHandle /\ Resolves(t, h)
             /\ \A h \in Live(t) : Value(t, h) \in Job /\ h.slot \in DOMAIN t
             /\ IsFiniteSet(Live(t))
  BY <1>1, <1>4, LiveIs DEF Jobs, JobHandle
<1> QED
  BY <1>5, <1>6, <1>7

(* Setting a count sets nothing else.                                          *)
Claiming(t, c, k) == [t EXCEPT ![c.slot].value.active = k]
Basing(t, m, k) == [t EXCEPT ![m.slot].value.contexts = k]

LEMMA ClaimingSetsOne ==
    ASSUME NEW t \in Contexts, NEW c \in Live(t), NEW k \in Nat
    PROVE  /\ Claiming(t, c, k) \in Contexts
           /\ Live(Claiming(t, c, k)) = Live(t)
           /\ Value(Claiming(t, c, k), c).active = k
           /\ Value(Claiming(t, c, k), c).queue = Value(t, c).queue
           /\ Value(Claiming(t, c, k), c).model = Value(t, c).model
           /\ \A g \in Live(t) : g # c => Value(Claiming(t, c, k), g) = Value(t, g)
<1> DEFINE v == [Value(t, c) EXCEPT !.active = k]
<1>1. Value(t, c) \in Context /\ c.slot \in DOMAIN t
  BY BackendSets
<1>2. v \in Context /\ v.active = k /\ v.queue = Value(t, c).queue /\ v.model = Value(t, c).model
  BY <1>1 DEF Context
<1>3. Claiming(t, c, k) = Updated(t, c, v)
  BY <1>1 DEF Claiming, Updated, Value, Contexts, Table
<1> HIDE DEF v
<1>4. /\ Updated(t, c, v) \in Contexts
      /\ Live(Updated(t, c, v)) = Live(t)
      /\ Value(Updated(t, c, v), c) = v
      /\ \A g \in Live(t) : g # c => Value(Updated(t, c, v), g) = Value(t, g)
  BY <1>2, UpdateChangesOne, BackendAssumption DEF Contexts
<1> QED
  BY <1>2, <1>3, <1>4

LEMMA BasingSetsOne ==
    ASSUME NEW t \in Models, NEW m \in Live(t), NEW k \in Nat
    PROVE  /\ Basing(t, m, k) \in Models
           /\ Live(Basing(t, m, k)) = Live(t)
           /\ Value(Basing(t, m, k), m).contexts = k
           /\ \A g \in Live(t) : g # m => Value(Basing(t, m, k), g) = Value(t, g)
<1> DEFINE v == [Value(t, m) EXCEPT !.contexts = k]
<1>1. Value(t, m) \in Model /\ m.slot \in DOMAIN t
  BY BackendSets
<1>2. v \in Model /\ v.contexts = k
  BY <1>1 DEF Model
<1>3. Basing(t, m, k) = Updated(t, m, v)
  BY <1>1 DEF Basing, Updated, Value, Models, Table
<1> HIDE DEF v
<1>4. /\ Updated(t, m, v) \in Models
      /\ Live(Updated(t, m, v)) = Live(t)
      /\ Value(Updated(t, m, v), m) = v
      /\ \A g \in Live(t) : g # m => Value(Updated(t, m, v), g) = Value(t, g)
  BY <1>2, UpdateChangesOne, BackendAssumption DEF Models
<1> QED
  BY <1>2, <1>3, <1>4

(* What the invariant comes to, once the counts are right.                     *)
LEMMA BackendFollows ==
    ASSUME models' \in Models, contexts' \in Contexts, jobs' \in Jobs, PlacesCounted', ContextsCounted',
           \A j \in Live(jobs') : /\ Value(jobs', j).counted <=> Value(jobs', j).state # "cancelled"
                                  /\ Value(jobs', j).counted => Value(jobs', j).context \in Live(contexts')
    PROVE  BackendHolds'
<1>1. \A c \in Live(contexts') : HasModel(c)'
  BY DEF ContextsCounted, HasModel, Live
<1>2. JobsHavePlaces'
  BY <1>1 DEF JobsHavePlaces
<1> QED
  BY <1>2 DEF BackendHolds, BackendTypes, Models, Contexts, Jobs

LEMMA BackendKnows ==
    ASSUME BackendHolds
    PROVE  /\ models \in Models /\ contexts \in Contexts /\ jobs \in Jobs
           /\ PlacesCounted /\ ContextsCounted
           /\ \A j \in Live(jobs) : /\ Value(jobs, j).counted <=> Value(jobs, j).state # "cancelled"
                                    /\ Value(jobs, j).counted => Value(jobs, j).context \in Live(contexts)
           /\ \A c : IsFiniteSet(Counted(c))
           /\ \A m : IsFiniteSet(ContextsOf(m))
<1>1. models \in Models /\ contexts \in Contexts /\ jobs \in Jobs
  BY DEF BackendHolds, BackendTypes, Models, Contexts, Jobs
<1>2. IsFiniteSet(Live(jobs)) /\ IsFiniteSet(Live(contexts))
  BY <1>1, BackendSets
<1>3. \A c : IsFiniteSet(Counted(c))
  <2>1. \A c : Counted(c) \subseteq Live(jobs)
    BY DEF Counted, JobsOf
  <2> QED
    BY <1>2, <2>1, FS_Subset
<1>4. \A m : IsFiniteSet(ContextsOf(m))
  <2>1. \A m : ContextsOf(m) \subseteq Live(contexts)
    BY DEF ContextsOf
  <2> QED
    BY <1>2, <2>1, FS_Subset
<1> QED
  BY <1>1, <1>3, <1>4 DEF BackendHolds, JobsHavePlaces

(* The models and contexts a count is set in are the same ones.                *)
LEMMA ContextsRecounted ==
    ASSUME BackendHolds, models' = models, Live(contexts') = Live(contexts),
           \A c \in Live(contexts) : Value(contexts', c).model = Value(contexts, c).model
    PROVE  ContextsCounted'
<1>1. \A m : ContextsOf(m)' = ContextsOf(m)
  BY DEF ContextsOf
<1> QED
  BY <1>1, BackendKnows DEF ContextsCounted

(* Jobs that run keep their places.                                            *)
LEMMA RunningKeeps ==
    ASSUME BackendHolds, UNCHANGED <<models, contexts>>, jobs' \in Jobs, Live(jobs') = Live(jobs),
           \A j \in Live(jobs) : /\ Value(jobs', j).context = Value(jobs, j).context
                                 /\ Value(jobs', j).counted <=> Value(jobs, j).counted
                                 /\ Value(jobs', j).state = "cancelled" <=> Value(jobs, j).state = "cancelled"
    PROVE  BackendHolds'
<1>1. \A c : Counted(c)' = Counted(c)
  BY DEF Counted, JobsOf
<1>2. PlacesCounted'
  BY <1>1, BackendKnows DEF PlacesCounted
<1>3. ContextsCounted'
  BY ContextsRecounted
<1>4. \A j \in Live(jobs') : /\ Value(jobs', j).counted <=> Value(jobs', j).state # "cancelled"
                             /\ Value(jobs', j).counted => Value(jobs', j).context \in Live(contexts')
  BY BackendKnows
<1> QED
  BY <1>2, <1>3, <1>4, BackendKnows, BackendFollows

(* What run_ticket makes of a job: a queued one ends, nothing else changes.    *)
LEMMA RunMeans ==
    ASSUME NEW job \in Job, NEW outcome \in Outcomes
    PROVE  /\ run_ticket(job, outcome) \in Job
           /\ run_ticket(job, outcome).context = job.context
           /\ run_ticket(job, outcome).counted = job.counted
           /\ run_ticket(job, outcome).state = "cancelled" <=> job.state = "cancelled"
           /\ job.state # "queued" => run_ticket(job, outcome).state = job.state
<1>1. CASE job.state # "queued"
  BY <1>1 DEF run_ticket
<1>2. CASE job.state = "queued"
  <2>1. PICK s : s = IF HasModel(job.context) THEN outcome ELSE "failed"
    OBVIOUS
  <2>2. s \in {"complete", "failed"}
    BY <2>1 DEF Outcomes
  <2>3. run_ticket(job, outcome) = [job EXCEPT !.state = s]
    BY <1>2, <2>1 DEF run_ticket
  <2> QED
    BY <1>2, <2>2, <2>3 DEF Job
<1> QED
  BY <1>1, <1>2

LEMMA RunJobKeeps ==
    ASSUME BackendHolds, NEW j \in JobHandle, RunJob(j)
    PROVE  BackendHolds'
<1>1. PICK outcome \in Outcomes : jobs' = [jobs EXCEPT ![j.slot].value = run_ticket(@, outcome)]
  BY DEF RunJob
<1>2. jobs \in Jobs /\ j \in Live(jobs) /\ Value(jobs, j) \in Job /\ j.slot \in DOMAIN jobs
  BY BackendKnows, BackendSets DEF RunJob
<1>3. PICK v : v = run_ticket(Value(jobs, j), outcome)
  OBVIOUS
<1>4. jobs' = Updated(jobs, j, v)
  BY <1>1, <1>2, <1>3 DEF Updated, Value
<1>5. /\ v \in Job /\ v.context = Value(jobs, j).context /\ v.counted = Value(jobs, j).counted
      /\ v.state = "cancelled" <=> Value(jobs, j).state = "cancelled"
  BY <1>2, <1>3, RunMeans
<1>6. /\ jobs' \in Jobs /\ Live(jobs') = Live(jobs) /\ Value(jobs', j) = v
      /\ \A g \in Live(jobs) : g # j => Value(jobs', g) = Value(jobs, g)
  BY <1>2, <1>4, <1>5, UpdateChangesOne, BackendAssumption DEF Jobs
<1> QED
  BY <1>5, <1>6, RunningKeeps DEF RunJob

(* Synchronizing runs some of the jobs, each for itself.                       *)
LEMMA SynchronizeMeans ==
    ASSUME BackendHolds, NEW c \in ContextHandle, SynchronizeContext(c)
    PROVE  /\ jobs' \in Jobs /\ Live(jobs') = Live(jobs)
           /\ \A j \in Live(jobs) : Value(jobs', j) = Value(jobs, j)
                                    \/ \E o \in Outcomes : Value(jobs', j) = run_ticket(Value(jobs, j), o)
<1>1. PICK outcome \in [1..JobCapacity -> Outcomes] :
        jobs' = [s \in DOMAIN jobs |->
                   IF Occupied(jobs, s) /\ jobs[s].value.context = c
                   THEN [jobs[s] EXCEPT !.value = run_ticket(@, outcome[s])] ELSE jobs[s]]
  BY DEF SynchronizeContext
<1> DEFINE Slots == [generation : 1..MaxGeneration, retired : BOOLEAN, value : Job \cup {Vacant}]
<1>2. DOMAIN jobs = 1..JobCapacity /\ \A s \in 1..JobCapacity : jobs[s] \in Slots
  BY BackendKnows DEF Jobs, Table
<1>3. \A s \in 1..JobCapacity : jobs'[s] = IF Occupied(jobs, s) /\ jobs[s].value.context = c
                                           THEN [jobs[s] EXCEPT !.value = run_ticket(@, outcome[s])] ELSE jobs[s]
  BY <1>1, <1>2
<1>4. ASSUME NEW s \in 1..JobCapacity
      PROVE  /\ jobs'[s] \in Slots /\ jobs'[s].generation = jobs[s].generation
             /\ Occupied(jobs', s) <=> Occupied(jobs, s)
             /\ jobs'[s].value = jobs[s].value \/ \E o \in Outcomes : jobs'[s].value = run_ticket(jobs[s].value, o)
  <2>1. jobs[s] \in Slots
    BY <1>2
  <2>2. CASE Occupied(jobs, s) /\ jobs[s].value.context = c
    <3>1. jobs[s].value \in Job /\ outcome[s] \in Outcomes
      BY <2>1, <2>2 DEF Occupied
    <3>2. PICK v : v = run_ticket(jobs[s].value, outcome[s])
      OBVIOUS
    <3>3. v \in Job /\ v # Vacant
      BY <3>1, <3>2, RunMeans, BackendAssumption
    <3>4. jobs'[s] = [jobs[s] EXCEPT !.value = v]
      BY <1>3, <2>2, <3>2
    <3> QED
      BY <2>1, <2>2, <3>1, <3>2, <3>3, <3>4 DEF Occupied
  <2>3. CASE ~(Occupied(jobs, s) /\ jobs[s].value.context = c)
    BY <1>3, <2>1, <2>3 DEF Occupied
  <2> QED
    BY <2>2, <2>3
<1>5. DOMAIN jobs' = 1..JobCapacity /\ jobs' = [s \in 1..JobCapacity |-> jobs'[s]]
  BY <1>1, <1>2
<1>6. jobs' \in Jobs
  BY <1>4, <1>5 DEF Jobs, Table
<1>7. Live(jobs') = Live(jobs)
  BY <1>2, <1>4, <1>5 DEF Live, HandlesOf, Resolves
<1>8. \A j \in Live(jobs) : j.slot \in 1..JobCapacity
  BY <1>2 DEF Live, Resolves
<1> QED
  BY <1>4, <1>6, <1>7, <1>8 DEF Value

LEMMA SynchronizeKeeps ==
    ASSUME BackendHolds, NEW c \in ContextHandle, SynchronizeContext(c)
    PROVE  BackendHolds'
<1>1. /\ jobs' \in Jobs /\ Live(jobs') = Live(jobs)
      /\ \A j \in Live(jobs) : Value(jobs', j) = Value(jobs, j)
                               \/ \E o \in Outcomes : Value(jobs', j) = run_ticket(Value(jobs, j), o)
  BY SynchronizeMeans
<1>2. \A j \in Live(jobs) : Value(jobs, j) \in Job
  BY BackendKnows, BackendSets
<1>3. ASSUME NEW j \in Live(jobs)
      PROVE  /\ Value(jobs', j).context = Value(jobs, j).context
             /\ Value(jobs', j).counted <=> Value(jobs, j).counted
             /\ Value(jobs', j).state = "cancelled" <=> Value(jobs, j).state = "cancelled"
  <2>1. CASE Value(jobs', j) = Value(jobs, j)
    BY <2>1
  <2>2. CASE \E o \in Outcomes : Value(jobs', j) = run_ticket(Value(jobs, j), o)
    BY <1>2, <2>2, RunMeans
  <2> QED
    BY <1>1, <2>1, <2>2
<1> QED
  BY <1>1, <1>3, RunningKeeps DEF SynchronizeContext

(* A place that is taken: one job more, and one more counted.                  *)
LEMMA SubmitJobKeeps ==
    ASSUME BackendHolds, NEW c \in ContextHandle, SubmitJob(c)
    PROVE  BackendHolds'
<1> DEFINE v == [context |-> c, state |-> "queued", counted |-> TRUE]
<1>1. PICK s \in 1..JobCapacity : FirstFree(jobs, s) /\ jobs' = Emplaced(jobs, s, v)
  BY DEF SubmitJob
<1>2. v \in Job /\ v.context = c /\ v.state = "queued" /\ v.counted
  BY DEF Job
<1> HIDE DEF v
<1>3. jobs \in Jobs /\ contexts \in Contexts /\ c \in Live(contexts) /\ Value(contexts, c) \in Context
  BY BackendKnows, BackendSets DEF SubmitJob
<1>4. PICK n :
      /\ jobs' \in Jobs /\ n \notin Live(jobs) /\ Live(jobs') = Live(jobs) \cup {n}
      /\ Value(jobs', n) = v /\ \A h \in Live(jobs) : Value(jobs', h) = Value(jobs, h)
  BY <1>1, <1>2, <1>3, EmplaceAddsOne, BackendAssumption DEF Jobs
<1>5. PICK k : k = Value(contexts, c).active + 1 /\ contexts' = Claiming(contexts, c, k)
  BY DEF SubmitJob, Claiming, Value
<1>6. k \in Nat /\ k <= Value(contexts, c).queue
  BY <1>3, <1>5 DEF Context, SubmitJob
<1>7. /\ contexts' \in Contexts /\ Live(contexts') = Live(contexts)
      /\ Value(contexts', c).active = k
      /\ Value(contexts', c).queue = Value(contexts, c).queue
      /\ Value(contexts', c).model = Value(contexts, c).model
      /\ \A g \in Live(contexts) : g # c => Value(contexts', g) = Value(contexts, g)
  BY <1>3, <1>5, <1>6, ClaimingSetsOne
<1>8. Counted(c)' = Counted(c) \cup {n} /\ n \notin Counted(c) /\ \A g : g # c => Counted(g)' = Counted(g)
  BY <1>2, <1>4 DEF Counted, JobsOf
<1>9. Cardinality(Counted(c)') = k
  <2>1. Cardinality(Counted(c)') = Cardinality(Counted(c)) + 1
    BY <1>8, BackendKnows, FS_AddElement
  <2> QED
    BY <1>3, <1>5, <2>1, BackendKnows DEF PlacesCounted
<1>10. PlacesCounted'
  <2>1. ASSUME NEW g \in Live(contexts')
        PROVE  Value(contexts', g).active = Cardinality(Counted(g)') /\ Value(contexts', g).active <= Value(contexts', g).queue
    <3>1. CASE g = c
      BY <1>6, <1>7, <1>9, <3>1
    <3>2. CASE g # c
      BY <1>7, <1>8, <2>1, <3>2, BackendKnows DEF PlacesCounted
    <3> QED
      BY <3>1, <3>2
  <2> QED
    BY <2>1 DEF PlacesCounted
<1>11. models' = models /\ models' \in Models
  BY BackendKnows DEF SubmitJob
<1>12. ContextsCounted'
  BY <1>7, <1>11, ContextsRecounted
<1>13. \A j \in Live(jobs') : /\ Value(jobs', j).counted <=> Value(jobs', j).state # "cancelled"
                              /\ Value(jobs', j).counted => Value(jobs', j).context \in Live(contexts')
  BY <1>2, <1>3, <1>4, <1>7, BackendKnows
<1> QED
  BY <1>4, <1>7, <1>10, <1>11, <1>12, <1>13, BackendFollows

(* A place that is given back, by a job that has one: the count of its context *)
(* follows, whether the job stays or goes.                                     *)
LEMMA ReleaseCounts ==
    ASSUME BackendHolds, NEW j \in Live(jobs), contexts' = release_ticket(Value(jobs, j)),
           \A c : Counted(c)' = Counted(c) \ {j}
    PROVE  /\ contexts' \in Contexts /\ PlacesCounted' /\ Live(contexts') = Live(contexts)
           /\ \A c \in Live(contexts) : Value(contexts', c).model = Value(contexts, c).model
<1>1. contexts \in Contexts /\ \A c : IsFiniteSet(Counted(c))
  BY BackendKnows
<1>2. CASE ~Value(jobs, j).counted
  <2>1. contexts' = contexts
    BY <1>2 DEF release_ticket
  <2>2. \A c : Counted(c)' = Counted(c)
    BY <1>2 DEF Counted
  <2> QED
    BY <1>1, <2>1, <2>2, BackendKnows DEF PlacesCounted
<1>3. CASE Value(jobs, j).counted
  <2>1. PICK c : c = Value(jobs, j).context
    OBVIOUS
  <2>2. c \in Live(contexts) /\ Value(contexts, c) \in Context /\ Resolves(contexts, c)
    BY <1>1, <1>3, <2>1, BackendKnows, BackendSets
  <2>3. PICK k : k = Value(contexts, c).active - 1 /\ contexts' = Claiming(contexts, c, k)
    BY <1>3, <2>1, <2>2 DEF release_ticket, Claiming, Value
  <2>4. j \in Counted(c) /\ \A g : g # c => j \notin Counted(g)
    BY <1>3, <2>1 DEF Counted, JobsOf
  <2>5. Cardinality(Counted(c)') = Cardinality(Counted(c)) - 1 /\ Cardinality(Counted(c)) # 0
    BY <1>1, <2>4, FS_RemoveElement, FS_EmptySet
  <2>6. Value(contexts, c).active = Cardinality(Counted(c)) /\ Value(contexts, c).active <= Value(contexts, c).queue
    BY <2>2, BackendKnows DEF PlacesCounted
  <2>7. k \in Nat /\ k = Cardinality(Counted(c)') /\ k <= Value(contexts, c).queue
    BY <2>2, <2>3, <2>5, <2>6 DEF Context
  <2>8. /\ contexts' \in Contexts /\ Live(contexts') = Live(contexts)
        /\ Value(contexts', c).active = k
        /\ Value(contexts', c).queue = Value(contexts, c).queue
        /\ Value(contexts', c).model = Value(contexts, c).model
        /\ \A g \in Live(contexts) : g # c => Value(contexts', g) = Value(contexts, g)
    BY <1>1, <2>2, <2>3, <2>7, ClaimingSetsOne
  <2>9. ASSUME NEW g \in Live(contexts')
        PROVE  Value(contexts', g).active = Cardinality(Counted(g)') /\ Value(contexts', g).active <= Value(contexts', g).queue
    <3>1. CASE g = c
      BY <2>7, <2>8, <3>1
    <3>2. CASE g # c
      <4>1. Counted(g)' = Counted(g)
        BY <2>4, <3>2
      <4> QED
        BY <2>8, <2>9, <3>2, <4>1, BackendKnows DEF PlacesCounted
    <3> QED
      BY <3>1, <3>2
  <2>10. PlacesCounted'
    BY <2>9 DEF PlacesCounted
  <2> QED
    BY <2>8, <2>10
<1> QED
  BY <1>2, <1>3

LEMMA CollectJobKeeps ==
    ASSUME BackendHolds, NEW j \in JobHandle, CollectJob(j)
    PROVE  BackendHolds'
<1>1. jobs \in Jobs /\ j \in Live(jobs)
  BY BackendKnows, BackendSets DEF CollectJob
<1>2. PICK H : H = {j}
  OBVIOUS
<1>3. jobs' = ErasedAll(jobs, H) /\ H \in SUBSET Live(jobs)
  BY <1>1, <1>2, EraseOne DEF CollectJob, Jobs
<1>4. /\ jobs' \in Jobs /\ Live(jobs') = Live(jobs) \ H
      /\ \A h \in Live(jobs) \ H : Value(jobs', h) = Value(jobs, h)
  BY <1>1, <1>3, EraseEndsThem, BackendAssumption DEF Jobs
<1>5. \A c : Counted(c)' = Counted(c) \ {j}
  BY <1>2, <1>4 DEF Counted, JobsOf
<1>6. contexts' = release_ticket(Value(jobs, j)) /\ models' = models
  BY DEF CollectJob
<1>7. /\ contexts' \in Contexts /\ PlacesCounted' /\ Live(contexts') = Live(contexts)
      /\ \A c \in Live(contexts) : Value(contexts', c).model = Value(contexts, c).model
  BY <1>1, <1>5, <1>6, ReleaseCounts
<1>8. ContextsCounted'
  BY <1>6, <1>7, ContextsRecounted
<1>9. \A h \in Live(jobs') : /\ Value(jobs', h).counted <=> Value(jobs', h).state # "cancelled"
                             /\ Value(jobs', h).counted => Value(jobs', h).context \in Live(contexts')
  BY <1>4, <1>7, BackendKnows
<1> QED
  BY <1>4, <1>6, <1>7, <1>8, <1>9, BackendKnows, BackendFollows

LEMMA CancelJobKeeps ==
    ASSUME BackendHolds, NEW j \in JobHandle, CancelJob(j)
    PROVE  BackendHolds'
<1>1. jobs \in Jobs /\ j \in Live(jobs) /\ Value(jobs, j) \in Job /\ j.slot \in DOMAIN jobs
  BY BackendKnows, BackendSets DEF CancelJob
<1> DEFINE v == [Value(jobs, j) EXCEPT !.state = "cancelled", !.counted = FALSE]
<1>2. v \in Job /\ v.context = Value(jobs, j).context /\ v.state = "cancelled" /\ ~v.counted
  BY <1>1 DEF Job
<1>3. jobs' = Updated(jobs, j, v)
  BY <1>1 DEF CancelJob, Updated, Value, Jobs, Table
<1> HIDE DEF v
<1>4. /\ jobs' \in Jobs /\ Live(jobs') = Live(jobs) /\ Value(jobs', j) = v
      /\ \A h \in Live(jobs) : h # j => Value(jobs', h) = Value(jobs, h)
  BY <1>1, <1>2, <1>3, UpdateChangesOne, BackendAssumption DEF Jobs
<1>5. \A c : Counted(c)' = Counted(c) \ {j}
  BY <1>2, <1>4 DEF Counted, JobsOf
<1>6. contexts' = release_ticket(Value(jobs, j)) /\ models' = models
  BY DEF CancelJob
<1>7. /\ contexts' \in Contexts /\ PlacesCounted' /\ Live(contexts') = Live(contexts)
      /\ \A c \in Live(contexts) : Value(contexts', c).model = Value(contexts, c).model
  BY <1>1, <1>5, <1>6, ReleaseCounts
<1>8. ContextsCounted'
  BY <1>6, <1>7, ContextsRecounted
<1>9. \A h \in Live(jobs') : /\ Value(jobs', h).counted <=> Value(jobs', h).state # "cancelled"
                             /\ Value(jobs', h).counted => Value(jobs', h).context \in Live(contexts')
  BY <1>2, <1>4, <1>7, BackendKnows
<1> QED
  BY <1>4, <1>6, <1>7, <1>8, <1>9, BackendKnows, BackendFollows

LEMMA ResetContextKeeps ==
    ASSUME BackendHolds, NEW c \in ContextHandle, ResetContext(c)
    PROVE  BackendHolds'
<1>1. jobs \in Jobs /\ contexts \in Contexts /\ c \in Live(contexts) /\ Value(contexts, c) \in Context
  BY BackendKnows, BackendSets DEF ResetContext
<1>2. PICK H : H = JobsOf(c)
  OBVIOUS
<1>3. jobs' = ErasedAll(jobs, H) /\ H \in SUBSET Live(jobs)
  BY <1>2 DEF ResetContext, JobsOf
<1>4. /\ jobs' \in Jobs /\ Live(jobs') = Live(jobs) \ H
      /\ \A h \in Live(jobs) \ H : Value(jobs', h) = Value(jobs, h)
  BY <1>1, <1>3, EraseEndsThem, BackendAssumption DEF Jobs
<1>5. contexts' = Claiming(contexts, c, 0) /\ models' = models
  BY DEF ResetContext, Claiming
<1>6. /\ contexts' \in Contexts /\ Live(contexts') = Live(contexts)
      /\ Value(contexts', c).active = 0
      /\ Value(contexts', c).queue = Value(contexts, c).queue
      /\ Value(contexts', c).model = Value(contexts, c).model
      /\ \A g \in Live(contexts) : g # c => Value(contexts', g) = Value(contexts, g)
  BY <1>1, <1>5, ClaimingSetsOne
<1>7. Counted(c)' = {} /\ \A g : g # c => Counted(g)' = Counted(g)
  BY <1>2, <1>4 DEF Counted, JobsOf
<1>8. PlacesCounted'
  <2>1. ASSUME NEW g \in Live(contexts')
        PROVE  Value(contexts', g).active = Cardinality(Counted(g)') /\ Value(contexts', g).active <= Value(contexts', g).queue
    <3>1. CASE g = c
      <4>1. Value(contexts, c).queue \in Nat
        BY <1>1, BackendAssumption DEF Context
      <4> QED
        BY <1>6, <1>7, <3>1, <4>1, FS_EmptySet
    <3>2. CASE g # c
      BY <1>6, <1>7, <2>1, <3>2, BackendKnows DEF PlacesCounted
    <3> QED
      BY <3>1, <3>2
  <2> QED
    BY <2>1 DEF PlacesCounted
<1>9. ContextsCounted'
  BY <1>5, <1>6, ContextsRecounted
<1>10. \A h \in Live(jobs') : /\ Value(jobs', h).counted <=> Value(jobs', h).state # "cancelled"
                              /\ Value(jobs', h).counted => Value(jobs', h).context \in Live(contexts')
  BY <1>4, <1>6, BackendKnows
<1> QED
  BY <1>4, <1>5, <1>6, <1>8, <1>9, <1>10, BackendKnows, BackendFollows

(* Models come and go only while no context is on them.                        *)
LEMMA ModelCallsKeep ==
    ASSUME BackendHolds, CreateModel \/ \E m \in ModelHandle : DestroyModel(m)
    PROVE  BackendHolds'
<1>1. models \in Models /\ contexts \in Contexts /\ jobs \in Jobs /\ contexts' = contexts /\ jobs' = jobs
  BY BackendKnows DEF CreateModel, DestroyModel
<1>2. \A c : Counted(c)' = Counted(c)
  BY <1>1 DEF Counted, JobsOf
<1>3. \A m : ContextsOf(m)' = ContextsOf(m)
  BY <1>1 DEF ContextsOf
<1>4. PlacesCounted'
  BY <1>1, <1>2, BackendKnows DEF PlacesCounted
<1>5. models' \in Models /\ ContextsCounted'
  <2>1. CASE CreateModel
    <3> DEFINE v == [contexts |-> 0]
    <3>1. PICK s \in 1..ModelCapacity : FirstFree(models, s) /\ models' = Emplaced(models, s, v)
      BY <2>1 DEF CreateModel
    <3>2. v \in Model /\ v.contexts = 0
      BY DEF Model
    <3> HIDE DEF v
    <3>3. PICK n :
          /\ models' \in Models /\ n \notin Live(models) /\ Live(models') = Live(models) \cup {n}
          /\ Value(models', n) = v /\ \A h \in Live(models) : Value(models', h) = Value(models, h)
      BY <1>1, <3>1, <3>2, EmplaceAddsOne, BackendAssumption DEF Models
    <3>4. ContextsOf(n) = {}
      BY <3>3, BackendKnows DEF ContextsOf, ContextsCounted
    <3>5. Cardinality(ContextsOf(n)') = 0
      BY <1>3, <3>4, FS_EmptySet
    <3> QED
      BY <1>1, <1>3, <3>2, <3>3, <3>5, BackendKnows DEF ContextsCounted
  <2>2. CASE \E m \in ModelHandle : DestroyModel(m)
    <3>1. PICK m \in ModelHandle : DestroyModel(m)
      BY <2>2
    <3>2. m \in Live(models) /\ Value(models, m).contexts = 0
      BY <1>1, <3>1, BackendSets DEF DestroyModel
    <3>3. PICK H : H = {m}
      OBVIOUS
    <3>4. models' = ErasedAll(models, H) /\ H \in SUBSET Live(models)
      BY <1>1, <3>1, <3>2, <3>3, EraseOne DEF DestroyModel, Models
    <3>5. /\ models' \in Models /\ Live(models') = Live(models) \ H
          /\ \A h \in Live(models) \ H : Value(models', h) = Value(models, h)
      BY <1>1, <3>4, EraseEndsThem, BackendAssumption DEF Models
    <3>6. ContextsOf(m) = {}
      BY <3>2, BackendKnows, FS_EmptySet DEF ContextsCounted
    <3>7. \A c \in Live(contexts) : Value(contexts, c).model # m
      BY <3>6 DEF ContextsOf
    <3> QED
      BY <1>1, <1>3, <3>3, <3>5, <3>7, BackendKnows DEF ContextsCounted
  <2> QED
    BY <2>1, <2>2
<1> QED
  BY <1>1, <1>4, <1>5, BackendKnows, BackendFollows

(* A new context has no counted job, and its model counts one more.            *)
LEMMA CreateContextKeeps ==
    ASSUME BackendHolds, NEW m \in ModelHandle, NEW queue \in 1..ContextQueue, CreateContext(m, queue)
    PROVE  BackendHolds'
<1> DEFINE v == [model |-> m, queue |-> queue, active |-> 0]
<1>1. PICK s \in 1..ContextCapacity : FirstFree(contexts, s) /\ contexts' = Emplaced(contexts, s, v)
  BY DEF CreateContext
<1>2. v \in Context /\ v.model = m /\ v.active = 0 /\ v.queue \in Nat
  BY BackendAssumption DEF Context
<1> HIDE DEF v
<1>3. /\ models \in Models /\ contexts \in Contexts /\ jobs \in Jobs /\ jobs' = jobs
      /\ m \in Live(models) /\ Value(models, m) \in Model
  BY BackendKnows, BackendSets DEF CreateContext
<1>4. PICK n :
      /\ contexts' \in Contexts /\ n \notin Live(contexts) /\ Live(contexts') = Live(contexts) \cup {n}
      /\ Value(contexts', n) = v /\ \A h \in Live(contexts) : Value(contexts', h) = Value(contexts, h)
  BY <1>1, <1>2, <1>3, EmplaceAddsOne, BackendAssumption DEF Contexts
<1>5. PICK k : k = Value(models, m).contexts + 1 /\ models' = Basing(models, m, k)
  BY DEF CreateContext, Basing, Value
<1>6. k \in Nat
  BY <1>3, <1>5 DEF Model
<1>7. /\ models' \in Models /\ Live(models') = Live(models) /\ Value(models', m).contexts = k
      /\ \A g \in Live(models) : g # m => Value(models', g) = Value(models, g)
  BY <1>3, <1>5, <1>6, BasingSetsOne
<1>8. \A c : Counted(c)' = Counted(c)
  BY <1>3 DEF Counted, JobsOf
<1>9. Counted(n) = {}
  BY <1>4, BackendKnows DEF Counted, JobsOf
<1>10. PlacesCounted'
  <2>1. Cardinality(Counted(n)') = 0 /\ v.active <= v.queue
    BY <1>2, <1>8, <1>9, FS_EmptySet
  <2> QED
    BY <1>2, <1>4, <1>8, <2>1, BackendKnows DEF PlacesCounted
<1>11. ContextsOf(m)' = ContextsOf(m) \cup {n} /\ n \notin ContextsOf(m) /\ \A g : g # m => ContextsOf(g)' = ContextsOf(g)
  BY <1>2, <1>4 DEF ContextsOf
<1>12. Cardinality(ContextsOf(m)') = k
  <2>1. Cardinality(ContextsOf(m)') = Cardinality(ContextsOf(m)) + 1
    BY <1>11, BackendKnows, FS_AddElement
  <2> QED
    BY <1>3, <1>5, <2>1, BackendKnows DEF ContextsCounted
<1>13. ContextsCounted'
  <2>1. \A g \in Live(models') : Value(models', g).contexts = Cardinality(ContextsOf(g)')
    BY <1>7, <1>11, <1>12, BackendKnows DEF ContextsCounted
  <2>2. \A c \in Live(contexts') : Value(contexts', c).model \in Live(models')
    BY <1>2, <1>3, <1>4, <1>7, BackendKnows DEF ContextsCounted
  <2> QED
    BY <2>1, <2>2 DEF ContextsCounted
<1>14. \A h \in Live(jobs') : /\ Value(jobs', h).counted <=> Value(jobs', h).state # "cancelled"
                              /\ Value(jobs', h).counted => Value(jobs', h).context \in Live(contexts')
  BY <1>3, <1>4, BackendKnows
<1> QED
  BY <1>3, <1>4, <1>7, <1>10, <1>13, <1>14, BackendFollows

(* A context that goes had no counted job, and its model counts one less.      *)
LEMMA DestroyContextKeeps ==
    ASSUME BackendHolds, NEW c \in ContextHandle, DestroyContext(c)
    PROVE  BackendHolds'
<1>1. /\ models \in Models /\ contexts \in Contexts /\ jobs \in Jobs /\ jobs' = jobs
      /\ c \in Live(contexts) /\ Value(contexts, c).active = 0
  BY BackendKnows, BackendSets DEF DestroyContext
<1>2. PICK m : m = Value(contexts, c).model
  OBVIOUS
<1>3. m \in Live(models) /\ Resolves(models, m) /\ Value(models, m) \in Model
  BY <1>1, <1>2, BackendKnows, BackendSets DEF ContextsCounted
<1>4. PICK H : H = {c}
  OBVIOUS
<1>5. contexts' = ErasedAll(contexts, H) /\ H \in SUBSET Live(contexts)
  BY <1>1, <1>4, EraseOne DEF DestroyContext, Contexts
<1>6. /\ contexts' \in Contexts /\ Live(contexts') = Live(contexts) \ H
      /\ \A h \in Live(contexts) \ H : Value(contexts', h) = Value(contexts, h)
  BY <1>1, <1>5, EraseEndsThem, BackendAssumption DEF Contexts
<1>7. PICK k : k = Value(models, m).contexts - 1 /\ models' = Basing(models, m, k)
  BY <1>2, <1>3 DEF DestroyContext, Basing, Value
<1>8. ContextsOf(m)' = ContextsOf(m) \ {c} /\ c \in ContextsOf(m) /\ \A g : g # m => ContextsOf(g)' = ContextsOf(g)
  BY <1>1, <1>2, <1>4, <1>6 DEF ContextsOf
<1>9. k \in Nat /\ k = Cardinality(ContextsOf(m)')
  <2>1. Cardinality(ContextsOf(m)') = Cardinality(ContextsOf(m)) - 1 /\ Cardinality(ContextsOf(m)) # 0
    BY ZenonT(60), <1>8, BackendKnows, FS_RemoveElement, FS_EmptySet
  <2>2. Value(models, m).contexts = Cardinality(ContextsOf(m)) /\ Value(models, m).contexts \in Nat
    BY <1>3, BackendKnows DEF ContextsCounted, Model
  <2> QED
    BY <1>7, <2>1, <2>2
<1>10. /\ models' \in Models /\ Live(models') = Live(models) /\ Value(models', m).contexts = k
       /\ \A g \in Live(models) : g # m => Value(models', g) = Value(models, g)
  BY <1>1, <1>3, <1>7, <1>9, BasingSetsOne
<1>11. \A g : Counted(g)' = Counted(g)
  BY <1>1 DEF Counted, JobsOf
<1>12. Counted(c) = {}
  BY <1>1, BackendKnows, FS_EmptySet DEF PlacesCounted
<1>13. PlacesCounted'
  BY <1>4, <1>6, <1>11, BackendKnows DEF PlacesCounted
<1>14. ContextsCounted'
  <2>1. ASSUME NEW g \in Live(models') PROVE Value(models', g).contexts = Cardinality(ContextsOf(g)')
    <3>1. CASE g = m
      BY <1>9, <1>10, <3>1
    <3>2. CASE g # m
      <4>1. ContextsOf(g)' = ContextsOf(g)
        BY <1>8, <3>2
      <4>2. Value(models', g) = Value(models, g) /\ g \in Live(models)
        BY <1>10, <3>2
      <4>3. Value(models, g).contexts = Cardinality(ContextsOf(g))
        BY <4>2, BackendKnows DEF ContextsCounted
      <4> QED
        BY <4>1, <4>2, <4>3
    <3> QED
      BY <3>1, <3>2
  <2>2. \A g \in Live(contexts') : Value(contexts', g).model \in Live(models')
    BY <1>6, <1>10, BackendKnows DEF ContextsCounted
  <2> QED
    BY <2>1, <2>2 DEF ContextsCounted
<1>15. ASSUME NEW h \in Live(jobs')
       PROVE  /\ Value(jobs', h).counted <=> Value(jobs', h).state # "cancelled"
              /\ Value(jobs', h).counted => Value(jobs', h).context \in Live(contexts')
  <2>1. Value(jobs, h).counted => Value(jobs, h).context # c
    BY <1>1, <1>12 DEF Counted, JobsOf
  <2> QED
    BY <1>1, <1>4, <1>6, <2>1, BackendKnows
<1> QED
  BY <1>1, <1>6, <1>10, <1>13, <1>14, <1>15, BackendFollows

LEMMA BackendInitHolds == BackendInit => BackendHolds
<1> SUFFICES ASSUME BackendInit PROVE BackendHolds
  OBVIOUS
<1>1. models \in Models /\ Live(models) = {}
  BY EmptyTableHasNone, BackendAssumption DEF BackendInit, Models
<1>2. contexts \in Contexts /\ Live(contexts) = {}
  BY EmptyTableHasNone, BackendAssumption DEF BackendInit, Contexts
<1>3. jobs \in Jobs /\ Live(jobs) = {}
  BY EmptyTableHasNone, BackendAssumption DEF BackendInit, Jobs
<1> QED
  BY <1>1, <1>2, <1>3 DEF BackendHolds, BackendTypes, PlacesCounted, ContextsCounted, JobsHavePlaces, Models, Contexts, Jobs

LEMMA BackendNextHolds == BackendHolds /\ [BackendNext]_backendVars => BackendHolds'
<1> SUFFICES ASSUME BackendHolds, [BackendNext]_backendVars PROVE BackendHolds'
  OBVIOUS
<1>1. CASE CreateModel \/ \E m \in ModelHandle : DestroyModel(m)
  BY <1>1, ModelCallsKeep
<1>2. CASE \E m \in ModelHandle, queue \in 1..ContextQueue : CreateContext(m, queue)
  BY <1>2, CreateContextKeeps
<1>3. CASE \E c \in ContextHandle : DestroyContext(c) \/ SubmitJob(c) \/ SynchronizeContext(c) \/ ResetContext(c)
  BY <1>3, DestroyContextKeeps, SubmitJobKeeps, SynchronizeKeeps, ResetContextKeeps
<1>4. CASE \E j \in JobHandle : RunJob(j) \/ CollectJob(j) \/ CancelJob(j)
  BY <1>4, RunJobKeeps, CollectJobKeeps, CancelJobKeeps
<1>5. CASE UNCHANGED backendVars
  <2>1. UNCHANGED <<models, contexts>> /\ jobs' = jobs
    BY <1>5 DEF backendVars
  <2> QED
    BY <2>1, BackendKnows, RunningKeeps
<1> QED
  BY <1>1, <1>2, <1>3, <1>4, <1>5 DEF BackendNext

(* The counts of the reference backend are what they count, and no job is      *)
(* asked to run without its context and its model, for tables and queues of    *)
(* any size (reference_cpu.cpp).                                               *)
THEOREM BackendAgrees == BackendSpec => []BackendHolds
BY BackendInitHolds, BackendNextHolds, PTL DEF BackendSpec

LEMMA SynchronizeIsOnward ==
    ASSUME jobs \in Jobs, NEW c \in ContextHandle, SynchronizeContext(c)
    PROVE  Onward(jobs, jobs')
<1>1. DOMAIN jobs' = DOMAIN jobs
  BY DEF SynchronizeContext
<1>2. \A s \in DOMAIN jobs : jobs[s].generation \in Nat
  BY DEF Jobs, Table
<1>3. ASSUME NEW s \in DOMAIN jobs PROVE Kept(jobs[s], jobs'[s])
  <2>1. PICK outcome \in [1..JobCapacity -> Outcomes] :
          jobs'[s] = IF Occupied(jobs, s) /\ jobs[s].value.context = c
                     THEN [jobs[s] EXCEPT !.value = run_ticket(@, outcome[s])] ELSE jobs[s]
    BY <1>3 DEF SynchronizeContext
  <2>2. CASE Occupied(jobs, s) /\ jobs[s].value.context = c
    <3>1. jobs'[s].generation = jobs[s].generation /\ jobs[s].value # Vacant
      BY <1>3, <2>1, <2>2 DEF Occupied, Jobs, Table
    <3> QED
      BY <1>2, <3>1 DEF Kept
  <2>3. CASE ~(Occupied(jobs, s) /\ jobs[s].value.context = c)
    BY <1>2, <2>1, <2>3 DEF Kept
  <2> QED
    BY <2>2, <2>3
<1> QED
  BY <1>1, <1>3 DEF Onward

(* The table of jobs goes onward, and an end stays that end.                   *)
LEMMA JobsGoOn ==
    ASSUME BackendHolds, [BackendNext]_backendVars
    PROVE  /\ Onward(jobs, jobs')
           /\ \A j \in Live(jobs) : Value(jobs, j).state # "queued" /\ j \in Live(jobs')
                                    => Value(jobs', j).state = Value(jobs, j).state
<1>1. jobs \in Jobs /\ \A j \in Live(jobs) : Value(jobs, j) \in Job /\ j.slot \in DOMAIN jobs
  BY BackendKnows, BackendSets
<1>2. CASE jobs' = jobs
  BY <1>1, <1>2, OnwardStays DEF Jobs
<1>3. ASSUME NEW j \in Live(jobs), NEW v, jobs' = Updated(jobs, j, v), v \in Job,
             Value(jobs, j).state # "queued" => v.state = Value(jobs, j).state
      PROVE  /\ Onward(jobs, jobs')
             /\ \A h \in Live(jobs) : Value(jobs, h).state # "queued" /\ h \in Live(jobs')
                                      => Value(jobs', h).state = Value(jobs, h).state
  <2>1. Onward(jobs, jobs')
    BY <1>1, <1>3, UpdateIsOnward DEF Jobs
  <2>2. Value(jobs', j) = v /\ \A h \in Live(jobs) : h # j => Value(jobs', h) = Value(jobs, h)
    BY <1>1, <1>3, UpdateChangesOne, BackendAssumption DEF Jobs
  <2> QED
    BY <1>3, <2>1, <2>2
<1>4. ASSUME NEW H, H \in SUBSET Live(jobs), jobs' = ErasedAll(jobs, H)
      PROVE  /\ Onward(jobs, jobs')
             /\ \A h \in Live(jobs) : Value(jobs, h).state # "queued" /\ h \in Live(jobs')
                                      => Value(jobs', h).state = Value(jobs, h).state
  <2>1. Onward(jobs, jobs')
    BY <1>1, <1>4, EraseIsOnward DEF Jobs
  <2>2. Live(jobs') = Live(jobs) \ H /\ \A h \in Live(jobs) \ H : Value(jobs', h) = Value(jobs, h)
    BY <1>1, <1>4, EraseEndsThem, BackendAssumption DEF Jobs
  <2> QED
    BY <2>1, <2>2
<1>5. ASSUME NEW j \in JobHandle, RunJob(j)
      PROVE  \E v \in Job : /\ j \in Live(jobs) /\ jobs' = Updated(jobs, j, v)
                            /\ Value(jobs, j).state # "queued" => v.state = Value(jobs, j).state
  <2>1. PICK outcome \in Outcomes : jobs' = [jobs EXCEPT ![j.slot].value = run_ticket(@, outcome)]
    BY <1>5 DEF RunJob
  <2>2. j \in Live(jobs) /\ Value(jobs, j) \in Job /\ j.slot \in DOMAIN jobs
    BY <1>1, <1>5, BackendSets DEF RunJob
  <2>3. PICK v : v = run_ticket(Value(jobs, j), outcome)
    OBVIOUS
  <2>4. jobs' = Updated(jobs, j, v)
    BY <2>1, <2>2, <2>3 DEF Updated, Value
  <2> QED
    BY <2>2, <2>3, <2>4, RunMeans
<1>6. ASSUME NEW j \in JobHandle, CancelJob(j)
      PROVE  \E v \in Job : j \in Live(jobs) /\ jobs' = Updated(jobs, j, v) /\ Value(jobs, j).state = "queued"
  <2>1. j \in Live(jobs) /\ Value(jobs, j) \in Job /\ j.slot \in DOMAIN jobs
    BY <1>1, <1>6, BackendSets DEF CancelJob
  <2> DEFINE v == [Value(jobs, j) EXCEPT !.state = "cancelled", !.counted = FALSE]
  <2>2. v \in Job
    BY <2>1 DEF Job
  <2>3. jobs' = Updated(jobs, j, v)
    BY <1>1, <1>6, <2>1 DEF CancelJob, Updated, Value, Jobs, Table
  <2> HIDE DEF v
  <2> QED
    BY <1>6, <2>1, <2>2, <2>3 DEF CancelJob
<1>7. ASSUME NEW j \in JobHandle, CollectJob(j)
      PROVE  \E H \in SUBSET Live(jobs) : jobs' = ErasedAll(jobs, H)
  <2>1. j \in Live(jobs)
    BY <1>1, <1>7, BackendSets DEF CollectJob
  <2>2. jobs' = ErasedAll(jobs, {j})
    BY <1>1, <1>7, <2>1, EraseOne DEF CollectJob, Jobs
  <2> QED
    BY <2>1, <2>2
<1>8. ASSUME NEW c \in ContextHandle, ResetContext(c)
      PROVE  \E H \in SUBSET Live(jobs) : jobs' = ErasedAll(jobs, H)
  BY <1>8 DEF ResetContext, JobsOf
<1>9. ASSUME NEW c \in ContextHandle, SynchronizeContext(c)
      PROVE  /\ Onward(jobs, jobs')
             /\ \A h \in Live(jobs) : Value(jobs, h).state # "queued" /\ h \in Live(jobs')
                                      => Value(jobs', h).state = Value(jobs, h).state
  <2>1. /\ jobs' \in Jobs /\ Live(jobs') = Live(jobs)
        /\ \A j \in Live(jobs) : Value(jobs', j) = Value(jobs, j)
                                 \/ \E o \in Outcomes : Value(jobs', j) = run_ticket(Value(jobs, j), o)
    BY <1>9, SynchronizeMeans
  <2>2. \A h \in Live(jobs) : Value(jobs, h).state # "queued" => Value(jobs', h).state = Value(jobs, h).state
    BY <1>1, <2>1, RunMeans
  <2>3. Onward(jobs, jobs')
    BY <1>9, BackendKnows, SynchronizeIsOnward
  <2> QED
    BY <2>2, <2>3
<1>10. ASSUME NEW c \in ContextHandle, SubmitJob(c)
       PROVE  /\ Onward(jobs, jobs')
              /\ \A h \in Live(jobs) : Value(jobs, h).state # "queued" /\ h \in Live(jobs')
                                       => Value(jobs', h).state = Value(jobs, h).state
  <2> DEFINE v == [context |-> c, state |-> "queued", counted |-> TRUE]
  <2>1. PICK s \in 1..JobCapacity : FirstFree(jobs, s) /\ jobs' = Emplaced(jobs, s, v)
    BY <1>10 DEF SubmitJob
  <2>2. v \in Job
    BY <1>10 DEF Job
  <2> HIDE DEF v
  <2>3. \A h \in Live(jobs) : Value(jobs', h) = Value(jobs, h)
    BY <1>1, <2>1, <2>2, EmplaceAddsOne, BackendAssumption DEF Jobs
  <2>4. Onward(jobs, jobs')
    BY <1>1, <2>1, EmplaceIsOnward DEF Jobs
  <2> QED
    BY <2>3, <2>4
<1>11. CASE \/ CreateModel \/ \E m \in ModelHandle : DestroyModel(m) \/ \E queue \in 1..ContextQueue : CreateContext(m, queue)
            \/ \E c \in ContextHandle : DestroyContext(c)
            \/ UNCHANGED backendVars
  BY <1>2, <1>11 DEF CreateModel, DestroyModel, CreateContext, DestroyContext, backendVars
<1> QED
  BY <1>3, <1>4, <1>5, <1>6, <1>7, <1>8, <1>9, <1>10, <1>11 DEF BackendNext

(* What poll reported of a job is what it stays, and no handle of a job that   *)
(* was collected or reset resolves again.                                      *)
THEOREM JobsComeToOneEnd == BackendSpec => JobsEndOnce
<1> DEFINE Ends == \A j \in JobHandle :
                      /\ DeadIn(jobs, j) => DeadIn(jobs', j)
                      /\ Resolves(jobs, j) /\ Value(jobs, j).state # "queued" /\ Resolves(jobs', j)
                           => Value(jobs', j).state = Value(jobs, j).state
<1>1. ASSUME BackendHolds, BackendHolds', [BackendNext]_backendVars PROVE Ends
  <2>1. jobs \in Jobs /\ jobs' \in Jobs
    BY <1>1 DEF BackendHolds, BackendTypes, Jobs
  <2>2. Onward(jobs, jobs')
    BY <1>1, JobsGoOn
  <2>3. \A j \in JobHandle : j.generation \in Nat
    BY DEF JobHandle
  <2>4. \A j \in JobHandle : DeadIn(jobs, j) => DeadIn(jobs', j)
    BY <2>1, <2>2, <2>3, OnwardKeepsDead DEF Jobs
  <2>5. \A j \in JobHandle : /\ Resolves(jobs, j) <=> j \in Live(jobs)
                             /\ Resolves(jobs', j) <=> j \in Live(jobs')
    BY <2>1, BackendSets
  <2> QED
    BY <1>1, <2>4, <2>5, JobsGoOn
<1> QED
  BY <1>1, BackendInitHolds, BackendNextHolds, PTL DEF BackendSpec, JobsEndOnce

-------------------------------------------------------------------------------
(* The backend as part of the core library.                                    *)

LEMMA CoreBackend == CoreSpec => BackendSpec
<1>1. [CoreNext]_<<part, vars, storeVars, backendVars>> => [BackendNext]_backendVars
  BY DEF CoreNext
<1> QED
  BY <1>1, PTL DEF CoreSpec, CoreInit, BackendSpec

(* In the core library as a whole the counts of the backend are what they      *)
(* count, and a queued job has its context and its model,                      *)
THEOREM CoreBackendAgrees == CoreSpec => []BackendHolds
BY CoreBackend, BackendAgrees, PTL

(* and a job comes to one end.                                                 *)
THEOREM CoreJobsEndOnce == CoreSpec => JobsEndOnce
BY CoreBackend, JobsComeToOneEnd, PTL
===============================================================================
