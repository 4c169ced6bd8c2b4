-------------------------- MODULE InputExecutor_proof --------------------------
(* Safety of InputExecutor for every set of plans, keys and buttons.  The      *)
(* argument: a command that went out entirely leaves pressed only what the     *)
(* ledger records; one that did not leaves pressed only what the emitter saw   *)
(* open; and the queue always has room for both, because nothing runs while    *)
(* it holds anything.                                                          *)
EXTENDS InputExecutor, FiniteSetTheorems, TLAPS

(* Things a listing or a queue names. *)
LEMMA ListingLists ==
    ASSUME NEW S, IsFiniteSet(S), NEW s \in Listings(S)
    PROVE  /\ s \in Seq(S)
           /\ Len(s) = Cardinality(S)
           /\ Front(s, Len(s)) = S
<1>1. Cardinality(S) \in Nat
  BY FS_CardinalityType
<1>2. s \in [1 .. Cardinality(S) -> S] /\ \A x \in S : \E i \in 1 .. Cardinality(S) : s[i] = x
  BY DEF Listings
<1>3. s \in Seq(S) /\ Len(s) = Cardinality(S)
  BY <1>1, <1>2
<1> QED
  BY <1>2, <1>3 DEF Front

LEMMA FrontOfConcatenation ==
    ASSUME NEW T, NEW s \in Seq(T), NEW t \in Seq(T)
    PROVE  /\ s \o t \in Seq(T)
           /\ Len(s \o t) = Len(s) + Len(t)
           /\ Front(s \o t, Len(s \o t)) = Front(s, Len(s)) \cup Front(t, Len(t))
<1> DEFINE u == s \o t
<1>1. u \in Seq(T) /\ Len(u) = Len(s) + Len(t)
  OBVIOUS
<1>2. \A i \in 1 .. Len(s) : u[i] = s[i]
  OBVIOUS
<1>3. \A i \in 1 .. Len(t) : u[Len(s) + i] = t[i]
  OBVIOUS
<1>4. Len(s) \in Nat /\ Len(t) \in Nat
  OBVIOUS
<1> HIDE DEF u
<1>5. Front(u, Len(u)) \subseteq Front(s, Len(s)) \cup Front(t, Len(t))
  <2> SUFFICES ASSUME NEW i \in 1 .. Len(u)
               PROVE  u[i] \in Front(s, Len(s)) \cup Front(t, Len(t))
    BY DEF Front
  <2>1. CASE i <= Len(s)
    BY <1>2, <2>1 DEF Front
  <2>2. CASE i > Len(s)
    <3>1. i - Len(s) \in 1 .. Len(t) /\ i = Len(s) + (i - Len(s))
      BY <1>1, <1>4, <2>2
    <3> QED
      BY <1>3, <3>1 DEF Front
  <2> QED
    BY <1>4, <2>1, <2>2
<1>6. Front(s, Len(s)) \subseteq Front(u, Len(u))
  BY <1>1, <1>2, <1>4 DEF Front
<1>7. Front(t, Len(t)) \subseteq Front(u, Len(u))
  <2> SUFFICES ASSUME NEW i \in 1 .. Len(t)
               PROVE  t[i] \in Front(u, Len(u))
    BY DEF Front
  <2>1. Len(s) + i \in 1 .. Len(u) /\ u[Len(s) + i] = t[i]
    BY <1>1, <1>3, <1>4
  <2> QED
    BY <2>1 DEF Front
<1> QED
  BY <1>1, <1>5, <1>6, <1>7 DEF u

(* A partial submission loses nothing: what is still pressed is what the queue
   never covered, or what it still names. *)
LEMMA SubmissionKeeps ==
    ASSUME NEW T, NEW queue \in Seq(T), NEW n \in 0 .. Len(queue), NEW seen,
           Submit(seen, queue, n)
    PROVE  /\ pending' \in Seq(T)
           /\ Len(pending') = Len(queue) - n
           /\ os' \subseteq seen
           /\ \A rest : seen \subseteq rest \cup Front(queue, Len(queue)) => os' \subseteq rest \cup Queued'
<1>1. pending' = SubSeq(queue, n + 1, Len(queue)) /\ os' = seen \ Front(queue, n)
  BY DEF Submit
<1>2. Len(queue) \in Nat
  OBVIOUS
<1>3. pending' \in Seq(T) /\ Len(pending') = Len(queue) - n
  BY <1>1, <1>2
<1>4. \A i \in 1 .. Len(queue) - n : pending'[i] = queue[n + i]
  BY <1>1, <1>2
<1>5. ASSUME NEW i \in 1 .. Len(queue)
      PROVE  queue[i] \in Front(queue, n) \cup Queued'
  <2>1. CASE i <= n
    BY <2>1 DEF Front
  <2>2. CASE i > n
    <3>1. i - n \in 1 .. Len(pending') /\ pending'[i - n] = queue[i]
      BY <1>2, <1>3, <1>4, <2>2
    <3> QED
      BY <3>1 DEF Queued, Front
  <2> QED
    BY <1>2, <2>1, <2>2
<1>6. Front(queue, Len(queue)) \subseteq Front(queue, n) \cup Queued'
  BY <1>5 DEF Front
<1> QED
  BY <1>1, <1>3, <1>6
-------------------------------------------------------------------------------
(* Events of a command. *)

Event == [op : {"press", "release"}, what : Things]

LEMMA PressIsNotRelease ==
    ASSUME NEW x, NEW y
    PROVE  Press(x) # Release(y) /\ (Press(x) = Press(y) => x = y) /\ (Release(x) = Release(y) => x = y)
<1>1. Press(x).op = "press" /\ Release(y).op = "release" /\ Press(x).what = x /\ Press(y).what = y
  BY DEF Press, Release
<1>2. Release(x).what = x /\ Release(y).what = y
  BY DEF Release
<1> QED
  BY <1>1, <1>2

LEMMA EventTypes == \A x \in Things : Press(x) \in Event /\ Release(x) \in Event
BY DEF Press, Release, Event

LEMMA SequenceOfFunction ==
    ASSUME NEW S, NEW k \in Nat, NEW f \in [1 .. k -> S]
    PROVE  f \in Seq(S) /\ Len(f) = k
OBVIOUS

(* A subject presses and releases one thing only. *)
LEMMA SubjectEvents ==
    ASSUME NEW c \in Command
    PROVE  /\ Subject(c) \in Seq(Event)
           /\ \A i \in 1 .. Len(Subject(c)) : Subject(c)[i] \in {Press(c.what), Release(c.what)}
<1>0. c.what \in Things /\ c.count \in Nat
  BY DEF Command
<1>1. Press(c.what) \in Event /\ Release(c.what) \in Event
  BY <1>0, EventTypes
<1>2. CASE c.kind \in {"click", "text"}
  <2>1. Subject(c) = [i \in 1 .. 2 * c.count |-> IF i % 2 = 1 THEN Press(c.what) ELSE Release(c.what)]
    BY <1>2 DEF Subject
  <2>2. 2 * c.count \in Nat
    BY <1>0
  <2>3. Subject(c) \in [1 .. 2 * c.count -> Event]
    BY <1>1, <2>1
  <2>4. Subject(c) \in Seq(Event) /\ Len(Subject(c)) = 2 * c.count
    BY <2>2, <2>3, SequenceOfFunction
  <2> QED
    BY <2>1, <2>4
<1>3. CASE c.kind \in {"button_down", "key_down"}
  <2>1. Subject(c) = <<Press(c.what)>>
    BY <1>3 DEF Subject
  <2> QED
    BY <1>1, <2>1
<1>4. CASE c.kind \in {"button_up", "key_up"}
  <2>1. Subject(c) = <<Release(c.what)>>
    BY <1>4 DEF Subject
  <2> QED
    BY <1>1, <2>1
<1>5. CASE c.kind \in {"move", "scroll", "wait", "activate"}
  <2>1. Subject(c) = <<>>
    BY <1>5 DEF Subject
  <2> QED
    BY <2>1
<1> QED
  BY <1>2, <1>3, <1>4, <1>5 DEF Command

(* The shape of a chord: the modifiers, the subject, the modifiers backwards. *)
LEMMA ChordEvents ==
    ASSUME NEW m \in Seq(Modifiers), NEW inner \in Seq(Event), NEW all, all = Chorded(m, inner)
    PROVE  /\ all \in Seq(Event)
           /\ Len(all) = 2 * Len(m) + Len(inner)
           /\ \A i \in 1 .. Len(m) : all[i] = Press(m[i])
           /\ \A i \in 1 .. Len(inner) : all[Len(m) + i] = inner[i]
           /\ \A i \in 1 .. Len(m) : all[Len(all) + 1 - i] = Release(m[i])
<1> DEFINE k == 2 * Len(m) + Len(inner)
<1>1. Len(m) \in Nat /\ Len(inner) \in Nat /\ k \in Nat
  OBVIOUS
<1>2. all = [i \in 1 .. k |->
              IF i <= Len(m) THEN Press(m[i])
              ELSE IF i <= Len(m) + Len(inner) THEN inner[i - Len(m)]
              ELSE Release(m[k + 1 - i])]
  BY DEF Chorded
<1>3. ASSUME NEW i \in 1 .. k PROVE all[i] \in Event
  <2>1. CASE i <= Len(m)
    <3>1. m[i] \in Things
      BY <1>1, <2>1 DEF Things
    <3> QED
      BY <1>2, <2>1, <3>1, EventTypes
  <2>2. CASE i > Len(m) /\ i <= Len(m) + Len(inner)
    <3>1. i - Len(m) \in 1 .. Len(inner)
      BY <1>1, <2>2
    <3>2. inner[i - Len(m)] \in Event
      BY <3>1
    <3> QED
      BY <1>1, <1>2, <2>2, <3>2
  <2>3. CASE i > Len(m) + Len(inner)
    <3>1. k + 1 - i \in 1 .. Len(m)
      BY <1>1, <2>3
    <3>2. m[k + 1 - i] \in Things
      BY <3>1 DEF Things
    <3> QED
      BY <1>1, <1>2, <2>3, <3>2, EventTypes
  <2> QED
    BY <1>1, <2>1, <2>2, <2>3
<1>4. all \in [1 .. k -> Event]
  BY <1>2, <1>3
<1>5. all \in Seq(Event) /\ Len(all) = k
  BY <1>1, <1>4, SequenceOfFunction
<1>6. \A i \in 1 .. Len(m) : all[i] = Press(m[i])
  BY <1>1, <1>2
<1>7. ASSUME NEW i \in 1 .. Len(inner) PROVE all[Len(m) + i] = inner[i]
  <2>1. Len(m) + i \in 1 .. k /\ ~(Len(m) + i <= Len(m)) /\ Len(m) + i <= Len(m) + Len(inner)
    BY <1>1
  <2>2. (Len(m) + i) - Len(m) = i
    BY <1>1
  <2> QED
    BY <1>2, <2>1, <2>2
<1>8. ASSUME NEW i \in 1 .. Len(m) PROVE all[k + 1 - i] = Release(m[i])
  <2>1. k + 1 - i \in 1 .. k /\ ~(k + 1 - i <= Len(m)) /\ ~(k + 1 - i <= Len(m) + Len(inner))
    BY <1>1
  <2>2. k + 1 - (k + 1 - i) = i
    BY <1>1
  <2> QED
    BY <1>2, <2>1, <2>2
<1> QED
  BY <1>5, <1>6, <1>7, <1>8

(* Once a chord is complete, what is open is what its subject left open. *)
LEMMA ChordCloses ==
    ASSUME NEW m \in Seq(Modifiers), NEW inner \in Seq(Event)
    PROVE  Open(Chorded(m, inner), Len(Chorded(m, inner))) \subseteq Open(inner, Len(inner))
<1> DEFINE all == Chorded(m, inner)
<1>1. /\ Len(all) = 2 * Len(m) + Len(inner)
      /\ \A i \in 1 .. Len(m) : all[i] = Press(m[i])
      /\ \A i \in 1 .. Len(inner) : all[Len(m) + i] = inner[i]
      /\ \A i \in 1 .. Len(m) : all[Len(all) + 1 - i] = Release(m[i])
  BY ChordEvents
<1>2. Len(m) \in Nat /\ Len(inner) \in Nat
  OBVIOUS
<1> HIDE DEF all
<1> SUFFICES ASSUME NEW x \in Things, NEW i \in 1 .. Len(all),
                    all[i] = Press(x),
                    \A j \in (i + 1) .. Len(all) : all[j] # Release(x)
             PROVE  x \in Open(inner, Len(inner))
  BY DEF Open, all
<1>3. CASE i <= Len(m)
  <2>1. m[i] = x
    BY <1>1, <1>2, <1>3, PressIsNotRelease
  <2>2. Len(all) + 1 - i \in (i + 1) .. Len(all)
    BY <1>1, <1>2, <1>3
  <2> QED
    BY <1>1, <1>2, <1>3, <2>1, <2>2
<1>4. CASE i > Len(m) /\ i <= Len(m) + Len(inner)
  <2> DEFINE k == i - Len(m)
  <2>1. k \in 1 .. Len(inner) /\ Len(m) + k = i
    BY <1>2, <1>4
  <2>2. inner[k] = Press(x)
    BY <1>1, <2>1
  <2>3. ASSUME NEW j \in (k + 1) .. Len(inner) PROVE inner[j] # Release(x)
    <3>1. j \in 1 .. Len(inner) /\ Len(m) + j \in (i + 1) .. Len(all)
      BY <1>1, <1>2, <2>1
    <3> QED
      BY <1>1, <3>1
  <2> QED
    BY <2>1, <2>2, <2>3 DEF Open
<1>5. CASE i > Len(m) + Len(inner)
  <2> DEFINE k == Len(all) + 1 - i
  <2>1. k \in 1 .. Len(m) /\ Len(all) + 1 - k = i
    BY <1>1, <1>2, <1>5
  <2>2. all[i] = Release(m[k])
    BY <1>1, <2>1
  <2> QED
    BY <2>2, PressIsNotRelease
<1> QED
  BY <1>1, <1>2, <1>3, <1>4, <1>5

(* What a subject leaves open: a click or a typed unit nothing, a press itself. *)
LEMMA SubjectCloses ==
    ASSUME NEW c \in Command
    PROVE  /\ c.kind \notin {"button_down", "key_down"} => Open(Subject(c), Len(Subject(c))) = {}
           /\ Open(Subject(c), Len(Subject(c))) \subseteq {c.what}
<1>0. c.what \in Things /\ c.count \in Nat
  BY DEF Command
<1>1. CASE c.kind \in {"click", "text"}
  <2>1. Subject(c) = [i \in 1 .. 2 * c.count |-> IF i % 2 = 1 THEN Press(c.what) ELSE Release(c.what)]
    BY <1>1 DEF Subject
  <2>2. Press(c.what) \in Event /\ Release(c.what) \in Event /\ 2 * c.count \in Nat
    BY <1>0, EventTypes
  <2>3. Subject(c) \in [1 .. 2 * c.count -> Event]
    BY <2>1, <2>2
  <2>4. Len(Subject(c)) = 2 * c.count
    BY <2>2, <2>3, SequenceOfFunction
  <2>5. ASSUME NEW x \in Things, NEW i \in 1 .. 2 * c.count, Subject(c)[i] = Press(x)
        PROVE  \E j \in (i + 1) .. 2 * c.count : Subject(c)[j] = Release(x)
    <3>1. i % 2 = 1
      <4>1. CASE i % 2 # 1
        BY <2>1, <2>5, <4>1, PressIsNotRelease
      <4> QED
        BY <4>1
    <3>2. x = c.what
      BY <2>1, <2>5, <3>1, PressIsNotRelease
    <3>3. i + 1 \in 1 .. 2 * c.count /\ (i + 1) % 2 = 0
      BY <1>0, <3>1
    <3>4. Subject(c)[i + 1] = Release(x)
      BY <2>1, <3>2, <3>3
    <3> QED
      BY <3>3, <3>4
  <2> QED
    BY <2>4, <2>5 DEF Open
<1>2. CASE c.kind \in {"button_down", "key_down"}
  <2>1. Subject(c) = <<Press(c.what)>>
    BY <1>2 DEF Subject
  <2>2. ASSUME NEW x \in Things, NEW i \in 1 .. 1, Subject(c)[i] = Press(x) PROVE x = c.what
    BY <2>1, <2>2, PressIsNotRelease
  <2> QED
    BY <1>2, <2>1, <2>2 DEF Open
<1>3. CASE c.kind \in {"button_up", "key_up"}
  <2>1. Subject(c) = <<Release(c.what)>>
    BY <1>3 DEF Subject
  <2>2. \A x \in Things, i \in 1 .. 1 : Subject(c)[i] # Press(x)
    BY <2>1, PressIsNotRelease
  <2> QED
    BY <2>1, <2>2 DEF Open
<1>4. CASE c.kind \in {"move", "scroll", "wait", "activate"}
  <2>1. Subject(c) = <<>>
    BY <1>4 DEF Subject
  <2> QED
    BY <2>1 DEF Open
<1> QED
  BY <1>1, <1>2, <1>3, <1>4 DEF Command

LEMMA EventsTyped ==
    ASSUME NEW c \in Command
    PROVE  Events(c) \in Seq(Event) /\ c.modifiers \in Seq(Modifiers)
<1>1. c.modifiers \in Seq(Modifiers)
  BY DEF Command
<1>2. Subject(c) \in Seq(Event)
  BY SubjectEvents
<1> QED
  BY <1>1, <1>2, ChordEvents DEF Events

(* However few events of a command went out, what they leave open is one of its
   modifiers or its subject. *)
LEMMA OpenIsSmall ==
    ASSUME NEW c \in Command, NEW n \in 0 .. Len(Events(c))
    PROVE  /\ Open(Events(c), n) \subseteq Modifiers \cup {c.what}
           /\ IsFiniteSet(Open(Events(c), n))
           /\ Cardinality(Open(Events(c), n)) <= Cardinality(Modifiers) + 1
<1>1. c.modifiers \in Seq(Modifiers) /\ Events(c) \in Seq(Event)
  BY EventsTyped
<1>2. /\ Subject(c) \in Seq(Event)
      /\ \A i \in 1 .. Len(Subject(c)) : Subject(c)[i] \in {Press(c.what), Release(c.what)}
  BY SubjectEvents
<1>3. ASSUME NEW x \in Things, NEW i \in 1 .. n, Events(c)[i] = Press(x)
      PROVE  x \in Modifiers \cup {c.what}
  <2> DEFINE m == c.modifiers
             inner == Subject(c)
  <2>1. Len(m) \in Nat /\ Len(inner) \in Nat /\ Len(Events(c)) \in Nat
    BY <1>1, <1>2
  <2>2. CASE ~Chords(c)
    <3>1. Events(c) = Subject(c)
      BY <2>2 DEF Events
    <3>2. i \in 1 .. Len(Subject(c))
      BY <2>1, <3>1
    <3> QED
      BY <1>2, <1>3, <3>1, <3>2, PressIsNotRelease
  <2>3. CASE Chords(c)
    <3>1. Events(c) = Chorded(m, inner) /\ m \in Seq(Modifiers) /\ inner \in Seq(Event)
      BY <1>1, <1>2, <2>3 DEF Events
    <3>2. /\ Len(Events(c)) = 2 * Len(m) + Len(inner)
          /\ \A j \in 1 .. Len(m) : Events(c)[j] = Press(m[j])
          /\ \A j \in 1 .. Len(inner) : Events(c)[Len(m) + j] = inner[j]
          /\ \A j \in 1 .. Len(m) : Events(c)[Len(Events(c)) + 1 - j] = Release(m[j])
      <4> DEFINE all == Chorded(m, inner)
      <4>0. m \in Seq(Modifiers) /\ inner \in Seq(Event)
        BY <3>1
      <4> HIDE DEF m, inner
      <4>1. /\ Len(all) = 2 * Len(m) + Len(inner)
            /\ \A j \in 1 .. Len(m) : all[j] = Press(m[j])
            /\ \A j \in 1 .. Len(inner) : all[Len(m) + j] = inner[j]
            /\ \A j \in 1 .. Len(m) : all[Len(all) + 1 - j] = Release(m[j])
        BY <4>0, ChordEvents
      <4> HIDE DEF all
      <4>2. Events(c) = all
        BY <3>1 DEF all
      <4> QED
        BY <4>1, <4>2
    <3>3. CASE i <= Len(m)
      <4>1. Press(m[i]) = Press(x) /\ m[i] \in Modifiers
        BY <1>1, <1>3, <2>1, <3>2, <3>3
      <4> QED
        BY <4>1, PressIsNotRelease
    <3>4. CASE i > Len(m) /\ i <= Len(m) + Len(inner)
      <4>1. i - Len(m) \in 1 .. Len(inner) /\ Len(m) + (i - Len(m)) = i
        BY <2>1, <3>4
      <4>2. inner[i - Len(m)] = Press(x)
        BY <1>3, <3>2, <4>1
      <4> QED
        BY <1>2, <4>1, <4>2, PressIsNotRelease
    <3>5. CASE i > Len(m) + Len(inner)
      <4> DEFINE j == Len(Events(c)) + 1 - i
      <4>1. j \in 1 .. Len(m) /\ Len(Events(c)) + 1 - j = i
        BY <2>1, <3>2, <3>5
      <4>2. Events(c)[i] = Release(m[j])
        BY <3>2, <4>1
      <4> QED
        BY <1>3, <4>2, PressIsNotRelease
    <3> QED
      BY <2>1, <3>3, <3>4, <3>5
  <2> QED
    BY <2>2, <2>3
<1>4. Open(Events(c), n) \subseteq Modifiers \cup {c.what}
  BY <1>3 DEF Open
<1>5. /\ IsFiniteSet(Modifiers \cup {c.what})
      /\ Cardinality(Modifiers \cup {c.what}) <= Cardinality(Modifiers) + 1
      /\ Cardinality(Modifiers) \in Nat
  <2>1. IsFiniteSet(Modifiers) /\ Cardinality(Modifiers) \in Nat
    BY ThingsAssumption, FS_CardinalityType
  <2>2. /\ IsFiniteSet(Modifiers \cup {c.what})
        /\ \/ Cardinality(Modifiers \cup {c.what}) = Cardinality(Modifiers)
           \/ Cardinality(Modifiers \cup {c.what}) = Cardinality(Modifiers) + 1
    BY <2>1, FS_AddElement
  <2> QED
    BY <2>1, <2>2
<1>6. /\ IsFiniteSet(Open(Events(c), n))
      /\ Cardinality(Open(Events(c), n)) <= Cardinality(Modifiers \cup {c.what})
  BY <1>4, <1>5, FS_Subset
<1>7. Cardinality(Open(Events(c), n)) \in Nat /\ Cardinality(Modifiers \cup {c.what}) \in Nat
  BY <1>5, <1>6, FS_CardinalityType
<1> QED
  BY <1>4, <1>5, <1>6, <1>7

(* A command that went out whole leaves pressed only what the ledger records. *)
LEMMA Committed ==
    ASSUME NEW c \in Command, NEW held, NEW seen, seen \subseteq held
    PROVE  Pressed(seen, Events(c), Len(Events(c))) \subseteq Applied(held, c)
<1>1. c.modifiers \in Seq(Modifiers) /\ Events(c) \in Seq(Event)
  BY EventsTyped
<1>2. Subject(c) \in Seq(Event)
  BY SubjectEvents
<1>3. Open(Events(c), Len(Events(c))) \subseteq Open(Subject(c), Len(Subject(c)))
  BY <1>1, <1>2, ChordCloses DEF Events
<1>4. /\ c.kind \notin {"button_down", "key_down"} => Open(Subject(c), Len(Subject(c))) = {}
      /\ Open(Subject(c), Len(Subject(c))) \subseteq {c.what}
  BY SubjectCloses
<1> DEFINE kept == {x \in seen : \A j \in 1 .. Len(Events(c)) : Events(c)[j] # Release(x)}
<1>5. Pressed(seen, Events(c), Len(Events(c))) = kept \cup Open(Events(c), Len(Events(c)))
  BY DEF Pressed
<1>6. CASE c.kind \in {"button_down", "key_down"}
  <2>1. Applied(held, c) = held \cup {c.what}
    BY <1>6 DEF Applied
  <2> QED
    BY <1>3, <1>4, <1>5, <2>1
<1>7. CASE c.kind \in {"button_up", "key_up"}
  <2>1. Applied(held, c) = held \ {c.what}
    BY <1>7 DEF Applied
  <2>2. Subject(c) = <<Release(c.what)>>
    BY <1>7 DEF Subject
  <2>3. \E j \in 1 .. Len(Events(c)) : Events(c)[j] = Release(c.what)
    <3>1. CASE ~Chords(c)
      <4>1. Events(c) = <<Release(c.what)>>
        BY <2>2, <3>1 DEF Events
      <4> QED
        BY <4>1
    <3>2. CASE Chords(c)
      <4> DEFINE m == c.modifiers
      <4>1. Events(c) = Chorded(m, Subject(c)) /\ m \in Seq(Modifiers) /\ Subject(c) \in Seq(Event)
        BY <1>1, <1>2, <3>2 DEF Events
      <4>2. /\ Len(Events(c)) = 2 * Len(m) + Len(Subject(c))
            /\ \A j \in 1 .. Len(Subject(c)) : Events(c)[Len(m) + j] = Subject(c)[j]
        <5> DEFINE inner == Subject(c)
                   all == Chorded(m, inner)
        <5>0. m \in Seq(Modifiers) /\ inner \in Seq(Event)
          BY <4>1
        <5> HIDE DEF m, inner
        <5>1. /\ Len(all) = 2 * Len(m) + Len(inner)
              /\ \A j \in 1 .. Len(inner) : all[Len(m) + j] = inner[j]
          BY <5>0, ChordEvents
        <5> HIDE DEF all
        <5>2. Events(c) = all
          BY <4>1 DEF all, inner
        <5> USE DEF inner
        <5> QED
          BY <5>1, <5>2
      <4>3. Len(Subject(c)) = 1 /\ Subject(c)[1] = Release(c.what) /\ Len(m) \in Nat
        BY <1>1, <2>2
      <4>4. Len(m) + 1 \in 1 .. Len(Events(c)) /\ Events(c)[Len(m) + 1] = Release(c.what)
        BY <4>2, <4>3
      <4> QED
        BY <4>4
    <3> QED
      BY <3>1, <3>2
  <2>4. c.what \notin kept
    BY <2>3
  <2> QED
    BY <1>3, <1>4, <1>5, <1>7, <2>1, <2>4
<1>8. CASE c.kind \in {"click", "text", "move", "scroll", "wait", "activate"}
  <2>1. Applied(held, c) = held
    BY <1>8 DEF Applied
  <2> QED
    BY <1>3, <1>4, <1>5, <1>8, <2>1
<1> QED
  BY <1>6, <1>7, <1>8 DEF Command
-------------------------------------------------------------------------------

(* The inductive invariant. *)

(* How the calls cut a plan: what is under way between two of them is a timed
   command, the reducer follows the plan it was given, and nothing runs while
   the queue holds anything or after shutdown began. *)
Control ==
    /\ plan # NoPlan /\ pc = "idle" => timed.kind # "none"
    /\ plan = NoPlan => timed = NotTimed /\ next = 0
    /\ begun => plan # NoPlan /\ next < Len(plan.commands) /\ deadline = plan.deadline
    /\ plan # NoPlan => begun \/ timed.kind = "hold" \/ next = Len(plan.commands)
    /\ timed.kind \in {"move", "scroll", "wait"} =>
          begun /\ plan.commands[next + 1].kind = timed.kind
    /\ ~begun => (lease <=> ledger # {})
    /\ pc = "loop" => plan # NoPlan
    /\ pc # "idle" => pending = <<>> /\ initialized /\ ~shutting
    /\ shutting \/ ~initialized => ledger = {} /\ plan = NoPlan

LedgerFits ==
    /\ IsFiniteSet(ledger \cap Keys)
    /\ Cardinality(ledger \cap Keys) <= KeyLimit

IInv ==
    /\ TypeOK /\ LedgerFits /\ Control
    /\ NothingStuck /\ ReleasesFit /\ PlanMatchesDesktop /\ ShutdownLeavesNothing

(* The ledger and the queue. *)

LEMMA SetSizes ==
    /\ Cardinality(Buttons) \in Nat /\ Cardinality(Modifiers) \in Nat
    /\ KeyLimit \in Nat /\ PendingCapacity \in Nat
    /\ PendingCapacity >= Cardinality(Modifiers) + 1 + Cardinality(Buttons) + KeyLimit
BY ThingsAssumption, BoundsAssumption, CapacityAssumption, FS_CardinalityType

(* An allowed command keeps the ledger typed and its keys within the limit. *)
LEMMA AppliedFits ==
    ASSUME NEW c \in Command, Fitting(c), NEW held, held \subseteq Buttons \cup Keys,
           Allowed(held, c), IsFiniteSet(held \cap Keys), Cardinality(held \cap Keys) <= KeyLimit
    PROVE  /\ Applied(held, c) \subseteq Buttons \cup Keys
           /\ IsFiniteSet(Applied(held, c) \cap Keys)
           /\ Cardinality(Applied(held, c) \cap Keys) <= KeyLimit
<1>0. Cardinality(held \cap Keys) \in Nat /\ KeyLimit \in Nat
  BY FS_CardinalityType, SetSizes
<1>1. CASE c.kind = "key_down"
  <2>1. Applied(held, c) = held \cup {c.what} /\ c.what \in Keys
    BY <1>1 DEF Applied, Fitting
  <2>2. Cardinality(held \cap Keys) < KeyLimit
    BY <1>1 DEF Allowed
  <2>3. Applied(held, c) \cap Keys = (held \cap Keys) \cup {c.what}
    BY <2>1
  <2>4. /\ IsFiniteSet((held \cap Keys) \cup {c.what})
        /\ \/ Cardinality((held \cap Keys) \cup {c.what}) = Cardinality(held \cap Keys)
           \/ Cardinality((held \cap Keys) \cup {c.what}) = Cardinality(held \cap Keys) + 1
    BY FS_AddElement
  <2>5. Cardinality((held \cap Keys) \cup {c.what}) <= KeyLimit
    BY <1>0, <2>2, <2>4
  <2> QED
    BY <2>1, <2>3, <2>4, <2>5
<1>2. CASE c.kind = "button_down"
  <2>1. Applied(held, c) = held \cup {c.what} /\ c.what \in Buttons
    BY <1>2 DEF Applied, Fitting
  <2>2. Applied(held, c) \cap Keys = held \cap Keys
    BY <2>1, ThingsAssumption
  <2> QED
    BY <2>1, <2>2
<1>3. CASE c.kind \in {"button_up", "key_up"}
  <2>1. Applied(held, c) = held \ {c.what}
    BY <1>3 DEF Applied
  <2>2. Applied(held, c) \cap Keys \subseteq held \cap Keys
    BY <2>1
  <2>3. /\ IsFiniteSet(Applied(held, c) \cap Keys)
        /\ Cardinality(Applied(held, c) \cap Keys) <= Cardinality(held \cap Keys)
    BY <2>2, FS_Subset
  <2>4. Cardinality(Applied(held, c) \cap Keys) \in Nat
    BY <2>3, FS_CardinalityType
  <2> QED
    BY <1>0, <2>1, <2>3, <2>4
<1>4. CASE c.kind \in {"click", "text", "move", "scroll", "wait", "activate"}
  <2>1. Applied(held, c) = held
    BY <1>4 DEF Applied
  <2> QED
    BY <2>1
<1> QED
  BY <1>1, <1>2, <1>3, <1>4 DEF Command

(* The ledger never outgrows what CapacityAssumption reserves for it. *)
LEMMA LedgerIsSmall ==
    ASSUME ledger \subseteq Buttons \cup Keys, LedgerFits
    PROVE  /\ IsFiniteSet(ledger)
           /\ Cardinality(ledger) \in Nat
           /\ Cardinality(ledger) <= Cardinality(Buttons) + KeyLimit
<1> DEFINE A == ledger \cap Buttons
           B == ledger \cap Keys
<1>1. IsFiniteSet(B) /\ Cardinality(B) <= KeyLimit
  BY DEF LedgerFits
<1>2. IsFiniteSet(A) /\ Cardinality(A) <= Cardinality(Buttons)
  <2>1. A \subseteq Buttons /\ IsFiniteSet(Buttons)
    BY ThingsAssumption
  <2> QED
    BY <2>1, FS_Subset
<1>3. ledger = A \cup B
  OBVIOUS
<1>4. A \cap B = {}
  BY ThingsAssumption
<1> HIDE DEF A, B
<1>5. /\ IsFiniteSet(A \cup B)
      /\ Cardinality(A \cup B) = Cardinality(A) + Cardinality(B) - Cardinality(A \cap B)
  BY <1>1, <1>2, FS_Union
<1>6. Cardinality(A \cap B) = 0
  BY <1>4, FS_EmptySet
<1>7. Cardinality(A) \in Nat /\ Cardinality(B) \in Nat
  BY <1>1, <1>2, FS_CardinalityType
<1> QED
  BY <1>1, <1>2, <1>3, <1>5, <1>6, <1>7, SetSizes

(* Released: the ledger is empty, and what is still pressed waits in a queue
   that fits. *)
Released ==
    /\ ledger = {}
    /\ os \subseteq Things /\ os \subseteq Queued
    /\ pending \in Seq(Things) /\ Len(pending) <= PendingCapacity

LEMMA ReleaseWorks ==
    ASSUME IInv, NEW s \in Listings(ledger), ledger' = {},
           Room(pending, s) => \E n \in 0 .. Len(pending \o s) : Submit(os, pending \o s, n)
    PROVE  /\ Room(pending, s)
           /\ Released'
<1>1. ledger \subseteq Things /\ ledger \subseteq Buttons \cup Keys /\ os \subseteq Things
  BY DEF IInv, TypeOK, Things
<1>2. /\ IsFiniteSet(ledger) /\ Cardinality(ledger) \in Nat
      /\ Cardinality(ledger) <= Cardinality(Buttons) + KeyLimit
  BY <1>1, LedgerIsSmall DEF IInv
<1>3. s \in Seq(ledger) /\ Len(s) = Cardinality(ledger) /\ Front(s, Len(s)) = ledger
  BY <1>2, ListingLists
<1>4. pending \in Seq(Things) /\ Len(pending) <= PendingCapacity /\ Len(pending) \in Nat
  BY DEF IInv, TypeOK
<1>5. Room(pending, s)
  <2>1. CASE pending = <<>>
    <3>1. Len(pending) = 0
      BY <2>1
    <3> QED
      BY <1>2, <1>3, <3>1, SetSizes DEF Room
  <2>2. CASE pending # <<>>
    <3>1. ledger = {}
      BY <2>2 DEF IInv, ReleasesFit
    <3>2. Len(s) = 0
      BY <1>3, <3>1, FS_EmptySet
    <3> QED
      BY <1>4, <3>2 DEF Room
  <2> QED
    BY <2>1, <2>2
<1> DEFINE queue == pending \o s
<1>6. s \in Seq(Things)
  BY <1>1, <1>3
<1>7. /\ queue \in Seq(Things) /\ Len(queue) = Len(pending) + Len(s)
      /\ Front(queue, Len(queue)) = Queued \cup ledger
  BY <1>3, <1>4, <1>6, FrontOfConcatenation DEF Queued
<1>8. os \subseteq {} \cup Front(queue, Len(queue))
  BY <1>7 DEF IInv, NothingStuck
<1>9. PICK n \in 0 .. Len(queue) : Submit(os, queue, n)
  BY <1>5
<1> HIDE DEF queue
<1>10. /\ pending' \in Seq(Things)
       /\ Len(pending') = Len(queue) - n
       /\ os' \subseteq os
       /\ os' \subseteq {} \cup Queued'
  BY <1>7, <1>8, <1>9, SubmissionKeeps
<1>11. Len(queue) <= PendingCapacity /\ Len(queue) \in Nat
  BY <1>3, <1>4, <1>5, <1>7 DEF Room
<1>12. Len(pending') <= PendingCapacity
  BY <1>9, <1>10, <1>11, SetSizes
<1> QED
  BY <1>1, <1>5, <1>10, <1>12 DEF Released

(* A command that failed after n of its events leaves the same. *)
LEMMA FailureReleases ==
    ASSUME IInv, pending = <<>>, NEW events, NEW n, Fail(events, n),
           IsFiniteSet(Open(events, n)),
           Cardinality(Open(events, n)) <= Cardinality(Modifiers) + 1
    PROVE  Released'
<1> DEFINE open == Open(events, n)
<1>1. PICK s \in Listings(open), t \in Listings(ledger) :
        LET first == WithOpen(pending, s)
            queue == IF Room(first, t) THEN first \o t ELSE first
        IN  /\ \E k \in 0 .. Len(queue) : Submit(Pressed(os, events, n), queue, k)
            /\ CollectRelease
  BY DEF Fail
<1>2. /\ open \subseteq Things /\ ledger \subseteq Things /\ os \subseteq Things
      /\ ledger \subseteq Buttons \cup Keys
  BY DEF Open, IInv, TypeOK, Things
<1>3. Pressed(os, events, n) \subseteq os \cup open
  BY DEF Pressed
<1>4. IsFiniteSet(open) /\ Cardinality(open) <= Cardinality(Modifiers) + 1
  OBVIOUS
<1> HIDE DEF open
<1>5. s \in Seq(open) /\ Len(s) = Cardinality(open) /\ Front(s, Len(s)) = open
  BY <1>4, ListingLists
<1>6. /\ IsFiniteSet(ledger) /\ Cardinality(ledger) \in Nat
      /\ Cardinality(ledger) <= Cardinality(Buttons) + KeyLimit
  BY <1>2, LedgerIsSmall DEF IInv
<1>7. t \in Seq(ledger) /\ Len(t) = Cardinality(ledger) /\ Front(t, Len(t)) = ledger
  BY <1>6, ListingLists
<1>8. s \in Seq(Things) /\ t \in Seq(Things) /\ Cardinality(open) \in Nat
  BY <1>2, <1>4, <1>5, <1>7, FS_CardinalityType
<1>9. WithOpen(pending, s) = s
  <2>1. Len(pending) = 0 /\ pending \o s = s
    BY <1>8
  <2>2. Room(pending, s)
    BY <1>4, <1>5, <1>8, <2>1, SetSizes DEF Room
  <2> QED
    BY <2>1, <2>2 DEF WithOpen
<1>10. Room(s, t)
  BY <1>4, <1>5, <1>6, <1>7, <1>8, SetSizes DEF Room
<1> DEFINE queue == s \o t
<1>11. /\ queue \in Seq(Things) /\ Len(queue) = Len(s) + Len(t)
       /\ Front(queue, Len(queue)) = open \cup ledger
  BY <1>5, <1>7, <1>8, FrontOfConcatenation
<1>12. CollectRelease /\ \E k \in 0 .. Len(queue) : Submit(Pressed(os, events, n), queue, k)
  BY <1>1, <1>9, <1>10
<1>13. PICK k \in 0 .. Len(queue) : Submit(Pressed(os, events, n), queue, k)
  BY <1>12
<1>14. os \subseteq ledger
  BY DEF IInv, NothingStuck, Queued, Front
<1>15. Pressed(os, events, n) \subseteq {} \cup Front(queue, Len(queue))
  BY <1>3, <1>11, <1>14
<1> HIDE DEF queue
<1>16. /\ pending' \in Seq(Things)
       /\ Len(pending') = Len(queue) - k
       /\ os' \subseteq Pressed(os, events, n)
       /\ os' \subseteq {} \cup Queued'
  BY <1>11, <1>13, <1>15, SubmissionKeeps
<1>17. Len(queue) <= PendingCapacity /\ Len(queue) \in Nat
  BY <1>5, <1>7, <1>8, <1>10, <1>11 DEF Room
<1>18. Len(pending') <= PendingCapacity
  BY <1>13, <1>16, <1>17, SetSizes
<1>19. os' \subseteq Things
  BY <1>2, <1>3, <1>16
<1> QED
  BY <1>12, <1>16, <1>18, <1>19 DEF Released, CollectRelease
-------------------------------------------------------------------------------

(* Every way out of a plan, and shutdown, leaves the invariant behind. *)
LEMMA DroppedHolds ==
    ASSUME IInv, Released', CollectRelease, DropPlan, pc' = "idle", UNCHANGED worldVars,
           initialized' \in BOOLEAN, shutting' \in BOOLEAN, ~initialized' => pending' = <<>>
    PROVE  IInv'
<1> USE DEF CollectRelease, DropPlan
<1>1. plan' = NoPlan /\ next' = 0 /\ timed' = NotTimed /\ ledger' = {} /\ ~lease' /\ ~begun'
  BY DEF IInv
<1>2. TypeOK'
  <2>1. NoPlan.commands = <<>> /\ Len(<<>>) = 0 /\ NotTimed.kind = "none" /\ NotTimed.end = 0
    BY DEF NoPlan, NotTimed
  <2>2. plan' = NoPlan /\ next' \in Nat /\ next' <= Len(plan'.commands)
    BY <1>1, <2>1
  <2>3. timed'.kind = "none" /\ timed'.end \in Nat /\ deadline' \in 0 .. MaxClock
    BY <1>1, <2>1, BoundsAssumption
  <2>4. /\ os' \subseteq Things /\ pending' \in Seq(Things) /\ Len(pending') <= PendingCapacity
        /\ ledger' \subseteq Buttons \cup Keys
    BY DEF Released
  <2>5. topology' \in 1 .. MaxTopology /\ clock' \in 0 .. MaxClock
    BY DEF worldVars, IInv, TypeOK
  <2> QED
    BY <1>1, <2>2, <2>3, <2>4, <2>5, Zenon DEF TypeOK
<1>3. LedgerFits'
  BY <1>1, FS_EmptySet, SetSizes DEF LedgerFits
<1>4. Control'
  BY <1>1 DEF Control, NotTimed
<1>5. NothingStuck' /\ ReleasesFit' /\ PlanMatchesDesktop'
  BY <1>1 DEF Released, NothingStuck, ReleasesFit, PlanMatchesDesktop
<1>6. ShutdownLeavesNothing'
  <2> SUFFICES ASSUME ~initialized' PROVE os' = {} /\ pending' = <<>>
    BY DEF ShutdownLeavesNothing
  <2>1. Queued' = {}
    BY DEF Queued, Front
  <2> QED
    BY <2>1 DEF Released
<1> QED
  BY <1>2, <1>3, <1>4, <1>5, <1>6 DEF IInv

LEMMA NeutralizeHolds == ASSUME IInv, Neutralize PROVE IInv'
<1>1. PICK s \in Listings(ledger) :
        IF Room(pending, s)
          THEN \E n \in 0 .. Len(pending \o s) : Submit(os, pending \o s, n)
          ELSE UNCHANGED <<os, pending>>
  BY DEF Neutralize, EmitRelease
<1>2. Released'
  BY <1>1, ReleaseWorks DEF Neutralize, CollectRelease
<1> QED
  BY <1>2, DroppedHolds DEF Neutralize, Callable, lifeVars, IInv, TypeOK

LEMMA ShutdownHolds == ASSUME IInv, Shutdown PROVE IInv'
<1>1. PICK s \in Listings(ledger) : Finish(pending \o s)
  BY DEF Shutdown
<1> DEFINE queue == pending \o s
<1>2. PICK n \in 0 .. Len(queue) :
        Submit(os, queue, n) /\ shutting' = (n < Len(queue)) /\ initialized' = (n < Len(queue))
  BY <1>1 DEF Finish
<1>3. Released'
  BY <1>2, ReleaseWorks DEF Shutdown, CollectRelease
<1>4. ~initialized' => pending' = <<>>
  <2>1. IsFiniteSet(ledger) /\ ledger \subseteq Things
    BY LedgerIsSmall DEF IInv, TypeOK, Things
  <2>2. s \in Seq(Things)
    BY <2>1, ListingLists
  <2>3. queue \in Seq(Things)
    BY <2>2 DEF IInv, TypeOK
  <2> HIDE DEF queue
  <2>4. Len(pending') = Len(queue) - n /\ pending' \in Seq(Things)
    BY <1>2, <2>3, SubmissionKeeps
  <2> SUFFICES ASSUME ~initialized' PROVE pending' = <<>>
    OBVIOUS
  <2>5. ~(n < Len(queue))
    BY <1>2, Zenon
  <2>6. Len(pending') = 0
    BY <1>2, <2>3, <2>4, <2>5
  <2> QED
    BY <2>4, <2>6
<1> QED
  BY <1>2, <1>3, <1>4, DroppedHolds DEF Shutdown, Callable

(* A retry takes the front of the queue and keeps the rest. *)
LEMMA RetryKeeps ==
    ASSUME IInv, NEW n \in 0 .. Len(pending), Submit(os, pending, n)
    PROVE  /\ pending' \in Seq(Things) /\ Len(pending') <= PendingCapacity
           /\ Len(pending') = Len(pending) - n
           /\ os' \subseteq os
           /\ os' \subseteq ledger \cup Queued'
<1>1. pending \in Seq(Things) /\ Len(pending) <= PendingCapacity /\ Len(pending) \in Nat
  BY DEF IInv, TypeOK
<1>2. os \subseteq ledger \cup Front(pending, Len(pending))
  BY DEF IInv, NothingStuck, Queued
<1>3. /\ pending' \in Seq(Things) /\ Len(pending') = Len(pending) - n
      /\ os' \subseteq os /\ os' \subseteq ledger \cup Queued'
  BY <1>1, <1>2, SubmissionKeeps
<1> QED
  BY <1>1, <1>3, SetSizes

(* A retry with nothing else changed but where the call is. *)
LEMMA RetryHolds ==
    ASSUME IInv, RetryPending, UNCHANGED <<reducerVars, planVars, worldVars>>,
           pc' \in {"idle", "entry"}, pc = "idle",
           pc' = "entry" => pending' = <<>> /\ initialized' /\ ~shutting',
           \/ UNCHANGED lifeVars
           \/ /\ shutting /\ shutting' \in BOOLEAN /\ initialized' \in BOOLEAN
              /\ ~initialized' => pending' = <<>>
    PROVE  IInv'
<1>1. PICK n \in 0 .. Len(pending) : Submit(os, pending, n)
  BY DEF RetryPending
<1>2. /\ pending' \in Seq(Things) /\ Len(pending') <= PendingCapacity
      /\ Len(pending') = Len(pending) - n
      /\ os' \subseteq os
      /\ os' \subseteq ledger \cup Queued'
  BY <1>1, RetryKeeps
<1> USE DEF reducerVars, planVars, worldVars, lifeVars
<1>3. pending = <<>> => pending' = <<>>
  <2> SUFFICES ASSUME pending = <<>> PROVE pending' = <<>>
    OBVIOUS
  <2>1. Len(pending) = 0 /\ n = 0
    OBVIOUS
  <2> QED
    BY <1>2, <2>1
<1>4. TypeOK'
  BY <1>2 DEF IInv, TypeOK
<1>5. LedgerFits'
  BY DEF IInv, LedgerFits
<1>6. Control'
  BY <1>3 DEF IInv, Control
<1>7. NothingStuck'
  BY <1>2 DEF NothingStuck
<1>8. ReleasesFit' /\ PlanMatchesDesktop'
  BY <1>3 DEF IInv, ReleasesFit, PlanMatchesDesktop
<1>9. ShutdownLeavesNothing'
  <2> SUFFICES ASSUME ~initialized' PROVE os' = {} /\ pending' = <<>>
    BY DEF ShutdownLeavesNothing
  <2>1. pending' = <<>> /\ ledger = {}
    BY <1>3 DEF IInv, Control, ShutdownLeavesNothing
  <2>2. Queued' = {}
    BY <2>1 DEF Queued, Front
  <2> QED
    BY <1>2, <2>1, <2>2
<1> QED
  BY <1>4, <1>5, <1>6, <1>7, <1>8, <1>9 DEF IInv

LEMMA RetriesHold ==
    ASSUME IInv, ExecuteRefused \/ Advance \/ ShutdownAgain PROVE IInv'
<1>1. CASE ExecuteRefused
  BY <1>1, RetryHolds DEF ExecuteRefused, Callable
<1>2. CASE Advance
  <2>1. pc' \in {"idle", "entry"} /\ (pc' = "entry" => pending' = <<>>)
    BY <1>2 DEF Advance
  <2> QED
    BY <1>2, <2>1, RetryHolds DEF Advance, Callable, lifeVars
<1>3. CASE ShutdownAgain
  <2>1. CASE RetryPending /\ UNCHANGED lifeVars
    BY <1>3, <2>1, RetryHolds DEF ShutdownAgain, Callable
  <2>2. CASE Finish(pending)
    <3>1. PICK n \in 0 .. Len(pending) :
            Submit(os, pending, n) /\ shutting' = (n < Len(pending)) /\ initialized' = (n < Len(pending))
      BY <2>2 DEF Finish
    <3>2. RetryPending
      BY <3>1 DEF RetryPending
    <3>3. pending' \in Seq(Things) /\ Len(pending') = Len(pending) - n /\ Len(pending) \in Nat
      BY <3>1, RetryKeeps DEF IInv, TypeOK
    <3>4. ~initialized' => pending' = <<>>
      <4> SUFFICES ASSUME ~initialized' PROVE pending' = <<>>
        OBVIOUS
      <4>1. ~(n < Len(pending))
        BY <3>1, Zenon
      <4>2. Len(pending') = 0
        BY <3>1, <3>3, <4>1
      <4> QED
        BY <3>3, <4>2
    <3> QED
      BY <1>3, <3>1, <3>2, <3>4, RetryHolds DEF ShutdownAgain, Callable
  <2> QED
    BY <1>3, <2>1, <2>2 DEF ShutdownAgain
<1> QED
  BY <1>1, <1>2, <1>3
-------------------------------------------------------------------------------

(* The command a plan has reached is one the planner built. *)
LEMMA CurrentIsCommand ==
    ASSUME TypeOK, plan # NoPlan, next < Len(plan.commands)
    PROVE  /\ CurrentCommand \in Command /\ Fitting(CurrentCommand)
           /\ next \in Nat /\ Len(plan.commands) \in Nat
<1>1. plan.commands \in Plans /\ next \in Nat
  BY DEF TypeOK
<1>2. /\ plan.commands \in Seq(Command)
      /\ \A i \in 1 .. Len(plan.commands) : Fitting(plan.commands[i])
  BY <1>1, PlansAssumption
<1>3. next + 1 \in 1 .. Len(plan.commands) /\ Len(plan.commands) \in Nat
  BY <1>1, <1>2
<1> QED
  BY <1>1, <1>2, <1>3 DEF CurrentCommand

(* Calls that start or end no plan and release nothing. *)
LEMMA QuietHolds ==
    ASSUME IInv,
           UNCHANGED vars \/ Tick \/ UpdateDesktop \/ Initialize \/ EntryNothing
             \/ EntryContinues \/ LoopWaits
    PROVE  IInv'
<1> USE DEF reducerVars, planVars, worldVars, lifeVars
<1>1. CASE UNCHANGED vars
  BY <1>1 DEF vars, IInv, TypeOK, LedgerFits, Control, NothingStuck, ReleasesFit,
     PlanMatchesDesktop, ShutdownLeavesNothing, Queued
<1>2. CASE Tick
  <2>1. TypeOK'
    BY <1>2, BoundsAssumption DEF Tick, IInv, TypeOK
  <2> QED
    BY <1>2, <2>1 DEF Tick, IInv, LedgerFits, Control, NothingStuck, ReleasesFit,
       PlanMatchesDesktop, ShutdownLeavesNothing, Queued
<1>3. CASE UpdateDesktop
  <2>1. TypeOK'
    BY <1>3, BoundsAssumption DEF UpdateDesktop, IInv, TypeOK
  <2>2. plan = NoPlan
    BY <1>3 DEF UpdateDesktop, Callable, SyntheticInputActive, IInv, Control
  <2>3. PlanMatchesDesktop'
    BY <1>3, <2>2 DEF UpdateDesktop, PlanMatchesDesktop
  <2> QED
    BY <1>3, <2>1, <2>3 DEF UpdateDesktop, IInv, LedgerFits, Control, NothingStuck, ReleasesFit,
       ShutdownLeavesNothing, Queued
<1>4. CASE Initialize
  <2>1. os = {} /\ pending = <<>> /\ ledger = {} /\ plan = NoPlan
    BY <1>4 DEF Initialize, IInv, Control, ShutdownLeavesNothing
  <2>2. TypeOK'
    BY <1>4, <2>1 DEF Initialize, IInv, TypeOK
  <2>3. Control'
    BY <1>4, <2>1 DEF Initialize, IInv, Control
  <2> QED
    BY <1>4, <2>1, <2>2, <2>3 DEF Initialize, IInv, LedgerFits, NothingStuck, ReleasesFit,
       PlanMatchesDesktop, ShutdownLeavesNothing
<1>5. CASE EntryNothing \/ EntryContinues \/ LoopWaits
  <2>1. /\ UNCHANGED <<os, pending, reducerVars, planVars, lifeVars, worldVars>>
        /\ pc # "idle" /\ pc' \in {"idle", "loop"}
        /\ pc' = "idle" => plan = NoPlan \/ timed.kind # "none"
        /\ pc' = "loop" => plan # NoPlan
    BY <1>5 DEF EntryNothing, EntryContinues, LoopWaits, Return, Loop
  <2>2. TypeOK'
    BY <2>1 DEF IInv, TypeOK
  <2>3. Control'
    BY <2>1 DEF IInv, Control
  <2> QED
    BY <2>1, <2>2, <2>3 DEF IInv, LedgerFits, NothingStuck, ReleasesFit,
       PlanMatchesDesktop, ShutdownLeavesNothing, Queued
<1> QED
  BY <1>1, <1>2, <1>3, <1>4, <1>5

LEMMA ExecuteHolds ==
    ASSUME IInv, NEW p \in Plans, NEW until \in 1 .. MaxClock, Execute(p, until)
    PROVE  IInv'
<1> USE DEF reducerVars, planVars, worldVars, lifeVars
<1>1. p \in Seq(Command) /\ p # <<>> /\ Len(p) \in Nat /\ 0 < Len(p)
  <2>1. p \in Seq(Command) /\ p # <<>>
    BY PlansAssumption
  <2> QED
    BY <2>1
<1>2. /\ plan' = [commands |-> p, deadline |-> until, topology |-> topology]
      /\ next' = 0 /\ begun' /\ deadline' = until /\ pc' = "entry"
      /\ UNCHANGED <<ledger, lease, timed, lifeVars, worldVars>>
      /\ plan = NoPlan /\ ~begun /\ initialized /\ ~shutting /\ pc = "idle"
      /\ Submit(os, pending, Len(pending))
  BY DEF Execute, Callable, Accepts
<1>3. plan'.commands = p /\ plan'.deadline = until /\ plan'.topology = topology
  BY <1>2
<1>4. plan' # NoPlan
  <2>1. NoPlan.commands = <<>>
    BY DEF NoPlan
  <2> QED
    BY <1>1, <1>3, <2>1
<1>5. /\ pending' \in Seq(Things) /\ Len(pending') <= PendingCapacity /\ pending' = <<>>
      /\ os' \subseteq os /\ os' \subseteq ledger \cup Queued'
  <2>1. Len(pending) \in 0 .. Len(pending)
    BY DEF IInv, TypeOK
  <2>2. /\ pending' \in Seq(Things) /\ Len(pending') <= PendingCapacity
        /\ Len(pending') = Len(pending) - Len(pending)
        /\ os' \subseteq os /\ os' \subseteq ledger \cup Queued'
    BY <1>2, <2>1, RetryKeeps
  <2>3. Len(pending') = 0
    BY <2>1, <2>2
  <2> QED
    BY <2>2, <2>3
<1>6. TypeOK'
  <2>1. plan' \in [commands : Plans, deadline : 1 .. MaxClock, topology : 1 .. MaxTopology]
    BY <1>2 DEF IInv, TypeOK
  <2>2. next' \in Nat /\ next' <= Len(plan'.commands) /\ deadline' \in 0 .. MaxClock
    BY <1>1, <1>2, <1>3, BoundsAssumption
  <2> QED
    BY <1>2, <1>5, <2>1, <2>2 DEF IInv, TypeOK
<1>7. Control'
  BY <1>1, <1>2, <1>3, <1>4, <1>5 DEF IInv, Control, NotTimed
<1>8. LedgerFits' /\ NothingStuck' /\ ReleasesFit' /\ PlanMatchesDesktop' /\ ShutdownLeavesNothing'
  BY <1>2, <1>3, <1>5 DEF IInv, LedgerFits, NothingStuck, ReleasesFit, PlanMatchesDesktop,
     ShutdownLeavesNothing
<1> QED
  BY <1>6, <1>7, <1>8 DEF IInv

LEMMA ExecuteDryRunHolds ==
    ASSUME IInv, NEW p \in Plans, NEW until \in 1 .. MaxClock, ExecuteDryRun(p, until)
    PROVE  IInv'
<1> USE DEF reducerVars, planVars, worldVars, lifeVars
<1>1. /\ (lease' <=> ledger # {}) /\ lease' \in BOOLEAN /\ ~begun /\ begun' = FALSE
      /\ deadline' \in {0, until}
      /\ UNCHANGED <<os, pending, pc, ledger, planVars, lifeVars, worldVars>>
  BY DEF ExecuteDryRun, Complete, Accepts
<1>2. TypeOK'
  <2>1. deadline' \in 0 .. MaxClock
    BY <1>1, BoundsAssumption
  <2> QED
    BY <1>1, <2>1 DEF IInv, TypeOK
<1>3. Control'
  BY <1>1 DEF IInv, Control
<1> QED
  BY <1>1, <1>2, <1>3 DEF IInv, LedgerFits, NothingStuck, ReleasesFit, PlanMatchesDesktop,
     ShutdownLeavesNothing, Queued
-------------------------------------------------------------------------------

LEMMA EntryExpiredHolds == ASSUME IInv, EntryExpired PROVE IInv'
<1> USE DEF reducerVars, planVars, worldVars, lifeVars
<1>1. /\ pc = "entry" /\ plan # NoPlan /\ clock >= plan.deadline
      /\ DropPlan /\ pc' = "idle" /\ UNCHANGED <<lifeVars, worldVars>>
      /\ initialized /\ ~shutting /\ pending = <<>>
  BY DEF EntryExpired, Return, IInv, Control
<1>2. initialized' \in BOOLEAN /\ shutting' \in BOOLEAN /\ initialized'
  BY <1>1 DEF IInv, TypeOK
<1>3. CASE deadline # 0 /\ clock >= deadline
  <2>1. CollectRelease /\ EmitRelease
    BY <1>3 DEF EntryExpired
  <2>2. PICK s \in Listings(ledger) :
          IF Room(pending, s)
            THEN \E n \in 0 .. Len(pending \o s) : Submit(os, pending \o s, n)
            ELSE UNCHANGED <<os, pending>>
    BY <2>1 DEF EmitRelease
  <2>3. Released'
    BY <2>1, <2>2, ReleaseWorks DEF CollectRelease
  <2> QED
    BY <1>1, <1>2, <2>1, <2>3, DroppedHolds
<1>4. CASE ~(deadline # 0 /\ clock >= deadline)
  <2>1. UNCHANGED <<os, pending, reducerVars>>
    BY <1>4 DEF EntryExpired
  <2>2. ~begun
    <3>1. plan.deadline \in 1 .. MaxClock
      BY <1>1 DEF IInv, TypeOK
    <3>2. begun => deadline = plan.deadline
      BY DEF IInv, Control
    <3> QED
      BY <1>1, <1>4, <3>1, <3>2
  <2>3. TypeOK'
    <3>1. NoPlan.commands = <<>> /\ Len(<<>>) = 0 /\ NotTimed.kind = "none" /\ NotTimed.end = 0
      BY DEF NoPlan, NotTimed
    <3>2. plan' = NoPlan /\ next' = 0 /\ next' <= Len(plan'.commands) /\ timed'.kind = "none" /\ timed'.end = 0
      BY <1>1, <3>1 DEF DropPlan
    <3> QED
      BY <1>1, <2>1, <3>2 DEF IInv, TypeOK
  <2>4. Control'
    BY <1>1, <2>1, <2>2 DEF DropPlan, NotTimed, IInv, Control
  <2> QED
    BY <1>1, <2>1, <2>3, <2>4 DEF DropPlan, IInv, LedgerFits, NothingStuck, ReleasesFit,
       PlanMatchesDesktop, ShutdownLeavesNothing, Queued
<1> QED
  BY <1>3, <1>4

LEMMA LoopHoldEndsHolds == ASSUME IInv, LoopHoldEnds PROVE IInv'
<1>1. PICK s \in Listings(ledger) :
        IF Room(pending, s)
          THEN \E n \in 0 .. Len(pending \o s) : Submit(os, pending \o s, n)
          ELSE UNCHANGED <<os, pending>>
  BY DEF LoopHoldEnds, EmitRelease
<1>2. Released'
  BY <1>1, ReleaseWorks DEF LoopHoldEnds, CollectRelease
<1>3. initialized' \in BOOLEAN /\ shutting' \in BOOLEAN /\ initialized'
  BY DEF LoopHoldEnds, lifeVars, IInv, TypeOK, Control
<1> QED
  BY <1>2, <1>3, DroppedHolds DEF LoopHoldEnds, Return

(* A command refused, or half sent. *)
LEMMA FailsHolds == ASSUME IInv, LoopRefused \/ LoopFails PROVE IInv'
<1>1. pc = "loop" /\ pending = <<>> /\ initialized /\ plan # NoPlan
  BY DEF LoopRefused, LoopFails, AtCommand, IInv, Control
<1>2. PICK events, n :
        /\ Fail(events, n)
        /\ IsFiniteSet(Open(events, n))
        /\ Cardinality(Open(events, n)) <= Cardinality(Modifiers) + 1
  <2>1. CASE LoopRefused
    <3>1. Open(<<>>, 0) = {}
      BY DEF Open
    <3>2. IsFiniteSet({}) /\ Cardinality({}) <= Cardinality(Modifiers) + 1
      BY FS_EmptySet, SetSizes
    <3> QED
      BY <2>1, <3>1, <3>2 DEF LoopRefused
  <2>2. CASE LoopFails
    <3>1. CurrentCommand \in Command
      BY <1>1, <2>2, CurrentIsCommand DEF LoopFails, AtCommand, IInv
    <3>2. PICK n \in 0 .. Len(Events(CurrentCommand)) - 1 : Fail(Events(CurrentCommand), n)
      BY <2>2 DEF LoopFails
    <3>3. Len(Events(CurrentCommand)) \in Nat
      BY <3>1, EventsTyped
    <3>4. n \in 0 .. Len(Events(CurrentCommand))
      BY <3>3
    <3>5. /\ IsFiniteSet(Open(Events(CurrentCommand), n))
          /\ Cardinality(Open(Events(CurrentCommand), n)) <= Cardinality(Modifiers) + 1
      BY <3>1, <3>4, OpenIsSmall
    <3> QED
      BY <3>2, <3>5
  <2> QED
    BY <2>1, <2>2
<1>3. Released'
  BY <1>1, <1>2, FailureReleases
<1>4. CollectRelease /\ DropPlan /\ pc' = "idle" /\ UNCHANGED <<lifeVars, worldVars>>
  BY <1>2 DEF Fail, Return
<1>5. initialized' \in BOOLEAN /\ shutting' \in BOOLEAN /\ initialized'
  BY <1>1, <1>4 DEF lifeVars, IInv, TypeOK
<1> QED
  BY <1>3, <1>4, <1>5, DroppedHolds

LEMMA LoopDoneHolds == ASSUME IInv, LoopDone PROVE IInv'
<1> USE DEF reducerVars, worldVars, lifeVars
<1>1. /\ plan # NoPlan /\ initialized /\ ~shutting /\ pending = <<>>
      /\ next = Len(plan.commands)
      /\ plan' = NoPlan /\ next' = 0 /\ timed' = NotTimed /\ pc' = "idle"
      /\ UNCHANGED <<os, pending, reducerVars, lifeVars, worldVars>>
  BY DEF LoopDone, Return, DropPlan, IInv, Control
<1>2. ~begun
  <2>1. next \in Nat
    BY DEF IInv, TypeOK
  <2>2. begun => next < Len(plan.commands)
    BY DEF IInv, Control
  <2> QED
    BY <1>1, <2>1, <2>2
<1>3. TypeOK'
  <2>1. NoPlan.commands = <<>> /\ Len(<<>>) = 0 /\ NotTimed.kind = "none" /\ NotTimed.end = 0
    BY DEF NoPlan, NotTimed
  <2>2. next' <= Len(plan'.commands) /\ timed'.kind = "none" /\ timed'.end = 0
    BY <1>1, <2>1
  <2> QED
    BY <1>1, <2>2 DEF IInv, TypeOK
<1>4. Control'
  BY <1>1, <1>2 DEF IInv, Control, NotTimed
<1> QED
  BY <1>1, <1>3, <1>4 DEF IInv, LedgerFits, NothingStuck, ReleasesFit,
     PlanMatchesDesktop, ShutdownLeavesNothing, Queued

LEMMA LoopStartsTimedHolds == ASSUME IInv, LoopStartsTimed PROVE IInv'
<1> USE DEF reducerVars, worldVars, lifeVars
<1>1. /\ plan # NoPlan /\ timed.kind = "none" /\ next < Len(plan.commands)
      /\ initialized /\ ~shutting /\ pending = <<>>
  BY DEF LoopStartsTimed, AtCommand, IInv, Control
<1>2. /\ CurrentCommand \in Command /\ Fitting(CurrentCommand)
      /\ next \in Nat /\ Len(plan.commands) \in Nat
  BY <1>1, CurrentIsCommand DEF IInv
<1>3. /\ CurrentCommand.kind \in {"move", "scroll", "wait"}
      /\ CurrentCommand.duration \in Nat
  BY <1>2 DEF LoopStartsTimed, Fitting, Command
<1>4. /\ timed'.kind = CurrentCommand.kind
      /\ timed'.end = clock + CurrentCommand.duration
      /\ pc' = "idle"
      /\ UNCHANGED <<os, pending, reducerVars, plan, next, lifeVars, worldVars>>
  BY DEF LoopStartsTimed, Return
<1>5. TypeOK'
  <2>1. clock \in Nat
    BY BoundsAssumption DEF IInv, TypeOK
  <2>2. timed'.kind \in {"none", "move", "scroll", "wait", "hold"} /\ timed'.end \in Nat
    BY <1>3, <1>4, <2>1
  <2> QED
    BY <1>4, <2>2 DEF IInv, TypeOK
<1>6. Control'
  <2>1. begun
    BY <1>1, <1>2 DEF IInv, Control
  <2>2. plan.commands[next + 1].kind = timed'.kind
    BY <1>4 DEF CurrentCommand
  <2> QED
    BY <1>1, <1>3, <1>4, <2>1, <2>2 DEF IInv, Control
<1> QED
  BY <1>4, <1>5, <1>6 DEF IInv, LedgerFits, NothingStuck, ReleasesFit,
     PlanMatchesDesktop, ShutdownLeavesNothing, Queued
-------------------------------------------------------------------------------

(* A command that is done: the ledger takes it, and the plan goes on, or is
   complete, or holds a button for a while. *)
LEMMA AdvancesHolds ==
    ASSUME IInv, pc = "loop", begun, next < Len(plan.commands),
           Allowed(ledger, CurrentCommand), AdvanceReducer(CurrentCommand), next' = next + 1,
           os' \subseteq Things, os' \subseteq ledger',
           UNCHANGED <<pending, plan, lifeVars, worldVars>>,
           \/ timed'.kind = "none" /\ timed'.end \in Nat /\ pc' = "loop"
           \/ timed'.kind = "hold" /\ timed'.end \in Nat /\ pc' = "idle"
    PROVE  IInv'
<1> USE DEF worldVars, lifeVars
<1>1. plan # NoPlan /\ initialized /\ ~shutting /\ pending = <<>> /\ deadline = plan.deadline
  BY DEF IInv, Control
<1>2. /\ CurrentCommand \in Command /\ Fitting(CurrentCommand)
      /\ next \in Nat /\ Len(plan.commands) \in Nat
  BY <1>1, CurrentIsCommand DEF IInv
<1>3. ledger' = Applied(ledger, CurrentCommand)
  BY DEF AdvanceReducer
<1>4. /\ ledger' \subseteq Buttons \cup Keys
      /\ IsFiniteSet(ledger' \cap Keys) /\ Cardinality(ledger' \cap Keys) <= KeyLimit
  <2>1. /\ ledger \subseteq Buttons \cup Keys
        /\ IsFiniteSet(ledger \cap Keys) /\ Cardinality(ledger \cap Keys) <= KeyLimit
    BY DEF IInv, TypeOK, LedgerFits
  <2> QED
    BY <1>2, <1>3, <2>1, AppliedFits
<1>5. CASE next + 1 = Len(plan.commands)
  <2>1. /\ lease' = (ledger' # {}) /\ begun' = FALSE
        /\ deadline' = IF ledger' = {} THEN 0 ELSE deadline
    BY <1>5 DEF AdvanceReducer, Complete
  <2>2. lease' \in BOOLEAN /\ (lease' <=> ledger' # {}) /\ ~begun'
    BY <2>1
  <2>3. TypeOK'
    <3>1. deadline' \in 0 .. MaxClock
      BY <2>1, BoundsAssumption DEF IInv, TypeOK
    <3>2. next' \in Nat /\ next' <= Len(plan'.commands)
      BY <1>2, <1>5
    <3>3. timed'.kind \in {"none", "move", "scroll", "wait", "hold"} /\ timed'.end \in Nat
      BY DEF NotTimed
    <3> QED
      BY <1>4, <2>1, <2>2, <3>1, <3>2, <3>3 DEF IInv, TypeOK
  <2>4. Control'
    <3>1. next' = Len(plan'.commands)
      BY <1>5
    <3> QED
      BY <1>1, <2>2, <3>1 DEF Control, NotTimed
  <2> QED
    BY <1>1, <1>4, <2>3, <2>4 DEF IInv, LedgerFits, NothingStuck, ReleasesFit,
       PlanMatchesDesktop, ShutdownLeavesNothing
<1>6. CASE next + 1 # Len(plan.commands)
  <2>1. UNCHANGED <<lease, deadline, begun>>
    BY <1>6 DEF AdvanceReducer
  <2>2. next' < Len(plan'.commands) /\ next' \in Nat /\ next' <= Len(plan'.commands)
    BY <1>2, <1>6
  <2>3. TypeOK'
    <3>1. timed'.kind \in {"none", "move", "scroll", "wait", "hold"} /\ timed'.end \in Nat
      BY DEF NotTimed
    <3> QED
      BY <1>4, <2>1, <2>2, <3>1 DEF IInv, TypeOK
  <2>4. Control'
    BY <1>1, <2>1, <2>2 DEF Control, NotTimed
  <2> QED
    BY <1>1, <1>4, <2>3, <2>4 DEF IInv, LedgerFits, NothingStuck, ReleasesFit,
       PlanMatchesDesktop, ShutdownLeavesNothing
<1> QED
  BY <1>5, <1>6

LEMMA LoopTimedEndsHolds == ASSUME IInv, LoopTimedEnds PROVE IInv'
<1> USE DEF worldVars, lifeVars
<1>1. /\ pc = "loop" /\ timed.kind \in {"move", "scroll", "wait"}
      /\ AdvanceReducer(CurrentCommand) /\ next' = next + 1
      /\ timed' = NotTimed /\ pc' = "loop"
      /\ UNCHANGED <<os, pending, plan, lifeVars, worldVars>>
  BY DEF LoopTimedEnds, Loop
<1>2. begun /\ CurrentCommand.kind = timed.kind /\ next < Len(plan.commands) /\ pending = <<>>
  BY <1>1 DEF IInv, Control, CurrentCommand
<1>3. Allowed(ledger, CurrentCommand) /\ Applied(ledger, CurrentCommand) = ledger
  BY <1>1, <1>2 DEF Allowed, Applied
<1>4. os' \subseteq Things /\ os' \subseteq ledger'
  <2>1. ledger' = ledger
    BY <1>1, <1>3 DEF AdvanceReducer
  <2> QED
    BY <1>1, <1>2, <2>1 DEF IInv, TypeOK, NothingStuck, Queued, Front
<1> QED
  BY <1>1, <1>2, <1>3, <1>4, AdvancesHolds DEF NotTimed

LEMMA CommitsHolds == ASSUME IInv, LoopStartsHold \/ LoopRuns PROVE IInv'
<1>1. /\ pc = "loop" /\ timed.kind = "none" /\ next < Len(plan.commands)
      /\ plan # NoPlan /\ pending = <<>> /\ Commit
  BY DEF LoopStartsHold, LoopRuns, AtCommand, IInv, Control
<1>2. CurrentCommand \in Command
  BY <1>1, CurrentIsCommand DEF IInv
<1>3. begun
  <2>1. next \in Nat /\ Len(plan.commands) \in Nat
    BY <1>1, CurrentIsCommand DEF IInv
  <2>2. next # Len(plan.commands)
    BY <1>1, <2>1
  <2> QED
    BY <1>1, <2>2 DEF IInv, Control
<1>4. /\ Allowed(ledger, CurrentCommand) /\ AdvanceReducer(CurrentCommand) /\ next' = next + 1
      /\ os' = Pressed(os, Events(CurrentCommand), Len(Events(CurrentCommand)))
      /\ UNCHANGED <<pending, plan, lifeVars, worldVars>>
  BY <1>1 DEF Commit
<1>5. os' \subseteq ledger'
  <2>1. os \subseteq ledger
    BY <1>1 DEF IInv, NothingStuck, Queued, Front
  <2>2. os' \subseteq Applied(ledger, CurrentCommand)
    BY <1>2, <1>4, <2>1, Committed
  <2> QED
    BY <1>4, <2>2 DEF AdvanceReducer
<1>6. os' \subseteq Things
  BY <1>4 DEF Pressed, Open, IInv, TypeOK
<1>7. \/ timed'.kind = "none" /\ timed'.end \in Nat /\ pc' = "loop"
      \/ timed'.kind = "hold" /\ timed'.end \in Nat /\ pc' = "idle"
  <2>1. CASE LoopRuns
    <3>1. timed' = timed /\ timed.end \in Nat /\ pc' = "loop"
      BY <2>1 DEF LoopRuns, Loop, IInv, TypeOK
    <3> QED
      BY <1>1, <3>1
  <2>2. CASE LoopStartsHold
    <3>1. timed'.kind = "hold" /\ timed'.end = clock + CurrentCommand.duration /\ pc' = "idle"
      BY <2>2 DEF LoopStartsHold, Return
    <3>2. clock \in Nat /\ CurrentCommand.duration \in Nat
      BY <1>2, BoundsAssumption DEF IInv, TypeOK, Command
    <3> QED
      BY <3>1, <3>2
  <2> QED
    BY <2>1, <2>2
<1> QED
  BY <1>1, <1>3, <1>4, <1>5, <1>6, <1>7, AdvancesHolds
-------------------------------------------------------------------------------
(* The invariant holds at the start and after every step. *)

LEMMA InitHolds == Init => IInv
<1> SUFFICES ASSUME Init PROVE IInv
  OBVIOUS
<1> USE DEF Init
<1>1. TypeOK
  <2>1. NoPlan.commands = <<>> /\ Len(<<>>) = 0 /\ NotTimed.kind = "none" /\ NotTimed.end = 0
    BY DEF NoPlan, NotTimed
  <2>2. plan = NoPlan /\ next \in Nat /\ next <= Len(plan.commands)
    BY <2>1
  <2>3. timed.kind = "none" /\ timed.end \in Nat
    BY <2>1
  <2>4. pending \in Seq(Things) /\ Len(pending) <= PendingCapacity
    BY SetSizes
  <2>5. topology \in 1 .. MaxTopology /\ clock \in 0 .. MaxClock /\ deadline \in 0 .. MaxClock
    BY BoundsAssumption
  <2> QED
    BY <2>2, <2>3, <2>4, <2>5 DEF TypeOK
<1>2. LedgerFits
  BY FS_EmptySet, SetSizes DEF LedgerFits
<1>3. Control
  BY DEF Control, NotTimed
<1> QED
  BY <1>1, <1>2, <1>3 DEF IInv, NothingStuck, ReleasesFit, PlanMatchesDesktop, ShutdownLeavesNothing

LEMMA NextHolds == IInv /\ [Next]_vars => IInv'
<1> SUFFICES ASSUME IInv, [Next]_vars PROVE IInv'
  OBVIOUS
<1>1. CASE \E p \in Plans, until \in 1 .. MaxClock : Execute(p, until) \/ ExecuteDryRun(p, until)
  BY <1>1, ExecuteHolds, ExecuteDryRunHolds
<1>2. CASE ExecuteRefused \/ Advance \/ ShutdownAgain
  BY <1>2, RetriesHold
<1>3. CASE Neutralize
  BY <1>3, NeutralizeHolds
<1>4. CASE Shutdown
  BY <1>4, ShutdownHolds
<1>5. CASE UNCHANGED vars \/ Tick \/ UpdateDesktop \/ Initialize
  BY <1>5, QuietHolds
<1>6. CASE Continue
  <2>1. CASE EntryNothing \/ EntryContinues \/ LoopWaits
    BY <2>1, QuietHolds
  <2>2. CASE EntryExpired
    BY <2>2, EntryExpiredHolds
  <2>3. CASE LoopRefused \/ LoopFails
    BY <2>3, FailsHolds
  <2>4. CASE LoopHoldEnds
    BY <2>4, LoopHoldEndsHolds
  <2>5. CASE LoopTimedEnds
    BY <2>5, LoopTimedEndsHolds
  <2>6. CASE LoopDone
    BY <2>6, LoopDoneHolds
  <2>7. CASE LoopStartsTimed
    BY <2>7, LoopStartsTimedHolds
  <2>8. CASE LoopStartsHold \/ LoopRuns
    BY <2>8, CommitsHolds
  <2> QED
    BY <1>6, <2>1, <2>2, <2>3, <2>4, <2>5, <2>6, <2>7, <2>8 DEF Continue
<1> QED
  BY <1>1, <1>2, <1>3, <1>4, <1>5, <1>6 DEF Next

LEMMA InvariantHolds == Spec => []IInv
BY InitHolds, NextHolds, PTL DEF Spec
-------------------------------------------------------------------------------
(* The theorems. *)

(* Types, and a queue and a ledger that never outgrow their arrays. *)
THEOREM TypeCorrect == Spec => []TypeOK
<1>1. IInv => TypeOK
  BY DEF IInv
<1> QED
  BY <1>1, InvariantHolds, PTL

(* What the operating system holds pressed for the executor is never forgotten:
   it is in the ledger or waits in the queue of releases, whichever prefix of a
   command's events was taken and at whichever command a plan failed. *)
THEOREM NothingGetsStuck == Spec => []NothingStuck
<1>1. IInv => NothingStuck
  BY DEF IInv
<1> QED
  BY <1>1, InvariantHolds, PTL

(* synthetic_input_active answers for every held thing and every plan between
   two calls: a lease stands for a ledger no plan owns, a timed command for a
   plan under way. *)
THEOREM HeldInputVisible == Spec => []HeldInputIsVisible
<1>1. IInv => HeldInputIsVisible
  <2> SUFFICES ASSUME IInv, pc = "idle", os # {} \/ plan # NoPlan
               PROVE  SyntheticInputActive
    BY DEF HeldInputIsVisible
  <2>1. CASE plan # NoPlan
    BY <2>1 DEF IInv, Control, SyntheticInputActive
  <2>2. CASE plan = NoPlan /\ pending # <<>>
    BY <2>2 DEF SyntheticInputActive
  <2>3. CASE plan = NoPlan /\ pending = <<>>
    <3>1. ledger # {}
      BY <2>3 DEF IInv, NothingStuck, Queued, Front
    <3>2. lease
      BY <2>3, <3>1 DEF IInv, Control
    <3> QED
      BY <3>2 DEF SyntheticInputActive
  <2> QED
    BY <2>1, <2>2, <2>3
<1> QED
  BY <1>1, InvariantHolds, PTL

(* While releases wait no plan runs and the ledger is empty, so that one queue
   of PendingCapacity is enough whatever fails. *)
THEOREM ReleasesAlwaysFit == Spec => []ReleasesFit
<1>1. IInv => ReleasesFit
  BY DEF IInv
<1> QED
  BY <1>1, InvariantHolds, PTL

(* A plan runs to its end on the desktop it was accepted for. *)
THEOREM PlanKeepsDesktop == Spec => []PlanMatchesDesktop
<1>1. IInv => PlanMatchesDesktop
  BY DEF IInv
<1> QED
  BY <1>1, InvariantHolds, PTL

(* A shutdown that reported success left nothing pressed. *)
THEOREM ShutdownIsClean == Spec => []ShutdownLeavesNothing
<1>1. IInv => ShutdownLeavesNothing
  BY DEF IInv
<1> QED
  BY <1>1, InvariantHolds, PTL

(* Together: the executor forgets nothing it pressed, for every set of plans,
   every prefix the system takes and every order of calls. *)
THEOREM NothingIsForgotten == Spec => []ExecutorHolds
<1>1. /\ TypeOK /\ NothingStuck /\ HeldInputIsVisible
      /\ ReleasesFit /\ PlanMatchesDesktop /\ ShutdownLeavesNothing
      => ExecutorHolds
  BY DEF ExecutorHolds
<1> QED
  BY <1>1, TypeCorrect, NothingGetsStuck, HeldInputVisible, ReleasesAlwaysFit,
     PlanKeepsDesktop, ShutdownIsClean, PTL
===============================================================================
