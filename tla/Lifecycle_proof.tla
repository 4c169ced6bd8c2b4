---------------------------- MODULE Lifecycle_proof ----------------------------
(* Safety of the application's life for any stack of owners, any documents,     *)
(* any bounds on failures and processes.  A call is the set of its outcomes,    *)
(* so each operator has a lemma on what all of its outcomes keep.               *)
EXTENDS Lifecycle, FiniteSetTheorems, TLAPS

(* A process that starts has done nothing yet. *)
StartsFresh ==
    app.phase = "starting" => app = Fresh /\ pipe = Down /\ recovery = Complete /\ fired = 0

(* The controller's copies are documents, the current one a document that the
   hook took; so is what was saved. *)
Decided ==
    /\ controller.initialized => controller.current \in HooksAccept /\ controller.staged \in Documents
    /\ file \in HooksAccept \cup {NoDocument, Foreign}

(* The hook remembers a dispatch while the process runs. *)
PressRemembered ==
    /\ fired \in {0, 1}
    /\ Running /\ fired = 1 => hooks.pressed

LifeInv == Standing /\ SettingsHold /\ StartsFresh /\ Decided /\ PressRemembered

-------------------------------------------------------------------------------
(* Numbers                                                                     *)

(* A set of naturals has a least element: the intervals below its elements are
   finite sets, which the strict inclusion orders well. *)
LEMMA LeastNumber ==
    ASSUME NEW T \in SUBSET Nat, T # {}
    PROVE  \E k \in T : \A j \in T : k <= j
<1> DEFINE Below(n) == 0..(n - 1)
           Intervals == {Below(n) : n \in T}
<1>1. Intervals \subseteq FiniteSubsetsOf(Nat) /\ Intervals # {}
  <2>1. \A n \in T : Below(n) \subseteq Nat /\ IsFiniteSet(Below(n))
    BY FS_Interval
  <2> QED
    BY <2>1 DEF FiniteSubsetsOf
<1>2. \E x \in Intervals : \A y \in Intervals : ~(<<y, x>> \in StrictSubsetOrdering(Nat))
  BY <1>1, WFMin, FS_StrictSubsetOrderingWellFounded
<1>3. PICK k \in T : \A j \in T : ~(<<Below(j), Below(k)>> \in StrictSubsetOrdering(Nat))
  BY <1>2
<1>4. \A j \in T : j < k => Below(j) \subseteq Below(k) /\ Below(j) # Below(k)
  <2> TAKE j \in T
  <2> HAVE j < k
  <2>1. j \in Below(k) /\ j \notin Below(j)
    OBVIOUS
  <2> QED
    BY <2>1
<1>5. \A j \in T : j < k => <<Below(j), Below(k)>> \in StrictSubsetOrdering(Nat)
  BY <1>4 DEF StrictSubsetOrdering
<1>6. \A j \in T : k <= j \/ j < k
  OBVIOUS
<1> QED
  BY <1>3, <1>5, <1>6

(* Powers of two, as the sizes of the powersets of intervals. *)
LEMMA Powers ==
    /\ \A n \in Nat : 2^n \in Nat
    /\ \A n, m \in Nat : n <= m => 2^n <= 2^m
<1>1. ASSUME NEW n \in Nat
      PROVE  IsFiniteSet(SUBSET (1..n)) /\ Cardinality(SUBSET (1..n)) = 2^n
  <2>1. IsFiniteSet(1..n) /\ Cardinality(1..n) = n
    BY FS_Interval
  <2> QED
    BY <2>1, FS_SUBSET
<1>2. \A n \in Nat : 2^n \in Nat
  BY <1>1, FS_CardinalityType
<1>3. ASSUME NEW n \in Nat, NEW m \in Nat, n <= m
      PROVE  2^n <= 2^m
  <2>1. SUBSET (1..n) \in SUBSET (SUBSET (1..m))
    BY <1>3
  <2>2. IsFiniteSet(SUBSET (1..m))
    BY <1>1
  <2>3. Cardinality(SUBSET (1..n)) <= Cardinality(SUBSET (1..m))
    BY <2>1, <2>2, FS_Subset
  <2> QED
    BY <1>1, <2>3
<1> QED
  BY <1>2, <1>3

(* Whatever the attempt, its delay is below the ceiling. *)
LEMMA SchedulesAre ==
    /\ Complete \in Schedules
    /\ \A attempt \in 0..MaximumBackoffShift : Schedule(attempt) \in Schedules /\ Schedule(attempt).pending
    /\ Start \in Schedules /\ Start.pending
    /\ \A r \in Schedules : Retry(r) \in Schedules /\ Retry(r).pending
<1>1. 2^MaximumBackoffShift \in Nat
  BY Powers, LifecycleAssumption
<1>2. Complete \in Schedules
  BY <1>1, LifecycleAssumption DEF Complete, Schedules
<1>3. ASSUME NEW attempt \in 0..MaximumBackoffShift
      PROVE  Schedule(attempt) \in Schedules /\ Schedule(attempt).pending
  <2>1. 2^attempt \in 0..2^MaximumBackoffShift
    BY Powers, LifecycleAssumption
  <2> QED
    BY <2>1 DEF Schedule, Schedules
<1>4. 0 \in 0..MaximumBackoffShift
  BY LifecycleAssumption
<1>5. ASSUME NEW r \in Schedules
      PROVE  Retry(r) \in Schedules /\ Retry(r).pending
  <2>1. (IF r.attempt < MaximumBackoffShift THEN r.attempt + 1 ELSE MaximumBackoffShift) \in 0..MaximumBackoffShift
    BY LifecycleAssumption DEF Schedules
  <2> QED
    BY <1>3, <2>1 DEF Retry
<1> QED
  BY <1>2, <1>3, <1>4, <1>5 DEF Start

-------------------------------------------------------------------------------
(* What the outcomes of a call of the pipeline keep.                           *)

Documented == Documents \cup {NoDocument}
Results == {"OK", "BACKEND", "REFUSED", "STATE", "INVALID", "BUSY", "PERMISSION"}
Outcomes == [result : Results, pipe : Pipelines, cost : Nat]

(* No call but request asks for a session. *)
AsksNothing(p, q) == q.session = "asked" => p.session = "asked"

(* The stack, and the document it was built for, stay as they are. *)
StackStays(p, q) == q.up = p.up /\ q.settings = p.settings /\ (q.initialized => p.initialized)

(* Building: what is built whole is built for the document; a build that stops
   half-way is not initialized. *)
LEMMA InitializeIs ==
    ASSUME NEW p \in Pipelines, NEW d \in Documented, NEW o \in InitializeOutcomes(p, d)
    PROVE  /\ o \in Outcomes
           /\ o.result \in {"OK", "BACKEND", "REFUSED"}
           /\ AsksNothing(p, o.pipe)
           /\ p.initialized => o.pipe = p /\ o.result # "OK"
           /\ ~p.initialized => (o.pipe.initialized => o.result = "OK" /\ o.pipe.settings = d)
<1>1. CASE p.initialized
  BY <1>1 DEF InitializeOutcomes, Outcome, Outcomes, Results, AsksNothing
<1>2. CASE ~p.initialized
  <2>1. DOMAIN Stack = 1..Len(Stack) /\ Len(Stack) \in Nat /\ \A k \in DOMAIN Stack : Stack[k] \in Owners
    BY StackAssumption DEF Owners, Range
  <2>2. \A k \in DOMAIN Stack, extra \in SUBSET Owners :
          /\ StoppedAt(p, k, extra, d) \in Pipelines
          /\ ~StoppedAt(p, k, extra, d).initialized
          /\ StoppedAt(p, k, extra, d).session = p.session
    <3> TAKE k \in DOMAIN Stack, extra \in SUBSET Owners
    <3> DEFINE up == p.up \cup {Stack[j] : j \in 1..(k - 1)} \cup extra
    <3>1. up \in SUBSET Owners
      BY <2>1 DEF Pipelines
    <3>2. StoppedAt(p, k, extra, d) = [p EXCEPT !.up = up, !.settings = d]
      BY DEF StoppedAt
    <3> HIDE DEF up
    <3> QED
      BY <1>2, <3>1, <3>2 DEF Pipelines, Documented
  <2>3. Taken(p) # {} => FirstTaken(p) \in DOMAIN Stack
    <3> SUFFICES ASSUME Taken(p) # {} PROVE FirstTaken(p) \in DOMAIN Stack
      OBVIOUS
    <3>1. Taken(p) \in SUBSET Nat /\ Taken(p) \subseteq DOMAIN Stack
      BY <2>1 DEF Taken
    <3>2. \E k \in Taken(p) : \A j \in Taken(p) : k <= j
      BY <3>1, LeastNumber
    <3> QED
      BY <3>1, <3>2 DEF FirstTaken
  <2>4. /\ Built(p, d) \in Pipelines /\ Built(p, d).initialized
        /\ Built(p, d).settings = d /\ Built(p, d).session = "idle"
    BY DEF Built, Pipelines, Documented, Sessions
  <2>5. \/ \E code \in {"BACKEND", "REFUSED"}, k \in DOMAIN Stack, extra \in SUBSET Owners, cost \in {0, 1} :
              o = Outcome(code, StoppedAt(p, k, extra, d), cost)
        \/ o = Outcome("OK", Built(p, d), 0)
    <3>1. {} \in SUBSET Owners /\ \A k \in DOMAIN Stack : {Stack[k]} \in SUBSET Owners
      BY <2>1
    <3>2. Buildable(p) \subseteq DOMAIN Stack
      BY DEF Buildable
    <3>3. \/ \E k \in Buildable(p), code \in {"BACKEND", "REFUSED"} : o = Outcome(code, StoppedAt(p, k, {}, d), 1)
          \/ \E k \in {j \in Buildable(p) : Stack[j] \in TwoPart} :
                o = Outcome("BACKEND", StoppedAt(p, k, {Stack[k]}, d), 1)
          \/ o = IF Taken(p) = {} THEN Outcome("OK", Built(p, d), 0)
                 ELSE Outcome("REFUSED", StoppedAt(p, FirstTaken(p), {}, d), 0)
      BY <1>2 DEF InitializeOutcomes
    <3>4. CASE \E k \in Buildable(p), code \in {"BACKEND", "REFUSED"} : o = Outcome(code, StoppedAt(p, k, {}, d), 1)
      BY <3>1, <3>2, <3>4
    <3>5. CASE \E k \in Buildable(p) : o = Outcome("BACKEND", StoppedAt(p, k, {Stack[k]}, d), 1)
      BY <3>1, <3>2, <3>5
    <3>6. CASE o = IF Taken(p) = {} THEN Outcome("OK", Built(p, d), 0)
                   ELSE Outcome("REFUSED", StoppedAt(p, FirstTaken(p), {}, d), 0)
      BY <2>3, <3>1, <3>6
    <3> QED
      BY <3>3, <3>4, <3>5, <3>6
  <2>6. CASE o = Outcome("OK", Built(p, d), 0)
    BY <1>2, <2>4, <2>6 DEF Outcome, Outcomes, Results, AsksNothing
  <2>7. ASSUME NEW code \in {"BACKEND", "REFUSED"}, NEW k \in DOMAIN Stack, NEW extra \in SUBSET Owners,
               NEW cost \in {0, 1}, o = Outcome(code, StoppedAt(p, k, extra, d), cost)
        PROVE  /\ o \in Outcomes
               /\ o.result \in {"OK", "BACKEND", "REFUSED"}
               /\ AsksNothing(p, o.pipe)
               /\ ~o.pipe.initialized
    BY <2>2, <2>7 DEF Outcome, Outcomes, Results, AsksNothing
  <2> QED
    BY <1>2, <2>5, <2>6, <2>7
<1> QED
  BY <1>1, <1>2

(* Taking down: what stays up is not built again. *)
LEMMA ShutdownIs ==
    ASSUME NEW p \in Pipelines, NEW o \in ShutdownOutcomes(p)
    PROVE  /\ o \in Outcomes
           /\ o.result \in {"OK", "BACKEND"}
           /\ AsksNothing(p, o.pipe)
           /\ o.result = "OK" => ~o.pipe.initialized /\ o.pipe.up \subseteq Kept
           /\ o.pipe.initialized => p.initialized /\ o.pipe.settings = p.settings
<1>1. CASE o = Outcome("OK", Downed(p), 0)
  <2>1. Downed(p) \in Pipelines /\ ~Downed(p).initialized /\ Downed(p).up \subseteq Kept /\ Downed(p).session = "idle"
    BY DEF Downed, Down, Pipelines, Sessions
  <2> QED
    BY <1>1, <2>1 DEF Outcome, Outcomes, Results, AsksNothing
<1>2. ASSUME NEW left, o = Outcome("BACKEND", [p EXCEPT !.up = @ \cap left], 1) PROVE
           /\ o \in Outcomes
           /\ o.result = "BACKEND"
           /\ AsksNothing(p, o.pipe)
           /\ o.pipe.initialized => p.initialized /\ o.pipe.settings = p.settings
  <2> DEFINE q == [p EXCEPT !.up = @ \cap left]
  <2>1. q \in Pipelines /\ (q.initialized => p.initialized) /\ q.settings = p.settings /\ q.session = p.session
    BY DEF Pipelines
  <2> HIDE DEF q
  <2> QED
    BY <1>2, <2>1 DEF Outcome, Outcomes, Results, AsksNothing, q
<1>3. \/ o = Outcome("OK", Downed(p), 0)
      \/ \E left : o = Outcome("BACKEND", [p EXCEPT !.up = @ \cap left], 1)
  BY DEF ShutdownOutcomes
<1> QED
  BY <1>1, <1>2, <1>3

(* What is changed of a pipeline that runs: its session, its input. *)
Calm(p, o) == o \in Outcomes /\ StackStays(p, o.pipe)

LEMMA CalmIs ==
    ASSUME NEW p \in Pipelines, NEW q \in Pipelines, NEW result \in Results, NEW cost \in Nat,
           StackStays(p, q), AsksNothing(p, q)
    PROVE  /\ Outcome(result, q, cost).pipe = q
           /\ Outcome(result, q, cost).result = result
           /\ Calm(p, Outcome(result, q, cost))
           /\ AsksNothing(p, Outcome(result, q, cost).pipe)
BY DEF Outcome, Outcomes, Calm

LEMMA ObserveIs ==
    ASSUME NEW p \in Pipelines, NEW o \in ObserveOutcomes(p)
    PROVE  Calm(p, o) /\ AsksNothing(p, o.pipe)
<1> DEFINE idle == [p EXCEPT !.session = "idle"]
<1>1. idle \in Pipelines /\ StackStays(p, idle) /\ AsksNothing(p, idle)
  BY DEF Pipelines, Sessions, StackStays, AsksNothing
<1>2. StackStays(p, p) /\ AsksNothing(p, p)
  BY DEF StackStays, AsksNothing
<1>3. o \in {Outcome("INVALID", p, 0), Outcome("OK", idle, 0), Outcome("BACKEND", p, 1)}
  BY DEF ObserveOutcomes
<1> HIDE DEF idle
<1> QED
  BY <1>1, <1>2, <1>3, CalmIs DEF Results

LEMMA AvailableIs ==
    ASSUME NEW p \in Pipelines, NEW value \in BOOLEAN, NEW o \in AvailableOutcomes(p, value)
    PROVE  Calm(p, o) /\ AsksNothing(p, o.pipe)
<1> DEFINE changed == [p EXCEPT !.available = value]
           idle == [changed EXCEPT !.session = "idle"]
<1>1. changed \in Pipelines /\ StackStays(p, changed) /\ AsksNothing(p, changed)
  BY DEF Pipelines, StackStays, AsksNothing
<1>2. idle \in Pipelines /\ StackStays(p, idle) /\ AsksNothing(p, idle)
  BY DEF Pipelines, Sessions, StackStays, AsksNothing
<1>3. StackStays(p, p) /\ AsksNothing(p, p)
  BY DEF StackStays, AsksNothing
<1>4. o \in {Outcome("INVALID", p, 0), Outcome("OK", p, 0), Outcome("BACKEND", p, 1),
             Outcome("OK", changed, 0), Outcome("OK", idle, 0), Outcome("BACKEND", changed, 1)}
  BY DEF AvailableOutcomes
<1> HIDE DEF changed, idle
<1> QED
  BY <1>1, <1>2, <1>3, <1>4, CalmIs DEF Results

LEMMA AdvanceIs ==
    ASSUME NEW p \in Pipelines, NEW o \in PipelineAdvance(p)
    PROVE  Calm(p, o) /\ AsksNothing(p, o.pipe)
<1> DEFINE with(next) == [p EXCEPT !.session = next]
           Nexts == IF p.session = "idle" THEN {"idle"} ELSE {"idle", "active", p.session}
<1>1. \A next \in Nexts : with(next) \in Pipelines /\ StackStays(p, with(next)) /\ AsksNothing(p, with(next))
  BY DEF Pipelines, Sessions, StackStays, AsksNothing
<1>2. StackStays(p, p) /\ AsksNothing(p, p)
  BY DEF StackStays, AsksNothing
<1>3. \/ o \in {Outcome("INVALID", p, 0), Outcome("BACKEND", p, 1), Outcome("REFUSED", p, 1)}
      \/ \E next \in Nexts : o = Outcome("OK", with(next), 0)
  BY DEF PipelineAdvance
<1> HIDE DEF with, Nexts
<1> QED
  BY <1>1, <1>2, <1>3, CalmIs DEF Results

(* A session is asked for on the user's own desktop alone. *)
LEMMA RequestIs ==
    ASSUME NEW p \in Pipelines, NEW there \in BOOLEAN, NEW o \in RequestOutcomes(p, there)
    PROVE  Calm(p, o) /\ (there => AsksNothing(p, o.pipe))
<1> DEFINE asked == [p EXCEPT !.session = "asked"]
<1>1. asked \in Pipelines /\ StackStays(p, asked)
  BY DEF Pipelines, Sessions, StackStays
<1>2. StackStays(p, p) /\ AsksNothing(p, p)
  BY DEF StackStays, AsksNothing
<1>3. \/ o \in {Outcome("INVALID", p, 0), Outcome("PERMISSION", p, 0), Outcome("BUSY", p, 0)}
      \/ ~there /\ o = Outcome("OK", asked, 0)
      \/ \E a \in AvailableOutcomes(p, FALSE) :
            o = Outcome(IF a.result = "OK" THEN "PERMISSION" ELSE a.result, a.pipe, a.cost)
  BY DEF RequestOutcomes
<1>4. ASSUME NEW a \in AvailableOutcomes(p, FALSE),
             o = Outcome(IF a.result = "OK" THEN "PERMISSION" ELSE a.result, a.pipe, a.cost)
      PROVE  Calm(p, o) /\ AsksNothing(p, o.pipe)
  <2>1. Calm(p, a) /\ AsksNothing(p, a.pipe)
    BY AvailableIs
  <2>2. a.pipe \in Pipelines /\ a.cost \in Nat
        /\ (IF a.result = "OK" THEN "PERMISSION" ELSE a.result) \in Results /\ StackStays(p, a.pipe)
    BY <2>1 DEF Calm, Outcomes, Results
  <2> QED
    BY <1>4, <2>1, <2>2, CalmIs
<1>5. CASE ~there /\ o = Outcome("OK", asked, 0)
  BY <1>1, <1>5 DEF Calm, Outcome, Outcomes, Results
<1>6. CASE o \in {Outcome("INVALID", p, 0), Outcome("PERMISSION", p, 0), Outcome("BUSY", p, 0)}
  BY <1>2, <1>6, CalmIs DEF Results
<1> HIDE DEF asked
<1> QED
  BY <1>3, <1>4, <1>5, <1>6

(* Another device: whatever fails, a pipeline that is initialized afterwards
   holds the document the answer speaks of. *)
Answered(p, d, o) ==
    /\ o \in Outcomes
    /\ AsksNothing(p, o.pipe)
    /\ o.pipe.initialized => p.initialized /\ o.pipe.settings = IF o.result = "OK" THEN d ELSE p.settings

LEMMA RestartIs ==
    ASSUME NEW p \in Pipelines, NEW d \in Documented, p.initialized, NEW o \in RestartOutcomes(p, d)
    PROVE  Answered(p, d, o)
<1>1. PICK s \in ShutdownOutcomes(p) :
        \/ s.result # "OK" /\ o = s
        \/ /\ s.result = "OK"
           /\ \E i \in InitializeOutcomes(s.pipe, d) :
                \/ i.result = "OK" /\ o = i
                \/ /\ i.result # "OK"
                   /\ \E t \in ShutdownOutcomes(i.pipe) : \E r \in InitializeOutcomes(t.pipe, p.settings) :
                        o = Outcome(i.result, r.pipe, i.cost + t.cost + r.cost)
  BY DEF RestartOutcomes
<1>2. /\ s \in Outcomes /\ AsksNothing(p, s.pipe)
      /\ s.result = "OK" => ~s.pipe.initialized
      /\ s.pipe.initialized => s.pipe.settings = p.settings
  BY ShutdownIs
<1>3. CASE s.result # "OK"
  BY <1>1, <1>2, <1>3 DEF Answered
<1>4. CASE s.result = "OK"
  <2>1. PICK i \in InitializeOutcomes(s.pipe, d) :
          \/ i.result = "OK" /\ o = i
          \/ /\ i.result # "OK"
             /\ \E t \in ShutdownOutcomes(i.pipe) : \E r \in InitializeOutcomes(t.pipe, p.settings) :
                  o = Outcome(i.result, r.pipe, i.cost + t.cost + r.cost)
    BY <1>1, <1>4
  <2>2. s.pipe \in Pipelines
    BY <1>2 DEF Outcomes
  <2>3. /\ i \in Outcomes /\ AsksNothing(s.pipe, i.pipe)
        /\ i.pipe.initialized => i.result = "OK" /\ i.pipe.settings = d
    BY <1>2, <1>4, <2>2, InitializeIs
  <2>4. CASE i.result = "OK"
    BY <1>2, <2>1, <2>3, <2>4 DEF Answered, AsksNothing
  <2>5. CASE i.result # "OK"
    <3>0. PICK t \in ShutdownOutcomes(i.pipe) : \E r \in InitializeOutcomes(t.pipe, p.settings) :
            o = Outcome(i.result, r.pipe, i.cost + t.cost + r.cost)
      BY <2>1, <2>5
    <3>1. PICK r \in InitializeOutcomes(t.pipe, p.settings) :
            o = Outcome(i.result, r.pipe, i.cost + t.cost + r.cost)
      BY <3>0
    <3>2. i.pipe \in Pipelines /\ p.settings \in Documented
      BY <2>3 DEF Outcomes, Pipelines, Documented
    <3>3. t \in Outcomes /\ AsksNothing(i.pipe, t.pipe) /\ ~t.pipe.initialized
      BY <2>3, <2>5, <3>2, ShutdownIs
    <3>4. t.pipe \in Pipelines
      BY <3>3 DEF Outcomes
    <3>5. /\ r \in Outcomes /\ AsksNothing(t.pipe, r.pipe)
          /\ r.pipe.initialized => r.pipe.settings = p.settings
      BY <3>2, <3>3, <3>4, InitializeIs
    <3>6. i.result \in Results /\ r.pipe \in Pipelines /\ i.cost + t.cost + r.cost \in Nat
      BY <2>3, <3>3, <3>5 DEF Outcomes
    <3>7. o.result = i.result /\ o.pipe = r.pipe /\ o \in Outcomes
      BY <3>1, <3>6 DEF Outcome, Outcomes
    <3> QED
      BY <1>2, <2>3, <2>5, <3>3, <3>5, <3>7 DEF Answered, AsksNothing
  <2> QED
    BY <2>4, <2>5
<1> QED
  BY <1>3, <1>4

LEMMA ApplyIs ==
    ASSUME NEW p \in Pipelines, NEW d \in Documented, NEW o \in ApplyOutcomes(p, d)
    PROVE  Answered(p, d, o)
<1> DEFINE staged == [p EXCEPT !.settings = d]
<1>1. CASE p.initialized /\ o \in RestartOutcomes(p, d)
  BY <1>1, RestartIs
<1>2. ASSUME NEW result \in Results \ {"OK"}, NEW cost \in {0, 1}, o = Outcome(result, p, cost)
      PROVE  Answered(p, d, o)
  BY <1>2 DEF Answered, Outcome, Outcomes, AsksNothing
<1>3. CASE p.initialized /\ o = Outcome("OK", staged, 0)
  <2>1. staged \in Pipelines /\ staged.settings = d /\ staged.session = p.session
    BY DEF Pipelines, Documented
  <2> HIDE DEF staged
  <2> QED
    BY <1>3, <2>1 DEF Answered, Outcome, Outcomes, Results, AsksNothing
<1>4. \/ p.initialized /\ o \in RestartOutcomes(p, d)
      \/ p.initialized /\ o = Outcome("OK", staged, 0)
      \/ o = Outcome("INVALID", p, 0) \/ o = Outcome("BUSY", p, 0)
      \/ o = Outcome("REFUSED", p, 1) \/ o = Outcome("REFUSED", p, 0)
  BY DEF ApplyOutcomes
<1> HIDE DEF staged
<1> QED
  BY <1>1, <1>2, <1>3, <1>4 DEF Results

-------------------------------------------------------------------------------
(* What the application believes of its pipeline, and what it asked of itself. *)

(* a: the flags, p: the pipeline, r: the schedule, d: the document the pipeline
   is to hold unless off. *)
Fit(a, p, r, d, off) ==
    /\ a \in Applications /\ p \in Pipelines /\ r \in Schedules
    /\ ~a.pipeline /\ ~a.cleanup => p.up \subseteq Kept /\ ~p.initialized
    /\ a.pipeline /\ p.initialized /\ ~off => p.settings = d

States == [result : Results, app : Applications, pipe : Pipelines, recovery : Schedules, cost : Nat]
Fits(s, d, off) == s \in States /\ Fit(s.app, s.pipe, s.recovery, d, off)

(* A lost pipeline is awaited, or will not come. *)
Awaited(a, r) == a.pipeline \/ r.pending \/ a.closing \/ a.refused

(* What no call undoes. *)
Follows(s, t) ==
    /\ t.app.phase = s.app.phase
    /\ s.app.refused => t.app.refused
    /\ s.app.closing => t.app.closing
    /\ AsksNothing(s.pipe, t.pipe)

LEMMA FollowsOn ==
    ASSUME NEW s, NEW t, NEW u, Follows(s, t), Follows(t, u)
    PROVE  Follows(s, u)
BY DEF Follows, AsksNothing

LEMMA FollowsItself ==
    ASSUME NEW s
    PROVE  Follows(s, s)
BY DEF Follows, AsksNothing

LEMMA StateIs ==
    ASSUME NEW result, NEW a, NEW p, NEW r, NEW cost
    PROVE  /\ State(result, a, p, r, cost).result = result
           /\ State(result, a, p, r, cost).app = a
           /\ State(result, a, p, r, cost).pipe = p
           /\ State(result, a, p, r, cost).recovery = r
           /\ State(result, a, p, r, cost).cost = cost
           /\ result \in Results /\ a \in Applications /\ p \in Pipelines /\ r \in Schedules /\ cost \in Nat
                => State(result, a, p, r, cost) \in States
BY DEF State, States

(* The flags one by one. *)
LEMMA AppWith ==
    ASSUME NEW a \in Applications, NEW v \in BOOLEAN, NEW p \in BOOLEAN, NEW c \in BOOLEAN,
           NEW e \in {"off", "on", "stopped"}, NEW b,
           b = [a EXCEPT !.verifier = v, !.pipeline = p, !.cleanup = c, !.agentPipe = e]
    PROVE  /\ b \in Applications
           /\ b.pipeline <=> p
           /\ b.cleanup <=> c
           /\ b.phase = a.phase /\ b.refused = a.refused /\ b.closing = a.closing
BY DEF Applications

LEMMA RestartIsAsked ==
    ASSUME NEW a \in Applications
    PROVE  /\ RequestRestart(a) \in Applications
           /\ RequestRestart(a).closing
           /\ RequestRestart(a).pipeline = a.pipeline /\ RequestRestart(a).cleanup = a.cleanup
           /\ RequestRestart(a).phase = a.phase /\ RequestRestart(a).refused = a.refused
BY DEF Applications, RequestRestart

(* A call that leaves the stack as it is. *)
LEMMA CalmFits ==
    ASSUME NEW s, NEW d, NEW off, Fits(s, d, off), NEW o, Calm(s.pipe, o),
           NEW t, t = State(o.result, s.app, o.pipe, s.recovery, s.cost + o.cost)
    PROVE  /\ Fits(t, d, off)
           /\ t.app = s.app /\ t.recovery = s.recovery /\ t.pipe = o.pipe
           /\ AsksNothing(s.pipe, o.pipe) => Follows(s, t)
<1>1. o.result \in Results /\ o.pipe \in Pipelines /\ o.cost \in Nat /\ StackStays(s.pipe, o.pipe)
  BY DEF Calm, Outcomes
<1>2. t.result = o.result /\ t.app = s.app /\ t.pipe = o.pipe /\ t.recovery = s.recovery /\ t.cost = s.cost + o.cost
  BY StateIs
<1>3. Fit(s.app, o.pipe, s.recovery, d, off)
  BY <1>1 DEF Fits, Fit, StackStays
<1>4. s.cost + o.cost \in Nat
  BY <1>1 DEF Fits, States
<1>5. t \in States
  BY <1>1, <1>3, <1>4, StateIs DEF Fit
<1> QED
  BY <1>2, <1>3, <1>5 DEF Fits, Follows

(* A build that failed is taken down, or is remembered. *)
LEMMA DiscardedIs ==
    ASSUME NEW s, NEW d, NEW off, Fits(s, d, off), ~s.app.pipeline,
           NEW o \in Outcomes, AsksNothing(s.pipe, o.pipe), NEW code \in Results,
           NEW t \in Discarded(s, code, o)
    PROVE  /\ Fits(t, d, off)
           /\ Follows(s, t)
           /\ t.recovery = s.recovery /\ t.app.pipeline = s.app.pipeline
           /\ t.result \in {code, "STATE"}
<1>1. PICK u \in ShutdownOutcomes(o.pipe) :
        t = State(IF u.result = "OK" THEN code ELSE "STATE",
                  [s.app EXCEPT !.cleanup = u.result # "OK"], u.pipe, s.recovery, s.cost + o.cost + u.cost)
  BY DEF Discarded
<1>2. o.pipe \in Pipelines /\ o.cost \in Nat
  BY DEF Outcomes
<1>3. /\ u \in Outcomes /\ AsksNothing(o.pipe, u.pipe)
      /\ u.result = "OK" => ~u.pipe.initialized /\ u.pipe.up \subseteq Kept
  BY <1>2, ShutdownIs
<1> DEFINE c == u.result # "OK"
           a == [s.app EXCEPT !.cleanup = c]
<1>4. c \in BOOLEAN
  OBVIOUS
<1>5. c \/ (~u.pipe.initialized /\ u.pipe.up \subseteq Kept)
  BY <1>3
<1>6. t.app = a /\ t.pipe = u.pipe /\ t.recovery = s.recovery /\ t.cost = s.cost + o.cost + u.cost
      /\ t.result \in {code, "STATE"}
  BY <1>1, StateIs
<1> HIDE DEF c
<1>7. s.app \in Applications /\ s.recovery \in Schedules /\ s.cost \in Nat
  BY DEF Fits, States
<1>8. a \in Applications /\ (a.cleanup <=> c) /\ a.pipeline = s.app.pipeline /\ a.phase = s.app.phase
      /\ a.refused = s.app.refused /\ a.closing = s.app.closing
  BY <1>4, <1>7 DEF Applications
<1> HIDE DEF a
<1>9. u.pipe \in Pipelines /\ u.cost \in Nat
  BY <1>3 DEF Outcomes
<1>10. t \in States
  <2>1. (IF u.result = "OK" THEN code ELSE "STATE") \in Results /\ s.cost + o.cost + u.cost \in Nat
    BY <1>2, <1>7, <1>9 DEF Results
  <2> QED
    BY <1>1, <1>7, <1>8, <1>9, <2>1, StateIs DEF a, c
<1>11. Fits(t, d, off)
  BY <1>5, <1>6, <1>7, <1>8, <1>9, <1>10 DEF Fits, Fit
<1> QED
  BY <1>3, <1>6, <1>8, <1>11 DEF Follows, AsksNothing

LEMMA InitializePipelineIs ==
    ASSUME NEW s, NEW d \in Documented, NEW off, Fits(s, d, off), NEW t \in InitializePipeline(s, d)
    PROVE  /\ Fits(t, d, off)
           /\ Follows(s, t)
           /\ t.recovery = s.recovery
           /\ s.app.pipeline => t.app.pipeline
           /\ t.result \in {"OK", "BACKEND", "REFUSED", "STATE"}
           /\ t.result = "OK" => t.app.pipeline
<1> DEFINE up == [s.app EXCEPT !.verifier = TRUE, !.pipeline = TRUE, !.agentPipe = "on"]
           Goal(x) == /\ Fits(x, d, off)
                      /\ Follows(s, x)
                      /\ x.recovery = s.recovery
                      /\ s.app.pipeline => x.app.pipeline
                      /\ x.result \in {"OK", "BACKEND", "REFUSED", "STATE"}
                      /\ x.result = "OK" => x.app.pipeline
<1> SUFFICES Goal(t)
  OBVIOUS
<1>1. /\ s.app \in Applications /\ s.pipe \in Pipelines /\ s.recovery \in Schedules
      /\ s.cost \in Nat /\ s.result \in Results
  BY DEF Fits, States
<1>2. ASSUME NEW result \in {"BACKEND", "REFUSED", "STATE"}, NEW cost \in Nat,
             t = [s EXCEPT !.result = result, !.cost = cost]
      PROVE  Goal(t)
  <2>1. t \in States /\ t.app = s.app /\ t.pipe = s.pipe /\ t.recovery = s.recovery /\ t.result = result
    BY <1>2 DEF Fits, States, Results
  <2> QED
    BY <2>1 DEF Fits, Follows, AsksNothing
<1>3. CASE Occupied(s.app) /\ t = [s EXCEPT !.result = "STATE"]
  <2>1. t = [s EXCEPT !.result = "STATE", !.cost = s.cost]
    BY <1>3 DEF Fits, States
  <2> HIDE DEF Goal
  <2> QED
    BY <1>1, <1>2, <2>1
<1>4. CASE ~Occupied(s.app) /\ \E code \in {"BACKEND", "REFUSED"} : t = [s EXCEPT !.result = code, !.cost = @ + 1]
  <2>1. PICK code \in {"BACKEND", "REFUSED"} : t = [s EXCEPT !.result = code, !.cost = s.cost + 1]
    BY <1>4
  <2>2. s.cost + 1 \in Nat
    BY <1>1
  <2> HIDE DEF Goal
  <2> QED
    BY <1>2, <2>1, <2>2
<1>5. ASSUME ~Occupied(s.app), NEW o \in InitializeOutcomes(s.pipe, d),
             t \in IF o.result = "OK"
                   THEN {State("OK", up, o.pipe, s.recovery, s.cost + o.cost)}
                        \cup UNION {Discarded(s, code, [o EXCEPT !.cost = @ + 1]) : code \in {"BACKEND", "REFUSED"}}
                   ELSE Discarded(s, o.result, o)
      PROVE  Goal(t)
  <2>1. ~s.app.pipeline /\ ~s.app.cleanup
    BY <1>5 DEF Occupied
  <2>2. /\ o \in Outcomes
        /\ o.result \in {"OK", "BACKEND", "REFUSED"}
        /\ AsksNothing(s.pipe, o.pipe)
        /\ o.pipe.initialized => o.pipe.settings = d
    BY <1>1, <2>1, InitializeIs DEF Fits, Fit
  <2>3. CASE o.result = "OK" /\ t = State("OK", up, o.pipe, s.recovery, s.cost + o.cost)
    <3>1. t.result = "OK" /\ t.app = up /\ t.pipe = o.pipe /\ t.recovery = s.recovery /\ t.cost = s.cost + o.cost
      BY <2>3, StateIs
    <3>2. /\ up \in Applications /\ up.pipeline /\ up.phase = s.app.phase
          /\ up.refused = s.app.refused /\ up.closing = s.app.closing
      BY <1>1 DEF Applications
    <3> HIDE DEF up
    <3>3. o.pipe \in Pipelines /\ o.cost \in Nat
      BY <2>2 DEF Outcomes
    <3>4. t \in States
      <4>1. s.cost + o.cost \in Nat /\ "OK" \in Results
        BY <1>1, <3>3 DEF Results
      <4> QED
        BY <1>1, <2>3, <3>2, <3>3, <4>1, StateIs
    <3>5. Fits(t, d, off)
      BY <1>1, <2>2, <3>1, <3>2, <3>3, <3>4 DEF Fits, Fit
    <3> QED
      BY <2>2, <3>1, <3>2, <3>5 DEF Follows
  <2>4. ASSUME NEW code \in {"BACKEND", "REFUSED"}, NEW e \in Outcomes, AsksNothing(s.pipe, e.pipe),
               t \in Discarded(s, code, e)
        PROVE  Goal(t)
    <3>1. code \in Results
      BY <2>4 DEF Results
    <3>2. /\ Fits(t, d, off) /\ Follows(s, t) /\ t.recovery = s.recovery
          /\ t.app.pipeline = s.app.pipeline /\ t.result \in {code, "STATE"}
      BY <2>1, <2>4, <3>1, DiscardedIs
    <3> QED
      BY <2>1, <2>4, <3>2
  <2>5. [o EXCEPT !.cost = @ + 1] \in Outcomes /\ [o EXCEPT !.cost = @ + 1].pipe = o.pipe
    BY <2>2 DEF Outcomes
  <2>6. CASE o.result = "OK" /\ \E code \in {"BACKEND", "REFUSED"} : t \in Discarded(s, code, [o EXCEPT !.cost = @ + 1])
    <3> HIDE DEF Goal
    <3> QED
      BY <2>2, <2>4, <2>5, <2>6
  <2>7. CASE o.result # "OK" /\ t \in Discarded(s, o.result, o)
    <3> HIDE DEF Goal
    <3> QED
      BY <2>2, <2>4, <2>7
  <2> HIDE DEF Goal, up
  <2> QED
    BY <1>5, <2>3, <2>6, <2>7
<1>6. CASE ~Occupied(s.app) /\ ~(\E code \in {"BACKEND", "REFUSED"} : t = [s EXCEPT !.result = code, !.cost = @ + 1])
  <2>1. \E o \in InitializeOutcomes(s.pipe, d) :
          t \in IF o.result = "OK"
                THEN {State("OK", up, o.pipe, s.recovery, s.cost + o.cost)}
                     \cup UNION {Discarded(s, code, [o EXCEPT !.cost = @ + 1]) : code \in {"BACKEND", "REFUSED"}}
                ELSE Discarded(s, o.result, o)
    BY <1>6 DEF InitializePipeline
  <2> HIDE DEF Goal, up
  <2> QED
    BY <1>5, <1>6, <2>1
<1>7. Occupied(s.app) => t = [s EXCEPT !.result = "STATE"]
  BY DEF InitializePipeline
<1> HIDE DEF Goal, up
<1> QED
  BY <1>3, <1>4, <1>6, <1>7

LEMMA NeutralizeIs ==
    ASSUME NEW s, NEW d, NEW off, Fits(s, d, off), NEW t \in Neutralize(s)
    PROVE  /\ Fits(t, d, off)
           /\ Follows(s, t)
           /\ t.app = s.app /\ t.recovery = s.recovery
<1>1. CASE s.app.pipeline
  <2>1. PICK o \in ObserveOutcomes(s.pipe) : t = State(o.result, s.app, o.pipe, s.recovery, s.cost + o.cost)
    BY <1>1 DEF Neutralize
  <2>2. s.pipe \in Pipelines
    BY DEF Fits, Fit
  <2>3. Calm(s.pipe, o) /\ AsksNothing(s.pipe, o.pipe)
    BY <2>2, ObserveIs
  <2> QED
    BY <2>1, <2>3, CalmFits
<1>2. CASE ~s.app.pipeline
  <2>1. t = [s EXCEPT !.result = "OK"]
    BY <1>2 DEF Neutralize
  <2>2. t \in States /\ t.app = s.app /\ t.pipe = s.pipe /\ t.recovery = s.recovery
    BY <2>1 DEF Fits, States, Results
  <2> QED
    BY <2>2 DEF Fits, Follows, AsksNothing
<1> QED
  BY <1>1, <1>2

LEMMA StopAgentPipeIs ==
    ASSUME NEW s, NEW d, NEW off, Fits(s, d, off), NEW t \in StopAgentPipe(s)
    PROVE  /\ Fits(t, d, off)
           /\ Follows(s, t)
           /\ t.app.pipeline = s.app.pipeline /\ t.app.cleanup = s.app.cleanup
           /\ t.app \in Applications
           /\ t.recovery = s.recovery
<1>1. s \in States /\ s.app \in Applications
  BY DEF Fits, States
<1>2. ASSUME NEW result \in {"OK", "STATE"}
      PROVE  /\ Fits([s EXCEPT !.result = result], d, off)
             /\ Follows(s, [s EXCEPT !.result = result])
             /\ [s EXCEPT !.result = result].app = s.app
             /\ [s EXCEPT !.result = result].recovery = s.recovery
  <2>1. /\ [s EXCEPT !.result = result] \in States /\ [s EXCEPT !.result = result].app = s.app
        /\ [s EXCEPT !.result = result].pipe = s.pipe /\ [s EXCEPT !.result = result].recovery = s.recovery
    BY <1>1 DEF States, Results
  <2> QED
    BY <2>1 DEF Fits, Follows, AsksNothing
<1>3. CASE s.app.agentPipe \in {"off", "stopped"}
  <2>1. \E result \in {"OK", "STATE"} : t = [s EXCEPT !.result = result]
    BY <1>3 DEF StopAgentPipe
  <2> QED
    BY <1>1, <1>2, <2>1
<1>4. CASE s.app.agentPipe = "on"
  <2>1. PICK u \in Neutralize(s) \cup {[s EXCEPT !.result = "OK"]} :
          t = [u EXCEPT !.app.agentPipe = IF u.result = "OK" THEN "off" ELSE "stopped"]
    BY <1>4 DEF StopAgentPipe
  <2>2. Fits(u, d, off) /\ Follows(s, u) /\ u.app = s.app /\ u.recovery = s.recovery
    BY <1>2, <2>1, NeutralizeIs
  <2> DEFINE e == IF u.result = "OK" THEN "off" ELSE "stopped"
             a == [s.app EXCEPT !.agentPipe = e]
  <2>3. e \in {"off", "stopped"}
    OBVIOUS
  <2> HIDE DEF e
  <2>4. /\ a \in Applications /\ a.pipeline = s.app.pipeline /\ a.cleanup = s.app.cleanup
        /\ a.phase = s.app.phase /\ a.refused = s.app.refused /\ a.closing = s.app.closing
    BY <1>1, <2>3 DEF Applications
  <2>5. u \in States
    BY <2>2 DEF Fits
  <2>6. t \in States /\ t.app = a /\ t.pipe = u.pipe /\ t.recovery = u.recovery
    <3>1. t = [u EXCEPT !.app = a]
      BY <2>1, <2>2, <2>5 DEF States, a, e
    <3> HIDE DEF a
    <3> QED
      BY <2>4, <2>5, <3>1 DEF States
  <2> HIDE DEF a
  <2>7. Fits(t, d, off)
    BY <2>2, <2>4, <2>6 DEF Fits, Fit
  <2> QED
    BY <2>2, <2>4, <2>6, <2>7 DEF Follows
<1> QED
  BY <1>1, <1>3, <1>4 DEF Applications

LEMMA ShutdownPipelineIs ==
    ASSUME NEW s, NEW d, NEW off, Fits(s, d, off), NEW t \in ShutdownPipeline(s)
    PROVE  /\ Fits(t, d, off)
           /\ Follows(s, t)
           /\ t.recovery = s.recovery
<1>1. PICK u \in StopAgentPipe(s) : \E o \in Stopping(u) : t = Stopped(u, o)
  BY DEF ShutdownPipeline
<1>2. PICK o \in Stopping(u) : t = Stopped(u, o)
  BY <1>1
<1>3. Fits(u, d, off) /\ Follows(s, u) /\ u.recovery = s.recovery
  BY StopAgentPipeIs
<1>4. /\ u \in States /\ u.app \in Applications /\ u.pipe \in Pipelines /\ u.recovery \in Schedules
      /\ u.cost \in Nat /\ u.result \in Results
  BY <1>3 DEF Fits, States
<1>5. /\ o \in Outcomes /\ o.result \in {"OK", "BACKEND"}
      /\ AsksNothing(u.pipe, o.pipe)
      /\ o.result = "OK" => ~o.pipe.initialized /\ o.pipe.up \subseteq Kept
      /\ o.pipe.initialized => u.pipe.initialized /\ o.pipe.settings = u.pipe.settings
  <2>1. CASE u.app.pipeline \/ u.app.cleanup
    BY <1>4, <2>1, ShutdownIs DEF Stopping
  <2>2. CASE ~u.app.pipeline /\ ~u.app.cleanup
    <3>1. o = Outcome("OK", u.pipe, 0)
      BY <2>2 DEF Stopping
    <3> QED
      BY <1>3, <1>4, <2>2, <3>1 DEF Fits, Fit, Outcome, Outcomes, Results, AsksNothing
  <2> QED
    BY <2>1, <2>2
<1> DEFINE b == u.app.pipeline /\ o.result # "OK"
           c == u.app.cleanup /\ o.result # "OK"
           a == [u.app EXCEPT !.verifier = FALSE, !.pipeline = b, !.cleanup = c]
<1>6. b \in BOOLEAN /\ c \in BOOLEAN
  OBVIOUS
<1>7. (b => u.app.pipeline) /\ (b \/ c => o.result # "OK") /\ (o.result # "OK" => b \/ c)
  <2>1. o.result # "OK" => u.app.pipeline \/ u.app.cleanup
    <3>1. CASE u.app.pipeline \/ u.app.cleanup
      BY <3>1
    <3>2. CASE ~u.app.pipeline /\ ~u.app.cleanup
      <4>1. o = Outcome("OK", u.pipe, 0)
        BY <3>2 DEF Stopping
      <4> QED
        BY <4>1 DEF Outcome
    <3> QED
      BY <3>1, <3>2
  <2> QED
    BY <2>1
<1>8. t = State(IF u.result = "OK" THEN o.result ELSE u.result, a, o.pipe, u.recovery, u.cost + o.cost)
  BY <1>2, <1>4 DEF Applications, Stopped
<1> HIDE DEF b, c
<1>9. /\ a \in Applications /\ (a.pipeline <=> b) /\ (a.cleanup <=> c)
      /\ a.phase = u.app.phase /\ a.refused = u.app.refused /\ a.closing = u.app.closing
  BY <1>4, <1>6 DEF Applications
<1> HIDE DEF a
<1>10. o.pipe \in Pipelines /\ u.cost + o.cost \in Nat
       /\ (IF u.result = "OK" THEN o.result ELSE u.result) \in Results
  BY <1>4, <1>5 DEF Outcomes
<1>11. t \in States /\ t.app = a /\ t.pipe = o.pipe /\ t.recovery = u.recovery
  BY <1>4, <1>8, <1>9, <1>10, StateIs
<1>12. Fits(t, d, off)
  BY <1>3, <1>4, <1>5, <1>7, <1>9, <1>10, <1>11 DEF Fits, Fit
<1>13. Follows(u, t)
  BY <1>5, <1>9, <1>11 DEF Follows
<1> QED
  BY <1>3, <1>11, <1>12, <1>13, FollowsOn

(* A call of the application: what it leaves fits, and a pipeline that was
   awaited, or had, still is. *)
Served(s, t, d, off) ==
    /\ Fits(t, d, off)
    /\ Follows(s, t)
    /\ Awaited(s.app, s.recovery) => Awaited(t.app, t.recovery)

LEMMA ServedOn ==
    ASSUME NEW s, NEW t, NEW u, NEW d, NEW off, Served(s, t, d, off), Served(t, u, d, off)
    PROVE  Served(s, u, d, off)
BY FollowsOn DEF Served

LEMMA ServedItself ==
    ASSUME NEW s, NEW d, NEW off, Fits(s, d, off)
    PROVE  Served(s, s, d, off)
BY FollowsItself DEF Served

LEMMA SameAppServes ==
    ASSUME NEW s, NEW t, NEW d, NEW off, Fits(t, d, off), Follows(s, t), t.app = s.app, t.recovery = s.recovery
    PROVE  Served(s, t, d, off)
BY DEF Served

LEMMA CalmServes ==
    ASSUME NEW s, NEW d, NEW off, Fits(s, d, off), NEW o, Calm(s.pipe, o), AsksNothing(s.pipe, o.pipe)
    PROVE  Served(s, State(o.result, s.app, o.pipe, s.recovery, s.cost + o.cost), d, off)
BY CalmFits DEF Served

(* begin_pipeline_recovery: the rebuild is scheduled, or the process replaced. *)
LEMMA BeginRecoveryIs ==
    ASSUME NEW s, NEW d, NEW off, Fits(s, d, off), NEW t \in BeginRecovery(s)
    PROVE  Served(s, t, d, off) /\ Awaited(t.app, t.recovery)
<1>1. PICK u \in ShutdownPipeline(s) :
        t = IF u.result = "OK" THEN [u EXCEPT !.recovery = Start]
            ELSE [u EXCEPT !.app = RequestRestart(u.app), !.recovery = Complete]
  BY DEF BeginRecovery
<1>2. Fits(u, d, off) /\ Follows(s, u)
  BY ShutdownPipelineIs
<1>3. u \in States /\ u.app \in Applications
  BY <1>2 DEF Fits, States
<1>4. CASE u.result = "OK"
  <2>1. t \in States /\ t.app = u.app /\ t.pipe = u.pipe /\ t.recovery = Start
    BY <1>1, <1>3, <1>4, SchedulesAre DEF States
  <2>2. Fits(t, d, off) /\ Awaited(t.app, t.recovery)
    BY <1>2, <2>1, SchedulesAre DEF Fits, Fit, Awaited
  <2>3. Follows(s, t)
    BY <1>2, <2>1 DEF Follows
  <2> QED
    BY <2>2, <2>3 DEF Served
<1>5. CASE u.result # "OK"
  <2> DEFINE a == RequestRestart(u.app)
  <2>1. /\ a \in Applications /\ a.closing
        /\ a.pipeline = u.app.pipeline /\ a.cleanup = u.app.cleanup
        /\ a.phase = u.app.phase /\ a.refused = u.app.refused
    BY <1>3, RestartIsAsked
  <2> HIDE DEF a
  <2>2. t = [u EXCEPT !.app = a, !.recovery = Complete]
    BY <1>1, <1>5 DEF a
  <2>3. t \in States /\ t.app = a /\ t.pipe = u.pipe /\ t.recovery = Complete
    BY <1>3, <2>1, <2>2, SchedulesAre DEF States
  <2>4. Fits(t, d, off) /\ Awaited(t.app, t.recovery)
    BY <1>2, <2>1, <2>3, SchedulesAre DEF Fits, Fit, Awaited
  <2>5. Follows(s, t)
    BY <1>2, <2>1, <2>3 DEF Follows
  <2> QED
    BY <2>4, <2>5 DEF Served
<1> QED
  BY <1>4, <1>5

LEMMA GuardedIs ==
    ASSUME NEW s, NEW d, NEW off, Fits(s, d, off), NEW outcomes,
           \A o \in outcomes : Calm(s.pipe, o) /\ AsksNothing(s.pipe, o.pipe),
           NEW t \in Guarded(s, outcomes)
    PROVE  Served(s, t, d, off)
<1>1. CASE ~s.app.pipeline
  BY <1>1, ServedItself DEF Guarded
<1>2. CASE s.app.pipeline
  <2>1. PICK o \in outcomes : t \in React(s, o)
    BY <1>2 DEF Guarded
  <2> DEFINE after == State(o.result, s.app, o.pipe, s.recovery, s.cost + o.cost)
  <2>2. Served(s, after, d, off)
    BY CalmServes
  <2>3. t = after \/ t \in BeginRecovery(after)
    BY <2>1 DEF React
  <2> HIDE DEF after
  <2>4. t \in BeginRecovery(after) => Served(after, t, d, off)
    BY <2>2, BeginRecoveryIs DEF Served
  <2> QED
    BY <2>2, <2>3, <2>4, ServedOn
<1> QED
  BY <1>1, <1>2

LEMMA RefreshTopologyIs ==
    ASSUME NEW s, NEW d, NEW off, Fits(s, d, off), NEW t \in RefreshTopology(s)
    PROVE  Served(s, t, d, off)
<1> DEFINE outcomes == IF Whole(s.pipe)
                       THEN {Outcome("OK", s.pipe, 0), Outcome("BACKEND", s.pipe, 1), Outcome("REFUSED", s.pipe, 1)}
                       ELSE {Outcome("INVALID", s.pipe, 0)}
<1>1. s.pipe \in Pipelines /\ StackStays(s.pipe, s.pipe) /\ AsksNothing(s.pipe, s.pipe)
  BY DEF Fits, States, StackStays, AsksNothing
<1>2. \A result \in {"OK", "BACKEND", "REFUSED", "INVALID"}, cost \in {0, 1} :
        Calm(s.pipe, Outcome(result, s.pipe, cost)) /\ AsksNothing(s.pipe, Outcome(result, s.pipe, cost).pipe)
  BY <1>1, CalmIs DEF Results
<1>3. \A o \in outcomes : Calm(s.pipe, o) /\ AsksNothing(s.pipe, o.pipe)
  BY <1>2
<1>4. t \in Guarded(s, outcomes)
  BY DEF RefreshTopology
<1> HIDE DEF outcomes
<1> QED
  BY <1>3, <1>4, GuardedIs

LEMMA SetInputAvailableIs ==
    ASSUME NEW s, NEW d, NEW off, Fits(s, d, off), NEW value \in BOOLEAN, NEW t \in SetInputAvailable(s, value)
    PROVE  Served(s, t, d, off)
<1>1. s.pipe \in Pipelines
  BY DEF Fits, States
<1>2. \A o \in AvailableOutcomes(s.pipe, value) : Calm(s.pipe, o) /\ AsksNothing(s.pipe, o.pipe)
  BY <1>1, AvailableIs
<1> QED
  BY <1>2, GuardedIs DEF SetInputAvailable

(* The rebuild has the pipeline, or waits again, or ends the process. *)
LEMMA RebuildIs ==
    ASSUME NEW s, NEW d \in Documented, NEW off, Fits(s, d, off), NEW t \in Rebuild(s, d)
    PROVE  Served(s, t, d, off)
<1>1. PICK u \in InitializePipeline(s, d) :
        t = CASE u.result = "OK" -> [u EXCEPT !.recovery = Complete]
              [] u.result = "STATE" -> [u EXCEPT !.app = RequestRestart(u.app), !.recovery = Complete]
              [] OTHER -> [u EXCEPT !.recovery = Retry(s.recovery)]
  BY DEF Rebuild
<1>2. /\ Fits(u, d, off) /\ Follows(s, u)
      /\ u.result = "OK" => u.app.pipeline
  BY InitializePipelineIs
<1>3. u \in States /\ u.app \in Applications /\ s.recovery \in Schedules
  BY <1>2 DEF Fits, States
<1>4. ASSUME NEW r \in Schedules, t = [u EXCEPT !.recovery = r], u.app.pipeline \/ r.pending
      PROVE  Served(s, t, d, off)
  <2>1. t \in States /\ t.app = u.app /\ t.pipe = u.pipe /\ t.recovery = r
    BY <1>3, <1>4 DEF States
  <2>2. Fits(t, d, off)
    BY <1>2, <2>1 DEF Fits, Fit, States
  <2>3. Follows(s, t) /\ Awaited(t.app, t.recovery)
    BY <1>2, <1>4, <2>1 DEF Follows, Awaited
  <2> QED
    BY <2>2, <2>3 DEF Served
<1>5. CASE u.result = "OK"
  <2>1. t = [u EXCEPT !.recovery = Complete]
    BY <1>1, <1>5
  <2> QED
    BY <1>2, <1>4, <1>5, <2>1, SchedulesAre
<1>6. CASE u.result = "STATE"
  <2> DEFINE a == RequestRestart(u.app)
  <2>1. /\ a \in Applications /\ a.closing
        /\ a.pipeline = u.app.pipeline /\ a.cleanup = u.app.cleanup
        /\ a.phase = u.app.phase /\ a.refused = u.app.refused
    BY <1>3, RestartIsAsked
  <2> HIDE DEF a
  <2>2. t = [u EXCEPT !.app = a, !.recovery = Complete]
    BY <1>1, <1>6 DEF a
  <2>3. t \in States /\ t.app = a /\ t.pipe = u.pipe /\ t.recovery = Complete
    BY <1>3, <2>1, <2>2, SchedulesAre DEF States
  <2>4. Fits(t, d, off) /\ Awaited(t.app, t.recovery)
    BY <1>2, <2>1, <2>3, SchedulesAre DEF Fits, Fit, Awaited
  <2>5. Follows(s, t)
    BY <1>2, <2>1, <2>3 DEF Follows
  <2> QED
    BY <2>4, <2>5 DEF Served
<1>7. CASE u.result # "OK" /\ u.result # "STATE"
  <2>1. t = [u EXCEPT !.recovery = Retry(s.recovery)]
    BY <1>1, <1>7
  <2>2. Retry(s.recovery) \in Schedules /\ Retry(s.recovery).pending
    BY <1>3, SchedulesAre
  <2> QED
    BY <1>4, <2>1, <2>2
<1> QED
  BY <1>5, <1>6, <1>7

LEMMA AdvancePipelineIs ==
    ASSUME NEW s, NEW d \in Documented, NEW off, Fits(s, d, off), NEW t \in AdvancePipeline(s, d)
    PROVE  Served(s, t, d, off)
<1>1. s.pipe \in Pipelines
  BY DEF Fits, States
<1>2. \A o \in PipelineAdvance(s.pipe) : Calm(s.pipe, o) /\ AsksNothing(s.pipe, o.pipe)
  BY <1>1, AdvanceIs
<1>3. t \in Guarded(s, PipelineAdvance(s.pipe)) \/ t \in Rebuild(s, d) \/ t = s
  BY DEF AdvancePipeline
<1> QED
  BY <1>2, <1>3, GuardedIs, RebuildIs, ServedItself

(* A command of the human: the one call that asks for a session, on the user's
   own desktop. *)
LEMMA DispatchCommandIs ==
    ASSUME NEW s, NEW d, NEW off, Fits(s, d, off), locked \in BOOLEAN, NEW suspended,
           NEW t \in DispatchCommand(s, suspended)
    PROVE  /\ Fits(t, d, off)
           /\ t.app = s.app /\ t.recovery = s.recovery
           /\ locked => AsksNothing(s.pipe, t.pipe)
<1>1. CASE t = s
  BY <1>1 DEF AsksNothing
<1>2. ASSUME NEW o \in RequestOutcomes(s.pipe, locked),
             t = State(o.result, s.app, o.pipe, s.recovery, s.cost + o.cost)
      PROVE  /\ Fits(t, d, off)
             /\ t.app = s.app /\ t.recovery = s.recovery
             /\ locked => AsksNothing(s.pipe, t.pipe)
  <2>1. s.pipe \in Pipelines
    BY DEF Fits, States
  <2>2. Calm(s.pipe, o) /\ (locked => AsksNothing(s.pipe, o.pipe))
    BY <2>1, RequestIs
  <2> QED
    BY <1>2, <2>2, CalmFits
<1>3. t = s \/ \E o \in RequestOutcomes(s.pipe, locked) : t = State(o.result, s.app, o.pipe, s.recovery, s.cost + o.cost)
  BY DEF DispatchCommand
<1> QED
  BY <1>1, <1>2, <1>3

LEMMA NeutralizeServes ==
    ASSUME NEW s, NEW d, NEW off, Fits(s, d, off), NEW t \in Neutralize(s)
    PROVE  Served(s, t, d, off)
BY NeutralizeIs, SameAppServes

LEMMA EndingIs ==
    ASSUME NEW s, NEW d, NEW off, Fits(s, d, off), NEW restart \in BOOLEAN, NEW t \in Ending(s, restart)
    PROVE  Served(s, t, d, off)
<1>1. PICK u \in Neutralize(s) :
        t = IF u.result # "OK" THEN u
            ELSE [u EXCEPT !.app = IF restart THEN RequestRestart(u.app) ELSE [u.app EXCEPT !.closing = TRUE]]
  BY DEF Ending
<1>2. Fits(u, d, off) /\ Follows(s, u) /\ Served(s, u, d, off)
  BY NeutralizeIs, NeutralizeServes
<1>3. u \in States /\ u.app \in Applications
  BY <1>2 DEF Fits, States
<1> DEFINE a == IF restart THEN RequestRestart(u.app) ELSE [u.app EXCEPT !.closing = TRUE]
<1>4. CASE u.result # "OK"
  BY <1>1, <1>2, <1>4
<1>5. CASE u.result = "OK"
  <2>1. /\ a \in Applications /\ a.closing
        /\ a.pipeline = u.app.pipeline /\ a.cleanup = u.app.cleanup
        /\ a.phase = u.app.phase /\ a.refused = u.app.refused
    <3>1. CASE restart
      BY <1>3, <3>1, RestartIsAsked
    <3>2. CASE ~restart
      BY <1>3, <3>2 DEF Applications
    <3> QED
      BY <3>1, <3>2
  <2> HIDE DEF a
  <2>2. t = [u EXCEPT !.app = a]
    BY <1>1, <1>5 DEF a
  <2>3. t \in States /\ t.app = a /\ t.pipe = u.pipe /\ t.recovery = u.recovery
    BY <1>3, <2>1, <2>2 DEF States
  <2>4. Fits(t, d, off) /\ Awaited(t.app, t.recovery)
    BY <1>2, <2>1, <2>3 DEF Fits, Fit, Awaited
  <2>5. Follows(s, t)
    BY <1>2, <2>1, <2>3 DEF Follows
  <2> QED
    BY <2>4, <2>5 DEF Served
<1> QED
  BY <1>4, <1>5

(* The first build: what its answer makes of the process. *)
LEMMA StartedIs ==
    ASSUME NEW s, NEW d, NEW off, Fits(s, d, off), s.result \in {"OK", "BACKEND", "REFUSED", "STATE"},
           s.result = "OK" => s.app.pipeline, NEW t, t = Started(s)
    PROVE  /\ Fits(t, d, off)
           /\ t.app.phase = "running" /\ Awaited(t.app, t.recovery)
           /\ t.pipe = s.pipe
<1> DEFINE refused == s.result = "REFUSED"
           a == [s.app EXCEPT !.phase = "running", !.refused = refused]
<1>1. s \in States /\ s.app \in Applications /\ refused \in BOOLEAN
  BY DEF Fits, States
<1>2. refused <=> s.result = "REFUSED"
  OBVIOUS
<1>3. t = CASE s.result = "BACKEND" -> [s EXCEPT !.app = a, !.recovery = Start]
            [] s.result = "STATE" -> [s EXCEPT !.app = RequestRestart(a)]
            [] OTHER -> [s EXCEPT !.app = a]
  BY DEF Started
<1> HIDE DEF refused
<1>4. /\ a \in Applications /\ a.phase = "running" /\ (a.refused <=> refused)
      /\ a.pipeline = s.app.pipeline /\ a.cleanup = s.app.cleanup
  BY <1>1 DEF Applications
<1> HIDE DEF a
<1>5. ASSUME NEW b \in Applications, b.pipeline = a.pipeline, b.cleanup = a.cleanup, b.phase = a.phase,
             NEW r \in Schedules, t = [s EXCEPT !.app = b, !.recovery = r], Awaited(b, r)
      PROVE  /\ Fits(t, d, off)
             /\ t.app.phase = "running" /\ Awaited(t.app, t.recovery)
             /\ t.pipe = s.pipe
  <2>1. t \in States /\ t.app = b /\ t.pipe = s.pipe /\ t.recovery = r
    BY <1>1, <1>5 DEF States
  <2>2. Fit(b, s.pipe, r, d, off)
    BY <1>4, <1>5 DEF Fits, Fit
  <2> QED
    BY <1>4, <1>5, <2>1, <2>2 DEF Fits
<1>6. s.recovery \in Schedules /\ \A b : [s EXCEPT !.app = b] = [s EXCEPT !.app = b, !.recovery = s.recovery]
  BY <1>1 DEF States
<1>7. CASE s.result = "BACKEND"
  BY <1>3, <1>4, <1>5, <1>7, SchedulesAre DEF Awaited
<1>8. CASE s.result = "STATE"
  <2>1. t = [s EXCEPT !.app = RequestRestart(a), !.recovery = s.recovery]
    BY <1>3, <1>6, <1>8
  <2>2. /\ RequestRestart(a) \in Applications /\ RequestRestart(a).pipeline = a.pipeline
        /\ RequestRestart(a).cleanup = a.cleanup /\ RequestRestart(a).phase = a.phase
        /\ Awaited(RequestRestart(a), s.recovery)
    BY <1>4, RestartIsAsked DEF Awaited
  <2> QED
    BY <1>5, <1>6, <2>1, <2>2
<1>9. CASE s.result \in {"OK", "REFUSED"}
  <2>1. t = [s EXCEPT !.app = a, !.recovery = s.recovery]
    BY <1>3, <1>6, <1>9
  <2>2. Awaited(a, s.recovery)
    BY <1>2, <1>4, <1>9 DEF Awaited
  <2> QED
    BY <1>4, <1>5, <1>6, <2>1, <2>2
<1> QED
  BY <1>7, <1>8, <1>9

-------------------------------------------------------------------------------
(* The settings' sink.                                                         *)

LEMMA PipelinedIs ==
    ASSUME NEW p \in Pipelines, NEW d \in Documented, NEW o \in Pipelined(p, d)
    PROVE  /\ o \in Outcomes /\ AsksNothing(p, o.pipe)
           /\ app.pipeline => Answered(p, d, o)
           /\ ~app.pipeline => o.pipe = p /\ o.result = "OK"
<1>1. CASE app.pipeline
  BY <1>1, ApplyIs DEF Pipelined, Answered
<1>2. CASE ~app.pipeline
  BY <1>2 DEF Pipelined, Outcome, Outcomes, Results, AsksNothing
<1> QED
  BY <1>1, <1>2

LEMMA AppliedIs ==
    ASSUME NEW result, NEW o, NEW h, NEW f, NEW off, NEW cost
    PROVE  LET x == Applied(result, o, h, f, off, cost)
           IN  x.result = result /\ x.pipe = o.pipe /\ x.hooks = h /\ x.file = f /\ x.adrift = off /\ x.cost = cost
BY DEF Applied

LEMMA ReplaceIs ==
    ASSUME NEW h \in Hooks, NEW d \in Documented
    PROVE  /\ Replace(h, d) \in Hooks /\ Replace(h, d).bindings = d
BY DEF Hooks, Documented, Replace

(* An edit that is taken is in the pipeline, the hook and the file; one that is
   refused leaves all of them at the current document, except a pipeline whose
   way back was refused. *)
Reached(d, x) ==
    /\ x.pipe \in Pipelines /\ x.hooks \in Hooks /\ x.adrift \in BOOLEAN /\ x.cost \in Nat
    /\ AsksNothing(pipe, x.pipe)
    /\ ~app.pipeline => x.pipe = pipe
    /\ x.result = "OK" => /\ x.hooks.bindings = d /\ x.file = d /\ d \in HooksAccept /\ ~x.adrift
                          /\ app.pipeline /\ x.pipe.initialized => x.pipe.settings = d
    /\ x.result # "OK" =>
         /\ x.hooks.bindings = controller.current /\ x.file = file
         /\ app.pipeline /\ x.pipe.initialized /\ ~x.adrift => x.pipe.settings = controller.current

LEMMA RolledBackIs ==
    ASSUME NEW d \in Documents, NEW o \in Outcomes, AsksNothing(pipe, o.pipe),
           ~app.pipeline => o.pipe = pipe,
           controller.current \in Documents, adrift \in BOOLEAN,
           NEW h \in Hooks, h.bindings = controller.current, NEW cost \in Nat,
           NEW x \in RolledBack(o, h, cost)
    PROVE  Reached(d, x)
<1>1. PICK r \in Pipelined(o.pipe, controller.current) :
        x = Applied("REFUSED", r, h, file, adrift \/ r.result # "OK", cost + o.cost + r.cost)
  BY DEF RolledBack
<1>2. o.pipe \in Pipelines /\ o.cost \in Nat /\ controller.current \in Documented
  BY DEF Outcomes, Documented
<1>3. /\ r \in Outcomes /\ AsksNothing(o.pipe, r.pipe)
      /\ app.pipeline => Answered(o.pipe, controller.current, r)
      /\ ~app.pipeline => r.pipe = o.pipe /\ r.result = "OK"
  BY <1>2, PipelinedIs
<1> DEFINE off == adrift \/ r.result # "OK"
<1>4. off \in BOOLEAN /\ (~off => r.result = "OK")
  OBVIOUS
<1>5. /\ x.result = "REFUSED" /\ x.pipe = r.pipe /\ x.hooks = h /\ x.file = file
      /\ x.adrift = off /\ x.cost = cost + o.cost + r.cost
  BY <1>1, AppliedIs
<1> HIDE DEF off
<1>6. r.pipe \in Pipelines /\ r.cost \in Nat
  BY <1>3 DEF Outcomes
<1>7. AsksNothing(pipe, r.pipe)
  BY <1>3 DEF AsksNothing
<1>8. app.pipeline /\ r.pipe.initialized /\ ~off => r.pipe.settings = controller.current
  BY <1>3, <1>4 DEF Answered
<1> QED
  BY <1>2, <1>3, <1>4, <1>5, <1>6, <1>7, <1>8 DEF Reached

LEMMA ApplySettingsIs ==
    ASSUME NEW d \in Documents, pipe \in Pipelines, hooks \in Hooks, adrift \in BOOLEAN,
           controller.current \in Documents, hooks.bindings = controller.current,
           app.pipeline /\ pipe.initialized /\ ~adrift => pipe.settings = controller.current,
           NEW x \in ApplySettings(d)
    PROVE  Reached(d, x)
<1>1. d \in Documented /\ controller.current \in Documented
  BY DEF Documented
<1> DEFINE rehooked == Replace(hooks, d)
<1>2. rehooked \in Hooks /\ rehooked.bindings = d
  BY <1>1, ReplaceIs
<1>3. Rehooked(rehooked) \in Hooks /\ Rehooked(rehooked).bindings = controller.current
  BY <1>1, <1>2, ReplaceIs DEF Rehooked
<1>4. PICK o \in Pipelined(pipe, d) :
        x \in IF o.result = "OK"
              THEN IF ~HookTakes(d) THEN RolledBack(o, hooks, 0)
                   ELSE UNION {IF f = d THEN {Applied("OK", o, rehooked, f, FALSE, o.cost)}
                               ELSE RolledBack(o, Rehooked(rehooked), 1) : f \in Saves(d)}
              ELSE {Applied(o.result, o, hooks, file, adrift, o.cost)}
  BY DEF ApplySettings
<1>5. /\ o \in Outcomes /\ AsksNothing(pipe, o.pipe)
      /\ app.pipeline => Answered(pipe, d, o)
      /\ ~app.pipeline => o.pipe = pipe /\ o.result = "OK"
      /\ o.pipe \in Pipelines /\ o.cost \in Nat
  BY <1>1, PipelinedIs DEF Outcomes
<1> HIDE DEF rehooked
<1>6. CASE o.result = "OK" /\ x \in RolledBack(o, hooks, 0)
  BY <1>5, <1>6, RolledBackIs
<1>7. CASE o.result = "OK" /\ x \in RolledBack(o, Rehooked(rehooked), 1)
  BY <1>3, <1>5, <1>7, RolledBackIs
<1>8. CASE o.result = "OK" /\ d \in HooksAccept /\ x = Applied("OK", o, rehooked, d, FALSE, o.cost)
  <2>1. x.result = "OK" /\ x.pipe = o.pipe /\ x.hooks = rehooked /\ x.file = d /\ x.adrift = FALSE /\ x.cost = o.cost
    BY <1>8 DEF Applied
  <2> QED
    BY <1>2, <1>5, <1>8, <2>1 DEF Reached, Answered
<1>9. CASE o.result # "OK" /\ x = Applied(o.result, o, hooks, file, adrift, o.cost)
  <2>1. /\ x.result = o.result /\ x.pipe = o.pipe /\ x.hooks = hooks /\ x.file = file /\ x.adrift = adrift
        /\ x.cost = o.cost
    BY <1>9, AppliedIs
  <2>2. app.pipeline /\ Answered(pipe, d, o)
    BY <1>5, <1>9
  <2>3. o.pipe.initialized => pipe.initialized /\ o.pipe.settings = pipe.settings
    BY <1>9, <2>2 DEF Answered
  <2> QED
    BY <1>5, <1>9, <2>1, <2>2, <2>3 DEF Reached
<1> QED
  BY <1>4, <1>6, <1>7, <1>8, <1>9 DEF HookTakes, Saves

-------------------------------------------------------------------------------
(* The steps of the thread.                                                    *)

Off == adrift \/ ~controller.initialized

LEMMA NowFits ==
    ASSUME LifeInv
    PROVE  /\ Fits(Now, controller.current, Off)
           /\ Now.app = app /\ Now.pipe = pipe /\ Now.recovery = recovery /\ Now.cost = 0 /\ Now.result = "OK"
           /\ Running => Awaited(app, recovery)
           /\ controller.current \in Documented
<1> USE DEF LifeInv, Standing, TypeOK, SettingsHold
<1>1. app \in Applications /\ pipe \in Pipelines /\ recovery \in Schedules
  OBVIOUS
<1>2. Now.app = app /\ Now.pipe = pipe /\ Now.recovery = recovery /\ Now.cost = 0 /\ Now.result = "OK"
  BY StateIs DEF Now
<1>3. Now \in States
  BY <1>1, StateIs DEF Now, Results
<1>4. Fit(app, pipe, recovery, controller.current, Off)
  BY <1>1 DEF Fit, Off, NothingUpWhenDown, SettingsAgree
<1>5. controller.current \in Documented
  BY DEF Controllers, Documented
<1> QED
  BY <1>2, <1>3, <1>4, <1>5 DEF Fits, DownIsScheduled, Awaited

LEMMA BecomeIs ==
    ASSUME LifeInv, NEW outcomes, NEW d, NEW off, Become(outcomes),
           \A t \in outcomes : Fits(t, d, off)
    PROVE  /\ Fit(app', pipe', recovery', d, off)
           /\ failures' \in 0..MaxFailures
<1>1. PICK t \in outcomes : Spend(t.cost) /\ app' = t.app /\ pipe' = t.pipe /\ recovery' = t.recovery
  BY DEF Become
<1>2. Fits(t, d, off) /\ t.cost \in Nat
  BY <1>1 DEF Fits, States
<1>3. failures \in 0..MaxFailures
  BY DEF LifeInv, Standing, TypeOK
<1> QED
  BY <1>1, <1>2, <1>3, LifecycleAssumption DEF Fits, Spend

(* The human's part: whether the key is held, what the hook remembers. *)
HumanKeeps ==
    /\ hooks' \in Hooks /\ hooks'.bindings = hooks.bindings
    /\ locked' \in BOOLEAN /\ held' \in BOOLEAN
    /\ PressRemembered'

(* A step that leaves settings alone. *)
LEMMA SettingsStay ==
    ASSUME LifeInv, app.phase # "starting", UNCHANGED <<controller, file, adrift, launches>>, HumanKeeps,
           Fit(app', pipe', recovery', controller.current, Off), failures' \in 0..MaxFailures,
           app'.phase = app.phase, Running => Awaited(app', recovery')
    PROVE  LifeInv'
<1> USE DEF LifeInv, Standing, SettingsHold, HumanKeeps
<1>1. TypeOK'
  <2>1. fired' \in Nat
    BY DEF PressRemembered
  <2> QED
    BY <2>1 DEF TypeOK, Fit
<1>2. NothingUpWhenDown'
  BY DEF NothingUpWhenDown, Fit
<1>3. DownIsScheduled'
  BY DEF DownIsScheduled, Awaited, Running
<1>4. SettingsAgree'
  <2> SUFFICES ASSUME controller.initialized
               PROVE  /\ hooks'.bindings = controller.current
                      /\ file \in {controller.current, NoDocument}
                      /\ file = NoDocument => controller.current = DefaultDocument
                      /\ app'.pipeline /\ pipe'.initialized /\ ~adrift => pipe'.settings = controller.current
    BY DEF SettingsAgree
  <2> QED
    BY DEF SettingsAgree, Fit, Off
<1>5. SavedStarts'
  BY DEF SavedStarts, Loaded
<1>6. StartsFresh'
  BY DEF StartsFresh
<1>7. Decided'
  BY DEF Decided
<1> QED
  BY <1>1, <1>2, <1>3, <1>4, <1>5, <1>6, <1>7

(* A step that is calls of the application. *)
LEMMA CallKeeps ==
    ASSUME LifeInv, Running, NEW outcomes, Become(outcomes),
           \A t \in outcomes : Served(Now, t, controller.current, Off),
           UNCHANGED <<controller, file, adrift, launches>>, HumanKeeps
    PROVE  LifeInv' /\ AsksNothing(pipe, pipe')
<1>1. PICK t \in outcomes : app' = t.app /\ pipe' = t.pipe /\ recovery' = t.recovery
  BY DEF Become
<1>2. Served(Now, t, controller.current, Off)
  BY <1>1
<1>3. Fit(app', pipe', recovery', controller.current, Off) /\ failures' \in 0..MaxFailures
  <2>1. \A u \in outcomes : Fits(u, controller.current, Off)
    BY DEF Served
  <2> QED
    BY <2>1, BecomeIs
<1>4. app'.phase = app.phase /\ Awaited(app', recovery') /\ AsksNothing(pipe, pipe')
  BY <1>1, <1>2, NowFits DEF Served, Follows
<1> QED
  BY <1>3, <1>4, SettingsStay DEF Running

(* A step that changes the human's part alone. *)
LEMMA HumanAlone ==
    ASSUME LifeInv, Running, UNCHANGED <<app, pipe, recovery, controller, file, adrift, launches, failures>>, HumanKeeps
    PROVE  LifeInv' /\ AsksNothing(pipe, pipe')
<1>1. Fit(app', pipe', recovery', controller.current, Off) /\ Awaited(app', recovery')
  BY NowFits DEF Fits
<1>2. failures' \in 0..MaxFailures
  BY DEF LifeInv, Standing, TypeOK
<1>3. LifeInv'
  BY <1>1, <1>2, SettingsStay DEF Running
<1> QED
  BY <1>3 DEF AsksNothing

LEMMA InitInv == Init => LifeInv
<1> SUFFICES ASSUME Init PROVE LifeInv
  OBVIOUS
<1> USE DEF Init
<1>1. Fresh \in Applications /\ Down \in Pipelines /\ Closed \in Controllers /\ Unhooked \in Hooks
  BY DEF Fresh, Applications, Down, Pipelines, Sessions, Closed, Controllers, Unhooked, Hooks
<1>2. TypeOK
  <2>1. app \in Applications /\ pipe \in Pipelines /\ recovery \in Schedules
    BY <1>1, SchedulesAre
  <2>2. controller \in Controllers /\ hooks \in Hooks
    BY <1>1
  <2>3. failures \in 0..MaxFailures /\ launches \in 1..MaxLaunches /\ fired \in Nat
    BY LifecycleAssumption
  <2>4. locked \in BOOLEAN /\ held \in BOOLEAN /\ adrift \in BOOLEAN
    OBVIOUS
  <2> QED
    BY <2>1, <2>2, <2>3, <2>4 DEF TypeOK
<1>3. ~controller.initialized /\ ~Running /\ pipe.up = {} /\ ~pipe.initialized /\ app.phase = "starting"
  BY DEF Closed, Fresh, Running, Down
<1> QED
  BY <1>2, <1>3, LifecycleAssumption, DocumentsAssumption
  DEF LifeInv, Standing, SettingsHold, NothingUpWhenDown, DownIsScheduled, SettingsAgree, SavedStarts, Loaded,
      StartsFresh, Decided, PressRemembered

(* The human's part is left alone. *)
LEMMA HumanStays ==
    ASSUME LifeInv, UNCHANGED <<hooks, locked, held, fired>>, app'.phase = app.phase
    PROVE  HumanKeeps
BY DEF LifeInv, Standing, TypeOK, HumanKeeps, PressRemembered, Running

LEMMA HumanLocks ==
    ASSUME LifeInv, UNCHANGED <<hooks, held, fired>>, locked' \in BOOLEAN, app'.phase = app.phase
    PROVE  HumanKeeps
BY DEF LifeInv, Standing, TypeOK, HumanKeeps, PressRemembered, Running

(* The phase a call leaves. *)
LEMMA PhaseStays ==
    ASSUME LifeInv, NEW outcomes, Become(outcomes), NEW d, NEW off, \A t \in outcomes : Served(Now, t, d, off)
    PROVE  app'.phase = app.phase
BY NowFits DEF Become, Served, Follows

LEMMA TimerKeeps == LifeInv /\ Timer => LifeInv' /\ AsksNothing(pipe, pipe')
<1> SUFFICES ASSUME LifeInv, Timer PROVE LifeInv' /\ AsksNothing(pipe, pipe')
  OBVIOUS
<1>1. \A t \in AdvancePipeline(Now, controller.current) : Served(Now, t, controller.current, Off)
  BY NowFits, AdvancePipelineIs
<1>2. Become(AdvancePipeline(Now, controller.current)) /\ Running
      /\ UNCHANGED <<controller, hooks, file, locked, held, fired, launches, adrift>>
  BY DEF Timer, human
<1>3. HumanKeeps
  BY <1>1, <1>2, PhaseStays, HumanStays
<1> QED
  BY <1>1, <1>2, <1>3, CallKeeps

LEMMA TimePassesKeeps == LifeInv /\ TimePasses => LifeInv' /\ AsksNothing(pipe, pipe')
<1> SUFFICES ASSUME LifeInv, TimePasses PROVE LifeInv' /\ AsksNothing(pipe, pipe')
  OBVIOUS
<1>1. Running /\ recovery.pending /\ recovery' = Elapse(recovery)
      /\ recovery \in Schedules /\ recovery.left > 0
      /\ UNCHANGED <<app, pipe, controller, hooks, file, adrift, locked, held, fired, failures, launches>>
  BY DEF TimePasses, settings, human, bounds, LifeInv, Standing, TypeOK
<1>2. recovery' \in Schedules /\ recovery'.pending
  <2>1. 2^MaximumBackoffShift \in Nat
    BY Powers, LifecycleAssumption
  <2>2. recovery.left - 1 \in 0..2^MaximumBackoffShift
    BY <1>1, <2>1 DEF Schedules
  <2> QED
    BY <1>1, <2>2 DEF Elapse, Schedules
<1>3. Fit(app', pipe', recovery', controller.current, Off) /\ Awaited(app', recovery')
  BY <1>1, <1>2, NowFits DEF Fits, Fit, Awaited
<1>4. HumanKeeps /\ failures' \in 0..MaxFailures
  BY <1>1, HumanStays DEF LifeInv, Standing, TypeOK
<1>5. LifeInv'
  BY <1>1, <1>3, <1>4, SettingsStay DEF Running
<1> QED
  BY <1>1, <1>5 DEF AsksNothing

LEMMA LocksKeep == LifeInv /\ (Lock \/ Unlock) => LifeInv' /\ AsksNothing(pipe, pipe')
<1> SUFFICES ASSUME LifeInv, Lock \/ Unlock PROVE LifeInv' /\ AsksNothing(pipe, pipe')
  OBVIOUS
<1>1. PICK value \in BOOLEAN : Become(SetInputAvailable(Now, value))
  BY DEF Lock, Unlock
<1>2. Running /\ locked' \in BOOLEAN /\ UNCHANGED <<controller, hooks, file, held, fired, launches, adrift>>
  BY DEF Lock, Unlock, settings
<1>3. \A t \in SetInputAvailable(Now, value) : Served(Now, t, controller.current, Off)
  BY NowFits, SetInputAvailableIs
<1>4. HumanKeeps
  BY <1>1, <1>2, <1>3, PhaseStays, HumanLocks
<1> QED
  BY <1>1, <1>2, <1>3, <1>4, CallKeeps

LEMMA PowerKeeps ==
    LifeInv /\ (PowerSuspend \/ PowerResume \/ DisplayChange) => LifeInv' /\ AsksNothing(pipe, pipe')
<1> SUFFICES ASSUME LifeInv, PowerSuspend \/ PowerResume \/ DisplayChange
             PROVE  LifeInv' /\ AsksNothing(pipe, pipe')
  OBVIOUS
<1> DEFINE resumed == UNION {RefreshTopology(s) : s \in SetInputAvailable(Now, TRUE)}
<1>1. Running /\ UNCHANGED <<controller, hooks, file, locked, held, fired, launches, adrift>>
  BY DEF PowerSuspend, PowerResume, DisplayChange, settings, human
<1>2. \A t \in SetInputAvailable(Now, FALSE) : Served(Now, t, controller.current, Off)
  BY NowFits, SetInputAvailableIs
<1>3. \A t \in RefreshTopology(Now) : Served(Now, t, controller.current, Off)
  BY NowFits, RefreshTopologyIs
<1>4. ASSUME NEW t \in resumed PROVE Served(Now, t, controller.current, Off)
  <2>1. PICK s \in SetInputAvailable(Now, TRUE) : t \in RefreshTopology(s)
    OBVIOUS
  <2>2. Served(Now, s, controller.current, Off)
    BY NowFits, SetInputAvailableIs
  <2>3. Served(s, t, controller.current, Off)
    BY <2>1, <2>2, RefreshTopologyIs DEF Served
  <2> QED
    BY <2>2, <2>3, ServedOn
<1>5. Become(SetInputAvailable(Now, FALSE)) \/ Become(resumed) \/ Become(RefreshTopology(Now))
  BY DEF PowerSuspend, PowerResume, DisplayChange
<1> HIDE DEF resumed
<1>6. PICK outcomes : Become(outcomes) /\ \A t \in outcomes : Served(Now, t, controller.current, Off)
  BY <1>2, <1>3, <1>4, <1>5
<1>7. HumanKeeps
  BY <1>1, <1>6, PhaseStays, HumanStays
<1> QED
  BY <1>1, <1>6, <1>7, CallKeeps

LEMMA LeaveKeeps == LifeInv /\ (\E restart \in BOOLEAN : Leave(restart)) => LifeInv' /\ AsksNothing(pipe, pipe')
<1> SUFFICES ASSUME LifeInv, NEW restart \in BOOLEAN, Leave(restart)
             PROVE  LifeInv' /\ AsksNothing(pipe, pipe')
  OBVIOUS
<1>1. Running /\ UNCHANGED <<controller, hooks, file, locked, held, fired, launches, adrift>>
      /\ Become(Ending(Now, restart))
  BY DEF Leave, settings, human
<1>2. \A t \in Ending(Now, restart) : Served(Now, t, controller.current, Off)
  BY NowFits, EndingIs
<1>3. HumanKeeps
  BY <1>1, <1>2, PhaseStays, HumanStays
<1> QED
  BY <1>1, <1>2, <1>3, CallKeeps

-------------------------------------------------------------------------------
(* Keys                                                                        *)

LEMMA HooksAre ==
    ASSUME NEW h \in Hooks
    PROVE  /\ SessionTook(h) \in Hooks /\ SessionTook(h).bindings = h.bindings /\ (h.pressed => SessionTook(h).pressed)
           /\ Pressed(h) \in Hooks /\ Pressed(h).bindings = h.bindings /\ Pressed(h).pressed
           /\ Released(h) \in Hooks /\ Released(h).bindings = h.bindings
           /\ \A v \in BOOLEAN : /\ [h EXCEPT !.suspended = v] \in Hooks
                                 /\ [h EXCEPT !.suspended = v].bindings = h.bindings
                                 /\ h.pressed => [h EXCEPT !.suspended = v].pressed
BY DEF Hooks, SessionTook, Pressed, Released

LEMMA SuspendToggleKeeps == LifeInv /\ SuspendToggle => LifeInv' /\ AsksNothing(pipe, pipe')
<1> SUFFICES ASSUME LifeInv, SuspendToggle PROVE LifeInv' /\ AsksNothing(pipe, pipe')
  OBVIOUS
<1>1. PICK s \in Suspend(Now, ~hooks.suspended) :
        /\ Become({s})
        /\ hooks' = [hooks EXCEPT !.suspended = IF s.result = "OK" THEN ~@ ELSE @]
  BY DEF SuspendToggle
<1>2. Running /\ UNCHANGED <<controller, file, locked, held, fired, launches, adrift>>
  BY DEF SuspendToggle, settings, human
<1>3. \A t \in {s} : Served(Now, t, controller.current, Off)
  <2>1. s = Now \/ s \in Neutralize(Now)
    BY <1>1 DEF Suspend
  <2>2. Served(Now, s, controller.current, Off)
    BY <2>1, NowFits, NeutralizeServes, ServedItself
  <2> QED
    BY <2>2
<1>4. hooks \in Hooks
  BY DEF LifeInv, Standing, TypeOK
<1>5. PICK v \in BOOLEAN : hooks' = [hooks EXCEPT !.suspended = v]
  BY <1>1, <1>4 DEF Hooks
<1>6. app'.phase = app.phase
  BY <1>1, <1>3, PhaseStays
<1>7. HumanKeeps
  BY <1>2, <1>4, <1>5, <1>6, HooksAre DEF LifeInv, Standing, TypeOK, HumanKeeps, PressRemembered, Running
<1> QED
  BY <1>1, <1>2, <1>3, <1>7, CallKeeps

LEMMA PassingKeysKeep == LifeInv /\ (PhysicalInput \/ KeyPasses) => LifeInv' /\ AsksNothing(pipe, pipe')
<1> SUFFICES ASSUME LifeInv, PhysicalInput \/ KeyPasses PROVE LifeInv' /\ AsksNothing(pipe, pipe')
  OBVIOUS
<1>1. /\ Running /\ Become(Neutralize(Now)) /\ held' \in BOOLEAN
      /\ UNCHANGED <<controller, hooks, file, locked, fired, launches, adrift>>
  BY DEF PhysicalInput, KeyPasses, KeyDown, settings, human, LifeInv, Standing, TypeOK
<1>2. \A t \in Neutralize(Now) : Served(Now, t, controller.current, Off)
  BY NowFits, NeutralizeServes
<1>3. app'.phase = app.phase
  BY <1>1, <1>2, PhaseStays
<1>4. HumanKeeps
  BY <1>1, <1>3 DEF LifeInv, Standing, TypeOK, HumanKeeps, PressRemembered, Running
<1> QED
  BY <1>1, <1>2, <1>4, CallKeeps

LEMMA IdleKeysKeep == LifeInv /\ (KeySwallowed \/ KeyRepeats \/ KeyUp) => LifeInv' /\ AsksNothing(pipe, pipe')
<1> SUFFICES ASSUME LifeInv, KeySwallowed \/ KeyRepeats \/ KeyUp PROVE LifeInv' /\ AsksNothing(pipe, pipe')
  OBVIOUS
<1>1. /\ Running
      /\ UNCHANGED <<app, pipe, recovery, controller, file, adrift, locked, failures, launches>>
      /\ held' \in BOOLEAN
      /\ \/ hooks' = hooks /\ fired' = fired
         \/ hooks' = Released(hooks) /\ fired' = 0
  BY DEF KeySwallowed, KeyRepeats, KeyUp, KeyDown, system, settings, bounds
<1>2. hooks \in Hooks /\ locked \in BOOLEAN
  BY DEF LifeInv, Standing, TypeOK
<1>3. HumanKeeps
  <2>1. PressRemembered'
    <3>1. CASE hooks' = hooks /\ fired' = fired
      BY <1>1, <3>1 DEF LifeInv, PressRemembered, Running
    <3>2. CASE fired' = 0
      BY <3>2 DEF PressRemembered
    <3> QED
      BY <1>1, <3>1, <3>2
  <2>2. hooks' \in Hooks /\ hooks'.bindings = hooks.bindings
    BY <1>1, <1>2, HooksAre
  <2> QED
    BY <1>1, <1>2, <2>1, <2>2 DEF HumanKeeps
<1> QED
  BY <1>1, <1>3, HumanAlone

LEMMA KeyToSessionKeeps == LifeInv /\ KeyToSession => LifeInv' /\ AsksNothing(pipe, pipe')
<1> SUFFICES ASSUME LifeInv, KeyToSession PROVE LifeInv' /\ AsksNothing(pipe, pipe')
  OBVIOUS
<1>1. PICK next \in {"active", "idle"} : pipe' = [pipe EXCEPT !.session = next]
  BY DEF KeyToSession
<1>2. /\ Running /\ app.pipeline /\ hooks' = SessionTook(hooks) /\ held' \in BOOLEAN
      /\ UNCHANGED <<app, recovery, controller, file, adrift, locked, fired, failures, launches>>
  BY DEF KeyToSession, KeyDown, SessionReads, settings, bounds
<1>3. /\ hooks \in Hooks /\ locked \in BOOLEAN /\ failures \in 0..MaxFailures /\ pipe \in Pipelines
      /\ controller \in Controllers
  BY DEF LifeInv, Standing, TypeOK
<1>4. pipe' \in Pipelines /\ pipe'.settings = pipe.settings /\ (pipe'.initialized => pipe.initialized)
      /\ pipe'.session # "asked"
  BY <1>1, <1>3 DEF Pipelines, Sessions
<1>5. Fit(app', pipe', recovery', controller.current, Off) /\ Awaited(app', recovery')
  BY <1>2, <1>4, NowFits DEF Fits, Fit, Awaited
<1>6. HumanKeeps
  <2>1. PressRemembered'
    BY <1>2, <1>3, HooksAre DEF LifeInv, PressRemembered, Running
  <2> QED
    BY <1>2, <1>3, <2>1, HooksAre DEF HumanKeeps
<1>7. LifeInv'
  BY <1>2, <1>3, <1>5, <1>6, SettingsStay DEF Running
<1> QED
  BY <1>4, <1>7 DEF AsksNothing

LEMMA ActivateKeeps == LifeInv /\ Activate => LifeInv' /\ (locked => AsksNothing(pipe, pipe'))
<1> SUFFICES ASSUME LifeInv, Activate PROVE LifeInv' /\ (locked => AsksNothing(pipe, pipe'))
  OBVIOUS
<1>1. /\ Running /\ ~hooks.pressed /\ hooks' = Pressed(hooks) /\ fired' = fired + 1 /\ held' \in BOOLEAN
      /\ Become(DispatchCommand(Now, hooks.suspended))
      /\ UNCHANGED <<controller, file, adrift, locked, launches>>
  BY DEF Activate, KeyDown, Repeats, settings
<1>2. hooks \in Hooks /\ locked \in BOOLEAN
  BY DEF LifeInv, Standing, TypeOK
<1>3. \A t \in DispatchCommand(Now, hooks.suspended) :
        /\ Fits(t, controller.current, Off)
        /\ t.app = Now.app /\ t.recovery = Now.recovery
        /\ locked => AsksNothing(Now.pipe, t.pipe)
  BY <1>2, NowFits, DispatchCommandIs
<1>4. app' = app /\ recovery' = recovery /\ (locked => AsksNothing(pipe, pipe'))
  BY <1>1, <1>3, NowFits DEF Become
<1>5. Fit(app', pipe', recovery', controller.current, Off) /\ failures' \in 0..MaxFailures
  BY <1>1, <1>3, BecomeIs
<1>6. fired' = 1
  BY <1>1 DEF LifeInv, PressRemembered
<1>7. HumanKeeps
  BY <1>1, <1>2, <1>6, HooksAre DEF HumanKeeps, PressRemembered
<1>8. LifeInv'
  BY <1>1, <1>4, <1>5, <1>7, NowFits, SettingsStay DEF Running
<1> QED
  BY <1>4, <1>8

-------------------------------------------------------------------------------
(* The settings window                                                         *)

(* What is staged changes, what is current does not. *)
LEMMA EditKeeps ==
    ASSUME LifeInv, Running, controller.initialized,
           UNCHANGED <<app, pipe, recovery, hooks, file, adrift, locked, held, fired, failures, launches>>,
           controller' \in Controllers, controller'.initialized, controller'.current = controller.current,
           controller'.staged \in Documents
    PROVE  LifeInv' /\ AsksNothing(pipe, pipe')
<1> USE DEF LifeInv, Standing, SettingsHold
<1>1. TypeOK'
  BY DEF TypeOK
<1>2. NothingUpWhenDown' /\ DownIsScheduled'
  BY DEF NothingUpWhenDown, DownIsScheduled, Running
<1>3. SettingsAgree'
  BY DEF SettingsAgree
<1>4. SavedStarts' /\ Decided'
  BY DEF SavedStarts, Loaded, Decided
<1>5. StartsFresh' /\ PressRemembered'
  BY DEF StartsFresh, PressRemembered, Running
<1> QED
  BY <1>1, <1>2, <1>3, <1>4, <1>5 DEF AsksNothing

LEMMA CopiesAre ==
    ASSUME NEW c \in Controllers, c.initialized, c.current \in Documents, c.staged \in Documents, NEW d \in Documents
    PROVE  /\ BeginEdit(c) \in Controllers /\ BeginEdit(c).initialized
           /\ BeginEdit(c).current = c.current /\ BeginEdit(c).staged = c.current
           /\ Stage(c, d) \in Controllers /\ Stage(c, d).initialized
           /\ Stage(c, d).current = c.current /\ Stage(c, d).staged = d
           /\ Cancel(c) \in Controllers /\ Cancel(c).initialized
           /\ Cancel(c).current = c.current /\ Cancel(c).staged = c.current
           /\ Commit(c) \in Controllers /\ Commit(c).initialized
           /\ Commit(c).current = c.staged /\ Commit(c).staged = c.staged
BY DEF Controllers, BeginEdit, Stage, Cancel, Commit

LEMMA WindowKeeps ==
    LifeInv /\ (OpenSettings \/ CancelSettings \/ \E document \in Documents : ModifyBinding(document))
      => LifeInv' /\ AsksNothing(pipe, pipe')
<1> SUFFICES ASSUME LifeInv, OpenSettings \/ CancelSettings \/ \E document \in Documents : ModifyBinding(document)
             PROVE  LifeInv' /\ AsksNothing(pipe, pipe')
  OBVIOUS
<1>1. /\ Running /\ controller.initialized
      /\ UNCHANGED <<app, pipe, recovery, hooks, file, adrift, locked, held, fired, failures, launches>>
      /\ \/ controller' = BeginEdit(controller) \/ controller' = Cancel(controller)
         \/ \E document \in Documents : controller' = Stage(controller, document)
  BY DEF OpenSettings, CancelSettings, ModifyBinding, CanEdit, CanStage, system, human, bounds
<1>2. controller \in Controllers /\ controller.current \in Documents /\ controller.staged \in Documents
  BY <1>1, LifecycleAssumption DEF LifeInv, Standing, TypeOK, Decided
<1>3. /\ controller' \in Controllers /\ controller'.initialized
      /\ controller'.current = controller.current /\ controller'.staged \in Documents
  BY <1>1, <1>2, CopiesAre
<1> QED
  BY <1>1, <1>3, EditKeeps

LEMMA CommitKeeps ==
    ASSUME LifeInv, Running, NEW c \in Controllers, c.initialized, c.current = controller.current,
           controller.initialized, c.staged \in Documents, CommitFrom(c)
    PROVE  LifeInv' /\ AsksNothing(pipe, pipe')
<1>1. PICK x \in ApplySettings(c.staged) :
        /\ Spend(x.cost)
        /\ pipe' = x.pipe /\ hooks' = x.hooks /\ file' = x.file /\ adrift' = x.adrift
        /\ controller' = IF x.result = "OK" THEN Commit(c) ELSE c
        /\ fired' = IF x.hooks # hooks THEN 0 ELSE fired
  BY DEF CommitFrom
<1>2. UNCHANGED <<app, recovery, locked, held, launches>>
  BY DEF CommitFrom
<1>3. /\ app \in Applications /\ pipe \in Pipelines /\ hooks \in Hooks /\ adrift \in BOOLEAN
      /\ failures \in 0..MaxFailures
  BY DEF LifeInv, Standing, TypeOK
<1>4. /\ controller.current \in HooksAccept /\ controller.current \in Documents
      /\ hooks.bindings = controller.current
      /\ app.pipeline /\ pipe.initialized /\ ~adrift => pipe.settings = controller.current
      /\ file \in {controller.current, NoDocument}
      /\ file = NoDocument => controller.current = DefaultDocument
  BY LifecycleAssumption DEF LifeInv, SettingsHold, SettingsAgree, Decided
<1>5. Reached(c.staged, x)
  BY <1>3, <1>4, ApplySettingsIs
<1>6. /\ controller' \in Controllers /\ controller'.initialized
      /\ controller'.current = IF x.result = "OK" THEN c.staged ELSE controller.current
      /\ controller'.staged = c.staged
  BY <1>1, <1>4, CopiesAre
<1>7. /\ x.pipe \in Pipelines /\ x.hooks \in Hooks /\ x.adrift \in BOOLEAN /\ x.cost \in Nat
      /\ AsksNothing(pipe, x.pipe)
      /\ ~app.pipeline => x.pipe = pipe
  BY <1>5 DEF Reached
<1>8. /\ controller'.current \in HooksAccept
      /\ x.hooks.bindings = controller'.current
      /\ app.pipeline /\ x.pipe.initialized /\ ~x.adrift => x.pipe.settings = controller'.current
      /\ x.file \in {controller'.current, NoDocument}
      /\ x.file = NoDocument => controller'.current = DefaultDocument
  <2>1. CASE x.result = "OK"
    <3>1. /\ x.hooks.bindings = c.staged /\ x.file = c.staged /\ c.staged \in HooksAccept
          /\ app.pipeline /\ x.pipe.initialized => x.pipe.settings = c.staged
      BY <1>5, <2>1 DEF Reached
    <3> QED
      BY <1>6, <2>1, <3>1, DocumentsAssumption
  <2>2. CASE x.result # "OK"
    <3>1. /\ x.hooks.bindings = controller.current /\ x.file = file
          /\ app.pipeline /\ x.pipe.initialized /\ ~x.adrift => x.pipe.settings = controller.current
      BY <1>5, <2>2 DEF Reached
    <3> QED
      BY <1>4, <1>6, <2>2, <3>1
  <2> QED
    BY <2>1, <2>2
<1>9. failures' \in 0..MaxFailures
  BY <1>1, <1>3, <1>7, LifecycleAssumption DEF Spend
<1>10. PressRemembered'
  BY <1>1, <1>2 DEF LifeInv, PressRemembered, Running
<1>11. TypeOK'
  <2>1. file' \in Documents \cup {NoDocument, Foreign}
    BY <1>1, <1>8, LifecycleAssumption
  <2>2. fired' \in Nat
    BY <1>10 DEF PressRemembered
  <2> QED
    BY <1>1, <1>2, <1>6, <1>7, <1>9, <2>1, <2>2 DEF LifeInv, Standing, TypeOK
<1>12. NothingUpWhenDown' /\ DownIsScheduled'
  BY <1>1, <1>2, <1>7 DEF LifeInv, Standing, NothingUpWhenDown, DownIsScheduled, Running
<1>13. SettingsAgree'
  BY <1>1, <1>2, <1>8 DEF SettingsAgree
<1>14. Decided' /\ SavedStarts'
  <2>1. Decided'
    BY <1>1, <1>6, <1>8 DEF Decided
  <2> QED
    BY <2>1, LifecycleAssumption DEF Decided, SavedStarts, Loaded
<1>15. StartsFresh'
  BY <1>2 DEF StartsFresh, Running
<1> QED
  BY <1>1, <1>7, <1>10, <1>11, <1>12, <1>13, <1>14, <1>15 DEF LifeInv, Standing, SettingsHold

LEMMA CommitsKeep ==
    LifeInv /\ (BindingsDone \/ \E document \in Documents : ApplyView(document))
      => LifeInv' /\ AsksNothing(pipe, pipe')
<1> SUFFICES ASSUME LifeInv, BindingsDone \/ \E document \in Documents : ApplyView(document)
             PROVE  LifeInv' /\ AsksNothing(pipe, pipe')
  OBVIOUS
<1>1. /\ Running /\ controller.initialized
      /\ CommitFrom(controller) \/ \E document \in Documents : CommitFrom(Stage(controller, document))
  BY DEF BindingsDone, ApplyView, CanStage
<1>2. controller \in Controllers /\ controller.current \in Documents /\ controller.staged \in Documents
  BY <1>1, LifecycleAssumption DEF LifeInv, Standing, TypeOK, Decided
<1>3. CASE CommitFrom(controller)
  BY <1>1, <1>2, <1>3, CommitKeeps
<1>4. ASSUME NEW document \in Documents, CommitFrom(Stage(controller, document))
      PROVE  LifeInv' /\ AsksNothing(pipe, pipe')
  BY <1>1, <1>2, <1>4, CopiesAre, CommitKeeps
<1> QED
  BY <1>1, <1>3, <1>4

-------------------------------------------------------------------------------
(* Processes                                                                   *)

LEMMA LaunchKeeps == LifeInv /\ Launch => LifeInv' /\ AsksNothing(pipe, pipe')
<1> SUFFICES ASSUME LifeInv, Launch PROVE LifeInv' /\ AsksNothing(pipe, pipe')
  OBVIOUS
<1>1. /\ app.phase = "starting" /\ app = Fresh /\ pipe = Down /\ recovery = Complete /\ fired = 0
      /\ UNCHANGED <<file, locked, held, fired, launches, adrift>>
  BY DEF Launch, human, LifeInv, StartsFresh
<1>2. /\ app \in Applications /\ controller \in Controllers /\ hooks \in Hooks
      /\ file \in Documents \cup {NoDocument, Foreign}
  BY DEF LifeInv, Standing, TypeOK
<1>3. PressRemembered'
  BY <1>1 DEF PressRemembered
<1>4. CASE Loaded \notin HooksAccept
  <2>1. app' = [app EXCEPT !.phase = "ended"] /\ UNCHANGED <<pipe, recovery, controller, hooks, failures>>
    BY <1>4 DEF Launch
  <2>2. app' \in Applications /\ app'.phase = "ended" /\ ~app'.pipeline
    BY <1>1, <1>2, <2>1 DEF Applications, Fresh
  <2>3. TypeOK'
    BY <1>1, <2>1, <2>2 DEF LifeInv, Standing, TypeOK
  <2>4. NothingUpWhenDown' /\ DownIsScheduled'
    BY <1>1, <2>1, <2>2 DEF NothingUpWhenDown, DownIsScheduled, Running, Down
  <2>5. SettingsAgree'
    BY <1>1, <2>1, <2>2 DEF LifeInv, SettingsHold, SettingsAgree
  <2>6. SavedStarts' /\ Decided'
    BY <1>1, <2>1 DEF LifeInv, SettingsHold, SavedStarts, Loaded, Decided
  <2>7. StartsFresh'
    BY <2>2 DEF StartsFresh
  <2> QED
    BY <1>3, <2>1, <2>3, <2>4, <2>5, <2>6, <2>7 DEF LifeInv, Standing, SettingsHold, AsksNothing
<1>5. CASE Loaded \in HooksAccept
  <2> DEFINE outcomes == {Started(t) : t \in InitializePipeline(Now, Loaded)}
  <2>1. Become(outcomes) /\ hooks' = Replace(hooks, Loaded) /\ controller' = Opened(Loaded)
    BY <1>5 DEF Launch
  <2>2. Loaded \in Documents /\ Loaded \in Documented /\ Loaded # NoDocument
    BY <1>5, LifecycleAssumption, DocumentsAssumption DEF Documented
  <2>3. Fits(Now, Loaded, FALSE)
    <3>1. Now \in States /\ Now.app = app /\ Now.pipe = pipe /\ Now.recovery = recovery
      BY NowFits DEF Fits
    <3>2. ~app.pipeline /\ pipe.up = {} /\ ~pipe.initialized
      BY <1>1 DEF Fresh, Down
    <3> QED
      BY <3>1, <3>2 DEF Fits, Fit, States
  <2>4. ASSUME NEW t \in outcomes
        PROVE  /\ Fits(t, Loaded, FALSE)
               /\ t.app.phase = "running" /\ Awaited(t.app, t.recovery)
               /\ AsksNothing(pipe, t.pipe)
    <3>1. PICK u \in InitializePipeline(Now, Loaded) : t = Started(u)
      OBVIOUS
    <3>2. /\ Fits(u, Loaded, FALSE)
          /\ Follows(Now, u)
          /\ u.result \in {"OK", "BACKEND", "REFUSED", "STATE"}
          /\ u.result = "OK" => u.app.pipeline
      BY <2>2, <2>3, InitializePipelineIs
    <3>3. Fits(t, Loaded, FALSE) /\ t.app.phase = "running" /\ Awaited(t.app, t.recovery) /\ t.pipe = u.pipe
      BY <3>1, <3>2, StartedIs
    <3> QED
      BY <3>2, <3>3, NowFits DEF Follows
  <2> HIDE DEF outcomes
  <2>5. Fit(app', pipe', recovery', Loaded, FALSE) /\ failures' \in 0..MaxFailures
    BY <2>1, <2>4, BecomeIs
  <2>6. app'.phase = "running" /\ Awaited(app', recovery') /\ AsksNothing(pipe, pipe')
    BY <2>1, <2>4 DEF Become
  <2>7. hooks' \in Hooks /\ hooks'.bindings = Loaded
    BY <1>2, <2>1, <2>2, ReplaceIs
  <2>8. /\ controller' \in Controllers /\ controller'.initialized
        /\ controller'.current = Loaded /\ controller'.staged = Loaded
    BY <2>1, <2>2 DEF Opened, Controllers
  <2>9. TypeOK'
    BY <1>1, <2>5, <2>7, <2>8 DEF LifeInv, Standing, TypeOK, Fit
  <2>10. NothingUpWhenDown' /\ DownIsScheduled'
    BY <2>5, <2>6 DEF NothingUpWhenDown, DownIsScheduled, Running, Fit, Awaited
  <2>11. file \in {Loaded, NoDocument} /\ (file = NoDocument => Loaded = DefaultDocument)
    BY <2>2 DEF Loaded
  <2>12. SettingsAgree'
    BY <1>1, <2>5, <2>7, <2>8, <2>11 DEF SettingsAgree, Fit
  <2>13. SavedStarts' /\ Decided'
    BY <1>1, <1>5, <2>2, <2>8 DEF LifeInv, SettingsHold, SavedStarts, Loaded, Decided
  <2>14. StartsFresh'
    BY <2>6 DEF StartsFresh
  <2> QED
    BY <1>3, <2>6, <2>9, <2>10, <2>12, <2>13, <2>14 DEF LifeInv, Standing, SettingsHold
<1> QED
  BY <1>4, <1>5

LEMMA ShutdownKeeps ==
    ASSUME LifeInv, NEW next \in {"closed", "ended"}, Shutdown(next)
    PROVE  LifeInv' /\ AsksNothing(pipe, pipe')
<1>1. PICK s \in ShutdownPipeline([Now EXCEPT !.recovery = Complete]) : Become({[s EXCEPT !.app.phase = next]})
  BY DEF Shutdown
<1>2. hooks' = Unhooked /\ controller' = Closed /\ UNCHANGED <<file, locked, held, fired, launches, adrift>>
  BY DEF Shutdown, human
<1> DEFINE n == [Now EXCEPT !.recovery = Complete]
           t == [s EXCEPT !.app.phase = next]
<1>3. Fits(n, controller.current, Off) /\ n.pipe = pipe
  <2>1. Now \in States /\ Fit(Now.app, Now.pipe, Now.recovery, controller.current, Off)
    BY NowFits DEF Fits
  <2>2. n \in States /\ n.app = Now.app /\ n.pipe = Now.pipe /\ n.recovery = Complete
    BY <2>1, SchedulesAre DEF States
  <2> QED
    BY <2>1, <2>2, NowFits, SchedulesAre DEF Fits, Fit
<1> HIDE DEF n
<1>4. Fits(s, controller.current, Off) /\ AsksNothing(pipe, s.pipe)
  <2>1. s \in ShutdownPipeline(n)
    BY <1>1 DEF n
  <2> QED
    BY <1>3, <2>1, ShutdownPipelineIs DEF Follows
<1>5. Fits(t, controller.current, Off) /\ t.app.phase = next /\ t.pipe = s.pipe
  <2> DEFINE a == [s.app EXCEPT !.phase = next]
  <2>1. s \in States /\ s.app \in Applications
    BY <1>4 DEF Fits, States
  <2>2. /\ a \in Applications /\ a.phase = next
        /\ a.pipeline = s.app.pipeline /\ a.cleanup = s.app.cleanup
    BY <2>1 DEF Applications
  <2>3. t = [s EXCEPT !.app = a]
    BY <2>1 DEF States
  <2> HIDE DEF a, t
  <2>4. t \in States /\ t.app = a /\ t.pipe = s.pipe /\ t.recovery = s.recovery
    BY <2>1, <2>2, <2>3 DEF States
  <2> QED
    BY <1>4, <2>2, <2>4 DEF Fits, Fit
<1> HIDE DEF t
<1>6. Become({t})
  BY <1>1 DEF t
<1>7. Fit(app', pipe', recovery', controller.current, Off) /\ failures' \in 0..MaxFailures
  BY <1>5, <1>6, BecomeIs
<1>8. app'.phase = next /\ AsksNothing(pipe, pipe')
  BY <1>4, <1>5, <1>6 DEF Become
<1>9. hooks' \in Hooks /\ controller' \in Controllers /\ ~controller'.initialized
  BY <1>2 DEF Unhooked, Hooks, Closed, Controllers
<1>10. TypeOK'
  BY <1>2, <1>7, <1>9 DEF LifeInv, Standing, TypeOK, Fit
<1>11. NothingUpWhenDown' /\ DownIsScheduled'
  BY <1>7, <1>8 DEF NothingUpWhenDown, DownIsScheduled, Running, Fit
<1>12. SettingsAgree' /\ StartsFresh'
  BY <1>8, <1>9 DEF SettingsAgree, StartsFresh
<1>13. SavedStarts' /\ Decided' /\ PressRemembered'
  BY <1>2, <1>8, <1>9 DEF LifeInv, SettingsHold, SavedStarts, Loaded, Decided, PressRemembered, Running
<1> QED
  BY <1>8, <1>10, <1>11, <1>12, <1>13 DEF LifeInv, Standing, SettingsHold

LEMMA NewProcessKeeps == LifeInv /\ NewProcess => LifeInv' /\ AsksNothing(pipe, pipe')
<1> SUFFICES ASSUME LifeInv, NewProcess PROVE LifeInv' /\ AsksNothing(pipe, pipe')
  OBVIOUS
<1>1. /\ app' = Fresh /\ pipe' = Down /\ recovery' = Complete
      /\ controller' = Closed /\ hooks' = Unhooked /\ adrift' = FALSE /\ fired' = 0
      /\ launches < MaxLaunches /\ launches' = launches + 1
      /\ UNCHANGED <<file, locked, held, failures>>
  BY DEF NewProcess
<1>2. Fresh \in Applications /\ Down \in Pipelines /\ Closed \in Controllers /\ Unhooked \in Hooks
  BY DEF Fresh, Applications, Down, Pipelines, Sessions, Closed, Controllers, Unhooked, Hooks
<1>3. /\ launches \in 1..MaxLaunches /\ locked \in BOOLEAN /\ held \in BOOLEAN /\ failures \in 0..MaxFailures
      /\ file \in Documents \cup {NoDocument, Foreign}
  BY DEF LifeInv, Standing, TypeOK
<1>4. TypeOK'
  <2>1. launches' \in 1..MaxLaunches /\ fired' \in Nat /\ adrift' \in BOOLEAN
    <3>1. launches' \in 1..MaxLaunches
      BY <1>1, <1>3, LifecycleAssumption
    <3> QED
      BY <1>1, <3>1
  <2> QED
    BY <1>1, <1>2, <1>3, <2>1, SchedulesAre DEF TypeOK
<1>5. NothingUpWhenDown' /\ DownIsScheduled' /\ SettingsAgree'
  BY <1>1 DEF NothingUpWhenDown, DownIsScheduled, SettingsAgree, Fresh, Down, Closed, Running
<1>6. SavedStarts' /\ Decided'
  BY <1>1 DEF LifeInv, SettingsHold, SavedStarts, Loaded, Decided, Closed
<1>7. StartsFresh' /\ PressRemembered'
  BY <1>1 DEF StartsFresh, PressRemembered
<1>8. AsksNothing(pipe, pipe')
  BY <1>1 DEF AsksNothing, Down
<1> QED
  BY <1>4, <1>5, <1>6, <1>7, <1>8 DEF LifeInv, Standing, SettingsHold

-------------------------------------------------------------------------------
(* Every step                                                                  *)

LEMMA NextInv == LifeInv /\ [Next]_vars => LifeInv' /\ (locked => AsksNothing(pipe, pipe'))
<1> SUFFICES ASSUME LifeInv, [Next]_vars PROVE LifeInv' /\ (locked => AsksNothing(pipe, pipe'))
  OBVIOUS
<1>1. CASE Human
  BY <1>1, WindowKeeps, CommitsKeep, SuspendToggleKeeps, PassingKeysKeep, IdleKeysKeep, KeyToSessionKeeps,
     ActivateKeeps, LeaveKeeps DEF Human
<1>2. CASE Machine
  BY <1>2, LocksKeep, PowerKeeps, NewProcessKeeps DEF Machine, Killed
<1>3. CASE Thread
  BY <1>3, LaunchKeeps, TimerKeeps, TimePassesKeeps, ShutdownKeeps, NewProcessKeeps
  DEF Thread, Destroy, Return, Replacement
<1>4. CASE UNCHANGED vars
  BY <1>4 DEF vars, LifeInv, Standing, TypeOK, NothingUpWhenDown, DownIsScheduled, Running, SettingsHold,
     SettingsAgree, SavedStarts, Loaded, StartsFresh, Decided, PressRemembered, AsksNothing
<1> QED
  BY <1>1, <1>2, <1>3, <1>4 DEF Next

LEMMA Invariance == Spec => []LifeInv
<1>1. LifeInv /\ [Next]_vars => LifeInv'
  BY NextInv
<1> QED
  BY InitInv, <1>1, PTL DEF Spec

(* Nothing native but the capture provider outlives what the application calls
   its pipeline, whatever a build or a shutdown left half-way, and a pipeline
   that is gone is scheduled, or the process is being replaced. *)
THEOREM StandsOrComes == Spec => []Standing
<1>1. LifeInv => Standing
  BY DEF LifeInv
<1> QED
  BY Invariance, <1>1, PTL

(* The controller, the hook, the file and the pipeline hold one document after
   every edit, refusal and failed restart, and what is saved can be started. *)
THEOREM SettingsAreOne == Spec => []SettingsHold
<1>1. LifeInv => SettingsHold
  BY DEF LifeInv
<1> QED
  BY Invariance, <1>1, PTL

(* A key that is held dispatches its command once. *)
THEOREM PressesAreSingle == Spec => []OncePerPress
<1>1. LifeInv => OncePerPress
  BY DEF LifeInv, PressRemembered, OncePerPress
<1> QED
  BY Invariance, <1>1, PTL

(* No command of the human opens a session on a desktop that is not theirs. *)
THEOREM LockedIsInert == Spec => LockedStartsNothing
<1>1. LifeInv /\ [Next]_vars => [pipe.session = "idle" /\ pipe'.session = "asked" => ~locked]_vars
  <2> SUFFICES ASSUME LifeInv, [Next]_vars
               PROVE  pipe.session = "idle" /\ pipe'.session = "asked" => ~locked
    OBVIOUS
  <2>1. locked => AsksNothing(pipe, pipe')
    BY NextInv
  <2> QED
    BY <2>1 DEF AsksNothing
<1> QED
  BY Invariance, <1>1, PTL DEF Spec, LockedStartsNothing
================================================================================
