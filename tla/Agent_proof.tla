------------------------------ MODULE Agent_proof ------------------------------
(* Safety of the agent channel for any batches, windows and capabilities.  What *)
(* is held follows the connection (Line).  What the client is told needs more:  *)
(* which answer belongs to which request (Asked), and what the loop over a      *)
(* batch has recorded of what the executor did (Progress, Reported).            *)
EXTENDS Agent, TLAPS, FiniteSetTheorems

Results == {"OK", "INVALID_MESSAGE", "STALE_GENERATION", "TARGET_NOT_FOUND", "PERMISSION_DENIED",
            "TIMEOUT", "ACTION_UNSUPPORTED", "BACKEND", "CAPABILITY_DENIED"}
Views == [epoch : Nat, focus : Windows \cup {Secure, "none"}, permission : Nat]

Hellos == [kind : {"hello"}, asks : SUBSET Capabilities]
Observes == [kind : {"observe"}, request : Nat, after : Nat]
Sends == [kind : {"batch"}, request : Nat, batch : Batches, seen : Views]
Garbage == [kind : {"garbage"}] \cup [kind : {"garbage"}, request : Nat]
Requests == Hellos \cup Observes \cup Sends \cup Garbage

Greetings == [kind : {"hello"}, granted : SUBSET Allowed, result : Results]
Observed == [kind : {"observed"}, request : Nat, result : Results, validated : Nat, view : Views]
Acted == [kind : {"acted"}, request : Nat, result : Results, validated : Nat,
          completed : Nat, failed : Nat, next : Nat]
Responses == Greetings \cup Observed \cup Acted

Pipes == [state : {"connecting", "reading", "writing", "stopped"}, listening : BOOLEAN,
          authenticated : BOOLEAN, granted : SUBSET Allowed, connections : Nat, faults : Nat]
Calls == [step : {"do", "look", "end"}, request : Nat, batch : Batches, requested : SUBSET Allowed,
          seen : Views, view : Views, index : Indexes, completed : Nat, failed : Nat, result : Results]
Desks == [epoch : 0 .. MaxEpoch, focus : Windows \cup {Secure}, permission : 1 .. MaxPermission,
          available : BOOLEAN, held : BOOLEAN]
Clients == [phase : Phases, seen : Views, sent : Nat, last : {None} \cup Requests,
            again : {None} \cup Observes, verifying : {None} \cup Acted, outcome : {None} \cup Acted]
Runs == [Indexes -> {<<>>, <<"done">>, <<"part">>}]

Types ==
    /\ pipe \in Pipes
    /\ conn \in {"none", "open", "closed"}
    /\ request \in {None} \cup Requests
    /\ response \in {None} \cup Responses
    /\ call \in {NoCall} \cup Calls
    /\ desk \in Desks
    /\ client \in Clients
    /\ ran \in Runs

(* One message is under way at most, and only on a connection; what is held and *)
(* what was granted go with it.                                                 *)
Line ==
    /\ conn = "none" => request = None /\ response = None
    /\ response # None => conn = "open" /\ request = None
    /\ pipe.authenticated <=> pipe.granted # {}
    /\ pipe.authenticated => pipe.state \in {"reading", "writing"} /\ conn # "none"
    /\ conn = "open" => client.phase # "off"
    /\ conn = "closed" => client.phase = "off"
    /\ conn = "open" /\ client.phase \in {"ready", "waiting", "verifying"} => pipe.authenticated
    /\ client.phase = "ready" => request = None /\ response = None
    /\ call # NoCall => pipe.authenticated /\ pipe.state = "reading" /\ request = None /\ response = None
    /\ desk.held => pipe.authenticated

(* An action that reports no failure was done, unless it leaves no trace. *)
Meant(b, i) == b.dry \/ b.actions[i] = "physical" \/ ran[i] = <<"done">>
Carried(b) == \A i \in DOMAIN b.actions : Meant(b, i)

(* The answer on its way belongs to what the client waits for. *)
Asked ==
    /\ request # None /\ conn = "open" =>
        /\ client.phase = "greeting" => request.kind \in {"hello", "garbage"}
        /\ client.phase = "waiting" => request = client.last
        /\ client.phase = "verifying" =>
            request.kind = "observe" /\ request.after = client.verifying.validated
    /\ response # None =>
        /\ client.phase = "greeting" =>
            response.kind = "hello" /\ (response.result = "OK" => pipe.authenticated)
        /\ client.phase = "waiting" =>
            \/ response.kind = "acted" /\ client.last.kind = "batch"
            \/ response.kind = "observed" /\ client.last.kind = "observe"
        /\ client.phase = "verifying" =>
            /\ response.kind = "observed"
            /\ response.result = "OK" => response.validated > client.verifying.validated
    /\ client.phase = "waiting" => client.last.kind # "none"
    /\ client.phase = "verifying" =>
        /\ client.last.kind = "batch" /\ Carried(client.last.batch)
        /\ client.verifying.kind = "acted" /\ client.verifying.validated > 0
    /\ call # NoCall /\ conn = "open" =>
        /\ client.phase = "waiting" /\ client.last.kind = "batch"
        /\ client.last.batch = call.batch
    /\ client.outcome # None => client.phase = "ready" /\ client.last.kind = "batch"

(* n of the first k actions are counted as completed: all that were done, and   *)
(* no other but those that leave no trace.                                      *)
Done == {i \in Indexes : ran[i] = <<"done">>}
Counted(b, n, k) ==
    \E ok \in SUBSET (1 .. k) :
        Done \subseteq ok /\ Cardinality(ok) = n /\ \A i \in ok : Meant(b, i)

(* How many actions the loop is past. *)
Past(c) == IF c.step = "end" THEN c.index ELSE c.index - 1

Progress ==
    /\ request.kind = "batch" => ran = NotRun
    /\ call # NoCall =>
        /\ call.index \in DOMAIN call.batch.actions
        /\ call.requested \subseteq pipe.granted
        /\ call.view.epoch > 0
        /\ \A field \in call.batch.named : call.seen[field] = call.view[field]
        /\ Counted(call.batch, call.completed, Past(call))
        /\ \A i \in Indexes : i > Past(call) => ran[i] = <<>>
        /\ call.result = "OK" <=> call.failed = 0
        /\ call.failed = 0 =>
            /\ call.completed = Past(call)
            /\ call.step = "end" => call.index = Len(call.batch.actions)
            /\ \A i \in 1 .. Past(call) : Meant(call.batch, i)
        /\ call.failed # 0 /\ ~call.batch.continue =>
            call.step = "end" /\ call.failed = call.index /\ call.completed = call.index - 1

Reported ==
    /\ response.kind = "acted" =>
        LET b == client.last.batch IN
        /\ CompletionIsTrue
        /\ response.completed = Len(b.actions) /\ response.failed = 0 =>
            Carried(b) /\ response.validated > 0
        /\ response.result = "OK" /\ b.verify =>
            /\ response.next > response.validated
            /\ response.completed = Len(b.actions) /\ response.failed = 0
    /\ VerifiedIsLater

AgentInv == Types /\ Line /\ Asked /\ Progress /\ Reported

-------------------------------------------------------------------------------
(* What a batch is, and that every position of it has a place in the record. *)
LEMMA BatchIs ==
    ASSUME NEW b \in Batches
    PROVE  /\ b.actions \in Seq(Kinds)
           /\ DOMAIN b.actions = 1 .. Len(b.actions)
           /\ Len(b.actions) \in Indexes
           /\ Len(b.actions) \in Nat /\ Len(b.actions) > 0
           /\ DOMAIN b.actions \subseteq Indexes
           /\ b.asks \subseteq Capabilities
           /\ b.named \subseteq {"epoch", "focus", "permission"}
           /\ b.dry \in BOOLEAN /\ b.verify \in BOOLEAN /\ b.continue \in BOOLEAN
<1>1. b \in Batch /\ Len(b.actions) \in 1 .. MaxActions /\ MaxActions \in Nat
  BY WorldAssumption
<1>2. b.actions \in Seq(Kinds)
  BY <1>1 DEF Batch
<1>3. DOMAIN b.actions = 1 .. Len(b.actions)
  BY <1>2
<1> QED
  BY <1>1, <1>2, <1>3 DEF Batch, Indexes

(* The kind of a message says which record it is. *)
LEMMA RequestKinds ==
    ASSUME NEW r \in {None} \cup Requests
    PROVE  /\ r = None <=> r.kind = "none"
           /\ r.kind = "hello" => r \in Hellos
           /\ r.kind = "observe" => r \in Observes
           /\ r.kind = "batch" => r \in Sends
           /\ r.kind \in {"none", "hello", "observe", "batch", "garbage"}
BY DEF None, Requests, Hellos, Observes, Sends, Garbage

LEMMA ResponseKinds ==
    ASSUME NEW r \in {None} \cup Responses
    PROVE  /\ r = None <=> r.kind = "none"
           /\ r.kind = "hello" => r \in Greetings
           /\ r.kind = "observed" => r \in Observed
           /\ r.kind = "acted" => r \in Acted
           /\ r.kind \in {"none", "hello", "observed", "acted"}
BY DEF None, Responses, Greetings, Observed, Acted

LEMMA CallSteps ==
    ASSUME NEW c \in {NoCall} \cup Calls
    PROVE  /\ c = NoCall <=> c.step = "none"
           /\ c # NoCall => c \in Calls
BY DEF NoCall, Calls

(* The answers of the service are of its type, and only OK is told as OK. *)
Failures == {"PERMISSION", "STALE_HANDLE", "NOT_FOUND", "BACKEND", "BUSY", "UNSUPPORTED", "STATE"}
LEMMA FailuresTold ==
    /\ agent_result("OK") = "OK"
    /\ \A r \in Failures : agent_result(r) \in Results \ {"OK"}
    /\ \A r \in Failures : agent_result(r) # "TIMEOUT"
BY DEF agent_result, Failures, Results

LEMMA ReadIs ==
    ASSUME desk \in Desks
    PROVE  /\ ReadResult \in {"OK", "NOT_FOUND", "PERMISSION"}
           /\ ReadResult = "OK" => desk.epoch > 0
           /\ View \in Views /\ View.epoch = desk.epoch
BY WorldAssumption DEF Desks, ReadResult, View, Views

-------------------------------------------------------------------------------
(* How an operation of the pipe ends. *)
Lost(p) ==
    /\ pipe' \in Pipes /\ pipe'.state \in {"connecting", "stopped"}
    /\ ~pipe'.authenticated /\ pipe'.granted = {}
    /\ conn' = "none" /\ request' = None /\ response' = None
    /\ desk' \in Desks /\ (desk'.held => desk.held /\ ~p.authenticated)

LEMMA ReleasedIs ==
    ASSUME desk \in Desks
    PROVE  /\ Released \in Desks /\ Released.held = FALSE
           /\ Released.epoch = desk.epoch /\ Released.focus = desk.focus
           /\ Released.permission = desk.permission /\ Released.available = desk.available
BY DEF Desks, Released

LEMMA BeginConnectLoses ==
    ASSUME NEW p \in Pipes, BeginConnect(p)
    PROVE  /\ pipe' \in Pipes /\ pipe'.state = "connecting"
           /\ pipe'.authenticated = p.authenticated /\ pipe'.granted = p.granted
           /\ conn' = "none" /\ request' = None /\ response' = None
<1>1. PICK listening \in BOOLEAN :
        pipe' = [p EXCEPT !.state = "connecting", !.listening = listening,
                          !.faults = IF listening THEN @ ELSE @ + 1]
  BY DEF BeginConnect
<1>2. (IF listening THEN p.faults ELSE p.faults + 1) \in Nat
  BY DEF Pipes
<1>3. /\ pipe' \in Pipes /\ pipe'.state = "connecting"
      /\ pipe'.authenticated = p.authenticated /\ pipe'.granted = p.granted
  BY <1>1, <1>2 DEF Pipes
<1>4. conn' = "none" /\ request' = None /\ response' = None
  BY DEF BeginConnect
<1> QED
  BY <1>3, <1>4

LEMMA ReconnectLoses ==
    ASSUME desk \in Desks, NEW p \in Pipes, Reconnect(p)
    PROVE  Lost(p)
<1> DEFINE q == [p EXCEPT !.authenticated = FALSE, !.granted = {}]
<1>1. q \in Pipes /\ q.authenticated = FALSE /\ q.granted = {}
  BY DEF Pipes
<1>2. BeginConnect(q)
  BY DEF Reconnect
<1>3. /\ pipe' \in Pipes /\ pipe'.state = "connecting"
      /\ pipe'.authenticated = FALSE /\ pipe'.granted = {}
      /\ conn' = "none" /\ request' = None /\ response' = None
  BY <1>1, <1>2, BeginConnectLoses
<1>4. desk' = IF p.authenticated THEN Released ELSE desk
  BY DEF Reconnect, Neutralize
<1>5. desk' \in Desks /\ (desk'.held => desk.held /\ ~p.authenticated)
  BY <1>4, ReleasedIs
<1> QED
  BY <1>3, <1>5 DEF Lost

LEMMA BeginReadEnds ==
    ASSUME desk \in Desks, NEW p \in Pipes, BeginRead(p)
    PROVE  \/ Lost(p)
           \/ /\ pipe' = [p EXCEPT !.state = "reading"]
              /\ UNCHANGED <<conn, request, response, desk>>
BY ReconnectLoses DEF BeginRead

LEMMA BeginWriteEnds ==
    ASSUME desk \in Desks, NEW p \in Pipes, NEW completion, BeginWrite(p, completion)
    PROVE  \/ Lost(p)
           \/ /\ conn # "closed" /\ pipe' = [p EXCEPT !.state = "writing"]
              /\ request' = None /\ response' = completion
              /\ UNCHANGED <<conn, desk>>
BY ReconnectLoses DEF BeginWrite

-------------------------------------------------------------------------------
(* The connection is gone: nothing is under way any more. *)
LEMMA LossKeeps ==
    ASSUME AgentInv, NEW p, Lost(p), desk.held => p.authenticated,
           call' = NoCall, UNCHANGED <<client, ran>>
    PROVE  AgentInv'
<1> USE DEF AgentInv
<1>1. Types'
  BY DEF Types, Lost
<1>2. /\ conn' = "none" /\ request' = None /\ response' = None /\ call' = NoCall
      /\ ~pipe'.authenticated /\ pipe'.granted = {} /\ ~desk'.held /\ client' = client /\ ran' = ran
  <2>1. ~desk'.held
    BY DEF Lost
  <2> QED
    BY <2>1 DEF Lost
<1>3. Line'
  BY <1>2 DEF Line
<1>4. Asked'
  BY <1>2 DEF Asked, Carried, Meant
<1>5. Progress'
  BY <1>2 DEF Progress, None
<1>6. Reported'
  <2>1. VerifiedIsLater'
    BY <1>2 DEF Reported, VerifiedIsLater
  <2>2. response'.kind = "none"
    BY <1>2 DEF None
  <2> QED
    BY <2>1, <2>2 DEF Reported
<1> QED
  BY <1>1, <1>3, <1>4, <1>5, <1>6

(* Only the desktop moved, and nothing more is held. *)
LEMMA DeskKeeps ==
    ASSUME AgentInv, desk' \in Desks, desk'.held => desk.held,
           UNCHANGED <<pipeVars, call, client, ran>>
    PROVE  AgentInv'
<1> USE DEF AgentInv
<1>1. UNCHANGED <<pipe, conn, request, response, call, client, ran>>
  BY DEF pipeVars
<1>2. Types' /\ Line'
  BY <1>1 DEF Types, Line
<1>3. Asked'
  BY <1>1 DEF Asked, Carried, Meant
<1>4. Progress'
  BY ZenonT(60), <1>1 DEF Progress, Counted, Meant, Done
<1>5. Reported'
  BY <1>1 DEF Reported, CompletionIsTrue, VerifiedIsLater, Carried, Meant
<1> QED
  BY <1>2, <1>3, <1>4, <1>5

(* Only the state of the pipe moved. *)
LEMMA PipeKeeps ==
    ASSUME AgentInv, pipe' \in Pipes, pipe'.authenticated = pipe.authenticated,
           pipe'.granted = pipe.granted, pipe.authenticated => pipe'.state \in {"reading", "writing"},
           call = NoCall, UNCHANGED <<conn, request, response, desk, call, client, ran>>
    PROVE  AgentInv'
<1> USE DEF AgentInv
<1>1. Types' /\ Line'
  BY DEF Types, Line
<1>2. Asked'
  BY DEF Asked, Carried, Meant
<1>3. Progress'
  BY DEF Progress
<1>4. Reported'
  BY DEF Reported, CompletionIsTrue, VerifiedIsLater, Carried, Meant
<1> QED
  BY <1>1, <1>2, <1>3, <1>4

-------------------------------------------------------------------------------
(* The polls that end in a read, or in a connection that is given up. *)
LEMMA ConnectedKeeps == AgentInv /\ PollConnected => AgentInv'
<1> SUFFICES ASSUME AgentInv, PollConnected PROVE AgentInv'
  OBVIOUS
<1> DEFINE q == [pipe EXCEPT !.authenticated = FALSE, !.granted = {}]
<1>1. pipe \in Pipes /\ desk \in Desks
  BY DEF AgentInv, Types
<1>2. ~pipe.authenticated /\ pipe.granted = {} /\ ~desk.held /\ call = NoCall
  BY DEF AgentInv, Line, PollConnected
<1>3. q \in Pipes /\ q.authenticated = FALSE /\ q.granted = {}
  BY <1>1 DEF Pipes
<1>4. BeginRead(q) /\ UNCHANGED <<call, client, ran>>
  BY DEF PollConnected
<1>5. CASE Lost(q)
  BY <1>2, <1>4, <1>5, LossKeeps
<1>6. CASE pipe' = [q EXCEPT !.state = "reading"] /\ UNCHANGED <<conn, request, response, desk>>
  <2>1. /\ pipe' \in Pipes
        /\ pipe'.authenticated = FALSE /\ pipe'.granted = {}
    BY <1>3, <1>6 DEF Pipes
  <2>2. pipe.authenticated = FALSE
    BY <1>1, <1>2 DEF Pipes
  <2> QED
    BY <1>2, <1>4, <1>6, <2>1, <2>2, PipeKeeps
<1> HIDE DEF q
<1> QED
  BY <1>1, <1>3, <1>4, <1>5, <1>6, BeginReadEnds

LEMMA RefusedKeeps == AgentInv /\ PollRefused => AgentInv'
<1> SUFFICES ASSUME AgentInv, PollRefused PROVE AgentInv'
  OBVIOUS
<1>1. pipe \in Pipes /\ desk \in Desks /\ (desk.held => pipe.authenticated)
  BY DEF AgentInv, Types, Line
<1>2. Reconnect(pipe) /\ call = NoCall /\ UNCHANGED <<call, client, ran>>
  BY DEF PollRefused
<1>3. Lost(pipe)
  BY <1>1, <1>2, ReconnectLoses
<1> QED
  BY <1>1, <1>2, <1>3, LossKeeps

LEMMA WrittenKeeps == AgentInv /\ PollWritten => AgentInv'
<1> SUFFICES ASSUME AgentInv, PollWritten PROVE AgentInv'
  OBVIOUS
<1>1. pipe \in Pipes /\ desk \in Desks /\ (desk.held => pipe.authenticated)
  BY DEF AgentInv, Types, Line
<1>2. call = NoCall /\ UNCHANGED <<call, client, ran>>
  BY DEF AgentInv, Line, PollWritten
<1>3. CASE Lost(pipe)
  BY <1>1, <1>2, <1>3, LossKeeps
<1>4. CASE /\ pipe' = [pipe EXCEPT !.state = "reading"]
           /\ UNCHANGED <<conn, request, response, desk>>
  <2>1. /\ pipe' \in Pipes /\ pipe'.state = "reading"
        /\ pipe'.authenticated = pipe.authenticated /\ pipe'.granted = pipe.granted
    BY <1>1, <1>4 DEF Pipes
  <2> QED
    BY <1>2, <1>4, <2>1, PipeKeeps
<1>5. BeginRead(pipe) \/ Reconnect(pipe)
  BY DEF PollWritten
<1> QED
  BY <1>1, <1>3, <1>4, <1>5, BeginReadEnds, ReconnectLoses

LEMMA StopKeeps == AgentInv /\ Stop => AgentInv'
<1> SUFFICES ASSUME AgentInv, Stop PROVE AgentInv'
  OBVIOUS
<1>1. pipe \in Pipes /\ desk \in Desks /\ (desk.held => pipe.authenticated)
  BY DEF AgentInv, Types, Line
<1>2. call = NoCall /\ UNCHANGED <<call, client, ran>>
  BY DEF Stop
<1>3. /\ pipe' \in Pipes /\ pipe'.state = "stopped"
      /\ pipe'.authenticated = FALSE /\ pipe'.granted = {}
  BY <1>1 DEF Stop, Pipes
<1>4. desk' = IF pipe.authenticated THEN Released ELSE desk
  BY DEF Stop, Neutralize
<1>5. desk' \in Desks /\ (desk'.held => desk.held /\ ~pipe.authenticated)
  BY <1>1, <1>4, ReleasedIs
<1>6. conn' = "none" /\ request' = None /\ response' = None
  BY DEF Stop
<1>7. Lost(pipe)
  BY <1>3, <1>5, <1>6 DEF Lost
<1> QED
  BY <1>1, <1>2, <1>7, LossKeeps

LEMMA StartKeeps == AgentInv /\ Start => AgentInv'
<1> SUFFICES ASSUME AgentInv, Start PROVE AgentInv'
  OBVIOUS
<1>1. pipe \in Pipes /\ desk \in Desks /\ ~pipe.authenticated /\ pipe.granted = {} /\ ~desk.held
  BY DEF AgentInv, Types, Line, Start
<1>2. call = NoCall /\ UNCHANGED <<call, desk, client, ran>>
  BY DEF AgentInv, Line, Start
<1>3. /\ pipe' \in Pipes /\ pipe'.state = "connecting"
      /\ pipe'.authenticated = pipe.authenticated /\ pipe'.granted = pipe.granted
      /\ conn' = "none" /\ request' = None /\ response' = None
  BY <1>1, BeginConnectLoses DEF Start
<1>4. Lost(pipe)
  BY <1>1, <1>2, <1>3 DEF Lost
<1> QED
  BY <1>1, <1>2, <1>4, LossKeeps

-------------------------------------------------------------------------------
(* The answers to what is no batch: the client of an open connection waits for *)
(* them.                                                                       *)
LEMMA HelloKeeps == AgentInv /\ PollHello => AgentInv'
<1> SUFFICES ASSUME AgentInv, PollHello PROVE AgentInv'
  OBVIOUS
<1> DEFINE granted == IF request.kind = "hello" THEN Grant(request.asks) ELSE {}
           q == [pipe EXCEPT !.granted = granted, !.authenticated = granted # {}]
           completion == [kind |-> "hello", granted |-> granted,
                 result |-> IF request.kind # "hello" \/ request.asks = {} THEN "INVALID_MESSAGE"
                            ELSE IF granted = {} THEN "CAPABILITY_DENIED" ELSE "OK"]
<1>1. pipe \in Pipes /\ desk \in Desks /\ request \in {None} \cup Requests
  BY DEF AgentInv, Types
<1>2. ~pipe.authenticated /\ ~desk.held /\ call = NoCall /\ UNCHANGED <<call, client, ran>>
  BY DEF AgentInv, Line, PollHello
<1>3. granted \subseteq Allowed
  BY DEF Grant
<1>4. BeginWrite(q, completion)
  BY DEF PollHello
<1>5. (granted # {}) \in BOOLEAN
  BY Zenon
<1>6. /\ completion \in Greetings
      /\ completion.kind = "hello" /\ (completion.result = "OK" => granted # {})
  BY <1>3 DEF Greetings, Results
<1> HIDE DEF granted, completion
<1>7. q \in Pipes /\ q.granted = granted /\ q.state = pipe.state
  BY <1>1, <1>3, <1>5 DEF Pipes
<1>8. q.authenticated = (granted # {})
  BY <1>1 DEF Pipes
<1> HIDE DEF q
<1>9. CASE Lost(q)
  BY <1>2, <1>9, LossKeeps
<1>10. CASE /\ conn # "closed" /\ pipe' = [q EXCEPT !.state = "writing"]
            /\ request' = None /\ response' = completion
            /\ UNCHANGED <<conn, desk>>
  <2>1. pipe' \in Pipes /\ pipe'.granted = granted /\ pipe'.state = "writing"
    BY <1>7, <1>10 DEF Pipes
  <2>2. pipe'.authenticated <=> granted # {}
    BY <1>7, <1>8, <1>10 DEF Pipes
  <2>3. request # None /\ conn = "open" /\ client.phase = "greeting"
    <3>1. request # None /\ conn = "open"
      BY <1>1, <1>10 DEF PollHello, AgentInv, Line, Types
    <3>2. client.phase \in Phases
      BY DEF AgentInv, Types, Clients
    <3> QED
      BY <1>2, <3>1, <3>2 DEF AgentInv, Line, Phases
  <2>4. Types'
    BY <1>2, <1>6, <1>10, <2>1 DEF AgentInv, Types, Responses
  <2>5. completion # None /\ completion.kind # "acted"
    BY <1>6 DEF None
  <2>6. Line'
    BY <1>2, <1>10, <2>1, <2>2, <2>3, <2>5 DEF AgentInv, Line
  <2>7. Asked'
    BY <1>2, <1>6, <1>10, <2>2, <2>3, <2>5 DEF AgentInv, Asked, Carried, Meant
  <2>8. Progress'
    BY <1>2, <1>10 DEF Progress, None
  <2>9. Reported'
    BY <1>2, <1>10, <2>5 DEF AgentInv, Reported, VerifiedIsLater
  <2> QED
    BY <2>4, <2>6, <2>7, <2>8, <2>9 DEF AgentInv
<1> QED
  BY <1>1, <1>4, <1>7, <1>9, <1>10, BeginWriteEnds

(* An observation newer than asked for is newer. *)
LEMMA ObserveIs ==
    ASSUME NEW n \in Nat, NEW after \in Nat, NEW granted, NEW result \in {"OK", "NOT_FOUND", "PERMISSION"},
           NEW view \in Views
    PROVE  /\ observe(n, after, granted, result, view) \in Observed
           /\ observe(n, after, granted, result, view).kind = "observed"
           /\ observe(n, after, granted, result, view).result = "OK" /\ after > 0 =>
                observe(n, after, granted, result, view).validated > after
<1>1. NoView \in Views
  BY DEF NoView, Views
<1>2. \A r \in Results : \A v \in Views :
        /\ ObserveCompletion(n, r, v) \in Observed /\ ObserveCompletion(n, r, v).kind = "observed"
        /\ ObserveCompletion(n, r, v).result = r /\ ObserveCompletion(n, r, v).validated = v.epoch
  BY DEF ObserveCompletion, Observed, Views
<1>3. agent_result(result) \in Results /\ (result # "OK" => agent_result(result) # "OK")
  BY FailuresTold DEF Failures, Results
<1>4. {"OK", "TIMEOUT", "CAPABILITY_DENIED"} \subseteq Results /\ view.epoch \in Nat
  BY DEF Results, Views
<1>5. CASE "observe" \notin Allowed \cap granted
  BY <1>1, <1>2, <1>4, <1>5 DEF observe
<1>6. CASE "observe" \in Allowed \cap granted /\ result # "OK"
  BY <1>1, <1>2, <1>3, <1>6 DEF observe
<1>7. CASE "observe" \in Allowed \cap granted /\ result = "OK" /\ ~freshness_satisfied(after, view.epoch)
  BY <1>1, <1>2, <1>4, <1>7 DEF observe
<1>8. CASE "observe" \in Allowed \cap granted /\ result = "OK" /\ freshness_satisfied(after, view.epoch)
  BY <1>2, <1>4, <1>8 DEF observe, freshness_satisfied
<1> QED
  BY <1>5, <1>6, <1>7, <1>8

LEMMA ObserveKeeps == AgentInv /\ PollObserve => AgentInv'
<1> SUFFICES ASSUME AgentInv, PollObserve PROVE AgentInv'
  OBVIOUS
<1> DEFINE completion == observe(request.request, request.after, pipe.granted, ReadResult, View)
<1>1. pipe \in Pipes /\ desk \in Desks /\ request \in {None} \cup Requests /\ client \in Clients
  BY DEF AgentInv, Types
<1>2. /\ pipe.authenticated /\ pipe.state = "reading" /\ call = NoCall /\ request.kind = "observe"
      /\ UNCHANGED <<call, client, ran>>
  BY DEF PollObserve, Reading
<1>3. request \in Observes /\ request # None
  BY <1>1, <1>2, RequestKinds
<1>4. /\ completion \in Observed /\ completion.kind = "observed"
      /\ completion.result = "OK" /\ request.after > 0 => completion.validated > request.after
  BY <1>1, <1>3, ReadIs, ObserveIs DEF Observes
<1>5. BeginWrite(pipe, completion)
  BY DEF PollObserve
<1> HIDE DEF completion
<1>6. CASE Lost(pipe)
  BY <1>2, <1>6, LossKeeps
<1>7. CASE /\ conn # "closed" /\ pipe' = [pipe EXCEPT !.state = "writing"]
           /\ request' = None /\ response' = completion
           /\ UNCHANGED <<conn, desk>>
  <2>1. /\ pipe' \in Pipes /\ pipe'.state = "writing"
        /\ pipe'.granted = pipe.granted /\ pipe'.authenticated = pipe.authenticated
    BY <1>1, <1>7 DEF Pipes
  <2>2. conn = "open" /\ client.phase \in {"waiting", "verifying"}
    <3>1. conn = "open"
      BY <1>3, <1>7 DEF AgentInv, Types, Line
    <3>2. client.phase \in Phases
      BY <1>1 DEF Clients
    <3> QED
      BY <1>2, <1>3, <3>1, <3>2 DEF AgentInv, Line, Asked, Phases
  <2>3. Types'
    BY <1>2, <1>4, <1>7, <2>1 DEF AgentInv, Types, Responses
  <2>4. completion # None /\ completion.kind # "acted"
    BY <1>4 DEF None
  <2>5. Line'
    BY <1>2, <1>7, <2>1, <2>2, <2>4 DEF AgentInv, Line
  <2>6. Asked'
    <3>1. client.phase = "waiting" => client.last.kind = "observe"
      BY <1>2, <1>3, <2>2 DEF AgentInv, Asked
    <3>2. client.phase = "verifying" =>
            (completion.result = "OK" => completion.validated > client.verifying.validated)
      BY <1>2, <1>3, <1>4, <2>2 DEF AgentInv, Asked
    <3> QED
      BY <1>2, <1>4, <1>7, <2>2, <2>4, <3>1, <3>2 DEF AgentInv, Asked, Carried, Meant
  <2>7. Progress'
    BY <1>2, <1>7 DEF Progress, None
  <2>8. Reported'
    BY <1>2, <1>7, <2>4 DEF AgentInv, Reported, VerifiedIsLater
  <2> QED
    BY <2>3, <2>5, <2>6, <2>7, <2>8 DEF AgentInv
<1> QED
  BY <1>1, <1>5, <1>6, <1>7, BeginWriteEnds

-------------------------------------------------------------------------------
(* The loop over a batch.                                                      *)
LEMMA AfterIs ==
    ASSUME NEW c \in Calls, NEW result \in {"OK"} \cup Failures
    PROVE  LET last == c.index = Len(c.batch.actions) \/ (result # "OK" /\ ~c.batch.continue)
               d == After(c, result)
           IN  /\ d.completed = IF result = "OK" THEN c.completed + 1 ELSE c.completed
               /\ d.failed = IF result = "OK" THEN c.failed ELSE c.index
               /\ d.result = IF result = "OK" THEN c.result ELSE Told(c, result)
               /\ d.index = IF last THEN c.index ELSE c.index + 1
               /\ d.step = IF last THEN "end" ELSE "look"
               /\ d.request = c.request /\ d.batch = c.batch /\ d.requested = c.requested
               /\ d.seen = c.seen /\ d.view = c.view
               /\ result # "OK" => Told(c, result) \in Results \ {"OK"}
               /\ c.index < Len(c.batch.actions) \/ last => d \in Calls
<1> DEFINE last == c.index = Len(c.batch.actions) \/ (result # "OK" /\ ~c.batch.continue)
           d == After(c, result)
           completed == IF result = "OK" THEN c.completed + 1 ELSE c.completed
           failed == IF result = "OK" THEN c.failed ELSE c.index
           told == IF result = "OK" THEN c.result ELSE Told(c, result)
           index == IF last THEN c.index ELSE c.index + 1
           step == IF last THEN "end" ELSE "look"
<1>1. result # "OK" => Told(c, result) \in Results \ {"OK"}
  BY FailuresTold DEF Told, Results
<1>2. d = [c EXCEPT !.completed = completed, !.result = told, !.failed = failed,
                    !.index = index, !.step = step]
  BY DEF After
<1>3. /\ c.index \in Indexes /\ c.index \in Nat /\ c.completed \in Nat /\ c.failed \in Nat
      /\ c.batch \in Batches /\ c.result \in Results
  BY WorldAssumption DEF Calls, Indexes
<1>4. completed \in Nat /\ failed \in Nat /\ told \in Results /\ step \in {"do", "look", "end"}
  BY <1>1, <1>3
<1>5. Len(c.batch.actions) \in Indexes
  BY <1>3, BatchIs
<1>6. c.index < Len(c.batch.actions) \/ last => index \in Indexes
  BY <1>3, <1>5, WorldAssumption DEF Indexes
<1> HIDE DEF last, completed, failed, told, index, step, d
<1>7. /\ d.completed = completed /\ d.failed = failed /\ d.result = told
      /\ d.index = index /\ d.step = step
      /\ d.request = c.request /\ d.batch = c.batch /\ d.requested = c.requested
      /\ d.seen = c.seen /\ d.view = c.view
  BY <1>2 DEF Calls
<1>8. c.index < Len(c.batch.actions) \/ last => d \in Calls
  BY <1>2, <1>4, <1>6 DEF Calls
<1> QED
  BY <1>1, <1>7, <1>8 DEF last, completed, failed, told, index, step, d

(* What a plan may do: it reports success only of what it did, does nothing on *)
(* a dry run, and reaches the system only past the checks of the preflight.    *)
Truthful(o, dry) ==
    /\ o.result \in {"OK"} \cup Failures /\ o.desk \in Desks
    /\ o.did \in {"nothing", "done", "part"}
    /\ o.did = "done" => o.result = "OK"
    /\ o.result = "OK" => dry \/ o.did = "done"
    /\ dry => o.did = "nothing" /\ o.desk = desk

LEMMA PlanIs ==
    ASSUME desk \in Desks, NEW kind \in Planned, NEW view, NEW dry \in BOOLEAN,
           NEW o \in ExecutePlan(kind, view, dry)
    PROVE  /\ Truthful(o, dry)
           /\ o.did # "nothing" =>
                desk.available /\ desk.focus # Secure /\ Preflight(kind, view) = "OK"
<1> DEFINE held == CASE kind = "hold" -> TRUE [] kind = "release" -> FALSE
                  [] kind \in {"click", "key", "text"} -> desk.held
           legal == IF kind = "hold" THEN ~desk.held ELSE kind = "release" => desk.held
           first == {Outcome(r, desk, "nothing") :
                        r \in {"BUSY", "UNSUPPORTED"} \cup
                              IF kind \in {"click", "hold", "text"} THEN {"NOT_FOUND"} ELSE {}}
           second ==
              IF ~desk.available \/ desk.focus = Secure THEN {Outcome("PERMISSION", desk, "nothing")}
              ELSE IF ~legal THEN {Outcome("STATE", desk, "nothing")}
              ELSE IF dry THEN {Outcome(Preflight(kind, view), desk, "nothing")}
              ELSE IF Preflight(kind, view) # "OK"
              THEN {Outcome(r, Released, "nothing") : r \in {Preflight(kind, view), "BACKEND"}}
              ELSE {Outcome("OK", [desk EXCEPT !.held = held], "done"),
                    Outcome("BACKEND", Released, "part")}
<1>1. o \in first \cup second
  BY DEF ExecutePlan
<1>2. held \in BOOLEAN
  BY DEF Planned, Desks
<1>3. Preflight(kind, view) \in {"OK", "PERMISSION", "STALE_HANDLE"}
  BY DEF Preflight
<1>4. \A r, d, did : /\ Outcome(r, d, did).result = r /\ Outcome(r, d, did).desk = d
                     /\ Outcome(r, d, did).did = did
  BY DEF Outcome
<1>5. Released \in Desks
  BY ReleasedIs
<1> HIDE DEF held, legal
<1>6. [desk EXCEPT !.held = held] \in Desks
  BY <1>2 DEF Desks
<1>7. CASE o \in first
  <2>1. PICK r \in {"BUSY", "UNSUPPORTED", "NOT_FOUND"} : o = Outcome(r, desk, "nothing")
    BY <1>7
  <2> QED
    BY <1>4, <2>1 DEF Truthful, Failures
<1> HIDE DEF first
<1>8. CASE o \in second
  <2>1. CASE ~desk.available \/ desk.focus = Secure
    BY <1>4, <1>8, <2>1 DEF Truthful, Failures
  <2>2. CASE ~(~desk.available \/ desk.focus = Secure) /\ ~legal
    BY <1>4, <1>8, <2>2 DEF Truthful, Failures
  <2>3. CASE ~(~desk.available \/ desk.focus = Secure) /\ legal /\ dry
    BY <1>3, <1>4, <1>8, <2>3 DEF Truthful, Failures
  <2>4. CASE /\ ~(~desk.available \/ desk.focus = Secure) /\ legal /\ ~dry
             /\ Preflight(kind, view) # "OK"
    <3>1. PICK r \in {Preflight(kind, view), "BACKEND"} : o = Outcome(r, Released, "nothing")
      BY <1>8, <2>4
    <3> QED
      BY <1>3, <1>4, <1>5, <2>4, <3>1 DEF Truthful, Failures
  <2>5. CASE /\ ~(~desk.available \/ desk.focus = Secure) /\ legal /\ ~dry
             /\ Preflight(kind, view) = "OK"
    <3>1. o = Outcome("OK", [desk EXCEPT !.held = held], "done") \/ o = Outcome("BACKEND", Released, "part")
      BY <1>8, <2>5
    <3> QED
      BY <1>4, <1>5, <1>6, <2>5, <3>1 DEF Truthful, Failures
  <2> QED
    BY <2>1, <2>2, <2>3, <2>4, <2>5
<1> QED
  BY <1>1, <1>7, <1>8

LEMMA PerformIs ==
    ASSUME desk \in Desks, NEW c \in Calls, NEW kind \in Kinds, kind # "timed",
           NEW o \in Perform(c, kind)
    PROVE  /\ Truthful(o, c.batch.dry \/ kind = "physical") \/ Truthful(o, c.batch.dry)
           /\ kind \in Planned /\ o.did # "nothing" =>
                desk.available /\ desk.focus # Secure /\ Preflight(kind, c.view) = "OK"
<1>1. \A r, d, did : /\ Outcome(r, d, did).result = r /\ Outcome(r, d, did).desk = d
                     /\ Outcome(r, d, did).did = did
  BY DEF Outcome
<1>2. Released \in Desks
  BY ReleasedIs
<1>3. c.batch.dry \in BOOLEAN
  BY BatchIs DEF Calls
<1>4. CASE kind = "physical"
  <2>1. o = Outcome("OK", desk, "nothing")
    BY <1>4 DEF Perform, Planned
  <2> QED
    BY <1>1, <1>4, <2>1 DEF Truthful, Planned
<1>5. CASE kind \in {"abort", "cycle"} /\ c.batch.dry
  <2>1. o = Outcome("OK", desk, "nothing")
    BY <1>5 DEF Perform, Planned
  <2> QED
    BY <1>1, <1>5, <2>1 DEF Truthful, Planned
<1>6. CASE kind = "abort" /\ ~c.batch.dry
  <2>1. o \in AbortInput
    BY <1>6 DEF Perform, Planned
  <2> QED
    BY <1>1, <1>2, <1>6, <2>1 DEF Truthful, Planned, AbortInput, Failures
<1>7. CASE kind = "cycle" /\ ~c.batch.dry
  <2>1. o \in CycleWindow
    BY <1>7 DEF Perform, Planned
  <2>2. \A w \in Windows : [desk EXCEPT !.focus = w] \in Desks
    BY DEF Desks
  <2>3. CASE \E r \in {"NOT_FOUND", "STALE_HANDLE", "BACKEND", "PERMISSION"} : o = Outcome(r, desk, "nothing")
    BY <1>1, <1>7, <2>3 DEF Truthful, Planned, Failures
  <2>4. CASE \E w \in Windows : \/ o = Outcome("OK", [desk EXCEPT !.focus = w], "done")
                                \/ o = Outcome("BACKEND", [desk EXCEPT !.focus = w], "part")
    BY <1>1, <1>7, <2>2, <2>4 DEF Truthful, Planned, Failures
  <2> QED
    BY <2>1, <2>3, <2>4 DEF CycleWindow
<1>8. CASE kind \in Planned
  <2>1. o \in ExecutePlan(kind, c.view, c.batch.dry)
    BY <1>8 DEF Perform, Planned
  <2> QED
    BY <1>3, <1>8, <2>1, PlanIs
<1> QED
  BY <1>4, <1>5, <1>6, <1>7, <1>8 DEF Kinds, Planned

(* One action is recorded: how the call and the record move together. *)
LEMMA RecordKeeps ==
    ASSUME AgentInv, call # NoCall, call.step = "do",
           NEW result \in {"OK"} \cup Failures, NEW did \in {"nothing", "done", "part"},
           call' = After(call, result),
           ran' = IF did = "nothing" THEN ran ELSE [ran EXCEPT ![call.index] = Append(@, did)],
           did = "done" => result = "OK",
           result = "OK" => \/ call.batch.dry \/ call.batch.actions[call.index] = "physical"
                            \/ did = "done",
           desk' \in Desks, UNCHANGED <<pipeVars, client>>
    PROVE  AgentInv'
<1> DEFINE k == call.index
           b == call.batch
           last == k = Len(b.actions) \/ (result # "OK" /\ ~b.continue)
<1>1. UNCHANGED <<pipe, conn, request, response, client>>
  BY DEF pipeVars
<1>2. call \in Calls /\ b \in Batches /\ ran \in Runs
  BY CallSteps DEF AgentInv, Types, Calls
<1>3. k \in 1 .. Len(b.actions) /\ k \in Indexes /\ Len(b.actions) \in Nat /\ k \in Nat /\ k > 0
  <2>1. k \in DOMAIN b.actions
    BY DEF AgentInv, Progress
  <2> QED
    BY <1>2, <2>1, BatchIs
<1>4. /\ call'.completed = IF result = "OK" THEN call.completed + 1 ELSE call.completed
      /\ call'.failed = IF result = "OK" THEN call.failed ELSE k
      /\ call'.result = IF result = "OK" THEN call.result ELSE Told(call, result)
      /\ call'.index = IF last THEN k ELSE k + 1
      /\ call'.step = IF last THEN "end" ELSE "look"
      /\ call'.batch = b /\ call'.requested = call.requested
      /\ call'.seen = call.seen /\ call'.view = call.view
      /\ result # "OK" => Told(call, result) \in Results \ {"OK"}
      /\ call' \in Calls
  BY <1>2, <1>3, AfterIs
<1>5. call' # NoCall
  BY <1>4, CallSteps
<1>6. /\ Past(call) = k - 1 /\ Past(call') = k
      /\ b.continue \in BOOLEAN /\ b.dry \in BOOLEAN
  BY <1>2, <1>3, <1>4, BatchIs DEF Past
<1>7. /\ \A i \in Indexes : i >= k => ran[i] = <<>>
      /\ \A i \in Indexes : i # k => ran'[i] = ran[i]
      /\ ran' \in Runs
      /\ ran'[k] = IF did = "nothing" THEN <<>> ELSE <<did>>
  <2>1. \A i \in Indexes : i >= k => ran[i] = <<>>
    <3>1. \A i \in Indexes : i \in Nat /\ (i >= k => i > k - 1)
      BY <1>3, WorldAssumption DEF Indexes
    <3> QED
      BY <1>3, <1>6, <3>1 DEF AgentInv, Progress
  <2>2. ran[k] = <<>> /\ Append(ran[k], did) = <<did>>
    <3>1. ran[k] = <<>>
      BY <1>3, <2>1
    <3>2. Append(<<>>, did) = <<did>>
      OBVIOUS
    <3> QED
      BY <3>1, <3>2
  <2>3. CASE did = "nothing"
    BY <1>2, <2>1, <2>2, <2>3
  <2>4. CASE did # "nothing"
    <3>1. ran' = [ran EXCEPT ![k] = <<did>>] /\ did \in {"done", "part"}
      BY <2>2, <2>4
    <3>2. <<did>> \in {<<>>, <<"done">>, <<"part">>}
      BY <3>1
    <3> QED
      BY <1>2, <1>3, <2>1, <2>4, <3>1, <3>2 DEF Runs
  <2> QED
    BY <2>3, <2>4
<1> HIDE DEF last
<1>8. Types'
  BY <1>1, <1>4, <1>7 DEF AgentInv, Types
<1>9. Line'
  BY <1>1, <1>5 DEF AgentInv, Line
<1>11. \A i \in 1 .. (k - 1) : (b.dry \/ b.actions[i] = "physical" \/ ran[i] = <<"done">>) =>
          (b.dry \/ b.actions[i] = "physical" \/ ran'[i] = <<"done">>)
  BY <1>3, <1>7, WorldAssumption DEF Indexes
<1>12. result = "OK" => b.dry \/ b.actions[k] = "physical" \/ ran'[k] = <<"done">>
  BY <1>7
<1>13. Asked'
  <2>1. conn = "open" => client.phase = "waiting" /\ client.last.kind = "batch" /\ client.last.batch = b
    BY DEF AgentInv, Asked
  <2>2. client.phase # "verifying" /\ request = None /\ response = None
    BY <2>1 DEF AgentInv, Line, Types
  <2> QED
    BY <1>1, <1>4, <1>5, <2>1, <2>2 DEF AgentInv, Asked
<1>14. Counted(b, call.completed, k - 1)
  BY <1>6 DEF AgentInv, Progress
<1>15. PICK ok \in SUBSET (1 .. (k - 1)) :
          /\ Done \subseteq ok /\ Cardinality(ok) = call.completed
          /\ \A i \in ok : Meant(b, i)
  BY <1>14 DEF Counted
<1>16. Done' = IF did = "done" THEN Done \cup {k} ELSE Done
  <2>1. k \notin Done
    BY <1>3, <1>7 DEF Done
  <2>2. \A i \in Indexes : i \in Done' <=> (i \in Done \/ (i = k /\ did = "done"))
    <3> TAKE i \in Indexes
    <3>1. CASE i = k
      BY <1>3, <1>7, <2>1, <3>1 DEF Done
    <3>2. CASE i # k
      BY <1>7, <3>2 DEF Done
    <3> QED
      BY <3>1, <3>2
  <2>3. Done \subseteq Indexes /\ Done' \subseteq Indexes
    BY DEF Done
  <2> QED
    BY <1>3, <2>2, <2>3
<1>17. \E more \in SUBSET (1 .. k) :
          /\ Done' \subseteq more /\ Cardinality(more) = call'.completed
          /\ \A i \in more : b.dry \/ b.actions[i] = "physical" \/ ran'[i] = <<"done">>
  <2>1. \A i \in ok : b.dry \/ b.actions[i] = "physical" \/ ran'[i] = <<"done">>
    BY <1>11, <1>15 DEF Meant
  <2>2. CASE result = "OK"
    <3>1. IsFiniteSet(ok) /\ k \notin ok
      <4>1. k - 1 \in Int /\ 1 \in Int /\ k \notin 1 .. (k - 1)
        BY <1>3
      <4>2. IsFiniteSet(1 .. (k - 1))
        BY <4>1, FS_Interval
      <4> QED
        BY <1>15, <4>1, <4>2, FS_Subset
    <3>2. Cardinality(ok \cup {k}) = Cardinality(ok) + 1
      BY <3>1, FS_AddElement
    <3>3. ok \cup {k} \in SUBSET (1 .. k)
      <4>1. k \in 1 .. k /\ \A i \in 1 .. (k - 1) : i \in 1 .. k
        BY <1>3
      <4> QED
        BY <1>15, <4>1
    <3> WITNESS ok \cup {k} \in SUBSET (1 .. k)
    <3> QED
      BY <1>4, <1>12, <1>15, <1>16, <2>1, <2>2, <3>2
  <2>3. CASE result # "OK"
    <3>1. ok \in SUBSET (1 .. k)
      <4>1. \A i \in 1 .. (k - 1) : i \in 1 .. k
        BY <1>3
      <4> QED
        BY <1>15, <4>1
    <3> WITNESS ok \in SUBSET (1 .. k)
    <3> QED
      BY <1>4, <1>15, <1>16, <2>1, <2>3
  <2> QED
    BY <2>2, <2>3
<1>18. Counted(call.batch, call.completed, Past(call))'
  BY <1>4, <1>6, <1>17 DEF Counted, Meant, Done
<1>19. \A i \in Indexes : i > k => ran'[i] = <<>>
  <2>1. \A i \in Indexes : i \in Nat
    BY WorldAssumption DEF Indexes
  <2> QED
    BY <1>3, <1>7, <2>1
<1>20. call'.result = "OK" <=> call'.failed = 0
  <2>1. call.result = "OK" <=> call.failed = 0
    BY DEF AgentInv, Progress
  <2> QED
    BY <1>3, <1>4, <2>1
<1>21. call'.failed = 0 =>
          /\ call'.completed = k
          /\ call'.step = "end" => call'.index = Len(b.actions)
          /\ \A i \in 1 .. k : b.dry \/ b.actions[i] = "physical" \/ ran'[i] = <<"done">>
  <2> SUFFICES ASSUME call'.failed = 0
               PROVE  /\ call'.completed = k
                      /\ call'.step = "end" => call'.index = Len(b.actions)
                      /\ \A i \in 1 .. k : b.dry \/ b.actions[i] = "physical" \/ ran'[i] = <<"done">>
    OBVIOUS
  <2>1. result = "OK" /\ call.failed = 0
    BY <1>3, <1>4
  <2>2. call.completed = k - 1 /\ \A i \in 1 .. (k - 1) : Meant(b, i)
    BY <1>6, <2>1 DEF AgentInv, Progress
  <2>3. call'.completed = k
    BY <1>3, <1>4, <2>1, <2>2
  <2>4. call'.step = "end" => call'.index = Len(b.actions)
    BY <1>4, <2>1 DEF last
  <2>5. \A i \in 1 .. k : i = k \/ i \in 1 .. (k - 1)
    BY <1>3
  <2> QED
    BY <1>11, <1>12, <2>1, <2>2, <2>3, <2>4, <2>5 DEF Meant
<1>22. call'.failed # 0 /\ ~b.continue =>
          call'.step = "end" /\ call'.failed = call'.index /\ call'.completed = call'.index - 1
  <2> SUFFICES ASSUME call'.failed # 0, ~b.continue
               PROVE  /\ call'.step = "end" /\ call'.failed = call'.index
                      /\ call'.completed = call'.index - 1
    OBVIOUS
  <2>1. call.failed = 0 /\ call.completed = k - 1
    BY <1>6 DEF AgentInv, Progress
  <2>2. result # "OK"
    BY <1>4, <2>1
  <2> QED
    BY <1>4, <2>1, <2>2 DEF last
<1>23. Progress'
  <2>1. request' = None /\ request'.kind = "none"
    BY <1>1 DEF AgentInv, Line, None
  <2>2. call'.index \in DOMAIN b.actions /\ call'.requested \subseteq pipe'.granted
    <3>1. DOMAIN b.actions = 1 .. Len(b.actions)
      BY <1>2, BatchIs
    <3>2. call'.index \in 1 .. Len(b.actions)
      BY <1>3, <1>4 DEF last
    <3> QED
      BY <1>1, <1>4, <3>1, <3>2 DEF AgentInv, Progress
  <2>3. call'.view.epoch > 0 /\ \A field \in b.named : call'.seen[field] = call'.view[field]
    BY <1>4 DEF AgentInv, Progress
  <2>4. \A i \in 1 .. k : (b.dry \/ b.actions[i] = "physical" \/ ran'[i] = <<"done">>) => Meant(call.batch, i)'
    BY <1>4 DEF Meant
  <2> HIDE DEF b, k
  <2> QED
    BY <1>4, <1>6, <1>18, <1>19, <1>20, <1>21, <1>22, <2>1, <2>2, <2>3, <2>4 DEF Progress, b
<1>24. Reported'
  <2>1. response' = None /\ response'.kind # "acted" /\ client' = client
    BY <1>1 DEF AgentInv, Line, None
  <2>2. client.outcome = None
    <3>1. client.phase # "ready"
      BY DEF AgentInv, Line, Asked, Types
    <3> QED
      BY <3>1 DEF AgentInv, Asked
  <2> QED
    BY <2>1, <2>2 DEF Reported, VerifiedIsLater, None
<1> QED
  BY <1>8, <1>9, <1>13, <1>23, <1>24 DEF AgentInv

(* A performed action is one a client was granted, and reports the truth. *)
LEMMA ActRecords ==
    ASSUME AgentInv, Act
    PROVE  /\ call # NoCall /\ call.step = "do" /\ UNCHANGED <<pipeVars, client>> /\ desk' \in Desks
           /\ call.batch \in Batches /\ call.index \in DOMAIN call.batch.actions
           /\ \E result \in {"OK"} \cup Failures, did \in {"nothing", "done", "part"} :
                /\ call' = After(call, result)
                /\ ran' = IF did = "nothing" THEN ran ELSE [ran EXCEPT ![call.index] = Append(@, did)]
                /\ did = "done" => result = "OK"
                /\ result = "OK" => \/ call.batch.dry \/ call.batch.actions[call.index] = "physical"
                                    \/ did = "done"
                /\ call.batch.dry => did = "nothing" /\ desk' = desk
                /\ did # "nothing" =>
                    LET kind == call.batch.actions[call.index] IN
                    /\ required_capability(kind) \subseteq call.requested
                    /\ kind \in Planned =>
                        desk.available /\ desk.focus # Secure /\ Preflight(kind, call.view) = "OK"
<1> DEFINE kind == call.batch.actions[call.index]
<1>1. call.step = "do" /\ UNCHANGED <<pipeVars, client>>
  BY DEF Act
<1>2. call # NoCall
  BY <1>1 DEF NoCall
<1>3. call \in Calls /\ desk \in Desks
  BY <1>2, CallSteps DEF AgentInv, Types
<1>4. call.batch \in Batches /\ call.index \in DOMAIN call.batch.actions /\ call.batch.dry \in BOOLEAN
  BY <1>2, <1>3, BatchIs DEF AgentInv, Progress, Calls
<1>5. kind \in Kinds
  <2>1. call.batch.actions \in Seq(Kinds)
    BY <1>4, BatchIs
  <2> QED
    BY <1>4, <2>1
<1>6. CASE Refused(call) # "OK"
  <2>1. call' = After(call, Refused(call)) /\ desk' = desk /\ ran' = ran
    BY <1>6 DEF Act
  <2>2. Refused(call) \in Failures
    BY <1>6 DEF Refused, RefusedOf, Failures, action_supported
  <2> QED
    BY <1>1, <1>2, <1>3, <1>4, <1>6, <2>1, <2>2
<1>7. CASE Refused(call) = "OK"
  <2>1. PICK o \in Perform(call, kind) :
          /\ call' = After(call, o.result) /\ desk' = o.desk
          /\ ran' = IF o.did = "nothing" THEN ran ELSE [ran EXCEPT ![call.index] = Append(@, o.did)]
    BY <1>7 DEF Act
  <2>2. kind # "timed" /\ required_capability(kind) \subseteq call.requested
    BY <1>7 DEF Refused, RefusedOf, action_supported
  <2>3. /\ Truthful(o, call.batch.dry \/ kind = "physical") \/ Truthful(o, call.batch.dry)
        /\ kind \in Planned /\ o.did # "nothing" =>
             desk.available /\ desk.focus # Secure /\ Preflight(kind, call.view) = "OK"
    BY <1>3, <1>5, <2>1, <2>2, PerformIs
  <2>4. /\ o.result \in {"OK"} \cup Failures /\ o.did \in {"nothing", "done", "part"}
        /\ o.desk \in Desks /\ (o.did = "done" => o.result = "OK")
        /\ o.result = "OK" => call.batch.dry \/ kind = "physical" \/ o.did = "done"
        /\ call.batch.dry => o.did = "nothing" /\ o.desk = desk
    BY <2>3 DEF Truthful
  <2> QED
    BY <1>1, <1>2, <1>3, <1>4, <2>1, <2>2, <2>3, <2>4
<1> QED
  BY <1>6, <1>7

LEMMA ActKeeps == AgentInv /\ Act => AgentInv'
BY ActRecords, RecordKeeps

(* The batch goes on if the desktop is still the one it was validated on. *)
LEMMA LookKeeps == AgentInv /\ LookAgain => AgentInv'
<1> SUFFICES ASSUME AgentInv, LookAgain PROVE AgentInv'
  OBVIOUS
<1>1. /\ call.step = "look" /\ call' = Look(call, ReadResult, View)
      /\ UNCHANGED <<pipe, conn, request, response, desk, client, ran>>
  BY DEF LookAgain, pipeVars
<1>2. call # NoCall
  BY <1>1 DEF NoCall
<1>3. call \in Calls /\ desk \in Desks
  BY <1>2, CallSteps DEF AgentInv, Types
<1>4. /\ call.batch \in Batches /\ call.index \in Nat /\ call.index > 0
      /\ call.failed \in Nat /\ call.completed \in Nat
  BY <1>3, WorldAssumption DEF Calls, Indexes
<1> DEFINE seen == IF ReadResult = "OK" /\ View # call.view THEN "STALE_HANDLE" ELSE ReadResult
<1>5. \/ call' = [call EXCEPT !.step = "do"]
      \/ /\ seen \in Failures
         /\ call' = [call EXCEPT !.result = agent_result(seen), !.failed = call.index, !.step = "end"]
  BY <1>1, <1>3, ReadIs DEF Look, Failures
<1> HIDE DEF seen
<1>6. /\ call'.batch = call.batch /\ call'.requested = call.requested /\ call'.seen = call.seen
      /\ call'.view = call.view /\ call'.index = call.index /\ call'.completed = call.completed
      /\ \/ call'.step = "do" /\ call'.failed = call.failed /\ call'.result = call.result
         \/ call'.step = "end" /\ call'.failed = call.index /\ call'.result # "OK"
      /\ call' \in Calls
  <2>1. CASE call' = [call EXCEPT !.step = "do"]
    BY <1>3, <2>1 DEF Calls
  <2>2. CASE /\ seen \in Failures
             /\ call' = [call EXCEPT !.result = agent_result(seen), !.failed = call.index, !.step = "end"]
    <3>1. agent_result(seen) \in Results /\ agent_result(seen) # "OK"
      BY <2>2, FailuresTold
    <3> QED
      BY <1>3, <1>4, <2>2, <3>1 DEF Calls
  <2> QED
    BY <1>5, <2>1, <2>2
<1>7. call' # NoCall
  BY <1>6, CallSteps
<1>8. Types' /\ Line'
  BY <1>1, <1>2, <1>6 DEF AgentInv, Types, Line
<1>9. Asked'
  BY <1>1, <1>2, <1>6 DEF AgentInv, Asked, Carried, Meant
<1>10. Past(call) = call.index - 1 /\ Past(call') \in {call.index - 1, call.index}
       /\ (call'.step = "do" => Past(call') = Past(call))
  BY <1>1, <1>6 DEF Past
<1>11. Counted(call.batch, call.completed, Past(call))'
  <2>1. PICK ok \in SUBSET (1 .. (call.index - 1)) :
          /\ Done \subseteq ok /\ Cardinality(ok) = call.completed
          /\ \A i \in ok : Meant(call.batch, i)
    BY <1>2, <1>10 DEF AgentInv, Progress, Counted
  <2>2. \A i \in 1 .. (call.index - 1) : i \in 1 .. call.index
    BY <1>4
  <2>3. ok \in SUBSET (1 .. Past(call'))
    BY <1>10, <2>1, <2>2
  <2>4. \E more \in SUBSET (1 .. Past(call')) :
          /\ Done \subseteq more /\ Cardinality(more) = call'.completed
          /\ \A i \in more : Meant(call.batch, i)
    BY <1>6, <2>1, <2>3
  <2> QED
    BY <1>1, <1>6, <2>4 DEF Counted, Done, Meant
<1>12. Progress'
  <2>1. request' = None /\ request'.kind = "none"
    BY <1>1, <1>2 DEF AgentInv, Line, None
  <2>2. \A i \in Indexes : i > Past(call') => ran'[i] = <<>>
    <3>1. \A i \in Indexes : i \in Nat
      BY WorldAssumption DEF Indexes
    <3>2. \A i \in Indexes : i > Past(call') => i > Past(call)
      BY <1>4, <1>10, <3>1
    <3> QED
      BY <1>1, <1>2, <3>2 DEF AgentInv, Progress
  <2>3. call'.result = "OK" <=> call'.failed = 0
    BY <1>2, <1>4, <1>6 DEF AgentInv, Progress
  <2>4. call'.failed = 0 => call'.step = "do" /\ call.failed = 0
    BY <1>4, <1>6
  <2>5. call'.failed = 0 =>
            call'.completed = Past(call') /\ \A i \in 1 .. Past(call') : Meant(call'.batch, i)
    BY <1>2, <1>6, <1>10, <2>4 DEF AgentInv, Progress
  <2>6. call'.failed # 0 /\ ~call'.batch.continue =>
            call'.step = "end" /\ call'.failed = call'.index /\ call'.completed = call'.index - 1
    <3> SUFFICES ASSUME call'.failed # 0, ~call'.batch.continue
                 PROVE  call'.step = "end" /\ call'.failed = call'.index /\ call'.completed = call'.index - 1
      OBVIOUS
    <3>1. call.failed = 0 /\ call.completed = call.index - 1
      BY <1>1, <1>2, <1>6, <1>10 DEF AgentInv, Progress
    <3> QED
      BY <1>6, <3>1
  <2>7. /\ call'.index \in DOMAIN call'.batch.actions /\ call'.requested \subseteq pipe'.granted
        /\ call'.view.epoch > 0 /\ \A field \in call'.batch.named : call'.seen[field] = call'.view[field]
    BY <1>1, <1>2, <1>6 DEF AgentInv, Progress
  <2>8. \A b, i : Meant(b, i) => (b.dry \/ b.actions[i] = "physical" \/ ran'[i] = <<"done">>)
    BY <1>1 DEF Meant
  <2>9. call'.failed = 0 => \A i \in 1 .. Past(call') :
          call'.batch.dry \/ call'.batch.actions[i] = "physical" \/ ran'[i] = <<"done">>
    BY <2>5, <2>8
  <2>10. call'.failed = 0 => call'.step # "end"
    BY <2>4
  <2> QED
    BY <1>11, <2>1, <2>2, <2>3, <2>5, <2>6, <2>7, <2>9, <2>10 DEF Progress, Meant
<1>13. Reported'
  BY <1>1, <1>2 DEF AgentInv, Line, None, Reported, VerifiedIsLater
<1> QED
  BY <1>8, <1>9, <1>12, <1>13 DEF AgentInv

-------------------------------------------------------------------------------
(* What an answer to batch b must say for the client to be told the truth.     *)
SaysTruly(b, r) ==
    /\ r.completed + r.failed > 0 =>
        LET done == {i \in Indexes : ran[i] = <<"done">>}
            silent == {i \in DOMAIN b.actions : b.dry \/ b.actions[i] = "physical"}
        IN  /\ Cardinality(done) <= r.completed
            /\ r.completed <= Cardinality(done \cup silent)
            /\ r.failed # 0 /\ ~b.continue =>
                /\ \A i \in Indexes : i > r.failed => ran[i] = <<>>
                /\ r.completed = r.failed - 1
            /\ r.failed = 0 => r.completed = Len(b.actions)
    /\ r.completed = Len(b.actions) /\ r.failed = 0 => Carried(b) /\ r.validated > 0
    /\ r.result = "OK" /\ b.verify =>
        /\ r.next > r.validated
        /\ r.completed = Len(b.actions) /\ r.failed = 0

LEMMA AnswerKeeps ==
    ASSUME AgentInv, NEW p, NEW r \in Acted, BeginWrite(p, r), p = pipe, pipe.authenticated,
           conn # "none", call' = NoCall, UNCHANGED <<client, ran>>,
           conn = "open" =>
             /\ client.phase = "waiting" /\ client.last.kind = "batch"
             /\ SaysTruly(client.last.batch, r)
    PROVE  AgentInv'
<1>1. p \in Pipes /\ desk \in Desks /\ client \in Clients /\ conn \in {"none", "open", "closed"}
  BY DEF AgentInv, Types
<1>2. CASE Lost(p)
  BY <1>2, LossKeeps
<1>3. CASE /\ conn # "closed" /\ pipe' = [p EXCEPT !.state = "writing"]
           /\ request' = None /\ response' = r
           /\ UNCHANGED <<conn, desk>>
  <2>1. /\ conn = "open" /\ client.phase = "waiting" /\ client.last.kind = "batch"
        /\ SaysTruly(client.last.batch, r)
    BY <1>1, <1>3
  <2>2. /\ pipe' \in Pipes /\ pipe'.state = "writing"
        /\ pipe'.granted = pipe.granted /\ pipe'.authenticated = pipe.authenticated
    BY <1>1, <1>3 DEF Pipes
  <2>3. r # None /\ r.kind = "acted" /\ call' = NoCall
    BY DEF Acted, None
  <2>4. Types'
    BY <1>3, <2>2 DEF AgentInv, Types, Responses
  <2>5. Line'
    BY <1>3, <2>1, <2>2, <2>3 DEF AgentInv, Line
  <2>6. Asked'
    BY <1>3, <2>1, <2>3 DEF AgentInv, Asked
  <2>7. Progress'
    BY <1>3, <2>3 DEF Progress, None
  <2>8. Reported'
    <3>1. client.outcome = None
      BY <2>1 DEF AgentInv, Asked
    <3>2. VerifiedIsLater'
      BY <3>1 DEF VerifiedIsLater, None
    <3>3. CompletionIsTrue'
      BY <1>3, <2>1 DEF SaysTruly, CompletionIsTrue
    <3>4. Carried(client.last.batch)' <=> Carried(client.last.batch)
      BY DEF Carried, Meant
    <3> QED
      BY <1>3, <2>1, <3>2, <3>3, <3>4 DEF SaysTruly, Reported
  <2> QED
    BY <2>4, <2>5, <2>6, <2>7, <2>8 DEF AgentInv
<1> QED
  BY <1>1, <1>2, <1>3, BeginWriteEnds

LEMMA BatchKeeps == AgentInv /\ PollBatch => AgentInv'
<1> SUFFICES ASSUME AgentInv, PollBatch PROVE AgentInv'
  OBVIOUS
<1> DEFINE b == request.batch
           error == IF Denied(b, pipe.granted) THEN "CAPABILITY_DENIED"
                    ELSE IF ReadResult # "OK" THEN agent_result(ReadResult)
                    ELSE IF Broken(b, request.seen, View) THEN "STALE_GENERATION" ELSE "OK"
<1>1. /\ pipe.state = "reading" /\ pipe.authenticated /\ request.kind = "batch" /\ call = NoCall
      /\ UNCHANGED <<client, ran>>
  BY DEF PollBatch, Reading
<1>2. request \in Sends /\ request # None /\ response = None /\ conn # "none"
  BY <1>1, RequestKinds DEF AgentInv, Types, Line
<1>3. b \in Batches /\ request.request \in Nat /\ request.seen \in Views
  BY <1>2 DEF Sends
<1>4. conn = "open" => client.phase = "waiting" /\ client.last = request
  <2>1. client.phase \in Phases
    BY DEF AgentInv, Types, Clients
  <2> QED
    BY <1>1, <1>2, <2>1 DEF AgentInv, Line, Asked, Phases
<1>5. desk \in Desks /\ ran = NotRun
  BY <1>1 DEF AgentInv, Types, Progress
<1>6. CASE error # "OK"
  <2> DEFINE r == write_action_error(request.request, error)
  <2>1. error \in Results
    BY <1>5, ReadIs, FailuresTold DEF Failures, Results
  <2>2. /\ r \in Acted /\ r.completed = 0 /\ r.failed = 0 /\ r.result # "OK"
    BY <1>3, <1>6, <2>1 DEF write_action_error, ActionCompletion, Acted
  <2>3. BeginWrite(pipe, r) /\ call' = NoCall
    BY <1>1, <1>6 DEF PollBatch
  <2> HIDE DEF error, r
  <2>4. Len(b.actions) > 0 /\ Len(b.actions) \in Nat
    BY <1>3, BatchIs
  <2>5. SaysTruly(b, r)
    BY <2>2, <2>4 DEF SaysTruly
  <2> QED
    BY <1>1, <1>2, <1>4, <2>2, <2>3, <2>5, AnswerKeeps
<1>7. CASE error = "OK"
  <2>1. /\ call' = Begun(request.request, b, pipe.granted, request.seen, View)
        /\ request' = None /\ UNCHANGED <<pipe, conn, response, desk>>
    BY <1>7 DEF PollBatch
  <2>2. ReadResult = "OK" /\ ~Broken(b, request.seen, View)
    <3>1. ReadResult # "OK" => agent_result(ReadResult) # "OK"
      BY <1>5, ReadIs, FailuresTold DEF Failures
    <3> QED
      BY <1>7, <3>1
  <2> HIDE DEF error
  <2>3. View \in Views /\ View.epoch > 0
    BY <1>5, <2>2, ReadIs
  <2>4. pipe.granted \subseteq Allowed
    BY DEF AgentInv, Types, Pipes
  <2>5. 1 \in Indexes /\ 1 \in DOMAIN b.actions
    BY <1>3, BatchIs, WorldAssumption DEF Indexes
  <2>6. /\ call' \in Calls /\ call'.step = "do" /\ call'.batch = b /\ call'.requested \subseteq pipe.granted
        /\ call'.seen = request.seen /\ call'.view = View /\ call'.index = 1
        /\ call'.completed = 0 /\ call'.failed = 0 /\ call'.result = "OK"
    BY <1>3, <2>1, <2>3, <2>4, <2>5 DEF Begun, Calls, Results
  <2>7. call' # NoCall
    BY <2>6, CallSteps
  <2>8. Types' /\ Line'
    BY <1>1, <1>2, <2>1, <2>6 DEF AgentInv, Types, Line
  <2>9. Asked'
    <3>1. client.phase # "verifying"
      BY <1>2, <1>4 DEF AgentInv, Types, Line
    <3> QED
      BY <1>1, <1>2, <1>4, <2>1, <2>6, <3>1 DEF AgentInv, Asked, Sends
  <2>10. Progress'
    <3>1. \A i \in Indexes : ran'[i] = <<>>
      BY <1>1, <1>5 DEF NotRun
    <3>2. Done' = {} /\ Past(call') = 0
      <4>1. <<>> # <<"done">>
        OBVIOUS
      <4>2. Done' = {i \in Indexes : ran'[i] = <<"done">>}
        BY DEF Done, Indexes
      <4>3. \A i \in Indexes : ran'[i] # <<"done">>
        BY <3>1, <4>1
      <4>4. Done' = {}
        BY <4>2, <4>3
      <4> QED
        BY <2>6, <4>4 DEF Past
    <3>3. Counted(call.batch, call.completed, Past(call))'
      <4>1. Cardinality({}) = 0
        BY FS_EmptySet
      <4>2. \E ok \in SUBSET (1 .. Past(call')) :
              Done' \subseteq ok /\ Cardinality(ok) = call'.completed /\ \A i \in ok : Meant(call.batch, i)'
        <5>1. {} \in SUBSET (1 .. Past(call'))
          OBVIOUS
        <5> QED
          BY <2>6, <3>2, <4>1, <5>1
      <4> QED
        BY <4>2 DEF Counted
    <3>4. request'.kind # "batch"
      BY <2>1 DEF None
    <3>5. \A field \in b.named : request.seen[field] = View[field]
      BY <2>2 DEF Broken
    <3>6. 1 .. Past(call') = {}
      BY <3>2
    <3> QED
      BY <1>1, <2>1, <2>3, <2>5, <2>6, <3>1, <3>2, <3>3, <3>4, <3>5, <3>6 DEF Progress
  <2>11. Reported'
    BY <1>1, <1>2, <2>1 DEF AgentInv, Reported, VerifiedIsLater, None
  <2> QED
    BY <2>8, <2>9, <2>10, <2>11 DEF AgentInv
<1> QED
  BY <1>6, <1>7

(* The completion of a batch says what the loop recorded. *)
LEMMA CompletionIs ==
    ASSUME NEW c \in Calls, c.step = "end", NEW result \in {"OK", "NOT_FOUND", "PERMISSION"},
           NEW epoch \in Nat, c.view.epoch > 0,
           c.result = "OK" <=> c.failed = 0,
           c.index \in DOMAIN c.batch.actions,
           Counted(c.batch, c.completed, c.index),
           \A i \in Indexes : i > c.index => ran[i] = <<>>,
           c.failed = 0 =>
             /\ c.completed = c.index /\ c.index = Len(c.batch.actions)
             /\ \A i \in 1 .. c.index : Meant(c.batch, i),
           c.failed # 0 /\ ~c.batch.continue => c.failed = c.index /\ c.completed = c.index - 1
    PROVE  Completion(c, result, epoch) \in Acted /\ SaysTruly(c.batch, Completion(c, result, epoch))
<1> DEFINE r == Completion(c, result, epoch)
           b == c.batch
           silent == {i \in DOMAIN b.actions : b.dry \/ b.actions[i] = "physical"}
<1>1. /\ b \in Batches /\ c.request \in Nat /\ c.completed \in Nat /\ c.failed \in Nat
      /\ c.view.epoch \in Nat /\ c.result \in Results
  BY DEF Calls, Views
<1>2. DOMAIN b.actions = 1 .. Len(b.actions) /\ Len(b.actions) \in Nat /\ Len(b.actions) > 0
      /\ DOMAIN b.actions \subseteq Indexes
  BY <1>1, BatchIs
<1>3. /\ r \in Acted /\ r.completed = c.completed /\ r.failed = c.failed /\ r.validated = c.view.epoch
      /\ r.result = "OK" /\ b.verify => c.failed = 0 /\ r.next > r.validated
  <2>1. agent_result(result) \in Results /\ (result # "OK" => agent_result(result) # "OK")
    BY FailuresTold DEF Failures, Results
  <2>2. {"OK", "TIMEOUT"} \subseteq Results
    BY DEF Results
  <2>3. CASE c.result = "OK" /\ b.verify /\ result = "OK" /\ epoch > c.view.epoch
    <3>1. r = ActionCompletion(c.request, "OK", c.view.epoch, c.completed, c.failed, epoch)
      BY <2>3 DEF Completion
    <3> QED
      BY <1>1, <2>2, <2>3, <3>1 DEF ActionCompletion, Acted
  <2>4. CASE c.result = "OK" /\ b.verify /\ ~(result = "OK" /\ epoch > c.view.epoch)
    <3>1. r = ActionCompletion(c.request, IF result = "OK" THEN "TIMEOUT" ELSE agent_result(result),
                               c.view.epoch, c.completed, c.failed, 0)
      BY <2>4 DEF Completion
    <3>2. (IF result = "OK" THEN "TIMEOUT" ELSE agent_result(result)) \in Results \ {"OK"}
      BY <2>1, <2>2
    <3> QED
      BY <1>1, <2>4, <3>1, <3>2 DEF ActionCompletion, Acted
  <2>5. CASE ~(c.result = "OK" /\ b.verify)
    <3>1. r = ActionCompletion(c.request, c.result, c.view.epoch, c.completed, c.failed, 0)
      BY <2>5 DEF Completion
    <3> QED
      BY <1>1, <2>5, <3>1 DEF ActionCompletion, Acted
  <2> QED
    BY <2>3, <2>4, <2>5
<1> HIDE DEF r
<1>4. PICK ok \in SUBSET (1 .. c.index) :
        Done \subseteq ok /\ Cardinality(ok) = c.completed /\ \A i \in ok : Meant(b, i)
  BY DEF Counted
<1>5. /\ Cardinality(Done) <= c.completed
      /\ c.completed <= Cardinality(Done \cup silent)
  <2>1. IsFiniteSet(1 .. c.index) /\ IsFiniteSet(1 .. Len(b.actions))
    <3>1. c.index \in Int /\ Len(b.actions) \in Int /\ 1 \in Int
      BY <1>2
    <3> QED
      BY <3>1, FS_Interval
  <2>2. IsFiniteSet(ok) /\ ok \subseteq DOMAIN b.actions
    <3>1. \A i \in 1 .. c.index : i \in 1 .. Len(b.actions)
      BY <1>2
    <3> QED
      BY <1>2, <1>4, <2>1, <3>1, FS_Subset
  <2>3. IsFiniteSet(silent) /\ silent \subseteq DOMAIN b.actions
    BY <1>2, <2>1, FS_Subset
  <2>4. IsFiniteSet(Done)
    BY <1>4, <2>2, FS_Subset
  <2>5. IsFiniteSet(Done \cup silent)
    BY <2>3, <2>4, FS_Union
  <2>6. ok \subseteq Done \cup silent
    BY <1>2, <1>4, <2>2 DEF Meant, Done
  <2>7. Cardinality(Done) <= Cardinality(ok)
    BY <1>4, <2>2, FS_Subset
  <2>8. Cardinality(ok) <= Cardinality(Done \cup silent)
    BY <2>5, <2>6, FS_Subset
  <2> QED
    BY <1>4, <2>7, <2>8
<1>6. c.failed # 0 /\ ~b.continue =>
        (\A i \in Indexes : i > c.failed => ran[i] = <<>>) /\ c.completed = c.failed - 1
  OBVIOUS
<1>7. c.completed = Len(b.actions) /\ c.failed = 0 => Carried(b)
  BY <1>2 DEF Carried
<1>8. c.failed = 0 => c.completed = Len(b.actions)
  OBVIOUS
<1>9. SaysTruly(b, r)
  BY <1>1, <1>3, <1>5, <1>6, <1>7, <1>8 DEF SaysTruly, Done
<1> QED
  BY <1>3, <1>9 DEF r

LEMMA EndKeeps == AgentInv /\ EndOfBatch => AgentInv'
<1> SUFFICES ASSUME AgentInv, EndOfBatch PROVE AgentInv'
  OBVIOUS
<1> DEFINE r == Completion(call, ReadResult, desk.epoch)
<1>1. /\ call.step = "end" /\ BeginWrite(pipe, r) /\ call' = NoCall /\ UNCHANGED <<client, ran>>
  BY DEF EndOfBatch
<1>2. call # NoCall /\ call \in Calls /\ desk \in Desks
  <2>1. call # NoCall
    BY <1>1 DEF NoCall
  <2> QED
    BY <2>1, CallSteps DEF AgentInv, Types
<1>3. pipe.authenticated /\ conn # "none"
  BY <1>2 DEF AgentInv, Line
<1>4. conn = "open" =>
        client.phase = "waiting" /\ client.last.kind = "batch" /\ client.last.batch = call.batch
  BY <1>2 DEF AgentInv, Asked
<1>5. Past(call) = call.index /\ desk.epoch \in Nat
  BY <1>1, <1>2, WorldAssumption DEF Past, Desks
<1>6. r \in Acted /\ SaysTruly(call.batch, r)
  <2>1. ReadResult \in {"OK", "NOT_FOUND", "PERMISSION"}
    BY <1>2, ReadIs
  <2>2. /\ call.index \in DOMAIN call.batch.actions
        /\ call.view.epoch > 0
        /\ Counted(call.batch, call.completed, call.index)
        /\ \A i \in Indexes : i > call.index => ran[i] = <<>>
        /\ call.result = "OK" <=> call.failed = 0
        /\ call.failed = 0 =>
            /\ call.completed = call.index
            /\ call.index = Len(call.batch.actions)
            /\ \A i \in 1 .. call.index : Meant(call.batch, i)
        /\ call.failed # 0 /\ ~call.batch.continue =>
            call.failed = call.index /\ call.completed = call.index - 1
    BY <1>1, <1>2, <1>5 DEF AgentInv, Progress
  <2> QED
    BY <1>1, <1>2, <1>5, <2>1, <2>2, CompletionIs
<1> HIDE DEF r
<1> QED
  BY <1>1, <1>3, <1>4, <1>6, AnswerKeeps

-------------------------------------------------------------------------------
(* The client.  Its steps move neither the desktop nor, but for a request that *)
(* is sent, the record of what was done.                                        *)
LEMMA AwayIs ==
    ASSUME client \in Clients
    PROVE  /\ Away \in Clients /\ Away.phase = "off" /\ Away.outcome = None
           /\ \A a \in {None} \cup Observes :
                /\ [Away EXCEPT !.again = a] \in Clients
                /\ [Away EXCEPT !.again = a].phase = "off" /\ [Away EXCEPT !.again = a].outcome = None
BY DEF Away, Clients, Phases

(* A client that is off waits for nothing. *)
LEMMA OffKeeps ==
    ASSUME AgentInv, client' \in Clients, client'.phase = "off", client'.outcome = None,
           conn' \in {"none", "closed"}, response' = None,
           conn' = "none" => conn = "none", conn # "none" => conn' # "none",
           UNCHANGED <<pipe, request, call, desk, ran>>
    PROVE  AgentInv'
<1>1. Types'
  BY DEF AgentInv, Types
<1>2. Line'
  BY DEF AgentInv, Line
<1>3. Asked'
  BY DEF Asked
<1>4. Progress'
  BY DEF AgentInv, Progress, Counted, Meant, Done
<1>5. Reported'
  BY DEF Reported, VerifiedIsLater, None
<1> QED
  BY <1>1, <1>2, <1>3, <1>4, <1>5 DEF AgentInv

LEMMA LeavesKeeps == AgentInv /\ ClientLeaves => AgentInv'
BY AwayIs, OffKeeps DEF ClientLeaves, AgentInv, Types

LEMMA DisconnectedKeeps == AgentInv /\ ClientDisconnected => AgentInv'
<1> SUFFICES ASSUME AgentInv, ClientDisconnected PROVE AgentInv'
  OBVIOUS
<1>1. client \in Clients /\ conn = "none" /\ response = None
  BY DEF ClientDisconnected, AgentInv, Types, Line
<1>2. Again \in {None} \cup Observes
  <2>1. client.last \in {None} \cup Requests
    BY <1>1 DEF Clients
  <2> QED
    BY <2>1, RequestKinds DEF Again
<1>3. client' = [Away EXCEPT !.again = Again]
  BY DEF ClientDisconnected
<1>4. client' \in Clients /\ client'.phase = "off" /\ client'.outcome = None
  BY <1>1, <1>2, <1>3, AwayIs
<1> QED
  BY <1>1, <1>4, OffKeeps DEF ClientDisconnected

LEMMA ConnectsKeeps == AgentInv /\ ClientConnects => AgentInv'
<1> SUFFICES ASSUME AgentInv, ClientConnects PROVE AgentInv'
  OBVIOUS
<1>1. /\ pipe \in Pipes /\ client \in Clients /\ client.phase = "off" /\ conn = "none"
      /\ ~pipe.authenticated /\ pipe.granted = {} /\ ~desk.held /\ call = NoCall /\ response = None
      /\ UNCHANGED <<response, call, desk, ran>> /\ conn' = "open"
  BY DEF AgentInv, Types, Line, ClientConnects
<1>2. PICK hello \in {Hello(asks) : asks \in Offers} \cup {[kind |-> "garbage"]} :
        request' = hello /\ client' = [client EXCEPT !.phase = "greeting"]
  BY DEF ClientConnects
<1>3. hello \in Requests /\ hello.kind \in {"hello", "garbage"} /\ hello # None
  BY <1>2, WorldAssumption DEF Hello, Requests, Hellos, Garbage, None
<1>4. client' \in Clients /\ client'.phase = "greeting" /\ client'.outcome = None
  BY <1>1, <1>2 DEF AgentInv, Asked, Clients, Phases
<1>5. /\ pipe' \in Pipes /\ pipe'.authenticated = pipe.authenticated /\ pipe'.granted = pipe.granted
  BY <1>1 DEF ClientConnects, Pipes
<1>6. Types'
  BY <1>1, <1>2, <1>3, <1>4, <1>5 DEF AgentInv, Types
<1>7. Line'
  BY <1>1, <1>2, <1>4, <1>5 DEF AgentInv, Line
<1>8. Asked'
  BY <1>1, <1>2, <1>3, <1>4 DEF Asked
<1>9. Progress'
  BY <1>1, <1>2, <1>3 DEF Progress
<1>10. Reported'
  BY <1>1, <1>4 DEF Reported, VerifiedIsLater, None
<1> QED
  BY <1>6, <1>7, <1>8, <1>9, <1>10 DEF AgentInv

(* An answer that was taken leaves the line to the next request. *)
LEMMA TakenFrom ==
    ASSUME AgentInv, response # None
    PROVE  /\ conn = "open" /\ request = None /\ call = NoCall
           /\ client \in Clients /\ client.phase \in {"greeting", "waiting", "verifying"}
           /\ response \in Responses
<1>1. client.phase \in Phases
  BY DEF AgentInv, Types, Clients
<1> QED
  BY <1>1 DEF AgentInv, Types, Line, Phases

LEMMA GreetedKeeps == AgentInv /\ ClientGreeted => AgentInv'
<1> SUFFICES ASSUME AgentInv, ClientGreeted PROVE AgentInv'
  OBVIOUS
<1>1. /\ conn = "open" /\ request = None /\ call = NoCall /\ client \in Clients
      /\ client.phase = "greeting" /\ response # None /\ response' = None
      /\ UNCHANGED <<pipe, call, desk, ran>>
  BY TakenFrom DEF ClientGreeted
<1>2. CASE response.result # "OK"
  <2>1. conn' = "closed" /\ client' = Away /\ UNCHANGED request
    BY <1>2 DEF ClientGreeted
  <2> QED
    BY <1>1, <2>1, AwayIs, OffKeeps
<1>3. CASE response.result = "OK"
  <2>1. pipe.authenticated /\ client.outcome = None
    BY <1>1, <1>3 DEF AgentInv, Asked
  <2>2. UNCHANGED conn
    BY <1>3 DEF ClientGreeted
  <2>3. CASE client.again # None
    <3>1. /\ request' = client.again
          /\ client' = [client EXCEPT !.phase = "waiting", !.last = client.again, !.again = None]
      BY <1>3, <2>3 DEF ClientGreeted
    <3>2. client.again \in Observes /\ client.again \in Requests
      BY <1>1, <2>3 DEF Clients, Requests
    <3>3. /\ client' \in Clients /\ client'.phase = "waiting" /\ client'.last = client.again
          /\ client'.outcome = None
      BY <1>1, <2>1, <3>1, <3>2 DEF Clients, Phases
    <3>4. client.again.kind = "observe" /\ client.again # None
      BY <3>2 DEF Observes, None
    <3>5. Types'
      BY <1>1, <2>2, <3>1, <3>2, <3>3 DEF AgentInv, Types
    <3>6. Line'
      BY <1>1, <2>1, <2>2, <3>3 DEF AgentInv, Line
    <3>7. Asked'
      BY <1>1, <3>1, <3>3, <3>4 DEF Asked
    <3>8. Progress'
      BY <1>1, <3>1, <3>4 DEF Progress
    <3>9. Reported'
      BY <1>1, <3>3 DEF Reported, VerifiedIsLater, None
    <3> QED
      BY <3>5, <3>6, <3>7, <3>8, <3>9 DEF AgentInv
  <2>4. CASE client.again = None
    <3>1. client' = [client EXCEPT !.phase = "ready"] /\ UNCHANGED request
      BY <1>3, <2>4 DEF ClientGreeted
    <3>2. client' \in Clients /\ client'.phase = "ready" /\ client'.outcome = None
      BY <1>1, <2>1, <3>1 DEF Clients, Phases
    <3>3. Types'
      BY <1>1, <2>2, <3>1, <3>2 DEF AgentInv, Types
    <3>4. Line'
      BY <1>1, <2>1, <2>2, <3>1, <3>2 DEF AgentInv, Line
    <3>5. Asked'
      BY <1>1, <3>1, <3>2 DEF Asked
    <3>6. Progress'
      BY <1>1, <3>1 DEF Progress, None
    <3>7. Reported'
      BY <1>1, <3>2 DEF Reported, VerifiedIsLater, None
    <3> QED
      BY <3>3, <3>4, <3>5, <3>6, <3>7 DEF AgentInv
  <2> QED
    BY <2>3, <2>4
<1> QED
  BY <1>2, <1>3

LEMMA SendsKeeps == AgentInv /\ ClientSends => AgentInv'
<1> SUFFICES ASSUME AgentInv, ClientSends PROVE AgentInv'
  OBVIOUS
<1>1. /\ client.phase = "ready" /\ client \in Clients /\ request = None /\ response = None
      /\ ran' = NotRun /\ UNCHANGED <<pipe, conn, response, call, desk>>
  BY DEF AgentInv, Types, Line, ClientSends
<1>2. call = NoCall
  BY <1>1 DEF AgentInv, Types, Line, Asked
<1>3. client.sent + 1 \in Nat /\ client.seen \in Views /\ client.seen.epoch \in Nat
  BY <1>1 DEF Clients, Views
<1> DEFINE n == client.sent + 1
<1>4. PICK m \in {Observe(n, after) : after \in {0, client.seen.epoch}}
                  \cup {Send(n, b) : b \in Batches} \cup {[kind |-> "garbage", request |-> n]} :
        /\ request' = IF conn = "open" THEN m ELSE request
        /\ client' = [client EXCEPT !.phase = "waiting", !.sent = n, !.last = m, !.outcome = None]
  BY DEF ClientSends
<1>5. m \in Requests /\ m.kind # "none" /\ m # None
  <2>1. CASE m \in {Observe(n, after) : after \in {0, client.seen.epoch}}
    BY <1>3, <2>1 DEF Observe, Requests, Observes, None
  <2>2. CASE m \in {Send(n, b) : b \in Batches}
    BY <1>3, <2>2 DEF Send, Requests, Sends, None
  <2>3. CASE m = [kind |-> "garbage", request |-> n]
    BY <1>3, <2>3 DEF Requests, Garbage, None
  <2> QED
    BY <2>1, <2>2, <2>3
<1>6. /\ client' \in Clients /\ client'.phase = "waiting" /\ client'.last = m /\ client'.outcome = None
  BY <1>1, <1>3, <1>4, <1>5 DEF Clients, Phases
<1>7. NotRun \in Runs
  BY DEF NotRun, Runs
<1>8. Types'
  BY <1>1, <1>4, <1>5, <1>6, <1>7 DEF AgentInv, Types
<1>9. Line'
  <2>1. conn # "closed" /\ (conn = "open" => pipe.authenticated)
    BY <1>1 DEF AgentInv, Line
  <2> QED
    BY <1>1, <1>2, <1>4, <1>6, <2>1 DEF AgentInv, Line
<1>10. Asked'
  BY <1>1, <1>2, <1>4, <1>5, <1>6 DEF Asked
<1>11. Progress'
  BY <1>1, <1>2 DEF Progress, NotRun, Indexes
<1>12. Reported'
  BY <1>1, <1>6 DEF Reported, VerifiedIsLater, None
<1> QED
  BY <1>8, <1>9, <1>10, <1>11, <1>12 DEF AgentInv

(* The client asks again, or for what its batch leads to. *)
LEMMA AsksKeeps ==
    ASSUME AgentInv, response # None, client.phase # "greeting", NEW m \in Observes,
           request' = m, response' = None,
           client' \in Clients, client'.outcome = None,
           \/ client'.phase = "waiting" /\ client'.last = m
           \/ /\ client'.phase = "verifying" /\ m.after = client'.verifying.validated
              /\ client'.last.kind = "batch" /\ Carried(client'.last.batch)
              /\ client'.verifying.kind = "acted" /\ client'.verifying.validated > 0,
           UNCHANGED <<pipe, conn, call, desk, ran>>
    PROVE  AgentInv'
<1>1. /\ conn = "open" /\ call = NoCall /\ pipe.authenticated
  BY TakenFrom DEF AgentInv, Line
<1>2. m \in Requests /\ m # None /\ m.kind = "observe"
  BY DEF Requests, Observes, None
<1>3. Types'
  BY <1>2 DEF AgentInv, Types
<1>4. Line'
  BY <1>1 DEF AgentInv, Line
<1>5. Asked'
  BY <1>1, <1>2 DEF Asked, Carried, Meant
<1>6. Progress'
  BY <1>1, <1>2 DEF Progress
<1>7. Reported'
  BY DEF Reported, VerifiedIsLater, None
<1> QED
  BY <1>3, <1>4, <1>5, <1>6, <1>7 DEF AgentInv

(* The client is ready, with an outcome it may rely on. *)
LEMMA ReadyKeeps ==
    ASSUME AgentInv, response # None, client.phase # "greeting",
           UNCHANGED request, response' = None,
           client' \in Clients, client'.phase = "ready",
           client'.outcome # None =>
             /\ client'.last.kind = "batch"
             /\ client'.outcome.result = "OK" =>
                  client'.outcome.next > client'.outcome.validated /\ Carried(client'.last.batch),
           UNCHANGED <<pipe, conn, call, desk, ran>>
    PROVE  AgentInv'
<1>1. /\ conn = "open" /\ request = None /\ call = NoCall /\ pipe.authenticated
  BY TakenFrom DEF AgentInv, Line
<1>2. Types'
  BY DEF AgentInv, Types
<1>3. Line'
  BY <1>1 DEF AgentInv, Line
<1>4. Asked'
  BY <1>1 DEF Asked
<1>5. Progress'
  BY <1>1 DEF Progress, None
<1>6. Reported'
  <2>1. client'.outcome.kind = "acted" => client'.outcome # None
    BY DEF None
  <2>2. VerifiedIsLater'
    BY <2>1 DEF VerifiedIsLater, Carried, Meant
  <2> QED
    BY <2>2 DEF Reported, None
<1> QED
  BY <1>2, <1>3, <1>4, <1>5, <1>6 DEF AgentInv

LEMMA VerifyIs ==
    ASSUME NEW r \in Acted
    PROVE  VerifyRequest(r) \in Observes /\ VerifyRequest(r).after = r.validated
BY DEF VerifyRequest, Observe, Observes, Acted

LEMMA ReceivesKeeps == AgentInv /\ ClientReceives => AgentInv'
<1> SUFFICES ASSUME AgentInv, ClientReceives PROVE AgentInv'
  OBVIOUS
<1>1. /\ client.phase = "waiting" /\ response # None /\ response' = None /\ client \in Clients
      /\ response \in Responses /\ UNCHANGED <<pipe, conn, call, desk, ran>>
      /\ client.last \in {None} \cup Requests /\ client.outcome = None
  <2>1. client.phase = "waiting" /\ client \in Clients
    BY DEF ClientReceives, AgentInv, Types
  <2> QED
    BY <2>1, TakenFrom DEF ClientReceives, AgentInv, Asked, Clients
<1>2. \/ response.kind = "acted" /\ client.last.kind = "batch" /\ response \in Acted
      \/ response.kind = "observed" /\ client.last.kind = "observe" /\ response \in Observed
  BY <1>1, ResponseKinds DEF AgentInv, Asked
<1>3. CASE /\ response.result = "TIMEOUT" /\ client.last.kind = "observe"
           /\ request' = client.last /\ UNCHANGED client
  BY <1>1, <1>3, RequestKinds, AsksKeeps
<1>4. CASE /\ Verifies(response) /\ request' = VerifyRequest(response)
           /\ client' = [client EXCEPT !.phase = "verifying", !.verifying = response]
  <2>1. client.last.kind = "batch" /\ response.kind = "acted" /\ response \in Acted
    BY <1>2, <1>4 DEF Verifies
  <2>2. Carried(client.last.batch) /\ response.validated > 0
    BY <1>4, <2>1 DEF Verifies, AgentInv, Reported
  <2>3. /\ client' \in Clients /\ client'.phase = "verifying" /\ client'.verifying = response
        /\ client'.last = client.last /\ client'.outcome = None
    BY <1>1, <1>4, <2>1 DEF Clients, Phases
  <2> QED
    BY <1>1, <1>4, <2>1, <2>2, <2>3, VerifyIs, AsksKeeps
<1>5. CASE /\ ~Verifies(response) /\ UNCHANGED request
           /\ client' = [client EXCEPT !.phase = "ready",
                !.outcome = IF response.kind = "acted" /\ client.last.batch.verify THEN response ELSE None,
                !.seen = IF response.kind = "observed" /\ response.result = "OK"
                         THEN response.view ELSE @]
  <2> DEFINE outcome == IF response.kind = "acted" /\ client.last.batch.verify THEN response ELSE None
             seen == IF response.kind = "observed" /\ response.result = "OK"
                     THEN response.view ELSE client.seen
  <2>1. outcome \in {None} \cup Acted /\ seen \in Views
    BY <1>1, <1>2 DEF Clients, Observed
  <2>2. outcome # None => response.kind = "acted" /\ client.last.batch.verify /\ outcome = response
    OBVIOUS
  <2> HIDE DEF outcome, seen
  <2>3. client' = [client EXCEPT !.phase = "ready", !.outcome = outcome, !.seen = seen]
    BY <1>5 DEF outcome, seen
  <2>4. /\ client' \in Clients /\ client'.phase = "ready" /\ client'.outcome = outcome
        /\ client'.last = client.last
    BY <1>1, <2>1, <2>3 DEF Clients, Phases
  <2>5. outcome # None =>
          /\ client.last.kind = "batch"
          /\ outcome.result = "OK" => outcome.next > outcome.validated /\ Carried(client.last.batch)
    BY <1>2, <2>2 DEF AgentInv, Reported
  <2> QED
    BY <1>1, <1>5, <2>4, <2>5, ReadyKeeps
<1> QED
  BY <1>3, <1>4, <1>5 DEF ClientReceives

LEMMA VerifiesKeeps == AgentInv /\ ClientVerifies => AgentInv'
<1> SUFFICES ASSUME AgentInv, ClientVerifies PROVE AgentInv'
  OBVIOUS
<1>1. /\ client.phase = "verifying" /\ response # None /\ response' = None /\ client \in Clients
      /\ response \in Responses /\ UNCHANGED <<pipe, conn, call, desk, ran>>
      /\ client.outcome = None
  <2>1. client.phase = "verifying" /\ client \in Clients
    BY DEF ClientVerifies, AgentInv, Types
  <2> QED
    BY <2>1, TakenFrom DEF ClientVerifies, AgentInv, Asked, Clients
<1>2. /\ client.last.kind = "batch" /\ Carried(client.last.batch)
      /\ client.verifying.kind = "acted" /\ client.verifying.validated > 0
      /\ response.kind = "observed" /\ response \in Observed
      /\ response.result = "OK" => response.validated > client.verifying.validated
  BY <1>1, ResponseKinds DEF AgentInv, Asked
<1>3. client.verifying \in Acted
  BY <1>1, <1>2 DEF Clients, None
<1>4. CASE request' = VerifyRequest(client.verifying) /\ UNCHANGED client
  BY <1>1, <1>2, <1>3, <1>4, VerifyIs, AsksKeeps
<1>5. CASE /\ UNCHANGED request
           /\ client' = [client EXCEPT !.phase = "ready", !.verifying = None,
                !.outcome = [client.verifying EXCEPT !.result = response.result,
                                                     !.next = response.validated]]
  <2> DEFINE outcome == [client.verifying EXCEPT !.result = response.result,
                                                 !.next = response.validated]
  <2>1. /\ outcome \in Acted /\ outcome.result = response.result /\ outcome.next = response.validated
        /\ outcome.validated = client.verifying.validated
    BY <1>2, <1>3 DEF Acted, Observed
  <2> HIDE DEF outcome
  <2>2. client' = [client EXCEPT !.phase = "ready", !.verifying = None, !.outcome = outcome]
    BY <1>5 DEF outcome
  <2>3. /\ client' \in Clients /\ client'.phase = "ready" /\ client'.outcome = outcome
        /\ client'.last = client.last
    BY <1>1, <2>1, <2>2 DEF Clients, Phases
  <2> QED
    BY <1>1, <1>2, <1>5, <2>1, <2>3, ReadyKeeps
<1> QED
  BY <1>4, <1>5 DEF ClientVerifies

-------------------------------------------------------------------------------
(* The desktop moves under the channel. *)
LEMMA DesktopKeeps ==
    AgentInv /\ (Publish \/ ObservePhysicalInput \/ SetInputAvailable \/ ForegroundChanges) => AgentInv'
<1> SUFFICES ASSUME AgentInv,
                    Publish \/ ObservePhysicalInput \/ SetInputAvailable \/ ForegroundChanges
             PROVE  AgentInv'
  OBVIOUS
<1>1. desk \in Desks
  BY DEF AgentInv, Types
<1>2. UNCHANGED <<pipeVars, call, client, ran>>
  BY DEF Publish, ObservePhysicalInput, SetInputAvailable, ForegroundChanges
<1>3. desk' \in Desks /\ (desk'.held => desk.held)
  <2>1. CASE Publish
    BY SMTT(60), <1>1, <2>1, WorldAssumption DEF Publish, Desks
  <2>2. CASE ObservePhysicalInput
    BY <1>1, <2>2, ReleasedIs DEF ObservePhysicalInput, Neutralize
  <2>3. CASE SetInputAvailable
    <3>1. desk' = [Released EXCEPT !.permission = @ + 1, !.available = ~@]
          /\ desk.permission < MaxPermission /\ desk.permission \in 1 .. MaxPermission
      BY <1>1, <2>3 DEF SetInputAvailable, Desks
    <3>2. Released.permission + 1 \in 1 .. MaxPermission
      <4>1. MaxPermission \in Nat
        BY WorldAssumption
      <4>2. \A p \in 1 .. MaxPermission : p < MaxPermission => p + 1 \in 1 .. MaxPermission
        BY <4>1
      <4> QED
        BY <1>1, <3>1, <4>2, ReleasedIs
    <3>3. (~Released.available) \in BOOLEAN
      BY Zenon
    <3> QED
      BY <1>1, <3>1, <3>2, <3>3, ReleasedIs DEF Desks
  <2>4. CASE ForegroundChanges
    BY <1>1, <2>4 DEF ForegroundChanges, Desks
  <2> QED
    BY <2>1, <2>2, <2>3, <2>4
<1> QED
  BY <1>2, <1>3, DeskKeeps

LEMMA InitHolds == Init => AgentInv
<1> SUFFICES ASSUME Init PROVE AgentInv
  OBVIOUS
<1>1. Types
  <2>1. pipe \in Pipes
    BY DEF Init, Pipes
  <2>2. PICK w \in Windows : desk = [epoch |-> 0, focus |-> w, permission |-> 1, available |-> TRUE,
                                     held |-> FALSE]
    BY DEF Init
  <2>3. desk \in Desks
    BY <2>2, WorldAssumption DEF Desks
  <2>4. client \in Clients
    BY DEF Init, Clients, Phases, Views, NoView
  <2>5. ran \in Runs
    BY DEF Init, NotRun, Runs
  <2> QED
    BY <2>1, <2>3, <2>4, <2>5 DEF Init, Types
<1>2. call = NoCall /\ request = None /\ response = None /\ conn = "none" /\ client.phase = "off"
      /\ client.outcome = None /\ ~desk.held /\ ~pipe.authenticated /\ pipe.granted = {}
  BY DEF Init
<1>3. Line
  BY <1>2 DEF Line
<1>4. Asked
  BY <1>2 DEF Asked
<1>5. Progress
  BY <1>2 DEF Progress, None
<1>6. Reported
  BY <1>2 DEF Reported, VerifiedIsLater, None
<1> QED
  BY <1>1, <1>3, <1>4, <1>5, <1>6 DEF AgentInv

LEMMA NextKeeps == AgentInv /\ [Next]_vars => AgentInv'
<1> SUFFICES ASSUME AgentInv, [Next]_vars PROVE AgentInv'
  OBVIOUS
<1>1. CASE Poll
  BY <1>1, ConnectedKeeps, HelloKeeps, ObserveKeeps, RefusedKeeps, BatchKeeps, WrittenKeeps,
     LookKeeps, ActKeeps, EndKeeps DEF Poll
<1>2. CASE Stop \/ Start
  BY <1>2, StopKeeps, StartKeeps
<1>3. CASE \/ ClientConnects \/ ClientGreeted \/ ClientSends \/ ClientReceives \/ ClientVerifies
           \/ ClientLeaves \/ ClientDisconnected
  BY <1>3, ConnectsKeeps, GreetedKeeps, SendsKeeps, ReceivesKeeps, VerifiesKeeps, LeavesKeeps,
     DisconnectedKeeps
<1>4. CASE Publish \/ ObservePhysicalInput \/ SetInputAvailable \/ ForegroundChanges
  BY <1>4, DesktopKeeps
<1>5. CASE UNCHANGED vars
  <2>1. desk' \in Desks /\ (desk'.held => desk.held) /\ UNCHANGED <<pipeVars, call, client, ran>>
    BY <1>5 DEF vars, pipeVars, AgentInv, Types
  <2> QED
    BY <2>1, DeskKeeps
<1> QED
  BY <1>1, <1>2, <1>3, <1>4, <1>5 DEF Next

LEMMA AgentInvariant == Spec => []AgentInv
BY InitHolds, NextKeeps, PTL DEF Spec

-------------------------------------------------------------------------------
(* What the channel holds down it holds for a client that is connected and was *)
(* granted something (AgentPipe::reconnect, Application::neutralize).           *)
THEOREM HeldForClients == Spec => []HeldIsTheClients
<1>1. AgentInv => HeldIsTheClients
  <2> SUFFICES ASSUME AgentInv PROVE HeldIsTheClients
    OBVIOUS
  <2>1. Types /\ Line
    BY DEF AgentInv
  <2>2. call.step \in {"none", "do", "look", "end"}
    BY <2>1 DEF Types, Calls, NoCall
  <2>3. pipe.authenticated \in BOOLEAN /\ pipe.listening \in BOOLEAN /\ pipe.granted \subseteq Allowed
    BY <2>1 DEF Types, Pipes
  <2>4. ran \in [Indexes -> Seq({"done", "part"})]
    <3>1. {<<>>, <<"done">>, <<"part">>} \subseteq Seq({"done", "part"})
      OBVIOUS
    <3> QED
      BY <2>1, <3>1 DEF Types, Runs
  <2>5. TypeOK
    BY <2>1, <2>2, <2>3, <2>4 DEF Types, Line, Pipes, Desks, Clients, TypeOK
  <2> QED
    BY <2>1, <2>5 DEF HeldIsTheClients, Line
<1> QED
  BY <1>1, AgentInvariant, PTL

(* No action of a request reaches the system twice; what the client is told of *)
(* a batch is what the executor did; and a generation it takes for the outcome  *)
(* of its batch came after the one the batch was validated on (Service::act,    *)
(* AgentClient::verify_action, Server::transact).                               *)
THEOREM ClientsAreTold == Spec => []ClientIsTold
<1>1. AgentInv => ClientIsTold
  <2> SUFFICES ASSUME AgentInv PROVE ClientIsTold
    OBVIOUS
  <2>1. DispatchedOnce
    <3>1. \A s \in {<<>>, <<"done">>, <<"part">>} : Len(s) <= 1
      OBVIOUS
    <3>2. \A i \in Indexes : ran[i] \in {<<>>, <<"done">>, <<"part">>}
      BY DEF AgentInv, Types, Runs
    <3>3. \A i \in Indexes : Len(ran[i]) <= 1
      BY <3>1, <3>2, Zenon
    <3> QED
      BY <3>3 DEF DispatchedOnce
  <2>2. CompletionIsTrue
    <3>1. CASE response.kind = "acted"
      BY <3>1 DEF AgentInv, Reported
    <3>2. CASE response.kind # "acted"
      BY <3>2 DEF CompletionIsTrue
    <3> QED
      BY <3>1, <3>2
  <2>3. VerifiedIsLater
    BY DEF AgentInv, Reported
  <2> QED
    BY <2>1, <2>2, <2>3 DEF ClientIsTold
<1> QED
  BY <1>1, AgentInvariant, PTL

(* The only step that records anything during a batch is an action of it. *)
LEMMA OnlyActRecords ==
    ASSUME AgentInv, [Next]_vars, ~Act
    PROVE  /\ \A i \in Indexes : ~(Len(ran'[i]) > Len(ran[i]))
           /\ call # NoCall /\ call' # NoCall => ran' = ran /\ desk'.held = desk.held
<1>1. \A i \in Indexes : Len(ran[i]) \in Nat
  <2>1. Len(<<>>) = 0 /\ Len(<<"done">>) = 1 /\ Len(<<"part">>) = 1
    OBVIOUS
  <2>2. \A i \in Indexes : ran[i] \in {<<>>, <<"done">>, <<"part">>}
    BY DEF AgentInv, Types, Runs
  <2> QED
    BY <2>1, <2>2
<1>2. CASE UNCHANGED ran /\ (call = NoCall \/ call' = NoCall \/ desk'.held = desk.held)
  BY <1>1, <1>2
<1>3. CASE ClientSends
  <2>1. client.phase = "ready" /\ ran' = NotRun
    BY <1>3 DEF ClientSends
  <2>2. call = NoCall
    BY <2>1 DEF AgentInv, Types, Line, Asked
  <2>3. \A i \in Indexes : Len(ran'[i]) = 0
    BY <2>1 DEF NotRun
  <2> QED
    BY <1>1, <2>2, <2>3
<1>4. PollConnected \/ PollHello \/ PollWritten \/ Start => call = NoCall
  BY DEF AgentInv, Line, PollConnected, PollHello, PollWritten, Start
<1>5. PollObserve \/ PollRefused \/ PollBatch \/ Stop => call = NoCall
  BY DEF PollObserve, PollRefused, PollBatch, Reading, Stop
<1>6. EndOfBatch => call' = NoCall
  BY DEF EndOfBatch
<1>7. ForegroundChanges => desk'.held = desk.held
  BY DEF ForegroundChanges, AgentInv, Types, Desks
<1>8. Publish \/ ObservePhysicalInput \/ SetInputAvailable => call = NoCall
  BY DEF Publish, ObservePhysicalInput, SetInputAvailable
<1>9. LookAgain => UNCHANGED <<desk, ran>>
  BY DEF LookAgain
<1>10. ClientConnects \/ ClientGreeted \/ ClientReceives \/ ClientVerifies \/ ClientLeaves
         \/ ClientDisconnected => UNCHANGED <<desk, ran>>
  BY DEF ClientConnects, ClientGreeted, ClientReceives, ClientVerifies, ClientLeaves, ClientDisconnected
<1>11. PollConnected \/ PollHello \/ PollWritten \/ Start \/ PollObserve \/ PollRefused \/ PollBatch
         \/ Stop \/ EndOfBatch \/ ForegroundChanges \/ Publish \/ ObservePhysicalInput
         \/ SetInputAvailable => UNCHANGED ran
  BY DEF PollConnected, PollHello, PollWritten, Start, PollObserve, PollRefused, PollBatch,
         Stop, EndOfBatch, ForegroundChanges, Publish, ObservePhysicalInput, SetInputAvailable
<1>12. UNCHANGED vars => UNCHANGED <<desk, ran>>
  BY DEF vars
<1> QED
  BY <1>2, <1>3, <1>4, <1>5, <1>6, <1>7, <1>8, <1>9, <1>10, <1>11, <1>12 DEF Next, Poll

(* What reaches the system was granted, and is what the batch was validated on: *)
(* the preflight of the pipeline (DesktopPipeline::preflight_input) at the      *)
(* command, the preconditions of the service at the start; a dry run reaches    *)
(* nothing.                                                                     *)
THEOREM DispatchesAgreed == Spec => DispatchIsAgreed
<1> DEFINE Agreed == (\E i \in Indexes : Len(ran'[i]) > Len(ran[i])) =>
        LET kind == call.batch.actions[call.index] IN
        /\ required_capability(kind) \subseteq pipe.granted
        /\ kind \in Planned =>
            /\ desk.available /\ desk.focus # Secure
            /\ desk.epoch = call.view.epoch /\ desk.permission = call.view.permission
            /\ Process[desk.focus] = Process[call.view.focus]
            /\ kind \in {"click", "hold", "text"} =>
                \A field \in call.batch.named : desk[field] = call.seen[field]
           Dry == call # NoCall /\ call' # NoCall /\ call.batch.dry =>
                    ran' = ran /\ desk'.held = desk.held
<1>1. AgentInv /\ [Next]_vars => Agreed /\ Dry
  <2> SUFFICES ASSUME AgentInv, [Next]_vars PROVE Agreed /\ Dry
    OBVIOUS
  <2>1. CASE ~Act
    BY <2>1, OnlyActRecords
  <2>2. CASE Act
    <3> DEFINE kind == call.batch.actions[call.index]
    <3>1. /\ call # NoCall /\ call.batch \in Batches
          /\ \E did \in {"nothing", "done", "part"} :
               /\ ran' = IF did = "nothing" THEN ran ELSE [ran EXCEPT ![call.index] = Append(@, did)]
               /\ call.batch.dry => did = "nothing" /\ desk' = desk
               /\ did # "nothing" =>
                    /\ required_capability(kind) \subseteq call.requested
                    /\ kind \in Planned =>
                        desk.available /\ desk.focus # Secure /\ Preflight(kind, call.view) = "OK"
      BY <2>2, ActRecords
    <3>2. PICK did \in {"nothing", "done", "part"} :
               /\ ran' = IF did = "nothing" THEN ran ELSE [ran EXCEPT ![call.index] = Append(@, did)]
               /\ call.batch.dry => did = "nothing" /\ desk' = desk
               /\ did # "nothing" =>
                    /\ required_capability(kind) \subseteq call.requested
                    /\ kind \in Planned =>
                        desk.available /\ desk.focus # Secure /\ Preflight(kind, call.view) = "OK"
      BY <3>1
    <3>3. Dry
      BY <3>2
    <3>4. CASE did = "nothing"
      <4>1. \A i \in Indexes : Len(ran[i]) \in Nat
        <5>1. Len(<<>>) = 0 /\ Len(<<"done">>) = 1 /\ Len(<<"part">>) = 1
          OBVIOUS
        <5>2. \A i \in Indexes : ran[i] \in {<<>>, <<"done">>, <<"part">>}
          BY DEF AgentInv, Types, Runs
        <5> QED
          BY <5>1, <5>2
      <4> QED
        BY <3>2, <3>3, <3>4, <4>1
    <3>5. CASE did # "nothing"
      <4>1. /\ call.requested \subseteq pipe.granted
            /\ \A field \in call.batch.named : call.seen[field] = call.view[field]
        BY <3>1 DEF AgentInv, Progress
      <4>2. kind \in Planned =>
              /\ desk.available /\ desk.focus # Secure
              /\ desk.epoch = call.view.epoch /\ desk.permission = call.view.permission
              /\ Process[desk.focus] = Process[call.view.focus]
              /\ kind \in {"click", "hold", "text"} => desk.focus = call.view.focus
        BY <3>2, <3>5 DEF Preflight
      <4>3. call.batch.named \subseteq {"epoch", "focus", "permission"}
        BY <3>1, BatchIs
      <4>4. kind \in Planned /\ kind \in {"click", "hold", "text"} =>
              \A field \in call.batch.named : desk[field] = call.seen[field]
        BY <4>1, <4>2, <4>3
      <4> QED
        BY <3>2, <3>3, <3>5, <4>1, <4>2, <4>4
    <3> QED
      BY <3>4, <3>5
  <2> QED
    BY <2>1, <2>2
<1>2. AgentInv /\ [Next]_vars => [Agreed]_vars /\ [Dry]_vars
  BY <1>1
<1>3. Spec => [][Agreed]_vars /\ [][Dry]_vars
  BY <1>2, AgentInvariant, PTL DEF Spec
<1> QED
  BY <1>3 DEF DispatchIsAgreed, DispatchedAsAgreed, DryRunTouchesNothing
===============================================================================
