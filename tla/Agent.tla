-------------------------------- MODULE Agent --------------------------------
(* The local agent channel: a client (src/tools/agent_client.cpp, and the MCP   *)
(* server that owns one), the named pipe the owner thread polls                 *)
(* (src/platform/windows/agent_pipe.cpp), the service that answers it           *)
(* (src/src/agent/service.cpp) and the desktop the actions reach through the    *)
(* callbacks of the pipeline (src/platform/windows/desktop_pipeline.cpp).       *)
(*                                                                             *)
(* One poll of the pipe is one step, except that a batch runs with one step for *)
(* every look at the desktop and one for every action: the foreground window    *)
(* changes under it.  Scenes, user input and permissions reach the pipeline on  *)
(* the owner thread, so never inside a call.  The executor is seen from above:  *)
(* whether it holds a button, and what it did of each action.  A message that   *)
(* is not well formed is of the one kind "garbage"; targets, points, texts and  *)
(* byte counts are left out.                                                    *)
EXTENDS Naturals, Sequences, FiniteSets

-------------------------------------------------------------------------------
(* The service: what it answers to one message of a client, and the loop that   *)
(* runs a batch of actions, given what the desktop shows when it looks. What    *)
(* the planner and the executor say of an action is an input of the loop.       *)
CONSTANT Allowed        \* capability_bits: what the platform grants

Capabilities == {"observe", "pointer", "keyboard", "window", "clipboard"}
ASSUME AllowedAssumption == Allowed \subseteq Capabilities

(* The kinds of action that differ here: "timed" is one with a duration.        *)
Kinds == {"click", "hold", "release", "key", "text", "cycle", "abort", "physical", "timed"}
Planned == {"click", "hold", "release", "key", "text"}      \* action_kind
action_supported(kind) == kind # "timed"

required_capability(kind) ==
    CASE kind = "key" -> {"keyboard"}
      [] kind = "text" -> {"keyboard", "pointer"}
      [] kind = "cycle" -> {"window"}
      [] kind = "physical" -> {"observe"}
      [] kind \in {"click", "hold", "release", "abort", "timed"} -> {"pointer"}

(* A batch, and what of the view it was built on it names as preconditions.     *)
Batch ==
    [actions : Seq(Kinds), asks : SUBSET Capabilities, named : SUBSET {"epoch", "focus", "permission"},
     dry : BOOLEAN, verify : BOOLEAN, continue : BOOLEAN]

agent_result(result) ==
    CASE result = "OK" -> "OK"
      [] result \in {"INVALID_ARGUMENT", "STATE"} -> "INVALID_MESSAGE"
      [] result = "STALE_HANDLE" -> "STALE_GENERATION"
      [] result = "NOT_FOUND" -> "TARGET_NOT_FOUND"
      [] result = "PERMISSION" -> "PERMISSION_DENIED"
      [] result = "TIMEOUT" -> "TIMEOUT"
      [] result = "UNSUPPORTED" -> "ACTION_UNSUPPORTED"
      [] result \in {"BACKEND", "BUSY"} -> "BACKEND"

-------------------------------------------------------------------------------
(* What a client is told.  A batch that was refused as a whole has completed no *)
(* action, and names none as failed (failed = 0).                               *)
ObserveCompletion(request, result, view) ==
    [kind |-> "observed", request |-> request, result |-> result, validated |-> view.epoch, view |-> view]
ActionCompletion(request, result, validated, completed, failed, next) ==
    [kind |-> "acted", request |-> request, result |-> result, validated |-> validated,
     completed |-> completed, failed |-> failed, next |-> next]
write_action_error(request, result) == ActionCompletion(request, result, 0, 0, 0, 0)

(* observe: after = 0 asks for the latest scene.  `result' is what acquiring the *)
(* scene and reading the state returned, and view what they are.                *)
NoView == [epoch |-> 0, focus |-> "none", permission |-> 0]
freshness_satisfied(after, epoch) == after = 0 \/ epoch > after
observe(request, after, granted, result, view) ==
    IF "observe" \notin (Allowed \cap granted) THEN ObserveCompletion(request, "CAPABILITY_DENIED", NoView)
    ELSE IF result # "OK" THEN ObserveCompletion(request, agent_result(result), NoView)
    ELSE IF ~freshness_satisfied(after, view.epoch) THEN ObserveCompletion(request, "TIMEOUT", NoView)
    ELSE ObserveCompletion(request, "OK", view)

-------------------------------------------------------------------------------
(* act, between two actions: the batch, what was validated, where the loop is   *)
(* and what it has recorded.  step says whether the next action has been looked *)
(* at ("do") or not ("look"), or the loop is over ("end").                      *)
NoCall == [step |-> "none"]
Begun(request, batch, granted, seen, view) ==
    [step |-> "do", request |-> request, batch |-> batch,
     requested |-> Allowed \cap granted \cap batch.asks, seen |-> seen, view |-> view,
     index |-> 1, completed |-> 0, failed |-> 0, result |-> "OK"]

Denied(batch, granted) ==
    \/ ~(batch.asks \subseteq Allowed \cap granted)
    \/ batch.verify /\ "observe" \notin (Allowed \cap granted)

(* A precondition the batch names does not hold of the view.                    *)
Broken(batch, seen, view) == \E field \in batch.named : seen[field] # view[field]

(* What is refused before the desktop is asked to do anything.                  *)
RefusedOf(kind, requested) ==
    CASE ~action_supported(kind) -> "UNSUPPORTED"
      [] action_supported(kind) /\ ~(required_capability(kind) \subseteq requested) -> "PERMISSION"
      [] action_supported(kind) /\ required_capability(kind) \subseteq requested -> "OK"
Refused(c) == RefusedOf(c.batch.actions[c.index], c.requested)

(* The agent's word for a refusal: a capability that was not asked for is not   *)
(* a permission the system withholds.                                           *)
Told(c, result) ==
    IF Refused(c) = "PERMISSION" THEN "CAPABILITY_DENIED" ELSE agent_result(result)

(* Mutant: the loop goes on after a failure whatever the policy.                *)
AfterStubborn(c, result) ==
    LET last == c.index = Len(c.batch.actions)
    IN  [c EXCEPT !.completed = IF result = "OK" THEN @ + 1 ELSE @,
                  !.result = IF result = "OK" THEN @ ELSE Told(c, result),
                  !.failed = IF result = "OK" THEN @ ELSE c.index,
                  !.index = IF last THEN @ ELSE @ + 1,
                  !.step = IF last THEN "end" ELSE "look"]

(* The action is recorded; a failure stops the batch unless it is to continue.  *)
After(c, result) ==
    LET last == c.index = Len(c.batch.actions) \/ (result # "OK" /\ ~c.batch.continue)
    IN  [c EXCEPT !.completed = IF result = "OK" THEN @ + 1 ELSE @,
                  !.result = IF result = "OK" THEN @ ELSE Told(c, result),
                  !.failed = IF result = "OK" THEN @ ELSE c.index,
                  !.index = IF last THEN @ ELSE @ + 1,
                  !.step = IF last THEN "end" ELSE "look"]

(* Before every action but the first the desktop is looked at again; whatever   *)
(* the policy, the batch ends when it is no longer the one that was validated.  *)
Look(c, result, view) ==
    LET seen == IF result = "OK" /\ view # c.view THEN "STALE_HANDLE" ELSE result
    IN  IF seen = "OK" THEN [c EXCEPT !.step = "do"]
        ELSE [c EXCEPT !.result = agent_result(seen), !.failed = c.index, !.step = "end"]

(* The end of act: a batch that wants its next generation gets it if a scene    *)
(* was published by the actions themselves, and "verification pending" if not.  *)
Completion(c, result, epoch) ==
    IF c.result = "OK" /\ c.batch.verify
    THEN IF result = "OK" /\ epoch > c.view.epoch
         THEN ActionCompletion(c.request, "OK", c.view.epoch, c.completed, c.failed, epoch)
         ELSE ActionCompletion(c.request, IF result = "OK" THEN "TIMEOUT" ELSE agent_result(result),
                               c.view.epoch, c.completed, c.failed, 0)
    ELSE ActionCompletion(c.request, c.result, c.view.epoch, c.completed, c.failed, 0)

-------------------------------------------------------------------------------
(* The pipe, its clients and the desktop. *)
CONSTANTS
    Windows, Secure,        \* what may be in the foreground, Secure not qualified
    Process,                \* the process of each window
    Batches, Offers,        \* what clients send, what they ask for in hello
    MaxActions,             \* the longest batch
    MaxRequests,            \* bound on the requests of clients
    MaxConnections,         \* bound on their connections
    MaxEpoch, MaxPermission,\* bounds on scenes and on changes of permission
    MaxFaults               \* bound on the pipe refusing to listen

ASSUME WorldAssumption ==
    /\ Secure \notin Windows /\ Windows # {}
    /\ Process \in [Windows \cup {Secure} -> Nat]
    /\ Batches \subseteq Batch /\ MaxActions \in Nat
    /\ \A b \in Batches : Len(b.actions) \in 1 .. MaxActions
    /\ Offers \subseteq SUBSET Capabilities
    /\ {MaxRequests, MaxConnections, MaxEpoch, MaxFaults} \subseteq Nat /\ MaxPermission \in Nat \ {0}

VARIABLES
    pipe,       \* the endpoint: state_, authenticated_, client_capability_bits_
    conn,       \* the other end of the pipe
    request,    \* the message that waits to be read
    response,   \* the message that waits to be taken
    call,       \* the batch that runs
    desk,       \* scene_epoch, foreground, permission_epoch, availability, what is held
    client,     \* the client program
    ran         \* what the executor did of every action of the last request sent
vars == <<pipe, conn, request, response, call, desk, client, ran>>
pipeVars == <<pipe, conn, request, response>>

None == [kind |-> "none"]
Indexes == 1 .. MaxActions
NotRun == [i \in Indexes |-> <<>>]

Init ==
    /\ pipe = [state |-> "connecting", listening |-> TRUE, authenticated |-> FALSE,
               granted |-> {}, connections |-> 0, faults |-> 0]
    /\ conn = "none" /\ request = None /\ response = None /\ call = NoCall
    /\ desk \in {[epoch |-> 0, focus |-> w, permission |-> 1, available |-> TRUE,
                  held |-> FALSE] : w \in Windows}
    /\ client = [phase |-> "off", seen |-> NoView, sent |-> 0, last |-> None,
                 again |-> None, verifying |-> None, outcome |-> None]
    /\ ran = NotRun

-------------------------------------------------------------------------------
(* The desktop as the service reads it. *)
View == [epoch |-> desk.epoch, focus |-> desk.focus, permission |-> desk.permission]
ReadResult ==               \* acquire_agent_scene, then read_agent_environment
    IF desk.epoch = 0 THEN "NOT_FOUND" ELSE IF desk.focus = Secure THEN "PERMISSION" ELSE "OK"

Released == [desk EXCEPT !.held = FALSE]
Outcome(result, d, did) == [result |-> result, desk |-> d, did |-> did]

(* Mutant: the window of a plan is not looked at. *)
PreflightByProcess(kind, view) ==
    IF ~desk.available \/ desk.focus = Secure THEN "PERMISSION"
    ELSE IF \/ desk.epoch # view.epoch \/ desk.permission # view.permission
            \/ Process[desk.focus] # Process[view.focus]
    THEN "STALE_HANDLE" ELSE "OK"

(* preflight_input at the moment of a command: the permission, the surface, the *)
(* scene and the focus the plan was built for; the window only for a plan that  *)
(* has a target.                                                                *)
Preflight(kind, view) ==
    IF ~desk.available \/ desk.focus = Secure THEN "PERMISSION"
    ELSE IF \/ desk.epoch # view.epoch \/ desk.permission # view.permission
            \/ Process[desk.focus] # Process[view.focus]
            \/ kind \in {"click", "hold", "text"} /\ desk.focus # view.focus
    THEN "STALE_HANDLE" ELSE "OK"

(* planner_.build and execute_plan.  The planner does not find every target, an *)
(* executor with a plan under way is busy, and the reducer refuses to press     *)
(* what is held and to release what is not.  A live plan that fails at a        *)
(* command releases everything, a dry run never reaches the system.             *)
ExecutePlan(kind, view, dry) ==
    LET held == CASE kind = "hold" -> TRUE [] kind = "release" -> FALSE
                  [] kind \in {"click", "key", "text"} -> desk.held
        legal == IF kind = "hold" THEN ~desk.held ELSE kind = "release" => desk.held
    IN  {Outcome(r, desk, "nothing") :
            r \in {"BUSY", "UNSUPPORTED"} \cup
                  IF kind \in {"click", "hold", "text"} THEN {"NOT_FOUND"} ELSE {}}
        \cup
        IF ~desk.available \/ desk.focus = Secure THEN {Outcome("PERMISSION", desk, "nothing")}
        ELSE IF ~legal THEN {Outcome("STATE", desk, "nothing")}
        ELSE IF dry THEN {Outcome(Preflight(kind, view), desk, "nothing")}
        ELSE IF Preflight(kind, view) # "OK"
        THEN {Outcome(r, Released, "nothing") : r \in {Preflight(kind, view), "BACKEND"}}
        ELSE {Outcome("OK", [desk EXCEPT !.held = held], "done"),
              Outcome("BACKEND", Released, "part")}

(* navigate_window for an agent: the window that comes next is activated, and   *)
(* what follows the activation may fail.  A foreground that changes inside it   *)
(* is refused.                                                                  *)
CycleWindow ==
    {Outcome(r, desk, "nothing") : r \in {"NOT_FOUND", "STALE_HANDLE", "BACKEND"}}
    \cup IF ~desk.available \/ desk.focus = Secure THEN {Outcome("PERMISSION", desk, "nothing")}
         ELSE UNION {{Outcome("OK", [desk EXCEPT !.focus = w], "done"),
                      Outcome("BACKEND", [desk EXCEPT !.focus = w], "part")} :
                        w \in Windows \ {desk.focus}}

AbortInput == {Outcome("OK", Released, "done"), Outcome("BACKEND", Released, "part")}

(* Mutant: a dry run aborts. *)
PerformAbortingDry(c, kind) ==
    CASE kind = "physical" -> {Outcome("OK", desk, "nothing")}
      [] kind = "abort" -> AbortInput
      [] kind = "cycle" -> IF c.batch.dry THEN {Outcome("OK", desk, "nothing")} ELSE CycleWindow
      [] kind \in Planned -> ExecutePlan(kind, c.view, c.batch.dry)

(* One action of a batch that is supported and permitted.                       *)
Perform(c, kind) ==
    CASE kind = "physical" -> {Outcome("OK", desk, "nothing")}
      [] kind = "abort" -> IF c.batch.dry THEN {Outcome("OK", desk, "nothing")} ELSE AbortInput
      [] kind = "cycle" -> IF c.batch.dry THEN {Outcome("OK", desk, "nothing")} ELSE CycleWindow
      [] kind \in Planned -> ExecutePlan(kind, c.view, c.batch.dry)
-------------------------------------------------------------------------------
(* The pipe.  Every operation ends in one of these.                             *)
BeginConnect(p) ==
    \E listening \in IF p.faults < MaxFaults THEN BOOLEAN ELSE {TRUE} :
        /\ pipe' = [p EXCEPT !.state = "connecting", !.listening = listening,
                             !.faults = IF listening THEN @ ELSE @ + 1]
        /\ conn' = "none" /\ request' = None /\ response' = None

(* Mutant: the connection is forgotten before the callback is asked for. *)
ReconnectSilently(p) ==
    /\ BeginConnect([p EXCEPT !.authenticated = FALSE, !.granted = {}])
    /\ UNCHANGED desk

(* config_.disconnect is Application::neutralize. *)
Neutralize == desk' = Released

Reconnect(p) ==
    /\ IF p.authenticated THEN Neutralize ELSE UNCHANGED desk
    /\ BeginConnect([p EXCEPT !.authenticated = FALSE, !.granted = {}])

(* A read of a pipe whose client has left fails at once, unless a message of    *)
(* the client is still in it; a write to it always fails.                       *)
BeginRead(p) ==
    IF conn = "closed" /\ request = None THEN Reconnect(p)
    ELSE /\ pipe' = [p EXCEPT !.state = "reading"]
         /\ UNCHANGED <<conn, request, response, desk>>

BeginWrite(p, completion) ==
    IF conn = "closed" THEN Reconnect(p)
    ELSE /\ pipe' = [p EXCEPT !.state = "writing"]
         /\ request' = None /\ response' = completion
         /\ UNCHANGED <<conn, desk>>

(* complete_connect; a connection that never began reads as one that is made.   *)
PollConnected ==
    /\ pipe.state = "connecting" /\ (conn # "none" \/ ~pipe.listening)
    /\ BeginRead([pipe EXCEPT !.authenticated = FALSE, !.granted = {}])
    /\ UNCHANGED <<call, client, ran>>

(* hello: what the client asks for and the platform grants, if anything.        *)
Grant(asks) == asks \cap Allowed
PollHello ==
    /\ pipe.state = "reading" /\ ~pipe.authenticated /\ request # None
    /\ LET granted == IF request.kind = "hello" THEN Grant(request.asks) ELSE {}
       IN  BeginWrite([pipe EXCEPT !.granted = granted, !.authenticated = granted # {}],
                [kind |-> "hello", granted |-> granted,
                 result |-> IF request.kind # "hello" \/ request.asks = {} THEN "INVALID_MESSAGE"
                            ELSE IF granted = {} THEN "CAPABILITY_DENIED" ELSE "OK"])
    /\ UNCHANGED <<call, client, ran>>

Reading(kind) ==
    /\ pipe.state = "reading" /\ pipe.authenticated /\ request.kind = kind /\ call = NoCall

PollObserve ==
    /\ Reading("observe")
    /\ BeginWrite(pipe, observe(request.request, request.after, pipe.granted, ReadResult, View))
    /\ UNCHANGED <<call, client, ran>>

(* Mutant: a read that finds its client gone is taken for one still under way. *)
PollRefusedMessage ==
    /\ \E kind \in {"garbage", "hello", "batch"} : Reading(kind)
    /\ Reconnect(pipe)
    /\ UNCHANGED <<call, client, ran>>

(* A message that is not well formed, a second hello among them, and a batch    *)
(* whose deadline has passed, end the connection.                               *)
PollRefused ==
    /\ \/ \E kind \in {"garbage", "hello", "batch"} : Reading(kind)
       \/ pipe.state = "reading" /\ conn = "none"
       \/ pipe.state = "reading" /\ conn = "closed" /\ request = None
    /\ call = NoCall
    /\ Reconnect(pipe)
    /\ UNCHANGED <<call, client, ran>>

(* act until its first action. *)
PollBatch ==
    /\ Reading("batch")
    /\ LET b == request.batch
           error == IF Denied(b, pipe.granted) THEN "CAPABILITY_DENIED"
                    ELSE IF ReadResult # "OK" THEN agent_result(ReadResult)
                    ELSE IF Broken(b, request.seen, View) THEN "STALE_GENERATION" ELSE "OK"
       IN  IF error # "OK"
           THEN BeginWrite(pipe, write_action_error(request.request, error)) /\ UNCHANGED call
           ELSE /\ call' = Begun(request.request, b, pipe.granted, request.seen, View)
                /\ request' = None
                /\ UNCHANGED <<pipe, conn, response, desk>>
    /\ UNCHANGED <<client, ran>>

LookAgain ==
    /\ call.step = "look"
    /\ call' = Look(call, ReadResult, View)
    /\ UNCHANGED <<pipeVars, desk, client, ran>>

Act ==
    /\ call.step = "do"
    /\ IF Refused(call) # "OK"
       THEN call' = After(call, Refused(call)) /\ UNCHANGED <<desk, ran>>
       ELSE \E o \in Perform(call, call.batch.actions[call.index]) :
            /\ call' = After(call, o.result)
            /\ desk' = o.desk
            /\ ran' = IF o.did = "nothing" THEN ran
                      ELSE [ran EXCEPT ![call.index] = Append(@, o.did)]
    /\ UNCHANGED <<pipeVars, client>>

EndOfBatch ==
    /\ call.step = "end"
    /\ BeginWrite(pipe, Completion(call, ReadResult, desk.epoch))
    /\ call' = NoCall
    /\ UNCHANGED <<client, ran>>

(* complete_write, or the client left with the completion unread.               *)
PollWritten ==
    /\ pipe.state = "writing"
    /\ \/ BeginRead(pipe)
       \/ conn = "closed" /\ Reconnect(pipe)
    /\ UNCHANGED <<call, client, ran>>

(* The pipeline goes down for a recovery or for good, and comes back.           *)
Stop ==
    /\ pipe.state # "stopped" /\ call = NoCall
    /\ IF pipe.authenticated THEN Neutralize ELSE UNCHANGED desk
    /\ pipe' = [pipe EXCEPT !.state = "stopped", !.listening = TRUE, !.authenticated = FALSE, !.granted = {}]
    /\ conn' = "none" /\ request' = None /\ response' = None
    /\ UNCHANGED <<call, client, ran>>
Start ==
    /\ pipe.state = "stopped"
    /\ BeginConnect(pipe)
    /\ UNCHANGED <<call, desk, client, ran>>

Poll ==
    \/ PollConnected \/ PollHello \/ PollObserve \/ PollRefused \/ PollBatch \/ PollWritten
    \/ LookAgain \/ Act \/ EndOfBatch
-------------------------------------------------------------------------------
(* The client: transact_once waits for the answer, whatever it takes.           *)
Hello(asks) == [kind |-> "hello", asks |-> asks]
Observe(n, after) == [kind |-> "observe", request |-> n, after |-> after]
Send(n, batch) == [kind |-> "batch", request |-> n, batch |-> batch, seen |-> client.seen]
Away == [client EXCEPT !.phase = "off", !.last = None, !.verifying = None, !.again = None, !.outcome = None]

ClientConnects ==
    /\ client.phase = "off" /\ conn = "none" /\ pipe.state = "connecting" /\ pipe.listening
    /\ pipe.connections < MaxConnections
    /\ \E hello \in {Hello(asks) : asks \in Offers} \cup {[kind |-> "garbage"]} :
        /\ request' = hello
        /\ client' = [client EXCEPT !.phase = "greeting"]
    /\ conn' = "open" /\ pipe' = [pipe EXCEPT !.connections = @ + 1]
    /\ UNCHANGED <<response, call, desk, ran>>

(* The answer to hello; an observation that was interrupted is asked for again. *)
ClientGreeted ==
    /\ client.phase = "greeting" /\ response # None
    /\ IF response.result # "OK"
       THEN conn' = "closed" /\ client' = Away /\ UNCHANGED request
       ELSE IF client.again # None
       THEN /\ request' = client.again
            /\ client' = [client EXCEPT !.phase = "waiting", !.last = client.again, !.again = None]
            /\ UNCHANGED conn
       ELSE client' = [client EXCEPT !.phase = "ready"] /\ UNCHANGED <<conn, request>>
    /\ response' = None
    /\ UNCHANGED <<pipe, call, desk, ran>>

ClientSends ==
    /\ client.phase = "ready" /\ client.sent < MaxRequests
    /\ LET n == client.sent + 1
       IN  \E m \in {Observe(n, after) : after \in {0, client.seen.epoch}}
                    \cup {Send(n, b) : b \in Batches} \cup {[kind |-> "garbage", request |-> n]} :
            /\ request' = IF conn = "open" THEN m ELSE request
            /\ client' = [client EXCEPT !.phase = "waiting", !.sent = n, !.last = m, !.outcome = None]
    /\ ran' = NotRun
    /\ UNCHANGED <<pipe, conn, response, call, desk>>

(* Only a batch whose actions all completed waits for its generation.           *)
Verifies(completion) ==
    /\ client.last.kind = "batch" /\ client.last.batch.verify
    /\ completion.next = 0 /\ completion.result \in {"OK", "TIMEOUT"}
    /\ completion.completed = Len(client.last.batch.actions) /\ completion.failed = 0

(* Mutant: the batch itself is sent again to see what it leads to. *)
VerifyResending(completion) == client.last

(* Mutant: any generation is taken for the one that follows. *)
VerifyLatest(completion) == Observe(completion.request, 0)

(* What verify_action sends.                                                    *)
VerifyRequest(completion) == Observe(completion.request, completion.validated)

(* The answer to a request.  A view that was observed is what the next batch    *)
(* names in its preconditions.                                                  *)
ClientReceives ==
    /\ client.phase = "waiting" /\ response # None
    /\ response' = None
    /\ \/ /\ response.result = "TIMEOUT" /\ client.last.kind = "observe"   \* transact_fresh
          /\ request' = client.last /\ UNCHANGED client
       \/ /\ Verifies(response)
          /\ request' = VerifyRequest(response)
          /\ client' = [client EXCEPT !.phase = "verifying", !.verifying = response]
       \/ /\ ~Verifies(response)
          /\ client' = [client EXCEPT !.phase = "ready",
                !.outcome = IF response.kind = "acted" /\ client.last.batch.verify THEN response ELSE None,
                !.seen = IF response.kind = "observed" /\ response.result = "OK"
                         THEN response.view ELSE @]
          /\ UNCHANGED request
    /\ UNCHANGED <<pipe, conn, call, desk, ran>>

(* verify_action: a timeout is asked again until the deadline of the batch.     *)
ClientVerifies ==
    /\ client.phase = "verifying" /\ response # None
    /\ response' = None
    /\ \/ /\ response.result = "TIMEOUT"
          /\ request' = VerifyRequest(client.verifying) /\ UNCHANGED client
       \/ /\ client' = [client EXCEPT !.phase = "ready", !.verifying = None,
                !.outcome = [client.verifying EXCEPT !.result = response.result,
                                                     !.next = response.validated]]
          /\ UNCHANGED request
    /\ UNCHANGED <<pipe, conn, call, desk, ran>>

(* The client closes its end, or ends, at any moment.                           *)
ClientLeaves ==
    /\ conn = "open"
    /\ conn' = "closed" /\ response' = None /\ client' = Away
    /\ UNCHANGED <<pipe, request, call, desk, ran>>

(* Mutant: what was lost is sent again, whatever it was. *)
AgainAnything == IF client.phase = "waiting" THEN client.last ELSE None

(* Server::transact: only an observation is safe to send again.                 *)
Again ==
    IF client.phase = "waiting" /\ client.last.kind = "observe" THEN client.last ELSE None

(* The other end of the pipe is gone: the request under way has failed.         *)
ClientDisconnected ==
    /\ client.phase # "off" /\ conn = "none"
    /\ client' = [Away EXCEPT !.again = Again]
    /\ UNCHANGED <<pipe, conn, request, response, call, desk, ran>>

-------------------------------------------------------------------------------
(* What else reaches the desktop: scenes, the keyboard and the mouse of the     *)
(* user, and permissions between calls; the foreground at any moment.           *)
Publish ==
    /\ call = NoCall /\ desk.epoch < MaxEpoch
    /\ desk' = [desk EXCEPT !.epoch = @ + 1]
    /\ UNCHANGED <<pipeVars, call, client, ran>>
ObservePhysicalInput ==
    /\ call = NoCall /\ desk.held
    /\ Neutralize
    /\ UNCHANGED <<pipeVars, call, client, ran>>
SetInputAvailable ==
    /\ call = NoCall /\ desk.permission < MaxPermission
    /\ desk' = [Released EXCEPT !.permission = @ + 1, !.available = ~@]
    /\ UNCHANGED <<pipeVars, call, client, ran>>
ForegroundChanges ==
    /\ \E w \in (Windows \cup {Secure}) \ {desk.focus} : desk' = [desk EXCEPT !.focus = w]
    /\ UNCHANGED <<pipeVars, call, client, ran>>

Next ==
    \/ Poll \/ Stop \/ Start
    \/ ClientConnects \/ ClientGreeted \/ ClientSends \/ ClientReceives \/ ClientVerifies
    \/ ClientLeaves \/ ClientDisconnected
    \/ Publish \/ ObservePhysicalInput \/ SetInputAvailable \/ ForegroundChanges

(* The owner thread polls the pipe whenever the pipeline has had its turn.      *)
Spec == Init /\ [][Next]_vars /\ WF_vars(Poll)
-------------------------------------------------------------------------------
Phases == {"off", "greeting", "ready", "waiting", "verifying"}
TypeOK ==
    /\ pipe.state \in {"connecting", "reading", "writing", "stopped"}
    /\ {pipe.listening, pipe.authenticated} \subseteq BOOLEAN
    /\ pipe.granted \subseteq Allowed
    /\ pipe.authenticated <=> pipe.granted # {}
    /\ conn \in {"none", "open", "closed"} /\ client.phase \in Phases
    /\ call.step \in {"none", "do", "look", "end"}
    /\ desk \in [epoch : 0 .. MaxEpoch, focus : Windows \cup {Secure},
                 permission : 1 .. MaxPermission, available : BOOLEAN, held : BOOLEAN]
    /\ ran \in [Indexes -> Seq({"done", "part"})]

(* What the channel holds down it holds for a client that is connected: every   *)
(* way a connection ends goes through the release.                              *)
HeldIsTheClients == TypeOK /\ (desk.held => pipe.authenticated /\ conn # "none")

(* Every action reaches the system under the scene, the permission and the      *)
(* window its batch was validated on (the process, where it has no target), as  *)
(* far as the client named them, and within what the client was granted.        *)
DispatchedAsAgreed ==
    [][(\E i \in Indexes : Len(ran'[i]) > Len(ran[i])) =>
        LET kind == call.batch.actions[call.index] IN
        /\ required_capability(kind) \subseteq pipe.granted
        /\ kind \in Planned =>
            /\ desk.available /\ desk.focus # Secure
            /\ desk.epoch = call.view.epoch /\ desk.permission = call.view.permission
            /\ Process[desk.focus] = Process[call.view.focus]
            /\ kind \in {"click", "hold", "text"} =>
                \A field \in call.batch.named : desk[field] = call.seen[field]]_vars

(* A dry run does nothing to the desktop and releases nothing.                  *)
DryRunTouchesNothing ==
    [][call # NoCall /\ call' # NoCall /\ call.batch.dry =>
        ran' = ran /\ desk'.held = desk.held]_vars

(* No action of a request reaches the system twice, whatever was lost.          *)
DispatchedOnce == \A i \in Indexes : Len(ran[i]) <= 1

(* What the client is told of a batch is what the executor did: the actions     *)
(* that count as completed, and nothing after the one that stopped it.          *)
CompletionIsTrue ==
    response.kind = "acted" /\ response.completed + response.failed > 0 =>
        LET b == client.last.batch
            done == {i \in Indexes : ran[i] = <<"done">>}
            silent == {i \in DOMAIN b.actions : b.dry \/ b.actions[i] = "physical"}
        IN  /\ Cardinality(done) <= response.completed
            /\ response.completed <= Cardinality(done \cup silent)
            /\ response.failed # 0 /\ ~b.continue =>
                /\ \A i \in Indexes : i > response.failed => ran[i] = <<>>
                /\ response.completed = response.failed - 1
            /\ response.failed = 0 => response.completed = Len(b.actions)

(* A generation the client takes for the outcome of its batch came after the    *)
(* one the batch was validated on, and the batch was carried out.               *)
VerifiedIsLater ==
    LET o == client.outcome IN
    o.kind = "acted" /\ o.result = "OK" =>
        /\ o.next > o.validated
        /\ \A i \in DOMAIN client.last.batch.actions :
            client.last.batch.dry \/ client.last.batch.actions[i] = "physical"
                \/ ran[i] = <<"done">>

(* The client is told the truth about actions that happen once at most.         *)
ClientIsTold == DispatchedOnce /\ CompletionIsTrue /\ VerifiedIsLater

(* What reaches the system was agreed with the client.                          *)
DispatchIsAgreed == DispatchedAsAgreed /\ DryRunTouchesNothing

(* The endpoint notices that its client left, and listens for the next one.     *)
EndpointComesBack ==
    conn = "closed" \/ ~pipe.listening ~> conn # "closed" /\ pipe.listening
===============================================================================
