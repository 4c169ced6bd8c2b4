--------------------------- MODULE ReferenceBackend ----------------------------
(* backend::reference_cpu::Backend, the inference provider that every machine  *)
(* has: models, execution contexts on them and tickets ("jobs" here, so as not *)
(* to be taken for the runtime's) that run when somebody asks how they are.    *)
(* A runtime makes the calls one at a time; Detector has what a job detects.   *)
(* Calls that refuse and change nothing are not written down.                  *)
EXTENDS HandleTable, FiniteSets

CONSTANTS
    ModelCapacity,          \* HandleTable<Model, 4>
    ContextCapacity,        \* HandleTable<Context, 4>
    JobCapacity,            \* HandleTable<Ticket, 8>
    ContextQueue            \* the largest queue_capacity

ModelHandle == [slot : 1..ModelCapacity, generation : 1..MaxGeneration]
ContextHandle == [slot : 1..ContextCapacity, generation : 1..MaxGeneration]
JobHandle == [slot : 1..JobCapacity, generation : 1..MaxGeneration]
Model == [contexts : Nat]
Context == [model : ModelHandle, queue : 1..ContextQueue, active : Nat]
Job == [context : ContextHandle, state : {"queued", "complete", "cancelled", "failed"}, counted : BOOLEAN]

ASSUME BackendAssumption ==
    /\ ModelCapacity \in Nat /\ ContextCapacity \in Nat /\ JobCapacity \in Nat /\ ContextQueue \in Nat
    /\ Vacant \notin Model /\ Vacant \notin Context /\ Vacant \notin Job

VARIABLES
    models,
    contexts,
    jobs

backendVars == <<models, contexts, jobs>>

BackendInit ==
    /\ models = EmptyTable(1..ModelCapacity)
    /\ contexts = EmptyTable(1..ContextCapacity)
    /\ jobs = EmptyTable(1..JobCapacity)

-------------------------------------------------------------------------------
(* Models and contexts *)

CreateModel ==
    /\ \E s \in 1..ModelCapacity : FirstFree(models, s) /\ models' = Emplaced(models, s, [contexts |-> 0])
    /\ UNCHANGED <<contexts, jobs>>

DestroyModel(m) ==
    /\ Resolves(models, m) /\ Value(models, m).contexts = 0
    /\ models' = Erased(models, m)
    /\ UNCHANGED <<contexts, jobs>>

CreateContext(m, queue) ==
    /\ Resolves(models, m)
    /\ \E s \in 1..ContextCapacity :
        /\ FirstFree(contexts, s)
        /\ contexts' = Emplaced(contexts, s, [model |-> m, queue |-> queue, active |-> 0])
    /\ models' = [models EXCEPT ![m.slot].value.contexts = @ + 1]
    /\ UNCHANGED jobs

(* Slip: the model still counts the context. *)
DestroyContextOnly(c) ==
    /\ Resolves(contexts, c) /\ Value(contexts, c).active = 0
    /\ contexts' = Erased(contexts, c)
    /\ UNCHANGED <<models, jobs>>

DestroyContext(c) ==
    /\ Resolves(contexts, c) /\ Value(contexts, c).active = 0
    /\ LET m == Value(contexts, c).model
       IN  models' = IF Resolves(models, m) THEN [models EXCEPT ![m.slot].value.contexts = @ - 1] ELSE models
    /\ contexts' = Erased(contexts, c)
    /\ UNCHANGED jobs

-------------------------------------------------------------------------------
(* Jobs *)

JobsOf(c) == {j \in Live(jobs) : Value(jobs, j).context = c}

SubmitJob(c) ==
    /\ Resolves(contexts, c)
    /\ Value(contexts, c).active < Value(contexts, c).queue
    /\ \E s \in 1..JobCapacity :
        /\ FirstFree(jobs, s)
        /\ jobs' = Emplaced(jobs, s, [context |-> c, state |-> "queued", counted |-> TRUE])
    /\ contexts' = [contexts EXCEPT ![c.slot].value.active = @ + 1]
    /\ UNCHANGED models

(* run_ticket: what the detection comes to, if there is still something to     *)
(* detect with.                                                                *)
Outcomes == {"complete", "failed"}
HasModel(c) == Resolves(contexts, c) /\ Resolves(models, Value(contexts, c).model)
run_ticket(job, outcome) ==
    IF job.state # "queued" THEN job
    ELSE [job EXCEPT !.state = IF HasModel(job.context) THEN outcome ELSE "failed"]

(* poll, and a wait that has time *)
RunJob(j) ==
    /\ Resolves(jobs, j)
    /\ \E outcome \in Outcomes : jobs' = [jobs EXCEPT ![j.slot].value = run_ticket(@, outcome)]
    /\ UNCHANGED <<models, contexts>>

(* synchronize, when it has time *)
SynchronizeContext(c) ==
    /\ Resolves(contexts, c)
    /\ \E outcome \in [1..JobCapacity -> Outcomes] :
        jobs' = [s \in DOMAIN jobs |->
                   IF Occupied(jobs, s) /\ jobs[s].value.context = c
                   THEN [jobs[s] EXCEPT !.value = run_ticket(@, outcome[s])] ELSE jobs[s]]
    /\ UNCHANGED <<models, contexts>>

(* release_ticket: the place in the queue is given back, once.                 *)
release_ticket(job) ==
    IF job.counted /\ Resolves(contexts, job.context)
    THEN [contexts EXCEPT ![job.context.slot].value.active = @ - 1] ELSE contexts

(* collect of a job that came to an end, with room for its output              *)
CollectJob(j) ==
    /\ Resolves(jobs, j) /\ Value(jobs, j).state # "queued"
    /\ contexts' = release_ticket(Value(jobs, j))
    /\ jobs' = Erased(jobs, j)
    /\ UNCHANGED models

(* Slip: a job that came to an end is cancelled like one in the queue. *)
CancelJobAlways(j) ==
    /\ Resolves(jobs, j) /\ Value(jobs, j).counted
    /\ contexts' = release_ticket(Value(jobs, j))
    /\ jobs' = [jobs EXCEPT ![j.slot].value.state = "cancelled", ![j.slot].value.counted = FALSE]
    /\ UNCHANGED models

(* Slip: the place is given back, and again when the job is collected. *)
CancelJobCounted(j) ==
    /\ Resolves(jobs, j) /\ Value(jobs, j).state = "queued"
    /\ contexts' = release_ticket(Value(jobs, j))
    /\ jobs' = [jobs EXCEPT ![j.slot].value.state = "cancelled"]
    /\ UNCHANGED models

(* A cancelled job keeps its slot until it is collected, but no place in the   *)
(* queue: its context may go before it does.                                   *)
CancelJob(j) ==
    /\ Resolves(jobs, j) /\ Value(jobs, j).state = "queued"
    /\ contexts' = release_ticket(Value(jobs, j))
    /\ jobs' = [jobs EXCEPT ![j.slot].value.state = "cancelled", ![j.slot].value.counted = FALSE]
    /\ UNCHANGED models

ResetContext(c) ==
    /\ Resolves(contexts, c)
    /\ jobs' = ErasedAll(jobs, JobsOf(c))
    /\ contexts' = [contexts EXCEPT ![c.slot].value.active = 0]
    /\ UNCHANGED models

-------------------------------------------------------------------------------
BackendNext ==
    \/ CreateModel
    \/ \E m \in ModelHandle : DestroyModel(m) \/ \E queue \in 1..ContextQueue : CreateContext(m, queue)
    \/ \E c \in ContextHandle : DestroyContext(c) \/ SubmitJob(c) \/ SynchronizeContext(c) \/ ResetContext(c)
    \/ \E j \in JobHandle : RunJob(j) \/ CollectJob(j) \/ CancelJob(j)

BackendSpec == BackendInit /\ [][BackendNext]_backendVars

-------------------------------------------------------------------------------
BackendTypes ==
    /\ models \in Table(1..ModelCapacity, Model)
    /\ contexts \in Table(1..ContextCapacity, Context)
    /\ jobs \in Table(1..JobCapacity, Job)

(* The two counts that decide what may be destroyed are what they count: a     *)
(* context's places in use are its jobs that were not cancelled, never more    *)
(* than its queue; a model's contexts are those that are live, and none        *)
(* outlives its model (create_context, destroy_context, submit, cancel,        *)
(* collect, reset).                                                            *)
Counted(c) == {j \in JobsOf(c) : Value(jobs, j).counted}
ContextsOf(m) == {c \in Live(contexts) : Value(contexts, c).model = m}
PlacesCounted ==
    \A c \in Live(contexts) :
        /\ Value(contexts, c).active = Cardinality(Counted(c))
        /\ Value(contexts, c).active <= Value(contexts, c).queue
ContextsCounted ==
    /\ \A m \in Live(models) : Value(models, m).contexts = Cardinality(ContextsOf(m))
    /\ \A c \in Live(contexts) : Value(contexts, c).model \in Live(models)

(* A job has its place until it is cancelled, and while it has it its context  *)
(* is there: so a queued job is never found without a context or a model       *)
(* (run_ticket's STALE_HANDLE), although a cancelled one may be.               *)
JobsHavePlaces ==
    \A j \in Live(jobs) :
        LET job == Value(jobs, j)
        IN  /\ job.counted <=> job.state # "cancelled"
            /\ job.counted => job.context \in Live(contexts) /\ HasModel(job.context)

(* Models, contexts and jobs agree with one another. *)
BackendHolds == BackendTypes /\ PlacesCounted /\ ContextsCounted /\ JobsHavePlaces

(* A job comes to one end: what poll once reported is what collect returns,    *)
(* whatever is called between, and a job that was collected or reset is not    *)
(* there again under the same handle (cancel, synchronize, collect).           *)
JobsEndOnce ==
    [][\A j \in JobHandle :
        /\ DeadIn(jobs, j) => DeadIn(jobs', j)
        /\ Resolves(jobs, j) /\ Value(jobs, j).state # "queued" /\ Resolves(jobs', j)
             => Value(jobs', j).state = Value(jobs, j).state]_backendVars
===============================================================================
