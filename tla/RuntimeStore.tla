----------------------------- MODULE RuntimeStore -----------------------------
(* core::RuntimeStore as threads see it through the C interface: the runtimes  *)
(* in their table, the copy of it that hot calls read without the gate, the    *)
(* gate (core::RareGlobalGate) that the rare calls pass one at a time, and the *)
(* domains that tell the handles of one runtime from those of another.  What a *)
(* call does inside its runtime is in FrameRuntime.                            *)
EXTENDS HandleTable, FiniteSets, Sequences

CONSTANTS
    Threads,
    Capacity,               \* RuntimeStore::capacity
    MaxDomain,              \* RuntimeState::maximum_frame_domain()
    BlockSize,              \* registry_domain_block_size
    MaxRegistry,            \* the greatest domain of a registry
    MaxCalls                \* bound on the calls of all threads

ASSUME StoreAssumption ==
    /\ Capacity \in Nat /\ MaxDomain \in Nat /\ MaxRegistry \in Nat /\ MaxCalls \in Nat
    /\ BlockSize \in Nat \ {0}

VARIABLES
    runtimes,               \* runtimes_, the objects
    hot,                    \* hot_: handle and state of every slot
    nextDomain,             \* next_frame_domain_
    nextBlock,              \* next_ of the registry domain source
    block,                  \* the thread_local block: [next, end]
    claimed,                \* claimed_ of each gate
    pc,                     \* what a thread does next, and under which gate
    call,                   \* the call it is in
    found,                  \* the runtime it resolved, or is creating
    calls,                  \* calls made so far
    made                    \* history: every runtime, and every registry without one

storeVars == <<runtimes, hot, nextDomain, nextBlock, block, claimed, pc, call, found, calls, made>>

Gates == {"store", "source"}
NoCall == [kind |-> "none", runtime |-> NoHandle]
RuntimeHandle == [slot : 1..Capacity, generation : 1..MaxGeneration]
Objects == [frames : 0..MaxDomain, registry : 0..MaxRegistry]
NoObject == [frames |-> 0, registry |-> 0]
NotHot == [handle |-> NoHandle, state |-> NoObject]
ASSUME ObjectAssumption == Vacant \notin Objects

StoreInit ==
    /\ runtimes = EmptyTable(1..Capacity)
    /\ hot = [s \in 1..Capacity |-> NotHot]
    /\ nextDomain = 1 /\ nextBlock = 1
    /\ block = [t \in Threads |-> [next |-> 0, end |-> 0]]
    /\ claimed = [g \in Gates |-> FALSE]
    /\ pc = [t \in Threads |-> <<"out", "store">>]
    /\ call = [t \in Threads |-> NoCall]
    /\ found = [t \in Threads |-> NoObject]
    /\ calls = 0
    /\ made = <<>>

-------------------------------------------------------------------------------
(* RareGlobalGate *)

At(t, step, gate) == pc[t] = <<step, gate>>
Goto(t, step, gate) == pc' = [pc EXCEPT ![t] = <<step, gate>>]
notGate == <<runtimes, hot, nextDomain, nextBlock, block, call, found, calls, made>>

Enter(t, g) ==
    /\ At(t, "enter", g)
    /\ claimed' = [claimed EXCEPT ![g] = TRUE]
    /\ Goto(t, IF claimed[g] THEN "wait" ELSE "inside", g)
    /\ UNCHANGED notGate

(* claimed_.wait(true): looks once more and sleeps, in one step. *)
Wait(t, g) ==
    /\ At(t, "wait", g)
    /\ Goto(t, IF claimed[g] THEN "asleep" ELSE "enter", g)
    /\ UNCHANGED <<claimed, notGate>>

Wakes(t, g) == At(t, "asleep", g)

(* A wait may look again although nobody notified it. *)
Spurious(t, g) ==
    /\ Wakes(t, g)
    /\ Goto(t, "wait", g)
    /\ UNCHANGED <<claimed, notGate>>

Leave(t, g) ==
    /\ At(t, "leave", g)
    /\ claimed' = [claimed EXCEPT ![g] = FALSE]
    /\ Goto(t, "notify", g)
    /\ UNCHANGED notGate

(* A call ends with the gate of the store; the source's is left half-way.      *)
After(g) == IF g = "store" THEN <<"return", g>> ELSE <<"construct", "store">>

(* Slip: the gate is opened and nobody is woken. *)
NotifyNobody(t, g) ==
    /\ At(t, "notify", g)
    /\ pc' = [pc EXCEPT ![t] = After(g)]
    /\ UNCHANGED <<claimed, notGate>>

(* notify_one *)
Notify(t, g) ==
    /\ At(t, "notify", g)
    /\ \/ \E u \in Threads : Wakes(u, g) /\ pc' = [pc EXCEPT ![t] = After(g), ![u] = <<"wait", g>>]
       \/ (\A u \in Threads : ~Wakes(u, g)) /\ pc' = [pc EXCEPT ![t] = After(g)]
    /\ UNCHANGED <<claimed, notGate>>

Pass(t) == \E g \in Gates : Enter(t, g) \/ Wait(t, g) \/ Leave(t, g) \/ Notify(t, g)

-------------------------------------------------------------------------------
(* Calls.  The interface asks that nobody uses a runtime that is being         *)
(* destroyed; after that a handle may still be used, and is to be refused.     *)

Using(h) == \E t \in Threads : call[t] = [kind |-> "use", runtime |-> h]
Destroying(h) == \E t \in Threads : call[t] = [kind |-> "destroy", runtime |-> h]
Given(h) == \E i \in DOMAIN made : made[i].handle = h /\ made[i].returned

Call(t, kind, h) ==
    /\ At(t, "out", "store") /\ calls < MaxCalls
    /\ call' = [call EXCEPT ![t] = [kind |-> kind, runtime |-> h]]
    /\ calls' = calls + 1
    /\ Goto(t, CASE kind = "use" -> "load" [] kind = "registry" -> "domain" [] OTHER -> "enter", "store")
    /\ UNCHANGED <<runtimes, hot, nextDomain, nextBlock, block, claimed, found, made>>

Calls(t) ==
    \/ Call(t, "create", NoHandle)
    \/ Call(t, "registry", NoHandle)            \* a ProviderRegistry of its own
    \/ \E h \in RuntimeHandle :
        /\ Given(h)
        /\ \/ ~Using(h) /\ Call(t, "destroy", h)
           \/ ~Destroying(h) /\ Call(t, "use", h)
           \/ Call(t, "register", h)            \* or freeze

Return(t) ==
    /\ At(t, "return", "store")
    /\ made' = [i \in DOMAIN made |->
                [made[i] EXCEPT !.returned = @ \/ (/\ call[t].kind = "create" /\ found[t].frames # 0
                                                   /\ made[i].object = found[t])]]
    /\ call' = [call EXCEPT ![t] = NoCall]
    /\ found' = [found EXCEPT ![t] = NoObject]
    /\ Goto(t, "out", "store")
    /\ UNCHANGED <<runtimes, hot, nextDomain, nextBlock, block, claimed, calls>>

-------------------------------------------------------------------------------
(* saccade_runtime_create *)

Room == \E s \in 1..Capacity : FirstFree(runtimes, s)
Inside(t, kind) == At(t, "inside", "store") /\ call[t].kind = kind

Create(t) ==
    /\ Inside(t, "create")
    /\ Goto(t, IF nextDomain <= MaxDomain /\ Room THEN "domain" ELSE "leave", "store")
    /\ UNCHANGED <<runtimes, hot, nextDomain, nextBlock, block, claimed, call, found, calls, made>>

(* allocate_registry_domain: the next of the thread's block, or a new block.   *)
TakeDomain(t) ==
    /\ At(t, "domain", "store")
    /\ IF block[t].next # block[t].end
       THEN /\ found' = [found EXCEPT ![t] = [frames |-> 0, registry |-> block[t].next]]
            /\ block' = [block EXCEPT ![t].next = @ + 1]
            /\ Goto(t, "construct", "store")
       ELSE Goto(t, "enter", "source") /\ UNCHANGED <<found, block>>
    /\ UNCHANGED <<runtimes, hot, nextDomain, nextBlock, claimed, call, calls, made>>

(* Slip: a block is handed out and not taken from the source. *)
ReserveAgain(t) ==
    /\ At(t, "inside", "source")
    /\ found' = [found EXCEPT ![t] = [frames |-> 0, registry |-> nextBlock]]
    /\ block' = [block EXCEPT ![t] = [next |-> nextBlock + 1, end |-> nextBlock + BlockSize]]
    /\ Goto(t, "leave", "source")
    /\ UNCHANGED <<runtimes, hot, nextDomain, nextBlock, claimed, call, calls, made>>

(* RegistryDomainSource::reserve; the last block may be short, and then there  *)
(* are none: such a registry has domain 0 and takes no provider.               *)
Reserve(t) ==
    /\ At(t, "inside", "source")
    /\ IF nextBlock > MaxRegistry
       THEN UNCHANGED <<found, block, nextBlock>>
       ELSE LET end == IF nextBlock + BlockSize > MaxRegistry THEN MaxRegistry + 1 ELSE nextBlock + BlockSize
            IN  /\ found' = [found EXCEPT ![t] = [frames |-> 0, registry |-> nextBlock]]
                /\ block' = [block EXCEPT ![t] = [next |-> nextBlock + 1, end |-> end]]
                /\ nextBlock' = end
    /\ Goto(t, "leave", "source")
    /\ UNCHANGED <<runtimes, hot, nextDomain, claimed, call, calls, made>>

Made(object, h) == [object |-> object, handle |-> h, returned |-> FALSE]

(* emplace, or the registry that is all of the call. *)
Construct(t) ==
    /\ At(t, "construct", "store")
    /\ IF call[t].kind = "registry"
       THEN /\ made' = Append(made, Made(found[t], NoHandle))
            /\ Goto(t, "return", "store")
            /\ UNCHANGED <<runtimes, found>>
       ELSE \E s \in 1..Capacity :
            LET object == [found[t] EXCEPT !.frames = nextDomain] IN
            /\ FirstFree(runtimes, s)
            /\ runtimes' = Emplaced(runtimes, s, object)
            /\ found' = [found EXCEPT ![t] = object]
            /\ made' = Append(made, Made(object, HandleAt(runtimes, s)))
            /\ Goto(t, "state", "store")
    /\ UNCHANGED <<hot, nextDomain, nextBlock, block, claimed, call, calls>>

SlotOf(object) == CHOOSE s \in 1..Capacity : runtimes[s].value = object

StoreState(t) ==
    /\ At(t, "state", "store")
    /\ hot' = [hot EXCEPT ![SlotOf(found[t])].state = found[t]]
    /\ Goto(t, "handle", "store")
    /\ UNCHANGED <<runtimes, nextDomain, nextBlock, block, claimed, call, found, calls, made>>

StoreHandle(t) ==
    /\ At(t, "handle", "store")
    /\ LET s == SlotOf(found[t]) IN hot' = [hot EXCEPT ![s].handle = HandleAt(runtimes, s)]
    /\ nextDomain' = nextDomain + 1
    /\ Goto(t, "leave", "store")
    /\ UNCHANGED <<runtimes, nextBlock, block, claimed, call, found, calls, made>>

-------------------------------------------------------------------------------
(* saccade_runtime_destroy, and the gated calls on a runtime *)

(* Slip: the hot copy outlives the runtime. *)
DestroyLeavesHot(t) ==
    /\ Inside(t, "destroy")
    /\ Goto(t, IF Resolves(runtimes, call[t].runtime) THEN "erase" ELSE "leave", "store")
    /\ UNCHANGED <<runtimes, hot, nextDomain, nextBlock, block, claimed, call, found, calls, made>>

Destroy(t) ==
    /\ Inside(t, "destroy")
    /\ LET h == call[t].runtime IN
       IF Resolves(runtimes, h)
       THEN hot' = [hot EXCEPT ![h.slot].handle = NoHandle] /\ Goto(t, "clear", "store")
       ELSE UNCHANGED hot /\ Goto(t, "leave", "store")
    /\ UNCHANGED <<runtimes, nextDomain, nextBlock, block, claimed, call, found, calls, made>>

ClearState(t) ==
    /\ At(t, "clear", "store")
    /\ hot' = [hot EXCEPT ![call[t].runtime.slot].state = NoObject]
    /\ Goto(t, "erase", "store")
    /\ UNCHANGED <<runtimes, nextDomain, nextBlock, block, claimed, call, found, calls, made>>

Erase(t) ==
    /\ At(t, "erase", "store")
    /\ runtimes' = Erased(runtimes, call[t].runtime)
    /\ Goto(t, "leave", "store")
    /\ UNCHANGED <<hot, nextDomain, nextBlock, block, claimed, call, found, calls, made>>

(* register_provider and saccade_runtime_freeze: get, and change what is got.  *)
Register(t) ==
    /\ Inside(t, "register")
    /\ LET h == call[t].runtime IN
       IF Resolves(runtimes, h)
       THEN found' = [found EXCEPT ![t] = Value(runtimes, h)] /\ Goto(t, "change", "store")
       ELSE UNCHANGED found /\ Goto(t, "leave", "store")
    /\ UNCHANGED <<runtimes, hot, nextDomain, nextBlock, block, claimed, call, calls, made>>

Change(t) ==
    /\ At(t, "change", "store")
    /\ Goto(t, "leave", "store")
    /\ UNCHANGED <<runtimes, hot, nextDomain, nextBlock, block, claimed, call, found, calls, made>>

-------------------------------------------------------------------------------
(* Every other call: resolve_hot, and the call on the runtime *)

LoadHandle(t) ==
    /\ At(t, "load", "store")
    /\ Goto(t, IF hot[call[t].runtime.slot].handle = call[t].runtime THEN "read" ELSE "return", "store")
    /\ UNCHANGED <<runtimes, hot, nextDomain, nextBlock, block, claimed, call, found, calls, made>>

LoadState(t) ==
    /\ At(t, "read", "store")
    /\ found' = [found EXCEPT ![t] = hot[call[t].runtime.slot].state]
    /\ Goto(t, "using", "store")
    /\ UNCHANGED <<runtimes, hot, nextDomain, nextBlock, block, claimed, call, calls, made>>

Use(t) ==
    /\ At(t, "using", "store")
    /\ Goto(t, "return", "store")
    /\ UNCHANGED <<runtimes, hot, nextDomain, nextBlock, block, claimed, call, found, calls, made>>

Within(t) ==
    \/ Create(t) \/ TakeDomain(t) \/ Reserve(t) \/ Construct(t) \/ StoreState(t) \/ StoreHandle(t)
    \/ Destroy(t) \/ ClearState(t) \/ Erase(t) \/ Register(t) \/ Change(t)
    \/ LoadHandle(t) \/ LoadState(t) \/ Use(t) \/ Return(t)

StoreNext == \E t \in Threads : Calls(t) \/ Pass(t) \/ Within(t) \/ \E g \in Gates : Spurious(t, g)

StoreSpec == StoreInit /\ [][StoreNext]_storeVars

-------------------------------------------------------------------------------
StoreTypeOK ==
    /\ runtimes \in Table(1..Capacity, Objects)
    /\ hot \in [1..Capacity -> [handle : RuntimeHandle \cup {NoHandle}, state : Objects]]
    /\ nextDomain \in 1..MaxDomain + 1 /\ nextBlock \in 1..MaxRegistry + 1
    /\ claimed \in [Gates -> BOOLEAN]
    /\ found \in [Threads -> Objects]

(* A gate is claimed exactly while one thread is past it. *)
Past(t, g) ==
    \/ pc[t][2] = g /\ pc[t][1] \notin {"out", "enter", "wait", "asleep", "notify", "return", "load", "read", "using"}
       /\ call[t].kind # "registry"
    \/ g = "store" /\ pc[t][2] = "source" /\ call[t].kind = "create"
    \/ g = "source" /\ pc[t][2] = g /\ pc[t][1] \in {"inside", "leave"}
GatesExclude == \A g \in Gates : Cardinality({t \in Threads : Past(t, g)}) = IF claimed[g] THEN 1 ELSE 0

(* Outside the gate the hot copy is the table; a hot handle is always one that *)
(* resolves, with the state beside it.                                         *)
HotAgrees ==
    \A s \in 1..Capacity :
        /\ hot[s].handle # NoHandle =>
            Resolves(runtimes, hot[s].handle) /\ hot[s].handle.slot = s /\ hot[s].state = runtimes[s].value
        /\ ~claimed["store"] => (hot[s].handle = NoHandle <=> ~Occupied(runtimes, s))

(* A thread works on a runtime that is alive and is the one its handle names.  *)
OnlyLiveOnes ==
    \A t \in Threads : pc[t][1] \in {"using", "change"} =>
        Resolves(runtimes, call[t].runtime) /\ found[t] = Value(runtimes, call[t].runtime)

(* No two runtimes have handles in common: their frames and their registries   *)
(* are of different domains, for ever.                                         *)
DomainsApart ==
    \A i, j \in DOMAIN made : i # j =>
        /\ made[i].object.frames = made[j].object.frames => made[i].object.frames = 0
        /\ made[i].object.registry = made[j].object.registry => made[i].object.registry = 0

(* No wake-up is lost: while a thread sleeps at a gate, another is past the    *)
(* gate or about to notify, or has been woken and looks again.                 *)
WakesUp ==
    \A t \in Threads, g \in Gates : Wakes(t, g) =>
        \E u \in Threads : Past(u, g) \/ At(u, "notify", g) \/ At(u, "wait", g) \/ At(u, "enter", g)

(* The gate, the table, its hot copy and the domains agree, in all calls.      *)
StoreHolds ==
    StoreTypeOK /\ GatesExclude /\ HotAgrees /\ OnlyLiveOnes /\ DomainsApart /\ WakesUp
===============================================================================
