----------------------------- MODULE HandleTable -----------------------------
(* core::HandleTable: a fixed table whose handles name a slot and the          *)
(* generation it had when the handle was issued.  A table is a function from   *)
(* its slots to records; Vacant stands for a slot without an object.           *)
EXTENDS Naturals

CONSTANTS
    MaxGeneration,          \* numeric_limits<Generation>::max()
    Vacant                  \* the value of an unoccupied slot

ASSUME GenerationAssumption == MaxGeneration \in Nat \ {0}

NoHandle == [slot |-> 0, generation |-> 0]

(* The handles a table ever issues. *)
HandlesOf(t) == [slot : DOMAIN t, generation : 1..MaxGeneration]

Table(slots, Value) ==
    [slots -> [generation : 1..MaxGeneration, retired : BOOLEAN, value : Value \cup {Vacant}]]

EmptyTable(slots) ==
    [s \in slots |-> [generation |-> 1, retired |-> FALSE, value |-> Vacant]]

Occupied(t, s) == t[s].value # Vacant

(* emplace takes the first slot that is neither occupied nor retired. *)
FirstFree(t, s) ==
    LET Free(r) == r \in DOMAIN t /\ ~Occupied(t, r) /\ ~t[r].retired
    IN  Free(s) /\ \A r \in DOMAIN t : Free(r) => s <= r

Emplaced(t, s, v) == [t EXCEPT ![s].value = v]

HandleAt(t, s) == [slot |-> s, generation |-> t[s].generation]

(* get: the slot is occupied and still of the handle's generation. *)
Resolves(t, h) ==
    /\ h.slot \in DOMAIN t
    /\ Occupied(t, h.slot)
    /\ t[h.slot].generation = h.generation

Value(t, h) == t[h.slot].value

Live(t) == {h \in HandlesOf(t) : Resolves(t, h)}

(* Slip: the generation starts again at 1 instead of retiring the slot. *)
EmptiedWraps(slot) ==
    [generation |-> IF slot.generation = MaxGeneration THEN 1 ELSE slot.generation + 1,
     retired |-> slot.retired,
     value |-> Vacant]

(* erase and advance_generation: a slot at the last generation is retired, so  *)
(* that no generation is used twice.                                           *)
Emptied(slot) ==
    [generation |-> IF slot.generation = MaxGeneration THEN slot.generation ELSE slot.generation + 1,
     retired |-> slot.retired \/ slot.generation = MaxGeneration,
     value |-> Vacant]

Erased(t, h) == [t EXCEPT ![h.slot] = Emptied(@)]

ErasedAll(t, H) ==
    [s \in DOMAIN t |-> IF \E h \in H : h.slot = s THEN Emptied(t[s]) ELSE t[s]]

(* clear_reverse *)
Cleared(t) == ErasedAll(t, Live(t))

(* The handle has been issued: it is of an earlier generation of its slot, or  *)
(* of the present one and in use or used up.                                   *)
Issued(t, h) ==
    /\ h.slot \in DOMAIN t
    /\ \/ h.generation < t[h.slot].generation
       \/ h.generation = t[h.slot].generation /\ (Occupied(t, h.slot) \/ t[h.slot].retired)

(* Issued, and no longer of use. *)
DeadIn(t, h) == Issued(t, h) /\ ~Resolves(t, h)
===============================================================================
