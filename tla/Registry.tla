------------------------------- MODULE Registry -------------------------------
(***************************************************************************)
(* The provider registry (src/backend/registry.cpp): providers of several  *)
(* families and the devices of the inference providers are registered,     *)
(* frozen, and selected by what they can do.  A slot is never freed, so a  *)
(* store is a sequence; bits are sets.  Domains, which tell the handles of *)
(* one registry from those of another, do not run out here.                *)
(***************************************************************************)
EXTENDS Integers, Sequences, FiniteSets

CONSTANTS Families, ProviderCapacity, DeviceCapacity,
          Descriptors, DeviceInfos,         \* what is registered
          Needs, DeviceNeeds, Ids,          \* what is asked for
          MaximumRegistrations              \* bound: registrations

ASSUME RegistryAssumption == "inference" \in Families /\ ProviderCapacity \in Nat /\ DeviceCapacity \in Nat
ASSUME BitsAssumption ==
    /\ \A d \in Descriptors : IsFiniteSet(d.info.caps)
    /\ \A i \in DeviceInfos : IsFiniteSet(i.caps) /\ IsFiniteSet(i.formats) /\ IsFiniteSet(i.imports)

VARIABLES registry,       \* ProviderRegistry
          registrations,  \* the registrations so far
          outcome            \* the last operation: what it was asked and what it returned

registryVars == <<registry, registrations, outcome>>

NewRegistry == [domain |-> 1, stores |-> [f \in Families |-> <<>>], devices |-> <<>>, frozen |-> FALSE]

(* Validation.  A structure says how long it is and for which version it was   *)
(* made; a newer, longer descriptor is read as far as it is known, but its     *)
(* information and its operations have their length.                           *)
validate_prefix(p) ==
    IF p.size = "short" THEN "INVALID" ELSE IF p.major # 1 THEN "VERSION" ELSE IF p.reserved THEN "INVALID" ELSE "OK"
validate_part(p) == IF p.size = "newer" THEN "INVALID" ELSE validate_prefix(p)
InfoValid(info, family) == info.family = family /\ info.id # 0 /\ info.name_valid
FirstFault(results) == LET faults == SelectSeq(results, LAMBDA r : r # "OK") IN IF faults = <<>> THEN "OK" ELSE faults[1]
copy_and_validate_descriptor(desc, family) ==
    FirstFault(<<validate_prefix(desc.prefix), validate_part(desc.info.prefix),
                 IF InfoValid(desc.info, family) THEN "OK" ELSE "INVALID",
                 validate_part(desc.ops.prefix), IF desc.ops.complete THEN "OK" ELSE "INVALID">>)
DeviceValid(info) ==
    /\ info.id # 0 /\ info.formats # {} /\ info.imports # {}
    /\ info.in_flight \in 1..info.queue /\ info.name_valid
copy_and_validate_device_info(info) ==
    FirstFault(<<validate_prefix(info.prefix), IF DeviceValid(info) THEN "OK" ELSE "INVALID">>)

(* Handles                                                                     *)
make_handle(r, family, slot) == [domain |-> r.domain, family |-> family, slot |-> slot]
lookup(r, family, handle) ==
    IF handle.family = family /\ handle.domain = r.domain /\ handle.slot \in DOMAIN r.stores[family]
    THEN {r.stores[family][handle.slot]} ELSE {}

(* Registration                                                                *)
Registered(result, r) == [result |-> result, registry |-> r]
insert(r, family, info) ==
    LET store == r.stores[family]
    IN  IF \E i \in DOMAIN store : store[i].id = info.id THEN Registered("ALREADY_EXISTS", r)
        ELSE IF Len(store) = ProviderCapacity THEN Registered("CAPACITY", r)
        ELSE Registered("OK", [r EXCEPT !.stores[family] =
               Append(store, [handle |-> make_handle(r, family, Len(store) + 1), id |-> info.id, caps |-> info.caps])])
register_provider(r, family, desc) ==
    LET validation == copy_and_validate_descriptor(desc, family)
    IN  IF r.frozen THEN Registered("STATE", r)
        ELSE IF validation # "OK" THEN Registered(validation, r)
        ELSE insert(r, family, desc.info)

(* A device can do what its provider can, and is fed in the ways it accepts.   *)
InReach(info, owner) ==
    /\ info.caps \subseteq owner.caps
    /\ "host" \in info.imports => "host_import" \in owner.caps
    /\ info.imports \ {"host"} # {} => "native_import" \in owner.caps
register_device(r, provider, info) ==
    LET owners == lookup(r, "inference", provider)
        validation == copy_and_validate_device_info(info)
    IN  IF r.frozen THEN Registered("STATE", r)
        ELSE IF owners = {} THEN Registered("STALE", r)
        ELSE IF validation # "OK" THEN Registered(validation, r)
        ELSE IF \E owner \in owners : ~InReach(info, owner) THEN Registered("INVALID", r)
        ELSE IF \E i \in DOMAIN r.devices : r.devices[i].provider = provider /\ r.devices[i].info.id = info.id
             THEN Registered("ALREADY_EXISTS", r)
        ELSE IF Len(r.devices) = DeviceCapacity THEN Registered("CAPACITY", r)
        ELSE Registered("OK", [r EXCEPT !.devices = Append(@, [provider |-> provider, info |-> info])])

freeze(r) == [r EXCEPT !.frozen = TRUE]

(* Selection: the slots are gone through in their order; Preferable decides    *)
(* whether one replaces the best so far, 0 standing for none.                  *)
PreferableOrEqual(score, best, best_score) == best = 0 \/ score >= best_score      \* mutant: the last of equals wins
Preferable(score, best, best_score) == best = 0 \/ score > best_score
Best(slots, suitable, score) ==
    LET best[n \in 0..slots] ==
            IF n = 0 THEN 0
            ELSE IF n \in suitable /\ Preferable(score[n], best[n - 1], IF best[n - 1] = 0 THEN 0 ELSE score[best[n - 1]])
                 THEN n ELSE best[n - 1]
    IN best[slots]
Selection(best, score) ==
    IF best = 0 THEN [result |-> "NOT_FOUND", slot |-> 0, reason |-> "none"]
    ELSE [result |-> "OK", slot |-> best,
          reason |-> IF score[best] = 0 THEN "registration_order" ELSE "preferred_capability"]

Suitable(store, required) == {i \in DOMAIN store : required \subseteq store[i].caps}
Scores(store, preferred) == [i \in DOMAIN store |-> Cardinality(store[i].caps \cap preferred)]
select(r, family, required, preferred) ==
    LET store == r.stores[family]
        score == Scores(store, preferred)
    IN  Selection(Best(Len(store), Suitable(store, required), score), score)

DeviceSuits(d, q) ==
    /\ q.caps \subseteq d.info.caps /\ q.formats \subseteq d.info.formats /\ q.imports \subseteq d.info.imports
    /\ d.info.queue >= q.queue /\ d.info.in_flight >= q.in_flight
DeviceScore(d, p) ==
    Cardinality(d.info.caps \cap p.caps) + Cardinality(d.info.formats \cap p.formats) + Cardinality(d.info.imports \cap p.imports)
SuitableDevices(r, required) == {i \in DOMAIN r.devices : DeviceSuits(r.devices[i], required)}
DeviceScores(r, preferred) == [i \in DOMAIN r.devices |-> DeviceScore(r.devices[i], preferred)]
select_device(r, required, preferred) ==
    LET score == DeviceScores(r, preferred)
    IN  Selection(Best(Len(r.devices), SuitableDevices(r, required), score), score)

Explicit(slots) ==
    IF slots = {} THEN [result |-> "NOT_FOUND", slot |-> 0, reason |-> "none"]
    ELSE [result |-> "OK", slot |-> CHOOSE i \in slots : \A j \in slots : i <= j, reason |-> "explicit_id"]
select_by_id(r, family, id) ==
    IF id = 0 THEN [result |-> "INVALID", slot |-> 0, reason |-> "none"]
    ELSE Explicit({i \in DOMAIN r.stores[family] : r.stores[family][i].id = id})
select_device_by_id(r, provider, id) ==
    IF id = 0 THEN [result |-> "INVALID", slot |-> 0, reason |-> "none"]
    ELSE IF lookup(r, "inference", provider) = {} THEN [result |-> "STALE", slot |-> 0, reason |-> "none"]
    ELSE Explicit({i \in DOMAIN r.devices : r.devices[i].provider = provider /\ r.devices[i].info.id = id})

-------------------------------------------------------------------------------
(* Providers and devices are registered, some of them wrongly, until the       *)
(* registry is frozen; what is asked for is selected at any time.              *)
RegistryInit == registry = NewRegistry /\ registrations = 0 /\ outcome = [op |-> "none"]

Register(op, done) ==
    /\ registrations < MaximumRegistrations
    /\ registrations' = registrations + 1
    /\ registry' = done.registry
    /\ outcome' = [op |-> op, result |-> done.result, before |-> registry]
RegisterProvider ==
    \E family \in Families, desc \in Descriptors : Register("provider", register_provider(registry, family, desc))
RegisterDevice ==
    \E domain \in 1..2, slot \in 1..ProviderCapacity, info \in DeviceInfos :
       Register("device", register_device(registry, [domain |-> domain, family |-> "inference", slot |-> slot], info))
Freeze == Register("freeze", Registered("OK", freeze(registry)))

Selects(selection) ==
    /\ outcome.op \in {"provider", "device", "freeze"}
    /\ outcome' = selection
    /\ UNCHANGED <<registry, registrations>>
SelectProvider ==
    \E family \in Families, required, preferred \in Needs, id \in Ids :
       Selects([op |-> "select", family |-> family, required |-> required, preferred |-> preferred, id |-> id,
                chosen |-> select(registry, family, required, preferred), named |-> select_by_id(registry, family, id)])
SelectDevice ==
    \E required, preferred \in DeviceNeeds, slot \in 1..ProviderCapacity, id \in Ids :
       LET provider == make_handle(registry, "inference", slot)
       IN Selects([op |-> "select_device", required |-> required, preferred |-> preferred, provider |-> provider, id |-> id,
                   chosen |-> select_device(registry, required, preferred),
                   named |-> select_device_by_id(registry, provider, id)])

RegistryNext == RegisterProvider \/ RegisterDevice \/ Freeze \/ SelectProvider \/ SelectDevice

RegistrySpec == RegistryInit /\ [][RegistryNext]_registryVars

-------------------------------------------------------------------------------
(* Properties *)

(* The ids of a family are single, and a handle leads back to its provider and *)
(* to none of another family.                                                  *)
Single(ids) == \A i, j \in DOMAIN ids : ids[i] = ids[j] => i = j
ProvidersAreApart(r) ==
    \A f \in Families :
       LET store == r.stores[f]
       IN /\ Single([i \in DOMAIN store |-> store[i].id])
          /\ \A i \in DOMAIN store, g \in Families :
                lookup(r, g, store[i].handle) = IF f = g THEN {store[i]} ELSE {}

(* A device can do no more than its provider and is fed only in ways the       *)
(* provider accepts; a provider has no two devices of one id.                  *)
DevicesAreInReach(r) ==
    /\ Single([i \in DOMAIN r.devices |-> <<r.devices[i].provider, r.devices[i].info.id>>])
    /\ \A i \in DOMAIN r.devices :
          LET d == r.devices[i]
          IN \E owner \in lookup(r, "inference", d.provider) :
                /\ d.info.caps \subseteq owner.caps
                /\ \A way \in d.info.imports : (IF way = "host" THEN "host_import" ELSE "native_import") \in owner.caps

(* A refusal changes nothing, and a frozen registry refuses.                   *)
RefusalIsHarmless ==
    outcome.op \in {"provider", "device"} =>
       /\ outcome.before.frozen => outcome.result # "OK"
       /\ outcome.result # "OK" => registry = outcome.before

(* What is selected suits, nothing registered suits better, and among equals   *)
(* the first registered is taken.                                              *)
FirstBest(chosen, suitable, score) ==
    IF suitable = {} THEN chosen.result = "NOT_FOUND"
    ELSE /\ chosen.result = "OK" /\ chosen.slot \in suitable
         /\ \A i \in suitable \ {chosen.slot} :
               \/ score[i] < score[chosen.slot]
               \/ score[i] = score[chosen.slot] /\ i > chosen.slot
         /\ chosen.reason = "registration_order" <=> \A i \in suitable : score[i] = 0
SelectionIsBest ==
    /\ outcome.op = "select" =>
          LET store == registry.stores[outcome.family]
          IN /\ FirstBest(outcome.chosen, Suitable(store, outcome.required), Scores(store, outcome.preferred))
             /\ outcome.named.result = "OK" <=> outcome.id # 0 /\ \E i \in DOMAIN store : store[i].id = outcome.id
    /\ outcome.op = "select_device" =>
          /\ FirstBest(outcome.chosen, SuitableDevices(registry, outcome.required), DeviceScores(registry, outcome.preferred))
          /\ outcome.named.result = "OK" =>
                /\ registry.devices[outcome.named.slot].provider = outcome.provider
                /\ registry.devices[outcome.named.slot].info.id = outcome.id

(* What the registry holds was registered whole and agrees, and what is        *)
(* selected is the first of the best.                                          *)
RegistryHolds == ProvidersAreApart(registry) /\ DevicesAreInReach(registry) /\ RefusalIsHarmless /\ SelectionIsBest
=============================================================================
