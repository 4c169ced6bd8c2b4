------------------------------ MODULE AgentQuery ------------------------------
(* What the agent service tells a client of the scene: the request and its     *)
(* filters as they lie in the message, the scope, the relations between        *)
(* targets, and the answer with its texts packed behind its records until the  *)
(* message is full.  Sizes count the fields a message is made of; a text is a  *)
(* sequence of bytes.                                                          *)
EXTENDS Geometry, Relation

CONSTANTS MaximumReturned,      \* SACCADE_AGENT_MAX_TARGETS
          MaximumFilters,       \* SACCADE_AGENT_MAX_FILTERS
          MaximumQueryText      \* SACCADE_AGENT_MAX_TEXT_BYTES

RequestSize == 2                \* sizes of a request, a filter, a completion and a returned record
FilterSize == 1
CompletionSize == 1
ReturnedSize == 2

(* SaccadeTargetRecord and SaccadeAgentQueryFilter, the fields in use; what a  *)
(* filter does not ask for is not looked at.                                   *)
SceneTarget(id, parent, rect, text) ==
    [id |-> id, parent |-> parent, window |-> 1, display |-> 1, rect |-> rect, text |-> text, role |-> "button",
     source |-> {"accessibility"}, caps |-> {"move", "click"}, confidence |-> 2, flags |-> {}]
NoFilter ==
    [asks |-> {}, id |-> 0, role |-> "button", source |-> {}, needs |-> {}, forbids |-> {}, rect |-> Rect(0, 0, 0, 0),
     confidence |-> 0, match |-> "exact", text_at |-> 0, text_size |-> 0, relation |-> "self", related |-> 0]

-------------------------------------------------------------------------------
(* Scope *)

intersects(a, b) ==
    /\ rect_valid(a) /\ rect_valid(b)
    /\ a.x < Right(b) /\ Right(a) > b.x /\ a.y < Bottom(b) /\ Bottom(a) > b.y

resolve_scope(scope, state) ==
    IF scope.kind # "active_window" THEN scope
    ELSE [scope EXCEPT !.id = IF @ = 0 THEN state.window ELSE @, !.rect = state.bounds]

source_matches(mode, source) ==
    \/ mode \in {"any", "fused"}
    \/ mode = "pixel" /\ source \cap {"neural", "pixel"} # {}
    \/ mode = "semantic" /\ "accessibility" \in source
    \/ mode = "grid" /\ "grid" \in source

scope_matches(scope, t, state) ==
    /\ source_matches(scope.mode, t.source)
    /\ \/ scope.kind = "desktop"
       \/ scope.kind = "active_window" /\ \/ t.window = (IF scope.id # 0 THEN scope.id ELSE state.window)
                                          \/ t.window = 0 /\ intersects(scope.rect, t.rect)
       \/ scope.kind = "display" /\ t.display = scope.id
       \/ scope.kind = "rect" /\ intersects(scope.rect, t.rect)

-------------------------------------------------------------------------------
(* Filters *)

(* The first target with the ID; none is 0. *)
target_with(scene, id) == SelectInSeq(scene, LAMBDA t : t.id = id)

(* Slip: only the parent is looked at. *)
descendant_of_parent(scene, t, ancestor) == t.parent # 0 /\ t.parent = ancestor /\ scene # <<>>

(* up[d] is the ID looked at after d steps, 0 once there is none; as many      *)
(* steps as the scene has targets, so that a circle of parents ends.           *)
descendant_of(scene, t, ancestor) ==
    LET up[d \in Nat] ==
            IF d = 0 THEN t.parent
            ELSE LET parent == target_with(scene, up[d - 1])
                 IN IF up[d - 1] = 0 \/ parent = 0 \/ scene[parent].parent = up[d - 1] THEN 0 ELSE scene[parent].parent
    IN \E d \in 0..Len(scene) - 1 : up[d] # 0 /\ up[d] = ancestor

lies_in(inner, outer) ==
    outer.x <= inner.x /\ outer.y <= inner.y /\ Right(outer) >= Right(inner) /\ Bottom(outer) >= Bottom(inner)

relation_matches(scene, t, filter) ==
    "relation" \in filter.asks =>
       LET k == target_with(scene, filter.related)
           related == scene[k]
       IN /\ k # 0
          /\ CASE filter.relation = "self" -> t.id = related.id
               [] filter.relation = "parent" -> t.id = related.parent
               [] filter.relation = "child" -> t.parent = related.id
               [] filter.relation = "ancestor" -> descendant_of(scene, related, t.id)
               [] filter.relation = "descendant" -> descendant_of(scene, t, related.id)
               [] filter.relation = "sibling" -> t.id # related.id /\ t.parent # 0 /\ t.parent = related.parent
               [] filter.relation = "contains" -> lies_in(related.rect, t.rect)
               [] filter.relation = "contained_by" -> lies_in(t.rect, related.rect)

text_matches(text, asked, match) ==
    /\ text # <<>>
    /\ Len(asked) <= Len(text)
    /\ CASE match = "exact" -> text = asked
         [] match = "prefix" -> SubSeq(text, 1, Len(asked)) = asked
         [] match = "substring" -> \E at \in 0..Len(text) - Len(asked) : SubSeq(text, at + 1, at + Len(asked)) = asked

TextAsked(filter, bytes) == SubSeq(bytes, filter.text_at + 1, filter.text_at + filter.text_size)
filter_matches(scene, t, filter, bytes) ==
    /\ "text" \in filter.asks => text_matches(t.text, TextAsked(filter, bytes), filter.match)
    /\ "id" \in filter.asks => t.id = filter.id
    /\ "role" \in filter.asks => t.role = filter.role
    /\ "source" \in filter.asks => t.source \cap filter.source # {}
    /\ "caps" \in filter.asks => filter.needs \subseteq t.caps /\ t.caps \cap filter.forbids = {}
    /\ "rect" \in filter.asks => intersects(filter.rect, t.rect)
    /\ "confidence" \in filter.asks => t.confidence >= filter.confidence
    /\ relation_matches(scene, t, filter)

-------------------------------------------------------------------------------
(* The request.  `bytes' is the message as it came.                            *)

(* Slip: the stride is forgotten. *)
range_valid_by_count(offset, count, stride, total) == stride # 0 /\ offset <= total /\ count <= total - offset

range_valid(offset, count, stride, total) == stride # 0 /\ offset <= total /\ count <= (total - offset) \div stride
freshness_valid(f) == f.policy \in {"latest", "after", "force"}
freshness_supported(f) == f.policy \in {"latest", "after"} /\ f.flags = {}
freshness_met(f, epoch) == f.policy = "latest" \/ epoch > f.after
FiltersEnd(q) == q.filters_offset + (Len(q.filters) * q.filter_stride)

(* The first of a list of checks that fails; OK if none does.                  *)
FirstRefusal(checks) ==
    LET failed == SelectSeq(checks, LAMBDA c : ~c[1]) IN IF failed = <<>> THEN "OK" ELSE failed[1][2]

(* What is refused before the filters are read: they must lie in the message.  *)
RequestChecks(q, bytes, available, room) ==
    << <<room >= CompletionSize, "CAPACITY">>,
       <<q.asks \subseteq available /\ "observe" \in q.asks, "CAPABILITY_DENIED">>,
       <<q.maximum \in 1..MaximumReturned /\ Len(q.filters) <= MaximumFilters /\ q.filter_stride >= FilterSize, "INVALID">>,
       <<q.total <= Len(bytes) /\ (q.filters # <<>> => q.filters_offset >= RequestSize), "INVALID">>,
       <<range_valid(q.filters_offset, Len(q.filters), q.filter_stride, q.total), "INVALID">>,
       <<freshness_valid(q.freshness), "INVALID">>,
       <<freshness_supported(q.freshness), "ACTION_UNSUPPORTED">>,
       <<CompletionSize + (q.maximum * ReturnedSize) <= room, "CAPACITY">> >>
Relations == {"self", "parent", "child", "ancestor", "descendant", "sibling", "contains", "contained_by"}
FilterChecks(q, f, bytes) ==
    << <<"relation" \in f.asks => f.relation # "nearest", "ACTION_UNSUPPORTED">>,
       <<"relation" \in f.asks => f.relation \in Relations, "INVALID">>,
       <<"text" \in f.asks => /\ f.text_size \in 1..MaximumQueryText /\ f.text_at >= FiltersEnd(q)
                              /\ f.text_at <= q.total /\ f.text_size <= q.total - f.text_at
                              /\ f.match \in {"exact", "prefix", "substring"}, "INVALID">> >>
(* The filters are checked one after the other.                                *)
Refusal(q, bytes, available, room) ==
    FirstRefusal(<< <<FirstRefusal(RequestChecks(q, bytes, available, room)) = "OK",
                      FirstRefusal(RequestChecks(q, bytes, available, room))>> >>
                 \o [k \in DOMAIN q.filters |->
                       <<FirstRefusal(FilterChecks(q, q.filters[k], bytes)) = "OK",
                         FirstRefusal(FilterChecks(q, q.filters[k], bytes))>>])

-------------------------------------------------------------------------------
(* The answer *)

returned_target(t, index, scope, state) ==
    LET homeless == scope.kind = "active_window" /\ t.window = 0
    IN [id |-> t.id, index |-> index, flags |-> t.flags, offset |-> 0, size |-> 0,
        window |-> IF homeless THEN scope.id ELSE t.window,
        display |-> IF homeless /\ t.display = 0 THEN state.display ELSE t.display]

(* Texts follow the records, as many as there is room for; a text that does    *)
(* not fit is left out and a shorter one after it may still come in.           *)
append_target_text(scene, answer, first, room) ==
    FoldLeft(LAMBDA a, r :
                LET text == scene[r.index].text
                    at == first + Len(a.lane)
                IN IF text = <<>> THEN [a EXCEPT !.targets = Append(@, r)]
                   ELSE IF Len(text) <= room - at
                   THEN [a EXCEPT !.targets = Append(@, [r EXCEPT !.offset = at, !.size = Len(text)]), !.lane = @ \o text]
                   ELSE [a EXCEPT !.targets = Append(@, [r EXCEPT !.flags = @ \cup {"truncated"}]),
                                  !.flags = @ \cup {"truncated"}],
             [answer EXCEPT !.targets = <<>>], answer.targets)

(* Slip: one place in the answer is not used. *)
AdmitOneFewer(answer, t, limit) ==
    IF Len(answer.targets) + 1 = limit THEN [answer EXCEPT !.flags = @ \cup {"truncated"}]
    ELSE [answer EXCEPT !.targets = Append(@, t)]

(* A target that matches is put into the answer or, when that is full, told of *)
(* by the flag.                                                                *)
Admitted(answer, t, limit) ==
    IF Len(answer.targets) = limit THEN [answer EXCEPT !.flags = @ \cup {"truncated"}]
    ELSE [answer EXCEPT !.targets = Append(@, t)]

NoAnswer(result) == [result |-> result, flags |-> {}, targets |-> <<>>, lane |-> <<>>]
Answered(scene, matching, limit, scope, state) ==
    FoldLeft(LAMBDA a, k : IF k \in matching THEN Admitted(a, returned_target(scene[k], k, scope, state), limit) ELSE a,
             [NoAnswer("OK") EXCEPT !.flags = state.incomplete], [k \in DOMAIN scene |-> k])

query(scene, state, q, bytes, available, room) ==
    LET scope == resolve_scope(q.scope, state)
        refusal == FirstRefusal(<< <<Refusal(q, bytes, available, room) = "OK", Refusal(q, bytes, available, room)>>,
                                   <<freshness_met(q.freshness, state.epoch), "TIMEOUT">>,
                                   <<q.generation \in {0, state.epoch}, "STALE_GENERATION">> >>)
        matching == {k \in DOMAIN scene : /\ scope_matches(scope, scene[k], state)
                                          /\ \A n \in DOMAIN q.filters : filter_matches(scene, scene[k], q.filters[n], bytes)}
        answer == Answered(scene, matching, q.maximum, scope, state)
    IN IF refusal # "OK" THEN NoAnswer(refusal)
       ELSE append_target_text(scene, answer, CompletionSize + (Len(answer.targets) * ReturnedSize), room)

(* observe: no filters; the client says how much the answer may hold.          *)
observe_scene(scene, state, q, available, room) ==
    LET scope == resolve_scope(q.scope, state)
        refusal == FirstRefusal(
            << <<room >= CompletionSize, "CAPACITY">>,
               <<q.asks \subseteq available /\ "observe" \in q.asks, "CAPABILITY_DENIED">>,
               <<q.maximum \in 1..MaximumReturned /\ q.target_stride >= ReturnedSize, "INVALID">>,
               <<q.capacity <= room /\ q.capacity >= CompletionSize, "INVALID">>,
               <<freshness_valid(q.freshness), "INVALID">>,
               <<freshness_supported(q.freshness), "ACTION_UNSUPPORTED">>,
               <<freshness_met(q.freshness, state.epoch), "TIMEOUT">> >>)
        limit == Lesser(q.maximum, (q.capacity - CompletionSize) \div q.target_stride)
        answer == Answered(scene, {k \in DOMAIN scene : scope_matches(scope, scene[k], state)}, limit, scope, state)
    IN IF refusal # "OK" THEN NoAnswer(refusal)
       ELSE append_target_text(scene, answer, CompletionSize + (Len(answer.targets) * q.target_stride), q.capacity)
===============================================================================
