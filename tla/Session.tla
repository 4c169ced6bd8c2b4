------------------------------- MODULE Session -------------------------------
(* A targeting session: the controller that starts it from a command           *)
(* (src/application/interaction_controller.cpp), the engine that keeps it      *)
(* (src/application/session.cpp), the selection it collects                    *)
(* (src/interaction/selection_reducer.cpp) and the labels it shows,            *)
(* against a desktop that goes on: scenes, focus, permission, time, the user.  *)
EXTENDS Naturals, FiniteSets, SequencesExt

CONSTANTS Ids,          \* identities of targets, in their order on the desktop
          Scenes,       \* the sets of targets a scene may show
          Alphabet,     \* number of symbols of the hint alphabet
          MaxScene,     \* bound on the epochs of scenes
          MaxSpace,     \* bound on changes of transform or topology
          MaxFocus,     \* bound on changes of focus
          MaxPermission \* bound on changes of permission

ASSUME SessionAssumption ==
    /\ Ids \subseteq Nat /\ IsFiniteSet(Ids) /\ Scenes \subseteq SUBSET Ids
    /\ Alphabet \in Nat \ {0, 1}
    /\ {MaxScene, MaxSpace, MaxFocus, MaxPermission} \subseteq Nat \ {0}

-------------------------------------------------------------------------------
(* The keyboard labels (src/interaction/hints.cpp): a label is a sequence of   *)
(* symbols, a symbol is its place in the alphabet, and a target is named by    *)
(* its rank in the session's order.                                            *)

(* capacity: how many codes of a length there are.                             *)
Codes(size, length) ==
    LET codes[n \in 0..length] == IF n = 0 THEN 1 ELSE size * codes[n - 1]
    IN  codes[length]

(* The digits of ordinal to the base size, most significant first.             *)
encode_ordinal(ordinal, length, size) ==
    [p \in 1..length |-> (ordinal \div Codes(size, length - p)) % size]

(* The longest length whose codes are no more than the targets, at least one.  *)
Depth(count, size) ==
    IF count < size THEN 1
    ELSE CHOOSE d \in 1..count : Codes(size, d) <= count /\ count < Codes(size, d + 1)

(* The codes of that length do not suffice for the targets needed beyond them: *)
(* the last of them, expanded_parents, are given up for their extensions by    *)
(* one symbol; the first of the parents may be extended in part only.          *)
Needed(count, size) ==
    IF count > Codes(size, Depth(count, size)) THEN count - Codes(size, Depth(count, size)) ELSE 0
PartialChildren(count, size) ==
    LET left == Needed(count, size) % (size - 1) IN IF left = 0 THEN 0 ELSE left + 1
(* Mutant: a parent that is extended in part is not given up.                  *)
ShortestCountOfWhole(count, size) ==
    Codes(size, Depth(count, size)) - (Needed(count, size) \div (size - 1))
ShortestCount(count, size) ==
    Codes(size, Depth(count, size)) - (Needed(count, size) \div (size - 1))
        - (IF PartialChildren(count, size) = 0 THEN 0 ELSE 1)

(* The code at the given distance behind the short ones.                       *)
Child(count, size, behind) ==
    LET partial == PartialChildren(count, size)
        first   == ShortestCount(count, size)
        after   == behind - partial
    IN  IF behind < partial THEN <<first, behind>>
        ELSE <<first + (IF partial = 0 THEN 0 ELSE 1) + after \div size, after % size>>

assign_label(rank, count, size) ==
    LET depth == Depth(count, size)
        short == ShortestCount(count, size)
        child == Child(count, size, rank - short)
    IN  IF count <= size THEN <<rank>>
        ELSE IF rank < short THEN encode_ordinal(rank, depth, size)
        ELSE Append(encode_ordinal(child[1], depth, size), child[2])

prefix_matches(label, symbols) ==
    /\ DOMAIN symbols \subseteq DOMAIN label
    /\ \A i \in DOMAIN symbols : label[i] = symbols[i]

(* freeze: every target of the scene gets the label of its rank. The order is  *)
(* that of the identities: the priority of the profile only permutes them.     *)
freeze(ids, size) ==
    [t \in ids |-> assign_label(Cardinality({s \in ids : s < t}), Cardinality(ids), size)]

(* resolve_prefix: the targets the symbols may still name, and the one they do.*)
Candidates(names, symbols) == {t \in DOMAIN names : prefix_matches(names[t], symbols)}
Exact(names, symbols) == \E t \in DOMAIN names : names[t] = symbols
Named(names, symbols) == CHOOSE t \in DOMAIN names : names[t] = symbols

-------------------------------------------------------------------------------
VARIABLES scene,     \* what acquire_latest gives: epoch, transform and topology, targets
          focus, permission, allowed,         \* the rest of the environment
          active, context, action, mode, storage, labels, hinted, selection, prefix,
          late,      \* the deadline of the session has passed
          last,      \* the last action begun, of the controller
          shown, typed,  \* labels at the start of the session, labels typed since
          plan       \* the targets of the plan the session executed
env == <<scene, focus, permission, allowed>>
engine == <<active, context, action, mode, storage, labels, hinted, selection, prefix>>
ghosts == <<shown, typed>>
vars == <<env, engine, last, ghosts, late, plan>>

Kinds == {"click", "move", "drag"}
Modes == {"single", "dual", "multi", "path"}
None == [kind |-> "none", deferred |-> FALSE]
NoContext == [scene |-> 0, space |-> 0, focus |-> 0, permission |-> 0]
Idle == [state |-> "idle", ids |-> <<>>]
Collecting == [state |-> "collecting", ids |-> <<>>]

SessionInit ==
    /\ scene \in [epoch : {1}, space : {1}, ids : Scenes]
    /\ focus = 1 /\ permission = 1 /\ allowed = TRUE
    /\ active = FALSE /\ context = NoContext /\ action = None /\ mode = "single"
    /\ storage = {} /\ labels = <<>> /\ hinted = 0 /\ selection = Idle
    /\ prefix = <<>> /\ late = FALSE
    /\ last = [kind |-> "none", deferred |-> FALSE, mode |-> "single"]
    /\ shown = <<>> /\ typed = <<>> /\ plan = <<>>

-------------------------------------------------------------------------------
(* Mutant: the selection is cancelled and not reset.                           *)
reset_keeps_cancelled ==
    /\ active' = FALSE /\ context' = NoContext /\ action' = None /\ mode' = "single"
    /\ storage' = {} /\ labels' = <<>> /\ hinted' = 0
    /\ selection' = [selection EXCEPT !.state = "cancelled"]
    /\ prefix' = <<>> /\ late' = FALSE

(* The session ends: hints, selection and what was typed go with it.           *)
reset_session ==
    /\ active' = FALSE /\ context' = NoContext /\ action' = None /\ mode' = "single"
    /\ storage' = {} /\ labels' = <<>> /\ hinted' = 0 /\ selection' = Idle
    /\ prefix' = <<>> /\ late' = FALSE
Ended == reset_session /\ shown' = <<>> /\ typed' = <<>> /\ UNCHANGED plan

action_compatible(m, kind) ==
    \/ m = "single"
    \/ m = "dual" /\ kind \in {"click", "drag"}
    \/ m \in {"multi", "path"} /\ kind = "click"

(* begin_latest, begin_scene: refused with no effect, or the scene is copied,  *)
(* the labels are frozen and the selection starts to collect.                  *)
Begins(request, m) ==
    /\ ~active /\ action_compatible(m, request.kind) /\ scene.ids # {}
begin_scene(request, m) ==
    /\ active' = TRUE /\ action' = [kind |-> request.kind, deferred |-> request.deferred]
    /\ context' = [scene |-> scene.epoch, space |-> scene.space,
                   focus |-> focus, permission |-> permission]
    /\ mode' = m /\ storage' = scene.ids
    /\ labels' = freeze(scene.ids, Alphabet) /\ hinted' = scene.epoch
    /\ selection' = Collecting /\ prefix' = <<>> /\ late' = FALSE
    /\ shown' = labels' /\ typed' = <<>> /\ plan' = <<>>

(* begin_action: reads the environment, where a permission withdrawn or an     *)
(* unreadable scene refuses, and remembers an action that was begun.           *)
begin_action(request, m) ==
    /\ allowed /\ Begins(request, m)
    /\ begin_scene(request, m)
    /\ last' = [kind |-> request.kind, deferred |-> request.deferred, mode |-> m]
    /\ UNCHANGED env

(* The actions of action_for_command, by the shape of their selection. The mode*)
(* of clicks may have been set to any by the profile or a command.             *)
Click == \E m \in Modes : begin_action([kind |-> "click", deferred |-> FALSE], m)
Hover == begin_action([kind |-> "move", deferred |-> FALSE], "single")
FreePointer == begin_action([kind |-> "move", deferred |-> TRUE], "single")
Drag == begin_action([kind |-> "drag", deferred |-> FALSE], "dual")
RepeatAction == last.kind # "none" /\ begin_action(last, last.mode)

(* change_mode ends a session, and changes what the last action would repeat.  *)
ChangeMode(m) ==
    /\ \/ active /\ Ended
       \/ ~active /\ UNCHANGED <<engine, late, ghosts, plan>>
    /\ last' = IF last.kind = "none" THEN last ELSE [last EXCEPT !.mode = m]
    /\ UNCHANGED env

-------------------------------------------------------------------------------
(* expand_path: between two anchors, every target from the one to the other.   *)
Between(a, b) ==
    LET ids == {t \in storage : (a <= t /\ t <= b) \/ (b <= t /\ t <= a)}
        ahead(t) == {s \in ids : IF a < b THEN s < t ELSE s > t}
    IN  [i \in 1..Cardinality(ids) |-> CHOOSE t \in ids : Cardinality(ahead(t)) = i - 1]
expand_path(anchors) ==
    LET path[i \in 1..Len(anchors)] ==
            IF i = 1 THEN <<anchors[1]>>
            ELSE path[i - 1] \o Tail(Between(anchors[i - 1], anchors[i]))
    IN  path[Len(anchors)]

(* What the executor checks of a plan: the scene it was planned on is still    *)
(* the latest, and focus and permission are those of the session.              *)
validate_execution_preflight(ids) ==
    /\ allowed
    /\ context.scene = scene.epoch /\ context.space = scene.space
    /\ context.focus = focus /\ context.permission = permission
    /\ Range(ids) \subseteq scene.ids

(* request_shape_valid: how many targets an action takes.                      *)
request_shape_valid(ids) ==
    CASE action.kind = "move" -> Len(ids) = 1
      [] action.kind = "drag" -> Len(ids) = 2
      [] action.kind = "click" -> ids # <<>>

(* execute_selection: a target missing from the scene leaves the session as it *)
(* is; otherwise the plan is built and executed or refused, by the planner for *)
(* its shape or a target it finds unsafe, by the executor, or by the system.   *)
execute_selection(ids, keys, left) ==
    /\ typed' = keys /\ UNCHANGED shown
    /\ IF ~ Range(ids) \subseteq storage
       THEN /\ selection' = [state |-> "complete", ids |-> ids] /\ prefix' = left
            /\ UNCHANGED <<active, context, action, mode, storage, labels, hinted, late, plan>>
       ELSE /\ reset_session
            /\ \/ UNCHANGED plan
               \/ request_shape_valid(ids) /\ validate_execution_preflight(ids) /\ plan' = ids

(* A call after the deadline cancels the session.                              *)
DeadlinePassed == active /\ late /\ Ended /\ UNCHANGED <<env, last>>

(* enter_symbol: a symbol no label goes on with is dropped again; a whole      *)
(* label selects its target, which completes a single or the second of a dual. *)
Keeps == UNCHANGED <<env, active, context, action, mode, storage, labels, hinted,
                     late, last, shown, plan>>
EnterSymbol(symbol) ==
    LET symbols == Append(prefix, symbol)
        exact   == Exact(labels, symbols)
        target  == Named(labels, symbols)
        chosen  == Append(selection.ids, target)
        keys    == Append(typed, symbols)
        full    == mode = "single" \/ (mode = "dual" /\ Len(chosen) = 2)
    IN  /\ active /\ ~late /\ Candidates(labels, symbols) # {}
        /\ \/ /\ exact /\ selection.state = "collecting" => target \in Range(selection.ids)
              /\ prefix' = symbols
              /\ Keeps /\ UNCHANGED <<selection, typed>>
           \/ /\ exact /\ selection.state = "collecting" /\ target \notin Range(selection.ids)
              /\ IF full /\ ~action.deferred
                 THEN execute_selection(chosen, keys, <<>>) /\ UNCHANGED <<env, last>>
                 ELSE /\ prefix' = <<>> /\ typed' = keys
                      /\ selection' = [state |-> IF full THEN "complete" ELSE "collecting",
                                       ids |-> chosen]
                      /\ Keeps

(* confirm: a multi or a path with enough targets, or a deferred action whose  *)
(* target is already chosen.                                                   *)
Confirmed ==
    IF mode = "path" /\ selection.state = "collecting" THEN expand_path(selection.ids)
    ELSE selection.ids
Confirm ==
    /\ active /\ ~late
    /\ \/ action.deferred /\ selection.state = "complete"
       \/ mode = "multi" /\ selection.state = "collecting" /\ selection.ids # <<>>
       \/ mode = "path" /\ selection.state = "collecting" /\ Len(selection.ids) >= 2
    /\ execute_selection(Confirmed, typed, prefix)
    /\ UNCHANGED <<env, last>>

(* Mutant: backspace takes back the oldest choice.                             *)
BackspaceOldest ==
    /\ active /\ prefix = <<>> /\ selection.state = "collecting" /\ selection.ids # <<>>
    /\ selection' = [selection EXCEPT !.ids = Tail(@)] /\ typed' = Front(typed)
    /\ UNCHANGED <<env, active, context, action, mode, storage, labels, hinted, late,
                   last, shown, prefix, plan>>

(* backspace: the last symbol; with none, the choice of a deferred action; or  *)
(* the last target.                                                            *)
Backspace ==
    /\ active
    /\ \/ /\ prefix # <<>> /\ prefix' = Front(prefix)
          /\ UNCHANGED <<mode, selection, typed>>
       \/ /\ prefix = <<>> /\ action.deferred /\ selection.state = "complete"
          /\ selection' = Collecting /\ mode' = "single" /\ typed' = <<>>
          /\ UNCHANGED prefix
       \/ /\ prefix = <<>> /\ selection.state = "collecting" /\ selection.ids # <<>>
          /\ selection' = [selection EXCEPT !.ids = Front(@)] /\ typed' = Front(typed)
          /\ UNCHANGED <<mode, prefix>>
    /\ UNCHANGED <<env, active, context, action, storage, labels, hinted, late,
                   last, shown, plan>>

Cancel == active /\ Ended /\ UNCHANGED <<env, last>>

-------------------------------------------------------------------------------
(* tick: a newer scene of the same space is copied over the session's, and     *)
(* taken if it has every target that has a label and every one selected.       *)
Refreshable ==
    /\ scene.epoch # context.scene /\ scene.space = context.space
    /\ focus = context.focus /\ ~late
refresh_hints_of_any == hinted < scene.epoch  \* mutant: labels may lose their targets
refresh_hints == hinted < scene.epoch /\ DOMAIN labels \subseteq scene.ids
refresh_selection == context.scene < scene.epoch /\ Range(selection.ids) \subseteq scene.ids
refresh_latest ==
    /\ refresh_hints /\ refresh_selection
    /\ context' = [context EXCEPT !.scene = scene.epoch]
    /\ storage' = scene.ids /\ hinted' = scene.epoch /\ UNCHANGED labels

(* Mutant: the deadline is not looked at.                                      *)
ValidForever ==
    /\ context.scene = scene.epoch \/ Refreshable
    /\ context.space = scene.space /\ context.focus = focus
    /\ selection.state = "collecting" \/ (action.deferred /\ selection.state = "complete")

(* SelectionReducer::validate, or what tick checks itself of a deferred choice;*)
(* after a refresh the epochs of the scene agree.                              *)
Valid ==
    /\ ~late /\ (context.scene = scene.epoch \/ Refreshable)
    /\ context.space = scene.space /\ context.focus = focus
    /\ selection.state = "collecting" \/ (action.deferred /\ selection.state = "complete")

Stays == allowed /\ permission = context.permission /\ Valid
Tick ==
    /\ active /\ UNCHANGED <<env, last>>
    /\ \/ /\ Stays
          /\ \/ Refreshable /\ refresh_latest
             \/ ~Refreshable /\ UNCHANGED <<context, storage, hinted, labels>>
          /\ UNCHANGED <<active, action, mode, selection, prefix, ghosts, late, plan>>
       \/ /\ ~Stays \/ (Refreshable /\ ~(refresh_hints /\ refresh_selection))
          /\ Ended

(* An environment that could not be read counts as a permission lost; why the  *)
(* store may refuse to show its scene is in SceneReaders.                      *)
ReadFails == Cancel

(* Physical input ends the session; that it also ends synthetic input is in    *)
(* InputExecutor.                                                              *)
PhysicalInput == Cancel

(* shutdown, and initialize again.                                             *)
Restart ==
    /\ \/ active /\ Ended
       \/ ~active /\ UNCHANGED <<engine, late, ghosts, plan>>
    /\ last' = [kind |-> "none", deferred |-> FALSE, mode |-> "single"]
    /\ UNCHANGED env

-------------------------------------------------------------------------------
(* The desktop.                                                                *)
Publish(ids, moved) ==
    /\ scene.epoch < MaxScene
    /\ scene' = [epoch |-> scene.epoch + 1, ids |-> ids,
                 space |-> scene.space + (IF moved THEN 1 ELSE 0)]
    /\ scene'.space <= MaxSpace
    /\ UNCHANGED <<focus, permission, allowed, engine, last, ghosts, late, plan>>
ChangeFocus ==
    /\ focus < MaxFocus /\ focus' = focus + 1
    /\ UNCHANGED <<scene, permission, allowed, engine, last, ghosts, late, plan>>
ChangePermission ==
    /\ permission < MaxPermission /\ permission' = permission + 1 /\ allowed' = ~allowed
    /\ UNCHANGED <<scene, focus, engine, last, ghosts, late, plan>>
DeadlinePasses ==
    /\ active /\ ~late /\ late' = TRUE
    /\ UNCHANGED <<env, engine, last, ghosts, plan>>

Starts == Click \/ Hover \/ FreePointer \/ Drag \/ RepeatAction
Keys == (\E symbol \in 0..Alphabet - 1 : EnterSymbol(symbol)) \/ Confirm \/ Backspace
Settings == Restart \/ \E m \in Modes : ChangeMode(m)
Desktop == \/ \E ids \in Scenes, moved \in BOOLEAN : Publish(ids, moved)
           \/ ChangeFocus \/ ChangePermission
Next == \/ Starts \/ Keys \/ Settings \/ Desktop
        \/ DeadlinePassed \/ Cancel \/ ReadFails \/ PhysicalInput
        \/ Tick \/ DeadlinePasses

(* Time passes. That the tick is reached is not assumed: SessionEnds asks for  *)
(* it where it is needed.                                                      *)
Spec == SessionInit /\ [][Next]_vars /\ WF_vars(DeadlinePasses)

-------------------------------------------------------------------------------
(* All variables have their types.                                             *)
TypeOK ==
    /\ scene \in [epoch : 1..MaxScene, space : 1..MaxSpace, ids : Scenes]
    /\ focus \in 1..MaxFocus /\ permission \in 1..MaxPermission /\ allowed \in BOOLEAN
    /\ active \in BOOLEAN /\ late \in BOOLEAN
    /\ context \in [scene : 0..MaxScene, space : 0..MaxSpace,
                    focus : 0..MaxFocus, permission : 0..MaxPermission]
    /\ action \in [kind : Kinds \cup {"none"}, deferred : BOOLEAN]
    /\ mode \in Modes
    /\ storage \subseteq Ids /\ DOMAIN labels \subseteq Ids \cup {0} /\ hinted \in 0..MaxScene
    /\ selection \in [state : {"idle", "collecting", "complete"}, ids : Seq(Ids)]
    /\ prefix \in Seq(0..Alphabet - 1)
    /\ last \in [kind : Kinds \cup {"none"}, deferred : BOOLEAN, mode : Modes]
    /\ plan \in Seq(Ids)

(* Every target can be named by its keys, and none by the first keys of the    *)
(* name of another.                                                            *)
LabelsAgree(names, size) ==
    /\ \A t \in DOMAIN names : names[t] \in Seq(0..size - 1) /\ names[t] # <<>>
    /\ \A s, t \in DOMAIN names : s # t => ~prefix_matches(names[s], names[t])

(* The parts of a session agree, whatever the desktop does: the labels are     *)
(* those shown at its start, every label and every choice names a target of    *)
(* the scene the session holds, the three epochs of that scene are one, what   *)
(* was typed can be gone on with, and only a deferred choice waits complete:   *)
(* the early returns of execute_selection are never taken. An ended session    *)
(* leaves nothing to the next.                                                 *)
SessionAgrees ==
    IF active
    THEN /\ LabelsAgree(labels, Alphabet)
         /\ labels = shown /\ DOMAIN labels \subseteq storage
         /\ Range(selection.ids) \subseteq DOMAIN labels
         /\ hinted = context.scene /\ context.scene <= scene.epoch
         /\ Candidates(labels, prefix) # {}
         /\ selection.state = "collecting" \/ (selection.state = "complete" /\ action.deferred)
    ELSE selection = Idle /\ labels = <<>> /\ prefix = <<>> /\ ~late

(* What a session is made of holds together, its types and its labels included.*)
SessionHolds == TypeOK /\ SessionAgrees

(* A plan that is executed names the targets whose labels were typed, as they  *)
(* were shown when the session started, and not those taken back; all of them  *)
(* are in the scene that is now the latest; the session had not run out; and   *)
(* it ends with the plan, so that one activation acts once.                    *)
Meant == [i \in DOMAIN typed' |-> Named(shown, typed'[i])]
PlanIsMeant ==
    [][plan' \notin {plan, <<>>} =>
         /\ active /\ ~active' /\ ~late /\ plan = <<>>
         /\ Range(plan') \subseteq scene.ids
         /\ IF mode = "path"
            THEN /\ Range(Meant) \subseteq Range(plan')
                 /\ plan'[1] = Meant[1] /\ Last(plan') = Last(Meant)
            ELSE plan' = Meant]_vars

(* While turns go on reaching the tick, every session ends: its deadline does  *)
(* not pass unseen. Nothing else ends a session nobody touches, and a turn      *)
(* whose scene or inference side failed returns before the tick                *)
(* (desktop_runtime.cpp:165-168).                                              *)
SessionEnds == WF_vars(Tick) => (active ~> ~active)
==============================================================================
