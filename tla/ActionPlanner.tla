----------------------------- MODULE ActionPlanner ----------------------------
(***************************************************************************)
(* The action planner (src/interaction/action_planner.cpp): an action on   *)
(* targets of a frozen scene becomes a plan of input commands, if the      *)
(* scene is the one the selection was made in, every target is safe and    *)
(* has the capability, and the context has the permissions.                *)
(***************************************************************************)
EXTENDS Fusion

CONSTANTS MaximumCommands   \* SACCADE_INPUT_PLAN_MAX_COMMANDS

Kinds == {"pointer_move", "click", "invoke", "hold", "release", "drag", "scroll", "key", "text",
          "text_select", "window_activate"}
TwoTargets == {"drag", "text_select"}
NoTargets == {"key", "release"}
(* A request names its targets; its points are empty, or one for each target.  *)
(* An empty one has no key, no text or no distance to scroll.                  *)
request_shape_valid(q) ==
    /\ q.repeat \in 1..16
    /\ q.points = <<>> \/ Len(q.points) = Len(q.targets)
    /\ CASE q.kind \in NoTargets -> q.targets = <<>>
         [] q.kind \in TwoTargets -> Len(q.targets) = 2
         [] q.kind = "click" -> q.targets # <<>>
         [] OTHER -> Len(q.targets) = 1
    /\ q.kind \in {"key", "text", "scroll"} => ~q.empty
    /\ q.kind \in {"release", "drag", "text_select", "click", "invoke", "hold"} => q.button # 0

NoTarget == 0
find_target(p, id) ==
    LET at == {i \in DOMAIN p.targets : p.targets[i].id = id}
    IN IF at = {} THEN NoTarget ELSE CHOOSE i \in at : \A j \in at : i <= j
(* What the i-th target of an action must be able to do; the mutant forgets    *)
(* that a drag ends on its second target                                       *)
required_capability_first(kind, i) ==
    CASE kind = "pointer_move" -> {"move"}
      [] kind \in {"click", "hold"} -> {"button"}
      [] kind = "drag" -> {"drag"}
      [] kind = "text_select" -> {"select"}
      [] kind = "window_activate" -> {"activate"}
      [] kind \in {"invoke", "scroll", "text"} -> {kind}
      [] kind \in NoTargets -> {}
required_capability(kind, i) ==
    CASE kind = "pointer_move" -> {"move"}
      [] kind \in {"click", "hold"} -> {"button"}
      [] kind = "drag" -> {IF i = 2 THEN "drop" ELSE "drag"}
      [] kind = "text_select" -> {"select"}
      [] kind = "window_activate" -> {"activate"}
      [] kind \in {"invoke", "scroll", "text"} -> {kind}
      [] kind \in NoTargets -> {}
target_safe(t, caps) ==
    "actionable" \in t.flags /\ t.flags \cap {"disabled", "occluded", "secure"} = {} /\ caps \subseteq t.caps
TargetAllowed(p, q, i) ==
    LET at == find_target(p, q.targets[i])
    IN /\ at # NoTarget
       /\ target_safe(p.targets[at], required_capability(q.kind, i))
       /\ q.points # <<>> /\ ~q.outside => Within(Bounds(p.targets[at]), q.points[i])

(* Commands: a kind, the point they go to and what they carry                  *)
Command(kind, point, button) == [kind |-> kind, point |-> point, button |-> button, continuous |-> FALSE]
PointAt(p, q, i) ==
    LET t == p.targets[find_target(p, q.targets[i])]
    IN IF q.points = <<>> THEN [x |-> t.sx, y |-> t.sy] ELSE q.points[i]
target_command(p, q, kind, i) == Command(kind, PointAt(p, q, i), 0)
Held(p, q, kind, i) == Command(kind, PointAt(p, q, i), q.button)
Dragged(p, q) == <<target_command(p, q, "move", 1), Held(p, q, "down", 1),
                   target_command(p, q, "move", 2), Held(p, q, "up", 2)>>
NoPoint == [x |-> 0, y |-> 0]
Commands(p, q) ==
    CASE q.kind = "pointer_move" -> <<target_command(p, q, "move", 1)>>
      [] q.kind \in {"click", "invoke"} ->
            FlattenSeq([i \in DOMAIN q.targets |->
                (IF q.smooth THEN <<target_command(p, q, "move", i)>> ELSE <<>>) \o <<Held(p, q, "click", i)>>])
      [] q.kind = "hold" -> <<target_command(p, q, "move", 1),
                              [Held(p, q, "down", 1) EXCEPT !.continuous = TRUE]>>
      [] q.kind \in TwoTargets -> Dragged(p, q)
      [] q.kind = "scroll" -> <<[target_command(p, q, "scroll", 1) EXCEPT !.continuous = q.timed]>>
      [] q.kind = "key" -> <<Command("key_down", NoPoint, 0), Command("key_up", NoPoint, 0)>>
      [] q.kind = "text" -> <<Held(p, q, "click", 1), target_command(p, q, "text", 1)>>
      [] q.kind = "window_activate" -> <<target_command(p, q, "activate", 1)>>
      [] q.kind = "release" -> <<Command("up", NoPoint, q.button)>>
(* The pointer goes where the user wants it afterwards; but not under a hold   *)
Final(q) == IF q.final /\ q.kind \notin {"hold", "window_activate"} THEN <<Command("move", q.final_point, 0)>> ELSE <<>>
Permissions(kind) ==
    CASE kind = "key" -> {"keyboard"} [] kind = "text" -> {"pointer", "text"}
      [] kind = "window_activate" -> {"window"} [] OTHER -> {"pointer"}

(* validate_plan: what is built is read back the way the executor reads it     *)
Uses(command) ==
    CASE command.kind \in {"key_down", "key_up"} -> "keyboard" [] command.kind = "text" -> "text"
      [] command.kind = "activate" -> "window" [] OTHER -> "pointer"
validate_plan(commands, permissions) ==
    /\ Len(commands) \in 1..MaximumCommands
    /\ \A i \in DOMAIN commands :
          /\ Uses(commands[i]) \in permissions
          /\ commands[i].kind \in {"down", "up", "click"} => commands[i].button # 0

(* The context knows the window and the display of the targets that name none  *)
OwnOr(own, known) == IF own = 0 THEN known ELSE own
build(p, epochs, q, context) ==
    LET commands == Commands(p, q) \o Final(q)
        first == p.targets[find_target(p, q.targets[1])]
        Refused(result) == [result |-> result]
    IN IF ~request_shape_valid(q) THEN Refused("INVALID_ARGUMENT")
       ELSE IF epochs # context.epochs THEN Refused("STALE_HANDLE")
       ELSE IF \E i \in DOMAIN q.targets : ~TargetAllowed(p, q, i) THEN Refused("NOT_FOUND")
       ELSE IF Len(commands) > MaximumCommands THEN Refused("CAPACITY")
       ELSE IF ~(Permissions(q.kind) \subseteq context.permissions) THEN Refused("UNSUPPORTED")
       ELSE IF ~validate_plan(commands, Permissions(q.kind)) THEN Refused("STATE")
       ELSE [result |-> "OK", commands |-> commands, epochs |-> epochs,
             permissions |-> Permissions(q.kind), button |-> context.button,
             window |-> IF q.targets = <<>> THEN 0 ELSE OwnOr(first.window, context.window),
             display |-> IF q.targets = <<>> THEN 0 ELSE OwnOr(first.display, context.display)]
=============================================================================
