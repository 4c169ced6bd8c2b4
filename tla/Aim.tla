--------------------------------- MODULE Aim ----------------------------------
(***************************************************************************)
(* Where on its target an action goes (src/application/session.cpp): the   *)
(* user steps through nine places of the target, names one, snaps to an    *)
(* edge or nudges the point away from it.  The interaction controller      *)
(* turns commands into these adjustments while a session is open.          *)
(***************************************************************************)
EXTENDS Integers

CONSTANTS Furthest,     \* INT32_MAX, in the model's units
          NudgeStep,    \* 256 of them a nudge
          EdgeInset     \* 2 * 256: how far inside its edge a place lies at most

ASSUME AimAssumption == Furthest \in Nat /\ NudgeStep \in Nat \ {0} /\ EdgeInset \in Nat

Directions == {"left", "right", "up", "down"}
Unset == 0              \* UINT32_MAX: no place chosen, the target's safe point
(* The places in the order the user steps through them: the centre, then       *)
(* around it                                                                   *)
target_positions ==
    [k \in 1..9 |-> [column |-> <<1, 0, 1, 2, 2, 2, 1, 0, 0>>[k], row |-> <<1, 0, 0, 0, 1, 2, 2, 2, 1>>[k]]]
position_index(column, row) ==
    CHOOSE k \in 1..9 : target_positions[k] = [column |-> column, row |-> row]

(* What a session starts with                                                  *)
Unaimed == [position |-> Unset, nudge |-> [x |-> 0, y |-> 0]]
Aims == [position : 0..9, nudge : [x : -Furthest - 1..Furthest, y : -Furthest - 1..Furthest]]
Aimed(position) == [Unaimed EXCEPT !.position = position]

cycle_target_position(aim) == Aimed((aim.position % 9) + 1)

(* The keys 1 to 9 name the places in reading order; the mutant takes the      *)
(* number for the place in the order of stepping                               *)
set_target_position_stepped(grid_index) == Aimed(grid_index + 1)
set_target_position(grid_index) == Aimed(position_index(grid_index % 3, grid_index \div 3))

(* A snap keeps the other axis of the place it starts from; the mutant always  *)
(* starts from the centre                                                      *)
Snapped(from, direction) ==
    Aimed(position_index(CASE direction = "left" -> 0 [] direction = "right" -> 2 [] OTHER -> from.column,
                         CASE direction = "up" -> 0 [] direction = "down" -> 2 [] OTHER -> from.row))
snap_target_centred(aim, direction) == Snapped(target_positions[1], direction)
snap_target(aim, direction) ==
    Snapped(IF aim.position = Unset THEN target_positions[1] ELSE target_positions[aim.position], direction)

Away(direction) ==
    CASE direction = "left" -> [x |-> -NudgeStep, y |-> 0] [] direction = "right" -> [x |-> NudgeStep, y |-> 0]
      [] direction = "up" -> [x |-> 0, y |-> -NudgeStep]   [] direction = "down" -> [x |-> 0, y |-> NudgeStep]
(* A nudge that would not fit is refused                                       *)
NudgeFits(aim, by) ==
    /\ aim.nudge.x + by.x \in -Furthest - 1..Furthest
    /\ aim.nudge.y + by.y \in -Furthest - 1..Furthest
nudge_target(aim, by) == [aim EXCEPT !.nudge = [x |-> @.x + by.x, y |-> @.y + by.y]]

(* The commands of the controller and what they make of the session's aim      *)
Adjustments == [kind : {"next"}] \cup [kind : {"place"}, index : 0..8] \cup [kind : {"snap", "nudge"}, direction : Directions]
Adjustable(aim, command) == command.kind = "nudge" => NudgeFits(aim, Away(command.direction))
Adjusted(aim, command) ==
    CASE command.kind = "next" -> cycle_target_position(aim)
      [] command.kind = "place" -> set_target_position(command.index)
      [] command.kind = "snap" -> snap_target(aim, command.direction)
      [] command.kind = "nudge" -> nudge_target(aim, Away(command.direction))

(* The point of a target: three places on each axis, inset from the edges by a *)
(* quarter at most; the result is kept in the range of its type.               *)
Inset(extent) ==
    LET quarter == (extent - 1) \div 4 IN IF EdgeInset < quarter THEN EdgeInset ELSE quarter
AlongAxis(at, extent, place) ==
    at + (CASE place = 0 -> Inset(extent) [] place = 1 -> (extent - 1) \div 2 [] place = 2 -> extent - 1 - Inset(extent))
InRange(v) == IF v > Furthest THEN Furthest ELSE IF v < -Furthest - 1 THEN -Furthest - 1 ELSE v
adjusted_point(aim, bounds, safe) ==
    LET place == target_positions[aim.position]
        base == IF aim.position = Unset THEN safe
                ELSE [x |-> AlongAxis(bounds.x, bounds.w, place.column), y |-> AlongAxis(bounds.y, bounds.h, place.row)]
    IN [x |-> InRange(base.x + aim.nudge.x), y |-> InRange(base.y + aim.nudge.y)]
===============================================================================
