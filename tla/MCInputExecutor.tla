--------------------------- MODULE MCInputExecutor ---------------------------
(* The plans ActionPlanner::build makes of two buttons, one key, two modifiers *)
(* and one typed unit: a chorded double click, a click after a glide, a hold,  *)
(* a hold until released, its release, drag, key, text, window activation.     *)
EXTENDS InputExecutor

CONSTANTS left, right, key, shift, control, unit

MCCommand(kind, what, modifiers, duration) ==
    [kind |-> kind, what |-> what, modifiers |-> modifiers,
     count |-> IF kind = "click" /\ what = right THEN 2 ELSE 1, duration |-> duration]

Move(duration) == MCCommand("move", left, <<>>, duration)
Down(button, duration) == MCCommand("button_down", button, <<>>, duration)
Up(button) == MCCommand("button_up", button, <<>>, 0)
Click(button, modifiers) == MCCommand("click", button, modifiers, 0)

MCPlans ==
    { <<Click(right, <<shift, control>>)>>,
      <<Move(1), Click(left, <<>>)>>,
      <<Move(0), Down(left, 2)>>,
      <<Move(0), Down(left, 0)>>,
      <<Up(left)>>,
      <<Move(0), Down(right, 0), Move(1), Up(right)>>,
      <<MCCommand("key_down", key, <<shift>>, 0), MCCommand("key_up", key, <<shift>>, 0)>>,
      <<Click(left, <<>>), MCCommand("text", unit, <<>>, 0)>>,
      <<MCCommand("activate", left, <<>>, 0)>> }
===============================================================================
