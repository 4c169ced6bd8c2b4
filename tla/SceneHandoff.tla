----------------------------- MODULE SceneHandoff -----------------------------
(* What SceneStore promises the two sides of the desktop runtime: a register   *)
(* holding the newest published scene.  Publishing never waits, taking returns *)
(* the newest scene there is, and a consumer that keeps asking gets it.        *)
EXTENDS Naturals

CONSTANT MaxEpoch           \* bound on publications

VARIABLES
    newest,                 \* number of the newest published scene, 0 for none
    current                 \* number of the scene the consumer sees, 0 for none

handoffVars == <<newest, current>>

Init == newest = 0 /\ current = 0

Publish ==
    /\ newest < MaxEpoch
    /\ newest' = newest + 1
    /\ UNCHANGED current

Take ==
    /\ current # newest
    /\ current' = newest
    /\ UNCHANGED newest

Next == Publish \/ Take

Safety == Init /\ [][Next]_handoffVars

Spec == Safety /\ WF_handoffVars(Take)
===============================================================================
