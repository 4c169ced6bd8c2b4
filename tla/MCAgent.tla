------------------------------- MODULE MCAgent -------------------------------
(* Batches of the actions that differ: held input, dry runs, a change of window *)
(* under way, an action that is not supported, one that is not granted, and a   *)
(* batch whose next generation is waited for.                                   *)
EXTENDS Agent

CONSTANTS w1, w2

All == {"epoch", "focus", "permission"}
Plain(actions) ==
    [actions |-> actions, asks |-> {"pointer", "keyboard", "window"}, named |-> All,
     dry |-> FALSE, verify |-> FALSE, continue |-> FALSE]
MCBatches ==
    { Plain(<<"hold", "release">>),
      [Plain(<<"hold", "cycle", "click">>) EXCEPT !.continue = TRUE],
      [Plain(<<"timed", "key", "abort">>) EXCEPT !.continue = TRUE, !.named = {}],
      [Plain(<<"hold", "abort">>) EXCEPT !.dry = TRUE],
      [Plain(<<"physical", "click">>) EXCEPT !.verify = TRUE, !.asks = {"observe", "pointer"}],
      [Plain(<<"text">>) EXCEPT !.asks = {"keyboard"}] }
MCOffers == {{"observe", "pointer", "keyboard", "window"}, {"keyboard"}, {"clipboard"}}
MCProcess == [w \in Windows \cup {Secure} |-> IF w = Secure THEN 0 ELSE 1]
===============================================================================
