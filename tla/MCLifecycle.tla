---------------------------- MODULE MCLifecycle ----------------------------
(* A small instance of Lifecycle: the default document, one for the same   *)
(* device, and one for another device whose bindings the hook refuses.     *)
EXTENDS Lifecycle

CONSTANTS default, tuned, refused

\* The stack, cut to the bottom, the owner that is kept, the top.
MCStack == <<"provider", "capture_provider", "overlays">>
MCTwoPart == {"overlays"}
MCKept == {"capture_provider"}

MCDocuments == {default, tuned, refused}
MCHooksAccept == {default, tuned}
MCDeviceOf == [d \in MCDocuments |-> IF d = refused THEN "named" ELSE "automatic"]
=============================================================================
