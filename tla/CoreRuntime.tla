----------------------------- MODULE CoreRuntime ------------------------------
(* The core library: what happens inside one runtime, and how threads create,  *)
(* find, use and destroy runtimes; and the provider that is always there.  The *)
(* calls on a runtime are its owner's and reach it the same way whatever they  *)
(* do, and a provider answers its calls alone, so a behaviour follows one part.*)
EXTENDS FrameRuntime, RuntimeStore, ReferenceBackend, TLC

VARIABLE part           \* the one this behaviour follows

CoreInit == part \in {"runtime", "store", "backend"} /\ Init /\ StoreInit /\ BackendInit

CoreNext ==
    /\ UNCHANGED part
    /\ \/ part = "runtime" /\ Next /\ UNCHANGED <<storeVars, backendVars>>
       \/ part = "store" /\ StoreNext /\ UNCHANGED <<vars, backendVars>>
       \/ part = "backend" /\ BackendNext /\ UNCHANGED <<vars, storeVars>>

(* For TLC: nothing tells one thread from another. *)
ThreadSymmetry == Permutations(Threads)

CoreSpec == CoreInit /\ [][CoreNext]_<<part, vars, storeVars, backendVars>>
===============================================================================
