-------------------------- MODULE PlatformPipeline --------------------------
(***************************************************************************)
(* The life of the platform pipeline                                       *)
(* (src/platform/windows/desktop_pipeline.cpp): a stack of native owners   *)
(* that initialize builds from the bottom, stopping at the first failure   *)
(* with what is built left standing, and that shutdown takes down from the *)
(* top, each owner on its own, so that one that refuses stays up while the *)
(* ones below it go.  What the pipeline does while it runs is in           *)
(* DesktopScenes, Activation and Agent; here only its session is kept.     *)
(*                                                                         *)
(* A call has several outcomes, so every operation is the set of them:     *)
(* what it returns, the pipeline it leaves and how many failures of the    *)
(* system it took.                                                         *)
(***************************************************************************)
EXTENDS Integers, FiniteSets, SequencesExt

CONSTANTS Documents,            \* the settings documents, compared and never read
          DefaultDocument,
          DeviceOf,             \* the compute device a document asks for
          Stack,                \* the owners, in the order initialize builds them
          TwoPart,              \* those whose step goes on after they are up
          Kept                  \* those that have no shutdown

NoDocument == "none"

ASSUME DocumentsAssumption == DefaultDocument \in Documents /\ NoDocument \notin Documents

\* The pipeline's own stack is << "provider", "inference", "capture_provider",
\* "captures", "accessibility", "input", "bridge", "runtime", "agent", "keys",
\* "overlays" >>, of which captures, agent, keys and overlays are in two parts
\* (synchronize, apply_scope, replace).  The capture provider is kept: it is a
\* member of the pipeline that only the end of the process takes down.
ASSUME StackAssumption == /\ Stack \in Seq(STRING)
                          /\ "provider" \in Range(Stack) /\ "overlays" \in Range(Stack)
                          /\ TwoPart \subseteq Range(Stack)
                          /\ Kept \subseteq Range(Stack) \ {"provider", "overlays"}

Owners == Range(Stack)

Sessions == {"idle", "asked", "active"}

Pipelines == [initialized : BOOLEAN, up : SUBSET Owners, settings : Documents \cup {NoDocument},
              available : BOOLEAN, session : Sessions]

\* The pipeline of a new process.
Down == [initialized |-> FALSE, up |-> {}, settings |-> NoDocument,
         available |-> TRUE, session |-> "idle"]

\* What shutdown leaves when nothing refuses.
Downed(p) == [Down EXCEPT !.up = p.up \cap Kept]

\* Every owner is there; a pipeline that is initialized is not always whole.
Whole(p) == p.initialized /\ p.up = Owners

Outcome(result, pipe, cost) == [result |-> result, pipe |-> pipe, cost |-> cost]

\* A build that stopped at the k-th owner, with what else it left up.
StoppedAt(p, k, extra, document) ==
  [p EXCEPT !.up = @ \cup {Stack[j] : j \in 1..(k - 1)} \cup extra, !.settings = document]
Built(p, document) ==
  [p EXCEPT !.initialized = TRUE, !.up = Owners, !.settings = document, !.session = "idle"]

Taken(p) == {k \in DOMAIN Stack : Stack[k] \in p.up}
FirstTaken(p) ==
  IF Taken(p) = {} THEN Len(Stack) + 1 ELSE CHOOSE k \in Taken(p) : \A j \in Taken(p) : k <= j
Buildable(p) == {k \in DOMAIN Stack : k < FirstTaken(p)}

\* The system fails one owner's step with a backend error or with a refusal of
\* another kind (no display, a bad artifact); an owner that is already up
\* refuses to be initialized again.
InitializeOutcomes(p, document) ==
  IF p.initialized THEN {Outcome("REFUSED", p, 0)}
  ELSE
    {Outcome(code, StoppedAt(p, k, {}, document), 1) : k \in Buildable(p), code \in {"BACKEND", "REFUSED"}}
    \cup {Outcome("BACKEND", StoppedAt(p, k, {Stack[k]}, document), 1)
            : k \in {j \in Buildable(p) : Stack[j] \in TwoPart}}
    \cup {IF Taken(p) = {} THEN Outcome("OK", Built(p, document), 0)
          ELSE Outcome("REFUSED", StoppedAt(p, FirstTaken(p), {}, document), 0)}

\* At most one owner of those that are up refuses to stop.  The provider is not
\* stopped under an overlay that did not stop.
ShutdownOutcomes(p) ==
  {Outcome("OK", Downed(p), 0)} \cup
  {Outcome("BACKEND",
           [p EXCEPT !.up = @ \cap (Kept \cup IF o = "overlays" THEN {"overlays", "provider"} ELSE {o})], 1)
     : o \in p.up \ Kept}

\* apply_settings: another device restarts the whole stack and, when that
\* fails, takes it down and builds it for the previous document, whatever the
\* two calls return.
RestartOutcomes(p, document) ==
  LET Restored(i) ==
        UNION {{Outcome(i.result, r.pipe, i.cost + s.cost + r.cost)
                  : r \in InitializeOutcomes(s.pipe, p.settings)} : s \in ShutdownOutcomes(i.pipe)}
      Rebuilt(s) ==
        UNION {IF i.result = "OK" THEN {i} ELSE Restored(i) : i \in InitializeOutcomes(s.pipe, document)}
  IN  UNION {IF s.result = "OK" THEN Rebuilt(s) ELSE {s} : s \in ShutdownOutcomes(p)}

ApplyOutcomes(p, document) ==
  IF ~p.initialized THEN {Outcome("INVALID", p, 0)}
  ELSE IF p.session # "idle" THEN {Outcome("BUSY", p, 0)}
  ELSE IF DeviceOf[document] # DeviceOf[p.settings] THEN RestartOutcomes(p, document)
  ELSE {Outcome("REFUSED", p, IF Whole(p) THEN 1 ELSE 0)} \cup
       (IF Whole(p) THEN {Outcome("OK", [p EXCEPT !.settings = document], 0)} ELSE {})

\* observe_physical_input: the human acts, and what was asked or shown ends.
ObserveOutcomes(p) ==
  IF ~Whole(p) THEN {Outcome("INVALID", p, 0)}
  ELSE {Outcome("OK", [p EXCEPT !.session = "idle"], 0), Outcome("BACKEND", p, 1)}

\* set_input_available
AvailableOutcomes(p, value) ==
  IF ~Whole(p) THEN {Outcome("INVALID", p, 0)}
  ELSE IF p.available = value THEN {Outcome("OK", p, 0)}
  ELSE LET changed == [p EXCEPT !.available = value]
       IN  {Outcome("BACKEND", p, 1),
            Outcome("OK", IF value THEN changed ELSE [changed EXCEPT !.session = "idle"], 0)}
           \cup (IF value THEN {} ELSE {Outcome("BACKEND", changed, 1)})

\* Mutant: trusts the flag alone.
RequestOutcomesTrusting(p, locked) ==
  IF ~Whole(p) THEN {Outcome("INVALID", p, 0)}
  ELSE IF ~p.available THEN {Outcome("PERMISSION", p, 0)}
  ELSE IF p.session # "idle" THEN {Outcome("BUSY", p, 0)}
  ELSE {Outcome("OK", [p EXCEPT !.session = "asked"], 0)}

\* request: refused without input, and on a desktop that is not the user's,
\* which also takes the input away.
RequestOutcomes(p, locked) ==
  IF ~Whole(p) THEN {Outcome("INVALID", p, 0)}
  ELSE IF ~p.available THEN {Outcome("PERMISSION", p, 0)}
  ELSE IF locked
       THEN {Outcome(IF o.result = "OK" THEN "PERMISSION" ELSE o.result, o.pipe, o.cost)
               : o \in AvailableOutcomes(p, FALSE)}
  ELSE IF p.session # "idle" THEN {Outcome("BUSY", p, 0)}
  ELSE {Outcome("OK", [p EXCEPT !.session = "asked"], 0)}
=============================================================================
