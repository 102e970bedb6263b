--------------------------- MODULE EngineContract ---------------------------
(***************************************************************************)
(* The "backend-agnostic simulation engine contract" that the ticker relies   *)
(* on (simulation_engine.hpp): tick advances the simulation once and returns  *)
(* "sensor updates and optional commands for the current tick", or fails.     *)
(* A result appears whole when tick returns and is about that tick only;      *)
(* sessions, attempts, caches and pending commands are nobody's business.     *)
(***************************************************************************)
CONSTANT Paths  \* the signal paths the backend produces

VARIABLES
    phase,            \* "starting", "ready", "ticking" or "closed"
    outcome,          \* how the last tick ended
    sensors,          \* path -> "this" when the result has it, or "none"
    commands          \* {"this"} when the result has commands

vars == <<phase, outcome, sensors, commands>>
result == <<outcome, sensors, commands>>

NoSensors == [p \in Paths |-> "none"]
NoResult == sensors' = NoSensors /\ commands' = {}

Init == phase = "starting" /\ outcome = "none" /\ sensors = NoSensors /\ commands = {}

\* initialize and register_devices: the backend is ready, or main ends.
Start ==
    /\ phase = "starting"
    /\ phase' \in {"ready", "closed"}
    /\ UNCHANGED result

BeginTick ==
    /\ phase = "ready"
    /\ phase' = "ticking" /\ outcome' = "none" /\ NoResult

\* A backend that cannot tick says so.
Refuse ==
    /\ phase = "ready"
    /\ outcome' = "error" /\ NoResult
    /\ UNCHANGED phase

Return ==
    /\ phase = "ticking"
    /\ phase' = "ready" /\ outcome' = "ok"
    /\ sensors' \in [Paths -> {"none", "this"}]
    /\ commands' \subseteq {"this"}

\* Nothing was simulated, or nothing of it can be told.
ReturnNothing ==
    /\ phase = "ticking"
    /\ phase' = "ready" /\ outcome' \in {"no_tick", "error"}
    /\ NoResult

\* The destructor: not while the ticker is inside tick.
Close ==
    /\ phase = "ready"
    /\ phase' = "closed"
    /\ UNCHANGED result

Next == Start \/ BeginTick \/ Refuse \/ Return \/ ReturnNothing \/ Close
Spec == Init /\ [][Next]_vars
=============================================================================
