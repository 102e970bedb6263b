------------------------------ MODULE TempCtl ------------------------------
(***************************************************************************)
(* One tempctl device (tempctl_device.cpp) between two threads: the request  *)
(* thread calls its functions, the ticker runs its closed loop, collects     *)
(* its relays and lets the engine move its temperature.  update_control      *)
(* takes the state mutex twice and reads the signal registry in between, so  *)
(* requests land between its halves; the two relays are collected by two     *)
(* separate reads.                                                          *)
(*                                                                         *)
(* Temperatures are the members of Temps, a grid whose points the control    *)
(* law and the physics tell apart.  The second thermocouple is left out: it  *)
(* follows the first with an offset and nothing reads it.                    *)
(***************************************************************************)
EXTENDS Integers

CONSTANTS
    Temps,         \* temperature grid, in degrees
    InitialTemps,  \* initial_temp values of the configuration
    SetpointArgs,  \* arguments of set_setpoint, valid or not
    Engines,       \* engines considered: "local", "remote"
    NoValue        \* std::nullopt

ASSUME TempsAssumption == Temps \subseteq Int /\ InitialTemps \subseteq Temps
ASSUME SetpointArgsAssumption == SetpointArgs \subseteq Int
ASSUME EnginesAssumption == Engines \subseteq {"local", "remote"}
ASSUME NoValueAssumption == NoValue \notin Int

VARIABLES
    mode, setpoint_c, relay1, relay2, tc1_c,  \* State
    engine,          \* which engine drives the device
    physics_driven,  \* whether the registry marks tc1_temp physics-driven
    signal_cache,    \* the value of tc1_temp last published to the registry
    pc,              \* where the ticker stands in its tick
    current_temp,    \* what update_control read from the registry
    actuators,       \* the relay values collected in this tick
    stayedClosed     \* history: the mode was closed all through this tick

deviceVars == <<mode, setpoint_c, relay1, relay2>>
worldVars == <<tc1_c, engine, physics_driven, signal_cache>>
vars == <<deviceVars, worldVars, pc, current_temp, actuators, stayedClosed>>

Labels == {"mode_check", "read_signal", "decide", "collect_relay1", "collect_relay2",
           "engine_tick"}
Actuators == [relay1 : BOOLEAN \cup {NoValue}, relay2 : BOOLEAN \cup {NoValue}]

TypeOK ==
    /\ mode \in {"open", "closed"}
    /\ setpoint_c \in -50 .. 400
    /\ relay1 \in BOOLEAN /\ relay2 \in BOOLEAN
    /\ tc1_c \in Int
    /\ engine \in Engines /\ physics_driven \in BOOLEAN
    /\ signal_cache \in Int \cup {NoValue}
    /\ pc \in Labels
    /\ current_temp \in Int \cup {NoValue}
    /\ actuators \in Actuators
    /\ stayedClosed \in BOOLEAN

NoActuators == [relay1 |-> NoValue, relay2 |-> NoValue]

\* The safe initial state, and paths marked from the engine's signal list:
\* only a remote engine has one.
Init ==
    /\ mode = "open" /\ setpoint_c = 60
    /\ relay1 = FALSE /\ relay2 = FALSE
    /\ tc1_c \in InitialTemps
    /\ engine \in Engines
    /\ physics_driven \in (IF engine = "remote" THEN BOOLEAN ELSE {FALSE})
    /\ signal_cache = NoValue
    /\ pc = "mode_check"
    /\ current_temp = NoValue
    /\ actuators = NoActuators
    /\ stayedClosed = FALSE

-----------------------------------------------------------------------------
(* The request thread: call_function, under the state mutex throughout.     *)
(* A rejected call changes nothing.                                         *)

SetMode(m) ==
    /\ m \in {"open", "closed"}
    /\ mode' = m
    /\ stayedClosed' = (stayedClosed /\ m = "closed")
    /\ UNCHANGED <<setpoint_c, relay1, relay2, worldVars, pc, current_temp, actuators>>

SetSetpoint(sp) ==
    /\ sp >= -50 /\ sp <= 400
    /\ setpoint_c' = sp
    /\ UNCHANGED <<mode, relay1, relay2, worldVars, pc, current_temp, actuators,
                   stayedClosed>>

\* Mutant: relays can be set in closed mode.
MutantSetRelayAnyMode(relay_index, state) ==
    /\ \/ relay_index = 1 /\ relay1' = state /\ UNCHANGED relay2
       \/ relay_index = 2 /\ relay2' = state /\ UNCHANGED relay1
    /\ UNCHANGED <<mode, setpoint_c, worldVars, pc, current_temp, actuators,
                   stayedClosed>>

SetRelay(relay_index, state) ==
    /\ mode = "open"
    /\ \/ relay_index = 1 /\ relay1' = state /\ UNCHANGED relay2
       \/ relay_index = 2 /\ relay2' = state /\ UNCHANGED relay1
    /\ UNCHANGED <<mode, setpoint_c, worldVars, pc, current_temp, actuators,
                   stayedClosed>>

Request ==
    \/ \E m \in {"open", "closed", "bogus"} : SetMode(m)
    \/ \E sp \in SetpointArgs : SetSetpoint(sp)
    \/ \E relay_index \in 0 .. 3, state \in BOOLEAN : SetRelay(relay_index, state)

-----------------------------------------------------------------------------
(* The ticker thread *)

\* First locked section of update_control; a new tick begins.
ModeCheck ==
    /\ pc = "mode_check"
    /\ pc' = IF mode = "closed" THEN "read_signal" ELSE "collect_relay1"
    /\ actuators' = NoActuators
    /\ stayedClosed' = (mode = "closed")
    /\ UNCHANGED <<deviceVars, worldVars, current_temp>>

\* Mutant: the control loop reads the device's own value of a driven signal.
MutantReadOwnValue == {tc1_c, NoValue}

\* SignalRegistry::read_signal of tc1_temp: the cached value of a driven path,
\* else the device's own value, withheld while it is faulted unavailable.
Readings ==
    IF physics_driven THEN {signal_cache} ELSE {tc1_c, NoValue}

ReadSignal ==
    /\ pc = "read_signal"
    /\ \E t \in Readings :
          /\ current_temp' = t
          /\ pc' = IF t = NoValue THEN "collect_relay1" ELSE "decide"
    /\ UNCHANGED <<deviceVars, worldVars, actuators, stayedClosed>>

\* Mutant: the mode is not checked again.
MutantNoRecheck ==
    /\ pc = "decide"
    /\ LET error == setpoint_c - current_temp IN
       \/ error > 10 /\ relay1' = TRUE /\ relay2' = TRUE
       \/ error > 2 /\ error <= 10 /\ relay1' = TRUE /\ relay2' = FALSE
       \/ error < -2 /\ relay1' = FALSE /\ relay2' = FALSE
       \/ error >= -2 /\ error <= 2 /\ UNCHANGED <<relay1, relay2>>
    /\ pc' = "collect_relay1"
    /\ UNCHANGED <<mode, setpoint_c, worldVars, current_temp, actuators, stayedClosed>>

\* Second locked section: the mode is checked again, the setpoint read now.
Decide ==
    /\ pc = "decide"
    /\ LET error == setpoint_c - current_temp IN
       \/ /\ mode = "closed" /\ error > 10
          /\ relay1' = TRUE /\ relay2' = TRUE
       \/ /\ mode = "closed" /\ error > 2 /\ error <= 10
          /\ relay1' = TRUE /\ relay2' = FALSE
       \/ /\ mode = "closed" /\ error < -2
          /\ relay1' = FALSE /\ relay2' = FALSE
       \/ /\ mode # "closed" \/ (error >= -2 /\ error <= 2)
          /\ UNCHANGED <<relay1, relay2>>
    /\ pc' = "collect_relay1"
    /\ UNCHANGED <<mode, setpoint_c, worldVars, current_temp, actuators, stayedClosed>>

\* maybe_collect_signal of one relay: the live state, or nothing while the
\* device is faulted unavailable.
Collect(relay, value, from, to) ==
    /\ pc = from
    /\ \E v \in {value, NoValue} : actuators' = [actuators EXCEPT ![relay] = v]
    /\ pc' = to
    /\ UNCHANGED <<deviceVars, worldVars, current_temp, stayedClosed>>

CollectRelay1 == Collect("relay1", relay1, "collect_relay1", "collect_relay2")
CollectRelay2 == Collect("relay2", relay2, "collect_relay2", "engine_tick")

\* Mutant: the closed mode is forgotten in the physics.
MutantOpenLoopTarget == IF relay1 \/ relay2 THEN 68 ELSE 23

\* update_physics: a first-order response moves the temperature part of the
\* way to its target.
Target ==
    IF mode = "closed" THEN setpoint_c
    ELSE 23 + (CASE ~relay1 /\ ~relay2 -> 0
                 [] relay1 # relay2    -> 45
                 [] relay1 /\ relay2   -> 75)

Between(a, b) == {t \in Temps \cup {b} : (a < t /\ t <= b) \/ (b <= t /\ t < a)}

UpdatePhysics ==
    /\ pc = "engine_tick" /\ engine = "local"
    /\ tc1_c' \in (IF tc1_c = Target THEN {tc1_c} ELSE Between(tc1_c, Target))
    /\ pc' = "mode_check"
    /\ UNCHANGED <<deviceVars, engine, physics_driven, signal_cache, current_temp,
                   actuators, stayedClosed>>

\* A remote engine: the tick fails and the previous value stays, or it
\* succeeds and a driven path is published.
RemoteTick ==
    /\ pc = "engine_tick" /\ engine = "remote"
    /\ \/ UNCHANGED signal_cache
       \/ physics_driven /\ signal_cache' \in Temps
    /\ pc' = "mode_check"
    /\ UNCHANGED <<deviceVars, tc1_c, engine, physics_driven, current_temp,
                   actuators, stayedClosed>>

Ticker == ModeCheck \/ ReadSignal \/ Decide \/ CollectRelay1 \/ CollectRelay2
          \/ UpdatePhysics \/ RemoteTick

Next == Request \/ Ticker

\* The ticker thread keeps running; clients need not do anything.
Spec == Init /\ [][Next]_vars /\ WF_vars(Ticker)

-----------------------------------------------------------------------------
(* Properties *)

\* In open mode the relays belong to the client: only an accepted set_relay
\* moves them, even when the mode was opened between the two halves of
\* update_control, with a decision already under way.
OpenModeIsManual ==
    [][(mode = "open" /\ <<relay1, relay2>>' # <<relay1, relay2>>)
          => \E i \in 1 .. 2, state \in BOOLEAN : SetRelay(i, state)]_vars

\* With the temperature that everybody else sees in place of the one read in the
\* first half of update_control, the two-thread device is the thermostat of the
\* documentation, whose control actions are indivisible.
Promised == INSTANCE Thermostat WITH
    setpoint <- setpoint_c, heater1 <- relay1, heater2 <- relay2,
    temperature <- (IF physics_driven THEN signal_cache ELSE tc1_c),
    NoTemperature <- NoValue
ImplementsThermostat == Promised!Spec

\* "a closed loop can react to the previous sensor sample and contribute its
\* updated actuator state to the current simulation tick"
\* (device_manager.cpp:221): while the mode stays closed, the two separate
\* reads collect exactly the pair of relays the control pass left, because
\* set_relay is refused; requests that go on meanwhile cannot tear it.
ClosedPairIsCoherent ==
    /\ TypeOK
    /\ (pc = "engine_tick" /\ stayedClosed) =>
          /\ actuators.relay1 \in {relay1, NoValue}
          /\ actuators.relay2 \in {relay2, NoValue}

\* A closed loop left alone comes to rest.  On a published temperature that
\* stays above the dead band it switches the heating off for good, whatever the
\* relays were before; with local physics the temperature settles in the dead
\* band of the setpoint (tempctl_device.cpp:169).
ClosedLoopSettles == \A sp \in SetpointArgs :
    /\ <>[](mode = "closed" /\ setpoint_c = sp /\ physics_driven
               /\ signal_cache # NoValue /\ signal_cache > sp + 2)
          => <>[](~relay1 /\ ~relay2)
    /\ <>[](mode = "closed" /\ setpoint_c = sp /\ engine = "local")
          => <>[](tc1_c >= sp - 2 /\ tc1_c <= sp + 2)
=============================================================================
