------------------------------ MODULE RelayIo ------------------------------
(***************************************************************************)
(* A relayio (relayio_device.cpp) in each of the three modes: requests set    *)
(* its relays, the local engine's tick recomputes its inputs from them, and   *)
(* an external simulation may drive any of its inputs through the registry.   *)
(*                                                                         *)
(* What the engine publishes is a double, read back as >= 0.5; levels stand   *)
(* for it in hundredths.                                                     *)
(***************************************************************************)
EXTENDS Integers

CONSTANTS
    Channels,      \* 1 .. 4
    Modes,         \* simulation modes considered
    Levels,        \* values a simulation publishes, in hundredths
    NoValue        \* std::nullopt

VARIABLES
    relay, gpio_input,  \* State, by channel
    mode,               \* simulation mode
    driven,             \* the inputs marked physics-driven in the registry
    signal_cache,       \* what the engine published for them
    switched            \* history: relays switched since the last local tick

TypeOK ==
    /\ relay \in [Channels -> BOOLEAN] /\ gpio_input \in [Channels -> BOOLEAN]
    /\ mode \in Modes
    /\ driven \subseteq Channels
    /\ signal_cache \in [driven -> Levels \cup {NoValue}]
    /\ switched \subseteq Channels

Init ==
    /\ relay = [ch \in Channels |-> FALSE]
    /\ gpio_input = [ch \in Channels |-> FALSE]
    /\ mode \in Modes
    /\ driven \in IF mode = "sim" THEN SUBSET Channels ELSE {{}}
    /\ signal_cache = [ch \in driven |-> NoValue]
    /\ switched = Channels

\* set_relay_ch1 .. set_relay_ch4
SetRelay(ch, enabled) ==
    /\ ch \in Channels
    /\ relay' = [relay EXCEPT ![ch] = enabled]
    /\ switched' = IF relay[ch] = enabled THEN switched ELSE switched \cup {ch}
    /\ UNCHANGED <<gpio_input, mode, driven, signal_cache>>

\* Inputs 1 and 3 follow their relay, 2 and 4 are its inverse.
Looped(ch, level) == IF ch \in {1, 3} THEN level ELSE ~level

\* Mutant: only the inputs whose relay is on are recomputed.
MutantOnlyClosed ==
    /\ mode = "non_interacting"
    /\ gpio_input' = [ch \in Channels |->
          IF relay[ch] THEN Looped(ch, TRUE) ELSE gpio_input[ch]]
    /\ switched' = {}
    /\ UNCHANGED <<relay, mode, driven, signal_cache>>

\* Only the local engine runs it.
UpdatePhysics ==
    /\ mode = "non_interacting"
    /\ gpio_input' = [ch \in Channels |-> Looped(ch, relay[ch])]
    /\ switched' = {}
    /\ UNCHANGED <<relay, mode, driven, signal_cache>>

\* The ticker publishes the driven inputs it could read from the remote engine.
Publish ==
    /\ mode = "sim"
    /\ \E read \in SUBSET driven : \E level \in [read -> Levels] :
          signal_cache' = [ch \in driven |->
                              IF ch \in read THEN level[ch] ELSE signal_cache[ch]]
    /\ UNCHANGED <<relay, gpio_input, mode, driven, switched>>

Request == \E ch \in Channels, enabled \in BOOLEAN : SetRelay(ch, enabled)

\* read_signals: maybe_physics_bool, else the device's own state.
ReadGpioInput(ch) ==
    IF ch \in driven /\ signal_cache[ch] # NoValue
    THEN signal_cache[ch] >= 50
    ELSE gpio_input[ch]

-----------------------------------------------------------------------------
(* What a read of an input may show *)

\* Where the local engine ticks, an input out of step with its relay means that
\* the relay was switched since the last tick, or that there was none yet.
FollowsRelay(ch) == ReadGpioInput(ch) # Looped(ch, relay[ch]) => ch \in switched

\* With an external simulation, an input is what the simulation published.
FollowsSimulation(ch) == ReadGpioInput(ch) <=>
    ch \in driven /\ signal_cache[ch] # NoValue /\ signal_cache[ch] >= 50
=============================================================================
