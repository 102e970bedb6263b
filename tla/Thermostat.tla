----------------------------- MODULE Thermostat -----------------------------
(***************************************************************************)
(* What the temperature control card promises (docs/devices/                 *)
(* device_tempctl0.md): "a staged on/off control loop with a +/-2 C dead     *)
(* band", which "handles relay actuation" in closed mode, while in open mode  *)
(* the host controls the relays.  A control action is one indivisible step,   *)
(* on the temperature and the setpoint of that moment; the documentation      *)
(* knows of no threads, no registry and no collected snapshot.                *)
(***************************************************************************)
EXTENDS Integers

CONSTANT NoTemperature  \* no reading is available

VARIABLES mode, setpoint, heater1, heater2, temperature

vars == <<mode, setpoint, heater1, heater2, temperature>>

\* "each init resets them to open mode and 60 C"
Init ==
    /\ mode = "open" /\ setpoint = 60
    /\ heater1 = FALSE /\ heater2 = FALSE
    /\ temperature \in Int \cup {NoTemperature}

SetMode ==
    /\ mode' \in {"open", "closed"}
    /\ UNCHANGED <<setpoint, heater1, heater2, temperature>>

SetSetpoint ==
    /\ setpoint' \in -50 .. 400
    /\ UNCHANGED <<mode, heater1, heater2, temperature>>

\* "Manual relay control blocked when in closed-loop mode": one relay a call.
SwitchManually ==
    /\ mode = "open"
    /\ heater1' \in BOOLEAN /\ heater2' \in BOOLEAN
    /\ heater1' = heater1 \/ heater2' = heater2
    /\ UNCHANGED <<mode, setpoint, temperature>>

\* Two heating stages, none above the dead band, no change within it.
Heating ==
    LET error == setpoint - temperature IN
    IF error > 10 THEN <<TRUE, TRUE>>
    ELSE IF error > 2 THEN <<TRUE, FALSE>>
    ELSE IF error >= -2 THEN <<heater1, heater2>>
    ELSE <<FALSE, FALSE>>

Control ==
    /\ mode = "closed" /\ temperature # NoTemperature
    /\ <<heater1', heater2'>> = Heating
    /\ UNCHANGED <<mode, setpoint, temperature>>

TemperatureChanges ==
    /\ temperature' \in Int
    /\ UNCHANGED <<mode, setpoint, heater1, heater2>>

Next == SetMode \/ SetSetpoint \/ SwitchManually \/ Control \/ TemperatureChanges
Spec == Init /\ [][Next]_vars
=============================================================================
