------------------------------ MODULE MotorCtl ------------------------------
(***************************************************************************)
(* A motorctl (motorctl_device.cpp) in mode non_interacting: its max_speed    *)
(* from the configuration, duties set by requests, and two speeds that        *)
(* follow them with a lag whenever the ticker runs its physics.               *)
(*                                                                         *)
(* A duty counts in steps of 1/DutySteps and a speed in 1/DutySteps rpm, so    *)
(* that duty * max_rpm is a whole speed.  One tick moves a speed by any part  *)
(* of its way (1 - exp(-dt/tau) lies strictly between 0 and 1), down to one   *)
(* unit; distances below a unit are not told apart.                           *)
(***************************************************************************)
EXTENDS Integers

CONSTANTS
    MaxSpeeds,   \* max_speed values of the configuration, or Absent
    DefaultRpm,  \* 3200
    RpmLimit,    \* 10000
    DutySteps,   \* resolution of a duty
    Absent,      \* no max_speed configured
    NaN, Inf     \* the doubles that are not finite

VARIABLES duty, speed, max_rpm  \* State; duty and speed by motor index

Motors == {1, 2}
DutyArgs == (-1 .. DutySteps + 1) \cup {NaN, Inf}

-----------------------------------------------------------------------------
(* init *)

\* max_speed <= 0 || max_speed > 10000: both comparisons are false for a NaN.
OutOfValidRange(max_speed) ==
    \/ max_speed = Inf
    \/ max_speed # NaN /\ (max_speed <= 0 \/ max_speed > RpmLimit)

\* init throws on a speed out of range, and the device does not come to be.
InitialRpm ==
    {DefaultRpm : c \in MaxSpeeds \cap {Absent}}
    \cup {c \in MaxSpeeds \ {Absent} : ~OutOfValidRange(c)}

Init ==
    /\ max_rpm \in InitialRpm
    /\ duty = [i \in Motors |-> 0]
    /\ speed = [i \in Motors |-> 0]

-----------------------------------------------------------------------------
(* The request thread *)

SetMotorDuty(idx, d) ==
    /\ idx \in Motors
    /\ d \notin {NaN, Inf}
    /\ d >= 0 /\ d <= DutySteps
    /\ duty' = [duty EXCEPT ![idx] = d]
    /\ UNCHANGED <<speed, max_rpm>>

Request == \E idx \in 0 .. 3, d \in DutyArgs : SetMotorDuty(idx, d)

-----------------------------------------------------------------------------
(* The ticker *)

Clamp(d) == IF d < 0 THEN 0 ELSE IF d > DutySteps THEN DutySteps ELSE d

\* Mutant: both motors follow the first duty.
MutantSharedTarget(i) == IF max_rpm = NaN THEN NaN ELSE Clamp(duty[1]) * max_rpm

\* Anything times a NaN is a NaN.
Target(i) == IF max_rpm = NaN THEN NaN ELSE Clamp(duty[i]) * max_rpm

\* Where a speed at a on its way to b may be after a tick.
Towards(a, b) ==
    IF a = NaN \/ b = NaN THEN {NaN}
    ELSE IF a < b THEN a + 1 .. b ELSE IF a > b THEN b .. a - 1 ELSE {a}

UpdatePhysics ==
    /\ \E s1 \in Towards(speed[1], Target(1)), s2 \in Towards(speed[2], Target(2)) :
          speed' = [i \in Motors |-> IF i = 1 THEN s1 ELSE s2]
    /\ UNCHANGED <<duty, max_rpm>>

-----------------------------------------------------------------------------
(* Type and target of the device, for the module that composes it *)

TypeOK ==
    /\ max_rpm \in (1 .. RpmLimit) \cup {NaN}
    /\ duty \in [Motors -> 0 .. DutySteps]
    /\ speed \in [Motors -> Nat \cup {NaN}]

\* Motor i runs at the share d of the top speed.  A max_speed of NaN passes the
\* range check of init and no speed is a number after the first tick.
RunsAt(i, d) == max_rpm = NaN \/ speed[i] = d * max_rpm
=============================================================================
