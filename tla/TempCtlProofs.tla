--------------------------- MODULE TempCtlProofs ---------------------------
(***************************************************************************)
(* The safety of the two-thread tempctl, for every temperature grid, every    *)
(* initial temperature and every setpoint a client may ask for.               *)
(***************************************************************************)
EXTENDS TempCtl, TLAPS

\* While the mode stays closed, what has been collected so far is what the
\* control pass left: nobody else may switch a relay.
CollectedIsCurrent == stayedClosed =>
    /\ mode = "closed"
    /\ pc \in {"collect_relay2", "engine_tick"} => actuators.relay1 \in {relay1, NoValue}
    /\ pc = "engine_tick" => actuators.relay2 \in {relay2, NoValue}

\* The temperature that the registry shows everybody, as ImplementsThermostat
\* takes it.
Shown == IF physics_driven THEN signal_cache ELSE tc1_c

\* A decision is made on the newest reading there is: nothing is published
\* and no physics runs between update_control's read and its second section.
DecidesOnFreshReading == pc = "decide" => current_temp # NoValue /\ current_temp = Shown

\* The inductive invariant: ClosedPairIsCoherent speaks of the end of the
\* collection only and has to be followed from its first read on.
IInv ==
    /\ TypeOK
    /\ DecidesOnFreshReading
    /\ CollectedIsCurrent

\* The open-loop and closed-loop targets are temperatures.
LEMMA TargetType == TypeOK => Target \in Int
BY DEF TypeOK, Target

\* IInv holds in the safe initial state.
LEMMA InitIInv == Init => IInv
<1> SUFFICES ASSUME Init PROVE IInv
  OBVIOUS
<1>1. physics_driven \in BOOLEAN
  BY DEF Init
<1>2. tc1_c \in Int
  BY TempsAssumption DEF Init
<1>3. actuators \in Actuators
  BY DEF Init, Actuators, NoActuators
<1>4. setpoint_c \in -50 .. 400
  BY DEF Init
<1>5. TypeOK
  BY <1>1, <1>2, <1>3, <1>4, Zenon DEF Init, TypeOK, Labels
<1> QED
  BY <1>5 DEF Init, IInv, DecidesOnFreshReading, CollectedIsCurrent

\* IInv is kept by call_function, whichever function is called and wherever
\* the ticker stands.
LEMMA RequestIInv == IInv /\ Request => IInv'
<1> SUFFICES ASSUME IInv, Request PROVE IInv'
  OBVIOUS
<1> USE DEF IInv, TypeOK, DecidesOnFreshReading, Shown, CollectedIsCurrent, worldVars
<1>1. ASSUME NEW m \in {"open", "closed", "bogus"}, SetMode(m) PROVE IInv'
  BY <1>1 DEF SetMode
<1>2. ASSUME NEW sp \in SetpointArgs, SetSetpoint(sp) PROVE IInv'
  <2>1. setpoint_c' \in -50 .. 400
    BY <1>2, SetpointArgsAssumption DEF SetSetpoint
  <2> QED
    BY <1>2, <2>1 DEF SetSetpoint
<1>3. ASSUME NEW relay_index \in 0 .. 3, NEW state \in BOOLEAN,
             SetRelay(relay_index, state)
      PROVE  IInv'
  BY <1>3 DEF SetRelay
<1> QED
  BY <1>1, <1>2, <1>3 DEF Request

\* IInv is kept by every step of a tick.
LEMMA TickerIInv == IInv /\ Ticker => IInv'
<1> SUFFICES ASSUME IInv, Ticker PROVE IInv'
  OBVIOUS
<1> USE DEF IInv, TypeOK, DecidesOnFreshReading, Shown, CollectedIsCurrent, worldVars,
            deviceVars, Labels
<1>1. CASE ModeCheck
  BY <1>1 DEF ModeCheck, NoActuators, Actuators
<1>2. CASE ReadSignal
  <2>1. PICK t \in Readings :
           /\ current_temp' = t
           /\ pc' = IF t = NoValue THEN "collect_relay1" ELSE "decide"
    BY <1>2 DEF ReadSignal
  <2>2. t \in Int \cup {NoValue}
    BY <2>1 DEF Readings
  <2>3. t # NoValue => t = IF physics_driven THEN signal_cache ELSE tc1_c
    BY <2>1 DEF Readings
  <2> QED
    BY <1>2, <2>1, <2>2, <2>3 DEF ReadSignal
<1>3. CASE Decide
  <2>1. relay1' \in BOOLEAN /\ relay2' \in BOOLEAN
    BY <1>3 DEF Decide
  <2> QED
    BY <1>3, <2>1 DEF Decide
<1>4. CASE CollectRelay1
  <2>1. PICK v \in {relay1, NoValue} : actuators' = [actuators EXCEPT !["relay1"] = v]
    BY <1>4 DEF CollectRelay1, Collect
  <2>2. actuators' \in Actuators /\ actuators'.relay1 = v
    BY <2>1 DEF Actuators
  <2> QED
    BY <1>4, <2>1, <2>2 DEF CollectRelay1, Collect
<1>5. CASE CollectRelay2
  <2>1. PICK v \in {relay2, NoValue} : actuators' = [actuators EXCEPT !["relay2"] = v]
    BY <1>5 DEF CollectRelay2, Collect
  <2>2. /\ actuators' \in Actuators
        /\ actuators'.relay1 = actuators.relay1 /\ actuators'.relay2 = v
    BY <2>1 DEF Actuators
  <2> QED
    BY <1>5, <2>1, <2>2 DEF CollectRelay2, Collect
<1>6. CASE UpdatePhysics
  <2>1. tc1_c' \in Int
    BY <1>6, TargetType, TempsAssumption DEF UpdatePhysics, Between
  <2> QED
    BY <1>6, <2>1 DEF UpdatePhysics
<1>7. CASE RemoteTick
  <2>1. signal_cache' \in Int \cup {NoValue}
    BY <1>7, TempsAssumption DEF RemoteTick
  <2> QED
    BY <1>7, <2>1 DEF RemoteTick
<1> QED
  BY <1>1, <1>2, <1>3, <1>4, <1>5, <1>6, <1>7 DEF Ticker

\* The strengthened invariant of a tempctl device and its ticker.
THEOREM Invariance == Spec => []IInv
<1>1. IInv /\ UNCHANGED vars => IInv'
  BY DEF IInv, TypeOK, DecidesOnFreshReading, Shown, CollectedIsCurrent, vars,
         deviceVars, worldVars
<1>2. IInv /\ [Next]_vars => IInv'
  BY <1>1, RequestIInv, TickerIInv DEF Next
<1> QED
  BY <1>2, InitIInv, PTL DEF Spec

\* Between update_control's read of the registry and its second locked section
\* the reading does not age (tempctl_device.cpp:131).
THEOREM ReadingIsFresh == Spec => []DecidesOnFreshReading
<1>1. IInv => DecidesOnFreshReading
  BY DEF IInv
<1> QED
  BY <1>1, Invariance, PTL

\* The two relays of a closed loop reach the engine as the pair the control
\* pass decided on, although they are collected by two separate reads.
THEOREM PairIsCoherent == Spec => []ClosedPairIsCoherent
<1>1. IInv => ClosedPairIsCoherent
  BY DEF IInv, CollectedIsCurrent, ClosedPairIsCoherent
<1> QED
  BY <1>1, Invariance, PTL

\* In open mode only an accepted set_relay moves a relay: a control decision
\* that was under way when the mode was opened is dropped.
THEOREM OpenModeManual == Spec => OpenModeIsManual
<1> DEFINE Manual == (mode = "open" /\ <<relay1, relay2>>' # <<relay1, relay2>>)
                        => \E i \in 1 .. 2, state \in BOOLEAN : SetRelay(i, state)
<1>1. [Next]_vars => [Manual]_vars
  <2> SUFFICES ASSUME [Next]_vars, mode = "open",
                      <<relay1, relay2>>' # <<relay1, relay2>>
               PROVE  \E i \in 1 .. 2, state \in BOOLEAN : SetRelay(i, state)
    OBVIOUS
  <2>1. CASE Request
    <3>1. PICK i \in 0 .. 3, state \in BOOLEAN : SetRelay(i, state)
      BY <2>1 DEF Request, SetMode, SetSetpoint
    <3>2. i \in 1 .. 2
      BY <3>1 DEF SetRelay
    <3> QED
      BY <3>1, <3>2
  <2>2. CASE Ticker
    BY <2>2 DEF Ticker, ModeCheck, ReadSignal, Decide, CollectRelay1, CollectRelay2,
                Collect, UpdatePhysics, RemoteTick, deviceVars
  <2>3. CASE UNCHANGED vars
    BY <2>3 DEF vars, deviceVars
  <2> QED
    BY <2>1, <2>2, <2>3 DEF Next
<1> QED
  BY <1>1, PTL DEF Spec, OpenModeIsManual

-----------------------------------------------------------------------------
(* The two-thread device implements the thermostat of its documentation. *)

\* Init is an initial state of the thermostat.
LEMMA InitRefines == Init => Promised!Init
<1> SUFFICES ASSUME Init PROVE Promised!Init
  OBVIOUS
<1>1. Shown \in Int \cup {NoValue}
  BY TempsAssumption DEF Init, Shown
<1> QED
  BY <1>1 DEF Init, Promised!Init, Shown

\* Every request is a request of the thermostat, wherever the ticker stands.
LEMMA RequestRefines == IInv /\ IInv' /\ Request => [Promised!Next]_Promised!vars
<1> SUFFICES ASSUME IInv, IInv', Request PROVE [Promised!Next]_Promised!vars
  OBVIOUS
<1>0. TypeOK /\ TypeOK'
  BY DEF IInv
<1>1. ASSUME NEW m \in {"open", "closed", "bogus"}, SetMode(m) PROVE Promised!SetMode
  BY <1>1 DEF SetMode, Promised!SetMode, worldVars
<1>2. ASSUME NEW sp \in SetpointArgs, SetSetpoint(sp) PROVE Promised!SetSetpoint
  BY <1>0, <1>2 DEF SetSetpoint, Promised!SetSetpoint, worldVars, TypeOK
<1>3. ASSUME NEW i \in 0 .. 3, NEW state \in BOOLEAN, SetRelay(i, state)
      PROVE  Promised!SwitchManually
  BY <1>0, <1>3 DEF SetRelay, Promised!SwitchManually, worldVars, TypeOK
<1> QED
  BY <1>1, <1>2, <1>3 DEF Request, Promised!Next

\* The second half of update_control is an indivisible control action on the
\* temperature shown at that moment, or it leaves the relays alone.
LEMMA DecideRefines == IInv /\ Decide => [Promised!Next]_Promised!vars
<1> SUFFICES ASSUME IInv, Decide PROVE [Promised!Next]_Promised!vars
  OBVIOUS
<1>1. /\ UNCHANGED <<mode, setpoint_c>> /\ UNCHANGED Shown
      /\ current_temp = Shown /\ Shown # NoValue
      /\ current_temp \in Int /\ setpoint_c \in Int
  BY DEF Decide, IInv, DecidesOnFreshReading, TypeOK, worldVars, Shown
<1>2. CASE mode = "closed"
  <2> DEFINE error == setpoint_c - Shown
  <2>1. error \in Int
    BY <1>1
  <2>2. \/ error > 10 /\ relay1' = TRUE /\ relay2' = TRUE
        \/ error > 2 /\ error <= 10 /\ relay1' = TRUE /\ relay2' = FALSE
        \/ error < -2 /\ relay1' = FALSE /\ relay2' = FALSE
        \/ error >= -2 /\ error <= 2 /\ relay1' = relay1 /\ relay2' = relay2
    BY <1>1, <1>2 DEF Decide
  <2> DEFINE heating == IF error > 10 THEN <<TRUE, TRUE>>
                        ELSE IF error > 2 THEN <<TRUE, FALSE>>
                        ELSE IF error >= -2 THEN <<relay1, relay2>>
                        ELSE <<FALSE, FALSE>>
  <2>3. <<relay1', relay2'>> = heating
    <3> HIDE DEF error
    <3>1. CASE error > 10 /\ relay1' = TRUE /\ relay2' = TRUE
      BY <3>1, Zenon
    <3>2. CASE error > 2 /\ error <= 10 /\ relay1' = TRUE /\ relay2' = FALSE
      <4>1. ~(error > 10)
        BY <2>1, <3>2
      <4> QED
        BY <3>2, <4>1, Zenon
    <3>3. CASE error >= -2 /\ error <= 2 /\ relay1' = relay1 /\ relay2' = relay2
      <4>1. ~(error > 10) /\ ~(error > 2)
        BY <2>1, <3>3
      <4> QED
        BY <3>3, <4>1, Zenon
    <3>4. CASE error < -2 /\ relay1' = FALSE /\ relay2' = FALSE
      <4>1. ~(error > 10) /\ ~(error > 2) /\ ~(error >= -2)
        BY <2>1, <3>4
      <4> QED
        BY <3>4, <4>1, Zenon
    <3> QED
      BY <2>2, <3>1, <3>2, <3>3, <3>4
  <2> QED
    BY <1>1, <1>2, <2>3 DEF Promised!Next, Promised!Control, Promised!Heating, Shown
<1>3. CASE mode # "closed"
  <2>1. UNCHANGED <<relay1, relay2>>
    BY <1>3 DEF Decide
  <2> QED
    BY <1>1, <2>1 DEF Promised!vars, Shown
<1> QED
  BY <1>2, <1>3

\* The engine moves the temperature; the rest of the tick is not to be seen.
LEMMA TickerRefines == IInv /\ IInv' /\ Ticker => [Promised!Next]_Promised!vars
<1> SUFFICES ASSUME IInv, IInv', Ticker PROVE [Promised!Next]_Promised!vars
  OBVIOUS
<1>1. CASE ModeCheck \/ ReadSignal \/ CollectRelay1 \/ CollectRelay2
  BY <1>1 DEF ModeCheck, ReadSignal, CollectRelay1, CollectRelay2, Collect, deviceVars,
              worldVars, Promised!vars
<1>2. CASE Decide
  BY <1>2, DecideRefines
<1>3. CASE UpdatePhysics
  <2>1. physics_driven' = physics_driven /\ signal_cache' = signal_cache /\ tc1_c' \in Int
    BY <1>3 DEF UpdatePhysics, IInv, TypeOK
  <2> QED
    BY <1>3, <2>1 DEF UpdatePhysics, deviceVars, Promised!vars, Promised!Next,
                      Promised!TemperatureChanges
<1>4. CASE RemoteTick
  <2>1. /\ physics_driven' = physics_driven /\ tc1_c' = tc1_c
        /\ signal_cache' = signal_cache \/ signal_cache' \in Int
    BY <1>4, TempsAssumption DEF RemoteTick
  <2> QED
    BY <1>4, <2>1 DEF RemoteTick, deviceVars, Promised!vars, Promised!Next,
                      Promised!TemperatureChanges
<1> QED
  BY <1>1, <1>2, <1>3, <1>4 DEF Ticker

\* Two threads, a mutex taken twice and a registry read in between, and yet
\* every behaviour is one of the documented thermostat with indivisible control
\* actions.
THEOREM Refinement == Spec => ImplementsThermostat
<1>1. IInv /\ IInv' /\ [Next]_vars => [Promised!Next]_Promised!vars
  <2>1. UNCHANGED vars => UNCHANGED Promised!vars
    BY DEF vars, deviceVars, worldVars, Promised!vars
  <2> QED
    BY <2>1, RequestRefines, TickerRefines DEF Next
<1> QED
  BY <1>1, InitRefines, Invariance, PTL DEF Spec, ImplementsThermostat, Promised!Spec
=============================================================================
