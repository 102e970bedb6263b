---------------------------- MODULE LocalDevices ----------------------------
(***************************************************************************)
(* The devices under the engine of their mode: in mode non_interacting        *)
(* LocalEngine::tick (local_engine.cpp) runs the physics of every registered  *)
(* device with the time that has passed; in mode sim the ticker publishes     *)
(* what the external simulation drives; in mode inert nothing ticks.  Clients *)
(* send requests to the registered devices at any moment.                     *)
(*                                                                         *)
(* tempctl, whose control loop has more than one step per tick, is in         *)
(* TempCtl.  Of the other types, only relayio has state that the modes        *)
(* without a local engine can move.                                          *)
(***************************************************************************)
EXTENDS AnalogSensor

CONSTANTS
    Deployments,  \* sets of device types registered together
    \* of MotorCtl:
    MaxSpeeds, DefaultRpm, RpmLimit, DutySteps, Absent, NaN, Inf,
    \* of RelayIo:
    Channels, Modes, Levels, NoValue

DeviceTypes == {"analogsensor", "motorctl", "relayio"}

ASSUME DeploymentsAssumption == Deployments \subseteq SUBSET DeviceTypes
ASSUME RpmAssumption ==
    /\ DefaultRpm \in Nat \ {0} /\ RpmLimit \in Nat /\ DefaultRpm <= RpmLimit
    /\ DutySteps \in Nat \ {0}
ASSUME NotNumbersAssumption == {Absent, NaN, Inf} \cap Int = {}
ASSUME MaxSpeedsAssumption == MaxSpeeds \subseteq Int \cup {Absent, NaN, Inf}
ASSUME ChannelsAssumption == Channels \subseteq 1 .. 4
ASSUME ModesAssumption == Modes \subseteq {"inert", "non_interacting", "sim"}
ASSUME LevelsAssumption == Levels \subseteq Int /\ NoValue \notin Int

VARIABLES
    registered,            \* the device types in the factory's registry
    duty, speed, max_rpm,  \* of the motorctl
    relay, gpio_input, mode, driven, signal_cache, switched  \* of the relayio

motorVars == <<duty, speed, max_rpm>>
relayVars == <<relay, gpio_input, mode, driven, signal_cache, switched>>
sensorVars == <<deviceVars, sinceReset>>
localVars == <<vars, registered, motorVars, relayVars>>

Motor == INSTANCE MotorCtl
Relay == INSTANCE RelayIo

LocalInit ==
    /\ Init
    /\ Motor!Init
    /\ Relay!Init
    /\ registered \in Deployments
    /\ mode # "non_interacting" => registered = {"relayio"}
    /\ "motorctl" \notin registered => max_rpm = DefaultRpm

\* One tick updates every registered device.  With no time elapsed it fails and
\* changes nothing.
LocalTick ==
    /\ mode = "non_interacting"
    /\ elapsed > 0 /\ elapsed' = 0
    /\ IF "analogsensor" \in registered THEN UpdatePhysics(Dt) ELSE UNCHANGED deviceVars
    /\ IF "motorctl" \in registered THEN Motor!UpdatePhysics ELSE UNCHANGED motorVars
    /\ IF "relayio" \in registered THEN Relay!UpdatePhysics ELSE UNCHANGED relayVars
    /\ UNCHANGED <<sinceReset, registered>>

\* The history of a sensor that is not there is not kept.
LocalTime ==
    /\ mode = "non_interacting"
    /\ \/ "analogsensor" \in registered /\ PassTime
       \/ /\ "analogsensor" \notin registered
          /\ elapsed < MaxGap /\ elapsed' = elapsed + 1
          /\ UNCHANGED sensorVars
    /\ UNCHANGED <<registered, motorVars, relayVars>>

Publish ==
    /\ "relayio" \in registered /\ Relay!Publish
    /\ UNCHANGED <<vars, registered, motorVars>>

\* A call reaches call_function of the device's adapter.
DeviceRequest ==
    \/ /\ "analogsensor" \in registered /\ Request
       /\ UNCHANGED <<registered, motorVars, relayVars>>
    \/ /\ "motorctl" \in registered /\ Motor!Request
       /\ UNCHANGED <<vars, registered, relayVars>>
    \/ /\ "relayio" \in registered /\ Relay!Request
       /\ UNCHANGED <<vars, registered, motorVars>>

LocalNext == LocalTick \/ LocalTime \/ Publish \/ DeviceRequest

\* Time passes and the ticker ticks; clients need not do anything.
LocalSpec ==
    LocalInit /\ [][LocalNext]_localVars
    /\ WF_localVars(LocalTick) /\ WF_localVars(LocalTime)

-----------------------------------------------------------------------------
(* Properties *)

LocalTypeOK == TypeOK /\ Motor!TypeOK /\ Relay!TypeOK /\ registered \in Deployments

\* A motor whose duty is left alone comes to run at that duty's share of the
\* top speed and stays there, whatever happens to the other ("dual-channel
\* independence", docs/devices/device_motorctl0.md:44).
SpeedSettles == \A i \in {1, 2} : \A d \in 0 .. DutySteps :
    "motorctl" \in registered /\ <>[](duty[i] = d) => <>[]Motor!RunsAt(i, d)

\* "In non_interacting mode, GPIO inputs are recomputed from the relay states on
\* each tick. In inert mode they stay false. In sim mode an input reads from the
\* external simulation when it drives that signal, and is false otherwise"
\* (docs/devices/device_relayio0.md:24), whatever is done to the relays.
InputsAsDocumented ==
    /\ LocalTypeOK
    /\ \A ch \in Channels :
          CASE mode = "non_interacting" -> Relay!FollowsRelay(ch)
            [] mode = "sim" -> Relay!FollowsSimulation(ch)
            [] mode = "inert" -> ~Relay!ReadGpioInput(ch)
=============================================================================
