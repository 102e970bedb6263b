------------------------------ MODULE Startup ------------------------------
(***************************************************************************)
(* From the command line to the run loop (main.cpp): the arguments, the       *)
(* configuration (config.cpp, config_schema.cpp), the device factory          *)
(* (device_factory.cpp, device_adapter.cpp), the engine, and what             *)
(* initialize_physics derives from them (device_manager.cpp).  Any step may    *)
(* end the process with exit code 1.                                         *)
(*                                                                         *)
(* An argument stands with its value: "--crash-after 5s" is one argument.      *)
(* A configuration is what its validation tells apart; a device path of the    *)
(* physics graph is the name before its slash.  No fault is injected yet, so   *)
(* list_devices shows every registered device.                               *)
(***************************************************************************)
EXTENDS Integers, Sequences, FiniteSets

CONSTANTS
    CommandLines,   \* sequences of arguments
    Configs,        \* configuration files
    Builds,         \* values of HAVE_FLUXGRAPH
    PathOwners,     \* device names in the targets of physics graphs
    Absent, Bad     \* a key that is not there, a value that does not parse

Arguments == {"--version", "--config-schema", "--config", "--check-config", "--sim-server",
              "--sim-server ''", "--crash-after", "--crash-after 5s", "--crash-after s",
              "other"}
Modes == {"inert", "non_interacting", "sim"}
DeviceTypes == {"tempctl", "motorctl", "relayio", "analogsensor"}

ASSUME CommandLinesAssumption == CommandLines \subseteq Seq(Arguments)
ASSUME BuildsAssumption == Builds \subseteq BOOLEAN

VARIABLES
    pc, exit_code,
    argv,               \* the arguments not looked at yet
    has_config_path, check_config_only, sim_server_address,
    have_fluxgraph,     \* how the program was built
    config,             \* the configuration file
    todo,               \* the device entries not initialized yet
    report,             \* DeviceInitializationReport
    registry,           \* ids in g_device_registry
    config_loaded,      \* g_config_loaded
    engine,             \* what create_engine made
    graph_paths,        \* owners of the paths the engine will drive
    engine_devices,     \* ids registered with the engine
    function_ids,       \* devices in g_function_name_to_id
    output_paths,       \* owners in g_physics_output_paths
    ambient,            \* whether g_ambient_input is set
    started             \* whether the ticker was started

argVars == <<argv, has_config_path, check_config_only, sim_server_address, have_fluxgraph>>
factoryVars == <<todo, report, registry, config_loaded>>
engineVars == <<engine, graph_paths, engine_devices>>
physicsVars == <<function_ids, output_paths, ambient, started>>
vars == <<pc, exit_code, argVars, config, factoryVars, engineVars, physicsVars>>

NoReport == [startup_policy |-> "strict", configured |-> << >>, successful |-> << >>,
             failed |-> << >>]
Elements(s) == {s[i] : i \in DOMAIN s}
Ids(devices) == [i \in DOMAIN devices |-> devices[i].id]

ASSUME ConfigsAssumption == \A c \in Configs : c.devices \in Seq(Elements(c.devices))
ASSUME AbsentAssumption == Absent \notin {"strict", "degraded"}

Init ==
    /\ pc = "args" /\ exit_code = 0
    /\ argv \in CommandLines
    /\ has_config_path = FALSE /\ check_config_only = FALSE /\ sim_server_address = Absent
    /\ have_fluxgraph \in Builds
    /\ config = Absent
    /\ todo = << >> /\ report = NoReport /\ registry = {} /\ config_loaded = FALSE
    /\ engine = "none" /\ graph_paths = {} /\ engine_devices = {}
    /\ function_ids = {} /\ output_paths = {} /\ ambient = FALSE /\ started = FALSE

Exit(code) == pc' = "exited" /\ exit_code' = code
Goto(label) == pc' = label /\ UNCHANGED exit_code

-----------------------------------------------------------------------------
(* The command line *)

\* Arguments are obeyed in order, so one that ends the process hides the rest.
\* std::stod reads a number from the front of "5s".
ParseArg ==
    /\ pc = "args" /\ argv # << >>
    /\ LET arg == Head(argv) IN
       /\ argv' = Tail(argv)
       /\ CASE arg \in {"--version", "--config-schema"} -> Exit(0)
            [] arg \in {"--crash-after s", "other"}     -> Exit(1)
            [] OTHER                                    -> Goto("args")
       /\ has_config_path' = (has_config_path \/ arg \in {"--config", "--check-config"})
       /\ check_config_only' = (check_config_only \/ arg = "--check-config")
       /\ sim_server_address' = IF arg \in {"--sim-server", "--sim-server ''"} THEN arg
                                ELSE sim_server_address
    /\ UNCHANGED <<have_fluxgraph, config, factoryVars, engineVars, physicsVars>>

ArgsDone ==
    /\ pc = "args" /\ argv = << >>
    /\ IF has_config_path THEN Goto("load_config") ELSE Exit(1)
    /\ UNCHANGED <<argVars, config, factoryVars, engineVars, physicsVars>>

-----------------------------------------------------------------------------
(* The configuration *)

EngineKeys == {"physics_config", "ambient_temp_c", "ambient_signal_path"}

RequiredKeys == [inert |-> {}, non_interacting |-> {"tick_rate_hz"},
                 sim |-> {"tick_rate_hz", "physics_config"}]

\* Mutant: the ambient temperature is forbidden in every mode.
MutantForbiddenKeys == [inert |-> EngineKeys \cup {"tick_rate_hz"},
                        non_interacting |-> EngineKeys, sim |-> {"ambient_temp_c"}]

ForbiddenKeys == [inert |-> EngineKeys \cup {"tick_rate_hz"},
                  non_interacting |-> EngineKeys, sim |-> {}]

\* The simulation section is closed: noise_enabled is a removed key.
SimulationValid(c) ==
    /\ c.mode \in Modes
    /\ c.keys \subseteq EngineKeys \cup {"tick_rate_hz"}
    /\ "tick_rate_hz" \in c.keys => c.tick_in_range
    /\ "ambient_signal_path" \in c.keys => "ambient_temp_c" \in c.keys
    /\ RequiredKeys[c.mode] \subseteq c.keys
    /\ c.keys \cap ForbiddenKeys[c.mode] = {}

DevicesValid(devices) ==
    /\ \A i \in DOMAIN devices : /\ devices[i].id \notin {"", "chaos_control"}
                                 /\ devices[i].type # ""
    /\ \A i, j \in DOMAIN devices : devices[i].id = devices[j].id => i = j

SchemaValid(c) ==
    /\ c.provider # "unnamed"
    /\ c.startup_policy \in {Absent, "strict", "degraded"}
    /\ DevicesValid(c.devices)
    /\ SimulationValid(c)

\* The one rule the schema cannot express.
BindingsValid(c) == c.mode = "sim" \/ \A i \in DOMAIN c.devices : ~c.devices[i].physics_bindings

StartupPolicy(c) == IF c.startup_policy = Absent THEN "strict" ELSE c.startup_policy

\* load_config and the beginning of initialize_from_config.
LoadConfig ==
    /\ pc = "load_config"
    /\ \E c \in Configs :
       /\ config' = c
       /\ IF c.readable /\ SchemaValid(c) /\ BindingsValid(c)
          THEN /\ Goto("initialize_devices")
               /\ todo' = c.devices
               /\ report' = [NoReport EXCEPT !.startup_policy = StartupPolicy(c),
                                             !.configured = Ids(c.devices)]
          ELSE Exit(1) /\ UNCHANGED <<todo, report>>
    /\ UNCHANGED <<argVars, registry, config_loaded, engineVars, physicsVars>>

-----------------------------------------------------------------------------
(* The device factory *)

\* cfg_double, cfg_range and tempctl::init; the default temperature is not
\* compared with the range.
TempctlInitThrows(spec) ==
    \/ spec.initial_temp = Bad
    \/ spec.temp_range = Bad
    \/ spec.temp_range # Absent /\
          \/ spec.temp_range[1] >= spec.temp_range[2]
          \/ /\ spec.initial_temp # Absent
             /\ \/ spec.initial_temp < spec.temp_range[1]
                \/ spec.initial_temp > spec.temp_range[2]

MotorctlInitThrows(spec) ==
    \/ spec.max_speed = Bad
    \/ spec.max_speed # Absent /\ (spec.max_speed <= 0 \/ spec.max_speed > 10000)

InitThrows(spec) ==
    \/ spec.type \notin DeviceTypes
    \/ spec.type = "tempctl" /\ TempctlInitThrows(spec)
    \/ spec.type = "motorctl" /\ MotorctlInitThrows(spec)

InitializeDevice ==
    /\ pc = "initialize_devices" /\ todo # << >>
    /\ LET spec == Head(todo) IN
       IF ~InitThrows(spec)
       THEN /\ registry' = registry \cup {spec.id}
            /\ report' = [report EXCEPT !.successful = Append(@, spec.id)]
            /\ Goto(pc)
       ELSE /\ report' = [report EXCEPT !.failed = Append(@, spec.id)]
            /\ IF report.startup_policy = "strict"
               THEN registry' = {} /\ Exit(1)
               ELSE UNCHANGED registry /\ Goto(pc)
    /\ todo' = Tail(todo)
    /\ UNCHANGED <<argVars, config, config_loaded, engineVars, physicsVars>>

DevicesDone ==
    /\ pc = "initialize_devices" /\ todo = << >>
    /\ config_loaded' = TRUE
    /\ IF check_config_only THEN Exit(0) ELSE Goto("create_engine")
    /\ UNCHANGED <<argVars, config, todo, report, registry, engineVars, physicsVars>>

-----------------------------------------------------------------------------
(* The engine *)

CreateEngine ==
    /\ pc = "create_engine"
    /\ CASE config.mode = "inert"           -> engine' = "null" /\ Goto("initialize_engine")
         [] config.mode = "non_interacting" -> engine' = "local" /\ Goto("initialize_engine")
         [] config.mode = "sim" ->
               IF have_fluxgraph /\ sim_server_address = "--sim-server"
               THEN engine' = "remote" /\ Goto("initialize_engine")
               ELSE Exit(1) /\ UNCHANGED engine
    /\ UNCHANGED <<argVars, config, factoryVars, graph_paths, engine_devices, physicsVars>>

\* engine->initialize: the remote engine reads the graph's targets, or throws.
InitializeEngine ==
    /\ pc = "initialize_engine"
    /\ \/ engine = "remote" /\ Exit(1) /\ UNCHANGED graph_paths
       \/ /\ Goto("register_devices")
          /\ graph_paths' \in IF engine = "remote" THEN SUBSET PathOwners ELSE {{}}
    /\ UNCHANGED <<argVars, config, factoryVars, engine, engine_devices, physicsVars>>

\* Mutant: every configured device is registered.
MutantRegisterConfigured ==
    /\ pc = "register_devices"
    /\ engine_devices' = Elements(report.configured) /\ Goto("initialize_physics")
    /\ UNCHANGED <<argVars, config, factoryVars, engine, graph_paths, physicsVars>>

\* Only the remote engine keeps the ids; its server may refuse them.
RegisterDevices ==
    /\ pc = "register_devices"
    /\ \/ engine = "remote" /\ Exit(1) /\ UNCHANGED engine_devices
       \/ /\ Goto("initialize_physics")
          /\ engine_devices' = IF engine = "remote" THEN Elements(report.successful) ELSE {}
    /\ UNCHANGED <<argVars, config, factoryVars, engine, graph_paths, physicsVars>>

ListDevices == IF config_loaded THEN registry \cup {"chaos_control"} ELSE {}

\* set_simulation_engine, initialize_physics and, in mode non_interacting,
\* start_physics.
InitializePhysics ==
    /\ pc = "initialize_physics"
    /\ ambient' = (config.mode = "sim" /\ "ambient_temp_c" \in config.keys)
    /\ function_ids' = ListDevices
    /\ output_paths' = IF config.mode = "sim"
                       THEN graph_paths \cap Elements(report.successful)
                       ELSE {}
    /\ started' = (config.mode = "non_interacting")
    /\ Goto("serving")
    /\ UNCHANGED <<argVars, config, factoryVars, engineVars>>

Main == ParseArg \/ ArgsDone \/ LoadConfig \/ InitializeDevice
        \/ DevicesDone \/ CreateEngine \/ InitializeEngine \/ RegisterDevices
        \/ InitializePhysics

Spec == Init /\ [][Main]_vars

-----------------------------------------------------------------------------
(* What the runtime tells its client while serving *)

\* readiness, and device_health's startup_failure
FailedDevices == Elements(report.failed)
SuccessfulDevices == Elements(report.successful)

-----------------------------------------------------------------------------
(* Properties *)

TypeOK ==
    /\ pc \in {"args", "load_config", "initialize_devices", "create_engine",
               "initialize_engine", "register_devices", "initialize_physics", "serving",
               "exited"}
    /\ exit_code \in {0, 1}
    /\ report.startup_policy \in {"strict", "degraded"}
    /\ engine \in {"none", "null", "local", "remote"}
    /\ output_paths \subseteq graph_paths
    /\ {has_config_path, check_config_only, config_loaded, ambient, started} \subseteq BOOLEAN

\* Once the devices are initialized, every configured device is either served
\* or reported as failed, never both.
EveryDeviceExplained == config_loaded =>
    /\ ListDevices = SuccessfulDevices \cup {"chaos_control"}
    /\ SuccessfulDevices \cup FailedDevices = Elements(report.configured)
    /\ Len(report.successful) + Len(report.failed) = Len(report.configured)

\* Registry, report, engine and device manager agree on the devices: what
\* readiness, list_devices and device_health say explains one another
\* (device_factory.cpp:48, sim_provider_runtime.cpp:32), and when the run loop
\* starts a device that failed is unknown to all of them, so that no engine
\* command and no published sensor can reach it.  Under the strict policy none
\* has failed, and --check-config never comes that far (README.md:84).
ServesOnlyWhatStarted ==
    /\ TypeOK
    /\ EveryDeviceExplained
    /\ check_config_only => pc # "serving" /\ engine = "none" /\ ~started
    /\ pc = "serving" =>
          /\ function_ids = SuccessfulDevices \cup {"chaos_control"}
          /\ engine = "remote" => engine_devices = SuccessfulDevices
          /\ output_paths \subseteq SuccessfulDevices
          /\ FailedDevices \cap (function_ids \cup engine_devices \cup output_paths) = {}
          /\ report.startup_policy = "strict" => FailedDevices = {}

\* The mode matrix and the rules of docs/configuration.md:56-88; bindings to the
\* physics graph belong to mode sim (config_schema.hpp:10).
Documented(c) ==
    LET ticks == "tick_rate_hz" \in c.keys /\ c.tick_in_range IN
    /\ \/ c.mode = "inert" /\ c.keys = {}
       \/ c.mode = "non_interacting" /\ c.keys = {"tick_rate_hz"} /\ ticks
       \/ /\ c.mode = "sim" /\ ticks /\ "physics_config" \in c.keys
          /\ c.keys \ {"tick_rate_hz", "physics_config"}
                \in {{}, {"ambient_temp_c"}, {"ambient_temp_c", "ambient_signal_path"}}
    /\ Cardinality({c.devices[i].id : i \in DOMAIN c.devices}) = Len(c.devices)
    /\ \A i \in DOMAIN c.devices :
          /\ c.devices[i].id # "chaos_control"
          /\ c.devices[i].physics_bindings => c.mode = "sim"

\* A complete configuration in which every device can be initialized, or the
\* policy is degraded.
Complete(c) ==
    /\ c.readable /\ c.provider # "unnamed"
    /\ c.startup_policy \in {Absent, "strict", "degraded"}
    /\ \A i \in DOMAIN c.devices :
          /\ c.devices[i].type \in DeviceTypes
          /\ c.devices[i].id # ""
          /\ c.startup_policy # "degraded" => ~InitThrows(c.devices[i])

\* The engine is at fault: this build or command line has no remote engine for
\* mode sim, or the server refused the graph or the devices.
RefusedByEngine ==
    /\ config_loaded /\ ~check_config_only /\ config.mode = "sim"
    /\ have_fluxgraph /\ sim_server_address = "--sim-server" => engine = "remote"

\* "Config/schema errors are always fail-fast" (docs/configuration.md:202): no
\* configuration outside the documented matrix gets as far as a device, under
\* either policy.  A complete one inside it, in whatever mode and with whatever
\* optional keys and bindings, passes the loader, the schema and the factory,
\* and --check-config approves it: only the engine of mode sim can still turn it
\* away, after the factory is through.
AcceptsWhatIsDocumented == config # Absent =>
    /\ ~Documented(config) => /\ pc = "exited" /\ exit_code = 1
                              /\ registry = {} /\ report = NoReport
    /\ Documented(config) /\ Complete(config) /\ pc = "exited" /\ exit_code = 1
          => RefusedByEngine
=============================================================================
