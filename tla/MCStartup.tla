----------------------------- MODULE MCStartup -----------------------------
(***************************************************************************)
(* Startup on small sets: all command lines of at most three arguments, and     *)
(* two families of configurations, one that varies the simulation section     *)
(* and one that varies the devices.                                          *)
(***************************************************************************)
EXTENDS Startup, SequencesExt

Entry(id, type) == [id |-> id, type |-> type, initial_temp |-> Absent, temp_range |-> Absent,
                    max_speed |-> Absent, physics_bindings |-> FALSE]

\* Devices that initialize, devices that do not, and entries the schema refuses;
\* numbers at and next to the bounds.
Entries == {
    Entry("d1", "relayio"),
    Entry("d2", "analogsensor"),
    [Entry("d1", "tempctl") EXCEPT !.initial_temp = 10, !.temp_range = <<10, 20>>],
    [Entry("d2", "motorctl") EXCEPT !.max_speed = 10000],
    [Entry("d1", "tempctl") EXCEPT !.initial_temp = 21, !.temp_range = <<10, 20>>],
    [Entry("d2", "tempctl") EXCEPT !.temp_range = <<10, 10>>],
    [Entry("d2", "tempctl") EXCEPT !.temp_range = Bad],
    [Entry("d1", "motorctl") EXCEPT !.max_speed = 0],
    [Entry("d2", "motorctl") EXCEPT !.max_speed = 10001],
    Entry("d2", "pump"),
    Entry("chaos_control", "relayio"),
    Entry("d1", ""),
    [Entry("d2", "relayio") EXCEPT !.physics_bindings = TRUE]}

File(mode, keys, devices) ==
    [readable |-> TRUE, provider |-> "absent", startup_policy |-> Absent, mode |-> mode,
     keys |-> keys, tick_in_range |-> TRUE, devices |-> devices]

\* The least and the greatest set of keys of each mode.
ValidSections == {<<"inert", {}>>, <<"non_interacting", {"tick_rate_hz"}>>,
                  <<"sim", {"tick_rate_hz", "physics_config"}>>,
                  <<"sim", EngineKeys \cup {"tick_rate_hz"}>>}

SectionFiles ==
    {[File(mode, keys, <<Entry("d1", "tempctl")>>) EXCEPT !.tick_in_range = in_range] :
        mode \in Modes \cup {"other"},
        keys \in SUBSET (EngineKeys \cup {"tick_rate_hz", "noise_enabled"}),
        in_range \in BOOLEAN}

DeviceFiles ==
    {[File(section[1], section[2], devices) EXCEPT !.startup_policy = policy] :
        section \in ValidSections, devices \in BoundedSeq(Entries, 2),
        policy \in {Absent, "degraded"}}

HeaderFiles ==
    {[File(section[1], section[2], << >>) EXCEPT !.readable = readable, !.provider = provider,
                                                 !.startup_policy = policy] :
        section \in ValidSections, readable \in BOOLEAN,
        provider \in {"absent", "named", "unnamed"},
        policy \in {Absent, "strict", "degraded", "other"}}

MCConfigs == SectionFiles \cup DeviceFiles \cup HeaderFiles
MCCommandLines == BoundedSeq(Arguments, 3)
=============================================================================
