--------------------------- MODULE StartupProofs ---------------------------
(***************************************************************************)
(* What startup promises, for command lines and device lists of any length    *)
(* and for any configuration file.                                           *)
(***************************************************************************)
EXTENDS Startup, FiniteSetTheorems, TLAPS

\* Everything a configuration file can list, and the names in it.
Entries == UNION {Elements(c.devices) : c \in Configs}
Names == {e.id : e \in Entries}

\* What load_config lets through.
Valid(c) == c.readable /\ SchemaValid(c) /\ BindingsValid(c)

Running == {"create_engine", "initialize_engine", "register_devices", "initialize_physics",
            "serving"}

\* The configuration, the entries to come and the report, by type.
SequencesTyped ==
    /\ config \in Configs \cup {Absent}
    /\ todo \in Seq(Entries)
    /\ report \in [startup_policy : {"strict", "degraded"}, configured : Seq(Names),
                   successful : Seq(Names), failed : Seq(Names)]

\* Before the configuration is loaded there is nothing.
NothingYet ==
    /\ pc \in {"args", "load_config"} =>
          config = Absent /\ todo = << >> /\ report = NoReport /\ registry = {}
    /\ pc \in {"args", "load_config", "initialize_devices"} =>
          ~config_loaded /\ engine = "none" /\ ~started
    /\ pc \notin {"serving", "exited"} => output_paths = {}

\* --check-config ends before the engine is made.
CheckOnlyEnds ==
    /\ pc \in Running => config_loaded /\ ~check_config_only
    /\ check_config_only => engine = "none" /\ ~started

\* From the first device on, the configuration is a valid one, and the entries
\* still to come are its own.
ConfigIsValid == pc \in Running \cup {"initialize_devices"} =>
    /\ config \in Configs /\ Valid(config)
    /\ report.startup_policy = StartupPolicy(config)
    /\ Elements(todo) \subseteq Elements(config.devices)

DistinctIds(devices) ==
    \A i, j \in DOMAIN devices : devices[i].id = devices[j].id => i = j
IdsOf(devices) == {e.id : e \in Elements(devices)}

\* Every entry is either served, reported as failed or still to come, and only
\* one of the three.
Accounted ==
    /\ registry = SuccessfulDevices
    /\ SuccessfulDevices \cup FailedDevices \cup IdsOf(todo) = Elements(report.configured)
    /\ Len(report.successful) + Len(report.failed) + Len(todo) = Len(report.configured)
    /\ SuccessfulDevices \cap FailedDevices = {}
    /\ IdsOf(todo) \cap (SuccessfulDevices \cup FailedDevices) = {}
    /\ DistinctIds(todo)
    /\ "chaos_control" \notin FailedDevices \cup IdsOf(todo)
    /\ report.startup_policy = "strict" => report.failed = << >>

DevicesAccounted ==
    /\ pc = "initialize_devices" \/ config_loaded => Accounted
    /\ config_loaded => todo = << >>

\* What the engine and the device manager are told.
EngineKnows ==
    /\ pc \in {"initialize_physics", "serving"} =>
          engine_devices = IF engine = "remote" THEN SuccessfulDevices ELSE {}
    /\ pc = "serving" =>
          /\ function_ids = SuccessfulDevices \cup {"chaos_control"}
          /\ output_paths \subseteq SuccessfulDevices
    /\ pc \in Running /\ engine = "remote" => config.mode = "sim"

\* An invalid configuration ends the process at once; a complete one is only
\* ever refused by the engine.
EndsForAReason == config # Absent =>
    /\ ~Valid(config) => pc = "exited" /\ exit_code = 1 /\ registry = {} /\ report = NoReport
    /\ Valid(config) /\ Complete(config) /\ pc = "exited" /\ exit_code = 1
          => RefusedByEngine

\* The inductive invariant.
IInv ==
    /\ TypeOK
    /\ SequencesTyped
    /\ NothingYet
    /\ CheckOnlyEnds
    /\ ConfigIsValid
    /\ DevicesAccounted
    /\ EngineKnows
    /\ EndsForAReason

-----------------------------------------------------------------------------
(* Sequences of entries and of names *)

\* Taking the first entry off the list.
LEMMA HeadTail ==
    ASSUME NEW S, NEW s \in Seq(S), s # << >>
    PROVE  /\ Tail(s) \in Seq(S) /\ Head(s) \in S
           /\ Len(s) = Len(Tail(s)) + 1
           /\ Elements(s) = {Head(s)} \cup Elements(Tail(s))
<1>1. /\ Tail(s) \in Seq(S) /\ Head(s) = s[1] /\ Head(s) \in S
      /\ Len(s) \in Nat \ {0} /\ Len(Tail(s)) = Len(s) - 1
      /\ \A i \in 1 .. Len(Tail(s)) : Tail(s)[i] = s[i + 1]
    OBVIOUS
<1>2. DOMAIN s = 1 .. Len(s) /\ DOMAIN Tail(s) = 1 .. Len(Tail(s))
    BY <1>1
<1>3. ASSUME NEW x \in Elements(s) PROVE x \in {Head(s)} \cup Elements(Tail(s))
    <2>1. PICK i \in 1 .. Len(s) : x = s[i]
        BY <1>2, <1>3 DEF Elements
    <2>2. CASE i = 1
        BY <1>1, <2>1, <2>2
    <2>3. CASE i # 1
        <3>1. i - 1 \in 1 .. Len(Tail(s)) /\ (i - 1) + 1 = i
            BY <1>1, <2>1, <2>3
        <3>2. x = Tail(s)[i - 1]
            BY <1>1, <2>1, <3>1
        <3> QED
            BY <1>2, <3>1, <3>2 DEF Elements
    <2> QED
        BY <2>2, <2>3
<1>4. Head(s) \in Elements(s)
    <2>1. 1 \in DOMAIN s
        BY <1>1, <1>2
    <2> QED
        BY <1>1, <2>1 DEF Elements
<1>5. ASSUME NEW x \in Elements(Tail(s)) PROVE x \in Elements(s)
    <2>1. PICK i \in 1 .. Len(Tail(s)) : x = Tail(s)[i]
        BY <1>2, <1>5 DEF Elements
    <2>2. i + 1 \in DOMAIN s /\ x = s[i + 1]
        BY <1>1, <1>2, <2>1
    <2> QED
        BY <2>2 DEF Elements
<1> QED
    BY <1>1, <1>3, <1>4, <1>5

\* The same, when no two entries have the same id.
LEMMA HeadTailIds ==
    ASSUME NEW S, NEW s \in Seq(S), s # << >>
    PROVE  /\ IdsOf(s) = {Head(s).id} \cup IdsOf(Tail(s))
           /\ DistinctIds(s) => DistinctIds(Tail(s)) /\ Head(s).id \notin IdsOf(Tail(s))
<1>1. /\ Tail(s) \in Seq(S) /\ Head(s) = s[1]
      /\ Len(s) \in Nat \ {0} /\ Len(Tail(s)) = Len(s) - 1
      /\ \A i \in 1 .. Len(Tail(s)) : Tail(s)[i] = s[i + 1]
    OBVIOUS
<1>2. DOMAIN s = 1 .. Len(s) /\ DOMAIN Tail(s) = 1 .. Len(Tail(s))
    BY <1>1
<1>3. IdsOf(s) = {Head(s).id} \cup IdsOf(Tail(s))
    BY HeadTail DEF IdsOf
<1>4. ASSUME DistinctIds(s) PROVE DistinctIds(Tail(s))
    <2> SUFFICES ASSUME NEW i \in 1 .. Len(Tail(s)), NEW j \in 1 .. Len(Tail(s)),
                        Tail(s)[i].id = Tail(s)[j].id
                 PROVE  i = j
        BY <1>2 DEF DistinctIds
    <2>1. i + 1 \in DOMAIN s /\ j + 1 \in DOMAIN s /\ s[i + 1].id = s[j + 1].id
        BY <1>1, <1>2
    <2>2. i + 1 = j + 1
        BY <1>4, <2>1 DEF DistinctIds
    <2> QED
        BY <1>1, <2>2
<1>5. ASSUME DistinctIds(s) PROVE Head(s).id \notin IdsOf(Tail(s))
    <2> SUFFICES ASSUME Head(s).id \in IdsOf(Tail(s)) PROVE FALSE
        OBVIOUS
    <2>1. PICK e \in Elements(Tail(s)) : e.id = Head(s).id
        BY DEF IdsOf
    <2>2. PICK i \in 1 .. Len(Tail(s)) : e = Tail(s)[i]
        BY <1>2 DEF Elements
    <2>3. i + 1 \in DOMAIN s /\ 1 \in DOMAIN s /\ s[i + 1].id = s[1].id
        BY <1>1, <1>2, <2>1, <2>2
    <2>4. i + 1 = 1
        BY <1>5, <2>3 DEF DistinctIds
    <2> QED
        BY <1>1, <2>4
<1> QED
    BY <1>3, <1>4, <1>5

\* The report is written at its end.
LEMMA AppendElements ==
    ASSUME NEW S, NEW s \in Seq(S), NEW x \in S
    PROVE  /\ Append(s, x) \in Seq(S)
           /\ Len(Append(s, x)) = Len(s) + 1
           /\ Elements(Append(s, x)) = Elements(s) \cup {x}
<1>1. /\ Append(s, x) \in Seq(S) /\ Len(s) \in Nat
      /\ Len(Append(s, x)) = Len(s) + 1
      /\ Append(s, x)[Len(s) + 1] = x
      /\ \A i \in 1 .. Len(s) : Append(s, x)[i] = s[i]
    OBVIOUS
<1>2. DOMAIN s = 1 .. Len(s) /\ DOMAIN Append(s, x) = 1 .. Len(s) + 1
    BY <1>1
<1>3. ASSUME NEW y \in Elements(Append(s, x)) PROVE y \in Elements(s) \cup {x}
    <2>1. PICK i \in 1 .. Len(s) + 1 : y = Append(s, x)[i]
        BY <1>2, <1>3 DEF Elements
    <2>2. i = Len(s) + 1 \/ i \in 1 .. Len(s)
        BY <1>1
    <2>3. CASE i \in 1 .. Len(s)
        <3>1. i \in DOMAIN s /\ y = s[i]
            BY <1>1, <1>2, <2>1, <2>3
        <3> QED
            BY <3>1 DEF Elements
    <2> QED
        BY <1>1, <2>1, <2>2, <2>3
<1>4. ASSUME NEW y \in Elements(s) PROVE y \in Elements(Append(s, x))
    <2>1. PICK i \in 1 .. Len(s) : y = s[i]
        BY <1>2, <1>4 DEF Elements
    <2>2. i \in DOMAIN Append(s, x) /\ y = Append(s, x)[i]
        BY <1>1, <1>2, <2>1
    <2> QED
        BY <2>2 DEF Elements
<1>5. x \in Elements(Append(s, x))
    <2>1. Len(s) + 1 \in DOMAIN Append(s, x)
        BY <1>1, <1>2
    <2> QED
        BY <1>1, <2>1 DEF Elements
<1> QED
    BY <1>1, <1>3, <1>4, <1>5

\* An empty list has no entries.
LEMMA EmptyElements == Elements(<< >>) = {} /\ IdsOf(<< >>) = {} /\ Len(<< >>) = 0
<1>1. DOMAIN << >> = {}
    OBVIOUS
<1> QED
    BY <1>1 DEF Elements, IdsOf

\* The report's configured list names exactly the entries of the file.
LEMMA IdsElements ==
    ASSUME NEW s \in Seq(Entries)
    PROVE  /\ Ids(s) \in Seq(Names)
           /\ Len(Ids(s)) = Len(s)
           /\ Elements(Ids(s)) = IdsOf(s)
<1>1. DOMAIN s = 1 .. Len(s) /\ Len(s) \in Nat /\ \A i \in DOMAIN s : s[i] \in Entries
    OBVIOUS
<1>2. \A i \in DOMAIN s : s[i].id \in Names
    BY <1>1 DEF Names
<1>3. Ids(s) \in [1 .. Len(s) -> Names]
    BY <1>1, <1>2 DEF Ids
<1>4. Ids(s) \in Seq(Names) /\ Len(Ids(s)) = Len(s)
    BY <1>1, <1>3
<1>5. Elements(Ids(s)) = IdsOf(s)
    BY DEF Elements, Ids, IdsOf
<1> QED
    BY <1>4, <1>5

-----------------------------------------------------------------------------
(* What the validation accepts *)

\* The schema's uniqueItems on ids and the documentation's count say the same.
LEMMA DistinctIdsCounted ==
    ASSUME NEW S, NEW s \in Seq(S)
    PROVE  DistinctIds(s) <=> Cardinality({s[i].id : i \in DOMAIN s}) = Len(s)
<1> DEFINE D == 1 .. Len(s)
           T == {s[i].id : i \in DOMAIN s}
           f == [i \in D |-> s[i].id]
<1>1. Len(s) \in Nat /\ DOMAIN s = D
    OBVIOUS
<1>2. IsFiniteSet(D) /\ Cardinality(D) = Len(s)
    BY <1>1, FS_Interval
<1>3. f \in Surjection(D, T)
    <2>1. f \in [D -> T]
        BY <1>1
    <2>2. \A t \in T : \E i \in D : f[i] = t
        BY <1>1
    <2> QED
        BY <2>1, <2>2 DEF Surjection
<1>4. Cardinality(T) = Cardinality(D) <=> f \in Injection(D, T)
    <2> HIDE DEF D, T, f
    <2> QED
        BY <1>2, <1>3, FS_Surjection
<1>5. f \in Injection(D, T) <=> DistinctIds(s)
    BY <1>1, <1>3 DEF Surjection, Injection, IsInjective, DistinctIds
<1> QED
    BY <1>2, <1>4, <1>5

\* Every section that passes is a row of the mode matrix.
LEMMA SectionIsDocumented ==
    ASSUME NEW c, SimulationValid(c)
    PROVE  LET ticks == "tick_rate_hz" \in c.keys /\ c.tick_in_range IN
           \/ c.mode = "inert" /\ c.keys = {}
           \/ c.mode = "non_interacting" /\ c.keys = {"tick_rate_hz"} /\ ticks
           \/ /\ c.mode = "sim" /\ ticks /\ "physics_config" \in c.keys
              /\ c.keys \ {"tick_rate_hz", "physics_config"}
                    \in {{}, {"ambient_temp_c"}, {"ambient_temp_c", "ambient_signal_path"}}
<1>1. /\ c.mode \in {"inert", "non_interacting", "sim"}
      /\ c.keys \subseteq EngineKeys \cup {"tick_rate_hz"}
      /\ "tick_rate_hz" \in c.keys => c.tick_in_range
      /\ "ambient_signal_path" \in c.keys => "ambient_temp_c" \in c.keys
      /\ RequiredKeys[c.mode] \subseteq c.keys
      /\ c.keys \cap ForbiddenKeys[c.mode] = {}
    BY DEF SimulationValid, Modes
<1>2. CASE c.mode = "inert"
    <2>1. ForbiddenKeys[c.mode] = EngineKeys \cup {"tick_rate_hz"}
        BY <1>2 DEF ForbiddenKeys
    <2> QED
        BY <1>1, <1>2, <2>1
<1>3. CASE c.mode = "non_interacting"
    <2>1. ForbiddenKeys[c.mode] = EngineKeys /\ RequiredKeys[c.mode] = {"tick_rate_hz"}
        BY <1>3 DEF ForbiddenKeys, RequiredKeys
    <2>2. c.keys = {"tick_rate_hz"}
        BY <1>1, <2>1
    <2> QED
        BY <1>1, <1>3, <2>2
<1>4. CASE c.mode = "sim"
    <2>1. RequiredKeys[c.mode] = {"tick_rate_hz", "physics_config"}
        BY <1>4 DEF RequiredKeys
    <2> DEFINE rest == c.keys \ {"tick_rate_hz", "physics_config"}
    <2>2. rest \subseteq {"ambient_temp_c", "ambient_signal_path"}
        BY <1>1 DEF EngineKeys
    <2>3. "ambient_signal_path" \in rest => "ambient_temp_c" \in rest
        BY <1>1
    <2>4. rest \in {{}, {"ambient_temp_c"}, {"ambient_temp_c", "ambient_signal_path"}}
        <3> HIDE DEF rest
        <3>1. CASE "ambient_temp_c" \notin rest
            <4>1. rest = {}
                BY <2>2, <2>3, <3>1
            <4> QED
                BY <4>1
        <3>2. CASE "ambient_temp_c" \in rest /\ "ambient_signal_path" \notin rest
            <4>1. rest = {"ambient_temp_c"}
                BY <2>2, <3>2
            <4> QED
                BY <4>1
        <3>3. CASE "ambient_temp_c" \in rest /\ "ambient_signal_path" \in rest
            <4>1. rest = {"ambient_temp_c", "ambient_signal_path"}
                BY <2>2, <3>3
            <4> QED
                BY <4>1
        <3> QED
            BY <3>1, <3>2, <3>3
    <2>5. "tick_rate_hz" \in c.keys /\ c.tick_in_range /\ "physics_config" \in c.keys
        BY <1>1, <2>1
    <2> QED
        BY <1>4, <2>4, <2>5
<1> QED
    BY <1>1, <1>2, <1>3, <1>4

\* Nothing outside the documented matrix passes.
LEMMA ValidIsDocumented ==
    ASSUME NEW c \in Configs, Valid(c)
    PROVE  Documented(c)
<1>1. c.devices \in Seq(Elements(c.devices))
    BY ConfigsAssumption
<1>2. DevicesValid(c.devices) /\ SimulationValid(c)
    BY DEF Valid, SchemaValid
<1>3. DistinctIds(c.devices)
    BY <1>2 DEF DevicesValid, DistinctIds
<1>4. Cardinality({c.devices[i].id : i \in DOMAIN c.devices}) = Len(c.devices)
    BY <1>1, <1>3, DistinctIdsCounted
<1>5. \A i \in DOMAIN c.devices :
          /\ c.devices[i].id # "chaos_control"
          /\ c.devices[i].physics_bindings => c.mode = "sim"
    BY <1>2 DEF DevicesValid, Valid, BindingsValid
<1> QED
    BY <1>2, <1>4, <1>5, SectionIsDocumented DEF Documented

\* Every row of the mode matrix passes as a section.
LEMMA DocumentedSectionIsValid ==
    ASSUME NEW c, Documented(c)
    PROVE  SimulationValid(c)
<1>1. CASE c.mode = "inert" /\ c.keys = {}
    <2>1. RequiredKeys[c.mode] = {}
        BY <1>1 DEF RequiredKeys
    <2> QED
        BY <1>1, <2>1 DEF SimulationValid, Modes
<1>2. CASE c.mode = "non_interacting" /\ c.keys = {"tick_rate_hz"} /\ c.tick_in_range
    <2>1. RequiredKeys[c.mode] = {"tick_rate_hz"} /\ ForbiddenKeys[c.mode] = EngineKeys
        BY <1>2 DEF RequiredKeys, ForbiddenKeys
    <2>2. "tick_rate_hz" \notin EngineKeys /\ "ambient_signal_path" \notin c.keys
        BY <1>2 DEF EngineKeys
    <2> QED
        BY <1>2, <2>1, <2>2 DEF SimulationValid, Modes
<1>3. CASE /\ c.mode = "sim" /\ "tick_rate_hz" \in c.keys /\ c.tick_in_range
           /\ "physics_config" \in c.keys
           /\ c.keys \ {"tick_rate_hz", "physics_config"}
                 \in {{}, {"ambient_temp_c"}, {"ambient_temp_c", "ambient_signal_path"}}
    <2>1. /\ RequiredKeys[c.mode] = {"tick_rate_hz", "physics_config"}
          /\ ForbiddenKeys[c.mode] = {}
        BY <1>3 DEF RequiredKeys, ForbiddenKeys
    <2>2. /\ c.keys \subseteq EngineKeys \cup {"tick_rate_hz"}
          /\ "ambient_signal_path" \in c.keys => "ambient_temp_c" \in c.keys
        BY <1>3 DEF EngineKeys
    <2> QED
        BY <1>3, <2>1, <2>2 DEF SimulationValid, Modes
<1> QED
    BY <1>1, <1>2, <1>3 DEF Documented

\* In every mode, everything complete inside the matrix passes.
LEMMA DocumentedIsValid ==
    ASSUME NEW c \in Configs, Documented(c), Complete(c)
    PROVE  Valid(c)
<1>1. c.devices \in Seq(Elements(c.devices))
    BY ConfigsAssumption
<1>2. /\ Cardinality({c.devices[i].id : i \in DOMAIN c.devices}) = Len(c.devices)
      /\ \A i \in DOMAIN c.devices :
            /\ c.devices[i].id # "chaos_control"
            /\ c.devices[i].physics_bindings => c.mode = "sim"
    BY DEF Documented
<1>3. DistinctIds(c.devices)
    BY <1>1, <1>2, DistinctIdsCounted
<1>4. \A i \in DOMAIN c.devices : c.devices[i].id # "" /\ c.devices[i].type # ""
    BY DEF Complete, DeviceTypes
<1>5. DevicesValid(c.devices) /\ BindingsValid(c)
    BY <1>2, <1>3, <1>4 DEF DevicesValid, DistinctIds, BindingsValid
<1>6. c.readable /\ c.provider # "unnamed" /\ c.startup_policy \in {Absent, "strict", "degraded"}
    BY DEF Complete
<1> QED
    BY <1>5, <1>6, DocumentedSectionIsValid DEF Valid, SchemaValid

-----------------------------------------------------------------------------
(* One lemma for each step of main *)

\* IInv holds when main is entered.
LEMMA InitEstablishes == Init => IInv
<1> SUFFICES ASSUME Init PROVE IInv
    OBVIOUS
<1>1. TypeOK
    BY DEF Init, NoReport, TypeOK
<1>2. SequencesTyped
    BY DEF Init, NoReport, SequencesTyped
<1> QED
    BY <1>1, <1>2 DEF Init, IInv, NothingYet, CheckOnlyEnds, Running, ConfigIsValid,
                      DevicesAccounted, EngineKnows, EndsForAReason

\* IInv survives steps that leave startup alone.
LEMMA StutterStep == IInv /\ UNCHANGED vars => IInv'
<1> SUFFICES ASSUME IInv, UNCHANGED vars PROVE IInv'
    OBVIOUS
<1> USE DEF IInv, vars, argVars, factoryVars, engineVars, physicsVars
<1>1. TypeOK' /\ SequencesTyped' /\ NothingYet'
    BY DEF TypeOK, SequencesTyped, NothingYet
<1>2. CheckOnlyEnds' /\ ConfigIsValid' /\ EndsForAReason'
    BY DEF CheckOnlyEnds, Running, ConfigIsValid, EndsForAReason, RefusedByEngine
<1>3. DevicesAccounted' /\ EngineKnows'
    BY DEF DevicesAccounted, Accounted, SuccessfulDevices, FailedDevices, EngineKnows, Running
<1> QED
    BY <1>1, <1>2, <1>3

\* Arguments touch neither configuration nor devices.
LEMMA ParseArgStep == IInv /\ ParseArg => IInv'
<1> SUFFICES ASSUME IInv, ParseArg PROVE IInv'
    OBVIOUS
<1> USE DEF IInv, ParseArg, Exit, Goto, argVars, factoryVars, engineVars, physicsVars
<1>1. TypeOK'
    BY DEF TypeOK
<1>2. SequencesTyped'
    BY DEF SequencesTyped
<1>3. NothingYet'
    BY DEF NothingYet
<1>4. CheckOnlyEnds'
    BY DEF CheckOnlyEnds, NothingYet, TypeOK, Running
<1>5. ConfigIsValid'
    BY DEF ConfigIsValid, Running
<1>6. DevicesAccounted'
    BY DEF DevicesAccounted, Accounted, SuccessfulDevices, FailedDevices, NothingYet, TypeOK
<1>7. EngineKnows'
    BY DEF EngineKnows, Running, SuccessfulDevices, NothingYet, TypeOK
<1>8. EndsForAReason'
    BY DEF EndsForAReason, NothingYet
<1> QED
    BY <1>1, <1>2, <1>3, <1>4, <1>5, <1>6, <1>7, <1>8

\* A command line without a configuration ends the process before one is loaded.
LEMMA ArgsDoneStep == IInv /\ ArgsDone => IInv'
<1> SUFFICES ASSUME IInv, ArgsDone PROVE IInv'
    OBVIOUS
<1> USE DEF IInv, ArgsDone, Exit, Goto, argVars, factoryVars, engineVars, physicsVars
<1>1. TypeOK'
    BY DEF TypeOK
<1>2. SequencesTyped'
    BY DEF SequencesTyped
<1>3. NothingYet'
    BY DEF NothingYet
<1>4. CheckOnlyEnds'
    BY DEF CheckOnlyEnds, NothingYet, TypeOK, Running
<1>5. ConfigIsValid'
    BY DEF ConfigIsValid, Running
<1>6. DevicesAccounted'
    BY DEF DevicesAccounted, Accounted, SuccessfulDevices, FailedDevices, NothingYet, TypeOK
<1>7. EngineKnows'
    BY DEF EngineKnows, Running, SuccessfulDevices, NothingYet, TypeOK
<1>8. EndsForAReason'
    BY DEF EndsForAReason, NothingYet
<1> QED
    BY <1>1, <1>2, <1>3, <1>4, <1>5, <1>6, <1>7, <1>8

\* A configuration that is refused leaves nothing behind; of one that is accepted
\* all entries are still to come.
LEMMA LoadConfigStep == IInv /\ LoadConfig => IInv'
<1> SUFFICES ASSUME IInv, LoadConfig PROVE IInv'
    OBVIOUS
<1> USE DEF IInv, Exit, Goto, argVars, factoryVars, engineVars, physicsVars
<1>1. PICK c \in Configs :
          /\ config' = c
          /\ IF Valid(c)
             THEN /\ Goto("initialize_devices")
                  /\ todo' = c.devices
                  /\ report' = [NoReport EXCEPT !.startup_policy = StartupPolicy(c),
                                                !.configured = Ids(c.devices)]
             ELSE Exit(1) /\ UNCHANGED <<todo, report>>
    BY DEF LoadConfig, Valid
<1>2. /\ pc = "load_config" /\ config = Absent /\ todo = << >> /\ report = NoReport
      /\ registry = {} /\ ~config_loaded /\ engine = "none" /\ ~started /\ output_paths = {}
      /\ UNCHANGED <<argVars, registry, config_loaded, engineVars, physicsVars>>
    BY DEF LoadConfig, NothingYet
<1>3. CASE ~Valid(c)
    <2>1. /\ pc' = "exited" /\ exit_code' = 1 /\ report' = NoReport /\ todo' = << >>
          /\ registry' = {} /\ ~config_loaded' /\ ~Valid(config')
        BY <1>1, <1>2, <1>3
    <2>2. TypeOK' /\ SequencesTyped'
        BY <1>1, <1>2, <2>1 DEF TypeOK, SequencesTyped, NoReport
    <2>3. NothingYet' /\ CheckOnlyEnds' /\ ConfigIsValid' /\ EngineKnows'
        BY <1>2, <2>1 DEF NothingYet, CheckOnlyEnds, ConfigIsValid, EngineKnows, Running
    <2>4. DevicesAccounted' /\ EndsForAReason'
        BY <2>1 DEF DevicesAccounted, EndsForAReason
    <2> QED
        BY <2>2, <2>3, <2>4
<1>4. CASE Valid(c)
    <2>1. /\ pc' = "initialize_devices" /\ exit_code' = exit_code /\ todo' = c.devices
          /\ report' = [startup_policy |-> StartupPolicy(c), configured |-> Ids(c.devices),
                        successful |-> << >>, failed |-> << >>]
        BY <1>1, <1>4 DEF NoReport
    <2>2. SchemaValid(c)
        BY <1>4 DEF Valid
    <2>3. StartupPolicy(c) \in {"strict", "degraded"}
        BY <2>2 DEF StartupPolicy, SchemaValid
    <2>4. c.devices \in Seq(Entries)
        <3>1. c.devices \in Seq(Elements(c.devices))
            BY ConfigsAssumption
        <3>2. Elements(c.devices) \subseteq Entries
            BY DEF Entries
        <3> QED
            BY <3>1, <3>2
    <2>5. /\ Ids(c.devices) \in Seq(Names) /\ Len(Ids(c.devices)) = Len(c.devices)
          /\ Elements(Ids(c.devices)) = IdsOf(c.devices)
        BY <2>4, IdsElements
    <2>6. TypeOK'
        BY <1>2, <2>1, <2>3 DEF TypeOK
    <2>7. SequencesTyped'
        BY <1>1, <2>1, <2>3, <2>4, <2>5 DEF SequencesTyped
    <2>8. NothingYet' /\ CheckOnlyEnds' /\ EngineKnows'
        BY <1>2, <2>1 DEF NothingYet, CheckOnlyEnds, EngineKnows, Running
    <2>9. ConfigIsValid' /\ EndsForAReason'
        BY <1>1, <1>4, <2>1 DEF ConfigIsValid, EndsForAReason
    <2>10. Accounted'
        <3>1. DistinctIds(c.devices)
            BY <2>2 DEF SchemaValid, DevicesValid, DistinctIds
        <3>2. "chaos_control" \notin IdsOf(c.devices)
            BY <2>2 DEF SchemaValid, DevicesValid, IdsOf, Elements
        <3>3. SuccessfulDevices' = {} /\ FailedDevices' = {} /\ Len(<< >>) = 0
            BY <2>1, EmptyElements DEF SuccessfulDevices, FailedDevices
        <3>4. Len(c.devices) \in Nat
            BY <2>4
        <3>5. /\ Elements(report'.configured) = IdsOf(c.devices)
              /\ Len(report'.successful) + Len(report'.failed) + Len(todo') = Len(report'.configured)
              /\ report'.failed = << >>
            BY <2>1, <2>5, <3>3, <3>4
        <3> QED
            BY <1>2, <2>1, <3>1, <3>2, <3>3, <3>5 DEF Accounted
    <2>11. DevicesAccounted'
        BY <1>2, <2>10 DEF DevicesAccounted
    <2> QED
        BY <2>6, <2>7, <2>8, <2>9, <2>11
<1> QED
    BY <1>3, <1>4

\* One entry moves from the list to the report; the strict policy ends the
\* process at the first failure and empties the registry.
LEMMA InitializeDeviceStep == IInv /\ InitializeDevice => IInv'
<1> SUFFICES ASSUME IInv, InitializeDevice PROVE IInv'
    OBVIOUS
<1> USE DEF IInv, argVars, factoryVars, engineVars, physicsVars
<1> DEFINE spec == Head(todo)
<1>1. /\ pc = "initialize_devices" /\ todo # << >> /\ todo' = Tail(todo)
      /\ UNCHANGED <<argVars, config, config_loaded, engineVars, physicsVars>>
      /\ ~config_loaded /\ engine = "none" /\ ~started /\ output_paths = {}
    BY DEF InitializeDevice, NothingYet
<1>2. todo \in Seq(Entries) /\ Accounted
    BY <1>1 DEF SequencesTyped, DevicesAccounted
<1>3. /\ todo' \in Seq(Entries) /\ spec \in Entries /\ Len(todo) = Len(todo') + 1
      /\ Elements(todo) = {spec} \cup Elements(todo')
      /\ IdsOf(todo) = {spec.id} \cup IdsOf(todo')
      /\ DistinctIds(todo') /\ spec.id \notin IdsOf(todo')
    BY <1>1, <1>2, HeadTail, HeadTailIds DEF Accounted
<1>4. spec.id \in Names
    BY <1>3 DEF Names
<1>5. /\ config \in Configs /\ Valid(config) /\ report.startup_policy = StartupPolicy(config)
      /\ spec \in Elements(config.devices) /\ Elements(todo') \subseteq Elements(config.devices)
    BY <1>1, <1>3 DEF ConfigIsValid
<1>6. /\ report = [startup_policy |-> report.startup_policy, configured |-> report.configured,
                   successful |-> report.successful, failed |-> report.failed]
      /\ report.startup_policy \in {"strict", "degraded"} /\ report.configured \in Seq(Names)
      /\ report.successful \in Seq(Names) /\ report.failed \in Seq(Names)
    BY DEF SequencesTyped
<1>7. CASE ~InitThrows(spec)
    <2>1. /\ registry' = registry \cup {spec.id} /\ pc' = pc /\ exit_code' = exit_code
          /\ report' = [startup_policy |-> report.startup_policy,
                        configured |-> report.configured,
                        successful |-> Append(report.successful, spec.id),
                        failed |-> report.failed]
        BY <1>6, <1>7 DEF InitializeDevice, Goto
    <2>2. /\ Append(report.successful, spec.id) \in Seq(Names)
          /\ Len(Append(report.successful, spec.id)) = Len(report.successful) + 1
          /\ Elements(Append(report.successful, spec.id)) = SuccessfulDevices \cup {spec.id}
        BY <1>4, <1>6, AppendElements DEF SuccessfulDevices
    <2>3. TypeOK' /\ SequencesTyped'
        BY <1>1, <1>3, <1>6, <2>1, <2>2 DEF TypeOK, SequencesTyped
    <2>4. NothingYet' /\ CheckOnlyEnds' /\ EngineKnows' /\ ConfigIsValid'
        BY <1>1, <1>5, <2>1 DEF NothingYet, CheckOnlyEnds, EngineKnows, ConfigIsValid, Running
    <2>5. EndsForAReason'
        BY <1>1, <1>5, <2>1 DEF EndsForAReason
    <2>6. Accounted'
        <3>1. SuccessfulDevices' = SuccessfulDevices \cup {spec.id} /\ FailedDevices' = FailedDevices
            BY <2>1, <2>2 DEF SuccessfulDevices, FailedDevices
        <3>2. /\ Len(report.successful) \in Nat /\ Len(report.failed) \in Nat
              /\ Len(report.configured) \in Nat /\ Len(todo') \in Nat
            BY <1>3, <1>6
        <3>3. Len(report'.successful) + Len(report'.failed) + Len(todo') = Len(report'.configured)
            <4>1. Len(report.successful) + Len(report.failed) + (Len(todo') + 1)
                      = Len(report.configured)
                BY <1>2, <1>3 DEF Accounted
            <4>2. /\ Len(report'.successful) = Len(report.successful) + 1
                  /\ report'.failed = report.failed /\ report'.configured = report.configured
                BY <2>1, <2>2
            <4>3. PICK a, b, d \in Nat :
                      a = Len(report.successful) /\ b = Len(report.failed) /\ d = Len(todo')
                BY <3>2, Zenon
            <4>4. a + b + (d + 1) = (a + 1) + b + d
                OBVIOUS
            <4> QED
                BY <4>1, <4>2, <4>3, <4>4, Zenon
        <3>4. report'.startup_policy = "strict" => report'.failed = << >>
            BY <1>2, <2>1 DEF Accounted
        <3>5. report'.configured = report.configured
            BY <2>1
        <3> HIDE DEF spec
        <3> QED
            BY <1>2, <1>3, <2>1, <3>1, <3>3, <3>4, <3>5 DEF Accounted
    <2> QED
        BY <1>1, <2>3, <2>4, <2>5, <2>6 DEF DevicesAccounted
<1>8. CASE InitThrows(spec)
    <2>1. /\ report' = [startup_policy |-> report.startup_policy,
                        configured |-> report.configured,
                        successful |-> report.successful,
                        failed |-> Append(report.failed, spec.id)]
          /\ IF report.startup_policy = "strict"
             THEN registry' = {} /\ pc' = "exited" /\ exit_code' = 1
             ELSE registry' = registry /\ pc' = pc /\ exit_code' = exit_code
        BY <1>6, <1>8 DEF InitializeDevice, Goto, Exit
    <2>2. /\ Append(report.failed, spec.id) \in Seq(Names)
          /\ Len(Append(report.failed, spec.id)) = Len(report.failed) + 1
          /\ Elements(Append(report.failed, spec.id)) = FailedDevices \cup {spec.id}
        BY <1>4, <1>6, AppendElements DEF FailedDevices
    <2>3. TypeOK' /\ SequencesTyped'
        BY <1>1, <1>3, <1>6, <2>1, <2>2 DEF TypeOK, SequencesTyped
    <2>4. NothingYet' /\ CheckOnlyEnds' /\ EngineKnows' /\ ConfigIsValid'
        BY <1>1, <1>5, <2>1 DEF NothingYet, CheckOnlyEnds, EngineKnows, ConfigIsValid, Running
    <2>5. EndsForAReason'
        <3>1. report.startup_policy = "strict" => config.startup_policy # "degraded"
            BY <1>5, AbsentAssumption DEF StartupPolicy
        <3>2. Complete(config) => config.startup_policy = "degraded"
            BY <1>5, <1>8 DEF Complete, Elements
        <3> HIDE DEF spec
        <3> QED
            BY <1>1, <1>5, <2>1, <3>1, <3>2 DEF EndsForAReason
    <2>6. CASE report.startup_policy = "strict"
        BY <1>1, <2>1, <2>3, <2>4, <2>5, <2>6 DEF DevicesAccounted
    <2>7. CASE report.startup_policy # "strict"
        <3>1. FailedDevices' = FailedDevices \cup {spec.id} /\ SuccessfulDevices' = SuccessfulDevices
            BY <2>1, <2>2 DEF SuccessfulDevices, FailedDevices
        <3>2. /\ Len(report.successful) \in Nat /\ Len(report.failed) \in Nat
              /\ Len(report.configured) \in Nat /\ Len(todo') \in Nat
            BY <1>3, <1>6
        <3>3. Len(report'.successful) + Len(report'.failed) + Len(todo') = Len(report'.configured)
            <4>1. Len(report.successful) + Len(report.failed) + (Len(todo') + 1)
                      = Len(report.configured)
                BY <1>2, <1>3 DEF Accounted
            <4>2. /\ Len(report'.failed) = Len(report.failed) + 1
                  /\ report'.successful = report.successful
                  /\ report'.configured = report.configured
                BY <2>1, <2>2
            <4>3. PICK a, b, d \in Nat :
                      a = Len(report.successful) /\ b = Len(report.failed) /\ d = Len(todo')
                BY <3>2, Zenon
            <4>4. a + b + (d + 1) = a + (b + 1) + d
                OBVIOUS
            <4> QED
                BY <4>1, <4>2, <4>3, <4>4, Zenon
        <3>4. report'.configured = report.configured /\ report'.startup_policy # "strict"
            BY <2>1, <2>7
        <3>5. registry' = registry
            BY <2>1, <2>7
        <3>6. Accounted'
            <4> HIDE DEF spec
            <4> QED
                BY <1>2, <1>3, <3>1, <3>3, <3>4, <3>5 DEF Accounted
        <3> QED
            BY <1>1, <2>3, <2>4, <2>5, <3>6 DEF DevicesAccounted
    <2> QED
        BY <2>6, <2>7
<1> QED
    BY <1>7, <1>8

\* The factory is through: no entry is left, and --check-config stops here.
LEMMA DevicesDoneStep == IInv /\ DevicesDone => IInv'
<1> SUFFICES ASSUME IInv, DevicesDone PROVE IInv'
    OBVIOUS
<1> USE DEF IInv, DevicesDone, Exit, Goto, argVars, factoryVars, engineVars, physicsVars
<1>1. TypeOK'
    BY DEF TypeOK
<1>2. SequencesTyped'
    BY DEF SequencesTyped
<1>3. NothingYet'
    BY DEF NothingYet
<1>4. CheckOnlyEnds'
    BY DEF CheckOnlyEnds, NothingYet, TypeOK, Running
<1>5. ConfigIsValid'
    BY DEF ConfigIsValid, Running
<1>6. DevicesAccounted'
    BY DEF DevicesAccounted, Accounted, SuccessfulDevices, FailedDevices, NothingYet, TypeOK
<1>7. EngineKnows'
    BY DEF EngineKnows, Running, SuccessfulDevices, NothingYet, TypeOK
<1>8. EndsForAReason'
    BY DEF EndsForAReason, NothingYet
<1> QED
    BY <1>1, <1>2, <1>3, <1>4, <1>5, <1>6, <1>7, <1>8

\* Only mode sim can fail to get its engine, and only it gets the remote one.
LEMMA CreateEngineStep == IInv /\ CreateEngine => IInv'
<1> SUFFICES ASSUME IInv, CreateEngine PROVE IInv'
    OBVIOUS
<1> USE DEF IInv, CreateEngine, Exit, Goto, argVars, factoryVars, engineVars, physicsVars
<1>0. /\ \/ config.mode = "inert" /\ engine' = "null" /\ Goto("initialize_engine")
         \/ config.mode = "non_interacting" /\ engine' = "local" /\ Goto("initialize_engine")
         \/ config.mode = "sim" /\ engine' = "remote" /\ Goto("initialize_engine")
         \/ /\ config.mode = "sim" /\ Exit(1) /\ UNCHANGED engine
            /\ ~(have_fluxgraph /\ sim_server_address = "--sim-server")
      /\ pc = "create_engine"
      /\ UNCHANGED <<argVars, config, factoryVars, graph_paths, engine_devices, physicsVars>>
    <2>1. config.mode \in {"inert", "non_interacting", "sim"}
        BY DEF ConfigIsValid, Running, Valid, SchemaValid, SimulationValid, Modes
    <2> QED
        BY <2>1
<1> USE <1>0
<1> HIDE DEF CreateEngine
<1>1. TypeOK'
    BY DEF TypeOK
<1>2. SequencesTyped'
    BY DEF SequencesTyped
<1>3. NothingYet'
    BY DEF NothingYet
<1>4. CheckOnlyEnds'
    BY DEF CheckOnlyEnds, NothingYet, TypeOK, Running
<1>5. ConfigIsValid'
    BY DEF ConfigIsValid, Running
<1>6. DevicesAccounted'
    BY DEF DevicesAccounted, Accounted, SuccessfulDevices, FailedDevices, NothingYet, TypeOK
<1>7. EngineKnows'
    BY DEF EngineKnows, Running, SuccessfulDevices, NothingYet, TypeOK
<1>8. EndsForAReason'
    BY DEF EndsForAReason, RefusedByEngine, CheckOnlyEnds, Running, NothingYet
<1> QED
    BY <1>1, <1>2, <1>3, <1>4, <1>5, <1>6, <1>7, <1>8

\* Only the remote engine can refuse its graph.
LEMMA InitializeEngineStep == IInv /\ InitializeEngine => IInv'
<1> SUFFICES ASSUME IInv, InitializeEngine PROVE IInv'
    OBVIOUS
<1> USE DEF IInv, InitializeEngine, Exit, Goto, argVars, factoryVars, engineVars, physicsVars
<1>1. TypeOK'
    BY DEF TypeOK, NothingYet
<1>2. SequencesTyped'
    BY DEF SequencesTyped
<1>3. NothingYet'
    BY DEF NothingYet
<1>4. CheckOnlyEnds'
    BY DEF CheckOnlyEnds, NothingYet, TypeOK, Running
<1>5. ConfigIsValid'
    BY DEF ConfigIsValid, Running
<1>6. DevicesAccounted'
    BY DEF DevicesAccounted, Accounted, SuccessfulDevices, FailedDevices, NothingYet, TypeOK
<1>7. EngineKnows'
    BY DEF EngineKnows, Running, SuccessfulDevices, NothingYet, TypeOK
<1>8. EndsForAReason'
    BY DEF EndsForAReason, RefusedByEngine, CheckOnlyEnds, EngineKnows, Running
<1> QED
    BY <1>1, <1>2, <1>3, <1>4, <1>5, <1>6, <1>7, <1>8

\* The remote engine learns the successful devices, or refuses in mode sim.
LEMMA RegisterDevicesStep == IInv /\ RegisterDevices => IInv'
<1> SUFFICES ASSUME IInv, RegisterDevices PROVE IInv'
    OBVIOUS
<1> USE DEF IInv, RegisterDevices, Exit, Goto, argVars, factoryVars, engineVars, physicsVars
<1>1. TypeOK'
    BY DEF TypeOK
<1>2. SequencesTyped'
    BY DEF SequencesTyped
<1>3. NothingYet'
    BY DEF NothingYet
<1>4. CheckOnlyEnds'
    BY DEF CheckOnlyEnds, NothingYet, TypeOK, Running
<1>5. ConfigIsValid'
    BY DEF ConfigIsValid, Running
<1>6. DevicesAccounted'
    BY DEF DevicesAccounted, Accounted, SuccessfulDevices, FailedDevices, NothingYet, TypeOK
<1>7. EngineKnows'
    BY DEF EngineKnows, Running, SuccessfulDevices, NothingYet, TypeOK
<1>8. EndsForAReason'
    BY DEF EndsForAReason, RefusedByEngine, CheckOnlyEnds, EngineKnows, Running
<1> QED
    BY <1>1, <1>2, <1>3, <1>4, <1>5, <1>6, <1>7, <1>8

\* The device manager takes over the registry and the paths of successful devices.
LEMMA InitializePhysicsStep == IInv /\ InitializePhysics => IInv'
<1> SUFFICES ASSUME IInv, InitializePhysics PROVE IInv'
    OBVIOUS
<1> USE DEF IInv, InitializePhysics, Exit, Goto, argVars, factoryVars, engineVars, physicsVars
<1>1. TypeOK'
    BY DEF TypeOK
<1>2. SequencesTyped'
    BY DEF SequencesTyped
<1>3. NothingYet'
    BY DEF NothingYet
<1>4. CheckOnlyEnds'
    BY DEF CheckOnlyEnds, NothingYet, TypeOK, Running
<1>5. ConfigIsValid'
    BY DEF ConfigIsValid, Running
<1>6. DevicesAccounted'
    BY DEF DevicesAccounted, Accounted, SuccessfulDevices, FailedDevices, NothingYet, TypeOK
<1>7. EngineKnows'
    <2>1. function_ids' = SuccessfulDevices \cup {"chaos_control"}
        BY DEF DevicesAccounted, Accounted, ListDevices, CheckOnlyEnds, Running
    <2>2. output_paths' \subseteq SuccessfulDevices
        BY DEF SuccessfulDevices
    <2> QED
        BY <2>1, <2>2 DEF EngineKnows, Running, SuccessfulDevices
<1>8. EndsForAReason'
    BY DEF EndsForAReason, NothingYet
<1> QED
    BY <1>1, <1>2, <1>3, <1>4, <1>5, <1>6, <1>7, <1>8

-----------------------------------------------------------------------------
(* Theorems *)

\* Every reachable state satisfies the inductive invariant.
THEOREM Invariance == Spec => []IInv
<1>1. IInv /\ [Main]_vars => IInv'
    BY ParseArgStep, ArgsDoneStep, LoadConfigStep, InitializeDeviceStep, DevicesDoneStep,
       CreateEngineStep, InitializeEngineStep, RegisterDevicesStep, InitializePhysicsStep,
       StutterStep DEF Main
<1> QED
    BY InitEstablishes, <1>1, PTL DEF Spec

\* For any configuration and any command line: once the factory is through,
\* every configured device is either served or reported as failed; while the
\* process serves, registry, device manager and remote engine hold exactly
\* the devices that started, and no failed device is known to any of them.
THEOREM OnlyStartedIsServed == Spec => []ServesOnlyWhatStarted
<1>1. IInv => ServesOnlyWhatStarted
    <2> SUFFICES ASSUME IInv PROVE ServesOnlyWhatStarted
        OBVIOUS
    <2>1. TypeOK
        BY DEF IInv
    <2>2. EveryDeviceExplained
        <3> SUFFICES ASSUME config_loaded PROVE EveryDeviceExplained
            BY DEF EveryDeviceExplained
        <3>1. Accounted /\ todo = << >>
            BY DEF IInv, DevicesAccounted
        <3>2. IdsOf(todo) = {} /\ Len(todo) = 0
            BY <3>1, EmptyElements
        <3>3. /\ SuccessfulDevices \cup FailedDevices = Elements(report.configured)
              /\ ListDevices = SuccessfulDevices \cup {"chaos_control"}
            BY <3>1, <3>2 DEF Accounted, ListDevices
        <3>4. /\ Len(report.successful) \in Nat /\ Len(report.failed) \in Nat
              /\ Len(report.configured) \in Nat
            BY DEF IInv, SequencesTyped
        <3>5. Len(report.successful) + Len(report.failed) = Len(report.configured)
            <4>1. Len(report.successful) + Len(report.failed) + 0 = Len(report.configured)
                BY <3>1, <3>2 DEF Accounted
            <4>2. PICK a, b \in Nat : a = Len(report.successful) /\ b = Len(report.failed)
                BY <3>4, Zenon
            <4>3. a + b + 0 = a + b
                OBVIOUS
            <4> QED
                BY <4>1, <4>2, <4>3, Zenon
        <3> QED
            BY <3>3, <3>5 DEF EveryDeviceExplained
    <2>3. check_config_only => pc # "serving" /\ engine = "none" /\ ~started
        BY DEF IInv, CheckOnlyEnds, Running
    <2>4. ASSUME pc = "serving"
          PROVE  /\ function_ids = SuccessfulDevices \cup {"chaos_control"}
                 /\ engine = "remote" => engine_devices = SuccessfulDevices
                 /\ output_paths \subseteq SuccessfulDevices
                 /\ FailedDevices \cap (function_ids \cup engine_devices \cup output_paths) = {}
                 /\ report.startup_policy = "strict" => FailedDevices = {}
        <3>1. /\ function_ids = SuccessfulDevices \cup {"chaos_control"}
              /\ engine_devices = IF engine = "remote" THEN SuccessfulDevices ELSE {}
              /\ output_paths \subseteq SuccessfulDevices
            BY <2>4 DEF IInv, EngineKnows
        <3>2. Accounted
            BY <2>4 DEF IInv, DevicesAccounted, CheckOnlyEnds, Running
        <3>3. SuccessfulDevices \cap FailedDevices = {} /\ "chaos_control" \notin FailedDevices
            BY <3>2 DEF Accounted
        <3>4. report.startup_policy = "strict" => FailedDevices = {}
            BY <3>2, EmptyElements DEF Accounted, FailedDevices
        <3> QED
            BY <3>1, <3>3, <3>4
    <2> QED
        BY <2>1, <2>2, <2>3, <2>4 DEF ServesOnlyWhatStarted
<1> QED
    BY Invariance, <1>1, PTL

\* For any configuration file: one outside the documented mode matrix ends the
\* process with code 1 and nothing initialized; a complete one inside it, of any
\* mode and with any optional keys, passes loader, schema and factory, and only
\* the engine of mode sim can turn it away after that.
THEOREM DocumentedIsAccepted == Spec => []AcceptsWhatIsDocumented
<1>1. IInv => AcceptsWhatIsDocumented
    <2> SUFFICES ASSUME IInv, config # Absent PROVE AcceptsWhatIsDocumented
        BY DEF AcceptsWhatIsDocumented
    <2>1. config \in Configs
        BY DEF IInv, SequencesTyped
    <2>2. Valid(config) => Documented(config)
        BY <2>1, ValidIsDocumented
    <2>3. Documented(config) /\ Complete(config) => Valid(config)
        BY <2>1, DocumentedIsValid
    <2> QED
        BY <2>2, <2>3 DEF IInv, EndsForAReason, AcceptsWhatIsDocumented
<1> QED
    BY Invariance, <1>1, PTL
=============================================================================
