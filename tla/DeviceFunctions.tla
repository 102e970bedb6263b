-------------------------- MODULE DeviceFunctions --------------------------
(***************************************************************************)
(* What every device type declares in get_capabilities against what its     *)
(* call_function and read_signals really do.  The two are separate tables   *)
(* in the code, kept in step by hand, once per device type.                 *)
(*                                                                         *)
(* A value on the wire is a type tag, a text and a number.  The text of a    *)
(* double is "" when it is finite; duty and failure_rate count hundredths.   *)
(* A check list stands for a chain of early returns: the first check that    *)
(* does not hold gives the code of the answer.                               *)
(***************************************************************************)
EXTENDS Integers, Sequences, FiniteSets

CONSTANTS
    DeviceTypes,  \* the device types examined
    Ints,         \* int64 arguments that clients send
    Doubles,      \* finite double arguments that clients send
    Texts,        \* string arguments that clients send
    NumericTexts  \* the strings that consist of digits

ASSUME DeviceTypesAssumption ==
    DeviceTypes \subseteq {"tempctl", "motorctl", "relayio", "analogsensor", "chaos_control"}
ASSUME NumbersAssumption == Ints \subseteq Int /\ Doubles \subseteq Int

Codes == {"OK", "INVALID_ARGUMENT", "NOT_FOUND", "FAILED_PRECONDITION", "OUT_OF_RANGE"}

Value(type, text, n) == [type |-> type, text |-> text, n |-> n]
Absent == Value("absent", "", 0)
Values ==
    {Absent}
    \cup {Value("bool", "", n) : n \in {0, 1}}
    \cup {Value("int64", "", n) : n \in Ints}
    \cup {Value("double", "", n) : n \in Doubles}
    \cup {Value("double", text, 0) : text \in {"nan", "inf", "-inf"}}
    \cup {Value("string", text, 0) : text \in Texts}

\* std::isfinite, and the comparison v < lo || v > hi: false for a NaN.
IsFinite(v) == v.text \notin {"nan", "inf", "-inf"}
Outside(v, lo, hi) ==
    \/ v.text \in {"inf", "-inf"}
    \/ v.text = "" /\ (v.n < lo \/ v.n > hi)

-----------------------------------------------------------------------------
(* get_capabilities *)

Plain(type) == [type |-> type, bounded |-> FALSE, min |-> 0, max |-> 0]
Bounded(type, lo, hi) == [type |-> type, bounded |-> TRUE, min |-> lo, max |-> hi]

\* Functions in the order of their ids, which count from 1.
TempctlCapabilities ==
    [signals |-> [tc1_temp |-> "double", tc2_temp |-> "double", relay1_state |-> "bool",
                  relay2_state |-> "bool", control_mode |-> "string", setpoint |-> "double"],
     functions |-> <<[mode |-> Plain("string")],
                     [value |-> Bounded("double", -50, 400)],
                     [relay_index |-> Bounded("int64", 1, 2), state |-> Plain("bool")]>>]

MotorctlCapabilities ==
    [signals |-> [motor1_speed |-> "double", motor2_speed |-> "double",
                  motor1_duty |-> "double", motor2_duty |-> "double"],
     functions |-> <<[motor_index |-> Bounded("int64", 1, 2),
                      duty |-> Bounded("double", 0, 100)]>>]

RelayioCapabilities ==
    [signals |-> [id \in {"relay_ch1_state", "relay_ch2_state", "relay_ch3_state",
                          "relay_ch4_state", "gpio_input_1", "gpio_input_2",
                          "gpio_input_3", "gpio_input_4"} |-> "bool"],
     functions |-> [channel \in 1 .. 4 |-> [enabled |-> Plain("bool")]]]

AnalogsensorCapabilities ==
    [signals |-> [voltage_ch1 |-> "double", voltage_ch2 |-> "double", voltage_ch3 |-> "double",
                  voltage_ch4 |-> "double", sensor_quality |-> "string"],
     functions |-> <<[channel |-> Bounded("int64", 1, 4)], [enabled |-> Plain("bool")]>>]

ChaosCapabilities ==
    LET string == Plain("string")  int64 == Plain("int64") IN
    [signals |-> [id \in {} |-> "none"],
     functions |-> <<[device_id |-> string, duration_ms |-> int64],
                     [device_id |-> string, signal_id |-> string, duration_ms |-> int64],
                     [device_id |-> string, latency_ms |-> int64],
                     [device_id |-> string, function_id |-> string,
                      failure_rate |-> Plain("double")],
                     [arg \in {} |-> string],
                     [device_id |-> string, duration_ms |-> int64]>>]

Capabilities == [tempctl |-> TempctlCapabilities, motorctl |-> MotorctlCapabilities,
                 relayio |-> RelayioCapabilities, analogsensor |-> AnalogsensorCapabilities,
                 chaos_control |-> ChaosCapabilities]

-----------------------------------------------------------------------------
(* call_function *)

VARIABLES
    type,           \* the type of the device under examination
    mode,           \* tempctl State
    noise_enabled,  \* analogsensor State
    quality,
    request,        \* the last request
    answer          \* and its answer

vars == <<type, mode, noise_enabled, quality, request, answer>>

None == [kind |-> "none"]

Check(holds, code) == [holds |-> holds, code |-> code]
NotFound == <<Check(FALSE, "NOT_FOUND")>>

\* get_arg_bool, get_arg_int64, get_arg_double, get_arg_string
GetArg(v, t) == Check(v.type = t, "INVALID_ARGUMENT")

\* Mutant: the NaN gets past the comparison with the bounds.
MutantTempctlChecks(fn, args) ==
    CASE fn = 1 -> <<GetArg(args.mode, "string"),
                     Check(args.mode.text \in {"open", "closed"}, "INVALID_ARGUMENT")>>
      [] fn = 2 -> <<GetArg(args.value, "double"),
                     Check(~Outside(args.value, -50, 400), "OUT_OF_RANGE")>>
      [] fn = 3 -> <<Check(mode = "open", "FAILED_PRECONDITION"),
                     GetArg(args.relay_index, "int64"),
                     Check(args.relay_index.n \in {1, 2}, "OUT_OF_RANGE"),
                     GetArg(args.state, "bool")>>
      [] OTHER -> NotFound

TempctlChecks(fn, args) ==
    CASE fn = 1 -> <<GetArg(args.mode, "string"),
                     Check(args.mode.text \in {"open", "closed"}, "INVALID_ARGUMENT")>>
      [] fn = 2 -> <<GetArg(args.value, "double"),
                     Check(IsFinite(args.value), "INVALID_ARGUMENT"),
                     Check(~Outside(args.value, -50, 400), "OUT_OF_RANGE")>>
      [] fn = 3 -> <<Check(mode = "open", "FAILED_PRECONDITION"),
                     GetArg(args.relay_index, "int64"),
                     Check(args.relay_index.n \in {1, 2}, "OUT_OF_RANGE"),
                     GetArg(args.state, "bool")>>
      [] OTHER -> NotFound

\* Mutant: the bounds of the duty are compared before it is known to be finite.
MutantMotorctlChecks(fn, args) ==
    CASE fn = 1 -> <<GetArg(args.motor_index, "int64"),
                     Check(args.motor_index.n \in {1, 2}, "OUT_OF_RANGE"),
                     GetArg(args.duty, "double"),
                     Check(~Outside(args.duty, 0, 100), "OUT_OF_RANGE"),
                     Check(IsFinite(args.duty), "INVALID_ARGUMENT")>>
      [] OTHER -> NotFound

MotorctlChecks(fn, args) ==
    CASE fn = 1 -> <<GetArg(args.motor_index, "int64"),
                     Check(args.motor_index.n \in {1, 2}, "OUT_OF_RANGE"),
                     GetArg(args.duty, "double"),
                     Check(IsFinite(args.duty), "INVALID_ARGUMENT"),
                     Check(~Outside(args.duty, 0, 100), "OUT_OF_RANGE")>>
      [] OTHER -> NotFound

RelayioChecks(fn, args) ==
    IF fn \in 1 .. 4 THEN <<GetArg(args.enabled, "bool")>> ELSE NotFound

AnalogsensorChecks(fn, args) ==
    CASE fn = 1 -> <<Check(quality = "GOOD", "FAILED_PRECONDITION"),
                     GetArg(args.channel, "int64"),
                     Check(~Outside(args.channel, 1, 4), "OUT_OF_RANGE")>>
      [] fn = 2 -> <<GetArg(args.enabled, "bool")>>
      [] OTHER -> NotFound

\* is_numeric_function_id
IsNumericFunctionId(text) == text \in NumericTexts

ChaosChecks(fn, args) ==
    LET Positive(v) == Check(v.n > 0, "INVALID_ARGUMENT")
        \* inject_device_unavailable and inject_device_unreachable
        Timed == <<GetArg(args.device_id, "string"), GetArg(args.duration_ms, "int64"),
                   Positive(args.duration_ms)>>
    IN  CASE fn \in {1, 6} -> Timed
          [] fn = 2 -> <<GetArg(args.device_id, "string"), GetArg(args.signal_id, "string"),
                         GetArg(args.duration_ms, "int64"), Positive(args.duration_ms)>>
          [] fn = 3 -> <<GetArg(args.device_id, "string"), GetArg(args.latency_ms, "int64"),
                         Check(args.latency_ms.n >= 0, "INVALID_ARGUMENT")>>
          [] fn = 4 -> <<GetArg(args.device_id, "string"), GetArg(args.function_id, "string"),
                         Check(IsNumericFunctionId(args.function_id.text), "INVALID_ARGUMENT"),
                         Check(args.function_id.text # "0", "INVALID_ARGUMENT"),
                         GetArg(args.failure_rate, "double"),
                         Check(~Outside(args.failure_rate, 0, 100), "INVALID_ARGUMENT")>>
          [] fn = 5 -> << >>
          [] OTHER -> NotFound

Checks(fn, args) ==
    CASE type = "tempctl"       -> TempctlChecks(fn, args)
      [] type = "motorctl"      -> MotorctlChecks(fn, args)
      [] type = "relayio"       -> RelayioChecks(fn, args)
      [] type = "analogsensor"  -> AnalogsensorChecks(fn, args)
      [] type = "chaos_control" -> ChaosChecks(fn, args)

Verdict(checks) ==
    LET failed == {i \in DOMAIN checks : ~checks[i].holds}
    IN  IF failed = {} THEN "OK"
        ELSE checks[CHOOSE i \in failed : \A j \in failed : i <= j].code

NewMode(fn, args, code) ==
    IF type = "tempctl" /\ fn = 1 /\ code = "OK" THEN args.mode.text ELSE mode

\* Of a call's effects, those that the checks of later calls depend on:
\* set_mode and inject_noise.
CallFunction(fn, args) ==
    LET code == Verdict(Checks(fn, args)) IN
    /\ request' = [kind |-> "call", fn |-> fn, args |-> args, mode |-> mode,
                   quality |-> quality]
    /\ answer' = [kind |-> "call", code |-> code]
    /\ mode' = NewMode(fn, args, code)
    /\ IF type = "analogsensor" /\ fn = 2 /\ code = "OK"
       THEN /\ noise_enabled' = (args.enabled.n = 1)
            /\ quality' = IF args.enabled.n = 1 THEN quality ELSE "GOOD"
       ELSE UNCHANGED <<noise_enabled, quality>>
    /\ UNCHANGED type

\* analogsensor's update_physics, any time after the timer has run long enough.
Degrade ==
    /\ type = "analogsensor" /\ noise_enabled
    /\ \/ quality = "GOOD" /\ quality' = "NOISY"
       \/ quality = "NOISY" /\ quality' = "FAULT"
    /\ UNCHANGED <<type, mode, noise_enabled, request, answer>>

-----------------------------------------------------------------------------
(* read_signals: the type each signal is answered with, and the signals of a *)
(* request that names none.  Unknown ids are left out.                       *)

TempctlSignals == [tc1_temp |-> "double", tc2_temp |-> "double", relay1_state |-> "bool",
                   relay2_state |-> "bool", control_mode |-> "string", setpoint |-> "double"]
MotorctlSignals == [motor1_speed |-> "double", motor2_speed |-> "double",
                    motor1_duty |-> "double", motor2_duty |-> "double"]
RelayioSignals == [relay_ch1_state |-> "bool", relay_ch2_state |-> "bool",
                   relay_ch3_state |-> "bool", relay_ch4_state |-> "bool",
                   gpio_input_1 |-> "bool", gpio_input_2 |-> "bool",
                   gpio_input_3 |-> "bool", gpio_input_4 |-> "bool"]

AnalogsensorSignals == [voltage_ch1 |-> "double", voltage_ch2 |-> "double",
                        voltage_ch3 |-> "double", voltage_ch4 |-> "double",
                        sensor_quality |-> "string"]

KnownSignals == [tempctl |-> TempctlSignals, motorctl |-> MotorctlSignals,
                 relayio |-> RelayioSignals, analogsensor |-> AnalogsensorSignals,
                 chaos_control |-> [id \in {} |-> "none"]]

DefaultSignals ==
    [tempctl |-> {"tc1_temp", "tc2_temp", "relay1_state", "relay2_state"},
     motorctl |-> {"motor1_speed", "motor2_speed"},
     relayio |-> DOMAIN RelayioSignals,
     analogsensor |-> DOMAIN AnalogsensorSignals,
     chaos_control |-> {}]

ReadSignals(ids) ==
    LET known == KnownSignals[type]
        asked == IF ids = {} THEN DefaultSignals[type] ELSE ids
    IN  /\ request' = [kind |-> "read", ids |-> ids]
        /\ answer' = [kind |-> "read", values |-> [id \in asked \cap DOMAIN known |-> known[id]]]
        /\ UNCHANGED <<type, mode, noise_enabled, quality>>

-----------------------------------------------------------------------------
Init ==
    /\ type \in DeviceTypes
    /\ mode = "open" /\ noise_enabled = FALSE /\ quality = "GOOD"
    /\ request = None /\ answer = None

Functions == Capabilities[type].functions
Declared == Capabilities[type].signals

\* The run loop serves one request at a time; the last one is forgotten.
Done ==
    /\ answer # None
    /\ request' = None /\ answer' = None
    /\ UNCHANGED <<type, mode, noise_enabled, quality>>

Call == answer = None /\
    \/ \E fn \in DOMAIN Functions : \E args \in [DOMAIN Functions[fn] -> Values] :
          CallFunction(fn, args)
    \/ \E fn \in {0, Len(Functions) + 1} : CallFunction(fn, << >>)

Read == answer = None /\
    \E ids \in SUBSET (DOMAIN Declared \cup {"bogus"}) : ReadSignals(ids)

Next == Call \/ Read \/ Done \/ Degrade
Spec == Init /\ [][Next]_vars

-----------------------------------------------------------------------------
(* Properties *)

TypeOK ==
    /\ type \in DeviceTypes
    /\ mode \in {"open", "closed"}
    /\ noise_enabled \in BOOLEAN /\ quality \in {"GOOD", "NOISY", "FAULT"}
    /\ answer.kind = request.kind
    /\ answer.kind = "call" => answer.code \in Codes

\* What is wrong with an argument, going by its declaration alone.
Malformed(spec, v) == v.type # spec.type \/ (spec.bounded /\ ~IsFinite(v))
OutOfRange(spec, v) == ~Malformed(spec, v) /\ spec.bounded /\ Outside(v, spec.min, spec.max)

IsDeclared == request.fn \in DOMAIN Functions
Specs == Functions[request.fn]
SomeArg(Defect(_, _)) == \E arg \in DOMAIN Specs : Defect(Specs[arg], request.args[arg])

\* What the declarations cannot say, in words only in the descriptions: the two
\* functions with a precondition, and the value rules of set_mode and chaos.
PreconditionHolds ==
    /\ (type = "tempctl" /\ request.fn = 3) => request.mode = "open"
    /\ (type = "analogsensor" /\ request.fn = 1) => request.quality = "GOOD"
HasValueRule == type = "chaos_control" \/ (type = "tempctl" /\ request.fn = 1)

\* A call succeeds exactly when the device declares the function, every
\* argument conforms to its declared type and bounds and the precondition
\* holds; functions with further value rules may refuse more, none less.
CallsMatchDeclaration == answer.kind = "call" =>
    LET conforming == IsDeclared /\ ~SomeArg(Malformed) /\ ~SomeArg(OutOfRange)
                      /\ PreconditionHolds
    IN  /\ answer.code = "OK" => conforming
        /\ conforming /\ ~HasValueRule => answer.code = "OK"

\* Every declared signal can be read, with the declared type; nothing else is
\* answered, and a read that names no signal gets some of the declared ones.
ReadsMatchDeclaration == answer.kind = "read" =>
    LET answered == DOMAIN answer.values IN
    /\ request.ids # {} => answered = request.ids \cap DOMAIN Declared
    /\ request.ids = {} /\ DOMAIN Declared # {} => answered # {}
    /\ answered \subseteq DOMAIN Declared
    /\ \A id \in answered : answer.values[id] = Declared[id]

\* What a device declares in get_capabilities is what it does in call_function
\* and read_signals, in all five device types, which state it twice.
DeclaredIsEnforced == TypeOK /\ CallsMatchDeclaration /\ ReadsMatchDeclaration

\* A refusal gives the code of a defect the request has: "enforce declared
\* numeric bounds as CODE_OUT_OF_RANGE, and reject non-finite doubles with
\* CODE_INVALID_ARGUMENT" (CHANGELOG.md:108).  An argument with bounds that is
\* not finite is never reported as out of range.
RefusalNamesTheDefect == answer.kind = "call" =>
    /\ answer.code = "NOT_FOUND" <=> ~IsDeclared
    /\ IsDeclared /\ ~PreconditionHolds <=> answer.code = "FAILED_PRECONDITION"
    /\ answer.code = "OUT_OF_RANGE" => SomeArg(OutOfRange)
    /\ answer.code = "INVALID_ARGUMENT" => SomeArg(Malformed) \/ HasValueRule

=============================================================================
