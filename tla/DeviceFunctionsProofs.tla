----------------------- MODULE DeviceFunctionsProofs -----------------------
(***************************************************************************)
(* Declarations and checks of the five device types agree for every integer,  *)
(* every double and every string a client may send, in any sequence of         *)
(* requests.                                                                 *)
(***************************************************************************)
EXTENDS DeviceFunctions, TLAPS

\* The inductive invariant: the properties speak of the last request with the
\* state it met, so no later step can disturb them.
IInv == DeclaredIsEnforced /\ RefusalNamesTheDefect

-----------------------------------------------------------------------------
(* Values and verdicts *)

\* Only a double or a string carries a text, and the number of every value is
\* an integer.
LEMMA ValueFacts ==
    ASSUME NEW v \in Values
    PROVE  /\ v.n \in Int
           /\ v.type \in {"bool", "int64"} => v.text = ""
           /\ v.type = "double" => v.text \in {"", "nan", "inf", "-inf"}
<1>1. CASE v = Absent
  <2>1. v.type = "absent" /\ v.n = 0
    BY <1>1 DEF Absent, Value
  <2> QED
    BY <2>1
<1>2. CASE v \in {Value("bool", "", n) : n \in {0, 1}}
  <2>1. PICK n \in {0, 1} : v = Value("bool", "", n)
    BY <1>2
  <2>2. v.type = "bool" /\ v.text = "" /\ v.n = n
    BY <2>1 DEF Value
  <2>3. n = 0 \/ n = 1
    OBVIOUS
  <2>4. 0 \in Int /\ 1 \in Int
    OBVIOUS
  <2>5. n \in Int
    BY <2>3, <2>4, Zenon
  <2> QED
    BY <2>2, <2>5
<1>3. CASE v \in {Value("int64", "", n) : n \in Ints}
  <2>1. PICK n \in Ints : v = Value("int64", "", n)
    BY <1>3
  <2> QED
    BY <2>1, NumbersAssumption DEF Value
<1>4. CASE v \in {Value("double", "", n) : n \in Doubles}
  <2>1. PICK n \in Doubles : v = Value("double", "", n)
    BY <1>4
  <2> QED
    BY <2>1, NumbersAssumption DEF Value
<1>5. CASE v \in {Value("double", text, 0) : text \in {"nan", "inf", "-inf"}}
  <2>1. PICK text \in {"nan", "inf", "-inf"} : v = Value("double", text, 0)
    BY <1>5
  <2>2. v.type = "double" /\ v.text \in {"nan", "inf", "-inf"}
    BY <2>1 DEF Value
  <2>3. v.n = 0 /\ 0 \in Int
    BY <2>1 DEF Value
  <2> QED
    BY <2>2, <2>3
<1>6. CASE v \in {Value("string", text, 0) : text \in Texts}
  <2>1. PICK text \in Texts : v = Value("string", text, 0)
    BY <1>6
  <2>2. v.type = "string" /\ v.n = 0
    BY <2>1 DEF Value
  <2> QED
    BY <2>2
<1> QED
  BY <1>1, <1>2, <1>3, <1>4, <1>5, <1>6 DEF Values

\* The first check that does not hold gives the code.
LEMMA FirstFailure ==
    ASSUME NEW checks, DOMAIN checks \subseteq Int, NEW i \in DOMAIN checks,
           ~checks[i].holds, \A j \in DOMAIN checks : j < i => checks[j].holds
    PROVE  Verdict(checks) = checks[i].code
<1> DEFINE failed == {k \in DOMAIN checks : ~checks[k].holds}
           Least(k) == k \in failed /\ \A j \in failed : k <= j
<1>1. Least(i)
  OBVIOUS
<1>2. ASSUME NEW k, Least(k) PROVE k = i
  BY <1>1, <1>2
<1>3. (CHOOSE k \in failed : \A j \in failed : k <= j) = i
  BY <1>1, <1>2
<1> QED
  BY <1>1, <1>3 DEF Verdict

\* And when all hold the call succeeds.
LEMMA NoFailure ==
    ASSUME NEW checks, \A j \in DOMAIN checks : checks[j].holds
    PROVE  Verdict(checks) = "OK"
BY DEF Verdict

\* The fields of a check.
LEMMA CheckFields ==
    ASSUME NEW p \in BOOLEAN, NEW a
    PROVE  (Check(p, a).holds <=> p) /\ Check(p, a).code = a
BY DEF Check

\* The same for the check lists of the code, by their length: one check.
LEMMA Verdict1 ==
    ASSUME NEW p \in BOOLEAN,
           NEW a
    PROVE  Verdict(<<Check(p, a)>>) =
             IF ~p THEN a ELSE "OK"
<1> DEFINE checks == <<Check(p, a)>>
           code == IF ~p THEN a ELSE "OK"
<1> SUFFICES Verdict(checks) = code
  OBVIOUS
<1>1. /\ DOMAIN checks = 1 .. 1
      /\ (checks[1].holds <=> p) /\ checks[1].code = a
  BY CheckFields
<1> HIDE DEF checks
<1>2. CASE ~p
  BY <1>1, <1>2, FirstFailure
<1>3. CASE p
  BY <1>1, <1>3, NoFailure
<1> QED
  BY <1>2, <1>3

\* Two checks.
LEMMA Verdict2 ==
    ASSUME NEW p \in BOOLEAN, NEW q \in BOOLEAN,
           NEW a, NEW b
    PROVE  Verdict(<<Check(p, a), Check(q, b)>>) =
             IF ~p THEN a
             ELSE IF ~q THEN b ELSE "OK"
<1> DEFINE checks == <<Check(p, a), Check(q, b)>>
           code == IF ~p THEN a
                   ELSE IF ~q THEN b ELSE "OK"
<1> SUFFICES Verdict(checks) = code
  OBVIOUS
<1>1. /\ DOMAIN checks = 1 .. 2
      /\ (checks[1].holds <=> p) /\ checks[1].code = a
      /\ (checks[2].holds <=> q) /\ checks[2].code = b
  BY CheckFields
<1> HIDE DEF checks
<1>2. CASE ~p
  BY <1>1, <1>2, FirstFailure
<1>3. CASE p /\ ~q
  BY <1>1, <1>3, FirstFailure
<1>4. CASE p /\ q
  BY <1>1, <1>4, NoFailure
<1> QED
  BY <1>2, <1>3, <1>4

\* Three.
LEMMA Verdict3 ==
    ASSUME NEW p \in BOOLEAN, NEW q \in BOOLEAN, NEW r \in BOOLEAN,
           NEW a, NEW b, NEW c
    PROVE  Verdict(<<Check(p, a), Check(q, b), Check(r, c)>>) =
             IF ~p THEN a
             ELSE IF ~q THEN b
             ELSE IF ~r THEN c ELSE "OK"
<1> DEFINE checks == <<Check(p, a), Check(q, b), Check(r, c)>>
           code == IF ~p THEN a
                   ELSE IF ~q THEN b
                   ELSE IF ~r THEN c ELSE "OK"
<1> SUFFICES Verdict(checks) = code
  OBVIOUS
<1>1. /\ DOMAIN checks = 1 .. 3
      /\ (checks[1].holds <=> p) /\ checks[1].code = a
      /\ (checks[2].holds <=> q) /\ checks[2].code = b
      /\ (checks[3].holds <=> r) /\ checks[3].code = c
  BY CheckFields
<1> HIDE DEF checks
<1>2. CASE ~p
  BY <1>1, <1>2, FirstFailure
<1>3. CASE p /\ ~q
  BY <1>1, <1>3, FirstFailure
<1>4. CASE p /\ q /\ ~r
  BY <1>1, <1>4, FirstFailure
<1>5. CASE p /\ q /\ r
  BY <1>1, <1>5, NoFailure
<1> QED
  BY <1>2, <1>3, <1>4, <1>5

\* Four.
LEMMA Verdict4 ==
    ASSUME NEW p \in BOOLEAN, NEW q \in BOOLEAN, NEW r \in BOOLEAN, NEW s \in BOOLEAN,
           NEW a, NEW b, NEW c, NEW d
    PROVE  Verdict(<<Check(p, a), Check(q, b), Check(r, c), Check(s, d)>>) =
             IF ~p THEN a
             ELSE IF ~q THEN b
             ELSE IF ~r THEN c
             ELSE IF ~s THEN d ELSE "OK"
<1> DEFINE checks == <<Check(p, a), Check(q, b), Check(r, c), Check(s, d)>>
           code == IF ~p THEN a
                   ELSE IF ~q THEN b
                   ELSE IF ~r THEN c
                   ELSE IF ~s THEN d ELSE "OK"
<1> SUFFICES Verdict(checks) = code
  OBVIOUS
<1>1. /\ DOMAIN checks = 1 .. 4
      /\ (checks[1].holds <=> p) /\ checks[1].code = a
      /\ (checks[2].holds <=> q) /\ checks[2].code = b
      /\ (checks[3].holds <=> r) /\ checks[3].code = c
      /\ (checks[4].holds <=> s) /\ checks[4].code = d
  BY CheckFields
<1> HIDE DEF checks
<1>2. CASE ~p
  BY <1>1, <1>2, FirstFailure
<1>3. CASE p /\ ~q
  BY <1>1, <1>3, FirstFailure
<1>4. CASE p /\ q /\ ~r
  BY <1>1, <1>4, FirstFailure
<1>5. CASE p /\ q /\ r /\ ~s
  BY <1>1, <1>5, FirstFailure
<1>6. CASE p /\ q /\ r /\ s
  BY <1>1, <1>6, NoFailure
<1> QED
  BY <1>2, <1>3, <1>4, <1>5, <1>6

\* Five, with the codes that set_duty answers.
LEMMA Verdict5 ==
    ASSUME NEW p \in BOOLEAN, NEW q \in BOOLEAN, NEW r \in BOOLEAN,
           NEW s \in BOOLEAN, NEW t \in BOOLEAN,
           NEW a, NEW b
    PROVE  Verdict(<<Check(p, a), Check(q, b), Check(r, a), Check(s, a), Check(t, b)>>) =
             IF ~p THEN a
             ELSE IF ~q THEN b
             ELSE IF ~r THEN a
             ELSE IF ~s THEN a
             ELSE IF ~t THEN b ELSE "OK"
<1> DEFINE checks == <<Check(p, a), Check(q, b), Check(r, a), Check(s, a), Check(t, b)>>
           code == IF ~p THEN a
                   ELSE IF ~q THEN b
                   ELSE IF ~r THEN a
                   ELSE IF ~s THEN a
                   ELSE IF ~t THEN b ELSE "OK"
<1> SUFFICES Verdict(checks) = code
  OBVIOUS
<1>1. /\ DOMAIN checks = 1 .. 5
      /\ (checks[1].holds <=> p) /\ checks[1].code = a
      /\ (checks[2].holds <=> q) /\ checks[2].code = b
      /\ (checks[3].holds <=> r) /\ checks[3].code = a
      /\ (checks[4].holds <=> s) /\ checks[4].code = a
      /\ (checks[5].holds <=> t) /\ checks[5].code = b
  BY CheckFields
<1> HIDE DEF checks
<1>2. CASE ~p
  BY <1>1, <1>2, FirstFailure
<1>3. CASE p /\ ~q
  BY <1>1, <1>3, FirstFailure
<1>4. CASE p /\ q /\ ~r
  BY <1>1, <1>4, FirstFailure
<1>5. CASE p /\ q /\ r /\ ~s
  BY <1>1, <1>5, FirstFailure
<1>6. CASE p /\ q /\ r /\ s /\ ~t
  BY <1>1, <1>6, FirstFailure
<1>7. CASE p /\ q /\ r /\ s /\ t
  BY <1>1, <1>7, NoFailure
<1> QED
  BY <1>2, <1>3, <1>4, <1>5, <1>6, <1>7

\* Six, all with one code.
LEMMA Verdict6 ==
    ASSUME NEW p \in BOOLEAN, NEW q \in BOOLEAN, NEW r \in BOOLEAN,
           NEW s \in BOOLEAN, NEW t \in BOOLEAN, NEW u \in BOOLEAN,
           NEW a
    PROVE  Verdict(<<Check(p, a), Check(q, a), Check(r, a),
                     Check(s, a), Check(t, a), Check(u, a)>>) =
             IF p /\ q /\ r /\ s /\ t /\ u THEN "OK" ELSE a
<1> DEFINE checks == <<Check(p, a), Check(q, a), Check(r, a),
                     Check(s, a), Check(t, a), Check(u, a)>>
           code == IF p /\ q /\ r /\ s /\ t /\ u THEN "OK" ELSE a
<1> SUFFICES Verdict(checks) = code
  OBVIOUS
<1>1. /\ DOMAIN checks = 1 .. 6
      /\ (checks[1].holds <=> p) /\ checks[1].code = a
      /\ (checks[2].holds <=> q) /\ checks[2].code = a
      /\ (checks[3].holds <=> r) /\ checks[3].code = a
      /\ (checks[4].holds <=> s) /\ checks[4].code = a
      /\ (checks[5].holds <=> t) /\ checks[5].code = a
      /\ (checks[6].holds <=> u) /\ checks[6].code = a
  BY CheckFields
<1> HIDE DEF checks
<1>2. CASE ~p
  BY <1>1, <1>2, FirstFailure
<1>3. CASE p /\ ~q
  BY <1>1, <1>3, FirstFailure
<1>4. CASE p /\ q /\ ~r
  BY <1>1, <1>4, FirstFailure
<1>5. CASE p /\ q /\ r /\ ~s
  BY <1>1, <1>5, FirstFailure
<1>6. CASE p /\ q /\ r /\ s /\ ~t
  BY <1>1, <1>6, FirstFailure
<1>7. CASE p /\ q /\ r /\ s /\ t /\ ~u
  BY <1>1, <1>7, FirstFailure
<1>8. CASE p /\ q /\ r /\ s /\ t /\ u
  BY <1>1, <1>8, NoFailure
<1> QED
  BY <1>2, <1>3, <1>4, <1>5, <1>6, <1>7, <1>8

-----------------------------------------------------------------------------
(* One function's checks against its declaration *)

\* Some argument of a call is malformed, or out of range, going by the
\* declaration specs of the function.
SomeMalformed(specs, args) == \E arg \in DOMAIN specs : Malformed(specs[arg], args[arg])
SomeOutOfRange(specs, args) == \E arg \in DOMAIN specs : OutOfRange(specs[arg], args[arg])

\* What the two properties say of the code that a declared function answers,
\* pre its precondition and rule whether it has a value rule.
Agrees(specs, args, pre, rule, code) ==
    /\ code \in Codes \ {"NOT_FOUND"}
    /\ code = "OK" => ~SomeMalformed(specs, args) /\ ~SomeOutOfRange(specs, args) /\ pre
    /\ ~SomeMalformed(specs, args) /\ ~SomeOutOfRange(specs, args) /\ pre /\ ~rule => code = "OK"
    /\ ~pre <=> code = "FAILED_PRECONDITION"
    /\ code = "OUT_OF_RANGE" => SomeOutOfRange(specs, args)
    /\ code = "INVALID_ARGUMENT" => SomeMalformed(specs, args) \/ rule

\* An argument declared without bounds is judged by its type alone.
LEMMA PlainArg ==
    ASSUME NEW t, NEW v
    PROVE  /\ Malformed(Plain(t), v) <=> v.type # t
           /\ ~OutOfRange(Plain(t), v)
BY DEF Malformed, OutOfRange, Plain

\* One with bounds has to be finite and within them.
LEMMA BoundedArg ==
    ASSUME NEW t, NEW lo, NEW hi, NEW v
    PROVE  /\ Malformed(Bounded(t, lo, hi), v) <=> v.type # t \/ ~IsFinite(v)
           /\ OutOfRange(Bounded(t, lo, hi), v) <=>
                v.type = t /\ IsFinite(v) /\ Outside(v, lo, hi)
BY DEF Malformed, OutOfRange, Bounded

\* An integer is always finite, and outside its bounds when its number is.
LEMMA IntegerArg ==
    ASSUME NEW v \in Values, v.type = "int64", NEW lo, NEW hi
    PROVE  /\ IsFinite(v)
           /\ Outside(v, lo, hi) <=> (v.n < lo \/ v.n > hi)
<1>1. v.text = ""
  BY ValueFacts
<1> QED
  BY <1>1 DEF IsFinite, Outside

\* tempctl set_mode: a string, and of the strings two.
LEMMA SetMode ==
    ASSUME NEW args \in [{"mode"} -> Values]
    PROVE  /\ Agrees([mode |-> Plain("string")], args, TRUE, TRUE,
                     Verdict(TempctlChecks(1, args)))
           /\ Verdict(TempctlChecks(1, args)) = "OK" => args.mode.text \in {"open", "closed"}
<1> DEFINE v == args.mode
           specs == [mode |-> Plain("string")]
           code == Verdict(TempctlChecks(1, args))
<1>1. code = IF v.type # "string" \/ v.text \notin {"open", "closed"}
             THEN "INVALID_ARGUMENT" ELSE "OK"
  <2> DEFINE p == v.type = "string"
             q == v.text \in {"open", "closed"}
  <2>1. /\ TempctlChecks(1, args) = <<Check(p, "INVALID_ARGUMENT"), Check(q, "INVALID_ARGUMENT")>>
        /\ p \in BOOLEAN /\ q \in BOOLEAN
    BY DEF TempctlChecks, GetArg
  <2> HIDE DEF p, q
  <2>2. code = IF ~p \/ ~q THEN "INVALID_ARGUMENT" ELSE "OK"
    BY <2>1, Verdict2
  <2> QED
    BY <2>2 DEF p, q
<1>2. /\ SomeMalformed(specs, args) <=> v.type # "string"
      /\ ~SomeOutOfRange(specs, args)
  <2>1. DOMAIN specs = {"mode"} /\ specs.mode = Plain("string")
    OBVIOUS
  <2> QED
    BY <2>1, PlainArg DEF SomeMalformed, SomeOutOfRange
<1>3. code = "OK" => v.text \in {"open", "closed"}
  BY <1>1
<1> HIDE DEF specs, code, v
<1>4. Agrees(specs, args, TRUE, TRUE, code)
  BY <1>1, <1>2 DEF Agrees, Codes
<1> QED
  BY <1>3, <1>4 DEF specs, code, v

\* tempctl set_setpoint: the declared bounds of the value are the checked ones.
LEMMA SetSetpoint ==
    ASSUME NEW args \in [{"value"} -> Values]
    PROVE  Agrees([value |-> Bounded("double", -50, 400)], args, TRUE, FALSE,
                  Verdict(TempctlChecks(2, args)))
<1> DEFINE v == args.value
           specs == [value |-> Bounded("double", -50, 400)]
           code == Verdict(TempctlChecks(2, args))
<1>1. code = IF v.type # "double" \/ ~IsFinite(v) THEN "INVALID_ARGUMENT"
             ELSE IF Outside(v, -50, 400) THEN "OUT_OF_RANGE" ELSE "OK"
  <2> DEFINE p == v.type = "double"
             q == IsFinite(v)
             r == ~Outside(v, -50, 400)
  <2>1. /\ TempctlChecks(2, args) = <<Check(p, "INVALID_ARGUMENT"), Check(q, "INVALID_ARGUMENT"),
                                      Check(r, "OUT_OF_RANGE")>>
        /\ p \in BOOLEAN /\ q \in BOOLEAN /\ r \in BOOLEAN
    BY DEF TempctlChecks, GetArg, IsFinite
  <2> HIDE DEF p, q, r
  <2>2. code = IF ~p \/ ~q THEN "INVALID_ARGUMENT" ELSE IF ~r THEN "OUT_OF_RANGE" ELSE "OK"
    BY <2>1, Verdict3
  <2> QED
    BY <2>2 DEF p, q, r
<1>2. /\ SomeMalformed(specs, args) <=> v.type # "double" \/ ~IsFinite(v)
      /\ SomeOutOfRange(specs, args) <=>
           v.type = "double" /\ IsFinite(v) /\ Outside(v, -50, 400)
  <2>1. DOMAIN specs = {"value"} /\ specs.value = Bounded("double", -50, 400)
    OBVIOUS
  <2> QED
    BY <2>1, BoundedArg DEF SomeMalformed, SomeOutOfRange
<1> HIDE DEF specs, code
<1> SUFFICES Agrees(specs, args, TRUE, FALSE, code)
  BY DEF specs, code
<1> QED
  BY <1>1, <1>2 DEF Agrees, Codes

\* tempctl set_relay: in open mode only; an index in the bounds is one of the two.
LEMMA SetRelay ==
    ASSUME NEW args \in [{"relay_index", "state"} -> Values]
    PROVE  Agrees([relay_index |-> Bounded("int64", 1, 2), state |-> Plain("bool")], args,
                  mode = "open", FALSE, Verdict(TempctlChecks(3, args)))
<1> DEFINE i == args.relay_index
           v == args.state
           specs == [relay_index |-> Bounded("int64", 1, 2), state |-> Plain("bool")]
           code == Verdict(TempctlChecks(3, args))
<1>1. code = IF mode # "open" THEN "FAILED_PRECONDITION"
             ELSE IF i.type # "int64" THEN "INVALID_ARGUMENT"
             ELSE IF i.n \notin {1, 2} THEN "OUT_OF_RANGE"
             ELSE IF v.type # "bool" THEN "INVALID_ARGUMENT" ELSE "OK"
  <2> DEFINE p == mode = "open"
             q == i.type = "int64"
             r == i.n \in {1, 2}
             s == v.type = "bool"
  <2>1. /\ TempctlChecks(3, args) =
             <<Check(p, "FAILED_PRECONDITION"), Check(q, "INVALID_ARGUMENT"),
               Check(r, "OUT_OF_RANGE"), Check(s, "INVALID_ARGUMENT")>>
        /\ p \in BOOLEAN /\ q \in BOOLEAN /\ r \in BOOLEAN /\ s \in BOOLEAN
    BY DEF TempctlChecks, GetArg
  <2> HIDE DEF p, q, r, s
  <2>2. code = IF ~p THEN "FAILED_PRECONDITION" ELSE IF ~q THEN "INVALID_ARGUMENT"
               ELSE IF ~r THEN "OUT_OF_RANGE" ELSE IF ~s THEN "INVALID_ARGUMENT" ELSE "OK"
    BY <2>1, Verdict4
  <2> QED
    BY <2>2 DEF p, q, r, s
<1>2. i.type = "int64" => IsFinite(i) /\ (Outside(i, 1, 2) <=> i.n \notin {1, 2})
  <2>1. i \in Values /\ i.n \in Int
    BY ValueFacts
  <2> QED
    BY <2>1, IntegerArg
<1>3. /\ SomeMalformed(specs, args) <=> i.type # "int64" \/ v.type # "bool"
      /\ SomeOutOfRange(specs, args) <=> i.type = "int64" /\ i.n \notin {1, 2}
  <2>1. /\ DOMAIN specs = {"relay_index", "state"}
        /\ specs.relay_index = Bounded("int64", 1, 2) /\ specs.state = Plain("bool")
    OBVIOUS
  <2> QED
    BY <1>2, <2>1, PlainArg, BoundedArg DEF SomeMalformed, SomeOutOfRange
<1> HIDE DEF specs, code
<1> SUFFICES Agrees(specs, args, mode = "open", FALSE, code)
  BY DEF specs, code
<1> QED
  BY <1>1, <1>3 DEF Agrees, Codes

\* motorctl set_duty: both arguments have bounds, and a NaN is not out of them.
LEMMA SetDuty ==
    ASSUME NEW args \in [{"motor_index", "duty"} -> Values]
    PROVE  Agrees([motor_index |-> Bounded("int64", 1, 2), duty |-> Bounded("double", 0, 100)],
                  args, TRUE, FALSE, Verdict(MotorctlChecks(1, args)))
<1> DEFINE i == args.motor_index
           v == args.duty
           specs == [motor_index |-> Bounded("int64", 1, 2), duty |-> Bounded("double", 0, 100)]
           code == Verdict(MotorctlChecks(1, args))
           p == i.type = "int64"
           q == i.n \in {1, 2}
           r == v.type = "double"
           s == IsFinite(v)
           t == ~Outside(v, 0, 100)
<1>1. /\ MotorctlChecks(1, args) =
           <<Check(p, "INVALID_ARGUMENT"), Check(q, "OUT_OF_RANGE"), Check(r, "INVALID_ARGUMENT"),
             Check(s, "INVALID_ARGUMENT"), Check(t, "OUT_OF_RANGE")>>
      /\ p \in BOOLEAN /\ q \in BOOLEAN /\ r \in BOOLEAN /\ s \in BOOLEAN /\ t \in BOOLEAN
  BY DEF MotorctlChecks, GetArg, IsFinite
<1>2. p => IsFinite(i) /\ (Outside(i, 1, 2) <=> ~q)
  <2>1. i \in Values /\ i.n \in Int
    BY ValueFacts
  <2> QED
    BY <2>1, IntegerArg
<1>3. /\ SomeMalformed(specs, args) <=> ~p \/ ~r \/ ~s
      /\ SomeOutOfRange(specs, args) <=> (p /\ ~q) \/ (r /\ s /\ ~t)
  <2>1. /\ DOMAIN specs = {"motor_index", "duty"}
        /\ specs.motor_index = Bounded("int64", 1, 2)
        /\ specs.duty = Bounded("double", 0, 100)
    OBVIOUS
  <2> QED
    BY <1>2, <2>1, BoundedArg DEF SomeMalformed, SomeOutOfRange
<1> HIDE DEF specs, p, q, r, s, t
<1>4. code = IF ~p THEN "INVALID_ARGUMENT" ELSE IF ~q THEN "OUT_OF_RANGE"
             ELSE IF ~r \/ ~s THEN "INVALID_ARGUMENT" ELSE IF ~t THEN "OUT_OF_RANGE" ELSE "OK"
  <2>1. p \in BOOLEAN /\ q \in BOOLEAN /\ r \in BOOLEAN /\ s \in BOOLEAN /\ t \in BOOLEAN
    BY <1>1
  <2>2. Verdict(<<Check(p, "INVALID_ARGUMENT"), Check(q, "OUT_OF_RANGE"),
                  Check(r, "INVALID_ARGUMENT"), Check(s, "INVALID_ARGUMENT"),
                  Check(t, "OUT_OF_RANGE")>>) =
          IF ~p THEN "INVALID_ARGUMENT" ELSE IF ~q THEN "OUT_OF_RANGE"
          ELSE IF ~r THEN "INVALID_ARGUMENT" ELSE IF ~s THEN "INVALID_ARGUMENT"
          ELSE IF ~t THEN "OUT_OF_RANGE" ELSE "OK"
    BY <2>1, Verdict5
  <2> QED
    BY <1>1, <2>2
<1> HIDE DEF code
<1> SUFFICES Agrees(specs, args, TRUE, FALSE, code)
  BY DEF specs, code
<1> QED
  BY <1>3, <1>4 DEF Agrees, Codes

\* A function of one plain boolean: relayio set_relay_ch1 to 4, inject_noise.
LEMMA Switch ==
    ASSUME NEW args \in [{"enabled"} -> Values]
    PROVE  Agrees([enabled |-> Plain("bool")], args, TRUE, FALSE,
                  Verdict(<<GetArg(args.enabled, "bool")>>))
<1> DEFINE specs == [enabled |-> Plain("bool")]
           code == Verdict(<<GetArg(args.enabled, "bool")>>)
           p == args.enabled.type = "bool"
<1>1. GetArg(args.enabled, "bool") = Check(p, "INVALID_ARGUMENT") /\ p \in BOOLEAN
  BY DEF GetArg
<1>2. (SomeMalformed(specs, args) <=> ~p) /\ ~SomeOutOfRange(specs, args)
  <2>1. DOMAIN specs = {"enabled"} /\ specs.enabled = Plain("bool")
    OBVIOUS
  <2> QED
    BY <2>1, PlainArg DEF SomeMalformed, SomeOutOfRange
<1> HIDE DEF specs, p
<1>3. code = IF ~p THEN "INVALID_ARGUMENT" ELSE "OK"
  BY <1>1, Verdict1
<1> HIDE DEF code
<1> SUFFICES Agrees(specs, args, TRUE, FALSE, code)
  BY DEF specs, code
<1> QED
  BY <1>2, <1>3 DEF Agrees, Codes

\* analogsensor calibrate_channel: only while the quality is GOOD.
LEMMA CalibrateChannel ==
    ASSUME NEW args \in [{"channel"} -> Values]
    PROVE  Agrees([channel |-> Bounded("int64", 1, 4)], args, quality = "GOOD", FALSE,
                  Verdict(AnalogsensorChecks(1, args)))
<1> DEFINE i == args.channel
           specs == [channel |-> Bounded("int64", 1, 4)]
           code == Verdict(AnalogsensorChecks(1, args))
           p == quality = "GOOD"
           q == i.type = "int64"
           r == ~Outside(i, 1, 4)
<1>1. /\ AnalogsensorChecks(1, args) =
           <<Check(p, "FAILED_PRECONDITION"), Check(q, "INVALID_ARGUMENT"),
             Check(r, "OUT_OF_RANGE")>>
      /\ p \in BOOLEAN /\ q \in BOOLEAN /\ r \in BOOLEAN
  BY DEF AnalogsensorChecks, GetArg
<1>2. q => IsFinite(i)
  BY IntegerArg
<1>3. (SomeMalformed(specs, args) <=> ~q) /\ (SomeOutOfRange(specs, args) <=> q /\ ~r)
  <2>1. DOMAIN specs = {"channel"} /\ specs.channel = Bounded("int64", 1, 4)
    OBVIOUS
  <2> QED
    BY <1>2, <2>1, BoundedArg DEF SomeMalformed, SomeOutOfRange
<1> HIDE DEF specs, q, r
<1>4. code = IF ~p THEN "FAILED_PRECONDITION" ELSE IF ~q THEN "INVALID_ARGUMENT"
             ELSE IF ~r THEN "OUT_OF_RANGE" ELSE "OK"
  <2> HIDE DEF p
  <2> QED
    BY <1>1, Verdict3
<1> HIDE DEF code
<1> SUFFICES Agrees(specs, args, quality = "GOOD", FALSE, code)
  BY DEF specs, code
<1> QED
  BY <1>3, <1>4 DEF Agrees, Codes

\* chaos_control inject_device_unavailable and inject_device_unreachable: the
\* types are checked, then that the duration is positive.
LEMMA InjectTimed ==
    ASSUME NEW fn \in {1, 6}, NEW args \in [{"device_id", "duration_ms"} -> Values]
    PROVE  Agrees([device_id |-> Plain("string"), duration_ms |-> Plain("int64")],
                  args, TRUE, TRUE, Verdict(ChaosChecks(fn, args)))
<1> DEFINE specs == [device_id |-> Plain("string"), duration_ms |-> Plain("int64")]
           code == Verdict(ChaosChecks(fn, args))
           p == args.device_id.type = "string"
           q == args.duration_ms.type = "int64"
           r == args.duration_ms.n > 0
<1>1. /\ ChaosChecks(fn, args) = <<Check(p, "INVALID_ARGUMENT"), Check(q, "INVALID_ARGUMENT"),
                                   Check(r, "INVALID_ARGUMENT")>>
      /\ p \in BOOLEAN /\ q \in BOOLEAN /\ r \in BOOLEAN
  BY DEF ChaosChecks, GetArg
<1>2. (SomeMalformed(specs, args) <=> ~p \/ ~q) /\ ~SomeOutOfRange(specs, args)
  <2>1. /\ DOMAIN specs = {"device_id", "duration_ms"}
        /\ specs.device_id = Plain("string") /\ specs.duration_ms = Plain("int64")
    OBVIOUS
  <2> QED
    BY <2>1, PlainArg DEF SomeMalformed, SomeOutOfRange
<1> HIDE DEF specs, p, q, r
<1>3. code = IF ~p \/ ~q \/ ~r THEN "INVALID_ARGUMENT" ELSE "OK"
  BY <1>1, Verdict3
<1> HIDE DEF code
<1> SUFFICES Agrees(specs, args, TRUE, TRUE, code)
  BY DEF specs, code
<1> QED
  BY <1>2, <1>3 DEF Agrees, Codes

\* chaos_control inject_signal_fault: the types, then the duration.
LEMMA InjectSignalFault ==
    ASSUME NEW args \in [{"device_id", "signal_id", "duration_ms"} -> Values]
    PROVE  Agrees([device_id |-> Plain("string"), signal_id |-> Plain("string"),
                   duration_ms |-> Plain("int64")],
                  args, TRUE, TRUE, Verdict(ChaosChecks(2, args)))
<1> DEFINE specs == [device_id |-> Plain("string"), signal_id |-> Plain("string"),
                     duration_ms |-> Plain("int64")]
           code == Verdict(ChaosChecks(2, args))
           p == args.device_id.type = "string"
           q == args.signal_id.type = "string"
           r == args.duration_ms.type = "int64"
           s == args.duration_ms.n > 0
<1>1. /\ ChaosChecks(2, args) = <<Check(p, "INVALID_ARGUMENT"), Check(q, "INVALID_ARGUMENT"),
                                  Check(r, "INVALID_ARGUMENT"), Check(s, "INVALID_ARGUMENT")>>
      /\ p \in BOOLEAN /\ q \in BOOLEAN /\ r \in BOOLEAN /\ s \in BOOLEAN
  BY DEF ChaosChecks, GetArg
<1>2. (SomeMalformed(specs, args) <=> ~p \/ ~q \/ ~r) /\ ~SomeOutOfRange(specs, args)
  <2>1. /\ DOMAIN specs = {"device_id", "signal_id", "duration_ms"}
        /\ specs.device_id = Plain("string") /\ specs.signal_id = Plain("string")
        /\ specs.duration_ms = Plain("int64")
    OBVIOUS
  <2> QED
    BY <2>1, PlainArg DEF SomeMalformed, SomeOutOfRange
<1> HIDE DEF specs, p, q, r, s
<1>3. code = IF ~p \/ ~q \/ ~r \/ ~s THEN "INVALID_ARGUMENT" ELSE "OK"
  BY <1>1, Verdict4
<1> HIDE DEF code
<1> SUFFICES Agrees(specs, args, TRUE, TRUE, code)
  BY DEF specs, code
<1> QED
  BY <1>2, <1>3 DEF Agrees, Codes

\* chaos_control inject_call_latency: the types, then the latency.
LEMMA InjectCallLatency ==
    ASSUME NEW args \in [{"device_id", "latency_ms"} -> Values]
    PROVE  Agrees([device_id |-> Plain("string"), latency_ms |-> Plain("int64")],
                  args, TRUE, TRUE, Verdict(ChaosChecks(3, args)))
<1> DEFINE specs == [device_id |-> Plain("string"), latency_ms |-> Plain("int64")]
           code == Verdict(ChaosChecks(3, args))
           p == args.device_id.type = "string"
           q == args.latency_ms.type = "int64"
           r == args.latency_ms.n >= 0
<1>1. /\ ChaosChecks(3, args) = <<Check(p, "INVALID_ARGUMENT"), Check(q, "INVALID_ARGUMENT"),
                                  Check(r, "INVALID_ARGUMENT")>>
      /\ p \in BOOLEAN /\ q \in BOOLEAN /\ r \in BOOLEAN
  BY DEF ChaosChecks, GetArg
<1>2. (SomeMalformed(specs, args) <=> ~p \/ ~q) /\ ~SomeOutOfRange(specs, args)
  <2>1. /\ DOMAIN specs = {"device_id", "latency_ms"}
        /\ specs.device_id = Plain("string") /\ specs.latency_ms = Plain("int64")
    OBVIOUS
  <2> QED
    BY <2>1, PlainArg DEF SomeMalformed, SomeOutOfRange
<1> HIDE DEF specs, p, q, r
<1>3. code = IF ~p \/ ~q \/ ~r THEN "INVALID_ARGUMENT" ELSE "OK"
  BY <1>1, Verdict3
<1> HIDE DEF code
<1> SUFFICES Agrees(specs, args, TRUE, TRUE, code)
  BY DEF specs, code
<1> QED
  BY <1>2, <1>3 DEF Agrees, Codes

\* chaos_control inject_call_failure: the type of each argument before its value.
LEMMA InjectCallFailure ==
    ASSUME NEW args \in [{"device_id", "function_id", "failure_rate"} -> Values]
    PROVE  Agrees([device_id |-> Plain("string"), function_id |-> Plain("string"),
                   failure_rate |-> Plain("double")],
                  args, TRUE, TRUE, Verdict(ChaosChecks(4, args)))
<1> DEFINE specs == [device_id |-> Plain("string"), function_id |-> Plain("string"),
                     failure_rate |-> Plain("double")]
           code == Verdict(ChaosChecks(4, args))
           p == args.device_id.type = "string"
           q == args.function_id.type = "string"
           r == IsNumericFunctionId(args.function_id.text)
           s == args.function_id.text # "0"
           t == args.failure_rate.type = "double"
           u == ~Outside(args.failure_rate, 0, 100)
<1>1. /\ ChaosChecks(4, args) = <<Check(p, "INVALID_ARGUMENT"), Check(q, "INVALID_ARGUMENT"),
                                  Check(r, "INVALID_ARGUMENT"), Check(s, "INVALID_ARGUMENT"),
                                  Check(t, "INVALID_ARGUMENT"), Check(u, "INVALID_ARGUMENT")>>
      /\ p \in BOOLEAN /\ q \in BOOLEAN /\ r \in BOOLEAN
      /\ s \in BOOLEAN /\ t \in BOOLEAN /\ u \in BOOLEAN
  BY DEF ChaosChecks, GetArg, IsNumericFunctionId
<1>2. (SomeMalformed(specs, args) <=> ~p \/ ~q \/ ~t) /\ ~SomeOutOfRange(specs, args)
  <2>1. /\ DOMAIN specs = {"device_id", "function_id", "failure_rate"}
        /\ specs.device_id = Plain("string") /\ specs.function_id = Plain("string")
        /\ specs.failure_rate = Plain("double")
    OBVIOUS
  <2> QED
    BY <2>1, PlainArg DEF SomeMalformed, SomeOutOfRange
<1> HIDE DEF specs, p, q, r, s, t, u
<1>3. code = IF p /\ q /\ r /\ s /\ t /\ u THEN "OK" ELSE "INVALID_ARGUMENT"
  <2>1. /\ p \in BOOLEAN /\ q \in BOOLEAN /\ r \in BOOLEAN
        /\ s \in BOOLEAN /\ t \in BOOLEAN /\ u \in BOOLEAN
    BY <1>1
  <2>2. Verdict(<<Check(p, "INVALID_ARGUMENT"), Check(q, "INVALID_ARGUMENT"),
                  Check(r, "INVALID_ARGUMENT"), Check(s, "INVALID_ARGUMENT"),
                  Check(t, "INVALID_ARGUMENT"), Check(u, "INVALID_ARGUMENT")>>) =
          IF p /\ q /\ r /\ s /\ t /\ u THEN "OK" ELSE "INVALID_ARGUMENT"
    BY <2>1, Verdict6, SMTT(60)
  <2> QED
    BY <1>1, <2>2
<1> HIDE DEF code
<1> SUFFICES Agrees(specs, args, TRUE, TRUE, code)
  BY DEF specs, code
<1> QED
  BY <1>2, <1>3 DEF Agrees, Codes

\* chaos_control clear_faults: nothing to check.
LEMMA ClearFaults ==
    ASSUME NEW args
    PROVE  Agrees([arg \in {} |-> Plain("string")], args, TRUE, TRUE,
                  Verdict(ChaosChecks(5, args)))
<1>1. Verdict(ChaosChecks(5, args)) = "OK"
  BY NoFailure DEF ChaosChecks
<1> QED
  BY <1>1 DEF Agrees, Codes, SomeMalformed, SomeOutOfRange

\* A function that the device does not have: the last branch of every call_function.
LEMMA Undeclared == Verdict(NotFound) = "NOT_FOUND"
BY Verdict1 DEF NotFound

-----------------------------------------------------------------------------
(* Every function of every device type *)

\* What the declaration of a function leaves out, as the request meets it.
PreconditionOf(fn) ==
    /\ type = "tempctl" /\ fn = 3 => mode = "open"
    /\ type = "analogsensor" /\ fn = 1 => quality = "GOOD"
ValueRuleOf(fn) == type = "chaos_control" \/ (type = "tempctl" /\ fn = 1)

CallAgrees(fn, args) ==
    Agrees(Functions[fn], args, PreconditionOf(fn), ValueRuleOf(fn), Verdict(Checks(fn, args)))

\* The three functions of tempctl.
LEMMA TempctlAgrees ==
    ASSUME type = "tempctl", NEW fn \in DOMAIN Functions,
           NEW args \in [DOMAIN Functions[fn] -> Values]
    PROVE  CallAgrees(fn, args)
<1>1. /\ Functions = TempctlCapabilities.functions
      /\ Checks(fn, args) = TempctlChecks(fn, args)
  BY DEF Functions, Capabilities, Checks
<1>2. /\ DOMAIN Functions = 1 .. 3
      /\ Functions[1] = [mode |-> Plain("string")]
      /\ Functions[2] = [value |-> Bounded("double", -50, 400)]
      /\ Functions[3] = [relay_index |-> Bounded("int64", 1, 2), state |-> Plain("bool")]
  BY <1>1 DEF TempctlCapabilities
<1>3. CASE fn = 1
  <2>1. args \in [{"mode"} -> Values]
    BY <1>2, <1>3
  <2>2. PreconditionOf(fn) = TRUE /\ ValueRuleOf(fn) = TRUE
    BY <1>3 DEF PreconditionOf, ValueRuleOf
  <2>3. Agrees([mode |-> Plain("string")], args, TRUE, TRUE, Verdict(TempctlChecks(1, args)))
    BY <2>1, SetMode
  <2> QED
    BY <1>1, <1>2, <1>3, <2>2, <2>3 DEF CallAgrees
<1>4. CASE fn = 2
  <2>1. args \in [{"value"} -> Values]
    BY <1>2, <1>4
  <2>2. PreconditionOf(fn) = TRUE /\ ValueRuleOf(fn) = FALSE
    BY <1>4 DEF PreconditionOf, ValueRuleOf
  <2> QED
    BY <1>1, <1>2, <1>4, <2>1, <2>2, SetSetpoint DEF CallAgrees
<1>5. CASE fn = 3
  <2>1. args \in [{"relay_index", "state"} -> Values]
    BY <1>2, <1>5
  <2>2. PreconditionOf(fn) = (mode = "open")
    BY <1>5 DEF PreconditionOf
  <2>3. ValueRuleOf(fn) = FALSE
    BY <1>5 DEF ValueRuleOf
  <2> QED
    BY <1>1, <1>2, <1>5, <2>1, <2>2, <2>3, SetRelay DEF CallAgrees
<1> QED
  BY <1>2, <1>3, <1>4, <1>5

\* The one function of motorctl.
LEMMA MotorctlAgrees ==
    ASSUME type = "motorctl", NEW fn \in DOMAIN Functions,
           NEW args \in [DOMAIN Functions[fn] -> Values]
    PROVE  CallAgrees(fn, args)
<1>1. /\ Functions = MotorctlCapabilities.functions
      /\ Checks(fn, args) = MotorctlChecks(fn, args)
  BY DEF Functions, Capabilities, Checks
<1>2. /\ fn = 1
      /\ Functions[fn] = [motor_index |-> Bounded("int64", 1, 2),
                          duty |-> Bounded("double", 0, 100)]
  BY <1>1 DEF MotorctlCapabilities
<1>3. args \in [{"motor_index", "duty"} -> Values]
  BY <1>2
<1>4. PreconditionOf(fn) = TRUE /\ ValueRuleOf(fn) = FALSE
  BY DEF PreconditionOf, ValueRuleOf
<1> QED
  BY <1>1, <1>2, <1>3, <1>4, SetDuty DEF CallAgrees

\* The four channels of relayio.
LEMMA RelayioAgrees ==
    ASSUME type = "relayio", NEW fn \in DOMAIN Functions,
           NEW args \in [DOMAIN Functions[fn] -> Values]
    PROVE  CallAgrees(fn, args)
<1>1. /\ Functions = RelayioCapabilities.functions
      /\ Checks(fn, args) = RelayioChecks(fn, args)
  BY DEF Functions, Capabilities, Checks
<1>2. fn \in 1 .. 4 /\ Functions[fn] = [enabled |-> Plain("bool")]
  BY <1>1 DEF RelayioCapabilities
<1>3. args \in [{"enabled"} -> Values]
  BY <1>2
<1>4. Checks(fn, args) = <<GetArg(args.enabled, "bool")>>
  BY <1>1, <1>2 DEF RelayioChecks
<1>5. PreconditionOf(fn) = TRUE /\ ValueRuleOf(fn) = FALSE
  BY DEF PreconditionOf, ValueRuleOf
<1> QED
  BY <1>2, <1>3, <1>4, <1>5, Switch DEF CallAgrees

\* The two functions of analogsensor.
LEMMA AnalogsensorAgrees ==
    ASSUME type = "analogsensor", NEW fn \in DOMAIN Functions,
           NEW args \in [DOMAIN Functions[fn] -> Values]
    PROVE  CallAgrees(fn, args)
<1>1. /\ Functions = AnalogsensorCapabilities.functions
      /\ Checks(fn, args) = AnalogsensorChecks(fn, args)
  BY DEF Functions, Capabilities, Checks
<1>2. /\ DOMAIN Functions = 1 .. 2
      /\ Functions[1] = [channel |-> Bounded("int64", 1, 4)]
      /\ Functions[2] = [enabled |-> Plain("bool")]
  BY <1>1 DEF AnalogsensorCapabilities
<1>3. CASE fn = 1
  <2>1. args \in [{"channel"} -> Values]
    BY <1>2, <1>3
  <2>2. PreconditionOf(fn) = (quality = "GOOD") /\ ValueRuleOf(fn) = FALSE
    BY <1>3 DEF PreconditionOf, ValueRuleOf
  <2> QED
    BY <1>1, <1>2, <1>3, <2>1, <2>2, CalibrateChannel DEF CallAgrees
<1>4. CASE fn = 2
  <2>1. args \in [{"enabled"} -> Values]
    BY <1>2, <1>4
  <2>2. Checks(fn, args) = <<GetArg(args.enabled, "bool")>>
    BY <1>1, <1>4 DEF AnalogsensorChecks
  <2>3. PreconditionOf(fn) = TRUE /\ ValueRuleOf(fn) = FALSE
    BY <1>4 DEF PreconditionOf, ValueRuleOf
  <2> QED
    BY <1>2, <1>4, <2>1, <2>2, <2>3, Switch DEF CallAgrees
<1> QED
  BY <1>2, <1>3, <1>4

\* The six functions of chaos_control.
LEMMA ChaosAgrees ==
    ASSUME type = "chaos_control", NEW fn \in DOMAIN Functions,
           NEW args \in [DOMAIN Functions[fn] -> Values]
    PROVE  CallAgrees(fn, args)
<1>1. /\ Functions = ChaosCapabilities.functions
      /\ Checks(fn, args) = ChaosChecks(fn, args)
  BY DEF Functions, Capabilities, Checks
<1>2. /\ DOMAIN Functions = 1 .. 6
      /\ Functions[1] = [device_id |-> Plain("string"), duration_ms |-> Plain("int64")]
      /\ Functions[2] = [device_id |-> Plain("string"), signal_id |-> Plain("string"),
                         duration_ms |-> Plain("int64")]
      /\ Functions[3] = [device_id |-> Plain("string"), latency_ms |-> Plain("int64")]
      /\ Functions[4] = [device_id |-> Plain("string"), function_id |-> Plain("string"),
                         failure_rate |-> Plain("double")]
      /\ Functions[5] = [arg \in {} |-> Plain("string")]
      /\ Functions[6] = [device_id |-> Plain("string"), duration_ms |-> Plain("int64")]
  BY <1>1 DEF ChaosCapabilities
<1>3. PreconditionOf(fn) = TRUE /\ ValueRuleOf(fn) = TRUE
  BY DEF PreconditionOf, ValueRuleOf
<1>4. CASE fn \in {1, 6}
  <2>1. args \in [{"device_id", "duration_ms"} -> Values]
    BY <1>2, <1>4
  <2> QED
    BY <1>1, <1>2, <1>3, <1>4, <2>1, InjectTimed DEF CallAgrees
<1>5. CASE fn = 2
  <2>1. args \in [{"device_id", "signal_id", "duration_ms"} -> Values]
    BY <1>2, <1>5
  <2> QED
    BY <1>1, <1>2, <1>3, <1>5, <2>1, InjectSignalFault DEF CallAgrees
<1>6. CASE fn = 3
  <2>1. args \in [{"device_id", "latency_ms"} -> Values]
    BY <1>2, <1>6
  <2> QED
    BY <1>1, <1>2, <1>3, <1>6, <2>1, InjectCallLatency DEF CallAgrees
<1>7. CASE fn = 4
  <2>1. args \in [{"device_id", "function_id", "failure_rate"} -> Values]
    BY <1>2, <1>7
  <2> QED
    BY <1>1, <1>2, <1>3, <1>7, <2>1, InjectCallFailure DEF CallAgrees
<1>8. CASE fn = 5
  BY <1>1, <1>2, <1>3, <1>8, ClearFaults DEF CallAgrees
<1> QED
  BY <1>2, <1>4, <1>5, <1>6, <1>7, <1>8

\* Any other function id is answered NOT_FOUND.
LEMMA UndeclaredAgrees ==
    ASSUME type \in DeviceTypes, NEW fn \in {0, Len(Functions) + 1}, NEW args
    PROVE  fn \notin DOMAIN Functions /\ Verdict(Checks(fn, args)) = "NOT_FOUND"
<1>1. CASE type = "tempctl"
  <2>1. Functions = TempctlCapabilities.functions /\ Checks(fn, args) = TempctlChecks(fn, args)
    BY <1>1 DEF Functions, Capabilities, Checks
  <2>2. DOMAIN Functions = 1 .. 3 /\ Len(Functions) = 3
    BY <2>1 DEF TempctlCapabilities
  <2>3. fn \in {0, 4}
    BY <2>2
  <2> QED
    BY <2>1, <2>2, <2>3, Undeclared DEF TempctlChecks
<1>2. CASE type = "motorctl"
  <2>1. Functions = MotorctlCapabilities.functions /\ Checks(fn, args) = MotorctlChecks(fn, args)
    BY <1>2 DEF Functions, Capabilities, Checks
  <2>2. DOMAIN Functions = 1 .. 1 /\ Len(Functions) = 1
    BY <2>1 DEF MotorctlCapabilities
  <2>3. fn \in {0, 2}
    BY <2>2
  <2> QED
    BY <2>1, <2>2, <2>3, Undeclared DEF MotorctlChecks
<1>3. CASE type = "relayio"
  <2>1. Functions = RelayioCapabilities.functions /\ Checks(fn, args) = RelayioChecks(fn, args)
    BY <1>3 DEF Functions, Capabilities, Checks
  <2>2. DOMAIN Functions = 1 .. 4 /\ Len(Functions) = 4
    BY <2>1 DEF RelayioCapabilities
  <2>3. fn \in {0, 5}
    BY <2>2
  <2> QED
    BY <2>1, <2>2, <2>3, Undeclared DEF RelayioChecks
<1>4. CASE type = "analogsensor"
  <2>1. /\ Functions = AnalogsensorCapabilities.functions
        /\ Checks(fn, args) = AnalogsensorChecks(fn, args)
    BY <1>4 DEF Functions, Capabilities, Checks
  <2>2. DOMAIN Functions = 1 .. 2 /\ Len(Functions) = 2
    BY <2>1 DEF AnalogsensorCapabilities
  <2>3. fn \in {0, 3}
    BY <2>2
  <2> QED
    BY <2>1, <2>2, <2>3, Undeclared DEF AnalogsensorChecks
<1>5. CASE type = "chaos_control"
  <2>1. Functions = ChaosCapabilities.functions /\ Checks(fn, args) = ChaosChecks(fn, args)
    BY <1>5 DEF Functions, Capabilities, Checks
  <2>2. DOMAIN Functions = 1 .. 6 /\ Len(Functions) = 6
    BY <2>1 DEF ChaosCapabilities
  <2>3. fn \in {0, 7}
    BY <2>2
  <2> QED
    BY <2>1, <2>2, <2>3, Undeclared DEF ChaosChecks
<1> QED
  BY <1>1, <1>2, <1>3, <1>4, <1>5, DeviceTypesAssumption

-----------------------------------------------------------------------------
(* The steps *)

\* Every declared function of every device type.
LEMMA DeclaredFunction ==
    ASSUME type \in DeviceTypes, NEW fn \in DOMAIN Functions,
           NEW args \in [DOMAIN Functions[fn] -> Values]
    PROVE  CallAgrees(fn, args)
BY TempctlAgrees, MotorctlAgrees, RelayioAgrees, AnalogsensorAgrees, ChaosAgrees,
   DeviceTypesAssumption

\* Whatever a call does to the device leaves it in one of its states.
LEMMA CallKeepsDevice ==
    ASSUME TypeOK, NEW fn, NEW args, CallFunction(fn, args),
           \/ fn \in DOMAIN Functions /\ args \in [DOMAIN Functions[fn] -> Values]
           \/ fn \in {0, Len(Functions) + 1}
    PROVE  /\ type' = type /\ type \in DeviceTypes
           /\ mode' \in {"open", "closed"}
           /\ noise_enabled' \in BOOLEAN /\ quality' \in {"GOOD", "NOISY", "FAULT"}
<1>1. type' = type /\ type \in DeviceTypes
  BY DEF CallFunction, TypeOK
<1>2. mode' \in {"open", "closed"}
  <2>1. CASE type = "tempctl" /\ fn = 1 /\ Verdict(Checks(fn, args)) = "OK"
    <3>1. /\ Functions = TempctlCapabilities.functions
          /\ Checks(fn, args) = TempctlChecks(fn, args)
      BY <2>1 DEF Functions, Capabilities, Checks
    <3>2. fn \in DOMAIN Functions /\ args \in [DOMAIN Functions[fn] -> Values]
      BY <1>1, <2>1, UndeclaredAgrees
    <3>3. args \in [{"mode"} -> Values]
      BY <2>1, <3>1, <3>2 DEF TempctlCapabilities
    <3>4. args.mode.text \in {"open", "closed"}
      BY <2>1, <3>1, <3>3, SetMode
    <3> QED
      BY <2>1, <3>4 DEF CallFunction, NewMode
  <2>2. CASE ~(type = "tempctl" /\ fn = 1 /\ Verdict(Checks(fn, args)) = "OK")
    <3>1. mode' = mode
      BY <2>2 DEF CallFunction, NewMode
    <3> QED
      BY <3>1 DEF TypeOK
  <2> QED
    BY <2>1, <2>2
<1>3. noise_enabled' = (args.enabled.n = 1) \/ noise_enabled' = noise_enabled
  BY DEF CallFunction
<1>4. noise_enabled' \in BOOLEAN
  BY <1>3, Zenon DEF TypeOK
<1>5. quality' = "GOOD" \/ quality' = quality
  BY DEF CallFunction
<1>6. quality' \in {"GOOD", "NOISY", "FAULT"}
  BY <1>5 DEF TypeOK
<1> QED
  BY <1>1, <1>2, <1>4, <1>6

\* The answer to a call of a declared function satisfies both properties.
LEMMA DeclaredCall ==
    ASSUME TypeOK, NEW fn \in DOMAIN Functions,
           NEW args \in [DOMAIN Functions[fn] -> Values], CallFunction(fn, args)
    PROVE  IInv'
<1> DEFINE code == Verdict(Checks(fn, args))
<1>1. /\ type' = type /\ type \in DeviceTypes
      /\ mode' \in {"open", "closed"}
      /\ noise_enabled' \in BOOLEAN /\ quality' \in {"GOOD", "NOISY", "FAULT"}
  BY CallKeepsDevice
<1>2. Agrees(Functions[fn], args, PreconditionOf(fn), ValueRuleOf(fn), code)
  BY <1>1, DeclaredFunction DEF CallAgrees
<1>3. /\ request'.kind = "call" /\ request'.fn = fn /\ request'.args = args
      /\ request'.mode = mode /\ request'.quality = quality
      /\ answer'.kind = "call" /\ answer'.code = code
  BY DEF CallFunction
<1>4. Functions' = Functions
  BY <1>1 DEF Functions
<1>5. /\ IsDeclared' /\ Specs' = Functions[fn]
      /\ PreconditionHolds' <=> PreconditionOf(fn)
      /\ HasValueRule' <=> ValueRuleOf(fn)
  BY <1>1, <1>3, <1>4
  DEF IsDeclared, Specs, PreconditionHolds, PreconditionOf, HasValueRule, ValueRuleOf
<1>6. /\ SomeArg(Malformed)' <=> SomeMalformed(Functions[fn], args)
      /\ SomeArg(OutOfRange)' <=> SomeOutOfRange(Functions[fn], args)
  BY <1>3, <1>5 DEF SomeArg, SomeMalformed, SomeOutOfRange
<1> HIDE DEF code
<1>7. TypeOK'
  BY <1>1, <1>2, <1>3 DEF TypeOK, Agrees
<1>8. CallsMatchDeclaration'
  BY <1>2, <1>3, <1>5, <1>6 DEF CallsMatchDeclaration, Agrees
<1>9. ReadsMatchDeclaration'
  BY <1>3 DEF ReadsMatchDeclaration
<1>10. RefusalNamesTheDefect'
  BY <1>2, <1>3, <1>5, <1>6 DEF RefusalNamesTheDefect, Agrees
<1> QED
  BY <1>7, <1>8, <1>9, <1>10 DEF IInv, DeclaredIsEnforced

\* And so does the refusal of any other.
LEMMA UndeclaredCall ==
    ASSUME TypeOK, NEW fn \in {0, Len(Functions) + 1}, CallFunction(fn, << >>)
    PROVE  IInv'
<1>1. /\ type' = type /\ type \in DeviceTypes
      /\ mode' \in {"open", "closed"}
      /\ noise_enabled' \in BOOLEAN /\ quality' \in {"GOOD", "NOISY", "FAULT"}
  BY CallKeepsDevice
<1>2. /\ request'.kind = "call" /\ request'.fn = fn
      /\ answer'.kind = "call" /\ answer'.code = "NOT_FOUND"
  BY <1>1, UndeclaredAgrees DEF CallFunction
<1>3. Functions' = Functions
  BY <1>1 DEF Functions
<1>4. ~IsDeclared'
  BY <1>1, <1>2, <1>3, UndeclaredAgrees DEF IsDeclared
<1>5. TypeOK'
  BY <1>1, <1>2 DEF TypeOK, Codes
<1>6. CallsMatchDeclaration'
  BY <1>2, <1>4 DEF CallsMatchDeclaration
<1>7. ReadsMatchDeclaration'
  BY <1>2 DEF ReadsMatchDeclaration
<1>8. RefusalNamesTheDefect'
  BY <1>2, <1>4 DEF RefusalNamesTheDefect
<1> QED
  BY <1>5, <1>6, <1>7, <1>8 DEF IInv, DeclaredIsEnforced

\* The signals a device knows are those it declares, with their types, and
\* the defaults are some of them.
LEMMA SignalsDeclared ==
    ASSUME type \in DeviceTypes
    PROVE  /\ KnownSignals[type] = Declared
           /\ DefaultSignals[type] \subseteq DOMAIN Declared
           /\ DOMAIN Declared # {} => DefaultSignals[type] # {}
<1>1. CASE type = "tempctl"
  BY <1>1 DEF KnownSignals, DefaultSignals, Declared, Capabilities, TempctlSignals,
     TempctlCapabilities
<1>2. CASE type = "motorctl"
  BY <1>2 DEF KnownSignals, DefaultSignals, Declared, Capabilities, MotorctlSignals,
     MotorctlCapabilities
<1>3. CASE type = "relayio"
  BY <1>3 DEF KnownSignals, DefaultSignals, Declared, Capabilities, RelayioSignals,
     RelayioCapabilities
<1>4. CASE type = "analogsensor"
  BY <1>4 DEF KnownSignals, DefaultSignals, Declared, Capabilities, AnalogsensorSignals,
     AnalogsensorCapabilities
<1>5. CASE type = "chaos_control"
  BY <1>5 DEF KnownSignals, DefaultSignals, Declared, Capabilities, ChaosCapabilities
<1> QED
  BY <1>1, <1>2, <1>3, <1>4, <1>5, DeviceTypesAssumption

\* The answer to a read satisfies the properties.
LEMMA ReadStep ==
    ASSUME TypeOK, NEW ids, ReadSignals(ids)
    PROVE  IInv'
<1> DEFINE known == KnownSignals[type]
           asked == IF ids = {} THEN DefaultSignals[type] ELSE ids
<1>1. type' = type /\ type \in DeviceTypes /\ UNCHANGED <<mode, noise_enabled, quality>>
  BY DEF ReadSignals, TypeOK
<1>2. /\ request'.kind = "read" /\ request'.ids = ids
      /\ answer'.kind = "read"
      /\ answer'.values = [id \in asked \cap DOMAIN known |-> known[id]]
  BY DEF ReadSignals
<1>3. Declared' = Declared /\ known = Declared
  BY <1>1, SignalsDeclared DEF Declared
<1>4. TypeOK'
  BY <1>1, <1>2 DEF TypeOK
<1>5. CallsMatchDeclaration' /\ RefusalNamesTheDefect'
  BY <1>2 DEF CallsMatchDeclaration, RefusalNamesTheDefect
<1>6. ReadsMatchDeclaration'
  <2>1. /\ DefaultSignals[type] \subseteq DOMAIN Declared
        /\ DOMAIN Declared # {} => DefaultSignals[type] # {}
    BY <1>1, SignalsDeclared
  <2>2. /\ DOMAIN answer'.values = asked \cap DOMAIN Declared
        /\ \A id \in DOMAIN answer'.values : answer'.values[id] = Declared[id]
    BY <1>2, <1>3
  <2> QED
    BY <1>2, <1>3, <2>1, <2>2 DEF ReadsMatchDeclaration
<1> QED
  BY <1>4, <1>5, <1>6 DEF IInv, DeclaredIsEnforced

\* Nothing else touches the recorded request and answer but to forget them.
LEMMA OtherSteps ==
    ASSUME IInv, Done \/ Degrade \/ UNCHANGED vars
    PROVE  IInv'
<1>1. CASE Done
  <2>1. answer'.kind = "none" /\ request'.kind = "none"
    BY <1>1 DEF Done, None
  <2>2. TypeOK'
    BY <1>1, <2>1 DEF IInv, DeclaredIsEnforced, TypeOK, Done
  <2> QED
    BY <2>1, <2>2 DEF IInv, DeclaredIsEnforced, CallsMatchDeclaration, ReadsMatchDeclaration,
       RefusalNamesTheDefect
<1>2. CASE Degrade \/ UNCHANGED vars
  <2>1. /\ type' = type /\ request' = request /\ answer' = answer
        /\ mode' = mode /\ noise_enabled' = noise_enabled
        /\ quality' = quality \/ quality' \in {"NOISY", "FAULT"}
    BY <1>2 DEF Degrade, vars
  <2>2. TypeOK'
    BY <2>1 DEF IInv, DeclaredIsEnforced, TypeOK
  <2>3. /\ Functions' = Functions /\ Declared' = Declared
        /\ IsDeclared' <=> IsDeclared
        /\ PreconditionHolds' <=> PreconditionHolds
        /\ HasValueRule' <=> HasValueRule
    BY <2>1 DEF Functions, Declared, IsDeclared, PreconditionHolds, HasValueRule
  <2>4. /\ SomeArg(Malformed)' <=> SomeArg(Malformed)
        /\ SomeArg(OutOfRange)' <=> SomeArg(OutOfRange)
    BY <2>1, <2>3 DEF SomeArg, Specs
  <2> QED
    BY <2>1, <2>2, <2>3, <2>4 DEF IInv, DeclaredIsEnforced, CallsMatchDeclaration,
       ReadsMatchDeclaration, RefusalNamesTheDefect
<1> QED
  BY <1>1, <1>2

-----------------------------------------------------------------------------
\* In any sequence of requests to a device of any type, the answer to the last
\* one is what the declarations say, and a refusal has the code of a defect
\* that the request has.
THEOREM Invariance == Spec => []IInv
<1>1. Init => IInv
  <2> SUFFICES ASSUME Init PROVE IInv
    OBVIOUS
  <2>1. request.kind = "none" /\ answer.kind = "none"
    BY DEF Init, None
  <2>2. TypeOK
    BY <2>1 DEF Init, TypeOK
  <2> QED
    BY <2>1, <2>2 DEF IInv, DeclaredIsEnforced, CallsMatchDeclaration, ReadsMatchDeclaration,
       RefusalNamesTheDefect
<1>2. IInv /\ [Next]_vars => IInv'
  <2> SUFFICES ASSUME IInv, [Next]_vars PROVE IInv'
    OBVIOUS
  <2>1. TypeOK
    BY DEF IInv, DeclaredIsEnforced
  <2>2. CASE Call
    BY <2>1, <2>2, DeclaredCall, UndeclaredCall DEF Call
  <2>3. CASE Read
    BY <2>1, <2>3, ReadStep DEF Read
  <2>4. CASE Done \/ Degrade \/ UNCHANGED vars
    BY <2>4, OtherSteps
  <2> QED
    BY <2>2, <2>3, <2>4 DEF Next
<1> QED
  BY <1>1, <1>2, PTL DEF Spec

\* get_capabilities, call_function and read_signals of all five device types
\* agree, whatever integers, doubles and strings arrive.
THEOREM DeclarationsEnforced == Spec => []DeclaredIsEnforced
<1>1. IInv => DeclaredIsEnforced
  BY DEF IInv
<1> QED
  BY <1>1, Invariance, PTL

\* The status code of a refused call_function names a defect of the call.
THEOREM RefusalsNameDefect == Spec => []RefusalNamesTheDefect
<1>1. IInv => RefusalNamesTheDefect
  BY DEF IInv
<1> QED
  BY <1>1, Invariance, PTL
=============================================================================
