---------------------------- MODULE FaultContract ----------------------------
(***************************************************************************)
(* What the timed faults promise their users (README.md, "Fault injection": *)
(* "Faults with a duration_ms clear themselves when it expires"), with no   *)
(* trace of how the store keeps them: a fault is there from its injection   *)
(* until its deadline, leaves at the very tick of the deadline, and asking   *)
(* about a fault changes nothing.  Deadlines are mathematical integers.     *)
(***************************************************************************)
EXTENDS Integers

CONSTANTS Devices, Signals, Durations, TicksPerMs, MaxNow, NoFault

VARIABLES
    now,
    unavailable,  \* device -> deadline of its unavailability, or NoFault
    unreachable,  \* device -> deadline of its unreachability, or NoFault
    faulted,      \* device -> set of [signal_id, expires_at] in force
    answer        \* the last question and the answer it got

vars == <<now, unavailable, unreachable, faulted, answer>>

Deadline(duration_ms) == now + duration_ms * TicksPerMs

Init ==
    /\ now = 0
    /\ unavailable = [d \in Devices |-> NoFault]
    /\ unreachable = [d \in Devices |-> NoFault]
    /\ faulted = [d \in Devices |-> {}]
    /\ answer = [query |-> "none"]

MakeUnavailable(d, duration_ms) ==
    /\ unavailable' = [unavailable EXCEPT ![d] = Deadline(duration_ms)]
    /\ UNCHANGED <<now, unreachable, faulted, answer>>

MakeUnreachable(d, duration_ms) ==
    /\ unreachable' = [unreachable EXCEPT ![d] = Deadline(duration_ms)]
    /\ UNCHANGED <<now, unavailable, faulted, answer>>

FaultSignal(d, s, duration_ms) ==
    /\ faulted' = [faulted EXCEPT
           ![d] = @ \cup {[signal_id |-> s, expires_at |-> Deadline(duration_ms)]}]
    /\ UNCHANGED <<now, unavailable, unreachable, answer>>

AskUnavailable(d) ==
    /\ answer' = [query |-> "unavailable", device |-> d,
                  result |-> unavailable[d] # NoFault]
    /\ UNCHANGED <<now, unavailable, unreachable, faulted>>

AskUnreachable(d) ==
    /\ answer' = [query |-> "unreachable", device |-> d,
                  result |-> unreachable[d] # NoFault]
    /\ UNCHANGED <<now, unavailable, unreachable, faulted>>

AskSignal(d, s) ==
    /\ answer' = [query |-> "signal", device |-> d, signal |-> s,
                  result |-> \E f \in faulted[d] : f.signal_id = s]
    /\ UNCHANGED <<now, unavailable, unreachable, faulted>>

Clear ==
    /\ unavailable' = [d \in Devices |-> NoFault]
    /\ unreachable' = [d \in Devices |-> NoFault]
    /\ faulted' = [d \in Devices |-> {}]
    /\ UNCHANGED <<now, answer>>

\* Time passes, and the faults whose deadline has come are gone.
Pass ==
    /\ now < MaxNow
    /\ now' = now + 1
    /\ unavailable' = [d \in Devices |->
           IF unavailable[d] # NoFault /\ now' < unavailable[d]
           THEN unavailable[d] ELSE NoFault]
    /\ unreachable' = [d \in Devices |->
           IF unreachable[d] # NoFault /\ now' < unreachable[d]
           THEN unreachable[d] ELSE NoFault]
    /\ faulted' = [d \in Devices |-> {f \in faulted[d] : now' < f.expires_at}]
    /\ UNCHANGED answer

Next ==
    \/ \E d \in Devices, duration_ms \in Durations :
          \/ MakeUnavailable(d, duration_ms)
          \/ MakeUnreachable(d, duration_ms)
          \/ \E s \in Signals : FaultSignal(d, s, duration_ms)
    \/ \E d \in Devices :
          \/ AskUnavailable(d)
          \/ AskUnreachable(d)
          \/ \E s \in Signals : AskSignal(d, s)
    \/ Clear
    \/ Pass

Spec == Init /\ [][Next]_vars
=============================================================================
