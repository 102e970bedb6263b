------------------------ MODULE SignalRegistryProofs ------------------------
(***************************************************************************)
(* The locks and the values of the signal registry, for any number of         *)
(* devices of either kind, any choice of driven paths and any number of        *)
(* changes.                                                                  *)
(***************************************************************************)
EXTENDS SignalRegistry, TLAPS

\* Where a thread owns the registry mutex, and where it may be once it is inside
\* a device's read_signals.
InRegistry == {"driven_test", "read_look"}
InsideRead == {"driven_lock", "driven_test", "read_lock", "read_look", "finish"}

\* A thread owns the registry mutex exactly in the registry's two critical
\* sections, and a state mutex only inside read_signals.
OwnsWhatItUses(t) ==
    /\ registry_mutex_ = t <=> pc[t] \in InRegistry
    /\ \A d \in Devices : g_state_mutex[d] = t => inDevice[t]

\* What the labels say about the path: from inside read_signals the registry is
\* asked only for a driven path, so it never comes back to the device; a
\* collection goes on only for an undriven one; only the ticker publishes.
PathFits(t) ==
    /\ inDevice[t] => pc[t] \in InsideRead
    /\ inDevice[t] /\ pc[t] \in {"read_lock", "read_look"} => Driven(t)
    /\ pc[t] # "idle" /\ job[t].kind = "read" => inDevice[t] \/ pc[t] = "state_lock"
    /\ /\ pc[t] # "idle" /\ job[t].kind = "collect"
       /\ inDevice[t] \/ pc[t] \in {"read_lock", "read_look", "state_lock"}
       => ~Driven(t)
    /\ pc[t] = "write_lock" =>
          t = "ticker" /\ Driven(t) /\ Published(Path(t)) < MaxChanges

\* Neither the published value nor the device's own falls behind what it was
\* when the thread began.
FloorHolds(t) == pc[t] # "idle" =>
    /\ floor[t].cache # None =>
          signal_cache_[Path(t)] # None /\ signal_cache_[Path(t)] >= floor[t].cache
    /\ value[Path(t)] >= floor[t].own
    /\ inDevice[t] => own[t] >= floor[t].own

\* The two results that the properties speak of, for either thread.
ReadResult(t) == pc[t] = "finish" /\ job[t].kind = "read" =>
    IF floor[t].cache # None
    THEN result[t].from = "cache" /\ result[t].v >= floor[t].cache
    ELSE /\ result[t].from # "nothing"
         /\ result[t].from = "device" => result[t].v >= floor[t].own

CollectResult(t) == pc[t] = "finish" /\ job[t].kind = "collect" =>
    /\ result[t].from # "cache"
    /\ result[t].from = "device" => result[t].v >= floor[t].own

ThreadInv(t) ==
    /\ OwnsWhatItUses(t)
    /\ PathFits(t)
    /\ FloorHolds(t)
    /\ ReadResult(t)
    /\ CollectResult(t)

\* Only driven paths are ever published.
CacheDriven == \A p \in Paths : signal_cache_[p] # None => p \in physics_driven_signals_

\* The inductive invariant.
IInv == TypeOK /\ CacheDriven /\ \A t \in Threads : ThreadInv(t)

-----------------------------------------------------------------------------

\* What a step must leave alone for the other thread to be undisturbed: its own
\* variables and locks.  Values may grow under it.
Undisturbed(u) ==
    /\ pc'[u] = pc[u] /\ job'[u] = job[u] /\ inDevice'[u] = inDevice[u]
    /\ own'[u] = own[u] /\ result'[u] = result[u] /\ floor'[u] = floor[u]
    /\ registry_mutex_' = u <=> registry_mutex_ = u
    /\ \A d \in Devices : g_state_mutex'[d] = u => g_state_mutex[d] = u
    /\ physics_driven_signals_' = physics_driven_signals_
    /\ \A p \in Paths : value'[p] >= value[p]
    /\ \A p \in Paths : signal_cache_[p] # None =>
          signal_cache_'[p] # None /\ signal_cache_'[p] >= signal_cache_[p]
    /\ u = "ticker" => signal_cache_' = signal_cache_

\* A step of one thread keeps what holds of the other.
LEMMA OtherThread ==
    ASSUME TypeOK, TypeOK', NEW u \in Threads, ThreadInv(u), Undisturbed(u)
    PROVE  ThreadInv(u)'
<1> USE DEF ThreadInv, Undisturbed
<1>1. OwnsWhatItUses(u)'
  BY DEF OwnsWhatItUses
<1>2. PathFits(u)'
  BY DEF PathFits, Driven, Path, Published
<1>3. FloorHolds(u)'
  <2> SUFFICES ASSUME pc[u] # "idle"
               PROVE  /\ floor[u].cache # None =>
                            /\ signal_cache_'[Path(u)] # None
                            /\ signal_cache_'[Path(u)] >= floor[u].cache
                      /\ value'[Path(u)] >= floor[u].own
                      /\ inDevice[u] => own[u] >= floor[u].own
    BY DEF FloorHolds, Path
  <2>1. Path(u) \in Paths
    BY DEF TypeOK, Path, Jobs
  <2>2. /\ value[Path(u)] \in Int /\ value'[Path(u)] \in Int /\ floor[u].own \in Int
        /\ value[Path(u)] >= floor[u].own
        /\ inDevice[u] => own[u] >= floor[u].own
    BY <2>1 DEF TypeOK, Floors, FloorHolds
  <2>3. ASSUME floor[u].cache # None
        PROVE  /\ signal_cache_'[Path(u)] # None
               /\ signal_cache_'[Path(u)] >= floor[u].cache
    <3>1. /\ floor[u].cache \in Int
          /\ signal_cache_[Path(u)] # None /\ signal_cache_[Path(u)] >= floor[u].cache
      BY <2>3 DEF TypeOK, Floors, FloorHolds
    <3>2. signal_cache_[Path(u)] \in Int /\ signal_cache_'[Path(u)] \in Int \cup {None}
      BY <2>1, <3>1 DEF TypeOK
    <3> QED
      BY <2>1, <3>1, <3>2
  <2> QED
    BY <2>1, <2>2, <2>3
<1>4. ReadResult(u)' /\ CollectResult(u)'
  BY DEF ReadResult, CollectResult
<1> QED
  BY <1>1, <1>2, <1>3, <1>4
-----------------------------------------------------------------------------
(* One lemma for each kind of step *)

\* The thread variables of a thread that returns are well typed.
LEMMA ReturnType ==
    ASSUME TypeOK, NEW t \in Threads, Return(t)
    PROVE  /\ pc' \in [Threads -> Labels] /\ pc'[t] = "idle"
           /\ job' \in [Threads -> Jobs \cup {NoJob}]
           /\ \A u \in Threads : pc'[u] # "idle" => job'[u] \in Jobs
           /\ inDevice' \in [Threads -> BOOLEAN] /\ ~inDevice'[t]
           /\ own' \in [Threads -> 0 .. MaxChanges]
           /\ result' \in [Threads -> Results]
           /\ floor' \in [Threads -> Floors]
<1>1. 0 \in 0 .. MaxChanges
  BY MaxChangesAssumption
<1>2. Nothing \in Results /\ NoFloor \in Floors /\ "idle" \in Labels
  BY <1>1 DEF Nothing, Results, NoFloor, Floors, Labels
<1>3. /\ pc' = [pc EXCEPT ![t] = "idle"] /\ job' = [job EXCEPT ![t] = NoJob]
      /\ inDevice' = [inDevice EXCEPT ![t] = FALSE] /\ own' = [own EXCEPT ![t] = 0]
      /\ result' = [result EXCEPT ![t] = Nothing] /\ floor' = [floor EXCEPT ![t] = NoFloor]
  BY DEF Return, Goto
<1>4. inDevice' \in [Threads -> BOOLEAN] /\ ~inDevice'[t]
  BY <1>3 DEF TypeOK
<1> HIDE DEF Nothing, NoFloor, NoJob
<1> QED
  BY <1>1, <1>2, <1>3, <1>4 DEF TypeOK

\* Nothing is asked of an idle thread but that it holds no lock.
LEMMA IdleThread ==
    ASSUME NEW t \in Threads, pc'[t] = "idle", ~inDevice'[t], registry_mutex_' # t,
           \A d \in Devices : g_state_mutex'[d] # t
    PROVE  ThreadInv(t)'
BY DEF ThreadInv, OwnsWhatItUses, PathFits, FloorHolds, ReadResult, CollectResult,
       InRegistry

\* IInv is kept when a thread takes up work.
LEMMA BeginIInv ==
    ASSUME IInv, NEW t \in Threads, NEW kind \in Kinds, NEW p \in Paths,
           NEW label \in {"state_lock", "driven_lock", "read_lock", "write_lock"},
           Begin(t, kind, p, label),
           kind = "read" => label = "state_lock",
           kind = "collect" => label = "driven_lock",
           label = "write_lock" =>
               t = "ticker" /\ p \in physics_driven_signals_ /\ Published(p) < MaxChanges
    PROVE  IInv'
<1> DEFINE j == [kind |-> kind, path |-> p]
           f == [cache |-> signal_cache_[p], own |-> value[p]]
<1>1. /\ pc[t] = "idle" /\ pc' = [pc EXCEPT ![t] = label]
      /\ job' = [job EXCEPT ![t] = j] /\ floor' = [floor EXCEPT ![t] = f]
      /\ UNCHANGED <<engine, physics_driven_signals_, signal_cache_, value,
                     registry_mutex_, g_state_mutex, inDevice, own, result>>
  BY DEF Begin, Goto, dataVars, lockVars
<1>2. j \in Jobs /\ j.kind = kind /\ j.path = p
  BY DEF Jobs
<1>3. f \in Floors /\ f.cache = signal_cache_[p] /\ f.own = value[p]
  BY DEF IInv, TypeOK, Floors
<1> HIDE DEF j, f
<1>4. TypeOK'
  <2>1. pc' \in [Threads -> Labels]
    BY <1>1 DEF IInv, TypeOK, Labels
  <2>2. /\ job' \in [Threads -> Jobs \cup {NoJob}]
        /\ \A u \in Threads : pc'[u] # "idle" => job'[u] \in Jobs
    BY <1>1, <1>2 DEF IInv, TypeOK
  <2>3. floor' \in [Threads -> Floors]
    BY <1>1, <1>3 DEF IInv, TypeOK
  <2> QED
    BY <1>1, <2>1, <2>2, <2>3 DEF IInv, TypeOK
<1>5. CacheDriven'
  BY <1>1 DEF IInv, CacheDriven
<1>6. ThreadInv(t)'
  <2>1. /\ pc'[t] = label /\ job'[t] = j /\ floor'[t] = f /\ Path(t)' = p
        /\ ~inDevice[t] /\ inDevice'[t] = inDevice[t]
        /\ Driven(t)' <=> p \in physics_driven_signals_
    BY <1>1, <1>2 DEF IInv, TypeOK, ThreadInv, PathFits, InsideRead, Path, Driven
  <2>2. OwnsWhatItUses(t)'
    BY <1>1, <2>1 DEF IInv, ThreadInv, OwnsWhatItUses, InRegistry
  <2>3. PathFits(t)'
    BY <1>1, <1>2, <2>1 DEF PathFits, Published
  <2>4. FloorHolds(t)'
    <3>1. value[p] \in Int /\ signal_cache_[p] \in Int \cup {None}
      BY DEF IInv, TypeOK
    <3> QED
      BY <1>1, <1>3, <2>1, <3>1 DEF FloorHolds
  <2>5. ReadResult(t)' /\ CollectResult(t)'
    BY <2>1 DEF ReadResult, CollectResult
  <2> QED
    BY <2>2, <2>3, <2>4, <2>5 DEF ThreadInv
<1>7. ASSUME NEW u \in Threads, u # t PROVE ThreadInv(u)'
  <2>1. \A q \in Paths : value[q] >= value[q] /\ (signal_cache_[q] # None =>
                                              signal_cache_[q] >= signal_cache_[q])
    BY DEF IInv, TypeOK
  <2>2. Undisturbed(u)
    BY <1>1, <1>7, <2>1 DEF IInv, TypeOK, Undisturbed
  <2> QED
    BY <1>4, <2>2, OtherThread DEF IInv
<1> QED
  BY <1>4, <1>5, <1>6, <1>7 DEF IInv

\* IInv is kept by call_function and update_physics.
LEMMA ChangeValueIInv ==
    ASSUME IInv, NEW t \in Threads, ChangeValue(t)
    PROVE  IInv'
<1>1. /\ pc[t] = "state_lock" /\ Return(t)
      /\ value' = [value EXCEPT ![Path(t)] = IF @ < MaxChanges THEN @ + 1 ELSE @]
      /\ UNCHANGED <<engine, physics_driven_signals_, signal_cache_, registry_mutex_,
                     g_state_mutex>>
  BY DEF ChangeValue, lockVars
<1>2. Path(t) \in Paths
  BY <1>1 DEF IInv, TypeOK, Path, Jobs
<1>3. value' \in [Paths -> 0 .. MaxChanges] /\ \A q \in Paths : value'[q] >= value[q]
  BY <1>1, <1>2, MaxChangesAssumption DEF IInv, TypeOK
<1>4. TypeOK'
  BY <1>1, <1>3, ReturnType DEF IInv, TypeOK
<1>5. CacheDriven'
  BY <1>1 DEF IInv, CacheDriven
<1>6. ThreadInv(t)'
  <2>1. registry_mutex_ # t /\ \A d \in Devices : g_state_mutex[d] # t
    BY <1>1 DEF IInv, ThreadInv, OwnsWhatItUses, PathFits, InRegistry, InsideRead
  <2> QED
    BY <1>1, <2>1, ReturnType, IdleThread DEF IInv
<1>7. ASSUME NEW u \in Threads, u # t PROVE ThreadInv(u)'
  <2>1. \A q \in Paths : signal_cache_[q] # None => signal_cache_[q] >= signal_cache_[q]
    BY DEF IInv, TypeOK
  <2>2. Undisturbed(u)
    BY <1>1, <1>3, <1>7, <2>1 DEF IInv, TypeOK, Undisturbed, Return, Goto
  <2> QED
    BY <1>4, <2>2, OtherThread DEF IInv
<1> QED
  BY <1>4, <1>5, <1>6, <1>7 DEF IInv

\* IInv is kept by the end of a read.
LEMMA FinishIInv ==
    ASSUME IInv, NEW t \in Threads, Finish(t)
    PROVE  IInv'
<1>1. /\ pc[t] = "finish" /\ Return(t)
      /\ g_state_mutex' = [d \in Devices |->
             IF g_state_mutex[d] = t THEN None ELSE g_state_mutex[d]]
      /\ UNCHANGED <<engine, physics_driven_signals_, signal_cache_, value,
                     registry_mutex_>>
  BY DEF Finish, dataVars
<1>2. t # None
  BY NoneAssumption DEF Threads
<1>3. g_state_mutex' \in [Devices -> Threads \cup {None}]
  BY <1>1 DEF IInv, TypeOK
<1>4. TypeOK'
  BY <1>1, <1>3, ReturnType DEF IInv, TypeOK
<1>5. CacheDriven'
  BY <1>1 DEF IInv, CacheDriven
<1>6. ThreadInv(t)'
  <2>1. registry_mutex_ # t
    BY <1>1 DEF IInv, ThreadInv, OwnsWhatItUses, InRegistry
  <2> QED
    BY <1>1, <1>2, <2>1, ReturnType, IdleThread DEF IInv
<1>7. ASSUME NEW u \in Threads, u # t PROVE ThreadInv(u)'
  <2>1. \A q \in Paths : value[q] >= value[q] /\ (signal_cache_[q] # None =>
                                              signal_cache_[q] >= signal_cache_[q])
    BY DEF IInv, TypeOK
  <2>2. u # None
    BY NoneAssumption DEF Threads
  <2>3. Undisturbed(u)
    BY <1>1, <1>7, <2>1, <2>2 DEF IInv, TypeOK, Undisturbed, Return, Goto
  <2> QED
    BY <1>4, <2>3, OtherThread DEF IInv
<1> QED
  BY <1>4, <1>5, <1>6, <1>7 DEF IInv

\* IInv is kept by write_signal.
LEMMA WriteSignalIInv ==
    ASSUME IInv, NEW t \in Threads, WriteSignal(t)
    PROVE  IInv'
<1> DEFINE p == Path(t)
<1>1. /\ pc[t] = "write_lock" /\ Return(t) /\ registry_mutex_ = None
      /\ physics_driven_signals_' = physics_driven_signals_ \cup {p}
      /\ signal_cache_' = [signal_cache_ EXCEPT ![p] = Published(p) + 1]
      /\ UNCHANGED <<engine, value, registry_mutex_, g_state_mutex>>
  BY DEF WriteSignal, lockVars
<1>2. /\ t = "ticker" /\ p \in physics_driven_signals_ /\ Published(p) < MaxChanges
      /\ ~inDevice[t]
  BY <1>1 DEF IInv, ThreadInv, PathFits, Driven, InsideRead
<1>3. p \in Paths
  BY <1>1 DEF IInv, TypeOK, Path, Jobs
<1>4. /\ Published(p) \in Nat
      /\ signal_cache_[p] # None => Published(p) = signal_cache_[p]
  BY <1>3 DEF IInv, TypeOK, Published
<1> HIDE DEF p
<1>5. Published(p) + 1 \in 1 .. MaxChanges /\ Published(p) + 1 # None
  BY <1>2, <1>4, NoneAssumption, MaxChangesAssumption
<1>6. physics_driven_signals_' = physics_driven_signals_
  BY <1>1, <1>2
<1>7. /\ signal_cache_' \in [Paths -> (1 .. MaxChanges) \cup {None}]
      /\ \A q \in Paths : signal_cache_[q] # None =>
            signal_cache_'[q] # None /\ signal_cache_'[q] >= signal_cache_[q]
  BY <1>1, <1>3, <1>4, <1>5 DEF IInv, TypeOK
<1>8. TypeOK'
  BY <1>1, <1>6, <1>7, ReturnType DEF IInv, TypeOK
<1>9. CacheDriven'
  BY <1>1, <1>2, <1>3, <1>6 DEF IInv, CacheDriven, TypeOK
<1>10. ThreadInv(t)'
  <2>1. t # None /\ \A d \in Devices : g_state_mutex[d] # t
    BY <1>2, NoneAssumption DEF IInv, ThreadInv, OwnsWhatItUses, Threads
  <2> QED
    BY <1>1, <2>1, ReturnType, IdleThread DEF IInv
<1>11. ASSUME NEW u \in Threads, u # t PROVE ThreadInv(u)'
  <2>1. \A q \in Paths : value[q] >= value[q]
    BY DEF IInv, TypeOK
  <2>2. u # "ticker"
    BY <1>2, <1>11
  <2>3. Undisturbed(u)
    BY <1>1, <1>6, <1>7, <1>11, <2>1, <2>2 DEF IInv, TypeOK, Undisturbed, Return, Goto
  <2> QED
    BY <1>8, <2>3, OtherThread DEF IInv
<1> QED
  BY <1>8, <1>9, <1>10, <1>11 DEF IInv

\* IInv is kept when a thread enters a device's read_signals, whether the device
\* keeps its mutex or not.
LEMMA EnterReadSignalsIInv ==
    ASSUME IInv, NEW t \in Threads, NEW owner \in {t, None}, EnterReadSignals(t, owner)
    PROVE  IInv'
<1>1. /\ pc[t] = "state_lock" /\ pc' = [pc EXCEPT ![t] = "driven_lock"]
      /\ g_state_mutex' = [g_state_mutex EXCEPT ![Device(t)] = owner]
      /\ own' = [own EXCEPT ![t] = value[Path(t)]]
      /\ inDevice' = [inDevice EXCEPT ![t] = TRUE]
      /\ UNCHANGED <<engine, physics_driven_signals_, signal_cache_, value,
                     registry_mutex_, job, result, floor>>
  BY DEF EnterReadSignals, Goto, dataVars
<1>2. Path(t) \in Paths
  BY <1>1 DEF IInv, TypeOK, Path, Jobs
<1>3. /\ value[Path(t)] \in 0 .. MaxChanges
      /\ inDevice' \in [Threads -> BOOLEAN] /\ inDevice'[t]
  BY <1>1, <1>2 DEF IInv, TypeOK
<1>4. TypeOK'
  BY <1>1, <1>3 DEF IInv, TypeOK, Labels
<1>5. CacheDriven'
  BY <1>1 DEF IInv, CacheDriven
<1>6. ThreadInv(t)'
  <2>1. /\ pc'[t] = "driven_lock" /\ job'[t] = job[t] /\ floor'[t] = floor[t]
        /\ own'[t] = value[Path(t)] /\ Path(t)' = Path(t) /\ (Driven(t)' <=> Driven(t))
    BY <1>1 DEF IInv, TypeOK, Path, Driven
  <2>2. OwnsWhatItUses(t)'
    BY <1>1, <1>3, <2>1 DEF IInv, ThreadInv, OwnsWhatItUses, InRegistry
  <2>3. PathFits(t)'
    BY <1>1, <1>3, <2>1 DEF IInv, ThreadInv, PathFits, InsideRead
  <2>4. FloorHolds(t)'
    BY <1>1, <2>1 DEF IInv, ThreadInv, FloorHolds
  <2>5. ReadResult(t)' /\ CollectResult(t)'
    BY <2>1 DEF ReadResult, CollectResult
  <2> QED
    BY <2>2, <2>3, <2>4, <2>5 DEF ThreadInv
<1>7. ASSUME NEW u \in Threads, u # t PROVE ThreadInv(u)'
  <2>1. \A q \in Paths : value[q] >= value[q] /\ (signal_cache_[q] # None =>
                                              signal_cache_[q] >= signal_cache_[q])
    BY DEF IInv, TypeOK
  <2>2. u # owner
    BY <1>7, NoneAssumption DEF Threads
  <2>3. Undisturbed(u)
    BY <1>1, <1>7, <2>1, <2>2 DEF IInv, TypeOK, Undisturbed
  <2> QED
    BY <1>4, <2>3, OtherThread DEF IInv
<1> QED
  BY <1>4, <1>5, <1>6, <1>7 DEF IInv

\* A step inside the registry: the thread moves on, with or without an answer,
\* and owns the registry mutex afterwards exactly in a critical section.
RegistryStep(t, label, r) ==
    /\ pc' = [pc EXCEPT ![t] = label]
    /\ result' = [result EXCEPT ![t] = r]
    /\ registry_mutex_ \in {t, None}
    /\ registry_mutex_' = IF label \in InRegistry THEN t ELSE None
    /\ UNCHANGED <<dataVars, g_state_mutex, job, inDevice, own, floor>>

\* IInv is kept by such a step if the label fits the path and the answer, if
\* there is one, is fresh.
LEMMA RegistryStepIInv ==
    ASSUME IInv, NEW t \in Threads, pc[t] # "idle",
           NEW label \in Labels \ {"idle", "write_lock"}, NEW r \in Results,
           RegistryStep(t, label, r), PathFits(t)', ReadResult(t)', CollectResult(t)'
    PROVE  IInv'
<1>1. /\ pc' = [pc EXCEPT ![t] = label] /\ result' = [result EXCEPT ![t] = r]
      /\ registry_mutex_ \in {t, None}
      /\ registry_mutex_' = IF label \in InRegistry THEN t ELSE None
      /\ UNCHANGED <<engine, physics_driven_signals_, signal_cache_, value,
                     g_state_mutex, job, inDevice, own, floor>>
  BY DEF RegistryStep, dataVars
<1>2. TypeOK'
  <2>1. registry_mutex_' \in Threads \cup {None}
    BY <1>1
  <2>2. pc' \in [Threads -> Labels] /\ result' \in [Threads -> Results]
    BY <1>1 DEF IInv, TypeOK
  <2>3. \A u \in Threads : pc'[u] # "idle" => job'[u] \in Jobs
    BY <1>1 DEF IInv, TypeOK
  <2> QED
    BY <1>1, <2>1, <2>2, <2>3 DEF IInv, TypeOK
<1>3. CacheDriven'
  BY <1>1 DEF IInv, CacheDriven
<1>4. ThreadInv(t)'
  <2>1. pc'[t] = label
    BY <1>1 DEF IInv, TypeOK
  <2>2. t # None
    BY NoneAssumption DEF Threads
  <2>3. OwnsWhatItUses(t)'
    BY <1>1, <2>1, <2>2 DEF IInv, ThreadInv, OwnsWhatItUses
  <2>4. FloorHolds(t)'
    BY <1>1 DEF IInv, ThreadInv, FloorHolds, Path
  <2> QED
    BY <2>3, <2>4 DEF ThreadInv
<1>5. ASSUME NEW u \in Threads, u # t PROVE ThreadInv(u)'
  <2>1. \A q \in Paths : value[q] >= value[q] /\ (signal_cache_[q] # None =>
                                              signal_cache_[q] >= signal_cache_[q])
    BY DEF IInv, TypeOK
  <2>2. u # None
    BY NoneAssumption DEF Threads
  <2>3. Undisturbed(u)
    BY <1>1, <1>5, <2>1, <2>2 DEF IInv, TypeOK, Undisturbed
  <2> QED
    BY <1>2, <2>3, OtherThread DEF IInv
<1> QED
  BY <1>2, <1>3, <1>4, <1>5 DEF IInv

\* A step without an answer leaves the result as it was.
LEMMA NoAnswer ==
    ASSUME TypeOK, NEW t \in Threads, UNCHANGED result
    PROVE  result[t] \in Results /\ result' = [result EXCEPT ![t] = result[t]]
BY DEF TypeOK

\* What a thread can answer with is well typed.
LEMMA AnswerTypes ==
    ASSUME TypeOK, NEW t \in Threads, pc[t] # "idle"
    PROVE  /\ FromDevice(t) \in Results /\ Nothing \in Results
           /\ signal_cache_[Path(t)] # None => FromCache(t) \in Results
<1>1. Path(t) \in Paths
  BY DEF TypeOK, Path, Jobs
<1>2. /\ 0 \in 0 .. MaxChanges /\ own[t] \in 0 .. MaxChanges
      /\ signal_cache_[Path(t)] # None => signal_cache_[Path(t)] \in 0 .. MaxChanges
  BY <1>1, MaxChangesAssumption DEF TypeOK
<1> QED
  BY <1>2 DEF FromDevice, FromCache, Nothing, Results

\* IInv is kept when a thread gets the registry mutex.
LEMMA LockRegistryIInv ==
    ASSUME IInv, NEW t \in Threads, LockRegistry(t)
    PROVE  IInv'
<1>1. /\ registry_mutex_ = None /\ registry_mutex_' = t
      /\ UNCHANGED <<dataVars, g_state_mutex, job, inDevice, own, result, floor>>
  BY DEF LockRegistry, threadVars
<1>2. PICK label \in InRegistry :
         /\ pc' = [pc EXCEPT ![t] = label]
         /\ label = "driven_test" => pc[t] = "driven_lock"
         /\ label = "read_look" => pc[t] = "read_lock"
  BY DEF LockRegistry, Goto, InRegistry
<1>3. RegistryStep(t, label, result[t]) /\ result[t] \in Results
  BY <1>1, <1>2, NoAnswer DEF IInv, RegistryStep
<1>4. /\ pc[t] # "idle" /\ label \in Labels \ {"idle", "write_lock"}
      /\ pc'[t] = label /\ job'[t] = job[t] /\ inDevice'[t] = inDevice[t]
      /\ Driven(t)' <=> Driven(t)
  BY <1>1, <1>2 DEF InRegistry, Labels, IInv, TypeOK, Driven, Path, dataVars
<1>5. PathFits(t)'
  BY <1>2, <1>4 DEF IInv, ThreadInv, PathFits, InRegistry, InsideRead
<1>6. ReadResult(t)' /\ CollectResult(t)'
  BY <1>2, <1>4 DEF ReadResult, CollectResult, InRegistry
<1> QED
  BY <1>3, <1>4, <1>5, <1>6, RegistryStepIInv

\* IInv is kept by is_physics_driven and what its caller does with the answer.
LEMMA IsPhysicsDrivenIInv ==
    ASSUME IInv, NEW t \in Threads, IsPhysicsDriven(t)
    PROVE  IInv'
<1>1. /\ pc[t] = "driven_test" /\ registry_mutex_ = t /\ registry_mutex_' = None
      /\ UNCHANGED <<dataVars, g_state_mutex, job, inDevice, own, floor>>
  BY DEF IsPhysicsDriven, IInv, ThreadInv, OwnsWhatItUses, InRegistry
<1>2. /\ job'[t] = job[t] /\ inDevice'[t] = inDevice[t] /\ floor'[t] = floor[t]
      /\ Driven(t)' <=> Driven(t)
      /\ Path(t) \in Paths /\ inDevice[t] \in BOOLEAN /\ pc \in [Threads -> Labels]
      /\ result \in [Threads -> Results]
  BY <1>1 DEF IInv, TypeOK, Driven, Path, dataVars, Jobs
<1>3. CASE inDevice[t] = Driven(t) /\ Goto(t, "read_lock") /\ UNCHANGED result
  <2>1. RegistryStep(t, "read_lock", result[t]) /\ result[t] \in Results
    BY <1>1, <1>3, NoAnswer DEF IInv, RegistryStep, Goto, InRegistry
  <2>2. pc'[t] = "read_lock"
    BY <1>2, <1>3 DEF Goto
  <2>3. PathFits(t)'
    BY <1>1, <1>2, <1>3, <2>2 DEF IInv, ThreadInv, PathFits, InsideRead
  <2>4. ReadResult(t)' /\ CollectResult(t)'
    BY <2>2 DEF ReadResult, CollectResult
  <2> QED
    BY <1>1, <2>1, <2>3, <2>4, RegistryStepIInv DEF Labels
<1>4. ASSUME NEW r \in Results, Answer(t, r),
             \/ r = FromDevice(t) /\ inDevice[t] /\ ~Driven(t)
             \/ r = Nothing /\ ~inDevice[t]
      PROVE  IInv'
  <2>1. RegistryStep(t, "finish", r)
    BY <1>1, <1>4 DEF RegistryStep, Answer, Goto, InRegistry
  <2>2. pc'[t] = "finish" /\ result'[t] = r
    BY <1>2, <1>4 DEF Answer, Goto
  <2>3. PathFits(t)'
    BY <1>1, <1>2, <2>2 DEF IInv, ThreadInv, PathFits, InsideRead
  <2>4. ReadResult(t)'
    <3>1. ~Driven(t) => floor[t].cache = None
      BY <1>1, <1>2 DEF IInv, CacheDriven, ThreadInv, FloorHolds, Driven
    <3>2. inDevice[t] => own[t] >= floor[t].own
      BY <1>1 DEF IInv, ThreadInv, FloorHolds
    <3>3. job[t].kind = "read" => inDevice[t]
      BY <1>1 DEF IInv, ThreadInv, PathFits
    <3> QED
      BY <1>2, <1>4, <2>2, <3>1, <3>2, <3>3 DEF ReadResult, FromDevice
  <2>5. CollectResult(t)'
    <3>1. inDevice[t] => own[t] >= floor[t].own
      BY <1>1 DEF IInv, ThreadInv, FloorHolds
    <3> QED
      BY <1>2, <1>4, <2>2, <3>1 DEF CollectResult, FromDevice, Nothing
  <2> QED
    BY <1>1, <2>1, <2>3, <2>4, <2>5, RegistryStepIInv DEF Labels
<1>5. FromDevice(t) \in Results /\ Nothing \in Results
  BY <1>1, AnswerTypes DEF IInv
<1> QED
  BY <1>3, <1>4, <1>5 DEF IsPhysicsDriven

\* IInv is kept by read_signal: the cached value, or on to the device reader.
LEMMA ReadSignalIInv ==
    ASSUME IInv, NEW t \in Threads, ReadSignal(t)
    PROVE  IInv'
<1>1. /\ pc[t] = "read_look" /\ registry_mutex_ = t /\ registry_mutex_' = None
      /\ UNCHANGED <<dataVars, g_state_mutex, job, inDevice, own, floor>>
  BY DEF ReadSignal, IInv, ThreadInv, OwnsWhatItUses, InRegistry
<1>2. /\ job'[t] = job[t] /\ inDevice'[t] = inDevice[t] /\ floor'[t] = floor[t]
      /\ Driven(t)' <=> Driven(t)
      /\ Path(t) \in Paths /\ pc \in [Threads -> Labels]
      /\ result \in [Threads -> Results]
  BY <1>1 DEF IInv, TypeOK, Driven, Path, dataVars, Jobs
<1>3. /\ ~Driven(t) => ~inDevice[t]
      /\ job[t].kind = "read" => inDevice[t]
      /\ job[t].kind = "collect" => ~Driven(t)
  BY <1>1 DEF IInv, ThreadInv, PathFits
<1>4. CASE ~Driven(t) /\ Goto(t, "state_lock") /\ UNCHANGED result
  <2>1. RegistryStep(t, "state_lock", result[t]) /\ result[t] \in Results
    BY <1>1, <1>4, NoAnswer DEF IInv, RegistryStep, Goto, InRegistry
  <2>2. pc'[t] = "state_lock"
    BY <1>2, <1>4 DEF Goto
  <2>3. PathFits(t)'
    BY <1>2, <1>3, <1>4, <2>2 DEF PathFits
  <2>4. ReadResult(t)' /\ CollectResult(t)'
    BY <2>2 DEF ReadResult, CollectResult
  <2> QED
    BY <1>1, <2>1, <2>3, <2>4, RegistryStepIInv DEF Labels
<1>5. ASSUME NEW r \in Results, Answer(t, r),
             \/ Driven(t) /\ r = DrivenValue(t)
             \/ ~Driven(t) /\ r = Nothing
      PROVE  IInv'
  <2>1. RegistryStep(t, "finish", r)
    BY <1>1, <1>5 DEF RegistryStep, Answer, Goto, InRegistry
  <2>2. pc'[t] = "finish" /\ result'[t] = r
    BY <1>2, <1>5 DEF Answer, Goto
  <2>3. PathFits(t)'
    BY <1>1, <1>2, <1>3, <1>5, <2>2 DEF IInv, ThreadInv, PathFits, InsideRead
  <2>4. ReadResult(t)'
    <3> SUFFICES ASSUME job[t].kind = "read"
                 PROVE  IF floor[t].cache # None
                        THEN r.from = "cache" /\ r.v >= floor[t].cache
                        ELSE /\ r.from # "nothing"
                             /\ r.from = "device" => r.v >= floor[t].own
      BY <1>2, <2>2 DEF ReadResult
    <3>1. inDevice[t] /\ Driven(t) /\ r = DrivenValue(t)
      BY <1>3, <1>5
    <3>2. /\ own[t] >= floor[t].own
          /\ floor[t].cache # None => /\ signal_cache_[Path(t)] # None
                                      /\ signal_cache_[Path(t)] >= floor[t].cache
      BY <1>1, <3>1 DEF IInv, ThreadInv, FloorHolds
    <3>3. CASE signal_cache_[Path(t)] # None
      BY <3>1, <3>2, <3>3 DEF DrivenValue, FromCache
    <3>4. CASE signal_cache_[Path(t)] = None
      BY <3>1, <3>2, <3>4 DEF DrivenValue, FromDevice
    <3> QED
      BY <3>3, <3>4
  <2>5. CollectResult(t)'
    BY <1>2, <1>3, <1>5, <2>2 DEF CollectResult, Nothing
  <2> QED
    BY <1>1, <2>1, <2>3, <2>4, <2>5, RegistryStepIInv DEF Labels
<1>6. DrivenValue(t) \in Results /\ Nothing \in Results
  <2>1. /\ FromDevice(t) \in Results /\ Nothing \in Results
        /\ signal_cache_[Path(t)] # None => FromCache(t) \in Results
    BY <1>1, AnswerTypes DEF IInv
  <2>2. inDevice[t] \in BOOLEAN
    BY DEF IInv, TypeOK
  <2> QED
    BY <2>1, <2>2 DEF DrivenValue
<1> QED
  BY <1>4, <1>5, <1>6 DEF ReadSignal, DeviceReader

-----------------------------------------------------------------------------
(* The theorems *)

\* IInv holds when the threads have not begun.
LEMMA InitIInv == Init => IInv
<1> SUFFICES ASSUME Init PROVE IInv
  OBVIOUS
<1>1. 0 \in 0 .. MaxChanges
  BY MaxChangesAssumption
<1>2. Nothing \in Results /\ NoFloor \in Floors
  BY <1>1 DEF Nothing, Results, NoFloor, Floors
<1>3. physics_driven_signals_ \subseteq Paths
  BY DEF Init
<1>4. \A t \in Threads : ~inDevice[t] /\ pc[t] = "idle" /\ t # None
  BY NoneAssumption DEF Init, Threads
<1>5. inDevice \in [Threads -> BOOLEAN]
  BY Zenon DEF Init
<1>6. TypeOK
  <2> HIDE DEF Nothing, NoFloor, NoJob
  <2> QED
    BY <1>1, <1>2, <1>3, <1>4, <1>5 DEF Init, TypeOK, Labels
<1>7. CacheDriven
  BY DEF Init, CacheDriven
<1>8. ASSUME NEW t \in Threads PROVE ThreadInv(t)
  BY <1>4 DEF Init, ThreadInv, OwnsWhatItUses, PathFits, FloorHolds, ReadResult,
              CollectResult, InRegistry
<1> QED
  BY <1>6, <1>7, <1>8 DEF IInv

\* Every path of a phase is a path of the registry.
LEMMA PathSets ==
    /\ ActuatorPaths \subseteq Paths /\ SensorPaths \subseteq Paths
    /\ CallTargets \subseteq Paths
BY DEF Paths, CallTargets, ActuatorPaths, SensorPaths, Devices

\* IInv is kept by every step of either thread.
LEMMA NextIInv == IInv /\ [Next]_vars => IInv'
<1> SUFFICES ASSUME IInv, [Next]_vars PROVE IInv'
  OBVIOUS
<1> USE DEF Kinds
<1>1. CASE BeginRead
  BY <1>1, BeginIInv DEF BeginRead, Threads
<1>2. CASE BeginCall
  BY <1>2, BeginIInv, PathSets DEF BeginCall
<1>3. CASE BeginControl
  BY <1>3, BeginIInv, PathSets DEF BeginControl, Threads
<1>4. CASE BeginCollect
  BY <1>4, BeginIInv, PathSets DEF BeginCollect, Threads
<1>5. CASE BeginPhysics
  BY <1>5, BeginIInv, PathSets DEF BeginPhysics, Threads
<1>6. CASE BeginPublish
  <2>1. physics_driven_signals_ \subseteq Paths
    BY DEF IInv, TypeOK
  <2> QED
    BY <1>6, <2>1, BeginIInv DEF BeginPublish, Threads
<1>7. ASSUME NEW t \in Threads, Step(t) PROVE IInv'
  <2>1. CASE CallFunction(t) \/ UpdatePhysics(t)
    BY <2>1, ChangeValueIInv DEF CallFunction, UpdatePhysics
  <2>2. CASE CopyState(t) \/ KeepMutex(t)
    BY <2>2, EnterReadSignalsIInv DEF CopyState, KeepMutex
  <2> QED
    BY <1>7, <2>1, <2>2, FinishIInv, LockRegistryIInv, IsPhysicsDrivenIInv,
       ReadSignalIInv, WriteSignalIInv DEF Step
<1>8. CASE UNCHANGED vars
  <2>1. UNCHANGED <<engine, physics_driven_signals_, signal_cache_, value, registry_mutex_,
                    g_state_mutex, pc, job, inDevice, own, result, floor>>
    BY <1>8 DEF vars, dataVars, lockVars, threadVars
  <2>2. TypeOK' /\ CacheDriven'
    BY <2>1 DEF IInv, TypeOK, CacheDriven
  <2>3. ASSUME NEW t \in Threads PROVE ThreadInv(t)'
    BY <2>1 DEF IInv, ThreadInv, OwnsWhatItUses, PathFits, FloorHolds, ReadResult,
                CollectResult, Driven, Path, Published
  <2> QED
    BY <2>2, <2>3 DEF IInv
<1> QED
  BY <1>1, <1>2, <1>3, <1>4, <1>5, <1>6, <1>7, <1>8 DEF Next

\* The strengthened invariant of the registry and its callers.
THEOREM Invariance == Spec => []IInv
BY InitIInv, NextIInv, PTL DEF Spec

\* Neither the re-entrance of a read through the device reader nor the nesting
\* of analogsensor's mutex around the registry's can deadlock.
THEOREM DeadlockFree == Spec => []NoCircularWait
<1>1. IInv => NoCircularWait
  <2> SUFFICES ASSUME IInv, NEW t \in Threads, WaitsFor(t) # None
               PROVE  WaitsFor(t) # t /\ WaitsFor(WaitsFor(t)) # t
    BY DEF IInv, NoCircularWait
  <2>1. t # None
    BY NoneAssumption DEF Threads
  <2>2. CASE pc[t] = "state_lock"
    <3> DEFINE u == g_state_mutex[Device(t)]
    <3>1. WaitsFor(t) = u
      BY <2>2 DEF WaitsFor
    <3>2. Device(t) \in Devices
      <4>1. Path(t) \in Paths
        BY <2>2 DEF IInv, TypeOK, Path, Jobs
      <4> QED
        BY <4>1 DEF Device, Path, Paths, ActuatorPaths, SensorPaths, Devices
    <3>3. u \in Threads
      BY <3>1, <3>2 DEF IInv, TypeOK
    <3>4. inDevice[u] /\ pc[u] \in InsideRead
      BY <3>2, <3>3 DEF IInv, ThreadInv, OwnsWhatItUses, PathFits
    <3>5. registry_mutex_ # t
      BY <2>2 DEF IInv, ThreadInv, OwnsWhatItUses, InRegistry
    <3> HIDE DEF u
    <3>6. u # t /\ pc[u] # "state_lock"
      BY <2>2, <3>4 DEF InsideRead
    <3>7. WaitsFor(u) \in {registry_mutex_, None}
      BY <3>6 DEF WaitsFor
    <3> QED
      BY <2>1, <3>1, <3>5, <3>6, <3>7
  <2>3. CASE pc[t] \in {"driven_lock", "read_lock", "write_lock"}
    <3>1. WaitsFor(t) = registry_mutex_
      BY <2>3 DEF WaitsFor
    <3>2. registry_mutex_ \in Threads
      BY <3>1 DEF IInv, TypeOK
    <3>3. pc[registry_mutex_] \in InRegistry
      BY <3>2 DEF IInv, ThreadInv, OwnsWhatItUses
    <3>4. WaitsFor(registry_mutex_) = None
      BY <3>3 DEF WaitsFor, InRegistry
    <3> QED
      BY <2>1, <2>3, <3>1, <3>3, <3>4 DEF InRegistry
  <2> QED
    BY <2>2, <2>3 DEF WaitsFor
<1> QED
  BY <1>1, Invariance, PTL

\* A ReadSignals request is answered with the value published last when it came,
\* or a newer one, and with live device state where nothing is published.
THEOREM ReadsStayFresh == Spec => []ReadsAreFresh
<1>1. IInv => ReadsAreFresh
  BY DEF IInv, ThreadInv, ReadResult, ReadsAreFresh, Threads
<1> QED
  BY <1>1, Invariance, PTL

\* What maybe_collect_signal hands to the engine never came from the engine.
THEOREM NeverFedBack == Spec => []NotFedBack
<1>1. IInv => NotFedBack
  BY DEF IInv, ThreadInv, CollectResult, NotFedBack, Threads
<1> QED
  BY <1>1, Invariance, PTL
=============================================================================
