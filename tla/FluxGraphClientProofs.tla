------------------------ MODULE FluxGraphClientProofs ------------------------
(***************************************************************************)
(* The safety of the remote engine's RPC loops, for every set of sensor paths *)
(* and whatever the server answers, forgets or loses.                         *)
(***************************************************************************)
EXTENDS FluxGraphClient, TLAPS

\* Once the response that reports a tick has been handled, the cache and the
\* pending commands hold nothing from before it, and neither does the result.
Collecting == pc = "read" \/ (pc = "reregister" /\ caller = "read")

NothingStale ==
    /\ Collecting => /\ \A p \in Paths : signal_cache_[p] # "earlier"
                     /\ "earlier" \notin pending_commands_
    /\ \A p \in Paths : sensors[p] # "earlier"
    /\ "earlier" \notin commands

\* What an RPC loop has sent: one RPC per attempt used, and the two attempts of
\* a re-registration at most once.  A loop of reads starts counting anew.
Spent ==
    /\ pc = "update" \/ (pc = "read" /\ attempt > 0) =>
          rpcs <= attempt + (IF retried_after_unauth THEN kMaxRpcAttempts ELSE 0)
    /\ pc = "reregister" => retried_after_unauth /\ rpcs <= attempt + 1 + reg_attempt

\* The inductive invariant.
IInv ==
    /\ SessionCoherent
    /\ NothingStale
    /\ Spent
    /\ RpcBudget

\* IInv holds for a client that has not connected yet.
LEMMA InitIInv == Init => IInv
<1> SUFFICES ASSUME Init PROVE IInv
  OBVIOUS
<1>1. /\ {attempt, reg_attempt} \subseteq 0 .. (kMaxRpcAttempts - 1) /\ rpcs \in Nat
      /\ signal_cache_ \in [Paths -> Ages] /\ sensors \in [Paths -> Ages]
      /\ \A p \in Paths : sensors[p] # "earlier"
  BY DEF Init, kMaxRpcAttempts, Ages, Unread
<1>2. TypeOK
  BY <1>1, Zenon DEF Init, TypeOK, Labels
<1>3. SessionCoherent /\ NothingStale /\ Spent
  BY <1>1, <1>2 DEF Init, SessionCoherent, NothingStale, Collecting, Spent
<1>4. RpcBudget
  BY DEF Init, RpcBudget, kMaxRpcAttempts
<1> QED
  BY <1>3, <1>4 DEF IInv

\* IInv is kept by startup, by the server and by the destructor.
LEMMA LifeIInv ==
    ASSUME IInv, Connect \/ LoadConfig \/ RegisterProvider \/ Destroy \/ ServerChanges
    PROVE  IInv'
<1> USE DEF IInv, SessionCoherent, TypeOK, NothingStale, Collecting, Spent, RpcBudget,
            Labels, kMaxRpcAttempts, loopVars, sessionVars, resultVars
<1>1. CASE Connect
  BY <1>1 DEF Connect
<1>2. CASE LoadConfig
  BY <1>2 DEF LoadConfig, CanRetry
<1>3. CASE RegisterProvider
  <2>1. \/ registered_' = TRUE /\ session_id_' = "current"
        \/ UNCHANGED <<registered_, session_id_>>
    BY <1>3 DEF RegisterProvider
  <2>2. registered_' \in BOOLEAN /\ (registered_' <=> session_id_' # "none")
    <3>1. CASE registered_' = TRUE /\ session_id_' = "current"
      <4>1. registered_' \in BOOLEAN /\ registered_'
        BY <3>1, Zenon
      <4> QED
        BY <3>1, <4>1
    <3>2. CASE UNCHANGED <<registered_, session_id_>>
      BY <3>2
    <3> QED
      BY <2>1, <3>1, <3>2
  <2> QED
    BY <1>3, <2>2 DEF RegisterProvider, CanRetry
<1>4. CASE Destroy
  BY <1>4 DEF Destroy
<1>5. CASE ServerChanges
  BY <1>5 DEF ServerChanges
<1> QED
  BY <1>1, <1>2, <1>3, <1>4, <1>5

\* A tick starts with nothing in its result and with no RPC sent.
LEMMA BeginTickIInv ==
    ASSUME IInv, BeginTick
    PROVE  IInv'
<1> USE DEF IInv
<1>1. /\ pending_commands_' \subseteq {"earlier", "this"}
      /\ signal_cache_' \in [Paths -> Ages]
      /\ sensors' \in [Paths -> Ages] /\ \A p \in Paths : sensors'[p] = "none"
  BY DEF BeginTick, SessionCoherent, TypeOK, Aged, Ages, Unread
<1>2. TypeOK'
  <2>1. retried_after_unauth' \in BOOLEAN
    BY Zenon DEF BeginTick
  <2> QED
    BY <1>1, <2>1
       DEF BeginTick, SessionCoherent, TypeOK, Labels, kMaxRpcAttempts, sessionVars
<1>3. SessionCoherent'
  BY <1>2 DEF BeginTick, SessionCoherent, sessionVars
<1>4. NothingStale'
  BY <1>1 DEF BeginTick, NothingStale, Collecting
<1>5. Spent' /\ RpcBudget'
  BY DEF BeginTick, Spent, RpcBudget, kMaxRpcAttempts
<1> QED
  BY <1>3, <1>4, <1>5

\* IInv is kept by an attempt of update_signals.
LEMMA UpdateSignalsIInv ==
    ASSUME IInv, UpdateSignals
    PROVE  IInv'
<1> USE DEF IInv
<1>1. TypeOK'
  <2>1. retried_after_unauth' \in BOOLEAN /\ registered_' \in BOOLEAN
    BY Zenon DEF UpdateSignals, ForgetSession, SessionCoherent, TypeOK, sessionVars
  <2>2. /\ pending_commands_' \subseteq {"earlier", "this"}
        /\ signal_cache_' \in [Paths -> Ages] /\ to_read' \subseteq Paths
    BY DEF UpdateSignals, SessionCoherent, TypeOK, ReplaceCommands, InvalidateCache,
           Unread, Ages
  <2>3. {attempt', reg_attempt'} \subseteq 0 .. (kMaxRpcAttempts - 1) /\ rpcs' \in Nat
    BY DEF UpdateSignals, SessionCoherent, TypeOK, kMaxRpcAttempts, CanRetry
  <2>4. /\ pc' \in Labels /\ caller' \in {"update", "read"}
        /\ session_id_' \in {"none", "current", "lost"}
        /\ outcome' \in {"none", "error", "no_tick", "ok"}
    BY DEF UpdateSignals, SessionCoherent, TypeOK, Labels, sessionVars, ForgetSession
  <2> QED
    BY <2>1, <2>2, <2>3, <2>4 DEF UpdateSignals, SessionCoherent, TypeOK
<1>2. SessionCoherent'
  <2>1. \/ UNCHANGED <<registered_, session_id_>>
        \/ registered_' = FALSE /\ session_id_' = "none" /\ pc' = "reregister"
    BY Zenon DEF UpdateSignals, sessionVars, ForgetSession
  <2>2. pc = "update" /\ registered_
    BY DEF UpdateSignals, SessionCoherent
  <2> QED
    BY <1>1, <2>1, <2>2 DEF SessionCoherent
<1>3. NothingStale'
  BY DEF UpdateSignals, NothingStale, Collecting, ReplaceCommands, InvalidateCache, Unread
<1>4. Spent' /\ RpcBudget'
  BY DEF UpdateSignals, SessionCoherent, TypeOK, Spent, RpcBudget, kMaxRpcAttempts, CanRetry
<1> QED
  BY <1>2, <1>3, <1>4

\* IInv is kept by an attempt of read_signal.
LEMMA ReadSignalIInv ==
    ASSUME IInv, ReadSignal
    PROVE  IInv'
<1> USE DEF IInv
<1>0. NextPath \in to_read /\ NextPath \in Paths
  BY DEF ReadSignal, NextPath, SessionCoherent, TypeOK
<1>1. /\ signal_cache_' \in [Paths -> Ages] /\ sensors' \in [Paths -> Ages]
      /\ \A p \in Paths : signal_cache_'[p] # "earlier" /\ sensors'[p] # "earlier"
  <2> HIDE DEF NextPath
  <2> QED
    BY <1>0 DEF ReadSignal, PathDone, SessionCoherent, TypeOK, NothingStale, Collecting, Ages
<1>2. TypeOK'
  <2>1. retried_after_unauth' \in BOOLEAN
    BY Zenon DEF ReadSignal, PathDone, SessionCoherent, TypeOK
  <2> QED
    BY <1>1, <2>1 DEF ReadSignal, PathDone, SessionCoherent, TypeOK, Labels,
                      kMaxRpcAttempts, sessionVars, CanRetry
<1>3. SessionCoherent'
  BY <1>2 DEF ReadSignal, PathDone, SessionCoherent, sessionVars
<1>4. NothingStale'
  BY <1>1 DEF ReadSignal, NothingStale, Collecting
<1>5. Spent' /\ RpcBudget'
  BY DEF ReadSignal, PathDone, SessionCoherent, TypeOK, Spent, RpcBudget, kMaxRpcAttempts,
         CanRetry
<1> QED
  BY <1>3, <1>4, <1>5

\* IInv is kept by an attempt of try_reregister_session.
LEMMA ReregisterIInv ==
    ASSUME IInv, TryReregisterSession
    PROVE  IInv'
<1> USE DEF IInv
<1>1. /\ sensors' \in [Paths -> Ages]
      /\ \A p \in Paths : sensors'[p] # "earlier"
  BY DEF TryReregisterSession, Reregistered, NotReregistered, PathDone, SessionCoherent,
         TypeOK, NothingStale, Ages
<1>2. TypeOK'
  <2>1. retried_after_unauth' \in BOOLEAN /\ registered_' \in BOOLEAN
    BY Zenon DEF TryReregisterSession, Reregistered, NotReregistered, PathDone,
                 AdoptSession, SessionCoherent, TypeOK, sessionVars
  <2> QED
    BY <1>1, <2>1 DEF TryReregisterSession, Reregistered, NotReregistered, PathDone,
                      AdoptSession, SessionCoherent, TypeOK, Labels, kMaxRpcAttempts,
                      sessionVars, CanRetry
<1>3. SessionCoherent'
  BY <1>2 DEF TryReregisterSession, Reregistered, NotReregistered, PathDone, AdoptSession,
              SessionCoherent, TypeOK, sessionVars
<1>4. NothingStale'
  BY <1>1 DEF TryReregisterSession, Reregistered, NotReregistered, PathDone, NothingStale,
              Collecting
<1>5. Spent' /\ RpcBudget'
  <2>1. /\ pc = "reregister" /\ retried_after_unauth
        /\ rpcs' = rpcs + 1 /\ rpcs <= attempt + 1 + reg_attempt
        /\ attempt \in 0 .. 1 /\ reg_attempt \in 0 .. 1 /\ rpcs \in Nat
    BY DEF TryReregisterSession, SessionCoherent, TypeOK, Spent, kMaxRpcAttempts
  <2>2. \/ /\ attempt' = attempt + 1 /\ pc' = caller
           /\ UNCHANGED retried_after_unauth
        \/ pc' = "idle"
        \/ pc' = "read" /\ attempt' = 0
        \/ /\ reg_attempt + 1 < kMaxRpcAttempts /\ reg_attempt' = reg_attempt + 1
           /\ UNCHANGED <<pc, attempt, retried_after_unauth>>
    BY Zenon DEF TryReregisterSession, Reregistered, NotReregistered, PathDone, CanRetry
  <2>3. caller \in {"update", "read"}
    BY DEF SessionCoherent, TypeOK
  <2> QED
    <3>1. CASE attempt' = attempt + 1 /\ pc' = caller /\ UNCHANGED retried_after_unauth
      BY <2>1, <2>3, <3>1 DEF Spent, RpcBudget, kMaxRpcAttempts
    <3>2. CASE pc' = "idle"
      BY <2>1, <3>2 DEF Spent, RpcBudget, kMaxRpcAttempts
    <3>3. CASE pc' = "read" /\ attempt' = 0
      BY <2>1, <3>3 DEF Spent, RpcBudget, kMaxRpcAttempts
    <3>4. CASE /\ reg_attempt + 1 < kMaxRpcAttempts /\ reg_attempt' = reg_attempt + 1
               /\ UNCHANGED <<pc, attempt, retried_after_unauth>>
      BY <2>1, <3>4 DEF Spent, RpcBudget, kMaxRpcAttempts
    <3> QED
      BY <2>2, <3>1, <3>2, <3>3, <3>4
<1> QED
  BY <1>3, <1>4, <1>5

\* IInv is kept by the end of a tick.
LEMMA DrainIInv ==
    ASSUME IInv, DrainCommands
    PROVE  IInv'
BY DEF IInv, DrainCommands, SessionCoherent, TypeOK, NothingStale, Collecting, Spent,
       RpcBudget, Labels, kMaxRpcAttempts, loopVars, sessionVars

\* The strengthened invariant of the client.
THEOREM Invariance == Spec => []IInv
<1>1. IInv /\ UNCHANGED vars => IInv'
  BY DEF IInv, SessionCoherent, TypeOK, NothingStale, Collecting, Spent, RpcBudget, vars,
         loopVars, sessionVars, resultVars
<1>2. IInv /\ [Next]_vars => IInv'
  BY <1>1, LifeIInv, BeginTickIInv, UpdateSignalsIInv, ReadSignalIInv, ReregisterIInv,
     DrainIInv DEF Next, Step
<1> QED
  BY <1>2, InitIInv, PTL DEF Spec

\* A TickResult holds readings and commands of its own tick only, for any
\* number of paths and however often the session is lost while they are read.
THEOREM ResultIsFresh == Spec => []TickResultIsFresh
<1>1. IInv => TickResultIsFresh
  BY DEF IInv, NothingStale, TickResultIsFresh
<1> QED
  BY <1>1, Invariance, PTL

\* registered_ and session_id_ stay in step, and no update is sent without a
\* session.
THEOREM SessionStaysCoherent == Spec => []SessionCoherent
<1>1. IInv => SessionCoherent
  BY DEF IInv
<1> QED
  BY <1>1, Invariance, PTL

\* At most four RPCs, each with its deadline, make up one update_signals or one
\* read_signal.
THEOREM BudgetHolds == Spec => []RpcBudget
<1>1. IInv => RpcBudget
  BY DEF IInv
<1> QED
  BY <1>1, Invariance, PTL

-----------------------------------------------------------------------------
(* The client implements the engine contract. *)

\* A tick in progress has nothing to show yet.
Unfinished == pc \in {"update", "read", "reregister"} => outcome = "none" /\ commands = {}

\* Unfinished is kept by every step: a result is completed by the step that
\* ends the tick.
LEMMA UnfinishedHolds == Spec => []Unfinished
<1>1. Init => Unfinished
  BY DEF Init, Unfinished
<1>2. Unfinished /\ [Next]_vars => Unfinished'
  <2> SUFFICES ASSUME Unfinished, [Next]_vars PROVE Unfinished'
    OBVIOUS
  <2> USE DEF Unfinished
  <2>1. CASE Connect \/ LoadConfig \/ RegisterProvider \/ Destroy \/ ServerChanges
    BY <2>1 DEF Connect, LoadConfig, RegisterProvider, Destroy, ServerChanges, resultVars,
                CanRetry
  <2>2. CASE BeginTick
    BY <2>2 DEF BeginTick
  <2>3. CASE UpdateSignals
    BY <2>3 DEF UpdateSignals
  <2>4. CASE ReadSignal
    BY <2>4 DEF ReadSignal
  <2>5. CASE TryReregisterSession
    BY <2>5 DEF TryReregisterSession, Reregistered, NotReregistered
  <2>6. CASE DrainCommands
    BY <2>6 DEF DrainCommands
  <2>7. CASE UNCHANGED vars
    BY <2>7 DEF vars, resultVars
  <2> QED
    BY <2>1, <2>2, <2>3, <2>4, <2>5, <2>6, <2>7 DEF Next, Step
<1> QED
  BY <1>1, <1>2, PTL DEF Spec

\* Startup, the destructor and the server.
LEMMA LifeRefines ==
    ASSUME IInv, IInv', Connect \/ LoadConfig \/ RegisterProvider \/ Destroy \/ ServerChanges
    PROVE  [Promised!Next]_Promised!vars
<1>1. UNCHANGED <<outcome, commands, sensors>>
  BY DEF Connect, LoadConfig, RegisterProvider, Destroy, ServerChanges, resultVars
<1>2. Result' = Result
  BY <1>1 DEF Result, Unread
<1>3. CASE Connect \/ LoadConfig \/ RegisterProvider
  <2>1. Phase = "starting" /\ Phase' \in {"starting", "ready", "closed"}
    BY <1>3 DEF Connect, LoadConfig, RegisterProvider, Phase
  <2> QED
    BY <1>1, <1>2, <2>1 DEF Promised!Next, Promised!Start, Promised!vars, Promised!result
<1>4. CASE Destroy
  <2>1. Phase = "ready" /\ Phase' = "closed"
    BY <1>4 DEF Destroy, Phase
  <2> QED
    BY <1>1, <1>2, <2>1 DEF Promised!Next, Promised!Close, Promised!result
<1>5. CASE ServerChanges
  <2>1. Phase' = Phase
    BY <1>5 DEF ServerChanges, Phase
  <2> QED
    BY <1>1, <1>2, <2>1 DEF Promised!vars
<1> QED
  BY <1>3, <1>4, <1>5

\* A tick that begins forgets the last result; an unregistered client refuses.
LEMMA BeginTickRefines ==
    ASSUME BeginTick
    PROVE  Promised!Next
<1>1. Phase = "ready" /\ Phase' \in {"ready", "ticking"}
  BY DEF BeginTick, Phase
<1>2. /\ \/ Phase' = "ticking" /\ outcome' = "none"
         \/ Phase' = "ready" /\ outcome' = "error"
      /\ commands' = {}
  <2>1. /\ commands' = {}
        /\ \/ pc' = "update" /\ outcome' = "none"
           \/ pc' = "idle" /\ outcome' = "error"
    BY DEF BeginTick
  <2> QED
    BY <2>1 DEF Phase
<1>3. Result' = Unread
  BY <1>2 DEF Result, Unread
<1> QED
  BY <1>1, <1>2, <1>3 DEF Promised!Next, Promised!BeginTick, Promised!Refuse, Promised!NoResult,
                    Promised!NoSensors, Unread

\* While RPCs are sent nothing shows, and a failure shows nothing.
LEMMA RpcRefines ==
    ASSUME IInv, IInv', Unfinished, UpdateSignals \/ ReadSignal \/ TryReregisterSession
    PROVE  [Promised!Next]_Promised!vars
<1>1. /\ Phase = "ticking" /\ outcome = "none" /\ commands = {} /\ Result = Unread
      /\ commands' = commands
  BY DEF UpdateSignals, ReadSignal, TryReregisterSession, Phase, Unfinished, Result
<1>2. \/ pc' \in {"update", "read", "reregister"} /\ outcome' = outcome
      \/ pc' = "idle" /\ outcome' \in {"error", "no_tick"}
  <2>1. caller \in {"update", "read"}
    BY DEF IInv, SessionCoherent, TypeOK
  <2>2. CASE UpdateSignals
    BY <2>2 DEF UpdateSignals
  <2>3. CASE ReadSignal
    BY <2>3 DEF ReadSignal, PathDone
  <2>4. CASE TryReregisterSession
    BY <2>1, <2>4 DEF TryReregisterSession, Reregistered, NotReregistered, PathDone
  <2> QED
    BY <2>2, <2>3, <2>4
<1>3. CASE pc' \in {"update", "read", "reregister"} /\ outcome' = outcome
  <2>1. Phase' = "ticking" /\ Result' = Unread
    BY <1>1, <1>3 DEF Phase, Result, Unread
  <2> QED
    BY <1>1, <1>3, <2>1 DEF Promised!vars
<1>4. CASE pc' = "idle" /\ outcome' \in {"error", "no_tick"}
  <2>1. Phase' = "ready" /\ Result' = Unread
    BY <1>4 DEF Phase, Result, Unread
  <2> QED
    BY <1>1, <1>4, <2>1 DEF Promised!Next, Promised!ReturnNothing, Promised!NoResult,
                            Promised!NoSensors, Unread
<1> QED
  BY <1>2, <1>3, <1>4

\* The step that takes the commands hands over the whole result, all of it of
\* this tick.
LEMMA DrainRefines ==
    ASSUME IInv, DrainCommands
    PROVE  Promised!Next
<1>1. Phase = "ticking" /\ Phase' = "ready" /\ outcome' = "ok" /\ Result' = sensors
  BY DEF DrainCommands, Phase, Result
<1>2. sensors \in [Paths -> {"none", "this"}]
  BY DEF IInv, SessionCoherent, TypeOK, NothingStale, Ages
<1>3. commands' \subseteq {"this"}
  BY DEF DrainCommands, IInv, SessionCoherent, TypeOK, NothingStale, Collecting
<1> QED
  BY <1>1, <1>2, <1>3 DEF Promised!Next, Promised!Return

\* The remote engine, with its sessions, retries and caches, is to the ticker
\* an engine that returns a whole result of this tick or none.
THEOREM Refinement == Spec => ImplementsEngineContract
<1>1. Init => Promised!Init
  BY DEF Init, Phase, Result, Promised!Init, Promised!NoSensors, Unread
<1>2. IInv /\ IInv' /\ Unfinished /\ [Next]_vars => [Promised!Next]_Promised!vars
  <2>1. UNCHANGED vars => UNCHANGED Promised!vars
    BY DEF vars, resultVars, Promised!vars, Phase, Result, Unread
  <2> QED
    BY <2>1, LifeRefines, BeginTickRefines, RpcRefines, DrainRefines DEF Next, Step
<1> QED
  BY <1>1, <1>2, Invariance, UnfinishedHolds, PTL
     DEF Spec, ImplementsEngineContract, Promised!Spec
=============================================================================
