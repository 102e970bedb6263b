--------------------------- MODULE FluxGraphClient ---------------------------
(***************************************************************************)
(* The remote engine: RemoteEngine, FluxGraphAdapter and FluxGraphClient,    *)
(* driven by main() at startup and by the ticker thread afterwards.  One     *)
(* action is one RPC with the handling of its answer, so the server may      *)
(* change between any two of them.                                          *)
(*                                                                         *)
(* The FluxGraph server is external: healthy, it answers every RPC in time   *)
(* and keeps its sessions; otherwise any RPC may fail with a code that       *)
(* is_retryable_status accepts, or with another one, and sessions get lost.  *)
(* An update whose answer is lost looks like any retryable failure.         *)
(*                                                                         *)
(* Data abstraction: a reading or a command is tagged with its age, "this"   *)
(* when the server produced it for the tick in progress, "earlier" when it   *)
(* is left over from before; values, units and arguments are left out, and   *)
(* so is sim_time_sec_, which nothing reads.  reset and the file variant of  *)
(* load_config have no caller.                                              *)
(***************************************************************************)
EXTENDS Integers

CONSTANT Paths  \* edge targets of the graph that belong to this provider's devices

VARIABLES
    pc,                    \* what the client is doing
    attempt,               \* attempts used by the RPC loop in progress
    retried_after_unauth,
    reg_attempt,           \* attempts used by try_reregister_session
    caller,                \* who called try_reregister_session
    registered_,
    session_id_,           \* "none", "current", or "lost" by the server
    pending_commands_,     \* ages of the commands held
    signal_cache_,         \* path -> age of the cached reading, or "none"
    to_read,               \* paths the adapter has still to read
    sensors, commands,     \* the TickResult under construction, then returned
    outcome,               \* how the last tick ended
    healthy,               \* the state of the server
    rpcs                   \* history: RPCs of this update_signals or read_signal

loopVars == <<attempt, retried_after_unauth, reg_attempt, caller>>
sessionVars == <<registered_, session_id_>>
resultVars == <<to_read, sensors, commands, outcome>>
vars == <<pc, loopVars, sessionVars, pending_commands_, signal_cache_, resultVars,
          healthy, rpcs>>

kMaxRpcAttempts == 2

Ages == {"none", "earlier", "this"}
Labels == {"connect", "load_config", "register", "idle", "update", "reregister",
           "read", "closed"}
Unread == [p \in Paths |-> "none"]

TypeOK ==
    /\ pc \in Labels
    /\ {attempt, reg_attempt} \subseteq 0 .. (kMaxRpcAttempts - 1)
    /\ retried_after_unauth \in BOOLEAN
    /\ caller \in {"update", "read"}
    /\ registered_ \in BOOLEAN
    /\ session_id_ \in {"none", "current", "lost"}
    /\ pending_commands_ \subseteq {"earlier", "this"}
    /\ signal_cache_ \in [Paths -> Ages]
    /\ to_read \subseteq Paths
    /\ sensors \in [Paths -> Ages]
    /\ commands \subseteq {"earlier", "this"}
    /\ outcome \in {"none", "error", "no_tick", "ok"}
    /\ healthy \in BOOLEAN
    /\ rpcs \in Nat

Init ==
    /\ pc = "connect"
    /\ attempt = 0 /\ retried_after_unauth = FALSE /\ reg_attempt = 0
    /\ caller = "update"
    /\ registered_ = FALSE /\ session_id_ = "none"
    /\ pending_commands_ = {} /\ signal_cache_ = Unread
    /\ to_read = {} /\ sensors = Unread /\ commands = {} /\ outcome = "none"
    /\ healthy \in BOOLEAN
    /\ rpcs = 0

-----------------------------------------------------------------------------
(* The server *)

Failures == IF healthy THEN {} ELSE {"retryable", "fatal"}

\* Answers to LoadConfig and RegisterProvider, and to the two RPCs of a tick.
\* A refused registration or config is an answer with success() false.
PlainStatuses == Failures \cup {"ok"} \cup (IF healthy THEN {} ELSE {"refused"})
UpdateStatuses ==
    Failures \cup (IF session_id_ = "current" THEN {"ok"} ELSE {"unauthenticated"})
\* A read carries no session; "empty" is an answer without the signal.
ReadStatuses ==
    Failures \cup {"ok", "empty"}
    \cup (IF session_id_ = "current" THEN {} ELSE {"unauthenticated"})

\* The server degrades or heals, and may lose its sessions while degraded.
ServerChanges ==
    /\ healthy' = ~healthy
    /\ session_id_' \in {session_id_}
           \cup (IF healthy /\ session_id_ = "current" THEN {"lost"} ELSE {})
    /\ UNCHANGED <<pc, loopVars, registered_, pending_commands_, signal_cache_,
                   resultVars, rpcs>>

-----------------------------------------------------------------------------
(* Startup: the constructor, load_config_content, register_provider.  Any    *)
(* failure throws, and main() ends the process.                             *)

Connect ==
    /\ pc = "connect"
    /\ pc' \in {"load_config"} \cup (IF healthy THEN {} ELSE {"closed"})
    /\ UNCHANGED <<loopVars, sessionVars, pending_commands_, signal_cache_,
                   resultVars, healthy, rpcs>>

\* is_retryable_status, and an attempt left.
CanRetry(status, n) == status = "retryable" /\ n + 1 < kMaxRpcAttempts

LoadConfig ==
    /\ pc = "load_config"
    /\ \E status \in PlainStatuses :
          \/ /\ CanRetry(status, attempt)
             /\ attempt' = attempt + 1
             /\ UNCHANGED pc
          \/ /\ status # "ok" /\ ~CanRetry(status, attempt)
             /\ pc' = "closed" /\ UNCHANGED attempt
          \/ /\ status = "ok"
             /\ pc' = "register" /\ attempt' = 0
    \* A changed config drops registration, commands and cache: none yet.
    /\ UNCHANGED <<retried_after_unauth, reg_attempt, caller, sessionVars,
                   pending_commands_, signal_cache_, resultVars, healthy, rpcs>>

RegisterProvider ==
    /\ pc = "register"
    /\ \E status \in PlainStatuses :
          \/ /\ CanRetry(status, attempt)
             /\ attempt' = attempt + 1
             /\ UNCHANGED <<pc, sessionVars>>
          \/ /\ status # "ok" /\ ~CanRetry(status, attempt)
             /\ pc' = "closed" /\ UNCHANGED <<attempt, sessionVars>>
          \/ /\ status = "ok"
             /\ pc' = "idle" /\ attempt' = 0
             /\ registered_' = TRUE /\ session_id_' = "current"
    /\ UNCHANGED <<retried_after_unauth, reg_attempt, caller, pending_commands_,
                   signal_cache_, resultVars, healthy, rpcs>>

-----------------------------------------------------------------------------
(* RemoteEngine::tick *)

Aged(age) == IF age = "this" THEN "earlier" ELSE age

\* A tick begins: what is held from now on is left over.  An unregistered
\* client throws at once.
BeginTick ==
    /\ pc = "idle"
    /\ pending_commands_' = {Aged(a) : a \in pending_commands_}
    /\ signal_cache_' = [p \in Paths |-> Aged(signal_cache_[p])]
    /\ sensors' = Unread /\ commands' = {} /\ to_read' = {}
    /\ attempt' = 0 /\ retried_after_unauth' = FALSE /\ rpcs' = 0
    /\ \/ registered_ /\ pc' = "update" /\ outcome' = "none"
       \/ ~registered_ /\ pc' = "idle" /\ outcome' = "error"
    /\ UNCHANGED <<reg_attempt, caller, sessionVars, healthy>>

\* Mutant: the response's commands are added to what was pending.
MutantAddCommands(received) == pending_commands_ \cup received

\* The response's commands replace what was pending.
ReplaceCommands(received) == received

\* Mutant: the cache survives the tick.
MutantKeepCache == signal_cache_

\* invalidate_cache.
InvalidateCache == Unread

\* Mutant: a refused session is cleared but still counts as registered.
MutantForgetId ==
    /\ session_id_' = "none"
    /\ UNCHANGED registered_

\* The server no longer knows the session.
ForgetSession ==
    /\ session_id_' = "none"
    /\ registered_' = FALSE

\* One attempt of update_signals' loop.
UpdateSignals ==
    /\ pc = "update"
    /\ rpcs' = rpcs + 1
    /\ \E status \in UpdateStatuses :
          \/ /\ status = "ok"
             /\ \E received \in {{}, {"this"}}, tick_occurred \in BOOLEAN :
                  /\ pending_commands_' = ReplaceCommands(received)
                  /\ \/ /\ tick_occurred
                        /\ signal_cache_' = InvalidateCache
                        /\ to_read' = Paths /\ pc' = "read" /\ attempt' = 0
                        /\ retried_after_unauth' = FALSE
                        /\ UNCHANGED outcome
                     \/ /\ ~tick_occurred
                        /\ pc' = "idle" /\ outcome' = "no_tick"
                        /\ UNCHANGED <<signal_cache_, to_read, attempt,
                                       retried_after_unauth>>
             /\ UNCHANGED <<sessionVars, reg_attempt, caller>>
          \/ /\ status = "unauthenticated" /\ ~retried_after_unauth
             /\ ForgetSession
             /\ retried_after_unauth' = TRUE
             /\ pc' = "reregister" /\ reg_attempt' = 0 /\ caller' = "update"
             /\ UNCHANGED <<pending_commands_, signal_cache_, to_read, attempt, outcome>>
          \/ /\ CanRetry(status, attempt)
             /\ attempt' = attempt + 1
             /\ UNCHANGED <<pc, sessionVars, pending_commands_, signal_cache_, to_read,
                            retried_after_unauth, reg_attempt, caller, outcome>>
          \/ /\ status # "ok" /\ ~CanRetry(status, attempt)
             /\ ~(status = "unauthenticated" /\ ~retried_after_unauth)
             /\ pc' = "idle" /\ outcome' = "error"
             /\ UNCHANGED <<sessionVars, pending_commands_, signal_cache_, to_read,
                            attempt, retried_after_unauth, reg_attempt, caller>>
    /\ UNCHANGED <<sensors, commands, healthy>>

\* The next of the deduplicated paths, in the order of the graph file.
NextPath == CHOOSE p \in to_read : TRUE

\* Mutant: the path is not taken off the list.
MutantPathAgain(reading) ==
    /\ sensors' = [sensors EXCEPT ![NextPath] = reading]
    /\ to_read' = to_read
    /\ pc' = "read"
    /\ attempt' = 0 /\ retried_after_unauth' = FALSE

\* read_signal_value returned (nothing, for a reading "none"): on to the next
\* path, with a new RPC loop.
PathDone(reading) ==
    /\ sensors' = [sensors EXCEPT ![NextPath] = reading]
    /\ to_read' = to_read \ {NextPath}
    /\ pc' = "read"
    /\ attempt' = 0 /\ retried_after_unauth' = FALSE

\* One attempt of read_signal's loop; a cached path needs no RPC ("hit").
ReadSignal ==
    /\ pc = "read" /\ to_read # {}
    /\ \E status \in IF signal_cache_[NextPath] = "none" THEN ReadStatuses ELSE {"hit"} :
          /\ rpcs' = (IF attempt = 0 THEN 0 ELSE rpcs) + (IF status = "hit" THEN 0 ELSE 1)
          /\ \/ /\ status \in {"ok", "hit"}
                /\ signal_cache_' = [signal_cache_ EXCEPT
                                       ![NextPath] = IF status = "ok" THEN "this" ELSE @]
                /\ PathDone(signal_cache_'[NextPath])
                /\ UNCHANGED <<reg_attempt, caller>>
             \/ /\ status = "unauthenticated" /\ ~retried_after_unauth /\ registered_
                /\ retried_after_unauth' = TRUE
                /\ pc' = "reregister" /\ reg_attempt' = 0 /\ caller' = "read"
                /\ UNCHANGED <<signal_cache_, sensors, to_read, attempt>>
             \/ /\ CanRetry(status, attempt)
                /\ attempt' = attempt + 1
                /\ UNCHANGED <<pc, signal_cache_, sensors, to_read,
                               retried_after_unauth, reg_attempt, caller>>
             \/ /\ status \notin {"ok", "hit"} /\ ~CanRetry(status, attempt)
                /\ ~(status = "unauthenticated" /\ ~retried_after_unauth /\ registered_)
                /\ PathDone("none")
                /\ UNCHANGED <<signal_cache_, reg_attempt, caller>>
    /\ UNCHANGED <<sessionVars, pending_commands_, commands, outcome, healthy>>

\* Mutant: a new session starts the caller's attempts afresh.
MutantFreshAttempts ==
    /\ attempt' = 0
    /\ pc' = caller
    /\ UNCHANGED <<retried_after_unauth, to_read, sensors, outcome>>

\* try_reregister_session returned TRUE: "continue" spends an attempt of the
\* caller's loop.  After the last one update_signals throws and read_signal
\* gives up on the path.
Reregistered ==
    \/ /\ attempt + 1 < kMaxRpcAttempts
       /\ attempt' = attempt + 1
       /\ pc' = caller
       /\ UNCHANGED <<retried_after_unauth, to_read, sensors, outcome>>
    \/ /\ attempt + 1 >= kMaxRpcAttempts /\ caller = "update"
       /\ pc' = "idle" /\ outcome' = "error"
       /\ UNCHANGED <<attempt, retried_after_unauth, to_read, sensors>>
    \/ /\ attempt + 1 >= kMaxRpcAttempts /\ caller = "read"
       /\ PathDone("none")
       /\ UNCHANGED outcome

NotReregistered ==
    \/ /\ caller = "update"
       /\ pc' = "idle" /\ outcome' = "error"
       /\ UNCHANGED <<attempt, retried_after_unauth, to_read, sensors>>
    \/ /\ caller = "read"
       /\ PathDone("none")
       /\ UNCHANGED outcome

\* Mutant: the new session id is not stored.
MutantKeepOldId ==
    /\ registered_' = TRUE
    /\ session_id_' = "lost"

AdoptSession ==
    /\ registered_' = TRUE
    /\ session_id_' = "current"

\* One attempt of try_reregister_session's loop.
TryReregisterSession ==
    /\ pc = "reregister"
    /\ rpcs' = rpcs + 1
    /\ \E status \in PlainStatuses :
          \/ /\ status = "ok"
             /\ AdoptSession
             /\ Reregistered
             /\ UNCHANGED reg_attempt
          \/ /\ CanRetry(status, reg_attempt)
             /\ reg_attempt' = reg_attempt + 1
             /\ UNCHANGED <<pc, sessionVars, attempt, retried_after_unauth, to_read,
                            sensors, outcome>>
          \/ /\ status # "ok" /\ ~CanRetry(status, reg_attempt)
             /\ NotReregistered
             /\ UNCHANGED <<sessionVars, reg_attempt>>
    /\ UNCHANGED <<caller, pending_commands_, signal_cache_, commands, healthy>>

\* drain_commands, and the result of a successful tick.
DrainCommands ==
    /\ pc = "read" /\ to_read = {}
    /\ commands' = pending_commands_
    /\ pending_commands_' = {}
    /\ pc' = "idle" /\ outcome' = "ok"
    /\ UNCHANGED <<loopVars, sessionVars, signal_cache_, to_read, sensors, healthy, rpcs>>

\* The destructor, once the ticker is joined: unregister, ignoring the answer.
Destroy ==
    /\ pc = "idle"
    /\ pc' = "closed"
    /\ registered_' = FALSE /\ session_id_' = "none"
    /\ UNCHANGED <<loopVars, pending_commands_, signal_cache_, resultVars, healthy, rpcs>>

-----------------------------------------------------------------------------

Step == BeginTick \/ UpdateSignals \/ ReadSignal \/ TryReregisterSession \/ DrainCommands

Next == Connect \/ LoadConfig \/ RegisterProvider \/ Step \/ Destroy \/ ServerChanges

\* The ticker keeps ticking, and each RPC ends by its deadline at the latest.
Spec == Init /\ [][Next]_vars /\ WF_vars(Step)

-----------------------------------------------------------------------------
(* Properties *)

\* A TickResult is about the tick it reports.  Its sensors, "Sensor updates [...]
\* for the current tick" (simulation_engine.hpp:65), were all read after the
\* response that reported the tick, none comes from read_signal's cache of an
\* earlier one; its commands are those of that response, not those of an update
\* without a tick or of a tick that failed later.
TickResultIsFresh ==
    /\ outcome = "ok" => \A p \in Paths : sensors[p] # "earlier"
    /\ "earlier" \notin commands

\* Seen from the ticker the client is an engine like any other: a result appears
\* whole, at the return of the tick it is about, whatever the RPC loops collect
\* meanwhile, and nothing appears after a tick that failed half-way.
Phase ==
    CASE pc \in {"connect", "load_config", "register"} -> "starting"
      [] pc \in {"update", "read", "reregister"}       -> "ticking"
      [] pc = "idle"                                   -> "ready"
      [] pc = "closed"                                 -> "closed"
Result == IF outcome = "ok" THEN sensors ELSE Unread
Promised == INSTANCE EngineContract WITH phase <- Phase, sensors <- Result
ImplementsEngineContract == Promised!Spec

\* UpdateSignals is never sent without a session: registered_ and session_id_
\* are changed in five places, by two loops, and stay in step.
SessionCoherent ==
    /\ TypeOK
    /\ registered_ <=> session_id_ # "none"
    /\ pc = "update" => registered_

\* Retries nest (an RPC loop inside an RPC loop) and still add up to at most
\* four RPCs, each with a deadline: this bounds how long stop_physics may wait
\* for the ticker.
RpcBudget == rpcs <= 2 * kMaxRpcAttempts

\* A lost session is repaired: once the server is healthy for good, and unless
\* a re-registration failed before (an unregistered client never tries again),
\* ticks stop failing.
RecoversWhileRegistered ==
    <>[](healthy /\ (pc = "idle" => registered_))
       => <>[](pc = "idle" => outcome # "error")

\* A tick returns to the ticker whatever the server does meanwhile.
TickReturns == pc \in {"update", "read", "reregister"} ~> pc = "idle"
=============================================================================
