-------------------------- MODULE TelegramTeardown --------------------------
(***************************************************************************)
(* The Telegram client connections of one agent and the registry of the    *)
(* disconnects that outlive the runtime that started them                  *)
(* (core/agent_runtime.py: _TelegramTeardown, _PENDING_TELEGRAM_TEARDOWNS, *)
(* _hold_telegram_teardown, _disconnect_telegram, _await_telegram_         *)
(* teardown).  Telegram revokes the key of a session that it sees on two   *)
(* connections, so a runtime may connect only when no earlier client of    *)
(* the agent is still closing.                                             *)
(*                                                                         *)
(* The operators here are the parts of steps: AgentManager composes them   *)
(* into the handlers.  The outcome of client.disconnect() is Telethon's.   *)
(***************************************************************************)
CONSTANTS
  Runtime,      \* identities of MimicAgentRuntime objects, reused once garbage
  None          \* Python's None: no runtime

ASSUME NoneAssumption == None \notin Runtime

VARIABLES
  conn,         \* conn[r]: the client of r is connecting or connected
  td,           \* td[r]: r._telegram_teardown, the last disconnect task of r
  reg           \* owner of _PENDING_TELEGRAM_TEARDOWNS[agent_id], None if absent

teardownVars == <<conn, td, reg>>

\* "none": no task; "pending": running; "failed": raised or cancelled;
\* "done": finished and the client is disconnected.
TeardownState == {"none", "pending", "failed", "done"}

TeardownTypeOK ==
  /\ conn \in [Runtime -> BOOLEAN]
  /\ td \in [Runtime -> TeardownState]
  /\ reg \in Runtime \cup {None}

TeardownInit ==
  /\ conn = [r \in Runtime |-> FALSE]
  /\ td = [r \in Runtime |-> "none"]
  /\ reg = None

-----------------------------------------------------------------------------

Succeeded(r) == td[r] = "done"

\* Mutant of TeardownClear: the caller waits for the disconnect task to end, but
\* takes its failure for an end too.
TeardownClear_IgnoresFailure == reg = None \/ (reg \in Runtime /\ td[reg] # "pending")

\* _await_telegram_teardown lets the caller connect.  Otherwise it waits for
\* the registered task and refuses when that fails or the wait runs out.
TeardownClear == reg = None \/ (reg \in Runtime /\ Succeeded(reg))

\* The owner that _hold_telegram_teardown leaves in the registry: the entry of
\* another runtime whose disconnect has not succeeded is never overwritten.
HeldBy(x) ==
  IF reg \in Runtime \ {x} /\ ~Succeeded(reg) THEN reg ELSE x

\* Mutant of Disconnect: the new task is not put into the registry.
Disconnect_NotHeld(x, retryFailed) ==
  IF td[x] = "none" \/ (retryFailed /\ td[x] = "failed")
    THEN td' = [td EXCEPT ![x] = "pending"] /\ reg' = reg
    ELSE UNCHANGED <<td, reg>>

\* _disconnect_telegram up to its await: start a disconnect task unless one is
\* there already; a failed one is repeated only on an explicit retry.
Disconnect(x, retryFailed) ==
  IF td[x] = "none" \/ (retryFailed /\ td[x] = "failed")
    THEN /\ td' = [td EXCEPT ![x] = "pending"]
         /\ reg' = HeldBy(x)
    ELSE UNCHANGED <<td, reg>>

\* The client connects: start() and leased_telegram_client() first forget the
\* previous disconnect task, then await connect().
Connect(x) ==
  /\ conn' = [conn EXCEPT ![x] = TRUE]
  /\ td' = [td EXCEPT ![x] = "none"]
  /\ reg' = reg

\* A disconnect task ends well; the release callback drops its own entry.
DisconnectDone(x) ==
  /\ td[x] = "pending"
  /\ td' = [td EXCEPT ![x] = "done"]
  /\ conn' = [conn EXCEPT ![x] = FALSE]
  /\ reg' = IF reg = x THEN None ELSE reg

\* Mutant of DisconnectFailed: the release callback does not look at the outcome.
DisconnectFailed_Releases(x) ==
  /\ td[x] = "pending"
  /\ td' = [td EXCEPT ![x] = "failed"]
  /\ reg' = IF reg = x THEN None ELSE reg
  /\ UNCHANGED conn

\* A disconnect task fails or is cancelled: the client may still be connected,
\* and the entry stays until its owner is told to try again.
DisconnectFailed(x) ==
  /\ td[x] = "pending"
  /\ td' = [td EXCEPT ![x] = "failed"]
  /\ UNCHANGED <<conn, reg>>
=============================================================================
