---------------------------- MODULE AgentManager ----------------------------
(***************************************************************************)
(* AgentManager (core/manager.py) and the lifecycle of its runtimes        *)
(* (MimicAgentRuntime.start, stop, close, leased_telegram_client in        *)
(* core/agent_runtime.py) for one agent.  Agents share nothing but locks   *)
(* that are not held across an await, so one agent is enough.              *)
(*                                                                         *)
(* asyncio switches tasks only at an await, so an action is the code of    *)
(* one task from an await to the next one.  Every operation below holds    *)
(* the agent's lock from Begin to Release: `job` is the coroutine that     *)
(* holds it, `step` its place in the manager's method and `at` its place   *)
(* in the runtime's.  Requests that wait for the lock have no state of     *)
(* their own and are free to come at any time.  What runs without the lock *)
(* interleaves with the job: remove_agent up to its shield, the turns of   *)
(* the runtimes, the warm-up task, the disconnect tasks, and Telegram.     *)
(* Init is a process that starts: what the database holds was left there   *)
(* by an earlier one.                                                      *)
(***************************************************************************)
EXTENDS TelegramTeardown

CONSTANTS
  DirectFallback,  \* AgentManager(proxy_direct_fallback=...)
  DatabaseFails,   \* writes of the status may fail
  HasWarmup,       \* the manager was given a warmup_history
  Requests         \* the operations that are requested, of those in Ops

VARIABLES
  agents,       \* _agents[agent_id], None if there is none
  removed,      \* agent_id \in _removed
  removal,      \* the runtime that the task in _removal_tasks[agent_id] closes
  job,          \* the holder of _agent_locks[agent_id]
  state,        \* r._state
  retired,      \* r._retired
  revoked,      \* r._session_revoked
  proxied,      \* r.config.telegram_proxy is not None
  current,      \* r.config.telegram_session_token is the one in the database
  turn,         \* the turn that runs on r
  warmup,       \* what the warm-up task does, and the runtime that it holds
  dbStatus,     \* agents.status
  dbRevoked,    \* telegram_sessions.authorization_status = "revoked"
  sessionDead,  \* Telegram rejects the session that the database holds
  inherited     \* history, read by no action: agents.status is what an earlier
                \* process left there, and no runtime of this one has run since

rtVars == <<state, retired, revoked, proxied, current, turn, warmup>>
regVars == <<agents, removed, removal>>
dbVars == <<dbStatus, dbRevoked, sessionDead, inherited>>
vars == <<conn, td, reg, agents, removed, removal, job, state, retired, revoked,
          proxied, current, turn, warmup, dbStatus, dbRevoked, sessionDead, inherited>>

RuntimeState == {"stopped", "starting", "running", "stopping", "error"}
Ops == {"none", "get", "start", "stop", "reload", "rebind", "remove", "account",
        "trigger", "create", "createSaved", "shutdown"}
Steps == {"get", "start", "fallback", "stop", "close", "lease", "apply", "save",
          "fail"}
Ats == {"load", "retry", "retryDisc", "retryWait", "enter", "await", "connect",
        "identify", "abort", "abortWait", "disc", "discWait", "again", "againWait", "settle",
        "use", "mark", "save"}
\* Exceptions, as far as the handlers tell them apart.
Failures == {"pending", "lifecycle", "notFound", "auth", "dead", "proxy", "other"}

ASSUME ManagerAssumption ==
  /\ DirectFallback \in BOOLEAN
  /\ DatabaseFails \in BOOLEAN
  /\ HasWarmup \in BOOLEAN
  /\ Requests \subseteq Ops

Job == [op : Ops, step : Steps, at : Ats, rt : Runtime \cup {None},
        was : BOOLEAN, val : RuntimeState \cup Failures]

NoJob == [op |-> "none", step |-> "get", at |-> "load", rt |-> None,
          was |-> FALSE, val |-> "stopped"]

\* handler: the turn of a single message, which runs in Telethon's handler task.
Turn == [at : {"idle", "busy", "marking", "marked", "leaving"}, handler : BOOLEAN]
NoTurn == [at |-> "idle", handler |-> FALSE]

\* The one task of WarmupService, as far as it works for this agent.
Work == [at : {"idle", "busy", "marking", "marked"}, rt : Runtime \cup {None}]
NoWork == [at |-> "idle", rt |-> None]

TypeOK ==
  /\ TeardownTypeOK
  /\ agents \in Runtime \cup {None}
  /\ removed \in BOOLEAN
  /\ removal \in Runtime \cup {None}
  /\ job \in Job
  /\ state \in [Runtime -> RuntimeState]
  /\ retired \in [Runtime -> BOOLEAN]
  /\ revoked \in [Runtime -> BOOLEAN]
  /\ proxied \in [Runtime -> BOOLEAN]
  /\ current \in [Runtime -> BOOLEAN]
  /\ turn \in [Runtime -> Turn]
  /\ warmup \in Work
  /\ dbStatus \in RuntimeState
  /\ dbRevoked \in BOOLEAN
  /\ sessionDead \in BOOLEAN
  /\ inherited \in BOOLEAN

\* A process starts: no runtime, and the rows that the one before it saved last.
Init ==
  /\ TeardownInit
  /\ agents = None
  /\ removed = FALSE
  /\ removal = None
  /\ job = NoJob
  /\ state = [r \in Runtime |-> "stopped"]
  /\ retired = [r \in Runtime |-> FALSE]
  /\ revoked = [r \in Runtime |-> FALSE]
  /\ proxied = [r \in Runtime |-> FALSE]
  /\ current = [r \in Runtime |-> FALSE]
  /\ turn = [r \in Runtime |-> NoTurn]
  /\ warmup = NoWork
  /\ dbStatus \in {"stopped", "running", "error"}
  /\ sessionDead \in BOOLEAN
  /\ dbRevoked \in BOOLEAN
  /\ dbRevoked => sessionDead
  /\ inherited = TRUE

-----------------------------------------------------------------------------
(* The job: where it goes next.                                            *)

At(step, at) == job.op # "none" /\ job.step = step /\ job.at = at
Stopping(at) ==
  job.op # "none" /\ job.step \in {"stop", "close", "fallback"} /\ job.at = at
Goto(at) == job' = [job EXCEPT !.at = at]
GotoStep(step, at) == job' = [job EXCEPT !.step = step, !.at = at]
Saving(step, status) ==
  job' = [job EXCEPT !.step = step, !.at = "save", !.val = status]
Release == job' = NoJob

\* retry_previous_telegram_teardown(wait=...): only what goes on to connect waits.
WaitsForPrevious == job.step = "start" \/ job.op = "reload"

\* The operation has its runtime x: the code after get_agent in each method.
\* trigger_message starts a runtime that does not run, unless its session is
\* revoked; the turn itself needs no lock.
Proceed(op, was, x, skipStart) ==
  LET Go(step, at) == job' = [op |-> op, step |-> step, at |-> at, rt |-> x,
                              was |-> was, val |-> "stopped"]
  IN CASE op \in {"start", "create"} -> Go("start", "retry")
       [] op = "trigger" ->
            IF skipStart THEN Release ELSE Go("start", "retry")
       [] op \in {"stop", "rebind"} -> Go("stop", "retry")
       [] op = "account" -> Go("lease", "await")
       [] op \in {"reload", "createSaved"} ->
            IF was THEN Go("start", "retry")
            ELSE IF op = "reload"
              THEN job' = [op |-> op, step |-> "save", at |-> "save", rt |-> x,
                           was |-> was, val |-> "stopped"]
              ELSE Release
       [] op \in {"remove", "shutdown"} -> Go("close", "retry")
       [] OTHER -> Release

\* Mutant of Fail: a reload that failed does not write the state it left behind.
Fail_NotSaved(kind, now) ==
  /\ UNCHANGED removal
  /\ IF job.op = "remove"
       THEN agents' = job.rt /\ removed' = FALSE /\ Saving("fail", now)
       ELSE UNCHANGED <<agents, removed>> /\ Release

\* An exception leaves the operation: what its except blocks put back and save.
\* `now` is the state of the job's runtime at that moment.
Fail(kind, now) ==
  /\ UNCHANGED removal
  /\ IF job.op = "remove"
       THEN /\ agents' = job.rt
            /\ removed' = FALSE
            /\ Saving("fail", now)
       ELSE /\ UNCHANGED <<agents, removed>>
            /\ CASE job.op = "reload" /\ ~removed -> Saving("fail", now)
                 [] job.op \in {"start", "trigger", "create", "createSaved"}
                      /\ job.step \in {"start", "fallback"}
                      /\ kind \notin {"pending", "lifecycle", "notFound"} ->
                      Saving("fail", "error")
                 [] job.op \in {"stop", "rebind"} /\ job.step = "stop"
                      /\ kind \notin {"lifecycle", "notFound"} ->
                      Saving("fail", now)
                 [] OTHER -> Release

Idle(r) == turn[r] = NoTurn

Garbage(r) ==
  /\ r \notin {agents, removal, job.rt, reg, warmup.rt}
  /\ Idle(r)

\* _build_runtime_for: a new runtime object, made from the configuration read now.
NewRuntime(r, proxy) ==
  /\ Garbage(r)
  /\ state' = [state EXCEPT ![r] = "stopped"]
  /\ retired' = [retired EXCEPT ![r] = FALSE]
  /\ revoked' = [revoked EXCEPT ![r] = FALSE]
  /\ proxied' = [proxied EXCEPT ![r] = proxy]
  /\ td' = [td EXCEPT ![r] = "none"]
  /\ agents' = r

\* Mutant of MarkRevoked: the UPDATE does not compare the session token.
MarkRevoked_AnyToken(x) ==
  /\ dbRevoked' = TRUE
  /\ dbStatus' = "error"
  /\ inherited' = FALSE
  /\ UNCHANGED sessionDead

\* UPDATE telegram_sessions SET revoked WHERE session_ciphertext = token, and
\* agents.status = error with it; an error of the database is swallowed.
MarkRevoked(x) ==
  /\ \/ /\ current[x]
        /\ dbRevoked' = TRUE
        /\ dbStatus' = "error"
        /\ inherited' = FALSE
     \/ /\ ~current[x] \/ DatabaseFails
        /\ UNCHANGED <<dbRevoked, dbStatus, inherited>>
  /\ UNCHANGED sessionDead

\* Telegram may reject the session x was built with: an older one at any time.
FoundDead(x) == current[x] => sessionDead

-----------------------------------------------------------------------------
(* Taking the lock, finding the runtime.                                   *)

\* get/start/stop/trigger/account/rebind: _get_agent_locked without an await.
BeginWith(op) ==
  /\ job = NoJob
  /\ op \in {"get", "start", "stop", "trigger", "account", "rebind"}
  /\ ~removed
  /\ IF agents = None
       THEN job' = [NoJob EXCEPT !.op = op]
       ELSE Proceed(op, FALSE, agents,
                    state[agents] = "running" \/ revoked[agents])
  /\ UNCHANGED <<teardownVars, regVars, rtVars, dbVars>>

\* create_saved_agent reads the configuration first; `was` is its start flag.
BeginCreateSaved(start) ==
  /\ job = NoJob
  /\ ~removed
  /\ job' = [NoJob EXCEPT !.op = "createSaved", !.was = start]
  /\ UNCHANGED <<teardownVars, regVars, rtVars, dbVars>>

\* create_agent(config, start=True): the restore at process start.  It forgets a
\* finished removal; the row of a removed agent is gone, so this is a new one.
BeginCreate(r, proxy) ==
  /\ job = NoJob
  /\ removal = None
  /\ agents = None
  /\ removed' = FALSE
  /\ NewRuntime(r, proxy)
  /\ current' = [q \in Runtime |-> q = r]
  /\ Proceed("create", FALSE, r, FALSE)
  /\ dbStatus' = IF removed THEN "stopped" ELSE dbStatus
  /\ dbRevoked' = (dbRevoked /\ ~removed)
  /\ inherited' = (inherited /\ ~removed)
  /\ UNCHANGED <<conn, reg, removal, turn, warmup, sessionDead>>

\* reload_agent of a runtime that is in memory; otherwise it returns at once.
BeginReload ==
  /\ job = NoJob
  /\ ~removed
  /\ agents # None
  /\ job' = [NoJob EXCEPT !.op = "reload", !.step = "close", !.at = "retry",
                          !.rt = agents,
                          !.was = state[agents] \in {"running", "starting"}]
  /\ UNCHANGED <<teardownVars, regVars, rtVars, dbVars>>

\* _close_agent of shutdown(), which has stopped the warm-up task before.
BeginShutdown ==
  /\ job = NoJob
  /\ agents # None
  /\ Proceed("shutdown", FALSE, agents, FALSE)
  /\ warmup' = NoWork
  /\ UNCHANGED <<teardownVars, regVars, state, retired, revoked, proxied, current,
                 turn, dbVars>>

\* remove_agent, which holds no agent lock: hide the agent at once and leave
\* its runtime to a task; a second request waits for the first one's task.
RemoveAgent ==
  /\ removal = None
  /\ removed' = TRUE
  /\ removal' = agents
  /\ agents' = None
  /\ UNCHANGED <<teardownVars, job, rtVars, dbVars>>

\* _finish_removal gets the lock.
BeginRemoval ==
  /\ job = NoJob
  /\ removal # None
  /\ Proceed("remove", FALSE, removal, FALSE)
  /\ UNCHANGED <<teardownVars, regVars, rtVars, dbVars>>

\* Mutant of Load: no second look at _removed after the await.
Load_NoRecheck(r, proxy) ==
  /\ At("get", "load")
  /\ agents = None
  /\ NewRuntime(r, proxy)
  /\ current' = [current EXCEPT ![r] = TRUE]
  /\ Proceed(job.op, job.was, r, FALSE)
  /\ UNCHANGED <<conn, reg, removed, removal, turn, warmup, dbVars>>

\* The configuration was read from the database: register the runtime, unless
\* the agent was removed meanwhile.
Load(r, proxy) ==
  /\ At("get", "load")
  /\ ~removed
  /\ agents = None
  /\ NewRuntime(r, proxy)
  /\ current' = [current EXCEPT ![r] = TRUE]
  /\ Proceed(job.op, job.was, r, FALSE)
  /\ UNCHANGED <<conn, reg, removed, removal, turn, warmup, dbVars>>

\* The row is gone, the read failed, the agent was removed, or (create_saved_
\* agent only) there is a runtime with this id already.
LoadFails ==
  /\ At("get", "load")
  /\ Fail(IF removed THEN "notFound" ELSE "other",
          IF job.rt = None THEN "stopped" ELSE state[job.rt])
  /\ UNCHANGED <<teardownVars, rtVars, dbVars>>

-----------------------------------------------------------------------------
(* retry_previous_telegram_teardown.                                       *)

AfterRetry == Goto("enter")

\* An earlier runtime's client is in the registry: repeat its disconnect if
\* that failed, wait for it if the caller is going to connect.
RetryPrevious ==
  /\ job.op # "none"
  /\ job.at = "retry"
  /\ IF reg \in {None, job.rt}
       THEN AfterRetry /\ UNCHANGED <<td, reg>>
       ELSE IF td[reg] = "failed"
         THEN Goto("retryDisc") /\ Disconnect(reg, TRUE)
         ELSE /\ UNCHANGED <<td, reg>>
              /\ IF WaitsForPrevious THEN Goto("retryWait") ELSE AfterRetry
  /\ UNCHANGED <<conn, regVars, rtVars, dbVars>>

\* The repeated disconnect ended, or STOP_STEP_TIMEOUT_SECONDS passed.
RetryDisconnected ==
  /\ job.op # "none"
  /\ job.at = "retryDisc"
  /\ IF reg \in Runtime /\ td[reg] = "failed"
       THEN Fail("other", state[job.rt])
       ELSE /\ IF WaitsForPrevious THEN Goto("retryWait") ELSE AfterRetry
            /\ UNCHANGED regVars
  /\ UNCHANGED <<teardownVars, rtVars, dbVars>>

RetryWaited ==
  /\ job.op # "none"
  /\ job.at = "retryWait"
  /\ IF TeardownClear
       THEN AfterRetry /\ UNCHANGED regVars
       ELSE Fail("pending", state[job.rt])
  /\ UNCHANGED <<teardownVars, rtVars, dbVars>>

-----------------------------------------------------------------------------
(* MimicAgentRuntime.start under _start_runtime.                           *)

\* What the caller of _start_runtime does after a start that worked.
Started ==
  IF removed
    THEN Fail("notFound", "running")
    ELSE /\ UNCHANGED regVars
         /\ IF job.op \in {"start", "trigger", "reload"}
              THEN Saving("save", "running")
              ELSE Release

EnterStart ==
  /\ At("start", "enter")
  /\ LET x == job.rt IN
       CASE retired[x] -> Fail("lifecycle", state[x]) /\ UNCHANGED state
         [] ~retired[x] /\ revoked[x] -> Fail("auth", state[x]) /\ UNCHANGED state
         [] ~retired[x] /\ ~revoked[x] /\ state[x] = "running" ->
              Started /\ UNCHANGED state
         [] OTHER ->
              /\ state' = [state EXCEPT ![x] = "starting"]
              /\ job' = [job EXCEPT !.at = "await", !.val = state[x]]
              /\ UNCHANGED regVars
  /\ UNCHANGED <<teardownVars, retired, revoked, proxied, current, turn, warmup, dbVars>>

\* _await_telegram_teardown let it through: connect.
StartConnects ==
  /\ At("start", "await")
  /\ TeardownClear
  /\ Connect(job.rt)
  /\ Goto("connect")
  /\ UNCHANGED <<regVars, rtVars, dbVars>>

\* It failed, or TELEGRAM_TEARDOWN_WAIT_SECONDS passed: the old state is back.
StartRefused ==
  /\ At("start", "await")
  /\ ~TeardownClear
  /\ state' = [state EXCEPT ![job.rt] = job.val]
  /\ Fail("pending", job.val)
  /\ UNCHANGED <<teardownVars, retired, revoked, proxied, current, turn, warmup, dbVars>>

\* is_user_authorized(): the session was not dead yet.
StartAuthorized ==
  /\ At("start", "connect")
  /\ ~(current[job.rt] /\ sessionDead)
  /\ Goto("identify")
  /\ UNCHANGED <<teardownVars, regVars, rtVars, dbVars>>

StartRuns ==
  /\ At("start", "identify")
  /\ state' = [state EXCEPT ![job.rt] = "running"]
  /\ Started
  /\ inherited' = FALSE
  /\ UNCHANGED <<teardownVars, retired, revoked, proxied, current, turn, warmup,
                 dbStatus, dbRevoked, sessionDead>>

\* connect, the authorization check or a later request of start() raised.
StartBreaks(kind) ==
  /\ At("start", "connect") \/ At("start", "identify")
  /\ kind \in {"dead", "proxy", "other"}
  /\ kind = "dead" => FoundDead(job.rt)
  /\ kind = "proxy" => proxied[job.rt]
  /\ state' = [state EXCEPT ![job.rt] = "stopping"]
  /\ job' = [job EXCEPT !.at = "abort", !.val = kind]
  /\ UNCHANGED <<teardownVars, regVars, retired, revoked, proxied, current, turn, warmup,
                 dbVars>>

\* _stop_resources of the except block; its own failure is only logged.
StartAborts ==
  /\ At("start", "abort")
  /\ Disconnect(job.rt, TRUE)
  /\ Goto("abortWait")
  /\ UNCHANGED <<conn, regVars, rtVars, dbVars>>

\* Mutant of StartAborted: the state is taken from the failure.
StartAborted_WrongState ==
  /\ At("start", "abortWait")
  /\ state' = [state EXCEPT ![job.rt] = job.val]
  /\ Fail("other", "error")
  /\ UNCHANGED <<teardownVars, retired, revoked, proxied, current, turn, warmup, dbVars>>

StartAborted ==
  /\ At("start", "abortWait")
  /\ state' = [state EXCEPT ![job.rt] = "error"]
  /\ revoked' = [revoked EXCEPT ![job.rt] = @ \/ job.val = "dead"]
  /\ CASE job.val = "dead" -> Goto("mark") /\ UNCHANGED regVars
       [] job.val = "proxy" /\ DirectFallback ->
            GotoStep("fallback", "enter") /\ UNCHANGED regVars
       [] OTHER -> Fail("other", "error")
  /\ UNCHANGED <<teardownVars, retired, proxied, current, turn, warmup, dbVars>>

StartMarksRevoked ==
  /\ At("start", "mark")
  /\ MarkRevoked(job.rt)
  /\ Fail("auth", state[job.rt])
  /\ UNCHANGED <<teardownVars, rtVars>>

-----------------------------------------------------------------------------
(* MimicAgentRuntime.stop and close.                                       *)

\* close() retires the runtime before it stops it.  A stopped runtime only
\* repeats a disconnect that is left over.
EnterStop ==
  /\ Stopping("enter")
  /\ LET x == job.rt IN
       /\ retired' = [retired EXCEPT ![x] = @ \/ job.step # "stop"]
       /\ IF state[x] = "stopped"
            THEN Goto("again") /\ UNCHANGED state
            ELSE Goto("disc") /\ state' = [state EXCEPT ![x] = "stopping"]
  /\ UNCHANGED <<teardownVars, regVars, revoked, proxied, current, turn, warmup, dbVars>>

StopAgain ==
  /\ Stopping("again")
  /\ IF td[job.rt] = "none"
       THEN UNCHANGED <<td, reg>>
       ELSE Disconnect(job.rt, TRUE)
  /\ Goto("againWait")
  /\ UNCHANGED <<conn, regVars, rtVars, dbVars>>

\* _stop_resources: scheduler, buffers and HTTP client get STOP_STEP_TIMEOUT_
\* SECONDS each; whatever they raise, the client is disconnected.
StopDisconnects ==
  /\ Stopping("disc")
  /\ Disconnect(job.rt, TRUE)
  /\ Goto("discWait")
  /\ UNCHANGED <<conn, regVars, rtVars, dbVars>>

\* Mutant of StopDisconnected: nothing bounds the wait for the disconnect task,
\* as without STOP_STEP_TIMEOUT_SECONDS.
StopDisconnected_NoTimeout ==
  /\ Stopping("discWait") \/ Stopping("againWait")
  /\ td[job.rt] # "pending"
  /\ LET x == job.rt
         now == IF job.at = "discWait" THEN "stopped" ELSE state[x]
     IN
       /\ state' = [state EXCEPT ![x] = now]
       /\ IF td[x] = "failed" THEN Fail("other", now)
          ELSE IF job.step # "stop" THEN Goto("settle") /\ UNCHANGED regVars
          ELSE IF removed THEN Fail("notFound", now)
          ELSE Saving("stop", "stopped") /\ UNCHANGED regVars
  /\ UNCHANGED <<teardownVars, retired, revoked, proxied, current, turn, warmup, dbVars>>

\* The disconnect ended or ran out of time; then the manager goes on.
StopDisconnected ==
  /\ Stopping("discWait") \/ Stopping("againWait")
  /\ LET x == job.rt
         now == IF job.at = "discWait" THEN "stopped" ELSE state[x]
     IN
       /\ state' = [state EXCEPT ![x] = now]
       /\ IF td[x] = "failed" THEN Fail("other", now)
          ELSE IF job.step # "stop" THEN Goto("settle") /\ UNCHANGED regVars
          ELSE IF removed THEN Fail("notFound", now)
          ELSE Saving("stop", "stopped") /\ UNCHANGED regVars
  /\ UNCHANGED <<teardownVars, retired, revoked, proxied, current, turn, warmup, dbVars>>

\* No turn of those that close() knows is under way: album flushes, deferred
\* flushes and _direct_turns.  It knows neither the turn of a handler nor what the
\* warm-up task has begun.
Settled(x) == Idle(x) \/ turn[x].handler

\* Mutant of ClosedForReload: the turns that are in flight are not waited for.
ClosedForReload_NoSettle ==
  /\ At("close", "settle")
  /\ job.op = "reload"
  /\ IF removed
       THEN Fail("notFound", state[job.rt])
       ELSE agents' = None /\ GotoStep("get", "load") /\ UNCHANGED <<removed, removal>>
  /\ UNCHANGED <<teardownVars, rtVars, dbVars>>

\* close() has let the turns end, cancelling those that took longer than
\* CLOSE_GRACE_SECONDS, and closes the model's client: reload_agent drops the
\* runtime and reads the configuration again.  The turn of a handler is not among
\* those: only the disconnect cancels it, and that may be under way still.
ClosedForReload ==
  /\ At("close", "settle")
  /\ job.op = "reload"
  /\ Settled(job.rt)
  /\ IF removed
       THEN Fail("notFound", state[job.rt])
       ELSE /\ agents' = None
            /\ GotoStep("get", "load")
            /\ UNCHANGED <<removed, removal>>
  /\ UNCHANGED <<teardownVars, rtVars, dbVars>>

ClosedForGood ==
  /\ At("close", "settle")
  /\ job.op \in {"remove", "shutdown"}
  /\ Settled(job.rt)
  /\ Release
  /\ removal' = IF job.op = "remove" THEN None ELSE removal
  /\ UNCHANGED <<teardownVars, agents, removed, rtVars, dbVars>>

\* _start_without_proxy replaces the closed runtime by one without the proxy.
FallBack(r) ==
  /\ At("fallback", "settle")
  /\ Settled(job.rt)
  /\ IF removed
       THEN /\ Fail("notFound", state[job.rt])
            /\ UNCHANGED <<td, rtVars>>
       ELSE /\ NewRuntime(r, FALSE)
            /\ current' = [current EXCEPT ![r] = current[job.rt]]
            /\ job' = [job EXCEPT !.step = "start", !.at = "enter", !.rt = r]
            /\ UNCHANGED <<removed, removal, turn, warmup>>
  /\ UNCHANGED <<conn, reg, dbVars>>

\* The model's aclose() raises.
CloseRaises ==
  /\ job.op # "none"
  /\ job.step \in {"close", "fallback"}
  /\ job.at = "settle"
  /\ Settled(job.rt)
  /\ Fail("other", state[job.rt])
  /\ UNCHANGED <<teardownVars, rtVars, dbVars>>

-----------------------------------------------------------------------------
(* Operations with the account: leased_telegram_client.                    *)

\* A running client is used as it is; otherwise a brief connection is opened.
Lease ==
  /\ At("lease", "await")
  /\ LET x == job.rt IN
       IF retired[x] \/ ~TeardownClear
         THEN Release /\ UNCHANGED teardownVars
       ELSE IF revoked[x]
         THEN Goto("mark") /\ UNCHANGED teardownVars
       ELSE /\ job' = [job EXCEPT !.at = "use", !.was = state[x] # "running"]
            /\ IF state[x] = "running" THEN UNCHANGED teardownVars ELSE Connect(x)
  /\ UNCHANGED <<regVars, rtVars, dbVars>>

\* The operation returned or raised.  `was`: the connection is a brief one.
LeaseUsed(kind) ==
  /\ At("lease", "use")
  /\ kind \in {"stopped", "other", "dead"}
  /\ kind = "dead" => FoundDead(job.rt)
  /\ IF job.was THEN job' = [job EXCEPT !.at = "disc", !.val = kind]
     ELSE IF kind = "dead" THEN Goto("mark")
     ELSE Release
  /\ UNCHANGED <<teardownVars, regVars, rtVars, dbVars>>

LeaseDisconnects ==
  /\ At("lease", "disc")
  /\ Disconnect(job.rt, FALSE)
  /\ Goto("discWait")
  /\ UNCHANGED <<conn, regVars, rtVars, dbVars>>

LeaseDisconnected ==
  /\ At("lease", "discWait")
  /\ IF job.val = "dead" THEN Goto("mark") ELSE Release
  /\ UNCHANGED <<teardownVars, regVars, rtVars, dbVars>>

\* mark_telegram_session_revoked, under the lifecycle lock.
LeaseMarksRevoked ==
  /\ At("lease", "mark")
  /\ MarkRevoked(job.rt)
  /\ revoked' = [revoked EXCEPT ![job.rt] = TRUE]
  /\ state' = [state EXCEPT ![job.rt] = "error"]
  /\ Release
  /\ UNCHANGED <<teardownVars, regVars, retired, proxied, current, turn, warmup>>

-----------------------------------------------------------------------------
(* Writes to the database.                                                 *)

\* _save_status, which may fail.  After confirm_telegram_rebind's stop comes
\* apply(); a failed removal leaves _removal_tasks only now.
Save(written) ==
  /\ job.op # "none"
  /\ job.at = "save"
  /\ written \/ DatabaseFails
  /\ dbStatus' = IF written THEN job.val ELSE dbStatus
  /\ inherited' = (inherited /\ ~written)
  /\ IF job.op = "rebind" /\ job.step = "stop" /\ written
       THEN GotoStep("apply", "enter")
       ELSE Release
  /\ removal' = IF job.op = "remove" THEN None ELSE removal
  /\ UNCHANGED <<teardownVars, agents, removed, rtVars, dbRevoked, sessionDead>>

\* apply(): the new session replaces the old one, unless this confirmation was
\* applied before; then reload_agent, unless the agent was removed.
ApplyRebind ==
  /\ At("apply", "enter")
  /\ \/ /\ current' = [r \in Runtime |-> FALSE]
        /\ dbRevoked' = FALSE
        /\ sessionDead' = FALSE
     \/ UNCHANGED <<current, dbRevoked, sessionDead>>
  /\ IF removed THEN Release
     ELSE job' = [job EXCEPT !.op = "reload", !.step = "close", !.at = "retry",
                    !.was = state[job.rt] \in {"running", "starting"}]
  /\ UNCHANGED <<teardownVars, regVars, state, retired, revoked, proxied, turn, warmup,
                 dbStatus, inherited>>

\* The agent was removed before apply(), or it raised: nothing was changed.
ApplyFails ==
  /\ At("apply", "enter")
  /\ Release
  /\ UNCHANGED <<teardownVars, regVars, rtVars, dbVars>>

-----------------------------------------------------------------------------
(* Turns: they hold neither the agent's lock nor the lifecycle lock.       *)

TurnBegins(x) ==
  /\ Idle(x)
  /\ state[x] = "running"
  /\ ~retired[x]
  /\ ~revoked[x]
  /\ \E handler \in BOOLEAN :
       turn' = [turn EXCEPT ![x] = [at |-> "busy", handler |-> handler]]
  /\ UNCHANGED <<teardownVars, regVars, job, state, retired, revoked, proxied,
                 current, warmup, dbVars>>

\* A request of the turn fails with a dead session: _revoke_dead_session sets
\* the flag, awaits the database and only then writes the state.
TurnFindsDead(x) ==
  /\ turn[x].at = "busy"
  /\ ~revoked[x]
  /\ FoundDead(x)
  /\ turn' = [turn EXCEPT ![x].at = "marking"]
  /\ revoked' = [revoked EXCEPT ![x] = TRUE]
  /\ UNCHANGED <<teardownVars, regVars, job, state, retired, proxied, current, warmup,
                 dbVars>>

TurnMarksRevoked(x) ==
  /\ turn[x].at = "marking"
  /\ MarkRevoked(x)
  /\ turn' = [turn EXCEPT ![x].at = "marked"]
  /\ UNCHANGED <<teardownVars, regVars, job, state, retired, revoked, proxied,
                 current, warmup>>

TurnSetsError(x) ==
  /\ turn[x].at = "marked"
  /\ state' = [state EXCEPT ![x] = "error"]
  /\ turn' = [turn EXCEPT ![x].at = "busy"]
  /\ UNCHANGED <<teardownVars, regVars, job, retired, revoked, proxied, current, warmup,
                 dbVars>>

\* The turn is over, or is cancelled on the runtime's way down: with a revoked
\* session it disconnects the client, otherwise nothing is left to do.
TurnEnds(x) ==
  /\ \/ turn[x].at = "busy"
     \/ /\ turn[x].at \in {"marking", "marked"}
        /\ \/ retired[x] \/ state[x] = "stopping"
           \/ turn[x].handler /\ td[x] = "pending"
  /\ IF revoked[x]
       THEN turn' = [turn EXCEPT ![x].at = "leaving"] /\ Disconnect(x, FALSE)
       ELSE turn' = [turn EXCEPT ![x] = NoTurn] /\ UNCHANGED <<td, reg>>
  /\ UNCHANGED <<conn, regVars, job, state, retired, revoked, proxied, current, warmup,
                 dbVars>>

\* That disconnect ended or ran out of time; its failure is only logged.
TurnLeaves(x) ==
  /\ turn[x].at = "leaving"
  /\ turn' = [turn EXCEPT ![x] = NoTurn]
  /\ UNCHANGED <<teardownVars, regVars, job, state, retired, revoked, proxied,
                 current, warmup, dbVars>>

-----------------------------------------------------------------------------
(* The warm-up task: send_warmup_opener and check_spambot of a runtime.  It *)
(* is in no set that close() waits for, no disconnect cancels it, and it    *)
(* looks at the runtime's state before it waits for the trigger lock only.  *)

WarmupBegins(x) ==
  /\ HasWarmup
  /\ warmup = NoWork
  /\ state[x] = "running"
  /\ ~revoked[x]
  /\ warmup' = [at |-> "busy", rt |-> x]
  /\ UNCHANGED <<teardownVars, regVars, job, state, retired, revoked, proxied,
                 current, turn, dbVars>>

\* It sent, or failed with an error that says nothing of the session.
WarmupEnds ==
  /\ warmup.at = "busy"
  /\ warmup' = NoWork
  /\ UNCHANGED <<teardownVars, regVars, job, state, retired, revoked, proxied,
                 current, turn, dbVars>>

\* _revoke_dead_session, whoever has found the session dead before.
WarmupFindsDead(x) ==
  /\ warmup = [at |-> "busy", rt |-> x]
  /\ FoundDead(x)
  /\ warmup' = [warmup EXCEPT !.at = "marking"]
  /\ revoked' = [revoked EXCEPT ![x] = TRUE]
  /\ UNCHANGED <<teardownVars, regVars, job, state, retired, proxied, current, turn,
                 dbVars>>

WarmupMarksRevoked(x) ==
  /\ warmup = [at |-> "marking", rt |-> x]
  /\ MarkRevoked(x)
  /\ warmup' = [warmup EXCEPT !.at = "marked"]
  /\ UNCHANGED <<teardownVars, regVars, job, state, retired, revoked, proxied,
                 current, turn>>

\* The check then disconnects the client, the opener leaves it connected; what
\* either still awaits is the disconnect or the event it writes.
WarmupSetsError(x) ==
  /\ warmup = [at |-> "marked", rt |-> x]
  /\ state' = [state EXCEPT ![x] = "error"]
  /\ Disconnect(x, FALSE) \/ UNCHANGED <<td, reg>>
  /\ warmup' = NoWork
  /\ UNCHANGED <<conn, regVars, job, retired, revoked, proxied, current, turn,
                 dbVars>>

-----------------------------------------------------------------------------
(* Telegram.                                                               *)

\* Before it ends well Telethon has cancelled its handlers and waited for them.
DisconnectEnds(x) ==
  /\ \/ DisconnectDone(x) /\ ~turn[x].handler
     \/ DisconnectFailed(x)
  /\ UNCHANGED <<regVars, job, rtVars, dbVars>>

\* The session is revoked by its user, or by Telegram.
SessionDies ==
  /\ ~sessionDead
  /\ sessionDead' = TRUE
  /\ UNCHANGED <<teardownVars, regVars, job, rtVars, dbStatus, dbRevoked,
                 inherited>>

-----------------------------------------------------------------------------

Begin ==
  \/ \E op \in Requests : BeginWith(op)
  \/ /\ "createSaved" \in Requests
     /\ \E start \in BOOLEAN : BeginCreateSaved(start)
  \/ /\ "create" \in Requests
     /\ \E r \in Runtime, proxy \in BOOLEAN : BeginCreate(r, proxy)
  \/ "reload" \in Requests /\ BeginReload
  \/ "shutdown" \in Requests /\ BeginShutdown

JobStep ==
  \/ \E r \in Runtime, proxy \in BOOLEAN : Load(r, proxy)
  \/ LoadFails
  \/ RetryPrevious \/ RetryDisconnected \/ RetryWaited
  \/ EnterStart \/ StartConnects \/ StartRefused \/ StartAuthorized \/ StartRuns
  \/ \E kind \in Failures : StartBreaks(kind)
  \/ StartAborts \/ StartAborted \/ StartMarksRevoked
  \/ EnterStop \/ StopAgain \/ StopDisconnects \/ StopDisconnected
  \/ ClosedForReload \/ ClosedForGood \/ CloseRaises
  \/ \E r \in Runtime : FallBack(r)
  \/ Lease \/ LeaseDisconnects \/ LeaseDisconnected \/ LeaseMarksRevoked
  \/ \E kind \in {"stopped", "other", "dead"} : LeaseUsed(kind)
  \/ \E written \in BOOLEAN : Save(written)
  \/ ApplyRebind \/ ApplyFails

TurnStep(x) ==
  \/ TurnBegins(x) \/ TurnFindsDead(x) \/ TurnMarksRevoked(x)
  \/ TurnSetsError(x) \/ TurnEnds(x) \/ TurnLeaves(x)

WarmupStep ==
  \/ WarmupEnds
  \/ \E x \in Runtime :
       \/ WarmupBegins(x) \/ WarmupFindsDead(x) \/ WarmupMarksRevoked(x)
       \/ WarmupSetsError(x)

Next ==
  \/ Begin \/ RemoveAgent \/ BeginRemoval \/ JobStep \/ WarmupStep
  \/ \E x \in Runtime : TurnStep(x) \/ DisconnectEnds(x)
  \/ SessionDies

Spec == Init /\ [][Next]_vars

\* asyncio runs every ready task, and each await of a job, a turn or the warm-up
\* task ends: the waits have timeouts, and a request to Telegram or the database
\* returns or raises.  asyncio.Lock is first in, first out, so the removal task gets
\* it although requests keep coming.  No disconnect is assumed ever to end.
FairSpec ==
  /\ Spec
  /\ WF_vars(JobStep)
  /\ SF_vars(BeginRemoval)
  /\ \A x \in Runtime :
       /\ WF_vars(TurnMarksRevoked(x) \/ TurnSetsError(x) \/ TurnEnds(x)
                    \/ TurnLeaves(x))
       /\ WF_vars(WarmupEnds \/ WarmupMarksRevoked(x) \/ WarmupSetsError(x))

-----------------------------------------------------------------------------
(* Properties.                                                             *)

\* Telegram never sees two connections of one agent's session, whatever
\* disconnect hangs, fails or is repeated while runtimes are replaced.
AtMostOneConnection == \A r, s \in Runtime : conn[r] /\ conn[s] => r = s

\* No connection is lost: a connected client belongs to a runtime that somebody
\* will still close, or that the registry knows.
NoOrphanConnection ==
  \A r \in Runtime : conn[r] => r \in {agents, removal, job.rt, reg}

\* No turn works for r any more, but the one of a handler that the disconnect in
\* the registry has not yet cancelled; and its client was told to disconnect, so
\* what the warm-up task began before, and close() does not wait for, has lost its
\* connection but for the time that this disconnect takes.
Quiet(r) ==
  /\ state[r] # "running"
  /\ Idle(r) \/ (turn[r].handler /\ reg = r)
  /\ conn[r] => reg = r

\* A runtime that the manager dropped begins no more work and has no turn at work,
\* and its client is connected only as long as the registry holds the disconnect
\* that is under way.  The warm-up task may still hold it, but what it does there
\* (it revokes, writes the state, even disconnects) opens or revives nothing.
DroppedIsInert == \A r \in Runtime \ {agents, removal, job.rt} : Quiet(r)

\* Once remove_agent has answered and the operation it overtook is over, no turn of
\* the agent is at work, nothing that is left keeps a connection but by a
\* disconnect that hangs, and no later request or warm-up action brings it back.
RemovedIsQuiet ==
  removed /\ removal = None /\ job = NoJob =>
    agents = None /\ \A r \in Runtime : Quiet(r)

\* A runtime that still works with the session of before a rebind never marks
\* the new session revoked.
FreshSessionNotRevoked == dbRevoked => sessionDead


\* What the manager writes keeps agents.status honest: when nobody operates on the
\* agent, "running" in the database means a running runtime, whatever the
\* operations that ended were and wherever they failed.  Only what an earlier
\* process left there may be wrong: "the database keeps the last-known state".
BadgeIsHonest ==
  \A r \in Runtime :
    /\ job = NoJob /\ agents = r /\ Idle(r) /\ ~inherited
    /\ ~retired[r] /\ ~revoked[r] /\ dbStatus = "running"
    => state[r] = "running"

\* "Restore running agents from database after restart": an agent that was
\* created with auto_start and works is one that the next process restores.
AutoStartIsRestored ==
  [][job.op = "createSaved" /\ job' = NoJob /\ agents' # None =>
       (state'[agents'] = "running" => dbStatus' = "running")]_vars

\* Every removal ends, even behind a disconnect that hangs.
RemovalEnds == removal # None ~> removal = None

\* The connections of the runtimes are one connection of the session.
Holder ==
  IF reg # None THEN reg
  ELSE IF \E r \in Runtime : conn[r] THEN CHOOSE r \in Runtime : conn[r]
  ELSE None

Session == INSTANCE SessionConnection WITH
  Client <- Runtime,
  NoClient <- None,
  holder <- Holder,
  closing <- reg # None

SessionIsExclusive == Session!Spec
=============================================================================
