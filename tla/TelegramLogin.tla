---------------------------- MODULE TelegramLogin ----------------------------
(***************************************************************************)
(* Logging an account in and binding it to an agent: request_telegram_     *)
(* code, verify_telegram_code, finalize_agent and the rebind in core/      *)
(* onboarding.py, over one row of agent_onboarding_sessions (integrations/ *)
(* database_onboarding.py, the trigger of supabase/migrations/             *)
(* 20261031163240_guard_telegram_login_lifecycle.sql) and the agent made   *)
(* from it (integrations/database_agent_store.py).                         *)
(*                                                                         *)
(* Requests overlap: a user repeats a step, or has two tabs.  A request    *)
(* keeps the row's auth_generation it has seen, and every change of the    *)
(* authorization makes a new one.  A generation is only ever compared with *)
(* the row's, so a request has in ref.gen whether they are still equal.    *)
(* A transaction is one step.  api_id and api_hash go with the phone       *)
(* number; a proxy that is reassigned is a check of the route that fails.  *)
(***************************************************************************)
EXTENDS Naturals, FiniteSets

CONSTANTS
  Request,      \* the requests that may be in progress
  Phone,        \* phone numbers, one account each
  Key,          \* authorization keys, that is, Telegram sessions
  None

ASSUME LoginAssumption == None \notin Phone \cup Key

VARIABLES
  row,          \* the row of agent_onboarding_sessions
  agent,        \* the agent with its telegram_sessions, None if there is none
  request,
  telegram      \* what Telegram knows of a key

vars == <<row, agent, request, telegram>>

LoginStatus == {"not_started", "code_requested", "password_required", "authorized"}
Code == [key : Key, phone : Phone]
Ref == [gen : BOOLEAN, completed : BOOLEAN]

Row == [status : LoginStatus, phone : Phone, key : Key \cup {None},
        code : Code \cup {None}, completed : BOOLEAN, applied : BOOLEAN,
        username : Phone \cup {None}]
Agent == [phone : Phone, key : Key, username : Phone \cup {None},
          status : {"authorized", "revoked"}]
Op == {"none", "code", "verify", "password", "finalize", "confirm"}
Place == {"idle", "load", "connect", "connected", "ask", "record", "name",
          "recordName", "commit", "check", "apply"}
RequestState == [op : Op, at : Place, phone : Phone \cup {None}, key : Key \cup {None},
                 code : Code \cup {None}, result : LoginStatus, ref : Ref]

TypeOK ==
  /\ row \in Row \cup {None}
  /\ agent \in Agent \cup {None}
  /\ request \in [Request -> RequestState]
  /\ telegram \in [Key -> [stage : {"new", "sent", "half", "in", "dead"},
                           phone : Phone \cup {None}]]

Idle == [op |-> "none", at |-> "idle", phone |-> None, key |-> None, code |-> None,
         result |-> "not_started", ref |-> [gen |-> FALSE, completed |-> FALSE]]

Init ==
  /\ row = None
  /\ agent = None
  /\ request = [q \in Request |-> Idle]
  /\ telegram = [k \in Key |-> [stage |-> "new", phone |-> None]]

-----------------------------------------------------------------------------
(* Generations.                                                            *)

At(q, op, at) == request[q].op \in op /\ request[q].at = at

\* ref.check(current), and the WHERE of _ref_conditions.
Check(q) ==
  /\ row # None
  /\ request[q].ref = [gen |-> TRUE, completed |-> row.completed]

GoesTo(q, at) == request' = [request EXCEPT ![q].at = at]
Ends(q) == request' = [request EXCEPT ![q] = Idle]

\* The row has a new generation, that q has seen and nobody else has.
NewGeneration(q, state) ==
  request' = [p \in Request |-> IF p = q THEN state
                                ELSE [request[p] EXCEPT !.ref.gen = FALSE]]

\* A transaction that finds another generation raises TelegramLoginStaleError,
\* and every await of a request may raise something else.
Raises(q) ==
  /\ request[q].op # "none"
  /\ Ends(q)
  /\ UNCHANGED <<row, agent, telegram>>

-----------------------------------------------------------------------------
(* request_telegram_code and start_rebind.                                 *)

Begins(q, op, at) ==
  [Idle EXCEPT !.op = op, !.at = at, !.ref = [gen |-> TRUE, completed |-> row'.completed]]

\* The row before a code was requested; the trigger forgets what a former
\* attempt has left.
NotStarted(phone, completed) ==
  [status |-> "not_started", phone |-> phone, key |-> None, code |-> None,
   completed |-> completed, applied |-> FALSE, username |-> None]

BeginLogin(q, phone) ==
  /\ request[q].op = "none"
  /\ IF row = None THEN agent = None ELSE ~row.completed
  /\ row' = NotStarted(phone, FALSE)
  /\ NewGeneration(q, Begins(q, "code", "load"))
  /\ UNCHANGED <<agent, telegram>>

BeginRebind(q) ==
  /\ request[q].op = "none"
  /\ agent # None
  /\ row' = NotStarted(agent.phone, TRUE)
  /\ NewGeneration(q, Begins(q, "code", "load"))
  /\ UNCHANGED <<agent, telegram>>

\* claim_verification: one verification at a time owns the row.
ClaimVerification(q, op) ==
  /\ request[q].op = "none"
  /\ row # None
  /\ row.status = IF op = "password" THEN "password_required" ELSE "code_requested"
  /\ row.key # None
  /\ op = "verify" => row.code # None
  /\ row' = [row EXCEPT !.applied = FALSE]
  /\ NewGeneration(q, Begins(q, op, "load"))
  /\ UNCHANGED <<agent, telegram>>

\* load_attempt: the client is built from the row that was read.
LoadAttempt(q) ==
  /\ At(q, {"code", "verify", "password"}, "load")
  /\ Check(q)
  /\ request' = [request EXCEPT ![q].at = "connect", ![q].phone = row.phone,
                                ![q].key = row.key, ![q].code = row.code]
  /\ UNCHANGED <<row, agent, telegram>>

InUse == {request[q].key : q \in Request}
           \cup (IF row = None THEN {} ELSE {row.key})
           \cup (IF agent = None THEN {} ELSE {agent.key})

\* check_attempt and connect(); a client without a session gets a new key.
Connect(q) ==
  /\ At(q, {"code", "verify", "password"}, "connect")
  /\ Check(q)
  /\ IF request[q].key # None
       THEN GoesTo(q, "connected") /\ UNCHANGED telegram
       ELSE \E k \in Key \ InUse :
              /\ request' = [request EXCEPT ![q].at = "connected", ![q].key = k]
              /\ telegram' = [telegram EXCEPT ![k] = [stage |-> "new", phone |-> None]]
  /\ UNCHANGED <<row, agent>>

\* check_attempt once more, just before the request to Telegram.
CheckAgain(q) ==
  /\ At(q, {"code", "verify", "password"}, "connected")
  /\ Check(q)
  /\ GoesTo(q, "ask")
  /\ UNCHANGED <<row, agent, telegram>>

-----------------------------------------------------------------------------
(* Telegram.                                                               *)

Answers(q, stage, phone, code, result) ==
  LET k == request[q].key IN
  /\ telegram' = [telegram EXCEPT ![k] = [stage |-> stage, phone |-> phone]]
  /\ request' = [request EXCEPT ![q].at = "record", ![q].code = code, ![q].result = result]
  /\ UNCHANGED <<row, agent>>

SendCode(q) ==
  /\ At(q, {"code"}, "ask")
  /\ LET k == request[q].key
         phone == request[q].phone
     IN Answers(q, "sent", phone, [key |-> k, phone |-> phone], "code_requested")

\* The code is good for the key and the number it was sent to, and once.
SignIn(q) ==
  /\ At(q, {"verify"}, "ask")
  /\ LET k == request[q].key
         phone == request[q].phone
     IN
       /\ telegram[k] = [stage |-> "sent", phone |-> phone]
       /\ request[q].code = [key |-> k, phone |-> phone]
       /\ \/ Answers(q, "in", phone, request[q].code, "authorized")
          \/ Answers(q, "half", phone, request[q].code, "password_required")

SignInWithPassword(q) ==
  /\ At(q, {"password"}, "ask")
  /\ LET k == request[q].key IN
       /\ telegram[k].stage = "half"
       /\ Answers(q, "in", telegram[k].phone, request[q].code, "authorized")

\* The session of the agent is revoked, and its runtime notices.
KeyDies(k) ==
  /\ telegram[k].stage = "in"
  /\ telegram' = [telegram EXCEPT ![k].stage = "dead"]
  /\ UNCHANGED <<row, agent, request>>

AgentRevoked ==
  /\ agent # None
  /\ telegram[agent.key].stage = "dead"
  /\ agent' = [agent EXCEPT !.status = "revoked"]
  /\ UNCHANGED <<row, request, telegram>>

-----------------------------------------------------------------------------
(* What came of it.                                                        *)

\* Mutant of RecordAuth: the UPDATE finds the row by its id alone.
RecordAuth_AnyGeneration(q) ==
  /\ At(q, {"code", "verify", "password"}, "record")
  /\ row # None
  /\ LET state == request[q] IN
       /\ row' = [row EXCEPT !.status = state.result, !.key = state.key, !.applied = FALSE,
                             !.code = IF state.op = "code" THEN state.code ELSE @]
       /\ NewGeneration(q, IF state.result = "authorized"
                             THEN [state EXCEPT !.at = "name", !.ref.gen = TRUE] ELSE Idle)
  /\ UNCHANGED <<agent, telegram>>

\* record_auth: only the attempt whose generation the row still has.
RecordAuth(q) ==
  /\ At(q, {"code", "verify", "password"}, "record")
  /\ Check(q)
  /\ LET state == request[q] IN
       /\ row' = [row EXCEPT !.status = state.result, !.key = state.key, !.applied = FALSE,
                             !.code = IF state.op = "code" THEN state.code ELSE @]
       /\ NewGeneration(q, IF state.result = "authorized"
                             THEN [state EXCEPT !.at = "name", !.ref.gen = TRUE] ELSE Idle)
  /\ UNCHANGED <<agent, telegram>>

\* check_attempt, then get_me() over the client that has just signed in.
FetchUsername(q) ==
  /\ At(q, {"verify", "password"}, "name")
  /\ Check(q)
  /\ GoesTo(q, "recordName")
  /\ UNCHANGED <<row, agent, telegram>>

\* Mutant of RecordUsername: any attempt that signed in writes its account's name.
RecordUsername_AnyGeneration(q) ==
  /\ At(q, {"verify", "password"}, "recordName")
  /\ row # None
  /\ row' = [row EXCEPT !.username = telegram[request[q].key].phone]
  /\ Ends(q)
  /\ UNCHANGED <<agent, telegram>>

RecordUsername(q) ==
  /\ At(q, {"verify", "password"}, "recordName")
  /\ Check(q)
  /\ row' = [row EXCEPT !.username = telegram[request[q].key].phone]
  /\ Ends(q)
  /\ UNCHANGED <<agent, telegram>>

-----------------------------------------------------------------------------
(* finalize_agent and the confirmation of a rebind.                        *)

\* get(): the row is authorized now.
BeginFinalize(q) ==
  /\ request[q].op = "none"
  /\ row # None
  /\ row.status = "authorized"
  /\ request' = [request EXCEPT ![q] = [Idle EXCEPT !.op = "finalize", !.at = "commit",
                   !.ref = [gen |-> TRUE, completed |-> row.completed]]]
  /\ UNCHANGED <<row, agent, telegram>>

\* Mutant of FinalizeOnboarding: what get() has read is not compared with the row.
FinalizeOnboarding_NoCheck(q) ==
  /\ At(q, {"finalize"}, "commit")
  /\ row # None
  /\ agent' = [phone |-> row.phone, key |-> row.key, username |-> row.username,
               status |-> "authorized"]
  /\ row' = [row EXCEPT !.completed = TRUE, !.applied = TRUE]
  /\ Ends(q)
  /\ UNCHANGED telegram

\* finalize_onboarding: a repeated one changes nothing.
FinalizeOnboarding(q) ==
  /\ At(q, {"finalize"}, "commit")
  /\ row # None
  /\ request[q].ref.gen
  /\ request[q].ref.completed => row.completed
  /\ row.status = "authorized"
  /\ IF agent = None
       THEN agent' = [phone |-> row.phone, key |-> row.key, username |-> row.username,
                      status |-> "authorized"]
       ELSE agent' = agent
  /\ row' = IF agent # None /\ row.completed THEN row
            ELSE [row EXCEPT !.completed = TRUE, !.applied = TRUE]
  /\ Ends(q)
  /\ UNCHANGED telegram

\* validate_rebind_to_agent, before the agent's runtime is stopped.
BeginConfirm(q) ==
  /\ request[q].op = "none"
  /\ row # None
  /\ row.completed
  /\ row.status = "authorized"
  /\ request' = [request EXCEPT ![q] = [Idle EXCEPT !.op = "confirm", !.at = "check",
                   !.ref = [gen |-> TRUE, completed |-> TRUE]]]
  /\ UNCHANGED <<row, agent, telegram>>

\* rebind_to_agent, when it is stopped.
ConfirmAgain(q) ==
  /\ At(q, {"confirm"}, "check")
  /\ Check(q)
  /\ row.status = "authorized"
  /\ GoesTo(q, "apply")
  /\ UNCHANGED <<row, agent, telegram>>

\* Mutant of ApplyRebind: a generation that was applied is applied again.
ApplyRebind_Again(q) ==
  /\ At(q, {"confirm"}, "apply")
  /\ agent # None
  /\ Check(q)
  /\ row.status = "authorized"
  /\ row.phone = agent.phone
  /\ agent' = [agent EXCEPT !.key = row.key, !.username = row.username,
                            !.status = "authorized"]
  /\ row' = [row EXCEPT !.applied = TRUE]
  /\ Ends(q)
  /\ UNCHANGED telegram

\* Mutant of ApplyRebind: the row is not compared with the agent's session.
ApplyRebind_AnyStatus(q) ==
  /\ At(q, {"confirm"}, "apply")
  /\ agent # None
  /\ row # None
  /\ row.key # None
  /\ agent' = [agent EXCEPT !.key = row.key, !.username = row.username,
                            !.status = "authorized"]
  /\ row' = [row EXCEPT !.applied = TRUE]
  /\ Ends(q)
  /\ UNCHANGED telegram

ApplyRebind(q) ==
  /\ At(q, {"confirm"}, "apply")
  /\ agent # None
  /\ Check(q)
  /\ row.status = "authorized"
  /\ row.phone = agent.phone
  /\ IF row.applied
       THEN UNCHANGED <<row, agent>>
       ELSE /\ agent' = [agent EXCEPT !.key = row.key, !.username = row.username,
                                      !.status = "authorized"]
            /\ row' = [row EXCEPT !.applied = TRUE]
  /\ Ends(q)
  /\ UNCHANGED telegram

\* delete_agent takes the row with it; the next login has a row of its own.
DeleteAgent ==
  /\ agent # None
  /\ agent' = None
  /\ row' = None
  /\ request' = [q \in Request |-> [request[q] EXCEPT !.ref.gen = FALSE]]
  /\ UNCHANGED telegram

-----------------------------------------------------------------------------

Step(q) ==
  \/ \E phone \in Phone : BeginLogin(q, phone)
  \/ BeginRebind(q)
  \/ \E op \in {"verify", "password"} : ClaimVerification(q, op)
  \/ LoadAttempt(q) \/ Connect(q) \/ CheckAgain(q)
  \/ SendCode(q) \/ SignIn(q) \/ SignInWithPassword(q)
  \/ RecordAuth(q) \/ FetchUsername(q) \/ RecordUsername(q)
  \/ BeginFinalize(q) \/ FinalizeOnboarding(q)
  \/ BeginConfirm(q) \/ ConfirmAgain(q) \/ ApplyRebind(q)
  \/ Raises(q)

Next ==
  \/ \E q \in Request : Step(q)
  \/ \E k \in Key : KeyDies(k)
  \/ AgentRevoked \/ DeleteAgent

Spec == Init /\ [][Next]_vars

-----------------------------------------------------------------------------
(* Properties.                                                             *)

\* Telegram has logged key k in to the account of the number phone.
LoggedIn(k, phone) ==
  k \in Key /\ telegram[k].phone = phone /\ telegram[k].stage \in {"in", "dead"}

\* The row tells of one attempt: its code, its key and its number belong to each
\* other whatever attempts overlapped, were repeated or came late.
RowIsOneAttempt ==
  row # None =>
    /\ row.status = "code_requested" => row.code = [key |-> row.key, phone |-> row.phone]
    /\ row.status = "password_required" =>
         row.key \in Key /\ telegram[row.key].phone = row.phone
    /\ row.status = "authorized" => LoggedIn(row.key, row.phone)

\* An agent works with a session that was logged in to the agent's own number.
AgentIsLoggedIn == agent # None => LoggedIn(agent.key, agent.phone)

\* The name that the dashboard shows is that of the account, or not yet known.
UsernameIsOfAccount ==
  agent # None => agent.username \in {None, agent.phone}

\* A confirmation that is repeated does not make a revoked session good again.
RevokedStaysRevoked ==
  [][agent # None /\ agent' # None /\ agent.status = "revoked" /\ agent'.status = "authorized"
       => agent'.key # agent.key]_vars
=============================================================================
