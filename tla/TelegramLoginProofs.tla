------------------------- MODULE TelegramLoginProofs -------------------------
(***************************************************************************)
(* Theorems about TelegramLogin, for any number of requests, numbers and   *)
(* keys.                                                                   *)
(*                                                                         *)
(* A generation is the argument: as long as a request's generation is the  *)
(* row's, what the request has read of the row is what the row says.  The  *)
(* other half is Telegram's side: what it knows of a key changes its       *)
(* number only while one request alone has the key.                        *)
(***************************************************************************)
EXTENDS TelegramLogin, TLAPS

Login == {"code", "verify", "password"}
Verifying == {"verify", "password"}

\* The places between load_attempt and the record of what Telegram answered.
Loaded == {"connect", "connected", "ask", "record"}
Connected == {"connected", "ask", "record"}
Named == {"name", "recordName"}

Current(r) == row # None /\ r.ref.gen

\* The places of each operation.
Places(op) ==
  CASE op = "none" -> {"idle"}
    [] op = "code" -> {"load"} \cup Loaded
    [] op \in Verifying -> {"load"} \cup Loaded \cup Named
    [] op = "finalize" -> {"commit"}
    [] op = "confirm" -> {"check", "apply"}

\* What a request knows is right in itself, whether or not the row has moved on.
Consistent(r) ==
  /\ r.at \in Places(r.op)
  /\ r.op = "code" /\ r.at \in {"load", "connect"} => r.key = None
  /\ r.at \in Connected \cup Named => r.key \in Key
  /\ r.at \in Loaded => r.phone \in Phone
  /\ r.op \in Verifying /\ r.at \in Loaded => r.key \in Key
  /\ r.op = "password" /\ r.at \in Loaded => telegram[r.key].phone = r.phone
  /\ r.at \in Named => LoggedIn(r.key, r.phone)

\* What Telegram has answered, as it is going to be recorded.
Answered(r) ==
  r.at = "record" =>
    CASE r.result = "code_requested" -> r.op = "code" /\ r.code = [key |-> r.key, phone |-> r.phone]
      [] r.result = "password_required" -> r.op # "code" /\ telegram[r.key].phone = r.phone
      [] r.result = "authorized" -> r.op # "code" /\ LoggedIn(r.key, r.phone)
      [] OTHER -> FALSE

\* A request of the row's generation has read the row as it is.
InStep(r) ==
  Current(r) =>
    /\ r.at \in Loaded \cup Named => r.phone = row.phone
    /\ r.op = "code" /\ r.at = "load" => row.key = None
    /\ r.op \in Verifying /\ r.at \in {"load"} \cup Loaded =>
         /\ row.status = IF r.op = "password" THEN "password_required" ELSE "code_requested"
         /\ row.key \in Key
         /\ r.at # "load" => r.key = row.key

\* The key of a request for a code is nobody else's until the answer is recorded.
OwnKey(q) ==
  request[q].op = "code" /\ request[q].at \in Connected =>
    /\ row # None => row.key # request[q].key
    /\ agent # None => agent.key # request[q].key
    /\ \A p \in Request \ {q} : request[p].key # request[q].key

\* Only an authorized row has been applied, and what was not applied is new.
Applied ==
  row # None =>
    /\ row.applied => row.status = "authorized"
    /\ agent # None /\ ~row.applied => row.key # agent.key

RowUsername == row # None => row.username \in {None, row.phone}

RequestOK(q) ==
  /\ Consistent(request[q]) /\ Answered(request[q])
  /\ InStep(request[q]) /\ OwnKey(q)

\* The inductive invariant.
IInv ==
  /\ TypeOK
  /\ RowIsOneAttempt /\ AgentIsLoggedIn /\ UsernameIsOfAccount
  /\ Applied /\ RowUsername
  /\ \A q \in Request : RequestOK(q)

-----------------------------------------------------------------------------
(* The pieces that steps are made of.                                      *)

\* A request of an earlier generation.
Outdated(r) == [r EXCEPT !.ref.gen = FALSE]

LEMMA IdleFields ==
  /\ Idle \in RequestState
  /\ Idle.op = "none" /\ Idle.at = "idle" /\ Idle.key = None /\ ~Idle.ref.gen
  BY DEF Idle, RequestState, Op, Place, LoginStatus, Ref

LEMMA OutdatedFields ==
  ASSUME NEW r \in RequestState
  PROVE  /\ Outdated(r) \in RequestState
         /\ ~Outdated(r).ref.gen
         /\ Outdated(r).op = r.op /\ Outdated(r).at = r.at /\ Outdated(r).phone = r.phone
         /\ Outdated(r).key = r.key /\ Outdated(r).code = r.code
         /\ Outdated(r).result = r.result
  BY DEF Outdated, RequestState, Ref

\* A step of q: nobody else's request changes but, if it makes a generation, in that.
Only(q) ==
  /\ request'[q] \in RequestState
  /\ request' \in [Request -> RequestState]
  /\ \A p \in Request \ {q} : request'[p] = request[p]

Alone(q) ==
  /\ request'[q] \in RequestState
  /\ request' \in [Request -> RequestState]
  /\ \A p \in Request \ {q} : request'[p] = Outdated(request[p])

LEMMA GoesToFacts ==
  ASSUME TypeOK, NEW q \in Request, NEW at \in Place, GoesTo(q, at)
  PROVE  Only(q) /\ request'[q] = [request[q] EXCEPT !.at = at]
  BY DEF TypeOK, GoesTo, Only, RequestState

LEMMA EndsFacts ==
  ASSUME TypeOK, NEW q \in Request, Ends(q)
  PROVE  Only(q) /\ request'[q] = Idle
  BY IdleFields DEF TypeOK, Ends, Only

LEMMA NewGenerationFacts ==
  ASSUME TypeOK, NEW q \in Request, NEW state \in RequestState, NewGeneration(q, state)
  PROVE  Alone(q) /\ request'[q] = state
<1>1. \A p \in Request \ {q} : request'[p] = Outdated(request[p])
  BY DEF NewGeneration, Outdated
<1>2. request'[q] = state
  BY DEF NewGeneration
<1>3. request' \in [Request -> RequestState]
  <2>1. \A p \in Request : request'[p] \in RequestState
    BY <1>1, <1>2, OutdatedFields DEF TypeOK
  <2> QED BY <2>1 DEF NewGeneration
<1> QED BY <1>1, <1>2, <1>3 DEF Alone

-----------------------------------------------------------------------------
(* What a step leaves as it was.                                           *)

\* The request for a code that is the only one to have its key.
Owner(q) == request[q].op = "code" /\ request[q].at \in Connected

\* Telegram does not forget whose account a key belongs to.
Keeps(k) ==
  /\ telegram'[k].phone = telegram[k].phone
  /\ telegram[k].stage \in {"in", "dead"} => telegram'[k].stage \in {"in", "dead"}

\* The part of the row that a generation protects.
RowKept ==
  row' # None => /\ row # None
                 /\ row'.phone = row.phone /\ row'.key = row.key /\ row'.status = row.status

\* A request that a step leaves alone, or makes one of an earlier generation, is
\* still right about itself, about Telegram and about the row.
LEMMA RequestKept ==
  ASSUME TypeOK, NEW p \in Request, RequestOK(p),
         request'[p] \in {request[p], Outdated(request[p])},
         request'[p].ref.gen => RowKept,
         request[p].key \in Key => Keeps(request[p].key)
  PROVE  (Consistent(request[p]) /\ Answered(request[p]) /\ InStep(request[p]))'
<1>1. request[p] \in RequestState
  BY DEF TypeOK
<1>2. /\ request'[p].op = request[p].op /\ request'[p].at = request[p].at
      /\ request'[p].phone = request[p].phone /\ request'[p].key = request[p].key
      /\ request'[p].code = request[p].code /\ request'[p].result = request[p].result
      /\ request'[p].ref.gen => request'[p] = request[p]
  BY <1>1, OutdatedFields
<1>3. request[p].key \in Key /\ LoggedIn(request[p].key, request[p].phone)
        => LoggedIn(request[p].key, request[p].phone)'
  BY <1>2 DEF LoggedIn, Keeps
<1>4. Consistent(request[p])'
  <2> DEFINE r == request[p]
  <2>1. Consistent(r) BY DEF RequestOK
  <2>2. r.at \in Named => LoggedIn(r.key, r.phone)'
    BY <1>3, <2>1 DEF Consistent
  <2>3. r.op = "password" /\ r.at \in Loaded => telegram'[r.key].phone = r.phone
    BY <2>1 DEF Consistent, Keeps, Verifying
  <2> QED BY <1>2, <2>1, <2>2, <2>3 DEF Consistent
<1>5. Answered(request[p])'
  <2>1. request[p].at = "record" => request[p].key \in Key
    BY DEF RequestOK, Consistent, Connected
  <2> QED BY <1>2, <1>3, <2>1 DEF RequestOK, Answered, Keeps
<1>6. InStep(request[p])'
  BY <1>2 DEF RequestOK, InStep, Current, RowKept
<1> QED BY <1>4, <1>5, <1>6

\* Where the keys of a step come from, when no new key is made.
KeysMove ==
  /\ \A p \in Request :
       /\ \/ request'[p].key \in {None, request[p].key}
          \/ row # None /\ request'[p].key = row.key
       /\ Owner(p)' => Owner(p) /\ request'[p].key = request[p].key
  /\ row' # None => \/ row'.key = None
                    \/ row # None /\ row'.key = row.key
                    \/ \E x \in Request : ~Owner(x)' /\ row'.key = request[x].key
  /\ agent' # None => \/ agent # None /\ agent'.key = agent.key
                      \/ row # None /\ agent'.key = row.key

\* Then the key of a request for a code stays its own.
LEMMA OwnKeysKept ==
  ASSUME KeysMove, \A q \in Request : RequestOK(q)
  PROVE  \A q \in Request : OwnKey(q)'
<1> SUFFICES ASSUME NEW q \in Request, Owner(q)'
             PROVE  /\ row' # None => row'.key # request'[q].key
                    /\ agent' # None => agent'.key # request'[q].key
                    /\ \A p \in Request \ {q} : request'[p].key # request'[q].key
  BY DEF OwnKey, Owner
<1>1. Owner(q) /\ request'[q].key = request[q].key
  BY DEF KeysMove
<1>2. request[q].key # None
  BY <1>1, LoginAssumption DEF RequestOK, Consistent, Owner
<1>3. /\ row # None => row.key # request[q].key
      /\ agent # None => agent.key # request[q].key
      /\ \A p \in Request \ {q} : request[p].key # request[q].key
  BY <1>1 DEF RequestOK, OwnKey, Owner
<1>4. row' # None => row'.key # request[q].key
  BY <1>2, <1>3 DEF KeysMove
<1>5. agent' # None => agent'.key # request[q].key
  BY <1>3 DEF KeysMove
<1>6. \A p \in Request \ {q} : request'[p].key # request[q].key
  BY <1>2, <1>3 DEF KeysMove
<1> QED BY <1>1, <1>4, <1>5, <1>6

\* The row and the agent are right as long as they and their keys are left alone.
LEMMA RowAndAgentKept ==
  ASSUME IInv, UNCHANGED <<row, agent>>,
         row # None /\ row.key \in Key => Keeps(row.key),
         agent # None => Keeps(agent.key)
  PROVE  (RowIsOneAttempt /\ AgentIsLoggedIn /\ UsernameIsOfAccount /\ Applied /\ RowUsername)'
<1>1. RowIsOneAttempt'
  BY DEF IInv, RowIsOneAttempt, LoggedIn, Keeps
<1>2. AgentIsLoggedIn'
  BY DEF IInv, AgentIsLoggedIn, LoggedIn, Keeps
<1> QED BY <1>1, <1>2 DEF IInv, UsernameIsOfAccount, Applied, RowUsername

-----------------------------------------------------------------------------
(* Steps that only move a request on.                                      *)

\* A request whose own facts are kept keeps the invariant.
LEMMA RequestMoves ==
  ASSUME IInv, NEW q \in Request, Only(q), UNCHANGED <<row, agent, telegram>>,
         (Consistent(request[q]) /\ Answered(request[q]) /\ InStep(request[q]))',
         \/ request'[q].key \in {None, request[q].key}
         \/ row # None /\ request'[q].key = row.key,
         Owner(q)' => Owner(q) /\ request'[q].key = request[q].key
  PROVE  IInv'
<1>1. TypeOK'
  BY DEF IInv, TypeOK, Only
<1>2. \A k : Keeps(k)
  BY DEF Keeps
<1>3. RowKept
  BY DEF RowKept
<1>4. \A p \in Request \ {q} :
        (Consistent(request[p]) /\ Answered(request[p]) /\ InStep(request[p]))'
  BY <1>2, <1>3, RequestKept DEF IInv, Only
<1>5. \A p \in Request : OwnKey(p)'
  <2>1. \A p \in Request \ {q} : Owner(p)' => Owner(p)
    BY DEF Only, Owner
  <2>2. KeysMove
    BY <2>1 DEF KeysMove, Only
  <2> QED BY <2>2, OwnKeysKept DEF IInv
<1>6. (RowIsOneAttempt /\ AgentIsLoggedIn /\ UsernameIsOfAccount /\ Applied /\ RowUsername)'
  BY <1>2, RowAndAgentKept
<1> QED BY <1>1, <1>4, <1>5, <1>6 DEF IInv, RequestOK

\* A request that is over knows nothing.
LEMMA IdleIsRight ==
  ASSUME NEW q \in Request, request'[q] = Idle
  PROVE  /\ (Consistent(request[q]) /\ Answered(request[q]) /\ InStep(request[q]))'
         /\ ~Owner(q)'
         /\ request'[q].key = None
  BY IdleFields DEF Consistent, Answered, InStep, Current, Owner, Places, Login, Verifying,
     Loaded, Connected, Named

LEMMA RaisesSafe ==
  ASSUME IInv, NEW q \in Request, Raises(q)
  PROVE  IInv'
<1>1. Only(q) /\ request'[q] = Idle /\ UNCHANGED <<row, agent, telegram>>
  BY EndsFacts DEF Raises, IInv
<1> QED BY <1>1, IdleIsRight, RequestMoves

\* The row of a current request is as the request has found it.
LEMMA CheckFacts ==
  ASSUME NEW q \in Request, Check(q)
  PROVE  row # None /\ request[q].ref.gen /\ Current(request[q])
  BY DEF Check, Current

LEMMA LoadAttemptSafe ==
  ASSUME IInv, NEW q \in Request, LoadAttempt(q)
  PROVE  IInv'
<1> DEFINE r == request[q]
           s == request'[q]
<1>1. r \in RequestState /\ row \in Row /\ Current(r)
  BY CheckFacts DEF IInv, TypeOK, LoadAttempt
<1>2. r.op \in Login /\ r.at = "load"
  BY DEF LoadAttempt, At, Login
<1>3. s = [r EXCEPT !.at = "connect", !.phone = row.phone, !.key = row.key, !.code = row.code]
  BY DEF IInv, TypeOK, LoadAttempt
<1>4. /\ s.op = r.op /\ s.at = "connect" /\ s.phone = row.phone /\ s.key = row.key
      /\ s.ref = r.ref
      /\ s \in RequestState
  BY <1>1, <1>3 DEF RequestState, Row, Place
<1>5. Only(q) /\ UNCHANGED <<row, agent, telegram>>
  BY <1>4 DEF IInv, TypeOK, LoadAttempt, Only
<1>6. InStep(r) /\ RowIsOneAttempt
  BY DEF IInv, RequestOK
<1>7. /\ r.op = "code" => row.key = None
      /\ r.op \in Verifying =>
           /\ row.key \in Key
           /\ row.status = IF r.op = "password" THEN "password_required" ELSE "code_requested"
  BY <1>1, <1>2, <1>6 DEF InStep
<1>8. r.op = "password" => telegram[row.key].phone = row.phone
  BY <1>1, <1>6, <1>7 DEF RowIsOneAttempt, Current, Verifying
<1>9. Consistent(request[q])'
  BY <1>1, <1>2, <1>4, <1>5, <1>7, <1>8
     DEF Consistent, Places, Row, Login, Verifying, Loaded, Connected, Named
<1>10. Answered(request[q])' /\ ~Owner(q)'
  BY <1>4 DEF Answered, Owner, Connected
<1>11. InStep(request[q])'
  BY <1>4, <1>5, <1>7 DEF InStep, Loaded, Current
<1> QED BY <1>1, <1>4, <1>5, <1>9, <1>10, <1>11, RequestMoves DEF Current

\* What a request keeps when it only goes to its next place.
LEMMA GoesToFields ==
  ASSUME TypeOK, NEW q \in Request, NEW at \in Place, GoesTo(q, at)
  PROVE  /\ Only(q)
         /\ request'[q].at = at /\ request'[q].op = request[q].op
         /\ request'[q].phone = request[q].phone /\ request'[q].key = request[q].key
         /\ request'[q].code = request[q].code /\ request'[q].result = request[q].result
         /\ request'[q].ref = request[q].ref
<1>1. Only(q) /\ request'[q] = [request[q] EXCEPT !.at = at]
  BY GoesToFacts
<1>2. request[q] \in RequestState
  BY DEF TypeOK
<1> QED BY <1>1, <1>2 DEF RequestState

\* A current request of a login has the row's number, and to verify also its key.
LEMMA CheckAgainSafe ==
  ASSUME IInv, NEW q \in Request, CheckAgain(q)
  PROVE  IInv'
<1> DEFINE r == request[q]
           s == request'[q]
<1>1. r.op \in Login /\ r.at = "connected" /\ UNCHANGED <<row, agent, telegram>>
  BY DEF CheckAgain, At, Login
<1>2. /\ Only(q) /\ s.at = "ask" /\ s.op = r.op /\ s.phone = r.phone /\ s.key = r.key
      /\ s.code = r.code /\ s.result = r.result /\ s.ref = r.ref
  BY GoesToFields DEF CheckAgain, Place, IInv
<1>3. Consistent(r) /\ InStep(r)
  BY DEF IInv, RequestOK
<1>4. Consistent(request[q])'
  BY <1>1, <1>2, <1>3
     DEF Consistent, Places, Login, Verifying, Loaded, Connected, Named
<1>5. Answered(request[q])'
  BY <1>2 DEF Answered
<1>6. InStep(request[q])'
  BY <1>1, <1>2, <1>3 DEF InStep, Loaded, Named, Current
<1>7. Owner(q)' => Owner(q)
  BY <1>1, <1>2 DEF Owner, Connected
<1> QED BY <1>1, <1>2, <1>4, <1>5, <1>6, <1>7, RequestMoves

LEMMA FetchUsernameSafe ==
  ASSUME IInv, NEW q \in Request, FetchUsername(q)
  PROVE  IInv'
<1> DEFINE r == request[q]
           s == request'[q]
<1>1. r.op \in Verifying /\ r.at = "name" /\ UNCHANGED <<row, agent, telegram>>
  BY DEF FetchUsername, At, Verifying
<1>2. /\ Only(q) /\ s.at = "recordName" /\ s.op = r.op /\ s.phone = r.phone /\ s.key = r.key
      /\ s.code = r.code /\ s.result = r.result /\ s.ref = r.ref
  BY GoesToFields DEF FetchUsername, Place, IInv
<1>3. Consistent(r) /\ InStep(r)
  BY DEF IInv, RequestOK
<1>4. LoggedIn(r.key, r.phone)
  BY <1>1, <1>3 DEF Consistent, Named
<1>5. LoggedIn(request[q].key, request[q].phone)'
  BY <1>1, <1>2, <1>4 DEF LoggedIn
<1>6. Consistent(request[q])'
  BY <1>1, <1>2, <1>3, <1>5
     DEF Consistent, Places, Login, Verifying, Loaded, Connected, Named
<1>7. Answered(request[q])' /\ ~Owner(q)'
  BY <1>2 DEF Answered, Owner, Connected
<1>8. InStep(request[q])'
  BY <1>1, <1>2, <1>3 DEF InStep, Loaded, Named, Current
<1> QED BY <1>1, <1>2, <1>6, <1>7, <1>8, RequestMoves

\* A finalization or a confirmation reads of the row what it needs when it acts.
LEMMA BeginFinalizeSafe ==
  ASSUME IInv, NEW q \in Request, BeginFinalize(q)
  PROVE  IInv'
<1> DEFINE s == request'[q]
<1>1. UNCHANGED <<row, agent, telegram>> /\ row \in Row
  BY DEF BeginFinalize, IInv, TypeOK
<1>2. s = [Idle EXCEPT !.op = "finalize", !.at = "commit",
                       !.ref = [gen |-> TRUE, completed |-> row.completed]]
  BY DEF BeginFinalize, IInv, TypeOK
<1>3. s = [op |-> "finalize", at |-> "commit", phone |-> None, key |-> None, code |-> None,
           result |-> "not_started", ref |-> [gen |-> TRUE, completed |-> row.completed]]
  BY <1>2 DEF Idle
<1>4. s.op = "finalize" /\ s.at = "commit" /\ s.key = None /\ s \in RequestState
  BY <1>1, <1>3 DEF RequestState, Op, Place, LoginStatus, Ref, Row
<1>5. Only(q)
  BY <1>4 DEF BeginFinalize, IInv, TypeOK, Only
<1>6. (Consistent(request[q]) /\ Answered(request[q]) /\ InStep(request[q]))' /\ ~Owner(q)'
  BY <1>4 DEF Consistent, Answered, InStep, Owner, Places, Login, Verifying, Loaded,
     Connected, Named
<1> QED BY <1>1, <1>4, <1>5, <1>6, RequestMoves

LEMMA BeginConfirmSafe ==
  ASSUME IInv, NEW q \in Request, BeginConfirm(q)
  PROVE  IInv'
<1> DEFINE s == request'[q]
<1>1. UNCHANGED <<row, agent, telegram>>
  BY DEF BeginConfirm
<1>2. s = [Idle EXCEPT !.op = "confirm", !.at = "check",
                       !.ref = [gen |-> TRUE, completed |-> TRUE]]
  BY DEF BeginConfirm, IInv, TypeOK
<1>3. s = [op |-> "confirm", at |-> "check", phone |-> None, key |-> None, code |-> None,
           result |-> "not_started", ref |-> [gen |-> TRUE, completed |-> TRUE]]
  BY <1>2 DEF Idle
<1>4. s.op = "confirm" /\ s.at = "check" /\ s.key = None /\ s \in RequestState
  BY <1>3 DEF RequestState, Op, Place, LoginStatus, Ref
<1>5. Only(q)
  BY <1>4 DEF BeginConfirm, IInv, TypeOK, Only
<1>6. (Consistent(request[q]) /\ Answered(request[q]) /\ InStep(request[q]))' /\ ~Owner(q)'
  BY <1>4 DEF Consistent, Answered, InStep, Owner, Places, Login, Verifying, Loaded,
     Connected, Named
<1> QED BY <1>1, <1>4, <1>5, <1>6, RequestMoves

LEMMA ConfirmAgainSafe ==
  ASSUME IInv, NEW q \in Request, ConfirmAgain(q)
  PROVE  IInv'
<1> DEFINE r == request[q]
           s == request'[q]
<1>1. r.op = "confirm" /\ r.at = "check" /\ UNCHANGED <<row, agent, telegram>>
  BY DEF ConfirmAgain, At
<1>2. Only(q) /\ s.at = "apply" /\ s.op = r.op /\ s.key = r.key
  BY GoesToFields DEF ConfirmAgain, Place, IInv
<1>3. (Consistent(request[q]) /\ Answered(request[q]) /\ InStep(request[q]))' /\ ~Owner(q)'
  BY <1>1, <1>2 DEF Consistent, Answered, InStep, Owner, Places, Login, Verifying, Loaded,
     Connected, Named
<1> QED BY <1>1, <1>2, <1>3, RequestMoves

-----------------------------------------------------------------------------
(* Telegram.                                                               *)

\* A step of one request in which Telegram changes what it knows of its key.
LEMMA TelegramMoves ==
  ASSUME IInv, TypeOK', NEW q \in Request, Only(q), UNCHANGED <<row, agent>>,
         (Consistent(request[q]) /\ Answered(request[q]) /\ InStep(request[q]))',
         \A p \in Request : OwnKey(p)',
         \A p \in Request \ {q} : request[p].key \in Key => Keeps(request[p].key),
         row # None /\ row.key \in Key => Keeps(row.key),
         agent # None => Keeps(agent.key)
  PROVE  IInv'
<1>1. RowKept
  BY DEF RowKept
<1>2. \A p \in Request \ {q} :
        (Consistent(request[p]) /\ Answered(request[p]) /\ InStep(request[p]))'
  BY <1>1, RequestKept DEF IInv, Only
<1>3. (RowIsOneAttempt /\ AgentIsLoggedIn /\ UsernameIsOfAccount /\ Applied /\ RowUsername)'
  BY RowAndAgentKept
<1> QED BY <1>2, <1>3 DEF IInv, RequestOK

\* A client with a session connects with it, one without gets a key that nobody has.
LEMMA ConnectSafe ==
  ASSUME IInv, NEW q \in Request, Connect(q)
  PROVE  IInv'
<1> DEFINE r == request[q]
           s == request'[q]
<1>1. r \in RequestState /\ row \in Row /\ Current(r)
  BY CheckFacts DEF IInv, TypeOK, Connect
<1>2. r.op \in Login /\ r.at = "connect" /\ UNCHANGED <<row, agent>>
  BY DEF Connect, At, Login
<1>3. Consistent(r) /\ InStep(r)
  BY DEF IInv, RequestOK
<1>4. CASE r.key # None
  <2>1. /\ Only(q) /\ s.at = "connected" /\ s.op = r.op /\ s.phone = r.phone /\ s.key = r.key
        /\ s.ref = r.ref /\ UNCHANGED telegram
    BY <1>4, GoesToFields DEF Connect, Place, IInv
  <2>2. r.op \in Verifying
    BY <1>2, <1>3, <1>4 DEF Consistent, Login, Verifying
  <2>3. Consistent(request[q])'
    BY <1>2, <1>3, <2>1, <2>2
       DEF Consistent, Places, Login, Verifying, Loaded, Connected, Named
  <2>4. Answered(request[q])' /\ ~Owner(q)'
    BY <2>1, <2>2 DEF Answered, Owner, Verifying
  <2>5. InStep(request[q])'
    BY <1>2, <1>3, <2>1 DEF InStep, Loaded, Named, Current
  <2> QED BY <1>2, <2>1, <2>3, <2>4, <2>5, RequestMoves
<1>5. CASE r.key = None
  <2>1. PICK k \in Key \ InUse :
          /\ request' = [request EXCEPT ![q].at = "connected", ![q].key = k]
          /\ telegram' = [telegram EXCEPT ![k] = [stage |-> "new", phone |-> None]]
    BY <1>5 DEF Connect
  <2>2. s = [r EXCEPT !.at = "connected", !.key = k]
    BY <2>1 DEF IInv, TypeOK
  <2>3. /\ s.at = "connected" /\ s.op = r.op /\ s.phone = r.phone /\ s.key = k
        /\ s.ref = r.ref /\ s \in RequestState
    BY <1>1, <2>2 DEF RequestState, Place
  <2>4. Only(q)
    BY <2>1, <2>3 DEF IInv, TypeOK, Only
  <2>5. /\ \A p \in Request : request[p].key # k
        /\ row # None => row.key # k
        /\ agent # None => agent.key # k
    BY DEF InUse
  <2>6. \A x \in Key \ {k} : Keeps(x)
    <3>1. telegram \in [Key -> [stage : {"new", "sent", "half", "in", "dead"},
                                phone : Phone \cup {None}]]
      BY DEF IInv, TypeOK
    <3> QED BY <2>1, <3>1 DEF Keeps
  <2>7. TypeOK'
    BY <1>2, <2>1, <2>4 DEF IInv, TypeOK, Only
  <2>8. r.op = "code"
    BY <1>2, <1>3, <1>5, LoginAssumption DEF Consistent, Login, Verifying, Loaded
  <2>9. Consistent(request[q])' /\ Answered(request[q])'
    BY <1>2, <1>3, <2>1, <2>3, <2>8
       DEF Consistent, Answered, Places, Login, Verifying, Loaded, Connected, Named
  <2>10. InStep(request[q])'
    BY <1>2, <1>3, <2>3, <2>8 DEF InStep, Loaded, Named, Current, Verifying
  <2>11. \A p \in Request : OwnKey(p)'
    <3>1. OwnKey(q)'
      BY <1>2, <2>3, <2>4, <2>5 DEF OwnKey, Only
    <3>2. ASSUME NEW p \in Request \ {q} PROVE OwnKey(p)'
      BY <1>2, <2>3, <2>4, <2>5, <3>2 DEF OwnKey, Only, IInv, RequestOK
    <3> QED BY <3>1, <3>2
  <2>12. agent # None => agent.key \in Key
    BY DEF IInv, TypeOK, Agent
  <2> QED BY <1>2, <2>4, <2>5, <2>6, <2>7, <2>9, <2>10, <2>11, <2>12, TelegramMoves
<1> QED BY <1>4, <1>5

\* What an answer of Telegram to q changes.
AnswerTo(q) ==
  /\ request' = [request EXCEPT ![q] = request'[q]]
  /\ telegram' = [telegram EXCEPT ![request[q].key] = telegram'[request[q].key]]
  /\ request'[q].at = "record" /\ request'[q].op = request[q].op
  /\ request'[q].phone = request[q].phone /\ request'[q].key = request[q].key
  /\ request'[q].ref = request[q].ref
  /\ UNCHANGED <<row, agent>>

\* An answer keeps what Telegram knows of other keys, and who has which key.
LEMMA AnswerFacts ==
  ASSUME IInv, NEW q \in Request, AnswerTo(q), request[q].at = "ask",
         request[q].key \in Key,
         request'[q] \in RequestState,
         telegram'[request[q].key] \in [stage : {"new", "sent", "half", "in", "dead"},
                                        phone : Phone \cup {None}]
  PROVE  /\ TypeOK' /\ Only(q)
         /\ \A x \in Key \ {request[q].key} : Keeps(x)
         /\ \A p \in Request : OwnKey(p)'
         /\ InStep(request[q])'
<1>1. TypeOK
  BY DEF IInv
<1>2. Only(q)
  BY <1>1 DEF AnswerTo, TypeOK, Only
<1>3. TypeOK'
  BY <1>1, <1>2 DEF AnswerTo, TypeOK, Only
<1>4. \A x \in Key \ {request[q].key} : Keeps(x)
  BY <1>1 DEF AnswerTo, TypeOK, Keeps
<1>5. \A p \in Request : OwnKey(p)'
  <2>1. \A p \in Request : Owner(p)' => Owner(p) /\ request'[p].key = request[p].key
    BY <1>2 DEF Only, AnswerTo, Owner, Connected
  <2>2. KeysMove
    BY <1>2, <2>1 DEF KeysMove, Only, AnswerTo
  <2> QED BY <2>2, OwnKeysKept DEF IInv
<1>6. InStep(request[q])'
  BY DEF AnswerTo, IInv, RequestOK, InStep, Loaded, Named, Verifying, Current
<1> QED BY <1>2, <1>3, <1>4, <1>5, <1>6

\* The code goes to the number for which it was requested, over the request's own key.
LEMMA SendCodeSafe ==
  ASSUME IInv, NEW q \in Request, SendCode(q)
  PROVE  IInv'
<1> DEFINE r == request[q]
           s == request'[q]
<1>1. /\ r.op = "code" /\ r.at = "ask" /\ Consistent(r) /\ InStep(r) /\ OwnKey(q)
      /\ r \in RequestState
  BY DEF SendCode, At, IInv, RequestOK, TypeOK
<1>2. r.key \in Key /\ r.phone \in Phone
  BY <1>1 DEF Consistent, Loaded, Connected
<1>3. /\ s = [r EXCEPT !.at = "record", !.code = [key |-> r.key, phone |-> r.phone],
                       !.result = "code_requested"]
      /\ telegram'[r.key] = [stage |-> "sent", phone |-> r.phone]
  BY <1>2 DEF SendCode, Answers, IInv, TypeOK
<1>4. /\ s.at = "record" /\ s.op = "code" /\ s.phone = r.phone /\ s.key = r.key
      /\ s.code = [key |-> r.key, phone |-> r.phone] /\ s.result = "code_requested"
      /\ s.ref = r.ref
      /\ s \in RequestState
  <2>1. [key |-> r.key, phone |-> r.phone] \in Code \cup {None}
    BY <1>2 DEF Code
  <2> QED BY <1>1, <1>3, <2>1 DEF RequestState, Place, LoginStatus
<1>5. AnswerTo(q)
  BY <1>1, <1>3, <1>4 DEF AnswerTo, SendCode, Answers, IInv, TypeOK
<1>6. /\ TypeOK' /\ Only(q) /\ InStep(request[q])'
      /\ \A x \in Key \ {r.key} : Keeps(x)
      /\ \A p \in Request : OwnKey(p)'
  <2>1. telegram'[r.key] \in [stage : {"new", "sent", "half", "in", "dead"},
                              phone : Phone \cup {None}]
    BY <1>2, <1>3
  <2> QED BY <1>1, <1>2, <1>4, <1>5, <2>1, AnswerFacts
<1>7. /\ \A p \in Request \ {q} : request[p].key # r.key
      /\ row # None => row.key # r.key
      /\ agent # None => agent.key # r.key
  BY <1>1 DEF OwnKey, Connected
<1>8. Consistent(request[q])' /\ Answered(request[q])'
  BY <1>2, <1>4 DEF Consistent, Answered, Places, Login, Verifying, Loaded, Connected, Named
<1>9. agent # None => agent.key \in Key
  BY DEF IInv, TypeOK, Agent
<1> QED BY <1>5, <1>6, <1>7, <1>8, <1>9, TelegramMoves DEF AnswerTo

\* An answer to a verification: the number stays that of the key.
LEMMA VerifiedSafe ==
  ASSUME IInv, NEW q \in Request, AnswerTo(q), request[q].at = "ask",
         request[q].op \in Verifying, request[q].key \in Key,
         telegram[request[q].key].phone = request[q].phone,
         telegram[request[q].key].stage \notin {"in", "dead"},
         request'[q] \in RequestState,
         \/ /\ request'[q].result = "authorized"
            /\ telegram'[request[q].key] = [stage |-> "in", phone |-> request[q].phone]
         \/ /\ request'[q].result = "password_required"
            /\ telegram'[request[q].key] = [stage |-> "half", phone |-> request[q].phone]
  PROVE  IInv'
<1> DEFINE r == request[q]
           s == request'[q]
<1>1. r.phone \in Phone
  BY DEF IInv, RequestOK, Consistent, Loaded
<1>2. /\ s.at = "record" /\ s.op = r.op /\ s.phone = r.phone /\ s.key = r.key
      /\ UNCHANGED <<row, agent>>
  BY DEF AnswerTo
<1>3. /\ TypeOK' /\ Only(q) /\ InStep(request[q])'
      /\ \A x \in Key \ {r.key} : Keeps(x)
      /\ \A p \in Request : OwnKey(p)'
  <2>1. telegram'[r.key] \in [stage : {"new", "sent", "half", "in", "dead"},
                              phone : Phone \cup {None}]
    BY <1>1
  <2> QED BY <2>1, AnswerFacts
<1>4. \A x \in Key : Keeps(x)
  BY <1>3 DEF Keeps
<1>5. Consistent(request[q])'
  BY <1>1, <1>2 DEF Consistent, Places, Login, Verifying, Loaded, Connected, Named
<1>6. Answered(request[q])'
  BY <1>2 DEF Answered, LoggedIn, Verifying
<1>7. agent # None => agent.key \in Key
  BY DEF IInv, TypeOK, Agent
<1> QED BY <1>2, <1>3, <1>4, <1>5, <1>6, <1>7, TelegramMoves

LEMMA SignInSafe ==
  ASSUME IInv, NEW q \in Request, SignIn(q)
  PROVE  IInv'
<1> DEFINE r == request[q]
           s == request'[q]
<1>1. /\ r.op \in Verifying /\ r.at = "ask" /\ Consistent(r) /\ r \in RequestState
      /\ telegram[r.key] = [stage |-> "sent", phone |-> r.phone]
  BY DEF SignIn, At, Verifying, IInv, RequestOK, TypeOK
<1>2. r.key \in Key
  BY <1>1 DEF Consistent, Connected
<1>3. \/ /\ s = [r EXCEPT !.at = "record", !.code = r.code, !.result = "authorized"]
         /\ telegram'[r.key] = [stage |-> "in", phone |-> r.phone]
      \/ /\ s = [r EXCEPT !.at = "record", !.code = r.code, !.result = "password_required"]
         /\ telegram'[r.key] = [stage |-> "half", phone |-> r.phone]
  BY <1>2 DEF SignIn, Answers, IInv, TypeOK
<1>4. /\ s.at = "record" /\ s.op = r.op /\ s.phone = r.phone /\ s.key = r.key
      /\ s.ref = r.ref /\ s \in RequestState
      /\ \/ /\ s.result = "authorized"
            /\ telegram'[r.key] = [stage |-> "in", phone |-> r.phone]
         \/ /\ s.result = "password_required"
            /\ telegram'[r.key] = [stage |-> "half", phone |-> r.phone]
  BY <1>1, <1>3 DEF RequestState, Place, LoginStatus
<1>5. AnswerTo(q)
  BY <1>1, <1>3, <1>4 DEF AnswerTo, SignIn, Answers, IInv, TypeOK
<1> QED BY <1>1, <1>2, <1>4, <1>5, VerifiedSafe

LEMMA SignInWithPasswordSafe ==
  ASSUME IInv, NEW q \in Request, SignInWithPassword(q)
  PROVE  IInv'
<1> DEFINE r == request[q]
           s == request'[q]
<1>1. /\ r.op = "password" /\ r.at = "ask" /\ Consistent(r) /\ r \in RequestState
      /\ telegram[r.key].stage = "half"
  BY DEF SignInWithPassword, At, IInv, RequestOK, TypeOK
<1>2. r.key \in Key /\ telegram[r.key].phone = r.phone
  BY <1>1 DEF Consistent, Connected, Loaded
<1>3. /\ s = [r EXCEPT !.at = "record", !.code = r.code, !.result = "authorized"]
      /\ telegram'[r.key] = [stage |-> "in", phone |-> r.phone]
  BY <1>2 DEF SignInWithPassword, Answers, IInv, TypeOK
<1>4. /\ s.at = "record" /\ s.op = r.op /\ s.phone = r.phone /\ s.key = r.key
      /\ s.ref = r.ref /\ s \in RequestState /\ s.result = "authorized"
  BY <1>1, <1>3 DEF RequestState, Place, LoginStatus
<1>5. AnswerTo(q)
  BY <1>1, <1>2, <1>3, <1>4 DEF AnswerTo, SignInWithPassword, Answers, IInv, TypeOK
<1> QED BY <1>1, <1>2, <1>3, <1>4, <1>5, VerifiedSafe DEF Verifying

\* A key that dies was logged in and still counts as such.
LEMMA KeyDiesSafe ==
  ASSUME IInv, NEW k \in Key, KeyDies(k)
  PROVE  IInv'
<1>1. UNCHANGED <<row, agent, request>>
  BY DEF KeyDies
<1>2. TypeOK' /\ \A x \in Key : Keeps(x)
  BY DEF KeyDies, IInv, TypeOK, Keeps
<1>3. RowKept
  BY <1>1 DEF RowKept
<1>4. \A p \in Request : (Consistent(request[p]) /\ Answered(request[p]) /\ InStep(request[p]))'
  BY <1>1, <1>2, <1>3, RequestKept DEF IInv
<1>5. \A p \in Request : OwnKey(p)'
  BY <1>1 DEF OwnKey, IInv, RequestOK
<1>6. (RowIsOneAttempt /\ AgentIsLoggedIn /\ UsernameIsOfAccount /\ Applied /\ RowUsername)'
  <2>1. agent # None => agent.key \in Key
    BY DEF IInv, TypeOK, Agent
  <2> QED BY <1>1, <1>2, <2>1, RowAndAgentKept
<1> QED BY <1>2, <1>4, <1>5, <1>6 DEF IInv, RequestOK

-----------------------------------------------------------------------------
(* Steps on the row and the agent.                                         *)

\* A step of one request that ends it and leaves Telegram alone. The generation of the
\* row stays, and with it what a generation protects.
LEMMA RequestEnds ==
  ASSUME IInv, NEW q \in Request, Ends(q), UNCHANGED telegram,
         row # None, row \in Row, row' \in Row, agent' \in Agent \cup {None},
         row'.status = row.status, row'.key = row.key, row'.phone = row.phone,
         row'.code = row.code,
         agent' # None => \/ agent # None /\ agent'.key = agent.key
                          \/ agent'.key = row.key,
         (AgentIsLoggedIn /\ UsernameIsOfAccount /\ Applied /\ RowUsername)'
  PROVE  IInv'
<1>1. Only(q) /\ request'[q] = Idle
  BY EndsFacts DEF IInv
<1>2. TypeOK'
  BY <1>1 DEF IInv, TypeOK, Only
<1>3. (\A x : Keeps(x)) /\ RowKept
  BY DEF Keeps, RowKept
<1>4. \A p \in Request :
        (Consistent(request[p]) /\ Answered(request[p]) /\ InStep(request[p]))'
  <2>1. \A p \in Request \ {q} :
          (Consistent(request[p]) /\ Answered(request[p]) /\ InStep(request[p]))'
    BY <1>1, <1>3, RequestKept DEF IInv, Only
  <2> QED BY <1>1, <2>1, IdleIsRight
<1>5. \A p \in Request : OwnKey(p)'
  <2>1. \A p \in Request \ {q} : Owner(p)' => Owner(p)
    BY <1>1 DEF Only, Owner
  <2>2. KeysMove
    BY <1>1, <1>3, <2>1, IdleIsRight DEF KeysMove, Only
  <2> QED BY <2>2, OwnKeysKept DEF IInv
<1>6. RowIsOneAttempt'
  BY <1>3 DEF IInv, RowIsOneAttempt, LoggedIn
<1> QED BY <1>2, <1>4, <1>5, <1>6 DEF IInv, RequestOK

\* The name is that of the account whose key has the row's number.
LEMMA RecordUsernameSafe ==
  ASSUME IInv, NEW q \in Request, RecordUsername(q)
  PROVE  IInv'
<1> DEFINE r == request[q]
<1>1. r.at = "recordName" /\ Consistent(r) /\ InStep(r) /\ Current(r)
  BY CheckFacts DEF RecordUsername, At, IInv, RequestOK
<1>2. row \in Row /\ row # None /\ Ends(q) /\ UNCHANGED <<agent, telegram>>
  BY <1>1 DEF RecordUsername, IInv, TypeOK, Current
<1>3. r.key \in Key /\ telegram[r.key].phone = r.phone /\ r.phone = row.phone
  BY <1>1 DEF Consistent, InStep, LoggedIn, Named
<1>4. row' = [row EXCEPT !.username = row.phone]
  BY <1>3 DEF RecordUsername
<1>5. /\ row' \in Row /\ row'.status = row.status /\ row'.key = row.key
      /\ row'.phone = row.phone /\ row'.code = row.code /\ row'.applied = row.applied
      /\ row'.username = row.phone
  BY <1>2, <1>4 DEF Row
<1>6. (AgentIsLoggedIn /\ UsernameIsOfAccount)'
  BY <1>2 DEF IInv, AgentIsLoggedIn, UsernameIsOfAccount, LoggedIn
<1>7. (Applied /\ RowUsername)'
  BY <1>2, <1>5 DEF IInv, Applied, RowUsername
<1>8. agent' \in Agent \cup {None}
  BY <1>2 DEF IInv, TypeOK
<1> QED BY <1>2, <1>5, <1>6, <1>7, <1>8, RequestEnds

\* The agent that is made of an authorized row has the row's account.
LEMMA FinalizeOnboardingSafe ==
  ASSUME IInv, NEW q \in Request, FinalizeOnboarding(q)
  PROVE  IInv'
<1>1. row \in Row /\ row # None /\ row.status = "authorized" /\ Ends(q) /\ UNCHANGED telegram
  BY DEF FinalizeOnboarding, IInv, TypeOK
<1>2. LoggedIn(row.key, row.phone) /\ row.username \in {None, row.phone}
  BY <1>1 DEF IInv, RowIsOneAttempt, RowUsername
<1>3. \/ agent # None /\ agent' = agent
      \/ /\ agent = None
         /\ agent' = [phone |-> row.phone, key |-> row.key, username |-> row.username,
                      status |-> "authorized"]
  BY DEF FinalizeOnboarding
<1>4. /\ row' \in Row /\ row'.status = row.status /\ row'.key = row.key
      /\ row'.phone = row.phone /\ row'.code = row.code /\ row'.username = row.username
      /\ row'.applied \/ (agent # None /\ row' = row)
  <2>1. CASE agent # None /\ row' = row
    BY <1>1, <2>1
  <2>2. CASE row' = [row EXCEPT !.completed = TRUE, !.applied = TRUE]
    BY <1>1, <2>2 DEF Row
  <2> QED BY <2>1, <2>2 DEF FinalizeOnboarding
<1>5. agent' \in Agent \cup {None}
  BY <1>1, <1>2, <1>3 DEF IInv, TypeOK, Agent, Row, LoggedIn
<1>6. agent' # None => \/ agent # None /\ agent'.key = agent.key
                       \/ agent'.key = row.key
  BY <1>3
<1>7. AgentIsLoggedIn'
  BY <1>1, <1>2, <1>3 DEF IInv, AgentIsLoggedIn, LoggedIn
<1>8. UsernameIsOfAccount'
  BY <1>2, <1>3 DEF IInv, UsernameIsOfAccount
<1>9. Applied' /\ RowUsername'
  BY <1>1, <1>2, <1>3, <1>4 DEF IInv, Applied, RowUsername
<1> QED BY <1>1, <1>4, <1>5, <1>6, <1>7, <1>8, <1>9, RequestEnds

\* A confirmed rebind gives the agent another key of its own number.
LEMMA ApplyRebindSafe ==
  ASSUME IInv, NEW q \in Request, ApplyRebind(q)
  PROVE  IInv'
<1>1. /\ row \in Row /\ row # None /\ row.status = "authorized" /\ row.phone = agent.phone
      /\ agent \in Agent /\ agent # None /\ Ends(q) /\ UNCHANGED telegram
  BY CheckFacts DEF ApplyRebind, IInv, TypeOK
<1>2. LoggedIn(row.key, row.phone) /\ row.username \in {None, row.phone}
  BY <1>1 DEF IInv, RowIsOneAttempt, RowUsername
<1>3. CASE row.applied
  <2>1. UNCHANGED <<row, agent>>
    BY <1>3 DEF ApplyRebind
  <2>2. (AgentIsLoggedIn /\ UsernameIsOfAccount /\ Applied /\ RowUsername)'
    BY <1>1, <2>1 DEF IInv, AgentIsLoggedIn, UsernameIsOfAccount, Applied, RowUsername, LoggedIn
  <2> QED BY <1>1, <2>1, <2>2, RequestEnds
<1>4. CASE ~row.applied
  <2>1. /\ agent' = [agent EXCEPT !.key = row.key, !.username = row.username,
                                  !.status = "authorized"]
        /\ row' = [row EXCEPT !.applied = TRUE]
    BY <1>4 DEF ApplyRebind
  <2>2. /\ agent' \in Agent /\ agent'.key = row.key /\ agent'.username = row.username
        /\ agent'.phone = agent.phone
    BY <1>1, <1>2, <2>1 DEF Agent, Row, LoggedIn
  <2>3. /\ row' \in Row /\ row'.status = row.status /\ row'.key = row.key
        /\ row'.phone = row.phone /\ row'.code = row.code /\ row'.username = row.username
        /\ row'.applied
    BY <1>1, <2>1 DEF Row
  <2>4. (AgentIsLoggedIn /\ UsernameIsOfAccount)'
    BY <1>1, <1>2, <2>2 DEF AgentIsLoggedIn, UsernameIsOfAccount, LoggedIn
  <2>5. (Applied /\ RowUsername)'
    BY <1>1, <1>2, <2>3 DEF Applied, RowUsername
  <2> QED BY <1>1, <2>2, <2>3, <2>4, <2>5, RequestEnds
<1> QED BY <1>3, <1>4

\* The agent's session was revoked: its key is as it was.
LEMMA AgentRevokedSafe ==
  ASSUME IInv, AgentRevoked
  PROVE  IInv'
<1>1. agent \in Agent /\ agent # None /\ agent' = [agent EXCEPT !.status = "revoked"]
      /\ UNCHANGED <<row, request, telegram>>
  BY DEF AgentRevoked, IInv, TypeOK
<1>2. /\ agent' \in Agent /\ agent'.key = agent.key /\ agent'.phone = agent.phone
      /\ agent'.username = agent.username
  BY <1>1 DEF Agent
<1>3. TypeOK'
  BY <1>1, <1>2 DEF IInv, TypeOK
<1>4. \A p \in Request : RequestOK(p)'
  BY <1>1, <1>2 DEF IInv, RequestOK, Consistent, Answered, InStep, OwnKey, Current, LoggedIn
<1>5. (RowIsOneAttempt /\ AgentIsLoggedIn /\ UsernameIsOfAccount /\ Applied /\ RowUsername)'
  BY <1>1, <1>2 DEF IInv, RowIsOneAttempt, AgentIsLoggedIn, UsernameIsOfAccount, Applied,
     RowUsername, LoggedIn
<1> QED BY <1>3, <1>4, <1>5 DEF IInv

\* The row and the agent are gone, and no request is current any more.
LEMMA DeleteAgentSafe ==
  ASSUME IInv, DeleteAgent
  PROVE  IInv'
<1>1. agent' = None /\ row' = None /\ UNCHANGED telegram
  BY DEF DeleteAgent
<1>2. \A p \in Request : request'[p] = Outdated(request[p]) /\ request[p] \in RequestState
  BY DEF DeleteAgent, Outdated, IInv, TypeOK
<1>3. request' \in [Request -> RequestState]
  <2>1. \A p \in Request : request'[p] \in RequestState
    BY <1>2, OutdatedFields
  <2> QED BY <2>1 DEF DeleteAgent
<1>4. TypeOK'
  BY <1>1, <1>3 DEF IInv, TypeOK
<1>5. (\A x : Keeps(x)) /\ RowKept
  BY <1>1 DEF Keeps, RowKept
<1>6. \A p \in Request : (Consistent(request[p]) /\ Answered(request[p]) /\ InStep(request[p]))'
  BY <1>2, <1>5, RequestKept DEF IInv
<1>7. \A p \in Request : OwnKey(p)'
  <2>1. \A p \in Request : /\ request'[p].key = request[p].key
                           /\ Owner(p)' => Owner(p)
    BY <1>2, OutdatedFields DEF Owner
  <2>2. KeysMove
    BY <1>1, <2>1 DEF KeysMove
  <2> QED BY <2>2, OwnKeysKept DEF IInv
<1>8. (RowIsOneAttempt /\ AgentIsLoggedIn /\ UsernameIsOfAccount /\ Applied /\ RowUsername)'
  BY <1>1 DEF RowIsOneAttempt, AgentIsLoggedIn, UsernameIsOfAccount, Applied, RowUsername
<1> QED BY <1>4, <1>6, <1>7, <1>8 DEF IInv, RequestOK

-----------------------------------------------------------------------------
(* Steps that give the row a new generation.                               *)

\* Only q has seen the new generation; what holds of q and of the row has to be shown.
LEMMA NewGenerationSafe ==
  ASSUME IInv, NEW q \in Request, Alone(q), UNCHANGED <<agent, telegram>>,
         row' \in Row,
         (Consistent(request[q]) /\ Answered(request[q]) /\ InStep(request[q]))',
         request'[q].key \in {None, request[q].key}, ~Owner(q)',
         \/ row'.key \in {None, request[q].key}
         \/ row # None /\ row'.key = row.key,
         (RowIsOneAttempt /\ Applied /\ RowUsername)'
  PROVE  IInv'
<1>1. TypeOK'
  BY DEF IInv, TypeOK, Alone
<1>2. \A x : Keeps(x)
  BY DEF Keeps
<1>3. \A p \in Request \ {q} :
        /\ request[p] \in RequestState /\ request'[p] = Outdated(request[p])
        /\ ~request'[p].ref.gen /\ request'[p].key = request[p].key
        /\ Owner(p)' => Owner(p)
  <2>1. \A p \in Request : request[p] \in RequestState
    BY DEF IInv, TypeOK
  <2> QED BY <2>1, OutdatedFields DEF Alone, Owner
<1>4. \A p \in Request \ {q} :
        (Consistent(request[p]) /\ Answered(request[p]) /\ InStep(request[p]))'
  BY <1>2, <1>3, RequestKept DEF IInv
<1>5. \A p \in Request : OwnKey(p)'
  <2>1. KeysMove
    BY <1>3 DEF KeysMove
  <2> QED BY <2>1, OwnKeysKept DEF IInv
<1>6. (AgentIsLoggedIn /\ UsernameIsOfAccount)'
  BY DEF IInv, AgentIsLoggedIn, UsernameIsOfAccount, LoggedIn
<1> QED BY <1>1, <1>4, <1>5, <1>6 DEF IInv, RequestOK

\* The row of a login that begins anew.
LEMMA NotStartedFacts ==
  ASSUME NEW phone \in Phone, NEW completed \in BOOLEAN, row' = NotStarted(phone, completed)
  PROVE  /\ row' \in Row
         /\ row'.status = "not_started" /\ row'.phone = phone /\ row'.key = None
         /\ row'.username = None /\ ~row'.applied /\ row'.completed = completed
  BY DEF NotStarted, Row, LoginStatus

\* The record of a request that has just begun.
LEMMA BeginState ==
  ASSUME NEW kind \in Login, NEW completed \in BOOLEAN, NEW s,
         s = [op |-> kind, at |-> "load", phone |-> None, key |-> None, code |-> None,
              result |-> "not_started", ref |-> [gen |-> TRUE, completed |-> completed]]
  PROVE  s \in RequestState /\ s.op = kind /\ s.at = "load" /\ s.key = None
<1>1. kind \in Op /\ "load" \in Place /\ "not_started" \in LoginStatus
  BY DEF Login, Op, Place, LoginStatus
<1>2. [gen |-> TRUE, completed |-> completed] \in Ref
  BY DEF Ref
<1> QED BY <1>1, <1>2 DEF RequestState

\* A request that has just begun.
LEMMA BeginsFacts ==
  ASSUME NEW q \in Request, NEW kind \in Login, row' \in Row,
         request'[q] =
           [op |-> kind, at |-> "load", phone |-> None, key |-> None, code |-> None,
            result |-> "not_started", ref |-> [gen |-> TRUE, completed |-> row'.completed]]
  PROVE  /\ request'[q] \in RequestState
         /\ request'[q].op = kind /\ request'[q].at = "load" /\ request'[q].key = None
         /\ Consistent(request[q])' /\ Answered(request[q])' /\ ~Owner(q)'
<1>1. row'.completed \in BOOLEAN
  BY DEF Row
<1>2. /\ request'[q] \in RequestState
      /\ request'[q].op = kind /\ request'[q].at = "load" /\ request'[q].key = None
  BY <1>1, BeginState
<1> QED BY <1>2 DEF Consistent, Answered, Owner, Places, Login, Verifying, Loaded,
       Connected, Named

LEMMA BeginLoginSafe ==
  ASSUME IInv, NEW q \in Request, NEW phone \in Phone, BeginLogin(q, phone)
  PROVE  IInv'
<1>1. /\ row' \in Row /\ row'.status = "not_started" /\ row'.phone = phone
      /\ row'.key = None /\ row'.username = None /\ ~row'.applied /\ row'.completed \in BOOLEAN
      /\ UNCHANGED <<agent, telegram>>
  BY NotStartedFacts DEF BeginLogin
<1>2. NewGeneration(q, [Idle EXCEPT !.op = "code", !.at = "load",
                                    !.ref = [gen |-> TRUE, completed |-> row'.completed]])
  BY DEF BeginLogin, Begins
<1>3. request'[q] = [Idle EXCEPT !.op = "code", !.at = "load",
                                 !.ref = [gen |-> TRUE, completed |-> row'.completed]]
  BY <1>2 DEF NewGeneration
<1>4. /\ request'[q] \in RequestState
      /\ request'[q].op = "code" /\ request'[q].at = "load" /\ request'[q].key = None
      /\ Consistent(request[q])' /\ Answered(request[q])' /\ ~Owner(q)'
  <2>1. request'[q] =
          [op |-> "code", at |-> "load", phone |-> None, key |-> None, code |-> None,
           result |-> "not_started", ref |-> [gen |-> TRUE, completed |-> row'.completed]]
    BY <1>3 DEF Idle
  <2> QED BY <1>1, <2>1, BeginsFacts DEF Login
<1>5. Alone(q)
  BY <1>2, <1>3, <1>4, NewGenerationFacts DEF IInv
<1>6. InStep(request[q])'
  BY <1>1, <1>4 DEF InStep, Loaded, Named, Verifying
<1>7. (RowIsOneAttempt /\ Applied /\ RowUsername)'
  <2>1. agent # None => agent.key \in Key
    BY DEF IInv, TypeOK, Agent
  <2> QED BY <1>1, <2>1, LoginAssumption DEF RowIsOneAttempt, Applied, RowUsername
<1> QED BY <1>1, <1>4, <1>5, <1>6, <1>7, NewGenerationSafe

LEMMA BeginRebindSafe ==
  ASSUME IInv, NEW q \in Request, BeginRebind(q)
  PROVE  IInv'
<1>0. agent # None /\ agent.phone \in Phone
  BY DEF BeginRebind, IInv, TypeOK, Agent
<1>1. /\ row' \in Row /\ row'.status = "not_started" /\ row'.phone = agent.phone
      /\ row'.key = None /\ row'.username = None /\ ~row'.applied /\ row'.completed \in BOOLEAN
      /\ UNCHANGED <<agent, telegram>>
  BY <1>0, NotStartedFacts DEF BeginRebind
<1>2. NewGeneration(q, [Idle EXCEPT !.op = "code", !.at = "load",
                                    !.ref = [gen |-> TRUE, completed |-> row'.completed]])
  BY DEF BeginRebind, Begins
<1>3. request'[q] = [Idle EXCEPT !.op = "code", !.at = "load",
                                 !.ref = [gen |-> TRUE, completed |-> row'.completed]]
  BY <1>2 DEF NewGeneration
<1>4. /\ request'[q] \in RequestState
      /\ request'[q].op = "code" /\ request'[q].at = "load" /\ request'[q].key = None
      /\ Consistent(request[q])' /\ Answered(request[q])' /\ ~Owner(q)'
  <2>1. request'[q] =
          [op |-> "code", at |-> "load", phone |-> None, key |-> None, code |-> None,
           result |-> "not_started", ref |-> [gen |-> TRUE, completed |-> row'.completed]]
    BY <1>3 DEF Idle
  <2> QED BY <1>1, <2>1, BeginsFacts DEF Login
<1>5. Alone(q)
  BY <1>2, <1>3, <1>4, NewGenerationFacts DEF IInv
<1>6. InStep(request[q])'
  BY <1>1, <1>4 DEF InStep, Loaded, Named, Verifying
<1>7. (RowIsOneAttempt /\ Applied /\ RowUsername)'
  <2>1. agent.key \in Key
    BY <1>0 DEF IInv, TypeOK, Agent
  <2> QED BY <1>1, <2>1, LoginAssumption DEF RowIsOneAttempt, Applied, RowUsername
<1> QED BY <1>1, <1>4, <1>5, <1>6, <1>7, NewGenerationSafe

\* The verification that now owns the row has seen it as it is.
LEMMA ClaimVerificationSafe ==
  ASSUME IInv, NEW q \in Request, NEW op \in Verifying, ClaimVerification(q, op)
  PROVE  IInv'
<1>1. /\ row # None /\ row \in Row /\ row.key # None
      /\ row.status = IF op = "password" THEN "password_required" ELSE "code_requested"
      /\ row' = [row EXCEPT !.applied = FALSE] /\ UNCHANGED <<agent, telegram>>
  BY DEF ClaimVerification, IInv, TypeOK
<1>2. /\ row' \in Row /\ row'.status = row.status /\ row'.phone = row.phone
      /\ row'.key = row.key /\ row'.code = row.code /\ row'.username = row.username
      /\ ~row'.applied /\ row'.completed \in BOOLEAN /\ row.key \in Key
  BY <1>1 DEF Row
<1>3. NewGeneration(q, [Idle EXCEPT !.op = op, !.at = "load",
                                    !.ref = [gen |-> TRUE, completed |-> row'.completed]])
  BY DEF ClaimVerification, Begins
<1>4. request'[q] = [Idle EXCEPT !.op = op, !.at = "load",
                                 !.ref = [gen |-> TRUE, completed |-> row'.completed]]
  BY <1>3 DEF NewGeneration
<1>5. /\ request'[q] \in RequestState
      /\ request'[q].op = op /\ request'[q].at = "load" /\ request'[q].key = None
      /\ Consistent(request[q])' /\ Answered(request[q])' /\ ~Owner(q)'
  <2>1. request'[q] =
          [op |-> op, at |-> "load", phone |-> None, key |-> None, code |-> None,
           result |-> "not_started", ref |-> [gen |-> TRUE, completed |-> row'.completed]]
    BY <1>4 DEF Idle
  <2> QED BY <1>2, <2>1, BeginsFacts DEF Login, Verifying
<1>6. Alone(q)
  BY <1>3, <1>4, <1>5, NewGenerationFacts DEF IInv
<1>7. InStep(request[q])'
  BY <1>1, <1>2, <1>5 DEF InStep, Loaded, Named, Verifying
<1>8. ~row.applied
  BY <1>1 DEF IInv, Applied
<1>9. (RowIsOneAttempt /\ Applied /\ RowUsername)'
  BY <1>1, <1>2, <1>8 DEF IInv, RowIsOneAttempt, Applied, RowUsername, LoggedIn
<1> QED BY <1>1, <1>2, <1>5, <1>6, <1>7, <1>9, NewGenerationSafe

\* What Telegram answered to the attempt of the row's generation.
LEMMA RecordAuthSafe ==
  ASSUME IInv, NEW q \in Request, RecordAuth(q)
  PROVE  IInv'
<1> DEFINE r == request[q]
           s == request'[q]
<1>1. /\ r \in RequestState /\ r.op \in Login /\ r.at = "record"
      /\ Current(r) /\ row # None /\ row \in Row /\ UNCHANGED <<agent, telegram>>
  BY CheckFacts DEF RecordAuth, At, Login, IInv, TypeOK, Current
<1>2. Consistent(r) /\ Answered(r) /\ InStep(r) /\ OwnKey(q)
  BY DEF IInv, RequestOK
<1>3. /\ r.key \in Key /\ r.phone = row.phone
      /\ r.op \in Verifying => r.key = row.key /\ row.status # "authorized"
  BY <1>1, <1>2 DEF Consistent, InStep, Loaded, Connected
<1>4. row' = [row EXCEPT !.status = r.result, !.key = r.key, !.applied = FALSE,
                         !.code = IF r.op = "code" THEN r.code ELSE @]
  BY DEF RecordAuth
<1>5. /\ row' \in Row /\ row'.status = r.result /\ row'.key = r.key /\ ~row'.applied
      /\ row'.phone = row.phone /\ row'.username = row.username
      /\ row'.code = IF r.op = "code" THEN r.code ELSE row.code
  BY <1>1, <1>4 DEF Row, RequestState
<1>6. NewGeneration(q, IF r.result = "authorized"
                         THEN [r EXCEPT !.at = "name", !.ref.gen = TRUE] ELSE Idle)
  BY DEF RecordAuth
<1>7. s = IF r.result = "authorized" THEN [r EXCEPT !.at = "name", !.ref.gen = TRUE] ELSE Idle
  BY <1>6 DEF NewGeneration
<1>8. s \in RequestState
  <2>1. CASE r.result = "authorized"
    <3>1. s = [r EXCEPT !.at = "name", !.ref = [r.ref EXCEPT !.gen = TRUE]]
      BY <1>1, <1>7, <2>1 DEF RequestState
    <3>2. [r.ref EXCEPT !.gen = TRUE] \in Ref /\ "name" \in Place
      BY <1>1 DEF RequestState, Ref, Place
    <3> QED BY <1>1, <3>1, <3>2 DEF RequestState
  <2> QED BY <1>7, <2>1, IdleFields
<1>9. Alone(q)
  BY <1>6, <1>7, <1>8, NewGenerationFacts DEF IInv
<1>10. CASE r.result = "authorized"
  <2>1. s.at = "name" /\ s.op = r.op /\ s.phone = r.phone /\ s.key = r.key
    BY <1>1, <1>7, <1>10 DEF RequestState
  <2>2. r.op \in Verifying /\ LoggedIn(r.key, r.phone)
    BY <1>1, <1>2, <1>10 DEF Answered, Login, Verifying
  <2>3. LoggedIn(request[q].key, request[q].phone)' /\ LoggedIn(row.key, row.phone)'
    BY <1>1, <1>3, <1>5, <2>1, <2>2 DEF LoggedIn
  <2>4. Consistent(request[q])' /\ Answered(request[q])' /\ ~Owner(q)'
    BY <1>3, <2>1, <2>2, <2>3 DEF Consistent, Answered, Owner, Places, Login, Verifying,
       Loaded, Connected, Named
  <2>5. InStep(request[q])'
    BY <1>3, <1>5, <2>1 DEF InStep, Loaded, Named
  <2>6. RowIsOneAttempt'
    BY <1>5, <1>10, <2>3 DEF RowIsOneAttempt
  <2>7. Applied' /\ RowUsername'
    BY <1>1, <1>3, <1>5, <2>2 DEF IInv, Applied, RowUsername
  <2> QED BY <1>1, <1>5, <1>9, <2>1, <2>4, <2>5, <2>6, <2>7, NewGenerationSafe
<1>11. CASE r.result # "authorized"
  <2>1. s = Idle
    BY <1>7, <1>11
  <2>2. RowIsOneAttempt'
    BY <1>1, <1>2, <1>3, <1>5, <1>11 DEF RowIsOneAttempt, Answered
  <2>3. agent # None => row'.key # agent.key
    <3>1. CASE r.op = "code"
      BY <1>1, <1>2, <1>5, <3>1 DEF OwnKey, Connected
    <3>2. CASE r.op \in Verifying
      BY <1>1, <1>3, <1>5, <3>2 DEF IInv, Applied
    <3> QED BY <1>1, <3>1, <3>2 DEF Login, Verifying
  <2>4. Applied' /\ RowUsername'
    BY <1>1, <1>5, <2>3 DEF IInv, Applied, RowUsername
  <2> QED BY <1>1, <1>5, <1>9, <2>1, <2>2, <2>4, IdleIsRight, NewGenerationSafe
<1> QED BY <1>10, <1>11

-----------------------------------------------------------------------------
(* The invariant, and what follows from it.                                *)

LEMMA InitSafe == Init => IInv
<1> SUFFICES ASSUME Init PROVE IInv
  OBVIOUS
<1>1. TypeOK
  BY IdleFields DEF Init, TypeOK
<1>2. ASSUME NEW q \in Request PROVE RequestOK(q)
  <2>1. request[q] = Idle
    BY DEF Init
  <2> QED BY <2>1, IdleFields DEF Init, RequestOK, Consistent, Answered, InStep, OwnKey,
         Current, Places, Loaded, Connected, Named, Verifying
<1> QED BY <1>1, <1>2 DEF Init, IInv, RowIsOneAttempt, AgentIsLoggedIn, UsernameIsOfAccount,
       Applied, RowUsername

LEMMA StutterSafe == IInv /\ UNCHANGED vars => IInv'
  BY DEF vars, IInv, TypeOK, RowIsOneAttempt, AgentIsLoggedIn, UsernameIsOfAccount, Applied,
     RowUsername, RequestOK, Consistent, Answered, InStep, OwnKey, Current, LoggedIn

LEMMA NextSafe == IInv /\ [Next]_vars => IInv'
<1> SUFFICES ASSUME IInv, [Next]_vars PROVE IInv'
  OBVIOUS
<1>1. ASSUME NEW q \in Request, Step(q) PROVE IInv'
  <2>1. ASSUME NEW phone \in Phone, BeginLogin(q, phone) PROVE IInv'
    BY <2>1, BeginLoginSafe
  <2>2. CASE BeginRebind(q)
    BY <2>2, BeginRebindSafe
  <2>3. ASSUME NEW op \in {"verify", "password"}, ClaimVerification(q, op) PROVE IInv'
    BY <2>3, ClaimVerificationSafe DEF Verifying
  <2>4. CASE LoadAttempt(q)
    BY <2>4, LoadAttemptSafe
  <2>5. CASE Connect(q)
    BY <2>5, ConnectSafe
  <2>6. CASE CheckAgain(q)
    BY <2>6, CheckAgainSafe
  <2>7. CASE SendCode(q)
    BY <2>7, SendCodeSafe
  <2>8. CASE SignIn(q)
    BY <2>8, SignInSafe
  <2>9. CASE SignInWithPassword(q)
    BY <2>9, SignInWithPasswordSafe
  <2>10. CASE RecordAuth(q)
    BY <2>10, RecordAuthSafe
  <2>11. CASE FetchUsername(q)
    BY <2>11, FetchUsernameSafe
  <2>12. CASE RecordUsername(q)
    BY <2>12, RecordUsernameSafe
  <2>13. CASE BeginFinalize(q)
    BY <2>13, BeginFinalizeSafe
  <2>14. CASE FinalizeOnboarding(q)
    BY <2>14, FinalizeOnboardingSafe
  <2>15. CASE BeginConfirm(q)
    BY <2>15, BeginConfirmSafe
  <2>16. CASE ConfirmAgain(q)
    BY <2>16, ConfirmAgainSafe
  <2>17. CASE ApplyRebind(q)
    BY <2>17, ApplyRebindSafe
  <2>18. CASE Raises(q)
    BY <2>18, RaisesSafe
  <2> QED BY <1>1, <2>1, <2>2, <2>3, <2>4, <2>5, <2>6, <2>7, <2>8, <2>9, <2>10, <2>11,
         <2>12, <2>13, <2>14, <2>15, <2>16, <2>17, <2>18 DEF Step
<1>2. ASSUME NEW k \in Key, KeyDies(k) PROVE IInv'
  BY <1>2, KeyDiesSafe
<1>3. CASE AgentRevoked
  BY <1>3, AgentRevokedSafe
<1>4. CASE DeleteAgent
  BY <1>4, DeleteAgentSafe
<1>5. CASE UNCHANGED vars
  BY <1>5, StutterSafe
<1> QED BY <1>1, <1>2, <1>3, <1>4, <1>5 DEF Next

LEMMA AlwaysSafe == Spec => []IInv
  BY InitSafe, NextSafe, PTL DEF Spec

\* The row, the agent, every request and what Telegram knows of a key are what
\* their tables and classes say, however requests overlap.
THEOREM TypeCorrect == Spec => []TypeOK
<1>1. IInv => TypeOK
  BY DEF IInv
<1> QED BY <1>1, AlwaysSafe, PTL

\* record_auth, claim_verification and the trigger keep the row of the login the
\* row of one attempt: the code, the key and the number in it belong together.
THEOREM RowTellsOneAttempt == Spec => []RowIsOneAttempt
<1>1. IInv => RowIsOneAttempt
  BY DEF IInv
<1> QED BY <1>1, AlwaysSafe, PTL

\* finalize_onboarding and apply_rebind give an agent only sessions that Telegram
\* has logged in to the agent's own number.
THEOREM AgentHasItsAccount == Spec => []AgentIsLoggedIn
<1>1. IInv => AgentIsLoggedIn
  BY DEF IInv
<1> QED BY <1>1, AlwaysSafe, PTL

\* record_username never writes the name of another account, and so no agent
\* has one: a name that is not its account's is one that is not yet known.
THEOREM AgentHasItsName == Spec => []UsernameIsOfAccount
<1>1. IInv => UsernameIsOfAccount
  BY DEF IInv
<1> QED BY <1>1, AlwaysSafe, PTL

\* A revoked agent is authorized again with another key only.
AuthorizedAgain ==
  agent # None /\ agent' # None /\ agent.status = "revoked" /\ agent'.status = "authorized"
    => agent'.key # agent.key

\* Of all steps only apply_rebind changes the session of an agent there is, and
\* it applies a generation whose key is not the agent's.
LEMMA AuthorizedAgainStep == IInv /\ [Next]_vars => AuthorizedAgain
<1> SUFFICES ASSUME IInv, [Next]_vars,
                    agent # None, agent' # None,
                    agent.status = "revoked", agent'.status = "authorized"
             PROVE  agent'.key # agent.key
  BY DEF AuthorizedAgain
<1>1. ASSUME NEW q \in Request, ApplyRebind(q) PROVE agent'.key # agent.key
  <2>1. CASE row.applied
    BY <1>1, <2>1 DEF ApplyRebind
  <2>2. CASE ~row.applied
    <3>1. row.key # agent.key
      BY <1>1, <2>2 DEF ApplyRebind, Check, IInv, Applied
    <3>2. agent \in Agent /\ agent' = [agent EXCEPT !.key = row.key, !.username = row.username,
                                                     !.status = "authorized"]
      BY <1>1, <2>2 DEF ApplyRebind, IInv, TypeOK
    <3> QED BY <3>1, <3>2 DEF Agent
  <2> QED BY <2>1, <2>2
<1>2. CASE AgentRevoked
  <2>1. agent \in Agent /\ agent' = [agent EXCEPT !.status = "revoked"]
    BY <1>2 DEF AgentRevoked, IInv, TypeOK
  <2> QED BY <2>1 DEF Agent
<1>3. ASSUME NEW q \in Request, Step(q), ~ApplyRebind(q) PROVE agent' = agent
  BY <1>3 DEF Step, BeginLogin, BeginRebind, ClaimVerification, LoadAttempt, Connect, CheckAgain,
     SendCode, SignIn, SignInWithPassword, Answers, RecordAuth, FetchUsername, RecordUsername,
     BeginFinalize, FinalizeOnboarding, BeginConfirm, ConfirmAgain, Raises
<1>4. ASSUME NEW k \in Key, KeyDies(k) PROVE agent' = agent
  BY <1>4 DEF KeyDies
<1>5. CASE UNCHANGED vars
  BY <1>5 DEF vars
<1>6. ~DeleteAgent
  BY DEF DeleteAgent
<1> QED BY <1>1, <1>2, <1>3, <1>4, <1>5, <1>6 DEF Next

\* A confirmation of a rebind that is repeated, by a second tab or a retry, does
\* not make an agent's revoked session look good again.
THEOREM RevokedNeedsNewKey == Spec => RevokedStaysRevoked
<1>1. IInv /\ [Next]_vars => [AuthorizedAgain]_vars
  BY AuthorizedAgainStep
<1>2. [][AuthorizedAgain]_vars => RevokedStaysRevoked
  BY PTL DEF RevokedStaysRevoked, AuthorizedAgain
<1> QED BY <1>1, <1>2, AlwaysSafe, PTL DEF Spec

=============================================================================
