------------------------- MODULE AgentSafetyProofs -------------------------
(***************************************************************************)
(* The safety of AgentManager for any set of runtimes: the session of an   *)
(* agent has one connection at most, no connection is lost, and a runtime  *)
(* that was dropped or removed does no more work; the connections of its   *)
(* runtimes implement SessionConnection, each closed before the next one   *)
(* is opened; nobody marks a session revoked that Telegram still accepts;  *)
(* and "running" in the database means a running runtime.                  *)
(***************************************************************************)
EXTENDS AgentStepProofs

-----------------------------------------------------------------------------
(* The invariant holds at first and every step keeps it.                   *)

\* At process start there is no runtime, no connection and no job.
LEMMA InitSafe == Init => IInv
<1> SUFFICES ASSUME Init PROVE IInv
  OBVIOUS
<1>1. Typed BY InitTyped
<1>2. job.op = "none" /\ job.step = "get" /\ job.at = "load" /\ job.rt = None
  BY DEF Init, NoJob
<1>3. /\ conn = [r \in Runtime |-> FALSE]
      /\ td = [r \in Runtime |-> "none"]
      /\ reg = None
  BY DEF Init, TeardownInit
<1>4. /\ agents = None /\ removal = None /\ removed = FALSE
      /\ state = [r \in Runtime |-> "stopped"]
      /\ revoked = [r \in Runtime |-> FALSE]
      /\ turn = [r \in Runtime |-> NoTurn]
  BY DEF Init
<1>5. \A r \in Runtime : Idle(r) /\ Settled(r) /\ ~turn[r].handler
  BY <1>4, NoTurnIsTurn DEF Idle, Settled
<1>6. Registry /\ OpenConnection
  BY <1>3, NoneAssumption DEF Registry, OpenConnection, Open
<1>7. OneOwner /\ JobOwner
  BY <1>2, <1>4 DEF OneOwner, JobOwner
<1>8. TurnOwner /\ HandlerConn /\ RunningIsOpen
  BY <1>2, <1>4, <1>5, NoneAssumption DEF TurnOwner, HandlerConn, RunningIsOpen
<1>9. TouchedFirst /\ StartingInStart
  BY <1>4, <1>5 DEF TouchedFirst, StartingInStart
<1>10. StartConn /\ LeaseConn /\ StopConn
  BY <1>2 DEF StartConn, LeaseConn, StopConn, Brief
<1>11. StoppedIsClosed
  BY <1>3 DEF StoppedIsClosed, Open
<1> QED BY <1>1, <1>6, <1>7, <1>8, <1>9, <1>10, <1>11 DEF IInv

\* A step that changes nothing keeps the invariant.
LEMMA StutterSafe ==
  ASSUME IInv, UNCHANGED vars
  PROVE  IInv'
<1>1. Typed' BY NextTyped DEF IInv
<1> QED BY <1>1 DEF vars, IInv, Registry, OpenConnection, OneOwner, JobOwner, TurnOwner,
       HandlerConn, RunningIsOpen, TouchedFirst, StartingInStart, StartConn, LeaseConn,
       StopConn, StoppedIsClosed, Open, Owners, Touched, AtRest, Settled, Idle, Brief

\* Telegram drops the session of the database, which no part of IInv reads.
LEMMA SessionDiesSafe ==
  ASSUME IInv, Typed', SessionDies
  PROVE  IInv'
  BY DEF SessionDies, teardownVars, regVars, rtVars, IInv, Registry, OpenConnection, OneOwner,
     JobOwner, TurnOwner, HandlerConn, RunningIsOpen, TouchedFirst, StartingInStart, StartConn,
     LeaseConn, StopConn, StoppedIsClosed, Open, Owners, Touched, AtRest, Settled, Idle, Brief

\* At first the warm-up task holds nothing.
LEMMA InitWarmup == Init => WarmupClient
  BY NoWorkIsWork DEF Init, WarmupClient

\* Every step keeps the invariant.
LEMMA NextSafe == IInv /\ WarmupClient /\ [Next]_vars => IInv' /\ WarmupClient'
<1> SUFFICES ASSUME IInv, WarmupClient, [Next]_vars PROVE IInv'
  BY WarmupClientKept
<1>1. Typed' BY NextTyped DEF IInv
<1>2. CASE Begin
  BY <1>1, <1>2, BeginWithSafe, BeginCreateSavedSafe, BeginCreateSafe, BeginReloadSafe,
     BeginShutdownSafe DEF Begin
<1>3. CASE RemoveAgent \/ BeginRemoval
  BY <1>1, <1>3, RemoveAgentSafe, BeginRemovalSafe
<1>4. CASE JobStep
  <2>1. CASE \/ \E r \in Runtime, proxy \in BOOLEAN : Load(r, proxy)
             \/ LoadFails \/ RetryPrevious \/ RetryDisconnected \/ RetryWaited
    BY <1>1, <2>1, LoadSafe, LoadFailsSafe, RetryPreviousSafe, RetryDisconnectedSafe,
       RetryWaitedSafe
  <2>2. CASE \/ EnterStart \/ StartConnects \/ StartRefused \/ StartAuthorized \/ StartRuns
             \/ \E kind \in Failures : StartBreaks(kind)
    BY <1>1, <2>2, EnterStartSafe, StartConnectsSafe, StartRefusedSafe, StartAuthorizedSafe,
       StartRunsSafe, StartBreaksSafe
  <2>3. CASE StartAborts \/ StartAborted \/ StartMarksRevoked
    BY <1>1, <2>3, StartAbortsSafe, StartAbortedSafe, StartMarksRevokedSafe
  <2>4. CASE EnterStop \/ StopAgain \/ StopDisconnects \/ StopDisconnected
    BY <1>1, <2>4, EnterStopSafe, StopAgainSafe, StopDisconnectsSafe, StopDisconnectedSafe
  <2>5. CASE ClosedForReload \/ ClosedForGood \/ CloseRaises \/ \E r \in Runtime : FallBack(r)
    BY <1>1, <2>5, ClosedForReloadSafe, ClosedForGoodSafe, CloseRaisesSafe, FallBackSafe
  <2>6. CASE \/ Lease \/ LeaseDisconnects \/ LeaseDisconnected \/ LeaseMarksRevoked
             \/ \E kind \in {"stopped", "other", "dead"} : LeaseUsed(kind)
    BY <1>1, <2>6, LeaseSafe, LeaseDisconnectsSafe, LeaseDisconnectedSafe,
       LeaseMarksRevokedSafe, LeaseUsedSafe
  <2>7. CASE \/ \E written \in BOOLEAN : Save(written)
             \/ ApplyRebind \/ ApplyFails
    BY <1>1, <2>7, SaveSafe, ApplyRebindSafe, ApplyFailsSafe
  <2> QED BY <1>4, <2>1, <2>2, <2>3, <2>4, <2>5, <2>6, <2>7 DEF JobStep
<1>5. CASE \E x \in Runtime : TurnStep(x) \/ DisconnectEnds(x)
  BY <1>1, <1>5, TurnBeginsSafe, TurnFindsDeadSafe, TurnMarksRevokedSafe, TurnSetsErrorSafe,
     TurnEndsSafe, TurnLeavesSafe, DisconnectEndsSafe DEF TurnStep
<1>6. CASE SessionDies BY <1>1, <1>6, SessionDiesSafe
<1>7. CASE UNCHANGED vars BY <1>7, StutterSafe
<1>8. CASE WarmupStep
  <2>1. CASE WarmupEnds
    BY <1>1, <2>1, WarmupOnly DEF WarmupEnds
  <2>2. CASE \E x \in Runtime : \/ WarmupBegins(x) \/ WarmupFindsDead(x)
                              \/ WarmupMarksRevoked(x) \/ WarmupSetsError(x)
    BY <1>1, <2>2, WarmupMovesSafe, WarmupFindsDeadSafe, WarmupSetsErrorSafe
  <2> QED BY <1>8, <2>1, <2>2 DEF WarmupStep
<1> QED BY <1>2, <1>3, <1>4, <1>5, <1>6, <1>7, <1>8 DEF Next

\* What IInv and WarmupClient say in every reachable state.
LEMMA AlwaysHeld == Spec => [](IInv /\ WarmupClient)
  BY InitSafe, InitWarmup, NextSafe, PTL DEF Spec

\* The part of it that most proofs need.
LEMMA AlwaysSafe == Spec => []IInv
  BY AlwaysHeld, PTL

-----------------------------------------------------------------------------
(* What follows from it.                                                   *)

\* A client whose runtime is connected is either open, or the one of the registry.
LEMMA OpenOrHeld ==
  ASSUME IInv, NEW r \in Runtime, conn[r]
  PROVE  (Open(r) /\ reg = None /\ r \in Owners) \/ reg = r
<1>1. td[r] \in {"none", "pending", "failed"}
  BY DEF IInv, OpenConnection, Typed, TypeOK, TeardownTypeOK, TeardownState
<1>2. CASE td[r] = "none"
  BY <1>2 DEF IInv, OpenConnection, Open
<1>3. CASE td[r] \in {"pending", "failed"}
  BY <1>3 DEF IInv, Registry
<1> QED BY <1>1, <1>2, <1>3

\* The manager knows one runtime that can have an open connection.
LEMMA OneOpenOwner ==
  ASSUME IInv, NEW r \in Runtime, NEW s \in Runtime, Open(r), Open(s)
  PROVE  r = s
<1>1. r \in Owners /\ s \in Owners
  BY DEF IInv, OpenConnection
<1>2. agents = None \/ removal = None \/ agents = removal
  BY DEF IInv, OneOwner
<1>3. job.rt \in {agents, removal, None} \/ ~Open(job.rt)
  BY DEF IInv, JobOwner, AtRest
<1>4. r \in {agents, removal} /\ s \in {agents, removal}
  BY <1>1, <1>3, NoneAssumption DEF Owners
<1> QED BY <1>2, <1>4, NoneAssumption

\* The invariant allows one connected client.
LEMMA OneConnectionNow == IInv => AtMostOneConnection
<1> SUFFICES ASSUME IInv, NEW r \in Runtime, NEW s \in Runtime, conn[r], conn[s]
             PROVE  r = s
  BY DEF AtMostOneConnection
<1>1. (Open(r) /\ reg = None) \/ reg = r
  BY OpenOrHeld
<1>2. (Open(s) /\ reg = None) \/ reg = s
  BY OpenOrHeld
<1> QED BY <1>1, <1>2, OneOpenOwner, NoneAssumption

\* Telegram never sees two connections of an agent's session, however the
\* operations on the agent, its removal, its turns and the disconnects of earlier
\* runtimes overtake each other and fail.
THEOREM OneConnection == Spec => []AtMostOneConnection
  BY OneConnectionNow, AlwaysSafe, PTL

\* No client stays connected that neither the manager nor the registry knows:
\* each is still stopped, closed or retried by somebody.
THEOREM NoOrphan == Spec => []NoOrphanConnection
<1>1. IInv => NoOrphanConnection
  BY OpenOrHeld DEF NoOrphanConnection, Owners
<1> QED BY <1>1, AlwaysSafe, PTL

\* Outside the manager no turn is at work but what the disconnect of the registry
\* is about to cancel, and no client is connected but the one it is closing.
LEMMA Inert == IInv => DroppedIsInert
<1> SUFFICES ASSUME IInv, NEW r \in Runtime \ {agents, removal, job.rt}
             PROVE  Quiet(r)
  BY DEF DroppedIsInert
<1>1. r \notin Owners BY DEF Owners
<1>2. Settled(r) /\ state[r] # "running"
  BY <1>1 DEF IInv, TurnOwner
<1>3. conn[r] => reg = r
  BY <1>1, OpenOrHeld
<1>4. turn[r].handler => conn[r]
  BY DEF IInv, HandlerConn
<1> QED BY <1>2, <1>3, <1>4 DEF Quiet, Settled

\* A runtime that reload_agent, the fallback or the removal has dropped runs no
\* turn, and is connected only until its registered disconnect ends; whatever the
\* warm-up task still does with it changes neither.
THEOREM DroppedStaysInert == Spec => []DroppedIsInert
  BY Inert, AlwaysSafe, PTL

\* After remove_agent and whatever it overtook, no turn of the agent is at work, its
\* connections are closed or being closed, and the warm-up task revives nothing.
THEOREM RemovedStaysQuiet == Spec => []RemovedIsQuiet
<1>1. IInv => RemovedIsQuiet
  <2> SUFFICES ASSUME IInv, removed, removal = None, job = NoJob
               PROVE  agents = None /\ \A r \in Runtime : Quiet(r)
    BY DEF RemovedIsQuiet
  <2>1. agents = None BY DEF IInv, OneOwner
  <2>2. job.rt = None BY DEF NoJob
  <2>3. \A r \in Runtime : r \notin {agents, removal, job.rt}
    BY <2>1, <2>2, NoneAssumption
  <2> QED BY <2>1, <2>3, Inert DEF DroppedIsInert
<1> QED BY <1>1, AlwaysSafe, PTL

-----------------------------------------------------------------------------
(* Refinement.                                                             *)

\* What a step does to the connections and to the registry, if anything.
Connects(x) == TeardownClear /\ Connect(x)
Disconnects(x) == conn' = conn /\ \E retry \in BOOLEAN : Disconnect(x, retry)

\* A step connects one client, starts or ends one disconnect, or does neither.
LEMMA SessionSteps ==
  ASSUME IInv, [Next]_vars
  PROVE  \/ UNCHANGED <<conn, reg>>
         \/ \E x \in Runtime : Connects(x) \/ Disconnects(x) \/ DisconnectDone(x)
<1>1. CASE Begin
  BY <1>1 DEF Begin, BeginWith, BeginCreateSaved, BeginCreate, BeginReload, BeginShutdown,
     NewRuntime, teardownVars
<1>2. CASE RemoveAgent \/ BeginRemoval
  BY <1>2 DEF RemoveAgent, BeginRemoval, teardownVars
<1>3. CASE JobStep
  <2> DEFINE x == job.rt
  <2>1. job.op # "none" /\ job.step # "get" => x \in Runtime
    BY JobState DEF IInv
  <2>2. CASE StartConnects \/ Lease
    <3>1. x \in Runtime BY <2>1, <2>2 DEF StartConnects, Lease, At
    <3>2. (TeardownClear /\ Connect(x)) \/ UNCHANGED <<conn, reg>>
      BY <2>2 DEF StartConnects, Lease, teardownVars
    <3> QED BY <3>1, <3>2 DEF Connects
  <2>3. CASE StartAborts \/ StopAgain \/ StopDisconnects \/ LeaseDisconnects
    <3>1. x \in Runtime
      BY <2>1, <2>3 DEF StartAborts, StopAgain, StopDisconnects, LeaseDisconnects, At, Stopping
    <3>2. \/ UNCHANGED <<conn, reg>>
          \/ conn' = conn /\ (Disconnect(x, TRUE) \/ Disconnect(x, FALSE))
      BY <2>3 DEF StartAborts, StopAgain, StopDisconnects, LeaseDisconnects
    <3> QED BY <3>1, <3>2 DEF Disconnects
  <2>4. CASE RetryPrevious
    BY <2>4 DEF RetryPrevious, Disconnects, teardownVars, IInv, Typed, TypeOK, TeardownTypeOK
  <2>5. CASE \/ \E r \in Runtime, proxy \in BOOLEAN : Load(r, proxy)
             \/ \E r \in Runtime : FallBack(r)
             \/ LoadFails \/ RetryDisconnected \/ RetryWaited
             \/ EnterStart \/ StartRefused \/ StartAuthorized \/ StartRuns
             \/ \E kind \in Failures : StartBreaks(kind)
             \/ StartAborted \/ StartMarksRevoked \/ EnterStop \/ StopDisconnected
             \/ ClosedForReload \/ ClosedForGood \/ CloseRaises
             \/ LeaseDisconnected \/ LeaseMarksRevoked
             \/ \E kind \in {"stopped", "other", "dead"} : LeaseUsed(kind)
             \/ \E written \in BOOLEAN : Save(written)
             \/ ApplyRebind \/ ApplyFails
    BY <2>5 DEF Load, FallBack, LoadFails, RetryDisconnected, RetryWaited, EnterStart,
       StartRefused, StartAuthorized, StartRuns, StartBreaks, StartAborted, StartMarksRevoked,
       EnterStop, StopDisconnected, ClosedForReload, ClosedForGood, CloseRaises,
       LeaseDisconnected, LeaseMarksRevoked, LeaseUsed, Save, ApplyRebind, ApplyFails,
       teardownVars
  <2> QED BY <1>3, <2>2, <2>3, <2>4, <2>5 DEF JobStep
<1>4. ASSUME NEW x \in Runtime, TurnStep(x) \/ DisconnectEnds(x)
      PROVE  UNCHANGED <<conn, reg>> \/ Disconnects(x) \/ DisconnectDone(x)
  BY <1>4 DEF TurnStep, TurnBegins, TurnFindsDead, TurnMarksRevoked, TurnSetsError, TurnEnds,
     TurnLeaves, DisconnectEnds, DisconnectFailed, Disconnects, teardownVars
<1>5. CASE SessionDies \/ UNCHANGED vars
  BY <1>5 DEF SessionDies, teardownVars, vars
<1>6. CASE WarmupStep
  <2>1. CASE WarmupEnds
    BY <2>1 DEF WarmupEnds, teardownVars
  <2>2. ASSUME NEW x \in Runtime, WarmupSetsError(x)
        PROVE  UNCHANGED <<conn, reg>> \/ Disconnects(x)
    BY <2>2 DEF WarmupSetsError, Disconnects
  <2>3. CASE \E x \in Runtime : \/ WarmupBegins(x) \/ WarmupFindsDead(x)
                              \/ WarmupMarksRevoked(x)
    BY <2>3 DEF WarmupBegins, WarmupFindsDead, WarmupMarksRevoked, teardownVars
  <2> QED BY <1>6, <2>1, <2>2, <2>3 DEF WarmupStep
<1> QED BY <1>1, <1>2, <1>3, <1>4, <1>5, <1>6 DEF Next

\* With no disconnect in the registry the holder is the one that is connected.
HolderIsConnected == \A r \in Runtime : reg = None /\ conn[r] => Holder = r

\* The invariant makes the connected client the holder.
LEMMA HolderConnected == IInv => HolderIsConnected
<1> SUFFICES ASSUME IInv, NEW r \in Runtime, reg = None, conn[r] PROVE Holder = r
  BY DEF HolderIsConnected
<1>1. \A s \in Runtime : conn[s] => s = r
  BY OneConnectionNow DEF AtMostOneConnection
<1>2. (CHOOSE s \in Runtime : conn[s]) \in {s \in Runtime : conn[s]}
  OBVIOUS
<1> QED BY <1>1, <1>2 DEF Holder

\* Nobody is connected or being closed: nobody holds the session.
LEMMA HolderAbsent ==
  ASSUME reg = None, \A r \in Runtime : ~conn[r]
  PROVE  Holder = None
  BY DEF Holder

\* The owner in the registry holds the session.
LEMMA HolderHeld ==
  ASSUME reg # None
  PROVE  Holder = reg
  BY DEF Holder

\* Every step is one of the session, or none of its.
LEMMA SessionNext ==
  ASSUME IInv, IInv', [Next]_vars
  PROVE  [Session!Next]_<<Holder, reg # None>>
<1>0. HolderIsConnected /\ HolderIsConnected' /\ AtMostOneConnection'
  BY HolderConnected, OneConnectionNow, PTL
<1>1. reg \in Runtime \cup {None} /\ reg' \in Runtime \cup {None}
  BY DEF IInv, Typed, TypeOK, TeardownTypeOK
<1>2. CASE UNCHANGED <<conn, reg>>
  BY <1>2 DEF Holder
<1>3. ASSUME NEW x \in Runtime, Connects(x)
      PROVE  Session!Open(x) \/ UNCHANGED <<Holder, reg # None>>
  <2>1. reg = None /\ reg' = None
    BY <1>3 DEF Connects, TeardownClear, Succeeded, Connect, IInv, Registry
  <2>2. conn'[x] /\ \A r \in Runtime \ {x} : conn'[r] = conn[r]
    BY <1>3 DEF Connects, Connect, IInv, Typed, TypeOK, TeardownTypeOK
  <2>3. \A r \in Runtime : conn'[r] => r = x
    BY <1>0, <2>2 DEF AtMostOneConnection
  <2>4. Holder' = x
    BY <1>0, <2>1, <2>2 DEF HolderIsConnected
  <2>5. Holder = None \/ Holder = x
    <3>1. CASE conn[x] BY <1>0, <2>1, <3>1 DEF HolderIsConnected
    <3>2. CASE ~conn[x]
      BY <2>1, <2>2, <2>3, <3>2, HolderAbsent
    <3> QED BY <3>1, <3>2
  <2> QED BY <2>1, <2>4, <2>5 DEF Session!Open
<1>4. ASSUME NEW x \in Runtime, Disconnects(x)
      PROVE  Session!StartClosing(x) \/ UNCHANGED <<Holder, reg # None>>
  <2>1. CASE reg' = reg
    BY <1>4, <2>1 DEF Disconnects, Holder
  <2>2. CASE reg' # reg
    <3>1. reg = None /\ reg' = x
      BY <1>1, <1>4, <2>2 DEF Disconnects, Disconnect, HeldBy, Succeeded, IInv, Registry
    <3>2. \A r \in Runtime : conn[r] => r = x
      <4> SUFFICES ASSUME NEW r \in Runtime, conn[r], r # x PROVE FALSE
        OBVIOUS
      <4>1. Open(r)
        BY <3>1, OpenOrHeld, NoneAssumption
      <4>2. conn'[r] /\ td'[r] = td[r]
        BY <1>4 DEF Disconnects, Disconnect, IInv, Typed, TypeOK, TeardownTypeOK
      <4>3. Open(r)'
        BY <4>1, <4>2 DEF Open
      <4> QED BY <3>1, <4>3, NoneAssumption DEF IInv, OpenConnection
    <3>3. Holder \in {x, None}
      <4>1. CASE conn[x] BY <1>0, <3>1, <4>1 DEF HolderIsConnected
      <4>2. CASE ~conn[x] BY <3>1, <3>2, <4>2, HolderAbsent
      <4> QED BY <4>1, <4>2
    <3>4. Holder' = x
      BY <3>1, HolderHeld, NoneAssumption DEF Holder
    <3> QED BY <3>1, <3>3, <3>4, NoneAssumption DEF Session!StartClosing
  <2> QED BY <2>1, <2>2
<1>5. ASSUME NEW x \in Runtime, DisconnectDone(x)
      PROVE  Session!Closed
  <2>1. reg = x /\ reg' = None
    BY <1>5 DEF DisconnectDone, IInv, Registry
  <2>2. \A r \in Runtime : ~conn'[r]
    <3> SUFFICES ASSUME NEW r \in Runtime, conn'[r] PROVE FALSE
      OBVIOUS
    <3>1. r # x /\ conn[r]
      BY <1>5 DEF DisconnectDone, IInv, Typed, TypeOK, TeardownTypeOK
    <3> QED BY <2>1, <3>1, OpenOrHeld, NoneAssumption
  <2>3. Holder' = None
    BY <2>1, <2>2 DEF Holder
  <2> QED BY <2>1, <2>3, NoneAssumption DEF Session!Closed
<1> QED BY <1>2, <1>3, <1>4, <1>5, SessionSteps DEF Session!Next

\* The connections of an agent's runtimes are one session's: the next client
\* connects only after the last one was told to close and has closed.
THEOREM Refinement == Spec => SessionIsExclusive
<1>1. Init => Session!Init
  BY HolderAbsent DEF Init, TeardownInit, Session!Init
<1>2. IInv /\ IInv' /\ [Next]_vars => [Session!Next]_<<Holder, reg # None>>
  BY SessionNext
<1>3. <<Holder, reg # None>> = Session!sessionVars
  BY DEF Session!sessionVars
<1>4. IInv /\ IInv' /\ [Next]_vars => [Session!Next]_(Session!sessionVars)
  BY <1>2 DEF Session!sessionVars
<1> QED BY <1>1, <1>4, AlwaysSafe, PTL DEF Spec, SessionIsExclusive, Session!Spec

-----------------------------------------------------------------------------
(* Revocation.                                                             *)

\* The job carries the verdict that the session of its runtime is dead.
JobFoundDead ==
  \/ job.step \in {"start", "lease"} /\ job.at = "mark"
  \/ /\ job.step = "start" /\ job.at \in {"abort", "abortWait"}
     /\ job.val = "dead"
  \/ /\ job.step = "lease" /\ job.at \in {"disc", "discWait"}
     /\ job.val = "dead"

\* Whoever has the verdict about the session in the database has it from Telegram:
\* the database, a runtime, a turn on its way to the database, and the job.
VerdictIsTrue ==
  /\ dbRevoked => sessionDead
  /\ \A r \in Runtime : revoked[r] /\ current[r] => sessionDead
  /\ \A r \in Runtime : turn[r].at \in {"marking", "marked"} => revoked[r]
  /\ job.rt \in Runtime /\ JobFoundDead /\ current[job.rt] => sessionDead

SInv == Typed /\ VerdictIsTrue

\* A verdict that the job did not carry before is Telegram's.
LEMMA VerdictKept ==
  ASSUME SInv, UNCHANGED <<current, sessionDead, revoked, turn>>,
         dbRevoked' => dbRevoked \/ sessionDead,
         JobFoundDead' => JobFoundDead /\ job'.rt = job.rt
  PROVE  VerdictIsTrue'
  BY DEF SInv, VerdictIsTrue

\* So does a step after which the job carries no verdict.
LEMMA NoVerdict ==
  ASSUME SInv, UNCHANGED <<current, sessionDead, revoked, turn>>,
         dbRevoked' => dbRevoked \/ sessionDead, ~JobFoundDead'
  PROVE  VerdictIsTrue'
  BY VerdictKept

\* Whoever fails, saves or is done carries none.
LEMMA FailFindsNothing ==
  ASSUME Typed, NEW kind, NEW now \in RuntimeState, Fail(kind, now)
  PROVE  ~JobFoundDead'
  BY FailStep, NoJobFields DEF Fails, Ends, MovesTo, JobFoundDead

\* Nor does a job whose start worked.
LEMMA StartedFindsNothing ==
  ASSUME Typed, Started, job.step # "get"
  PROVE  ~JobFoundDead'
  BY StartedMoves, NoJobFields DEF Fails, Ends, MovesTo, JobFoundDead

\* Requests, and the configuration that is read for them.
LEMMA RequestVerdict ==
  ASSUME SInv, Typed',
         \/ Begin \/ RemoveAgent \/ BeginRemoval \/ LoadFails
         \/ \E r \in Runtime, proxy \in BOOLEAN : Load(r, proxy)
  PROVE  VerdictIsTrue'
<1>0. job \in Job /\ agents \in Runtime \cup {None} /\ removal \in Runtime \cup {None}
  BY DEF SInv, Typed, TypeOK
<1>1. ASSUME NEW op \in Requests, BeginWith(op) PROVE VerdictIsTrue'
  <2> DEFINE skip == state[agents] = "running" \/ revoked[agents]
  <2>1. op \in Ops BY ManagerAssumption
  <2>2. job' = [NoJob EXCEPT !.op = op] \/ Proceed(op, FALSE, agents, skip)
    BY <1>1 DEF BeginWith
  <2> HIDE DEF skip
  <2>3. ~JobFoundDead'
    <3>1. CASE job' = [NoJob EXCEPT !.op = op]
      BY <3>1 DEF NoJob, JobFoundDead
    <3>2. CASE Proceed(op, FALSE, agents, skip)
      BY <1>0, <2>1, <3>2, ProceedFields, NoJobFields DEF JobFoundDead
    <3> QED BY <2>2, <3>1, <3>2
  <2> QED BY <1>1, <2>3, NoVerdict DEF BeginWith, rtVars, dbVars
<1>2. ASSUME NEW start \in BOOLEAN, BeginCreateSaved(start) PROVE VerdictIsTrue'
  <2>1. ~JobFoundDead' BY <1>2 DEF BeginCreateSaved, NoJob, JobFoundDead
  <2> QED BY <1>2, <2>1, NoVerdict DEF BeginCreateSaved, rtVars, dbVars
<1>3. ASSUME NEW r \in Runtime, NEW proxy \in BOOLEAN, BeginCreate(r, proxy)
      PROVE  VerdictIsTrue'
  <2>1. ~JobFoundDead' BY <1>3 DEF BeginCreate, Proceed, JobFoundDead
  <2> QED BY <1>3, <2>1, NoTurnIsTurn
          DEF BeginCreate, NewRuntime, Garbage, Idle, SInv, VerdictIsTrue, Typed, TypeOK
<1>4. CASE BeginReload
  <2>1. ~JobFoundDead' BY <1>4 DEF BeginReload, NoJob, JobFoundDead
  <2> QED BY <1>4, <2>1, NoVerdict DEF BeginReload, rtVars, dbVars
<1>5. CASE BeginShutdown \/ BeginRemoval
  <2>1. ~JobFoundDead' BY <1>5 DEF BeginShutdown, BeginRemoval, Proceed, JobFoundDead
  <2>2. UNCHANGED <<current, revoked, turn, dbRevoked, sessionDead>>
    BY <1>5 DEF BeginShutdown, BeginRemoval, rtVars, dbVars
  <2> QED BY <2>1, <2>2, NoVerdict
<1>6. CASE RemoveAgent
  BY <1>6, VerdictKept DEF RemoveAgent, rtVars, dbVars, JobFoundDead
<1>7. ASSUME NEW r \in Runtime, NEW proxy \in BOOLEAN, Load(r, proxy)
      PROVE  VerdictIsTrue'
  <2>1. ~JobFoundDead'
    BY <1>0, <1>7, JobFields, ProceedFields, NoJobFields DEF Load, JobFoundDead
  <2> QED BY <1>7, <2>1, NoTurnIsTurn
          DEF Load, NewRuntime, Garbage, Idle, dbVars, SInv, VerdictIsTrue, Typed, TypeOK
<1>8. CASE LoadFails
  <2> DEFINE now == IF job.rt = None THEN "stopped" ELSE state[job.rt]
  <2>1. now \in RuntimeState
    BY <1>0, JobFields, PlaceNames DEF SInv, Typed, TypeOK
  <2>2. Fail(IF removed THEN "notFound" ELSE "other", now)
    BY <1>8 DEF LoadFails
  <2> HIDE DEF now
  <2>3. ~JobFoundDead' BY <2>1, <2>2, FailFindsNothing DEF SInv
  <2> QED BY <1>8, <2>3, NoVerdict DEF LoadFails, rtVars, dbVars
<1> QED BY <1>1, <1>2, <1>3, <1>4, <1>5, <1>6, <1>7, <1>8 DEF Begin

\* start(): the verdict is taken by StartBreaks and carried to the database.
LEMMA StartVerdict ==
  ASSUME SInv, Typed',
         \/ RetryPrevious \/ RetryDisconnected \/ RetryWaited
         \/ EnterStart \/ StartConnects \/ StartRefused \/ StartAuthorized \/ StartRuns
         \/ \E kind \in Failures : StartBreaks(kind)
         \/ StartAborts \/ StartAborted \/ StartMarksRevoked
  PROVE  VerdictIsTrue'
<1>0. job \in Job BY DEF SInv, Typed, TypeOK
<1>1. CASE RetryPrevious
  <2>1. \E at \in {"enter", "retryDisc", "retryWait"} : Goto(at)
    BY <1>1 DEF RetryPrevious, AfterRetry
  <2>2. ~JobFoundDead'
    BY <1>0, <2>1, GotoFields, PlaceNames DEF JobFoundDead
  <2> QED BY <1>1, <2>2, NoVerdict DEF RetryPrevious, rtVars, dbVars
<1>2. CASE RetryDisconnected \/ RetryWaited
  <2>1. state[job.rt] \in RuntimeState
    BY <1>2, JobState DEF RetryDisconnected, RetryWaited, SInv, Typed, JobShape
  <2>2. \/ \E kind \in {"other", "pending"} : Fail(kind, state[job.rt])
        \/ \E at \in {"enter", "retryWait"} : Goto(at)
    BY <1>2 DEF RetryDisconnected, RetryWaited, AfterRetry
  <2>3. ~JobFoundDead'
    BY <1>0, <2>1, <2>2, GotoFields, FailFindsNothing, PlaceNames DEF JobFoundDead, SInv
  <2> QED BY <1>2, <2>3, NoVerdict DEF RetryDisconnected, RetryWaited, rtVars, dbVars
<1>3. CASE EnterStart
  <2>1. job.step = "start" /\ state[job.rt] \in RuntimeState
    BY <1>3, JobState DEF EnterStart, At, SInv
  <2>2. \/ \E kind \in {"lifecycle", "auth"} : Fail(kind, state[job.rt])
        \/ Started
        \/ job' = [job EXCEPT !.at = "await", !.val = state[job.rt]]
    BY <1>3 DEF EnterStart
  <2>3. ~JobFoundDead'
    <3>1. CASE job' = [job EXCEPT !.at = "await", !.val = state[job.rt]]
      BY <1>0, <3>1 DEF Job, JobFoundDead
    <3> QED BY <2>1, <2>2, <3>1, FailFindsNothing, StartedFindsNothing DEF SInv
  <2> QED BY <1>3, <2>3, NoVerdict DEF EnterStart, rtVars, dbVars
<1>4. CASE StartConnects \/ StartAuthorized
  <2>1. Goto("connect") \/ Goto("identify")
    BY <1>4 DEF StartConnects, StartAuthorized
  <2>2. ~JobFoundDead'
    BY <1>0, <2>1, GotoFields, PlaceNames DEF JobFoundDead
  <2> QED BY <1>4, <2>2, NoVerdict DEF StartConnects, StartAuthorized, rtVars, dbVars
<1>5. CASE StartRefused
  <2>1. job.val \in RuntimeState
    BY <1>5 DEF StartRefused, At, SInv, Typed, JobShape
  <2>2. ~JobFoundDead'
    BY <1>5, <2>1, FailFindsNothing DEF StartRefused, SInv
  <2> QED BY <1>5, <2>2, NoVerdict DEF StartRefused, dbVars
<1>6. CASE StartRuns
  <2>1. ~JobFoundDead'
    BY <1>6, StartedFindsNothing DEF StartRuns, At, SInv
  <2> QED BY <1>6, <2>1, NoVerdict DEF StartRuns, dbVars
<1>7. ASSUME NEW kind \in Failures, StartBreaks(kind) PROVE VerdictIsTrue'
  <2>1. job'.rt = job.rt /\ job'.step = "start" /\ job'.at = "abort" /\ job'.val = kind
    BY <1>0, <1>7 DEF StartBreaks, At, Job
  <2> QED BY <1>7, <2>1 DEF StartBreaks, FoundDead, dbVars, SInv, VerdictIsTrue, JobFoundDead
<1>8. CASE StartAborts
  <2>1. JobFoundDead' => JobFoundDead /\ job'.rt = job.rt
    BY <1>0, <1>8, GotoFields, PlaceNames DEF StartAborts, At, JobFoundDead
  <2> QED BY <1>8, <2>1, VerdictKept DEF StartAborts, rtVars, dbVars
<1>9. CASE StartAborted
  <2>1. job.step = "start" /\ job.at = "abortWait" /\ job.rt \in Runtime
    BY <1>9, JobState DEF StartAborted, At, SInv
  <2>2. JobFoundDead' => JobFoundDead /\ job'.rt = job.rt
    <3>1. \/ Fail("other", "error")
          \/ job.val = "dead" /\ Goto("mark")
          \/ GotoStep("fallback", "enter")
      BY <1>9 DEF StartAborted
    <3> QED BY <1>0, <2>1, <3>1, FailFindsNothing, GotoFields, GotoStepFields, PlaceNames
            DEF JobFoundDead, SInv
  <2>3. \A r \in Runtime : revoked'[r] => revoked[r] \/ (r = job.rt /\ JobFoundDead)
    BY <1>9, <2>1 DEF StartAborted, JobFoundDead, SInv, Typed, TypeOK
  <2>4. \A r \in Runtime : revoked[r] => revoked'[r]
    BY <1>9, <2>1 DEF StartAborted, SInv, Typed, TypeOK
  <2> QED BY <1>9, <2>2, <2>3, <2>4 DEF StartAborted, dbVars, SInv, VerdictIsTrue
<1>10. CASE StartMarksRevoked
  <2>1. job.step = "start" /\ job.at = "mark" /\ job.rt \in Runtime
        /\ state[job.rt] \in RuntimeState
    BY <1>10, JobState DEF StartMarksRevoked, At, SInv
  <2>2. ~JobFoundDead'
    BY <1>10, <2>1, FailFindsNothing DEF StartMarksRevoked, SInv
  <2>3. dbRevoked' => dbRevoked \/ sessionDead
    BY <1>10, <2>1 DEF StartMarksRevoked, MarkRevoked, SInv, VerdictIsTrue, JobFoundDead
  <2> QED BY <1>10, <2>2, <2>3, NoVerdict DEF StartMarksRevoked, MarkRevoked, rtVars
<1> QED BY <1>1, <1>2, <1>3, <1>4, <1>5, <1>6, <1>7, <1>8, <1>9, <1>10

\* stop() and close(), and the runtime that replaces the one behind the proxy.
LEMMA StopVerdict ==
  ASSUME SInv, Typed',
         \/ EnterStop \/ StopAgain \/ StopDisconnects \/ StopDisconnected
         \/ ClosedForReload \/ ClosedForGood \/ CloseRaises
         \/ \E r \in Runtime : FallBack(r)
  PROVE  VerdictIsTrue'
<1>0. job \in Job BY DEF SInv, Typed, TypeOK
<1>1. CASE EnterStop \/ StopAgain \/ StopDisconnects
  <2>1. /\ job.step \in {"stop", "close", "fallback"}
        /\ \E at \in {"again", "disc", "againWait", "discWait"} : Goto(at)
    BY <1>1 DEF EnterStop, StopAgain, StopDisconnects, Stopping
  <2>2. ~JobFoundDead'
    BY <1>0, <2>1, GotoFields, PlaceNames DEF JobFoundDead
  <2>3. UNCHANGED <<current, revoked, turn, dbVars>>
    BY <1>1 DEF EnterStop, StopAgain, StopDisconnects, rtVars
  <2> QED BY <2>2, <2>3, NoVerdict DEF dbVars
<1>2. CASE StopDisconnected
  <2> DEFINE now == IF job.at = "discWait" THEN "stopped" ELSE state[job.rt]
  <2>1. now \in RuntimeState
    BY <1>2, JobState, PlaceNames DEF StopDisconnected, Stopping, SInv
  <2>2. \/ \E kind \in {"other", "notFound"} : Fail(kind, now)
        \/ Goto("settle")
        \/ Saving("stop", "stopped")
    BY <1>2 DEF StopDisconnected
  <2> HIDE DEF now
  <2>3. ~JobFoundDead'
    BY <1>0, <2>1, <2>2, FailFindsNothing, GotoFields, SavingFields, PlaceNames
    DEF JobFoundDead, SInv
  <2> QED BY <1>2, <2>3, NoVerdict DEF StopDisconnected, dbVars
<1>3. CASE ClosedForReload \/ ClosedForGood \/ CloseRaises
  <2>1. state[job.rt] \in RuntimeState
    BY <1>3, JobState DEF ClosedForReload, ClosedForGood, CloseRaises, At, SInv
  <2>2. \/ \E kind \in {"other", "notFound"} : Fail(kind, state[job.rt])
        \/ GotoStep("get", "load")
        \/ Release
    BY <1>3 DEF ClosedForReload, ClosedForGood, CloseRaises
  <2>3. ~JobFoundDead'
    BY <1>0, <2>1, <2>2, FailFindsNothing, GotoStepFields, ReleaseFields, NoJobFields,
       PlaceNames DEF JobFoundDead, SInv
  <2> QED BY <1>3, <2>3, NoVerdict
          DEF ClosedForReload, ClosedForGood, CloseRaises, rtVars, dbVars
<1>4. ASSUME NEW r \in Runtime, FallBack(r) PROVE VerdictIsTrue'
  <2>1. job.rt \in Runtime /\ state[job.rt] \in RuntimeState
    BY <1>4, JobState DEF FallBack, At, SInv
  <2>2. CASE removed
    <3>1. ~JobFoundDead'
      BY <1>4, <2>1, <2>2, FailFindsNothing DEF FallBack, SInv
    <3> QED BY <1>4, <2>2, <3>1, NoVerdict DEF FallBack, rtVars, dbVars
  <2>3. CASE ~removed
    <3>1. ~JobFoundDead'
      BY <1>0, <1>4, <2>3 DEF FallBack, Job, JobFoundDead
    <3>2. /\ revoked' = [revoked EXCEPT ![r] = FALSE]
          /\ current' = [current EXCEPT ![r] = current[job.rt]]
          /\ turn' = turn
          /\ dbRevoked' = dbRevoked /\ sessionDead' = sessionDead
      BY <1>4, <2>3 DEF FallBack, NewRuntime, dbVars
    <3>3. turn[r] = NoTurn
      BY <1>4, <2>3 DEF FallBack, NewRuntime, Garbage, Idle
    <3> QED BY <3>1, <3>2, <3>3, NoTurnIsTurn DEF SInv, VerdictIsTrue, Typed, TypeOK
  <2> QED BY <2>2, <2>3
<1> QED BY <1>1, <1>2, <1>3, <1>4

\* A leased client may find its session dead; Save and the rebind write.
LEMMA LeaseVerdict ==
  ASSUME SInv, Typed',
         \/ Lease \/ LeaseDisconnects \/ LeaseDisconnected \/ LeaseMarksRevoked
         \/ \E kind \in {"stopped", "other", "dead"} : LeaseUsed(kind)
         \/ \E written \in BOOLEAN : Save(written)
         \/ ApplyRebind \/ ApplyFails
  PROVE  VerdictIsTrue'
<1>0. job \in Job BY DEF SInv, Typed, TypeOK
<1>1. CASE Lease
  <2>1. job.step = "lease" /\ job.rt \in Runtime
    BY <1>1, JobState DEF Lease, At, SInv
  <2>2. \/ Release
        \/ revoked[job.rt] /\ Goto("mark")
        \/ job' = [job EXCEPT !.at = "use", !.was = state[job.rt] # "running"]
    BY <1>1 DEF Lease
  <2>3. JobFoundDead' => revoked[job.rt] /\ job'.rt = job.rt
    <3>1. CASE job' = [job EXCEPT !.at = "use", !.was = state[job.rt] # "running"]
      BY <1>0, <3>1 DEF Job, JobFoundDead
    <3> QED BY <1>0, <2>2, <3>1, GotoFields, ReleaseFields, NoJobFields, PlaceNames
            DEF JobFoundDead
  <2> QED BY <1>1, <2>3 DEF Lease, rtVars, dbVars, SInv, VerdictIsTrue
<1>2. ASSUME NEW kind \in {"stopped", "other", "dead"}, LeaseUsed(kind)
      PROVE  VerdictIsTrue'
  <2>1. job.step = "lease"
    BY <1>2 DEF LeaseUsed, At
  <2>2. \/ job' = [job EXCEPT !.at = "disc", !.val = kind]
        \/ kind = "dead" /\ Goto("mark")
        \/ Release
    BY <1>2 DEF LeaseUsed
  <2>3. JobFoundDead' => kind = "dead" /\ job'.rt = job.rt
    <3>1. CASE job' = [job EXCEPT !.at = "disc", !.val = kind]
      BY <1>0, <2>1, <3>1 DEF Job, JobFoundDead
    <3> QED BY <1>0, <2>2, <3>1, GotoFields, ReleaseFields, NoJobFields, PlaceNames
            DEF JobFoundDead
  <2> QED BY <1>2, <2>3 DEF LeaseUsed, FoundDead, rtVars, dbVars, SInv, VerdictIsTrue
<1>3. CASE LeaseDisconnects \/ LeaseDisconnected
  <2>1. JobFoundDead' => JobFoundDead /\ job'.rt = job.rt
    BY <1>0, <1>3, GotoFields, ReleaseFields, NoJobFields, PlaceNames
    DEF LeaseDisconnects, LeaseDisconnected, At, JobFoundDead
  <2>2. UNCHANGED <<current, revoked, turn, dbRevoked, sessionDead>>
    BY <1>3 DEF LeaseDisconnects, LeaseDisconnected, rtVars, dbVars
  <2> QED BY <2>1, <2>2, VerdictKept
<1>4. CASE LeaseMarksRevoked
  <2>1. job.rt \in Runtime /\ JobFoundDead
    BY <1>4, JobState DEF LeaseMarksRevoked, At, JobFoundDead, SInv
  <2>2. ~JobFoundDead'
    BY <1>4, ReleaseFields, NoJobFields DEF LeaseMarksRevoked, JobFoundDead
  <2> QED BY <1>4, <2>1, <2>2
          DEF LeaseMarksRevoked, MarkRevoked, SInv, VerdictIsTrue, Typed, TypeOK
<1>5. ASSUME NEW written \in BOOLEAN, Save(written) PROVE VerdictIsTrue'
  <2>1. GotoStep("apply", "enter") \/ Release
    BY <1>5 DEF Save
  <2>2. ~JobFoundDead'
    BY <1>0, <2>1, GotoStepFields, ReleaseFields, NoJobFields, PlaceNames DEF JobFoundDead
  <2> QED BY <1>5, <2>2, NoVerdict DEF Save, rtVars
<1>6. CASE ApplyRebind
  <2>1. ~JobFoundDead'
    BY <1>0, <1>6, NoJobFields DEF ApplyRebind, Release, Job, JobFoundDead
  <2> QED BY <1>6, <2>1 DEF ApplyRebind, SInv, VerdictIsTrue
<1>7. CASE ApplyFails
  <2>1. ~JobFoundDead'
    BY <1>7, ReleaseFields, NoJobFields DEF ApplyFails, JobFoundDead
  <2> QED BY <1>7, <2>1, NoVerdict DEF ApplyFails, rtVars, dbVars
<1> QED BY <1>1, <1>2, <1>3, <1>4, <1>5, <1>6, <1>7

\* A turn takes the verdict and carries it to the database on its own.
LEMMA TurnVerdict ==
  ASSUME SInv, Typed', NEW x \in Runtime, TurnStep(x) \/ DisconnectEnds(x)
  PROVE  VerdictIsTrue'
<1>0. turn \in [Runtime -> Turn] BY DEF SInv, Typed, TypeOK
<1>1. \A r \in Runtime \ {x} : turn'[r] = turn[r]
  BY <1>0 DEF TurnStep, TurnBegins, TurnFindsDead, TurnMarksRevoked, TurnSetsError, TurnEnds,
     TurnLeaves, DisconnectEnds, rtVars
<1>2. CASE TurnBegins(x) \/ TurnSetsError(x) \/ TurnEnds(x) \/ TurnLeaves(x)
  <2>1. CASE TurnBegins(x)
    BY <1>0, <1>1, <2>1 DEF TurnBegins, dbVars, SInv, VerdictIsTrue, JobFoundDead, Turn
  <2>2. CASE TurnSetsError(x)
    <3>1. turn'[x].at = "busy"
      BY <1>0, <2>2, TurnMoves DEF TurnSetsError
    <3> QED BY <1>1, <2>2, <3>1 DEF TurnSetsError, dbVars, SInv, VerdictIsTrue, JobFoundDead
  <2>3. CASE TurnEnds(x)
    <3>1. turn'[x].at \notin {"marking", "marked"}
      BY <1>0, <2>3, TurnMoves, NoTurnIsTurn DEF TurnEnds
    <3> QED BY <1>1, <2>3, <3>1 DEF TurnEnds, dbVars, SInv, VerdictIsTrue, JobFoundDead
  <2>4. CASE TurnLeaves(x)
    BY <1>0, <1>1, <2>4, NoTurnIsTurn DEF TurnLeaves, dbVars, SInv, VerdictIsTrue, JobFoundDead
  <2> QED BY <1>2, <2>1, <2>2, <2>3, <2>4
<1>3. CASE TurnFindsDead(x)
  <2>1. revoked'[x] /\ \A r \in Runtime \ {x} : revoked'[r] = revoked[r]
    BY <1>3 DEF TurnFindsDead, SInv, Typed, TypeOK
  <2> QED BY <1>1, <1>3, <2>1 DEF TurnFindsDead, FoundDead, dbVars, SInv, VerdictIsTrue,
             JobFoundDead
<1>4. CASE TurnMarksRevoked(x)
  <2>1. turn'[x].at = "marked"
    BY <1>0, <1>4 DEF TurnMarksRevoked, Turn
  <2> QED BY <1>1, <1>4, <2>1 DEF TurnMarksRevoked, MarkRevoked, SInv, VerdictIsTrue,
             JobFoundDead
<1>5. CASE DisconnectEnds(x)
  BY <1>5, VerdictKept DEF DisconnectEnds, rtVars, dbVars, JobFoundDead
<1> QED BY <1>2, <1>3, <1>4, <1>5 DEF TurnStep

\* So does the warm-up task.
LEMMA WarmupVerdict ==
  ASSUME SInv, WarmupClient, WarmupStep
  PROVE  VerdictIsTrue'
<1>1. CASE WarmupEnds
  BY <1>1, VerdictKept DEF WarmupEnds, dbVars, JobFoundDead
<1>2. ASSUME NEW x \in Runtime, WarmupBegins(x)
      PROVE  VerdictIsTrue'
  BY <1>2, VerdictKept DEF WarmupBegins, dbVars, JobFoundDead
<1>3. ASSUME NEW x \in Runtime, WarmupFindsDead(x)
      PROVE  VerdictIsTrue'
  <2>1. revoked'[x] /\ \A r \in Runtime \ {x} : revoked'[r] = revoked[r]
    BY <1>3 DEF WarmupFindsDead, SInv, Typed, TypeOK
  <2> QED BY <1>3, <2>1 DEF WarmupFindsDead, FoundDead, dbVars, SInv, VerdictIsTrue,
             JobFoundDead
<1>4. ASSUME NEW x \in Runtime, WarmupMarksRevoked(x)
      PROVE  VerdictIsTrue'
  <2>1. revoked[x]
    BY <1>4 DEF WarmupMarksRevoked, WarmupClient
  <2>2. dbRevoked' => dbRevoked \/ sessionDead
    BY <1>4, <2>1 DEF WarmupMarksRevoked, MarkRevoked, SInv, VerdictIsTrue
  <2>3. UNCHANGED <<current, sessionDead, revoked, turn, job>>
    BY <1>4 DEF WarmupMarksRevoked, MarkRevoked
  <2> QED BY <2>2, <2>3, VerdictKept DEF JobFoundDead
<1>5. ASSUME NEW x \in Runtime, WarmupSetsError(x)
      PROVE  VerdictIsTrue'
  BY <1>5, VerdictKept DEF WarmupSetsError, dbVars, JobFoundDead
<1> QED BY <1>1, <1>2, <1>3, <1>4, <1>5 DEF WarmupStep

\* The verdicts are Telegram's in every reachable state.
LEMMA SInvHolds == Spec => []SInv
<1>1. Init => SInv
  BY InitTyped, NoTurnIsTurn, NoneAssumption, NoJobFields DEF Init, SInv, VerdictIsTrue
<1>2. SInv /\ WarmupClient /\ [Next]_vars => SInv'
  <2> SUFFICES ASSUME SInv, WarmupClient, [Next]_vars PROVE SInv'
    OBVIOUS
  <2>1. Typed' BY NextTyped DEF SInv
  <2>2. CASE Begin \/ RemoveAgent \/ BeginRemoval
    BY <2>1, <2>2, RequestVerdict DEF SInv
  <2>3. CASE JobStep
    BY <2>1, <2>3, RequestVerdict, StartVerdict, StopVerdict, LeaseVerdict DEF SInv, JobStep
  <2>4. CASE \E x \in Runtime : TurnStep(x) \/ DisconnectEnds(x)
    BY <2>1, <2>4, TurnVerdict DEF SInv
  <2>5. CASE SessionDies
    BY <2>1, <2>5 DEF SessionDies, SInv, VerdictIsTrue, rtVars
  <2>6. CASE UNCHANGED vars
    BY <2>1, <2>6 DEF vars, SInv, VerdictIsTrue, JobFoundDead
  <2>7. CASE WarmupStep
    BY <2>1, <2>7, WarmupVerdict DEF SInv
  <2> QED BY <2>2, <2>3, <2>4, <2>5, <2>6, <2>7 DEF Next
<1>3. Spec => []WarmupClient
  BY AlwaysHeld, PTL
<1> QED BY <1>1, <1>2, <1>3, PTL DEF Spec

\* A runtime that works on with the session of before a rebind does not mark the
\* new session revoked: what the database calls revoked, Telegram has rejected.
THEOREM RevokedIsDead == Spec => []FreshSessionNotRevoked
<1>1. SInv => FreshSessionNotRevoked
  BY DEF SInv, VerdictIsTrue, FreshSessionNotRevoked
<1> QED BY <1>1, SInvHolds, PTL

-----------------------------------------------------------------------------
(* The badge.                                                              *)

\* The database says that the agent runs, and it is this process that says so.
Claims == dbStatus = "running" /\ ~inherited

USE DEF Claims

\* What "running" in the database may rest on.
Works(x) == state[x] = "running" \/ retired[x] \/ revoked[x]

\* The operation writes the status before it ends, whatever it meets, or the agent
\* is removed.
WillWrite == job.op \in {"reload", "remove"} \/ job.step = "stop" \/ job.at = "save"

\* A start is past its look at the runtime's state.
InStart ==
  \/ job.step = "fallback"
  \/ /\ job.step = "start"
     /\ job.at \notin {"retry", "retryDisc", "retryWait", "enter"}

\* "running" in the database is the state of the agent's runtime, unless a job
\* that will write is at work: a start that is under way, or an agent without a
\* runtime, has found another status there.
Badge ==
  /\ job.step = "stop" => job.op \in {"stop", "rebind"}
  /\ job.step = "lease" => job.op = "account"
  /\ job.step = "stop" /\ job.at = "save" => job.val = "stopped"
  /\ job.step = "fail" => job.at = "save"
  /\ ~removed =>
       /\ agents = None /\ job.op # "reload" => ~Claims
       /\ agents # None /\ ~WillWrite /\ Claims => Works(agents)
       /\ InStart /\ ~WillWrite => ~Claims
       /\ job.step = "apply" => ~Claims
       /\ job.at = "save" /\ job.val = "running" => agents = job.rt /\ Works(job.rt)

\* What the badge rests on is established before: who knows the job's runtime, and
\* that a turn and the warm-up task mark only a runtime that is revoked.
BInv == IInv /\ SInv /\ WarmupClient /\ Badge

\* A job that is past the look-up works on the runtime in _agents, or the agent
\* was removed.
LEMMA OwnedJob ==
  ASSUME IInv, ~removed, job.step \notin {"get", "fail"}
  PROVE  agents \in Runtime /\ job.rt = agents
<1>1. job.rt \in Runtime /\ job.rt # None
  BY JobState, NoneAssumption DEF IInv
<1>2. job.rt \in {agents, removal}
  BY <1>1 DEF IInv, JobOwner
<1>3. CASE job.rt = removal
  BY <1>1, <1>3 DEF IInv, OneOwner
<1> QED BY <1>1, <1>2, <1>3

\* A job that moves on without a write leaves the badge as it is, if the states do
\* not change and it neither enters a start nor stops writing.
LEMMA BadgeMoves ==
  ASSUME BInv, UNCHANGED <<agents, removed, state, retired>>, job'.op = job.op,
         job'.step = job.step, job'.at # "save", job.at # "save",
         \A r \in Runtime : revoked[r] => revoked'[r],
         Claims' => Claims,
         InStart' => InStart
  PROVE  Badge'
<1>1. agents \in Runtime \cup {None} BY DEF BInv, IInv, Typed, TypeOK
<1> QED BY <1>1 DEF BInv, Badge, WillWrite, Works

\* A failure writes the state that the runtime is left in, or leaves an honest
\* badge behind.
LEMMA FailKeepsBadge ==
  ASSUME BInv, Typed', NEW kind, NEW now \in RuntimeState, Fail(kind, now),
         ~removed => (Claims' => Claims),
         job.step = "stop" /\ ~removed => kind \notin {"lifecycle", "notFound"},
         job.at # "save",
         now = "running" =>
           /\ job.step # "get"
           /\ state'[job.rt] = "running" \/ retired'[job.rt] \/ revoked'[job.rt],
         ~removed /\ ~WillWrite /\ agents # None /\ Claims' =>
           state'[agents] = "running" \/ retired'[agents] \/ revoked'[agents]
  PROVE  Badge'
<1> USE DEF BInv
<1>1. job \in Job BY DEF IInv, Typed, TypeOK
<1>2. "fail" \in Steps /\ "error" \in RuntimeState
  BY DEF Steps, RuntimeState
<1>3. CASE job.op = "remove"
  <2>1. agents' = job.rt /\ removed' = FALSE /\ Saving("fail", now)
    BY <1>3 DEF Fail
  <2>2. job'.step = "fail" /\ job'.at = "save" /\ job'.val = now /\ job'.op = "remove"
        /\ job'.rt = job.rt
    BY <1>1, <1>2, <1>3, <2>1, SavingFields
  <2>3. job.rt # None
    BY <1>3, NoneAssumption DEF IInv, Typed, JobShape
  <2> QED BY <2>1, <2>2, <2>3 DEF Badge, WillWrite, InStart, Works
<1>4. CASE job.op # "remove" /\ \E status \in {now, "error"} : Saving("fail", status)
  <2>1. UNCHANGED <<agents, removed>>
    BY <1>4 DEF Fail
  <2>2. PICK status \in {now, "error"} : Saving("fail", status)
    BY <1>4
  <2>3. job'.step = "fail" /\ job'.at = "save" /\ job'.val = status /\ job'.op = job.op
        /\ job'.rt = job.rt
    BY <1>1, <1>2, <2>2, SavingFields
  <2>4. ~removed /\ status = "running" => agents = job.rt /\ agents \in Runtime
    BY <2>2, OwnedJob DEF Badge
  <2> QED BY <2>1, <2>2, <2>3, <2>4 DEF Badge, WillWrite, InStart, Works
<1>5. CASE job.op # "remove" /\ Release /\ ~\E status \in {now, "error"} : Saving("fail", status)
  <2>1. UNCHANGED <<agents, removed>> /\ job' = NoJob
    BY <1>5 DEF Fail, Release
  <2>2. ~removed => ~WillWrite
    BY <1>5 DEF Fail, WillWrite, Badge
  <2> QED BY <2>1, <2>2, NoJobFields DEF Badge, WillWrite, InStart, Works
<1> QED BY <1>3, <1>4, <1>5 DEF Fail

\* What Proceed makes of a job, operation by operation.
LEMMA ProceedBadge ==
  ASSUME NEW op \in Ops, NEW was \in BOOLEAN, NEW x \in Runtime \cup {None}, NEW skip,
         Proceed(op, was, x, skip)
  PROVE  \/ job' = NoJob /\ op # "reload"
         \/ /\ job'.op = op
            /\ \/ job'.step = "start" /\ job'.at = "retry"
               \/ job'.step = "stop" /\ job'.at = "retry" /\ op \in {"stop", "rebind"}
               \/ job'.step = "lease" /\ job'.at = "await" /\ op = "account"
               \/ job'.step = "close" /\ job'.at = "retry"
               \/ job'.step = "save" /\ job'.at = "save" /\ job'.val = "stopped"
                  /\ op = "reload"
<1> DEFINE Go(step, at) == [op |-> op, step |-> step, at |-> at, rt |-> x,
                            was |-> was, val |-> "stopped"]
<1>1. \/ job' = NoJob /\ op # "reload"
      \/ job' = Go("start", "retry")
      \/ job' = Go("stop", "retry") /\ op \in {"stop", "rebind"}
      \/ job' = Go("lease", "await") /\ op = "account"
      \/ job' = Go("close", "retry")
      \/ job' = Go("save", "save") /\ op = "reload"
  BY DEF Proceed, Release
<1> QED BY <1>1

\* A request finds the badge honest, and a new runtime is made where the database
\* says something else than "running".
LEMMA RequestBadge ==
  ASSUME BInv, Typed', Begin \/ RemoveAgent \/ BeginRemoval
  PROVE  Badge'
<1> USE DEF BInv
<1>0. /\ agents \in Runtime \cup {None} /\ removal \in Runtime \cup {None}
      /\ NoJob.op = "none" /\ NoJob.step = "get" /\ NoJob.at = "load"
  BY NoJobFields DEF IInv, Typed, TypeOK
<1>1. ASSUME NEW op \in Requests, BeginWith(op) PROVE Badge'
  <2> DEFINE skip == state[agents] = "running" \/ revoked[agents]
  <2>1. op \in Ops /\ job = NoJob /\ op \notin {"reload", "remove"}
    BY <1>1, ManagerAssumption DEF BeginWith
  <2>2. \/ agents = None /\ job' = [NoJob EXCEPT !.op = op]
        \/ agents # None /\ Proceed(op, FALSE, agents, skip)
    BY <1>1 DEF BeginWith
  <2>3. UNCHANGED <<agents, removed, state, retired, revoked, dbStatus, inherited>>
    BY <1>1 DEF BeginWith, regVars, rtVars, dbVars
  <2> HIDE DEF skip
  <2>4. \/ job'.step = "get" /\ job'.at = "load" /\ agents = None /\ job'.op = op
        \/ job' = NoJob
        \/ /\ job'.op = op /\ agents # None
           /\ \/ job'.step = "start" /\ job'.at = "retry"
              \/ job'.step = "stop" /\ job'.at = "retry" /\ op \in {"stop", "rebind"}
              \/ job'.step = "lease" /\ job'.at = "await" /\ op = "account"
              \/ job'.step = "close" /\ job'.at = "retry"
    <3>1. CASE job' = [NoJob EXCEPT !.op = op] /\ agents = None
      BY <3>1 DEF NoJob
    <3>2. CASE Proceed(op, FALSE, agents, skip) /\ agents # None
      BY <1>0, <2>1, <3>2, ProceedBadge
    <3> QED BY <2>2, <3>1, <3>2
  <2> QED BY <1>0, <2>1, <2>3, <2>4 DEF Badge, WillWrite, InStart, Works
<1>2. ASSUME NEW start \in BOOLEAN, BeginCreateSaved(start) PROVE Badge'
  <2>1. job = NoJob /\ job'.op = "createSaved" /\ job'.step = "get" /\ job'.at = "load"
    BY <1>2 DEF BeginCreateSaved, NoJob
  <2> QED BY <1>0, <1>2, <2>1
          DEF BeginCreateSaved, regVars, rtVars, dbVars, Badge, WillWrite, InStart, Works
<1>3. ASSUME NEW r \in Runtime, NEW proxy \in BOOLEAN, BeginCreate(r, proxy)
      PROVE  Badge'
  <2>1. job = NoJob /\ agents = None /\ agents' = r /\ r # None
    BY <1>3, NoneAssumption DEF BeginCreate, NewRuntime
  <2>2. job'.op = "create" /\ job'.step = "start" /\ job'.at = "retry"
    BY <1>3 DEF BeginCreate, Proceed
  <2>3. ~Claims'
    BY <1>0, <1>3, <2>1 DEF BeginCreate, Badge
  <2> QED BY <2>1, <2>2, <2>3 DEF Badge, WillWrite, InStart
<1>4. CASE BeginReload
  <2>1. job'.op = "reload" /\ job'.step = "close" /\ job'.at = "retry"
    BY <1>4 DEF BeginReload, NoJob
  <2> QED BY <1>4, <2>1 DEF BeginReload, Badge, WillWrite, InStart
<1>5. CASE BeginShutdown
  <2>1. job = NoJob /\ job'.op = "shutdown" /\ job'.step = "close" /\ job'.at = "retry"
    BY <1>5 DEF BeginShutdown, Proceed
  <2> QED BY <1>0, <1>5, <2>1
          DEF BeginShutdown, regVars, rtVars, dbVars, Badge, WillWrite, InStart, Works
<1>6. CASE RemoveAgent
  BY <1>6 DEF RemoveAgent, Badge
<1>7. CASE BeginRemoval
  <2>1. job'.op = "remove" /\ job'.step = "close" /\ job'.at = "retry"
    BY <1>7 DEF BeginRemoval, Proceed
  <2>2. removed /\ removed'
    BY <1>0, <1>7 DEF BeginRemoval, IInv, OneOwner, regVars
  <2> QED BY <2>1, <2>2 DEF Badge
<1> QED BY <1>1, <1>2, <1>3, <1>4, <1>5, <1>6, <1>7 DEF Begin

\* A runtime that is loaded is stopped: the operation that loads it finds another
\* status than "running", or is a reload, which writes.
LEMMA LoadBadge ==
  ASSUME BInv, Typed',
         LoadFails \/ \E r \in Runtime, proxy \in BOOLEAN : Load(r, proxy)
  PROVE  Badge'
<1> USE DEF BInv
<1>0. job \in Job /\ agents \in Runtime \cup {None} BY DEF IInv, Typed, TypeOK
<1>1. ASSUME NEW r \in Runtime, NEW proxy \in BOOLEAN, Load(r, proxy)
      PROVE  Badge'
  <2>1. job.op \in Ops /\ job.was \in BOOLEAN /\ job.op # "none" /\ job.op # "remove"
    BY <1>0, <1>1, JobFields DEF Load, At, IInv, OneOwner
  <2>2. Proceed(job.op, job.was, r, FALSE) /\ agents' = r /\ r # None /\ agents = None
        /\ removed' = removed /\ ~removed /\ UNCHANGED <<dbStatus, inherited>>
    BY <1>1, NoneAssumption DEF Load, NewRuntime, dbVars
  <2>3. \/ job' = NoJob /\ job.op # "reload"
        \/ /\ job'.op = job.op
           /\ \/ job'.step = "start" /\ job'.at = "retry"
              \/ job'.step = "stop" /\ job'.at = "retry" /\ job.op \in {"stop", "rebind"}
              \/ job'.step = "lease" /\ job'.at = "await" /\ job.op = "account"
              \/ job'.step = "close" /\ job'.at = "retry"
              \/ job'.step = "save" /\ job'.at = "save" /\ job'.val = "stopped"
                 /\ job.op = "reload"
    BY <2>1, <2>2, ProceedBadge
  <2>4. Claims => job.op = "reload"
    BY <2>2 DEF Badge
  <2> QED BY <2>2, <2>3, <2>4, NoJobFields DEF Badge, WillWrite, InStart
<1>2. CASE LoadFails
  <2> DEFINE now == IF job.rt = None THEN "stopped" ELSE state[job.rt]
             kind == IF removed THEN "notFound" ELSE "other"
  <2>1. now \in RuntimeState
    BY <1>0, JobFields, PlaceNames DEF IInv, Typed, TypeOK
  <2>2. now # "running"
    BY <1>2 DEF LoadFails, At, IInv, JobOwner, AtRest
  <2>3. Fail(kind, now) /\ job.step = "get" /\ job.at = "load"
    BY <1>2 DEF LoadFails, At
  <2>4. UNCHANGED <<state, retired, revoked, dbStatus, inherited>>
    BY <1>2 DEF LoadFails, rtVars, dbVars
  <2> HIDE DEF now, kind
  <2>5. ~removed /\ ~WillWrite /\ agents # None /\ Claims' =>
           state'[agents] = "running" \/ retired'[agents] \/ revoked'[agents]
    BY <2>4 DEF Badge, Works
  <2> QED BY <2>1, <2>2, <2>3, <2>4, <2>5, FailKeepsBadge
<1> QED BY <1>1, <1>2

\* A start that worked is written, or its runtime runs.
LEMMA StartedBadge ==
  ASSUME BInv, Typed', Started, job.step = "start", job.at # "save",
         state'[job.rt] = "running"
  PROVE  Badge'
<1> USE DEF BInv
<1>0. job \in Job /\ job.rt \in Runtime
  BY JobState DEF IInv, Typed, TypeOK
<1>1. CASE removed
  <2>1. Fail("notFound", "running") /\ "running" \in RuntimeState
    BY <1>1 DEF Started, RuntimeState
  <2> QED BY <1>1, <2>1, FailKeepsBadge
<1>2. CASE ~removed
  <2>1. agents = job.rt /\ agents # None /\ UNCHANGED <<agents, removed>>
    BY <1>0, <1>2, OwnedJob, NoneAssumption DEF Started, regVars
  <2>2. CASE Saving("save", "running")
    <3>1. job'.step = "save" /\ job'.at = "save" /\ job'.rt = job.rt
      BY <1>0, <2>2, SavingFields, PlaceNames DEF Steps, RuntimeState
    <3> QED BY <2>1, <3>1 DEF Badge, WillWrite, InStart, Works
  <2>3. CASE Release
    BY <2>1, <2>3, NoJobFields DEF Release, Badge, WillWrite, InStart, Works
  <2> QED BY <1>2, <2>2, <2>3 DEF Started
<1> QED BY <1>1, <1>2

\* A start that goes to work finds another status than "running" in the database,
\* unless it is a reload's; what it leaves behind is written, or was there before.
LEMMA StartBadge ==
  ASSUME BInv, Typed',
         \/ RetryPrevious \/ RetryDisconnected \/ RetryWaited
         \/ EnterStart \/ StartConnects \/ StartRefused \/ StartAuthorized \/ StartRuns
         \/ \E kind \in Failures : StartBreaks(kind)
         \/ StartAborts \/ StartAborted \/ StartMarksRevoked
  PROVE  Badge'
<1> USE DEF BInv
<1>0. /\ job \in Job /\ agents \in Runtime \cup {None}
      /\ state \in [Runtime -> RuntimeState] /\ revoked \in [Runtime -> BOOLEAN]
  BY DEF IInv, Typed, TypeOK
<1>1. CASE RetryPrevious
  <2>1. \E at \in {"enter", "retryDisc", "retryWait"} : Goto(at)
    BY <1>1 DEF RetryPrevious, AfterRetry
  <2>2. /\ job'.op = job.op /\ job'.step = job.step /\ job'.at # "save" /\ job.at # "save"
        /\ InStart' => InStart
    BY <1>0, <1>1, <2>1, GotoFields, PlaceNames DEF RetryPrevious, InStart
  <2> QED BY <1>1, <2>2, BadgeMoves DEF RetryPrevious, regVars, rtVars, dbVars
<1>2. CASE RetryDisconnected \/ RetryWaited
  <2>1. state[job.rt] \in RuntimeState /\ job.at \in {"retryDisc", "retryWait"}
    BY <1>2, JobState DEF RetryDisconnected, RetryWaited, IInv, Typed, JobShape
  <2>2. \/ \E kind \in {"other", "pending"} : Fail(kind, state[job.rt])
        \/ /\ \E at \in {"enter", "retryWait"} : Goto(at)
           /\ UNCHANGED regVars
    BY <1>2 DEF RetryDisconnected, RetryWaited, AfterRetry
  <2>3. UNCHANGED <<state, retired, revoked, dbStatus, inherited>>
    BY <1>2 DEF RetryDisconnected, RetryWaited, rtVars, dbVars
  <2>4. CASE UNCHANGED regVars /\ \E at \in {"enter", "retryWait"} : Goto(at)
    <3>1. /\ job'.op = job.op /\ job'.step = job.step /\ job'.at # "save"
          /\ (InStart' => InStart)
      BY <1>0, <2>1, <2>4, GotoFields, PlaceNames DEF InStart
    <3> QED BY <2>1, <2>3, <2>4, <3>1, BadgeMoves DEF regVars
  <2>5. ASSUME NEW kind \in {"other", "pending"}, Fail(kind, state[job.rt])
        PROVE  Badge'
    <3>1. job.step # "get"
      BY <2>1 DEF IInv, Typed, JobShape
    <3>2. ~removed /\ ~WillWrite /\ agents # None /\ Claims' =>
             state'[agents] = "running" \/ retired'[agents] \/ revoked'[agents]
      BY <2>3 DEF Badge, Works
    <3> QED BY <2>1, <2>3, <2>5, <3>1, <3>2, FailKeepsBadge
  <2> QED BY <2>2, <2>4, <2>5
<1>3. CASE EnterStart
  <2> DEFINE x == job.rt
  <2>1. job.step = "start" /\ job.at = "enter" /\ x \in Runtime /\ state[x] \in RuntimeState
    BY <1>3, JobState DEF EnterStart, At, IInv
  <2>2. /\ UNCHANGED <<retired, revoked, dbStatus, inherited>>
        /\ ~removed => agents = x
    BY <1>3, <2>1, OwnedJob DEF EnterStart, dbVars
  <2>3. CASE retired[x] \/ revoked[x]
    <3>1. PICK kind \in {"lifecycle", "auth"} : Fail(kind, state[x])
      BY <1>3, <2>3 DEF EnterStart
    <3>2. state' = state
      BY <1>3, <2>3 DEF EnterStart
    <3>3. ~removed /\ ~WillWrite /\ agents # None /\ Claims' =>
             state'[agents] = "running" \/ retired'[agents] \/ revoked'[agents]
      BY <2>2, <2>3
    <3> QED BY <2>1, <2>2, <2>3, <3>1, <3>2, <3>3, FailKeepsBadge
  <2>4. CASE ~retired[x] /\ ~revoked[x] /\ state[x] = "running"
    <3>1. Started /\ state' = state
      BY <1>3, <2>4 DEF EnterStart
    <3> QED BY <2>1, <2>2, <2>4, <3>1, StartedBadge
  <2>5. CASE ~retired[x] /\ ~revoked[x] /\ state[x] # "running"
    <3>1. /\ job' = [job EXCEPT !.at = "await", !.val = state[x]]
          /\ UNCHANGED <<agents, removed>>
      BY <1>3, <2>5 DEF EnterStart, regVars
    <3>2. job'.op = job.op /\ job'.step = "start" /\ job'.at = "await"
      BY <1>0, <2>1, <3>1 DEF Job
    <3>3. ~removed /\ ~WillWrite => agents # None /\ ~Claims
      BY <2>1, <2>2, <2>5, NoneAssumption DEF Badge, Works
    <3> QED BY <2>1, <2>2, <3>1, <3>2, <3>3 DEF Badge, WillWrite, InStart
  <2> QED BY <2>3, <2>4, <2>5
<1>4. CASE StartConnects \/ StartAuthorized \/ StartAborts
  <2>1. /\ Goto("connect") \/ Goto("identify") \/ Goto("abortWait")
        /\ job.step = "start" /\ job.at \in {"await", "connect", "abort"}
        /\ UNCHANGED <<agents, removed, state, retired, revoked, dbStatus, inherited>>
    BY <1>4 DEF StartConnects, StartAuthorized, StartAborts, At, regVars, rtVars, dbVars
  <2>2. /\ job'.op = job.op /\ job'.step = job.step /\ job'.at # "save"
        /\ (InStart' => InStart)
    BY <1>0, <2>1, GotoFields, PlaceNames DEF InStart
  <2> QED BY <2>1, <2>2, BadgeMoves
<1>5. CASE StartRefused
  <2>1. job.step = "start" /\ job.at = "await" /\ job.val \in RuntimeState
        /\ job.rt \in Runtime
    BY <1>5, JobState DEF StartRefused, At, IInv, Typed, JobShape
  <2>2. Fail("pending", job.val) /\ state'[job.rt] = job.val /\ UNCHANGED <<dbStatus, inherited>>
    BY <1>0, <1>5, <2>1 DEF StartRefused, dbVars
  <2>3. ~removed /\ ~WillWrite => ~Claims
    BY <2>1 DEF Badge, InStart
  <2> QED BY <2>1, <2>2, <2>3, FailKeepsBadge
<1>6. CASE StartRuns
  <2>1. job.step = "start" /\ job.at = "identify" /\ job.rt \in Runtime
    BY <1>6, JobState DEF StartRuns, At, IInv
  <2>2. Started /\ state'[job.rt] = "running"
    BY <1>0, <1>6, <2>1 DEF StartRuns
  <2> QED BY <2>1, <2>2, StartedBadge
<1>7. ASSUME NEW kind \in Failures, StartBreaks(kind) PROVE Badge'
  <2>1. job.step = "start" /\ job.at \in {"connect", "identify"}
        /\ UNCHANGED <<agents, removed, dbStatus, inherited>>
    BY <1>7 DEF StartBreaks, At, regVars, dbVars
  <2>2. job'.op = job.op /\ job'.step = "start" /\ job'.at = "abort"
    BY <1>0, <1>7, <2>1 DEF StartBreaks, Job
  <2>3. ~removed => agents # None
    BY <2>1, OwnedJob, NoneAssumption
  <2> QED BY <2>1, <2>2, <2>3 DEF Badge, WillWrite, InStart
<1>8. CASE StartAborted
  <2>1. job.step = "start" /\ job.at = "abortWait" /\ job.rt \in Runtime
        /\ UNCHANGED <<dbStatus, inherited>>
    BY <1>8, JobState DEF StartAborted, At, IInv, dbVars
  <2>2. ~removed => agents # None /\ (~WillWrite => ~Claims)
    BY <2>1, OwnedJob, NoneAssumption DEF Badge, InStart
  <2>3. CASE Fail("other", "error")
    BY <2>1, <2>2, <2>3, FailKeepsBadge DEF RuntimeState
  <2>4. CASE UNCHANGED regVars /\ (Goto("mark") \/ GotoStep("fallback", "enter"))
    <3>1. /\ job'.op = job.op /\ job'.step \in {"start", "fallback"} /\ job'.at # "save"
      BY <1>0, <2>1, <2>4, GotoFields, GotoStepFields, PlaceNames
    <3> QED BY <2>1, <2>2, <2>4, <3>1 DEF Badge, WillWrite, regVars
  <2> QED BY <1>8, <2>3, <2>4 DEF StartAborted
<1>9. CASE StartMarksRevoked
  <2>1. job.step = "start" /\ job.at = "mark" /\ job.rt \in Runtime
        /\ state[job.rt] \in RuntimeState
    BY <1>9, JobState DEF StartMarksRevoked, At, IInv
  <2>2. /\ Fail("auth", state[job.rt]) /\ UNCHANGED <<state, retired, revoked>>
        /\ Claims' => Claims
    BY <1>9 DEF StartMarksRevoked, MarkRevoked, rtVars
  <2>3. ~removed /\ ~WillWrite => ~Claims
    BY <2>1 DEF Badge, InStart
  <2> QED BY <2>1, <2>2, <2>3, FailKeepsBadge
<1> QED BY <1>1, <1>2, <1>3, <1>4, <1>5, <1>6, <1>7, <1>8, <1>9

\* close() retires the runtime before it stops it, stop() writes, and the start
\* that falls back has found another status than "running".
LEMMA StopBadge ==
  ASSUME BInv, Typed',
         \/ EnterStop \/ StopAgain \/ StopDisconnects \/ StopDisconnected
         \/ ClosedForReload \/ ClosedForGood \/ CloseRaises
         \/ \E r \in Runtime : FallBack(r)
  PROVE  Badge'
<1> USE DEF BInv
<1>0. /\ job \in Job /\ state \in [Runtime -> RuntimeState]
      /\ retired \in [Runtime -> BOOLEAN]
  BY DEF IInv, Typed, TypeOK
<1>1. CASE EnterStop
  <2>1. job.step \in {"stop", "close", "fallback"} /\ job.at = "enter" /\ job.rt \in Runtime
    BY <1>1, JobState DEF EnterStop, Stopping, IInv
  <2>2. ~removed => agents = job.rt /\ agents # None
    BY <2>1, OwnedJob, NoneAssumption
  <2>3. /\ UNCHANGED <<agents, removed, dbStatus, inherited>>
        /\ job.step # "stop" => retired'[job.rt]
        /\ Goto("again") \/ Goto("disc")
    BY <1>0, <1>1, <2>1 DEF EnterStop, regVars, dbVars
  <2>4. job'.op = job.op /\ job'.step = job.step /\ job'.at # "save"
    BY <1>0, <2>3, GotoFields, PlaceNames
  <2> QED BY <2>1, <2>2, <2>3, <2>4 DEF Badge, WillWrite, InStart, Works
<1>2. CASE StopAgain \/ StopDisconnects
  <2>1. /\ job.step \in {"stop", "close", "fallback"} /\ job.at \in {"again", "disc"}
        /\ Goto("againWait") \/ Goto("discWait")
        /\ UNCHANGED <<agents, removed, state, retired, revoked, dbStatus, inherited>>
    BY <1>2 DEF StopAgain, StopDisconnects, Stopping, regVars, rtVars, dbVars
  <2>2. /\ job'.op = job.op /\ job'.step = job.step /\ job'.at # "save"
        /\ (InStart' => InStart)
    BY <1>0, <2>1, GotoFields, PlaceNames DEF InStart
  <2> QED BY <2>1, <2>2, BadgeMoves
<1>3. CASE StopDisconnected
  <2> DEFINE now == IF job.at = "discWait" THEN "stopped" ELSE state[job.rt]
  <2>1. /\ job.step \in {"stop", "close", "fallback"} /\ job.at \in {"discWait", "againWait"}
        /\ job.rt \in Runtime /\ now \in RuntimeState
    BY <1>3, JobState, PlaceNames DEF StopDisconnected, Stopping, IInv
  <2>2. /\ state'[job.rt] = now /\ UNCHANGED <<retired, revoked, dbStatus, inherited>>
        /\ job.step # "stop" => retired[job.rt]
    BY <1>0, <1>3, <2>1 DEF StopDisconnected, dbVars, IInv, StopConn
  <2>3. \/ Fail("other", now)
        \/ Fail("notFound", now) /\ removed
        \/ Goto("settle") /\ UNCHANGED regVars /\ job.step # "stop"
        \/ Saving("stop", "stopped") /\ UNCHANGED regVars /\ job.step = "stop"
    BY <1>3 DEF StopDisconnected
  <2>4. ~removed => agents = job.rt /\ agents # None
    BY <2>1, OwnedJob, NoneAssumption
  <2> HIDE DEF now
  <2>5. CASE Fail("other", now) \/ (Fail("notFound", now) /\ removed)
    <3>1. ~removed /\ ~WillWrite /\ agents # None /\ Claims' =>
             state'[agents] = "running" \/ retired'[agents] \/ revoked'[agents]
      BY <2>2, <2>4 DEF WillWrite
    <3> QED BY <2>1, <2>2, <2>5, <3>1, FailKeepsBadge
  <2>6. CASE Goto("settle") /\ UNCHANGED regVars /\ job.step # "stop"
    <3>1. job'.op = job.op /\ job'.step = job.step /\ job'.at # "save"
      BY <1>0, <2>6, GotoFields, PlaceNames
    <3> QED BY <2>1, <2>2, <2>4, <2>6, <3>1
            DEF Badge, WillWrite, InStart, Works, regVars
  <2>7. CASE Saving("stop", "stopped") /\ UNCHANGED regVars /\ job.step = "stop"
    <3>1. /\ job'.op = job.op /\ job'.step = "stop" /\ job'.at = "save"
          /\ job'.val = "stopped"
      BY <1>0, <2>7, SavingFields, PlaceNames DEF Steps, RuntimeState
    <3> QED BY <2>4, <2>7, <3>1 DEF Badge, WillWrite, InStart, regVars
  <2> QED BY <2>3, <2>5, <2>6, <2>7
<1>4. CASE ClosedForReload \/ CloseRaises
  <2>1. /\ job.step \in {"close", "fallback"} /\ job.at = "settle" /\ job.rt \in Runtime
        /\ state[job.rt] \in RuntimeState
        /\ UNCHANGED <<state, retired, revoked, dbStatus, inherited>>
    BY <1>4, JobState DEF ClosedForReload, CloseRaises, At, IInv, rtVars, dbVars
  <2>2. retired[job.rt] /\ (~removed => agents = job.rt)
    BY <2>1, OwnedJob DEF IInv, StopConn
  <2>3. CASE \E kind \in {"other", "notFound"} : Fail(kind, state[job.rt])
    BY <2>1, <2>2, <2>3, FailKeepsBadge
  <2>4. CASE agents' = None /\ GotoStep("get", "load") /\ job.op = "reload"
    <3>1. job'.op = "reload" /\ job'.step = "get" /\ job'.at = "load"
      BY <1>0, <2>4, GotoStepFields, PlaceNames
    <3> QED BY <2>4, <3>1 DEF Badge, WillWrite, InStart
  <2> QED BY <1>4, <2>3, <2>4 DEF ClosedForReload, CloseRaises
<1>5. CASE ClosedForGood
  <2>1. /\ job.step = "close" /\ job.at = "settle" /\ job.op \in {"remove", "shutdown"}
        /\ job' = NoJob
        /\ UNCHANGED <<agents, removed, state, retired, revoked, dbStatus, inherited>>
    BY <1>5 DEF ClosedForGood, At, Release, rtVars, dbVars
  <2>2. ~removed => retired[agents] /\ agents # None
    BY <2>1, OwnedJob, NoneAssumption DEF IInv, StopConn
  <2> QED BY <2>1, <2>2, NoJobFields DEF Badge, WillWrite, InStart, Works
<1>6. ASSUME NEW r \in Runtime, FallBack(r) PROVE Badge'
  <2>1. /\ job.step = "fallback" /\ job.at = "settle" /\ job.rt \in Runtime
        /\ state[job.rt] \in RuntimeState /\ UNCHANGED <<dbStatus, inherited>>
    BY <1>6, JobState DEF FallBack, At, IInv, dbVars
  <2>2. CASE removed
    <3>1. /\ Fail("notFound", state[job.rt])
          /\ UNCHANGED <<state, retired, revoked>>
      BY <1>6, <2>2 DEF FallBack, rtVars
    <3> QED BY <2>1, <2>2, <3>1, FailKeepsBadge
  <2>3. CASE ~removed
    <3>1. /\ job' = [job EXCEPT !.step = "start", !.at = "enter", !.rt = r]
          /\ agents' = r /\ r # None /\ removed' = removed
      BY <1>6, <2>3, NoneAssumption DEF FallBack, NewRuntime
    <3>2. job'.op = job.op /\ job'.step = "start" /\ job'.at = "enter"
      BY <1>0, <3>1 DEF Job
    <3>3. WillWrite \/ ~Claims
      BY <2>1, <2>3 DEF Badge, InStart
    <3> QED BY <2>1, <3>1, <3>2, <3>3 DEF Badge, WillWrite, InStart
  <2> QED BY <2>2, <2>3
<1> QED BY <1>1, <1>2, <1>3, <1>4, <1>5, <1>6

\* An operation with the account leaves the runtime's state alone or calls it
\* revoked; the write makes the badge what the job has seen; a rebind has written
\* "stopped" before it applies.
LEMMA WriteBadge ==
  ASSUME BInv, Typed', ~DatabaseFails,
         \/ Lease \/ LeaseDisconnects \/ LeaseDisconnected \/ LeaseMarksRevoked
         \/ \E kind \in {"stopped", "other", "dead"} : LeaseUsed(kind)
         \/ \E written \in BOOLEAN : Save(written)
         \/ ApplyRebind \/ ApplyFails
  PROVE  Badge'
<1> USE DEF BInv
<1>0. job \in Job /\ agents \in Runtime \cup {None} /\ revoked \in [Runtime -> BOOLEAN]
  BY DEF IInv, Typed, TypeOK
<1>1. CASE \/ Lease \/ LeaseDisconnects \/ LeaseDisconnected
           \/ \E kind \in {"stopped", "other", "dead"} : LeaseUsed(kind)
  <2>1. /\ job.step = "lease" /\ job.at \in {"await", "use", "disc", "discWait"}
        /\ UNCHANGED <<agents, removed, state, retired, revoked, dbStatus, inherited>>
    BY <1>1 DEF Lease, LeaseDisconnects, LeaseDisconnected, LeaseUsed, At, regVars, rtVars,
       dbVars
  <2>2. \/ Release
        \/ \E at \in {"mark", "discWait"} : Goto(at)
        \/ job' = [job EXCEPT !.at = "use", !.was = state[job.rt] # "running"]
        \/ \E kind \in {"stopped", "other", "dead"} :
             job' = [job EXCEPT !.at = "disc", !.val = kind]
    BY <1>1 DEF Lease, LeaseDisconnects, LeaseDisconnected, LeaseUsed
  <2>3. \/ job' = NoJob
        \/ job'.op = job.op /\ job'.step = "lease" /\ job'.at # "save"
    BY <1>0, <2>1, <2>2, GotoFields, PlaceNames DEF Release, Job
  <2>4. ~removed => agents # None
    BY <2>1, OwnedJob, NoneAssumption
  <2>5. CASE job' = NoJob
    BY <2>1, <2>4, <2>5, NoJobFields DEF Badge, WillWrite, InStart, Works
  <2>6. CASE job'.op = job.op /\ job'.step = "lease" /\ job'.at # "save"
    BY <2>1, <2>4, <2>6 DEF Badge, WillWrite, InStart, Works
  <2> QED BY <2>3, <2>5, <2>6
<1>2. CASE LeaseMarksRevoked
  <2>1. job.step = "lease" /\ job.at = "mark" /\ job.rt \in Runtime
    BY <1>2, JobState DEF LeaseMarksRevoked, At, IInv
  <2>2. ~removed => agents = job.rt /\ agents # None
    BY <2>1, OwnedJob, NoneAssumption
  <2>3. revoked'[job.rt] /\ job' = NoJob /\ UNCHANGED <<agents, removed>>
    BY <1>0, <1>2, <2>1 DEF LeaseMarksRevoked, Release, regVars
  <2> QED BY <2>2, <2>3, NoJobFields DEF Badge, WillWrite, InStart, Works
<1>3. ASSUME NEW written \in BOOLEAN, Save(written) PROVE Badge'
  <2>1. /\ job.at = "save" /\ dbStatus' = job.val
        /\ UNCHANGED <<agents, removed, state, retired, revoked>>
        /\ \/ job.op = "rebind" /\ job.step = "stop" /\ GotoStep("apply", "enter")
           \/ job' = NoJob
    BY <1>3 DEF Save, Release, rtVars
  <2>2. job.rt # None
    BY <2>1, NoneAssumption, PlaceNames DEF IInv, Typed, JobShape
  <2>3. CASE job.op = "rebind" /\ job.step = "stop" /\ GotoStep("apply", "enter")
    <3>1. job'.op = "rebind" /\ job'.step = "apply" /\ job'.at = "enter"
      BY <1>0, <2>3, GotoStepFields, PlaceNames
    <3> QED BY <2>1, <2>3, <3>1 DEF Badge, WillWrite, InStart
  <2>4. CASE job' = NoJob
    BY <2>1, <2>2, <2>4, NoJobFields DEF Badge, WillWrite, InStart, Works
  <2> QED BY <2>1, <2>3, <2>4
<1>4. CASE ApplyRebind
  <2>1. job.step = "apply" /\ UNCHANGED <<agents, removed, dbStatus, inherited>>
    BY <1>4 DEF ApplyRebind, At, regVars
  <2>2. \/ removed
        \/ job'.op = "reload" /\ job'.step = "close" /\ job'.at = "retry"
    BY <1>0, <1>4 DEF ApplyRebind, Job
  <2>3. job'.step \notin {"stop", "fail", "lease"}
    BY <1>0, <1>4, NoJobFields DEF ApplyRebind, Release, Job
  <2> QED BY <2>1, <2>2, <2>3 DEF Badge, WillWrite, InStart
<1>5. CASE ApplyFails
  <2>1. job.step = "apply" /\ job' = NoJob /\ UNCHANGED <<agents, removed, dbStatus, inherited>>
    BY <1>5 DEF ApplyFails, At, Release, regVars, dbVars
  <2> QED BY <2>1, NoJobFields DEF Badge, WillWrite, InStart
<1> QED BY <1>1, <1>2, <1>3, <1>4, <1>5

\* A turn takes the state "running" away only from a runtime that is revoked.
LEMMA TurnBadge ==
  ASSUME BInv, NEW x \in Runtime, TurnStep(x) \/ DisconnectEnds(x)
  PROVE  Badge'
<1> USE DEF BInv
<1>0. /\ agents \in Runtime \cup {None} /\ revoked \in [Runtime -> BOOLEAN]
      /\ state \in [Runtime -> RuntimeState] /\ job.step # "get" => job.rt \in Runtime
  BY JobState DEF IInv, Typed, TypeOK
<1>1. /\ UNCHANGED <<agents, removed, job, retired>>
      /\ Claims' => Claims
      /\ \A r \in Runtime : revoked[r] => revoked'[r]
      /\ \A r \in Runtime : state'[r] = state[r] \/ revoked[r]
  <2>1. CASE TurnBegins(x) \/ TurnEnds(x) \/ TurnLeaves(x) \/ DisconnectEnds(x)
    <3>1. UNCHANGED <<agents, removed, job, state, retired, revoked, dbStatus, inherited>>
      BY <2>1 DEF TurnBegins, TurnEnds, TurnLeaves, DisconnectEnds, regVars, rtVars, dbVars
    <3> QED BY <3>1
  <2>2. CASE TurnMarksRevoked(x)
    BY <2>2 DEF TurnMarksRevoked, MarkRevoked, regVars
  <2>3. CASE TurnSetsError(x)
    BY <1>0, <2>3 DEF TurnSetsError, SInv, VerdictIsTrue, regVars, dbVars
  <2>4. CASE TurnFindsDead(x)
    BY <1>0, <2>4 DEF TurnFindsDead, regVars, dbVars
  <2> QED BY <2>1, <2>2, <2>3, <2>4 DEF TurnStep
<1>2. \A r \in Runtime : Works(r) => state'[r] = "running" \/ retired'[r] \/ revoked'[r]
  BY <1>1 DEF Works
<1>3. job.at = "save" => job.rt \in Runtime
  BY <1>0, PlaceNames DEF IInv, Typed, JobShape
<1> QED BY <1>0, <1>1, <1>2, <1>3 DEF Badge, WillWrite, InStart, Works

\* Nor does the warm-up task: what it marks it has found dead before.
LEMMA WarmupBadge ==
  ASSUME BInv, WarmupStep
  PROVE  Badge'
<1> USE DEF BInv
<1>0. /\ agents \in Runtime \cup {None} /\ revoked \in [Runtime -> BOOLEAN]
      /\ state \in [Runtime -> RuntimeState] /\ job.step # "get" => job.rt \in Runtime
  BY JobState DEF IInv, Typed, TypeOK
<1>1. /\ UNCHANGED <<agents, removed, job, retired>>
      /\ Claims' => Claims
      /\ \A r \in Runtime : revoked[r] => revoked'[r]
      /\ \A r \in Runtime : state'[r] = state[r] \/ revoked[r]
  <2>1. ASSUME NEW x \in Runtime, WarmupMarksRevoked(x)
        PROVE  /\ UNCHANGED <<agents, removed, job, retired, state, revoked>>
               /\ Claims' => Claims
    BY <2>1 DEF WarmupMarksRevoked, MarkRevoked, regVars
  <2>2. ASSUME NEW x \in Runtime, WarmupSetsError(x)
        PROVE  /\ UNCHANGED <<agents, removed, job, retired, revoked, dbStatus, inherited>>
               /\ \A r \in Runtime : state'[r] = state[r] \/ revoked[r]
    BY <1>0, <2>2 DEF WarmupSetsError, WarmupClient, regVars, dbVars
  <2>3. ASSUME NEW x \in Runtime, WarmupFindsDead(x)
        PROVE  /\ UNCHANGED <<agents, removed, job, retired, state, dbStatus, inherited>>
               /\ \A r \in Runtime : revoked[r] => revoked'[r]
    BY <1>0, <2>3 DEF WarmupFindsDead, regVars, dbVars
  <2>4. CASE WarmupEnds \/ \E x \in Runtime : WarmupBegins(x)
    BY <2>4 DEF WarmupEnds, WarmupBegins, regVars, dbVars
  <2> QED BY <2>1, <2>2, <2>3, <2>4 DEF WarmupStep
<1>2. \A r \in Runtime : Works(r) => state'[r] = "running" \/ retired'[r] \/ revoked'[r]
  BY <1>1 DEF Works
<1>3. job.at = "save" => job.rt \in Runtime
  BY <1>0, PlaceNames DEF IInv, Typed, JobShape
<1> QED BY <1>0, <1>1, <1>2, <1>3 DEF Badge, WillWrite, InStart, Works

\* The badge rests on what Badge says in every reachable state.
LEMMA BadgeHolds ==
  ASSUME ~DatabaseFails
  PROVE  Spec => []Badge
<1>1. Init => Badge
  BY NoJobFields DEF Init, Badge, InStart, WillWrite
<1>2. BInv /\ [Next]_vars => Badge'
  <2> SUFFICES ASSUME BInv, [Next]_vars PROVE Badge'
    OBVIOUS
  <2>1. Typed' BY NextTyped DEF BInv, IInv
  <2>2. CASE Begin \/ RemoveAgent \/ BeginRemoval
    BY <2>1, <2>2, RequestBadge
  <2>3. CASE JobStep
    BY <2>1, <2>3, LoadBadge, StartBadge, StopBadge, WriteBadge DEF JobStep
  <2>4. CASE \E x \in Runtime : TurnStep(x) \/ DisconnectEnds(x)
    BY <2>4, TurnBadge
  <2>5. CASE SessionDies \/ UNCHANGED vars
    BY <2>5 DEF SessionDies, vars, BInv, Badge, WillWrite, InStart, Works, regVars, rtVars
  <2>6. CASE WarmupStep
    BY <2>6, WarmupBadge
  <2> QED BY <2>2, <2>3, <2>4, <2>5, <2>6 DEF Next
<1>3. Spec => []WarmupClient
  BY AlwaysHeld, PTL
<1> QED BY <1>1, <1>2, <1>3, AlwaysSafe, SInvHolds, PTL DEF Spec, BInv

\* When the status can be written and nobody operates on the agent, "running" in
\* the database means a running runtime, whatever the operations that ended were
\* and wherever they failed; but for the status that an earlier process left, until
\* this one writes or starts a runtime.
THEOREM BadgeStaysHonest ==
  ASSUME ~DatabaseFails
  PROVE  Spec => []BadgeIsHonest
<1>1. IInv /\ Badge => BadgeIsHonest
  BY NoJobFields, NoneAssumption DEF Badge, BadgeIsHonest, WillWrite, Works, IInv, OneOwner
<1> QED BY <1>1, AlwaysSafe, BadgeHolds, PTL

=============================================================================
