--------------------------- MODULE AgentInvariant ---------------------------
(***************************************************************************)
(* The inductive invariant of AgentManager.  That the session of an agent  *)
(* has one connection does not follow from the connections alone: it needs *)
(* who still knows a runtime, what each place of the job has done to its   *)
(* client, and what the registry of disconnects holds.                     *)
(***************************************************************************)
EXTENDS AgentManager

\* A job that is past the look-up has a runtime, and where it holds a state to
\* write or to put back, `val` is one.  TypeOK is not inductive without this.
JobShape ==
  /\ job.op = "none" => job = NoJob
  /\ job.step = "get" <=> job.at = "load"
  /\ job.step # "get" \/ job.op \in {"reload", "remove"} => job.rt \in Runtime
  /\ job.at = "save" => job.val \in RuntimeState
  /\ job.step = "start" /\ job.at = "await" => job.val \in RuntimeState

Typed == TypeOK /\ JobShape

\* The runtimes that somebody will still stop or close.
Owners == {agents, removal, job.rt}

\* The client of r was told to connect or to disconnect since r was made.
Touched(r) == conn[r] \/ td[r] # "none"

\* The client of r is connected and nobody has told it to disconnect.
Open(r) == conn[r] /\ td[r] = "none"

\* The registry holds exactly the disconnect that has not succeeded.
Registry == \A r \in Runtime : td[r] \in {"pending", "failed"} <=> reg = r

\* While a connection is open no disconnect of the agent is under way, and it
\* is the connection of a runtime that the manager knows.
OpenConnection ==
  \A r \in Runtime :
    /\ conn[r] => td[r] # "done"
    /\ Open(r) => reg = None /\ r \in Owners

\* The manager knows one runtime: in _agents, or with the removal task; a
\* failed removal has it in both while the status is written.
OneOwner ==
  /\ removed => agents = None
  /\ removal # None => removed \/ (job.op = "remove" /\ job.at = "save")
  /\ job.op = "remove" => /\ job.rt = removal
                          /\ job.step \in {"close", "fail"}
                          /\ job.at = "save" => agents = removal

\* The runtime of the job is the one that the manager knows; only while reload
\* has dropped the old one and has no new one it is the dropped runtime, at rest.
AtRest(r) ==
  /\ retired[r]
  /\ Settled(r)
  /\ state[r] # "running"
  /\ ~Open(r)

JobOwner ==
  /\ job.step = "get" /\ job.rt # None =>
       job.op = "reload" /\ agents = None /\ removal = None
  /\ job.rt \notin {agents, removal, None} =>
       job.step \in {"get", "fail"} /\ AtRest(job.rt)

\* What runs on a runtime, runs on one that is still known.
TurnOwner ==
  \A r \in Runtime : ~Settled(r) \/ state[r] = "running" => r \in Owners

\* The turn of a handler ends before its client is disconnected.
HandlerConn == \A r \in Runtime : turn[r].handler => conn[r]

\* A running runtime has its connection, until a dead session closes it.
RunningIsOpen ==
  \A r \in Runtime :
    /\ ~revoked[r]
    /\ \/ state[r] = "running"
       \/ job.rt = r /\ job.step = "start" /\ job.at \in {"connect", "identify"}
    => Open(r)

\* Only a runtime whose client was told to connect gets any further.
TouchedFirst ==
  \A r \in Runtime \cap Owners :
    (state[r] \in {"running", "stopping", "error"} \/ ~Idle(r) \/ revoked[r])
      => Touched(r)

\* "starting" is over when the start is.
StartingInStart ==
  \A r \in Runtime :
    state[r] = "starting" =>
      job.rt = r /\ job.step = "start" /\ job.at \in {"await", "connect", "identify"}

\* The connection of the job's runtime, place by place.
StartConn ==
  job.step = "start" =>
    /\ job.at \in {"connect", "identify", "abort", "abortWait", "mark"} => Touched(job.rt)
    /\ job.at = "await" => /\ job.val \in {"stopping", "error"} => Touched(job.rt)
                           /\ job.val \notin {"running", "starting"}
    /\ job.at \in {"await", "connect", "identify"} => state[job.rt] # "stopped"
    /\ job.at = "abort" => state[job.rt] # "running"

\* A brief connection is one that leased_telegram_client opened.
Brief == job.step = "lease" /\ ((job.at = "use" /\ job.was) \/ job.at = "disc")
LeaseConn ==
  /\ job.step = "lease" /\ job.at \in {"use", "disc", "discWait", "mark"} => Touched(job.rt)
  /\ Brief => state[job.rt] # "running"
StopConn ==
  job.step \in {"stop", "close", "fallback"} =>
    /\ job.at \in {"again", "againWait", "disc", "discWait", "settle"} =>
         /\ state[job.rt] # "running"
         /\ job.step # "stop" => retired[job.rt]
    /\ job.at = "disc" => Touched(job.rt)
    /\ job.at \in {"again", "againWait", "discWait", "settle"} => ~Open(job.rt)

\* A stopped runtime has no open connection but the brief one of a lease.
StoppedIsClosed ==
  \A r \in Runtime : state[r] = "stopped" /\ Open(r) => Brief /\ job.rt = r

\* The inductive invariant.
IInv ==
  /\ Typed
  /\ Registry
  /\ OpenConnection
  /\ OneOwner
  /\ JobOwner
  /\ TurnOwner
  /\ HandlerConn
  /\ RunningIsOpen
  /\ TouchedFirst
  /\ StartingInStart
  /\ StartConn
  /\ LeaseConn
  /\ StopConn
  /\ StoppedIsClosed

\* The warm-up task holds a runtime whose client was told to connect, and where it
\* has found the session dead, the runtime knows that.  The task is outside of what
\* the manager waits for, so this is inductive beside IInv, not a part of it.
WarmupClient ==
  /\ warmup.at = "idle" <=> warmup.rt = None
  /\ warmup.rt # None => Touched(warmup.rt)
  /\ warmup.at \in {"marking", "marked"} => revoked[warmup.rt]
=============================================================================
