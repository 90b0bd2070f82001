------------------------- MODULE AgentStepProofs -------------------------
(***************************************************************************)
(* Type correctness of AgentManager for any set of runtimes, with what the *)
(* parts of its steps do to the job as lemmas; then: every action keeps    *)
(* the invariant of AgentInvariant.                                        *)
(* One lemma for each action: first what the action does to the job and    *)
(* to the fields in question, then the parts of the invariant: those that  *)
(* follow from themselves together, those that need others on their own.   *)
(***************************************************************************)
EXTENDS AgentInvariant, TLAPS

-----------------------------------------------------------------------------
(* The job's record.                                                       *)

\* The fields of a job, and of the job between two operations.
LEMMA JobFields ==
  ASSUME job \in Job
  PROVE  /\ job = [op |-> job.op, step |-> job.step, at |-> job.at, rt |-> job.rt,
                   was |-> job.was, val |-> job.val]
         /\ job.op \in Ops /\ job.step \in Steps /\ job.at \in Ats
         /\ job.rt \in Runtime \cup {None} /\ job.was \in BOOLEAN
         /\ job.val \in RuntimeState \cup Failures
  BY DEF Job

\* NoJob is a job, the one that nobody has.
LEMMA NoJobFields ==
  /\ NoJob \in Job
  /\ NoJob.op = "none" /\ NoJob.step = "get" /\ NoJob.at = "load"
  /\ NoJob.rt = None /\ NoJob.was = FALSE /\ NoJob.val = "stopped"
  BY DEF NoJob, Job, Ops, Steps, Ats, RuntimeState

\* Goto and GotoStep move the job and leave the rest of it alone.
LEMMA GotoStepFields ==
  ASSUME job \in Job, NEW step \in Steps, NEW at \in Ats, GotoStep(step, at)
  PROVE  /\ job' \in Job
         /\ job'.step = step /\ job'.at = at
         /\ job'.op = job.op /\ job'.rt = job.rt /\ job'.was = job.was
         /\ job'.val = job.val
  BY DEF GotoStep, Job

\* Goto stays in the same step.
LEMMA GotoFields ==
  ASSUME job \in Job, NEW at \in Ats, Goto(at)
  PROVE  /\ job' \in Job
         /\ job'.at = at
         /\ job'.op = job.op /\ job'.step = job.step /\ job'.rt = job.rt
         /\ job'.was = job.was /\ job'.val = job.val
  BY DEF Goto, Job

\* Saving moves the job to the write of a status.
LEMMA SavingFields ==
  ASSUME job \in Job, NEW step \in Steps, NEW status \in RuntimeState,
         Saving(step, status)
  PROVE  /\ job' \in Job
         /\ job'.step = step /\ job'.at = "save" /\ job'.val = status
         /\ job'.op = job.op /\ job'.rt = job.rt /\ job'.was = job.was
  BY DEF Saving, Job, Ats

\* Release leaves no job.
LEMMA ReleaseFields ==
  ASSUME Release
  PROVE  job' = NoJob /\ job' \in Job
  BY NoJobFields DEF Release

\* Proceed starts the operation's next part on x, or ends the operation.
LEMMA ProceedFields ==
  ASSUME NEW op \in Ops, NEW was \in BOOLEAN, NEW x \in Runtime \cup {None},
         NEW skip, Proceed(op, was, x, skip)
  PROVE  /\ job' \in Job
         /\ \/ job' = NoJob
            \/ /\ job'.op = op /\ job'.rt = x /\ job'.was = was /\ job'.val = "stopped"
               /\ \/ /\ op # "remove"
                     /\ \/ job'.step = "start" /\ job'.at = "retry"
                        \/ job'.step = "stop" /\ job'.at = "retry"
                        \/ job'.step = "lease" /\ job'.at = "await" /\ op = "account"
                        \/ job'.step = "save" /\ job'.at = "save"
                  \/ job'.step = "close" /\ job'.at = "retry"
                     /\ op \in {"remove", "shutdown"}
<1> DEFINE Go(step, at) == [op |-> op, step |-> step, at |-> at, rt |-> x,
                            was |-> was, val |-> "stopped"]
<1>1. \A step \in Steps, at \in Ats : Go(step, at) \in Job
  BY DEF Job, RuntimeState
<1>2. \/ job' = NoJob
      \/ op # "remove" /\ job' = Go("start", "retry")
      \/ op # "remove" /\ job' = Go("stop", "retry")
      \/ op = "account" /\ job' = Go("lease", "await")
      \/ op # "remove" /\ job' = Go("save", "save")
      \/ op \in {"remove", "shutdown"} /\ job' = Go("close", "retry")
  BY DEF Proceed, Release
<1>3. {"start", "stop", "lease", "save", "close"} \subseteq Steps
      /\ {"retry", "await", "save"} \subseteq Ats
  BY DEF Steps, Ats
<1> QED BY <1>1, <1>2, <1>3, NoJobFields

\* A failure puts a removal's runtime back and saves; any other operation ends
\* or saves, and leaves the registry of runtimes alone.
LEMMA FailFields ==
  ASSUME job \in Job, NEW kind, NEW now \in RuntimeState, Fail(kind, now)
  PROVE  /\ removal' = removal
         /\ job' \in Job
         /\ \/ /\ job.op = "remove" /\ agents' = job.rt /\ removed' = FALSE
               /\ job'.op = "remove" /\ job'.rt = job.rt /\ job'.was = job.was
               /\ job'.step = "fail" /\ job'.at = "save" /\ job'.val = now
            \/ /\ job.op # "remove" /\ agents' = agents /\ removed' = removed
               /\ job' = NoJob
            \/ /\ job.op # "remove" /\ agents' = agents /\ removed' = removed
               /\ job.op # "none" /\ job'.op = job.op /\ job'.rt = job.rt
               /\ job'.was = job.was
               /\ job'.step = "fail" /\ job'.at = "save"
               /\ job'.val \in {now, "error"}
               /\ \/ job.op = "reload" /\ ~removed
                  \/ job.step \in {"start", "fallback", "stop"}
<1>1. "fail" \in Steps /\ "error" \in RuntimeState
  BY DEF Steps, RuntimeState
<1>2. /\ removal' = removal
      /\ \/ job.op = "remove" /\ agents' = job.rt /\ removed' = FALSE
            /\ Saving("fail", now)
         \/ job.op # "remove" /\ agents' = agents /\ removed' = removed /\ Release
         \/ /\ job.op # "remove" /\ agents' = agents /\ removed' = removed
            /\ job.op # "none"
            /\ Saving("fail", now) \/ Saving("fail", "error")
            /\ \/ job.op = "reload" /\ ~removed
               \/ job.step \in {"start", "fallback", "stop"}
  BY DEF Fail
<1>3. ASSUME NEW status \in RuntimeState, Saving("fail", status)
      PROVE  /\ job' \in Job
             /\ job'.step = "fail" /\ job'.at = "save" /\ job'.val = status
             /\ job'.op = job.op /\ job'.rt = job.rt /\ job'.was = job.was
  BY <1>1, <1>3, SavingFields
<1>4. CASE job.op = "remove" /\ agents' = job.rt /\ removed' = FALSE
           /\ Saving("fail", now)
  BY <1>2, <1>3, <1>4
<1>5. CASE job.op # "remove" /\ agents' = agents /\ removed' = removed /\ Release
  BY <1>2, <1>5, ReleaseFields
<1>6. CASE /\ job.op # "remove" /\ agents' = agents /\ removed' = removed
           /\ job.op # "none"
           /\ Saving("fail", now) \/ Saving("fail", "error")
           /\ \/ job.op = "reload" /\ ~removed
              \/ job.step \in {"start", "fallback", "stop"}
  BY <1>1, <1>2, <1>3, <1>6
<1> QED BY <1>2, <1>4, <1>5, <1>6

-----------------------------------------------------------------------------
(* The connections, the runtimes and the database.                         *)

\* A disconnect task keeps the teardown's types.
LEMMA DisconnectTyped ==
  ASSUME TeardownTypeOK, NEW x \in Runtime, NEW retry \in BOOLEAN,
         Disconnect(x, retry), conn' = conn
  PROVE  TeardownTypeOK'
  BY DEF TeardownTypeOK, Disconnect, HeldBy, TeardownState

\* So does a connect.
LEMMA ConnectTyped ==
  ASSUME TeardownTypeOK, NEW x \in Runtime, Connect(x)
  PROVE  TeardownTypeOK'
  BY DEF TeardownTypeOK, Connect, TeardownState

\* A new runtime has the types of a runtime.
LEMMA NewRuntimeTyped ==
  ASSUME TypeOK, NEW r \in Runtime, NEW proxy \in BOOLEAN, NewRuntime(r, proxy)
  PROVE  /\ state' \in [Runtime -> RuntimeState]
         /\ retired' \in [Runtime -> BOOLEAN]
         /\ revoked' \in [Runtime -> BOOLEAN]
         /\ proxied' \in [Runtime -> BOOLEAN]
         /\ td' \in [Runtime -> TeardownState]
         /\ agents' = r
<1>1. "stopped" \in RuntimeState /\ "none" \in TeardownState
  BY DEF RuntimeState, TeardownState
<1> QED BY <1>1 DEF NewRuntime, TypeOK, TeardownTypeOK

\* The warm-up task between two works.
LEMMA NoWorkIsWork == NoWork \in Work /\ NoWork.at = "idle" /\ NoWork.rt = None
  BY DEF NoWork, Work

\* Marking a session revoked writes Booleans and statuses.
LEMMA MarkRevokedTyped ==
  ASSUME TypeOK, NEW x, MarkRevoked(x)
  PROVE  /\ dbStatus' \in RuntimeState /\ dbRevoked' \in BOOLEAN
         /\ sessionDead' \in BOOLEAN /\ inherited' \in BOOLEAN
  BY DEF MarkRevoked, TypeOK, RuntimeState

-----------------------------------------------------------------------------
(* Every step keeps the types and the shape of the job.                    *)

\* The requests keep the types.
LEMMA BeginTyped ==
  ASSUME Typed, Begin
  PROVE  Typed'
<1> USE NoneAssumption, ManagerAssumption, NoJobFields
<1>0. job \in Job /\ job.op \in Ops
  BY JobFields DEF Typed, TypeOK
<1>1. ASSUME NEW op \in Requests, BeginWith(op) PROVE Typed'
  <2>1. CASE agents = None
    <3>1. job' = [NoJob EXCEPT !.op = op]
      BY <1>1, <2>1 DEF BeginWith
    <3>2. job' \in Job /\ job'.op = op /\ job'.step = "get" /\ job'.at = "load"
      BY <3>1 DEF NoJob, Job, Steps, Ats, RuntimeState
    <3> QED BY <1>1, <3>2 DEF BeginWith, Typed, TypeOK, TeardownTypeOK, JobShape,
                teardownVars, regVars, rtVars, dbVars
  <2>2. CASE agents # None
    <3>1. agents \in Runtime /\ op \in Ops /\ op # "none"
      BY <1>1, <2>2 DEF BeginWith, Typed, TypeOK
    <3>2. Proceed(op, FALSE, agents, state[agents] = "running" \/ revoked[agents])
      BY <1>1, <2>2 DEF BeginWith
    <3> DEFINE skip == state[agents] = "running" \/ revoked[agents]
    <3> HIDE DEF skip
    <3>3. Proceed(op, FALSE, agents, skip)
      BY <3>2 DEF skip
    <3>4. job' \in Job /\ JobShape'
      BY <3>1, <3>3, ProceedFields DEF JobShape, RuntimeState
    <3> QED BY <1>1, <3>4 DEF BeginWith, Typed, TypeOK, TeardownTypeOK,
                teardownVars, regVars, rtVars, dbVars
  <2> QED BY <2>1, <2>2
<1>2. ASSUME NEW start \in BOOLEAN, BeginCreateSaved(start) PROVE Typed'
  <2>1. job' \in Job /\ job'.op = "createSaved" /\ job'.step = "get" /\ job'.at = "load"
    BY <1>2 DEF BeginCreateSaved, NoJob, Job, Ops, Steps, Ats, RuntimeState
  <2> QED BY <1>2, <2>1 DEF BeginCreateSaved, Typed, TypeOK, TeardownTypeOK, JobShape,
              teardownVars, regVars, rtVars, dbVars
<1>3. ASSUME NEW r \in Runtime, NEW proxy \in BOOLEAN, BeginCreate(r, proxy)
      PROVE  Typed'
  <2>1. job' \in Job /\ JobShape'
    <3>1. "create" \in Ops BY DEF Ops
    <3>2. Proceed("create", FALSE, r, FALSE) BY <1>3 DEF BeginCreate
    <3> QED BY <3>1, <3>2, ProceedFields DEF JobShape, RuntimeState
  <2>2. NewRuntime(r, proxy) BY <1>3 DEF BeginCreate
  <2>3. current' \in [Runtime -> BOOLEAN] /\ dbStatus' \in RuntimeState
        /\ dbRevoked' \in BOOLEAN
    BY <1>3 DEF BeginCreate, Typed, TypeOK, RuntimeState
  <2> QED BY <1>3, <2>1, <2>2, <2>3, NewRuntimeTyped
          DEF BeginCreate, Typed, TypeOK, TeardownTypeOK
<1>4. ASSUME BeginReload PROVE Typed'
  <2>1. agents \in Runtime BY <1>4 DEF BeginReload, Typed, TypeOK
  <2>2. job' \in Job /\ job'.op = "reload" /\ job'.step = "close" /\ job'.at = "retry"
        /\ job'.rt = agents
    <3> DEFINE working == state[agents] \in {"running", "starting"}
    <3>1. working \in BOOLEAN OBVIOUS
    <3>2. job' = [NoJob EXCEPT !.op = "reload", !.step = "close", !.at = "retry",
                               !.rt = agents, !.was = working]
      BY <1>4 DEF BeginReload
    <3> HIDE DEF working
    <3> QED BY <2>1, <3>1, <3>2 DEF NoJob, Job, Ops, Steps, Ats, RuntimeState
  <2> QED BY <1>4, <2>1, <2>2 DEF BeginReload, Typed, TypeOK, TeardownTypeOK, JobShape,
              teardownVars, regVars, rtVars, dbVars
<1>5. ASSUME BeginShutdown PROVE Typed'
  <2>1. agents \in Runtime BY <1>5 DEF BeginShutdown, Typed, TypeOK
  <2>2. Proceed("shutdown", FALSE, agents, FALSE) /\ "shutdown" \in Ops
    BY <1>5 DEF BeginShutdown, Ops
  <2>3. job' \in Job /\ JobShape'
    BY <2>1, <2>2, ProceedFields DEF JobShape, RuntimeState
  <2> QED BY <1>5, <2>3, NoWorkIsWork DEF BeginShutdown, Typed, TypeOK, TeardownTypeOK,
              teardownVars, regVars, rtVars, dbVars
<1> QED BY <1>1, <1>2, <1>3, <1>4, <1>5 DEF Begin

\* remove_agent and its task keep the types.
LEMMA RemovalTyped ==
  ASSUME Typed, RemoveAgent \/ BeginRemoval
  PROVE  Typed'
<1> USE NoneAssumption, NoJobFields
<1>1. CASE RemoveAgent
  BY <1>1 DEF RemoveAgent, Typed, TypeOK, TeardownTypeOK, JobShape, teardownVars,
     rtVars, dbVars
<1>2. CASE BeginRemoval
  <2>1. removal \in Runtime BY <1>2 DEF BeginRemoval, Typed, TypeOK
  <2>2. Proceed("remove", FALSE, removal, FALSE) /\ "remove" \in Ops
    BY <1>2 DEF BeginRemoval, Ops
  <2>3. job' \in Job /\ JobShape'
    BY <2>1, <2>2, ProceedFields DEF JobShape, RuntimeState
  <2> QED BY <1>2, <2>3 DEF BeginRemoval, Typed, TypeOK, TeardownTypeOK,
              teardownVars, regVars, rtVars, dbVars
<1> QED BY <1>1, <1>2

\* Fail keeps what it writes typed, when the rest of the step does.
LEMMA FailTyped ==
  ASSUME Typed, NEW kind, NEW now \in RuntimeState, Fail(kind, now)
  PROVE  /\ agents' \in Runtime \cup {None} /\ removed' \in BOOLEAN
         /\ removal' \in Runtime \cup {None}
         /\ job' \in Job
         /\ JobShape'
<1> USE NoJobFields, NoneAssumption
<1>1. job \in Job /\ job.rt \in Runtime \cup {None} /\ "error" \in RuntimeState
  BY JobFields DEF Typed, TypeOK, RuntimeState
<1>2. agents' \in Runtime \cup {None} /\ removed' \in BOOLEAN
      /\ removal' \in Runtime \cup {None} /\ job' \in Job
  BY <1>1, FailFields DEF Typed, TypeOK
<1>3. JobShape'
  BY <1>1, FailFields DEF Typed, JobShape
<1> QED BY <1>2, <1>3

\* The look-up of the runtime.
LEMMA LoadTyped ==
  ASSUME Typed, LoadFails \/ \E r \in Runtime, proxy \in BOOLEAN : Load(r, proxy)
  PROVE  Typed'
<1> USE NoneAssumption, NoJobFields
<1>0. job \in Job /\ job.op \in Ops /\ job.was \in BOOLEAN /\ job.rt \in Runtime \cup {None}
  BY JobFields DEF Typed, TypeOK
<1>1. ASSUME NEW r \in Runtime, NEW proxy \in BOOLEAN, Load(r, proxy)
      PROVE  Typed'
  <2>1. NewRuntime(r, proxy) /\ Proceed(job.op, job.was, r, FALSE) /\ job.op # "none"
    BY <1>1 DEF Load, At
  <2>2. job' \in Job /\ JobShape'
    BY <1>0, <2>1, ProceedFields DEF JobShape, RuntimeState
  <2>3. current' \in [Runtime -> BOOLEAN]
    BY <1>1 DEF Load, Typed, TypeOK
  <2> QED BY <1>1, <2>1, <2>2, <2>3, NewRuntimeTyped
          DEF Load, Typed, TypeOK, TeardownTypeOK, dbVars
<1>2. CASE LoadFails
  <2> DEFINE now == IF job.rt = None THEN "stopped" ELSE state[job.rt]
             kind == IF removed THEN "notFound" ELSE "other"
  <2>1. now \in RuntimeState
    BY <1>0 DEF Typed, TypeOK, RuntimeState
  <2>2. Fail(kind, now) BY <1>2 DEF LoadFails
  <2> HIDE DEF now, kind
  <2> QED BY <1>2, <2>1, <2>2, FailTyped
          DEF LoadFails, Typed, TypeOK, TeardownTypeOK, teardownVars, rtVars, dbVars
<1> QED BY <1>1, <1>2

\* A job that moves on inside its runtime keeps its shape.
LEMMA GotoTyped ==
  ASSUME Typed, job.op # "none", job.step # "get",
         NEW at \in Ats \ {"load", "save"},
         job.step = "start" /\ at = "await" => job.val \in RuntimeState,
         Goto(at)
  PROVE  job' \in Job /\ JobShape'
<1>1. job \in Job BY DEF Typed, TypeOK
<1> QED BY <1>1, GotoFields DEF Typed, JobShape

\* A job that only moves to another step keeps its type.
LEMMA GotoStepTyped ==
  ASSUME Typed, job.op # "none", job.step # "get",
         NEW step \in Steps, NEW at \in Ats \ {"save", "await"},
         step = "get" <=> at = "load", GotoStep(step, at)
  PROVE  job' \in Job /\ JobShape'
<1>1. job \in Job BY DEF Typed, TypeOK
<1> QED BY <1>1, GotoStepFields DEF Typed, JobShape

\* A job that only goes to save keeps its type.
LEMMA SavingTyped ==
  ASSUME Typed, job.op # "none", job.step # "get",
         NEW step \in Steps \ {"get"}, NEW status \in RuntimeState,
         Saving(step, status)
  PROVE  job' \in Job /\ JobShape'
<1>1. job \in Job BY DEF Typed, TypeOK
<1> QED BY <1>1, SavingFields DEF Typed, JobShape

\* A job that only ends keeps its type.
LEMMA ReleaseTyped ==
  ASSUME Release
  PROVE  job' \in Job /\ JobShape'
  BY NoJobFields, ReleaseFields, NoneAssumption DEF JobShape

\* The names of steps, places, states and failures that the actions use.
LEMMA PlaceNames ==
  /\ {"retryDisc", "retryWait", "enter", "await", "connect", "identify", "abort",
      "abortWait", "disc", "discWait", "again", "againWait", "settle", "use", "mark"}
        \subseteq Ats \ {"load", "save"}
  /\ {"start", "fallback", "stop", "close", "lease", "apply", "save", "fail"}
        \subseteq Steps \ {"get"}
  /\ "get" \in Steps /\ "load" \in Ats
  /\ {"stopped", "starting", "running", "stopping", "error"} \subseteq RuntimeState
  /\ {"dead", "proxy", "other", "pending"} \subseteq Failures
  BY DEF Ats, Steps, RuntimeState, Failures

\* retry_previous_telegram_teardown.
LEMMA RetryTyped ==
  ASSUME Typed, RetryPrevious \/ RetryDisconnected \/ RetryWaited
  PROVE  Typed'
<1> USE PlaceNames
<1>0. job \in Job /\ TeardownTypeOK BY DEF Typed, TypeOK
<1>1. CASE RetryPrevious
  <2>1. job.op # "none" /\ job.step # "get" /\ job.at = "retry"
    BY <1>1 DEF RetryPrevious, Typed, JobShape
  <2>2. Goto("enter") \/ Goto("retryDisc") \/ Goto("retryWait")
    BY <1>1 DEF RetryPrevious, AfterRetry
  <2>3. job' \in Job /\ JobShape'
    BY <2>1, <2>2, GotoTyped
  <2>4. TeardownTypeOK'
    <3>1. conn' = conn
      BY <1>1 DEF RetryPrevious
    <3>2. CASE reg \in Runtime /\ Disconnect(reg, TRUE)
      BY <1>0, <3>1, <3>2, DisconnectTyped
    <3>3. CASE UNCHANGED <<td, reg>>
      BY <1>0, <3>1, <3>3 DEF TeardownTypeOK
    <3>4. (reg \in Runtime /\ Disconnect(reg, TRUE)) \/ UNCHANGED <<td, reg>>
      BY <1>0, <1>1 DEF RetryPrevious, TeardownTypeOK
    <3> QED BY <3>2, <3>3, <3>4
  <2> QED BY <1>1, <2>3, <2>4 DEF RetryPrevious, Typed, TypeOK, regVars, rtVars, dbVars
<1>2. CASE RetryDisconnected
  <2>1. job.op # "none" /\ job.step # "get" /\ job.at = "retryDisc"
    BY <1>2 DEF RetryDisconnected, Typed, JobShape
  <2>2. state[job.rt] \in RuntimeState
    BY <2>1 DEF Typed, TypeOK, JobShape
  <2>3. \/ Fail("other", state[job.rt])
        \/ (Goto("enter") \/ Goto("retryWait")) /\ UNCHANGED regVars
    BY <1>2 DEF RetryDisconnected, AfterRetry
  <2>4. job' \in Job /\ JobShape' /\ agents' \in Runtime \cup {None}
        /\ removed' \in BOOLEAN /\ removal' \in Runtime \cup {None}
    BY <2>1, <2>2, <2>3, GotoTyped, FailTyped DEF regVars, Typed, TypeOK
  <2> QED BY <1>2, <2>4 DEF RetryDisconnected, Typed, TypeOK, TeardownTypeOK,
              teardownVars, rtVars, dbVars
<1>3. CASE RetryWaited
  <2>1. job.op # "none" /\ job.step # "get" /\ job.at = "retryWait"
    BY <1>3 DEF RetryWaited, Typed, JobShape
  <2>2. state[job.rt] \in RuntimeState
    BY <2>1 DEF Typed, TypeOK, JobShape
  <2>3. \/ Fail("pending", state[job.rt])
        \/ Goto("enter") /\ UNCHANGED regVars
    BY <1>3 DEF RetryWaited, AfterRetry
  <2>4. job' \in Job /\ JobShape' /\ agents' \in Runtime \cup {None}
        /\ removed' \in BOOLEAN /\ removal' \in Runtime \cup {None}
    BY <2>1, <2>2, <2>3, GotoTyped, FailTyped DEF regVars, Typed, TypeOK
  <2> QED BY <1>3, <2>4 DEF RetryWaited, Typed, TypeOK, TeardownTypeOK,
              teardownVars, rtVars, dbVars
<1> QED BY <1>1, <1>2, <1>3

\* What a step that only moves or ends the job does to the rest of Typed.
RegTyped == agents \in Runtime \cup {None} /\ removed \in BOOLEAN
            /\ removal \in Runtime \cup {None}
JobTyped == job \in Job /\ JobShape

\* The caller of a start that worked.
LEMMA StartedTyped ==
  ASSUME Typed, job.op # "none", job.step # "get", Started
  PROVE  RegTyped' /\ JobTyped'
<1> USE PlaceNames
<1>1. \/ Fail("notFound", "running")
      \/ UNCHANGED regVars /\ (Saving("save", "running") \/ Release)
  BY DEF Started
<1> QED BY <1>1, FailTyped, SavingTyped, ReleaseTyped
        DEF RegTyped, JobTyped, regVars, Typed, TypeOK

\* start().
LEMMA StartTyped ==
  ASSUME Typed,
         \/ EnterStart \/ StartConnects \/ StartRefused
         \/ StartAuthorized \/ StartRuns
         \/ \E kind \in Failures : StartBreaks(kind)
         \/ StartAborts \/ StartAborted \/ StartMarksRevoked
  PROVE  Typed'
<1> USE PlaceNames
<1>0. job \in Job /\ TeardownTypeOK /\ RegTyped
  BY DEF Typed, TypeOK, RegTyped
<1>1. SUFFICES ASSUME job.op # "none", job.step = "start", job.rt \in Runtime
               PROVE  Typed'
  BY DEF EnterStart, StartConnects, StartRefused, StartAuthorized, StartRuns, StartBreaks,
     StartAborts, StartAborted, StartMarksRevoked, At, Typed, JobShape
<1>2. state[job.rt] \in RuntimeState
  BY <1>1 DEF Typed, TypeOK
<1>a. CASE EnterStart
  <2> DEFINE x == job.rt
  <2>1. CASE UNCHANGED state /\ (\/ Fail("lifecycle", state[x])
                                 \/ Fail("auth", state[x])
                                 \/ Started)
    <3>1. RegTyped' /\ JobTyped'
      BY <1>1, <1>2, <2>1, FailTyped, StartedTyped DEF RegTyped, JobTyped
    <3> QED BY <1>a, <2>1, <3>1 DEF EnterStart, Typed, TypeOK, TeardownTypeOK, RegTyped,
                JobTyped, teardownVars, dbVars
  <2>2. CASE /\ state' = [state EXCEPT ![x] = "starting"]
             /\ job' = [job EXCEPT !.at = "await", !.val = state[x]]
             /\ UNCHANGED regVars
    <3>1. job' \in Job /\ job'.op = job.op /\ job'.step = job.step /\ job'.at = "await"
          /\ job'.rt = job.rt /\ job'.val = state[x]
      BY <1>0, <1>2, <2>2 DEF Job, Ats
    <3>2. state' \in [Runtime -> RuntimeState]
      BY <2>2 DEF Typed, TypeOK
    <3> QED BY <1>a, <1>1, <1>2, <2>2, <3>1, <3>2 DEF EnterStart, Typed, TypeOK,
                TeardownTypeOK, JobShape, teardownVars, regVars, dbVars
  <2> QED BY <1>a, <2>1, <2>2 DEF EnterStart
<1>b. CASE StartConnects
  <2>1. TeardownTypeOK' /\ Goto("connect")
    BY <1>0, <1>1, <1>b, ConnectTyped DEF StartConnects
  <2>2. JobTyped'
    BY <1>1, <2>1, GotoTyped DEF JobTyped
  <2> QED BY <1>b, <2>1, <2>2 DEF StartConnects, Typed, TypeOK, JobTyped, regVars,
              rtVars, dbVars
<1>c. CASE StartRefused
  <2>1. job.val \in RuntimeState /\ Fail("pending", job.val)
    BY <1>c DEF StartRefused, At, Typed, JobShape
  <2>2. RegTyped' /\ JobTyped'
    BY <2>1, FailTyped DEF RegTyped, JobTyped
  <2>3. state' \in [Runtime -> RuntimeState]
    BY <1>c, <2>1 DEF StartRefused, Typed, TypeOK
  <2> QED BY <1>c, <2>2, <2>3 DEF StartRefused, Typed, TypeOK, TeardownTypeOK, RegTyped,
              JobTyped, teardownVars, dbVars
<1>i. CASE StartAuthorized
  <2>1. Goto("identify")
    BY <1>i DEF StartAuthorized
  <2>2. JobTyped'
    BY <1>1, <2>1, GotoTyped DEF JobTyped
  <2> QED BY <1>i, <2>2 DEF StartAuthorized, Typed, TypeOK, TeardownTypeOK, JobTyped,
              teardownVars, regVars, rtVars, dbVars
<1>d. CASE StartRuns
  <2>1. RegTyped' /\ JobTyped'
    BY <1>1, <1>d, StartedTyped DEF StartRuns
  <2>2. state' \in [Runtime -> RuntimeState]
    BY <1>d DEF StartRuns, Typed, TypeOK
  <2> QED BY <1>d, <2>1, <2>2 DEF StartRuns, Typed, TypeOK, TeardownTypeOK, RegTyped,
              JobTyped, teardownVars, dbVars
<1>e. ASSUME NEW kind \in Failures, StartBreaks(kind) PROVE Typed'
  <2>1. job' \in Job /\ job'.op = job.op /\ job'.step = job.step /\ job'.at = "abort"
        /\ job'.rt = job.rt
    BY <1>0, <1>e DEF StartBreaks, Job, Ats
  <2>2. state' \in [Runtime -> RuntimeState]
    BY <1>e DEF StartBreaks, Typed, TypeOK
  <2> QED BY <1>e, <1>1, <2>1, <2>2 DEF StartBreaks, Typed, TypeOK, TeardownTypeOK,
              JobShape, teardownVars, regVars, dbVars
<1>f. CASE StartAborts
  <2>1. TeardownTypeOK' /\ Goto("abortWait")
    BY <1>0, <1>1, <1>f, DisconnectTyped DEF StartAborts
  <2>2. JobTyped'
    BY <1>1, <2>1, GotoTyped DEF JobTyped
  <2> QED BY <1>f, <2>1, <2>2 DEF StartAborts, Typed, TypeOK, JobTyped, regVars,
              rtVars, dbVars
<1>g. CASE StartAborted
  <2>1. \/ Goto("mark") /\ UNCHANGED regVars
        \/ GotoStep("fallback", "enter") /\ UNCHANGED regVars
        \/ Fail("other", "error")
    BY <1>g DEF StartAborted
  <2>2. RegTyped' /\ JobTyped'
    BY <1>0, <1>1, <2>1, GotoTyped, GotoStepTyped, FailTyped
       DEF RegTyped, JobTyped, regVars
  <2>3. state' \in [Runtime -> RuntimeState] /\ revoked' \in [Runtime -> BOOLEAN]
    <3> DEFINE b == revoked[job.rt] \/ job.val = "dead"
    <3>1. b \in BOOLEAN /\ revoked' = [revoked EXCEPT ![job.rt] = b]
      BY <1>g DEF StartAborted
    <3> HIDE DEF b
    <3> QED BY <1>g, <3>1 DEF StartAborted, Typed, TypeOK
  <2> QED BY <1>g, <2>2, <2>3 DEF StartAborted, Typed, TypeOK, TeardownTypeOK, RegTyped,
              JobTyped, teardownVars, dbVars
<1>h. CASE StartMarksRevoked
  <2>1. RegTyped' /\ JobTyped'
    BY <1>2, <1>h, FailTyped DEF StartMarksRevoked, RegTyped, JobTyped
  <2>2. /\ dbStatus' \in RuntimeState /\ dbRevoked' \in BOOLEAN
        /\ sessionDead' \in BOOLEAN /\ inherited' \in BOOLEAN
    BY <1>h, MarkRevokedTyped DEF StartMarksRevoked, Typed
  <2> QED BY <1>h, <2>1, <2>2 DEF StartMarksRevoked, Typed, TypeOK, TeardownTypeOK,
              RegTyped, JobTyped, teardownVars, rtVars
<1> QED BY <1>a, <1>b, <1>c, <1>d, <1>e, <1>f, <1>g, <1>h, <1>i

\* stop() and close().
LEMMA StopTyped ==
  ASSUME Typed,
         \/ EnterStop \/ StopAgain \/ StopDisconnects \/ StopDisconnected
         \/ ClosedForReload \/ ClosedForGood \/ CloseRaises
         \/ \E r \in Runtime : FallBack(r)
  PROVE  Typed'
<1> USE PlaceNames
<1>0. job \in Job /\ TeardownTypeOK /\ RegTyped
  BY DEF Typed, TypeOK, RegTyped
<1>1. SUFFICES ASSUME job.op # "none", job.step \in {"stop", "close", "fallback"},
                      job.rt \in Runtime
               PROVE  Typed'
  BY DEF EnterStop, StopAgain, StopDisconnects, StopDisconnected, ClosedForReload,
     ClosedForGood, CloseRaises, FallBack, At, Stopping, Typed, JobShape
<1>2. state[job.rt] \in RuntimeState
  BY <1>1 DEF Typed, TypeOK
<1>a. CASE EnterStop
  <2>1. Goto("again") \/ Goto("disc")
    BY <1>a DEF EnterStop
  <2>2. JobTyped'
    BY <1>1, <2>1, GotoTyped DEF JobTyped
  <2>3. state' \in [Runtime -> RuntimeState]
    BY <1>a DEF EnterStop, Typed, TypeOK
  <2>4. retired' \in [Runtime -> BOOLEAN]
    <3> DEFINE b == retired[job.rt] \/ job.step # "stop"
    <3>1. b \in BOOLEAN /\ retired' = [retired EXCEPT ![job.rt] = b]
      BY <1>a DEF EnterStop
    <3> HIDE DEF b
    <3> QED BY <3>1 DEF Typed, TypeOK
  <2> QED BY <1>a, <2>2, <2>3, <2>4 DEF EnterStop, Typed, TypeOK, TeardownTypeOK,
              JobTyped, teardownVars, regVars, dbVars
<1>b. CASE StopAgain
  <2>1. conn' = conn /\ Goto("againWait")
        /\ (Disconnect(job.rt, TRUE) \/ UNCHANGED <<td, reg>>)
    BY <1>b DEF StopAgain
  <2>2. JobTyped'
    BY <1>1, <2>1, GotoTyped DEF JobTyped
  <2>3. CASE Disconnect(job.rt, TRUE)
    BY <1>0, <1>1, <1>b, <2>1, <2>2, <2>3, DisconnectTyped
       DEF StopAgain, Typed, TypeOK, JobTyped, regVars, rtVars, dbVars
  <2>4. CASE UNCHANGED <<td, reg>>
    BY <1>b, <2>1, <2>2, <2>4
       DEF StopAgain, Typed, TypeOK, TeardownTypeOK, JobTyped, regVars, rtVars, dbVars
  <2> QED BY <2>1, <2>3, <2>4
<1>c. CASE StopDisconnects
  <2>1. TeardownTypeOK' /\ Goto("discWait")
    BY <1>0, <1>1, <1>c, DisconnectTyped DEF StopDisconnects
  <2>2. JobTyped'
    BY <1>1, <2>1, GotoTyped DEF JobTyped
  <2> QED BY <1>c, <2>1, <2>2 DEF StopDisconnects, Typed, TypeOK, JobTyped, regVars,
              rtVars, dbVars
<1>d. CASE StopDisconnected
  <2> DEFINE now == IF job.at = "discWait" THEN "stopped" ELSE state[job.rt]
  <2>1. now \in RuntimeState BY <1>2
  <2>2. state' = [state EXCEPT ![job.rt] = now]
        /\ \/ Fail("other", now)
           \/ Fail("notFound", now)
           \/ (Goto("settle") \/ Saving("stop", "stopped")) /\ UNCHANGED regVars
    BY <1>d DEF StopDisconnected
  <2> HIDE DEF now
  <2>3. RegTyped' /\ JobTyped'
    BY <1>0, <1>1, <2>1, <2>2, FailTyped, GotoTyped, SavingTyped
       DEF RegTyped, JobTyped, regVars
  <2>4. state' \in [Runtime -> RuntimeState]
    BY <2>1, <2>2 DEF Typed, TypeOK
  <2> QED BY <1>d, <2>3, <2>4 DEF StopDisconnected, Typed, TypeOK, TeardownTypeOK,
              RegTyped, JobTyped, teardownVars, dbVars
<1>e. CASE ClosedForReload
  <2>1. \/ Fail("notFound", state[job.rt])
        \/ agents' = None /\ GotoStep("get", "load") /\ UNCHANGED <<removed, removal>>
    BY <1>e DEF ClosedForReload
  <2>2. RegTyped' /\ JobTyped'
    BY <1>0, <1>1, <1>2, <2>1, FailTyped, GotoStepTyped DEF RegTyped, JobTyped
  <2> QED BY <1>e, <2>2 DEF ClosedForReload, Typed, TypeOK, TeardownTypeOK, RegTyped,
              JobTyped, teardownVars, rtVars, dbVars
<1>f. CASE ClosedForGood
  <2>1. JobTyped'
    BY <1>f, ReleaseTyped DEF ClosedForGood, JobTyped
  <2> QED BY <1>f, <2>1 DEF ClosedForGood, Typed, TypeOK, TeardownTypeOK, JobTyped,
              teardownVars, rtVars, dbVars
<1>g. CASE CloseRaises
  <2>1. RegTyped' /\ JobTyped'
    BY <1>2, <1>g, FailTyped DEF CloseRaises, RegTyped, JobTyped
  <2> QED BY <1>g, <2>1 DEF CloseRaises, Typed, TypeOK, TeardownTypeOK, RegTyped,
              JobTyped, teardownVars, rtVars, dbVars
<1>h. ASSUME NEW r \in Runtime, FallBack(r) PROVE Typed'
  <2>1. CASE Fail("notFound", state[job.rt]) /\ UNCHANGED <<td, rtVars>>
    <3>1. RegTyped' /\ JobTyped'
      BY <1>2, <2>1, FailTyped DEF RegTyped, JobTyped
    <3> QED BY <1>h, <2>1, <3>1 DEF FallBack, Typed, TypeOK, TeardownTypeOK, RegTyped,
                JobTyped, rtVars, dbVars
  <2>2. CASE /\ NewRuntime(r, FALSE)
             /\ current' = [current EXCEPT ![r] = current[job.rt]]
             /\ job' = [job EXCEPT !.step = "start", !.at = "enter", !.rt = r]
             /\ UNCHANGED <<removed, removal, turn, warmup>>
    <3>1. job' \in Job /\ job'.op = job.op /\ job'.step = "start" /\ job'.at = "enter"
          /\ job'.rt = r
      BY <1>0, <2>2 DEF Job, Steps, Ats
    <3>2. current' \in [Runtime -> BOOLEAN]
      BY <1>1, <2>2 DEF Typed, TypeOK
    <3> QED BY <1>h, <1>1, <2>2, <3>1, <3>2, NewRuntimeTyped
            DEF FallBack, Typed, TypeOK, TeardownTypeOK, JobShape, dbVars
  <2> QED BY <1>h, <2>1, <2>2 DEF FallBack
<1> QED BY <1>a, <1>b, <1>c, <1>d, <1>e, <1>f, <1>g, <1>h

\* Operations with the account, and the writes.
LEMMA LeaseTyped ==
  ASSUME Typed,
         \/ Lease \/ LeaseDisconnects \/ LeaseDisconnected \/ LeaseMarksRevoked
         \/ \E kind \in {"stopped", "other", "dead"} : LeaseUsed(kind)
  PROVE  Typed'
<1> USE PlaceNames
<1>0. job \in Job /\ TeardownTypeOK
  BY DEF Typed, TypeOK
<1>1. SUFFICES ASSUME job.op # "none", job.step = "lease", job.rt \in Runtime
               PROVE  Typed'
  BY DEF Lease, LeaseDisconnects, LeaseDisconnected, LeaseMarksRevoked, LeaseUsed, At,
     Typed, JobShape
<1>a. CASE Lease
  <2>1. CASE UNCHANGED teardownVars /\ (Release \/ Goto("mark"))
    <3>1. JobTyped'
      BY <1>1, <2>1, GotoTyped, ReleaseTyped DEF JobTyped
    <3> QED BY <1>a, <2>1, <3>1 DEF Lease, Typed, TypeOK, TeardownTypeOK, JobTyped,
                teardownVars, regVars, rtVars, dbVars
  <2>2. CASE /\ Connect(job.rt) \/ UNCHANGED teardownVars
             /\ job' = [job EXCEPT !.at = "use", !.was = state[job.rt] # "running"]
    <3>1. job' \in Job /\ job'.op = job.op /\ job'.step = job.step /\ job'.at = "use"
          /\ job'.rt = job.rt
      BY <1>0, <2>2 DEF Job, Ats
    <3>2. TeardownTypeOK'
      BY <1>0, <1>1, <2>2, ConnectTyped DEF TeardownTypeOK, teardownVars
    <3> QED BY <1>a, <1>1, <3>1, <3>2 DEF Lease, Typed, TypeOK, JobShape, regVars, rtVars,
                dbVars
  <2> QED BY <1>a, <2>1, <2>2 DEF Lease
<1>b. CASE LeaseDisconnects
  <2>1. TeardownTypeOK' /\ Goto("discWait")
    BY <1>0, <1>1, <1>b, DisconnectTyped DEF LeaseDisconnects
  <2>2. JobTyped'
    BY <1>1, <2>1, GotoTyped DEF JobTyped
  <2> QED BY <1>b, <2>1, <2>2 DEF LeaseDisconnects, Typed, TypeOK, JobTyped, regVars,
              rtVars, dbVars
<1>c. CASE LeaseDisconnected
  <2>1. JobTyped'
    BY <1>1, <1>c, GotoTyped, ReleaseTyped DEF LeaseDisconnected, JobTyped
  <2> QED BY <1>c, <2>1 DEF LeaseDisconnected, Typed, TypeOK, TeardownTypeOK, JobTyped,
              teardownVars, regVars, rtVars, dbVars
<1>d. CASE LeaseMarksRevoked
  <2>1. JobTyped'
    BY <1>d, ReleaseTyped DEF LeaseMarksRevoked, JobTyped
  <2>2. /\ dbStatus' \in RuntimeState /\ dbRevoked' \in BOOLEAN
        /\ sessionDead' \in BOOLEAN /\ inherited' \in BOOLEAN
    BY <1>d, MarkRevokedTyped DEF LeaseMarksRevoked, Typed
  <2>3. state' \in [Runtime -> RuntimeState] /\ revoked' \in [Runtime -> BOOLEAN]
    BY <1>d DEF LeaseMarksRevoked, Typed, TypeOK
  <2> QED BY <1>d, <2>1, <2>2, <2>3 DEF LeaseMarksRevoked, Typed, TypeOK, TeardownTypeOK,
              JobTyped, teardownVars, regVars
<1>e. ASSUME NEW kind \in {"stopped", "other", "dead"}, LeaseUsed(kind)
      PROVE  Typed'
  <2>1. CASE Goto("mark") \/ Release
    <3>1. JobTyped'
      BY <1>1, <2>1, GotoTyped, ReleaseTyped DEF JobTyped
    <3> QED BY <1>e, <3>1 DEF LeaseUsed, Typed, TypeOK, TeardownTypeOK, JobTyped,
                teardownVars, regVars, rtVars, dbVars
  <2>2. CASE job' = [job EXCEPT !.at = "disc", !.val = kind]
    <3>1. job' \in Job /\ job'.op = job.op /\ job'.step = job.step /\ job'.at = "disc"
          /\ job'.rt = job.rt
      BY <1>0, <2>2 DEF Job, Ats
    <3> QED BY <1>e, <1>1, <3>1 DEF LeaseUsed, Typed, TypeOK, TeardownTypeOK, JobShape,
                teardownVars, regVars, rtVars, dbVars
  <2> QED BY <1>e, <2>1, <2>2 DEF LeaseUsed
<1> QED BY <1>a, <1>b, <1>c, <1>d, <1>e

\* Save and the rebind's apply() keep the types.
LEMMA WriteTyped ==
  ASSUME Typed, (\E written \in BOOLEAN : Save(written)) \/ ApplyRebind \/ ApplyFails
  PROVE  Typed'
<1> USE PlaceNames
<1>0. job \in Job BY DEF Typed, TypeOK
<1>1. ASSUME NEW written \in BOOLEAN, Save(written) PROVE Typed'
  <2>1. job.op # "none" /\ job.step # "get" /\ job.val \in RuntimeState
    BY <1>1 DEF Save, Typed, JobShape
  <2>2. GotoStep("apply", "enter") \/ Release
    BY <1>1 DEF Save
  <2>3. JobTyped'
    BY <2>1, <2>2, GotoStepTyped, ReleaseTyped DEF JobTyped
  <2>4. dbStatus' \in RuntimeState /\ removal' \in Runtime \cup {None}
    BY <1>1, <2>1 DEF Save, Typed, TypeOK
  <2> QED BY <1>1, <2>3, <2>4 DEF Save, Typed, TypeOK, TeardownTypeOK, JobTyped,
              teardownVars, rtVars
<1>2. CASE ApplyRebind
  <2>1. job.op # "none" /\ job.step = "apply" /\ job.rt \in Runtime
    BY <1>2 DEF ApplyRebind, At, Typed, JobShape
  <2>2. CASE Release
    BY <1>2, <2>2, ReleaseTyped DEF ApplyRebind, Typed, TypeOK, TeardownTypeOK,
       teardownVars, regVars, rtVars, dbVars
  <2>3. CASE ~Release
    <3> DEFINE working == state[job.rt] \in {"running", "starting"}
    <3>1. working \in BOOLEAN OBVIOUS
    <3>2. job' = [job EXCEPT !.op = "reload", !.step = "close", !.at = "retry",
                             !.was = working]
      BY <1>2, <2>3 DEF ApplyRebind
    <3> HIDE DEF working
    <3>3. job' \in Job /\ job'.op = "reload" /\ job'.step = "close" /\ job'.at = "retry"
          /\ job'.rt = job.rt
      BY <1>0, <3>1, <3>2 DEF Job, Ops, Steps, Ats
    <3>4. JobTyped'
      BY <2>1, <3>3 DEF JobTyped, JobShape
    <3> QED BY <1>2, <3>4 DEF ApplyRebind, Typed, TypeOK, TeardownTypeOK, JobTyped,
                teardownVars, regVars, dbVars
  <2> QED BY <2>2, <2>3
<1>3. CASE ApplyFails
  BY <1>3, ReleaseTyped DEF ApplyFails, Typed, TypeOK, TeardownTypeOK,
     teardownVars, regVars, rtVars, dbVars
<1> QED BY <1>1, <1>2, <1>3

\* A turn goes on, or it is over.
LEMMA TurnMoves ==
  ASSUME turn \in [Runtime -> Turn], NEW x \in Runtime,
         NEW at \in {"idle", "busy", "marking", "marked", "leaving"},
         turn' = [turn EXCEPT ![x].at = at]
  PROVE  /\ turn' \in [Runtime -> Turn]
         /\ turn'[x].at = at /\ turn'[x].handler = turn[x].handler
         /\ \A r \in Runtime \ {x} : turn'[r] = turn[r]
  BY DEF Turn

\* NoTurn is a turn that is idle and nobody's handler.
LEMMA NoTurnIsTurn == NoTurn \in Turn /\ NoTurn.at = "idle" /\ ~NoTurn.handler
  BY DEF NoTurn, Turn

\* Turns, and Telegram.
LEMMA TurnTyped ==
  ASSUME Typed, NEW x \in Runtime, TurnStep(x) \/ DisconnectEnds(x)
  PROVE  Typed'
<1>0. TeardownTypeOK BY DEF Typed, TypeOK
<1>1. CASE TurnBegins(x)
  <2>1. turn' \in [Runtime -> Turn]
    <3>1. PICK handler \in BOOLEAN :
            turn' = [turn EXCEPT ![x] = [at |-> "busy", handler |-> handler]]
      BY <1>1 DEF TurnBegins
    <3> QED BY <3>1 DEF Typed, TypeOK, Turn
  <2> QED BY <1>1, <2>1 DEF TurnBegins, Typed, TypeOK, TeardownTypeOK, JobShape, teardownVars,
              regVars, dbVars
<1>2. CASE TurnFindsDead(x)
  <2>1. turn' \in [Runtime -> Turn]
    BY <1>2, TurnMoves DEF TurnFindsDead, Typed, TypeOK
  <2> QED BY <1>2, <2>1 DEF TurnFindsDead, Typed, TypeOK, TeardownTypeOK, JobShape,
              teardownVars, regVars, dbVars
<1>3. CASE TurnMarksRevoked(x)
  <2>1. turn' \in [Runtime -> Turn]
    BY <1>3, TurnMoves DEF TurnMarksRevoked, Typed, TypeOK
  <2> QED BY <1>3, <2>1, MarkRevokedTyped DEF TurnMarksRevoked, Typed, TypeOK, TeardownTypeOK,
              JobShape, teardownVars, regVars
<1>4. CASE TurnSetsError(x)
  <2>1. turn' \in [Runtime -> Turn]
    BY <1>4, TurnMoves DEF TurnSetsError, Typed, TypeOK
  <2> QED BY <1>4, <2>1, PlaceNames DEF TurnSetsError, Typed, TypeOK, TeardownTypeOK, JobShape,
              teardownVars, regVars, dbVars
<1>5. CASE TurnEnds(x)
  <2>1. conn' = conn
        /\ \/ Disconnect(x, FALSE)
           \/ UNCHANGED <<td, reg>>
    BY <1>5 DEF TurnEnds
  <2>2. TeardownTypeOK'
    <3>1. CASE Disconnect(x, FALSE)
      BY <1>0, <2>1, <3>1, DisconnectTyped
    <3>2. CASE UNCHANGED <<td, reg>>
      BY <1>0, <2>1, <3>2 DEF TeardownTypeOK
    <3> QED BY <2>1, <3>1, <3>2
  <2>3. turn' \in [Runtime -> Turn]
    BY <1>5, TurnMoves, NoTurnIsTurn DEF TurnEnds, Typed, TypeOK
  <2> QED BY <1>5, <2>2, <2>3 DEF TurnEnds, Typed, TypeOK, JobShape, regVars, dbVars
<1>6. CASE TurnLeaves(x)
  BY <1>6, NoTurnIsTurn DEF TurnLeaves, Typed, TypeOK, TeardownTypeOK, JobShape, teardownVars,
     regVars, dbVars
<1>7. CASE DisconnectEnds(x)
  <2>1. TeardownTypeOK'
    BY <1>0, <1>7 DEF DisconnectEnds, DisconnectDone, DisconnectFailed, TeardownTypeOK,
       TeardownState
  <2> QED BY <1>7, <2>1 DEF DisconnectEnds, Typed, TypeOK, JobShape, regVars, rtVars, dbVars
<1> QED BY <1>1, <1>2, <1>3, <1>4, <1>5, <1>6, <1>7 DEF TurnStep

\* The warm-up task keeps the types.
LEMMA WarmupTyped ==
  ASSUME Typed, WarmupStep
  PROVE  Typed'
<1> USE NoWorkIsWork
<1>1. CASE WarmupEnds
  BY <1>1 DEF WarmupEnds, Typed, TypeOK, TeardownTypeOK, JobShape, teardownVars, regVars, dbVars
<1>2. ASSUME NEW x \in Runtime, WarmupBegins(x) PROVE Typed'
  <2>1. warmup' \in Work
    BY <1>2 DEF WarmupBegins, Work
  <2> QED BY <1>2, <2>1 DEF WarmupBegins, Typed, TypeOK, TeardownTypeOK, JobShape,
              teardownVars, regVars, dbVars
<1>3. ASSUME NEW x \in Runtime, WarmupFindsDead(x) PROVE Typed'
  <2>1. warmup' \in Work
    BY <1>3 DEF WarmupFindsDead, Work, Typed, TypeOK
  <2> QED BY <1>3, <2>1 DEF WarmupFindsDead, Typed, TypeOK, TeardownTypeOK, JobShape,
              teardownVars, regVars, dbVars
<1>4. ASSUME NEW x \in Runtime, WarmupMarksRevoked(x) PROVE Typed'
  <2>1. warmup' \in Work
    BY <1>4 DEF WarmupMarksRevoked, Work, Typed, TypeOK
  <2> QED BY <1>4, <2>1, MarkRevokedTyped DEF WarmupMarksRevoked, Typed, TypeOK,
              TeardownTypeOK, JobShape, teardownVars, regVars
<1>5. ASSUME NEW x \in Runtime, WarmupSetsError(x) PROVE Typed'
  <2>1. TeardownTypeOK'
    <3>1. TeardownTypeOK /\ conn' = conn
      BY <1>5 DEF WarmupSetsError, Typed, TypeOK
    <3>2. CASE Disconnect(x, FALSE)
      BY <1>5, <3>1, <3>2, DisconnectTyped
    <3>3. CASE UNCHANGED <<td, reg>>
      BY <3>1, <3>3 DEF TeardownTypeOK
    <3> QED BY <1>5, <3>2, <3>3 DEF WarmupSetsError
  <2>2. state' \in [Runtime -> RuntimeState]
    BY <1>5, PlaceNames DEF WarmupSetsError, Typed, TypeOK
  <2> QED BY <1>5, <2>1, <2>2 DEF WarmupSetsError, Typed, TypeOK, JobShape, regVars, dbVars
<1> QED BY <1>1, <1>2, <1>3, <1>4, <1>5, NoWorkIsWork DEF WarmupStep

\* The initial state has the types.
LEMMA InitTyped == Init => Typed
<1> SUFFICES ASSUME Init PROVE Typed
  OBVIOUS
<1>1. job = NoJob BY DEF Init
<1>2. JobShape
  BY <1>1, NoJobFields DEF JobShape
<1>3. TypeOK
  BY <1>1, NoJobFields, NoTurnIsTurn, NoWorkIsWork, PlaceNames DEF Init, TeardownInit, TypeOK,
     TeardownTypeOK, TeardownState
<1> QED BY <1>2, <1>3 DEF Typed

\* Every step keeps the types.
LEMMA NextTyped == Typed /\ [Next]_vars => Typed'
<1> SUFFICES ASSUME Typed, [Next]_vars PROVE Typed'
  OBVIOUS
<1>1. CASE Begin BY <1>1, BeginTyped
<1>2. CASE RemoveAgent \/ BeginRemoval BY <1>2, RemovalTyped
<1>3. CASE JobStep
  BY <1>3, LoadTyped, RetryTyped, StartTyped, StopTyped, LeaseTyped, WriteTyped DEF JobStep
<1>4. CASE \E x \in Runtime : TurnStep(x) \/ DisconnectEnds(x)
  BY <1>4, TurnTyped
<1>7. CASE WarmupStep BY <1>7, WarmupTyped
<1>5. CASE SessionDies
  BY <1>5 DEF SessionDies, Typed, TypeOK, TeardownTypeOK, JobShape, teardownVars, regVars,
     rtVars
<1>6. CASE UNCHANGED vars
  BY <1>6 DEF vars, Typed, TypeOK, TeardownTypeOK, JobShape
<1> QED BY <1>1, <1>2, <1>3, <1>4, <1>5, <1>6, <1>7 DEF Next

\* The types hold in every behaviour: whatever the operations are requested,
\* overtaken and failed in, every field has a value that the code can handle.
THEOREM TypeCorrect == Spec => []TypeOK
<1>1. Spec => []Typed
  BY InitTyped, NextTyped, PTL DEF Spec
<1>2. Typed => TypeOK
  BY DEF Typed
<1> QED BY <1>1, <1>2, PTL

-----------------------------------------------------------------------------
(* What a step does to the job, without its record.                        *)

\* The operation goes on with the same runtime, at another place.
MovesTo(step, at) ==
  /\ job'.op = job.op /\ job'.rt = job.rt /\ job'.was = job.was
  /\ job'.step = step /\ job'.at = at

\* The operation ends, and the registry of runtimes stays as it is.
Ends == job' = NoJob /\ UNCHANGED regVars

\* The operation fails: it ends, or saves first; a removal puts its runtime back.
Fails ==
  \/ /\ job.op = "remove" /\ MovesTo("fail", "save")
     /\ agents' = job.rt /\ removed' = FALSE /\ removal' = removal
  \/ job.op # "remove" /\ Ends
  \/ /\ job.op \notin {"remove", "none"} /\ MovesTo("fail", "save") /\ UNCHANGED regVars
     /\ \/ job.op = "reload" /\ ~removed
        \/ job.step \in {"start", "fallback", "stop"}

\* Fail does one of these.
LEMMA FailStep ==
  ASSUME Typed, NEW kind, NEW now \in RuntimeState, Fail(kind, now)
  PROVE  Fails
<1>1. job \in Job BY DEF Typed, TypeOK
<1> QED BY <1>1, FailFields DEF Fails, Ends, MovesTo, regVars

\* GotoStep, Goto and Saving only move the job.
LEMMA GotoStepMoves ==
  ASSUME Typed, NEW step \in Steps, NEW at \in Ats, GotoStep(step, at)
  PROVE  MovesTo(step, at)
<1>1. job \in Job BY DEF Typed, TypeOK
<1> QED BY <1>1, GotoStepFields DEF MovesTo

\* Goto keeps the value that the job carries, too.
LEMMA GotoMoves ==
  ASSUME Typed, NEW at \in Ats, Goto(at)
  PROVE  MovesTo(job.step, at) /\ job'.val = job.val
<1>1. job \in Job BY DEF Typed, TypeOK
<1> QED BY <1>1, GotoFields DEF MovesTo

\* Saving goes to the write of the status.
LEMMA SavingMoves ==
  ASSUME Typed, NEW step \in Steps, NEW status \in RuntimeState, Saving(step, status)
  PROVE  MovesTo(step, "save")
<1>1. job \in Job BY DEF Typed, TypeOK
<1> QED BY <1>1, SavingFields DEF MovesTo

\* The state of the job's runtime is a state.
LEMMA JobState ==
  ASSUME Typed, job.step # "get"
  PROVE  job.op # "none" /\ job.rt \in Runtime /\ state[job.rt] \in RuntimeState
  BY NoJobFields DEF Typed, TypeOK, JobShape

\* A start that worked ends the operation, saves, or meets a removal.
LEMMA StartedMoves ==
  ASSUME Typed, Started, job.step # "get"
  PROVE  Fails \/ Ends \/ (MovesTo("save", "save") /\ job.op # "remove" /\ UNCHANGED regVars)
<1>1. \/ Fail("notFound", "running")
      \/ UNCHANGED regVars /\ Release
      \/ UNCHANGED regVars /\ job.op # "remove" /\ Saving("save", "running")
  BY DEF Started
<1> QED BY <1>1, FailStep, SavingMoves, PlaceNames DEF Ends, Release

\* A new runtime object is one whose client is not connected.
LEMMA GarbageIsClosed ==
  ASSUME IInv, NEW r \in Runtime, Garbage(r)
  PROVE  ~conn[r] /\ td[r] \notin {"pending", "failed"}
  BY DEF IInv, Registry, OpenConnection, Open, Owners, Garbage, Typed, TypeOK, TeardownTypeOK,
     TeardownState

-----------------------------------------------------------------------------
(* Requests, the removal and the retry of a teardown.                      *)

\* A request finds the agent's runtime, or goes to load one.
LEMMA BeginWithSafe ==
  ASSUME IInv, Typed', NEW op \in Requests, BeginWith(op)
  PROVE  IInv'
<1>1. \/ Ends
      \/ /\ job'.op = op /\ job'.step = "get" /\ job'.at = "load" /\ job'.rt = None
         /\ agents = None
      \/ /\ job'.op = op /\ op # "remove" /\ job'.rt = agents /\ agents # None
         /\ \/ job'.step \in {"start", "stop"} /\ job'.at = "retry"
            \/ job'.step = "lease" /\ job'.at = "await"
  <2>1. CASE agents = None
    <3>1. job' = [NoJob EXCEPT !.op = op]
      BY <2>1 DEF BeginWith
    <3>2. job'.op = op /\ job'.step = "get" /\ job'.at = "load" /\ job'.rt = None
      BY <3>1 DEF NoJob
    <3> QED BY <2>1, <3>2
  <2>2. CASE agents # None
    <3> DEFINE skip == state[agents] = "running" \/ revoked[agents]
    <3>1. /\ Proceed(op, FALSE, agents, skip)
          /\ op \in {"get", "start", "stop", "trigger", "account", "rebind"}
      BY <2>2 DEF BeginWith
    <3> HIDE DEF skip
    <3>2. agents \in Runtime \cup {None} /\ op \in Ops
      BY ManagerAssumption DEF IInv, Typed, TypeOK
    <3>3. \/ job' = NoJob
          \/ /\ job'.op = op /\ job'.rt = agents
             /\ \/ job'.step \in {"start", "stop"} /\ job'.at = "retry"
                \/ job'.step = "lease" /\ job'.at = "await"
      <4>1. op \in {"get", "start", "stop", "trigger", "account", "rebind"}
            /\ Proceed(op, FALSE, agents, skip)
        BY <3>1
      <4> QED BY <4>1 DEF Proceed, Release
    <3> QED BY <2>2, <3>1, <3>3 DEF BeginWith, Ends
  <2> QED BY <2>1, <2>2
<1>2. Registry' /\ OpenConnection' /\ HandlerConn' /\ RunningIsOpen' /\ StoppedIsClosed'
  BY <1>1, NoJobFields
   DEF BeginWith, Ends, IInv, Registry, OpenConnection, HandlerConn, RunningIsOpen,
       StoppedIsClosed, Owners, Open, teardownVars, regVars, rtVars
<1>3. OneOwner' /\ JobOwner' /\ TurnOwner'
  BY <1>1, NoJobFields
   DEF BeginWith, Ends, IInv, OneOwner, JobOwner, TurnOwner, Owners, Settled, Idle, regVars,
       rtVars
<1>4. TouchedFirst' /\ StartingInStart' /\ StartConn' /\ LeaseConn' /\ StopConn'
  BY <1>1, NoJobFields
   DEF BeginWith, Ends, IInv, TouchedFirst, StartingInStart, StartConn, LeaseConn, StopConn,
       Owners, Touched, Brief, Idle, teardownVars, regVars, rtVars
<1> QED BY <1>2, <1>3, <1>4 DEF IInv

\* create_saved_agent has no runtime yet.
LEMMA BeginCreateSavedSafe ==
  ASSUME IInv, Typed', NEW start \in BOOLEAN, BeginCreateSaved(start)
  PROVE  IInv'
<1>1. job'.op = "createSaved" /\ job'.step = "get" /\ job'.at = "load" /\ job'.rt = None
  BY DEF BeginCreateSaved, NoJob
<1>2. Registry' /\ OpenConnection' /\ HandlerConn' /\ RunningIsOpen' /\ StoppedIsClosed'
  BY <1>1
   DEF BeginCreateSaved, IInv, Registry, OpenConnection, HandlerConn, RunningIsOpen,
       StoppedIsClosed, Owners, Open, teardownVars, regVars, rtVars
<1>3. OneOwner' /\ JobOwner' /\ TurnOwner'
  BY <1>1
   DEF BeginCreateSaved, IInv, OneOwner, JobOwner, TurnOwner, Owners, Settled, Idle, regVars,
       rtVars
<1>4. TouchedFirst' /\ StartingInStart' /\ StartConn' /\ LeaseConn' /\ StopConn'
  BY <1>1
   DEF BeginCreateSaved, IInv, TouchedFirst, StartingInStart, StartConn, LeaseConn, StopConn,
       Owners, Touched, Brief, Idle, teardownVars, regVars, rtVars
<1> QED BY <1>2, <1>3, <1>4 DEF IInv

\* The restored runtime is a new one, whose client is not connected.
LEMMA BeginCreateSafe ==
  ASSUME IInv, Typed', NEW r \in Runtime, NEW proxy \in BOOLEAN, BeginCreate(r, proxy)
  PROVE  IInv'
<1>1. job'.op = "create" /\ job'.step = "start" /\ job'.at = "retry" /\ job'.rt = r
  BY DEF BeginCreate, Proceed
<1>2. ~conn[r] /\ td[r] \notin {"pending", "failed"}
  BY GarbageIsClosed DEF BeginCreate, NewRuntime
<1>3. Registry' /\ OpenConnection' /\ HandlerConn' /\ RunningIsOpen' /\ StoppedIsClosed'
  BY <1>1, <1>2, NoJobFields
   DEF BeginCreate, NewRuntime, IInv, Typed, TypeOK, Registry, OpenConnection, HandlerConn,
       RunningIsOpen, StoppedIsClosed, Owners, Open
<1>4. OneOwner' /\ JobOwner' /\ TurnOwner'
  BY <1>1, NoJobFields
   DEF BeginCreate, NewRuntime, IInv, OneOwner, JobOwner, TurnOwner, Owners, Settled, Idle
<1>5. TouchedFirst' /\ StartingInStart' /\ StartConn' /\ LeaseConn' /\ StopConn'
  BY <1>1, NoJobFields
   DEF BeginCreate, NewRuntime, Garbage, IInv, Typed, TypeOK, TouchedFirst, StartingInStart,
       StartConn, LeaseConn, StopConn, Owners, Touched, Idle
<1> QED BY <1>3, <1>4, <1>5 DEF IInv

\* reload closes the runtime in memory.
LEMMA BeginReloadSafe ==
  ASSUME IInv, Typed', BeginReload
  PROVE  IInv'
<1>1. Registry' /\ OpenConnection' /\ HandlerConn' /\ RunningIsOpen' /\ StoppedIsClosed'
  BY NoJobFields
   DEF BeginReload, IInv, Registry, OpenConnection, HandlerConn, RunningIsOpen, StoppedIsClosed,
       Owners, Open, teardownVars, regVars, rtVars
<1>2. OneOwner' /\ JobOwner' /\ TurnOwner'
  BY NoJobFields
   DEF BeginReload, IInv, OneOwner, JobOwner, TurnOwner, Owners, Settled, Idle, regVars, rtVars
<1>3. TouchedFirst' /\ StartingInStart' /\ StartConn' /\ LeaseConn' /\ StopConn'
  BY NoJobFields
   DEF BeginReload, IInv, TouchedFirst, StartingInStart, StartConn, LeaseConn, StopConn, Owners,
       Touched, Brief, Idle, teardownVars, regVars, rtVars
<1> QED BY <1>1, <1>2, <1>3 DEF IInv

\* shutdown closes the runtime in memory.
LEMMA BeginShutdownSafe ==
  ASSUME IInv, Typed', BeginShutdown
  PROVE  IInv'
<1>1. job'.op = "shutdown" /\ job'.step = "close" /\ job'.at = "retry" /\ job'.rt = agents
  BY DEF BeginShutdown, Proceed
<1>2. Registry' /\ OpenConnection' /\ HandlerConn' /\ RunningIsOpen' /\ StoppedIsClosed'
  BY <1>1, NoJobFields
   DEF BeginShutdown, IInv, Registry, OpenConnection, HandlerConn, RunningIsOpen,
       StoppedIsClosed, Owners, Open, teardownVars, regVars, rtVars
<1>3. OneOwner' /\ JobOwner' /\ TurnOwner'
  BY <1>1, NoJobFields
   DEF BeginShutdown, IInv, OneOwner, JobOwner, TurnOwner, Owners, Settled, Idle, regVars, rtVars
<1>4. TouchedFirst' /\ StartingInStart' /\ StartConn' /\ LeaseConn' /\ StopConn'
  BY <1>1, NoJobFields
   DEF BeginShutdown, IInv, TouchedFirst, StartingInStart, StartConn, LeaseConn, StopConn,
       Owners, Touched, Brief, Idle, teardownVars, regVars, rtVars
<1> QED BY <1>2, <1>3, <1>4 DEF IInv

\* The agent's runtime passes from _agents to the removal task.
LEMMA RemoveAgentSafe ==
  ASSUME IInv, Typed', RemoveAgent
  PROVE  IInv'
<1>1. Registry' /\ OpenConnection' /\ HandlerConn' /\ RunningIsOpen' /\ StoppedIsClosed'
  BY
   DEF RemoveAgent, IInv, Registry, OpenConnection, HandlerConn, RunningIsOpen, StoppedIsClosed,
       Owners, Open, Brief, teardownVars, rtVars
<1>2. OneOwner' /\ JobOwner' /\ TurnOwner'
  BY NoneAssumption
   DEF RemoveAgent, IInv, Typed, JobShape, OneOwner, JobOwner, TurnOwner, Owners, Open, AtRest,
       Settled, Idle, teardownVars, rtVars
<1>3. TouchedFirst' /\ StartingInStart' /\ StartConn' /\ LeaseConn' /\ StopConn'
  BY
   DEF RemoveAgent, IInv, TouchedFirst, StartingInStart, StartConn, LeaseConn, StopConn, Owners,
       Touched, Open, Brief, Idle, teardownVars, rtVars
<1> QED BY <1>1, <1>2, <1>3 DEF IInv

\* The removal task goes on with the runtime it was given.
LEMMA BeginRemovalSafe ==
  ASSUME IInv, Typed', BeginRemoval
  PROVE  IInv'
<1>1. job'.op = "remove" /\ job'.step = "close" /\ job'.at = "retry" /\ job'.rt = removal
  BY DEF BeginRemoval, Proceed
<1>2. Registry' /\ OpenConnection' /\ HandlerConn' /\ RunningIsOpen' /\ StoppedIsClosed'
  BY <1>1, NoJobFields
   DEF BeginRemoval, IInv, Registry, OpenConnection, HandlerConn, RunningIsOpen, StoppedIsClosed,
       Owners, Open, teardownVars, regVars, rtVars
<1>3. OneOwner' /\ JobOwner' /\ TurnOwner'
  BY <1>1, NoJobFields
   DEF BeginRemoval, IInv, OneOwner, JobOwner, TurnOwner, Owners, Settled, Idle, regVars, rtVars
<1>4. TouchedFirst' /\ StartingInStart' /\ StartConn' /\ LeaseConn' /\ StopConn'
  BY <1>1, NoJobFields
   DEF BeginRemoval, IInv, TouchedFirst, StartingInStart, StartConn, LeaseConn, StopConn, Owners,
       Touched, Brief, Idle, teardownVars, regVars, rtVars
<1> QED BY <1>2, <1>3, <1>4 DEF IInv

\* The loaded runtime is new; the job's old one, if any, was closed by reload.
LEMMA LoadSafe ==
  ASSUME IInv, Typed', NEW r \in Runtime, NEW proxy \in BOOLEAN, Load(r, proxy)
  PROVE  IInv'
<1>1. ~conn[r] /\ td[r] \notin {"pending", "failed"}
  BY GarbageIsClosed DEF Load, NewRuntime
<1>2. \/ job' = NoJob
      \/ /\ job'.op = job.op /\ job'.rt = r /\ job.op # "remove"
         /\ \/ job'.step \in {"start", "stop", "close"} /\ job'.at = "retry"
            \/ job'.step = "lease" /\ job'.at = "await"
            \/ job'.step = "save" /\ job'.at = "save"
  <2>1. Proceed(job.op, job.was, r, FALSE) /\ job.op # "remove"
    BY DEF Load, At, IInv, OneOwner, JobOwner, Typed, JobShape
  <2>2. job.op \in Ops /\ job.was \in BOOLEAN
    BY JobFields DEF IInv, Typed, TypeOK
  <2> QED BY <2>1, <2>2, ProceedFields
<1>3. Registry' /\ HandlerConn' /\ RunningIsOpen' /\ StoppedIsClosed'
  BY <1>1, <1>2, NoJobFields
   DEF Load, NewRuntime, At, IInv, Typed, TypeOK, Registry, HandlerConn, RunningIsOpen,
       StoppedIsClosed, Open, Brief
<1>4. OpenConnection'
  BY <1>1
   DEF Load, NewRuntime, IInv, OpenConnection, OneOwner, JobOwner, Owners, Open, AtRest
<1>5. OneOwner' /\ JobOwner'
  BY <1>2, NoJobFields DEF Load, NewRuntime, IInv, OneOwner, JobOwner
<1>6. TurnOwner'
  BY DEF Load, NewRuntime, IInv, OneOwner, JobOwner, TurnOwner, Owners, AtRest, Settled, Idle
<1>7. TouchedFirst' /\ StartingInStart' /\ StartConn' /\ LeaseConn' /\ StopConn'
  BY <1>2, NoJobFields
   DEF Load, NewRuntime, Garbage, At, IInv, Typed, TypeOK, TouchedFirst, StartingInStart,
       StartConn, LeaseConn, StopConn, Owners, Touched, Brief, Idle
<1> QED BY <1>3, <1>4, <1>5, <1>6, <1>7 DEF IInv

\* A failed load leaves no runtime, or the closed one of a reload.
LEMMA LoadFailsSafe ==
  ASSUME IInv, Typed', LoadFails
  PROVE  IInv'
<1>1. Fails
  <2> DEFINE now == IF job.rt = None THEN "stopped" ELSE state[job.rt]
  <2>1. now \in RuntimeState
    BY JobFields, PlaceNames DEF IInv, Typed, TypeOK
  <2>2. Fail(IF removed THEN "notFound" ELSE "other", now)
    BY DEF LoadFails
  <2> HIDE DEF now
  <2> QED BY <2>1, <2>2, FailStep DEF IInv
<1>2. Registry' /\ HandlerConn' /\ RunningIsOpen' /\ StoppedIsClosed'
  BY <1>1, NoJobFields
   DEF LoadFails, At, MovesTo, Ends, Fails, IInv, Registry, HandlerConn, RunningIsOpen,
       StoppedIsClosed, Open, Brief, teardownVars, rtVars
<1>3. OpenConnection'
  BY <1>1
   DEF LoadFails, At, Ends, Fails, IInv, OpenConnection, OneOwner, JobOwner, Owners, Open,
       AtRest, teardownVars, regVars
<1>4. OneOwner' /\ JobOwner'
  BY <1>1, NoJobFields
   DEF LoadFails, MovesTo, Ends, Fails, IInv, OneOwner, JobOwner, Open, AtRest, Settled, Idle,
       teardownVars, regVars, rtVars
<1>5. TurnOwner'
  BY <1>1
   DEF LoadFails, At, Ends, Fails, IInv, OneOwner, JobOwner, TurnOwner, Owners, AtRest, Settled,
       Idle, regVars, rtVars
<1>6. TouchedFirst' /\ StartingInStart' /\ StartConn' /\ LeaseConn' /\ StopConn'
  BY <1>1, NoneAssumption, NoJobFields
   DEF LoadFails, At, MovesTo, Ends, Fails, IInv, TouchedFirst, StartingInStart, StartConn,
       LeaseConn, StopConn, Owners, Touched, Brief, Idle, teardownVars, regVars, rtVars
<1> QED BY <1>2, <1>3, <1>4, <1>5, <1>6 DEF IInv

\* A retry starts a disconnect only in place of a failed one.
LEMMA RetryPreviousSafe ==
  ASSUME IInv, Typed', RetryPrevious
  PROVE  IInv'
<1>1. \E at \in {"enter", "retryDisc", "retryWait"} : MovesTo(job.step, at)
  <2>1. \E at \in {"enter", "retryDisc", "retryWait"} : Goto(at)
    BY DEF RetryPrevious, AfterRetry
  <2> QED BY <2>1, GotoMoves, PlaceNames DEF IInv
<1>2. Registry' /\ OpenConnection' /\ HandlerConn' /\ RunningIsOpen' /\ StoppedIsClosed'
  BY <1>1
   DEF RetryPrevious, Disconnect, HeldBy, MovesTo, IInv, Typed, TypeOK, TeardownTypeOK, Registry,
       OpenConnection, HandlerConn, RunningIsOpen, StoppedIsClosed, Owners, Open, Brief, regVars,
       rtVars
<1>3. OneOwner' /\ JobOwner' /\ TurnOwner'
  BY <1>1
   DEF RetryPrevious, Disconnect, MovesTo, IInv, Typed, JobShape, TypeOK, TeardownTypeOK,
       OneOwner, JobOwner, TurnOwner, Owners, Open, AtRest, Settled, Idle, regVars, rtVars
<1>4. TouchedFirst' /\ StartingInStart' /\ StartConn' /\ LeaseConn' /\ StopConn'
  BY <1>1
   DEF RetryPrevious, Disconnect, MovesTo, IInv, Typed, TypeOK, TeardownTypeOK, TouchedFirst,
       StartingInStart, StartConn, LeaseConn, StopConn, Owners, Touched, Brief, Idle, regVars,
       rtVars
<1> QED BY <1>2, <1>3, <1>4 DEF IInv

\* The retried disconnect ended; the job goes on or gives up.
LEMMA RetryDisconnectedSafe ==
  ASSUME IInv, Typed', RetryDisconnected
  PROVE  IInv'
<1>1. Fails \/ (UNCHANGED regVars /\ \E at \in {"enter", "retryWait"} : MovesTo(job.step, at))
  <2>1. \/ Fail("other", state[job.rt])
        \/ UNCHANGED regVars /\ \E at \in {"enter", "retryWait"} : Goto(at)
    BY DEF RetryDisconnected, AfterRetry
  <2>2. state[job.rt] \in RuntimeState
    BY JobState DEF RetryDisconnected, IInv, Typed, JobShape
  <2> QED BY <2>1, <2>2, FailStep, GotoMoves, PlaceNames DEF IInv
<1>2. Registry' /\ HandlerConn' /\ RunningIsOpen' /\ StoppedIsClosed'
  BY <1>1, NoJobFields
   DEF RetryDisconnected, MovesTo, Ends, Fails, IInv, Registry, HandlerConn, RunningIsOpen,
       StoppedIsClosed, Open, Brief, teardownVars, rtVars
<1>3. OpenConnection'
  BY NoneAssumption
   DEF RetryDisconnected, IInv, OpenConnection, JobOwner, Owners, Open, AtRest, teardownVars,
       regVars
<1>4. OneOwner' /\ JobOwner'
  BY <1>1, NoJobFields
   DEF RetryDisconnected, MovesTo, Ends, Fails, IInv, OneOwner, JobOwner, Open, AtRest, Settled,
       Idle, teardownVars, regVars, rtVars
<1>5. TurnOwner'
  BY <1>1, NoneAssumption
   DEF RetryDisconnected, Ends, Fails, IInv, Typed, JobShape, OneOwner, JobOwner, TurnOwner,
       Owners, AtRest, Settled, Idle, regVars, rtVars
<1>6. TouchedFirst' /\ StartingInStart' /\ StartConn' /\ LeaseConn' /\ StopConn'
  BY <1>1, NoneAssumption, NoJobFields
   DEF RetryDisconnected, MovesTo, Ends, Fails, IInv, TouchedFirst, StartingInStart, StartConn,
       LeaseConn, StopConn, Owners, Touched, Brief, Idle, teardownVars, regVars, rtVars
<1> QED BY <1>2, <1>3, <1>4, <1>5, <1>6 DEF IInv

\* The previous disconnect is over, or the job gives up.
LEMMA RetryWaitedSafe ==
  ASSUME IInv, Typed', RetryWaited
  PROVE  IInv'
<1>1. Fails \/ (UNCHANGED regVars /\ MovesTo(job.step, "enter"))
  <2>1. \/ Fail("pending", state[job.rt])
        \/ UNCHANGED regVars /\ Goto("enter")
    BY DEF RetryWaited, AfterRetry
  <2>2. state[job.rt] \in RuntimeState
    BY JobState DEF RetryWaited, IInv, Typed, JobShape
  <2> QED BY <2>1, <2>2, FailStep, GotoMoves, PlaceNames DEF IInv
<1>2. Registry' /\ HandlerConn' /\ RunningIsOpen' /\ StoppedIsClosed'
  BY <1>1, NoJobFields
   DEF RetryWaited, MovesTo, Ends, Fails, IInv, Registry, HandlerConn, RunningIsOpen,
       StoppedIsClosed, Open, Brief, teardownVars, rtVars
<1>3. OpenConnection'
  BY <1>1, NoneAssumption
   DEF RetryWaited, Ends, Fails, IInv, Typed, JobShape, OpenConnection, OneOwner, JobOwner,
       Owners, Open, AtRest, teardownVars, regVars
<1>4. OneOwner' /\ JobOwner'
  BY <1>1, NoJobFields
   DEF RetryWaited, MovesTo, Ends, Fails, IInv, OneOwner, JobOwner, Open, AtRest, Settled, Idle,
       teardownVars, regVars, rtVars
<1>5. TurnOwner'
  BY <1>1, NoneAssumption
   DEF RetryWaited, Ends, Fails, IInv, Typed, JobShape, OneOwner, JobOwner, TurnOwner, Owners,
       AtRest, Settled, Idle, regVars, rtVars
<1>6. TouchedFirst' /\ StartingInStart' /\ StartConn' /\ LeaseConn' /\ StopConn'
  BY <1>1, NoneAssumption, NoJobFields
   DEF RetryWaited, MovesTo, Ends, Fails, IInv, TouchedFirst, StartingInStart, StartConn,
       LeaseConn, StopConn, Owners, Touched, Brief, Idle, teardownVars, regVars, rtVars
<1> QED BY <1>2, <1>3, <1>4, <1>5, <1>6 DEF IInv

-----------------------------------------------------------------------------
(* start().                                                                *)

\* start() refuses, returns at once or marks the runtime as starting.
LEMMA EnterStartSafe ==
  ASSUME IInv, Typed', EnterStart
  PROVE  IInv'
<1>1. job.step = "start" /\ job.at = "enter" /\ job.op # "none" /\ job.rt \in Runtime
      /\ state[job.rt] \in RuntimeState
  BY JobState DEF EnterStart, At, IInv
<1>2. \/ Fails /\ UNCHANGED state
      \/ Ends /\ UNCHANGED state
      \/ MovesTo("save", "save") /\ job.op # "remove" /\ UNCHANGED regVars /\ UNCHANGED state
      \/ /\ state' = [state EXCEPT ![job.rt] = "starting"]
         /\ MovesTo("start", "await") /\ job'.val = state[job.rt]
         /\ state[job.rt] # "running"
         /\ UNCHANGED regVars
  <2> DEFINE x == job.rt
  <2>1. CASE UNCHANGED state /\ (\/ Fail("lifecycle", state[x])
                                 \/ Fail("auth", state[x]))
    BY <1>1, <2>1, FailStep DEF IInv
  <2>2. CASE UNCHANGED state /\ Started
    BY <1>1, <2>2, StartedMoves DEF IInv
  <2>3. CASE /\ state' = [state EXCEPT ![x] = "starting"]
             /\ job' = [job EXCEPT !.at = "await", !.val = state[x]]
             /\ state[x] # "running"
             /\ UNCHANGED regVars
    <3>1. job \in Job BY DEF IInv, Typed, TypeOK
    <3>2. MovesTo("start", "await") /\ job'.val = state[x]
      BY <1>1, <2>3, <3>1 DEF Job, MovesTo
    <3> QED BY <2>3, <3>2
  <2> QED BY <2>1, <2>2, <2>3 DEF EnterStart
<1>3. Registry' /\ HandlerConn' /\ RunningIsOpen' /\ StoppedIsClosed'
  BY <1>1, <1>2, NoJobFields
   DEF EnterStart, MovesTo, Ends, Fails, IInv, Typed, TypeOK, Registry, HandlerConn,
       RunningIsOpen, StoppedIsClosed, Open, Brief, teardownVars
<1>4. OpenConnection'
  BY <1>1, <1>2
   DEF EnterStart, Ends, Fails, IInv, OpenConnection, OneOwner, JobOwner, Owners, Open,
       teardownVars, regVars
<1>5. OneOwner' /\ JobOwner'
  BY <1>1, <1>2, NoJobFields
   DEF EnterStart, MovesTo, Ends, Fails, IInv, OneOwner, JobOwner, regVars
<1>6. TurnOwner'
  BY <1>1, <1>2
   DEF EnterStart, Ends, Fails, IInv, Typed, TypeOK, OneOwner, JobOwner, TurnOwner, Owners,
       Settled, Idle, regVars
<1>7. TouchedFirst' /\ StartingInStart' /\ LeaseConn' /\ StopConn'
  BY <1>1, <1>2, NoneAssumption, NoJobFields
   DEF EnterStart, MovesTo, Ends, Fails, IInv, Typed, TypeOK, TouchedFirst, StartingInStart,
       LeaseConn, StopConn, Owners, Touched, Brief, Idle, teardownVars, regVars
<1>8. StartConn'
  BY <1>1, <1>2, NoJobFields
   DEF EnterStart, MovesTo, Ends, Fails, IInv, Typed, TypeOK, TouchedFirst, StartingInStart,
       StartConn, Owners, Touched, teardownVars
<1> QED BY <1>3, <1>4, <1>5, <1>6, <1>7, <1>8 DEF IInv

\* The client connects when the registry is clear, so alone.
LEMMA StartConnectsSafe ==
  ASSUME IInv, Typed', StartConnects
  PROVE  IInv'
<1>1. MovesTo("start", "connect") /\ job.at = "await"
  BY GotoMoves, PlaceNames DEF StartConnects, At, IInv
<1>2. Registry' /\ HandlerConn' /\ RunningIsOpen'
  BY <1>1, NoneAssumption
   DEF StartConnects, Connect, TeardownClear, Succeeded, MovesTo, IInv, Typed, TypeOK,
       TeardownTypeOK, Registry, HandlerConn, RunningIsOpen, Open, rtVars
<1>3. OpenConnection'
  BY
   DEF StartConnects, Connect, TeardownClear, Succeeded, At, IInv, Typed, TypeOK, TeardownTypeOK,
       Registry, OpenConnection, OneOwner, JobOwner, Owners, Open, regVars
<1>4. StoppedIsClosed'
  BY DEF StartConnects, Connect, At, IInv, StartConn, StoppedIsClosed, Open, rtVars
<1>5. OneOwner' /\ JobOwner' /\ TurnOwner'
  BY <1>1
   DEF StartConnects, At, MovesTo, IInv, OneOwner, JobOwner, TurnOwner, Owners, Settled, Idle,
       regVars, rtVars
<1>6. TouchedFirst' /\ StartingInStart' /\ StartConn' /\ LeaseConn' /\ StopConn'
  BY <1>1
   DEF StartConnects, Connect, At, MovesTo, IInv, Typed, TypeOK, TeardownTypeOK, TouchedFirst,
       StartingInStart, StartConn, LeaseConn, StopConn, Owners, Touched, Brief, Idle, regVars,
       rtVars
<1> QED BY <1>2, <1>3, <1>4, <1>5, <1>6 DEF IInv

\* The state goes back to what it was before start().
LEMMA StartRefusedSafe ==
  ASSUME IInv, Typed', StartRefused
  PROVE  IInv'
<1>1. Fails /\ job.val \in RuntimeState
  <2>1. job.val \in RuntimeState
    BY DEF StartRefused, At, IInv, Typed, JobShape
  <2> QED BY <2>1, FailStep DEF StartRefused, IInv
<1>2. Registry' /\ OpenConnection' /\ HandlerConn'
  BY
   DEF StartRefused, TeardownClear, IInv, Registry, OpenConnection, HandlerConn, Open,
       teardownVars
<1>3. RunningIsOpen'
  BY <1>1, NoJobFields
   DEF StartRefused, At, MovesTo, Ends, Fails, IInv, RunningIsOpen, StartConn, Open, teardownVars
<1>4. StoppedIsClosed'
  BY
   DEF StartRefused, TeardownClear, IInv, OpenConnection, StoppedIsClosed, Open, teardownVars
<1>5. OneOwner' /\ JobOwner'
  BY <1>1, NoJobFields
   DEF StartRefused, At, MovesTo, Ends, Fails, IInv, OneOwner, JobOwner, regVars
<1>6. TurnOwner'
  BY <1>1
   DEF StartRefused, At, Ends, Fails, IInv, OneOwner, JobOwner, TurnOwner, Owners, Settled, Idle,
       regVars
<1>7. StartConn' /\ LeaseConn' /\ StopConn'
  BY <1>1, NoJobFields
   DEF StartRefused, MovesTo, Ends, Fails, IInv, StartConn, LeaseConn, StopConn, Brief
<1>8. TouchedFirst'
  BY <1>1, NoneAssumption, NoJobFields
   DEF StartRefused, At, MovesTo, Ends, Fails, IInv, TouchedFirst, StartConn, Owners, Touched,
       Idle, teardownVars, regVars
<1>9. StartingInStart'
  BY DEF StartRefused, At, IInv, Typed, TypeOK, StartingInStart, StartConn, StopConn
<1> QED BY <1>2, <1>3, <1>4, <1>5, <1>6, <1>7, <1>8, <1>9 DEF IInv

\* The session is good; the client stays as it is.
LEMMA StartAuthorizedSafe ==
  ASSUME IInv, Typed', StartAuthorized
  PROVE  IInv'
<1>1. MovesTo("start", "identify") /\ job.at = "connect"
  BY GotoMoves, PlaceNames DEF StartAuthorized, At, IInv
<1>2. Registry' /\ OpenConnection' /\ HandlerConn' /\ RunningIsOpen' /\ StoppedIsClosed'
  BY <1>1
   DEF StartAuthorized, At, MovesTo, IInv, Registry, OpenConnection, HandlerConn, RunningIsOpen,
       StoppedIsClosed, Owners, Open, Brief, teardownVars, regVars, rtVars
<1>3. OneOwner' /\ JobOwner' /\ TurnOwner'
  BY <1>1
   DEF StartAuthorized, At, MovesTo, IInv, OneOwner, JobOwner, TurnOwner, Owners, Settled, Idle,
       regVars, rtVars
<1>4. TouchedFirst' /\ StartingInStart' /\ StartConn' /\ LeaseConn' /\ StopConn'
  BY <1>1
   DEF StartAuthorized, At, MovesTo, IInv, TouchedFirst, StartingInStart, StartConn, LeaseConn,
       StopConn, Owners, Touched, Brief, Idle, teardownVars, regVars, rtVars
<1> QED BY <1>2, <1>3, <1>4 DEF IInv

\* Only here a runtime begins to run, and its client is open.
LEMMA StartRunsSafe ==
  ASSUME IInv, Typed', StartRuns
  PROVE  IInv'
<1>1. \/ Fails \/ Ends
      \/ MovesTo("save", "save") /\ job.op # "remove" /\ UNCHANGED regVars
  BY StartedMoves DEF StartRuns, At, IInv
<1>2. Registry' /\ HandlerConn' /\ RunningIsOpen' /\ StoppedIsClosed'
  BY <1>1, NoJobFields
   DEF StartRuns, At, MovesTo, Ends, Fails, IInv, Registry, HandlerConn, RunningIsOpen,
       StoppedIsClosed, Open, Brief, teardownVars
<1>3. OpenConnection'
  BY <1>1
   DEF StartRuns, At, Ends, Fails, IInv, OpenConnection, OneOwner, JobOwner, Owners, Open,
       teardownVars, regVars
<1>4. OneOwner' /\ JobOwner'
  BY <1>1, NoJobFields
   DEF StartRuns, At, MovesTo, Ends, Fails, IInv, OneOwner, JobOwner, regVars
<1>5. TurnOwner'
  BY <1>1
   DEF StartRuns, At, Ends, Fails, IInv, OneOwner, JobOwner, TurnOwner, Owners, Settled, Idle,
       regVars
<1>6. StartingInStart' /\ StartConn' /\ LeaseConn' /\ StopConn'
  BY <1>1, NoJobFields
   DEF StartRuns, MovesTo, Ends, Fails, IInv, Typed, TypeOK, StartingInStart, StartConn,
       LeaseConn, StopConn, Brief
<1>7. TouchedFirst'
  BY <1>1, NoneAssumption, NoJobFields
   DEF StartRuns, At, MovesTo, Ends, Fails, IInv, TouchedFirst, StartConn, Owners, Touched, Idle,
       teardownVars, regVars
<1> QED BY <1>2, <1>3, <1>4, <1>5, <1>6, <1>7 DEF IInv

\* A start that failed goes on to disconnect.
LEMMA StartBreaksSafe ==
  ASSUME IInv, Typed', NEW kind \in Failures, StartBreaks(kind)
  PROVE  IInv'
<1>1. Registry' /\ OpenConnection' /\ HandlerConn' /\ RunningIsOpen' /\ StoppedIsClosed'
  BY
   DEF StartBreaks, At, IInv, Registry, OpenConnection, HandlerConn, RunningIsOpen,
       StoppedIsClosed, Owners, Open, Brief, teardownVars, regVars
<1>2. OneOwner' /\ JobOwner' /\ TurnOwner'
  BY DEF StartBreaks, At, IInv, OneOwner, JobOwner, TurnOwner, Owners, Settled, Idle, regVars
<1>3. StartingInStart' /\ StartConn' /\ LeaseConn' /\ StopConn'
  BY
   DEF StartBreaks, At, IInv, Typed, TypeOK, StartingInStart, StartConn, LeaseConn, StopConn,
       Touched, teardownVars
<1>4. TouchedFirst'
  BY
   DEF StartBreaks, At, IInv, TouchedFirst, StartConn, Owners, Touched, Idle, teardownVars,
       regVars
<1> QED BY <1>1, <1>2, <1>3, <1>4 DEF IInv

\* The client of the failed start is told to disconnect.
LEMMA StartAbortsSafe ==
  ASSUME IInv, Typed', StartAborts
  PROVE  IInv'
<1>1. MovesTo("start", "abortWait")
  BY GotoMoves, PlaceNames DEF StartAborts, At, IInv
<1>2. HandlerConn' /\ StoppedIsClosed'
  BY
   DEF StartAborts, Disconnect, IInv, Typed, TypeOK, TeardownTypeOK, HandlerConn,
       StoppedIsClosed, Open, rtVars
<1>3. Registry'
  BY NoneAssumption
   DEF StartAborts, Disconnect, HeldBy, At, IInv, Typed, JobShape, TypeOK, TeardownTypeOK,
       Registry, OpenConnection, StartConn, Touched, Open
<1>4. OpenConnection'
  BY
   DEF StartAborts, Disconnect, HeldBy, Succeeded, At, IInv, Typed, TypeOK, TeardownTypeOK,
       OpenConnection, OneOwner, JobOwner, Owners, Open, regVars
<1>5. RunningIsOpen'
  BY <1>1
   DEF StartAborts, Disconnect, At, MovesTo, IInv, Typed, TypeOK, TeardownTypeOK, RunningIsOpen,
       StartConn, Open, rtVars
<1>6. OneOwner' /\ JobOwner' /\ TurnOwner'
  BY <1>1
   DEF StartAborts, At, MovesTo, IInv, OneOwner, JobOwner, TurnOwner, Owners, Settled, Idle,
       regVars, rtVars
<1>7. TouchedFirst' /\ StartingInStart' /\ StartConn' /\ LeaseConn' /\ StopConn'
  BY <1>1
   DEF StartAborts, Disconnect, At, MovesTo, IInv, Typed, TypeOK, TeardownTypeOK, TouchedFirst,
       StartingInStart, StartConn, LeaseConn, StopConn, Owners, Touched, Idle, regVars, rtVars
<1> QED BY <1>2, <1>3, <1>4, <1>5, <1>6, <1>7 DEF IInv

\* The failed start is over: its runtime is touched and does not run.
LEMMA StartAbortedSafe ==
  ASSUME IInv, Typed', StartAborted
  PROVE  IInv'
<1>1. \/ Fails
      \/ MovesTo("start", "mark") /\ UNCHANGED regVars
      \/ MovesTo("fallback", "enter") /\ UNCHANGED regVars
  <2>1. \/ Fail("other", "error")
        \/ Goto("mark") /\ UNCHANGED regVars
        \/ GotoStep("fallback", "enter") /\ UNCHANGED regVars
    BY DEF StartAborted
  <2>2. job.step = "start" BY DEF StartAborted, At
  <2> QED BY <2>1, <2>2, FailStep, GotoMoves, GotoStepMoves, PlaceNames DEF IInv
<1>2. Registry' /\ HandlerConn' /\ RunningIsOpen' /\ StoppedIsClosed'
  BY <1>1, NoJobFields
   DEF StartAborted, MovesTo, Ends, Fails, IInv, Typed, TypeOK, Registry, HandlerConn,
       RunningIsOpen, StoppedIsClosed, Open, teardownVars
<1>3. OpenConnection'
  BY <1>1
   DEF StartAborted, At, Ends, Fails, IInv, OpenConnection, OneOwner, JobOwner, Owners, Open,
       teardownVars, regVars
<1>4. OneOwner' /\ JobOwner'
  BY <1>1, NoJobFields
   DEF StartAborted, At, MovesTo, Ends, Fails, IInv, OneOwner, JobOwner, regVars
<1>5. TurnOwner'
  BY <1>1
   DEF StartAborted, At, Ends, Fails, IInv, OneOwner, JobOwner, TurnOwner, Owners, Settled, Idle,
       regVars
<1>6. StartingInStart' /\ StartConn' /\ LeaseConn' /\ StopConn'
  BY <1>1, NoJobFields
   DEF StartAborted, At, MovesTo, Ends, Fails, IInv, StartingInStart, StartConn, LeaseConn,
       StopConn, Touched, Brief, teardownVars
<1>7. TouchedFirst'
  BY <1>1, NoneAssumption, NoJobFields
   DEF StartAborted, At, MovesTo, Ends, Fails, IInv, TouchedFirst, StartConn, Owners, Touched,
       Idle, teardownVars, regVars
<1> QED BY <1>2, <1>3, <1>4, <1>5, <1>6, <1>7 DEF IInv

\* A dead session is written down; the start fails.
LEMMA StartMarksRevokedSafe ==
  ASSUME IInv, Typed', StartMarksRevoked
  PROVE  IInv'
<1>1. Fails
  <2>1. state[job.rt] \in RuntimeState /\ Fail("auth", state[job.rt])
    BY JobState DEF StartMarksRevoked, At, IInv
  <2> QED BY <2>1, FailStep DEF IInv
<1>2. Registry' /\ HandlerConn' /\ RunningIsOpen' /\ StoppedIsClosed'
  BY <1>1, NoJobFields
   DEF StartMarksRevoked, At, MovesTo, Ends, Fails, IInv, Registry, HandlerConn, RunningIsOpen,
       StoppedIsClosed, Open, Brief, teardownVars, rtVars
<1>3. OpenConnection'
  BY <1>1
   DEF StartMarksRevoked, At, Ends, Fails, IInv, OpenConnection, OneOwner, JobOwner, Owners,
       Open, teardownVars, regVars
<1>4. OneOwner' /\ JobOwner'
  BY <1>1, NoJobFields
   DEF StartMarksRevoked, At, MovesTo, Ends, Fails, IInv, OneOwner, JobOwner, regVars
<1>5. TurnOwner'
  BY <1>1
   DEF StartMarksRevoked, At, Ends, Fails, IInv, OneOwner, JobOwner, TurnOwner, Owners, Settled,
       Idle, regVars, rtVars
<1>6. TouchedFirst' /\ StartingInStart' /\ StartConn' /\ LeaseConn' /\ StopConn'
  BY <1>1, NoneAssumption, NoJobFields
   DEF StartMarksRevoked, At, MovesTo, Ends, Fails, IInv, TouchedFirst, StartingInStart,
       StartConn, LeaseConn, StopConn, Owners, Touched, Brief, Idle, teardownVars, regVars,
       rtVars
<1> QED BY <1>2, <1>3, <1>4, <1>5, <1>6 DEF IInv

-----------------------------------------------------------------------------
(* stop(), close() and what follows a close.                               *)

\* stop() or close() begins: no turn of this runtime begins any more.
LEMMA EnterStopSafe ==
  ASSUME IInv, Typed', EnterStop
  PROVE  IInv'
<1>1. job.rt \in Runtime /\ job.step \in {"stop", "close", "fallback"} /\ job.at = "enter"
  BY JobState DEF EnterStop, Stopping, IInv
<1>2. \/ state[job.rt] = "stopped" /\ MovesTo(job.step, "again") /\ UNCHANGED state
      \/ state[job.rt] # "stopped" /\ MovesTo(job.step, "disc")
         /\ state' = [state EXCEPT ![job.rt] = "stopping"]
  <2>1. \/ state[job.rt] = "stopped" /\ Goto("again") /\ UNCHANGED state
        \/ state[job.rt] # "stopped" /\ Goto("disc")
           /\ state' = [state EXCEPT ![job.rt] = "stopping"]
    BY DEF EnterStop
  <2> QED BY <2>1, GotoMoves, PlaceNames DEF IInv
<1>3. \A r \in Runtime : retired'[r] = (retired[r] \/ (r = job.rt /\ job.step # "stop"))
  BY DEF EnterStop, IInv, Typed, TypeOK
<1>4. state[job.rt] \in {"stopped", "running", "stopping", "error"}
  <2>1. state[job.rt] # "starting"
    BY <1>1 DEF IInv, StartingInStart
  <2> QED BY <1>1, <2>1, JobState DEF IInv, RuntimeState
<1>5. UNCHANGED <<conn, td, reg, agents, removed, removal, revoked, turn>>
  BY DEF EnterStop, teardownVars, regVars
<1>6. Registry' /\ OpenConnection' /\ HandlerConn' /\ RunningIsOpen' /\ StoppedIsClosed'
  BY <1>1, <1>2, <1>5
   DEF MovesTo, IInv, Typed, TypeOK, Registry, OpenConnection, HandlerConn, RunningIsOpen,
       StoppedIsClosed, Owners, Open, Brief
<1>7. OneOwner' /\ JobOwner' /\ TurnOwner'
  BY <1>1, <1>2, <1>5
   DEF MovesTo, IInv, Typed, TypeOK, OneOwner, JobOwner, TurnOwner, Owners, Settled, Idle
<1>8. TouchedFirst' /\ StartingInStart' /\ StartConn' /\ LeaseConn'
  BY <1>1, <1>2, <1>4, <1>5
   DEF MovesTo, IInv, Typed, TypeOK, TouchedFirst, StartingInStart, StartConn, LeaseConn, Owners,
       Touched, Idle
<1>9. StopConn'
  BY <1>2, <1>3, <1>4, <1>5
   DEF MovesTo, IInv, Typed, JobShape, TypeOK, TouchedFirst, StopConn, StoppedIsClosed, Owners,
       Touched, Open, Brief
<1> QED BY <1>6, <1>7, <1>8, <1>9 DEF IInv

\* The runtime had stopped already; its disconnect is looked at again.
LEMMA StopAgainSafe ==
  ASSUME IInv, Typed', StopAgain
  PROVE  IInv'
<1>1. MovesTo(job.step, "againWait")
  BY GotoMoves, PlaceNames DEF StopAgain, IInv
<1>2. Registry' /\ HandlerConn' /\ RunningIsOpen' /\ StoppedIsClosed'
  BY <1>1
   DEF StopAgain, Disconnect, HeldBy, Succeeded, Stopping, MovesTo, IInv, Typed, TypeOK,
       TeardownTypeOK, Registry, HandlerConn, RunningIsOpen, StoppedIsClosed, Open, Brief, rtVars
<1>3. OpenConnection'
  BY
   DEF StopAgain, Disconnect, HeldBy, Succeeded, Stopping, IInv, Typed, TypeOK, TeardownTypeOK,
       OpenConnection, OneOwner, JobOwner, Owners, Open, regVars
<1>4. OneOwner' /\ JobOwner' /\ TurnOwner'
  BY <1>1
   DEF StopAgain, Stopping, MovesTo, IInv, OneOwner, JobOwner, TurnOwner, Owners, Settled, Idle,
       regVars, rtVars
<1>5. TouchedFirst' /\ StartingInStart' /\ StartConn' /\ LeaseConn' /\ StopConn'
  BY <1>1
   DEF StopAgain, Disconnect, Stopping, MovesTo, IInv, Typed, TypeOK, TeardownTypeOK,
       TouchedFirst, StartingInStart, StartConn, LeaseConn, StopConn, Owners, Touched, Open,
       Idle, regVars, rtVars
<1> QED BY <1>2, <1>3, <1>4, <1>5 DEF IInv

\* The client is told to disconnect.
LEMMA StopDisconnectsSafe ==
  ASSUME IInv, Typed', StopDisconnects
  PROVE  IInv'
<1>1. MovesTo(job.step, "discWait")
  BY GotoMoves, PlaceNames DEF StopDisconnects, IInv
<1>2. HandlerConn' /\ StoppedIsClosed'
  BY
   DEF StopDisconnects, Disconnect, IInv, Typed, TypeOK, TeardownTypeOK, HandlerConn,
       StoppedIsClosed, Open, rtVars
<1>3. Registry'
  BY NoneAssumption
   DEF StopDisconnects, Disconnect, HeldBy, Stopping, IInv, Typed, JobShape, TypeOK,
       TeardownTypeOK, Registry, OpenConnection, StopConn, Touched, Open
<1>4. OpenConnection'
  BY
   DEF StopDisconnects, Disconnect, HeldBy, Succeeded, Stopping, IInv, Typed, TypeOK,
       TeardownTypeOK, OpenConnection, OneOwner, JobOwner, Owners, Open, regVars
<1>5. RunningIsOpen'
  BY <1>1
   DEF StopDisconnects, Disconnect, Stopping, MovesTo, IInv, Typed, TypeOK, TeardownTypeOK,
       RunningIsOpen, StopConn, Open, rtVars
<1>6. OneOwner' /\ JobOwner' /\ TurnOwner'
  BY <1>1
   DEF StopDisconnects, Stopping, MovesTo, IInv, OneOwner, JobOwner, TurnOwner, Owners, Settled,
       Idle, regVars, rtVars
<1>7. TouchedFirst' /\ StartingInStart' /\ StartConn' /\ LeaseConn' /\ StopConn'
  BY <1>1
   DEF StopDisconnects, Disconnect, Stopping, MovesTo, IInv, Typed, JobShape, TypeOK,
       TeardownTypeOK, TouchedFirst, StartingInStart, StartConn, LeaseConn, StopConn, Owners,
       Touched, Open, Idle, regVars, rtVars
<1> QED BY <1>2, <1>3, <1>4, <1>5, <1>6, <1>7 DEF IInv

\* The disconnect ended or was given up; the registry has what is left.
LEMMA StopDisconnectedSafe ==
  ASSUME IInv, Typed', StopDisconnected
  PROVE  IInv'
<1>1. /\ job.rt \in Runtime /\ job.step \in {"stop", "close", "fallback"}
      /\ job.at \in {"discWait", "againWait"} /\ job.op # "none"
      /\ state[job.rt] \in RuntimeState
  BY JobState DEF StopDisconnected, Stopping, IInv
<1>2. \/ Fails
      \/ UNCHANGED regVars /\ job.step # "stop" /\ MovesTo(job.step, "settle")
      \/ UNCHANGED regVars /\ job.step = "stop" /\ MovesTo("stop", "save")
  <2> DEFINE now == IF job.at = "discWait" THEN "stopped" ELSE state[job.rt]
  <2>1. now \in RuntimeState BY <1>1, PlaceNames
  <2>2. \/ Fail("other", now) \/ Fail("notFound", now)
        \/ UNCHANGED regVars /\ job.step # "stop" /\ Goto("settle")
        \/ UNCHANGED regVars /\ job.step = "stop" /\ Saving("stop", "stopped")
    BY DEF StopDisconnected
  <2> HIDE DEF now
  <2> QED BY <2>1, <2>2, FailStep, GotoMoves, SavingMoves, PlaceNames DEF IInv
<1>3. Registry' /\ HandlerConn' /\ RunningIsOpen'
  BY <1>2, NoJobFields
   DEF StopDisconnected, MovesTo, Ends, Fails, IInv, Registry, HandlerConn, RunningIsOpen, Open,
       teardownVars
<1>4. OpenConnection'
  BY <1>1, NoneAssumption
   DEF StopDisconnected, IInv, OpenConnection, OneOwner, JobOwner, StopConn, Owners, Open,
       teardownVars
<1>5. StoppedIsClosed'
  BY <1>1 DEF StopDisconnected, IInv, StopConn, StoppedIsClosed, Open, teardownVars
<1>6. OneOwner' /\ JobOwner'
  BY <1>1, <1>2, NoJobFields
   DEF StopDisconnected, MovesTo, Ends, Fails, IInv, OneOwner, JobOwner, regVars
<1>7. TurnOwner'
  BY <1>1, <1>2, NoneAssumption
   DEF StopDisconnected, Ends, Fails, IInv, OneOwner, JobOwner, TurnOwner, Owners, Settled, Idle,
       regVars
<1>8. TouchedFirst' /\ StartingInStart' /\ StartConn' /\ LeaseConn' /\ StopConn'
  BY <1>1, <1>2, NoneAssumption, NoJobFields
   DEF StopDisconnected, MovesTo, Ends, Fails, IInv, TouchedFirst, StartingInStart, StartConn,
       LeaseConn, StopConn, Owners, Touched, Open, Brief, Idle, teardownVars, regVars
<1> QED BY <1>3, <1>4, <1>5, <1>6, <1>7, <1>8 DEF IInv

\* reload drops the runtime, which is at rest.
LEMMA ClosedForReloadSafe ==
  ASSUME IInv, Typed', ClosedForReload
  PROVE  IInv'
<1>1. \/ Fails /\ removed
      \/ ~removed /\ agents' = None /\ UNCHANGED <<removed, removal>> /\ MovesTo("get", "load")
  <2>1. \/ removed /\ Fail("notFound", state[job.rt])
        \/ ~removed /\ agents' = None /\ UNCHANGED <<removed, removal>>
           /\ GotoStep("get", "load")
    BY DEF ClosedForReload
  <2>2. state[job.rt] \in RuntimeState
    BY JobState DEF ClosedForReload, At, IInv
  <2> QED BY <2>1, <2>2, FailStep, GotoStepMoves, PlaceNames DEF IInv
<1>2. Registry' /\ HandlerConn' /\ RunningIsOpen' /\ StoppedIsClosed'
  BY <1>1, NoJobFields
   DEF ClosedForReload, At, MovesTo, Ends, Fails, IInv, Registry, HandlerConn, RunningIsOpen,
       StoppedIsClosed, Open, Brief, teardownVars, rtVars
<1>3. OpenConnection'
  BY NoneAssumption
   DEF ClosedForReload, At, IInv, Typed, JobShape, OpenConnection, OneOwner, JobOwner, StopConn,
       Owners, Open, teardownVars
<1>4. OneOwner'
  BY <1>1, NoJobFields DEF ClosedForReload, MovesTo, Ends, Fails, IInv, OneOwner, regVars
<1>5. JobOwner'
  BY <1>1, NoJobFields
   DEF ClosedForReload, At, MovesTo, Ends, Fails, IInv, OneOwner, JobOwner, StopConn, Open,
       AtRest, Settled, Idle, teardownVars, rtVars
<1>6. TurnOwner'
  BY NoneAssumption
   DEF ClosedForReload, At, IInv, Typed, JobShape, OneOwner, JobOwner, TurnOwner, StopConn,
       Owners, Settled, Idle, rtVars
<1>7. TouchedFirst' /\ StartingInStart' /\ StartConn' /\ LeaseConn' /\ StopConn'
  BY <1>1, NoneAssumption, NoJobFields
   DEF ClosedForReload, At, MovesTo, Ends, Fails, IInv, TouchedFirst, StartingInStart, StartConn,
       LeaseConn, StopConn, Owners, Touched, Brief, Idle, teardownVars, regVars, rtVars
<1> QED BY <1>2, <1>3, <1>4, <1>5, <1>6, <1>7 DEF IInv

\* The removal or the shutdown drops the runtime, which is at rest.
LEMMA ClosedForGoodSafe ==
  ASSUME IInv, Typed', ClosedForGood
  PROVE  IInv'
<1>1. Registry' /\ HandlerConn' /\ RunningIsOpen' /\ StoppedIsClosed'
  BY NoJobFields
   DEF ClosedForGood, At, Release, IInv, Registry, HandlerConn, RunningIsOpen, StoppedIsClosed,
       Open, Brief, teardownVars, rtVars
<1>2. OpenConnection'
  BY
   DEF ClosedForGood, At, IInv, OpenConnection, OneOwner, StopConn, Owners, Open, teardownVars
<1>3. OneOwner' /\ JobOwner'
  BY NoJobFields DEF ClosedForGood, Release, IInv, OneOwner, JobOwner
<1>4. TurnOwner'
  BY
   DEF ClosedForGood, At, IInv, OneOwner, TurnOwner, StopConn, Owners, Settled, Idle, rtVars
<1>5. TouchedFirst' /\ StartingInStart' /\ StartConn' /\ LeaseConn' /\ StopConn'
  BY NoneAssumption, NoJobFields
   DEF ClosedForGood, At, Release, IInv, TouchedFirst, StartingInStart, StartConn, LeaseConn,
       StopConn, Owners, Touched, Brief, Idle, teardownVars, rtVars
<1> QED BY <1>1, <1>2, <1>3, <1>4, <1>5 DEF IInv

\* A close that raised fails the job; a removal keeps its runtime.
LEMMA CloseRaisesSafe ==
  ASSUME IInv, Typed', CloseRaises
  PROVE  IInv'
<1>1. Fails
  <2>1. state[job.rt] \in RuntimeState /\ Fail("other", state[job.rt])
    BY JobState DEF CloseRaises, IInv
  <2> QED BY <2>1, FailStep DEF IInv
<1>2. Registry' /\ HandlerConn' /\ RunningIsOpen' /\ StoppedIsClosed'
  BY <1>1, NoJobFields
   DEF CloseRaises, MovesTo, Ends, Fails, IInv, Registry, HandlerConn, RunningIsOpen,
       StoppedIsClosed, Open, Brief, teardownVars, rtVars
<1>3. OpenConnection'
  BY NoneAssumption
   DEF CloseRaises, IInv, Typed, JobShape, OpenConnection, OneOwner, JobOwner, StopConn, Owners,
       Open, teardownVars
<1>4. OneOwner' /\ JobOwner'
  BY <1>1, NoJobFields
   DEF CloseRaises, MovesTo, Ends, Fails, IInv, OneOwner, JobOwner, regVars
<1>5. TurnOwner'
  BY NoneAssumption
   DEF CloseRaises, IInv, Typed, JobShape, OneOwner, JobOwner, TurnOwner, StopConn, Owners,
       Settled, Idle, rtVars
<1>6. TouchedFirst' /\ StartingInStart' /\ StartConn' /\ LeaseConn' /\ StopConn'
  BY <1>1, NoneAssumption, NoJobFields
   DEF CloseRaises, MovesTo, Ends, Fails, IInv, TouchedFirst, StartingInStart, StartConn,
       LeaseConn, StopConn, Owners, Touched, Brief, Idle, teardownVars, regVars, rtVars
<1> QED BY <1>2, <1>3, <1>4, <1>5, <1>6 DEF IInv

\* A new direct runtime takes the place of the one behind the proxy.
LEMMA FallBackSafe ==
  ASSUME IInv, Typed', NEW r \in Runtime, FallBack(r)
  PROVE  IInv'
<1>1. \/ Fails /\ removed /\ UNCHANGED <<td, rtVars>>
      \/ /\ ~removed /\ NewRuntime(r, FALSE)
         /\ job'.op = job.op /\ job'.rt = r /\ job'.step = "start" /\ job'.at = "enter"
         /\ UNCHANGED <<removed, removal, turn, warmup>>
  <2>1. CASE removed
    <3>1. Fail("notFound", state[job.rt]) /\ UNCHANGED <<td, rtVars>>
      BY <2>1 DEF FallBack
    <3>2. state[job.rt] \in RuntimeState
      BY JobState DEF FallBack, At, IInv
    <3> QED BY <2>1, <3>1, <3>2, FailStep DEF IInv
  <2>2. CASE ~removed
    <3>1. job \in Job BY DEF IInv, Typed, TypeOK
    <3>2. job' = [job EXCEPT !.step = "start", !.at = "enter", !.rt = r]
          /\ NewRuntime(r, FALSE) /\ UNCHANGED <<removed, removal, turn, warmup>>
      BY <2>2 DEF FallBack
    <3>3. job'.op = job.op /\ job'.rt = r /\ job'.step = "start" /\ job'.at = "enter"
      BY <3>1, <3>2 DEF Job
    <3> QED BY <2>2, <3>2, <3>3
  <2> QED BY <2>1, <2>2
<1>2. ~removed => ~conn[r] /\ td[r] \notin {"pending", "failed"}
  BY <1>1, GarbageIsClosed DEF NewRuntime
<1>3. Registry' /\ HandlerConn' /\ RunningIsOpen' /\ StoppedIsClosed'
  BY <1>1, <1>2, NoJobFields
   DEF FallBack, NewRuntime, At, MovesTo, Ends, Fails, IInv, Typed, TypeOK, TeardownTypeOK,
       Registry, HandlerConn, RunningIsOpen, StoppedIsClosed, Open, Brief, rtVars
<1>4. OpenConnection'
  BY <1>2, NoneAssumption
   DEF FallBack, NewRuntime, At, IInv, Typed, JobShape, TypeOK, TeardownTypeOK, OpenConnection,
       OneOwner, JobOwner, StopConn, Owners, Open
<1>5. OneOwner' /\ JobOwner'
  BY <1>1, NoJobFields
   DEF FallBack, NewRuntime, At, MovesTo, Ends, Fails, IInv, OneOwner, JobOwner, regVars
<1>6. TurnOwner'
  BY NoneAssumption
   DEF FallBack, NewRuntime, At, IInv, Typed, JobShape, TypeOK, OneOwner, JobOwner, TurnOwner,
       StopConn, Owners, Settled, Idle, rtVars
<1>7. TouchedFirst' /\ StartingInStart' /\ StartConn' /\ LeaseConn' /\ StopConn'
  BY <1>1, NoneAssumption, NoJobFields
   DEF FallBack, NewRuntime, Garbage, At, MovesTo, Ends, Fails, IInv, Typed, TypeOK,
       TeardownTypeOK, TouchedFirst, StartingInStart, StartConn, LeaseConn, StopConn, Owners,
       Touched, Brief, Idle, regVars, rtVars
<1> QED BY <1>3, <1>4, <1>5, <1>6, <1>7 DEF IInv

-----------------------------------------------------------------------------
(* leased_telegram_client().                                               *)

\* A brief connection is opened when no other is.
LEMMA LeaseSafe ==
  ASSUME IInv, Typed', Lease
  PROVE  IInv'
<1>1. \/ Ends /\ UNCHANGED teardownVars
      \/ revoked[job.rt] /\ MovesTo("lease", "mark") /\ UNCHANGED teardownVars
      \/ /\ job'.op = job.op /\ job'.rt = job.rt /\ job'.step = "lease" /\ job'.at = "use"
         /\ job'.was <=> state[job.rt] # "running"
         /\ TeardownClear
         /\ IF state[job.rt] = "running" THEN UNCHANGED teardownVars ELSE Connect(job.rt)
  <2>1. job.step = "lease" /\ UNCHANGED regVars /\ job \in Job
    BY DEF Lease, At, IInv, Typed, TypeOK
  <2>2. CASE UNCHANGED teardownVars /\ (\/ Release
                                        \/ revoked[job.rt] /\ Goto("mark"))
    BY <2>1, <2>2, GotoMoves, PlaceNames DEF Ends, Release, IInv
  <2>3. CASE /\ TeardownClear
             /\ job' = [job EXCEPT !.at = "use", !.was = (state[job.rt] # "running")]
             /\ IF state[job.rt] = "running" THEN UNCHANGED teardownVars ELSE Connect(job.rt)
    BY <2>1, <2>3 DEF Job
  <2> QED BY <2>2, <2>3 DEF Lease
<1>2. Registry' /\ HandlerConn' /\ RunningIsOpen' /\ StoppedIsClosed'
  BY <1>1, NoneAssumption, NoJobFields
   DEF Lease, Connect, TeardownClear, Succeeded, At, MovesTo, Ends, IInv, Typed, TypeOK,
       TeardownTypeOK, Registry, HandlerConn, RunningIsOpen, StoppedIsClosed, Open, Brief,
       teardownVars, rtVars
<1>3. OpenConnection'
  BY NoneAssumption
   DEF Lease, Connect, TeardownClear, Succeeded, IInv, Typed, TypeOK, TeardownTypeOK, Registry,
       OpenConnection, JobOwner, Owners, Open, AtRest, teardownVars, regVars
<1>4. OneOwner' /\ JobOwner'
  BY <1>1, NoJobFields DEF Lease, At, MovesTo, Ends, IInv, OneOwner, JobOwner, regVars
<1>5. TurnOwner'
  BY NoneAssumption
   DEF Lease, IInv, JobOwner, TurnOwner, Owners, AtRest, Settled, Idle, regVars, rtVars
<1>6. TouchedFirst' /\ StartingInStart' /\ StartConn' /\ StopConn'
  BY <1>1, NoneAssumption, NoJobFields
   DEF Lease, Connect, At, MovesTo, Ends, IInv, Typed, TypeOK, TeardownTypeOK, TouchedFirst,
       StartingInStart, StartConn, StopConn, Owners, Touched, Idle, teardownVars, regVars, rtVars
<1>7. LeaseConn'
  BY <1>1, NoJobFields
   DEF Lease, Connect, MovesTo, Ends, IInv, Typed, JobShape, TypeOK, TeardownTypeOK,
       TouchedFirst, LeaseConn, Owners, Touched, Brief, teardownVars, rtVars
<1> QED BY <1>2, <1>3, <1>4, <1>5, <1>6, <1>7 DEF IInv

\* The work with the leased client is over.
LEMMA LeaseUsedSafe ==
  ASSUME IInv, Typed', NEW kind \in {"stopped", "other", "dead"}, LeaseUsed(kind)
  PROVE  IInv'
<1>1. \/ ~job.was /\ Ends
      \/ ~job.was /\ MovesTo("lease", "mark")
      \/ job.was /\ MovesTo("lease", "disc")
  <2>1. job.step = "lease" /\ UNCHANGED regVars /\ job \in Job
    BY DEF LeaseUsed, At, IInv, Typed, TypeOK
  <2>2. CASE ~job.was /\ (Goto("mark") \/ Release)
    BY <2>1, <2>2, GotoMoves, PlaceNames DEF Ends, Release, IInv
  <2>3. CASE job.was /\ job' = [job EXCEPT !.at = "disc", !.val = kind]
    BY <2>1, <2>3 DEF Job, MovesTo
  <2> QED BY <2>2, <2>3 DEF LeaseUsed
<1>2. Registry' /\ HandlerConn' /\ RunningIsOpen' /\ StoppedIsClosed'
  BY <1>1, NoJobFields
   DEF LeaseUsed, At, MovesTo, Ends, IInv, Registry, HandlerConn, RunningIsOpen, StoppedIsClosed,
       Open, Brief, teardownVars, rtVars
<1>3. OpenConnection'
  BY
   DEF LeaseUsed, IInv, OpenConnection, OneOwner, JobOwner, Owners, Open, AtRest, teardownVars,
       regVars
<1>4. OneOwner' /\ JobOwner'
  BY <1>1, NoJobFields DEF LeaseUsed, At, MovesTo, Ends, IInv, OneOwner, JobOwner, regVars
<1>5. TurnOwner'
  BY
   DEF LeaseUsed, IInv, OneOwner, JobOwner, TurnOwner, Owners, AtRest, Settled, Idle, regVars,
       rtVars
<1>6. TouchedFirst' /\ StartingInStart' /\ StartConn' /\ LeaseConn' /\ StopConn'
  BY <1>1, NoneAssumption, NoJobFields
   DEF LeaseUsed, At, MovesTo, Ends, IInv, TouchedFirst, StartingInStart, StartConn, LeaseConn,
       StopConn, Owners, Touched, Brief, Idle, teardownVars, regVars, rtVars
<1> QED BY <1>2, <1>3, <1>4, <1>5, <1>6 DEF IInv

\* A brief connection is told to disconnect.
LEMMA LeaseDisconnectsSafe ==
  ASSUME IInv, Typed', LeaseDisconnects
  PROVE  IInv'
<1>1. MovesTo("lease", "discWait")
  BY GotoMoves, PlaceNames DEF LeaseDisconnects, At, IInv
<1>2. HandlerConn' /\ StoppedIsClosed'
  BY
   DEF LeaseDisconnects, Disconnect, IInv, Typed, TypeOK, TeardownTypeOK, HandlerConn,
       StoppedIsClosed, Open, rtVars
<1>3. Registry'
  BY NoneAssumption
   DEF LeaseDisconnects, Disconnect, HeldBy, At, IInv, Typed, JobShape, TypeOK, TeardownTypeOK,
       Registry, OpenConnection, LeaseConn, Touched, Open
<1>4. OpenConnection'
  BY
   DEF LeaseDisconnects, Disconnect, HeldBy, Succeeded, At, IInv, Typed, TypeOK, TeardownTypeOK,
       OpenConnection, OneOwner, JobOwner, Owners, Open, regVars
<1>5. RunningIsOpen'
  BY <1>1
   DEF LeaseDisconnects, Disconnect, At, MovesTo, IInv, Typed, TypeOK, TeardownTypeOK,
       RunningIsOpen, LeaseConn, Open, Brief, rtVars
<1>6. OneOwner' /\ JobOwner' /\ TurnOwner'
  BY <1>1
   DEF LeaseDisconnects, At, MovesTo, IInv, OneOwner, JobOwner, TurnOwner, Owners, Settled, Idle,
       regVars, rtVars
<1>7. TouchedFirst' /\ StartingInStart' /\ StartConn' /\ LeaseConn' /\ StopConn'
  BY <1>1
   DEF LeaseDisconnects, Disconnect, At, MovesTo, IInv, Typed, TypeOK, TeardownTypeOK,
       TouchedFirst, StartingInStart, StartConn, LeaseConn, StopConn, Owners, Touched, Brief,
       Idle, regVars, rtVars
<1> QED BY <1>2, <1>3, <1>4, <1>5, <1>6, <1>7 DEF IInv

\* The brief connection is closed or with the registry.
LEMMA LeaseDisconnectedSafe ==
  ASSUME IInv, Typed', LeaseDisconnected
  PROVE  IInv'
<1>1. Ends \/ MovesTo("lease", "mark")
  BY GotoMoves, PlaceNames DEF LeaseDisconnected, At, Ends, Release, IInv
<1>2. Registry' /\ HandlerConn' /\ RunningIsOpen' /\ StoppedIsClosed'
  BY <1>1, NoJobFields
   DEF LeaseDisconnected, At, MovesTo, Ends, IInv, Registry, HandlerConn, RunningIsOpen,
       StoppedIsClosed, Open, Brief, teardownVars, rtVars
<1>3. OpenConnection'
  BY
   DEF LeaseDisconnected, IInv, OpenConnection, OneOwner, JobOwner, Owners, Open, AtRest,
       teardownVars, regVars
<1>4. OneOwner' /\ JobOwner'
  BY <1>1, NoJobFields
   DEF LeaseDisconnected, At, MovesTo, Ends, IInv, OneOwner, JobOwner, regVars
<1>5. TurnOwner'
  BY
   DEF LeaseDisconnected, IInv, OneOwner, JobOwner, TurnOwner, Owners, AtRest, Settled, Idle,
       regVars, rtVars
<1>6. TouchedFirst' /\ StartingInStart' /\ StartConn' /\ LeaseConn' /\ StopConn'
  BY <1>1, NoneAssumption, NoJobFields
   DEF LeaseDisconnected, At, MovesTo, Ends, IInv, TouchedFirst, StartingInStart, StartConn,
       LeaseConn, StopConn, Owners, Touched, Brief, Idle, teardownVars, regVars, rtVars
<1> QED BY <1>2, <1>3, <1>4, <1>5, <1>6 DEF IInv

\* A dead session is written down after the lease.
LEMMA LeaseMarksRevokedSafe ==
  ASSUME IInv, Typed', LeaseMarksRevoked
  PROVE  IInv'
<1>1. Registry' /\ HandlerConn' /\ RunningIsOpen' /\ StoppedIsClosed'
  BY NoJobFields
   DEF LeaseMarksRevoked, At, Release, IInv, Registry, HandlerConn, RunningIsOpen,
       StoppedIsClosed, Open, Brief, teardownVars
<1>2. OpenConnection'
  BY
   DEF LeaseMarksRevoked, IInv, OpenConnection, OneOwner, JobOwner, Owners, Open, AtRest,
       teardownVars, regVars
<1>3. OneOwner' /\ JobOwner'
  BY NoJobFields DEF LeaseMarksRevoked, At, Release, IInv, OneOwner, JobOwner, regVars
<1>4. TurnOwner'
  BY
   DEF LeaseMarksRevoked, IInv, OneOwner, JobOwner, TurnOwner, Owners, AtRest, Settled, Idle,
       regVars
<1>5. StartingInStart' /\ StartConn' /\ LeaseConn' /\ StopConn'
  BY NoJobFields
   DEF LeaseMarksRevoked, At, Release, IInv, StartingInStart, StartConn, LeaseConn, StopConn,
       Brief
<1>6. TouchedFirst'
  BY NoneAssumption, NoJobFields
   DEF LeaseMarksRevoked, At, Release, IInv, TouchedFirst, LeaseConn, Owners, Touched, Idle,
       teardownVars, regVars
<1> QED BY <1>1, <1>2, <1>3, <1>4, <1>5, <1>6 DEF IInv

-----------------------------------------------------------------------------
(* The last write, and a rebind.                                           *)

\* The status is written, or not; the job ends or applies the rebind.
LEMMA SaveSafe ==
  ASSUME IInv, Typed', NEW written \in BOOLEAN, Save(written)
  PROVE  IInv'
<1>1. \/ job' = NoJob
      \/ job.op = "rebind" /\ job.step = "stop" /\ MovesTo("apply", "enter")
  <2>1. \/ job' = NoJob
        \/ job.op = "rebind" /\ job.step = "stop" /\ GotoStep("apply", "enter")
    BY DEF Save, Release
  <2> QED BY <2>1, GotoStepMoves, PlaceNames DEF IInv
<1>2. Registry' /\ HandlerConn' /\ RunningIsOpen' /\ StoppedIsClosed'
  BY <1>1, NoJobFields
   DEF Save, MovesTo, IInv, Registry, HandlerConn, RunningIsOpen, StoppedIsClosed, Open, Brief,
       teardownVars, rtVars
<1>3. OpenConnection'
  BY DEF Save, IInv, OpenConnection, OneOwner, JobOwner, Owners, Open, AtRest, teardownVars
<1>4. OneOwner' /\ JobOwner'
  BY <1>1, NoJobFields DEF Save, MovesTo, IInv, OneOwner, JobOwner
<1>5. TurnOwner'
  BY DEF Save, IInv, OneOwner, JobOwner, TurnOwner, Owners, AtRest, Settled, Idle, rtVars
<1>6. TouchedFirst' /\ StartingInStart' /\ StartConn' /\ LeaseConn' /\ StopConn'
  BY <1>1, NoneAssumption, NoJobFields
   DEF Save, MovesTo, IInv, TouchedFirst, StartingInStart, StartConn, LeaseConn, StopConn,
       Owners, Touched, Brief, Idle, teardownVars, rtVars
<1> QED BY <1>2, <1>3, <1>4, <1>5, <1>6 DEF IInv

\* The rebind reloads the runtime, unless the agent was removed.
LEMMA ApplyRebindSafe ==
  ASSUME IInv, Typed', ApplyRebind
  PROVE  IInv'
<1>1. \/ Ends
      \/ /\ ~removed
         /\ job'.op = "reload" /\ job'.rt = job.rt /\ job'.step = "close" /\ job'.at = "retry"
  <2>1. job \in Job BY DEF IInv, Typed, TypeOK
  <2>2. CASE removed
    BY <2>2 DEF ApplyRebind, Ends, Release
  <2>3. CASE ~removed
    BY <2>1, <2>3 DEF ApplyRebind, Job
  <2> QED BY <2>2, <2>3
<1>2. Registry' /\ HandlerConn' /\ RunningIsOpen' /\ StoppedIsClosed'
  BY <1>1, NoJobFields
   DEF ApplyRebind, At, Ends, IInv, Registry, HandlerConn, RunningIsOpen, StoppedIsClosed, Open,
       Brief, teardownVars
<1>3. OpenConnection'
  BY
   DEF ApplyRebind, IInv, OpenConnection, OneOwner, JobOwner, Owners, Open, AtRest, teardownVars,
       regVars
<1>4. OneOwner' /\ JobOwner'
  BY <1>1, NoJobFields DEF ApplyRebind, At, Ends, IInv, OneOwner, JobOwner, regVars
<1>5. TurnOwner'
  BY
   DEF ApplyRebind, IInv, OneOwner, JobOwner, TurnOwner, Owners, AtRest, Settled, Idle, regVars
<1>6. TouchedFirst' /\ StartingInStart' /\ StartConn' /\ LeaseConn' /\ StopConn'
  BY <1>1, NoneAssumption, NoJobFields
   DEF ApplyRebind, At, Ends, IInv, TouchedFirst, StartingInStart, StartConn, LeaseConn,
       StopConn, Owners, Touched, Brief, Idle, teardownVars, regVars
<1> QED BY <1>2, <1>3, <1>4, <1>5, <1>6 DEF IInv

\* The rebind could not be applied; the job ends.
LEMMA ApplyFailsSafe ==
  ASSUME IInv, Typed', ApplyFails
  PROVE  IInv'
<1>1. Registry' /\ HandlerConn' /\ RunningIsOpen' /\ StoppedIsClosed'
  BY NoJobFields
   DEF ApplyFails, At, Release, IInv, Registry, HandlerConn, RunningIsOpen, StoppedIsClosed,
       Open, Brief, teardownVars, rtVars
<1>2. OpenConnection'
  BY
   DEF ApplyFails, IInv, OpenConnection, OneOwner, JobOwner, Owners, Open, AtRest, teardownVars,
       regVars
<1>3. OneOwner' /\ JobOwner'
  BY NoJobFields DEF ApplyFails, At, Release, IInv, OneOwner, JobOwner, regVars
<1>4. TurnOwner'
  BY
   DEF ApplyFails, IInv, OneOwner, JobOwner, TurnOwner, Owners, AtRest, Settled, Idle, regVars,
       rtVars
<1>5. TouchedFirst' /\ StartingInStart' /\ StartConn' /\ LeaseConn' /\ StopConn'
  BY NoneAssumption, NoJobFields
   DEF ApplyFails, At, Release, IInv, TouchedFirst, StartingInStart, StartConn, LeaseConn,
       StopConn, Owners, Touched, Brief, Idle, teardownVars, regVars, rtVars
<1> QED BY <1>1, <1>2, <1>3, <1>4, <1>5 DEF IInv

-----------------------------------------------------------------------------
(* Turns and disconnects, which need no lock.                              *)

\* A turn begins on a runtime that is running, so connected and known.
LEMMA TurnBeginsSafe ==
  ASSUME IInv, Typed', NEW x \in Runtime, TurnBegins(x)
  PROVE  IInv'
<1>1. Registry' /\ OpenConnection' /\ RunningIsOpen' /\ StoppedIsClosed'
  BY
   DEF TurnBegins, IInv, Registry, OpenConnection, RunningIsOpen, StoppedIsClosed, Owners, Open,
       Brief, teardownVars, regVars
<1>2. HandlerConn'
  BY DEF TurnBegins, IInv, HandlerConn, RunningIsOpen, Open, teardownVars
<1>3. OneOwner' /\ JobOwner' /\ TurnOwner'
  BY
   DEF TurnBegins, IInv, OneOwner, JobOwner, TurnOwner, Owners, Open, AtRest, Settled, Idle,
       teardownVars, regVars
<1>4. TouchedFirst' /\ StartingInStart' /\ StartConn' /\ LeaseConn' /\ StopConn'
  BY
   DEF TurnBegins, IInv, TouchedFirst, StartingInStart, StartConn, LeaseConn, StopConn, Owners,
       Touched, Open, Brief, Idle, teardownVars, regVars
<1> QED BY <1>1, <1>2, <1>3, <1>4 DEF IInv

\* The turn found its session dead.
LEMMA TurnFindsDeadSafe ==
  ASSUME IInv, Typed', NEW x \in Runtime, TurnFindsDead(x)
  PROVE  IInv'
<1>1. /\ ~Idle(x)
      /\ turn'[x] = NoTurn \/ turn'[x].handler = turn[x].handler
      /\ \A r \in Runtime \ {x} : turn'[r] = turn[r]
  BY TurnMoves, NoTurnIsTurn DEF TurnFindsDead, Idle, IInv, Typed, TypeOK
<1>2. Registry' /\ OpenConnection' /\ HandlerConn' /\ RunningIsOpen' /\ StoppedIsClosed'
  BY
   DEF TurnFindsDead, IInv, Registry, OpenConnection, HandlerConn, RunningIsOpen,
       StoppedIsClosed, Owners, Open, Brief, teardownVars, regVars
<1>3. OneOwner' /\ JobOwner' /\ TurnOwner'
  BY <1>1
   DEF TurnFindsDead, IInv, OneOwner, JobOwner, TurnOwner, Owners, Open, AtRest, Settled, Idle,
       teardownVars, regVars
<1>4. TouchedFirst' /\ StartingInStart' /\ StartConn' /\ LeaseConn' /\ StopConn'
  BY <1>1
   DEF TurnFindsDead, IInv, TouchedFirst, StartingInStart, StartConn, LeaseConn, StopConn,
       Owners, Touched, Open, Brief, Idle, teardownVars, regVars
<1> QED BY <1>2, <1>3, <1>4 DEF IInv

\* The turn writes the dead session down.
LEMMA TurnMarksRevokedSafe ==
  ASSUME IInv, Typed', NEW x \in Runtime, TurnMarksRevoked(x)
  PROVE  IInv'
<1>1. /\ ~Idle(x)
      /\ turn'[x] = NoTurn \/ turn'[x].handler = turn[x].handler
      /\ \A r \in Runtime \ {x} : turn'[r] = turn[r]
  BY TurnMoves, NoTurnIsTurn DEF TurnMarksRevoked, Idle, IInv, Typed, TypeOK
<1>2. Registry' /\ OpenConnection' /\ HandlerConn' /\ RunningIsOpen' /\ StoppedIsClosed'
  BY
   DEF TurnMarksRevoked, IInv, Registry, OpenConnection, HandlerConn, RunningIsOpen,
       StoppedIsClosed, Owners, Open, Brief, teardownVars, regVars
<1>3. OneOwner' /\ JobOwner' /\ TurnOwner'
  BY <1>1
   DEF TurnMarksRevoked, IInv, OneOwner, JobOwner, TurnOwner, Owners, Open, AtRest, Settled,
       Idle, teardownVars, regVars
<1>4. TouchedFirst' /\ StartingInStart' /\ StartConn' /\ LeaseConn' /\ StopConn'
  BY <1>1
   DEF TurnMarksRevoked, IInv, TouchedFirst, StartingInStart, StartConn, LeaseConn, StopConn,
       Owners, Touched, Open, Brief, Idle, teardownVars, regVars
<1> QED BY <1>2, <1>3, <1>4 DEF IInv

\* The turn stops its runtime.
LEMMA TurnSetsErrorSafe ==
  ASSUME IInv, Typed', NEW x \in Runtime, TurnSetsError(x)
  PROVE  IInv'
<1>1. /\ ~Idle(x)
      /\ turn'[x] = NoTurn \/ turn'[x].handler = turn[x].handler
      /\ \A r \in Runtime \ {x} : turn'[r] = turn[r]
  BY TurnMoves, NoTurnIsTurn DEF TurnSetsError, Idle, IInv, Typed, TypeOK
<1>2. Registry' /\ OpenConnection' /\ HandlerConn' /\ RunningIsOpen' /\ StoppedIsClosed'
  BY
   DEF TurnSetsError, IInv, Registry, OpenConnection, HandlerConn, RunningIsOpen,
       StoppedIsClosed, Owners, Open, Brief, teardownVars, regVars
<1>3. OneOwner' /\ JobOwner' /\ TurnOwner'
  BY <1>1
   DEF TurnSetsError, IInv, OneOwner, JobOwner, TurnOwner, Owners, Open, AtRest, Settled, Idle,
       teardownVars, regVars
<1>4. TouchedFirst' /\ StartingInStart' /\ StartConn' /\ LeaseConn' /\ StopConn'
  BY <1>1
   DEF TurnSetsError, IInv, TouchedFirst, StartingInStart, StartConn, LeaseConn, StopConn,
       Owners, Touched, Open, Brief, Idle, teardownVars, regVars
<1> QED BY <1>2, <1>3, <1>4 DEF IInv

\* The turn ended; after a dead session it tells the client to disconnect.
LEMMA TurnEndsSafe ==
  ASSUME IInv, Typed', NEW x \in Runtime, TurnEnds(x)
  PROVE  IInv'
<1>1. /\ ~Idle(x)
      /\ turn'[x] = NoTurn \/ turn'[x].handler = turn[x].handler
      /\ \A r \in Runtime \ {x} : turn'[r] = turn[r]
  BY TurnMoves, NoTurnIsTurn DEF TurnEnds, Idle, IInv, Typed, TypeOK
<1>2. HandlerConn' /\ RunningIsOpen' /\ StoppedIsClosed'
  BY <1>1, NoTurnIsTurn
   DEF TurnEnds, Disconnect, IInv, Typed, TypeOK, TeardownTypeOK, HandlerConn, RunningIsOpen,
       StoppedIsClosed, Open, Brief
<1>3. Registry'
  BY NoneAssumption, NoTurnIsTurn
   DEF TurnEnds, Disconnect, HeldBy, IInv, Typed, TypeOK, TeardownTypeOK, Registry,
       OpenConnection, TurnOwner, HandlerConn, TouchedFirst, Touched, Open, Settled, Idle
<1>4. OpenConnection'
  BY NoTurnIsTurn
   DEF TurnEnds, Disconnect, HeldBy, Succeeded, IInv, Typed, TypeOK, TeardownTypeOK,
       OpenConnection, OneOwner, JobOwner, TurnOwner, HandlerConn, Owners, Open, AtRest, Settled,
       Idle, regVars
<1>5. OneOwner' /\ JobOwner' /\ TurnOwner'
  BY <1>1
   DEF TurnEnds, Disconnect, IInv, Typed, JobShape, TypeOK, TeardownTypeOK, OneOwner, JobOwner,
       TurnOwner, Owners, Open, AtRest, Settled, Idle, regVars
<1>6. TouchedFirst' /\ StartingInStart' /\ StartConn' /\ LeaseConn' /\ StopConn'
  BY
   DEF TurnEnds, Disconnect, IInv, Typed, JobShape, TypeOK, TeardownTypeOK, TouchedFirst,
       StartingInStart, StartConn, LeaseConn, StopConn, Owners, Touched, Open, Brief, Idle,
       regVars
<1> QED BY <1>2, <1>3, <1>4, <1>5, <1>6 DEF IInv

\* The turn of a scheduler or handler leaves the runtime.
LEMMA TurnLeavesSafe ==
  ASSUME IInv, Typed', NEW x \in Runtime, TurnLeaves(x)
  PROVE  IInv'
<1>1. Registry' /\ OpenConnection' /\ HandlerConn' /\ RunningIsOpen' /\ StoppedIsClosed'
  BY NoTurnIsTurn
   DEF TurnLeaves, IInv, Registry, OpenConnection, HandlerConn, RunningIsOpen, StoppedIsClosed,
       Owners, Open, Brief, teardownVars, regVars
<1>2. OneOwner' /\ JobOwner' /\ TurnOwner'
  BY
   DEF TurnLeaves, IInv, OneOwner, JobOwner, TurnOwner, Owners, Open, AtRest, Settled, Idle,
       teardownVars, regVars
<1>3. TouchedFirst' /\ StartingInStart' /\ StartConn' /\ LeaseConn' /\ StopConn'
  BY
   DEF TurnLeaves, IInv, TouchedFirst, StartingInStart, StartConn, LeaseConn, StopConn, Owners,
       Touched, Open, Brief, Idle, teardownVars, regVars
<1> QED BY <1>1, <1>2, <1>3 DEF IInv

\* A disconnect ends: the client is closed and forgotten, or it is kept.
LEMMA DisconnectEndsSafe ==
  ASSUME IInv, Typed', NEW x \in Runtime, DisconnectEnds(x)
  PROVE  IInv'
<1>1. Registry' /\ OpenConnection' /\ HandlerConn' /\ RunningIsOpen' /\ StoppedIsClosed'
  BY NoneAssumption
   DEF DisconnectEnds, DisconnectDone, DisconnectFailed, IInv, Typed, TypeOK, TeardownTypeOK,
       Registry, OpenConnection, HandlerConn, RunningIsOpen, StoppedIsClosed, Open, rtVars
<1>2. OneOwner' /\ JobOwner' /\ TurnOwner'
  BY
   DEF DisconnectEnds, DisconnectDone, DisconnectFailed, IInv, Typed, JobShape, TypeOK,
       TeardownTypeOK, OneOwner, JobOwner, TurnOwner, Owners, Open, AtRest, Settled, Idle,
       regVars, rtVars
<1>3. TouchedFirst' /\ StartingInStart' /\ StartConn' /\ LeaseConn' /\ StopConn'
  BY
   DEF DisconnectEnds, DisconnectDone, DisconnectFailed, IInv, Typed, JobShape, TypeOK,
       TeardownTypeOK, TouchedFirst, StartingInStart, StartConn, LeaseConn, StopConn, Owners,
       Touched, Open, Brief, Idle, regVars, rtVars
<1> QED BY <1>1, <1>2, <1>3 DEF IInv

-----------------------------------------------------------------------------
(* The warm-up task.                                                       *)

\* A step that changes what the warm-up task does, and none of the fields that IInv
\* reads, keeps IInv.
LEMMA WarmupOnly ==
  ASSUME IInv, Typed',
         UNCHANGED <<teardownVars, regVars, job, state, retired, turn>>,
         \A r \in Runtime : revoked[r] => revoked'[r],
         \A r \in Runtime : revoked'[r] => revoked[r] \/ Touched(r)
  PROVE  IInv'
<1>1. Registry' /\ OpenConnection' /\ HandlerConn' /\ StoppedIsClosed'
  BY
   DEF IInv, Registry, OpenConnection, HandlerConn, StoppedIsClosed, Owners, Open, Brief,
       teardownVars, regVars
<1>2. RunningIsOpen'
  BY DEF IInv, RunningIsOpen, Open, teardownVars
<1>3. OneOwner' /\ JobOwner' /\ TurnOwner'
  BY
   DEF IInv, OneOwner, JobOwner, TurnOwner, Owners, Open, AtRest, Settled, Idle, teardownVars,
       regVars
<1>4. TouchedFirst'
  BY DEF IInv, TouchedFirst, Owners, Touched, Idle, teardownVars, regVars
<1>5. StartingInStart' /\ StartConn' /\ LeaseConn' /\ StopConn'
  BY
   DEF IInv, StartingInStart, StartConn, LeaseConn, StopConn, Touched, Open, Brief,
       teardownVars
<1> QED BY <1>1, <1>2, <1>3, <1>4, <1>5 DEF IInv

\* The warm-up task begins, ends and writes a dead session down.
LEMMA WarmupMovesSafe ==
  ASSUME IInv, Typed', NEW x \in Runtime,
         WarmupBegins(x) \/ WarmupEnds \/ WarmupMarksRevoked(x)
  PROVE  IInv'
  BY WarmupOnly DEF WarmupBegins, WarmupEnds, WarmupMarksRevoked

\* It found the session of its runtime dead.
LEMMA WarmupFindsDeadSafe ==
  ASSUME IInv, WarmupClient, Typed', NEW x \in Runtime, WarmupFindsDead(x)
  PROVE  IInv'
<1>1. Touched(x)
  BY NoneAssumption DEF WarmupFindsDead, WarmupClient
<1>2. /\ \A r \in Runtime : revoked[r] => revoked'[r]
      /\ \A r \in Runtime : revoked'[r] => revoked[r] \/ Touched(r)
  BY <1>1 DEF WarmupFindsDead, IInv, Typed, TypeOK
<1> QED BY <1>2, WarmupOnly DEF WarmupFindsDead

\* It stops its runtime, and may tell the client to disconnect.
LEMMA WarmupSetsErrorSafe ==
  ASSUME IInv, WarmupClient, Typed', NEW x \in Runtime, WarmupSetsError(x)
  PROVE  IInv'
<1>1. Touched(x) /\ revoked[x]
  BY NoneAssumption DEF WarmupSetsError, WarmupClient
<1>2. HandlerConn' /\ RunningIsOpen' /\ StoppedIsClosed'
  BY <1>1
   DEF WarmupSetsError, Disconnect, IInv, Typed, TypeOK, TeardownTypeOK, HandlerConn,
       RunningIsOpen, StoppedIsClosed, Open, Brief
<1>3. Registry'
  BY <1>1, NoneAssumption
   DEF WarmupSetsError, Disconnect, HeldBy, IInv, Typed, TypeOK, TeardownTypeOK, Registry,
       OpenConnection, Touched, Open
<1>4. OpenConnection'
  BY <1>1, NoneAssumption
   DEF WarmupSetsError, Disconnect, HeldBy, Succeeded, IInv, Typed, TypeOK, TeardownTypeOK,
       OpenConnection, OneOwner, JobOwner, Owners, Touched, Open, AtRest, regVars
<1>5. OneOwner' /\ JobOwner' /\ TurnOwner'
  BY
   DEF WarmupSetsError, Disconnect, IInv, Typed, JobShape, TypeOK, TeardownTypeOK, OneOwner,
       JobOwner, TurnOwner, Owners, Open, AtRest, Settled, Idle, regVars
<1>6. TouchedFirst' /\ StartingInStart' /\ StartConn' /\ LeaseConn' /\ StopConn'
  BY <1>1
   DEF WarmupSetsError, Disconnect, IInv, Typed, JobShape, TypeOK, TeardownTypeOK, TouchedFirst,
       StartingInStart, StartConn, LeaseConn, StopConn, Owners, Touched, Open, Brief, Idle,
       regVars
<1> QED BY <1>2, <1>3, <1>4, <1>5, <1>6 DEF IInv

\* What the warm-up task knows of its runtime stays true: the client was told to
\* connect or to disconnect, and the runtime keeps in mind that its session is dead.
Keeps(r) ==
  /\ Touched(r) => Touched(r)'
  /\ revoked[r] => revoked'[r]

\* A step that tells no client to connect or to disconnect.
LEMMA KeepsAlone ==
  ASSUME UNCHANGED teardownVars, NEW r \in Runtime, revoked[r] => revoked'[r]
  PROVE  Keeps(r)
  BY DEF Keeps, Touched, teardownVars

\* A disconnect that is begun.
LEMMA KeepsDisconnect ==
  ASSUME Typed, NEW r \in Runtime, NEW x \in Runtime, NEW retry \in BOOLEAN,
         Disconnect(x, retry) \/ UNCHANGED <<td, reg>>, conn' = conn,
         revoked[r] => revoked'[r]
  PROVE  Keeps(r)
  BY DEF Disconnect, Keeps, Touched, Typed, TypeOK, TeardownTypeOK

\* A client that connects.
LEMMA KeepsConnect ==
  ASSUME Typed, NEW r \in Runtime, NEW x \in Runtime, Connect(x), revoked' = revoked
  PROVE  Keeps(r)
  BY DEF Connect, Keeps, Touched, Typed, TypeOK, TeardownTypeOK

\* A new runtime takes the place of one that nobody holds.
LEMMA KeepsNew ==
  ASSUME Typed, NEW r \in Runtime, ~Garbage(r), NEW x \in Runtime, NEW proxy \in BOOLEAN,
         NewRuntime(x, proxy), conn' = conn
  PROVE  Keeps(r)
<1>1. r # x
  BY DEF NewRuntime
<1> QED BY <1>1 DEF NewRuntime, Keeps, Touched, Typed, TypeOK, TeardownTypeOK

\* Every step keeps it for a runtime that somebody holds.
LEMMA HeldIsKept ==
  ASSUME Typed, [Next]_vars, NEW r \in Runtime, ~Garbage(r)
  PROVE  Keeps(r)
<1>0. job.op # "none" /\ job.step # "get" => job.rt \in Runtime
  BY DEF Typed, JobShape
<1>1. CASE Begin
  <2>1. ASSUME NEW x \in Runtime, NEW proxy \in BOOLEAN, BeginCreate(x, proxy)
        PROVE  Keeps(r)
    BY <2>1, KeepsNew DEF BeginCreate
  <2> QED BY <1>1, <2>1, KeepsAlone
          DEF Begin, BeginWith, BeginCreateSaved, BeginReload, BeginShutdown, rtVars
<1>2. CASE RemoveAgent \/ BeginRemoval \/ SessionDies
  BY <1>2, KeepsAlone DEF RemoveAgent, BeginRemoval, SessionDies, rtVars
<1>3. CASE JobStep
  <2>1. ASSUME NEW x \in Runtime, NEW proxy \in BOOLEAN, Load(x, proxy)
        PROVE  Keeps(r)
    BY <2>1, KeepsNew DEF Load
  <2>2. CASE LoadFails \/ RetryDisconnected \/ RetryWaited
    BY <2>2, KeepsAlone DEF LoadFails, RetryDisconnected, RetryWaited, rtVars
  <2>3. CASE RetryPrevious
    <3>1. \/ UNCHANGED <<td, reg>>
          \/ reg \in Runtime /\ Disconnect(reg, TRUE)
      BY <2>3 DEF RetryPrevious, Typed, TypeOK, TeardownTypeOK
    <3>2. conn' = conn /\ revoked' = revoked
      BY <2>3 DEF RetryPrevious, rtVars
    <3>3. CASE UNCHANGED <<td, reg>>
      BY <3>2, <3>3, KeepsAlone DEF teardownVars
    <3>4. CASE reg \in Runtime /\ Disconnect(reg, TRUE)
      BY <3>2, <3>4, KeepsDisconnect
    <3> QED BY <3>1, <3>3, <3>4
  <2>4. CASE EnterStart \/ StartRefused \/ StartAuthorized \/ StartRuns \/ StartMarksRevoked
             \/ \E kind \in Failures : StartBreaks(kind)
    BY <2>4, KeepsAlone
       DEF EnterStart, StartRefused, StartAuthorized, StartRuns, StartMarksRevoked, StartBreaks,
           rtVars
  <2>5. CASE StartConnects
    BY <1>0, <2>5, KeepsConnect DEF StartConnects, At, rtVars
  <2>6. CASE StartAborts
    BY <1>0, <2>6, KeepsDisconnect DEF StartAborts, At, rtVars
  <2>7. CASE StartAborted
    <3>1. revoked[r] => revoked'[r]
      BY <2>7 DEF StartAborted, Typed, TypeOK
    <3> QED BY <2>7, <3>1, KeepsAlone DEF StartAborted
  <2>8. CASE EnterStop \/ StopDisconnected
    BY <2>8, KeepsAlone DEF EnterStop, StopDisconnected
  <2>9. CASE StopAgain \/ StopDisconnects
    <3>1. job.rt \in Runtime
      BY <1>0, <2>9 DEF StopAgain, StopDisconnects, Stopping
    <3>2. UNCHANGED <<td, reg>> \/ Disconnect(job.rt, TRUE)
      BY <2>9 DEF StopAgain, StopDisconnects
    <3>3. conn' = conn /\ revoked' = revoked
      BY <2>9 DEF StopAgain, StopDisconnects, rtVars
    <3> QED BY <3>1, <3>2, <3>3, KeepsDisconnect
  <2>10. CASE ClosedForReload \/ ClosedForGood \/ CloseRaises
    BY <2>10, KeepsAlone DEF ClosedForReload, ClosedForGood, CloseRaises, rtVars
  <2>11. ASSUME NEW x \in Runtime, FallBack(x)
         PROVE  Keeps(r)
    <3>1. conn' = conn /\ reg' = reg
      BY <2>11 DEF FallBack
    <3>2. CASE NewRuntime(x, FALSE)
      BY <3>1, <3>2, KeepsNew
    <3>3. CASE UNCHANGED <<td, rtVars>>
      BY <3>1, <3>3, KeepsAlone DEF rtVars, teardownVars
    <3> QED BY <2>11, <3>2, <3>3 DEF FallBack
  <2>12. CASE Lease
    <3>1. job.rt \in Runtime /\ revoked' = revoked
      BY <1>0, <2>12 DEF Lease, At, rtVars
    <3>2. UNCHANGED teardownVars \/ Connect(job.rt)
      BY <2>12 DEF Lease
    <3> QED BY <3>1, <3>2, KeepsAlone, KeepsConnect
  <2>13. CASE LeaseDisconnected \/ \E kind \in {"stopped", "other", "dead"} : LeaseUsed(kind)
    BY <2>13, KeepsAlone DEF LeaseDisconnected, LeaseUsed, rtVars
  <2>14. CASE LeaseDisconnects
    BY <1>0, <2>14, KeepsDisconnect DEF LeaseDisconnects, At, rtVars
  <2>15. CASE LeaseMarksRevoked
    <3>1. revoked[r] => revoked'[r]
      BY <2>15 DEF LeaseMarksRevoked, Typed, TypeOK
    <3> QED BY <2>15, <3>1, KeepsAlone DEF LeaseMarksRevoked
  <2>16. CASE ApplyRebind \/ ApplyFails \/ \E written \in BOOLEAN : Save(written)
    BY <2>16, KeepsAlone DEF ApplyRebind, ApplyFails, Save, rtVars
  <2> QED BY <1>3, <2>1, <2>2, <2>3, <2>4, <2>5, <2>6, <2>7, <2>8, <2>9, <2>10, <2>11,
             <2>12, <2>13, <2>14, <2>15, <2>16 DEF JobStep
<1>4. ASSUME NEW x \in Runtime, TurnStep(x)
      PROVE  Keeps(r)
  <2>1. CASE TurnFindsDead(x)
    <3>1. revoked[r] => revoked'[r]
      BY <2>1 DEF TurnFindsDead, Typed, TypeOK
    <3> QED BY <2>1, <3>1, KeepsAlone DEF TurnFindsDead
  <2>2. CASE TurnEnds(x)
    BY <2>2, KeepsDisconnect DEF TurnEnds
  <2>3. CASE TurnBegins(x) \/ TurnMarksRevoked(x) \/ TurnSetsError(x) \/ TurnLeaves(x)
    BY <2>3, KeepsAlone DEF TurnBegins, TurnMarksRevoked, TurnSetsError, TurnLeaves
  <2> QED BY <1>4, <2>1, <2>2, <2>3 DEF TurnStep
<1>5. ASSUME NEW x \in Runtime, DisconnectEnds(x)
      PROVE  Keeps(r)
  BY <1>5 DEF DisconnectEnds, DisconnectDone, DisconnectFailed, Keeps, Touched, Typed, TypeOK,
     TeardownTypeOK, rtVars
<1>6. CASE WarmupStep
  <2>1. CASE WarmupEnds \/ \E x \in Runtime : WarmupBegins(x) \/ WarmupMarksRevoked(x)
    BY <2>1, KeepsAlone DEF WarmupEnds, WarmupBegins, WarmupMarksRevoked
  <2>2. ASSUME NEW x \in Runtime, WarmupFindsDead(x)
        PROVE  Keeps(r)
    <3>1. revoked[r] => revoked'[r]
      BY <2>2 DEF WarmupFindsDead, Typed, TypeOK
    <3> QED BY <2>2, <3>1, KeepsAlone DEF WarmupFindsDead
  <2>3. ASSUME NEW x \in Runtime, WarmupSetsError(x)
        PROVE  Keeps(r)
    BY <2>3, KeepsDisconnect DEF WarmupSetsError
  <2> QED BY <1>6, <2>1, <2>2, <2>3 DEF WarmupStep
<1>7. CASE UNCHANGED vars
  BY <1>7, KeepsAlone DEF vars, teardownVars
<1> QED BY <1>1, <1>2, <1>3, <1>4, <1>5, <1>6, <1>7 DEF Next

\* Every step keeps what the warm-up task knows.
LEMMA WarmupClientKept ==
  ASSUME IInv, WarmupClient, [Next]_vars
  PROVE  WarmupClient'
<1>1. ASSUME warmup.rt # None
      PROVE  warmup.rt \in Runtime /\ Keeps(warmup.rt)
  <2>1. warmup.rt \in Runtime
    BY <1>1 DEF IInv, Typed, TypeOK, Work
  <2>2. ~Garbage(warmup.rt)
    BY DEF Garbage
  <2> QED BY <2>1, <2>2, HeldIsKept DEF IInv
<1>2. CASE warmup' = warmup
  <2>1. CASE warmup.rt = None
    BY <1>2, <2>1 DEF WarmupClient
  <2>2. CASE warmup.rt # None
    BY <1>1, <1>2, <2>2 DEF WarmupClient, Keeps, Touched
  <2> QED BY <2>1, <2>2
<1>3. CASE warmup' = NoWork
  BY <1>3, NoWorkIsWork DEF WarmupClient
<1>4. ASSUME NEW x \in Runtime, WarmupBegins(x)
      PROVE  WarmupClient'
  <2>1. Touched(x)
    BY <1>4 DEF WarmupBegins, IInv, TurnOwner, TouchedFirst
  <2>2. Touched(x)'
    BY <1>4, <2>1 DEF WarmupBegins, Touched, teardownVars
  <2>3. warmup'.at = "busy" /\ warmup'.rt = x
    BY <1>4 DEF WarmupBegins
  <2> QED BY <2>2, <2>3, NoneAssumption DEF WarmupClient, Touched
<1>5. ASSUME NEW x \in Runtime, WarmupFindsDead(x) \/ WarmupMarksRevoked(x)
      PROVE  WarmupClient'
  <2>1. warmup.rt = x /\ warmup'.rt = x /\ warmup'.at \in {"marking", "marked"}
    BY <1>5 DEF WarmupFindsDead, WarmupMarksRevoked
  <2>2. revoked'[x]
    BY <1>5 DEF WarmupFindsDead, WarmupMarksRevoked, WarmupClient, IInv, Typed, TypeOK
  <2>3. Touched(x)'
    BY <1>1, <2>1, NoneAssumption DEF WarmupClient, Keeps
  <2> QED BY <2>1, <2>2, <2>3, NoneAssumption DEF WarmupClient, Touched
<1>6. \/ warmup' = warmup
      \/ warmup' = NoWork
      \/ \E x \in Runtime : \/ WarmupBegins(x) \/ WarmupFindsDead(x)
                            \/ WarmupMarksRevoked(x)
  <2>1. CASE Begin
    BY <2>1 DEF Begin, BeginWith, BeginCreateSaved, BeginCreate, BeginReload, BeginShutdown,
       NewRuntime, rtVars
  <2>2. CASE RemoveAgent \/ BeginRemoval \/ SessionDies \/ UNCHANGED vars
    BY <2>2 DEF RemoveAgent, BeginRemoval, SessionDies, rtVars, vars
  <2>3. CASE JobStep
    BY <2>3 DEF JobStep, Load, LoadFails, RetryPrevious, RetryDisconnected, RetryWaited,
       EnterStart, StartConnects, StartRefused, StartAuthorized, StartRuns, StartBreaks,
       StartAborts, StartAborted, StartMarksRevoked, EnterStop, StopAgain, StopDisconnects,
       StopDisconnected, ClosedForReload, ClosedForGood, CloseRaises, FallBack, Lease,
       LeaseDisconnects, LeaseDisconnected, LeaseMarksRevoked, LeaseUsed, Save, ApplyRebind,
       ApplyFails, rtVars
  <2>4. CASE \E x \in Runtime : TurnStep(x) \/ DisconnectEnds(x)
    BY <2>4 DEF TurnStep, TurnBegins, TurnFindsDead, TurnMarksRevoked, TurnSetsError, TurnEnds,
       TurnLeaves, DisconnectEnds, rtVars
  <2>5. CASE WarmupStep
    BY <2>5 DEF WarmupStep, WarmupEnds, WarmupSetsError
  <2> QED BY <2>1, <2>2, <2>3, <2>4, <2>5 DEF Next
<1> QED BY <1>2, <1>3, <1>4, <1>5, <1>6
=============================================================================
