-------------------------- MODULE IncomingPipeline --------------------------
(***************************************************************************)
(* The way of an incoming message of one chat to the model: the dispatch   *)
(* lock, the check of the send window, the buffer of deferred messages     *)
(* (core/deferred_inbox.py), and the turn (_dispatch_incoming, _gate_and_  *)
(* process, _flush_deferred, _process_batch, _trigger_while_running in     *)
(* core/agent_runtime.py), while the runtime is stopped and started.       *)
(*                                                                         *)
(* A message is a single message or an album.  Tasks wait for the lock in  *)
(* a queue, for asyncio.Lock is first in, first out; the task at its head  *)
(* holds the lock and `at` is its place.  A second chat would only bring   *)
(* more tasks into the same queue.  Time is relative: a Tick makes what is *)
(* buffered older and sleeps shorter, and a task may wake up late.         *)
(***************************************************************************)
EXTENDS Integers, FiniteSets, SequencesExt

CONSTANTS
  Msg,          \* identities of messages, used again when one is settled
  MaxGroups,    \* MAX_GROUPS
  MaxAge,       \* MAX_AGE in ticks
  DeferLimit    \* DEFER_LIMIT_SECONDS in ticks

ASSUME PipelineAssumption ==
  /\ MaxGroups \in Nat \ {0}
  /\ MaxAge \in Nat \ {0}
  /\ DeferLimit \in Nat \ {0}

VARIABLES
  life,         \* the runtime's state and how far its stop has come
  groups,       \* _groups[peer], oldest first
  sleeping,     \* what the task in _tasks[peer] has left to sleep
  registered,   \* peer \in _tasks
  queue,        \* the tasks at _dispatch_lock, its holder first
  at,           \* where the holder is
  otherTurn,    \* a turn that came another way holds _trigger_lock
  announced,    \* _announced[peer] of the send window
  waited        \* how long ago a message was first deferred; read by nothing

inboxVars == <<groups, sleeping, registered>>
lockVars == <<queue, at>>
vars == <<life, groups, sleeping, registered, queue, at, otherTurn, announced, waited>>

Life == {"stopped", "starting", "running", "stopping", "closing", "closed"}
Places == {"idle", "admit", "window", "prepare", "trigger", "turn"}
Reason == {"open", "slowmode", "restricted"}
Age == 0..MaxAge + 1         \* MaxAge + 1: too old
Delay == 0..DeferLimit + 1   \* DeferLimit + 1: longer than the limit, or forever
NoTask == -1

Entry == [msg : Msg, age : Age]
Task == [kind : {"msg", "flush"}, batch : Seq(Entry)]

TypeOK ==
  /\ life \in Life
  /\ groups \in Seq(Entry)
  /\ sleeping \in Delay \cup {NoTask}
  /\ registered \in BOOLEAN
  /\ queue \in Seq(Task)
  /\ at \in Places
  /\ at = "idle" <=> queue = <<>>
  /\ otherTurn \in BOOLEAN
  /\ announced \in Reason \cup {"none"}
  /\ waited \in [Msg -> Age]

Init ==
  /\ life = "stopped"
  /\ groups = <<>>
  /\ sleeping = NoTask
  /\ registered = FALSE
  /\ queue = <<>>
  /\ at = "idle"
  /\ otherTurn = FALSE
  /\ announced = "none"
  /\ waited = [m \in Msg |-> 0]

MsgsOf(batch) == {batch[i].msg : i \in DOMAIN batch}
Flushing == UNION {MsgsOf(queue[i].batch) :
                     i \in {j \in DOMAIN queue : queue[j].kind = "flush"}}
Deferred == MsgsOf(groups) \cup Flushing
Live == Deferred \cup UNION {MsgsOf(queue[i].batch) : i \in DOMAIN queue}

-----------------------------------------------------------------------------
(* _dispatch_lock and _lifecycle_lock.                                     *)

Enqueue(task) ==
  /\ queue' = Append(queue, task)
  /\ at' = IF queue = <<>> THEN "admit" ELSE at

Unlock ==
  /\ queue' = Tail(queue)
  /\ at' = IF Len(queue) = 1 THEN "idle" ELSE "admit"

Holds(place) == queue # <<>> /\ at = place
GoesTo(place) == at' = place /\ queue' = queue

\* A single message or a whole album came through the filters.
Arrive(m) ==
  /\ life # "stopped"
  /\ m \notin Live
  /\ Enqueue([kind |-> "msg", batch |-> <<[msg |-> m, age |-> 0]>>])
  /\ UNCHANGED <<life, inboxVars, otherTurn, announced, waited>>

\* _running_once_started: during a start the task waits for its outcome.
Admit ==
  /\ Holds("admit")
  /\ life # "starting"
  /\ IF life = "running" THEN GoesTo("window") ELSE Unlock
  /\ UNCHANGED <<life, inboxVars, otherTurn, announced, waited>>

-----------------------------------------------------------------------------
(* DeferredInbox.                                                          *)

Newest(s) == IF Len(s) > MaxGroups
               THEN SubSeq(s, Len(s) - MaxGroups + 1, Len(s)) ELSE s

\* Mutant of Insert: a returned group is appended, whatever its age.
Insert_Unsorted(s, e) == Newest(Append(s, e))

\* The entries of s that are at least as old as `age`: the first ones, for a
\* buffer is ordered by age.
AtLeast(s, age) == Cardinality({i \in DOMAIN s : s[i].age >= age})

\* add() of one group: the sort puts it behind those that are as old, and the oldest
\* ones leave.
Insert(s, e) ==
  LET k == AtLeast(s, e.age)
  IN Newest(SubSeq(s, 1, k) \o <<e>> \o SubSeq(s, k + 1, Len(s)))

\* Mutant of AddAll: a group that comes back is as good as new.
AddAll_Renewed(batch, delay) ==
  /\ groups' = FoldLeft(LAMBDA s, e : Insert(s, [e EXCEPT !.age = 0]), groups, batch)
  /\ registered' = TRUE
  /\ sleeping' = IF registered THEN sleeping ELSE delay

\* The first group of the chat schedules the flush, later ones do not move it.
AddAll(batch, delay) ==
  /\ groups' = FoldLeft(Insert, groups, batch)
  /\ registered' = TRUE
  /\ sleeping' = IF registered THEN sleeping ELSE delay

\* What _flush_after keeps of the groups: the stale ones are the first.
Fresh(s) == SubSeq(s, AtLeast(s, MaxAge + 1) + 1, Len(s))

\* Mutant of FlushAfter: the task that wakes up stays in _tasks.
FlushAfter_StaysRegistered ==
  /\ sleeping = 0
  /\ groups' = <<>>
  /\ sleeping' = NoTask
  /\ registered' = registered
  /\ LET fresh == Fresh(groups) IN
       IF fresh = <<>> THEN UNCHANGED lockVars
       ELSE Enqueue([kind |-> "flush", batch |-> fresh])
  /\ UNCHANGED <<life, otherTurn, announced, waited>>

\* Mutant of FlushAfter: the groups are read, but left in the buffer.
FlushAfter_KeepsGroups ==
  /\ sleeping = 0
  /\ groups' = groups
  /\ sleeping' = NoTask
  /\ registered' = FALSE
  /\ LET fresh == Fresh(groups) IN
       IF fresh = <<>> THEN UNCHANGED lockVars
       ELSE Enqueue([kind |-> "flush", batch |-> fresh])
  /\ UNCHANGED <<life, otherTurn, announced, waited>>

\* _flush_after: takes all groups, forgets the stale ones and goes to the lock.
FlushAfter ==
  /\ sleeping = 0
  /\ groups' = <<>>
  /\ sleeping' = NoTask
  /\ registered' = FALSE
  /\ LET fresh == Fresh(groups) IN
       IF fresh = <<>> THEN UNCHANGED lockVars
       ELSE Enqueue([kind |-> "flush", batch |-> fresh])
  /\ UNCHANGED <<life, otherTurn, announced, waited>>

-----------------------------------------------------------------------------
(* The holder of the dispatch lock: the send window, then the turn.        *)

WindowOpen ==
  /\ Holds("window")
  /\ announced' = IF queue[1].kind = "msg" THEN "open" ELSE announced
  /\ GoesTo("prepare")
  /\ UNCHANGED <<life, inboxVars, otherTurn, waited>>

\* The window opens soon: wait for it in the buffer.  A message is put there for
\* the first time, so no two are of one age; a flushed batch comes back.
DeferUntilOpen(reason, delay) ==
  /\ Holds("window")
  /\ delay <= DeferLimit
  /\ AddAll(queue[1].batch, delay)
  /\ IF queue[1].kind = "msg"
       THEN LET m == queue[1].batch[1].msg IN
              /\ \A n \in Deferred : waited[n] # 0
              /\ announced' = reason
              /\ waited' = [waited EXCEPT ![m] = 0]
       ELSE UNCHANGED <<announced, waited>>
  /\ Unlock
  /\ UNCHANGED <<life, otherTurn>>

\* Closed for long: the messages are dropped, and the first time the agent is
\* told so in a turn of its own.
ClosedForLong(reason) ==
  /\ Holds("window")
  /\ IF queue[1].kind = "msg" /\ announced # reason
       THEN /\ announced' = reason
            /\ at' = "trigger"
            /\ queue' = [queue EXCEPT ![1].batch = <<>>]
       ELSE Unlock /\ UNCHANGED announced
  /\ UNCHANGED <<life, inboxVars, otherTurn, waited>>

\* _process_batch formats the groups; what fails there is recorded and dropped.
Prepare ==
  /\ Holds("prepare")
  /\ GoesTo("trigger") \/ Unlock
  /\ UNCHANGED <<life, inboxVars, otherTurn, announced, waited>>

\* _trigger_while_running gets the trigger lock.
TakeTurn ==
  /\ Holds("trigger")
  /\ ~otherTurn
  /\ life # "starting"
  /\ IF life = "running" THEN GoesTo("turn") ELSE Unlock
  /\ UNCHANGED <<life, inboxVars, otherTurn, announced, waited>>

\* Mutant of TurnEnds: a turn that failed is tried again.
TurnEnds_Retried ==
  /\ Holds("turn")
  /\ GoesTo("trigger") \/ Unlock
  /\ UNCHANGED <<life, inboxVars, otherTurn, announced, waited>>

TurnEnds ==
  /\ Holds("turn")
  /\ Unlock
  /\ UNCHANGED <<life, inboxVars, otherTurn, announced, waited>>

\* A turn for the dashboard or a timer.
OtherTurn ==
  /\ IF otherTurn THEN otherTurn' = FALSE
     ELSE at # "turn" /\ life = "running" /\ otherTurn' = TRUE
  /\ UNCHANGED <<life, inboxVars, lockVars, announced, waited>>

-----------------------------------------------------------------------------
(* stop() and start().                                                     *)

\* The start is over, with a running runtime or with _stop_resources.
Start ==
  /\ \/ life = "stopped" /\ life' = "starting"
     \/ life = "starting" /\ life' \in {"running", "stopping"}
  /\ UNCHANGED <<inboxVars, lockVars, otherTurn, announced, waited>>

Stop ==
  /\ life = "running"
  /\ life' = "stopping"
  /\ UNCHANGED <<inboxVars, lockVars, otherTurn, announced, waited>>

\* DeferredInbox.close() cancels the sleeping task and awaits it.
InboxCancels ==
  /\ life = "stopping"
  /\ registered
  /\ life' = "closing"
  /\ registered' = FALSE
  /\ sleeping' = NoTask
  /\ UNCHANGED <<groups, lockVars, otherTurn, announced, waited>>

\* close() drops what is buffered.  A task that an add() of meanwhile started
\* stays, and finds no deadline when it runs its first step after this.
InboxCloses ==
  /\ life = "closing" \/ (life = "stopping" /\ ~registered)
  /\ life' = "closed"
  /\ groups' = <<>>
  /\ sleeping' \in IF registered THEN {0, sleeping} ELSE {NoTask}
  /\ UNCHANGED <<registered, lockVars, otherTurn, announced, waited>>

\* Mutant of HandlerCancelled: a holder that is cancelled leaves the lock as it is.
HandlerCancelled_KeepsLock(i) ==
  /\ life = "closed"
  /\ i \in DOMAIN queue
  /\ queue[i].kind = "msg"
  /\ queue' = RemoveAt(queue, i)
  /\ UNCHANGED <<life, inboxVars, at, otherTurn, announced, waited>>

\* The disconnect cancels Telethon's handlers that have not ended; the flush of
\* an album or of the buffer is no such handler.
HandlerCancelled(i) ==
  /\ life = "closed"
  /\ i \in DOMAIN queue
  /\ queue[i].kind = "msg"
  /\ IF i = 1 THEN Unlock ELSE queue' = RemoveAt(queue, i) /\ UNCHANGED at
  /\ UNCHANGED <<life, inboxVars, otherTurn, announced, waited>>

StopEnds ==
  /\ life = "closed"
  /\ life' = "stopped"
  /\ UNCHANGED <<inboxVars, lockVars, otherTurn, announced, waited>>

-----------------------------------------------------------------------------

Older(a) == IF a > MaxAge THEN a ELSE a + 1
Aged(batch) == [i \in DOMAIN batch |-> [batch[i] EXCEPT !.age = Older(@)]]

Tick ==
  /\ groups' = Aged(groups)
  /\ queue' = [i \in DOMAIN queue |->
                 IF queue[i].kind = "flush"
                   THEN [queue[i] EXCEPT !.batch = Aged(@)] ELSE queue[i]]
  /\ sleeping' = IF sleeping > 0 THEN sleeping - 1 ELSE sleeping
  /\ waited' = [m \in Msg |-> IF m \in Deferred THEN Older(waited[m]) ELSE 0]
  /\ UNCHANGED <<life, registered, at, otherTurn, announced>>

HolderStep ==
  \/ Admit \/ WindowOpen \/ Prepare \/ TurnEnds
  \/ \E reason \in Reason \ {"open"}, delay \in 1..DeferLimit :
       DeferUntilOpen(reason, delay)
  \/ \E reason \in Reason \ {"open"} : ClosedForLong(reason)

Next ==
  \/ \E m \in Msg : Arrive(m)
  \/ HolderStep \/ TakeTurn \/ FlushAfter \/ OtherTurn
  \/ Start \/ Stop \/ InboxCancels \/ InboxCloses \/ StopEnds
  \/ \E i \in 1..2 * Cardinality(Msg) : HandlerCancelled(i)
  \/ Tick

Spec == Init /\ [][Next]_vars

\* Every await ends (requests have timeouts, a start and a turn end), asyncio
\* runs ready tasks, time passes, and the locks that Admit and TakeTurn wait for
\* (_lifecycle_lock, _trigger_lock) are first in, first out.
FairSpec ==
  /\ Spec
  /\ WF_vars(HolderStep) /\ SF_vars(Admit) /\ SF_vars(TakeTurn)
  /\ WF_vars(FlushAfter)
  /\ WF_vars(otherTurn /\ OtherTurn)
  /\ WF_vars(life = "starting" /\ Start) /\ WF_vars(InboxCloses)
  /\ WF_vars(Tick)

-----------------------------------------------------------------------------
(* Properties.                                                             *)

\* The buffer, and the batches of the tasks at the lock.
Batch(k) == IF k = 0 THEN groups ELSE queue[k].batch

\* A message is in one place: it is never answered twice, whatever is flushed,
\* put back and stopped in between.
InOnePlace ==
  \A k, l \in 0..Len(queue) :
    \A i \in DOMAIN Batch(k), j \in DOMAIN Batch(l) :
      Batch(k)[i].msg = Batch(l)[j].msg => k = l /\ i = j

\* What is buffered has a task that is going to flush it, unless it is being
\* thrown away: no message is forgotten in the buffer.
NothingStuck ==
  groups # <<>> /\ life # "closing" => sleeping # NoTask

\* A turn gets its messages in the order in which they came.
BatchInOrder ==
  queue # <<>> /\ at = "turn" =>
    \A i, j \in DOMAIN queue[1].batch :
      i < j => waited[queue[1].batch[i].msg] >= waited[queue[1].batch[j].msg]

\* The buffer never gives up a message for an older one, even when a flush that
\* had waited behind a turn puts its messages back.
NewestAreKept ==
  [][groups' # groups =>
       \A m \in Deferred \ Deferred', n \in MsgsOf(groups') : waited'[m] >= waited'[n]]_vars

\* What a flush takes to the lock was first deferred at most MAX_AGE ago, however
\* often the window closed again and the messages went back.
FlushIsFresh == [][\A m \in Flushing' \ Flushing : waited[m] <= MaxAge]_vars

\* "The agent must not answer what became stale while it was silent."
AnswersAreFresh ==
  [][at' = "turn" /\ at # "turn" =>
       \A m \in MsgsOf(queue[1].batch) \cap Deferred : waited[m] <= MaxAge]_vars

\* Every deferred message is settled (answered, or dropped for a reason that is
\* logged), even if the window never opens again.
DeferredIsSettled == \A m \in Msg : m \in Deferred ~> m \notin Deferred

-----------------------------------------------------------------------------
(* The pipeline as a ChatInbox.                                            *)

\* The messages of the tasks at the lock; those of the turn under way, and the rest.
Queued == UNION {MsgsOf(queue[i].batch) : i \in DOMAIN queue}
Answering == IF at = "turn" THEN MsgsOf(queue[1].batch) ELSE {}
Received == Queued \ Answering

Inbox == INSTANCE ChatInbox WITH
  Limit <- MaxGroups,
  received <- Received,
  deferred <- MsgsOf(groups),
  inTurn <- at = "turn",
  answering <- Answering,
  running <- life = "running"

\* The pipeline implements ChatInbox: tasks, locks, stops and the buffer hand a message
\* on to one turn at most, what was in a turn, however it ended, comes back nowhere, and
\* no turn begins unless the agent runs: its answer would revive a stopped agent.
AnsweredOnce == Inbox!Spec
=============================================================================

