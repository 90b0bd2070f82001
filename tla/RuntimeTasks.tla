---------------------------- MODULE RuntimeTasks ----------------------------
(***************************************************************************)
(* What a runtime does besides answering (core/agent_runtime.py): the      *)
(* timers its scheduler loop takes from the database, the albums it puts   *)
(* together (AlbumGrouper in core/album_grouper.py) and the first comments *)
(* under the posts of a channel, over its starts, its stops and a crash.   *)
(*                                                                         *)
(* Timers and posts meet in the turn lock and in the life of the runtime.  *)
(* An update is handled by a task of Telethon's that ends with the         *)
(* connection; loops and flushes are tasks of the runtime's own.           *)
(***************************************************************************)
EXTENDS Naturals, FiniteSets

CONSTANTS
  Timer,
  Loop,        \* the tasks of _run_scheduler_loop, one for each start
  Element,     \* the posts of one album of a channel, an update each
  Flush,       \* the tasks of _flush_after
  None

ASSUME TasksAssumption ==
  /\ None \notin Timer \cup Loop \cup Flush
  /\ Loop \cap Flush = {}
  /\ IsFiniteSet(Loop) /\ IsFiniteSet(Element)

VARIABLES
  state,       \* AgentRuntimeState, with how far a stop has come
  generation,  \* _stop_generation
  scheduler,   \* _scheduler_task
  loop,
  row,         \* status of a timer in agent_timers; "due" is pending and due
  fired,       \* how many turns a timer has had
  lock,        \* _trigger_lock
  update,      \* the handlers of an update, and where its element is
  claimed,     \* _album_comment_guard has the album
  comments,    \* first comments under the album, by this runtime
  flush,
  items,       \* what a flush has taken
  buffer,      \* _events[key], the elements in one order or another
  quiet,       \* the deadline of the buffer has passed
  registered   \* _tasks[key]

vars == <<state, generation, scheduler, loop, row, fired, lock, update, claimed, comments,
          flush, items, buffer, quiet, registered>>
life == <<state, generation, scheduler>>
timers == <<loop, row, fired>>
posts == <<update, claimed, comments>>
album == <<flush, items, buffer, quiet, registered>>

Status == {"pending", "due", "running", "succeeded", "failed"}

TypeOK ==
  /\ state \in {"stopped", "running", "stopping", "closing", "closed"}
  /\ generation \in 0..Cardinality(Loop)
  /\ scheduler \in Loop \cup {None}
  /\ loop \in [Loop -> [at : {"none", "top", "select", "commit", "next", "check", "lock",
                             "turn", "settle", "sleep", "ended"},
                        batch : SUBSET Timer, timer : Timer \cup {None},
                        admitted : 0..Cardinality(Loop), outcome : Status,
                        cancelled : BOOLEAN]]
  /\ row \in [Timer -> Status]
  /\ fired \in [Timer -> 0..2]
  /\ lock \in Loop \cup Flush \cup {None}
  /\ update \in [Element -> {"new", "handler", "comment", "commented", "incoming", "buffered",
                            "turn", "done"}]
  /\ claimed \in BOOLEAN
  /\ comments \in 0..Cardinality(Element)
  /\ flush \in [Flush -> {"none", "waiting", "cancelled", "flushing", "turn"}]
  /\ items \in [Flush -> SUBSET Element]
  /\ buffer \subseteq Element
  /\ quiet \in BOOLEAN
  /\ registered \in Flush \cup {None}

Fresh == [at |-> "none", batch |-> {}, timer |-> None, admitted |-> 0, outcome |-> "failed",
          cancelled |-> FALSE]

\* A timer may have failed, an element may have been answered long ago.
Init ==
  /\ state = "stopped" /\ generation = 0 /\ scheduler = None
  /\ loop = [l \in Loop |-> Fresh]
  /\ row \in [Timer -> {"pending", "failed"}] /\ fired = [m \in Timer |-> 0]
  /\ lock = None
  /\ update \in [Element -> {"new", "done"}]
  /\ claimed = FALSE /\ comments = 0
  /\ flush = [f \in Flush |-> "none"] /\ items = [f \in Flush |-> {}]
  /\ buffer = {} /\ quiet = FALSE /\ registered = None

-----------------------------------------------------------------------------
(* The life of the runtime.                                                *)

\* Mutant of Start: the new loop is not noted down as the scheduler.
Start_NotNoted(l) ==
  /\ state = "stopped"
  /\ loop[l].at = "none"
  /\ state' = "running"
  /\ loop' = [loop EXCEPT ![l].at = "top"]
  /\ UNCHANGED <<generation, scheduler, row, fired, lock, posts, album>>

Start(l) ==
  /\ state = "stopped"
  /\ loop[l].at = "none"
  /\ state' = "running" /\ scheduler' = l
  /\ loop' = [loop EXCEPT ![l].at = "top"]
  /\ UNCHANGED <<generation, row, fired, lock, posts, album>>

\* Mutant of StopBegins: a stop is counted at its start and at its end.
StopBegins_CountedTwice ==
  /\ state = "running"
  /\ state' = "stopping" /\ generation' = generation + 2
  /\ loop' = [loop EXCEPT ![scheduler].cancelled = loop[scheduler].at # "ended"]
  /\ UNCHANGED <<scheduler, row, fired, lock, posts, album>>

StopBegins ==
  /\ state = "running"
  /\ state' = "stopping" /\ generation' = generation + 1
  /\ loop' = [loop EXCEPT ![scheduler].cancelled = loop[scheduler].at # "ended"]
  /\ UNCHANGED <<scheduler, row, fired, lock, posts, album>>

\* The loop has ended, or the stop does not wait for it any longer.  close() of
\* the albums cancels the flushes that wait ...
SchedulerLeft ==
  /\ state = "stopping"
  /\ state' = "closing" /\ scheduler' = None
  /\ flush' = [f \in Flush |-> IF f = registered THEN "cancelled" ELSE flush[f]]
  /\ registered' = None
  /\ UNCHANGED <<generation, timers, lock, posts, items, buffer, quiet>>

\* Mutant of AlbumsClosed: the buffer outlives its flush.
AlbumsClosed_KeepsBuffer ==
  /\ state = "closing"
  /\ \A f \in Flush : flush[f] # "cancelled"
  /\ state' = "closed"
  /\ UNCHANGED <<generation, scheduler, timers, lock, posts, album>>

\* ... waits for them to end, and forgets what they were to flush.
AlbumsClosed ==
  /\ state = "closing"
  /\ \A f \in Flush : flush[f] # "cancelled"
  /\ state' = "closed"
  /\ buffer' = {} /\ quiet' = FALSE
  /\ update' = [u \in Element |-> IF u \in buffer THEN "done" ELSE update[u]]
  /\ UNCHANGED <<generation, scheduler, timers, lock, claimed, comments, flush, items, registered>>

Handled == {"handler", "comment", "commented", "incoming"}

\* Telethon cancels the handlers of its updates.
Disconnected ==
  /\ state = "closed"
  /\ state' = "stopped"
  /\ update' = [u \in Element |-> IF update[u] \in Handled THEN "done" ELSE update[u]]
  /\ UNCHANGED <<generation, scheduler, timers, lock, claimed, comments, album>>

\* The process dies: the rows are what is left, and the next start has a new runtime.
Crash ==
  /\ state # "stopped"
  /\ state' = "stopped" /\ scheduler' = None
  /\ loop' = [l \in Loop |-> IF loop[l].at = "none" THEN Fresh ELSE [Fresh EXCEPT !.at = "ended"]]
  /\ lock' = None
  /\ update' = [u \in Element |-> IF update[u] = "new" THEN "new" ELSE "done"]
  /\ claimed' = FALSE /\ comments' = 0
  /\ flush' = [f \in Flush |-> "none"] /\ items' = [f \in Flush |-> {}] /\ buffer' = {} /\ quiet' = FALSE /\ registered' = None
  /\ UNCHANGED <<generation, row, fired>>

-----------------------------------------------------------------------------
(* Timers.                                                                 *)

\* A cancelled task goes on only to its cancellation.
At(l, at) == loop[l].at = at /\ ~loop[l].cancelled
Goes(l, at) == loop' = [loop EXCEPT ![l].at = at]

TimerDue(m) ==
  /\ row[m] = "pending"
  /\ row' = [row EXCEPT ![m] = "due"]
  /\ UNCHANGED <<life, loop, fired, lock, posts, album>>

\* Mutant of LoopTop: a loop does not ask whether it is still the scheduler.
LoopTop_AnyLoop(l) ==
  /\ At(l, "top")
  /\ Goes(l, IF state = "running" THEN "select" ELSE "ended")
  /\ UNCHANGED <<life, row, fired, lock, posts, album>>

LoopTop(l) ==
  /\ At(l, "top")
  /\ Goes(l, IF state = "running" /\ scheduler = l THEN "select" ELSE "ended")
  /\ UNCHANGED <<life, row, fired, lock, posts, album>>

SelectDue(l) ==
  /\ At(l, "select")
  /\ LET due == {m \in Timer : row[m] = "due"}
     IN loop' = [loop EXCEPT ![l].at = IF due = {} THEN "sleep" ELSE "commit", ![l].batch = due]
  /\ UNCHANGED <<life, row, fired, lock, posts, album>>

CommitRunning(l) ==
  /\ At(l, "commit")
  /\ row' = [m \in Timer |-> IF m \in loop[l].batch THEN "running" ELSE row[m]]
  /\ Goes(l, "next")
  /\ UNCHANGED <<life, fired, lock, posts, album>>

NextTimer(l) ==
  /\ At(l, "next")
  /\ IF loop[l].batch = {} THEN Goes(l, "sleep")
     ELSE \E m \in loop[l].batch :
            loop' = [loop EXCEPT ![l].at = "check", ![l].timer = m,
                                 ![l].batch = loop[l].batch \ {m}]
  /\ UNCHANGED <<life, row, fired, lock, posts, album>>

\* _ensure_peer_allowed; the turn is admitted in the life of this moment.
PeerChecked(l) ==
  /\ At(l, "check")
  /\ \/ loop' = [loop EXCEPT ![l].at = "lock", ![l].admitted = generation]
     \/ loop' = [loop EXCEPT ![l].at = "settle", ![l].outcome = "failed"]
  /\ UNCHANGED <<life, row, fired, lock, posts, album>>

TurnAdmitted(l) ==
  /\ At(l, "lock")
  /\ lock = None
  /\ IF state = "running" /\ loop[l].admitted = generation
     THEN /\ Goes(l, "turn")
          /\ lock' = l
          /\ fired' = [fired EXCEPT ![loop[l].timer] = @ + 1]
     ELSE /\ loop' = [loop EXCEPT ![l].at = "settle", ![l].outcome = "failed"]
          /\ UNCHANGED <<lock, fired>>
  /\ UNCHANGED <<life, row, posts, album>>

TurnEnds(l) ==
  /\ At(l, "turn")
  /\ lock' = None
  /\ \E outcome \in {"succeeded", "failed"} :
       loop' = [loop EXCEPT ![l].at = "settle", ![l].outcome = outcome]
  /\ UNCHANGED <<life, row, fired, posts, album>>

\* A cancellation that comes while a failed turn is being recorded is taken for
\* a note on the failure (_take_turn_inner): the loop lives on.
CancelSwallowed(l) ==
  /\ loop[l].at = "turn" /\ loop[l].cancelled
  /\ lock' = None
  /\ loop' = [loop EXCEPT ![l].at = "settle", ![l].outcome = "failed", ![l].cancelled = FALSE]
  /\ UNCHANGED <<life, row, fired, posts, album>>

RowWritten(l) ==
  /\ At(l, "settle")
  /\ row' = [row EXCEPT ![loop[l].timer] = loop[l].outcome]
  /\ loop' = [loop EXCEPT ![l].at = "next", ![l].timer = None]
  /\ UNCHANGED <<life, fired, lock, posts, album>>

\* What was being written is in the database, or is not.
Interrupted(l) ==
  \/ UNCHANGED row
  \/ loop[l].at = "commit"
     /\ row' = [m \in Timer |-> IF m \in loop[l].batch THEN "running" ELSE row[m]]
  \/ loop[l].at = "settle" /\ row' = [row EXCEPT ![loop[l].timer] = loop[l].outcome]

\* The database fails: the rest of the batch is left behind.  A failing SELECT
\* is as good as a longer sleep.
DatabaseFails(l) ==
  /\ loop[l].at \in {"commit", "settle"} /\ ~loop[l].cancelled
  /\ Interrupted(l)
  /\ loop' = [loop EXCEPT ![l] = [Fresh EXCEPT !.at = "sleep"]]
  /\ UNCHANGED <<life, fired, lock, posts, album>>

Slept(l) ==
  /\ At(l, "sleep")
  /\ Goes(l, "top")
  /\ UNCHANGED <<life, row, fired, lock, posts, album>>

LoopCancelled(l) ==
  /\ loop[l].cancelled /\ loop[l].at # "ended"
  /\ loop' = [loop EXCEPT ![l] = [Fresh EXCEPT !.at = "ended"]]
  /\ Interrupted(l)
  /\ lock' = IF lock = l THEN None ELSE lock
  /\ UNCHANGED <<life, fired, posts, album>>

-----------------------------------------------------------------------------
(* Posts of a channel.  Telethon calls the handlers of an update one after  *)
(* the other: first the one of first comments, then the one of messages.    *)

Moves(u, at) == update' = [update EXCEPT ![u] = at]

PostArrives(u) ==
  /\ update[u] = "new"
  /\ state # "stopped"
  /\ Moves(u, IF state = "running" THEN "handler" ELSE "incoming")
  /\ UNCHANGED <<life, timers, lock, claimed, comments, album>>

\* Mutant of Claim: the album is looked up and marked after the comment only.
Claim_Late(u) ==
  /\ update[u] = "handler"
  /\ Moves(u, IF claimed THEN "incoming" ELSE "comment")
  /\ UNCHANGED <<life, timers, lock, claimed, comments, album>>

\* The chat was allowed; one element of the album claims the comment for all.
Claim(u) ==
  /\ update[u] = "handler"
  /\ Moves(u, IF claimed THEN "incoming" ELSE "comment")
  /\ claimed' = TRUE
  /\ UNCHANGED <<life, timers, lock, comments, album>>

CommentSent(u) ==
  /\ update[u] = "comment"
  /\ Moves(u, "commented")
  /\ comments' = comments + 1
  /\ UNCHANGED <<life, timers, lock, claimed, album>>

CommentEnds(u) ==
  /\ update[u] \in {"comment", "commented"}
  /\ Moves(u, "incoming")
  /\ UNCHANGED <<life, timers, lock, claimed, comments, album>>

-----------------------------------------------------------------------------
(* Albums.                                                                 *)

\* An element comes to the buffer of its album; the first one starts a flush.
Add(u) ==
  /\ update[u] = "incoming"
  /\ Moves(u, "buffered")
  /\ buffer' = buffer \cup {u}
  /\ quiet' \in IF buffer = {} THEN {FALSE} ELSE {FALSE, quiet}
  /\ IF buffer # {} THEN UNCHANGED <<flush, registered>>
     ELSE \E f \in Flush : /\ flush[f] = "none"
                           /\ flush' = [flush EXCEPT ![f] = "waiting"]
                           /\ registered' = f
  /\ UNCHANGED <<life, timers, lock, claimed, comments, items>>

\* No element came for the quiet window, or the cap of the first one is reached.
QuietPasses ==
  /\ buffer # {} /\ ~quiet
  /\ quiet' = TRUE
  /\ UNCHANGED <<life, timers, lock, posts, flush, items, buffer, registered>>

\* Mutant of FlushAfter: the flush stays registered while it runs.
FlushAfter_StaysRegistered(f) ==
  /\ flush[f] = "waiting"
  /\ buffer = {} \/ quiet
  /\ flush' = [flush EXCEPT ![f] = IF buffer = {} THEN "none" ELSE "flushing"]
  /\ update' = [u \in Element |-> IF u \in buffer THEN "turn" ELSE update[u]]
  /\ items' = [items EXCEPT ![f] = buffer]
  /\ buffer' = {} /\ quiet' = FALSE
  /\ UNCHANGED <<life, timers, lock, claimed, comments, registered>>

FlushAfter(f) ==
  /\ flush[f] = "waiting"
  /\ buffer = {} \/ quiet
  /\ flush' = [flush EXCEPT ![f] = IF buffer = {} THEN "none" ELSE "flushing"]
  /\ update' = [u \in Element |-> IF u \in buffer THEN "turn" ELSE update[u]]
  /\ items' = [items EXCEPT ![f] = buffer]
  /\ buffer' = {} /\ quiet' = FALSE /\ registered' = None
  /\ UNCHANGED <<life, timers, lock, claimed, comments>>

FlushCancelled(f) ==
  /\ flush[f] = "cancelled"
  /\ flush' = [flush EXCEPT ![f] = "none"] /\ items' = [items EXCEPT ![f] = {}]
  /\ UNCHANGED <<life, timers, lock, posts, buffer, quiet, registered>>

Done(f) ==
  /\ flush' = [flush EXCEPT ![f] = "none"] /\ items' = [items EXCEPT ![f] = {}]
  /\ update' = [u \in Element |-> IF u \in items[f] THEN "done" ELSE update[u]]
  /\ UNCHANGED <<life, timers, claimed, comments, buffer, quiet, registered>>

\* The turn on the album, unless the runtime does not run any more.
FlushTurn(f) ==
  /\ flush[f] = "flushing" /\ lock = None /\ state = "running"
  /\ flush' = [flush EXCEPT ![f] = "turn"] /\ lock' = f
  /\ UNCHANGED <<life, timers, posts, items, buffer, quiet, registered>>

FlushDropped(f) ==
  /\ flush[f] = "flushing" /\ lock = None /\ state # "running"
  /\ Done(f)
  /\ UNCHANGED lock

FlushEnds(f) ==
  /\ flush[f] = "turn"
  /\ Done(f)
  /\ lock' = None

Step(l) ==
  \/ LoopTop(l) \/ SelectDue(l) \/ CommitRunning(l) \/ NextTimer(l) \/ PeerChecked(l)
  \/ TurnAdmitted(l) \/ TurnEnds(l) \/ RowWritten(l) \/ Slept(l) \/ LoopCancelled(l)

FlushStep(f) ==
  FlushAfter(f) \/ FlushCancelled(f) \/ FlushTurn(f) \/ FlushDropped(f) \/ FlushEnds(f)

Next ==
  \/ StopBegins \/ SchedulerLeft \/ AlbumsClosed \/ Disconnected \/ Crash \/ QuietPasses
  \/ \E l \in Loop : Start(l) \/ Step(l) \/ CancelSwallowed(l) \/ DatabaseFails(l)
  \/ \E m \in Timer : TimerDue(m)
  \/ \E u \in Element :
       PostArrives(u) \/ Claim(u) \/ CommentSent(u) \/ CommentEnds(u) \/ Add(u)
  \/ \E f \in Flush : FlushStep(f)

\* asyncio runs every task that can run, a turn and a flush end (the model, the
\* requests and the sleep all have time limits), and the database does not fail
\* at the commit for ever.  Nothing makes the agent stop.
Fairness ==
  /\ \A l \in Loop : WF_vars(Step(l)) /\ SF_vars(CommitRunning(l))
  /\ WF_vars(\E f \in Flush : FlushStep(f))

Spec == Init /\ [][Next]_vars /\ Fairness

-----------------------------------------------------------------------------
(* Properties.                                                             *)

\* A timer has at most one turn, whatever stops, failing databases, cancelled
\* loops that live on and crashes come between: its row is committed as running
\* before it fires, and only the scheduler of this life selects.
FiredAtMostOnce == \A m \in Timer : fired[m] <= 1

\* However many elements of an album arrive at once, a runtime comments on one
\* of them (PostedAlbumGuard.claim is synchronous).
OneCommentPerAlbum == comments <= 1

\* A buffer has a flush that will empty it, or a close() that is about to.
NoElementStuck ==
  buffer # {} => (state = "closing" \/ \E f \in Flush : flush[f] = "waiting")

\* close() spares what is being flushed: an element whose album was taken is in
\* exactly one flush, which nobody has cancelled.
FlushIsSpared ==
  \A u \in Element : update[u] = "turn" =>
    /\ \E f \in Flush : u \in items[f]
    /\ \A f, g \in Flush : u \in items[f] \cap items[g] => f = g
    /\ \A f \in Flush : u \in items[f] => flush[f] \in {"flushing", "turn"}

\* While the agent runs and the database answers, a timer that is due is taken.
DueIsTaken ==
  \A m \in Timer : row[m] = "due" ~> (row[m] # "due" \/ state # "running")
=============================================================================
