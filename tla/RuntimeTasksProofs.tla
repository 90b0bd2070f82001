------------------------- MODULE RuntimeTasksProofs -------------------------
(***************************************************************************)
(* Theorems about RuntimeTasks, for any number of timers, starts, elements *)
(* of an album and flushes.                                                *)
(*                                                                         *)
(* The three parts of the module share the life of the runtime, and so the *)
(* invariant has a part for each of them, and one for the stops that are   *)
(* counted.                                                                *)
(***************************************************************************)
EXTENDS RuntimeTasks, FiniteSetTheorems, TLAPS

-----------------------------------------------------------------------------
(* The inductive invariant.                                                *)

\* The loops that have been started.
Started == {l \in Loop : loop[l].at # "none"}

\* A start is one of the loops, and every stop follows a start of its own.
StopsAreCounted ==
  /\ generation + (IF state = "running" THEN 1 ELSE 0) <= Cardinality(Started)
  /\ state = "running" => scheduler \in Started

\* The timers that loop l has taken and that have not had their turn.
Ahead(l) ==
  {m \in Timer :
     \/ loop[l].at \in {"next", "check", "lock", "turn", "settle"} /\ m \in loop[l].batch
     \/ loop[l].at \in {"check", "lock"} /\ m = loop[l].timer}

Selecting(l) == loop[l].at \in {"select", "commit"} /\ ~loop[l].cancelled

\* A timer that is taken has been committed as running, by one loop.
Taken ==
  /\ \A m \in Timer : row[m] \in {"pending", "due"} => fired[m] = 0
  /\ \A l \in Loop : \A m \in Ahead(l) : fired[m] = 0 /\ row[m] \notin {"pending", "due"}
  /\ \A l, k \in Loop : \A m \in Ahead(l) : m \in Ahead(k) => l = k

\* Only the scheduler selects, what nobody has taken.
SelectsRightly(l) ==
  Selecting(l) =>
    /\ state = "running" /\ scheduler = l
    /\ loop[l].at = "commit" =>
         \A m \in loop[l].batch : fired[m] = 0 /\ \A k \in Loop : m \notin Ahead(k)

Selects == \A l \in Loop : SelectsRightly(l)

OneTimer ==
  \A l \in Loop :
    /\ loop[l].outcome \in {"succeeded", "failed"}
    /\ loop[l].at = "none" => ~loop[l].cancelled
    /\ loop[l].at \in {"check", "lock", "turn", "settle"} =>
         loop[l].timer \in Timer \ loop[l].batch

TimersOK == FiredAtMostOnce /\ Taken /\ Selects /\ OneTimer

\* One element has the claim, and it has not commented yet.
CommentsOK ==
  /\ OneCommentPerAlbum
  /\ ~claimed => comments = 0
  /\ \A u \in Element : update[u] = "comment" => claimed /\ comments = 0
  /\ \A u, v \in Element : update[u] = "comment" /\ update[v] = "comment" => u = v

\* An element of an album is in the buffer or in one flush.
AlbumsOK ==
  /\ NoElementStuck /\ FlushIsSpared
  /\ \A u \in buffer : update[u] = "buffered"
  /\ \A f \in Flush : \A u \in items[f] : update[u] = "turn"
  /\ \A f \in Flush : items[f] # {} => flush[f] \in {"flushing", "turn"}
  /\ registered # None => flush[registered] = "waiting"

IInv == TypeOK /\ StopsAreCounted /\ TimersOK /\ CommentsOK /\ AlbumsOK

-----------------------------------------------------------------------------
(* Types.                                                                  *)

LoopState ==
  [at : {"none", "top", "select", "commit", "next", "check", "lock", "turn", "settle",
         "sleep", "ended"},
   batch : SUBSET Timer, timer : Timer \cup {None}, admitted : 0..Cardinality(Loop),
   outcome : Status, cancelled : BOOLEAN]

LEMMA LoopType == TypeOK => loop \in [Loop -> LoopState]
  BY DEF TypeOK, LoopState

LEMMA Bounds ==
  /\ Cardinality(Loop) \in Nat /\ Cardinality(Element) \in Nat
  /\ Cardinality(Started) \in Nat /\ Cardinality(Started) <= Cardinality(Loop)
<1>1. Started \subseteq Loop
  BY DEF Started
<1> QED BY <1>1, FS_CardinalityType, FS_Subset, TasksAssumption

LEMMA FreshFields ==
  /\ Fresh \in LoopState
  /\ Fresh.at = "none" /\ Fresh.batch = {} /\ Fresh.outcome = "failed" /\ ~Fresh.cancelled
  BY Bounds DEF Fresh, LoopState, Status

\* A step of the loop l, and of no other.
LoopMove(l) ==
  /\ loop' \in [Loop -> LoopState]
  /\ loop[l].at # "none" /\ loop'[l].at # "none"
  /\ \A k \in Loop \ {l} : loop'[k] = loop[k]

\* What a timer's row is does not make it due that was not to be.
RowKept == \A m \in Timer : row'[m] \in {"pending", "due"} => row[m] \in {"pending", "due"}

LEMMA LoopMoveTypes ==
  ASSUME TypeOK, NEW l \in Loop, LoopMove(l), row' \in [Timer -> Status],
         fired' \in [Timer -> 0..2], lock' \in Loop \cup Flush \cup {None},
         UNCHANGED <<life, posts, album>>
  PROVE  TypeOK'
  BY DEF LoopMove, LoopState, TypeOK, life, posts, album

-----------------------------------------------------------------------------
(* What a step leaves alone.                                               *)

LEMMA CountKept ==
  ASSUME StopsAreCounted, UNCHANGED <<generation, state, scheduler, Started>>
  PROVE  StopsAreCounted'
  BY DEF StopsAreCounted

LEMMA LoopMoveCounts ==
  ASSUME StopsAreCounted, NEW l \in Loop, LoopMove(l), UNCHANGED life
  PROVE  StopsAreCounted'
<1>1. Started' = Started
  BY DEF Started, LoopMove
<1> QED BY <1>1, CountKept DEF life

\* A runtime that no longer runs is not counted as one that does.
LEMMA NotRunningCounts ==
  ASSUME TypeOK, StopsAreCounted, state' # "running", UNCHANGED <<generation, Started>>
  PROVE  StopsAreCounted'
<1>1. generation \in Nat /\ Cardinality(Started) \in Nat
  BY Bounds DEF TypeOK
<1>2. generation <= Cardinality(Started)
  BY <1>1 DEF StopsAreCounted
<1>3. StopsAreCounted' = /\ generation' + 0 <= Cardinality(Started')
                         /\ TRUE
  BY DEF StopsAreCounted
<1> QED BY <1>1, <1>2, <1>3

LEMMA CommentsKept ==
  ASSUME CommentsOK, UNCHANGED posts
  PROVE  CommentsOK'
  BY DEF CommentsOK, OneCommentPerAlbum, posts

LEMMA AlbumsKept ==
  ASSUME AlbumsOK, UNCHANGED <<update, album>>, state' = state
  PROVE  AlbumsOK'
  BY DEF AlbumsOK, NoElementStuck, FlushIsSpared, album

LEMMA TimersKept ==
  ASSUME TimersOK, UNCHANGED <<state, scheduler, timers>>
  PROVE  TimersOK'
  BY DEF TimersOK, FiredAtMostOnce, Taken, Selects, SelectsRightly, OneTimer, Ahead,
     Selecting, timers

\* Only a runtime that runs selects.
LEMMA TimersKeptAtRest ==
  ASSUME TimersOK, state # "running", UNCHANGED timers
  PROVE  TimersOK'
  BY DEF TimersOK, FiredAtMostOnce, Taken, Selects, SelectsRightly, OneTimer, Ahead,
     Selecting, timers

AheadShrinks == \A l \in Loop : Ahead(l)' \subseteq Ahead(l)

LEMMA TakenKept ==
  ASSUME FiredAtMostOnce, Taken, fired' = fired, RowKept, AheadShrinks
  PROVE  FiredAtMostOnce' /\ Taken'
<1>1. FiredAtMostOnce' /\ \A l \in Loop : \A m \in Ahead(l)' : m \in Timer
  BY DEF FiredAtMostOnce, Ahead
<1>2. \A m \in Timer : row'[m] \in {"pending", "due"} => fired'[m] = 0
  BY DEF Taken, RowKept
<1>3. \A l \in Loop : \A m \in Ahead(l)' : fired'[m] = 0 /\ row'[m] \notin {"pending", "due"}
  BY <1>1 DEF Taken, RowKept, AheadShrinks
<1>4. \A l, k \in Loop : \A m \in Ahead(l)' : m \in Ahead(k)' => l = k
  BY DEF Taken, AheadShrinks
<1> QED BY <1>1, <1>2, <1>3, <1>4 DEF Taken

\* The loops but l select what they selected.
LEMMA SelectsKept ==
  ASSUME Selects, fired' = fired, AheadShrinks, UNCHANGED life, NEW l \in Loop, LoopMove(l)
  PROVE  \A k \in Loop \ {l} : SelectsRightly(k)'
  BY DEF Selects, SelectsRightly, AheadShrinks, Selecting, LoopMove, life

\* A step of a loop that takes no timer and gives none a turn.
LEMMA LoopMoveSafe ==
  ASSUME IInv, NEW l \in Loop, LoopMove(l), UNCHANGED <<life, fired, posts, album>>,
         row' \in [Timer -> Status], RowKept,
         lock' \in Loop \cup Flush \cup {None},
         Ahead(l)' \subseteq Ahead(l), SelectsRightly(l)',
         loop'[l].outcome \in {"succeeded", "failed"},
         loop'[l].at \in {"check", "lock", "turn", "settle"} =>
           loop'[l].timer \in Timer \ loop'[l].batch
  PROVE  IInv'
<1>1. TypeOK'
  BY LoopMoveTypes DEF IInv, TypeOK
<1>2. StopsAreCounted' /\ CommentsOK' /\ AlbumsOK'
  BY LoopMoveCounts, CommentsKept, AlbumsKept DEF IInv, life, posts
<1>3. AheadShrinks
  BY DEF AheadShrinks, Ahead, LoopMove
<1>4. FiredAtMostOnce' /\ Taken'
  BY <1>3, TakenKept DEF IInv, TimersOK
<1>5. Selects'
  BY <1>3, SelectsKept DEF IInv, TimersOK, Selects
<1>6. OneTimer'
  BY DEF IInv, TimersOK, OneTimer, LoopMove
<1> QED BY <1>1, <1>2, <1>4, <1>5, <1>6 DEF IInv, TimersOK

-----------------------------------------------------------------------------
(* Steps of a loop.                                                        *)

\* The loop l is at another place, with what it had.
LEMMA GoesFacts ==
  ASSUME TypeOK, NEW l \in Loop, loop[l].at # "none",
         NEW at \in {"top", "select", "commit", "next", "check", "lock", "turn", "settle",
                     "sleep", "ended"},
         Goes(l, at)
  PROVE  /\ LoopMove(l) /\ loop'[l].at = at
         /\ loop'[l].batch = loop[l].batch /\ loop'[l].timer = loop[l].timer
         /\ loop'[l].outcome = loop[l].outcome /\ loop'[l].cancelled = loop[l].cancelled
  BY LoopType DEF Goes, LoopMove, LoopState

LEMMA LoopTopSafe ==
  ASSUME IInv, NEW l \in Loop, LoopTop(l)
  PROVE  IInv'
<1>1. /\ loop[l].at = "top" /\ UNCHANGED <<life, row, fired, lock, posts, album>>
      /\ loop[l].outcome \in {"succeeded", "failed"}
  BY DEF LoopTop, At, IInv, TimersOK, OneTimer
<1>2. TypeOK /\ row \in [Timer -> Status] /\ lock \in Loop \cup Flush \cup {None}
  BY DEF IInv, TypeOK
<1>3. CASE state = "running" /\ scheduler = l
  <2>1. LoopMove(l) /\ loop'[l].at = "select" /\ loop'[l].outcome = loop[l].outcome
    BY <1>1, <1>2, <1>3, GoesFacts DEF LoopTop
  <2>2. Ahead(l)' = {} /\ SelectsRightly(l)' /\ RowKept
    BY <1>1, <1>3, <2>1 DEF Ahead, SelectsRightly, RowKept, life
  <2> QED BY <1>1, <1>2, <2>1, <2>2, LoopMoveSafe
<1>4. CASE ~(state = "running" /\ scheduler = l)
  <2>1. LoopMove(l) /\ loop'[l].at = "ended" /\ loop'[l].outcome = loop[l].outcome
    BY <1>1, <1>2, <1>4, GoesFacts DEF LoopTop
  <2>2. Ahead(l)' = {} /\ SelectsRightly(l)' /\ RowKept
    BY <1>1, <2>1 DEF Ahead, SelectsRightly, Selecting, RowKept
  <2> QED BY <1>1, <1>2, <2>1, <2>2, LoopMoveSafe
<1> QED BY <1>3, <1>4

\* What is due is nobody's yet.
LEMMA SelectDueSafe ==
  ASSUME IInv, NEW l \in Loop, SelectDue(l)
  PROVE  IInv'
<1> DEFINE due == {m \in Timer : row[m] = "due"}
<1>1. /\ loop[l].at = "select" /\ ~loop[l].cancelled
      /\ UNCHANGED <<life, row, fired, lock, posts, album>>
      /\ loop[l].outcome \in {"succeeded", "failed"}
  BY DEF SelectDue, At, IInv, TimersOK, OneTimer
<1>2. TypeOK /\ row \in [Timer -> Status] /\ lock \in Loop \cup Flush \cup {None}
  BY DEF IInv, TypeOK
<1>3. loop' = [loop EXCEPT ![l].at = IF due = {} THEN "sleep" ELSE "commit", ![l].batch = due]
  BY DEF SelectDue
<1>4. /\ LoopMove(l) /\ loop'[l].at \in {"sleep", "commit"} /\ loop'[l].batch = due
      /\ loop'[l].outcome = loop[l].outcome /\ loop'[l].cancelled = loop[l].cancelled
  <2>1. PICK at \in {"sleep", "commit"} : loop' = [loop EXCEPT ![l].at = at, ![l].batch = due]
    BY <1>3
  <2>2. due \in SUBSET Timer
    OBVIOUS
  <2> HIDE DEF due
  <2> QED BY <1>1, <1>2, <2>1, <2>2, LoopType DEF LoopMove, LoopState
<1>5. RowKept /\ Ahead(l)' = {}
  BY <1>1, <1>4 DEF RowKept, Ahead
<1>6. SelectsRightly(l)'
  <2>1. state' = "running" /\ scheduler' = l
    BY <1>1 DEF IInv, TimersOK, Selects, SelectsRightly, Selecting, life
  <2>2. \A m \in due : fired'[m] = 0 /\ \A k \in Loop : m \notin Ahead(k)
    BY <1>1 DEF IInv, TimersOK, Taken
  <2>3. \A k \in Loop : Ahead(k)' \subseteq Ahead(k)
    BY <1>4, <1>5 DEF LoopMove, Ahead
  <2> QED BY <1>4, <2>1, <2>2, <2>3 DEF SelectsRightly
<1> QED BY <1>1, <1>2, <1>4, <1>5, <1>6, LoopMoveSafe

\* A loop goes on with a smaller batch.
LEMMA NextTimerSafe ==
  ASSUME IInv, NEW l \in Loop, NextTimer(l)
  PROVE  IInv'
<1>1. /\ loop[l].at = "next" /\ UNCHANGED <<life, row, fired, lock, posts, album>>
      /\ loop[l].outcome \in {"succeeded", "failed"}
  BY DEF NextTimer, At, IInv, TimersOK, OneTimer
<1>2. TypeOK /\ row \in [Timer -> Status] /\ lock \in Loop \cup Flush \cup {None}
  BY DEF IInv, TypeOK
<1>3. RowKept
  BY <1>1 DEF RowKept
<1>4. CASE loop[l].batch = {}
  <2>1. LoopMove(l) /\ loop'[l].at = "sleep" /\ loop'[l].outcome = loop[l].outcome
    BY <1>1, <1>2, <1>4, GoesFacts DEF NextTimer
  <2>2. Ahead(l)' = {} /\ SelectsRightly(l)'
    BY <2>1 DEF Ahead, SelectsRightly, Selecting
  <2> QED BY <1>1, <1>2, <1>3, <2>1, <2>2, LoopMoveSafe
<1>5. CASE loop[l].batch # {}
  <2>1. PICK m \in loop[l].batch :
          loop' = [loop EXCEPT ![l].at = "check", ![l].timer = m, ![l].batch = loop[l].batch \ {m}]
    BY <1>5 DEF NextTimer
  <2>2. m \in Timer
    BY <1>2, LoopType DEF LoopState
  <2>3. /\ LoopMove(l) /\ loop'[l].at = "check" /\ loop'[l].timer = m
        /\ loop'[l].batch = loop[l].batch \ {m} /\ loop'[l].outcome = loop[l].outcome
    BY <1>1, <1>2, <2>1, <2>2, LoopType DEF LoopMove, LoopState
  <2>4. Ahead(l)' \subseteq Ahead(l) /\ SelectsRightly(l)'
    BY <1>1, <2>2, <2>3 DEF Ahead, SelectsRightly, Selecting
  <2> QED BY <1>1, <1>2, <1>3, <2>2, <2>3, <2>4, LoopMoveSafe
<1> QED BY <1>4, <1>5

LEMMA PeerCheckedSafe ==
  ASSUME IInv, NEW l \in Loop, PeerChecked(l)
  PROVE  IInv'
<1>1. /\ loop[l].at = "check" /\ UNCHANGED <<life, row, fired, lock, posts, album>>
      /\ loop[l].outcome \in {"succeeded", "failed"}
      /\ loop[l].timer \in Timer \ loop[l].batch
  BY DEF PeerChecked, At, IInv, TimersOK, OneTimer
<1>2. /\ TypeOK /\ row \in [Timer -> Status] /\ lock \in Loop \cup Flush \cup {None}
      /\ generation \in 0..Cardinality(Loop)
  BY DEF IInv, TypeOK
<1>3. /\ LoopMove(l) /\ loop'[l].at \in {"lock", "settle"}
      /\ loop'[l].timer = loop[l].timer /\ loop'[l].batch = loop[l].batch
      /\ loop'[l].outcome \in {"succeeded", "failed"}
  BY <1>1, <1>2, LoopType DEF PeerChecked, LoopMove, LoopState, Status
<1>4. RowKept /\ Ahead(l)' \subseteq Ahead(l) /\ SelectsRightly(l)'
  BY <1>1, <1>3 DEF RowKept, Ahead, SelectsRightly, Selecting
<1> QED BY <1>1, <1>2, <1>3, <1>4, LoopMoveSafe

\* The batch that is committed as running had no turn and is no other loop's.
LEMMA CommitRunningSafe ==
  ASSUME IInv, NEW l \in Loop, CommitRunning(l)
  PROVE  IInv'
<1>1. /\ loop[l].at = "commit" /\ ~loop[l].cancelled
      /\ UNCHANGED <<life, fired, lock, posts, album>>
      /\ row' = [m \in Timer |-> IF m \in loop[l].batch THEN "running" ELSE row[m]]
      /\ loop[l].outcome \in {"succeeded", "failed"}
  BY DEF CommitRunning, At, IInv, TimersOK, OneTimer
<1>2. TypeOK /\ row \in [Timer -> Status] /\ loop[l].batch \subseteq Timer
  BY LoopType DEF IInv, TypeOK, LoopState
<1>3. /\ LoopMove(l) /\ loop'[l].at = "next" /\ loop'[l].batch = loop[l].batch
      /\ loop'[l].outcome = loop[l].outcome
  BY <1>1, <1>2, GoesFacts DEF CommitRunning
<1>4. \A m \in loop[l].batch : fired[m] = 0 /\ \A k \in Loop : m \notin Ahead(k)
  BY <1>1 DEF IInv, TimersOK, Selects, SelectsRightly, Selecting
<1>5. Ahead(l)' = loop[l].batch /\ \A k \in Loop \ {l} : Ahead(k)' = Ahead(k)
  BY <1>2, <1>3 DEF LoopMove, Ahead
<1>6. TypeOK'
  <2>1. row' \in [Timer -> Status] /\ fired' \in [Timer -> 0..2]
        /\ lock' \in Loop \cup Flush \cup {None}
    BY <1>1, <1>2 DEF Status, TypeOK
  <2> QED BY <1>1, <1>2, <1>3, <2>1, LoopMoveTypes
<1>7. StopsAreCounted' /\ CommentsOK' /\ AlbumsOK'
  BY <1>1, <1>3, LoopMoveCounts, CommentsKept, AlbumsKept DEF IInv, life, posts
<1>8. FiredAtMostOnce' /\ Taken'
  <2>1. FiredAtMostOnce' /\ RowKept
    BY <1>1 DEF IInv, TimersOK, FiredAtMostOnce, RowKept
  <2>2. \A m \in Timer : row'[m] \in {"pending", "due"} => fired'[m] = 0
    BY <1>1, <2>1 DEF IInv, TimersOK, Taken, RowKept
  <2>3. ASSUME NEW k \in Loop, NEW m \in Ahead(k)'
        PROVE  fired'[m] = 0 /\ row'[m] \notin {"pending", "due"}
    <3>1. CASE k = l
      BY <1>1, <1>2, <1>4, <1>5, <2>3, <3>1
    <3>2. CASE k # l
      <4>1. m \in Ahead(k) /\ m \in Timer
        BY <1>5, <2>3, <3>2 DEF Ahead
      <4> QED BY <1>1, <2>1, <4>1 DEF IInv, TimersOK, Taken, RowKept
    <3> QED BY <3>1, <3>2
  <2>4. \A j, k \in Loop : \A m \in Ahead(j)' : m \in Ahead(k)' => j = k
    BY <1>4, <1>5 DEF IInv, TimersOK, Taken
  <2> QED BY <2>1, <2>2, <2>3, <2>4 DEF Taken
<1>9. Selects'
  <2>1. \A k \in Loop \ {l} : ~Selecting(k)'
    BY <1>1, <1>3 DEF IInv, TimersOK, Selects, SelectsRightly, Selecting, LoopMove
  <2>2. ~Selecting(l)'
    BY <1>3 DEF Selecting
  <2> QED BY <2>1, <2>2 DEF Selects, SelectsRightly
<1>10. OneTimer'
  BY <1>1, <1>3 DEF IInv, TimersOK, OneTimer, LoopMove
<1> QED BY <1>6, <1>7, <1>8, <1>9, <1>10 DEF IInv, TimersOK

\* The timer that has its turn is not ahead of anybody any more.
LEMMA TurnAdmittedSafe ==
  ASSUME IInv, NEW l \in Loop, TurnAdmitted(l)
  PROVE  IInv'
<1> DEFINE timer == loop[l].timer
<1>1. /\ loop[l].at = "lock" /\ UNCHANGED <<life, row, posts, album>>
      /\ loop[l].outcome \in {"succeeded", "failed"}
      /\ timer \in Timer \ loop[l].batch
  BY DEF TurnAdmitted, At, IInv, TimersOK, OneTimer
<1>2. /\ TypeOK /\ row \in [Timer -> Status] /\ lock \in Loop \cup Flush \cup {None}
      /\ fired \in [Timer -> 0..2] /\ loop[l].batch \subseteq Timer
  BY LoopType DEF IInv, TypeOK, LoopState
<1>3. CASE ~(state = "running" /\ loop[l].admitted = generation)
  <2>1. loop' = [loop EXCEPT ![l].at = "settle", ![l].outcome = "failed"]
        /\ UNCHANGED <<lock, fired>>
    BY <1>3 DEF TurnAdmitted
  <2>2. /\ LoopMove(l) /\ loop'[l].at = "settle" /\ loop'[l].timer = timer
        /\ loop'[l].batch = loop[l].batch /\ loop'[l].outcome = "failed"
    <3> DEFINE settled == [loop[l] EXCEPT !.at = "settle", !.outcome = "failed"]
    <3>1. loop[l] \in LoopState /\ loop \in [Loop -> LoopState]
      BY <1>2, LoopType
    <3>2. settled \in LoopState
      BY <3>1 DEF LoopState, Status
    <3>3. /\ settled.at = "settle" /\ settled.timer = timer
          /\ settled.batch = loop[l].batch /\ settled.outcome = "failed"
      BY <3>1 DEF LoopState
    <3>4. loop' = [loop EXCEPT ![l] = settled]
      BY <2>1
    <3> HIDE DEF settled
    <3> QED BY <1>1, <3>1, <3>2, <3>3, <3>4 DEF LoopMove
  <2>3. RowKept /\ Ahead(l)' \subseteq Ahead(l) /\ SelectsRightly(l)'
    BY <1>1, <2>2 DEF RowKept, Ahead, SelectsRightly, Selecting
  <2> QED BY <1>1, <1>2, <2>1, <2>2, <2>3, LoopMoveSafe
<1>4. CASE state = "running" /\ loop[l].admitted = generation
  <2>1. Goes(l, "turn") /\ lock' = l /\ fired' = [fired EXCEPT ![timer] = @ + 1]
    BY <1>4 DEF TurnAdmitted
  <2>2. /\ LoopMove(l) /\ loop'[l].at = "turn" /\ loop'[l].timer = timer
        /\ loop'[l].batch = loop[l].batch /\ loop'[l].outcome = loop[l].outcome
    BY <1>1, <1>2, <2>1, GoesFacts
  <2>3. timer \in Ahead(l) /\ fired[timer] = 0 /\ row[timer] \notin {"pending", "due"}
    BY <1>1 DEF Ahead, IInv, TimersOK, Taken
  <2>4. /\ fired'[timer] = 1 /\ fired' \in [Timer -> 0..2]
        /\ \A m \in Timer \ {timer} : fired'[m] = fired[m]
    BY <1>1, <1>2, <2>1, <2>3
  <2>5. \A k \in Loop : Ahead(k)' \subseteq Ahead(k) \ {timer}
    <3>1. Ahead(l)' = loop[l].batch /\ loop[l].batch \subseteq Ahead(l) \ {timer}
      BY <1>1, <1>2, <2>2 DEF Ahead
    <3>2. \A k \in Loop \ {l} : Ahead(k)' = Ahead(k)
      BY <2>2 DEF LoopMove, Ahead
    <3>3. \A k \in Loop \ {l} : timer \notin Ahead(k)
      BY <2>3 DEF IInv, TimersOK, Taken
    <3> QED BY <3>1, <3>2, <3>3
  <2>6. TypeOK'
    BY <1>1, <1>2, <2>1, <2>2, <2>4, LoopMoveTypes
  <2>7. StopsAreCounted' /\ CommentsOK' /\ AlbumsOK'
    BY <1>1, <2>2, LoopMoveCounts, CommentsKept, AlbumsKept DEF IInv, life, posts
  <2>8. FiredAtMostOnce'
    BY <2>4 DEF IInv, TimersOK, FiredAtMostOnce
  <2>9. Taken'
    <3>1. \A m \in Timer : row'[m] \in {"pending", "due"} => fired'[m] = 0
      BY <1>1, <2>3, <2>4 DEF IInv, TimersOK, Taken
    <3>2. ASSUME NEW k \in Loop, NEW m \in Ahead(k)'
          PROVE  fired'[m] = 0 /\ row'[m] \notin {"pending", "due"}
      <4>1. m \in Ahead(k) /\ m \in Timer \ {timer}
        BY <2>5, <3>2 DEF Ahead
      <4> QED BY <1>1, <2>4, <4>1 DEF IInv, TimersOK, Taken
    <3>3. \A j, k \in Loop : \A m \in Ahead(j)' : m \in Ahead(k)' => j = k
      BY <2>5 DEF IInv, TimersOK, Taken
    <3> QED BY <3>1, <3>2, <3>3 DEF Taken
  <2>10. Selects'
    <3>1. ASSUME NEW k \in Loop, Selecting(k)'
          PROVE  /\ state' = "running" /\ scheduler' = k
                 /\ loop'[k].at = "commit" =>
                      \A m \in loop'[k].batch :
                        fired'[m] = 0 /\ \A j \in Loop : m \notin Ahead(j)'
      <4>1. k # l /\ loop'[k] = loop[k] /\ Selecting(k) /\ SelectsRightly(k)
        BY <2>2, <3>1 DEF LoopMove, Selecting, IInv, TimersOK, Selects
      <4>2. loop[k].batch \subseteq Timer
        BY <1>2, LoopType DEF LoopState
      <4>3. state' = "running" /\ scheduler' = k
        BY <1>1, <4>1 DEF SelectsRightly, life
      <4>4. ASSUME loop[k].at = "commit", NEW m \in loop[k].batch
            PROVE  fired'[m] = 0 /\ \A j \in Loop : m \notin Ahead(j)'
        <5>1. fired[m] = 0 /\ \A j \in Loop : m \notin Ahead(j)
          BY <4>1, <4>4 DEF SelectsRightly
        <5> QED BY <2>3, <2>4, <2>5, <4>2, <5>1
      <4> QED BY <4>1, <4>3, <4>4
    <3> QED BY <3>1 DEF Selects, SelectsRightly
  <2>11. OneTimer'
    BY <1>1, <2>2 DEF IInv, TimersOK, OneTimer, LoopMove
  <2> QED BY <2>6, <2>7, <2>8, <2>9, <2>10, <2>11 DEF IInv, TimersOK
<1> QED BY <1>3, <1>4

LEMMA TurnEndsSafe ==
  ASSUME IInv, NEW l \in Loop, TurnEnds(l) \/ CancelSwallowed(l)
  PROVE  IInv'
<1>1. /\ loop[l].at = "turn" /\ UNCHANGED <<life, row, fired, posts, album>> /\ lock' = None
      /\ loop[l].timer \in Timer \ loop[l].batch
  BY DEF TurnEnds, CancelSwallowed, At, IInv, TimersOK, OneTimer
<1>2. TypeOK /\ row \in [Timer -> Status]
  BY DEF IInv, TypeOK
<1>3. /\ LoopMove(l) /\ loop'[l].at = "settle" /\ loop'[l].timer = loop[l].timer
      /\ loop'[l].batch = loop[l].batch /\ loop'[l].outcome \in {"succeeded", "failed"}
  <2>1. CASE TurnEnds(l)
    <3>1. \/ loop' = [loop EXCEPT ![l].at = "settle", ![l].outcome = "succeeded"]
          \/ loop' = [loop EXCEPT ![l].at = "settle", ![l].outcome = "failed"]
      BY <2>1 DEF TurnEnds
    <3> QED BY <1>1, <1>2, <3>1, LoopType DEF LoopMove, LoopState, Status
  <2>2. CASE CancelSwallowed(l)
    BY <1>1, <1>2, <2>2, LoopType DEF CancelSwallowed, LoopMove, LoopState, Status
  <2> QED BY <2>1, <2>2
<1>4. RowKept /\ Ahead(l)' \subseteq Ahead(l) /\ SelectsRightly(l)'
  BY <1>1, <1>3 DEF RowKept, Ahead, SelectsRightly, Selecting
<1> QED BY <1>1, <1>2, <1>3, <1>4, LoopMoveSafe

LEMMA RowWrittenSafe ==
  ASSUME IInv, NEW l \in Loop, RowWritten(l)
  PROVE  IInv'
<1>1. /\ loop[l].at = "settle" /\ UNCHANGED <<life, fired, lock, posts, album>>
      /\ row' = [row EXCEPT ![loop[l].timer] = loop[l].outcome]
      /\ loop' = [loop EXCEPT ![l].at = "next", ![l].timer = None]
      /\ loop[l].outcome \in {"succeeded", "failed"}
  BY DEF RowWritten, At, IInv, TimersOK, OneTimer
<1>2. TypeOK /\ row \in [Timer -> Status] /\ lock \in Loop \cup Flush \cup {None}
  BY DEF IInv, TypeOK
<1>3. /\ LoopMove(l) /\ loop'[l].at = "next" /\ loop'[l].batch = loop[l].batch
      /\ loop'[l].outcome = loop[l].outcome
  BY <1>1, <1>2, LoopType DEF LoopMove, LoopState
<1>4. row' \in [Timer -> Status] /\ RowKept
  BY <1>1, <1>2 DEF RowKept, Status
<1>5. Ahead(l)' \subseteq Ahead(l) /\ SelectsRightly(l)'
  BY <1>1, <1>3 DEF Ahead, SelectsRightly, Selecting
<1> QED BY <1>1, <1>2, <1>3, <1>4, <1>5, LoopMoveSafe

\* Whether or not an interrupted write is in the database.
LEMMA InterruptedFacts ==
  ASSUME IInv, NEW l \in Loop, Interrupted(l)
  PROVE  row' \in [Timer -> Status] /\ RowKept
<1>1. row \in [Timer -> Status] /\ loop[l].outcome \in {"succeeded", "failed"}
  BY DEF IInv, TypeOK, TimersOK, OneTimer
<1> QED BY <1>1 DEF Interrupted, RowKept, Status

\* A loop that forgets what it was doing.
LEMMA LoopForgetsSafe ==
  ASSUME IInv, NEW l \in Loop, loop[l].at # "none", NEW at \in {"sleep", "ended"},
         loop' = [loop EXCEPT ![l] = [Fresh EXCEPT !.at = at]], Interrupted(l),
         lock' \in Loop \cup Flush \cup {None}, UNCHANGED <<life, fired, posts, album>>
  PROVE  IInv'
<1> DEFINE s == [Fresh EXCEPT !.at = at]
<1>1. s \in LoopState /\ s.at = at /\ s.batch = {} /\ s.outcome = "failed"
  BY FreshFields DEF LoopState
<1>2. loop' = [loop EXCEPT ![l] = s] /\ loop \in [Loop -> LoopState]
  BY LoopType DEF IInv
<1> HIDE DEF s
<1>3. /\ LoopMove(l) /\ loop'[l].at = at /\ loop'[l].batch = {} /\ loop'[l].outcome = "failed"
  BY <1>1, <1>2 DEF LoopMove
<1>4. Ahead(l)' = {} /\ SelectsRightly(l)'
  BY <1>3 DEF Ahead, SelectsRightly, Selecting
<1> QED BY <1>3, <1>4, InterruptedFacts, LoopMoveSafe

LEMMA DatabaseFailsSafe ==
  ASSUME IInv, NEW l \in Loop, DatabaseFails(l)
  PROVE  IInv'
<1>1. lock \in Loop \cup Flush \cup {None}
  BY DEF IInv, TypeOK
<1> QED BY <1>1, LoopForgetsSafe DEF DatabaseFails

LEMMA SleptSafe ==
  ASSUME IInv, NEW l \in Loop, Slept(l)
  PROVE  IInv'
<1>1. /\ loop[l].at = "sleep" /\ UNCHANGED <<life, row, fired, lock, posts, album>>
      /\ loop[l].outcome \in {"succeeded", "failed"}
  BY DEF Slept, At, IInv, TimersOK, OneTimer
<1>2. TypeOK /\ row \in [Timer -> Status] /\ lock \in Loop \cup Flush \cup {None}
  BY DEF IInv, TypeOK
<1>3. LoopMove(l) /\ loop'[l].at = "top" /\ loop'[l].outcome = loop[l].outcome
  BY <1>1, <1>2, GoesFacts DEF Slept
<1>4. RowKept /\ Ahead(l)' = {} /\ SelectsRightly(l)'
  BY <1>1, <1>3 DEF RowKept, Ahead, SelectsRightly, Selecting
<1> QED BY <1>1, <1>2, <1>3, <1>4, LoopMoveSafe

\* A loop that was never started is not cancelled.
LEMMA LoopCancelledSafe ==
  ASSUME IInv, NEW l \in Loop, LoopCancelled(l)
  PROVE  IInv'
<1>1. lock' \in Loop \cup Flush \cup {None} /\ loop[l].at # "none"
  BY DEF LoopCancelled, IInv, TypeOK, TimersOK, OneTimer
<1> QED BY <1>1, LoopForgetsSafe DEF LoopCancelled

LEMMA TimerDueSafe ==
  ASSUME IInv, NEW m \in Timer, TimerDue(m)
  PROVE  IInv'
<1>1. /\ row' = [row EXCEPT ![m] = "due"] /\ row[m] = "pending"
      /\ UNCHANGED <<life, loop, fired, lock, posts, album>>
      /\ row \in [Timer -> Status]
  BY DEF TimerDue, IInv, TypeOK
<1>2. row' \in [Timer -> Status] /\ RowKept
  BY <1>1 DEF RowKept, Status
<1>3. TypeOK'
  BY <1>1, <1>2 DEF IInv, TypeOK, life, posts, album
<1>4. StopsAreCounted' /\ CommentsOK' /\ AlbumsOK'
  BY <1>1, CountKept, CommentsKept, AlbumsKept DEF IInv, Started, life, posts
<1>5. AheadShrinks /\ Selects' /\ OneTimer'
  BY <1>1 DEF AheadShrinks, Ahead, Selects, SelectsRightly, Selecting, OneTimer, IInv, TimersOK,
     life
<1>6. FiredAtMostOnce' /\ Taken'
  BY <1>1, <1>2, <1>5, TakenKept DEF IInv, TimersOK
<1> QED BY <1>3, <1>4, <1>5, <1>6 DEF IInv, TimersOK

-----------------------------------------------------------------------------
(* Starts, stops and a crash.                                              *)

\* No element begins to comment.
NoneComments == \A u \in Element : update'[u] = "comment" => update[u] = "comment"

LEMMA CommentsFewer ==
  ASSUME CommentsOK, NoneComments, UNCHANGED <<claimed, comments>>
  PROVE  CommentsOK'
  BY DEF CommentsOK, OneCommentPerAlbum, NoneComments

LEMMA StartSafe ==
  ASSUME IInv, NEW l \in Loop, Start(l)
  PROVE  IInv'
<1>1. /\ state = "stopped" /\ loop[l].at = "none" /\ state' = "running" /\ scheduler' = l
      /\ loop' = [loop EXCEPT ![l].at = "top"]
      /\ UNCHANGED <<generation, row, fired, lock, posts, album>>
  BY DEF Start
<1>2. /\ TypeOK /\ loop \in [Loop -> LoopState] /\ row \in [Timer -> Status]
      /\ generation \in Nat
  BY LoopType, Bounds DEF IInv, TypeOK
<1>3. /\ loop' \in [Loop -> LoopState]
      /\ loop'[l] = [loop[l] EXCEPT !.at = "top"] /\ loop'[l].at = "top"
      /\ loop'[l].outcome = loop[l].outcome
      /\ \A k \in Loop \ {l} : loop'[k] = loop[k]
  BY <1>1, <1>2 DEF LoopState
<1>4. TypeOK'
  <2>1. state' \in {"stopped", "running", "stopping", "closing", "closed"}
        /\ scheduler' \in Loop \cup {None}
    BY <1>1
  <2> QED BY <1>1, <1>2, <1>3, <2>1 DEF TypeOK, LoopState, posts, album
<1>5. StopsAreCounted'
  <2>1. Started' = Started \cup {l} /\ l \notin Started
    BY <1>1, <1>3 DEF Started
  <2>2. IsFiniteSet(Started)
    BY FS_Subset, TasksAssumption DEF Started
  <2>3. Cardinality(Started') = Cardinality(Started) + 1
    BY <2>1, <2>2, FS_AddElement
  <2>4. generation + 0 <= Cardinality(Started)
    BY <1>1 DEF IInv, StopsAreCounted
  <2>5. generation' + 1 <= Cardinality(Started')
    BY <1>1, <1>2, <2>3, <2>4, Bounds
  <2> QED BY <1>1, <2>1, <2>5 DEF StopsAreCounted
<1>6. CommentsOK' /\ AlbumsOK'
  BY <1>1 DEF IInv, CommentsOK, OneCommentPerAlbum, AlbumsOK, NoElementStuck, FlushIsSpared,
     posts, album
<1>7. RowKept /\ AheadShrinks
  BY <1>1, <1>3 DEF RowKept, AheadShrinks, Ahead
<1>8. FiredAtMostOnce' /\ Taken'
  BY <1>1, <1>7, TakenKept DEF IInv, TimersOK
<1>9. Selects'
  <2>1. \A k \in Loop : ~Selecting(k)'
    BY <1>1, <1>3 DEF IInv, TimersOK, Selects, SelectsRightly, Selecting
  <2> QED BY <2>1 DEF Selects, SelectsRightly
<1>10. OneTimer'
  BY <1>1, <1>2, <1>3 DEF IInv, TimersOK, OneTimer, LoopState
<1> QED BY <1>4, <1>5, <1>6, <1>8, <1>9, <1>10 DEF IInv, TimersOK

\* A stop cancels the only loop that may be selecting.
LEMMA StopBeginsSafe ==
  ASSUME IInv, StopBegins
  PROVE  IInv'
<1> DEFINE c == loop[scheduler].at # "ended"
<1>1. /\ state = "running" /\ state' = "stopping" /\ generation' = generation + 1
      /\ loop' = [loop EXCEPT ![scheduler].cancelled = c]
      /\ UNCHANGED <<scheduler, row, fired, lock, posts, album>>
  BY DEF StopBegins
<1>2. /\ TypeOK /\ loop \in [Loop -> LoopState] /\ row \in [Timer -> Status]
      /\ generation \in Nat /\ scheduler \in Loop /\ loop[scheduler].at # "none"
  BY <1>1, LoopType, Bounds DEF IInv, TypeOK, StopsAreCounted, Started
<1>3. c \in BOOLEAN
  OBVIOUS
<1>4. /\ loop' \in [Loop -> LoopState]
      /\ \A k \in Loop :
           /\ loop'[k].at = loop[k].at /\ loop'[k].batch = loop[k].batch
           /\ loop'[k].timer = loop[k].timer /\ loop'[k].outcome = loop[k].outcome
           /\ k # scheduler => loop'[k] = loop[k]
      /\ loop'[scheduler].cancelled = c
  <2> HIDE DEF c
  <2> QED BY <1>1, <1>2, <1>3 DEF LoopState
<1>5. generation + 1 <= Cardinality(Started)
  BY <1>1 DEF IInv, StopsAreCounted
<1>6. TypeOK'
  <2>1. generation' \in 0..Cardinality(Loop)
    BY <1>1, <1>2, <1>5, Bounds
  <2>2. state' \in {"stopped", "running", "stopping", "closing", "closed"}
    BY <1>1
  <2> QED BY <1>1, <1>2, <1>4, <2>1, <2>2 DEF TypeOK, LoopState, posts, album
<1>7. StopsAreCounted'
  <2>1. Started' = Started
    BY <1>4 DEF Started
  <2>2. generation' + 0 <= Cardinality(Started')
    BY <1>1, <1>2, <1>5, <2>1
  <2> QED BY <1>1, <2>2 DEF StopsAreCounted
<1>8. CommentsOK' /\ AlbumsOK'
  BY <1>1 DEF IInv, CommentsOK, OneCommentPerAlbum, AlbumsOK, NoElementStuck, FlushIsSpared,
     posts, album
<1>9. RowKept /\ AheadShrinks
  BY <1>1, <1>4 DEF RowKept, AheadShrinks, Ahead
<1>10. FiredAtMostOnce' /\ Taken'
  BY <1>1, <1>9, TakenKept DEF IInv, TimersOK
<1>11. Selects'
  <2>1. \A k \in Loop : ~Selecting(k)'
    BY <1>1, <1>4 DEF IInv, TimersOK, Selects, SelectsRightly, Selecting
  <2> QED BY <2>1 DEF Selects, SelectsRightly
<1>12. OneTimer'
  BY <1>2, <1>4 DEF IInv, TimersOK, OneTimer
<1> QED BY <1>6, <1>7, <1>8, <1>10, <1>11, <1>12 DEF IInv, TimersOK

\* The buffer is left to the close() that is about to forget it.
LEMMA SchedulerLeftSafe ==
  ASSUME IInv, SchedulerLeft
  PROVE  IInv'
<1>1. /\ state = "stopping" /\ state' = "closing" /\ scheduler' = None
      /\ flush' = [f \in Flush |-> IF f = registered THEN "cancelled" ELSE flush[f]]
      /\ registered' = None
      /\ UNCHANGED <<generation, timers, lock, posts, items, buffer, quiet>>
  BY DEF SchedulerLeft
<1>2. TypeOK'
  BY <1>1 DEF IInv, TypeOK, timers, posts
<1>3. StopsAreCounted'
  BY <1>1, NotRunningCounts DEF IInv, Started, timers
<1>4. TimersOK' /\ CommentsOK'
  BY <1>1, TimersKeptAtRest, CommentsKept DEF IInv
<1>5. AlbumsOK'
  BY <1>1, TasksAssumption DEF IInv, AlbumsOK, NoElementStuck, FlushIsSpared, TypeOK, posts
<1> QED BY <1>2, <1>3, <1>4, <1>5 DEF IInv

LEMMA AlbumsClosedSafe ==
  ASSUME IInv, AlbumsClosed
  PROVE  IInv'
<1>1. /\ state = "closing" /\ state' = "closed" /\ buffer' = {} /\ quiet' = FALSE
      /\ update' = [u \in Element |-> IF u \in buffer THEN "done" ELSE update[u]]
      /\ UNCHANGED <<generation, scheduler, timers, lock, claimed, comments, flush, items,
                     registered>>
  BY DEF AlbumsClosed
<1>2. TypeOK'
  BY <1>1 DEF IInv, TypeOK, timers
<1>3. StopsAreCounted'
  BY <1>1, NotRunningCounts DEF IInv, Started, timers
<1>4. TimersOK'
  BY <1>1, TimersKeptAtRest DEF IInv
<1>5. CommentsOK'
  BY <1>1, CommentsFewer DEF IInv, NoneComments
<1>6. AlbumsOK'
  BY <1>1 DEF IInv, AlbumsOK, NoElementStuck, FlushIsSpared, TypeOK
<1> QED BY <1>2, <1>3, <1>4, <1>5, <1>6 DEF IInv

LEMMA DisconnectedSafe ==
  ASSUME IInv, Disconnected
  PROVE  IInv'
<1>1. /\ state = "closed" /\ state' = "stopped"
      /\ update' = [u \in Element |-> IF update[u] \in Handled THEN "done" ELSE update[u]]
      /\ UNCHANGED <<generation, scheduler, timers, lock, claimed, comments, album>>
  BY DEF Disconnected
<1>2. TypeOK'
  BY <1>1 DEF IInv, TypeOK, timers, album
<1>3. StopsAreCounted'
  BY <1>1, NotRunningCounts DEF IInv, Started, timers
<1>4. TimersOK'
  BY <1>1, TimersKeptAtRest DEF IInv
<1>5. CommentsOK'
  BY <1>1, CommentsFewer DEF IInv, NoneComments
<1>6. AlbumsOK'
  BY <1>1 DEF IInv, AlbumsOK, NoElementStuck, FlushIsSpared, TypeOK, Handled, album
<1> QED BY <1>2, <1>3, <1>4, <1>5, <1>6 DEF IInv

\* What a crash leaves are the rows and what has had its turn.
LEMMA CrashSafe ==
  ASSUME IInv, Crash
  PROVE  IInv'
<1> DEFINE ended == [Fresh EXCEPT !.at = "ended"]
<1>1. /\ state' = "stopped" /\ scheduler' = None /\ UNCHANGED <<generation, row, fired>>
      /\ loop' = [l \in Loop |-> IF loop[l].at = "none" THEN Fresh ELSE ended]
      /\ lock' = None
      /\ update' = [u \in Element |-> IF update[u] = "new" THEN "new" ELSE "done"]
      /\ claimed' = FALSE /\ comments' = 0
      /\ flush' = [f \in Flush |-> "none"] /\ items' = [f \in Flush |-> {}]
      /\ buffer' = {} /\ quiet' = FALSE /\ registered' = None
  BY DEF Crash
<1>2. /\ ended \in LoopState /\ ended.at = "ended" /\ ended.outcome = "failed"
      /\ ~ended.cancelled
  BY FreshFields DEF LoopState
<1> HIDE DEF ended
<1>3. /\ loop' \in [Loop -> LoopState]
      /\ \A l \in Loop : /\ loop'[l].at = IF loop[l].at = "none" THEN "none" ELSE "ended"
                         /\ loop'[l].outcome = "failed" /\ ~loop'[l].cancelled
  BY <1>1, <1>2, FreshFields
<1>4. TypeOK'
  <2>1. loop' \in [Loop -> LoopState] /\ comments' \in 0..Cardinality(Element)
    BY <1>1, <1>3, Bounds
  <2> QED BY <1>1, <2>1 DEF IInv, TypeOK, LoopState
<1>5. StopsAreCounted'
  <2>1. Started' = Started /\ state' # "running"
    BY <1>1, <1>3 DEF Started
  <2> QED BY <1>1, <2>1, NotRunningCounts DEF IInv
<1>6. CommentsOK' /\ AlbumsOK'
  BY <1>1, TasksAssumption DEF CommentsOK, OneCommentPerAlbum, AlbumsOK, NoElementStuck,
     FlushIsSpared
<1>7. \A l \in Loop : Ahead(l)' = {} /\ ~Selecting(l)'
  BY <1>3 DEF Ahead, Selecting
<1>8. RowKept /\ AheadShrinks
  BY <1>1, <1>7 DEF RowKept, AheadShrinks
<1>9. TimersOK'
  <2>1. FiredAtMostOnce' /\ Taken'
    BY <1>1, <1>8, TakenKept DEF IInv, TimersOK
  <2>2. Selects' /\ OneTimer'
    BY <1>1, <1>2, <1>3, <1>7, FreshFields DEF Selects, SelectsRightly, OneTimer
  <2> QED BY <2>1, <2>2 DEF TimersOK
<1> QED BY <1>4, <1>5, <1>6, <1>9 DEF IInv

-----------------------------------------------------------------------------
(* Posts and albums.                                                       *)

\* A step of posts and albums has nothing to do with timers, starts and stops.
LEMMA TimersAndStopsKept ==
  ASSUME IInv, UNCHANGED <<life, timers>>
  PROVE  StopsAreCounted' /\ TimersOK'
  BY CountKept, TimersKept DEF IInv, Started, life, timers

\* The handlers of an element that is in no album yet.
LEMMA MovesSafe ==
  ASSUME IInv, NEW u \in Element, NEW at, Moves(u, at),
         at \in {"handler", "comment", "commented", "incoming"},
         update[u] \in {"new", "handler", "comment", "commented"},
         UNCHANGED <<state, album>>
  PROVE  AlbumsOK'
  BY DEF IInv, AlbumsOK, NoElementStuck, FlushIsSpared, TypeOK, Moves, album

LEMMA PostArrivesSafe ==
  ASSUME IInv, NEW u \in Element, PostArrives(u)
  PROVE  IInv'
<1> DEFINE at == IF state = "running" THEN "handler" ELSE "incoming"
<1>1. /\ update[u] = "new" /\ Moves(u, at) /\ at \in {"handler", "incoming"}
      /\ UNCHANGED <<life, timers, lock, claimed, comments, album>>
  BY DEF PostArrives
<1> HIDE DEF at
<1>2. TypeOK'
  BY <1>1 DEF IInv, TypeOK, Moves, life, timers, album
<1>3. CommentsOK'
  <2>1. NoneComments
    BY <1>1 DEF NoneComments, Moves, IInv, TypeOK
  <2> QED BY <1>1, <2>1, CommentsFewer DEF IInv
<1>4. AlbumsOK'
  BY <1>1, MovesSafe DEF life
<1> QED BY <1>1, <1>2, <1>3, <1>4, TimersAndStopsKept DEF IInv

\* Only the first element to come claims the comment.
LEMMA ClaimSafe ==
  ASSUME IInv, NEW u \in Element, Claim(u)
  PROVE  IInv'
<1>1. /\ update[u] = "handler" /\ claimed' = TRUE
      /\ Moves(u, IF claimed THEN "incoming" ELSE "comment")
      /\ UNCHANGED <<life, timers, lock, comments, album>>
  BY DEF Claim
<1>2. TypeOK'
  BY <1>1 DEF IInv, TypeOK, Moves, life, timers, album
<1>3. CommentsOK'
  <2>1. CASE claimed
    <3>1. NoneComments
      BY <1>1, <2>1 DEF NoneComments, Moves, IInv, TypeOK
    <3> QED BY <1>1, <2>1, <3>1, CommentsFewer DEF IInv, CommentsOK, OneCommentPerAlbum, NoneComments
  <2>2. CASE ~claimed
    <3>1. comments' = 0 /\ \A v \in Element : update[v] # "comment"
      BY <1>1, <2>2 DEF IInv, CommentsOK
    <3>2. \A v \in Element : update'[v] = "comment" => v = u
      BY <1>1, <3>1 DEF Moves
    <3> QED BY <1>1, <3>1, <3>2 DEF CommentsOK, OneCommentPerAlbum
  <2> QED BY <2>1, <2>2
<1>4. AlbumsOK'
  <2>1. CASE claimed
    BY <1>1, <2>1, MovesSafe DEF life
  <2>2. CASE ~claimed
    BY <1>1, <2>2, MovesSafe DEF life
  <2> QED BY <2>1, <2>2
<1> QED BY <1>1, <1>2, <1>3, <1>4, TimersAndStopsKept DEF IInv

\* The element that has the claim is the first to comment, and the last.
LEMMA CommentSentSafe ==
  ASSUME IInv, NEW u \in Element, CommentSent(u)
  PROVE  IInv'
<1>1. /\ update[u] = "comment" /\ Moves(u, "commented") /\ comments' = comments + 1
      /\ UNCHANGED <<life, timers, lock, claimed, album>>
  BY DEF CommentSent
<1>2. comments' = 1 /\ claimed
  BY <1>1 DEF IInv, CommentsOK
<1>3. TypeOK'
  <2>1. 1 \in 0..Cardinality(Element)
    <3>1. {u} \subseteq Element /\ IsFiniteSet(Element)
      BY TasksAssumption
    <3>2. Cardinality({u}) <= Cardinality(Element)
      BY <3>1, FS_Subset
    <3>3. Cardinality({u}) = 1
      BY FS_Singleton
    <3> QED BY <3>2, <3>3, Bounds
  <2> QED BY <1>1, <1>2, <2>1 DEF IInv, TypeOK, Moves, life, timers, album
<1>4. CommentsOK'
  <2>1. \A v \in Element : update'[v] # "comment"
    BY <1>1 DEF IInv, CommentsOK, TypeOK, Moves
  <2> QED BY <1>1, <1>2, <2>1 DEF CommentsOK, OneCommentPerAlbum
<1>5. AlbumsOK'
  BY <1>1, MovesSafe DEF life
<1> QED BY <1>1, <1>3, <1>4, <1>5, TimersAndStopsKept DEF IInv

LEMMA CommentEndsSafe ==
  ASSUME IInv, NEW u \in Element, CommentEnds(u)
  PROVE  IInv'
<1>1. /\ update[u] \in {"comment", "commented"} /\ Moves(u, "incoming")
      /\ UNCHANGED <<life, timers, lock, claimed, comments, album>>
  BY DEF CommentEnds
<1>2. TypeOK'
  BY <1>1 DEF IInv, TypeOK, Moves, life, timers, album
<1>3. CommentsOK'
  <2>1. NoneComments
    BY <1>1 DEF NoneComments, Moves, IInv, TypeOK
  <2> QED BY <1>1, <2>1, CommentsFewer DEF IInv
<1>4. AlbumsOK'
  BY <1>1, MovesSafe DEF life
<1> QED BY <1>1, <1>2, <1>3, <1>4, TimersAndStopsKept DEF IInv

\* An element comes to a buffer that has a flush, or brings one along.
LEMMA AddSafe ==
  ASSUME IInv, NEW u \in Element, Add(u)
  PROVE  IInv'
<1>1. /\ update[u] = "incoming" /\ update' = [update EXCEPT ![u] = "buffered"]
      /\ buffer' = buffer \cup {u}
      /\ UNCHANGED <<life, timers, lock, claimed, comments, items>>
  BY DEF Add, Moves
<1>2. quiet' \in BOOLEAN
  BY DEF Add, IInv, TypeOK
<1>3. \/ buffer # {} /\ UNCHANGED <<flush, registered>>
      \/ \E f \in Flush : /\ flush[f] = "none" /\ flush' = [flush EXCEPT ![f] = "waiting"]
                          /\ registered' = f
  BY DEF Add
<1>4. TypeOK'
  BY <1>1, <1>2, <1>3 DEF IInv, TypeOK, life, timers
<1>5. CommentsOK'
  <2>1. NoneComments
    BY <1>1 DEF NoneComments, IInv, TypeOK
  <2> QED BY <1>1, <2>1, CommentsFewer DEF IInv
<1>6. FlushIsSpared' /\ \A f \in Flush : items'[f] # {} => flush'[f] \in {"flushing", "turn"}
  BY <1>1, <1>3 DEF IInv, AlbumsOK, FlushIsSpared, TypeOK
<1>7. /\ NoElementStuck'
      /\ registered' # None => flush'[registered'] = "waiting"
  BY <1>1, <1>3 DEF IInv, AlbumsOK, NoElementStuck, TypeOK, life
<1>8. /\ \A v \in buffer' : update'[v] = "buffered"
      /\ \A f \in Flush : \A v \in items'[f] : update'[v] = "turn"
  BY <1>1 DEF IInv, AlbumsOK, TypeOK
<1> QED BY <1>1, <1>4, <1>5, <1>6, <1>7, <1>8, TimersAndStopsKept DEF IInv, AlbumsOK

LEMMA QuietPassesSafe ==
  ASSUME IInv, QuietPasses
  PROVE  IInv'
<1>1. /\ quiet' = TRUE
      /\ UNCHANGED <<life, timers, lock, posts, flush, items, buffer, registered>>
  BY DEF QuietPasses
<1>2. TypeOK' /\ CommentsOK'
  BY <1>1, CommentsKept DEF IInv, TypeOK, life, timers, posts
<1>3. AlbumsOK'
  BY <1>1 DEF IInv, AlbumsOK, NoElementStuck, FlushIsSpared, life, posts
<1> QED BY <1>1, <1>2, <1>3, TimersAndStopsKept DEF IInv

\* What a flush takes was in no flush before.
LEMMA FlushAfterSafe ==
  ASSUME IInv, NEW f \in Flush, FlushAfter(f)
  PROVE  IInv'
<1>1. /\ flush[f] = "waiting"
      /\ flush' = [flush EXCEPT ![f] = IF buffer = {} THEN "none" ELSE "flushing"]
      /\ update' = [u \in Element |-> IF u \in buffer THEN "turn" ELSE update[u]]
      /\ items' = [items EXCEPT ![f] = buffer]
      /\ buffer' = {} /\ quiet' = FALSE /\ registered' = None
      /\ UNCHANGED <<life, timers, lock, claimed, comments>>
  BY DEF FlushAfter
<1>2. /\ flush \in [Flush -> {"none", "waiting", "cancelled", "flushing", "turn"}]
      /\ items \in [Flush -> SUBSET Element] /\ buffer \subseteq Element
  BY DEF IInv, TypeOK
<1>3. TypeOK'
  <2>1. flush' \in [Flush -> {"none", "waiting", "cancelled", "flushing", "turn"}]
    BY <1>1, <1>2
  <2> QED BY <1>1, <2>1 DEF IInv, TypeOK, life, timers
<1>4. CommentsOK'
  <2>1. NoneComments
    BY <1>1 DEF NoneComments
  <2> QED BY <1>1, <2>1, CommentsFewer DEF IInv
<1>5. /\ items'[f] = buffer /\ \A g \in Flush \ {f} : items'[g] = items[g] /\ flush'[g] = flush[g]
      /\ items'[f] # {} => flush'[f] = "flushing"
  BY <1>1, <1>2
<1>6. \A u \in buffer : \A g \in Flush : u \notin items[g]
  BY DEF IInv, AlbumsOK
<1>7. /\ \A g \in Flush : \A u \in items'[g] : update'[u] = "turn"
      /\ \A g \in Flush : items'[g] # {} => flush'[g] \in {"flushing", "turn"}
  BY <1>1, <1>2, <1>5 DEF IInv, AlbumsOK
<1>8. FlushIsSpared'
  <2> SUFFICES ASSUME NEW u \in Element, update'[u] = "turn"
               PROVE  /\ \E g \in Flush : u \in items'[g]
                      /\ \A g, h \in Flush : u \in items'[g] \cap items'[h] => g = h
    BY <1>7 DEF FlushIsSpared
  <2>1. CASE u \in buffer
    BY <1>5, <1>6, <2>1
  <2>2. CASE u \notin buffer
    <3>1. update[u] = "turn" /\ u \notin items[f]
      BY <1>1, <2>2 DEF IInv, AlbumsOK
    <3> QED BY <1>5, <2>2, <3>1 DEF IInv, AlbumsOK, FlushIsSpared
  <2> QED BY <2>1, <2>2
<1> QED BY <1>1, <1>3, <1>4, <1>7, <1>8, TimersAndStopsKept DEF IInv, AlbumsOK, NoElementStuck

\* A flush that is neither waiting for its buffer nor flushing it takes nothing along.
LEMMA FlushCancelledSafe ==
  ASSUME IInv, NEW f \in Flush, FlushCancelled(f)
  PROVE  IInv'
<1>1. /\ flush[f] = "cancelled"
      /\ flush' = [flush EXCEPT ![f] = "none"] /\ items' = [items EXCEPT ![f] = {}]
      /\ UNCHANGED <<life, timers, lock, posts, buffer, quiet, registered>>
  BY DEF FlushCancelled
<1>2. TypeOK' /\ CommentsOK'
  BY <1>1, CommentsKept DEF IInv, TypeOK, life, timers, posts
<1>3. items[f] = {} /\ items' = items
  BY <1>1 DEF IInv, AlbumsOK, TypeOK
<1>4. AlbumsOK'
  BY <1>1, <1>3 DEF IInv, AlbumsOK, NoElementStuck, FlushIsSpared, TypeOK, life, posts
<1> QED BY <1>1, <1>2, <1>4, TimersAndStopsKept DEF IInv

LEMMA FlushTurnSafe ==
  ASSUME IInv, NEW f \in Flush, FlushTurn(f)
  PROVE  IInv'
<1>1. /\ flush[f] = "flushing" /\ flush' = [flush EXCEPT ![f] = "turn"] /\ lock' = f
      /\ UNCHANGED <<life, timers, posts, items, buffer, quiet, registered>>
  BY DEF FlushTurn
<1>2. TypeOK' /\ CommentsOK'
  BY <1>1, CommentsKept DEF IInv, TypeOK, life, timers, posts
<1>3. AlbumsOK'
  BY <1>1 DEF IInv, AlbumsOK, NoElementStuck, FlushIsSpared, TypeOK, life, posts
<1> QED BY <1>1, <1>2, <1>3, TimersAndStopsKept DEF IInv

\* The elements of one flush are done, and of no other.
LEMMA DoneSafe ==
  ASSUME IInv, NEW f \in Flush, Done(f), flush[f] \in {"flushing", "turn"},
         lock' \in Loop \cup Flush \cup {None}
  PROVE  IInv'
<1>1. /\ flush' = [flush EXCEPT ![f] = "none"] /\ items' = [items EXCEPT ![f] = {}]
      /\ update' = [u \in Element |-> IF u \in items[f] THEN "done" ELSE update[u]]
      /\ UNCHANGED <<life, timers, claimed, comments, buffer, quiet, registered>>
  BY DEF Done
<1>2. TypeOK'
  BY <1>1 DEF IInv, TypeOK, life, timers
<1>3. CommentsOK'
  <2>1. NoneComments
    BY <1>1 DEF NoneComments
  <2> QED BY <1>1, <2>1, CommentsFewer DEF IInv
<1>4. /\ items'[f] = {} /\ flush'[f] = "none"
      /\ \A g \in Flush \ {f} : items'[g] = items[g] /\ flush'[g] = flush[g]
  BY <1>1 DEF IInv, TypeOK
<1>5. \A g \in Flush \ {f} : items[g] \cap items[f] = {}
  BY DEF IInv, AlbumsOK, FlushIsSpared, TypeOK
<1>6. /\ \A u \in buffer : update'[u] = "buffered"
      /\ \A g \in Flush : \A u \in items'[g] : update'[u] = "turn"
  BY <1>1, <1>4, <1>5 DEF IInv, AlbumsOK, TypeOK
<1>7. FlushIsSpared'
  <2> SUFFICES ASSUME NEW u \in Element, update'[u] = "turn"
               PROVE  /\ \E g \in Flush : u \in items'[g]
                      /\ \A g, h \in Flush : u \in items'[g] \cap items'[h] => g = h
                      /\ \A g \in Flush : u \in items'[g] => flush'[g] \in {"flushing", "turn"}
    BY DEF FlushIsSpared
  <2>1. update[u] = "turn" /\ u \notin items[f]
    BY <1>1
  <2> QED BY <1>4, <2>1 DEF IInv, AlbumsOK, FlushIsSpared
<1>8. /\ NoElementStuck'
      /\ \A g \in Flush : items'[g] # {} => flush'[g] \in {"flushing", "turn"}
      /\ registered' # None => flush'[registered'] = "waiting"
  BY <1>1, <1>4 DEF IInv, AlbumsOK, NoElementStuck, TypeOK, life
<1> QED BY <1>1, <1>2, <1>3, <1>6, <1>7, <1>8, TimersAndStopsKept DEF IInv, AlbumsOK

-----------------------------------------------------------------------------
(* The invariant, and what follows from it.                                *)

LEMMA InitSafe == Init => IInv
<1> SUFFICES ASSUME Init PROVE IInv
  OBVIOUS
<1>1. TypeOK
  <2>1. loop \in [Loop -> LoopState] /\ 0 \in 0..Cardinality(Loop) /\ 0 \in 0..Cardinality(Element)
    BY Bounds, FreshFields DEF Init
  <2>2. row \in [Timer -> Status] /\ update \in [Element -> {"new", "done"}]
    BY DEF Init, Status
  <2>3. fired \in [Timer -> 0..2]
    BY DEF Init
  <2> QED BY <2>1, <2>2, <2>3 DEF Init, TypeOK, LoopState
<1>2. StopsAreCounted
  <2>1. generation + 0 <= Cardinality(Started)
    BY Bounds DEF Init
  <2> QED BY <2>1 DEF Init, StopsAreCounted
<1>3. \A l \in Loop : Ahead(l) = {} /\ ~Selecting(l)
  BY FreshFields DEF Init, Ahead, Selecting
<1>4. TimersOK
  BY <1>3, FreshFields DEF Init, TimersOK, FiredAtMostOnce, Taken, Selects, SelectsRightly, OneTimer
<1>5. CommentsOK
  BY DEF Init, CommentsOK, OneCommentPerAlbum
<1>6. AlbumsOK
  BY DEF Init, AlbumsOK, NoElementStuck, FlushIsSpared
<1> QED BY <1>1, <1>2, <1>4, <1>5, <1>6 DEF IInv

LEMMA StutterSafe ==
  ASSUME IInv, UNCHANGED vars
  PROVE  IInv'
<1>1. TypeOK' /\ StopsAreCounted'
  BY CountKept DEF IInv, TypeOK, Started, vars
<1>2. TimersOK' /\ CommentsOK' /\ AlbumsOK'
  BY TimersKept, CommentsKept, AlbumsKept DEF IInv, vars, timers, posts, album
<1> QED BY <1>1, <1>2 DEF IInv

LEMMA NextSafe == IInv /\ [Next]_vars => IInv'
<1> SUFFICES ASSUME IInv, [Next]_vars PROVE IInv'
  OBVIOUS
<1>1. CASE StopBegins
  BY <1>1, StopBeginsSafe
<1>2. CASE SchedulerLeft
  BY <1>2, SchedulerLeftSafe
<1>3. CASE AlbumsClosed
  BY <1>3, AlbumsClosedSafe
<1>4. CASE Disconnected
  BY <1>4, DisconnectedSafe
<1>5. CASE Crash
  BY <1>5, CrashSafe
<1>6. CASE QuietPasses
  BY <1>6, QuietPassesSafe
<1>7. ASSUME NEW l \in Loop, Start(l) \/ Step(l) \/ CancelSwallowed(l) \/ DatabaseFails(l)
      PROVE  IInv'
  <2>1. CASE Start(l)
    BY <2>1, StartSafe
  <2>2. CASE LoopTop(l)
    BY <2>2, LoopTopSafe
  <2>3. CASE SelectDue(l)
    BY <2>3, SelectDueSafe
  <2>4. CASE CommitRunning(l)
    BY <2>4, CommitRunningSafe
  <2>5. CASE NextTimer(l)
    BY <2>5, NextTimerSafe
  <2>6. CASE PeerChecked(l)
    BY <2>6, PeerCheckedSafe
  <2>7. CASE TurnAdmitted(l)
    BY <2>7, TurnAdmittedSafe
  <2>8. CASE TurnEnds(l) \/ CancelSwallowed(l)
    BY <2>8, TurnEndsSafe
  <2>9. CASE RowWritten(l)
    BY <2>9, RowWrittenSafe
  <2>10. CASE Slept(l)
    BY <2>10, SleptSafe
  <2>11. CASE LoopCancelled(l)
    BY <2>11, LoopCancelledSafe
  <2>12. CASE DatabaseFails(l)
    BY <2>12, DatabaseFailsSafe
  <2> QED BY <1>7, <2>1, <2>2, <2>3, <2>4, <2>5, <2>6, <2>7, <2>8, <2>9, <2>10, <2>11, <2>12
      DEF Step
<1>8. ASSUME NEW m \in Timer, TimerDue(m) PROVE IInv'
  BY <1>8, TimerDueSafe
<1>9. ASSUME NEW u \in Element,
             PostArrives(u) \/ Claim(u) \/ CommentSent(u) \/ CommentEnds(u) \/ Add(u)
      PROVE  IInv'
  BY <1>9, PostArrivesSafe, ClaimSafe, CommentSentSafe, CommentEndsSafe, AddSafe
<1>10. ASSUME NEW f \in Flush, FlushStep(f) PROVE IInv'
  <2>1. CASE FlushAfter(f)
    BY <2>1, FlushAfterSafe
  <2>2. CASE FlushCancelled(f)
    BY <2>2, FlushCancelledSafe
  <2>3. CASE FlushTurn(f)
    BY <2>3, FlushTurnSafe
  <2>4. CASE FlushDropped(f) \/ FlushEnds(f)
    <3>1. lock' \in Loop \cup Flush \cup {None} /\ Done(f) /\ flush[f] \in {"flushing", "turn"}
      BY <2>4 DEF FlushDropped, FlushEnds, IInv, TypeOK
    <3> QED BY <3>1, DoneSafe
  <2> QED BY <1>10, <2>1, <2>2, <2>3, <2>4 DEF FlushStep
<1>11. CASE UNCHANGED vars
  BY <1>11, StutterSafe
<1> QED BY <1>1, <1>2, <1>3, <1>4, <1>5, <1>6, <1>7, <1>8, <1>9, <1>10, <1>11 DEF Next

LEMMA AlwaysSafe == Spec => []IInv
  BY InitSafe, NextSafe, PTL DEF Spec

\* The runtime, its loops, the rows of the timers and the albums are what their
\* classes and tables say; in particular a start for every stop is enough for
\* _stop_generation, and a comment is one of the elements'.
THEOREM TypeCorrect == Spec => []TypeOK
<1>1. IInv => TypeOK
  BY DEF IInv
<1> QED BY <1>1, AlwaysSafe, PTL

\* A timer has at most one turn, with any number of loops that outlive the stop
\* that cancelled them: only the scheduler selects, and what it commits as
\* running is in no other loop's batch.
THEOREM TimerHasOneTurn == Spec => []FiredAtMostOnce
<1>1. IInv => FiredAtMostOnce
  BY DEF IInv, TimersOK
<1> QED BY <1>1, AlwaysSafe, PTL

\* A runtime writes one first comment under an album of any length
\* (PostedAlbumGuard.claim).
THEOREM AlbumHasOneComment == Spec => []OneCommentPerAlbum
<1>1. IInv => OneCommentPerAlbum
  BY DEF IInv, CommentsOK
<1> QED BY <1>1, AlwaysSafe, PTL

\* AlbumGrouper never has a buffer that no flush and no close() will empty.
THEOREM BufferHasItsFlush == Spec => []NoElementStuck
<1>1. IInv => NoElementStuck
  BY DEF IInv, AlbumsOK
<1> QED BY <1>1, AlwaysSafe, PTL

\* close() cancels only flushes that have taken nothing, and an element is in one
\* flush only: no element is lost or answered twice while its album is flushed.
THEOREM FlushGoesOn == Spec => []FlushIsSpared
<1>1. IInv => FlushIsSpared
  BY DEF IInv, AlbumsOK
<1> QED BY <1>1, AlwaysSafe, PTL

=============================================================================
