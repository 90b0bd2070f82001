--------------------------- MODULE SendWindowProofs ---------------------------
(***************************************************************************)
(* Theorems about SendWindow, for any number of tasks and any durations.   *)
(*                                                                         *)
(* The lock is the argument: what a tool learned at its check stays true   *)
(* until it sends because only who holds the lock spends the slot or is    *)
(* refused.  The rest says when the tracker knows that a slot is spent.    *)
(***************************************************************************)
EXTENDS SendWindow, TLAPS

\* Where a task of each kind can be.
Places(op) ==
  CASE op = "none" -> {"idle"}
    [] op = "tool" -> Place \ {"idle", "sleep"}
    [] op = "comment" -> {"send", "answer"}
    [] op = "reply" -> Place \ {"idle"}
    [] op = "gate" -> {"check", "entity", "full", "fullRead"}

\* The tasks that must have the lock.
Holds(c) ==
  \/ c.op = "tool" /\ c.at # "queued"
  \/ c.op = "reply" /\ c.at \in {"send", "answer", "sleep"}

Writes(c) == c.op \in {"tool", "reply"}

\* Between the check of a tool and its message.
Checked(c) == c.op = "tool" /\ c.at \in {"entity", "full", "fullRead", "send"}

\* What SlowModeIsForeseen excuses of all that went before.
Excused == blind \/ flooded

USE DEF Excused, ghosts, Chat, Open, SlowMode

\* What a task has learned and still relies on.
Sighted(c) ==
  /\ c.at = "fullRead" => c.slow = chat.slow
  /\ (c.op = "tool" /\ c.at = "send" /\ ~c.lapsed) => chat.next = 0
  /\ (Writes(c) /\ c.at = "answer" /\ c.outcome = "slow") => chat.next <= c.slot

TaskOK(t) ==
  /\ task[t].at \in Places(task[t].op)
  /\ task[t].at \in {"answer", "sleep"} => task[t].slot # None
  /\ Holds(task[t]) => lock = t
  /\ Checked(task[t]) => refused["message"] = 0
  /\ ~Excused => Sighted(task[t])

\* A message has been taken and is not accounted for yet.
InFlight == \E t \in Task : Writes(task[t]) /\ task[t].at = "answer" /\ task[t].outcome = "sent"

\* A spent slot is known, or about to be, or nothing is sent before it is asked for.
Covered ==
  \/ chat.next <= blocked
  \/ InFlight
  \/ base.window.reason = "restricted"
  \/ base.ttl <= forced

SlotOK ==
  /\ ~chat.slow => chat.next = 0
  /\ refused["message"] <= forced
  /\ ~Excused => /\ (base.window = Open /\ base.ttl > 0 => ~chat.slow)
                 /\ Covered

IInv == TypeOK /\ SlotOK /\ \A t \in Task : TaskOK(t)

-----------------------------------------------------------------------------
(* The pieces that steps are made of.                                      *)

LEMMA IdleType == Idle \in TaskState
  BY WindowAssumption DEF Idle, TaskState, Op, Place, Outcome

\* The three kinds of windows.
LEMMA WindowKinds ==
  /\ Open \in Window /\ SlowMode \in Window
  /\ \A opens \in Lasting : Restricted(opens) \in Window /\ Restricted(opens).reason = "restricted"
  /\ \A w \in Window : w = Open \/ w = SlowMode \/ w.reason = "restricted"
  /\ Open.reason = "open" /\ SlowMode.reason = "slow" /\ Open # SlowMode
<1>1. ASSUME NEW opens \in Lasting
      PROVE  Restricted(opens) \in Window /\ Restricted(opens).reason = "restricted"
  BY DEF Window, Restricted
<1>2. ASSUME NEW w \in Window PROVE w = Open \/ w = SlowMode \/ w.reason = "restricted"
  BY DEF Window, Restricted
<1>3. Open \in Window /\ SlowMode \in Window
  BY DEF Window
<1>4. Open.reason = "open" /\ SlowMode.reason = "slow" /\ Open # SlowMode
  OBVIOUS
<1> QED BY <1>1, <1>2, <1>3, <1>4

\* What the chat says is one of them.
LEMMA ChatWindow ==
  ASSUME TypeOK
  PROVE  /\ WindowFromChat \in Window
         /\ (WindowFromChat.reason # "restricted" /\ WindowFromChat # SlowMode) => ~chat.slow
<1>1. chat.ban \in Lasting /\ None \in Lasting
  BY DEF TypeOK, Lasting
<1>2. CASE chat.ban # 0
  <2>1. PICK opens \in Lasting : WindowFromChat = Restricted(opens)
    BY <1>1, <1>2 DEF WindowFromChat
  <2> QED BY <2>1, WindowKinds
<1>3. CASE chat.ban = 0
  BY <1>3, WindowKinds DEF WindowFromChat
<1> QED BY <1>2, <1>3

\* A step of t that keeps all the other tasks.
Only(t) == task' \in [Task -> TaskState] /\ \A u \in Task \ {t} : task'[u] = task[u]

LEMMA GoesFacts ==
  ASSUME TypeOK, NEW t \in Task, NEW at \in Place, Goes(t, at)
  PROVE  /\ Only(t) /\ lock' = lock
         /\ task'[t] = [task[t] EXCEPT !.at = at]
  BY DEF TypeOK, Goes, Only, TaskState

LEMMA LeavesFacts ==
  ASSUME TypeOK, NEW t \in Task, Leaves(t)
  PROVE  /\ Only(t) /\ task'[t] = Idle
         /\ lock' = IF lock = t THEN None ELSE lock
  BY IdleType DEF TypeOK, Leaves, Only

-----------------------------------------------------------------------------
(* What a step of t leaves to the other tasks.                             *)

\* Only who has the lock spends a slot or is refused.
Keeps(t) ==
  /\ (Excused => Excused')
  /\ lock = t \/ (refused["message"] = 0 => refused'["message"] = 0)
  /\ ~Excused' => /\ chat'.slow = chat.slow
                  /\ lock = t \/ chat'.next <= chat.next
  /\ \A u \in Task \ {t} : lock = u => lock' = u

LEMMA OthersOK ==
  ASSUME IInv, NEW t \in Task, Only(t), Keeps(t), chat'.next \in Nat,
         NEW u \in Task \ {t}
  PROVE  TaskOK(u)'
<1> DEFINE c == task[u]
<1>1. task'[u] = c /\ TaskOK(u) /\ c \in TaskState
  BY DEF IInv, TypeOK, Only
<1>2. Holds(c) => lock = u /\ lock' = u /\ lock # t
  BY <1>1 DEF TaskOK, Keeps
<1>3. Checked(c) => Holds(c)
  BY DEF Checked, Holds
<1>4. Checked(c) => refused'["message"] = 0
  BY <1>1, <1>2, <1>3 DEF TaskOK, Keeps
<1>5. ASSUME ~Excused' PROVE Sighted(c)'
  <2>1. Sighted(c) /\ chat'.slow = chat.slow
    BY <1>1, <1>5 DEF TaskOK, Keeps
  <2>2. chat.next \in Nat /\ (Holds(c) => chat'.next <= chat.next)
    BY <1>2, <1>5 DEF IInv, TypeOK, Keeps
  <2>3. c.slot \in Nat \/ c.slot = None
    BY <1>1 DEF TaskState
  <2>4. c.at = "answer" => c.slot # None
    BY <1>1 DEF TaskOK
  <2>5. (Writes(c) /\ c.at = "answer") => Holds(c)
    BY DEF Writes, Holds
  <2>6. (c.op = "tool" /\ c.at = "send") => Holds(c)
    BY DEF Holds
  <2>7. (c.op = "tool" /\ c.at = "send" /\ ~c.lapsed) => chat'.next = 0
    BY <2>1, <2>2, <2>6 DEF Sighted
  <2>8. (Writes(c) /\ c.at = "answer" /\ c.outcome = "slow") => chat'.next <= c.slot
    BY <2>1, <2>2, <2>3, <2>4, <2>5 DEF Sighted
  <2> QED BY <1>1, <2>1, <2>7, <2>8 DEF Sighted, Writes
<1>6. TaskOK(u)' <=>
        /\ c.at \in Places(c.op)
        /\ c.at \in {"answer", "sleep"} => c.slot # None
        /\ Holds(c) => lock' = u
        /\ Checked(c) => refused'["message"] = 0
        /\ ~Excused' => Sighted(c)'
  BY <1>1 DEF TaskOK, Sighted, Places, Holds, Checked, Writes
<1> QED BY <1>1, <1>2, <1>4, <1>5, <1>6 DEF TaskOK

LEMMA IdleTask ==
  ASSUME NEW t \in Task, task'[t] = Idle
  PROVE  TaskOK(t)'
  BY DEF TaskOK, Idle, Places, Holds, Checked, Sighted, Writes

\* A call that ends is no matter for the others.
LEMMA LeavesOK ==
  ASSUME IInv, NEW t \in Task, Leaves(t), chat'.next \in Nat,
         Excused => Excused',
         lock = t \/ (refused["message"] = 0 => refused'["message"] = 0),
         ~Excused' => chat'.slow = chat.slow /\ chat'.next <= chat.next
  PROVE  Only(t) /\ task'[t] = Idle /\ lock' \in {lock, None} /\ \A u \in Task : TaskOK(u)'
<1>1. Only(t) /\ task'[t] = Idle /\ lock' = IF lock = t THEN None ELSE lock
  BY LeavesFacts DEF IInv
<1>2. Keeps(t)
  BY <1>1 DEF Keeps
<1> QED BY <1>1, <1>2, IdleTask, OthersOK

\* A call that goes on to another await takes its own facts along.
LEMMA GoesOK ==
  ASSUME IInv, NEW t \in Task, NEW at \in Place, Goes(t, at),
         chat' = chat, refused' = refused, Excused => Excused',
         at \in Places(task[t].op), at \notin {"fullRead", "answer", "sleep"},
         Holds([task[t] EXCEPT !.at = at]) => lock = t,
         Checked([task[t] EXCEPT !.at = at]) => refused["message"] = 0,
         (~Excused' /\ task[t].op = "tool" /\ at = "send") => chat.next = 0
  PROVE  Only(t) /\ lock' = lock /\ task'[t] = [task[t] EXCEPT !.at = at]
         /\ \A u \in Task : TaskOK(u)'
<1> DEFINE d == [task[t] EXCEPT !.at = at]
<1>1. Only(t) /\ lock' = lock /\ task'[t] = d
  BY GoesFacts DEF IInv
<1>2. chat.next \in Nat /\ task[t] \in TaskState
  BY DEF IInv, TypeOK
<1>3. Keeps(t)
  BY <1>1, <1>2 DEF Keeps
<1>4. d.at = at /\ d.op = task[t].op
  BY <1>2 DEF TaskState
<1>5. TaskOK(t)'
  <2>1. ~Excused' => Sighted(d)'
    BY <1>1, <1>4 DEF Sighted
  <2>2. (Holds(d) => lock' = t) /\ (Checked(d) => refused'["message"] = 0)
    BY <1>1
  <2>3. TaskOK(t)' <=>
          /\ d.at \in Places(d.op)
          /\ d.at \in {"answer", "sleep"} => d.slot # None
          /\ Holds(d) => lock' = t
          /\ Checked(d) => refused'["message"] = 0
          /\ ~Excused' => Sighted(d)'
    BY <1>1 DEF TaskOK, Sighted, Places, Holds, Checked, Writes
  <2> QED BY <1>4, <2>1, <2>2, <2>3
<1> QED BY <1>1, <1>2, <1>3, <1>5, OthersOK

LEMMA VerdictOK ==
  ASSUME IInv, NEW t \in Task, NEW w \in Window, Verdict(t, w),
         chat' = chat, refused' = refused, Excused => Excused', blocked' \in Nat,
         task[t].at \in {"check", "entity", "full", "fullRead"},
         task[t].op = "tool" => refused["message"] = 0,
         (~Excused' /\ task[t].op = "tool" /\ w.reason # "restricted" /\ blocked' = 0)
           => chat.next = 0
  PROVE  Only(t) /\ lock' \in {lock, None} /\ \A u \in Task : TaskOK(u)'
<1> DEFINE at == IF task[t].op = "tool" THEN "send" ELSE "queued"
           lapsed == w.reason = "restricted"
           d == [task[t] EXCEPT !.at = at, !.lapsed = lapsed]
<1>1. TaskOK(t) /\ task[t] \in TaskState /\ chat.next \in Nat /\ task \in [Task -> TaskState]
  BY DEF IInv, TypeOK
<1>2. \/ Leaves(t)
      \/ /\ task[t].op # "gate" /\ (w.reason # "restricted" => blocked' = 0)
         /\ task' = [task EXCEPT ![t].at = at, ![t].lapsed = lapsed] /\ lock' = lock
  BY DEF Verdict
<1>3. CASE Leaves(t)
  BY <1>1, <1>3, LeavesOK
<1>4. CASE /\ task[t].op # "gate" /\ (w.reason # "restricted" => blocked' = 0)
           /\ task' = [task EXCEPT ![t].at = at, ![t].lapsed = lapsed] /\ lock' = lock
  <2>1. task[t].op \in {"tool", "reply"}
    BY <1>1, <1>4 DEF TaskOK, Places, TaskState, Op
  <2>2. /\ at \in Place /\ at \in Places(task[t].op) /\ lapsed \in BOOLEAN
        /\ at \in {"send", "queued"} /\ (task[t].op = "reply" => at = "queued")
    BY <2>1 DEF Place, Places
  <2>3. task' = [task EXCEPT ![t] = d]
    BY <1>1, <1>4
  <2>4. /\ d \in TaskState /\ d.op = task[t].op /\ d.at = at
        /\ (~d.lapsed => w.reason # "restricted")
    BY <1>1, <2>2 DEF TaskState
  <2> HIDE DEF at, lapsed, d
  <2>5. Only(t) /\ task'[t] = d
    BY <1>1, <2>3, <2>4 DEF Only
  <2>6. Keeps(t)
    BY <1>1, <1>4 DEF Keeps
  <2>7. Holds(d) => lock' = t
    BY <1>1, <1>4, <2>1, <2>2, <2>4 DEF TaskOK, Holds
  <2>8. Checked(d) => refused'["message"] = 0
    BY <2>1, <2>2, <2>4 DEF Checked
  <2>9. (~Excused' /\ d.op = "tool" /\ d.at = "send" /\ ~d.lapsed) => chat'.next = 0
    BY <1>4, <2>4
  <2>10. d.at \notin {"fullRead", "answer", "sleep"} /\ d.at \in Places(d.op)
    BY <2>2, <2>4
  <2>11. TaskOK(t)'
    BY <2>5, <2>7, <2>8, <2>9, <2>10 DEF TaskOK, Sighted, Places, Holds, Checked, Writes
  <2> QED BY <1>1, <1>4, <2>5, <2>6, <2>11, OthersOK
<1> QED BY <1>2, <1>3, <1>4

Sends(t) == Writes(task[t]) /\ task[t].at = "answer" /\ task[t].outcome = "sent"

LEMMA FlightKept ==
  ASSUME NEW t \in Task, Only(t), ~Sends(t)
  PROVE  InFlight => InFlight'
<1>1. SUFFICES ASSUME NEW u \in Task, Sends(u) PROVE InFlight'
  BY DEF InFlight, Sends
<1>2. u # t /\ task'[u] = task[u]
  BY <1>1 DEF Only
<1> QED BY <1>1, <1>2 DEF InFlight, Sends, Writes

\* A step that neither changes what is known nor ends a message that was taken.
LEMMA SlotKept ==
  ASSUME IInv, NEW t \in Task, Only(t), UNCHANGED <<chat, tracker>>,
         refused'["message"] = refused["message"],
         Excused => Excused', Sends(t) => Excused'
  PROVE  SlotOK'
BY FlightKept DEF IInv, SlotOK, Covered, tracker

-----------------------------------------------------------------------------
(* The steps of a task.                                                    *)

\* A step that changes nothing but the task, the lock and what is excused.
LEMMA QuietStep ==
  ASSUME IInv, NEW t \in Task, Only(t), UNCHANGED <<chat, tracker, refused>>,
         lock' \in Task \cup {None}, blind' \in BOOLEAN, flooded' \in BOOLEAN, Excused => Excused',
         Sends(t) => Excused', \A u \in Task : TaskOK(u)'
  PROVE  IInv'
<1>1. SlotOK'
  BY SlotKept
<1>2. TypeOK'
  BY DEF IInv, TypeOK, Only, tracker
<1> QED BY <1>1, <1>2 DEF IInv

LEMMA LockedStep ==
  ASSUME IInv, NEW t \in Task, Locked(t)
  PROVE  IInv'
<1> DEFINE at == IF task[t].op = "tool" THEN "check" ELSE "send"
           d == [task[t] EXCEPT !.at = at]
<1>1. TaskOK(t) /\ task[t] \in TaskState /\ chat.next \in Nat /\ None \notin Task
  BY WindowAssumption DEF IInv, TypeOK
<1>2. task'[t] = d /\ Only(t) /\ lock = None /\ lock' = t
      /\ UNCHANGED <<chat, tracker, refused, ghosts>>
  BY DEF Locked, IInv, TypeOK, Only, TaskState, Place
<1>3. task[t].op \in {"tool", "reply"}
  BY <1>1 DEF Locked, TaskOK, Places, TaskState, Op
<1>4. Keeps(t)
  BY <1>1, <1>2 DEF Keeps
<1>5. d.op = task[t].op /\ d.at = at
  BY <1>1 DEF TaskState
<1>6. TaskOK(t)'
  BY <1>2, <1>3, <1>5 DEF TaskOK, Places, Place, Holds, Checked, Sighted, Writes
<1>7. \A u \in Task : TaskOK(u)'
  BY <1>1, <1>2, <1>4, <1>6, OthersOK
<1>8. ~Sends(t)
  BY DEF Locked, Sends
<1> QED BY <1>2, <1>7, <1>8, QuietStep DEF IInv, TypeOK

LEMMA BeginStep ==
  ASSUME IInv, NEW t \in Task, BeginTool(t) \/ BeginComment(t) \/ BeginReply(t) \/ BeginGate(t)
  PROVE  IInv'
<1>1. PICK op \in Op, at \in Place :
        /\ Begin(t, op, at)
        /\ <<op, at>> \in {<<"tool", "queued">>, <<"comment", "send">>, <<"reply", "check">>,
                           <<"gate", "check">>}
        /\ UNCHANGED <<chat, tracker, refused, lock, ghosts>>
  BY DEF BeginTool, BeginComment, BeginReply, BeginGate, Op, Place
<1> DEFINE d == [Idle EXCEPT !.op = op, !.at = at]
<1>2. Only(t) /\ task[t].op = "none" /\ task'[t] = d
  <2>1. task \in [Task -> TaskState] /\ task[t].op = "none" /\ task' = [task EXCEPT ![t] = d]
    BY <1>1 DEF IInv, TypeOK, Begin
  <2>2. d \in TaskState
    BY IdleType DEF TaskState
  <2> HIDE DEF d
  <2> QED BY <2>1, <2>2 DEF Only
<1>3. d.op = op /\ d.at = at
  BY DEF Idle
<1>4. chat.next \in Nat
  BY DEF IInv, TypeOK
<1>5. Keeps(t)
  BY <1>1, <1>4 DEF Keeps
<1>6. TaskOK(t)'
  BY <1>1, <1>2, <1>3 DEF TaskOK, Places, Place, Holds, Checked, Sighted, Writes
<1>7. \A u \in Task : TaskOK(u)'
  BY <1>1, <1>2, <1>4, <1>5, <1>6, OthersOK
<1>8. ~Sends(t)
  BY <1>2 DEF Sends, Writes
<1> QED BY <1>1, <1>2, <1>7, <1>8, QuietStep DEF IInv, TypeOK

\* A tool is told to send by a window that foresees the slot: nobody else can be
\* between a message and its accounting.
LEMMA FreeSlot ==
  ASSUME IInv, NEW t \in Task, ~Excused, lock = t, task[t].at # "answer",
         forced = 0, base.ttl > 0, base.window.reason # "restricted", blocked = 0
  PROVE  chat.next = 0
<1>1. Covered /\ chat.next \in Nat /\ base.ttl \in Nat
  BY DEF IInv, SlotOK, TypeOK
<1>2. ~InFlight
  <2>1. SUFFICES ASSUME NEW u \in Task, Writes(task[u]), task[u].at = "answer" PROVE FALSE
    BY DEF InFlight
  <2>2. Holds(task[u]) /\ TaskOK(u)
    BY <2>1 DEF IInv, Holds, Writes
  <2> QED BY <2>1, <2>2 DEF TaskOK
<1> QED BY <1>1, <1>2 DEF Covered

LEMMA CheckStep ==
  ASSUME IInv, NEW t \in Task, CheckForced(t) \/ CheckCached(t) \/ CheckAsks(t)
  PROVE  IInv'
<1>1. task[t].at = "check" /\ UNCHANGED <<chat, tracker, refused, ghosts>> /\ ~Sends(t)
  BY DEF CheckForced, CheckCached, CheckAsks, Sends
<1>2. /\ TaskOK(t) /\ task[t] \in TaskState /\ chat.next \in Nat
      /\ forced \in Nat /\ base.ttl \in Nat /\ blocked \in Nat /\ SlotOK
      /\ refused["message"] \in Nat
  BY DEF IInv, TypeOK
<1>3. (task[t].op = "tool" /\ forced = 0) => lock = t /\ refused["message"] = 0
  BY <1>1, <1>2 DEF TaskOK, Holds, SlotOK
<1>4. CASE CheckForced(t)
  <2>1. Leaves(t) /\ chat' = chat /\ refused' = refused
    BY <1>4 DEF CheckForced
  <2>2. Only(t) /\ lock' \in {lock, None} /\ \A u \in Task : TaskOK(u)'
    BY <1>1, <1>2, <2>1, LeavesOK
  <2> QED BY <1>1, <2>2, QuietStep DEF IInv, TypeOK
<1>5. CASE CheckCached(t)
  <2>1. Verdict(t, base.window) /\ forced = 0 /\ base.ttl > 0
    BY <1>5 DEF CheckCached
  <2>2. blocked' = blocked /\ chat' = chat /\ refused' = refused /\ blind' = blind
    BY <1>1 DEF tracker
  <2>3. (~Excused' /\ task[t].op = "tool" /\ base.window.reason # "restricted" /\ blocked' = 0)
          => chat.next = 0
    BY <1>1, <1>3, <2>1, <2>2, FreeSlot
  <2>4. Only(t) /\ lock' \in {lock, None} /\ \A u \in Task : TaskOK(u)'
    <3>1. base.window \in Window
      BY DEF IInv, TypeOK
    <3>2. (Excused => Excused') /\ blocked' \in Nat
      BY <1>1, <1>2, <2>2
    <3>3. task[t].at \in {"check", "entity", "full", "fullRead"}
          /\ (task[t].op = "tool" => refused["message"] = 0)
      BY <1>1, <1>3, <2>1
    <3> QED BY <2>1, <2>2, <2>3, <3>1, <3>2, <3>3, VerdictOK
  <2> QED BY <1>1, <2>4, QuietStep DEF IInv, TypeOK
<1>6. CASE CheckAsks(t)
  <2>1. Goes(t, "entity") /\ forced = 0 /\ "entity" \in Place
    BY <1>6 DEF CheckAsks, Place
  <2>2. task[t].op \in {"tool", "reply", "gate"}
    BY <1>1, <1>2 DEF TaskOK, Places, TaskState, Op
  <2>3. "entity" \in Places(task[t].op)
    BY <2>2 DEF Places, Place
  <2>4. Holds([task[t] EXCEPT !.at = "entity"]) => lock = t
    BY <1>2, <1>3, <2>1 DEF Holds, TaskState
  <2>5. Checked([task[t] EXCEPT !.at = "entity"]) => refused["message"] = 0
    BY <1>2, <1>3, <2>1 DEF Checked, TaskState
  <2>6. Only(t) /\ lock' = lock /\ \A u \in Task : TaskOK(u)'
    BY <1>1, <2>1, <2>3, <2>4, <2>5, GoesOK
  <2> QED BY <1>1, <2>6, QuietStep DEF IInv, TypeOK
<1> QED BY <1>4, <1>5, <1>6

\* A window that is found open has no slot to wait for.
LEMMA OpenWindow ==
  ASSUME IInv, WindowFromChat # SlowMode, WindowFromChat.reason # "restricted"
  PROVE  chat.next = 0 /\ ~chat.slow
BY ChatWindow DEF IInv, SlotOK

\* What is stored covers the slot: an open window has none, a closed one is asked
\* for again, and one with slow mode was asked for.
LEMMA CacheStep ==
  ASSUME IInv, NEW t \in Task, NEW w \in Window, Cache(w), Only(t),
         UNCHANGED <<chat, forced, refused>>, blocked' \in 0..Slot,
         blind' \in BOOLEAN, flooded' \in BOOLEAN, Excused => Excused', lock' \in Task \cup {None},
         (~Excused' /\ w = Open) => ~chat.slow,
         (~Excused' /\ w = SlowMode) => chat.next <= blocked' \/ InFlight',
         \A u \in Task : TaskOK(u)'
  PROVE  IInv'
<1>1. base' \in [window : Window, ttl : 0..EntityTtl] /\ base'.window = w
  BY WindowAssumption DEF Cache
<1>2. TypeOK'
  BY <1>1 DEF IInv, TypeOK, Only
<1>3. ~Excused' => Covered'
  <2>1. CASE w = Open
    BY <2>1 DEF IInv, SlotOK, TypeOK, Covered
  <2>2. CASE w = SlowMode
    BY <2>2 DEF Covered
  <2>3. CASE w.reason = "restricted"
    BY <1>1, <2>3 DEF Covered
  <2> QED BY <2>1, <2>2, <2>3, WindowKinds
<1>4. SlotOK'
  BY <1>1, <1>3, WindowKinds DEF IInv, SlotOK
<1> QED BY <1>2, <1>4 DEF IInv

\* A check on its way to another question to Telegram.
LEMMA AsksStep ==
  ASSUME IInv, NEW t \in Task, task[t].at \in {"check", "entity"}, Goes(t, "full"),
         task[t].op = "tool" => lock = t /\ refused["message"] = 0,
         UNCHANGED <<chat, tracker, refused, ghosts>>
  PROVE  IInv'
<1>1. TaskOK(t) /\ task[t] \in TaskState /\ ~Sends(t) /\ "full" \in Place
  BY DEF IInv, TypeOK, Sends, Place
<1>2. task[t].op \in {"tool", "reply", "gate"}
  BY <1>1 DEF TaskOK, Places, TaskState, Op
<1>3. "full" \in Places(task[t].op)
  BY <1>2 DEF Places, Place
<1>4. Holds([task[t] EXCEPT !.at = "full"]) => lock = t
  BY <1>1 DEF Holds, TaskState
<1>5. Checked([task[t] EXCEPT !.at = "full"]) => refused["message"] = 0
  BY <1>1 DEF Checked, TaskState
<1>6. Only(t) /\ lock' = lock /\ \A u \in Task : TaskOK(u)'
  BY <1>1, <1>3, <1>4, <1>5, GoesOK
<1> QED BY <1>1, <1>6, QuietStep DEF IInv, TypeOK

LEMMA CheckEventStep ==
  ASSUME IInv, NEW t \in Task, CheckEvent(t)
  PROVE  IInv'
<1> DEFINE w == WindowFromChat
<1>1. /\ task[t].op = "gate" /\ task[t].at = "check" /\ forced = 0
      /\ UNCHANGED <<chat, blocked, forced, refused, ghosts>>
      /\ ~Sends(t) /\ w \in Window
  BY ChatWindow DEF CheckEvent, Sends, Writes, IInv
<1>2. /\ chat.next \in Nat /\ base.ttl \in Nat /\ SlotOK /\ lock \in Task \cup {None}
      /\ blocked \in 0..Slot /\ blind \in BOOLEAN /\ flooded \in BOOLEAN
  BY DEF IInv, TypeOK
<1>3. CASE w = SlowMode /\ ~(base.ttl > 0 /\ base.window = SlowMode)
  <2>1. Goes(t, "full") /\ UNCHANGED base
    BY <1>3 DEF CheckEvent
  <2> QED BY <1>1, <2>1, AsksStep DEF tracker
<1>4. CASE ~(w = SlowMode /\ ~(base.ttl > 0 /\ base.window = SlowMode))
  <2>1. Cache(w) /\ Leaves(t)
    BY <1>4 DEF CheckEvent
  <2>2. Only(t) /\ lock' \in {lock, None} /\ \A u \in Task : TaskOK(u)'
    BY <1>1, <1>2, <2>1, LeavesOK
  <2>3. (~Excused' /\ w = SlowMode) => chat.next <= blocked' \/ InFlight'
    BY <1>1, <1>2, <1>4, <2>2, FlightKept DEF SlotOK, Covered
  <2>4. w = Open => ~chat.slow
    BY ChatWindow, WindowKinds DEF IInv
  <2> HIDE DEF w
  <2> QED BY <1>1, <1>2, <2>1, <2>2, <2>3, <2>4, CacheStep
<1> QED BY <1>3, <1>4

LEMMA EntityReadStep ==
  ASSUME IInv, NEW t \in Task, EntityRead(t)
  PROVE  IInv'
<1> DEFINE w == WindowFromChat
<1>1. /\ task[t].at = "entity" /\ UNCHANGED <<chat, blocked, forced, refused, ghosts>>
      /\ ~Sends(t) /\ w \in Window
  BY ChatWindow DEF EntityRead, Sends, IInv
<1>2. /\ TaskOK(t) /\ chat.next \in Nat /\ lock \in Task \cup {None} /\ SlotOK
      /\ blocked \in 0..Slot /\ 0..Slot \subseteq Nat /\ blind \in BOOLEAN /\ flooded \in BOOLEAN
  BY WindowAssumption DEF IInv, TypeOK
<1>3. task[t].op = "tool" => lock = t /\ refused["message"] = 0
  BY <1>1, <1>2 DEF TaskOK, Holds, Checked
<1>4. CASE w = SlowMode
  <2>1. Goes(t, "full") /\ UNCHANGED base
    BY <1>4 DEF EntityRead
  <2> QED BY <1>1, <1>3, <2>1, AsksStep DEF tracker
<1>5. CASE w # SlowMode
  <2>1. Cache(w) /\ Verdict(t, w)
    BY <1>5 DEF EntityRead
  <2>2. w.reason # "restricted" => ~chat.slow /\ chat.next = 0
    BY <1>5, OpenWindow
  <2>3. Only(t) /\ lock' \in {lock, None} /\ \A u \in Task : TaskOK(u)'
    BY <1>1, <1>2, <1>3, <2>1, <2>2, VerdictOK
  <2> HIDE DEF w
  <2> QED BY <1>1, <1>2, <1>5, <2>1, <2>2, <2>3, CacheStep
<1> QED BY <1>4, <1>5

LEMMA FailedQuestionStep ==
  ASSUME IInv, NEW t \in Task, EntityFails(t) \/ FullFails(t)
  PROVE  IInv'
<1>1. /\ task[t].at \in {"entity", "full"} /\ UNCHANGED <<chat, blocked, forced, refused>>
      /\ blind' = TRUE /\ flooded' = flooded /\ Verdict(t, Open) /\ ~Sends(t) /\ Open \in Window
      /\ (UNCHANGED base \/ Cache(Open))
  BY WindowKinds DEF EntityFails, FullFails, Blinded, Sends, tracker
<1>2. /\ TaskOK(t) /\ chat.next \in Nat /\ lock \in Task \cup {None}
      /\ blocked \in 0..Slot /\ 0..Slot \subseteq Nat /\ blind \in BOOLEAN /\ flooded \in BOOLEAN
  BY WindowAssumption DEF IInv, TypeOK
<1>3. task[t].op = "tool" => refused["message"] = 0
  BY <1>1, <1>2 DEF TaskOK, Checked
<1>4. Only(t) /\ lock' \in {lock, None} /\ \A u \in Task : TaskOK(u)'
  BY <1>1, <1>2, <1>3, VerdictOK
<1>5. CASE UNCHANGED base
  BY <1>1, <1>2, <1>4, <1>5, QuietStep DEF tracker
<1>6. CASE Cache(Open)
  BY <1>1, <1>2, <1>4, <1>6, CacheStep
<1> QED BY <1>1, <1>5, <1>6

\* The answer is as it was when Telegram gave it.
LEMMA FullReadStep ==
  ASSUME IInv, NEW t \in Task, FullRead(t)
  PROVE  IInv'
<1> DEFINE s == IF chat.next > 0 THEN chat.next ELSE None
           d == [task[t] EXCEPT !.at = "fullRead", !.slow = chat.slow, !.slot = s]
<1>1. /\ task[t].at = "full" /\ UNCHANGED <<chat, tracker, refused, lock, ghosts>>
      /\ ~Sends(t)
  BY DEF FullRead, Sends
<1>2. /\ TaskOK(t) /\ task[t] \in TaskState /\ chat.next \in Nat /\ lock \in Task \cup {None}
      /\ task \in [Task -> TaskState] /\ s \in 0..Slot \cup {None} /\ chat.slow \in BOOLEAN
  BY DEF IInv, TypeOK
<1>3. d \in TaskState /\ d.op = task[t].op /\ d.at = "fullRead" /\ d.slow = chat.slow
  BY <1>2 DEF TaskState, Place
<1>4. task' = [task EXCEPT ![t] = d]
  BY <1>2 DEF FullRead, TaskState
<1>5. Only(t) /\ task'[t] = d
  BY <1>2, <1>3, <1>4 DEF Only
<1>6. task[t].op \in {"tool", "reply", "gate"}
  BY <1>1, <1>2 DEF TaskOK, Places, TaskState, Op
<1>7. /\ Holds(task[t]) => lock = t
      /\ Checked(task[t]) => refused["message"] = 0
  BY <1>2 DEF TaskOK
<1> HIDE DEF d
<1>8. TaskOK(t)'
  BY <1>1, <1>3, <1>5, <1>6, <1>7 DEF TaskOK, Places, Place, Holds, Checked, Sighted, Writes
<1>9. Keeps(t)
  BY <1>1, <1>2 DEF Keeps
<1>10. \A u \in Task : TaskOK(u)'
  BY <1>1, <1>2, <1>5, <1>8, <1>9, OthersOK
<1> QED BY <1>1, <1>2, <1>5, <1>10, QuietStep DEF IInv, TypeOK

LEMMA FullAnsweredStep ==
  ASSUME IInv, NEW t \in Task, FullAnswered(t)
  PROVE  IInv'
<1> DEFINE w == IF task[t].slow THEN SlowMode ELSE Open
<1>1. /\ task[t].at = "fullRead" /\ UNCHANGED <<chat, forced, refused>>
      /\ blocked' = IF task[t].slot = None THEN blocked ELSE task[t].slot
      /\ blind' = (blind \/ blocked' < chat.next)
      /\ Cache(w) /\ Verdict(t, w) /\ ~Sends(t) /\ w \in Window
      /\ flooded' = flooded
  BY WindowKinds DEF FullAnswered, Sends
<1>2. /\ TaskOK(t) /\ task[t] \in TaskState /\ chat.next \in Nat
      /\ lock \in Task \cup {None} /\ blocked \in 0..Slot /\ blind \in BOOLEAN /\ flooded \in BOOLEAN
      /\ chat.slow \in BOOLEAN /\ SlotOK
  BY DEF IInv, TypeOK
<1>3. blocked' \in 0..Slot
  BY <1>1, <1>2 DEF TaskState
<1>4. blocked' \in Nat /\ Slot \in Nat
  BY <1>3, WindowAssumption
<1>5. blind' \in BOOLEAN /\ (Excused => Excused') /\ (~Excused' => chat.next <= blocked')
  <2>1. blind' = (blind \/ blocked' < chat.next)
    BY <1>1
  <2>2. ~(blocked' < chat.next) => chat.next <= blocked'
    BY <1>2, <1>4
  <2>3. blind' \in BOOLEAN
    BY <2>1, Zenon
  <2>4. Excused => Excused'
    BY <1>1, <2>1, Zenon
  <2> QED BY <2>1, <2>2, <2>3, <2>4, Zenon
<1>6. ~Excused' => task[t].slow = chat.slow
  BY <1>1, <1>2, <1>5 DEF TaskOK, Sighted
<1>7. task[t].op = "tool" => refused["message"] = 0
  BY <1>1, <1>2 DEF TaskOK, Checked
<1>8. (~Excused' /\ blocked' = 0) => chat.next = 0
  BY <1>2, <1>4, <1>5
<1>9. Only(t) /\ lock' \in {lock, None} /\ \A u \in Task : TaskOK(u)'
  BY <1>1, <1>4, <1>5, <1>7, <1>8, VerdictOK
<1>10. (~Excused' /\ w = Open) => ~chat.slow
  BY <1>6, WindowKinds
<1> HIDE DEF w
<1> QED BY <1>1, <1>2, <1>3, <1>5, <1>9, <1>10, CacheStep

-----------------------------------------------------------------------------
(* Sending.                                                                *)

LEMMA DeliverStep ==
  ASSUME IInv, NEW t \in Task, Deliver(t)
  PROVE  IInv'
<1>0. PICK outcome \in Outcomes(t) : \E seconds \in Waits(outcome) :
        /\ task' = [task EXCEPT ![t].at = "answer", ![t].outcome = outcome,
                                ![t].slot = seconds]
        /\ chat' = IF outcome = "sent" /\ task[t].op # "comment" /\ chat.slow
                   THEN [chat EXCEPT !.next = Slot] ELSE chat
  BY Zenon DEF Deliver
<1>1. PICK seconds \in Waits(outcome) :
        /\ task' = [task EXCEPT ![t].at = "answer", ![t].outcome = outcome,
                                ![t].slot = seconds]
        /\ chat' = IF outcome = "sent" /\ task[t].op # "comment" /\ chat.slow
                   THEN [chat EXCEPT !.next = Slot] ELSE chat
  BY <1>0
<1> DEFINE d == [task[t] EXCEPT !.at = "answer", !.outcome = outcome, !.slot = seconds]
<1>2. /\ task[t].at = "send" /\ UNCHANGED <<tracker, refused, lock, ghosts>> /\ ~Sends(t)
  BY DEF Deliver, Sends
<1>3. /\ TaskOK(t) /\ task[t] \in TaskState /\ task \in [Task -> TaskState]
      /\ chat \in Chat /\ SlotOK
      /\ Slot \in Nat /\ None \notin Nat
  BY WindowAssumption DEF IInv, TypeOK
<1>4. outcome \in Outcome /\ (outcome = "sent" /\ task[t].op # "comment" => chat.next = 0)
  BY <1>3 DEF Outcomes, Outcome
<1>17. seconds \in 0..Slot /\ (outcome = "slow" => seconds = chat.next)
  BY <1>3 DEF Waits
<1>5. /\ d \in TaskState /\ d.op = task[t].op /\ d.at = "answer" /\ d.outcome = outcome
      /\ d.slot = seconds /\ d.slot # None
  <2>1. "answer" \in Place
    BY DEF Place
  <2>2. seconds # None /\ seconds \in 0..Slot \cup {None}
    BY <1>3, <1>17
  <2> QED BY <1>3, <1>4, <2>1, <2>2 DEF TaskState
<1>6. task' = [task EXCEPT ![t] = d]
  BY <1>1, <1>3 DEF TaskState
<1>7. Only(t) /\ task'[t] = d
  BY <1>3, <1>5, <1>6 DEF Only
<1>8. /\ chat' \in Chat
      /\ chat'.slow = chat.slow /\ (~chat.slow => chat'.next = chat.next)
      /\ (outcome # "sent" \/ task[t].op = "comment") => chat' = chat
  BY <1>1, <1>3
<1>9. task[t].op \in {"tool", "comment", "reply"}
  BY <1>2, <1>3 DEF TaskOK, Places, TaskState, Op
<1>10. task[t].op # "comment" => lock = t
  BY <1>2, <1>3, <1>9 DEF TaskOK, Holds
<1>11. Keeps(t)
  BY <1>2, <1>3, <1>8, <1>10 DEF Keeps
<1> HIDE DEF d
<1>12. TaskOK(t)'
  <2>1. Writes(d) /\ d.outcome = "slow" => chat'.next <= d.slot
    BY <1>3, <1>5, <1>8, <1>17
  <2> QED BY <1>2, <1>3, <1>5, <1>7, <1>9, <1>10, <2>1
          DEF TaskOK, Places, Place, Holds, Checked, Sighted, Writes
<1>13. \A u \in Task : TaskOK(u)'
  BY <1>7, <1>8, <1>11, <1>12, OthersOK
<1>14. TypeOK'
  BY <1>2, <1>7, <1>8 DEF IInv, TypeOK, Only, tracker
<1>15. Covered => Covered'
  <2>1. CASE outcome = "sent" /\ task[t].op # "comment"
    BY <1>5, <1>7, <1>9, <2>1 DEF Covered, InFlight, Writes
  <2>2. CASE ~(outcome = "sent" /\ task[t].op # "comment")
    BY <1>2, <1>7, <1>8, <2>2, FlightKept DEF Covered, tracker
  <2> QED BY <2>1, <2>2
<1>16. SlotOK'
  BY <1>2, <1>3, <1>8, <1>15 DEF SlotOK, tracker
<1> QED BY <1>13, <1>14, <1>16 DEF IInv

\* Who has sent a message has the lock.
LEMMA AnswerFacts ==
  ASSUME IInv, NEW t \in Task, Answer(t, {"tool", "reply"})
  PROVE  /\ lock = t /\ TaskOK(t) /\ task[t] \in TaskState /\ Writes(task[t])
         /\ task[t].at = "answer" /\ task[t].slot \in 0..Slot /\ SlotOK
         /\ chat.next \in 0..Slot /\ Slot \in Nat /\ 0..Slot \subseteq Nat
<1>1. TaskOK(t) /\ task[t] \in TaskState /\ SlotOK /\ chat.next \in 0..Slot
  BY DEF IInv, TypeOK
<1>2. Writes(task[t]) /\ task[t].at = "answer"
  BY DEF Answer, Writes
<1>3. lock = t /\ task[t].slot # None
  BY <1>1, <1>2 DEF TaskOK, Holds, Writes
<1>4. task[t].slot \in 0..Slot
  BY <1>1, <1>3 DEF TaskState
<1> QED BY <1>1, <1>2, <1>3, <1>4, WindowAssumption

LEMMA SentStep ==
  ASSUME IInv, NEW t \in Task, Sent(t)
  PROVE  IInv'
<1>1. /\ Answer(t, {"tool", "reply"}) /\ NoteSent /\ Leaves(t)
      /\ UNCHANGED <<chat, base, forced, refused, ghosts>>
  BY DEF Sent
<1>2. /\ lock = t /\ SlotOK /\ chat.next \in 0..Slot /\ Slot \in Nat /\ 0..Slot \subseteq Nat
  BY <1>1, AnswerFacts
<1>3. /\ Only(t) /\ lock' \in {lock, None} /\ \A u \in Task : TaskOK(u)'
  BY <1>1, <1>2, LeavesOK
<1>4. blocked' \in 0..Slot
  BY <1>1, <1>2 DEF NoteSent, IInv, TypeOK
<1>5. TypeOK'
  BY <1>1, <1>3, <1>4 DEF IInv, TypeOK, Only
<1>6. base.window \in Window /\ base.ttl \in Nat /\ forced \in Nat
  BY DEF IInv, TypeOK
<1>7. ~Excused => Covered'
  <2>1. CASE base.window = SlowMode
    BY <1>1, <1>2, <2>1 DEF NoteSent, Covered
  <2>2. CASE base.window.reason = "restricted"
    BY <1>1, <2>2 DEF Covered
  <2>3. CASE base.window = Open /\ base.ttl = 0
    BY <1>1, <1>6, <2>3 DEF Covered
  <2>4. CASE base.window = Open /\ base.ttl > 0
    <3>1. ~Excused => chat.next = 0
      BY <1>2, <2>4 DEF SlotOK
    <3>2. blocked' >= 0
      BY <1>2, <1>4
    <3> QED BY <1>1, <1>2, <3>1, <3>2, <1>4 DEF Covered
  <2> QED BY <1>6, <2>1, <2>2, <2>3, <2>4, WindowKinds
<1>8. SlotOK'
  BY <1>1, <1>2, <1>7 DEF SlotOK
<1> QED BY <1>3, <1>5, <1>8 DEF IInv

\* A refusal for a while says when the slot is free, one for good closes the chat
\* for longer than anything is cached.
LEMMA FailedStep ==
  ASSUME IInv, NEW t \in Task, Failed(t)
  PROVE  IInv'
<1>1. /\ Answer(t, {"tool", "reply"}) /\ task[t].outcome # "sent" /\ Leaves(t)
      /\ NoteError(task[t].outcome, task[t].slot)
      /\ UNCHANGED <<chat, base, blind>>
      /\ flooded' = (flooded \/ (task[t].outcome = "flood" /\ blocked' < chat.next))
      /\ refused' = IF task[t].op = "tool" /\ task[t].outcome = "banned"
                    THEN [refused EXCEPT !["message"] = EntityTtl] ELSE refused
  BY DEF Failed
<1>2. /\ lock = t /\ TaskOK(t) /\ SlotOK /\ chat.next \in 0..Slot /\ 0..Slot \subseteq Nat
      /\ Writes(task[t]) /\ task[t].at = "answer" /\ task[t].slot \in 0..Slot
      /\ task[t].outcome \in Outcome
  BY <1>1, AnswerFacts DEF TaskState
<1>0. flooded' \in BOOLEAN /\ (Excused => Excused')
      /\ (~Excused' => ~Excused /\ ~(task[t].outcome = "flood" /\ blocked' < chat.next))
  BY <1>1, Zenon
<1>3. /\ Only(t) /\ lock' \in {lock, None} /\ \A u \in Task : TaskOK(u)'
  BY <1>0, <1>1, <1>2, LeavesOK
<1>4. /\ base.ttl \in 0..EntityTtl /\ forced \in 0..EntityTtl /\ blocked \in 0..Slot
      /\ refused \in [{"message", "comment"} -> 0..EntityTtl]
      /\ EntityTtl \in Nat /\ 0 \in 0..Slot
  BY WindowAssumption DEF IInv, TypeOK
<1>5. blocked' \in 0..Slot /\ forced' \in 0..EntityTtl
      /\ (task[t].outcome = "banned" => forced' = EntityTtl)
      /\ (forced' = forced \/ forced' = EntityTtl)
  BY <1>1, <1>2, <1>4 DEF NoteError
<1>6. refused' \in [{"message", "comment"} -> 0..EntityTtl]
      /\ refused'["message"] <= forced'
  BY <1>1, <1>2, <1>4, <1>5 DEF SlotOK
<1>7. TypeOK'
  BY <1>0, <1>1, <1>3, <1>5, <1>6 DEF IInv, TypeOK, Only
<1>8. ~Excused' => Covered'
  <2>1. CASE forced' = EntityTtl
    BY <1>1, <1>4, <2>1 DEF Covered
  <2>2. CASE task[t].outcome = "slow"
    <3>1. ~Excused' => chat.next <= task[t].slot
      BY <1>0, <1>2, <2>2 DEF TaskOK, Sighted
    <3>2. blocked' = task[t].slot
      BY <1>1, <2>2 DEF NoteError
    <3> QED BY <1>1, <3>1, <3>2 DEF Covered
  <2>5. CASE task[t].outcome = "flood"
    <3>1. ~Excused' => chat.next <= blocked'
      BY <1>0, <1>2, <1>5, <2>5
    <3> QED BY <1>1, <3>1 DEF Covered
  <2>3. CASE task[t].outcome \notin {"slow", "flood", "banned", "forbidden"}
    <3>1. UNCHANGED <<blocked, forced>>
      BY <1>1, <2>3 DEF NoteError
    <3>2. ~Sends(t)
      BY <1>1 DEF Sends
    <3> QED BY <1>0, <1>1, <1>2, <1>3, <3>1, <3>2, FlightKept DEF SlotOK, Covered
  <2>4. task[t].outcome \in {"banned", "forbidden"} => forced' = EntityTtl
    BY <1>1 DEF NoteError
  <2> QED BY <2>1, <2>2, <2>3, <2>4, <2>5
<1>9. SlotOK'
  BY <1>0, <1>1, <1>2, <1>6, <1>8 DEF SlotOK
<1> QED BY <1>3, <1>7, <1>9 DEF IInv

LEMMA WaitsStep ==
  ASSUME IInv, NEW t \in Task, WaitsForSlot(t)
  PROVE  IInv'
<1> DEFINE d == [task[t] EXCEPT !.at = "sleep"]
<1>1. /\ Answer(t, {"reply"}) /\ task[t].outcome \in {"slow", "flood"} /\ Goes(t, "sleep")
      /\ UNCHANGED <<chat, tracker, refused, ghosts>> /\ "sleep" \in Place
  BY DEF WaitsForSlot, Retries, Place
<1>2. /\ TaskOK(t) /\ task[t] \in TaskState /\ chat.next \in Nat /\ lock \in Task \cup {None}
      /\ task[t].op = "reply" /\ task[t].at = "answer" /\ blind \in BOOLEAN /\ flooded \in BOOLEAN
  BY <1>1 DEF IInv, TypeOK, Answer
<1>3. Only(t) /\ lock' = lock /\ task'[t] = d
  BY <1>1, GoesFacts DEF IInv
<1>4. lock = t /\ task[t].slot # None
  BY <1>2 DEF TaskOK, Holds
<1>5. d.at = "sleep" /\ d.op = "reply" /\ d.slot = task[t].slot
  BY <1>2 DEF TaskState
<1> HIDE DEF d
<1>6. TaskOK(t)'
  BY <1>3, <1>4, <1>5 DEF TaskOK, Places, Place, Holds, Checked, Sighted, Writes
<1>7. Keeps(t)
  BY <1>1, <1>2, <1>3 DEF Keeps
<1>8. \A u \in Task : TaskOK(u)'
  BY <1>1, <1>2, <1>3, <1>6, <1>7, OthersOK
<1>9. ~Sends(t)
  BY <1>1 DEF Sends
<1> QED BY <1>1, <1>2, <1>3, <1>8, <1>9, QuietStep

LEMMA SendsAgainStep ==
  ASSUME IInv, NEW t \in Task, SendsAgain(t)
  PROVE  IInv'
<1> DEFINE d == [task[t] EXCEPT !.at = "send", !.again = TRUE]
<1>1. /\ task[t].at = "sleep" /\ UNCHANGED <<chat, tracker, refused, lock, ghosts>> /\ ~Sends(t)
  BY DEF SendsAgain, Sends
<1>2. /\ TaskOK(t) /\ task[t] \in TaskState /\ chat.next \in Nat /\ lock \in Task \cup {None}
      /\ task \in [Task -> TaskState] /\ blind \in BOOLEAN /\ flooded \in BOOLEAN
  BY DEF IInv, TypeOK
<1>3. task[t].op = "reply"
  BY <1>1, <1>2 DEF TaskOK, Places, TaskState, Op
<1>4. lock = t
  BY <1>1, <1>2, <1>3 DEF TaskOK, Holds
<1>5. d \in TaskState /\ d.at = "send" /\ d.op = "reply"
  BY <1>2, <1>3 DEF TaskState, Place
<1>6. task' = [task EXCEPT ![t] = d]
  BY <1>2 DEF SendsAgain, TaskState
<1>7. Only(t) /\ task'[t] = d
  BY <1>2, <1>5, <1>6 DEF Only
<1> HIDE DEF d
<1>8. TaskOK(t)'
  BY <1>1, <1>4, <1>5, <1>7 DEF TaskOK, Places, Place, Holds, Checked, Sighted, Writes
<1>9. Keeps(t)
  BY <1>1, <1>2 DEF Keeps
<1>10. \A u \in Task : TaskOK(u)'
  BY <1>1, <1>2, <1>7, <1>8, <1>9, OthersOK
<1> QED BY <1>1, <1>2, <1>7, <1>10, QuietStep

LEMMA CommentAnsweredStep ==
  ASSUME IInv, NEW t \in Task, CommentAnswered(t)
  PROVE  IInv'
<1>1. /\ Answer(t, {"comment"}) /\ Leaves(t) /\ UNCHANGED <<chat, tracker, ghosts>>
      /\ refused' = IF task[t].outcome = "banned"
                    THEN [refused EXCEPT !["comment"] = EntityTtl] ELSE refused
  BY DEF CommentAnswered
<1>2. /\ chat.next \in Nat /\ refused \in [{"message", "comment"} -> 0..EntityTtl]
      /\ EntityTtl \in 0..EntityTtl
  BY WindowAssumption DEF IInv, TypeOK
<1>3. /\ refused' \in [{"message", "comment"} -> 0..EntityTtl]
      /\ refused'["message"] = refused["message"]
  BY <1>1, <1>2
<1>4. Only(t) /\ lock' \in {lock, None} /\ \A u \in Task : TaskOK(u)'
  BY <1>1, <1>2, <1>3, LeavesOK
<1>5. ~Sends(t)
  BY <1>1 DEF Answer, Sends, Writes
<1>6. SlotOK'
  BY <1>1, <1>3, <1>4, <1>5, SlotKept
<1>7. TypeOK'
  BY <1>1, <1>3, <1>4 DEF IInv, TypeOK, Only, tracker
<1> QED BY <1>4, <1>6, <1>7 DEF IInv

LEMMA CancelledStep ==
  ASSUME IInv, NEW t \in Task, Cancelled(t)
  PROVE  IInv'
<1>1. /\ Leaves(t) /\ UNCHANGED <<chat, tracker, refused>> /\ flooded' = flooded
      /\ blind' = (blind \/ (task[t].at = "answer" /\ task[t].outcome = "sent"))
  BY DEF Cancelled
<1>2. chat.next \in Nat /\ lock \in Task \cup {None} /\ flooded \in BOOLEAN
  BY DEF IInv, TypeOK
<1>3. blind' \in BOOLEAN
  BY <1>1, Zenon
<1>4. (Excused => Excused') /\ (Sends(t) => Excused')
  BY <1>1, Zenon DEF Sends
<1>5. Only(t) /\ lock' \in {lock, None} /\ \A u \in Task : TaskOK(u)'
  BY <1>1, <1>2, <1>4, LeavesOK
<1> QED BY <1>1, <1>2, <1>3, <1>4, <1>5, QuietStep

-----------------------------------------------------------------------------
(* Telegram, the other tools, and time.                                    *)

LEMMA RightsStep ==
  ASSUME IInv, RightsChange
  PROVE  IInv'
<1>1. /\ UNCHANGED <<tracker, refused, task, lock, ghosts>>
      /\ chat' \in Chat
      /\ chat'.slow = chat.slow /\ chat'.next = chat.next
  <2>1. PICK ban \in {0, BanTime, None} : chat' = [chat EXCEPT !.ban = ban]
    BY DEF RightsChange
  <2>2. ban \in Lasting /\ chat \in Chat
    BY WindowAssumption DEF Lasting, IInv, TypeOK
  <2> QED BY <2>1, <2>2 DEF RightsChange
<1>2. TypeOK' /\ SlotOK'
  BY <1>1 DEF IInv, TypeOK, SlotOK, Covered, InFlight, Writes, tracker
<1>3. ASSUME NEW u \in Task PROVE TaskOK(u)'
  BY <1>1 DEF IInv, TaskOK, Places, Holds, Checked, Sighted, Writes
<1> QED BY <1>2, <1>3 DEF IInv

LEMMA SlotChangesStep ==
  ASSUME IInv, SlotChanges
  PROVE  IInv'
<1>1. /\ UNCHANGED <<tracker, refused, task, lock>> /\ blind' = TRUE /\ flooded' = flooded
      /\ chat' \in Chat
      /\ ~chat'.slow => chat'.next = 0
  <2>1. UNCHANGED <<tracker, refused, task, lock>> /\ blind' = TRUE /\ flooded' = flooded
    BY DEF SlotChanges, Blinded
  <2>2. /\ chat \in Chat
        /\ 0 \in 0..Slot /\ Slot \in 0..Slot
    BY WindowAssumption DEF IInv, TypeOK
  <2>3. \/ chat' = [chat EXCEPT !.slow = ~chat.slow, !.next = 0]
        \/ chat.slow /\ chat' = [chat EXCEPT !.next = Slot]
    BY DEF SlotChanges
  <2>4. CASE chat' = [chat EXCEPT !.slow = ~chat.slow, !.next = 0]
    BY <2>1, <2>2, <2>4
  <2>5. CASE chat.slow /\ chat' = [chat EXCEPT !.next = Slot]
    BY <2>1, <2>2, <2>5
  <2> QED BY <2>3, <2>4, <2>5
<1>2. TypeOK' /\ SlotOK'
  BY <1>1 DEF IInv, TypeOK, SlotOK, tracker
<1>3. ASSUME NEW u \in Task PROVE TaskOK(u)'
  BY <1>1 DEF IInv, TaskOK, Places, Holds, Checked
<1> QED BY <1>2, <1>3 DEF IInv

LEMMA JoinStep ==
  ASSUME IInv, Join
  PROVE  IInv'
<1>1. PICK kinds \in SUBSET {"message", "comment"} :
        refused' = [kind \in DOMAIN refused |-> IF kind \in kinds THEN 0 ELSE refused[kind]]
  BY DEF Join
<1>2. /\ refused \in [{"message", "comment"} -> 0..EntityTtl] /\ 0 \in 0..EntityTtl
      /\ forced \in Nat
  BY WindowAssumption DEF IInv, TypeOK
<1>3. /\ refused' \in [{"message", "comment"} -> 0..EntityTtl]
      /\ refused'["message"] \in {0, refused["message"]}
  BY <1>1, <1>2
<1>4. /\ UNCHANGED <<tracker, task, lock, ghosts>>
      /\ chat' \in Chat
      /\ chat'.slow = chat.slow /\ chat'.next = chat.next
  BY WindowAssumption DEF Join, IInv, TypeOK, Lasting
<1>5. TypeOK'
  BY <1>3, <1>4 DEF IInv, TypeOK, tracker
<1>6. SlotOK'
  BY <1>2, <1>3, <1>4 DEF IInv, SlotOK, Covered, InFlight, Writes, tracker
<1>7. ASSUME NEW u \in Task PROVE TaskOK(u)'
  BY <1>3, <1>4 DEF IInv, TaskOK, Places, Holds, Checked, Sighted, Writes
<1> QED BY <1>5, <1>6, <1>7 DEF IInv

LEMMA LessFacts ==
  ASSUME NEW m \in Nat
  PROVE  /\ Less(m) \in Nat /\ Less(m) <= m
         /\ \A k \in Nat : k <= m => Less(k) <= Less(m)
         /\ \A k \in Nat : m <= k => Less(m) <= k
         /\ (m = 0 => Less(m) = 0) /\ (Less(m) > 0 => m > 0)
  BY DEF Less

LEMMA LessType ==
  ASSUME NEW n \in Nat, NEW m \in 0..n
  PROVE  Less(m) \in 0..n
  BY DEF Less

\* Time does to the tracker what it does to Telegram.
LEMMA TickStep ==
  ASSUME IInv, Tick
  PROVE  IInv'
<1>1. /\ Slot \in Nat /\ EntityTtl \in Nat /\ 0..Slot \subseteq Nat /\ 0..EntityTtl \subseteq Nat
      /\ None \notin Nat
  BY WindowAssumption
<1>2. TypeOK /\ SlotOK
  BY DEF IInv
<1>3. /\ chat' \in Chat
      /\ chat'.slow = chat.slow /\ chat'.next = Less(chat.next)
      /\ base' \in [window : Window, ttl : 0..EntityTtl]
      /\ base'.ttl = Less(base.ttl)
      /\ base'.window.reason = base.window.reason /\ (base'.window = Open => base.window = Open)
  <2>1. chat.ban \in Lasting /\ chat \in Chat
        /\ base.window \in Window /\ base \in [window : Window, ttl : 0..EntityTtl]
    BY <1>2 DEF TypeOK
  <2>2. ASSUME NEW ban \in Lasting PROVE Shorter(ban) \in Lasting
    BY WindowAssumption DEF Shorter, Less, Lasting
  <2>3. Less(chat.next) \in 0..Slot /\ Less(base.ttl) \in 0..EntityTtl
    BY <1>1, <1>2, LessType DEF TypeOK
  <2>4. /\ chat' = [chat EXCEPT !.next = Less(chat.next), !.ban = Shorter(chat.ban)]
        /\ base' = [base EXCEPT !.ttl = Less(base.ttl),
                                !.window.opens = Shorter(base.window.opens)]
    BY DEF Tick
  <2>5. PICK shorter \in Lasting : shorter = Shorter(chat.ban)
    BY <2>1, <2>2
  <2>6. chat' \in Chat /\ chat'.slow = chat.slow /\ chat'.next = Less(chat.next)
    BY <2>1, <2>3, <2>4, <2>5
  <2>7. Shorter(None) = None
    BY DEF Shorter
  <2> DEFINE w == [base.window EXCEPT !.opens = Shorter(base.window.opens)]
  <2>8. /\ w \in Window /\ w.reason = base.window.reason
        /\ (w = Open => base.window = Open)
    <3>1. CASE base.window = Open \/ base.window = SlowMode
      BY <2>7, <3>1, WindowKinds
    <3>2. CASE \E opens \in Lasting : base.window = Restricted(opens)
      <4>1. PICK opens \in Lasting : base.window = Restricted(opens)
        BY <3>2
      <4>2. PICK sooner \in Lasting : sooner = Shorter(opens)
        BY <2>2
      <4>3. w = Restricted(sooner)
        BY <4>1, <4>2 DEF Restricted
      <4> QED BY <4>1, <4>3, WindowKinds
    <3> QED BY <2>1, <3>1, <3>2 DEF Window
  <2>9. base' = [base EXCEPT !.ttl = Less(base.ttl), !.window = w]
    BY <2>1, <2>4
  <2> HIDE DEF w
  <2>10. /\ base' \in [window : Window, ttl : 0..EntityTtl]
         /\ base'.ttl = Less(base.ttl) /\ base'.window = w
    BY <2>1, <2>3, <2>8, <2>9
  <2> QED BY <2>6, <2>8, <2>10
<1>4. /\ blocked' = Less(blocked) /\ blocked' \in 0..Slot
      /\ forced' = Less(forced) /\ forced' \in 0..EntityTtl
      /\ UNCHANGED <<lock, ghosts>>
  BY <1>1, <1>2, LessType DEF Tick, TypeOK
<1>5. /\ refused' \in [{"message", "comment"} -> 0..EntityTtl]
      /\ refused'["message"] = Less(refused["message"])
  BY <1>1, <1>2, LessType DEF Tick, TypeOK
<1>6. ASSUME NEW u \in Task
      PROVE  /\ task'[u] \in TaskState
             /\ task'[u].op = task[u].op /\ task'[u].at = task[u].at
             /\ task'[u].outcome = task[u].outcome /\ task'[u].slow = task[u].slow
             /\ task'[u].lapsed = task[u].lapsed
             /\ task[u].slot # None => task'[u].slot # None
             /\ task[u].at = "answer" => task'[u].slot = task[u].slot
  <2> DEFINE d == [task[u] EXCEPT !.slot = Less(task[u].slot)]
  <2>1. task[u] \in TaskState
    BY <1>2 DEF TypeOK
  <2>2. task'[u] = IF task[u].at \in {"fullRead", "sleep"} /\ task[u].slot # None
                   THEN d ELSE task[u]
    BY DEF Tick
  <2>3. task[u].slot # None => Less(task[u].slot) \in 0..Slot
    BY <1>1, <2>1, LessType DEF TaskState
  <2>4. task[u].slot # None =>
          /\ d \in TaskState /\ d.op = task[u].op /\ d.at = task[u].at /\ d.slot # None
          /\ d.outcome = task[u].outcome /\ d.slow = task[u].slow
          /\ d.lapsed = task[u].lapsed
    BY <1>1, <2>1, <2>3 DEF TaskState
  <2> HIDE DEF d
  <2> QED BY <2>1, <2>2, <2>4
<1>7. task' \in [Task -> TaskState]
  BY <1>6 DEF Tick
<1>8. TypeOK'
  BY <1>2, <1>3, <1>4, <1>5, <1>7 DEF TypeOK
<1>9. /\ chat.next \in Nat /\ base.ttl \in Nat /\ blocked \in Nat /\ forced \in Nat
      /\ refused["message"] \in Nat
  BY <1>1, <1>2 DEF TypeOK
<1>10. InFlight => InFlight'
  BY <1>6 DEF InFlight, Writes
<1>11. Covered => Covered'
  BY <1>3, <1>4, <1>9, <1>10, LessFacts DEF Covered
<1>12. SlotOK'
  BY <1>2, <1>3, <1>4, <1>5, <1>9, <1>11, LessFacts DEF SlotOK
<1>13. ASSUME NEW u \in Task PROVE TaskOK(u)'
  <2>1. TaskOK(u) /\ task[u] \in TaskState
    BY DEF IInv, TypeOK
  <2>2. (Checked(task[u]) => refused["message"] = 0) => (Checked(task'[u]) => refused'["message"] = 0)
    BY <1>5, <1>6, <1>9, LessFacts DEF Checked
  <2>3. (task[u].at = "answer" /\ task[u].slot # None) => task[u].slot \in Nat
    BY <1>1, <2>1 DEF TaskState
  <2>4. Sighted(task[u]) /\ (task[u].at = "answer" => task[u].slot # None) => Sighted(task[u])'
    BY <1>3, <1>6, <1>9, <2>3, LessFacts DEF Sighted, Writes
  <2> QED BY <1>4, <1>6, <2>1, <2>2, <2>4 DEF TaskOK, Places, Holds
<1> QED BY <1>8, <1>12, <1>13 DEF IInv

-----------------------------------------------------------------------------
(* The theorems.                                                           *)

LEMMA StepInv ==
  ASSUME IInv, NEW t \in Task, Step(t)
  PROVE  IInv'
BY LockedStep, BeginStep, CheckStep, CheckEventStep, EntityReadStep, FailedQuestionStep,
   FullReadStep, FullAnsweredStep, DeliverStep, SentStep, FailedStep, WaitsStep,
   SendsAgainStep, CommentAnsweredStep, CancelledStep DEF Step

LEMMA InitInv == Init => IInv
<1> SUFFICES ASSUME Init PROVE IInv
  OBVIOUS
<1>0. 0 \in 0..Slot /\ 0 \in 0..EntityTtl
  BY WindowAssumption
<1>1. TypeOK
  <2>1. chat \in Chat
    BY <1>0, WindowAssumption DEF Init, Lasting
  <2>2. base \in [window : Window, ttl : 0..EntityTtl]
    BY <1>0, WindowKinds DEF Init
  <2>3. task \in [Task -> TaskState]
    BY IdleType DEF Init
  <2> QED BY <1>0, <2>1, <2>2, <2>3 DEF Init, TypeOK
<1>2. SlotOK
  BY DEF Init, SlotOK, Covered
<1>3. ASSUME NEW t \in Task PROVE TaskOK(t)
  BY DEF Init, Idle, TaskOK, Places, Holds, Checked, Sighted, Writes
<1> QED BY <1>1, <1>2, <1>3 DEF IInv

LEMMA StutterInv ==
  ASSUME IInv, UNCHANGED vars
  PROVE  IInv'
<1>1. TypeOK' /\ SlotOK'
  BY DEF IInv, TypeOK, SlotOK, Covered, InFlight, Writes, vars, tracker
<1>2. ASSUME NEW t \in Task PROVE TaskOK(t)'
  BY DEF IInv, TaskOK, Places, Holds, Checked, Sighted, Writes, vars, tracker
<1> QED BY <1>1, <1>2 DEF IInv

LEMMA Invariance == Spec => []IInv
<1>1. IInv /\ [Next]_vars => IInv'
  BY StepInv, StutterInv, RightsStep, SlotChangesStep, JoinStep, TickStep DEF Next
<1> QED BY <1>1, InitInv, PTL DEF Spec

\* The variables keep their types, for any number of tasks.
THEOREM TypeCorrect == Spec => []TypeOK
<1>1. IInv => TypeOK
  BY DEF IInv
<1> QED BY <1>1, Invariance, PTL

\* Whatever tools, replies and checks go on in a chat, and however long a slot and
\* a cached window last, and whatever restrictions run out while they are cached,
\* no tool sends into a slot that is spent, unless something happened that the
\* tracker cannot know, a flood wait has replaced what it knew, or the tool itself
\* was let through by such a restriction.
THEOREM SlotsAreForeseen == Spec => []SlowModeIsForeseen
<1>1. IInv => SlowModeIsForeseen
  BY DEF IInv, TaskOK, Sighted, SlowModeIsForeseen
<1> QED BY <1>1, Invariance, PTL

\* A message that was refused for good is not tried again by the tools that were
\* waiting for the lock.
THEOREM RefusalsAreKept == Spec => []RefusedIsNotRepeated
<1>1. IInv => RefusedIsNotRepeated
  BY DEF IInv, TaskOK, Checked, RefusedIsNotRepeated
<1> QED BY <1>1, Invariance, PTL

=============================================================================
