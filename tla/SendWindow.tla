------------------------------ MODULE SendWindow ------------------------------
(***************************************************************************)
(* Sending into one chat: SendWindowTracker (core/send_window.py), the     *)
(* tools that send under its lock (TelegramToolbox._sending in             *)
(* integrations/telegram_tools.py), the reply of a turn and the check of   *)
(* an incoming message (core/agent_runtime.py).                            *)
(*                                                                         *)
(* A task is a call of a tool, a reply or a check; a step is its code from *)
(* one await to the next.  A message and Telegram's answer to it are two   *)
(* steps.  Points in time are kept as the ticks left until then, and Tick  *)
(* moves them all; check() takes the time once, before it asks Telegram,   *)
(* and the model when it stores the answer, which makes a cached window    *)
(* live longer, never shorter.                                             *)
(***************************************************************************)
EXTENDS Naturals

CONSTANTS
  Task,
  Calls,          \* the calls that are made, of those in Op
  Slot,           \* the length of a slow mode slot
  EntityTtl,      \* entity_ttl, and as long: a forced closure, a refusal
  RestrictedTtl,  \* restricted_ttl
  RetryLimit,     \* SEND_FLOOD_RETRY_LIMIT_SECONDS
  BanTime,        \* the length of a timed restriction
  ForeverBelow,   \* _FOREVER_BELOW: one that ends sooner counts as for ever
  None

ASSUME WindowAssumption ==
  /\ Calls \subseteq {"tool", "comment", "reply", "gate"}
  /\ Slot \in Nat \ {0} /\ EntityTtl \in Nat \ {0} /\ RestrictedTtl \in Nat \ {0}
  /\ RetryLimit \in Nat /\ BanTime \in Nat /\ ForeverBelow \in Nat \ {0}
  /\ RestrictedTtl <= EntityTtl
  /\ None \notin Nat \cup Task

VARIABLES
  chat,       \* what Telegram knows of the agent in the chat
  base,       \* _base[key]: the cached window
  blocked,    \* _blocked_until[key]
  forced,     \* _forced_closed_until[key]
  refused,    \* _refusals of the toolbox, for messages and for comments
  task,
  lock,       \* who holds send_lock(key); who is "queued" waits for it
  blind,      \* something happened that the tracker cannot know: see Blinded
  flooded     \* a flood wait has replaced more than it says of a slot

vars == <<chat, base, blocked, forced, refused, task, lock, blind, flooded>>
tracker == <<base, blocked, forced>>
ghosts == <<blind, flooded>>

\* How long a restriction lasts, None for ever.
Lasting == 0..BanTime \cup {None}
Chat == [ban : Lasting, slow : BOOLEAN, next : 0..Slot]
Open == [reason |-> "open", opens |-> None]
SlowMode == [reason |-> "slow", opens |-> None]
Restricted(opens) == [reason |-> "restricted", opens |-> opens]
Window == {Open, SlowMode} \cup {Restricted(opens) : opens \in Lasting}
Op == {"none", "tool", "comment", "reply", "gate"}
Place == {"idle", "check", "queued", "entity", "full", "fullRead", "send", "answer", "sleep"}
Outcome == {"sent", "slow", "flood", "banned", "forbidden", "error"}

\* lapsed: the check let it through by a cached restriction that has run out.
TaskState == [op : Op, at : Place, slot : 0..Slot \cup {None}, slow : BOOLEAN,
              outcome : Outcome, again : BOOLEAN, lapsed : BOOLEAN]

TypeOK ==
  /\ chat \in Chat
  /\ base \in [window : Window, ttl : 0..EntityTtl]
  /\ blocked \in 0..Slot
  /\ forced \in 0..EntityTtl
  /\ refused \in [{"message", "comment"} -> 0..EntityTtl]
  /\ task \in [Task -> TaskState]
  /\ lock \in Task \cup {None}
  /\ blind \in BOOLEAN
  /\ flooded \in BOOLEAN

Idle == [op |-> "none", at |-> "idle", slot |-> None, slow |-> FALSE,
         outcome |-> "sent", again |-> FALSE, lapsed |-> FALSE]

\* Nothing is cached: a window that has expired, of a chat without slow mode.
Init ==
  /\ chat \in [ban : {0, BanTime, None}, slow : BOOLEAN, next : {0}]
  /\ base = [window |-> Open, ttl |-> 0]
  /\ blocked = 0
  /\ forced = 0
  /\ refused = [kind \in {"message", "comment"} |-> 0]
  /\ task = [t \in Task |-> Idle]
  /\ lock = None
  /\ blind = FALSE
  /\ flooded = FALSE

-----------------------------------------------------------------------------
(* Steps of a task.                                                        *)

Goes(t, at) == task' = [task EXCEPT ![t].at = at] /\ UNCHANGED lock

\* The call ends, and with it the lock if it holds it.
Leaves(t) ==
  /\ task' = [task EXCEPT ![t] = Idle]
  /\ lock' = IF lock = t THEN None ELSE lock

\* A tool checks the window under the lock, a reply has done so before.  Any of
\* those that wait may be next, although asyncio.Lock is first in first out.
Locked(t) ==
  /\ task[t].at = "queued"
  /\ lock = None
  /\ lock' = t
  /\ task' = [task EXCEPT ![t].at = IF task[t].op = "tool" THEN "check" ELSE "send"]
  /\ UNCHANGED <<chat, tracker, refused, ghosts>>

\* What the properties take as excuses: slow mode was switched or a slot spent
\* past the client, Telegram did not answer a question, or a message arrived
\* whose sending was cancelled.
Blinded == blind' = TRUE /\ UNCHANGED flooded

\* The end of check() with the base window w, and is_open of what it returns: a
\* restriction is returned as it was cached, whatever is known of the slot.
Verdict(t, w) ==
  LET isOpen == IF w.reason = "restricted" THEN w.opens = 0 ELSE blocked' = 0
  IN IF ~isOpen \/ task[t].op = "gate" THEN Leaves(t)
     ELSE /\ task' = [task EXCEPT
                       ![t].at = IF task[t].op = "tool" THEN "send" ELSE "queued",
                       ![t].lapsed = (w.reason = "restricted")]
          /\ UNCHANGED lock

\* _base_window stores what it found.
Cache(w) ==
  base' = [window |-> w,
           ttl |-> IF w.reason = "restricted" THEN RestrictedTtl ELSE EntityTtl]

WindowFromChat ==
  IF chat.ban # 0
    THEN Restricted(IF chat.ban # None /\ chat.ban >= ForeverBelow THEN chat.ban ELSE None)
  ELSE IF chat.slow THEN SlowMode ELSE Open

-----------------------------------------------------------------------------
(* The calls.                                                              *)

Begin(t, op, at) ==
  /\ task[t].op = "none"
  /\ op \in Calls
  /\ task' = [task EXCEPT ![t] = [Idle EXCEPT !.op = op, !.at = at]]

\* _sending of a message: the refusals are looked at before the lock is asked for.
BeginTool(t) ==
  /\ Begin(t, "tool", "queued")
  /\ refused["message"] = 0
  /\ UNCHANGED <<chat, tracker, refused, lock, ghosts>>

\* A comment goes to the linked group: neither window nor lock of this chat.
BeginComment(t) ==
  /\ Begin(t, "comment", "send")
  /\ refused["comment"] = 0
  /\ UNCHANGED <<chat, tracker, refused, lock, ghosts>>

\* The window is checked before the reply asks for the lock, and not again.
BeginReply(t) ==
  /\ Begin(t, "reply", "check")
  /\ UNCHANGED <<chat, tracker, refused, lock, ghosts>>

BeginGate(t) ==
  /\ Begin(t, "gate", "check")
  /\ UNCHANGED <<chat, tracker, refused, lock, ghosts>>

-----------------------------------------------------------------------------
(* check()                                                                 *)

CheckForced(t) ==
  /\ task[t].at = "check"
  /\ forced > 0
  /\ Leaves(t)
  /\ UNCHANGED <<chat, tracker, refused, ghosts>>

CheckCached(t) ==
  /\ task[t].at = "check"
  /\ forced = 0
  /\ base.ttl > 0
  /\ UNCHANGED <<chat, tracker, refused, ghosts>>
  /\ Verdict(t, base.window)

CheckAsks(t) ==
  /\ task[t].at = "check"
  /\ forced = 0
  /\ base.ttl = 0
  /\ Goes(t, "entity")
  /\ UNCHANGED <<chat, tracker, refused, ghosts>>

\* The message came with its whole chat: the cache is renewed, and slow mode
\* asked for only when its length is not known.
CheckEvent(t) ==
  /\ task[t].op = "gate" /\ task[t].at = "check"
  /\ forced = 0
  /\ UNCHANGED <<chat, blocked, forced, refused, ghosts>>
  /\ IF WindowFromChat = SlowMode /\ ~(base.ttl > 0 /\ base.window = SlowMode)
     THEN Goes(t, "full") /\ UNCHANGED base
     ELSE Cache(WindowFromChat) /\ Leaves(t)

EntityRead(t) ==
  /\ task[t].at = "entity"
  /\ UNCHANGED <<chat, blocked, forced, refused, ghosts>>
  /\ IF WindowFromChat = SlowMode THEN Goes(t, "full") /\ UNCHANGED base
     ELSE Cache(WindowFromChat) /\ Verdict(t, WindowFromChat)

\* The chat could not be read: open, and not cached.
EntityFails(t) ==
  /\ task[t].at = "entity"
  /\ UNCHANGED <<chat, tracker, refused>>
  /\ Blinded
  /\ Verdict(t, Open)

\* _fill_slowmode: Telegram answers GetFullChannelRequest ...
FullRead(t) ==
  /\ task[t].at = "full"
  /\ task' = [task EXCEPT ![t].at = "fullRead", ![t].slow = chat.slow,
                          ![t].slot = IF chat.next > 0 THEN chat.next ELSE None]
  /\ UNCHANGED <<chat, tracker, refused, lock, ghosts>>

\* ... and the answer is used.  An answer that was overtaken by a message says
\* that the slot is free when it is not.
FullAnswered(t) ==
  /\ task[t].at = "fullRead"
  /\ blocked' = IF task[t].slot = None THEN blocked ELSE task[t].slot
  /\ blind' = (blind \/ blocked' < chat.next)
  /\ UNCHANGED <<chat, forced, refused, flooded>>
  /\ LET w == IF task[t].slow THEN SlowMode ELSE Open
     IN Cache(w) /\ Verdict(t, w)

FullFails(t) ==
  /\ task[t].at = "full"
  /\ UNCHANGED <<chat, blocked, forced, refused>>
  /\ Blinded
  /\ Cache(Open)
  /\ Verdict(t, Open)

-----------------------------------------------------------------------------
(* Sending.                                                                *)

\* Mutant of NoteSent: the slot is spent and not accounted for.
NoteSent_Missing == UNCHANGED blocked

\* The entry that is cached, expired or not, may not know the slot.
NoteSent == blocked' = IF base.window = SlowMode THEN Slot ELSE blocked

\* Mutant of NoteError: a refusal does not close the window.
NoteError_NotForced(outcome, seconds) ==
  /\ blocked' = IF outcome \in {"slow", "flood"} THEN seconds ELSE blocked
  /\ UNCHANGED forced

\* Mutant of NoteError: the wait is added to what is left of the slot.
NoteError_Adds(outcome, seconds) ==
  /\ blocked' = IF outcome \in {"slow", "flood"} THEN blocked + seconds ELSE blocked
  /\ forced' = IF outcome \in {"banned", "forbidden"} THEN EntityTtl ELSE forced

NoteError(outcome, seconds) ==
  CASE outcome \in {"slow", "flood"} -> blocked' = seconds /\ UNCHANGED forced
    [] outcome \in {"banned", "forbidden"} -> blocked' = 0 /\ forced' = EntityTtl
    [] OTHER -> UNCHANGED <<blocked, forced>>

\* What Telegram does with the message of t.  It may tell the account to wait,
\* whatever the chat: FloodWaitError and FloodPremiumWaitError.
Outcomes(t) ==
  IF task[t].op = "comment" THEN {"sent", "banned", "forbidden", "error"}
  ELSE {"flood", "error"} \cup
       (IF chat.ban # 0 THEN {"banned", "forbidden"}
        ELSE IF chat.next > 0 THEN {"slow"} ELSE {"sent"})

\* The seconds of the answer: what is left of the slot, or those of the flood wait.
Waits(outcome) == IF outcome = "flood" THEN 0..Slot ELSE {chat.next}

Deliver(t) ==
  /\ task[t].at = "send"
  /\ \E outcome \in Outcomes(t) : \E seconds \in Waits(outcome) :
       /\ task' = [task EXCEPT ![t].at = "answer", ![t].outcome = outcome,
                               ![t].slot = seconds]
       /\ chat' = IF outcome = "sent" /\ task[t].op # "comment" /\ chat.slow
                  THEN [chat EXCEPT !.next = Slot] ELSE chat
  /\ UNCHANGED <<tracker, refused, lock, ghosts>>

Answer(t, op) == task[t].at = "answer" /\ task[t].op \in op

Sent(t) ==
  /\ Answer(t, {"tool", "reply"})
  /\ task[t].outcome = "sent"
  /\ NoteSent
  /\ Leaves(t)
  /\ UNCHANGED <<chat, base, forced, refused, ghosts>>

Retries(t) ==
  /\ task[t].op = "reply" /\ task[t].outcome \in {"slow", "flood"}
  /\ ~task[t].again /\ task[t].slot \in 1..RetryLimit

\* UserBannedInChannelError is remembered by the toolbox as well.
Failed(t) ==
  /\ Answer(t, {"tool", "reply"})
  /\ task[t].outcome # "sent"
  /\ ~Retries(t)
  /\ NoteError(task[t].outcome, task[t].slot)
  /\ refused' = IF task[t].op = "tool" /\ task[t].outcome = "banned"
                THEN [refused EXCEPT !["message"] = EntityTtl] ELSE refused
  /\ flooded' = (flooded \/ (task[t].outcome = "flood" /\ blocked' < chat.next))
  /\ Leaves(t)
  /\ UNCHANGED <<chat, base, blind>>

\* The reply waits for the seconds it was told with the lock in its hands.
WaitsForSlot(t) ==
  /\ Answer(t, {"reply"})
  /\ Retries(t)
  /\ Goes(t, "sleep")
  /\ UNCHANGED <<chat, tracker, refused, ghosts>>

SendsAgain(t) ==
  /\ task[t].at = "sleep"
  /\ task[t].slot = 0
  /\ task' = [task EXCEPT ![t].at = "send", ![t].again = TRUE]
  /\ UNCHANGED <<chat, tracker, refused, lock, ghosts>>

CommentAnswered(t) ==
  /\ Answer(t, {"comment"})
  /\ refused' = IF task[t].outcome = "banned" THEN [refused EXCEPT !["comment"] = EntityTtl]
                ELSE refused
  /\ Leaves(t)
  /\ UNCHANGED <<chat, tracker, ghosts>>

\* A stop cancels the task at any await; nothing accounts for a message that
\* Telegram has taken already.
Cancelled(t) ==
  /\ task[t].op # "none"
  /\ Leaves(t)
  /\ blind' = (blind \/ (task[t].at = "answer" /\ task[t].outcome = "sent"))
  /\ UNCHANGED <<chat, tracker, refused, flooded>>

-----------------------------------------------------------------------------
(* Telegram, the other tools, and time.                                    *)

\* An administrator restricts the account, for a while or for good, or lets it write.
RightsChange ==
  /\ \E ban \in {0, BanTime, None} : chat' = [chat EXCEPT !.ban = ban]
  /\ UNCHANGED <<tracker, refused, task, lock, ghosts>>

\* An administrator switches slow mode, or the account writes from elsewhere.
SlotChanges ==
  /\ chat' \in {[chat EXCEPT !.slow = ~chat.slow, !.next = 0]}
               \cup (IF chat.slow THEN {[chat EXCEPT !.next = Slot]} ELSE {})
  /\ Blinded
  /\ UNCHANGED <<tracker, refused, task, lock>>

\* join_channel and join_channel_discussion: _forget_refusal, of the group or of
\* its channel's comments or of both.  Nothing calls SendWindowTracker.forget.
Join ==
  /\ chat' = [chat EXCEPT !.ban = 0]
  /\ \E kinds \in SUBSET {"message", "comment"} :
       refused' = [kind \in DOMAIN refused |-> IF kind \in kinds THEN 0 ELSE refused[kind]]
  /\ UNCHANGED <<tracker, task, lock, ghosts>>

Less(n) == IF n = 0 THEN 0 ELSE n - 1
Shorter(ban) == IF ban = None THEN None ELSE Less(ban)

Tick ==
  /\ chat' = [chat EXCEPT !.next = Less(chat.next), !.ban = Shorter(chat.ban)]
  /\ base' = [base EXCEPT !.ttl = Less(base.ttl),
                          !.window.opens = Shorter(base.window.opens)]
  /\ blocked' = Less(blocked)
  /\ forced' = Less(forced)
  /\ refused' = [kind \in DOMAIN refused |-> Less(refused[kind])]
  /\ task' = [t \in Task |->
                IF task[t].at \in {"fullRead", "sleep"} /\ task[t].slot # None
                THEN [task[t] EXCEPT !.slot = Less(task[t].slot)] ELSE task[t]]
  /\ UNCHANGED <<lock, ghosts>>

Step(t) ==
  \/ BeginTool(t) \/ BeginComment(t) \/ BeginReply(t) \/ BeginGate(t)
  \/ Locked(t)
  \/ CheckForced(t) \/ CheckCached(t) \/ CheckAsks(t) \/ CheckEvent(t)
  \/ EntityRead(t) \/ EntityFails(t) \/ FullRead(t) \/ FullAnswered(t) \/ FullFails(t)
  \/ Deliver(t) \/ Sent(t) \/ Failed(t) \/ WaitsForSlot(t) \/ SendsAgain(t)
  \/ CommentAnswered(t) \/ Cancelled(t)

Next == RightsChange \/ SlotChanges \/ Join \/ Tick \/ \E t \in Task : Step(t)

Spec == Init /\ [][Next]_vars

-----------------------------------------------------------------------------
(* Properties.                                                             *)

\* The lock makes a tool's check, message and accounting one operation
\* (_sending): a tool that is about to send finds the slot free at Telegram,
\* unless something happened that the tracker cannot know, a flood wait has made
\* it forget the slot, or the check knew of a restriction only that has run out.
SlowModeIsForeseen ==
  ~blind /\ ~flooded => \A t \in Task :
    task[t].op = "tool" /\ task[t].at = "send" /\ ~task[t].lapsed => chat.next = 0

\* After a hard refusal the same message is not sent again
\* (_raise_if_recently_refused), although the tools of one turn run at once and
\* each looked at the refusals before it got the lock: the forced closure of the
\* window stops those that were waiting.
RefusedIsNotRepeated ==
  \A t \in Task : (task[t].op = "tool" /\ task[t].at = "send") => refused["message"] = 0
=============================================================================
