-------------------------------- MODULE Warmup --------------------------------
(***************************************************************************)
(* The warm-up of accounts (WarmupService in core/warmup_service.py, the   *)
(* decisions of core/warmup.py, the records of database_warmup.py): agents *)
(* write to each other, at most so often and so long, and an account that  *)
(* Telegram has limited opens no dialog until @SpamBot declares it free.   *)
(*                                                                         *)
(* One task ticks over the agents; turns report refusals, agents answer    *)
(* each other and the user intervenes between any two of its steps. Time   *)
(* is counted in units within one day.                                     *)
(***************************************************************************)
EXTENDS Integers, FiniteSets, Sequences

CONSTANTS
  Agent,
  Reply,            \* the replies under way at a time
  None,
  Lengths,          \* what dialog_length() draws from
  RecoveryLengths,
  Slots,            \* daily_slots() of an agent
  RecoverySlots,
  Grace,            \* of due_slot()
  MatchWindow,      \* ATTEMPT_MATCH_WINDOW
  MaxOpeners,       \* MAX_OPENERS_PER_DAY
  MinInterval,      \* MIN_OPENER_INTERVAL
  MaxUnclear,       \* SUSPECT_MAX_UNCLEAR_CHECKS
  \* The bounds of a run: units of time, refusals of Telegram's outside the
  \* warm-up, interventions (of the user, of a crash).
  MaxTime, MaxReports, MaxInterventions

Apart(slots) == \A s, t \in slots : s < t => t - s > Grace

\* A slot is over before the next begins: MIN_SLOT_GAP and RECOVERY_SLOT_GAP
\* exceed the grace. An opener is the first message of its dialog.
ASSUME WarmupAssumption ==
  /\ None \notin Agent
  /\ Lengths \cup RecoveryLengths \subseteq Nat \ {0}
  /\ Slots \in [Agent -> SUBSET Nat] /\ RecoverySlots \in [Agent -> SUBSET Nat]
  /\ \A a \in Agent : Apart(Slots[a]) /\ Apart(RecoverySlots[a])
  /\ {Grace, MatchWindow, MaxOpeners, MinInterval,
      MaxTime, MaxReports, MaxInterventions} \subseteq Nat
  /\ MatchWindow < MinInterval
  /\ MaxUnclear \in Nat \ {0}
  /\ IsFiniteSet(Reply)

VARIABLES
  now,
  running,     \* agents whose runtime is RUNNING
  enabled,     \* agents whose configuration has the warm-up on
  memory,      \* warmup_restricted_at and warmup_recovery of a runtime
  record,      \* the columns of the agent
  writes,      \* transitions on their way to the database, by agent
  diverged,    \* agents of which a transition failed, came late or met an old runtime
  tick,        \* the local state of _run()
  suspect,     \* _spam_suspects, from 1 on
  asked,       \* _last_spambot_check and _last_suspect_check, as long as they count
  raised,      \* _history_checked
  refused,     \* agents with a refusal in the journal
  reserved,    \* _reserved
  journal,     \* the attempts in agent_events
  opened,      \* the openers attempted since the process began, and those of the journal
  dialog,      \* _dialogs of the tracker
  turns,       \* turns that answer in the dialog
  strays,      \* replies that were waiting already when the dialog began
  inbox,       \* messages of one agent that another has not seen
  reply,       \* the answers under way
  reports, interventions

agents == <<running, enabled>>
limits == <<memory, record, writes, diverged>>
checks == <<suspect, asked, raised, refused>>
openers == <<reserved, journal, opened>>
counts == <<turns, strays>>
dialogs == <<dialog, counts, inbox, reply>>
bounds == <<reports, interventions>>
vars == <<now, agents, limits, tick, checks, openers, dialogs, bounds>>

Pair == {p \in SUBSET Agent : Cardinality(p) = 2}
Limit == {"free", "restricted", "recovery"}
Transition == {"restricted", "recovery_started", "recovered"}
Time == 0..MaxTime
Opener == [from : Agent, to : Agent, at : Time]

TypeOK ==
  /\ now \in Time
  /\ running \subseteq Agent /\ enabled \subseteq Agent
  /\ memory \in [Agent -> Limit] /\ record \in [Agent -> Limit]
  /\ writes \in [Agent -> Seq([event : Transition, by : {"tick", "other"}])]
  /\ diverged \subseteq Agent
  /\ tick \in [at : {"idle", "suspects", "suspect", "agents", "release", "slot",
                     "helper", "budget", "text", "send", "journal", "record"},
               agent : Agent \cup {None}, sender : Agent \cup {None}, recovery : BOOLEAN,
               moment : Time, queue : SUBSET Agent, online : SUBSET Agent,
               old : SUBSET Agent, next : {"suspects", "agents"}]
  /\ suspect \in [Agent -> 0..MaxUnclear]
  /\ asked \in [Agent -> SUBSET {"suspect", "release"}]
  /\ raised \subseteq Agent /\ refused \subseteq Agent
  /\ reserved \subseteq Opener /\ journal \subseteq Opener /\ opened \subseteq Opener
  /\ dialog \in [Pair -> [length : Lengths \cup RecoveryLengths, count : Nat \ {0}] \cup {None}]
  /\ \A p \in Pair : dialog[p] # None => dialog[p].count <= dialog[p].length
  /\ turns \in [Pair -> Nat] /\ strays \in [Pair -> Nat]
  /\ inbox \subseteq Agent \X Agent
  /\ reply \in [Reply -> [at : {"none", "waiting", "turn"}, by : Agent \cup {None},
                          to : Agent \cup {None}]]
  /\ reports \in 0..MaxReports /\ interventions \in 0..MaxInterventions

Idle == [at |-> "idle", agent |-> None, sender |-> None, recovery |-> FALSE, moment |-> 0,
         queue |-> {}, online |-> {}, old |-> {}, next |-> "agents"]
NoReply == [at |-> "none", by |-> None, to |-> None]

\* A new process knows of the past what the database knows.
Init ==
  /\ now = 0
  /\ running = Agent /\ enabled = Agent
  /\ record \in [Agent -> Limit] /\ memory = record
  /\ writes = [a \in Agent |-> <<>>] /\ diverged = {}
  /\ tick = Idle
  /\ suspect = [a \in Agent |-> 0] /\ asked = [a \in Agent |-> {}]
  /\ raised = {} /\ refused \in SUBSET Agent
  /\ reserved = {} /\ journal = {} /\ opened = {}
  /\ dialog = [p \in Pair |-> None]
  /\ turns = [p \in Pair |-> 0] /\ strays = [p \in Pair |-> 0]
  /\ inbox = {} /\ reply = [r \in Reply |-> NoReply]
  /\ reports = 0 /\ interventions = 0
-----------------------------------------------------------------------------
(* Restrictions: the runtime knows at once, the database when it has written. *)

Records(a, event, by) == writes' = [writes EXCEPT ![a] = Append(@, [event |-> event, by |-> by])]

\* _mark_restricted() of a runtime that is not restricted.
MarkRestricted(a, by) ==
  /\ memory' = [memory EXCEPT ![a] = "restricted"]
  /\ Records(a, "restricted", by)
  /\ UNCHANGED <<record, diverged>>

\* report_peer_flood(): any send of an agent may meet the limit.
ReportPeerFlood(a) ==
  /\ a \in running /\ reports < MaxReports
  /\ memory[a] = "free"
  /\ MarkRestricted(a, "other")
  /\ reports' = reports + 1
  /\ UNCHANGED <<now, agents, tick, checks, openers, dialogs, interventions>>

\* report_spam_limit_suspect(): a group refused the agent, which the journal notes too.
ReportSuspect(a) ==
  /\ a \in running /\ reports < MaxReports
  /\ memory[a] = "free"
  /\ suspect' = [suspect EXCEPT ![a] = IF @ = 0 THEN 1 ELSE @]
  /\ refused' = refused \cup {a}
  /\ reports' = reports + 1
  /\ UNCHANGED <<now, agents, limits, tick, asked, raised, openers, dialogs, interventions>>

\* start_recovery(): the user's choice.
StartRecovery(a) ==
  /\ memory[a] = "restricted" /\ interventions < MaxInterventions
  /\ memory' = [memory EXCEPT ![a] = "recovery"]
  /\ Records(a, "recovery_started", "other")
  /\ interventions' = interventions + 1
  /\ UNCHANGED <<now, agents, record, diverged, tick, checks, openers, dialogs, reports>>

\* Mutant of Applied: only a recovery that the user has begun is ended.
Applied_OnlyRecovery(column, event) ==
  CASE event = "restricted" /\ column = "free" -> "restricted"
    [] event = "recovery_started" /\ column = "restricted" -> "recovery"
    [] event = "recovered" /\ column = "recovery" -> "free"
    [] OTHER -> column

\* DatabaseWarmupStateStore._apply(): an update that does not fit changes nothing.
Applied(column, event) ==
  CASE event = "restricted" /\ column = "free" -> "restricted"
    [] event = "recovery_started" /\ column = "restricted" -> "recovery"
    [] event = "recovered" -> "free"
    [] OTHER -> column

WithoutWrite(a, i) ==
  [j \in 1..Len(writes[a]) - 1 |-> IF j < i THEN writes[a][j] ELSE writes[a][j + 1]]

\* What follows a write: the tick goes on, and a marked agent is asked anew.
Written(a, i) ==
  LET w == writes[a][i]
  IN  /\ writes' = [writes EXCEPT ![a] = WithoutWrite(a, i)]
      /\ tick' = IF w.by = "tick" THEN [tick EXCEPT !.at = tick.next, !.agent = None] ELSE tick
      /\ asked' = CASE w.event # "restricted" -> asked
                    [] w.by = "tick" /\ tick.next = "suspects" ->
                         [asked EXCEPT ![a] = @ \cup {"release"}]
                    [] OTHER -> [asked EXCEPT ![a] = @ \ {"release"}]
      /\ UNCHANGED <<now, agents, memory, suspect, raised, refused, openers, dialogs, bounds>>

\* Two writes of an agent have a connection each: the later may be first.
WriteLands(a, i) ==
  /\ record' = [record EXCEPT ![a] = Applied(@, writes[a][i].event)]
  /\ diverged' = diverged \cup {b \in {a} : i > 1}
  /\ Written(a, i)

\* _record_transition() swallows the failure.
WriteFails(a, i) ==
  /\ diverged' = diverged \cup {a}
  /\ UNCHANGED record
  /\ Written(a, i)
-----------------------------------------------------------------------------
(* tick(): suspicions from the journal, @SpamBot's word on them, the agents. *)

\* tick() begins with _raise_suspicion_from_history(): the journal of an agent is read
\* once, a failed read is tried again at the next tick.
Begin ==
  /\ tick.at = "idle"
  /\ \E failed \in SUBSET Agent :
       LET read == {a \in running \ (raised \cup failed) : memory[a] = "free"}
       IN  /\ raised' = raised \cup read
           /\ suspect' = [a \in Agent |-> IF a \in read \cap refused /\ suspect[a] = 0
                                         THEN 1 ELSE suspect[a]]
  /\ tick' = [tick EXCEPT !.at = "suspects", !.queue = Agent]
  /\ UNCHANGED <<now, agents, limits, asked, refused, openers, dialogs, bounds>>

\* Each phase takes the runtimes anew; `online` is read before the last.
NextPhase ==
  /\ \/ /\ tick.at = "suspects" /\ \A a \in tick.queue : suspect[a] = 0
        /\ tick' = [Idle EXCEPT !.at = "agents", !.queue = Agent, !.online = running]
     \/ tick.at = "agents" /\ tick.queue = {} /\ tick' = Idle
  /\ UNCHANGED <<now, agents, limits, checks, openers, dialogs, bounds>>

\* _verify_suspect(), up to the question. A busy runtime is left for the next tick.
VerifySuspect(a) ==
  /\ tick.at = "suspects" /\ a \in tick.queue /\ suspect[a] > 0
  /\ \/ /\ memory[a] = "free"
        /\ a \in running \ tick.old /\ "suspect" \notin asked[a]
        /\ asked' = [asked EXCEPT ![a] = @ \cup {"suspect"}]
        /\ tick' = [tick EXCEPT !.at = "suspect", !.agent = a, !.queue = @ \ {a}]
        /\ UNCHANGED suspect
     \/ /\ suspect' = [suspect EXCEPT ![a] = IF memory[a] = "free" THEN @ ELSE 0]
        /\ tick' = [tick EXCEPT !.queue = @ \ {a}]
        /\ UNCHANGED asked
  /\ UNCHANGED <<now, agents, limits, raised, refused, openers, dialogs, bounds>>

\* The tick marks the runtime it holds; a new one of the same agent does not learn of it.
TickMarks(a) ==
  IF a \in tick.old
  THEN Records(a, "restricted", "tick") /\ diverged' = diverged \cup {a} /\ UNCHANGED <<memory, record>>
  ELSE MarkRestricted(a, "tick")

\* @SpamBot has answered: limited, free, or nothing that is understood.
SuspectLimited ==
  /\ tick.at = "suspect"
  /\ suspect' = [suspect EXCEPT ![tick.agent] = 0]
  /\ IF memory[tick.agent] = "free"
     THEN TickMarks(tick.agent) /\ tick' = [tick EXCEPT !.at = "record", !.next = "suspects"]
          /\ UNCHANGED asked
     ELSE /\ asked' = [asked EXCEPT ![tick.agent] = @ \cup {"release"}]
          /\ tick' = [tick EXCEPT !.at = "suspects", !.agent = None]
          /\ UNCHANGED limits
  /\ UNCHANGED <<now, agents, raised, refused, openers, dialogs, bounds>>

SuspectFree ==
  /\ tick.at = "suspect"
  /\ suspect' = [suspect EXCEPT ![tick.agent] = 0]
  /\ tick' = [tick EXCEPT !.at = "suspects", !.agent = None]
  /\ UNCHANGED <<now, agents, limits, asked, raised, refused, openers, dialogs, bounds>>

\* Mutant of SuspectUnclear: the agent is asked about without end.
SuspectUnclear_Endless ==
  /\ tick.at = "suspect"
  /\ suspect' = [suspect EXCEPT ![tick.agent] = @ + 1]
  /\ tick' = [tick EXCEPT !.at = "suspects", !.agent = None]
  /\ UNCHANGED <<now, agents, limits, asked, raised, refused, openers, dialogs, bounds>>

SuspectUnclear ==
  /\ tick.at = "suspect"
  /\ suspect' = [suspect EXCEPT ![tick.agent] = IF @ >= MaxUnclear THEN 0 ELSE @ + 1]
  /\ tick' = [tick EXCEPT !.at = "suspects", !.agent = None]
  /\ UNCHANGED <<now, agents, limits, asked, raised, refused, openers, dialogs, bounds>>
-----------------------------------------------------------------------------
(* Restricted agents. *)

\* _tend_restricted() after the question of release: a recovery by a helper's dialog.
Tend(a) ==
  tick' = IF memory[a] = "recovery" /\ a \in tick.online
          THEN [tick EXCEPT !.at = "slot", !.agent = a, !.recovery = TRUE, !.queue = @ \ {a}]
          ELSE [tick EXCEPT !.at = "agents", !.agent = None, !.queue = @ \ {a}]

\* tick() comes to an agent: @SpamBot is asked about a restricted one, a free one may open.
TakeAgent(a) ==
  /\ tick.at = "agents" /\ a \in tick.queue
  /\ CASE a \notin running \ tick.old ->
            tick' = [tick EXCEPT !.queue = @ \ {a}] /\ UNCHANGED asked
       [] a \in running \ tick.old /\ memory[a] # "free" ->
            IF "release" \in asked[a]
            THEN Tend(a) /\ UNCHANGED asked
            ELSE /\ asked' = [asked EXCEPT ![a] = @ \cup {"release"}]
                 /\ tick' = [tick EXCEPT !.at = "release", !.agent = a, !.queue = @ \ {a}]
       [] OTHER ->
            /\ tick' = IF a \in tick.online \cap enabled
                       THEN [tick EXCEPT !.at = "slot", !.agent = a, !.recovery = FALSE,
                                         !.queue = @ \ {a}]
                       ELSE [tick EXCEPT !.queue = @ \ {a}]
            /\ UNCHANGED asked
  /\ UNCHANGED <<now, agents, limits, suspect, raised, refused, openers, dialogs, bounds>>

\* _release_if_free(): only a clear answer releases, even if the agent was marked anew.
Released ==
  /\ tick.at = "release"
  /\ Records(tick.agent, "recovered", "tick")
  /\ IF tick.agent \in tick.old
     THEN diverged' = diverged \cup {tick.agent} /\ UNCHANGED memory
     ELSE memory' = [memory EXCEPT ![tick.agent] = "free"] /\ UNCHANGED diverged
  /\ tick' = [tick EXCEPT !.at = "record", !.next = "agents"]
  /\ UNCHANGED <<now, agents, record, checks, openers, dialogs, bounds>>

NotReleased ==
  /\ tick.at = "release"
  /\ Tend(tick.agent)
  /\ UNCHANGED <<now, agents, limits, checks, openers, dialogs, bounds>>
-----------------------------------------------------------------------------
(* Openers: when one is due, who sends it to whom, and what becomes of it. *)

Distance(s, t) == IF s < t THEN t - s ELSE s - t

\* Mutant of Merged: what this process reserved does not count.
Merged_Stored(stored, kept) == {o.at : o \in stored}

\* merge_attempts(): a reservation counts until the journal has the attempt.
Merged(stored, kept) ==
  {o.at : o \in stored \cup {k \in kept : \A s \in stored : Distance(k.at, s.at) > MatchWindow}}

Sent(a) == Merged({o \in journal : o.from = a}, {o \in reserved : o.from = a})
Received(a) == Merged({o \in journal : o.to = a}, {o \in reserved : o.to = a})

\* due_slot(): a slot has begun, is not over, and no attempt falls into it.
Due(slots, attempts) ==
  \E s \in slots : /\ s <= now /\ now <= s + Grace
                   /\ \A m \in attempts : m < s \/ m > s + Grace

\* sender_may_open(): one budget for an agent's own dialogs and its help. The time is
\* taken before the attempts are read.
MayOpen(a, moment) ==
  /\ Cardinality(Sent(a)) < MaxOpeners
  /\ \A m \in Sent(a) : moment - m >= MinInterval

Proceed(at) == tick' = [tick EXCEPT !.at = at]
NextAgent == tick' = [tick EXCEPT !.at = "agents", !.agent = None, !.sender = None,
                                  !.recovery = FALSE, !.moment = 0]

\* _maybe_start_dialog(), and the beginning of start_dialog().
SlotIsDue ==
  /\ tick.at = "slot" /\ ~tick.recovery
  /\ IF Due(Slots[tick.agent], Sent(tick.agent))
     THEN tick' = [tick EXCEPT !.at = "budget", !.sender = tick.agent, !.agent = None,
                               !.moment = now]
     ELSE NextAgent
  /\ UNCHANGED <<now, agents, limits, checks, openers, dialogs, bounds>>

\* An agent whom `sender` may write to, or who may write to a restricted one.
Partner(a, b) == a # b /\ b \in tick.online \cap enabled /\ memory[b] = "free" /\ dialog[{a, b}] = None

\* _maybe_start_recovery_dialog(): each helper's budget is read in turn.
RecoveryIsDue ==
  /\ tick.at = "slot" /\ tick.recovery
  /\ \/ /\ Due(RecoverySlots[tick.agent], Received(tick.agent))
        /\ \E h \in Agent : /\ Partner(tick.agent, h)
                            /\ tick' = [tick EXCEPT !.at = "helper", !.sender = h]
     \/ NextAgent
  /\ UNCHANGED <<now, agents, limits, checks, openers, dialogs, bounds>>

HelperIsChosen ==
  /\ tick.at = "helper"
  /\ IF MayOpen(tick.sender, now) THEN tick' = [tick EXCEPT !.at = "budget", !.moment = now]
                             ELSE NextAgent
  /\ UNCHANGED <<now, agents, limits, checks, openers, dialogs, bounds>>

\* start_dialog(): the budget, then a partner that is not known yet.
BudgetIsRead ==
  /\ tick.at = "budget"
  /\ \/ /\ MayOpen(tick.sender, tick.moment)
        /\ IF tick.recovery
           THEN Proceed("text")
           ELSE \E b \in Agent : /\ Partner(tick.sender, b)
                                /\ tick' = [tick EXCEPT !.at = "text", !.agent = b]
     \/ /\ \/ ~MayOpen(tick.sender, tick.moment)
           \/ ~tick.recovery /\ \A b \in Agent : ~Partner(tick.sender, b)
        /\ NextAgent
  /\ UNCHANGED <<now, agents, limits, checks, openers, dialogs, bounds>>

Waiting(p) == {r \in Reply : reply[r].at = "waiting" /\ {reply[r].by, reply[r].to} = p}

TheOpener == [from |-> tick.sender, to |-> tick.agent, at |-> tick.moment]
ThePair == {tick.sender, tick.agent}

\* The dialog and both quotas are taken before the opener is sent. A reply of an earlier
\* dialog that is still waiting is not told from one of this.
Open ==
  /\ tick.at = "text"
  /\ reserved' = reserved \cup {TheOpener} /\ opened' = opened \cup {TheOpener}
  /\ IF tick.sender \in running \ tick.old
     THEN /\ \E n \in IF tick.recovery THEN RecoveryLengths ELSE Lengths :
               dialog' = [dialog EXCEPT ![ThePair] = [length |-> n, count |-> 1]]
          /\ strays' = [strays EXCEPT ![ThePair] = Cardinality(Waiting(ThePair))]
          /\ Proceed("send")
     ELSE /\ strays' = [strays EXCEPT ![ThePair] = 0]
          /\ dialog' = [dialog EXCEPT ![ThePair] = None] /\ NextAgent
  /\ turns' = [turns EXCEPT ![ThePair] = 0]
  /\ UNCHANGED <<now, agents, limits, checks, journal, inbox, reply, bounds>>

Both(a, b) == {a, b} \subseteq enabled

\* The partner has the opener before its sender is told so.
Delivered ==
  /\ tick.at = "send"
  /\ inbox' = inbox \cup {<<tick.sender, tick.agent>>}
  /\ Proceed("journal")
  /\ UNCHANGED <<now, agents, limits, checks, openers, dialog, counts, reply, bounds>>

\* _record_event(), which swallows what goes wrong.
Journals == journal' \in {journal, journal \cup {[TheOpener EXCEPT !.at = now]}}

OpenerRecorded ==
  /\ tick.at = "journal"
  /\ Journals /\ NextAgent
  /\ UNCHANGED <<now, agents, limits, checks, reserved, opened, dialogs, bounds>>

Forget(p) ==
  /\ dialog' = [dialog EXCEPT ![p] = None]
  /\ turns' = [turns EXCEPT ![p] = 0] /\ strays' = [strays EXCEPT ![p] = 0]
  /\ UNCHANGED <<inbox, reply>>

\* The opener was not sent, or Telegram's confirmation of it was lost.
OpenerFails ==
  /\ tick.at \in {"send", "journal"}
  /\ Journals /\ Forget(ThePair) /\ NextAgent
  /\ UNCHANGED <<now, agents, limits, checks, reserved, opened, bounds>>

\* PeerFloodError: the sender is limited.
OpenerRefused ==
  /\ tick.at = "send"
  /\ Journals /\ Forget(ThePair)
  /\ IF memory[tick.sender] = "free"
     THEN /\ TickMarks(tick.sender)
          /\ tick' = [tick EXCEPT !.at = "record", !.agent = None, !.sender = None,
                                  !.recovery = FALSE, !.moment = 0, !.next = "agents"]
     ELSE NextAgent /\ UNCHANGED limits
  /\ UNCHANGED <<now, agents, checks, reserved, opened, bounds>>
-----------------------------------------------------------------------------
(* Answers: claimed, delayed like a person's, confirmed, given by a turn. *)

\* A message between agents of which one has left the warm-up begins an ordinary turn.
\* _dispatch_incoming() takes each part of a message for a message.
Unseen(by, to, r) == <<to, by>> \in inbox /\ by \in running /\ reply[r].at = "none"
Seen(by, to) == inbox' \in {inbox, inbox \ {<<to, by>>}}

\* Mutant of Claim: a message is not spent by the claim.
Claim_Unspent(by, to, r) ==
  /\ Unseen(by, to, r) /\ Seen(by, to)
  /\ Both(by, to)
  /\ LET d == dialog[{by, to}]
     IN  IF d # None /\ d.count < d.length
         THEN reply' = [reply EXCEPT ![r] = [at |-> "waiting", by |-> by, to |-> to]]
         ELSE UNCHANGED reply
  /\ UNCHANGED <<now, agents, limits, tick, checks, openers, dialog, counts, bounds>>

\* claim_reply(): a message of the dialog is spent before it is written.
Claim(by, to, r) ==
  /\ Unseen(by, to, r) /\ Seen(by, to)
  /\ Both(by, to)
  /\ LET d == dialog[{by, to}]
     IN  IF d # None /\ d.count < d.length
         THEN /\ dialog' = [dialog EXCEPT ![{by, to}].count = @ + 1]
              /\ reply' = [reply EXCEPT ![r] = [at |-> "waiting", by |-> by, to |-> to]]
         ELSE UNCHANGED <<dialog, reply>>
  /\ UNCHANGED <<now, agents, limits, tick, checks, openers, counts, bounds>>

OrdinaryTurn(by, to, r) ==
  /\ Unseen(by, to, r) /\ Seen(by, to)
  /\ ~Both(by, to)
  /\ reply' = [reply EXCEPT ![r] = [at |-> "turn", by |-> by, to |-> to]]
  /\ UNCHANGED <<now, agents, limits, tick, checks, openers, dialog, counts, bounds>>

\* confirm_reply(): a reply is dropped when the two have no dialog any more; it asks for
\* any dialog of theirs, not for the one in which the reply was claimed.
Confirm(r) ==
  /\ reply[r].at = "waiting"
  /\ LET p == {reply[r].by, reply[r].to}
     IN  IF p \subseteq enabled /\ dialog[p] # None /\ reply[r].by \in running
         THEN /\ reply' = [reply EXCEPT ![r].at = "turn"]
              /\ turns' = [turns EXCEPT ![p] = @ + 1]
         ELSE reply' = [reply EXCEPT ![r] = NoReply] /\ UNCHANGED turns
  /\ UNCHANGED <<now, agents, limits, tick, checks, openers, dialog, strays, inbox, bounds>>

\* A tool of the turn writes to the partner, or the turn gives its answer: how many
\* messages that are, nobody counts.
Says(r) ==
  /\ reply[r].at = "turn"
  /\ inbox' = inbox \cup {<<reply[r].by, reply[r].to>>}
  /\ UNCHANGED <<now, agents, limits, tick, checks, openers, dialog, counts, reply, bounds>>

\* The turn ends; it may have said nothing.
TurnEnds(r) ==
  /\ reply[r].at = "turn"
  /\ reply' = [reply EXCEPT ![r] = NoReply]
  /\ UNCHANGED <<now, agents, limits, tick, checks, openers, dialog, counts, inbox, bounds>>

\* DIALOG_IDLE_TIMEOUT, longer than an opener or a delayed reply takes.
DialogIdles(p) ==
  /\ dialog[p] # None
  /\ ~(tick.at \in {"send", "journal"} /\ ThePair = p)
  /\ \A r \in Reply : {reply[r].by, reply[r].to} = p => reply[r].at # "waiting"
  /\ Forget(p)
  /\ UNCHANGED <<now, agents, limits, tick, checks, openers, bounds>>
-----------------------------------------------------------------------------
(* What the rest of the program and the world do. *)

\* The pauses between questions to @SpamBot end with the unit, or do not.
TimePasses ==
  /\ now < MaxTime
  /\ now' = now + 1
  /\ asked' \in {[a \in Agent |-> {}], [a \in Agent |-> asked[a] \cap {"release"}]}
  /\ UNCHANGED <<agents, limits, tick, suspect, raised, refused, openers, dialogs, bounds>>

\* Manager: an agent is stopped, started, or gets a new runtime with a new configuration,
\* which takes the restriction from the database.
Stops(a) ==
  /\ a \in running /\ interventions < MaxInterventions
  /\ running' = running \ {a}
  /\ interventions' = interventions + 1
  /\ UNCHANGED <<now, enabled, limits, tick, checks, openers, dialogs, reports>>

Rebuilt(a) ==
  /\ interventions < MaxInterventions
  /\ running' = running \cup {a}
  /\ enabled' \in {enabled \cup {a}, enabled \ {a}}
  /\ memory' = [memory EXCEPT ![a] = record[a]]
  /\ diverged' = IF writes[a] = <<>> THEN diverged \ {a} ELSE diverged \cup {a}
  /\ tick' = IF tick.at = "idle" THEN tick ELSE [tick EXCEPT !.old = @ \cup {a}]
  /\ interventions' = interventions + 1
  /\ UNCHANGED <<now, record, writes, checks, openers, dialogs, reports>>

\* The process dies: what is known of today is in the database.
Restart ==
  /\ interventions < MaxInterventions
  /\ memory' = record /\ writes' = [a \in Agent |-> <<>>] /\ diverged' = {}
  /\ tick' = Idle
  /\ suspect' = [a \in Agent |-> 0] /\ asked' = [a \in Agent |-> {}] /\ raised' = {}
  /\ reserved' = {} /\ opened' = journal
  /\ dialog' = [p \in Pair |-> None]
  /\ turns' = [p \in Pair |-> 0] /\ strays' = [p \in Pair |-> 0]
  /\ reply' = [r \in Reply |-> NoReply]
  /\ interventions' = interventions + 1
  /\ UNCHANGED <<now, agents, record, refused, journal, inbox, reports>>

Tick ==
  \/ Begin \/ NextPhase
  \/ \E a \in Agent : VerifySuspect(a) \/ TakeAgent(a)
  \/ SuspectLimited \/ SuspectFree \/ SuspectUnclear \/ Released \/ NotReleased
  \/ SlotIsDue \/ RecoveryIsDue \/ HelperIsChosen \/ BudgetIsRead
  \/ Open \/ Delivered \/ OpenerRecorded \/ OpenerFails \/ OpenerRefused

Next ==
  \/ Tick
  \/ \E a \in Agent : ReportPeerFlood(a) \/ ReportSuspect(a) \/ StartRecovery(a)
  \/ \E a \in Agent : \E i \in DOMAIN writes[a] : WriteLands(a, i) \/ WriteFails(a, i)
  \/ \E a, b \in Agent, r \in Reply : Claim(a, b, r) \/ OrdinaryTurn(a, b, r)
  \/ \E r \in Reply : Confirm(r) \/ Says(r) \/ TurnEnds(r)
  \/ \E p \in Pair : DialogIdles(p)
  \/ \E a \in Agent : Stops(a) \/ Rebuilt(a)
  \/ TimePasses \/ Restart

Spec == Init /\ [][Next]_vars
-----------------------------------------------------------------------------
\* However the replies of both sides interleave with each other, with the end of a dialog
\* and with the opener of the next, no more turns answer in a dialog than claim_reply() has
\* messages to give after the opener, and those replies that were waiting when it began:
\* confirm_reply() takes them for replies of this dialog.
TurnsAreBounded ==
  \A p \in Pair : dialog[p] # None => turns[p] < dialog[p].length + strays[p]

\* An agent's own openers and those it sends to help a restricted one share a budget: no
\* more than MAX_OPENERS_PER_DAY, none within MIN_OPENER_INTERVAL of another, whether or
\* not the journal has them. What was reserved and not yet recorded dies with the process.
OpenersAreSpaced ==
  \A a \in Agent :
    LET mine == {o \in opened : o.from = a}
    IN  /\ Cardinality(mine) <= MaxOpeners
        /\ \A o, p \in mine : o # p => Distance(o.at, p.at) >= MinInterval

\* When no transition of an agent is on its way, the database holds the restriction its
\* runtime works by, unless one failed or overtook another (diverged): a restart neither
\* frees a restricted account nor restricts a free one.
RecordFollowsMemory ==
  \A a \in Agent \ diverged : writes[a] = <<>> => record[a] = memory[a]
=============================================================================
