---------------------------- MODULE WarmupProofs ----------------------------
(***************************************************************************)
(* Theorems about Warmup, for any number of agents and replies and any     *)
(* slots, lengths, limits and bounds.                                      *)
(***************************************************************************)
EXTENDS Warmup, FiniteSetTheorems, TLAPS

-----------------------------------------------------------------------------
(* The inductive invariant.                                                *)

\* Whom the task is busy with, and who writes to whom.
TickBusy ==
  /\ tick.at \in {"suspect", "release", "slot", "helper", "text", "send", "journal"} =>
       tick.agent \in Agent
  /\ tick.at \in {"helper", "budget", "text", "send", "journal"} =>
       tick.sender \in Agent \ {tick.agent}
  /\ tick.at = "budget" /\ tick.recovery => tick.agent \in Agent

TickOK == TickBusy /\ tick.moment <= now

\* Nobody writes to himself, and a reply that is not under way is of no dialog.
RepliesOK ==
  /\ \A a \in Agent : <<a, a>> \notin inbox
  /\ \A r \in Reply :
       IF reply[r].at = "none" THEN reply[r] = NoReply
       ELSE /\ reply[r].by \in Agent /\ reply[r].to \in Agent
            /\ reply[r].by # reply[r].to

\* A reply that waits was counted when it was claimed, and so was a turn, unless it waited
\* already when the dialog began.
Counted ==
  \A p \in Pair : dialog[p] # None =>
    turns[p] + Cardinality(Waiting(p)) + 1 <= dialog[p].count + strays[p]

From(a, set) == {o \in set : o.from = a}

Spaced(set) ==
  \A o, p \in set : o.from = p.from /\ o # p => Distance(o.at, p.at) >= MinInterval

\* The openers of this process are in its memory, those of a former one in the journal.
Known ==
  /\ IsFiniteSet(opened) /\ IsFiniteSet(journal)
  /\ reserved \subseteq opened /\ opened \subseteq reserved \cup journal
  /\ \A o \in opened \cup journal : o.at <= now

\* An opener that was recorded before this one was is long past.
JournalFollows ==
  \A s \in journal, o \in reserved :
    s.from = o.from /\ s.at < o.at => o.at - s.at >= MinInterval

\* From the budget to the record of the opener.
Spending ==
  /\ tick.at = "text" => MayOpen(tick.sender, tick.moment)
  /\ tick.at \in {"send", "journal"} =>
       /\ Cardinality(From(tick.sender, journal)) < MaxOpeners
       /\ \A s \in From(tick.sender, journal) : tick.moment - s.at >= MinInterval
       /\ TheOpener \in opened

OpenersOK ==
  /\ Known /\ JournalFollows /\ Spending
  /\ Spaced(opened) /\ Spaced(journal)
  /\ \A a \in Agent : /\ Cardinality(From(a, opened)) <= MaxOpeners
                      /\ Cardinality(From(a, journal)) <= MaxOpeners

\* The restriction that an event stands for.
Target(event) ==
  CASE event = "restricted" -> "restricted"
    [] event = "recovery_started" -> "recovery"
    [] event = "recovered" -> "free"

\* The transitions that are on their way lead, one after the other, from what the
\* database has to what the runtime has.
Leads(column, queue, limit) ==
  /\ queue = <<>> => column = limit
  /\ queue # <<>> => /\ Applied(column, queue[1].event) = Target(queue[1].event)
                     /\ Target(queue[Len(queue)].event) = limit
  /\ \A i \in 2..Len(queue) :
       Applied(Target(queue[i - 1].event), queue[i].event) = Target(queue[i].event)

RecordsOK == \A a \in Agent \ diverged : Leads(record[a], writes[a], memory[a])

IInv == TypeOK /\ TickOK /\ RepliesOK /\ Counted /\ OpenersOK /\ RecordsOK

-----------------------------------------------------------------------------
(* Types, by the groups of variables that steps leave alone together.      *)

TickState ==
  [at : {"idle", "suspects", "suspect", "agents", "release", "slot",
         "helper", "budget", "text", "send", "journal", "record"},
   agent : Agent \cup {None}, sender : Agent \cup {None}, recovery : BOOLEAN,
   moment : Time, queue : SUBSET Agent, online : SUBSET Agent,
   old : SUBSET Agent, next : {"suspects", "agents"}]

Write == [event : Transition, by : {"tick", "other"}]
Dialog == [length : Lengths \cup RecoveryLengths, count : Nat \ {0}]
Answering == [at : {"none", "waiting", "turn"}, by : Agent \cup {None},
              to : Agent \cup {None}]

NowTyped == now \in Time
AgentsTyped == running \subseteq Agent /\ enabled \subseteq Agent
LimitsTyped ==
  /\ memory \in [Agent -> Limit] /\ record \in [Agent -> Limit]
  /\ writes \in [Agent -> Seq(Write)] /\ diverged \subseteq Agent
TickTyped == tick \in TickState
ChecksTyped ==
  /\ suspect \in [Agent -> 0..MaxUnclear]
  /\ asked \in [Agent -> SUBSET {"suspect", "release"}]
  /\ raised \subseteq Agent /\ refused \subseteq Agent
OpenersTyped == reserved \subseteq Opener /\ journal \subseteq Opener /\ opened \subseteq Opener
DialogsTyped ==
  /\ dialog \in [Pair -> Dialog \cup {None}]
  /\ \A p \in Pair : dialog[p] # None => dialog[p].count <= dialog[p].length
  /\ turns \in [Pair -> Nat] /\ strays \in [Pair -> Nat]
  /\ inbox \subseteq Agent \X Agent
  /\ reply \in [Reply -> Answering]
BoundsTyped == reports \in 0..MaxReports /\ interventions \in 0..MaxInterventions

LEMMA TypeParts ==
  TypeOK <=> /\ NowTyped /\ AgentsTyped /\ LimitsTyped /\ TickTyped
             /\ ChecksTyped /\ OpenersTyped /\ DialogsTyped /\ BoundsTyped
BY Zenon DEF TypeOK, NowTyped, AgentsTyped, LimitsTyped, TickTyped, ChecksTyped, OpenersTyped,
   DialogsTyped, BoundsTyped, TickState, Write, Dialog, Answering

LEMMA TypePartsNext ==
  TypeOK' <=> /\ NowTyped' /\ AgentsTyped' /\ LimitsTyped' /\ TickTyped'
              /\ ChecksTyped' /\ OpenersTyped' /\ DialogsTyped' /\ BoundsTyped'
BY TypeParts, PTL

-----------------------------------------------------------------------------
(* Which actions change what.                                              *)

LimitStep ==
  \/ \E a \in Agent : ReportPeerFlood(a) \/ StartRecovery(a) \/ Rebuilt(a)
  \/ \E a \in Agent : \E i \in DOMAIN writes[a] : WriteLands(a, i) \/ WriteFails(a, i)
  \/ SuspectLimited \/ Released \/ OpenerRefused \/ Restart

CheckStep ==
  \/ \E a \in Agent : ReportSuspect(a) \/ VerifySuspect(a) \/ TakeAgent(a)
  \/ \E a \in Agent : \E i \in DOMAIN writes[a] : WriteLands(a, i) \/ WriteFails(a, i)
  \/ Begin \/ SuspectLimited \/ SuspectFree \/ SuspectUnclear \/ TimePasses \/ Restart

OpenerStep == Open \/ OpenerRecorded \/ OpenerFails \/ OpenerRefused \/ Restart

DialogStep ==
  \/ Open \/ Delivered \/ OpenerFails \/ OpenerRefused \/ Restart
  \/ \E a, b \in Agent, r \in Reply : Claim(a, b, r) \/ OrdinaryTurn(a, b, r)
  \/ \E r \in Reply : Confirm(r) \/ Says(r) \/ TurnEnds(r)
  \/ \E p \in Pair : DialogIdles(p)

AgentStep == \E a \in Agent : Stops(a) \/ Rebuilt(a)

BoundStep ==
  \/ \E a \in Agent : ReportPeerFlood(a) \/ ReportSuspect(a) \/ StartRecovery(a)
  \/ AgentStep \/ Restart

\* An action changes the groups of variables that it names and no other.
LEMMA Changes ==
  ASSUME Next
  PROVE  /\ LimitStep \/ UNCHANGED limits
         /\ CheckStep \/ UNCHANGED checks
         /\ OpenerStep \/ UNCHANGED openers
         /\ DialogStep \/ UNCHANGED dialogs
         /\ AgentStep \/ UNCHANGED agents
         /\ BoundStep \/ UNCHANGED bounds
         /\ TimePasses \/ UNCHANGED now
<1>1. LimitStep \/ UNCHANGED limits
  BY Zenon DEF Next, Tick, LimitStep, ReportSuspect, Begin, NextPhase, VerifySuspect, TakeAgent,
     SuspectFree, SuspectUnclear, NotReleased, SlotIsDue, RecoveryIsDue, HelperIsChosen,
     BudgetIsRead, Open, Delivered, OpenerRecorded, OpenerFails, Claim, OrdinaryTurn, Confirm,
     Says, TurnEnds, DialogIdles, Stops, TimePasses
<1>2. CheckStep \/ UNCHANGED checks
  BY Zenon DEF Next, Tick, CheckStep, ReportPeerFlood, StartRecovery, NextPhase, Released,
     NotReleased, SlotIsDue, RecoveryIsDue, HelperIsChosen, BudgetIsRead, Open, Delivered,
     OpenerRecorded, OpenerFails, OpenerRefused, Claim, OrdinaryTurn, Confirm, Says, TurnEnds,
     DialogIdles, Stops, Rebuilt
<1>3. OpenerStep \/ UNCHANGED openers
  BY Zenon DEF Next, Tick, OpenerStep, ReportPeerFlood, ReportSuspect, StartRecovery, Begin,
     NextPhase, VerifySuspect, TakeAgent, SuspectLimited, SuspectFree, SuspectUnclear, Released,
     NotReleased, SlotIsDue, RecoveryIsDue, HelperIsChosen, BudgetIsRead, Delivered, Claim,
     OrdinaryTurn, Confirm, Says, TurnEnds, DialogIdles, Stops, Rebuilt, TimePasses, WriteLands,
     WriteFails, Written
<1>4. DialogStep \/ UNCHANGED dialogs
  BY Zenon DEF Next, Tick, DialogStep, ReportPeerFlood, ReportSuspect, StartRecovery, Begin,
     NextPhase, VerifySuspect, TakeAgent, SuspectLimited, SuspectFree, SuspectUnclear, Released,
     NotReleased, SlotIsDue, RecoveryIsDue, HelperIsChosen, BudgetIsRead, OpenerRecorded, Stops,
     Rebuilt, TimePasses, WriteLands, WriteFails, Written
<1>5. AgentStep \/ UNCHANGED agents
  BY Zenon DEF Next, Tick, AgentStep, ReportPeerFlood, ReportSuspect, StartRecovery, Begin,
     NextPhase, VerifySuspect, TakeAgent, SuspectLimited, SuspectFree, SuspectUnclear, Released,
     NotReleased, SlotIsDue, RecoveryIsDue, HelperIsChosen, BudgetIsRead, Open, Delivered,
     OpenerRecorded, OpenerFails, OpenerRefused, Claim, OrdinaryTurn, Confirm, Says, TurnEnds,
     DialogIdles, TimePasses, Restart, WriteLands, WriteFails, Written
<1>6. BoundStep \/ UNCHANGED bounds
  BY Zenon DEF Next, Tick, BoundStep, AgentStep, Begin, NextPhase, VerifySuspect, TakeAgent,
     SuspectLimited, SuspectFree, SuspectUnclear, Released, NotReleased, SlotIsDue,
     RecoveryIsDue, HelperIsChosen, BudgetIsRead, Open, Delivered, OpenerRecorded, OpenerFails,
     OpenerRefused, Claim, OrdinaryTurn, Confirm, Says, TurnEnds, DialogIdles, TimePasses, WriteLands,
     WriteFails, Written
<1>7. TimePasses \/ UNCHANGED now
  BY Zenon DEF Next, Tick, ReportPeerFlood, ReportSuspect, StartRecovery, Begin, NextPhase,
     VerifySuspect, TakeAgent, SuspectLimited, SuspectFree, SuspectUnclear, Released,
     NotReleased, SlotIsDue, RecoveryIsDue, HelperIsChosen, BudgetIsRead, Open, Delivered,
     OpenerRecorded, OpenerFails, OpenerRefused, Claim, OrdinaryTurn, Confirm, Says, TurnEnds,
     DialogIdles, Stops, Rebuilt, Restart, WriteLands, WriteFails, Written
<1>. QED
  BY <1>1, <1>2, <1>3, <1>4, <1>5, <1>6, <1>7

-----------------------------------------------------------------------------
(* Types: each group is typed after a step.                                *)

\* A write that has landed or failed leaves the others in their order.
LEMMA WithoutWriteIs ==
  ASSUME TypeOK, NEW a \in Agent, NEW i \in DOMAIN writes[a]
  PROVE  /\ WithoutWrite(a, i) \in Seq(Write)
         /\ Len(WithoutWrite(a, i)) = Len(writes[a]) - 1
         /\ \A j \in 1..Len(writes[a]) - 1 :
              WithoutWrite(a, i)[j] = IF j < i THEN writes[a][j] ELSE writes[a][j + 1]
         /\ writes[a] \in Seq(Write) /\ Len(writes[a]) \in Nat \ {0} /\ i \in 1..Len(writes[a])
         /\ \A j \in 1..Len(writes[a]) : writes[a][j] \in Write
<1>1. writes[a] \in Seq(Write)
  BY TypeParts DEF LimitsTyped
<1>2. /\ Len(writes[a]) \in Nat /\ i \in 1..Len(writes[a])
      /\ \A j \in 1..Len(writes[a]) : writes[a][j] \in Write
  BY <1>1
<1>3. \A j \in 1..Len(writes[a]) - 1 :
        (IF j < i THEN writes[a][j] ELSE writes[a][j + 1]) \in Write
  BY <1>2
<1>4. WithoutWrite(a, i) \in [1..Len(writes[a]) - 1 -> Write]
  BY <1>3 DEF WithoutWrite
<1>5. Len(writes[a]) - 1 \in Nat
  BY <1>2
<1>6. WithoutWrite(a, i) \in Seq(Write) /\ Len(WithoutWrite(a, i)) = Len(writes[a]) - 1
  BY <1>4, <1>5
<1>. QED
  BY <1>1, <1>2, <1>5, <1>6 DEF WithoutWrite

LEMMA AppliedIsLimit ==
  ASSUME NEW column \in Limit, NEW event \in Transition
  PROVE  Applied(column, event) \in Limit
BY DEF Applied, Limit, Transition

\* A transition that is written at the end.
LEMMA RecordsTyped ==
  ASSUME TypeOK, NEW a \in Agent, NEW event \in Transition, NEW by \in {"tick", "other"},
         Records(a, event, by)
  PROVE  writes' \in [Agent -> Seq(Write)]
<1>1. writes \in [Agent -> Seq(Write)] /\ writes[a] \in Seq(Write)
  BY TypeParts DEF LimitsTyped
<1>2. [event |-> event, by |-> by] \in Write
  BY DEF Write
<1>. DEFINE w == [event |-> event, by |-> by]
<1>3. Append(writes[a], w) \in Seq(Write)
  BY <1>1, <1>2
<1>4. writes' = [writes EXCEPT ![a] = Append(writes[a], w)]
  BY DEF Records
<1>. HIDE DEF w
<1>. QED
  BY <1>1, <1>3, <1>4

LEMMA MarkTyped ==
  ASSUME TypeOK, NEW a \in Agent, NEW by \in {"tick", "other"}, MarkRestricted(a, by)
  PROVE  LimitsTyped'
<1>1. writes' \in [Agent -> Seq(Write)]
  BY RecordsTyped DEF MarkRestricted, Transition
<1>. QED
  BY <1>1, TypeParts DEF LimitsTyped, MarkRestricted, Limit

LEMMA TickMarkTyped ==
  ASSUME TypeOK, NEW a \in Agent, TickMarks(a)
  PROVE  LimitsTyped'
<1>1. CASE a \in tick.old
  <2>1. /\ Records(a, "restricted", "tick")
        /\ diverged' = diverged \cup {a} /\ UNCHANGED <<memory, record>>
    BY <1>1 DEF TickMarks
  <2>2. writes' \in [Agent -> Seq(Write)]
    BY <2>1, RecordsTyped DEF Transition
  <2>. QED
    BY <2>1, <2>2, TypeParts DEF LimitsTyped
<1>2. CASE a \notin tick.old
  BY <1>2, MarkTyped DEF TickMarks
<1>. QED
  BY <1>1, <1>2

LEMMA LimitsStayTyped ==
  ASSUME TypeOK, TickOK, Next
  PROVE  LimitsTyped'
<1>. USE TypeParts
<1>1. CASE UNCHANGED limits
  BY <1>1 DEF limits, LimitsTyped
<1>2. ASSUME NEW a \in Agent, ReportPeerFlood(a)
      PROVE  LimitsTyped'
  BY <1>2, MarkTyped DEF ReportPeerFlood
<1>3. ASSUME NEW a \in Agent, StartRecovery(a)
      PROVE  LimitsTyped'
  <2>1. writes' \in [Agent -> Seq(Write)]
    BY <1>3, RecordsTyped DEF StartRecovery, Transition
  <2>. QED
    BY <1>3, <2>1 DEF StartRecovery, LimitsTyped, Limit
<1>4. ASSUME NEW a \in Agent, Rebuilt(a)
      PROVE  LimitsTyped'
  <2>1. memory' \in [Agent -> Limit]
    BY <1>4 DEF Rebuilt, LimitsTyped
  <2>2. diverged' \subseteq Agent
    BY <1>4 DEF Rebuilt, LimitsTyped
  <2>. QED
    BY <1>4, <2>1, <2>2 DEF Rebuilt, LimitsTyped
<1>5. ASSUME NEW a \in Agent, NEW i \in DOMAIN writes[a], WriteLands(a, i) \/ WriteFails(a, i)
      PROVE  LimitsTyped'
  <2>1. Written(a, i)
    BY <1>5 DEF WriteLands, WriteFails
  <2>2. writes' \in [Agent -> Seq(Write)] /\ memory' = memory
    BY <2>1, WithoutWriteIs DEF Written, LimitsTyped
  <2>3. i \in 1..Len(writes[a]) /\ writes[a][i].event \in Transition
    BY WithoutWriteIs DEF Write
  <2>4. Applied(record[a], writes[a][i].event) \in Limit
    BY <2>3, AppliedIsLimit DEF LimitsTyped
  <2>5. record' \in [Agent -> Limit]
    BY <1>5, <2>4 DEF WriteLands, WriteFails, LimitsTyped
  <2>6. diverged' \subseteq Agent
    BY <1>5 DEF WriteLands, WriteFails, LimitsTyped
  <2>. QED
    BY <2>2, <2>5, <2>6 DEF LimitsTyped
<1>6. CASE SuspectLimited
  <2>1. tick.agent \in Agent
    BY <1>6 DEF SuspectLimited, TickOK, TickBusy
  <2>2. TickMarks(tick.agent) \/ UNCHANGED limits
    BY <1>6 DEF SuspectLimited
  <2>. QED
    BY <2>1, <2>2, <1>1, TickMarkTyped
<1>7. CASE Released
  <2>1. tick.agent \in Agent
    BY <1>7 DEF Released, TickOK, TickBusy
  <2>2. writes' \in [Agent -> Seq(Write)]
    BY <1>7, <2>1, RecordsTyped DEF Released, Transition
  <2>3. diverged' \subseteq Agent /\ memory' \in [Agent -> Limit]
    BY <1>7, <2>1 DEF Released, LimitsTyped, Limit
  <2>. QED
    BY <1>7, <2>2, <2>3 DEF Released, LimitsTyped
<1>8. CASE OpenerRefused
  <2>1. tick.sender \in Agent
    BY <1>8 DEF OpenerRefused, TickOK, TickBusy
  <2>2. TickMarks(tick.sender) \/ UNCHANGED limits
    BY <1>8 DEF OpenerRefused
  <2>. QED
    BY <2>1, <2>2, <1>1, TickMarkTyped
<1>9. CASE Restart
  <2>1. <<>> \in Seq(Write)
    OBVIOUS
  <2>. QED
    BY <1>9, <2>1 DEF Restart, LimitsTyped
<1>. QED
  BY <1>1, <1>2, <1>3, <1>4, <1>5, <1>6, <1>7, <1>8, <1>9, Changes DEF LimitStep

-----------------------------------------------------------------------------
(* The state of the task.                                                  *)

\* A state of the task whose time is known.
TickNear ==
  [at : {"idle", "suspects", "suspect", "agents", "release", "slot",
         "helper", "budget", "text", "send", "journal", "record"},
   agent : Agent \cup {None}, sender : Agent \cup {None}, recovery : BOOLEAN,
   moment : {0, now, tick.moment}, queue : SUBSET Agent, online : SUBSET Agent,
   old : SUBSET Agent, next : {"suspects", "agents"}]

LEMMA TickFields ==
  ASSUME TypeOK
  PROVE  /\ tick.at \in {"idle", "suspects", "suspect", "agents", "release", "slot",
                         "helper", "budget", "text", "send", "journal", "record"}
         /\ tick.agent \in Agent \cup {None} /\ tick.sender \in Agent \cup {None}
         /\ tick.recovery \in BOOLEAN /\ tick.queue \in SUBSET Agent
         /\ tick.online \in SUBSET Agent /\ tick.old \in SUBSET Agent
         /\ tick.next \in {"suspects", "agents"} /\ tick.moment \in Nat
         /\ now \in Time /\ running \in SUBSET Agent
         /\ tick = [at |-> tick.at, agent |-> tick.agent, sender |-> tick.sender,
                    recovery |-> tick.recovery, moment |-> tick.moment, queue |-> tick.queue,
                    online |-> tick.online, old |-> tick.old, next |-> tick.next]
BY TypeParts DEF TickTyped, TickState, NowTyped, Time, AgentsTyped

LEMMA TickGoes ==
  ASSUME TypeOK, TickOK, Next, tick' \in TickNear, TickBusy'
  PROVE  TickTyped' /\ TickOK'
<1>1. now \in 0..MaxTime /\ tick.moment \in Nat /\ tick.moment <= now
  BY TickFields DEF Time, TickOK
<1>2. now' \in 0..MaxTime /\ now <= now'
  BY <1>1, Changes, WarmupAssumption DEF TimePasses
<1>3. tick'.moment \in Time /\ tick'.moment <= now'
  BY <1>1, <1>2, WarmupAssumption DEF Time, TickNear
<1>4. TickTyped'
  BY <1>3 DEF TickTyped, TickState, TickNear
<1>. QED
  BY <1>3, <1>4 DEF TickOK

LEMMA NextAgentIs ==
  ASSUME TypeOK, NextAgent
  PROVE  tick' \in TickNear /\ TickBusy' /\ tick'.at = "agents"
<1>1. tick' = [at |-> "agents", agent |-> None, sender |-> None, recovery |-> FALSE,
               moment |-> 0, queue |-> tick.queue, online |-> tick.online, old |-> tick.old,
               next |-> tick.next]
  BY TickFields DEF NextAgent
<1>. QED
  BY <1>1, TickFields DEF TickNear, TickBusy

LEMMA TendIs ==
  ASSUME TypeOK, NEW a \in Agent, Tend(a)
  PROVE  tick' \in TickNear /\ TickBusy' /\ tick'.at \in {"slot", "agents"}
<1>1. \/ tick' = [at |-> "slot", agent |-> a, sender |-> tick.sender,
                  recovery |-> TRUE, moment |-> tick.moment,
                  queue |-> tick.queue \ {a}, online |-> tick.online,
                  old |-> tick.old, next |-> tick.next]
      \/ tick' = [at |-> "agents", agent |-> None, sender |-> tick.sender,
                  recovery |-> tick.recovery, moment |-> tick.moment,
                  queue |-> tick.queue \ {a}, online |-> tick.online,
                  old |-> tick.old, next |-> tick.next]
  BY TickFields DEF Tend
<1>2. tick.queue \ {a} \in SUBSET Agent
  BY TickFields
<1>3. tick' \in TickNear
  <2>1. CASE tick' = [at |-> "slot", agent |-> a, sender |-> tick.sender,
                      recovery |-> TRUE, moment |-> tick.moment,
                      queue |-> tick.queue \ {a}, online |-> tick.online,
                      old |-> tick.old, next |-> tick.next]
    BY <2>1, <1>2, TickFields DEF TickNear
  <2>2. CASE tick' = [at |-> "agents", agent |-> None, sender |-> tick.sender,
                      recovery |-> tick.recovery, moment |-> tick.moment,
                      queue |-> tick.queue \ {a}, online |-> tick.online,
                      old |-> tick.old, next |-> tick.next]
    BY <2>2, <1>2, TickFields DEF TickNear
  <2>. QED
    BY <1>1, <2>1, <2>2
<1>4. TickBusy'
  BY <1>1, <1>2, TickFields DEF TickBusy
<1>. QED
  BY <1>1, <1>3, <1>4

LEMMA TickStays ==
  ASSUME TypeOK, TickOK, Next
  PROVE  TickTyped' /\ TickOK'
<1>1. CASE UNCHANGED tick
  <2>1. tick' \in TickNear /\ TickBusy'
    BY <1>1, TickFields DEF TickNear, TickOK, TickBusy
  <2>. QED
    BY <2>1, TickGoes
<1>. SUFFICES ASSUME ~UNCHANGED tick
              PROVE  tick' \in TickNear /\ TickBusy'
  BY <1>1, TickGoes
<1>2. CASE Begin
  <2>1. tick' = [at |-> "suspects", agent |-> tick.agent,
                 sender |-> tick.sender, recovery |-> tick.recovery,
                 moment |-> tick.moment, queue |-> Agent,
                 online |-> tick.online, old |-> tick.old, next |-> tick.next]
    BY <1>2, TickFields DEF Begin
  <2>. QED
    BY <2>1, TickFields DEF TickNear, TickBusy
<1>3. CASE NextPhase
  <2>1. \/ tick' = [at |-> "agents", agent |-> None, sender |-> None,
                    recovery |-> FALSE, moment |-> 0, queue |-> Agent,
                    online |-> running, old |-> {}, next |-> "agents"]
        \/ tick' = [at |-> "idle", agent |-> None, sender |-> None,
                    recovery |-> FALSE, moment |-> 0, queue |-> {}, online |-> {},
                    old |-> {}, next |-> "agents"]
    BY <1>3, TickFields DEF NextPhase, Idle
  <2>2. tick' \in TickNear
    <3>1. CASE tick' = [at |-> "agents", agent |-> None, sender |-> None,
                        recovery |-> FALSE, moment |-> 0, queue |-> Agent,
                        online |-> running, old |-> {}, next |-> "agents"]
      BY <3>1, TickFields DEF TickNear
    <3>2. CASE tick' = [at |-> "idle", agent |-> None, sender |-> None,
                        recovery |-> FALSE, moment |-> 0, queue |-> {}, online |-> {},
                        old |-> {}, next |-> "agents"]
      BY <3>2, TickFields DEF TickNear
    <3>. QED
      BY <2>1, <3>1, <3>2
  <2>3. TickBusy'
    BY <2>1, TickFields DEF TickBusy
  <2>. QED
    BY <2>1, <2>2, <2>3
<1>4. CASE SuspectLimited
  <2>1. \/ tick' = [at |-> "record", agent |-> tick.agent, sender |-> tick.sender,
                    recovery |-> tick.recovery, moment |-> tick.moment,
                    queue |-> tick.queue, online |-> tick.online,
                    old |-> tick.old, next |-> "suspects"]
        \/ tick' = [at |-> "suspects", agent |-> None, sender |-> tick.sender,
                    recovery |-> tick.recovery, moment |-> tick.moment,
                    queue |-> tick.queue, online |-> tick.online,
                    old |-> tick.old, next |-> tick.next]
    BY <1>4, TickFields DEF SuspectLimited
  <2>. QED
    BY <2>1, TickFields DEF TickNear, TickBusy
<1>5. CASE SuspectFree
  <2>1. tick' = [at |-> "suspects", agent |-> None, sender |-> tick.sender,
                 recovery |-> tick.recovery, moment |-> tick.moment,
                 queue |-> tick.queue, online |-> tick.online,
                 old |-> tick.old, next |-> tick.next]
    BY <1>5, TickFields DEF SuspectFree
  <2>. QED
    BY <2>1, TickFields DEF TickNear, TickBusy
<1>6. CASE SuspectUnclear
  <2>1. tick' = [at |-> "suspects", agent |-> None, sender |-> tick.sender,
                 recovery |-> tick.recovery, moment |-> tick.moment,
                 queue |-> tick.queue, online |-> tick.online,
                 old |-> tick.old, next |-> tick.next]
    BY <1>6, TickFields DEF SuspectUnclear
  <2>. QED
    BY <2>1, TickFields DEF TickNear, TickBusy
<1>7. CASE Released
  <2>1. tick' = [at |-> "record", agent |-> tick.agent, sender |-> tick.sender,
                 recovery |-> tick.recovery, moment |-> tick.moment,
                 queue |-> tick.queue, online |-> tick.online,
                 old |-> tick.old, next |-> "agents"]
    BY <1>7, TickFields DEF Released
  <2>. QED
    BY <2>1, TickFields DEF TickNear, TickBusy
<1>8. CASE NotReleased
  BY <1>8, TendIs DEF NotReleased, TickOK, TickBusy
<1>9. CASE SlotIsDue
  <2>1. \/ tick' = [at |-> "budget", agent |-> None, sender |-> tick.agent,
                    recovery |-> tick.recovery, moment |-> now,
                    queue |-> tick.queue, online |-> tick.online,
                    old |-> tick.old, next |-> tick.next]
        \/ NextAgent
    BY <1>9, TickFields DEF SlotIsDue, NextAgent
  <2>2. tick.agent \in Agent /\ tick.agent # None /\ ~tick.recovery
    BY <1>9, TickFields, WarmupAssumption DEF SlotIsDue, TickOK, TickBusy
  <2>. QED
    BY <2>1, <2>2, TickFields, NextAgentIs DEF TickNear, TickBusy
<1>10. CASE RecoveryIsDue
  <2>1. \/ NextAgent
        \/ \E h \in Agent \ {tick.agent} :
             tick' = [at |-> "helper", agent |-> tick.agent, sender |-> h,
                      recovery |-> tick.recovery, moment |-> tick.moment,
                      queue |-> tick.queue, online |-> tick.online,
                      old |-> tick.old, next |-> tick.next]
    BY <1>10, TickFields DEF RecoveryIsDue, Partner
  <2>2. tick.agent \in Agent
    BY <1>10, TickFields DEF RecoveryIsDue, TickOK, TickBusy
  <2>. QED
    BY <2>1, <2>2, TickFields, NextAgentIs DEF TickNear, TickBusy
<1>11. CASE HelperIsChosen
  <2>1. \/ tick' = [at |-> "budget", agent |-> tick.agent, sender |-> tick.sender,
                    recovery |-> tick.recovery, moment |-> now,
                    queue |-> tick.queue, online |-> tick.online,
                    old |-> tick.old, next |-> tick.next]
        \/ NextAgent
    BY <1>11, TickFields DEF HelperIsChosen
  <2>2. tick.agent \in Agent /\ tick.sender \in Agent \ {tick.agent}
    BY <1>11, TickFields DEF HelperIsChosen, TickOK, TickBusy
  <2>. QED
    BY <2>1, <2>2, TickFields, NextAgentIs DEF TickNear, TickBusy
<1>12. CASE BudgetIsRead
  <2>1. \/ NextAgent
        \/ tick.recovery /\ tick' = [at |-> "text", agent |-> tick.agent, sender |-> tick.sender,
                                     recovery |-> tick.recovery, moment |-> tick.moment,
                                     queue |-> tick.queue, online |-> tick.online,
                                     old |-> tick.old, next |-> tick.next]
        \/ \E b \in Agent \ {tick.sender} :
             tick' = [at |-> "text", agent |-> b, sender |-> tick.sender,
                      recovery |-> tick.recovery, moment |-> tick.moment,
                      queue |-> tick.queue, online |-> tick.online,
                      old |-> tick.old, next |-> tick.next]
    BY <1>12, TickFields DEF BudgetIsRead, Proceed, Partner
  <2>2. /\ tick.sender \in Agent \ {tick.agent}
        /\ tick.recovery => tick.agent \in Agent
    BY <1>12, TickFields DEF BudgetIsRead, TickOK, TickBusy
  <2>. QED
    BY <2>1, <2>2, TickFields, NextAgentIs DEF TickNear, TickBusy
<1>13. CASE Open
  <2>1. \/ tick' = [at |-> "send", agent |-> tick.agent, sender |-> tick.sender,
                    recovery |-> tick.recovery, moment |-> tick.moment,
                    queue |-> tick.queue, online |-> tick.online,
                    old |-> tick.old, next |-> tick.next]
        \/ NextAgent
    BY <1>13, TickFields DEF Open, Proceed
  <2>2. tick.agent \in Agent /\ tick.sender \in Agent \ {tick.agent}
    BY <1>13, TickFields DEF Open, TickOK, TickBusy
  <2>. QED
    BY <2>1, <2>2, TickFields, NextAgentIs DEF TickNear, TickBusy
<1>14. CASE Delivered
  <2>1. \/ tick' = [at |-> "journal", agent |-> tick.agent,
                    sender |-> tick.sender, recovery |-> tick.recovery,
                    moment |-> tick.moment, queue |-> tick.queue,
                    online |-> tick.online, old |-> tick.old, next |-> tick.next]
        \/ NextAgent
    BY <1>14, TickFields DEF Delivered, Proceed
  <2>2. tick.agent \in Agent /\ tick.sender \in Agent \ {tick.agent}
    BY <1>14, TickFields DEF Delivered, TickOK, TickBusy
  <2>. QED
    BY <2>1, <2>2, TickFields, NextAgentIs DEF TickNear, TickBusy
<1>15. CASE OpenerRecorded \/ OpenerFails
  BY <1>15, NextAgentIs DEF OpenerRecorded, OpenerFails
<1>16. CASE OpenerRefused
  <2>1. \/ tick' = [at |-> "record", agent |-> None, sender |-> None,
                    recovery |-> FALSE, moment |-> 0, queue |-> tick.queue,
                    online |-> tick.online, old |-> tick.old, next |-> "agents"]
        \/ NextAgent
    BY <1>16, TickFields DEF OpenerRefused
  <2>2. tick' \in TickNear
    <3>1. CASE tick' = [at |-> "record", agent |-> None, sender |-> None,
                        recovery |-> FALSE, moment |-> 0, queue |-> tick.queue,
                        online |-> tick.online, old |-> tick.old, next |-> "agents"]
      BY <3>1, TickFields DEF TickNear
    <3>2. CASE NextAgent
      BY <3>2, NextAgentIs
    <3>. QED
      BY <2>1, <3>1, <3>2
  <2>3. TickBusy'
    BY <2>1, TickFields, NextAgentIs DEF TickBusy
  <2>. QED
    BY <2>1, <2>2, <2>3, NextAgentIs
<1>17. CASE Restart
  <2>1. tick' = [at |-> "idle", agent |-> None, sender |-> None,
                 recovery |-> FALSE, moment |-> 0, queue |-> {}, online |-> {},
                 old |-> {}, next |-> "agents"]
    BY <1>17, TickFields DEF Restart, Idle
  <2>. QED
    BY <2>1, TickFields DEF TickNear, TickBusy
<1>18. ASSUME NEW a \in Agent, VerifySuspect(a)
      PROVE  tick' \in TickNear /\ TickBusy'
  <2>1. \/ tick' = [at |-> "suspect", agent |-> a, sender |-> tick.sender,
                    recovery |-> tick.recovery, moment |-> tick.moment,
                    queue |-> tick.queue \ {a}, online |-> tick.online,
                    old |-> tick.old, next |-> tick.next]
        \/ tick' = [at |-> "suspects", agent |-> tick.agent,
                    sender |-> tick.sender, recovery |-> tick.recovery,
                    moment |-> tick.moment, queue |-> tick.queue \ {a},
                    online |-> tick.online, old |-> tick.old, next |-> tick.next]
    BY <1>18, TickFields DEF VerifySuspect
  <2>2. tick.queue \ {a} \in SUBSET Agent
    BY <1>18, TickFields DEF VerifySuspect, TickOK, TickBusy
  <2>. QED
    BY <2>1, <2>2, TickFields DEF TickNear, TickBusy
<1>19. ASSUME NEW a \in Agent, TakeAgent(a)
      PROVE  tick' \in TickNear /\ TickBusy'
  <2>1. \/ Tend(a)
        \/ tick' = [at |-> "agents", agent |-> tick.agent, sender |-> tick.sender,
                    recovery |-> tick.recovery, moment |-> tick.moment,
                    queue |-> tick.queue \ {a}, online |-> tick.online,
                    old |-> tick.old, next |-> tick.next]
        \/ tick' = [at |-> "release", agent |-> a, sender |-> tick.sender,
                    recovery |-> tick.recovery, moment |-> tick.moment,
                    queue |-> tick.queue \ {a}, online |-> tick.online,
                    old |-> tick.old, next |-> tick.next]
        \/ tick' = [at |-> "slot", agent |-> a, sender |-> tick.sender,
                    recovery |-> FALSE, moment |-> tick.moment,
                    queue |-> tick.queue \ {a}, online |-> tick.online,
                    old |-> tick.old, next |-> tick.next]
    BY <1>19, TickFields DEF TakeAgent
  <2>2. tick.queue \ {a} \in SUBSET Agent
    BY <1>19, TickFields DEF TakeAgent, TickOK, TickBusy
  <2>3. tick' \in TickNear
    <3>1. CASE Tend(a)
      BY <3>1, TendIs
    <3>2. CASE tick' = [at |-> "agents", agent |-> tick.agent, sender |-> tick.sender,
                        recovery |-> tick.recovery, moment |-> tick.moment,
                        queue |-> tick.queue \ {a}, online |-> tick.online,
                        old |-> tick.old, next |-> tick.next]
      BY <3>2, <2>2, TickFields DEF TickNear
    <3>3. CASE tick' = [at |-> "release", agent |-> a, sender |-> tick.sender,
                        recovery |-> tick.recovery, moment |-> tick.moment,
                        queue |-> tick.queue \ {a}, online |-> tick.online,
                        old |-> tick.old, next |-> tick.next]
      BY <3>3, <2>2, TickFields DEF TickNear
    <3>4. CASE tick' = [at |-> "slot", agent |-> a, sender |-> tick.sender,
                        recovery |-> FALSE, moment |-> tick.moment,
                        queue |-> tick.queue \ {a}, online |-> tick.online,
                        old |-> tick.old, next |-> tick.next]
      BY <3>4, <2>2, TickFields DEF TickNear
    <3>. QED
      BY <2>1, <3>1, <3>2, <3>3, <3>4
  <2>4. TickBusy'
    BY <2>1, <2>2, TickFields, TendIs DEF TickBusy
  <2>. QED
    BY <2>1, <2>3, <2>4, TendIs
<1>20. ASSUME NEW a \in Agent, Rebuilt(a)
      PROVE  tick' \in TickNear /\ TickBusy'
  <2>1. tick' = [at |-> tick.at, agent |-> tick.agent, sender |-> tick.sender,
                 recovery |-> tick.recovery, moment |-> tick.moment,
                 queue |-> tick.queue, online |-> tick.online,
                 old |-> tick.old \cup {a}, next |-> tick.next]
    BY <1>20, TickFields DEF Rebuilt
  <2>2. tick.old \cup {a} \in SUBSET Agent /\ TickBusy
    BY <1>20, TickFields DEF Rebuilt, TickOK, TickBusy
  <2>. QED
    BY <2>1, <2>2, TickFields DEF TickNear, TickBusy
<1>21. ASSUME NEW a \in Agent, NEW i \in DOMAIN writes[a], Written(a, i)
      PROVE  tick' \in TickNear /\ TickBusy'
  <2>1. tick' = [at |-> tick.next, agent |-> None, sender |-> tick.sender,
                 recovery |-> tick.recovery, moment |-> tick.moment,
                 queue |-> tick.queue, online |-> tick.online,
                 old |-> tick.old, next |-> tick.next]
    BY <1>21, TickFields DEF Written
  <2>. QED
    BY <2>1, TickFields DEF TickNear, TickBusy
<1>. QED
  BY <1>2, <1>3, <1>4, <1>5, <1>6, <1>7, <1>8, <1>9, <1>10, <1>11, <1>12, <1>13,
     <1>14, <1>15, <1>16, <1>17, <1>18, <1>19, <1>20, <1>21
  DEF Next, Tick, ReportPeerFlood, ReportSuspect, StartRecovery, WriteLands, WriteFails, Claim,
      OrdinaryTurn, Confirm, Says, TurnEnds, DialogIdles, Stops, TimePasses

-----------------------------------------------------------------------------
(* The questions, the openers and the dialogs.                             *)

LEMMA ChecksStayTyped ==
  ASSUME TypeOK, TickOK, Next
  PROVE  ChecksTyped'
<1>. USE TypeParts, WarmupAssumption DEF ChecksTyped
<1>1. CASE UNCHANGED checks
  BY <1>1 DEF checks
<1>2. ASSUME NEW a \in Agent, ReportSuspect(a)
      PROVE  ChecksTyped'
  BY <1>2 DEF ReportSuspect
<1>3. ASSUME NEW a \in Agent, VerifySuspect(a)
      PROVE  ChecksTyped'
  BY <1>3 DEF VerifySuspect
<1>4. ASSUME NEW a \in Agent, TakeAgent(a)
      PROVE  ChecksTyped'
  BY <1>4 DEF TakeAgent
<1>5. ASSUME NEW a \in Agent, NEW i \in DOMAIN writes[a], Written(a, i)
      PROVE  ChecksTyped'
  BY <1>5 DEF Written
<1>6. CASE Begin
  BY <1>6 DEF Begin, AgentsTyped
<1>7. CASE SuspectLimited \/ SuspectFree \/ SuspectUnclear
  <2>1. tick.agent \in Agent
    BY <1>7 DEF SuspectLimited, SuspectFree, SuspectUnclear, TickOK, TickBusy
  <2>. QED
    BY <1>7, <2>1 DEF SuspectLimited, SuspectFree, SuspectUnclear
<1>8. CASE TimePasses
  BY <1>8 DEF TimePasses
<1>9. CASE Restart
  BY <1>9 DEF Restart
<1>. QED
  BY <1>1, <1>2, <1>3, <1>4, <1>5, <1>6, <1>7, <1>8, <1>9, Changes
  DEF CheckStep, WriteLands, WriteFails

LEMMA OpenersStayTyped ==
  ASSUME TypeOK, TickOK, Next
  PROVE  OpenersTyped'
<1>. USE TypeParts, WarmupAssumption DEF OpenersTyped
<1>1. CASE UNCHANGED openers
  BY <1>1 DEF openers
<1>2. CASE OpenerStep
  <2>1. CASE Restart
    BY <2>1 DEF Restart
  <2>. SUFFICES ASSUME ~Restart
                PROVE  OpenersTyped'
    BY <2>1
  <2>2. tick.agent \in Agent /\ tick.sender \in Agent /\ tick.moment \in Time /\ now \in Time
    BY <1>2 DEF OpenerStep, Open, OpenerRecorded, OpenerFails, OpenerRefused, TickOK, TickBusy,
       TickTyped, TickState, NowTyped
  <2>3. TheOpener \in Opener /\ [TheOpener EXCEPT !.at = now] \in Opener
    BY <2>2 DEF TheOpener, Opener
  <2>. QED
    BY <1>2, <2>3 DEF OpenerStep, Open, OpenerRecorded, OpenerFails, OpenerRefused, Journals
<1>. QED
  BY <1>1, <1>2, Changes

\* Two different agents are a pair.
LEMMA PairOfTwo ==
  ASSUME NEW a \in Agent, NEW b \in Agent, a # b
  PROVE  {a, b} \in Pair
<1>1. IsFiniteSet({a}) /\ Cardinality({a}) = 1
  BY FS_Singleton
<1>2. Cardinality({a} \cup {b}) = 2
  BY <1>1, FS_AddElement
<1>3. {a} \cup {b} = {a, b}
  OBVIOUS
<1>. QED
  BY <1>2, <1>3 DEF Pair

LEMMA TickPair ==
  ASSUME TypeOK, TickOK, tick.at \in {"helper", "text", "send", "journal"}
  PROVE  /\ tick.sender \in Agent /\ tick.agent \in Agent /\ tick.sender # tick.agent
         /\ ThePair \in Pair
<1>1. tick.sender \in Agent /\ tick.agent \in Agent /\ tick.sender # tick.agent
  BY DEF TickOK, TickBusy
<1>. QED
  BY <1>1, PairOfTwo DEF ThePair

\* One dialog is replaced or forgotten.
LEMMA ReplacedTyped ==
  ASSUME TypeOK, RepliesOK, NEW p \in Pair,
         \E d : /\ d \in Dialog \cup {None} /\ (d = None \/ d.count <= d.length)
                /\ dialog' = [dialog EXCEPT ![p] = d],
         turns' = [turns EXCEPT ![p] = 0],
         \E n \in Nat : strays' = [strays EXCEPT ![p] = n], UNCHANGED <<inbox, reply>>
  PROVE  DialogsTyped' /\ RepliesOK'
<1>. PICK d : /\ d \in Dialog \cup {None} /\ (d = None \/ d.count <= d.length)
             /\ dialog' = [dialog EXCEPT ![p] = d]
  OBVIOUS
<1>1. dialog' \in [Pair -> Dialog \cup {None}]
  BY TypeParts DEF DialogsTyped
<1>2. \A q \in Pair : dialog'[q] # None => dialog'[q].count <= dialog'[q].length
  BY TypeParts DEF DialogsTyped
<1>3. turns' \in [Pair -> Nat] /\ strays' \in [Pair -> Nat]
  BY TypeParts DEF DialogsTyped
<1>4. DialogsTyped'
  BY <1>1, <1>2, <1>3, TypeParts DEF DialogsTyped
<1>5. RepliesOK'
  BY DEF RepliesOK
<1>. QED
  BY <1>4, <1>5

LEMMA ForgetTyped ==
  ASSUME TypeOK, RepliesOK, NEW p \in Pair, Forget(p)
  PROVE  DialogsTyped' /\ RepliesOK'
<1>1. \E d : /\ d \in Dialog \cup {None} /\ (d = None \/ d.count <= d.length)
             /\ dialog' = [dialog EXCEPT ![p] = d]
  <2>. WITNESS None
  <2>. QED
    BY DEF Forget
<1>2. \E n \in Nat : strays' = [strays EXCEPT ![p] = n]
  BY DEF Forget
<1>. QED
  BY <1>1, <1>2, ReplacedTyped DEF Forget

\* The replies that wait are as many as a number.
LEMMA WaitingIsFinite ==
  \A p : /\ IsFiniteSet(Waiting(p)) /\ Cardinality(Waiting(p)) \in Nat
<1>. TAKE p
<1>1. Waiting(p) \subseteq Reply /\ IsFiniteSet(Reply)
  BY WarmupAssumption DEF Waiting
<1>. QED
  BY <1>1, FS_Subset, FS_CardinalityType

LEMMA DialogsStayTyped ==
  ASSUME TypeOK, TickOK, RepliesOK, Next
  PROVE  DialogsTyped' /\ RepliesOK'
<1>1. CASE UNCHANGED dialogs
  <2>1. UNCHANGED <<dialog, turns, strays, inbox, reply>>
    BY <1>1 DEF dialogs, counts
  <2>. QED
    BY <2>1, TypeParts DEF DialogsTyped, RepliesOK
<1>2. ASSUME NEW from \in Agent, NEW to \in Agent, from # to,
             inbox' \in {inbox, inbox \cup {<<from, to>>}, inbox \ {<<from, to>>}}
      PROVE  inbox' \subseteq Agent \X Agent /\ \A a \in Agent : <<a, a>> \notin inbox'
  BY <1>2, TypeParts DEF DialogsTyped, RepliesOK
<1>3. CASE Open
  <2>1. tick.sender \in Agent /\ tick.agent \in Agent /\ tick.sender # tick.agent
        /\ ThePair \in Pair /\ inbox' = inbox
    BY <1>3, TickPair DEF Open
  <2>2. \E d : /\ d \in Dialog \cup {None} /\ (d = None \/ d.count <= d.length)
               /\ dialog' = [dialog EXCEPT ![ThePair] = d]
    <3>1. CASE tick.sender \in running \ tick.old
      <4>1. PICK n \in Lengths \cup RecoveryLengths :
              dialog' = [dialog EXCEPT ![ThePair] = [length |-> n, count |-> 1]]
        BY <1>3, <3>1 DEF Open
      <4>2. n \in Nat \ {0}
        BY WarmupAssumption
      <4>3. [length |-> n, count |-> 1] \in Dialog
        BY <4>2 DEF Dialog
      <4>. WITNESS [length |-> n, count |-> 1]
      <4>. QED
        BY <4>1, <4>2, <4>3
    <3>2. CASE ~(tick.sender \in running \ tick.old)
      <4>1. dialog' = [dialog EXCEPT ![ThePair] = None]
        BY <1>3, <3>2 DEF Open
      <4>. WITNESS None
      <4>. QED
        BY <4>1
    <3>. QED
      BY <3>1, <3>2
  <2>3. /\ turns' = [turns EXCEPT ![ThePair] = 0]
        /\ UNCHANGED <<inbox, reply>>
    BY <1>3 DEF Open
  <2>4. \E n \in Nat : strays' = [strays EXCEPT ![ThePair] = n]
    BY <1>3, WaitingIsFinite DEF Open
  <2>. QED
    BY <2>1, <2>2, <2>3, <2>4, ReplacedTyped
<1>4. CASE Delivered
  <2>1. tick.sender \in Agent /\ tick.agent \in Agent /\ tick.sender # tick.agent
        /\ ThePair \in Pair
    BY <1>4, TickPair DEF Delivered
  <2>2. inbox' \subseteq Agent \X Agent /\ \A a \in Agent : <<a, a>> \notin inbox'
    BY <1>2, <1>4, <2>1 DEF Delivered
  <2>. QED
    BY <1>4, <2>2, TypeParts DEF Delivered, DialogsTyped, RepliesOK, counts
<1>5. CASE OpenerFails \/ OpenerRefused
  <2>1. ThePair \in Pair
    BY <1>5, TickPair DEF OpenerFails, OpenerRefused
  <2>. QED
    BY <1>5, <2>1, ForgetTyped DEF OpenerFails, OpenerRefused
<1>6. CASE Restart
  <2>1. NoReply \in Answering /\ NoReply.at = "none"
    BY WarmupAssumption DEF NoReply, Answering
  <2>. QED
    BY <1>6, <2>1, TypeParts DEF Restart, DialogsTyped, RepliesOK
<1>7. ASSUME NEW by \in Agent, NEW to \in Agent, NEW r \in Reply, Unseen(by, to, r)
      PROVE  by # to /\ {by, to} \in Pair
  BY <1>7, PairOfTwo DEF Unseen, RepliesOK
<1>8. ASSUME NEW by \in Agent, NEW to \in Agent, NEW r \in Reply, Claim(by, to, r)
      PROVE  DialogsTyped' /\ RepliesOK'
  <2>. DEFINE p == {by, to}
              d == [length |-> dialog[p].length, count |-> dialog[p].count + 1]
              answer == [at |-> "waiting", by |-> by, to |-> to]
  <2>1. by # to /\ p \in Pair
    BY <1>7, <1>8 DEF Claim
  <2>2. inbox' \subseteq Agent \X Agent /\ \A a \in Agent : <<a, a>> \notin inbox'
    BY <1>8, <2>1, <1>2 DEF Claim, Seen
  <2>3. CASE UNCHANGED <<dialog, reply>>
    BY <1>8, <2>2, <2>3, TypeParts DEF Claim, DialogsTyped, RepliesOK, counts
  <2>4. CASE ~UNCHANGED <<dialog, reply>>
    <3>1. /\ dialog[p] # None /\ dialog[p].count < dialog[p].length
          /\ dialog' = [dialog EXCEPT ![p] = [dialog[p] EXCEPT !.count = @ + 1]]
          /\ reply' = [reply EXCEPT ![r] = answer] /\ UNCHANGED counts
      BY <1>8, <2>4 DEF Claim
    <3>2. dialog[p] \in Dialog
      BY <2>1, <3>1, TypeParts DEF DialogsTyped
    <3>3. dialog[p].length \in Nat /\ dialog[p].count \in Nat \ {0}
      BY <3>2, WarmupAssumption DEF Dialog
    <3>4. d \in Dialog /\ d.count <= d.length
      BY <3>1, <3>2, <3>3 DEF Dialog
    <3>5. answer \in Answering
      BY WarmupAssumption DEF Answering
    <3>6. answer.at # "none" /\ answer.by = by /\ answer.to = to
      OBVIOUS
    <3>7. dialog' = [dialog EXCEPT ![p] = d]
      <4>1. PICK l, c : dialog[p] = [length |-> l, count |-> c]
        BY <3>2 DEF Dialog
      <4>2. [[length |-> l, count |-> c] EXCEPT !.count = c + 1] = [length |-> l, count |-> c + 1]
        OBVIOUS
      <4>3. [dialog[p] EXCEPT !.count = dialog[p].count + 1] = d
        BY <4>1, <4>2
      <4>. QED
        BY <3>1, <4>3
    <3>. HIDE DEF d, answer, p
    <3>8. /\ dialog' \in [Pair -> Dialog \cup {None}]
          /\ \A q \in Pair : dialog'[q] # None => dialog'[q].count <= dialog'[q].length
      BY <2>1, <3>4, <3>7, TypeParts DEF DialogsTyped
    <3>9. reply' \in [Reply -> Answering]
      BY <3>1, <3>5, TypeParts DEF DialogsTyped
    <3>10. RepliesOK'
      BY <2>1, <2>2, <3>1, <3>6, TypeParts DEF RepliesOK, DialogsTyped
    <3>. QED
      BY <2>2, <3>1, <3>8, <3>9, <3>10, TypeParts DEF DialogsTyped, counts
  <2>. QED
    BY <2>3, <2>4
<1>9. ASSUME NEW by \in Agent, NEW to \in Agent, NEW r \in Reply, OrdinaryTurn(by, to, r)
      PROVE  DialogsTyped' /\ RepliesOK'
  <2>. DEFINE answer == [at |-> "turn", by |-> by, to |-> to]
  <2>1. by # to
    BY <1>7, <1>9 DEF OrdinaryTurn
  <2>2. inbox' \subseteq Agent \X Agent /\ \A a \in Agent : <<a, a>> \notin inbox'
    BY <1>9, <2>1, <1>2 DEF OrdinaryTurn, Seen
  <2>3. reply' = [reply EXCEPT ![r] = answer] /\ UNCHANGED <<dialog, counts>>
    BY <1>9 DEF OrdinaryTurn
  <2>4. answer \in Answering /\ answer.at # "none" /\ answer.by = by /\ answer.to = to
    BY WarmupAssumption DEF Answering
  <2>. HIDE DEF answer
  <2>5. reply' \in [Reply -> Answering]
    BY <2>3, <2>4, TypeParts DEF DialogsTyped
  <2>6. RepliesOK'
    BY <2>1, <2>2, <2>3, <2>4, TypeParts DEF RepliesOK, DialogsTyped
  <2>. QED
    BY <2>2, <2>3, <2>5, <2>6, TypeParts DEF DialogsTyped, counts
<1>10. NoReply \in Answering /\ NoReply.at = "none"
  BY WarmupAssumption DEF NoReply, Answering
<1>11. ASSUME NEW r \in Reply, Confirm(r)
       PROVE  DialogsTyped' /\ RepliesOK'
  <2>1. reply[r] \in Answering /\ reply[r].at # "none"
    BY <1>11, TypeParts DEF Confirm, DialogsTyped
  <2>. DEFINE answer == [reply[r] EXCEPT !.at = "turn"]
  <2>2. UNCHANGED <<dialog, strays, inbox>>
    BY <1>11 DEF Confirm
  <2>7. turns' \in [Pair -> Nat]
    <3>. DEFINE p == {reply[r].by, reply[r].to}
    <3>1. p \in Pair /\ turns \in [Pair -> Nat]
      BY <2>1, PairOfTwo, TypeParts DEF RepliesOK, DialogsTyped
    <3>2. turns' = [turns EXCEPT ![p] = turns[p] + 1] \/ turns' = turns
      BY <1>11 DEF Confirm
    <3>. HIDE DEF p
    <3>. QED
      BY <3>1, <3>2
  <2>3. reply' = [reply EXCEPT ![r] = answer] \/ reply' = [reply EXCEPT ![r] = NoReply]
    BY <1>11 DEF Confirm
  <2>4. /\ answer \in Answering /\ answer.at # "none"
        /\ answer.by = reply[r].by /\ answer.to = reply[r].to
    BY <2>1 DEF Answering
  <2>. HIDE DEF answer
  <2>5. reply' \in [Reply -> Answering]
    BY <2>3, <2>4, <1>10, TypeParts DEF DialogsTyped
  <2>6. RepliesOK'
    BY <2>1, <2>2, <2>3, <2>4, <1>10, TypeParts DEF RepliesOK, DialogsTyped
  <2>. QED
    BY <2>2, <2>5, <2>6, <2>7, TypeParts DEF DialogsTyped
<1>12. ASSUME NEW r \in Reply, Says(r)
       PROVE  DialogsTyped' /\ RepliesOK'
  <2>1. reply[r].by \in Agent /\ reply[r].to \in Agent /\ reply[r].by # reply[r].to
    BY <1>12 DEF Says, RepliesOK
  <2>2. UNCHANGED <<dialog, counts, reply>>
    BY <1>12 DEF Says
  <2>3. inbox' \subseteq Agent \X Agent /\ \A a \in Agent : <<a, a>> \notin inbox'
    BY <1>2, <1>12, <2>1 DEF Says
  <2>. QED
    BY <2>2, <2>3, TypeParts DEF DialogsTyped, RepliesOK, counts
<1>14. ASSUME NEW r \in Reply, TurnEnds(r)
       PROVE  DialogsTyped' /\ RepliesOK'
  <2>1. reply' = [reply EXCEPT ![r] = NoReply] /\ UNCHANGED <<dialog, counts, inbox>>
    BY <1>14 DEF TurnEnds
  <2>. QED
    BY <2>1, <1>10, TypeParts DEF RepliesOK, DialogsTyped, counts
<1>13. ASSUME NEW p \in Pair, DialogIdles(p)
       PROVE  DialogsTyped' /\ RepliesOK'
  BY <1>13, TypeParts, ForgetTyped DEF DialogIdles, DialogsTyped, RepliesOK
<1>. QED
  BY <1>1, <1>3, <1>4, <1>5, <1>6, <1>8, <1>9, <1>11, <1>12, <1>13, <1>14, Changes
  DEF DialogStep

LEMMA TypeStays ==
  ASSUME TypeOK, TickOK, RepliesOK, Next
  PROVE  TypeOK' /\ TickOK' /\ RepliesOK'
<1>. USE TypeParts, WarmupAssumption
<1>1. NowTyped'
  BY Changes DEF TimePasses, NowTyped, Time
<1>2. AgentsTyped'
  BY Changes DEF AgentStep, Stops, Rebuilt, agents, AgentsTyped
<1>3. BoundsTyped'
  <2>1. CASE UNCHANGED bounds
    BY <2>1 DEF bounds, BoundsTyped
  <2>2. CASE BoundStep
    BY <2>2 DEF BoundStep, AgentStep, ReportPeerFlood, ReportSuspect, StartRecovery, Stops,
       Rebuilt, Restart, BoundsTyped
  <2>. QED
    BY <2>1, <2>2, Changes
<1>. QED
  BY <1>1, <1>2, <1>3, LimitsStayTyped, TickStays, ChecksStayTyped, OpenersStayTyped,
     DialogsStayTyped, TypePartsNext

LEMMA InitTyped ==
  ASSUME Init
  PROVE  TypeOK /\ TickOK /\ RepliesOK
<1>. USE WarmupAssumption DEF Init
<1>1. NowTyped /\ AgentsTyped /\ BoundsTyped /\ ChecksTyped /\ OpenersTyped
  BY DEF NowTyped, AgentsTyped, BoundsTyped, ChecksTyped, OpenersTyped, Time
<1>2. <<>> \in Seq(Write)
  OBVIOUS
<1>3. LimitsTyped
  BY <1>2 DEF LimitsTyped
<1>4. TickTyped /\ TickOK
  BY DEF TickTyped, TickState, TickOK, TickBusy, Idle, Time
<1>5. NoReply \in Answering /\ NoReply.at = "none"
  BY WarmupAssumption DEF NoReply, Answering
<1>6. DialogsTyped /\ RepliesOK
  BY <1>5 DEF DialogsTyped, RepliesOK
<1>. QED
  BY <1>1, <1>3, <1>4, <1>6, TypeParts

-----------------------------------------------------------------------------
(* Dialogs: the turns that answer, and the replies that wait, were counted. *)

\* The state of a dialog that Counted is about.
DialogCounted(p) ==
  dialog[p] # None => turns[p] + Cardinality(Waiting(p)) + 1 <= dialog[p].count + strays[p]

LEMMA CountIsNat ==
  ASSUME TypeOK, NEW p \in Pair
  PROVE  /\ dialog[p] # None => dialog[p].count \in Nat /\ dialog[p].length \in Nat
         /\ turns[p] \in Nat /\ strays[p] \in Nat
BY TypeParts, WarmupAssumption DEF DialogsTyped, Dialog

\* No more replies wait, and no more turns have answered.
LEMMA CountedKept ==
  ASSUME TypeOK, Counted, NEW p \in Pair,
         dialog'[p] = dialog[p], turns'[p] = turns[p], strays'[p] = strays[p],
         Waiting(p)' \subseteq Waiting(p)
  PROVE  DialogCounted(p)'
<1>1. Cardinality(Waiting(p)') <= Cardinality(Waiting(p))
  BY WaitingIsFinite, FS_Subset
<1>2. Cardinality(Waiting(p)') \in Nat /\ Cardinality(Waiting(p)) \in Nat
  BY WaitingIsFinite, FS_Subset, FS_CardinalityType
<1>3. dialog[p] # None => turns[p] + Cardinality(Waiting(p)) + 1 <= dialog[p].count + strays[p]
  BY DEF Counted
<1>. QED
  BY <1>1, <1>2, <1>3, CountIsNat DEF DialogCounted

LEMMA ForgetCounted ==
  ASSUME TypeOK, Counted, NEW p \in Pair, Forget(p), NEW q \in Pair
  PROVE  DialogCounted(q)'
<1>1. CASE q = p
  <2>1. dialog'[q] = None
    BY <1>1, TypeParts DEF Forget, DialogsTyped
  <2>. QED
    BY <2>1 DEF DialogCounted
<1>2. CASE q # p
  <2>1. dialog'[q] = dialog[q] /\ turns'[q] = turns[q] /\ strays'[q] = strays[q]
    BY <1>2, TypeParts DEF Forget, DialogsTyped
  <2>2. Waiting(q)' \subseteq Waiting(q)
    BY DEF Forget, Waiting
  <2>. QED
    BY <2>1, <2>2, CountedKept
<1>. QED
  BY <1>1, <1>2

\* The replies that wait for the pair are the strays of its new dialog.
LEMMA OpenCounted ==
  ASSUME TypeOK, TickOK, Counted, Open, NEW q \in Pair
  PROVE  DialogCounted(q)'
<1>1. ThePair \in Pair
  BY TickPair DEF Open
<1>2. Waiting(q)' = Waiting(q)
  BY DEF Open, Waiting
<1>3. CASE q # ThePair
  <2>1. /\ \E d : dialog' = [dialog EXCEPT ![ThePair] = d]
        /\ \E n : strays' = [strays EXCEPT ![ThePair] = n]
        /\ turns' = [turns EXCEPT ![ThePair] = 0]
    BY DEF Open
  <2>2. dialog'[q] = dialog[q] /\ turns'[q] = turns[q] /\ strays'[q] = strays[q]
    BY <1>1, <1>3, <2>1, TypeParts DEF DialogsTyped
  <2>. QED
    BY <1>2, <2>2, CountedKept
<1>4. CASE q = ThePair /\ ~(tick.sender \in running \ tick.old)
  <2>1. dialog'[q] = None
    BY <1>1, <1>4, TypeParts DEF Open, DialogsTyped
  <2>. QED
    BY <2>1 DEF DialogCounted
<1>5. CASE q = ThePair /\ tick.sender \in running \ tick.old
  <2>1. /\ \E n : dialog' = [dialog EXCEPT ![ThePair] = [length |-> n, count |-> 1]]
        /\ strays' = [strays EXCEPT ![ThePair] = Cardinality(Waiting(ThePair))]
        /\ turns' = [turns EXCEPT ![ThePair] = 0]
    BY <1>5 DEF Open
  <2>2. dialog'[q].count = 1 /\ turns'[q] = 0 /\ strays'[q] = Cardinality(Waiting(q))
    BY <1>1, <1>5, <2>1, TypeParts DEF DialogsTyped
  <2>3. Cardinality(Waiting(q)) \in Nat /\ Cardinality(Waiting(q)') = Cardinality(Waiting(q))
    BY <1>2, WaitingIsFinite
  <2>. DEFINE w == Cardinality(Waiting(q))
              w1 == Cardinality(Waiting(q)')
  <2>4. turns'[q] + w1 + 1 <= dialog'[q].count + strays'[q]
    <3>1. w \in Nat /\ w1 = w /\ strays'[q] = w
      BY <2>2, <2>3
    <3>. HIDE DEF w, w1
    <3>. QED
      BY <2>2, <3>1
  <2>. QED
    BY <2>4 DEF DialogCounted
<1>. QED
  BY <1>3, <1>4, <1>5

\* A reply begins to wait and is counted.
LEMMA ClaimCounted ==
  ASSUME TypeOK, TickOK, RepliesOK, Counted, NEW q \in Pair,
         NEW by \in Agent, NEW to \in Agent, NEW r \in Reply, Claim(by, to, r)
  PROVE  DialogCounted(q)'
<1>. DEFINE p == {by, to}
            answer == [at |-> "waiting", by |-> by, to |-> to]
<1>1. p \in Pair
  BY PairOfTwo DEF Claim, Unseen, RepliesOK
<1>2. turns' = turns /\ strays' = strays
  BY DEF Claim, counts
<1>3. CASE UNCHANGED <<dialog, reply>>
  <2>1. Waiting(q)' \subseteq Waiting(q)
    BY <1>3 DEF Waiting
  <2>. QED
    BY <1>2, <1>3, <2>1, CountedKept
<1>4. CASE ~UNCHANGED <<dialog, reply>>
  <2>1. /\ dialog[p] # None
        /\ dialog' = [dialog EXCEPT ![p] = [dialog[p] EXCEPT !.count = @ + 1]]
        /\ reply' = [reply EXCEPT ![r] = answer]
    BY <1>4 DEF Claim
  <2>2. answer.by = by /\ answer.to = to
    OBVIOUS
  <2>. HIDE DEF answer
  <2>3. \A u \in Reply : reply'[u] = IF u = r THEN answer ELSE reply[u]
    BY <2>1, TypeParts DEF DialogsTyped
  <2>4. CASE q # p
    <3>1. dialog'[q] = dialog[q]
      BY <2>1, <2>4, TypeParts DEF DialogsTyped
    <3>2. Waiting(q)' \subseteq Waiting(q)
      BY <2>2, <2>3, <2>4 DEF Waiting
    <3>. QED
      BY <1>2, <3>1, <3>2, CountedKept
  <2>5. CASE q = p
    <3>1. dialog[q] \in Dialog
      BY <2>1, <2>5, TypeParts DEF DialogsTyped
    <3>2. dialog'[q] = [dialog[q] EXCEPT !.count = @ + 1]
      BY <1>1, <2>1, <2>5, TypeParts DEF DialogsTyped
    <3>3. dialog'[q].count = dialog[q].count + 1
      BY <3>1, <3>2 DEF Dialog
    <3>4. Waiting(q)' \subseteq Waiting(q) \cup {r}
      BY <2>3 DEF Waiting
    <3>. DEFINE w == Waiting(q)
                w1 == Waiting(q)'
    <3>5. IsFiniteSet(w) /\ IsFiniteSet(w \cup {r})
          /\ Cardinality(w \cup {r}) <= Cardinality(w) + 1 /\ Cardinality(w) \in Nat
      <4>1. IsFiniteSet(w) /\ Cardinality(w) \in Nat
        BY WaitingIsFinite
      <4>. HIDE DEF w
      <4>2. /\ IsFiniteSet(w \cup {r})
            /\ Cardinality(w \cup {r}) = IF r \in w THEN Cardinality(w) ELSE Cardinality(w) + 1
        BY <4>1, FS_AddElement, Zenon
      <4>. QED
        BY <4>1, <4>2
    <3>6. IsFiniteSet(w1) /\ Cardinality(w1) <= Cardinality(w \cup {r})
      BY <3>4, <3>5, FS_Subset
    <3>7. Cardinality(w1) \in Nat /\ Cardinality(w \cup {r}) \in Nat
      <4>. HIDE DEF w, w1
      <4>. QED
        BY <3>5, <3>6, FS_CardinalityType
    <3>8. Cardinality(w1) <= Cardinality(w) + 1
      BY <3>5, <3>6, <3>7
    <3>9. turns[q] + Cardinality(w) + 1 <= dialog[q].count + strays[q]
      BY <2>1, <2>5 DEF Counted
    <3>10. turns'[q] + Cardinality(w1) + 1 <= dialog'[q].count + strays'[q]
      <4>. HIDE DEF w, w1
      <4>. QED
        BY <1>2, <2>1, <2>5, <3>3, <3>5, <3>7, <3>8, <3>9, CountIsNat
    <3>. QED
      BY <3>10 DEF DialogCounted
  <2>. QED
    BY <2>4, <2>5
<1>. QED
  BY <1>3, <1>4

\* A reply that waited becomes a turn of whichever dialog the two have, or of none.
LEMMA ConfirmCounted ==
  ASSUME TypeOK, TickOK, RepliesOK, Counted, NEW q \in Pair, NEW r \in Reply, Confirm(r)
  PROVE  DialogCounted(q)'
<1>. DEFINE p == {reply[r].by, reply[r].to}
            answer == [reply[r] EXCEPT !.at = "turn"]
<1>1. p \in Pair /\ reply[r] \in Answering /\ reply[r].at = "waiting"
  BY PairOfTwo, TypeParts DEF Confirm, RepliesOK, DialogsTyped
<1>2. UNCHANGED <<dialog, strays>>
  BY DEF Confirm
<1>3. /\ \/ reply' = [reply EXCEPT ![r] = answer]
         \/ reply' = [reply EXCEPT ![r] = NoReply]
      /\ turns' = turns \/ turns' = [turns EXCEPT ![p] = turns[p] + 1]
  BY DEF Confirm
<1>4. answer.at # "waiting" /\ NoReply.at # "waiting"
  BY <1>1 DEF Answering, NoReply
<1>5. r \in Waiting(p)
  BY <1>1 DEF Waiting
<1>. HIDE DEF p, answer
<1>6. Waiting(q)' \subseteq Waiting(q) \ {r}
  BY <1>3, <1>4, TypeParts DEF Waiting, DialogsTyped
<1>7. CASE turns'[q] = turns[q]
  BY <1>2, <1>6, <1>7, CountedKept
<1>8. CASE turns'[q] # turns[q]
  <2>1. q = p /\ turns'[q] = turns[q] + 1
    BY <1>1, <1>3, <1>8, TypeParts DEF DialogsTyped
  <2>. DEFINE w == Waiting(q)
              w1 == Waiting(q)'
  <2>2. IsFiniteSet(w) /\ Cardinality(w) \in Nat /\ r \in w
    BY <1>5, <2>1, WaitingIsFinite
  <2>3. IsFiniteSet(w \ {r}) /\ Cardinality(w \ {r}) = Cardinality(w) - 1
    BY <2>2, FS_RemoveElement
  <2>4. Cardinality(w1) <= Cardinality(w \ {r}) /\ IsFiniteSet(w1)
    BY <1>6, <2>3, FS_Subset
  <2>5. Cardinality(w1) \in Nat
    BY <2>4, FS_CardinalityType
  <2>6. dialog'[q] # None => turns'[q] + Cardinality(w1) + 1 <= dialog'[q].count + strays'[q]
    <3>1. dialog[q] # None => turns[q] + Cardinality(w) + 1 <= dialog[q].count + strays[q]
      BY DEF Counted
    <3>. HIDE DEF w, w1
    <3>. QED
      BY <1>2, <2>1, <2>2, <2>3, <2>4, <2>5, <3>1, CountIsNat
  <2>. QED
    BY <2>6 DEF DialogCounted
<1>. QED
  BY <1>7, <1>8

\* A turn says something or ends: it does not wait any more.
LEMMA TurnCounted ==
  ASSUME TypeOK, Counted, NEW q \in Pair, NEW r \in Reply, NEW answer,
         reply' = [reply EXCEPT ![r] = answer], answer.at # "waiting",
         UNCHANGED <<dialog, turns, strays>>
  PROVE  DialogCounted(q)'
<1>1. Waiting(q)' \subseteq Waiting(q)
  BY TypeParts DEF Waiting, DialogsTyped
<1>. QED
  BY <1>1, CountedKept

LEMMA CountedStays ==
  ASSUME TypeOK, TickOK, RepliesOK, Counted, Next
  PROVE  Counted'
<1>. SUFFICES ASSUME NEW q \in Pair
              PROVE  DialogCounted(q)'
  BY DEF Counted, DialogCounted
<1>1. CASE Open
  BY <1>1, OpenCounted
<1>2. CASE UNCHANGED dialogs \/ Delivered
  <2>1. UNCHANGED <<dialog, turns, strays, reply>>
    BY <1>2 DEF dialogs, counts, Delivered
  <2>2. Waiting(q)' \subseteq Waiting(q)
    BY <2>1 DEF Waiting
  <2>. QED
    BY <2>1, <2>2, CountedKept
<1>3. CASE OpenerFails \/ OpenerRefused
  <2>1. PICK p \in Pair : p = ThePair
    BY <1>3, TickPair DEF OpenerFails, OpenerRefused
  <2>2. Forget(p)
    BY <1>3, <2>1 DEF OpenerFails, OpenerRefused
  <2>. QED
    BY <2>2, ForgetCounted
<1>4. CASE Restart
  <2>1. dialog'[q] = None
    BY <1>4 DEF Restart
  <2>. QED
    BY <2>1 DEF DialogCounted
<1>5. ASSUME NEW by \in Agent, NEW to \in Agent, NEW r \in Reply, OrdinaryTurn(by, to, r)
      PROVE  DialogCounted(q)'
  <2>. DEFINE answer == [at |-> "turn", by |-> by, to |-> to]
  <2>1. reply' = [reply EXCEPT ![r] = answer] /\ UNCHANGED <<dialog, turns, strays>>
    BY <1>5 DEF OrdinaryTurn, counts
  <2>2. answer.at # "waiting"
    OBVIOUS
  <2>. HIDE DEF answer
  <2>. QED
    BY <2>1, <2>2, TurnCounted
<1>6. ASSUME NEW r \in Reply, Says(r)
      PROVE  DialogCounted(q)'
  <2>1. UNCHANGED <<dialog, turns, strays, reply>>
    BY <1>6 DEF Says, counts
  <2>2. Waiting(q)' \subseteq Waiting(q)
    BY <2>1 DEF Waiting
  <2>. QED
    BY <2>1, <2>2, CountedKept
<1>7. ASSUME NEW r \in Reply, TurnEnds(r)
      PROVE  DialogCounted(q)'
  <2>1. reply' = [reply EXCEPT ![r] = NoReply] /\ UNCHANGED <<dialog, turns, strays>>
    BY <1>7 DEF TurnEnds, counts
  <2>2. NoReply.at # "waiting"
    BY DEF NoReply
  <2>. QED
    BY <2>1, <2>2, TurnCounted
<1>8. ASSUME NEW p \in Pair, DialogIdles(p)
      PROVE  DialogCounted(q)'
  BY <1>8, ForgetCounted DEF DialogIdles
<1>. QED
  BY <1>1, <1>2, <1>3, <1>4, <1>5, <1>6, <1>7, <1>8, Changes, ClaimCounted, ConfirmCounted
  DEF DialogStep

-----------------------------------------------------------------------------
(* What a step of the task does to an opener that is on its way.           *)

\* Where an opener is on its way, and how a step of the task relates to it.
TickSame ==
  /\ tick'.at = tick.at /\ tick'.sender = tick.sender /\ tick'.agent = tick.agent
  /\ tick'.moment = tick.moment

TickLeaves == tick'.at \notin {"text", "send", "journal"}

LEMMA TickSteps ==
  ASSUME TypeOK, Next
  PROVE  TickSame \/ TickLeaves \/ BudgetIsRead \/ Open \/ Delivered
<1>. USE TickFields DEF TickLeaves
<1>1. CASE Begin
  BY <1>1 DEF Begin
<1>2. CASE NextPhase
  <2>1. CASE tick' = [Idle EXCEPT !.at = "agents", !.queue = Agent, !.online = running]
    BY <2>1 DEF Idle
  <2>2. CASE tick' = Idle
    BY <2>2 DEF Idle
  <2>. QED
    BY <1>2, <2>1, <2>2 DEF NextPhase
<1>3. CASE SuspectLimited
  BY <1>3 DEF SuspectLimited
<1>4. CASE SuspectFree
  BY <1>4 DEF SuspectFree
<1>5. CASE SuspectUnclear
  BY <1>5 DEF SuspectUnclear
<1>6. CASE Released
  BY <1>6 DEF Released
<1>7. CASE NotReleased
  BY <1>7 DEF NotReleased, Tend
<1>8. CASE SlotIsDue
  BY <1>8, NextAgentIs DEF SlotIsDue
<1>9. CASE RecoveryIsDue
  BY <1>9, NextAgentIs DEF RecoveryIsDue
<1>10. CASE HelperIsChosen
  BY <1>10, NextAgentIs DEF HelperIsChosen
<1>11. CASE OpenerRecorded \/ OpenerFails
  BY <1>11, NextAgentIs DEF OpenerRecorded, OpenerFails
<1>12. CASE OpenerRefused
  BY <1>12, NextAgentIs DEF OpenerRefused
<1>13. CASE Restart
  BY <1>13 DEF Restart, Idle
<1>14. ASSUME NEW a \in Agent, VerifySuspect(a)
       PROVE  TickSame \/ TickLeaves
  BY <1>14 DEF VerifySuspect, TickSame
<1>15. ASSUME NEW a \in Agent, TakeAgent(a)
       PROVE  TickSame \/ TickLeaves
  BY <1>15 DEF TakeAgent, Tend
<1>16. ASSUME NEW a \in Agent, Rebuilt(a)
       PROVE  TickSame \/ TickLeaves
  BY <1>16 DEF Rebuilt, TickSame
<1>17. ASSUME NEW a \in Agent, NEW i \in DOMAIN writes[a], Written(a, i)
       PROVE  TickSame \/ TickLeaves
  BY <1>17 DEF Written, TickSame
<1>18. UNCHANGED tick => TickSame
  BY DEF TickSame
<1>. QED
  BY <1>1, <1>2, <1>3, <1>4, <1>5, <1>6, <1>7, <1>8, <1>9, <1>10, <1>11, <1>12, <1>13,
     <1>14, <1>15, <1>16, <1>17, <1>18
  DEF Next, Tick, ReportPeerFlood, ReportSuspect, StartRecovery, WriteLands, WriteFails, Claim,
      OrdinaryTurn, Confirm, Says, TurnEnds, DialogIdles, Stops, TimePasses

-----------------------------------------------------------------------------
(* Restrictions: the transitions on their way lead to what the runtime has. *)

\* A transition is recorded from what the runtime had.
LEMMA LeadsAppend ==
  ASSUME NEW column, NEW limit, NEW queue \in Seq(Write), NEW w \in Write,
         Leads(column, queue, limit), Applied(limit, w.event) = Target(w.event)
  PROVE  Leads(column, Append(queue, w), Target(w.event))
<1>. DEFINE q == Append(queue, w)
<1>1. /\ Len(queue) \in Nat /\ Len(q) = Len(queue) + 1 /\ q[Len(queue) + 1] = w
      /\ \A i \in 1..Len(queue) : q[i] = queue[i]
      /\ q # <<>>
  OBVIOUS
<1>2. queue # <<>> => Len(queue) > 0
  OBVIOUS
<1>. HIDE DEF q
<1>3. Applied(column, q[1].event) = Target(q[1].event)
  <2>1. CASE queue = <<>>
    <3>1. Len(queue) = 0 /\ column = limit
      BY <2>1 DEF Leads
    <3>2. q[1] = w
      BY <1>1, <3>1
    <3>. QED
      BY <3>1, <3>2
  <2>2. CASE queue # <<>>
    BY <1>1, <1>2, <2>2 DEF Leads
  <2>. QED
    BY <2>1, <2>2
<1>4. ASSUME NEW i \in 2..Len(q)
      PROVE  Applied(Target(q[i - 1].event), q[i].event) = Target(q[i].event)
  <2>1. CASE i \in 2..Len(queue)
    <3>1. i - 1 \in 1..Len(queue) /\ i \in 1..Len(queue)
      BY <1>1, <2>1
    <3>. QED
      BY <1>1, <2>1, <3>1 DEF Leads
  <2>2. CASE i = Len(queue) + 1
    <3>1. Len(queue) > 0 /\ queue # <<>> /\ i - 1 = Len(queue)
      BY <1>1, <2>2
    <3>2. q[i - 1] = queue[Len(queue)] /\ q[i] = w
      BY <1>1, <2>2, <3>1
    <3>3. Target(q[i - 1].event) = limit
      BY <3>1, <3>2 DEF Leads
    <3>. QED
      BY <3>2, <3>3
  <2>. QED
    BY <1>1, <2>1, <2>2
<1>5. Target(q[Len(q)].event) = Target(w.event)
  BY <1>1
<1>. QED
  BY <1>1, <1>3, <1>4, <1>5 DEF Leads, q

\* The transition that was recorded first is written.
LEMMA LeadsOn ==
  ASSUME NEW column, NEW limit, NEW queue, NEW rest, queue \in Seq(Write), rest \in Seq(Write),
         queue # <<>>, Len(rest) = Len(queue) - 1,
         \A j \in 1..Len(queue) - 1 : rest[j] = queue[j + 1],
         Leads(column, queue, limit)
  PROVE  Leads(Applied(column, queue[1].event), rest, limit)
<1>1. Len(queue) \in Nat \ {0} /\ Len(rest) \in Nat /\ (rest = <<>> <=> Len(rest) = 0)
  OBVIOUS
<1>2. Applied(column, queue[1].event) = Target(queue[1].event)
  BY DEF Leads
<1>3. rest = <<>> => Target(queue[1].event) = limit
  <2>1. rest = <<>> => Len(queue) = 1
    BY <1>1
  <2>2. Target(queue[Len(queue)].event) = limit
    BY DEF Leads
  <2>. QED
    BY <2>1, <2>2
<1>4. rest # <<>> => /\ Applied(Target(queue[1].event), rest[1].event) = Target(rest[1].event)
                     /\ Target(rest[Len(rest)].event) = limit
  <2>. SUFFICES ASSUME rest # <<>>
                PROVE  /\ Applied(Target(queue[1].event), rest[1].event) = Target(rest[1].event)
                       /\ Target(rest[Len(rest)].event) = limit
    OBVIOUS
  <2>1. 2 \in 2..Len(queue) /\ 1 \in 1..Len(queue) - 1 /\ Len(rest) \in 1..Len(queue) - 1
    BY <1>1
  <2>2. rest[1] = queue[2] /\ rest[Len(rest)] = queue[Len(queue)]
    BY <1>1, <2>1
  <2>3. Applied(Target(queue[2 - 1].event), queue[2].event) = Target(queue[2].event)
    BY <2>1 DEF Leads
  <2>4. Target(queue[Len(queue)].event) = limit
    BY DEF Leads
  <2>. QED
    BY <2>2, <2>3, <2>4
<1>5. ASSUME NEW i \in 2..Len(rest)
      PROVE  Applied(Target(rest[i - 1].event), rest[i].event) = Target(rest[i].event)
  <2>1. /\ i + 1 \in 2..Len(queue) /\ i \in 1..Len(queue) - 1 /\ i - 1 \in 1..Len(queue) - 1
        /\ (i - 1) + 1 = i /\ (i + 1) - 1 = i
    BY <1>1
  <2>2. rest[i - 1] = queue[i] /\ rest[i] = queue[i + 1]
    BY <2>1
  <2>3. Applied(Target(queue[(i + 1) - 1].event), queue[i + 1].event)
          = Target(queue[i + 1].event)
    BY <2>1 DEF Leads
  <2>. QED
    BY <2>1, <2>2, <2>3
<1>. QED
  BY <1>2, <1>3, <1>4, <1>5 DEF Leads

\* The restriction of agent a that RecordsOK is about.
RecordLed(a) == a \notin diverged => Leads(record[a], writes[a], memory[a])

LEMMA LedKept ==
  ASSUME NEW a \in Agent, RecordLed(a), record'[a] = record[a], memory'[a] = memory[a],
         writes'[a] = writes[a], a \notin diverged' => a \notin diverged
  PROVE  RecordLed(a)'
BY DEF RecordLed

\* An agent's runtime and its record of the change begin together.
LEMMA RecordLeads ==
  ASSUME TypeOK, NEW a \in Agent, NEW event \in Transition, NEW by \in {"tick", "other"},
         Records(a, event, by), UNCHANGED record,
         memory' = [memory EXCEPT ![a] = Target(event)],
         Applied(memory[a], event) = Target(event),
         \A b \in Agent : b \notin diverged' => b \notin diverged,
         RecordsOK, NEW b \in Agent
  PROVE  RecordLed(b)'
<1>1. writes \in [Agent -> Seq(Write)] /\ memory \in [Agent -> Limit]
  BY TypeParts DEF LimitsTyped
<1>2. RecordLed(b)
  BY DEF RecordsOK, RecordLed
<1>. DEFINE w == [event |-> event, by |-> by]
<1>3. writes' = [writes EXCEPT ![a] = Append(writes[a], w)]
  BY DEF Records
<1>4. w \in Write /\ w.event = event
  BY DEF Write
<1>. HIDE DEF w
<1>5. CASE b = a
  <2>1. writes'[a] = Append(writes[a], w) /\ memory'[a] = Target(event)
    BY <1>1, <1>3
  <2>2. a \notin diverged' => Leads(record[a], Append(writes[a], w), Target(w.event))
    BY <1>1, <1>2, <1>4, <1>5, LeadsAppend DEF RecordLed
  <2>. QED
    BY <1>4, <1>5, <2>1, <2>2 DEF RecordLed
<1>6. CASE b # a
  <2>1. writes'[b] = writes[b] /\ memory'[b] = memory[b]
    BY <1>1, <1>3, <1>6
  <2>. QED
    BY <1>2, <2>1, LedKept
<1>. QED
  BY <1>5, <1>6

LEMMA MarkLeads ==
  ASSUME TypeOK, RecordsOK, NEW a \in Agent, NEW by \in {"tick", "other"},
         memory[a] = "free", MarkRestricted(a, by), NEW b \in Agent
  PROVE  RecordLed(b)'
<1>1. /\ memory' = [memory EXCEPT ![a] = Target("restricted")] /\ Records(a, "restricted", by)
      /\ UNCHANGED record /\ UNCHANGED diverged
  BY DEF MarkRestricted, Target
<1>2. Applied(memory[a], "restricted") = Target("restricted") /\ "restricted" \in Transition
  BY DEF Applied, Target, Transition
<1>. QED
  BY <1>1, <1>2, RecordLeads

LEMMA DivergedLeads ==
  ASSUME TypeOK, RecordsOK, NEW a \in Agent, a \in diverged', NEW b \in Agent,
         \A c \in Agent \ {a} : /\ c \notin diverged' => c \notin diverged
                                /\ record'[c] = record[c] /\ memory'[c] = memory[c]
                                /\ writes'[c] = writes[c]
  PROVE  RecordLed(b)'
<1>1. CASE b = a
  BY <1>1 DEF RecordLed
<1>2. CASE b # a
  BY <1>2, LedKept DEF RecordsOK, RecordLed
<1>. QED
  BY <1>1, <1>2

LEMMA TickMarkLeads ==
  ASSUME TypeOK, RecordsOK, NEW a \in Agent, memory[a] = "free", TickMarks(a), NEW b \in Agent
  PROVE  RecordLed(b)'
<1>1. CASE a \in tick.old
  <2>1. writes \in [Agent -> Seq(Write)]
    BY TypeParts DEF LimitsTyped
  <2>2. \A c \in Agent \ {a} : writes'[c] = writes[c]
    BY <1>1, <2>1 DEF TickMarks, Records
  <2>3. diverged' = diverged \cup {a} /\ UNCHANGED <<memory, record>>
    BY <1>1 DEF TickMarks
  <2>. QED
    BY <2>2, <2>3, DivergedLeads
<1>2. CASE a \notin tick.old
  BY <1>2, MarkLeads DEF TickMarks
<1>. QED
  BY <1>1, <1>2

LEMMA LandLeads ==
  ASSUME TypeOK, RecordsOK, NEW a \in Agent, NEW i \in DOMAIN writes[a],
         WriteLands(a, i) \/ WriteFails(a, i), NEW b \in Agent
  PROVE  RecordLed(b)'
<1>1. /\ writes' = [writes EXCEPT ![a] = WithoutWrite(a, i)] /\ memory' = memory
      /\ writes \in [Agent -> Seq(Write)] /\ record \in [Agent -> Limit]
  BY TypeParts DEF WriteLands, WriteFails, Written, LimitsTyped
<1>2. \A c \in Agent \ {a} : writes'[c] = writes[c] /\ record'[c] = record[c]
  BY <1>1 DEF WriteLands, WriteFails
<1>3. diverged \subseteq diverged'
  BY DEF WriteLands, WriteFails
<1>4. CASE a \in diverged'
  BY <1>1, <1>2, <1>3, <1>4, DivergedLeads
<1>5. CASE b # a
  BY <1>1, <1>2, <1>3, <1>5, LedKept DEF RecordsOK, RecordLed
<1>6. CASE b = a /\ a \notin diverged'
  <2>. DEFINE queue == writes[a]
              rest == WithoutWrite(a, i)
  <2>1. ~(i > 1) /\ record' = [record EXCEPT ![a] = Applied(record[a], writes[a][i].event)]
    BY <1>6 DEF WriteLands, WriteFails
  <2>2. i \in 1..Len(queue) /\ Len(queue) \in Nat \ {0}
    BY WithoutWriteIs
  <2>3. i = 1
    BY <2>1, <2>2
  <2>4. /\ queue \in Seq(Write) /\ rest \in Seq(Write) /\ Len(rest) = Len(queue) - 1
        /\ \A j \in 1..Len(queue) - 1 : rest[j] = IF j < i THEN queue[j] ELSE queue[j + 1]
    BY WithoutWriteIs
  <2>5. queue # <<>>
    BY <2>2
  <2>6. \A j \in 1..Len(queue) - 1 : rest[j] = queue[j + 1]
    BY <2>2, <2>3, <2>4
  <2>7. Leads(record[a], queue, memory[a])
    BY <1>3, <1>6 DEF RecordsOK
  <2>8. writes'[a] = rest /\ record'[a] = Applied(record[a], queue[1].event)
    BY <1>1, <2>1, <2>3
  <2>9. Leads(Applied(record[a], queue[1].event), rest, memory[a])
    <3>. HIDE DEF queue, rest
    <3>. QED
      BY <2>4, <2>5, <2>6, <2>7, LeadsOn
  <2>. QED
    BY <1>1, <1>6, <2>8, <2>9 DEF RecordLed
<1>. QED
  BY <1>4, <1>5, <1>6

LEMMA RecordsStay ==
  ASSUME TypeOK, TickOK, RecordsOK, Next
  PROVE  RecordsOK'
<1>. SUFFICES ASSUME NEW b \in Agent
              PROVE  RecordLed(b)'
  BY DEF RecordsOK, RecordLed
<1>0. CASE UNCHANGED limits
  BY <1>0, LedKept DEF limits, RecordsOK, RecordLed
<1>1. ASSUME NEW a \in Agent, ReportPeerFlood(a)
      PROVE  RecordLed(b)'
  BY <1>1, MarkLeads DEF ReportPeerFlood
<1>2. ASSUME NEW a \in Agent, StartRecovery(a)
      PROVE  RecordLed(b)'
  <2>1. /\ memory' = [memory EXCEPT ![a] = Target("recovery_started")]
        /\ Records(a, "recovery_started", "other") /\ UNCHANGED record /\ UNCHANGED diverged
    BY <1>2 DEF StartRecovery, Target
  <2>2. /\ Applied(memory[a], "recovery_started") = Target("recovery_started")
        /\ "recovery_started" \in Transition
    BY <1>2 DEF StartRecovery, Applied, Target, Transition
  <2>. QED
    BY <2>1, <2>2, RecordLeads
<1>3. ASSUME NEW a \in Agent, NEW i \in DOMAIN writes[a], WriteLands(a, i) \/ WriteFails(a, i)
      PROVE  RecordLed(b)'
  BY <1>3, LandLeads
<1>4. CASE SuspectLimited
  <2>1. tick.agent \in Agent
    BY <1>4 DEF SuspectLimited, TickOK, TickBusy
  <2>2. UNCHANGED limits \/ (memory[tick.agent] = "free" /\ TickMarks(tick.agent))
    BY <1>4 DEF SuspectLimited
  <2>. QED
    BY <1>0, <2>1, <2>2, TickMarkLeads
<1>5. CASE OpenerRefused
  <2>1. tick.sender \in Agent
    BY <1>5 DEF OpenerRefused, TickOK, TickBusy
  <2>2. UNCHANGED limits \/ (memory[tick.sender] = "free" /\ TickMarks(tick.sender))
    BY <1>5 DEF OpenerRefused
  <2>. QED
    BY <1>0, <2>1, <2>2, TickMarkLeads
<1>6. CASE Released
  <2>1. PICK a \in Agent : a = tick.agent
    BY <1>6 DEF Released, TickOK, TickBusy
  <2>2. Records(a, "recovered", "tick") /\ UNCHANGED record
    BY <1>6, <2>1 DEF Released
  <2>3. CASE a \in tick.old
    <3>1. diverged' = diverged \cup {a} /\ UNCHANGED memory
      BY <1>6, <2>1, <2>3 DEF Released
    <3>2. \A c \in Agent \ {a} : writes'[c] = writes[c]
      BY <2>2, TypeParts DEF LimitsTyped, Records
    <3>. QED
      BY <2>2, <3>1, <3>2, DivergedLeads
  <2>4. CASE a \notin tick.old
    <3>1. memory' = [memory EXCEPT ![a] = Target("recovered")] /\ UNCHANGED diverged
      BY <1>6, <2>1, <2>4 DEF Released, Target
    <3>2. /\ Applied(memory[a], "recovered") = Target("recovered")
          /\ "recovered" \in Transition
      BY DEF Applied, Target, Transition
    <3>. QED
      BY <2>2, <3>1, <3>2, RecordLeads
  <2>. QED
    BY <2>3, <2>4
<1>7. ASSUME NEW a \in Agent, Rebuilt(a)
      PROVE  RecordLed(b)'
  <2>1. /\ memory' = [memory EXCEPT ![a] = record[a]] /\ memory \in [Agent -> Limit]
        /\ UNCHANGED <<record, writes>>
        /\ diverged' = IF writes[a] = <<>> THEN diverged \ {a} ELSE diverged \cup {a}
    BY <1>7, TypeParts DEF Rebuilt, LimitsTyped
  <2>2. CASE b # a
    BY <2>1, <2>2, LedKept DEF RecordsOK, RecordLed
  <2>3. CASE b = a /\ writes[a] = <<>>
    <3>1. Len(writes[a]) = 0
      BY <2>3
    <3>2. Leads(record[a], writes[a], record[a])
      BY <2>3, <3>1 DEF Leads
    <3>. QED
      BY <2>1, <2>3, <3>2 DEF RecordLed
  <2>4. CASE b = a /\ writes[a] # <<>>
    BY <2>1, <2>4 DEF RecordLed
  <2>. QED
    BY <2>2, <2>3, <2>4
<1>8. CASE Restart
  <2>1. writes'[b] = <<>> /\ memory'[b] = record'[b]
    BY <1>8 DEF Restart
  <2>2. Len(<<>>) = 0
    OBVIOUS
  <2>. QED
    BY <2>1, <2>2 DEF RecordLed, Leads
<1>. QED
  BY <1>0, <1>1, <1>2, <1>3, <1>4, <1>5, <1>6, <1>7, <1>8, Changes DEF LimitStep

-----------------------------------------------------------------------------
(* Openers: what the journal and the reservations show is what was opened.  *)

\* Openers that lie apart are no more than the times at which they are seen.
LEMMA SeenOnce ==
  ASSUME NEW S \in SUBSET Opener, NEW T \in SUBSET Nat, IsFiniteSet(T),
         \A o \in S : \E m \in T : o.at <= m /\ m <= o.at + MatchWindow,
         \A o, p \in S : o # p => Distance(o.at, p.at) > MatchWindow
  PROVE  IsFiniteSet(S) /\ Cardinality(S) <= Cardinality(T)
<1>. DEFINE f == [o \in S |-> CHOOSE m \in T : o.at <= m /\ m <= o.at + MatchWindow]
<1>1. \A o \in S : f[o] \in T /\ o.at <= f[o] /\ f[o] <= o.at + MatchWindow
  OBVIOUS
<1>2. ASSUME NEW o \in S, NEW p \in S, f[o] = f[p]
      PROVE  o = p
  <2>. HIDE DEF f
  <2>1. o.at \in Nat /\ p.at \in Nat
    <3>1. MaxTime \in Nat /\ o \in Opener /\ p \in Opener
      BY WarmupAssumption
    <3>. QED
      BY <3>1 DEF Opener, Time
  <2>3. f[o] \in Nat /\ MatchWindow \in Nat
    BY <1>1, WarmupAssumption
  <2>2. ~(Distance(o.at, p.at) > MatchWindow)
    BY <1>1, <1>2, <2>1, <2>3 DEF Distance
  <2>. QED
    BY <2>2
<1>3. f \in Injection(S, T)
  BY <1>1, <1>2 DEF Injection, IsInjective
<1>. HIDE DEF f
<1>. QED
  BY <1>3, FS_Injection

LEMMA FromIs ==
  ASSUME TypeOK, NEW a \in Agent
  PROVE  /\ From(a, opened) \subseteq Opener /\ From(a, journal) \subseteq Opener
         /\ {o \in journal : o.from = a} = From(a, journal)
         /\ {o \in reserved : o.from = a} = From(a, reserved)
         /\ \A o \in opened \cup journal \cup reserved : o \in Opener /\ o.at \in Nat
         /\ now \in Nat
         /\ MatchWindow \in Nat /\ MinInterval \in Nat /\ MatchWindow < MinInterval
         /\ MaxOpeners \in Nat /\ MaxTime \in Nat
BY TypeParts, WarmupAssumption DEF OpenersTyped, From, Opener, Time, NowTyped

\* What merge_attempts() leaves out is matched by the journal.
LEMMA SentIs ==
  ASSUME TypeOK, NEW a \in Agent
  PROVE  /\ Sent(a) \in SUBSET Nat /\ IsFiniteSet(Sent(a)) /\ Cardinality(Sent(a)) \in Nat
         /\ \A s \in From(a, journal) : s.at \in Sent(a)
         /\ \A o \in From(a, reserved) :
              o.at \in Sent(a)
                \/ \E s \in From(a, journal) : Distance(o.at, s.at) <= MatchWindow
<1>1. Sent(a) = {o.at : o \in From(a, journal) \cup
                   {k \in From(a, reserved) :
                      \A s \in From(a, journal) : Distance(k.at, s.at) > MatchWindow}}
  BY FromIs DEF Sent, Merged
<1>2. \A o \in From(a, journal) \cup From(a, reserved) : o \in Opener /\ o.at \in 0..MaxTime
  BY TypeParts DEF OpenersTyped, From, Opener, Time
<1>3. Sent(a) \subseteq 0..MaxTime
  BY <1>1, <1>2
<1>4. IsFiniteSet(0..MaxTime)
  BY FromIs, FS_Interval
<1>5. Sent(a) \in SUBSET (0..MaxTime)
  BY <1>3
<1>6. IsFiniteSet(Sent(a)) /\ Cardinality(Sent(a)) \in Nat
  BY <1>4, <1>5, FS_Subset, FS_CardinalityType
<1>7. \A s \in From(a, journal) : s.at \in Sent(a)
  BY <1>1
<1>8. ASSUME NEW o \in From(a, reserved)
      PROVE  o.at \in Sent(a) \/ \E s \in From(a, journal) : Distance(o.at, s.at) <= MatchWindow
  <2>1. CASE \A s \in From(a, journal) : Distance(o.at, s.at) > MatchWindow
    BY <1>1, <2>1
  <2>2. ASSUME NEW s \in From(a, journal), ~(Distance(o.at, s.at) > MatchWindow)
        PROVE  Distance(o.at, s.at) <= MatchWindow
    BY <1>2, <2>2, FromIs DEF Distance
  <2>. QED
    BY <2>1, <2>2
<1>9. Sent(a) \in SUBSET Nat
  BY <1>5
<1>. QED
  BY <1>6, <1>7, <1>8, <1>9

\* Whatever was opened is seen in the attempts, at its own time or soon after it.
LEMMA OpenedIsSeen ==
  ASSUME TypeOK, OpenersOK, NEW a \in Agent, NEW o \in From(a, opened \cup journal)
  PROVE  \E m \in Sent(a) : o.at <= m /\ m <= o.at + MatchWindow
<1>1. o.at \in Nat /\ o.from = a
  BY FromIs DEF From
<1>2. CASE o \in journal
  <2>1. o.at \in Sent(a)
    BY <1>1, <1>2, SentIs DEF From
  <2>. QED
    BY <1>1, <2>1, FromIs
<1>3. CASE o \notin journal
  <2>1. o \in reserved /\ o \in From(a, reserved)
    BY <1>1, <1>3 DEF OpenersOK, Known, From
  <2>2. CASE o.at \in Sent(a)
    BY <1>1, <2>2, FromIs
  <2>3. ASSUME NEW s \in From(a, journal), Distance(o.at, s.at) <= MatchWindow
        PROVE  \E m \in Sent(a) : o.at <= m /\ m <= o.at + MatchWindow
    <3>1. s \in journal /\ s.from = o.from /\ s.at \in Nat /\ s.at \in Sent(a)
      BY <1>1, FromIs, SentIs DEF From
    <3>2. s.at < o.at => o.at - s.at >= MinInterval
      BY <2>1, <3>1 DEF OpenersOK, JournalFollows
    <3>3. o.at <= s.at /\ s.at <= o.at + MatchWindow
      BY <1>1, <2>3, <3>1, <3>2, FromIs DEF Distance
    <3>. QED
      BY <3>1, <3>3
  <2>. QED
    BY <2>1, <2>2, <2>3, SentIs
<1>. QED
  BY <1>2, <1>3

\* The budget is read right: who may open has opened less, and nothing of late.
LEMMA BudgetCounts ==
  ASSUME TypeOK, OpenersOK, NEW a \in Agent, NEW moment \in Nat, MayOpen(a, moment)
  PROVE  /\ Cardinality(From(a, opened)) < MaxOpeners
         /\ Cardinality(From(a, journal)) < MaxOpeners
         /\ IsFiniteSet(From(a, opened)) /\ IsFiniteSet(From(a, journal))
         /\ \A o \in From(a, opened \cup journal) : moment - o.at >= MinInterval
<1>1. From(a, opened) \in SUBSET Opener /\ From(a, journal) \in SUBSET Opener
  BY FromIs
<1>2. Sent(a) \in SUBSET Nat /\ IsFiniteSet(Sent(a)) /\ Cardinality(Sent(a)) \in Nat
  BY SentIs
<1>3. /\ \A o \in From(a, opened) : \E m \in Sent(a) : o.at <= m /\ m <= o.at + MatchWindow
      /\ \A o \in From(a, journal) : \E m \in Sent(a) : o.at <= m /\ m <= o.at + MatchWindow
  BY OpenedIsSeen DEF From
<1>4. /\ \A o, p \in From(a, opened) : o # p => Distance(o.at, p.at) > MatchWindow
      /\ \A o, p \in From(a, journal) : o # p => Distance(o.at, p.at) > MatchWindow
  <2>1. \A o, p \in Opener : Distance(o.at, p.at) >= MinInterval
                               => Distance(o.at, p.at) > MatchWindow
    BY FromIs DEF Distance, Opener, Time
  <2>. QED
    BY <1>1, <2>1 DEF OpenersOK, Spaced, From
<1>5. /\ IsFiniteSet(From(a, opened)) /\ Cardinality(From(a, opened)) <= Cardinality(Sent(a))
      /\ IsFiniteSet(From(a, journal)) /\ Cardinality(From(a, journal)) <= Cardinality(Sent(a))
  BY <1>1, <1>2, <1>3, <1>4, SeenOnce
<1>6. Cardinality(From(a, opened)) \in Nat /\ Cardinality(From(a, journal)) \in Nat
  BY <1>5, FS_CardinalityType
<1>7. Cardinality(Sent(a)) < MaxOpeners
  BY DEF MayOpen
<1>8. ASSUME NEW o \in From(a, opened \cup journal)
      PROVE  moment - o.at >= MinInterval
  <2>1. PICK m \in Sent(a) : o.at <= m
    BY OpenedIsSeen
  <2>2. moment - m >= MinInterval
    BY DEF MayOpen
  <2>3. o.at \in Nat /\ m \in Nat
    BY <1>2, FromIs DEF From
  <2>. QED
    BY <2>1, <2>2, <2>3, FromIs
<1>9. /\ Cardinality(From(a, opened)) < MaxOpeners
      /\ Cardinality(From(a, journal)) < MaxOpeners
  <2>1. MaxOpeners \in Nat
    BY FromIs
  <2>. QED
    BY <1>2, <1>5, <1>6, <1>7, <2>1
<1>. QED
  BY <1>5, <1>8, <1>9

\* The spending of one opener: by agent a, to agent b, at a time.
Spends(at, a, b, moment) ==
  /\ at = "text" => MayOpen(a, moment)
  /\ at \in {"send", "journal"} =>
       /\ Cardinality(From(a, journal)) < MaxOpeners
       /\ \A s \in From(a, journal) : moment - s.at >= MinInterval
       /\ [from |-> a, to |-> b, at |-> moment] \in opened

LEMMA SpendingIs == Spending <=> Spends(tick.at, tick.sender, tick.agent, tick.moment)
BY DEF Spending, Spends, TheOpener

LEMMA SpendingNextIs ==
  ASSUME NEW at, NEW a, NEW b, NEW moment, tick'.at = at, tick'.sender = a, tick'.agent = b,
         tick'.moment = moment
  PROVE  Spending' <=> Spends(at, a, b, moment)'
BY DEF Spending, Spends, TheOpener, MayOpen

LEMMA SpendsKept ==
  ASSUME UNCHANGED openers, NEW at, NEW a, NEW b, NEW moment, Spends(at, a, b, moment)
  PROVE  Spends(at, a, b, moment)'
BY DEF openers, Spends, MayOpen, Sent, Merged, From

LEMMA TickLeavesSpends == TickLeaves => Spending'
BY DEF TickLeaves, Spending

\* What is known of the openers when none is opened or recorded.
LEMMA OpenersKept ==
  ASSUME TypeOK, OpenersOK, Next, UNCHANGED openers
  PROVE  /\ Known' /\ JournalFollows' /\ Spaced(opened)' /\ Spaced(journal)'
         /\ \A a \in Agent : /\ Cardinality(From(a, opened)') <= MaxOpeners
                             /\ Cardinality(From(a, journal)') <= MaxOpeners
<1>1. UNCHANGED <<reserved, journal, opened>>
  BY DEF openers
<1>2. now \in Nat /\ now <= now' /\ now' \in Nat
  BY FromIs, TypeParts, Changes, WarmupAssumption DEF TimePasses, NowTyped, Time
<1>3. \A o \in opened \cup journal : o.at <= now'
  <2>1. \A o \in opened \cup journal : o.at \in Nat /\ o.at <= now
    BY TypeParts, WarmupAssumption DEF OpenersOK, Known, OpenersTyped, Opener, Time
  <2>. QED
    BY <1>2, <2>1
<1>4. Known'
  BY <1>1, <1>3 DEF OpenersOK, Known
<1>5. JournalFollows' /\ Spaced(opened)' /\ Spaced(journal)'
  BY <1>1 DEF OpenersOK, JournalFollows, Spaced
<1>6. \A a : From(a, opened)' = From(a, opened) /\ From(a, journal)' = From(a, journal)
  BY <1>1 DEF From
<1>. QED
  BY <1>4, <1>5, <1>6 DEF OpenersOK

LEMMA SpendingKept ==
  ASSUME TypeOK, TickOK, OpenersOK, Next, UNCHANGED openers, ~Open
  PROVE  Spending'
<1>1. CASE TickLeaves
  BY <1>1, TickLeavesSpends
<1>. SUFFICES ASSUME ~TickLeaves
              PROVE  Spending'
  BY <1>1
<1>2. PICK at, a, b, moment :
        tick'.at = at /\ tick'.sender = a /\ tick'.agent = b /\ tick'.moment = moment
  OBVIOUS
<1>3. CASE TickSame
  <2>1. Spends(at, a, b, moment)
    BY <1>2, <1>3, SpendingIs DEF TickSame, OpenersOK
  <2>. QED
    BY <1>2, <2>1, SpendsKept, SpendingNextIs
<1>4. CASE BudgetIsRead
  <2>1. MayOpen(tick.sender, tick.moment) /\ tick'.at = "text"
    BY <1>4, NextAgentIs, TickFields DEF BudgetIsRead, TickLeaves, Proceed
  <2>2. tick'.sender = tick.sender /\ tick'.moment = tick.moment
    BY <1>4, NextAgentIs, <2>1, TickFields DEF BudgetIsRead, Proceed
  <2>3. Spends(at, a, b, moment)
    BY <1>2, <2>1, <2>2 DEF Spends
  <2>. QED
    BY <1>2, <2>3, SpendsKept, SpendingNextIs
<1>5. CASE Delivered
  <2>1. /\ tick.at = "send" /\ tick'.at = "journal" /\ tick'.sender = tick.sender
        /\ tick'.agent = tick.agent /\ tick'.moment = tick.moment
    BY <1>5, TickFields DEF Delivered, Proceed
  <2>2. Spends(at, a, b, moment)
    BY <1>2, <2>1, SpendingIs DEF Spends, OpenersOK
  <2>. QED
    BY <1>2, <2>2, SpendsKept, SpendingNextIs
<1>. QED
  BY <1>3, <1>4, <1>5, TickSteps

\* An opener that keeps the distance from those before it.
LEMMA SpacedAdd ==
  ASSUME TypeOK, NEW set \in SUBSET Opener, NEW o \in Opener, Spaced(set),
         \A p \in set : p.from = o.from => o.at - p.at >= MinInterval
  PROVE  Spaced(set \cup {o})
<1>1. MinInterval \in Nat /\ MaxTime \in Nat
  BY WarmupAssumption
<1>2. ASSUME NEW p \in set, p.from = o.from
      PROVE  Distance(o.at, p.at) >= MinInterval /\ Distance(p.at, o.at) >= MinInterval
  <2>1. o.at \in Nat /\ p.at \in Nat
    BY <1>1 DEF Opener, Time
  <2>2. o.at - p.at >= MinInterval
    BY <1>2
  <2>. QED
    BY <1>1, <2>1, <2>2 DEF Distance
<1>. QED
  BY <1>2 DEF Spaced

LEMMA FromAdd ==
  ASSUME NEW set \in SUBSET Opener, NEW o \in Opener, IsFiniteSet(set), NEW a \in Agent,
         Cardinality(From(a, set)) <= MaxOpeners,
         a = o.from => Cardinality(From(a, set)) < MaxOpeners
  PROVE  Cardinality(From(a, set \cup {o})) <= MaxOpeners
<1>1. From(a, set) \in SUBSET set
  BY DEF From
<1>2. IsFiniteSet(From(a, set)) /\ Cardinality(From(a, set)) \in Nat
  BY <1>1, FS_Subset, FS_CardinalityType
<1>3. CASE a = o.from
  <2>1. From(a, set \cup {o}) = From(a, set) \cup {o}
    BY <1>3 DEF From
  <2>. DEFINE mine == From(a, set)
              n == Cardinality(mine)
              m == Cardinality(mine \cup {o})
  <2>2. m = n \/ m = n + 1
    <3>. HIDE DEF mine
    <3>. QED
      BY <1>2, FS_AddElement DEF mine
  <2>3. n \in Nat /\ n < MaxOpeners /\ MaxOpeners \in Nat
    BY <1>2, <1>3, WarmupAssumption
  <2>4. Cardinality(From(a, set \cup {o})) = m
    BY <2>1
  <2>5. m <= MaxOpeners
    <3>. HIDE DEF n, m
    <3>. QED
      BY <2>2, <2>3
  <2>. QED
    BY <2>4, <2>5
<1>4. CASE a # o.from
  <2>1. From(a, set \cup {o}) = From(a, set)
    BY <1>4 DEF From
  <2>. QED
    BY <2>1
<1>. QED
  BY <1>3, <1>4

LEMMA OpenOpeners ==
  ASSUME TypeOK, TickOK, OpenersOK, Next, Open
  PROVE  OpenersOK'
<1>1. PICK a \in Agent, b \in Agent, moment \in Nat :
        tick.sender = a /\ tick.agent = b /\ tick.moment = moment /\ moment <= now
  BY TickFields DEF Open, TickOK, TickBusy
<1>. DEFINE o == [from |-> a, to |-> b, at |-> moment]
<1>2. MayOpen(a, moment)
  BY <1>1 DEF Open, OpenersOK, Spending
<1>3. /\ TheOpener = o /\ o.from = a /\ o.at = moment /\ o \in Opener
      /\ reserved' = reserved \cup {o} /\ opened' = opened \cup {o}
      /\ UNCHANGED <<journal, now>>
  <2>1. TheOpener = o
    BY <1>1 DEF TheOpener
  <2>2. o \in Opener
    BY <1>1, TypeParts DEF Opener, TickTyped, TickState
  <2>. QED
    BY <2>1, <2>2 DEF Open
<1>. HIDE DEF o
<1>4. /\ Cardinality(From(a, opened)) < MaxOpeners
      /\ Cardinality(From(a, journal)) < MaxOpeners
      /\ \A p \in From(a, opened \cup journal) : moment - p.at >= MinInterval
  BY <1>1, <1>2, BudgetCounts
<1>5. \A p \in opened \cup journal : p.from = a => moment - p.at >= MinInterval
  BY <1>4 DEF From
<1>6. opened \in SUBSET Opener /\ journal \in SUBSET Opener
  BY TypeParts DEF OpenersTyped
<1>7. Known'
  BY <1>1, <1>3, FS_AddElement DEF OpenersOK, Known
<1>8. JournalFollows'
  BY <1>3, <1>5 DEF OpenersOK, JournalFollows
<1>9. Spaced(opened') /\ Spaced(journal')
  BY <1>3, <1>5, <1>6, SpacedAdd DEF OpenersOK
<1>10. ASSUME NEW c \in Agent
       PROVE  /\ Cardinality(From(c, opened')) <= MaxOpeners
              /\ Cardinality(From(c, journal')) <= MaxOpeners
  BY <1>3, <1>4, <1>6, FromAdd DEF OpenersOK, Known
<1>11. Spending'
  <2>1. CASE tick'.at = "agents"
    BY <2>1 DEF Spending
  <2>2. CASE tick'.at # "agents"
    <3>1. tick'.at = "send" /\ tick'.sender = a /\ tick'.agent = b /\ tick'.moment = moment
      BY <1>1, <2>2, NextAgentIs, TickFields DEF Open, Proceed
    <3>2. From(a, journal') = From(a, journal)
      BY <1>3
    <3>3. \A s \in From(a, journal) : moment - s.at >= MinInterval
      BY <1>4 DEF From
    <3>4. [from |-> a, to |-> b, at |-> moment] \in opened'
      BY <1>3 DEF o
    <3>5. Spends("send", a, b, moment)'
      BY <1>4, <3>2, <3>3, <3>4 DEF Spends, From
    <3>. QED
      BY <3>1, <3>5, SpendingNextIs
  <2>. QED
    BY <2>1, <2>2
<1>. QED
  BY <1>7, <1>8, <1>9, <1>10, <1>11 DEF OpenersOK, Spaced, From

LEMMA JournalOpeners ==
  ASSUME TypeOK, TickOK, OpenersOK, Next, OpenerRecorded \/ OpenerFails \/ OpenerRefused
  PROVE  OpenersOK'
<1>1. PICK a \in Agent, b \in Agent, moment \in Nat :
        tick.sender = a /\ tick.agent = b /\ tick.moment = moment /\ moment <= now
  BY TickFields DEF OpenerRecorded, OpenerFails, OpenerRefused, TickOK, TickBusy
<1>. DEFINE o == [from |-> a, to |-> b, at |-> now]
<1>2. Spends("send", a, b, moment)
  BY <1>1, SpendingIs DEF OpenerRecorded, OpenerFails, OpenerRefused, OpenersOK, Spends
<1>3. now \in Nat /\ MinInterval \in Nat /\ now' = now
  BY FromIs, <1>1, Changes DEF OpenerRecorded, OpenerFails, OpenerRefused
<1>4. o \in Opener /\ o.from = a /\ o.at = now
  BY <1>1, TypeParts DEF Opener, NowTyped
<1>5. journal' \in {journal, journal \cup {o}} /\ reserved' = reserved /\ opened' = opened
  <2>1. [TheOpener EXCEPT !.at = now] = o
    BY <1>1 DEF TheOpener
  <2>. QED
    BY <2>1 DEF OpenerRecorded, OpenerFails, OpenerRefused, Journals
<1>6. tick'.at \in {"agents", "record"}
  BY NextAgentIs, TickFields DEF OpenerRecorded, OpenerFails, OpenerRefused
<1>7. Spending'
  BY <1>6 DEF Spending
<1>. HIDE DEF o
<1>8. \A s \in journal \cup opened : s.at \in Nat /\ s.at <= now
  BY FromIs, <1>1 DEF OpenersOK, Known
<1>9. \A s \in journal : s.from = a => now - s.at >= MinInterval
  <2>1. \A s \in journal : s.from = a => moment - s.at >= MinInterval
    BY <1>2 DEF Spends, From
  <2>. QED
    BY <1>1, <1>3, <1>8, <2>1
<1>10. opened \in SUBSET Opener /\ journal \in SUBSET Opener
  BY TypeParts DEF OpenersTyped
<1>11. Known'
  BY <1>3, <1>4, <1>5, FS_AddElement DEF OpenersOK, Known
<1>12. JournalFollows'
  <2>1. \A r \in reserved : r.at \in Nat /\ r.at <= now
    BY <1>8 DEF OpenersOK, Known
  <2>2. \A r \in reserved : ~(now < r.at)
    BY <1>3, <2>1
  <2>. QED
    BY <1>4, <1>5, <2>2 DEF OpenersOK, JournalFollows
<1>13. Spaced(opened') /\ Spaced(journal')
  BY <1>4, <1>5, <1>9, <1>10, SpacedAdd DEF OpenersOK
<1>14. ASSUME NEW c \in Agent
       PROVE  /\ Cardinality(From(c, opened')) <= MaxOpeners
              /\ Cardinality(From(c, journal')) <= MaxOpeners
  <2>1. Cardinality(From(a, journal)) < MaxOpeners
    BY <1>2 DEF Spends
  <2>. QED
    BY <1>4, <1>5, <1>10, <2>1, FromAdd DEF OpenersOK, Known
<1>. QED
  BY <1>7, <1>11, <1>12, <1>13, <1>14 DEF OpenersOK, Spaced, From

LEMMA RestartOpeners ==
  ASSUME TypeOK, OpenersOK, Next, Restart
  PROVE  OpenersOK'
<1>1. reserved' = {} /\ opened' = journal /\ journal' = journal /\ now' = now /\ tick' = Idle
  BY DEF Restart
<1>2. Known' /\ JournalFollows' /\ Spaced(opened)' /\ Spaced(journal)'
  BY <1>1 DEF OpenersOK, Known, JournalFollows, Spaced
<1>3. Spending'
  BY <1>1 DEF Spending, Idle
<1>4. \A a : From(a, opened)' = From(a, journal) /\ From(a, journal)' = From(a, journal)
  BY <1>1 DEF From
<1>. QED
  BY <1>2, <1>3, <1>4 DEF OpenersOK

LEMMA OpenersStay ==
  ASSUME TypeOK, TickOK, OpenersOK, Next
  PROVE  OpenersOK'
<1>1. CASE Open
  BY <1>1, OpenOpeners
<1>2. CASE OpenerRecorded \/ OpenerFails \/ OpenerRefused
  BY <1>2, JournalOpeners
<1>3. CASE Restart
  BY <1>3, RestartOpeners
<1>4. CASE UNCHANGED openers /\ ~Open
  <2>1. Spending'
    BY <1>4, SpendingKept
  <2>2. /\ Known' /\ JournalFollows' /\ Spaced(opened)' /\ Spaced(journal)'
        /\ \A a \in Agent : /\ Cardinality(From(a, opened)') <= MaxOpeners
                            /\ Cardinality(From(a, journal)') <= MaxOpeners
    BY <1>4, OpenersKept
  <2>. QED
    BY <2>1, <2>2 DEF OpenersOK
<1>. QED
  BY <1>1, <1>2, <1>3, <1>4, Changes DEF OpenerStep

-----------------------------------------------------------------------------
(* The theorems.                                                           *)

LEMMA InitInv ==
  ASSUME Init
  PROVE  IInv
<1>1. TypeOK /\ TickOK /\ RepliesOK
  BY InitTyped
<1>2. Counted
  BY DEF Init, Counted
<1>3. OpenersOK
  <2>1. opened = {} /\ journal = {} /\ reserved = {} /\ tick.at = "idle"
    BY DEF Init, Idle
  <2>2. IsFiniteSet({}) /\ Cardinality({}) = 0
    BY FS_EmptySet
  <2>3. \A a : From(a, opened) = {} /\ From(a, journal) = {}
    BY <2>1 DEF From
  <2>4. MaxOpeners \in Nat
    BY WarmupAssumption
  <2>. QED
    BY <2>1, <2>2, <2>3, <2>4 DEF OpenersOK, Known, JournalFollows, Spending, Spaced
<1>4. RecordsOK
  <2>1. Len(<<>>) = 0
    OBVIOUS
  <2>. QED
    BY <2>1 DEF Init, RecordsOK, Leads
<1>. QED
  BY <1>1, <1>2, <1>3, <1>4 DEF IInv

LEMMA StutterInv ==
  ASSUME IInv, UNCHANGED vars
  PROVE  IInv'
<1>. USE DEF vars, agents, limits, checks, openers, dialogs, counts, bounds
<1>1. TypeOK'
  BY DEF IInv, TypeOK
<1>2. TickOK' /\ RepliesOK' /\ RecordsOK'
  BY DEF IInv, TickOK, TickBusy, RepliesOK, RecordsOK
<1>3. Counted'
  BY DEF IInv, Counted, Waiting
<1>4. OpenersOK'
  <2>1. Spending'
    BY DEF IInv, OpenersOK, Spending, MayOpen, Sent, Merged, From, TheOpener
  <2>. QED
    BY <2>1 DEF IInv, OpenersOK, Known, JournalFollows, Spaced, From
<1>. QED
  BY <1>1, <1>2, <1>3, <1>4 DEF IInv

LEMMA NextInv ==
  ASSUME IInv, Next
  PROVE  IInv'
<1>. USE DEF IInv
<1>1. TypeOK' /\ TickOK' /\ RepliesOK'
  BY TypeStays
<1>. QED
  BY <1>1, CountedStays, OpenersStay, RecordsStay

\* What every step of the warm-up keeps, from the state that the database gave.
LEMMA AlwaysSafe == Spec => []IInv
<1>1. Init => IInv
  BY InitInv
<1>2. IInv /\ [Next]_vars => IInv'
  BY StutterInv, NextInv
<1>. QED
  BY <1>1, <1>2, PTL DEF Spec

\* Every variable keeps its type, and a dialog spends no more messages than it was given:
\* the state of WarmupService and of its tracker, and the columns of database_warmup.py.
THEOREM TypeCorrect == Spec => []TypeOK
<1>1. IInv => TypeOK
  BY DEF IInv
<1>. QED
  BY <1>1, AlwaysSafe, PTL

\* For any number of agents, of replies that are written at the same time and of messages
\* that a turn sends: the turns that answer in a dialog, those of replies that an earlier
\* dialog of the two left behind aside, are fewer than dialog_length() drew. claim_reply()
\* spends the message before it is written; confirm_reply() does not ask for the dialog.
THEOREM TurnsKeepTheLength == Spec => []TurnsAreBounded
<1>1. IInv => TurnsAreBounded
  <2>. SUFFICES ASSUME IInv, NEW p \in Pair, dialog[p] # None
                PROVE  turns[p] < dialog[p].length + strays[p]
    BY DEF TurnsAreBounded
  <2>1. turns[p] + Cardinality(Waiting(p)) + 1 <= dialog[p].count + strays[p]
    BY DEF IInv, Counted
  <2>2. dialog[p].count <= dialog[p].length
    BY DEF IInv, TypeOK
  <2>3. Cardinality(Waiting(p)) \in Nat
    BY WaitingIsFinite
  <2>. QED
    BY <2>1, <2>2, <2>3, CountIsNat DEF IInv
<1>. QED
  BY <1>1, AlwaysSafe, PTL

\* sender_may_open() keeps an account's openers within MAX_OPENERS_PER_DAY and apart by
\* MIN_OPENER_INTERVAL, whichever of them the journal lost and whenever the process
\* restarted, although it is asked two times before the opener is taken into account.
THEOREM BudgetIsKept == Spec => []OpenersAreSpaced
<1>1. IInv => OpenersAreSpaced
  <2>. SUFFICES ASSUME IInv, NEW a \in Agent
                PROVE  /\ Cardinality(From(a, opened)) <= MaxOpeners
                       /\ \A o, p \in From(a, opened) : o # p => Distance(o.at, p.at) >= MinInterval
    BY DEF OpenersAreSpaced, From
  <2>1. OpenersOK
    BY DEF IInv
  <2>. QED
    BY <2>1 DEF OpenersOK, Spaced, From
<1>. QED
  BY <1>1, AlwaysSafe, PTL

\* The restriction that the database has is that of the runtime once its transitions are
\* written, whoever recorded them: the tick, a refused send or the user.
THEOREM RecordKeepsUp == Spec => []RecordFollowsMemory
<1>1. IInv => RecordFollowsMemory
  BY DEF IInv, RecordsOK, Leads, RecordFollowsMemory
<1>. QED
  BY <1>1, AlwaysSafe, PTL

=============================================================================
