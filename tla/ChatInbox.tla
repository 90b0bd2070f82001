------------------------------ MODULE ChatInbox ------------------------------
(***************************************************************************)
(* What the runtime promises of the messages of a chat, with no tasks,     *)
(* locks or clocks in it: a message that was received waits to be handled  *)
(* or is deferred, any number of times; it goes into one turn at most,     *)
(* and what was in a turn is done with.  The turns of the chat do not      *)
(* overlap and begin only while the agent runs, and no more than Limit     *)
(* messages are deferred.                                                  *)
(***************************************************************************)
EXTENDS Naturals, FiniteSets

CONSTANTS Msg, Limit

VARIABLES
  received,     \* the messages that wait to be handled
  deferred,     \* the messages that wait for the chat to open
  inTurn,       \* a turn of the chat is under way
  answering,    \* its messages; it may have none, being about messages that were lost
  running       \* the agent runs

inboxState == <<received, deferred, inTurn, answering, running>>

Init ==
  /\ received = {} /\ deferred = {}
  /\ inTurn = FALSE /\ answering = {}
  /\ running = FALSE

Receive(m) ==
  /\ m \notin received \cup deferred \cup answering
  /\ received' = received \cup {m}
  /\ UNCHANGED <<deferred, inTurn, answering, running>>

\* Messages are put off; if there are too many, some are given up.
Defer(batch) ==
  /\ batch \subseteq received
  /\ received' = received \ batch
  /\ deferred' \subseteq deferred \cup batch
  /\ Cardinality(deferred') <= Limit
  /\ UNCHANGED <<inTurn, answering, running>>

\* The deferred messages are taken up together; some may be too old.
Flush ==
  /\ received' \subseteq received \cup deferred
  /\ received \subseteq received'
  /\ deferred' = {}
  /\ UNCHANGED <<inTurn, answering, running>>

Answer(batch) ==
  /\ running
  /\ ~inTurn
  /\ batch \subseteq received
  /\ received' = received \ batch
  /\ inTurn' = TRUE
  /\ answering' = batch
  /\ UNCHANGED <<deferred, running>>

\* Messages that nobody answers, for a reason that the code logs.
Drop(batch) ==
  /\ batch \subseteq received
  /\ received' = received \ batch
  /\ UNCHANGED <<deferred, inTurn, answering, running>>

\* A turn ends, with all of its messages.
Answered ==
  /\ inTurn' = FALSE
  /\ answering' = {}
  /\ UNCHANGED <<received, deferred, running>>

\* The agent is started or stopped, which may cost what is deferred.
StartOrStop ==
  /\ deferred' \in {deferred, {}}
  /\ UNCHANGED <<received, inTurn, answering>>

Next ==
  \/ \E m \in Msg : Receive(m)
  \/ \E batch \in SUBSET Msg : Defer(batch) \/ Answer(batch) \/ Drop(batch)
  \/ Flush \/ Answered \/ StartOrStop

Spec == Init /\ [][Next]_inboxState
=============================================================================
