------------------------------- MODULE MCWarmup -------------------------------
(* The instance of Warmup that TLC checks.                                  *)
EXTENDS Warmup, TLC

CONSTANTS sender, other

\* The sender has two slots, the other agent one of a recovery, in which the sender may
\* help.
MCSlots == (sender :> {0, 2}) @@ (other :> {})
MCRecoverySlots == (sender :> {}) @@ (other :> {0})

\* The sender begins free, the other agent free or in recovery.
MCInit ==
  /\ Init
  /\ record[sender] = "free" /\ record[other] # "restricted"
  /\ refused \subseteq {sender}

MCSpec == MCInit /\ [][Next]_vars

Answers == {r \in Reply : reply[r].at # "none"}
Unrefused == reports = 0 /\ refused = {}

\* One behaviour has one of these stories. What happens to the other agent's account
\* happens to the sender's.
\* A whole day of openers and answers, in which the sender is free; what ends a runtime
\* or the process meets no answer.
Day ==
  /\ Unrefused /\ memory[sender] = "free" /\ record[sender] = "free" /\ diverged = {}
  /\ \A a \in Agent : writes[a] = <<>>
  /\ interventions = 0 \/ Answers = {}

\* The day's first slot, with an answer, an intervention and transitions.
Morning == now <= 1 /\ Unrefused /\ Cardinality(Answers) <= 1

\* Refusals from outside the warm-up, suspicions before the first opener.
Refusals == now <= 1 /\ inbox = {} /\ interventions = 0 /\ (reserved = {} \/ refused = {})

OneStory ==
  /\ suspect[other] = 0
  /\ \A i \in DOMAIN writes[other] : writes[other][i].event # "restricted"
  /\ Day \/ Morning \/ Refusals

Symmetric == Permutations(Reply)
=============================================================================
