---------------------------- MODULE MCSendWindow ----------------------------
(* The instance of SendWindow that TLC checks. *)
EXTENDS SendWindow, TLC

Symmetry == Permutations(Task)

\* A comment shares with the rest of the chat only what a join forgets: it is made,
\* and its refusal remembered, while nothing is cached and no other call is under way.
CommentsAlone ==
  (refused["comment"] > 0 \/ \E t \in Task : task[t].op = "comment") =>
    /\ \A t \in Task : task[t].op \in {"none", "comment"}
    /\ base.ttl = 0 /\ blocked = 0 /\ forced = 0 /\ refused["message"] = 0

\* One excuse of SlowModeIsForeseen is as good as two.
OneExcuse == ~blind \/ ~flooded
=============================================================================
