--------------------------- MODULE MCAgentManager ---------------------------
(* The instances of AgentManager that TLC checks. *)
EXTENDS AgentManager, TLC

RuntimeSymmetry == Permutations(Runtime)

\* A rebind may come at any time; while it is at work, or a runtime that was built
\* before it is left, only triggers, removals and further rebinds come.
RebindIsAlone ==
  (job.op = "rebind" \/ \E r \in Runtime : ~Garbage(r) /\ ~current[r]) =>
    job.op \in {"none", "rebind", "trigger", "remove"}

\* The warm-up task and a turn find a dead session, or a dropped runtime, on their
\* own: at most one of them is at work.
OneWorker == warmup # NoWork => \A r \in Runtime : Idle(r)
=============================================================================
