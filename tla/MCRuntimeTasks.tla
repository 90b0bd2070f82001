--------------------------- MODULE MCRuntimeTasks ---------------------------
(* The instance of RuntimeTasks that TLC checks.                            *)
EXTENDS RuntimeTasks, TLC

\* Timers and posts meet only in the turn lock and in starts and stops: a
\* behaviour has new ones of one kind.
MCInit ==
  /\ Init
  /\ \/ \A m \in Timer : row[m] = "failed"
     \/ \A u \in Element : update[u] = "done"

MCSpec == MCInit /\ [][Next]_vars /\ Fairness
=============================================================================
