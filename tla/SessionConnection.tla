-------------------------- MODULE SessionConnection --------------------------
(***************************************************************************)
(* What the agent's lifecycle promises Telegram, with no runtimes, locks   *)
(* or tasks in it: the session of an agent has one connection at most, and *)
(* after one was told to close there is no new one until it is closed.     *)
(***************************************************************************)
CONSTANTS Client, NoClient

VARIABLES
  holder,       \* the client that has the connection, NoClient if there is none
  closing       \* that client was told to disconnect and has not yet done so

sessionVars == <<holder, closing>>

Init == holder = NoClient /\ closing = FALSE

\* A client connects only when nobody holds or is still closing a connection.
Open(c) ==
  /\ holder = NoClient
  /\ holder' = c
  /\ closing' = FALSE

\* The holder starts (or repeats) its disconnect; a client that failed to
\* connect at all may do so as well.
StartClosing(c) ==
  /\ holder \in {c, NoClient}
  /\ holder' = c
  /\ closing' = TRUE

\* The disconnect of the holder finished.
Closed ==
  /\ closing
  /\ holder' = NoClient
  /\ closing' = FALSE

Next == Closed \/ \E c \in Client : Open(c) \/ StartClosing(c)

Spec == Init /\ [][Next]_sessionVars
=============================================================================
