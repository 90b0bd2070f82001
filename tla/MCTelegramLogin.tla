--------------------------- MODULE MCTelegramLogin ---------------------------
(* The instance of TelegramLogin that TLC checks. *)
EXTENDS TelegramLogin, TLC

Symmetry == Permutations(Request) \cup Permutations(Phone) \cup Permutations(Key)
=============================================================================
