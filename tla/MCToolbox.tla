----------------------------- MODULE MCToolbox -----------------------------
(* The instance of Toolbox that TLC checks: a private dialog, a channel and *)
(* its discussion group, and the bot.                                       *)
EXTENDS Toolbox, TLC

CONSTANTS anna, news, talk

MCLinked == [g \in Group |-> news]
MCHome == [k \in Number |-> anna]
Symmetry == Permutations(Call)
=============================================================================
