------------------------- MODULE MCTelegramDispatch -------------------------
(* Instances of TelegramDispatch for TLC.                                  *)
EXTENDS TelegramDispatch, TLC

CONSTANTS s1, s2

OneStep == {s1}
TwoSteps == {s1, s2}
Symmetry == Permutations(TwoSteps)
=============================================================================
