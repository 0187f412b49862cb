----------------------------- MODULE MCTurnEnd -----------------------------
(* Small instances of TurnEnd for TLC. *)
EXTENDS TurnEnd, TLC

\* Status requests may fail; nothing but direct sends starts turns.
NoExternalTurns == {"unreachable", "sweep"}
EveryOp == AllOps
EveryOutcome == AllOutcomes

Symmetry == Permutations(Sends)
=============================================================================
