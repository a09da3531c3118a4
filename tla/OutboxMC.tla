------------------------------ MODULE OutboxMC ------------------------------
(* Instances of Outbox small enough for TLC.                               *)
EXTENDS Outbox, TLC

\* Workers are interchangeable, and so are rows with the same kind of handler.
OutboxSymmetry ==
  Permutations(Workers) \union Permutations(InlineRows) \union Permutations(Rows \ InlineRows)

=============================================================================
