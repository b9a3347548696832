---------------------------- MODULE MCBackfillAll -----------------------------
(* Instances of BackfillAll for TLC. *)
EXTENDS BackfillAll

CONSTANTS p1, p2, r1
MCParts == {p1, p2}

\* Two SGS windows, two CVM months, one Yahoo symbol.
MCChunks == [p \in Loaders |-> IF p \in Resuming THEN 2 ELSE 1]

\* One SGS series ends before the second window.
MCMissing == {[loader |-> "bcb", range |-> r1, chunk |-> 2, part |-> p2]}

MCCommands == {Order}
===============================================================================
