----------------------------- MODULE MCVsamFile -----------------------------
(* Four positions, four keys and one repeated key with two values: a new       *)
(* record can come first, last or between, and a stack can have four records. *)
EXTENDS VsamFile, TLC

CONSTANTS v1, v2
MCValores == {v1, v2}
Simetria == Permutations(MCValores)
=============================================================================
