---------------------------- MODULE MCTxCreation ----------------------------
(* Instances of TxCreation for TLC: clients and items are interchangeable. *)
EXTENDS TxCreation, TLC

CONSTANTS x1, x2, i1, i2

MCClient == {x1, x2}
MCItem == {i1, i2}

Symmetry == Permutations(MCClient) \cup Permutations(MCItem)
=============================================================================
