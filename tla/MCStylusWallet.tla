--------------------------- MODULE MCStylusWallet ---------------------------
(* Instances of StylusWallet for TLC: an addition, a removal of two, a     *)
(* change of the threshold, a payment and a payment to the wallet itself,  *)
(* on three nonces.                                                        *)
EXTENDS StylusWallet

CONSTANTS alice, bob, carol, eth

MCCommitment == {alice, bob, carol}
MCAsset == {eth}

Tx(nonce, kind, list, newSig, amount) ==
    [nonce |-> nonce, kind |-> kind, list |-> list, newSig |-> newSig,
     pay |-> [a \in MCAsset |-> amount]]

MCTransactions ==
    {Tx(0, "addSigners", <<carol>>, 2, 0),
     Tx(0, "addSigners", <<carol, carol>>, 1, 0),
     Tx(1, "removeSigners", <<bob, alice>>, 1, 0),
     Tx(1, "updateSignaturesRequired", << >>, 1, 0),
     Tx(2, "removeSigners", <<alice>>, 2, 0),
     Tx(2, "transfer", << >>, 0, 1),
     Tx(2, "selfTransfer", << >>, 0, 1)}

\* The second repeats a commitment, which init accepts.
MCInitialSigners == {<<alice, bob>>, <<alice, bob, alice>>}
=============================================================================
