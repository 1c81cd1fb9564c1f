-------------------------- MODULE MCMultisigWallet --------------------------
(* Instances of MultisigWallet for TLC: three people, five transactions on *)
(* two nonces that compete for them and one more nonce.                    *)
EXTENDS MultisigWallet

CONSTANTS alice, bob, carol, eth

MCCommitment == {alice, bob, carol}
MCAsset == {eth}

Tx(nonce, kind, list, newSig, amount) ==
    [nonce |-> nonce, kind |-> kind, list |-> list, newSig |-> newSig,
     pay |-> [a \in MCAsset |-> amount]]

MCTransactions ==
    {Tx(0, "addSigners", <<carol>>, 2, 0),
     Tx(0, "transfer", << >>, 0, 2),
     Tx(2, "selfTransfer", << >>, 0, 2),
     Tx(1, "removeSigners", <<alice>>, 1, 0),
     Tx(1, "updateSignaturesRequired", << >>, 1, 0),
     Tx(2, "removeSigners", <<bob, alice>>, 1, 0)}

MCFunds == {[a \in MCAsset |-> 1]}

\* The constructor also accepts repeated commitments.
MCDistinct == {<<alice>>, <<alice, bob>>, <<alice, carol>>}
=============================================================================
