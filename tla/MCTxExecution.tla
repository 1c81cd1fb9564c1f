---------------------------- MODULE MCTxExecution ----------------------------
(* Instances of TxExecution for TLC. *)
EXTENDS TxExecution

CONSTANTS alice, bob, carol, eth, t1, t2, c1, c2, w, horizen, base

MCCommitment == {alice, bob, carol}
MCAsset == {eth}
MCTx == {t1, t2}

OnHorizen == [address |-> w, chain |-> horizen]
OnBase == [address |-> w, chain |-> base]

CallData(nonce, kind, list, newSig, amount) ==
    [nonce |-> nonce, kind |-> kind, list |-> list, newSig |-> newSig,
     pay |-> [a \in MCAsset |-> amount]]

Pay == CallData(0, "transfer", << >>, 0, 1)
AddCarol == CallData(1, "addSigners", <<carol>>, 1, 0)
RemoveBob == CallData(0, "removeSigners", <<bob>>, 1, 0)

MCTransactions == {Pay, AddCarol, RemoveBob}

WalletOf(list, sigs) == Constructed(list, sigs, [a \in MCAsset |-> 2])

\* One account and one payment.
OneAccount == {OnHorizen}
OneAccountOf == (t1 :> OnHorizen)
PayOnly == (t1 :> Pay)
TwoOfThree == (OnHorizen :> WalletOf(<<alice, bob, carol>>, 2))
OneOfOne == (OnHorizen :> WalletOf(<<alice>>, 1))

\* One account, two governance transactions that commute.
BothOf == (t1 :> OnHorizen) @@ (t2 :> OnHorizen)
RemoveAndAdd == (t1 :> RemoveBob) @@ (t2 :> AddCarol)
OneOfTwo == (OnHorizen :> WalletOf(<<alice, bob>>, 1))

\* One address on two chains.
TwoAccounts == {OnHorizen, OnBase}
EachOf == (t1 :> OnHorizen) @@ (t2 :> OnBase)
RemoveAndPay == (t1 :> RemoveBob) @@ (t2 :> Pay)
OneOfTwoEach == [a \in TwoAccounts |-> WalletOf(<<alice, bob>>, 1)]
=============================================================================
