----------------------------- MODULE WalletOps -----------------------------
(***************************************************************************)
(* The storage of MetaMultiSigWallet.sol and what its functions do to it,  *)
(* as operators on a wallet value, so that the contract's own module and   *)
(* the backend's module share one definition of the contract.              *)
(*                                                                         *)
(* A wallet is a record: the threshold signaturesRequired, the array       *)
(* `commitments' (its length and, for each commitment, the number of its   *)
(* entries: nothing depends on the order that swap-and-pop disturbs), the  *)
(* two replay maps and the balance of each asset the wallet holds.         *)
(*                                                                         *)
(* Hashes are collision free: a transaction hash is the transaction, and   *)
(* the circuit's nullifier H(secret, txHash) is the pair of the signer's   *)
(* commitment and the transaction.                                         *)
(*                                                                         *)
(* An operator named ..._Bug is a deliberately wrong variant of the one    *)
(* after it; put in its place, it must break the property that the comment *)
(* names. Nothing else uses these variants.                                *)
(***************************************************************************)
EXTENDS Integers, Sequences, FiniteSets, Functions

CONSTANTS
    Commitment,     \* signer commitments; zero, which every function rejects, is not one
    Asset,          \* the native coin and the tokens a wallet can hold
    Transactions    \* the (nonce, to, value, data) tuples execute() is called with

\* The calls that change the signers or the threshold; newSig is theirs.
GovernanceKinds == {"addSigners", "removeSigners", "updateSignaturesRequired"}

\* "transfer" stands for each call that only pays others (a plain value call, a
\* token transfer, batchTransfer and batchTransferMulti); pay[a] is its total in a.
\* "selfTransfer" is a plain value call, without data, to the wallet's own address.
Kinds == GovernanceKinds \cup {"transfer", "selfTransfer"}

TxType == [nonce : Nat, kind : Kinds, list : Seq(Commitment), newSig : Nat,
           pay : [Asset -> Nat]]

ASSUME TransactionsType == Transactions \subseteq TxType

Nullifiers == Commitment \X Transactions

\* Public inputs of the circuit: the signer's commitment and its nullifier for tx.
Nullifier(c, tx) == <<c, tx>>

WalletType ==
    [signaturesRequired : Nat, length : Nat, copies : [Commitment -> Nat],
     usedNonces : SUBSET Nat, usedNullifiers : SUBSET Nullifiers,
     balance : [Asset -> Nat]]

LeafType == [tx : Transactions, commitment : Commitment, nullifier : Nullifiers]

ZkProof == [commitment : Commitment, nullifier : Nullifiers]

Occurrences(list, c) == Cardinality({i \in DOMAIN list : list[i] = c})

\* The distinct commitments of the array.
Signers(w) == {c \in Commitment : w.copies[c] > 0}

----------------------------------------------------------------------------
(* The constructor: it bounds the threshold by the length of the list and  *)
(* does not look for duplicates in it.                                     *)

\* No upper bound on the threshold: breaks ThresholdBounded.
ConstructorAccepts_Bug(list, sigs) == sigs > 0 /\ Len(list) > 0

ConstructorAccepts(list, sigs) ==
    /\ sigs > 0
    /\ Len(list) > 0
    /\ sigs <= Len(list)

Constructed(list, sigs, funds) ==
    [signaturesRequired |-> sigs, length |-> Len(list),
     copies |-> [c \in Commitment |-> Occurrences(list, c)],
     usedNonces |-> {}, usedNullifiers |-> {}, balance |-> funds]

----------------------------------------------------------------------------
(* execute(): the checks made on each proof, in the order of the array.    *)

\* The loop over the commitments is left out: breaks GovernedByOldQuorum.
IsCurrentSigner_Bug(w, c) == TRUE

IsCurrentSigner(w, c) == w.copies[c] > 0

\* The nullifiers are marked only after the loop over the proofs: breaks
\* QuorumOfSigners.
NullifierUnused_Bug(w, proofs, i) == proofs[i].nullifier \notin w.usedNullifiers

\* Proof i finds its nullifier unspent, by earlier transactions and by the
\* proofs before it in the same call.
NullifierUnused(w, proofs, i) ==
    /\ proofs[i].nullifier \notin w.usedNullifiers
    /\ \A j \in 1 .. i - 1 : proofs[j].nullifier # proofs[i].nullifier

\* The leaf is not bound to the executed transaction: breaks ImplementsMultisig.
VerifyProof_Bug(leaves, tx, p) ==
    \E l \in leaves : l.commitment = p.commitment /\ l.nullifier = p.nullifier

\* The leaf is computed from the executed transaction, so a proof made for
\* another transaction gives a leaf that was never aggregated.
VerifyProof(leaves, tx, p) ==
    [tx |-> tx, commitment |-> p.commitment, nullifier |-> p.nullifier] \in leaves

ProofsAccepted(w, leaves, tx, proofs) ==
    \A i \in DOMAIN proofs :
        /\ NullifierUnused(w, proofs, i)
        /\ IsCurrentSigner(w, proofs[i].commitment)
        /\ VerifyProof(leaves, tx, proofs[i])

\* The replay map of nonces is not read: breaks NonceExecutedOnce.
NonceUnused_Bug(w, tx) == TRUE

NonceUnused(w, tx) == tx.nonce \notin w.usedNonces

EnoughProofs(w, proofs) == Len(proofs) >= w.signaturesRequired

\* The nullifiers are not recorded: breaks NullifiersSpentByTheirTx.
MarkSpent_Bug(w, tx, proofs) == [w EXCEPT !.usedNonces = @ \cup {tx.nonce}]

\* Neither map is written: breaks SucceedsOnce.
MarkSpent_Bug2(w, tx, proofs) == w

MarkSpent(w, tx, proofs) ==
    [w EXCEPT !.usedNonces = @ \cup {tx.nonce},
              !.usedNullifiers = @ \cup {proofs[i].nullifier : i \in DOMAIN proofs}]

----------------------------------------------------------------------------
(* The functions that only the wallet itself may call, and payments.       *)

\* The list is compared with itself and not with the array: breaks
\* RepetitionsNeverGrow.
AddSignersAccepts_Bug(w, list, newSig) ==
    /\ Len(list) > 0
    /\ newSig > 0
    /\ newSig <= w.length + Len(list)
    /\ IsInjective(list)

AddSignersAccepts(w, list, newSig) ==
    /\ Len(list) > 0
    /\ newSig > 0
    /\ newSig <= w.length + Len(list)
    /\ IsInjective(list)
    /\ \A i \in DOMAIN list : w.copies[list[i]] = 0

AddSigners(w, list, newSig) ==
    [w EXCEPT !.copies = [c \in Commitment |->
                              IF c \in Range(list) THEN w.copies[c] + 1 ELSE w.copies[c]],
              !.length = @ + Len(list),
              !.signaturesRequired = newSig]

\* No bounds on the remaining length: breaks Operable.
RemoveSignersAccepts_Bug(w, list, newSig) ==
    /\ Len(list) > 0 /\ newSig > 0
    /\ \A c \in Commitment : Occurrences(list, c) <= w.copies[c]

RemoveSignersAccepts(w, list, newSig) ==
    /\ Len(list) > 0
    /\ w.length > Len(list)
    /\ newSig > 0
    /\ newSig <= w.length - Len(list)
    /\ \A c \in Commitment : Occurrences(list, c) <= w.copies[c]

RemoveSigners(w, list, newSig) ==
    [w EXCEPT !.copies = [c \in Commitment |-> w.copies[c] - Occurrences(list, c)],
              !.length = @ - Len(list),
              !.signaturesRequired = newSig]

UpdateSignaturesRequiredAccepts(w, newSig) ==
    /\ newSig > 0
    /\ newSig <= w.length

UpdateSignaturesRequired(w, newSig) == [w EXCEPT !.signaturesRequired = newSig]

\* A payment that fails is ignored: breaks TypeOK, a balance goes below zero.
TransferAccepts_Bug(w, pay) == TRUE

\* One failing payment reverts the whole call, so only the totals matter.
TransferAccepts(w, pay) == \A a \in Asset : pay[a] <= w.balance[a]

\* Each payment is made twice: breaks FundsLeaveByApprovedTransfer.
Transfer_Bug(w, pay) == [w EXCEPT !.balance = [a \in Asset |-> w.balance[a] - 2 * pay[a]]]

Transfer(w, pay) == [w EXCEPT !.balance = [a \in Asset |-> w.balance[a] - pay[a]]]

CallSucceeds(w, tx) ==
    \/ tx.kind = "addSigners" /\ AddSignersAccepts(w, tx.list, tx.newSig)
    \/ tx.kind = "removeSigners" /\ RemoveSignersAccepts(w, tx.list, tx.newSig)
    \/ tx.kind = "updateSignaturesRequired" /\ UpdateSignaturesRequiredAccepts(w, tx.newSig)
    \/ tx.kind \in {"transfer", "selfTransfer"} /\ TransferAccepts(w, tx.pay)

\* What the wallet pays to itself, receive() puts back.
AfterCall(w, tx) ==
    CASE tx.kind = "addSigners"               -> AddSigners(w, tx.list, tx.newSig)
      [] tx.kind = "removeSigners"            -> RemoveSigners(w, tx.list, tx.newSig)
      [] tx.kind = "updateSignaturesRequired" -> UpdateSignaturesRequired(w, tx.newSig)
      [] tx.kind = "transfer"                 -> Transfer(w, tx.pay)
      [] tx.kind = "selfTransfer"             -> w

----------------------------------------------------------------------------
(* execute() as a whole. When any requirement fails the call reverts and   *)
(* the wallet is as before, so a failing call is a step that changes       *)
(* nothing.                                                                *)

ExecuteSucceeds(w, leaves, tx, proofs) ==
    /\ NonceUnused(w, tx)
    /\ EnoughProofs(w, proofs)
    /\ ProofsAccepted(w, leaves, tx, proofs)
    /\ CallSucceeds(w, tx)

AfterExecute(w, tx, proofs) == AfterCall(MarkSpent(w, tx, proofs), tx)

Receive(w, a, amount) == [w EXCEPT !.balance[a] = @ + amount]
=============================================================================
