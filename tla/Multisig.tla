------------------------------ MODULE Multisig ------------------------------
(***************************************************************************)
(* What a multisig wallet promises, without proofs, nullifiers or storage: *)
(* a set of signers, a threshold, the approvals people have given and the  *)
(* ledger of decided transactions. A transaction is decided by at least    *)
(* `required' current signers who approved it, for each nonce once, and a  *)
(* governance transaction then changes signers and threshold so that the   *)
(* signers can still reach the threshold.                                  *)
(***************************************************************************)
EXTENDS Integers, Sequences, FiniteSets, Functions

CONSTANTS Commitment, Transactions

VARIABLES signers, required, approvals, ledger

vars == <<signers, required, approvals, ledger>>

Reachable(people, quorum) == quorum \in 1 .. Cardinality(people)

Init ==
    /\ signers \subseteq Commitment
    /\ Reachable(signers, required)
    /\ approvals = {}
    /\ ledger = << >>

Approve(c, tx) ==
    /\ approvals' = approvals \cup {<<c, tx>>}
    /\ UNCHANGED <<signers, required, ledger>>

SignersAfter(tx) ==
    CASE tx.kind = "addSigners"    -> signers \cup Range(tx.list)
      [] tx.kind = "removeSigners" -> signers \ Range(tx.list)
      [] OTHER                     -> signers

Decide(tx, quorum) ==
    /\ \A i \in DOMAIN ledger : ledger[i].nonce # tx.nonce
    /\ quorum \subseteq signers
    /\ \A c \in quorum : <<c, tx>> \in approvals
    /\ Cardinality(quorum) >= required
    /\ signers' = SignersAfter(tx)
    /\ required' = IF tx.kind \in {"transfer", "selfTransfer"} THEN required ELSE tx.newSig
    /\ Reachable(signers', required')
    /\ ledger' = Append(ledger, tx)
    /\ UNCHANGED approvals

Next ==
    \/ \E c \in Commitment, tx \in Transactions : Approve(c, tx)
    \/ \E tx \in Transactions, quorum \in SUBSET Commitment : Decide(tx, quorum)

Spec == Init /\ [][Next]_vars
=============================================================================
