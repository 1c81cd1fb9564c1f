--------------------------- MODULE MultisigWallet ---------------------------
(***************************************************************************)
(* One deployed MetaMultiSigWallet and the zkVerify aggregation contract   *)
(* it consults. Anyone who holds a secret, signer or not, may have a proof *)
(* for any transaction aggregated; anyone may call execute() with any list *)
(* of proofs; anyone may pay the wallet. A call that reverts changes       *)
(* nothing and is a stuttering step.                                       *)
(*                                                                         *)
(* `events' is the log of TransactionExecuted events, each with the        *)
(* commitments whose proofs were accepted and with the threshold and the   *)
(* signers that were in force when the call was made.                      *)
(***************************************************************************)
EXTENDS WalletOps

CONSTANTS
    InitialSigners,  \* the lists of commitments wallets are deployed with
    InitialFunds,    \* the balances a wallet may have when it is deployed
    MaxProofs,       \* bound: the longest list of proofs passed to execute()
    MaxLeaves,       \* bound: the most proofs ever aggregated
    MaxBalance       \* bound: no deposit raises a balance above it

ASSUME InitialSignersType == InitialSigners \subseteq Seq(Commitment)
ASSUME InitialFundsType == InitialFunds \subseteq [Asset -> Nat]
ASSUME BoundsType == MaxProofs \in Nat /\ MaxLeaves \in Nat /\ MaxBalance \in Nat

VARIABLES
    wallet,   \* the contract's storage
    leaves,   \* the leaves zkVerify has aggregated and relayed to this chain
    events    \* the TransactionExecuted events, oldest first

vars == <<wallet, leaves, events>>

EventType == [tx : Transactions, approvers : SUBSET Commitment,
              required : Nat, signers : SUBSET Commitment]

TypeOK ==
    /\ wallet \in WalletType
    /\ leaves \subseteq LeafType
    /\ events \in Seq(EventType)

Init ==
    /\ \E list \in InitialSigners, funds \in InitialFunds :
          \E sigs \in 0 .. Len(list) + 1 :
              /\ ConstructorAccepts(list, sigs)
              /\ wallet = Constructed(list, sigs, funds)
    /\ leaves = {}
    /\ events = << >>

\* The circuit proves only the pair of a commitment and its own nullifier.
Aggregate(c, tx) ==
    /\ Cardinality(leaves) < MaxLeaves
    /\ leaves' = leaves \cup
                   {[tx |-> tx, commitment |-> c, nullifier |-> Nullifier(c, tx)]}
    /\ UNCHANGED <<wallet, events>>

ApproversOf(proofs) == {proofs[i].commitment : i \in DOMAIN proofs}

Execute(tx, proofs) ==
    /\ ExecuteSucceeds(wallet, leaves, tx, proofs)
    /\ wallet' = AfterExecute(wallet, tx, proofs)
    /\ events' = Append(events, [tx |-> tx, approvers |-> ApproversOf(proofs),
                                 required |-> wallet.signaturesRequired,
                                 signers |-> Signers(wallet)])
    /\ UNCHANGED leaves

Deposit(a, amount) ==
    /\ wallet.balance[a] + amount <= MaxBalance
    /\ wallet' = Receive(wallet, a, amount)
    /\ UNCHANGED <<leaves, events>>

\* A caller can only present proofs that exist; a list longer than the bound
\* is not tried.
ProofLists ==
    LET known == {[commitment |-> l.commitment, nullifier |-> l.nullifier] : l \in leaves}
    IN  UNION {[1 .. n -> known] : n \in 0 .. MaxProofs}

Next ==
    \/ \E c \in Commitment, tx \in Transactions : Aggregate(c, tx)
    \/ \E tx \in Transactions, proofs \in ProofLists : Execute(tx, proofs)
    \/ \E a \in Asset, amount \in 1 .. MaxBalance : Deposit(a, amount)

Spec == Init /\ [][Next]_vars

----------------------------------------------------------------------------

\* The threshold is never zero and never above the length of the array,
\* whatever sequence of additions, removals and updates is executed: the two
\* requirements every governance function repeats (lines 57, 59, 117-118,
\* 143-144 and 164-165 of the contract) compose.
ThresholdBounded ==
    /\ wallet.signaturesRequired >= 1
    /\ wallet.signaturesRequired <= wallet.length

\* Every executed transaction was approved, by proofs made for that very
\* transaction, by at least as many distinct commitments as the threshold in
\* force at the call, each of them a signer at the call: a repeated proof, a
\* proof for another transaction and a removed signer never count.
QuorumOfSigners ==
    \A i \in DOMAIN events :
        LET e == events[i]
        IN  /\ e.approvers \subseteq e.signers
            /\ Cardinality(e.approvers) >= e.required
            /\ \A c \in e.approvers :
                   [tx |-> e.tx, commitment |-> c, nullifier |-> Nullifier(c, e.tx)] \in leaves

\* No nonce is executed twice, so of the transactions approved for one nonce
\* at most one takes effect, once.
NonceExecutedOnce ==
    \A i, j \in DOMAIN events : events[i].tx.nonce = events[j].tx.nonce => i = j

\* A nullifier is spent exactly when the transaction it was made for has been
\* executed with it: an approval of a transaction that is still waiting is
\* never consumed by the execution of another one.
NullifiersSpentByTheirTx ==
    wallet.usedNullifiers =
        UNION {{Nullifier(c, events[i].tx) : c \in events[i].approvers} : i \in DOMAIN events}

\* No duplicate entry appears after deployment: addSigners rejects a commitment
\* that is present, so a wallet deployed without duplicates stays operable, the
\* threshold being within the number of people who can approve.
Operable == wallet.signaturesRequired <= Cardinality(Signers(wallet))

\* The leaves come from the circuit, and the replay map is the log of executed
\* nonces; with these two facts the invariants above are inductive.
CircuitSound == \A l \in leaves : l.nullifier = Nullifier(l.commitment, l.tx)

NoncesLogged == wallet.usedNonces = {events[i].tx.nonce : i \in DOMAIN events}

IInv ==
    /\ TypeOK
    /\ ThresholdBounded
    /\ CircuitSound
    /\ NoncesLogged
    /\ NonceExecutedOnce
    /\ QuorumOfSigners
    /\ NullifiersSpentByTheirTx

\* A step that changes the signers or the threshold executes a governance
\* transaction, and the quorum it met is the one in force before the change: no
\* call lowers the bar it is itself judged by.
GovernedByOldQuorum ==
    [][(wallet'.copies # wallet.copies
            \/ wallet'.signaturesRequired # wallet.signaturesRequired)
        => /\ Len(events') = Len(events) + 1
           /\ LET e == events'[Len(events')]
              IN  /\ e.tx.kind \in GovernanceKinds
                  /\ Cardinality(e.approvers) >= wallet.signaturesRequired
                  /\ \A c \in e.approvers : wallet.copies[c] > 0]_vars

\* The entries of the array beyond one for each person: with them the bounds on
\* the length leave a threshold that people cannot reach.
Repetitions(w) == w.length - Cardinality(Signers(w))

\* Only a deployment repeats a commitment. A governance call, whatever the array
\* has come to be, leaves at most as many repeated entries as it found: additions
\* are compared with the array and with each other, and a removal takes one entry
\* of the array for each entry of its list.
RepetitionsNeverGrow == [][Repetitions(wallet') <= Repetitions(wallet)]_vars

\* The wallet pays out only by executing an approved transfer, and then each
\* asset falls by exactly the total of that transfer.
FundsLeaveByApprovedTransfer ==
    [][\A a \in Asset : wallet'.balance[a] < wallet.balance[a]
        => /\ Len(events') = Len(events) + 1
           /\ LET tx == events'[Len(events')].tx
              IN  tx.kind = "transfer" /\ wallet.balance[a] - wallet'.balance[a] = tx.pay[a]]_vars

----------------------------------------------------------------------------

\* The wallet as the abstract multisig.
Abstract == INSTANCE Multisig WITH
    signers   <- Signers(wallet),
    required  <- wallet.signaturesRequired,
    approvals <- {<<l.commitment, l.tx>> : l \in leaves},
    ledger    <- [i \in DOMAIN events |-> events[i].tx]

\* The contract, deployed with distinct signers, implements the abstract
\* multisig: every step of execute(), with its proofs, nullifiers and replay
\* maps, is one decision by a quorum of current signers.
ImplementsMultisig == Abstract!Spec
=============================================================================
