---------------------------- MODULE StylusWallet ----------------------------
(***************************************************************************)
(* The Rust port of the wallet for Arbitrum Stylus, behind a proxy that a  *)
(* factory clones and initialises in one transaction. It keeps the array   *)
(* of commitments in order, swaps and pops, marks each nullifier before it *)
(* looks at the next proof, and answers a call to itself by its own table  *)
(* of functions. The Solidity contract's module, MultisigWallet, is what   *)
(* it must agree with ("Behaviour is kept byte-for-byte compatible").      *)
(*                                                                         *)
(* A function here returns the set of the storages it may leave: one, or   *)
(* none when it returns an error, which undoes everything.                 *)
(* Operators named ..._Bug are wrong variants; see WalletOps.              *)
(***************************************************************************)
EXTENDS WalletOps, SequencesExt

CONSTANTS
    InitialSigners, MaxProofs, MaxLeaves, MaxBalance  \* as in MultisigWallet

ASSUME InitialSignersType == InitialSigners \subseteq Seq(Commitment)
ASSUME BoundsType == MaxProofs \in Nat /\ MaxLeaves \in Nat /\ MaxBalance \in Nat

VARIABLES
    deployed,  \* the factory has made the proxy
    store,     \* the proxy's storage, and its balances
    leaves,    \* as in MultisigWallet
    events     \* the executed transactions, as in MultisigWallet

vars == <<deployed, store, leaves, events>>

StoreType ==
    [initialized : BOOLEAN, signatures_required : Nat, commitments : Seq(Commitment),
     used_nonces : SUBSET Nat, used_nullifiers : SUBSET Nullifiers,
     balance : [Asset -> Nat]]

FreshClone == [initialized |-> FALSE, signatures_required |-> 0, commitments |-> << >>,
               used_nonces |-> {}, used_nullifiers |-> {},
               balance |-> [a \in Asset |-> 0]]

Init ==
    /\ deployed = FALSE
    /\ store = FreshClone
    /\ leaves = {}
    /\ events = << >>

----------------------------------------------------------------------------

\* A loop over a list that returns at the first error: the storages left by one
\* turn for each entry, in the order of the list.
Loop(Turn(_, _), s, list) ==
    LET after[i \in 0 .. Len(list)] ==
            IF i = 0 THEN {s} ELSE UNION {Turn(t, list[i]) : t \in after[i - 1]}
    IN  after[Len(list)]

InitializeState(s, list, sigs) ==
    IF ~ s.initialized /\ sigs > 0 /\ Len(list) > 0 /\ sigs <= Len(list)
    THEN {[s EXCEPT !.signatures_required = sigs, !.commitments = @ \o list,
                    !.initialized = TRUE]}
    ELSE {}

\* The loop leaves the marks for later: breaks QuorumOfSigners.
CheckProof_Bug(s, tx, p) ==
    IF /\ p.nullifier \notin s.used_nullifiers
       /\ p.commitment \in ToSet(s.commitments)
       /\ VerifyProof(leaves, tx, p)
    THEN {s}
    ELSE {}

\* One turn of the loop over the proofs, and the loop.
CheckProof(s, tx, p) ==
    IF /\ p.nullifier \notin s.used_nullifiers
       /\ p.commitment \in ToSet(s.commitments)
       /\ VerifyProof(leaves, tx, p)
    THEN {[s EXCEPT !.used_nullifiers = @ \cup {p.nullifier}]}
    ELSE {}

CheckProofs(s, tx, proofs) ==
    Loop(LAMBDA t, p : CheckProof(t, tx, p), s, proofs)

\* Commitment i of the list is compared with those stored so far.
PushSigner(s, c) ==
    IF c \in ToSet(s.commitments) THEN {} ELSE {[s EXCEPT !.commitments = Append(@, c)]}

PushSigners(s, list) == Loop(PushSigner, s, list)

AddSignersInternal(s, list, newSig) ==
    IF Len(list) = 0 \/ newSig = 0 \/ newSig > Len(s.commitments) + Len(list)
    THEN {}
    ELSE {[t EXCEPT !.signatures_required = newSig] : t \in PushSigners(s, list)}

\* The swap is forgotten, the last entry goes instead: breaks MatchesSolidity.
SwapAndPop_Bug(s, c) ==
    IF c \in ToSet(s.commitments) THEN {[s EXCEPT !.commitments = Front(@)]} ELSE {}

\* The first entry equal to c is overwritten by the last one, which is dropped.
SwapAndPop(s, c) ==
    {[s EXCEPT !.commitments = Front([@ EXCEPT ![j] = Last(s.commitments)])] :
        j \in {i \in DOMAIN s.commitments :
                  /\ s.commitments[i] = c
                  /\ \A k \in 1 .. i - 1 : s.commitments[k] # c}}

PopSigners(s, list) == Loop(SwapAndPop, s, list)

RemoveSignersInternal(s, list, newSig) ==
    IF Len(list) = 0 \/ Len(s.commitments) <= Len(list) \/ newSig = 0
         \/ newSig > Len(s.commitments) - Len(list)
    THEN {}
    ELSE {[t EXCEPT !.signatures_required = newSig] : t \in PopSigners(s, list)}

UpdateSignaturesRequiredInternal(s, newSig) ==
    IF newSig = 0 \/ newSig > Len(s.commitments)
    THEN {}
    ELSE {[s EXCEPT !.signatures_required = newSig]}

\* One failing payment of a batch fails the call, so only the totals matter.
Pay(s, pay) == IF TransferAccepts(s, pay) THEN {Transfer(s, pay)} ELSE {}

\* updateSignaturesRequired is missing from the table: breaks SameButSelfTransfers.
DispatchCall_Bug(s, tx) ==
    CASE tx.kind = "addSigners"               -> AddSignersInternal(s, tx.list, tx.newSig)
      [] tx.kind = "removeSigners"            -> RemoveSignersInternal(s, tx.list, tx.newSig)
      [] tx.kind = "updateSignaturesRequired" -> {}
      [] tx.kind = "transfer"                 -> Pay(s, tx.pay)
      [] tx.kind = "selfTransfer"             -> {}

\* The table of self calls, and the calls to others. A call to the wallet itself
\* that carries a value, or has no data to select a function by, is refused.
DispatchCall(s, tx) ==
    CASE tx.kind = "addSigners"               -> AddSignersInternal(s, tx.list, tx.newSig)
      [] tx.kind = "removeSigners"            -> RemoveSignersInternal(s, tx.list, tx.newSig)
      [] tx.kind = "updateSignaturesRequired" ->
             UpdateSignaturesRequiredInternal(s, tx.newSig)
      [] tx.kind = "transfer"                 -> Pay(s, tx.pay)
      [] tx.kind = "selfTransfer"             -> {}

\* The storages that execute(tx, proofs) may leave.
Executed(s, tx, proofs) ==
    IF tx.nonce \in s.used_nonces \/ Len(proofs) < s.signatures_required
    THEN {}
    ELSE UNION {DispatchCall([t EXCEPT !.used_nonces = @ \cup {tx.nonce}], tx) :
                   t \in CheckProofs(s, tx, proofs)}

----------------------------------------------------------------------------

\* The proxy is made in one transaction and initialised in another: breaks
\* ThresholdReachable.
CreateWallet_Bug(list, sigs) ==
    /\ deployed' = TRUE
    /\ IF deployed THEN store' \in InitializeState(store, list, sigs) ELSE UNCHANGED store
    /\ UNCHANGED <<leaves, events>>

\* createWallet of the factory, or a later call of init by anyone.
CreateWallet(list, sigs) ==
    /\ store' \in InitializeState(store, list, sigs)
    /\ deployed' = TRUE
    /\ UNCHANGED <<leaves, events>>

Aggregate(c, tx) ==
    /\ deployed
    /\ Cardinality(leaves) < MaxLeaves
    /\ leaves' = leaves \cup
                   {[tx |-> tx, commitment |-> c, nullifier |-> Nullifier(c, tx)]}
    /\ UNCHANGED <<deployed, store, events>>

Execute(tx, proofs) ==
    /\ deployed
    /\ store' \in Executed(store, tx, proofs)
    /\ events' = Append(events, [tx |-> tx,
                                 approvers |-> {p.commitment : p \in ToSet(proofs)},
                                 required |-> store.signatures_required,
                                 signers |-> ToSet(store.commitments)])
    /\ UNCHANGED <<deployed, leaves>>

Deposit(a, amount) ==
    /\ deployed
    /\ store.balance[a] + amount <= MaxBalance
    /\ store' = [store EXCEPT !.balance[a] = @ + amount]
    /\ UNCHANGED <<deployed, leaves, events>>

\* The Solidity storage that a storage stands for.
SolidityOf(s) ==
    [signaturesRequired |-> s.signatures_required, length |-> Len(s.commitments),
     copies |-> [c \in Commitment |-> Occurrences(s.commitments, c)],
     usedNonces |-> s.used_nonces, usedNullifiers |-> s.used_nullifiers,
     balance |-> s.balance]

\* A clone is made without funds.
Solidity == INSTANCE MultisigWallet WITH
    wallet       <- SolidityOf(store),
    InitialFunds <- {FreshClone.balance}

TypeOK ==
    /\ deployed \in BOOLEAN
    /\ store \in StoreType
    /\ leaves \subseteq LeafType
    /\ events \in Seq(Solidity!EventType)

Next ==
    \/ \E list \in InitialSigners : \E sigs \in 0 .. Len(list) : CreateWallet(list, sigs)
    \/ \E c \in Commitment, tx \in Transactions : Aggregate(c, tx)
    \/ \E tx \in Transactions, proofs \in Solidity!ProofLists : Execute(tx, proofs)
    \/ \E a \in Asset, amount \in 1 .. MaxBalance : Deposit(a, amount)

Spec == Init /\ [][Next]_vars

----------------------------------------------------------------------------

\* Once the proxy can be called, its threshold is at least one and at most the
\* length of its array: it is never callable with the zero threshold of a clone
\* that init has not reached, under which execute() needs no proof.
ThresholdReachable ==
    deployed => /\ store.signatures_required >= 1
                /\ store.signatures_required <= Len(store.commitments)

\* In every reachable state the port accepts a call exactly when the Solidity
\* contract accepts it, for each call but one: a payment of the chain's coin to the
\* wallet's own address, which Solidity's receive() takes and the port refuses (against
\* the header of lib.rs, "Behaviour is kept byte-for-byte compatible"). For the others: a call that marks nullifiers one by one and is answered
\* from its own table neither succeeds nor fails where the original would not.
SameButSelfTransfers ==
    deployed => \A tx \in Transactions, proofs \in Solidity!ProofLists :
        (Executed(store, tx, proofs) # {})
            <=> /\ ExecuteSucceeds(SolidityOf(store), leaves, tx, proofs)
                /\ tx.kind # "selfTransfer"

\* Whatever the proxy was initialised with, repeated commitments included, it executes
\* only what its threshold of distinct signers, as they were then, approved: the marks
\* that the loop over the proofs makes one by one, in storage that a failing call
\* restores, keep each signer's approval from counting twice.
QuorumOfSigners == Solidity!QuorumOfSigners

\* The proxy comes into being as a constructed Solidity wallet, and from then on
\* each of its steps is a step of the Solidity contract; in particular it is never
\* initialised again.
MatchesSolidity ==
    [][IF deployed THEN Solidity!Next \/ UNCHANGED Solidity!vars ELSE Solidity!Init']_vars
=============================================================================
