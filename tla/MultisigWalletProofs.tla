------------------------ MODULE MultisigWalletProofs ------------------------
(* Machine-checked proofs about MultisigWallet, for every set of people,   *)
(* assets and transactions and every bound.                                *)
EXTENDS MultisigWallet, WalletOpsProofs

\* A list of known proofs is a sequence of proofs.
LEMMA ProofListsType ==
    ASSUME TypeOK, NEW proofs \in ProofLists
    PROVE  /\ proofs \in Seq(ZkProof)
           /\ \A i \in DOMAIN proofs : proofs[i] \in ZkProof
<1> DEFINE known == {[commitment |-> l.commitment, nullifier |-> l.nullifier] : l \in leaves}
<1>1. known \subseteq ZkProof
  BY DEF TypeOK, LeafType, ZkProof
<1>2. PICK n \in 0 .. MaxProofs : proofs \in [1 .. n -> known]
  BY DEF ProofLists
<1>3. n \in Nat
  BY BoundsType
<1>4. QED
  BY <1>1, <1>2, <1>3

\* What a successful execute() does to the storage and to the log.
LEMMA ExecuteEffect ==
    ASSUME TypeOK, NEW tx \in Transactions, NEW proofs \in ProofLists, Execute(tx, proofs)
    PROVE  LET e == [tx |-> tx, approvers |-> ApproversOf(proofs),
                     required |-> wallet.signaturesRequired, signers |-> Signers(wallet)]
           IN  /\ wallet' \in WalletType
               /\ wallet'.usedNonces = wallet.usedNonces \cup {tx.nonce}
               /\ wallet'.usedNullifiers =
                      wallet.usedNullifiers \cup {proofs[i].nullifier : i \in DOMAIN proofs}
               /\ e \in EventType
               /\ events' = Append(events, e)
               /\ leaves' = leaves
<1> DEFINE m == MarkSpent(wallet, tx, proofs)
<1> DEFINE e == [tx |-> tx, approvers |-> ApproversOf(proofs),
                 required |-> wallet.signaturesRequired, signers |-> Signers(wallet)]
<1>1. /\ wallet \in WalletType
      /\ proofs \in Seq(ZkProof)
      /\ \A i \in DOMAIN proofs : proofs[i] \in ZkProof
  BY ProofListsType DEF TypeOK
<1>2. /\ m \in WalletType
      /\ m.copies = wallet.copies
      /\ m.length = wallet.length
      /\ m.balance = wallet.balance
      /\ m.usedNonces = wallet.usedNonces \cup {tx.nonce}
      /\ m.usedNullifiers =
             wallet.usedNullifiers \cup {proofs[i].nullifier : i \in DOMAIN proofs}
  BY <1>1, MarkSpentType
<1>3. CallSucceeds(m, tx)
  <2>1. CallSucceeds(wallet, tx)
    BY DEF Execute, ExecuteSucceeds
  <2>2. QED
    BY <2>1, <1>2 DEF CallSucceeds, AddSignersAccepts, RemoveSignersAccepts,
                      UpdateSignaturesRequiredAccepts, TransferAccepts
<1>4. wallet' = AfterCall(m, tx)
  BY DEF Execute, AfterExecute
<1>5. /\ wallet' \in WalletType
      /\ wallet'.usedNonces = m.usedNonces
      /\ wallet'.usedNullifiers = m.usedNullifiers
  BY <1>2, <1>3, <1>4, AfterCallType
<1>6. e \in EventType
  <2>1. ApproversOf(proofs) \in SUBSET Commitment
    BY <1>1 DEF ApproversOf, ZkProof
  <2>2. wallet.signaturesRequired \in Nat /\ Signers(wallet) \in SUBSET Commitment
    BY <1>1 DEF WalletType, Signers
  <2>3. QED
    BY <2>1, <2>2 DEF EventType
<1>7. events' = Append(events, e) /\ leaves' = leaves
  BY DEF Execute
<1>8. QED
  BY <1>2, <1>5, <1>6, <1>7

----------------------------------------------------------------------------

\* Every reachable state is well formed.
LEMMA TypeInit == Init => TypeOK
<1>1. SUFFICES ASSUME Init PROVE TypeOK
  OBVIOUS
<1>2. PICK list \in InitialSigners, funds \in InitialFunds :
          \E sigs \in 0 .. Len(list) + 1 : wallet = Constructed(list, sigs, funds)
  BY <1>1 DEF Init
<1>3. list \in Seq(Commitment) /\ funds \in [Asset -> Nat]
  BY InitialSignersType, InitialFundsType
<1>4. PICK sigs \in 0 .. Len(list) + 1 : wallet = Constructed(list, sigs, funds)
  BY <1>2
<1>5. sigs \in Nat
  BY <1>3, <1>4
<1>6. wallet \in WalletType
  BY <1>3, <1>4, <1>5, ConstructedType
<1>7. QED
  BY <1>1, <1>6 DEF Init, TypeOK

\* Every call, and every payment received, keeps the storage well formed.
LEMMA TypeStep == TypeOK /\ [Next]_vars => TypeOK'
<1>1. SUFFICES ASSUME TypeOK, [Next]_vars PROVE TypeOK'
  OBVIOUS
<1>2. ASSUME NEW c \in Commitment, NEW tx \in Transactions, Aggregate(c, tx)
      PROVE  TypeOK'
  <2>1. [tx |-> tx, commitment |-> c, nullifier |-> Nullifier(c, tx)] \in LeafType
    BY DEF LeafType, Nullifiers, Nullifier
  <2>2. QED
    BY <1>1, <1>2, <2>1 DEF TypeOK, Aggregate
<1>3. ASSUME NEW tx \in Transactions, NEW proofs \in ProofLists, Execute(tx, proofs)
      PROVE  TypeOK'
  <2>1. /\ wallet' \in WalletType
        /\ \E e \in EventType : events' = Append(events, e)
        /\ leaves' = leaves
    BY <1>1, <1>3, ExecuteEffect
  <2>2. QED
    BY <1>1, <2>1 DEF TypeOK
<1>4. ASSUME NEW a \in Asset, NEW amount \in 1 .. MaxBalance, Deposit(a, amount)
      PROVE  TypeOK'
  <2>1. amount \in Nat
    BY BoundsType
  <2>2. Receive(wallet, a, amount) \in WalletType
    BY <1>1, <2>1, ReceiveEffect DEF TypeOK
  <2>3. QED
    BY <1>1, <1>4, <2>2 DEF TypeOK, Deposit
<1>5. CASE UNCHANGED vars
  BY <1>1, <1>5 DEF TypeOK, vars
<1>6. QED
  BY <1>1, <1>2, <1>3, <1>4, <1>5 DEF Next

\* The storage, the log and the leaves are always well formed: no balance, count
\* or array length goes below zero.
THEOREM TypeCorrect == Spec => []TypeOK
<1>1. Init => TypeOK
  BY TypeInit
<1>2. TypeOK /\ [Next]_vars => TypeOK'
  BY TypeStep
<1>3. QED
  BY <1>1, <1>2, PTL DEF Spec

----------------------------------------------------------------------------

\* The proofs accepted in one call come from different people.
LEMMA ApproversDistinct ==
    ASSUME TypeOK, CircuitSound, NEW tx \in Transactions, NEW proofs \in ProofLists,
           ProofsAccepted(wallet, leaves, tx, proofs)
    PROVE  /\ Cardinality(ApproversOf(proofs)) = Len(proofs)
           /\ \A i \in DOMAIN proofs : proofs[i].nullifier = Nullifier(proofs[i].commitment, tx)
<1>1. proofs \in Seq(ZkProof)
  BY ProofListsType
<1>2. Sound(leaves)
  BY DEF CircuitSound, Sound
<1>3. Cardinality(Approving(proofs)) = Len(proofs) /\ OwnNullifiers(tx, proofs)
  BY <1>1, <1>2, AcceptedDistinct
<1> QED
  BY <1>3 DEF ApproversOf, Approving, OwnNullifiers

----------------------------------------------------------------------------
(* The inductive invariant, one lemma for each part that a call can break. *)

\* Each governance function bounds the new threshold by the new array length.
LEMMA ThresholdStep == TypeOK /\ ThresholdBounded /\ [Next]_vars => ThresholdBounded'
<1>1. SUFFICES ASSUME TypeOK, ThresholdBounded, [Next]_vars PROVE ThresholdBounded'
  OBVIOUS
<1>2. ASSUME NEW c \in Commitment, NEW tx \in Transactions, Aggregate(c, tx)
      PROVE  ThresholdBounded'
  BY <1>1, <1>2 DEF Aggregate, ThresholdBounded
<1>3. ASSUME NEW tx \in Transactions, NEW proofs \in ProofLists, Execute(tx, proofs)
      PROVE  ThresholdBounded'
  <2> DEFINE m == MarkSpent(wallet, tx, proofs)
  <2>1. wallet \in WalletType /\ proofs \in Seq(ZkProof)
    BY <1>1, ProofListsType DEF TypeOK
  <2>2. /\ m \in WalletType
        /\ m.copies = wallet.copies
        /\ m.length = wallet.length
        /\ m.signaturesRequired = wallet.signaturesRequired
        /\ m.balance = wallet.balance
    BY <2>1, MarkSpentType
  <2>3. CallSucceeds(wallet, tx)
    BY <1>3 DEF Execute, ExecuteSucceeds
  <2>4. CallSucceeds(m, tx)
    BY <2>2, <2>3 DEF CallSucceeds, AddSignersAccepts, RemoveSignersAccepts,
                      UpdateSignaturesRequiredAccepts, TransferAccepts
  <2>5. 1 <= m.signaturesRequired /\ m.signaturesRequired <= m.length
    BY <1>1, <2>1, <2>2 DEF ThresholdBounded, WalletType
  <2>6. /\ 1 <= AfterCall(m, tx).signaturesRequired
        /\ AfterCall(m, tx).signaturesRequired <= AfterCall(m, tx).length
    BY <2>2, <2>4, <2>5, AfterCallBounded
  <2>7. wallet' = AfterCall(m, tx)
    BY <1>3 DEF Execute, AfterExecute
  <2>8. AfterCall(m, tx) \in WalletType
    BY <2>2, <2>4, AfterCallType
  <2>9. QED
    BY <2>6, <2>7, <2>8 DEF ThresholdBounded, WalletType
<1>4. ASSUME NEW a \in Asset, NEW amount \in 1 .. MaxBalance, Deposit(a, amount)
      PROVE  ThresholdBounded'
  <2>1. amount \in Nat
    BY BoundsType
  <2>2. /\ wallet' = Receive(wallet, a, amount)
        /\ Receive(wallet, a, amount).signaturesRequired = wallet.signaturesRequired
        /\ Receive(wallet, a, amount).length = wallet.length
    BY <1>1, <1>4, <2>1, ReceiveEffect DEF TypeOK, Deposit
  <2>3. QED
    BY <1>1, <2>2 DEF ThresholdBounded
<1>5. CASE UNCHANGED vars
  BY <1>1, <1>5 DEF vars, ThresholdBounded
<1>6. QED
  BY <1>1, <1>2, <1>3, <1>4, <1>5 DEF Next

\* Only execute() appends to the log or writes the replay maps.
LEMMA OtherStepsEffect ==
    ASSUME TypeOK, [Next]_vars,
           ~ \E tx \in Transactions, proofs \in ProofLists : Execute(tx, proofs)
    PROVE  /\ events' = events
           /\ leaves \subseteq leaves'
           /\ wallet'.usedNonces = wallet.usedNonces
           /\ wallet'.usedNullifiers = wallet.usedNullifiers
<1>1. CASE \E c \in Commitment, tx \in Transactions : Aggregate(c, tx)
  BY <1>1 DEF Aggregate
<1>2. ASSUME NEW a \in Asset, NEW amount \in 1 .. MaxBalance, Deposit(a, amount)
      PROVE  /\ events' = events
             /\ leaves \subseteq leaves'
             /\ wallet'.usedNonces = wallet.usedNonces
             /\ wallet'.usedNullifiers = wallet.usedNullifiers
  <2>1. amount \in Nat
    BY BoundsType
  <2>2. QED
    BY <1>2, <2>1, ReceiveEffect DEF TypeOK, Deposit
<1>3. CASE UNCHANGED vars
  BY <1>3 DEF vars
<1>4. QED
  BY <1>1, <1>2, <1>3 DEF Next

\* Aggregated leaves carry the nullifier that the circuit computes.
LEMMA CircuitStep == CircuitSound /\ [Next]_vars => CircuitSound'
<1>1. SUFFICES ASSUME CircuitSound, [Next]_vars PROVE CircuitSound'
  OBVIOUS
<1>2. CASE \E c \in Commitment, tx \in Transactions : Aggregate(c, tx)
  BY <1>1, <1>2 DEF Aggregate, CircuitSound
<1>3. CASE leaves' = leaves
  BY <1>1, <1>3 DEF CircuitSound
<1>4. QED
  BY <1>1, <1>2, <1>3 DEF Next, Execute, Deposit, vars

\* execute() refuses a nonce that the log holds, and records the one it executes.
LEMMA ReplayStep ==
    TypeOK /\ NoncesLogged /\ NonceExecutedOnce /\ [Next]_vars
        => NoncesLogged' /\ NonceExecutedOnce'
<1>1. SUFFICES ASSUME TypeOK, NoncesLogged, NonceExecutedOnce, [Next]_vars
               PROVE  NoncesLogged' /\ NonceExecutedOnce'
  OBVIOUS
<1>2. ASSUME NEW tx \in Transactions, NEW proofs \in ProofLists, Execute(tx, proofs)
      PROVE  NoncesLogged' /\ NonceExecutedOnce'
  <2>1. PICK e \in EventType : events' = Append(events, e) /\ e.tx = tx
    BY <1>1, <1>2, ExecuteEffect, ZenonT(30)
  <2>2. wallet'.usedNonces = wallet.usedNonces \cup {tx.nonce}
    BY <1>1, <1>2, ExecuteEffect
  <2>3. tx.nonce \notin wallet.usedNonces
    BY <1>2 DEF Execute, ExecuteSucceeds, NonceUnused
  <2>4. /\ Len(events) \in Nat
        /\ DOMAIN events = 1 .. Len(events)
        /\ DOMAIN events' = 1 .. Len(events) + 1
        /\ \A i \in 1 .. Len(events) : events'[i] = events[i]
        /\ events'[Len(events) + 1] = e
    BY <1>1, <2>1 DEF TypeOK
  <2>5. NoncesLogged'
    BY <1>1, <2>1, <2>2, <2>4 DEF NoncesLogged
  <2>6. \A i \in 1 .. Len(events) : events[i].tx.nonce # tx.nonce
    BY <1>1, <2>3, <2>4 DEF NoncesLogged
  <2>7. NonceExecutedOnce'
    BY <1>1, <2>1, <2>4, <2>6 DEF NonceExecutedOnce
  <2>8. QED
    BY <2>5, <2>7
<1>3. CASE ~ \E tx \in Transactions, proofs \in ProofLists : Execute(tx, proofs)
  BY <1>1, <1>3, OtherStepsEffect DEF NoncesLogged, NonceExecutedOnce
<1>4. QED
  BY <1>2, <1>3

\* execute() counts distinct current signers, who approved this very transaction,
\* and spends their nullifiers for it.
LEMMA QuorumStep ==
    TypeOK /\ CircuitSound /\ QuorumOfSigners /\ NullifiersSpentByTheirTx /\ [Next]_vars
        => QuorumOfSigners' /\ NullifiersSpentByTheirTx'
<1>1. SUFFICES ASSUME TypeOK, CircuitSound, QuorumOfSigners, NullifiersSpentByTheirTx,
                      [Next]_vars
               PROVE  QuorumOfSigners' /\ NullifiersSpentByTheirTx'
  OBVIOUS
<1>2. ASSUME NEW tx \in Transactions, NEW proofs \in ProofLists, Execute(tx, proofs)
      PROVE  QuorumOfSigners' /\ NullifiersSpentByTheirTx'
  <2> DEFINE e == [tx |-> tx, approvers |-> ApproversOf(proofs),
                   required |-> wallet.signaturesRequired, signers |-> Signers(wallet)]
  <2>1. /\ events' = Append(events, e)
        /\ e \in EventType
        /\ leaves' = leaves
        /\ wallet'.usedNullifiers =
               wallet.usedNullifiers \cup {proofs[i].nullifier : i \in DOMAIN proofs}
    BY <1>1, <1>2, ExecuteEffect
  <2>2. /\ Len(events) \in Nat
        /\ DOMAIN events = 1 .. Len(events)
        /\ DOMAIN events' = 1 .. Len(events) + 1
        /\ \A i \in 1 .. Len(events) : events'[i] = events[i]
        /\ events'[Len(events) + 1] = e
    BY <1>1, <2>1 DEF TypeOK
  <2>3. /\ ProofsAccepted(wallet, leaves, tx, proofs)
        /\ Len(proofs) >= wallet.signaturesRequired
    BY <1>2 DEF Execute, ExecuteSucceeds, EnoughProofs
  <2>4. /\ Cardinality(ApproversOf(proofs)) = Len(proofs)
        /\ \A i \in DOMAIN proofs : proofs[i].nullifier = Nullifier(proofs[i].commitment, tx)
    BY <1>1, <2>3, ApproversDistinct
  <2>5. \A i \in DOMAIN proofs : proofs[i] \in ZkProof
    BY <1>1, ProofListsType
  <2>6. e.approvers \subseteq e.signers
    BY <2>3, <2>5 DEF ApproversOf, Signers, ProofsAccepted, IsCurrentSigner, ZkProof
  <2>7. Cardinality(e.approvers) >= e.required
    BY <2>3, <2>4
  <2>8. \A c \in e.approvers :
            [tx |-> e.tx, commitment |-> c, nullifier |-> Nullifier(c, e.tx)] \in leaves
    BY <2>3, <2>4 DEF ApproversOf, ProofsAccepted, VerifyProof
  <2>9. QuorumOfSigners'
    BY <1>1, <2>1, <2>2, <2>6, <2>7, <2>8 DEF QuorumOfSigners
  <2>10. {proofs[i].nullifier : i \in DOMAIN proofs} =
             {Nullifier(c, e.tx) : c \in e.approvers}
    BY <2>4 DEF ApproversOf
  <2>11. NullifiersSpentByTheirTx'
    BY <1>1, <2>1, <2>2, <2>10 DEF NullifiersSpentByTheirTx
  <2>12. QED
    BY <2>9, <2>11
<1>3. CASE ~ \E tx \in Transactions, proofs \in ProofLists : Execute(tx, proofs)
  <2>1. /\ events' = events
        /\ leaves \subseteq leaves'
        /\ wallet'.usedNullifiers = wallet.usedNullifiers
    BY <1>1, <1>3, OtherStepsEffect
  <2>2. QED
    BY <1>1, <2>1 DEF QuorumOfSigners, NullifiersSpentByTheirTx
<1>4. QED
  BY <1>2, <1>3

----------------------------------------------------------------------------

\* A freshly constructed wallet satisfies the inductive invariant.
LEMMA InvInit == Init => IInv
<1>1. SUFFICES ASSUME Init PROVE IInv
  OBVIOUS
<1>2. PICK list \in InitialSigners, funds \in InitialFunds :
          \E sigs \in 0 .. Len(list) + 1 : /\ ConstructorAccepts(list, sigs)
                                           /\ wallet = Constructed(list, sigs, funds)
  BY <1>1 DEF Init
<1>3. PICK sigs \in 0 .. Len(list) + 1 : /\ ConstructorAccepts(list, sigs)
                                         /\ wallet = Constructed(list, sigs, funds)
  BY <1>2
<1>4. sigs \in Nat /\ Len(list) \in Nat
  BY <1>3, InitialSignersType
<1>5. ThresholdBounded
  BY <1>3, <1>4 DEF ConstructorAccepts, Constructed, ThresholdBounded
<1>6. leaves = {} /\ events = << >> /\ wallet.usedNonces = {} /\ wallet.usedNullifiers = {}
  BY <1>1, <1>3 DEF Init, Constructed
<1>7. CircuitSound /\ NoncesLogged /\ NonceExecutedOnce
  BY <1>6 DEF CircuitSound, NoncesLogged, NonceExecutedOnce
<1>8. QuorumOfSigners /\ NullifiersSpentByTheirTx
  BY <1>6 DEF QuorumOfSigners, NullifiersSpentByTheirTx
<1>9. QED
  BY <1>1, <1>5, <1>7, <1>8, TypeInit DEF IInv

\* Every step preserves it: the parts above, together.
LEMMA InvStep == IInv /\ [Next]_vars => IInv'
BY TypeStep, ThresholdStep, CircuitStep, ReplayStep, QuorumStep DEF IInv

\* The inductive invariant holds in every reachable state.
THEOREM InductiveInvariant == Spec => []IInv
<1>1. Init => IInv
  BY InvInit
<1>2. IInv /\ [Next]_vars => IInv'
  BY InvStep
<1>3. QED
  BY <1>1, <1>2, PTL DEF Spec

\* Whatever governance transactions are executed, the threshold stays between 1
\* and the length of the signer array.
THEOREM ThresholdStaysBounded == Spec => []ThresholdBounded
<1>1. IInv => ThresholdBounded
  BY DEF IInv
<1>2. QED
  BY <1>1, InductiveInvariant, PTL

\* Every executed transaction had a quorum of distinct current signers.
THEOREM QuorumHolds == Spec => []QuorumOfSigners
<1>1. IInv => QuorumOfSigners
  BY DEF IInv
<1>2. QED
  BY <1>1, InductiveInvariant, PTL

\* No nonce is executed twice.
THEOREM NoReplay == Spec => []NonceExecutedOnce
<1>1. IInv => NonceExecutedOnce
  BY DEF IInv
<1>2. QED
  BY <1>1, InductiveInvariant, PTL

\* A nullifier is spent exactly by the transaction it was made for.
THEOREM ApprovalsNotConsumed == Spec => []NullifiersSpentByTheirTx
<1>1. IInv => NullifiersSpentByTheirTx
  BY DEF IInv
<1>2. QED
  BY <1>1, InductiveInvariant, PTL

----------------------------------------------------------------------------
(* The entries of the array. *)

\* What a successful execute() does to the rest of the storage.
LEMMA ExecuteCalls ==
    ASSUME TypeOK, NEW tx \in Transactions, NEW proofs \in ProofLists, Execute(tx, proofs)
    PROVE  \E m \in WalletType :
               /\ m.signaturesRequired = wallet.signaturesRequired
               /\ m.length = wallet.length /\ m.copies = wallet.copies
               /\ m.balance = wallet.balance
               /\ CallSucceeds(m, tx)
               /\ wallet' = AfterCall(m, tx)
<1> DEFINE m == MarkSpent(wallet, tx, proofs)
<1>1. /\ m \in WalletType
      /\ m.signaturesRequired = wallet.signaturesRequired
      /\ m.length = wallet.length /\ m.copies = wallet.copies
      /\ m.balance = wallet.balance
  BY ProofListsType, MarkSpentType DEF TypeOK
<1>2. CallSucceeds(m, tx)
  <2>1. CallSucceeds(wallet, tx)
    BY DEF Execute, ExecuteSucceeds
  <2> QED
    BY <2>1, <1>1 DEF CallSucceeds, AddSignersAccepts, RemoveSignersAccepts,
                      UpdateSignaturesRequiredAccepts, TransferAccepts
<1>3. wallet' = AfterCall(m, tx)
  BY DEF Execute, AfterExecute
<1> HIDE DEF m
<1> QED
  BY <1>1, <1>2, <1>3

\* Only execute() changes the signers and the threshold, and only it lowers a balance.
LEMMA OthersKeepSigners ==
    ASSUME TypeOK, [Next]_vars,
           ~ \E tx \in Transactions, proofs \in ProofLists : Execute(tx, proofs)
    PROVE  /\ wallet'.copies = wallet.copies
           /\ wallet'.length = wallet.length
           /\ wallet'.signaturesRequired = wallet.signaturesRequired
           /\ \A a \in Asset : wallet'.balance[a] >= wallet.balance[a]
<1>1. CASE \E c \in Commitment, tx \in Transactions : Aggregate(c, tx)
  BY <1>1 DEF Aggregate, TypeOK, WalletType
<1>2. ASSUME NEW b \in Asset, NEW amount \in 1 .. MaxBalance, Deposit(b, amount)
      PROVE  /\ wallet'.copies = wallet.copies
             /\ wallet'.length = wallet.length
             /\ wallet'.signaturesRequired = wallet.signaturesRequired
             /\ \A a \in Asset : wallet'.balance[a] >= wallet.balance[a]
  <2>1. amount \in Nat
    BY BoundsType
  <2> QED
    BY <1>2, <2>1, ReceiveEffect DEF TypeOK, Deposit
<1>3. CASE UNCHANGED vars
  BY <1>3 DEF vars, TypeOK, WalletType
<1> QED
  BY <1>1, <1>2, <1>3 DEF Next

LEMMA CountedInit == Init => Counted(wallet)
<1> SUFFICES ASSUME Init PROVE Counted(wallet)
  OBVIOUS
<1>1. PICK list \in InitialSigners, funds \in InitialFunds :
          \E sigs \in 0 .. Len(list) + 1 : wallet = Constructed(list, sigs, funds)
  BY DEF Init
<1>2. list \in Seq(Commitment) /\ funds \in [Asset -> Nat]
  BY InitialSignersType, InitialFundsType
<1>3. PICK sigs \in 0 .. Len(list) + 1 : wallet = Constructed(list, sigs, funds)
  BY <1>1
<1> QED
  BY <1>2, <1>3, ConstructedCounted

LEMMA CountedStep == TypeOK /\ Counted(wallet) /\ [Next]_vars => Counted(wallet)'
<1> SUFFICES ASSUME TypeOK, Counted(wallet), [Next]_vars PROVE Counted(wallet)'
  OBVIOUS
<1>1. ASSUME NEW tx \in Transactions, NEW proofs \in ProofLists, Execute(tx, proofs)
      PROVE  Counted(wallet)'
  <2>1. PICK m \in WalletType :
            /\ m.length = wallet.length /\ m.copies = wallet.copies
            /\ CallSucceeds(m, tx) /\ wallet' = AfterCall(m, tx)
    BY <1>1, ExecuteCalls
  <2>2. Counted(m)
    BY <2>1 DEF Counted
  <2>3. Counted(AfterCall(m, tx))
    BY <2>1, <2>2, AfterCallCounted
  <2> QED
    BY <2>1, <2>3 DEF Counted
<1>2. CASE ~ \E tx \in Transactions, proofs \in ProofLists : Execute(tx, proofs)
  BY <1>2, OthersKeepSigners DEF Counted
<1> QED
  BY <1>1, <1>2

LEMMA AlwaysCounted == Spec => []Counted(wallet)
BY TypeCorrect, CountedInit, CountedStep, PTL DEF Spec

\* A list names at most as many people as it has entries, and exactly as many when it
\* repeats none.
LEMMA RangeOfList ==
    ASSUME NEW list \in Seq(Commitment)
    PROVE  /\ Range(list) \subseteq Commitment /\ IsFiniteSet(Range(list))
           /\ Cardinality(Range(list)) \in Nat
           /\ Cardinality(Range(list)) <= Len(list)
           /\ IsInjective(list) => Cardinality(Range(list)) = Len(list)
<1> DEFINE S == 1 .. Len(list)
           T == Range(list)
<1>1. Len(list) \in Nat /\ DOMAIN list = S /\ T \subseteq Commitment
  BY DEF Range
<1>2. list \in Surjection(S, T)
  BY <1>1 DEF Surjection, Range
<1>3. IsFiniteSet(S) /\ Cardinality(S) = Len(list)
  BY <1>1, IndexCardinality
<1>4. IsInjective(list) => list \in Injection(S, T)
  BY <1>1, <1>2 DEF Surjection, Injection, IsInjective
<1> HIDE DEF S, T
<1>5. /\ IsFiniteSet(T) /\ Cardinality(T) <= Cardinality(S)
      /\ Cardinality(T) = Cardinality(S) <=> list \in Injection(S, T)
  BY <1>2, <1>3, FS_Surjection
<1>6. Cardinality(T) \in Nat
  BY <1>5, FS_CardinalityType
<1> QED
  BY <1>1, <1>3, <1>4, <1>5, <1>6 DEF T

\* The people behind an array are finitely many.
LEMMA SignersFinite ==
    ASSUME NEW w \in WalletType, Counted(w)
    PROVE  IsFiniteSet(Signers(w)) /\ Cardinality(Signers(w)) \in Nat
<1> DEFINE f == [e \in EntriesOf(w.copies) |-> e[1]]
<1>1. \A c \in Commitment : w.copies[c] \in Nat
  BY DEF WalletType
<1>2. \A e \in EntriesOf(w.copies) : f[e] \in Signers(w)
  BY <1>1, EntriesMember DEF Signers
<1>3. \A c \in Signers(w) : <<c, 1>> \in EntriesOf(w.copies) /\ f[<<c, 1>>] = c
  BY <1>1, EntriesMember DEF Signers
<1>4. f \in Surjection(EntriesOf(w.copies), Signers(w))
  BY <1>2, <1>3 DEF Surjection
<1> HIDE DEF f
<1> QED
  BY <1>4, FS_Surjection, FS_CardinalityType DEF Counted

\* An addition brings as many people as entries.
LEMMA AdditionRepeatsNone ==
    ASSUME NEW w \in WalletType, NEW list \in Seq(Commitment), NEW newSig \in Nat,
           Counted(w), AddSignersAccepts(w, list, newSig)
    PROVE  Repetitions(AddSigners(w, list, newSig)) <= Repetitions(w)
<1> DEFINE after == AddSigners(w, list, newSig)
<1>1. /\ after.length = w.length + Len(list)
      /\ \A c \in Commitment :
             after.copies[c] = IF c \in Range(list) THEN w.copies[c] + 1 ELSE w.copies[c]
  BY AddSignersEffect
<1>2. /\ Range(list) \subseteq Commitment /\ IsFiniteSet(Range(list))
      /\ Cardinality(Range(list)) = Len(list)
  BY RangeOfList DEF AddSignersAccepts
<1>3. IsFiniteSet(Signers(w)) /\ Cardinality(Signers(w)) \in Nat
  BY SignersFinite
<1>4. \A c \in Commitment : w.copies[c] \in Nat
  BY DEF WalletType
<1>5. Signers(w) \cap Range(list) = {}
  BY DEF AddSignersAccepts, Range, Signers
<1> HIDE DEF after
<1>6. Signers(after) = Signers(w) \cup Range(list)
  BY <1>1, <1>2, <1>4 DEF Signers
<1>7. Cardinality(Signers(w) \cap Range(list)) = 0
  BY <1>5, FS_EmptySet
<1>8. Cardinality(Signers(after)) =
          Cardinality(Signers(w)) + Cardinality(Range(list))
              - Cardinality(Signers(w) \cap Range(list))
  BY <1>2, <1>3, <1>6, FS_Union
<1>9. w.length \in Nat /\ Len(list) \in Nat
  BY DEF WalletType
<1>10. Repetitions(after) <= Repetitions(w)
  BY <1>1, <1>2, <1>3, <1>7, <1>8, <1>9 DEF Repetitions
<1> QED
  BY <1>10 DEF after

\* A removal takes at least as many entries as people.
LEMMA RemovalRepeatsNone ==
    ASSUME NEW w \in WalletType, NEW list \in Seq(Commitment), NEW newSig \in Nat,
           Counted(w), RemoveSignersAccepts(w, list, newSig)
    PROVE  Repetitions(RemoveSigners(w, list, newSig)) <= Repetitions(w)
<1> DEFINE after == RemoveSigners(w, list, newSig)
<1>1. /\ after.length = w.length - Len(list)
      /\ \A c \in Commitment : after.copies[c] = w.copies[c] - Occurrences(list, c)
      /\ after \in WalletType
  BY RemoveSignersEffect
<1>2. /\ IsFiniteSet(Range(list)) /\ Cardinality(Range(list)) \in Nat
      /\ Cardinality(Range(list)) <= Len(list)
  BY RangeOfList
<1>3. /\ IsFiniteSet(Signers(w)) /\ Cardinality(Signers(w)) \in Nat
  BY SignersFinite
<1>4. Counted(after)
  BY RemoveSignersCounted
<1>5. \A c \in Commitment : c \notin Range(list) => Occurrences(list, c) = 0
  BY NoOccurrence
<1>6. \A c \in Commitment : w.copies[c] \in Nat
  BY DEF WalletType
<1> HIDE DEF after
<1>7. IsFiniteSet(Signers(after)) /\ Cardinality(Signers(after)) \in Nat
  BY <1>1, <1>4, SignersFinite
<1>8. Signers(w) \subseteq Signers(after) \cup Range(list)
  BY <1>1, <1>5, <1>6 DEF Signers
<1> DEFINE I == Signers(after) \cap Range(list)
           U == Signers(after) \cup Range(list)
<1>9. Cardinality(I) \in Nat
  BY <1>7, FS_Subset, FS_CardinalityType
<1>10. /\ IsFiniteSet(U)
       /\ Cardinality(U) = Cardinality(Signers(after)) + Cardinality(Range(list)) - Cardinality(I)
  BY <1>2, <1>7, FS_Union
<1>11. Cardinality(Signers(w)) <= Cardinality(U)
  BY <1>8, <1>10, FS_Subset
<1>12. w.length \in Nat /\ Len(list) \in Nat
  BY DEF WalletType
<1> HIDE DEF I, U
<1>13. Repetitions(after) <= Repetitions(w)
  BY <1>1, <1>2, <1>3, <1>7, <1>9, <1>10, <1>11, <1>12 DEF Repetitions
<1> QED
  BY <1>13 DEF after

LEMMA AfterCallRepetitions ==
    ASSUME NEW w \in WalletType, NEW tx \in Transactions, CallSucceeds(w, tx), Counted(w)
    PROVE  Repetitions(AfterCall(w, tx)) <= Repetitions(w)
<1>1. tx.list \in Seq(Commitment) /\ tx.newSig \in Nat /\ tx.pay \in [Asset -> Nat]
  BY TxFields
<1>2. Repetitions(w) \in Int
  BY SignersFinite DEF Repetitions, WalletType
<1>3. CASE tx.kind = "addSigners"
  BY <1>1, <1>3, AdditionRepeatsNone DEF CallSucceeds, AfterCall
<1>4. CASE tx.kind = "removeSigners"
  BY <1>1, <1>4, RemovalRepeatsNone DEF CallSucceeds, AfterCall
<1>5. CASE tx.kind \in {"updateSignaturesRequired", "transfer", "selfTransfer"}
  <2>1. AfterCall(w, tx).length = w.length /\ AfterCall(w, tx).copies = w.copies
    BY <1>1, <1>5, UpdateEffect, TransferEffect DEF CallSucceeds, AfterCall
  <2> QED
    BY <1>2, <2>1 DEF Repetitions, Signers
<1> QED
  BY <1>3, <1>4, <1>5, TxFields DEF Kinds, GovernanceKinds

LEMMA RepetitionsStep ==
    TypeOK /\ Counted(wallet) /\ [Next]_vars => Repetitions(wallet') <= Repetitions(wallet)
<1> SUFFICES ASSUME TypeOK, Counted(wallet), [Next]_vars
             PROVE  Repetitions(wallet') <= Repetitions(wallet)
  OBVIOUS
<1>1. ASSUME NEW tx \in Transactions, NEW proofs \in ProofLists, Execute(tx, proofs)
      PROVE  Repetitions(wallet') <= Repetitions(wallet)
  <2>1. PICK m \in WalletType :
            /\ m.length = wallet.length /\ m.copies = wallet.copies
            /\ CallSucceeds(m, tx) /\ wallet' = AfterCall(m, tx)
    BY <1>1, ExecuteCalls
  <2>2. Counted(m) /\ Repetitions(m) = Repetitions(wallet)
    BY <2>1 DEF Counted, Repetitions, Signers
  <2> QED
    BY <2>1, <2>2, AfterCallRepetitions
<1>2. CASE ~ \E tx \in Transactions, proofs \in ProofLists : Execute(tx, proofs)
  <2>1. Repetitions(wallet) \in Int
    BY SignersFinite DEF TypeOK, Repetitions, WalletType
  <2>2. Repetitions(wallet') = Repetitions(wallet)
    BY <1>2, OthersKeepSigners DEF Repetitions, Signers
  <2> QED
    BY <2>1, <2>2
<1> QED
  BY <1>1, <1>2

\* Only a deployment repeats a commitment: whatever governance executes, the entries
\* beyond one for each person never become more.
THEOREM OnlyDeploymentRepeats == Spec => RepetitionsNeverGrow
<1>1. TypeOK /\ Counted(wallet) /\ [Next]_vars => [Repetitions(wallet') <= Repetitions(wallet)]_vars
  BY RepetitionsStep
<1> QED
  BY <1>1, TypeCorrect, AlwaysCounted, PTL DEF Spec, RepetitionsNeverGrow

----------------------------------------------------------------------------
(* Wallets deployed with distinct signers. *)

\* No list that a wallet is deployed with repeats a commitment. The constructor does
\* not test it, but a repeated one never becomes an account.
DeployedDistinct == \A list \in InitialSigners : IsInjective(list)

LEMMA DistinctInit == DeployedDistinct /\ Init => NoDuplicates(wallet)
<1> SUFFICES ASSUME DeployedDistinct, Init PROVE NoDuplicates(wallet)
  OBVIOUS
<1>1. PICK list \in InitialSigners, funds \in InitialFunds :
          \E sigs \in 0 .. Len(list) + 1 : wallet = Constructed(list, sigs, funds)
  BY DEF Init
<1>2. list \in Seq(Commitment) /\ IsInjective(list)
  BY InitialSignersType DEF DeployedDistinct
<1>3. \A c \in Commitment : wallet.copies[c] = Occurrences(list, c)
  BY <1>1 DEF Constructed
<1> QED
  BY <1>2, <1>3, OccursOnce DEF NoDuplicates

LEMMA DistinctStep == TypeOK /\ NoDuplicates(wallet) /\ [Next]_vars => NoDuplicates(wallet)'
<1> SUFFICES ASSUME TypeOK, NoDuplicates(wallet), [Next]_vars PROVE NoDuplicates(wallet)'
  OBVIOUS
<1>1. ASSUME NEW tx \in Transactions, NEW proofs \in ProofLists, Execute(tx, proofs)
      PROVE  NoDuplicates(wallet)'
  <2>1. PICK m \in WalletType :
            m.copies = wallet.copies /\ CallSucceeds(m, tx) /\ wallet' = AfterCall(m, tx)
    BY <1>1, ExecuteCalls
  <2>2. NoDuplicates(m)
    BY <2>1 DEF NoDuplicates
  <2>3. NoDuplicates(AfterCall(m, tx))
    BY <2>1, <2>2, AfterCallSigners
  <2> QED
    BY <2>1, <2>3 DEF NoDuplicates
<1>2. CASE ~ \E tx \in Transactions, proofs \in ProofLists : Execute(tx, proofs)
  BY <1>2, OthersKeepSigners DEF NoDuplicates
<1> QED
  BY <1>1, <1>2

\* What holds of the wallet when it was deployed with distinct signers.
DistinctInv == IInv /\ Counted(wallet) /\ NoDuplicates(wallet)

LEMMA AlwaysDistinct == DeployedDistinct /\ Spec => []DistinctInv
<1>1. DeployedDistinct /\ Init => NoDuplicates(wallet)
  BY DistinctInit
<1>2. IInv /\ NoDuplicates(wallet) /\ [Next]_vars => NoDuplicates(wallet)'
  BY DistinctStep DEF IInv
<1> QED
  BY <1>1, <1>2, InductiveInvariant, AlwaysCounted, PTL DEF Spec, DistinctInv

LEMMA DistinctIsOperable == DistinctInv => Operable
BY SignersOfDistinct DEF DistinctInv, IInv, TypeOK, ThresholdBounded, Operable

\* A wallet deployed with distinct signers can reach its threshold whatever
\* governance transactions are executed: additions cannot repeat a commitment, so the
\* bounds on the length are bounds on people.
THEOREM StaysOperable == DeployedDistinct /\ Spec => []Operable
BY AlwaysDistinct, DistinctIsOperable, PTL

----------------------------------------------------------------------------
(* What a step may never do. *)

\* A step that is not an execution changes neither signers nor threshold, and an
\* execution changes them as its call does.
LEMMA OldQuorumStep ==
    ASSUME IInv, IInv', [Next]_vars,
           wallet'.copies # wallet.copies
             \/ wallet'.signaturesRequired # wallet.signaturesRequired
    PROVE  /\ Len(events') = Len(events) + 1
           /\ LET e == events'[Len(events')]
              IN  /\ e.tx.kind \in GovernanceKinds
                  /\ Cardinality(e.approvers) >= wallet.signaturesRequired
                  /\ \A c \in e.approvers : wallet.copies[c] > 0
<1> USE DEF IInv
<1>1. PICK tx \in Transactions, proofs \in ProofLists : Execute(tx, proofs)
  BY OthersKeepSigners
<1> DEFINE e == [tx |-> tx, approvers |-> ApproversOf(proofs),
                 required |-> wallet.signaturesRequired, signers |-> Signers(wallet)]
<1>2. e \in EventType /\ events' = Append(events, e)
  BY <1>1, ExecuteEffect
<1>3. Len(events') = Len(events) + 1 /\ events'[Len(events')] = e
      /\ Len(events') \in DOMAIN events'
  BY <1>2 DEF TypeOK
<1>4. tx.kind \in GovernanceKinds
  <2> SUFFICES ASSUME tx.kind \in {"transfer", "selfTransfer"} PROVE FALSE
    BY TxFields DEF Kinds
  <2>1. PICK m \in WalletType :
            /\ m.signaturesRequired = wallet.signaturesRequired /\ m.copies = wallet.copies
            /\ CallSucceeds(m, tx) /\ wallet' = AfterCall(m, tx)
    BY <1>1, ExecuteCalls
  <2>2. TransferAccepts(m, tx.pay) /\ wallet' \in {Transfer(m, tx.pay), m}
    BY <2>1 DEF CallSucceeds, AfterCall
  <2> QED
    BY <2>1, <2>2, TransferEffect, TxFields
<1>5. /\ e.approvers \subseteq e.signers
      /\ Cardinality(e.approvers) >= e.required
  BY <1>3 DEF QuorumOfSigners
<1> QED
  BY <1>3, <1>4, <1>5 DEF Signers

\* No call lowers the bar it is itself judged by.
THEOREM GovernanceNeedsOldQuorum == Spec => GovernedByOldQuorum
<1>1. IInv /\ IInv' /\ [Next]_vars =>
        [(wallet'.copies # wallet.copies
            \/ wallet'.signaturesRequired # wallet.signaturesRequired)
        => /\ Len(events') = Len(events) + 1
           /\ LET e == events'[Len(events')]
              IN  /\ e.tx.kind \in GovernanceKinds
                  /\ Cardinality(e.approvers) >= wallet.signaturesRequired
                  /\ \A c \in e.approvers : wallet.copies[c] > 0]_vars
  BY OldQuorumStep
<1> QED
  BY <1>1, InductiveInvariant, PTL DEF Spec, GovernedByOldQuorum

\* A balance falls only when a transfer is executed, by what the transfer pays.
LEMMA FundsStep ==
    ASSUME TypeOK, TypeOK', [Next]_vars, NEW a \in Asset,
           wallet'.balance[a] < wallet.balance[a]
    PROVE  /\ Len(events') = Len(events) + 1
           /\ LET tx == events'[Len(events')].tx
              IN  tx.kind = "transfer" /\ wallet.balance[a] - wallet'.balance[a] = tx.pay[a]
<1>0. wallet.balance[a] \in Nat /\ wallet'.balance[a] \in Nat
  BY DEF TypeOK, WalletType
<1>1. PICK tx \in Transactions, proofs \in ProofLists : Execute(tx, proofs)
  BY <1>0, OthersKeepSigners
<1> DEFINE e == [tx |-> tx, approvers |-> ApproversOf(proofs),
                 required |-> wallet.signaturesRequired, signers |-> Signers(wallet)]
<1>2. e \in EventType /\ events' = Append(events, e)
  BY <1>1, ExecuteEffect
<1>3. Len(events') = Len(events) + 1 /\ events'[Len(events')].tx = tx
  BY <1>2 DEF TypeOK
<1>4. PICK m \in WalletType :
          m.balance = wallet.balance /\ CallSucceeds(m, tx) /\ wallet' = AfterCall(m, tx)
  BY <1>1, ExecuteCalls
<1>5. /\ tx.kind \in Kinds /\ tx.list \in Seq(Commitment) /\ tx.newSig \in Nat
      /\ tx.pay \in [Asset -> Nat]
  BY TxFields
<1>6. CASE tx.kind = "transfer"
  <2>1. TransferAccepts(m, tx.pay) /\ wallet' = Transfer(m, tx.pay)
    BY <1>4, <1>6 DEF CallSucceeds, AfterCall
  <2>2. wallet'.balance[a] = wallet.balance[a] - tx.pay[a]
    BY <1>4, <1>5, <2>1, TransferEffect
  <2> QED
    BY <1>0, <1>3, <1>5, <1>6, <2>2
<1>7. CASE tx.kind # "transfer"
  <2>1. wallet'.balance = m.balance
    BY <1>4, <1>7 DEF AfterCall, CallSucceeds, AddSigners, RemoveSigners,
                      UpdateSignaturesRequired, WalletType
  <2> QED
    BY <1>0, <1>4, <2>1
<1> QED
  BY <1>6, <1>7

\* The wallet pays out only by executing an approved transfer, exactly what it says.
THEOREM FundsLeaveByTransfer == Spec => FundsLeaveByApprovedTransfer
<1>1. TypeOK /\ TypeOK' /\ [Next]_vars =>
        [\A a \in Asset : wallet'.balance[a] < wallet.balance[a]
        => /\ Len(events') = Len(events) + 1
           /\ LET tx == events'[Len(events')].tx
              IN  tx.kind = "transfer" /\ wallet.balance[a] - wallet'.balance[a] = tx.pay[a]]_vars
  BY FundsStep
<1> QED
  BY <1>1, TypeCorrect, PTL DEF Spec, FundsLeaveByApprovedTransfer

----------------------------------------------------------------------------
(* The refinement of the abstract multisig. *)

(* The instance has its own copies of the library's operators. *)
LEMMA SameCardinality == \A S : Abstract!Cardinality(S) = Cardinality(S)
BY DEF Abstract!Cardinality, Cardinality

LEMMA SameRange == \A f : Abstract!Range(f) = Range(f)
BY DEF Abstract!Range, Range

LEMMA AbstractInit == DistinctInv /\ Init => Abstract!Init
<1> SUFFICES ASSUME DistinctInv, Init PROVE Abstract!Init
  OBVIOUS
<1>1. Operable /\ wallet.signaturesRequired \in Nat /\ wallet.signaturesRequired >= 1
  BY DistinctIsOperable DEF DistinctInv, IInv, ThresholdBounded, TypeOK, WalletType
<1>2. IsFiniteSet(Signers(wallet)) /\ Cardinality(Signers(wallet)) \in Nat
  BY SignersOfDistinct, FS_CardinalityType DEF DistinctInv, IInv, TypeOK
<1>3. leaves = {} /\ events = << >>
  BY DEF Init
<1>4. [i \in DOMAIN events |-> events[i].tx] = << >>
  BY <1>3
<1> QED
  BY <1>1, <1>2, <1>3, <1>4, SameCardinality
     DEF Abstract!Init, Abstract!Reachable, Operable, Signers

\* An execution is a decision by the people whose proofs were accepted.
LEMMA ExecuteDecides ==
    ASSUME DistinctInv, DistinctInv', [Next]_vars,
           NEW tx \in Transactions, NEW proofs \in ProofLists, Execute(tx, proofs)
    PROVE  Abstract!Next
<1> DEFINE e == [tx |-> tx, approvers |-> ApproversOf(proofs),
                 required |-> wallet.signaturesRequired, signers |-> Signers(wallet)]
           ledger == [i \in DOMAIN events |-> events[i].tx]
           quorum == ApproversOf(proofs)
<1> USE DEF DistinctInv, IInv
<1>1. e \in EventType /\ events' = Append(events, e) /\ leaves' = leaves
  BY ExecuteEffect
<1>2. /\ Len(events) \in Nat /\ DOMAIN events = 1 .. Len(events)
      /\ DOMAIN events' = 1 .. Len(events) + 1
      /\ Len(events') = Len(events) + 1
      /\ \A i \in 1 .. Len(events) : events'[i] = events[i]
      /\ events'[Len(events) + 1] = e
  BY <1>1 DEF TypeOK
<1>3. \A i \in DOMAIN ledger : ledger[i].nonce # tx.nonce
  <2>1. tx.nonce \notin wallet.usedNonces
    BY DEF Execute, ExecuteSucceeds, NonceUnused
  <2> QED
    BY <2>1 DEF NoncesLogged
<1>4. /\ quorum \subseteq Signers(wallet)
      /\ Cardinality(quorum) >= wallet.signaturesRequired
      /\ \A c \in quorum : <<c, tx>> \in {<<l.commitment, l.tx>> : l \in leaves}
  <2> DEFINE Quorum(v) == /\ v.approvers \subseteq v.signers
                          /\ Cardinality(v.approvers) >= v.required
                          /\ \A c \in v.approvers :
                                 [tx |-> v.tx, commitment |-> c,
                                  nullifier |-> Nullifier(c, v.tx)] \in leaves'
  <2>1. \A i \in DOMAIN events' : Quorum(events'[i])
    BY DEF QuorumOfSigners
  <2>2. Quorum(e)
    <3> HIDE DEF Quorum, e
    <3> QED
      BY <1>2, <2>1
  <2>3. \A c \in quorum : [tx |-> tx, commitment |-> c,
                           nullifier |-> Nullifier(c, tx)] \in leaves
    BY <1>1, <2>2
  <2>4. quorum \subseteq Signers(wallet) /\ Cardinality(quorum) >= wallet.signaturesRequired
    BY <2>2
  <2>5. ASSUME NEW c \in quorum
        PROVE  <<c, tx>> \in {<<l.commitment, l.tx>> : l \in leaves}
    <3>1. PICK l \in leaves : l = [tx |-> tx, commitment |-> c, nullifier |-> Nullifier(c, tx)]
      BY <2>3
    <3>2. l.commitment = c /\ l.tx = tx
      BY <3>1
    <3> QED
      BY <3>2
  <2> QED
    BY <2>4, <2>5
<1>5. PICK m \in WalletType :
          /\ m.signaturesRequired = wallet.signaturesRequired /\ m.copies = wallet.copies
          /\ CallSucceeds(m, tx) /\ wallet' = AfterCall(m, tx)
  BY ExecuteCalls
<1>6. Signers(wallet)' = CASE tx.kind = "addSigners"    -> Signers(wallet) \cup Range(tx.list)
                           [] tx.kind = "removeSigners" -> Signers(wallet) \ Range(tx.list)
                           [] OTHER                     -> Signers(wallet)
  <2>1. NoDuplicates(m) /\ Signers(m) = Signers(wallet)
    BY <1>5 DEF NoDuplicates, Signers
  <2>2. Signers(AfterCall(m, tx)) = Signers(wallet)'
    BY <1>5 DEF Signers
  <2> QED
    BY <1>5, <2>1, <2>2, AfterCallSigners
<1>7. wallet'.signaturesRequired =
          IF tx.kind \in {"transfer", "selfTransfer"}
          THEN wallet.signaturesRequired ELSE tx.newSig
  <2>1. tx.kind \in Kinds
    BY TxFields
  <2> QED
    BY <1>5, <2>1 DEF AfterCall, AddSigners, RemoveSigners, UpdateSignaturesRequired, Transfer,
                      WalletType, Kinds, GovernanceKinds
<1>8. wallet'.signaturesRequired \in 1 .. Cardinality(Signers(wallet)')
  <2>1. /\ wallet'.signaturesRequired \in Nat /\ wallet'.signaturesRequired >= 1
        /\ wallet'.signaturesRequired <= wallet'.length
        /\ wallet' \in WalletType /\ Counted(wallet') /\ NoDuplicates(wallet')
    BY DEF ThresholdBounded, TypeOK, WalletType, Counted, NoDuplicates
  <2>2. Cardinality(Signers(wallet)') = wallet'.length /\ wallet'.length \in Nat
    BY <2>1, SignersOfDistinct DEF Signers, WalletType
  <2> QED
    BY <2>1, <2>2
<1>9. [i \in DOMAIN events' |-> events'[i].tx] = Append(ledger, tx)
  BY <1>2
<1>10. quorum \in SUBSET Commitment
  BY <1>4 DEF Signers
<1> QED
  BY <1>1, <1>3, <1>4, <1>6, <1>7, <1>8, <1>9, <1>10, SameCardinality, SameRange
     DEF Abstract!Next, Abstract!Decide, Abstract!SignersAfter, Abstract!Reachable

LEMMA AbstractStep ==
    DistinctInv /\ DistinctInv' /\ [Next]_vars => [Abstract!Next]_(Abstract!vars)
<1> SUFFICES ASSUME DistinctInv, DistinctInv', [Next]_vars
             PROVE  [Abstract!Next]_(Abstract!vars)
  OBVIOUS
<1>1. ASSUME NEW c \in Commitment, NEW tx \in Transactions, Aggregate(c, tx)
      PROVE  Abstract!Next
  <2>1. /\ wallet' = wallet /\ events' = events
        /\ {<<l.commitment, l.tx>> : l \in leaves'} =
               {<<l.commitment, l.tx>> : l \in leaves} \cup {<<c, tx>>}
    <3>1. wallet' = wallet /\ events' = events
      BY <1>1 DEF Aggregate
    <3> DEFINE leaf == [tx |-> tx, commitment |-> c, nullifier |-> Nullifier(c, tx)]
    <3>2. leaves' = leaves \cup {leaf} /\ leaf.commitment = c /\ leaf.tx = tx
      BY <1>1 DEF Aggregate
    <3> HIDE DEF leaf
    <3> QED
      BY <3>1, <3>2
  <2> QED
    BY <2>1 DEF Abstract!Next, Abstract!Approve, Signers
<1>2. ASSUME NEW tx \in Transactions, NEW proofs \in ProofLists, Execute(tx, proofs)
      PROVE  Abstract!Next
  BY <1>2, ExecuteDecides
<1>3. ASSUME NEW a \in Asset, NEW amount \in 1 .. MaxBalance, Deposit(a, amount)
      PROVE  UNCHANGED Abstract!vars
  <2>1. amount \in Nat
    BY BoundsType
  <2>2. /\ wallet'.copies = wallet.copies
        /\ wallet'.signaturesRequired = wallet.signaturesRequired
        /\ leaves' = leaves /\ events' = events
    BY <1>3, <2>1, ReceiveEffect DEF Deposit, DistinctInv, IInv, TypeOK
  <2> QED
    BY <2>2 DEF Abstract!vars, Signers
<1>4. CASE UNCHANGED vars
  BY <1>4 DEF vars, Abstract!vars, Signers
<1> QED
  BY <1>1, <1>2, <1>3, <1>4 DEF Next

\* A wallet deployed with distinct signers implements the abstract multisig: with its
\* proofs, nullifiers and replay maps, each execution is one decision by a quorum.
THEOREM RefinesMultisig == DeployedDistinct /\ Spec => ImplementsMultisig
BY AlwaysDistinct, AbstractInit, AbstractStep, PTL DEF Spec, ImplementsMultisig, Abstract!Spec
=============================================================================
