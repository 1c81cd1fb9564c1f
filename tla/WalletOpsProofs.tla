--------------------------- MODULE WalletOpsProofs ---------------------------
(* Lemmas about the operators of WalletOps: what each call of the contract *)
(* returns, preserves and bounds.                                          *)
EXTENDS WalletOps, FiniteSetTheorems, TLAPS

\* A list of n entries has n positions.
LEMMA IndexCardinality ==
    ASSUME NEW n \in Nat
    PROVE  IsFiniteSet(1 .. n) /\ Cardinality(1 .. n) = n
<1>1. 1 \in Int /\ n \in Int
  OBVIOUS
<1>2. /\ IsFiniteSet(1 .. n)
      /\ Cardinality(1 .. n) = IF 1 > n THEN 0 ELSE n - 1 + 1
  BY <1>1, FS_Interval, Zenon
<1>3. (IF 1 > n THEN 0 ELSE n - 1 + 1) = n
  OBVIOUS
<1>4. QED
  BY <1>2, <1>3

\* The number of entries of a list equal to c is a natural number.
LEMMA OccurrencesType ==
    ASSUME NEW list \in Seq(Commitment), NEW c
    PROVE  Occurrences(list, c) \in Nat
<1> DEFINE S == {i \in DOMAIN list : list[i] = c}
<1>1. IsFiniteSet(1 .. Len(list))
  BY FS_Interval
<1>2. S \in SUBSET (1 .. Len(list))
  OBVIOUS
<1>3. IsFiniteSet(S)
  BY <1>1, <1>2, FS_Subset
<1>4. QED
  BY <1>3, FS_CardinalityType DEF Occurrences

\* A transaction has the fields of TxType.
LEMMA TxFields ==
    ASSUME NEW tx \in Transactions
    PROVE  /\ tx.nonce \in Nat
           /\ tx.kind \in Kinds
           /\ tx.list \in Seq(Commitment)
           /\ tx.newSig \in Nat
           /\ tx.pay \in [Asset -> Nat]
BY TransactionsType DEF TxType

\* The constructor makes a well-formed wallet.
LEMMA ConstructedType ==
    ASSUME NEW list \in Seq(Commitment), NEW sigs \in Nat, NEW funds \in [Asset -> Nat]
    PROVE  Constructed(list, sigs, funds) \in WalletType
BY OccurrencesType DEF Constructed, WalletType

\* Marking the nonce and the nullifiers of a call leaves everything else alone.
LEMMA MarkSpentType ==
    ASSUME NEW w \in WalletType, NEW tx \in Transactions, NEW proofs \in Seq(ZkProof)
    PROVE  /\ MarkSpent(w, tx, proofs) \in WalletType
           /\ MarkSpent(w, tx, proofs).copies = w.copies
           /\ MarkSpent(w, tx, proofs).length = w.length
           /\ MarkSpent(w, tx, proofs).signaturesRequired = w.signaturesRequired
           /\ MarkSpent(w, tx, proofs).balance = w.balance
           /\ MarkSpent(w, tx, proofs).usedNonces = w.usedNonces \cup {tx.nonce}
           /\ MarkSpent(w, tx, proofs).usedNullifiers =
                  w.usedNullifiers \cup {proofs[i].nullifier : i \in DOMAIN proofs}
<1>1. \A i \in DOMAIN proofs : proofs[i].nullifier \in Nullifiers
  <2>1. \A i \in DOMAIN proofs : proofs[i] \in ZkProof
    OBVIOUS
  <2>2. QED
    BY <2>1 DEF ZkProof
<1>2. tx.nonce \in Nat
  BY TxFields
<1>3. QED
  BY <1>1, <1>2, ZenonT(30) DEF MarkSpent, WalletType

----------------------------------------------------------------------------

\* What each function returns, field by field: it changes the fields named in the
\* code and no other.
LEMMA AddSignersEffect ==
    ASSUME NEW w \in WalletType, NEW list \in Seq(Commitment), NEW newSig \in Nat
    PROVE  /\ AddSigners(w, list, newSig) \in WalletType
           /\ AddSigners(w, list, newSig).signaturesRequired = newSig
           /\ AddSigners(w, list, newSig).length = w.length + Len(list)
           /\ \A c \in Commitment : AddSigners(w, list, newSig).copies[c] =
                  (IF c \in Range(list) THEN w.copies[c] + 1 ELSE w.copies[c])
           /\ AddSigners(w, list, newSig).usedNonces = w.usedNonces
           /\ AddSigners(w, list, newSig).usedNullifiers = w.usedNullifiers
           /\ AddSigners(w, list, newSig).balance = w.balance
<1>1. w.length + Len(list) \in Nat
  BY DEF WalletType
<1>2. [c \in Commitment |-> IF c \in Range(list) THEN w.copies[c] + 1 ELSE w.copies[c]]
          \in [Commitment -> Nat]
  BY DEF WalletType
<1>3. QED
  BY <1>1, <1>2 DEF AddSigners, WalletType

\* Removing signers takes entries the array has, so every count stays a natural
\* number.
LEMMA RemoveSignersEffect ==
    ASSUME NEW w \in WalletType, NEW list \in Seq(Commitment), NEW newSig \in Nat,
           RemoveSignersAccepts(w, list, newSig)
    PROVE  /\ RemoveSigners(w, list, newSig) \in WalletType
           /\ RemoveSigners(w, list, newSig).signaturesRequired = newSig
           /\ RemoveSigners(w, list, newSig).length = w.length - Len(list)
           /\ \A c \in Commitment : RemoveSigners(w, list, newSig).copies[c] =
                  w.copies[c] - Occurrences(list, c)
           /\ RemoveSigners(w, list, newSig).usedNonces = w.usedNonces
           /\ RemoveSigners(w, list, newSig).usedNullifiers = w.usedNullifiers
           /\ RemoveSigners(w, list, newSig).balance = w.balance
<1>1. \A c \in Commitment : /\ Occurrences(list, c) \in Nat
                            /\ Occurrences(list, c) <= w.copies[c]
  BY OccurrencesType DEF RemoveSignersAccepts
<1>2. [c \in Commitment |-> w.copies[c] - Occurrences(list, c)] \in [Commitment -> Nat]
  BY <1>1 DEF WalletType
<1>3. w.length - Len(list) \in Nat
  BY DEF RemoveSignersAccepts, WalletType
<1>4. QED
  BY <1>2, <1>3 DEF RemoveSigners, WalletType

\* Changing the threshold leaves the array as it was.
LEMMA UpdateEffect ==
    ASSUME NEW w \in WalletType, NEW newSig \in Nat
    PROVE  /\ UpdateSignaturesRequired(w, newSig) \in WalletType
           /\ UpdateSignaturesRequired(w, newSig).signaturesRequired = newSig
           /\ UpdateSignaturesRequired(w, newSig).length = w.length
           /\ UpdateSignaturesRequired(w, newSig).copies = w.copies
           /\ UpdateSignaturesRequired(w, newSig).usedNonces = w.usedNonces
           /\ UpdateSignaturesRequired(w, newSig).usedNullifiers = w.usedNullifiers
           /\ UpdateSignaturesRequired(w, newSig).balance = w.balance
BY DEF UpdateSignaturesRequired, WalletType

\* A payment that the wallet can make only lowers balances.
LEMMA TransferEffect ==
    ASSUME NEW w \in WalletType, NEW pay \in [Asset -> Nat], TransferAccepts(w, pay)
    PROVE  /\ Transfer(w, pay) \in WalletType
           /\ Transfer(w, pay).signaturesRequired = w.signaturesRequired
           /\ Transfer(w, pay).length = w.length
           /\ Transfer(w, pay).copies = w.copies
           /\ Transfer(w, pay).usedNonces = w.usedNonces
           /\ Transfer(w, pay).usedNullifiers = w.usedNullifiers
           /\ \A a \in Asset : Transfer(w, pay).balance[a] = w.balance[a] - pay[a]
<1>1. [a \in Asset |-> w.balance[a] - pay[a]] \in [Asset -> Nat]
  BY DEF TransferAccepts, WalletType
<1>2. QED
  BY <1>1 DEF Transfer, WalletType

\* A payment received only raises balances.
LEMMA ReceiveEffect ==
    ASSUME NEW w \in WalletType, NEW a \in Asset, NEW amount \in Nat
    PROVE  /\ Receive(w, a, amount) \in WalletType
           /\ Receive(w, a, amount).signaturesRequired = w.signaturesRequired
           /\ Receive(w, a, amount).length = w.length
           /\ Receive(w, a, amount).copies = w.copies
           /\ Receive(w, a, amount).usedNonces = w.usedNonces
           /\ Receive(w, a, amount).usedNullifiers = w.usedNullifiers
           /\ \A x \in Asset : Receive(w, a, amount).balance[x] >= w.balance[x]
BY DEF Receive, WalletType

----------------------------------------------------------------------------

\* A call that succeeds leaves a well-formed wallet and touches neither replay map.
LEMMA AfterCallType ==
    ASSUME NEW w \in WalletType, NEW tx \in Transactions, CallSucceeds(w, tx)
    PROVE  /\ AfterCall(w, tx) \in WalletType
           /\ AfterCall(w, tx).usedNonces = w.usedNonces
           /\ AfterCall(w, tx).usedNullifiers = w.usedNullifiers
<1> USE TxFields
<1>1. CASE tx.kind = "addSigners"
  BY <1>1, AddSignersEffect DEF AfterCall
<1>2. CASE tx.kind = "removeSigners"
  <2>1. RemoveSignersAccepts(w, tx.list, tx.newSig)
    BY <1>2 DEF CallSucceeds
  <2>2. QED
    BY <1>2, <2>1, RemoveSignersEffect DEF AfterCall
<1>3. CASE tx.kind = "updateSignaturesRequired"
  BY <1>3, UpdateEffect DEF AfterCall
<1>4. CASE tx.kind = "transfer"
  <2>1. TransferAccepts(w, tx.pay)
    BY <1>4 DEF CallSucceeds
  <2>2. QED
    BY <1>4, <2>1, TransferEffect DEF AfterCall
<1>5. CASE tx.kind = "selfTransfer"
  BY <1>5 DEF AfterCall
<1>6. QED
  BY <1>1, <1>2, <1>3, <1>4, <1>5 DEF Kinds, GovernanceKinds

\* A call that succeeds keeps the threshold between 1 and the array's length.
LEMMA AfterCallBounded ==
    ASSUME NEW w \in WalletType, NEW tx \in Transactions, CallSucceeds(w, tx),
           1 <= w.signaturesRequired, w.signaturesRequired <= w.length
    PROVE  /\ 1 <= AfterCall(w, tx).signaturesRequired
           /\ AfterCall(w, tx).signaturesRequired <= AfterCall(w, tx).length
<1>0. /\ tx.kind \in Kinds
      /\ tx.list \in Seq(Commitment)
      /\ Len(tx.list) \in Nat
      /\ w.length \in Nat
      /\ tx.newSig \in Nat
      /\ tx.pay \in [Asset -> Nat]
  BY TxFields DEF WalletType
<1> USE <1>0
<1>1. CASE tx.kind = "addSigners"
  <2>1. AddSignersAccepts(w, tx.list, tx.newSig)
    BY <1>1 DEF CallSucceeds
  <2>2. AfterCall(w, tx) = AddSigners(w, tx.list, tx.newSig)
    BY <1>1 DEF AfterCall
  <2>3. /\ AfterCall(w, tx).signaturesRequired = tx.newSig
        /\ AfterCall(w, tx).length = w.length + Len(tx.list)
    <3>1. /\ AddSigners(w, tx.list, tx.newSig).signaturesRequired = tx.newSig
          /\ AddSigners(w, tx.list, tx.newSig).length = w.length + Len(tx.list)
      BY AddSignersEffect
    <3> QED
      BY <2>2, <3>1
  <2>4. tx.newSig > 0 /\ tx.newSig <= w.length + Len(tx.list)
    BY <2>1 DEF AddSignersAccepts
  <2>5. QED
    BY <2>3, <2>4
<1>2. CASE tx.kind = "removeSigners"
  <2>1. RemoveSignersAccepts(w, tx.list, tx.newSig)
    BY <1>2 DEF CallSucceeds
  <2>2. AfterCall(w, tx) = RemoveSigners(w, tx.list, tx.newSig)
    BY <1>2 DEF AfterCall
  <2>3. /\ AfterCall(w, tx).signaturesRequired = tx.newSig
        /\ AfterCall(w, tx).length = w.length - Len(tx.list)
    BY <2>1, <2>2, RemoveSignersEffect
  <2>4. tx.newSig > 0 /\ tx.newSig <= w.length - Len(tx.list)
    BY <2>1 DEF RemoveSignersAccepts
  <2>5. QED
    BY <2>3, <2>4
<1>3. CASE tx.kind = "updateSignaturesRequired"
  <2>1. UpdateSignaturesRequiredAccepts(w, tx.newSig)
    BY <1>3 DEF CallSucceeds
  <2>2. AfterCall(w, tx) = UpdateSignaturesRequired(w, tx.newSig)
    BY <1>3 DEF AfterCall
  <2>3. /\ AfterCall(w, tx).signaturesRequired = tx.newSig
        /\ AfterCall(w, tx).length = w.length
    <3>1. /\ UpdateSignaturesRequired(w, tx.newSig).signaturesRequired = tx.newSig
          /\ UpdateSignaturesRequired(w, tx.newSig).length = w.length
      BY UpdateEffect
    <3> QED
      BY <2>2, <3>1
  <2>4. tx.newSig > 0 /\ tx.newSig <= w.length
    BY <2>1 DEF UpdateSignaturesRequiredAccepts
  <2>5. QED
    BY <2>3, <2>4
<1>4. CASE tx.kind = "transfer"
  <2>1. TransferAccepts(w, tx.pay)
    BY <1>4 DEF CallSucceeds
  <2>2. AfterCall(w, tx) = Transfer(w, tx.pay)
    BY <1>4 DEF AfterCall
  <2>3. /\ AfterCall(w, tx).signaturesRequired = w.signaturesRequired
        /\ AfterCall(w, tx).length = w.length
    BY <2>1, <2>2, TransferEffect
  <2>4. QED
    BY <2>3
<1>5. CASE tx.kind = "selfTransfer"
  BY <1>5 DEF AfterCall
<1>6. QED
  BY <1>1, <1>2, <1>3, <1>4, <1>5 DEF Kinds, GovernanceKinds

----------------------------------------------------------------------------
(* The entries of the array, and the people they stand for. *)

\* What holds of 0 and passes from each number to the next holds of all up to n.
LEMMA PrefixInduction ==
    ASSUME NEW n \in Nat, NEW S, 0 \in S, \A i \in 1 .. n : i - 1 \in S => i \in S
    PROVE  \A i \in 0 .. n : i \in S
<1> SUFFICES ASSUME NEW k \in 0 .. n, k \notin S PROVE FALSE
  OBVIOUS
<1> DEFINE T == {i \in 0 .. n : i \notin S}
<1>1. T \subseteq Nat /\ T # {}
  OBVIOUS
<1>2. PICK x \in T : \A y \in T : ~ (<<y, x>> \in OpToRel(<, Nat))
  BY <1>1, NatLessThanWellFounded, WFMin, Zenon
<1>3. x \in 1 .. n /\ x - 1 \in Nat /\ x - 1 < x /\ x - 1 \in 0 .. n
  OBVIOUS
<1>4. x - 1 \notin T
  BY <1>1, <1>2, <1>3 DEF OpToRel
<1> QED
  BY <1>3, <1>4

\* The entries of an array that holds copies[c] of each commitment c, numbered.
EntriesOf(copies) == UNION {{c} \X (1 .. copies[c]) : c \in Commitment}

\* The positions up to n at which c stands, and the entries up to n, numbered for
\* each commitment.
Positions(list, n, c) == {i \in 1 .. n : list[i] = c}

EntriesUpTo(list, n) ==
    UNION {{c} \X (1 .. Cardinality(Positions(list, n, c))) : c \in Commitment}

LEMMA PositionsFinite ==
    ASSUME NEW list, NEW n \in Nat, NEW c
    PROVE  /\ IsFiniteSet(Positions(list, n, c))
           /\ Cardinality(Positions(list, n, c)) \in Nat
<1>1. IsFiniteSet(1 .. n)
  BY FS_Interval
<1>2. Positions(list, n, c) \in SUBSET (1 .. n)
  BY DEF Positions
<1>3. IsFiniteSet(Positions(list, n, c))
  BY <1>1, <1>2, FS_Subset
<1> QED
  BY <1>3, FS_CardinalityType

\* One position more counts for the commitment that stands there and for no other.
LEMMA PositionsStep ==
    ASSUME NEW list, NEW n \in Nat \ {0}, NEW c
    PROVE  Cardinality(Positions(list, n, c)) =
               IF c = list[n] THEN Cardinality(Positions(list, n - 1, c)) + 1
               ELSE Cardinality(Positions(list, n - 1, c))
<1>1. n - 1 \in Nat
  OBVIOUS
<1>2. IsFiniteSet(Positions(list, n - 1, c)) /\ n \notin Positions(list, n - 1, c)
  BY <1>1, PositionsFinite DEF Positions
<1>3. Positions(list, n, c) = IF c = list[n] THEN Positions(list, n - 1, c) \cup {n}
                              ELSE Positions(list, n - 1, c)
  BY DEF Positions
<1> QED
  BY <1>2, <1>3, FS_AddElement

\* A list has as many entries, numbered for each commitment, as its length.
LEMMA EntriesOfList ==
    ASSUME NEW list \in Seq(Commitment)
    PROVE  LET counts == [c \in Commitment |-> Occurrences(list, c)]
           IN  IsFiniteSet(EntriesOf(counts)) /\ Cardinality(EntriesOf(counts)) = Len(list)
<1> DEFINE S == {n \in 0 .. Len(list) : /\ IsFiniteSet(EntriesUpTo(list, n))
                                        /\ Cardinality(EntriesUpTo(list, n)) = n}
<1>1. Len(list) \in Nat /\ DOMAIN list = 1 .. Len(list)
  OBVIOUS
<1>2. 0 \in S
  <2>1. \A c : Positions(list, 0, c) = {}
    BY DEF Positions
  <2>2. \A c : Cardinality(Positions(list, 0, c)) = 0
    BY <2>1, FS_EmptySet
  <2>3. EntriesUpTo(list, 0) = {}
    BY <2>2 DEF EntriesUpTo
  <2>4. IsFiniteSet(EntriesUpTo(list, 0)) /\ Cardinality(EntriesUpTo(list, 0)) = 0
    BY <2>3, FS_EmptySet, Zenon
  <2> QED
    BY <1>1, <2>4
<1>3. ASSUME NEW n \in 1 .. Len(list), n - 1 \in S
      PROVE  n \in S
  <2> DEFINE before(c) == Cardinality(Positions(list, n - 1, c))
             x == <<list[n], before(list[n]) + 1>>
  <2>1. list[n] \in Commitment /\ n - 1 \in Nat /\ n \in Nat \ {0}
    BY <1>1
  <2>2. \A c \in Commitment : Cardinality(Positions(list, n, c)) =
            IF c = list[n] THEN before(c) + 1 ELSE before(c)
    BY <2>1, PositionsStep
  <2>3. \A c \in Commitment : before(c) \in Nat
    BY <2>1, PositionsFinite
  <2>4. EntriesUpTo(list, n - 1) = UNION {{c} \X (1 .. before(c)) : c \in Commitment}
    BY DEF EntriesUpTo
  <2> HIDE DEF before
  <2>5. EntriesUpTo(list, n) = EntriesUpTo(list, n - 1) \cup {x}
    BY <2>1, <2>2, <2>3, <2>4 DEF EntriesUpTo
  <2>6. x \notin EntriesUpTo(list, n - 1)
    BY <2>1, <2>3, <2>4
  <2>7. IsFiniteSet(EntriesUpTo(list, n - 1)) /\ Cardinality(EntriesUpTo(list, n - 1)) = n - 1
    BY <1>3
  <2> HIDE DEF x
  <2>8. /\ IsFiniteSet(EntriesUpTo(list, n))
        /\ Cardinality(EntriesUpTo(list, n)) = (n - 1) + 1
    BY <2>5, <2>6, <2>7, FS_AddElement
  <2> QED
    BY <2>1, <2>8
<1>4. Len(list) \in S
  <2> HIDE DEF S
  <2>1. \A n \in 1 .. Len(list) : n - 1 \in S => n \in S
    BY <1>3
  <2>2. \A n \in 0 .. Len(list) : n \in S
    BY <1>1, <1>2, <2>1, PrefixInduction, Zenon
  <2> QED
    BY <1>1, <2>2
<1>5. EntriesOf([c \in Commitment |-> Occurrences(list, c)]) = EntriesUpTo(list, Len(list))
  BY <1>1 DEF EntriesOf, EntriesUpTo, Occurrences, Positions
<1> QED
  BY <1>4, <1>5

\* A commitment that does not occur in a list is not in it, and only such a one.
LEMMA NoOccurrence ==
    ASSUME NEW list \in Seq(Commitment), NEW c
    PROVE  Occurrences(list, c) = 0 <=> c \notin Range(list)
<1> DEFINE S == {i \in DOMAIN list : list[i] = c}
<1>1. DOMAIN list = 1 .. Len(list) /\ Len(list) \in Nat
  OBVIOUS
<1>2. S = Positions(list, Len(list), c)
  BY <1>1 DEF Positions
<1>3. Cardinality(S) = 0 <=> S = {}
  BY <1>1, <1>2, PositionsFinite, FS_EmptySet
<1> QED
  BY <1>3 DEF Occurrences, Range

\* In a list without repetitions nothing occurs twice.
LEMMA OccursOnce ==
    ASSUME NEW list \in Seq(Commitment), IsInjective(list), NEW c
    PROVE  Occurrences(list, c) <= 1
<1> DEFINE S == {i \in DOMAIN list : list[i] = c}
<1>1. CASE S = {}
  <2>1. Cardinality(S) = 0
    BY <1>1, FS_EmptySet
  <2> QED
    BY <2>1 DEF Occurrences
<1>2. CASE S # {}
  <2>1. PICK i \in S : TRUE
    BY <1>2
  <2>2. S = {i}
    BY <2>1 DEF IsInjective
  <2>3. Cardinality(S) = 1
    BY <2>2, FS_Singleton
  <2> QED
    BY <2>3 DEF Occurrences
<1> QED
  BY <1>1, <1>2

\* The length of the array is the number of its entries.
Counted(w) == IsFiniteSet(EntriesOf(w.copies)) /\ w.length = Cardinality(EntriesOf(w.copies))

\* No commitment stands in the array twice.
NoDuplicates(w) == \A c \in Commitment : w.copies[c] <= 1

LEMMA EntriesMember ==
    ASSUME NEW copies, NEW e
    PROVE  e \in EntriesOf(copies) <=>
               \E c \in Commitment : \E k \in 1 .. copies[c] : e = <<c, k>>
BY DEF EntriesOf

\* The list of a deployment is counted by its length.
LEMMA ConstructedCounted ==
    ASSUME NEW list \in Seq(Commitment), NEW sigs \in Nat, NEW funds \in [Asset -> Nat]
    PROVE  Counted(Constructed(list, sigs, funds))
BY EntriesOfList DEF Counted, Constructed

\* addSigners adds one entry for each commitment of its list, none of which the
\* array held.
LEMMA AddSignersCounted ==
    ASSUME NEW w \in WalletType, NEW list \in Seq(Commitment), NEW newSig \in Nat,
           AddSignersAccepts(w, list, newSig), Counted(w)
    PROVE  Counted(AddSigners(w, list, newSig))
<1> DEFINE after == AddSigners(w, list, newSig)
           added == {<<c, 1>> : c \in Range(list)}
           f == [i \in 1 .. Len(list) |-> <<list[i], 1>>]
<1>1. Len(list) \in Nat /\ DOMAIN list = 1 .. Len(list) /\ Range(list) \subseteq Commitment
  BY DEF Range
<1>2. /\ after.length = w.length + Len(list)
      /\ \A c \in Commitment :
             after.copies[c] = IF c \in Range(list) THEN w.copies[c] + 1 ELSE w.copies[c]
  BY AddSignersEffect
<1>3. \A c \in Range(list) : w.copies[c] = 0
  BY DEF AddSignersAccepts, Range
<1>4. \A c \in Commitment : w.copies[c] \in Nat
  BY DEF WalletType
<1> HIDE DEF after
<1>5. EntriesOf(after.copies) = EntriesOf(w.copies) \cup added
  BY <1>1, <1>2, <1>3, <1>4 DEF EntriesOf
<1>6. EntriesOf(w.copies) \cap added = {}
  BY <1>3 DEF EntriesOf
<1>7. f \in Surjection(1 .. Len(list), added)
  BY <1>1 DEF Surjection, Range
<1>8. f \in Injection(1 .. Len(list), added)
  BY <1>1, <1>7 DEF Surjection, Injection, IsInjective, AddSignersAccepts
<1>9. IsFiniteSet(1 .. Len(list)) /\ Cardinality(1 .. Len(list)) = Len(list)
  BY <1>1, IndexCardinality
<1>10. IsFiniteSet(added) /\ Cardinality(added) = Len(list)
  BY <1>7, <1>8, <1>9, FS_Surjection
<1> HIDE DEF added
<1>11. /\ IsFiniteSet(EntriesOf(w.copies) \cup added)
       /\ Cardinality(EntriesOf(w.copies) \cup added) =
              Cardinality(EntriesOf(w.copies)) + Cardinality(added)
                  - Cardinality(EntriesOf(w.copies) \cap added)
  BY <1>10, FS_Union DEF Counted
<1>12. Cardinality(EntriesOf(w.copies) \cap added) = 0
  BY <1>6, FS_EmptySet
<1>13. Cardinality(EntriesOf(w.copies)) \in Nat
  BY FS_CardinalityType DEF Counted
<1>14. Counted(after)
  BY <1>1, <1>2, <1>5, <1>10, <1>11, <1>12, <1>13 DEF Counted
<1> QED
  BY <1>14 DEF after

\* removeSigners takes one entry away for each entry of its list.
LEMMA RemoveSignersCounted ==
    ASSUME NEW w \in WalletType, NEW list \in Seq(Commitment), NEW newSig \in Nat,
           RemoveSignersAccepts(w, list, newSig), Counted(w)
    PROVE  Counted(RemoveSigners(w, list, newSig))
<1> DEFINE after == RemoveSigners(w, list, newSig)
           counts == [c \in Commitment |-> Occurrences(list, c)]
           listed == EntriesOf(counts)
           f == [e \in listed |-> <<e[1], after.copies[e[1]] + e[2]>>]
           removed == {f[e] : e \in listed}
<1>1. /\ after.length = w.length - Len(list)
      /\ \A c \in Commitment : after.copies[c] = w.copies[c] - counts[c]
  BY RemoveSignersEffect
<1>2. \A c \in Commitment : /\ w.copies[c] \in Nat /\ counts[c] \in Nat
                            /\ counts[c] <= w.copies[c]
  BY OccurrencesType DEF WalletType, RemoveSignersAccepts
<1>3. IsFiniteSet(listed) /\ Cardinality(listed) = Len(list)
  BY EntriesOfList
<1>4. \A e \in listed : \E c \in Commitment : \E k \in 1 .. counts[c] : e = <<c, k>>
  BY EntriesMember
<1>5. \A c \in Commitment : \A k \in 1 .. counts[c] : <<c, k>> \in listed
  BY EntriesMember
<1> HIDE DEF after, counts, listed
<1>6. \A c \in Commitment : \A k \in 1 .. counts[c] : f[<<c, k>>] = <<c, after.copies[c] + k>>
  BY <1>5
<1>7. f \in Surjection(listed, removed)
  BY DEF Surjection
<1>8. \A e, d \in listed : f[e] = f[d] => e = d
  <2> SUFFICES ASSUME NEW e \in listed, NEW d \in listed, f[e] = f[d] PROVE e = d
    OBVIOUS
  <2>1. PICK c \in Commitment : \E k \in 1 .. counts[c] : e = <<c, k>>
    BY <1>4
  <2>2. PICK k \in 1 .. counts[c] : e = <<c, k>>
    BY <2>1
  <2>3. PICK b \in Commitment : \E j \in 1 .. counts[b] : d = <<b, j>>
    BY <1>4
  <2>4. PICK j \in 1 .. counts[b] : d = <<b, j>>
    BY <2>3
  <2>5. c = b /\ after.copies[c] + k = after.copies[b] + j
    BY <1>6, <2>2, <2>4
  <2> QED
    BY <1>1, <1>2, <2>2, <2>4, <2>5, SMTT(30)
<1>9. f \in Injection(listed, removed)
  BY <1>7, <1>8 DEF Surjection, Injection, IsInjective
<1>10. IsFiniteSet(removed) /\ Cardinality(removed) = Len(list)
  <2> HIDE DEF f, removed
  <2> QED
    BY <1>3, <1>7, <1>9, FS_Surjection
<1>11. \A x : x \in removed <=>
           \E c \in Commitment : \E k \in 1 .. counts[c] : x = <<c, after.copies[c] + k>>
  <2>1. ASSUME NEW c \in Commitment, NEW k \in 1 .. counts[c]
        PROVE  <<c, after.copies[c] + k>> \in removed
    <3>1. <<c, k>> \in listed /\ f[<<c, k>>] = <<c, after.copies[c] + k>>
      BY <1>5, <1>6
    <3> HIDE DEF f
    <3> QED
      BY <3>1
  <2>2. ASSUME NEW x \in removed
        PROVE  \E c \in Commitment : \E k \in 1 .. counts[c] : x = <<c, after.copies[c] + k>>
    <3>1. PICK e \in listed : x = f[e]
      OBVIOUS
    <3> HIDE DEF f
    <3> QED
      BY <1>4, <1>6, <3>1
  <2> HIDE DEF removed
  <2> QED
    BY <2>1, <2>2
<1> HIDE DEF f, removed
<1>12. EntriesOf(w.copies) = EntriesOf(after.copies) \cup removed
  <2>1. ASSUME NEW x \in EntriesOf(w.copies)
        PROVE  x \in EntriesOf(after.copies) \cup removed
    <3>1. PICK c \in Commitment : \E k \in 1 .. w.copies[c] : x = <<c, k>>
      BY <2>1, EntriesMember
    <3>2. PICK k \in 1 .. w.copies[c] : x = <<c, k>>
      BY <3>1
    <3>3. CASE k <= after.copies[c]
      <4>1. k \in 1 .. after.copies[c]
        BY <1>1, <1>2, <3>3
      <4> QED
        BY <3>2, <4>1, EntriesMember
    <3>4. CASE ~ (k <= after.copies[c])
      <4>1. k - after.copies[c] \in 1 .. counts[c]
            /\ k = after.copies[c] + (k - after.copies[c])
        BY <1>1, <1>2, <3>4
      <4> QED
        BY <1>11, <3>2, <4>1
    <3> QED
      BY <3>3, <3>4
  <2>2. ASSUME NEW c \in Commitment, NEW k \in 1 .. after.copies[c]
        PROVE  <<c, k>> \in EntriesOf(w.copies)
    <3>1. k \in 1 .. w.copies[c]
      BY <1>1, <1>2
    <3> QED
      BY <3>1, EntriesMember
  <2>3. ASSUME NEW c \in Commitment, NEW k \in 1 .. counts[c]
        PROVE  <<c, after.copies[c] + k>> \in EntriesOf(w.copies)
    <3>1. after.copies[c] + k \in 1 .. w.copies[c]
      BY <1>1, <1>2
    <3> QED
      BY <3>1, EntriesMember
  <2>4. \A x \in EntriesOf(after.copies) : x \in EntriesOf(w.copies)
    BY <2>2, EntriesMember
  <2>5. \A x \in removed : x \in EntriesOf(w.copies)
    BY <1>11, <2>3
  <2> QED
    BY <2>1, <2>4, <2>5
<1>13. EntriesOf(after.copies) \cap removed = {}
  <2> SUFFICES ASSUME NEW x \in removed, x \in EntriesOf(after.copies) PROVE FALSE
    OBVIOUS
  <2>1. PICK c \in Commitment : \E k \in 1 .. counts[c] : x = <<c, after.copies[c] + k>>
    BY <1>11
  <2>2. PICK k \in 1 .. counts[c] : x = <<c, after.copies[c] + k>>
    BY <2>1
  <2>3. after.copies[c] + k \in 1 .. after.copies[c]
    BY <2>2, EntriesMember
  <2> QED
    BY <1>1, <1>2, <2>2, <2>3
<1>14. EntriesOf(after.copies) = EntriesOf(w.copies) \ removed /\ removed \subseteq EntriesOf(w.copies)
  BY <1>12, <1>13
<1>15. /\ IsFiniteSet(EntriesOf(w.copies) \ removed)
       /\ Cardinality(EntriesOf(w.copies) \ removed) =
              Cardinality(EntriesOf(w.copies)) - Cardinality(EntriesOf(w.copies) \cap removed)
  BY FS_Difference DEF Counted
<1>16. EntriesOf(w.copies) \cap removed = removed
  BY <1>14
<1>17. Counted(after)
  BY <1>1, <1>10, <1>14, <1>15, <1>16 DEF Counted
<1> QED
  BY <1>17 DEF after

\* Without duplicates the length of the array is the number of people.
LEMMA SignersOfDistinct ==
    ASSUME NEW w \in WalletType, Counted(w), NoDuplicates(w)
    PROVE  IsFiniteSet(Signers(w)) /\ Cardinality(Signers(w)) = w.length
<1> DEFINE f == [e \in EntriesOf(w.copies) |-> e[1]]
<1>1. \A c \in Commitment : w.copies[c] \in {0, 1}
  BY DEF NoDuplicates, WalletType
<1>2. \A e : e \in EntriesOf(w.copies) <=> \E c \in Signers(w) : e = <<c, 1>>
  BY <1>1 DEF EntriesOf, Signers
<1>3. f \in Surjection(EntriesOf(w.copies), Signers(w))
  <2>1. \A e \in EntriesOf(w.copies) : f[e] \in Signers(w)
    BY <1>2
  <2>2. \A c \in Signers(w) : <<c, 1>> \in EntriesOf(w.copies) /\ f[<<c, 1>>] = c
    BY <1>2
  <2> QED
    BY <2>1, <2>2 DEF Surjection
<1>4. f \in Injection(EntriesOf(w.copies), Signers(w))
  BY <1>2, <1>3 DEF Surjection, Injection, IsInjective
<1> HIDE DEF f
<1> QED
  BY <1>3, <1>4, FS_Surjection DEF Counted

----------------------------------------------------------------------------

\* A call that succeeds keeps the count of the entries.
LEMMA AfterCallCounted ==
    ASSUME NEW w \in WalletType, NEW tx \in Transactions, CallSucceeds(w, tx), Counted(w)
    PROVE  Counted(AfterCall(w, tx))
<1> USE TxFields
<1>1. CASE tx.kind = "addSigners"
  <2>1. AddSignersAccepts(w, tx.list, tx.newSig)
    BY <1>1 DEF CallSucceeds
  <2> QED
    BY <1>1, <2>1, AddSignersCounted DEF AfterCall
<1>2. CASE tx.kind = "removeSigners"
  <2>1. RemoveSignersAccepts(w, tx.list, tx.newSig)
    BY <1>2 DEF CallSucceeds
  <2> QED
    BY <1>2, <2>1, RemoveSignersCounted DEF AfterCall
<1>3. CASE tx.kind = "updateSignaturesRequired"
  BY <1>3, UpdateEffect DEF AfterCall, Counted
<1>4. CASE tx.kind = "transfer"
  <2>1. TransferAccepts(w, tx.pay)
    BY <1>4 DEF CallSucceeds
  <2> QED
    BY <1>4, <2>1, TransferEffect DEF AfterCall, Counted
<1>5. CASE tx.kind = "selfTransfer"
  BY <1>5 DEF AfterCall
<1> QED
  BY <1>1, <1>2, <1>3, <1>4, <1>5 DEF Kinds, GovernanceKinds

\* A call that succeeds repeats no commitment, and the signers are those before it
\* with the additions or without the removals.
LEMMA AfterCallSigners ==
    ASSUME NEW w \in WalletType, NEW tx \in Transactions, CallSucceeds(w, tx), NoDuplicates(w)
    PROVE  /\ NoDuplicates(AfterCall(w, tx))
           /\ Signers(AfterCall(w, tx)) =
                  CASE tx.kind = "addSigners"    -> Signers(w) \cup Range(tx.list)
                    [] tx.kind = "removeSigners" -> Signers(w) \ Range(tx.list)
                    [] OTHER                     -> Signers(w)
<1>0. /\ tx.list \in Seq(Commitment) /\ tx.newSig \in Nat /\ tx.pay \in [Asset -> Nat]
      /\ Range(tx.list) \subseteq Commitment
  BY TxFields DEF Range
<1>1. \A c \in Commitment : w.copies[c] \in {0, 1}
  BY DEF NoDuplicates, WalletType
<1>2. CASE tx.kind = "addSigners"
  <2>1. AddSignersAccepts(w, tx.list, tx.newSig)
    BY <1>2 DEF CallSucceeds
  <2>2. \A c \in Commitment : AfterCall(w, tx).copies[c] =
            IF c \in Range(tx.list) THEN w.copies[c] + 1 ELSE w.copies[c]
    BY <1>0, <1>2, AddSignersEffect DEF AfterCall
  <2>3. \A c \in Range(tx.list) : w.copies[c] = 0
    BY <2>1 DEF AddSignersAccepts, Range
  <2> QED
    BY <1>0, <1>1, <1>2, <2>2, <2>3 DEF NoDuplicates, Signers
<1>3. CASE tx.kind = "removeSigners"
  <2>1. RemoveSignersAccepts(w, tx.list, tx.newSig)
    BY <1>3 DEF CallSucceeds
  <2>2. \A c \in Commitment : AfterCall(w, tx).copies[c] = w.copies[c] - Occurrences(tx.list, c)
    BY <1>0, <1>3, <2>1, RemoveSignersEffect DEF AfterCall
  <2>3. \A c \in Commitment : /\ Occurrences(tx.list, c) \in Nat
                              /\ Occurrences(tx.list, c) <= w.copies[c]
                              /\ Occurrences(tx.list, c) = 0 <=> c \notin Range(tx.list)
    BY <1>0, <2>1, OccurrencesType, NoOccurrence DEF RemoveSignersAccepts
  <2> QED
    BY <1>0, <1>1, <1>3, <2>2, <2>3 DEF NoDuplicates, Signers
<1>4. CASE tx.kind = "updateSignaturesRequired"
  BY <1>0, <1>4, UpdateEffect DEF AfterCall, NoDuplicates, Signers
<1>5. CASE tx.kind = "transfer"
  <2>1. TransferAccepts(w, tx.pay)
    BY <1>5 DEF CallSucceeds
  <2>2. AfterCall(w, tx).copies = w.copies
    BY <1>0, <1>5, <2>1, TransferEffect DEF AfterCall
  <2> QED
    BY <1>5, <2>2 DEF NoDuplicates, Signers
<1>6. CASE tx.kind = "selfTransfer"
  BY <1>6 DEF AfterCall
<1> QED
  BY <1>2, <1>3, <1>4, <1>5, <1>6, TxFields DEF Kinds, GovernanceKinds

----------------------------------------------------------------------------

\* Leaves carry the nullifier of their commitment and transaction.
Sound(known) == \A l \in known : l.nullifier = Nullifier(l.commitment, l.tx)

Approving(proofs) == {proofs[i].commitment : i \in DOMAIN proofs}

OwnNullifiers(tx, proofs) ==
    \A i \in DOMAIN proofs : proofs[i].nullifier = Nullifier(proofs[i].commitment, tx)

\* The proofs accepted in one call come from different people: two proofs of one
\* commitment for one transaction carry the same nullifier, and the second would
\* be refused.
LEMMA AcceptedDistinct ==
    ASSUME NEW w, NEW known, NEW tx, NEW proofs \in Seq(ZkProof),
           Sound(known), ProofsAccepted(w, known, tx, proofs)
    PROVE  /\ Cardinality(Approving(proofs)) = Len(proofs)
           /\ OwnNullifiers(tx, proofs)
<1> DEFINE n == Len(proofs)
<1> DEFINE f == [i \in 1 .. n |-> proofs[i].commitment]
<1>1. n \in Nat /\ DOMAIN proofs = 1 .. n
  OBVIOUS
<1>2. \A i \in 1 .. n : proofs[i].nullifier = Nullifier(proofs[i].commitment, tx)
  <2>1. SUFFICES ASSUME NEW i \in 1 .. n
                 PROVE  proofs[i].nullifier = Nullifier(proofs[i].commitment, tx)
    OBVIOUS
  <2>2. [tx |-> tx, commitment |-> proofs[i].commitment, nullifier |-> proofs[i].nullifier]
            \in known
    BY <1>1 DEF ProofsAccepted, VerifyProof
  <2>3. QED
    BY <2>2 DEF Sound
<1>3. \A i \in 1 .. n : \A j \in 1 .. i - 1 : proofs[j].nullifier # proofs[i].nullifier
  BY <1>1 DEF ProofsAccepted, NullifierUnused
<1>4. \A i, j \in 1 .. n : j < i => proofs[j].commitment # proofs[i].commitment
  <2>1. SUFFICES ASSUME NEW i \in 1 .. n, NEW j \in 1 .. n, j < i,
                        proofs[j].commitment = proofs[i].commitment
                 PROVE  FALSE
    OBVIOUS
  <2>2. j \in 1 .. i - 1
    BY <1>1, <2>1
  <2>3. proofs[j].nullifier = proofs[i].nullifier
    BY <1>2, <2>1
  <2>4. QED
    BY <1>3, <2>2, <2>3
<1>5. IsInjective(f)
  <2>1. \A i, j \in 1 .. n : proofs[i].commitment = proofs[j].commitment => i = j
    BY <1>1, <1>4
  <2>2. QED
    BY <2>1 DEF IsInjective
<1>6. f \in Surjection(1 .. n, Approving(proofs))
  BY <1>1 DEF Surjection, Approving
<1>7. f \in Injection(1 .. n, Approving(proofs))
  BY <1>5, <1>6 DEF Surjection, Injection
<1>8. IsFiniteSet(1 .. n) /\ Cardinality(1 .. n) = n
  BY <1>1, IndexCardinality
<1>9. Cardinality(Approving(proofs)) = n
  BY <1>6, <1>7, <1>8, FS_Surjection
<1>10. QED
  BY <1>1, <1>2, <1>9 DEF OwnNullifiers
=============================================================================
