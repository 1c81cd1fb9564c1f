------------------------- MODULE StylusWalletProofs -------------------------
(* The Rust port accepts the calls that the Solidity contract accepts and  *)
(* leaves the storage that the Solidity contract leaves.                   *)
EXTENDS StylusWallet, WalletOpsProofs

----------------------------------------------------------------------------
(* A loop passes through the storages that its turns may leave, one after  *)
(* the other, and returns the last.                                        *)

PushRun(f, s, list) ==
    /\ f[0] = {s}
    /\ \A i \in 1 .. Len(list) : f[i] = UNION {PushSigner(t, list[i]) : t \in f[i - 1]}
    /\ PushSigners(s, list) = f[Len(list)]

LEMMA PushLoop ==
    ASSUME NEW s, NEW list, Len(list) \in Nat
    PROVE  \E f : PushRun(f, s, list)
<1> DEFINE Turned(r, i) == UNION {PushSigner(t, list[i]) : t \in r}
           Rule(f, i) == IF i = 0 THEN {s} ELSE Turned(f[i - 1], i)
           IsRun(f, n) == f = [i \in 0 .. n |-> Rule(f, i)]
           S == {n \in 0 .. Len(list) : \E f : IsRun(f, n)}
           F == CHOOSE f : IsRun(f, Len(list))
<1>1. PushSigners(s, list) = F[Len(list)]
  BY DEF PushSigners, Loop
<1>2. 0 \in S
  <2> DEFINE g == [i \in 0 .. 0 |-> {s}]
  <2>1. \A i \in 0 .. 0 : i = 0
    OBVIOUS
  <2>2. IsRun(g, 0)
    BY <2>1, Zenon
  <2>3. 0 \in 0 .. Len(list)
    OBVIOUS
  <2> HIDE DEF g
  <2> QED
    BY <2>2, <2>3, Zenon
<1>3. ASSUME NEW n \in 1 .. Len(list), n - 1 \in S PROVE n \in S
  <2>1. PICK f : IsRun(f, n - 1)
    BY <1>3, Zenon
  <2> DEFINE g == [i \in 0 .. n |-> IF i = n THEN Turned(f[n - 1], n) ELSE f[i]]
  <2>2. \A i \in 0 .. n - 1 : f[i] = Rule(f, i)
    BY <2>1, Zenon
  <2>3. /\ \A i \in 0 .. n : g[i] = IF i = n THEN Turned(f[n - 1], n) ELSE f[i]
        /\ g = [i \in 0 .. n |-> g[i]]
    BY Zenon
  <2> HIDE DEF g, Turned
  <2>4. \A i \in 0 .. n : g[i] = Rule(g, i)
    <3>1. \A i \in 0 .. n : /\ i # n => i \in 0 .. n - 1 /\ g[i] = f[i]
                            /\ i # 0 => i - 1 \in 0 .. n /\ i - 1 # n /\ g[i - 1] = f[i - 1]
      BY <2>3
    <3>2. n # 0 /\ n \in 0 .. n
      OBVIOUS
    <3> QED
      BY <2>2, <2>3, <3>1, <3>2, Zenon
  <2> HIDE DEF Rule
  <2>5. IsRun(g, n)
    BY <2>3, <2>4
  <2> QED
    BY <2>5
<1>4. Len(list) \in S
  <2> HIDE DEF S
  <2>1. \A n \in 0 .. Len(list) : n \in S
    BY <1>2, <1>3, PrefixInduction
  <2> QED
    BY <2>1
<1>5. IsRun(F, Len(list))
  BY <1>4, Zenon
<1> HIDE DEF F
<1>6. \A i \in 0 .. Len(list) : F[i] = Rule(F, i)
  BY <1>5, Zenon
<1> HIDE DEF Turned
<1>7. F[0] = {s} /\ \A i \in 1 .. Len(list) : F[i] = Turned(F[i - 1], i)
  <2>1. 0 \in 0 .. Len(list) /\ \A i \in 1 .. Len(list) : i \in 0 .. Len(list) /\ i # 0
    OBVIOUS
  <2> QED
    BY <1>6, <2>1, Zenon
<1> QED
  BY <1>1, <1>7, Zenon DEF Turned, PushRun

PopRun(f, s, list) ==
    /\ f[0] = {s}
    /\ \A i \in 1 .. Len(list) : f[i] = UNION {SwapAndPop(t, list[i]) : t \in f[i - 1]}
    /\ PopSigners(s, list) = f[Len(list)]

LEMMA PopLoop ==
    ASSUME NEW s, NEW list, Len(list) \in Nat
    PROVE  \E f : PopRun(f, s, list)
<1> DEFINE Turned(r, i) == UNION {SwapAndPop(t, list[i]) : t \in r}
           Rule(f, i) == IF i = 0 THEN {s} ELSE Turned(f[i - 1], i)
           IsRun(f, n) == f = [i \in 0 .. n |-> Rule(f, i)]
           S == {n \in 0 .. Len(list) : \E f : IsRun(f, n)}
           F == CHOOSE f : IsRun(f, Len(list))
<1>1. PopSigners(s, list) = F[Len(list)]
  BY DEF PopSigners, Loop
<1>2. 0 \in S
  <2> DEFINE g == [i \in 0 .. 0 |-> {s}]
  <2>1. \A i \in 0 .. 0 : i = 0
    OBVIOUS
  <2>2. IsRun(g, 0)
    BY <2>1, Zenon
  <2>3. 0 \in 0 .. Len(list)
    OBVIOUS
  <2> HIDE DEF g
  <2> QED
    BY <2>2, <2>3, Zenon
<1>3. ASSUME NEW n \in 1 .. Len(list), n - 1 \in S PROVE n \in S
  <2>1. PICK f : IsRun(f, n - 1)
    BY <1>3, Zenon
  <2> DEFINE g == [i \in 0 .. n |-> IF i = n THEN Turned(f[n - 1], n) ELSE f[i]]
  <2>2. \A i \in 0 .. n - 1 : f[i] = Rule(f, i)
    BY <2>1, Zenon
  <2>3. /\ \A i \in 0 .. n : g[i] = IF i = n THEN Turned(f[n - 1], n) ELSE f[i]
        /\ g = [i \in 0 .. n |-> g[i]]
    BY Zenon
  <2> HIDE DEF g, Turned
  <2>4. \A i \in 0 .. n : g[i] = Rule(g, i)
    <3>1. \A i \in 0 .. n : /\ i # n => i \in 0 .. n - 1 /\ g[i] = f[i]
                            /\ i # 0 => i - 1 \in 0 .. n /\ i - 1 # n /\ g[i - 1] = f[i - 1]
      BY <2>3
    <3>2. n # 0 /\ n \in 0 .. n
      OBVIOUS
    <3> QED
      BY <2>2, <2>3, <3>1, <3>2, Zenon
  <2> HIDE DEF Rule
  <2>5. IsRun(g, n)
    BY <2>3, <2>4
  <2> QED
    BY <2>5
<1>4. Len(list) \in S
  <2> HIDE DEF S
  <2>1. \A n \in 0 .. Len(list) : n \in S
    BY <1>2, <1>3, PrefixInduction
  <2> QED
    BY <2>1
<1>5. IsRun(F, Len(list))
  BY <1>4, Zenon
<1> HIDE DEF F
<1>6. \A i \in 0 .. Len(list) : F[i] = Rule(F, i)
  BY <1>5, Zenon
<1> HIDE DEF Turned
<1>7. F[0] = {s} /\ \A i \in 1 .. Len(list) : F[i] = Turned(F[i - 1], i)
  <2>1. 0 \in 0 .. Len(list) /\ \A i \in 1 .. Len(list) : i \in 0 .. Len(list) /\ i # 0
    OBVIOUS
  <2> QED
    BY <1>6, <2>1, Zenon
<1> QED
  BY <1>1, <1>7, Zenon DEF Turned, PopRun

CheckRun(f, s, proofs, tx) ==
    /\ f[0] = {s}
    /\ \A i \in 1 .. Len(proofs) : f[i] = UNION {CheckProof(t, tx, proofs[i]) : t \in f[i - 1]}
    /\ CheckProofs(s, tx, proofs) = f[Len(proofs)]

LEMMA CheckLoop ==
    ASSUME NEW s, NEW proofs, NEW tx, Len(proofs) \in Nat
    PROVE  \E f : CheckRun(f, s, proofs, tx)
<1> DEFINE Turned(r, i) == UNION {CheckProof(t, tx, proofs[i]) : t \in r}
           Rule(f, i) == IF i = 0 THEN {s} ELSE Turned(f[i - 1], i)
           IsRun(f, n) == f = [i \in 0 .. n |-> Rule(f, i)]
           S == {n \in 0 .. Len(proofs) : \E f : IsRun(f, n)}
           F == CHOOSE f : IsRun(f, Len(proofs))
<1>1. CheckProofs(s, tx, proofs) = F[Len(proofs)]
  BY DEF CheckProofs, Loop
<1>2. 0 \in S
  <2> DEFINE g == [i \in 0 .. 0 |-> {s}]
  <2>1. \A i \in 0 .. 0 : i = 0
    OBVIOUS
  <2>2. IsRun(g, 0)
    BY <2>1, Zenon
  <2>3. 0 \in 0 .. Len(proofs)
    OBVIOUS
  <2> HIDE DEF g
  <2> QED
    BY <2>2, <2>3, Zenon
<1>3. ASSUME NEW n \in 1 .. Len(proofs), n - 1 \in S PROVE n \in S
  <2>1. PICK f : IsRun(f, n - 1)
    BY <1>3, Zenon
  <2> DEFINE g == [i \in 0 .. n |-> IF i = n THEN Turned(f[n - 1], n) ELSE f[i]]
  <2>2. \A i \in 0 .. n - 1 : f[i] = Rule(f, i)
    BY <2>1, Zenon
  <2>3. /\ \A i \in 0 .. n : g[i] = IF i = n THEN Turned(f[n - 1], n) ELSE f[i]
        /\ g = [i \in 0 .. n |-> g[i]]
    BY Zenon
  <2> HIDE DEF g, Turned
  <2>4. \A i \in 0 .. n : g[i] = Rule(g, i)
    <3>1. \A i \in 0 .. n : /\ i # n => i \in 0 .. n - 1 /\ g[i] = f[i]
                            /\ i # 0 => i - 1 \in 0 .. n /\ i - 1 # n /\ g[i - 1] = f[i - 1]
      BY <2>3
    <3>2. n # 0 /\ n \in 0 .. n
      OBVIOUS
    <3> QED
      BY <2>2, <2>3, <3>1, <3>2, Zenon
  <2> HIDE DEF Rule
  <2>5. IsRun(g, n)
    BY <2>3, <2>4
  <2> QED
    BY <2>5
<1>4. Len(proofs) \in S
  <2> HIDE DEF S
  <2>1. \A n \in 0 .. Len(proofs) : n \in S
    BY <1>2, <1>3, PrefixInduction
  <2> QED
    BY <2>1
<1>5. IsRun(F, Len(proofs))
  BY <1>4, Zenon
<1> HIDE DEF F
<1>6. \A i \in 0 .. Len(proofs) : F[i] = Rule(F, i)
  BY <1>5, Zenon
<1> HIDE DEF Turned
<1>7. F[0] = {s} /\ \A i \in 1 .. Len(proofs) : F[i] = Turned(F[i - 1], i)
  <2>1. 0 \in 0 .. Len(proofs) /\ \A i \in 1 .. Len(proofs) : i \in 0 .. Len(proofs) /\ i # 0
    OBVIOUS
  <2> QED
    BY <1>6, <2>1, Zenon
<1> QED
  BY <1>1, <1>7, Zenon DEF Turned, CheckRun

----------------------------------------------------------------------------
(* One turn of each loop.                                                  *)

\* t is s but for the named field.
SameButSigners(t, s) ==
    /\ t \in StoreType
    /\ t.initialized = s.initialized
    /\ t.signatures_required = s.signatures_required
    /\ t.used_nonces = s.used_nonces
    /\ t.used_nullifiers = s.used_nullifiers
    /\ t.balance = s.balance

\* The number of entries of the array equal to c.
LEMMA OccurrencesInPositions ==
    ASSUME NEW list \in Seq(Commitment), NEW c
    PROVE  Occurrences(list, c) = Cardinality(Positions(list, Len(list), c))
<1>1. DOMAIN list = 1 .. Len(list)
  OBVIOUS
<1> QED
  BY <1>1 DEF Occurrences, Positions

LEMMA InArray ==
    ASSUME NEW list \in Seq(Commitment), NEW c
    PROVE  c \in ToSet(list) <=> Occurrences(list, c) # 0
BY NoOccurrence DEF ToSet, Range

LEMMA AppendOccurrences ==
    ASSUME NEW list \in Seq(Commitment), NEW e \in Commitment, NEW c
    PROVE  Occurrences(Append(list, e), c) =
               IF c = e THEN Occurrences(list, c) + 1 ELSE Occurrences(list, c)
<1> DEFINE q == Append(list, e)
           n == Len(list)
<1>1. /\ q \in Seq(Commitment) /\ Len(q) = n + 1 /\ n \in Nat /\ q[n + 1] = e
      /\ \A i \in 1 .. n : q[i] = list[i]
  OBVIOUS
<1>2. Positions(q, n, c) = Positions(list, n, c)
  BY <1>1 DEF Positions
<1>3. Cardinality(Positions(q, n + 1, c)) =
          IF c = q[n + 1] THEN Cardinality(Positions(q, n, c)) + 1
          ELSE Cardinality(Positions(q, n, c))
  <2>1. n + 1 \in Nat \ {0} /\ (n + 1) - 1 = n
    BY <1>1
  <2> HIDE DEF q, n
  <2> QED
    BY <2>1, PositionsStep
<1> HIDE DEF q
<1> QED
  BY <1>1, <1>2, <1>3, OccurrencesInPositions DEF q

\* A commitment is appended when the array does not hold it.
LEMMA PushTurn ==
    ASSUME NEW t \in StoreType, NEW c \in Commitment
    PROVE  /\ PushSigner(t, c) # {} <=> Occurrences(t.commitments, c) = 0
           /\ \A u \in PushSigner(t, c) :
                 /\ SameButSigners(u, t)
                 /\ Len(u.commitments) = Len(t.commitments) + 1
                 /\ \A d \in Commitment : Occurrences(u.commitments, d) =
                        IF d = c THEN Occurrences(t.commitments, d) + 1
                        ELSE Occurrences(t.commitments, d)
<1>1. t.commitments \in Seq(Commitment)
  BY DEF StoreType
<1>2. PushSigner(t, c) # {} <=> Occurrences(t.commitments, c) = 0
  BY <1>1, InArray DEF PushSigner
<1>3. ASSUME NEW u \in PushSigner(t, c)
      PROVE  SameButSigners(u, t) /\ u.commitments = Append(t.commitments, c)
  <2>1. u = [t EXCEPT !.commitments = Append(t.commitments, c)]
    BY DEF PushSigner
  <2>2. Append(t.commitments, c) \in Seq(Commitment)
    BY <1>1
  <2> QED
    BY <2>1, <2>2 DEF SameButSigners, StoreType
<1>4. Len(Append(t.commitments, c)) = Len(t.commitments) + 1
  BY <1>1
<1>5. ASSUME NEW d \in Commitment
      PROVE  Occurrences(Append(t.commitments, c), d) =
                 IF d = c THEN Occurrences(t.commitments, d) + 1
                 ELSE Occurrences(t.commitments, d)
  BY <1>1, AppendOccurrences
<1> QED
  BY <1>2, <1>3, <1>4, <1>5

\* Taking out the first entry that equals c leaves one entry less, equal to c.
LEMMA SwapOccurrences ==
    ASSUME NEW q \in Seq(Commitment), NEW j \in DOMAIN q, NEW c, q[j] = c, NEW d,
           NEW v \in Seq(Commitment), Len(v) = Len(q) - 1,
           \A i \in DOMAIN v : v[i] = IF i = j THEN q[Len(q)] ELSE q[i]
    PROVE  Occurrences(v, d) =
               IF d = c THEN Occurrences(q, d) - 1 ELSE Occurrences(q, d)
<1> DEFINE n == Len(q)
           P == Positions(q, n, d)
           R == Positions(v, n - 1, d)
<1>1. /\ n \in Nat \ {0} /\ n - 1 \in Nat /\ j \in 1 .. n /\ n \in 1 .. n
      /\ DOMAIN v = 1 .. n - 1 /\ Len(v) = n - 1
      /\ \A i \in 1 .. n : i # n => i \in 1 .. n - 1
      /\ \A i \in 1 .. n - 1 : i \in 1 .. n /\ i # n
  OBVIOUS
<1>2. Occurrences(q, d) = Cardinality(P) /\ Occurrences(v, d) = Cardinality(R)
  BY <1>1, OccurrencesInPositions
<1>3. IsFiniteSet(P) /\ Cardinality(P) \in Nat /\ IsFiniteSet(R) /\ Cardinality(R) \in Nat
  BY <1>1, PositionsFinite
<1>4. /\ \A i : i \in P <=> i \in 1 .. n /\ q[i] = d
      /\ \A i : i \in R <=> i \in 1 .. n - 1 /\ (IF i = j THEN q[n] ELSE q[i]) = d
  BY <1>1 DEF Positions
<1> HIDE DEF n, P, R
<1>5. CASE d = c /\ q[n] = c
  <2>1. n \in P /\ R = P \ {n}
    BY <1>1, <1>4, <1>5
  <2> QED
    BY <1>2, <1>3, <1>5, <2>1, FS_RemoveElement
<1>6. CASE d = c /\ q[n] # c
  <2>1. j \in P /\ R = P \ {j}
    BY <1>1, <1>4, <1>6
  <2> QED
    BY <1>2, <1>3, <1>6, <2>1, FS_RemoveElement
<1>7. CASE d # c /\ q[n] # d
  <2>1. R = P
    BY <1>1, <1>4, <1>7
  <2> QED
    BY <1>2, <1>7, <2>1
<1>8. CASE d # c /\ q[n] = d
  <2>1. j # n /\ j \notin P /\ j \in R /\ n \in P /\ R \ {j} = P \ {n}
    BY <1>1, <1>4, <1>8
  <2>2. Cardinality(R \ {j}) = Cardinality(R) - 1 /\ Cardinality(P \ {n}) = Cardinality(P) - 1
    BY <1>3, <2>1, FS_RemoveElement
  <2>3. Cardinality(R \ {j}) = Cardinality(P \ {n})
    BY <2>1, Zenon
  <2>4. Cardinality(R) = Cardinality(P)
    BY <1>3, <2>2, <2>3
  <2> QED
    BY <1>2, <1>8, <2>4
<1> QED
  BY <1>5, <1>6, <1>7, <1>8

\* What stands in the array stands somewhere first.
LEMMA FirstPosition ==
    ASSUME NEW q \in Seq(Commitment), NEW c, c \in ToSet(q)
    PROVE  \E j \in DOMAIN q : q[j] = c /\ \A k \in 1 .. j - 1 : q[k] # c
<1> SUFFICES ASSUME \A j \in 1 .. Len(q) :
                        q[j] = c => \E k \in 1 .. j - 1 : q[k] = c
             PROVE  FALSE
  OBVIOUS
<1> DEFINE S == {i \in 0 .. Len(q) : \A k \in 1 .. i : q[k] # c}
<1>1. 0 \in S /\ Len(q) \in Nat /\ Len(q) \in 0 .. Len(q)
  OBVIOUS
<1>2. ASSUME NEW i \in 1 .. Len(q), i - 1 \in S PROVE i \in S
  <2>1. \A k \in 1 .. i - 1 : q[k] # c
    BY <1>2
  <2>2. q[i] # c
    BY <2>1
  <2>3. i \in 0 .. Len(q) /\ \A k \in 1 .. i : k = i \/ k \in 1 .. i - 1
    OBVIOUS
  <2> QED
    BY <2>1, <2>2, <2>3
<1>3. \A i \in 0 .. Len(q) : i \in S
  <2> HIDE DEF S
  <2> QED
    BY <1>1, <1>2, PrefixInduction
<1>4. \A k \in 1 .. Len(q) : q[k] # c
  BY <1>1, <1>3
<1>5. PICK i \in DOMAIN q : q[i] = c
  BY DEF ToSet
<1> QED
  BY <1>4, <1>5

\* Removal finds its commitment or fails, and takes one entry.
LEMMA SwapTurn ==
    ASSUME NEW t \in StoreType, NEW c \in Commitment
    PROVE  /\ SwapAndPop(t, c) # {} <=> Occurrences(t.commitments, c) # 0
           /\ \A u \in SwapAndPop(t, c) :
                 /\ SameButSigners(u, t)
                 /\ Len(u.commitments) = Len(t.commitments) - 1
                 /\ \A d \in Commitment : Occurrences(u.commitments, d) =
                        IF d = c THEN Occurrences(t.commitments, d) - 1
                        ELSE Occurrences(t.commitments, d)
<1> DEFINE q == t.commitments
           First(i) == q[i] = c /\ \A k \in 1 .. i - 1 : q[k] # c
           Popped(j) == Front([q EXCEPT ![j] = Last(q)])
<1>1. q \in Seq(Commitment)
  BY DEF StoreType
<1>2. ASSUME NEW u
      PROVE  u \in SwapAndPop(t, c) <=>
                 \E j \in DOMAIN q : First(j) /\ u = [t EXCEPT !.commitments = Popped(j)]
  BY DEF SwapAndPop
<1>3. SwapAndPop(t, c) # {} <=> Occurrences(q, c) # 0
  <2>1. ASSUME c \in ToSet(q) PROVE SwapAndPop(t, c) # {}
    <3>1. PICK j \in DOMAIN q : First(j)
      BY <1>1, <2>1, FirstPosition
    <3> QED
      BY <1>2, <3>1
  <2>2. ASSUME SwapAndPop(t, c) # {} PROVE c \in ToSet(q)
    <3>1. PICK u : u \in SwapAndPop(t, c)
      BY <2>2
    <3>2. PICK j \in DOMAIN q : First(j)
      BY <1>2, <3>1
    <3> QED
      BY <3>2 DEF ToSet
  <2> QED
    BY <1>1, <2>1, <2>2, InArray
<1>4. ASSUME NEW u \in SwapAndPop(t, c)
      PROVE  /\ SameButSigners(u, t)
             /\ Len(u.commitments) = Len(q) - 1
             /\ \A d \in Commitment : Occurrences(u.commitments, d) =
                    IF d = c THEN Occurrences(q, d) - 1 ELSE Occurrences(q, d)
  <2>1. PICK j \in DOMAIN q : First(j) /\ u = [t EXCEPT !.commitments = Popped(j)]
    BY <1>2, <1>4
  <2> DEFINE v == Popped(j)
             r == [q EXCEPT ![j] = Last(q)]
  <2>2. /\ r \in Seq(Commitment) /\ Len(r) = Len(q)
        /\ \A i \in DOMAIN q : r[i] = IF i = j THEN q[Len(q)] ELSE q[i]
    BY <1>1 DEF Last
  <2>3. /\ v \in Seq(Commitment) /\ Len(v) = Len(q) - 1
        /\ \A i \in DOMAIN v : v[i] = IF i = j THEN q[Len(q)] ELSE q[i]
    <3> HIDE DEF r
    <3>1. v = SubSeq(r, 1, Len(r) - 1)
      BY DEF Front, r
    <3> DEFINE m == Len(q) - 1
    <3> HIDE DEF v, q
    <3>2. m \in Nat /\ m <= Len(r) /\ v = SubSeq(r, 1, m)
      BY <1>1, <2>2, <3>1
    <3>3. /\ v \in Seq(Commitment) /\ Len(v) = m
          /\ \A i \in 1 .. m : v[i] = r[i]
      BY <1>1, <2>2, <3>2
    <3>4. \A i \in 1 .. m : i \in DOMAIN q
      BY <1>1
    <3> QED
      BY <2>2, <3>3, <3>4, SMTT(30)
  <2> HIDE DEF v
  <2>4. SameButSigners(u, t) /\ u.commitments = v
    BY <2>1, <2>3 DEF SameButSigners, StoreType, v
  <2>5. \A d \in Commitment : Occurrences(v, d) =
            IF d = c THEN Occurrences(q, d) - 1 ELSE Occurrences(q, d)
    <3> HIDE DEF q
    <3> QED
      BY <1>1, <2>1, <2>3, SwapOccurrences, SMTT(30)
  <2> QED
    BY <2>3, <2>4, <2>5
<1> QED
  BY <1>3, <1>4

----------------------------------------------------------------------------
(* Whole loops.                                                            *)

\* A list in which nothing occurs twice repeats nothing.
LEMMA OnceIsInjective ==
    ASSUME NEW list \in Seq(Commitment), \A c \in Commitment : Occurrences(list, c) <= 1
    PROVE  IsInjective(list)
<1> SUFFICES ASSUME NEW i \in DOMAIN list, NEW j \in DOMAIN list, list[i] = list[j], i # j
             PROVE  FALSE
  BY DEF IsInjective
<1> DEFINE c == list[i]
           P == Positions(list, Len(list), c)
<1>1. c \in Commitment /\ Len(list) \in Nat
  OBVIOUS
<1>2. i \in P /\ j \in P
  BY DEF Positions
<1>3. Cardinality(P) <= 1 /\ IsFiniteSet(P) /\ Cardinality(P) \in Nat
  BY <1>1, OccurrencesInPositions, PositionsFinite
<1> HIDE DEF P
<1>4. Cardinality(P \ {i}) = Cardinality(P) - 1 /\ IsFiniteSet(P \ {i})
  BY <1>2, <1>3, FS_RemoveElement
<1>5. Cardinality(P \ {i}) \in Nat
  BY <1>4, FS_CardinalityType
<1>6. Cardinality(P \ {i}) = 0
  BY <1>3, <1>4, <1>5
<1>7. P \ {i} = {}
  BY <1>4, <1>6, FS_EmptySet
<1> QED
  BY <1>2, <1>7

\* The loop of addSigners: every entry of the list is new, and they are all stored.
LEMMA PushedList ==
    ASSUME NEW s \in StoreType, NEW list \in Seq(Commitment)
    PROVE  /\ PushSigners(s, list) # {} <=>
                  /\ IsInjective(list)
                  /\ \A i \in DOMAIN list : Occurrences(s.commitments, list[i]) = 0
           /\ \A u \in PushSigners(s, list) :
                 /\ SameButSigners(u, s)
                 /\ Len(u.commitments) = Len(s.commitments) + Len(list)
                 /\ \A d \in Commitment : Occurrences(u.commitments, d) =
                        Occurrences(s.commitments, d) + Occurrences(list, d)
<1> DEFINE n == Len(list)
           Had(d) == Occurrences(s.commitments, d)
           New(i, d) == Cardinality(Positions(list, i, d))
<1>1. /\ n \in Nat /\ s.commitments \in Seq(Commitment) /\ Len(s.commitments) \in Nat
      /\ \A i \in 1 .. n : list[i] \in Commitment
  BY DEF StoreType
<1>2. \A d : /\ Had(d) \in Nat /\ Occurrences(list, d) \in Nat
             /\ Occurrences(list, d) = New(n, d)
  BY <1>1, OccurrencesType, OccurrencesInPositions
<1>3. \A i \in 0 .. n : \A d : New(i, d) \in Nat
  BY <1>1, PositionsFinite
<1>4. \A i \in 1 .. n : \A d : New(i, d) = IF d = list[i] THEN New(i - 1, d) + 1 ELSE New(i - 1, d)
  BY <1>1, PositionsStep
<1>5. PICK f : PushRun(f, s, list)
  <2>1. Len(list) \in Nat
    OBVIOUS
  <2> QED
    BY <2>1, PushLoop
<1> DEFINE Fits(i) == \A d \in Commitment : New(i, d) = 0 \/ Had(d) + New(i, d) = 1
           Stored(u, i) == /\ SameButSigners(u, s)
                           /\ Len(u.commitments) = Len(s.commitments) + i
                           /\ \A d \in Commitment :
                                 Occurrences(u.commitments, d) = Had(d) + New(i, d)
           S == {i \in 0 .. n : (f[i] # {} <=> Fits(i)) /\ \A u \in f[i] : Stored(u, i)}
<1>6. 0 \in S
  <2>1. \A d : New(0, d) = 0
    <3>1. \A d : Positions(list, 0, d) = {}
      BY DEF Positions
    <3> QED
      BY <3>1, FS_EmptySet
  <2>2. SameButSigners(s, s)
    BY DEF SameButSigners
  <2> HIDE DEF New
  <2>3. Fits(0) /\ Stored(s, 0)
    BY <1>1, <1>2, <2>1, <2>2
  <2>4. 0 \in 0 .. n
    BY <1>1
  <2> HIDE DEF Fits, Stored, n
  <2> QED
    BY <1>5, <2>3, <2>4 DEF PushRun
<1>7. ASSUME NEW i \in 1 .. n, i - 1 \in S PROVE i \in S
  <2> DEFINE e == list[i]
  <2>1. /\ f[i - 1] # {} <=> Fits(i - 1)
        /\ \A t \in f[i - 1] : Stored(t, i - 1)
        /\ i \in 0 .. n /\ i - 1 \in 0 .. n
    BY <1>7
  <2>2. \A t \in f[i - 1] : /\ t \in StoreType /\ t.commitments \in Seq(Commitment)
                            /\ Len(t.commitments) = Len(s.commitments) + (i - 1)
                            /\ Occurrences(t.commitments, e) = Had(e) + New(i - 1, e)
    BY <1>1, <2>1 DEF SameButSigners, StoreType
  <2>3. \A t \in f[i - 1] : PushSigner(t, e) # {} <=> Had(e) + New(i - 1, e) = 0
    BY <1>1, <2>2, PushTurn
  <2>4. \A u : u \in f[i] <=> \E t \in f[i - 1] : u \in PushSigner(t, e)
    BY <1>5 DEF PushRun
  <2>5. f[i] # {} <=> f[i - 1] # {} /\ Had(e) + New(i - 1, e) = 0
    BY <2>3, <2>4, Zenon
  <2>6. f[i] # {} <=> Fits(i)
    <3> HIDE DEF New, Had, n
    <3>1. e \in Commitment /\ New(i, e) = New(i - 1, e) + 1 /\ Had(e) \in Nat /\ New(i - 1, e) \in Nat
      BY <1>1, <1>2, <1>3, <1>4, <2>1
    <3>2. \A d \in Commitment : d # e => New(i, d) = New(i - 1, d)
      BY <1>4
    <3> HIDE DEF e
    <3>3. Fits(i) <=> Fits(i - 1) /\ Had(e) + New(i - 1, e) = 0
      <4>1. ASSUME Fits(i) PROVE Had(e) + New(i - 1, e) = 0
        BY <3>1, <4>1
      <4>2. ASSUME Fits(i) PROVE Fits(i - 1)
        BY <3>1, <3>2, <4>1, <4>2
      <4>3. ASSUME Fits(i - 1), Had(e) + New(i - 1, e) = 0 PROVE Fits(i)
        BY <3>1, <3>2, <4>3
      <4> QED
        BY <4>1, <4>2, <4>3
    <3> HIDE DEF Fits
    <3> QED
      BY <2>1, <2>5, <3>3
  <2>7. ASSUME NEW u \in f[i] PROVE Stored(u, i)
    <3>1. PICK t \in f[i - 1] : u \in PushSigner(t, e)
      BY <2>4, <2>7
    <3>2. /\ SameButSigners(u, t)
          /\ Len(u.commitments) = Len(t.commitments) + 1
          /\ \A d \in Commitment : Occurrences(u.commitments, d) =
                 IF d = e THEN Occurrences(t.commitments, d) + 1
                 ELSE Occurrences(t.commitments, d)
      BY <1>1, <2>2, <3>1, PushTurn
    <3>3. Stored(t, i - 1)
      BY <2>1
    <3>4. SameButSigners(u, s)
      BY <3>2, <3>3 DEF SameButSigners
    <3>5. Len(u.commitments) = Len(s.commitments) + i
      BY <1>1, <3>2, <3>3
    <3>6. ASSUME NEW d \in Commitment PROVE Occurrences(u.commitments, d) = Had(d) + New(i, d)
      <4>1. /\ Occurrences(t.commitments, d) = Had(d) + New(i - 1, d)
            /\ New(i, d) = IF d = e THEN New(i - 1, d) + 1 ELSE New(i - 1, d)
            /\ Had(d) \in Nat /\ New(i - 1, d) \in Nat
        BY <1>2, <1>3, <1>4, <2>1, <3>3
      <4> HIDE DEF New, Had, n
      <4> QED
        BY <3>2, <4>1
    <3> QED
      BY <3>4, <3>5, <3>6
  <2> QED
    BY <2>1, <2>6, <2>7
<1>8. n \in S
  <2> HIDE DEF S
  <2>1. \A i \in 0 .. n : i \in S
    BY <1>1, <1>6, <1>7, PrefixInduction
  <2> QED
    BY <1>1, <2>1
<1>9. Fits(n) <=> /\ IsInjective(list)
                  /\ \A i \in DOMAIN list : Had(list[i]) = 0
  <2>1. ASSUME NEW i \in DOMAIN list PROVE list[i] \in Commitment /\ Occurrences(list, list[i]) # 0
    BY NoOccurrence DEF Range
  <2>2. ASSUME Fits(n) PROVE IsInjective(list) /\ \A i \in DOMAIN list : Had(list[i]) = 0
    <3> HIDE DEF New, Had, n
    <3>1. \A c \in Commitment : Occurrences(list, c) <= 1
      BY <1>2, <2>2
    <3>2. IsInjective(list)
      BY <3>1, OnceIsInjective
    <3>3. \A i \in DOMAIN list : Had(list[i]) = 0
      BY <1>2, <2>1, <2>2
    <3> QED
      BY <3>2, <3>3
  <2>3. ASSUME IsInjective(list), \A i \in DOMAIN list : Had(list[i]) = 0 PROVE Fits(n)
    <3>1. ASSUME NEW d \in Commitment, Occurrences(list, d) # 0
          PROVE  Had(d) = 0 /\ Occurrences(list, d) <= 1
      <4>1. PICK i \in DOMAIN list : list[i] = d
        BY <3>1, NoOccurrence DEF Range
      <4> QED
        BY <2>3, <4>1, OccursOnce
    <3> HIDE DEF New, Had, n
    <3> QED
      BY <1>2, <3>1
  <2> QED
    BY <2>2, <2>3
<1> QED
  <2>1. /\ f[n] # {} <=> Fits(n)
        /\ \A u \in f[n] : Stored(u, n)
    BY <1>8
  <2>2. \A d \in Commitment : New(n, d) = Occurrences(list, d)
    BY <1>2
  <2> HIDE DEF New
  <2> QED
    BY <1>5, <1>9, <2>1, <2>2 DEF PushRun

\* The loop of removeSigners: the array holds every entry of the list as often as
\* the list does, and loses exactly those.
LEMMA PoppedList ==
    ASSUME NEW s \in StoreType, NEW list \in Seq(Commitment)
    PROVE  /\ PopSigners(s, list) # {} <=>
                  \A d \in Commitment : Occurrences(list, d) <= Occurrences(s.commitments, d)
           /\ \A u \in PopSigners(s, list) :
                 /\ SameButSigners(u, s)
                 /\ Len(u.commitments) = Len(s.commitments) - Len(list)
                 /\ \A d \in Commitment : Occurrences(u.commitments, d) =
                        Occurrences(s.commitments, d) - Occurrences(list, d)
<1> DEFINE n == Len(list)
           Had(d) == Occurrences(s.commitments, d)
           Taken(i, d) == Cardinality(Positions(list, i, d))
<1>1. /\ n \in Nat /\ s.commitments \in Seq(Commitment) /\ Len(s.commitments) \in Nat
      /\ \A i \in 1 .. n : list[i] \in Commitment
  BY DEF StoreType
<1>2. \A d : /\ Had(d) \in Nat /\ Occurrences(list, d) \in Nat
             /\ Occurrences(list, d) = Taken(n, d)
  BY <1>1, OccurrencesType, OccurrencesInPositions
<1>3. \A i \in 0 .. n : \A d : Taken(i, d) \in Nat
  BY <1>1, PositionsFinite
<1>4. \A i \in 1 .. n : \A d :
          Taken(i, d) = IF d = list[i] THEN Taken(i - 1, d) + 1 ELSE Taken(i - 1, d)
  BY <1>1, PositionsStep
<1>5. PICK f : PopRun(f, s, list)
  <2>1. Len(list) \in Nat
    OBVIOUS
  <2> QED
    BY <2>1, PopLoop
<1> DEFINE Fits(i) == \A d \in Commitment : Taken(i, d) <= Had(d)
           Stored(u, i) == /\ SameButSigners(u, s)
                           /\ Len(u.commitments) = Len(s.commitments) - i
                           /\ \A d \in Commitment :
                                 Occurrences(u.commitments, d) = Had(d) - Taken(i, d)
           S == {i \in 0 .. n : (f[i] # {} <=> Fits(i)) /\ \A u \in f[i] : Stored(u, i)}
<1>6. 0 \in S
  <2>1. \A d : Taken(0, d) = 0
    <3>1. \A d : Positions(list, 0, d) = {}
      BY DEF Positions
    <3> QED
      BY <3>1, FS_EmptySet
  <2>2. SameButSigners(s, s)
    BY DEF SameButSigners
  <2> HIDE DEF Taken
  <2>3. Fits(0) /\ Stored(s, 0)
    BY <1>1, <1>2, <2>1, <2>2
  <2>4. 0 \in 0 .. n
    BY <1>1
  <2> HIDE DEF Fits, Stored, n
  <2> QED
    BY <1>5, <2>3, <2>4 DEF PopRun
<1>7. ASSUME NEW i \in 1 .. n, i - 1 \in S PROVE i \in S
  <2> DEFINE e == list[i]
  <2>1. /\ f[i - 1] # {} <=> Fits(i - 1)
        /\ \A t \in f[i - 1] : Stored(t, i - 1)
        /\ i \in 0 .. n /\ i - 1 \in 0 .. n
    BY <1>7
  <2>2. \A t \in f[i - 1] : /\ t \in StoreType /\ t.commitments \in Seq(Commitment)
                            /\ Occurrences(t.commitments, e) = Had(e) - Taken(i - 1, e)
    BY <1>1, <2>1 DEF SameButSigners, StoreType
  <2>3. \A t \in f[i - 1] : SwapAndPop(t, e) # {} <=> Had(e) - Taken(i - 1, e) # 0
    BY <1>1, <2>2, SwapTurn
  <2>4. \A u : u \in f[i] <=> \E t \in f[i - 1] : u \in SwapAndPop(t, e)
    BY <1>5 DEF PopRun
  <2>5. f[i] # {} <=> f[i - 1] # {} /\ Had(e) - Taken(i - 1, e) # 0
    BY <2>3, <2>4, Zenon
  <2>6. f[i] # {} <=> Fits(i)
    <3> HIDE DEF Taken, Had, n
    <3>1. /\ e \in Commitment /\ Taken(i, e) = Taken(i - 1, e) + 1
          /\ Had(e) \in Nat /\ Taken(i - 1, e) \in Nat
      BY <1>1, <1>2, <1>3, <1>4, <2>1
    <3>2. \A d \in Commitment : d # e => Taken(i, d) = Taken(i - 1, d)
      BY <1>4
    <3> HIDE DEF e
    <3>3. Fits(i) <=> Fits(i - 1) /\ Had(e) - Taken(i - 1, e) # 0
      <4>1. ASSUME Fits(i) PROVE Had(e) - Taken(i - 1, e) # 0
        BY <3>1, <4>1
      <4>2. ASSUME Fits(i) PROVE Fits(i - 1)
        BY <3>1, <3>2, <4>1, <4>2
      <4>3. ASSUME Fits(i - 1), Had(e) - Taken(i - 1, e) # 0 PROVE Fits(i)
        BY <3>1, <3>2, <4>3
      <4> QED
        BY <4>1, <4>2, <4>3
    <3> HIDE DEF Fits
    <3> QED
      BY <2>1, <2>5, <3>3
  <2>7. ASSUME NEW u \in f[i] PROVE Stored(u, i)
    <3>1. PICK t \in f[i - 1] : u \in SwapAndPop(t, e)
      BY <2>4, <2>7
    <3>2. /\ SameButSigners(u, t)
          /\ Len(u.commitments) = Len(t.commitments) - 1
          /\ \A d \in Commitment : Occurrences(u.commitments, d) =
                 IF d = e THEN Occurrences(t.commitments, d) - 1
                 ELSE Occurrences(t.commitments, d)
      BY <1>1, <2>2, <3>1, SwapTurn
    <3>3. Stored(t, i - 1)
      BY <2>1
    <3>4. SameButSigners(u, s)
      BY <3>2, <3>3 DEF SameButSigners
    <3>5. Len(u.commitments) = Len(s.commitments) - i
      BY <1>1, <3>2, <3>3
    <3>6. ASSUME NEW d \in Commitment PROVE Occurrences(u.commitments, d) = Had(d) - Taken(i, d)
      <4>1. /\ Occurrences(t.commitments, d) = Had(d) - Taken(i - 1, d)
            /\ Taken(i, d) = IF d = e THEN Taken(i - 1, d) + 1 ELSE Taken(i - 1, d)
            /\ Had(d) \in Nat /\ Taken(i - 1, d) \in Nat
        BY <1>2, <1>3, <1>4, <2>1, <3>3
      <4> HIDE DEF Taken, Had, n
      <4> QED
        BY <3>2, <4>1
    <3> QED
      BY <3>4, <3>5, <3>6
  <2> QED
    BY <2>1, <2>6, <2>7
<1>8. n \in S
  <2> HIDE DEF S
  <2>1. \A i \in 0 .. n : i \in S
    BY <1>1, <1>6, <1>7, PrefixInduction
  <2> QED
    BY <1>1, <2>1
<1> QED
  <2>1. /\ f[n] # {} <=> Fits(n)
        /\ \A u \in f[n] : Stored(u, n)
    BY <1>8
  <2>2. \A d \in Commitment : Taken(n, d) = Occurrences(list, d)
    BY <1>2
  <2> HIDE DEF Taken
  <2> QED
    BY <1>5, <2>1, <2>2 DEF PopRun

\* The loop over the proofs: each finds its nullifier unspent, by earlier calls and
\* by the proofs before it, and all their nullifiers are marked.
Passes(s, tx, proofs, i) ==
    /\ proofs[i].nullifier \notin s.used_nullifiers
    /\ \A j \in 1 .. i - 1 : proofs[j].nullifier # proofs[i].nullifier
    /\ proofs[i].commitment \in ToSet(s.commitments)
    /\ VerifyProof(leaves, tx, proofs[i])

Marked(s, proofs, i) ==
    [s EXCEPT !.used_nullifiers =
         s.used_nullifiers \cup {proofs[j].nullifier : j \in 1 .. i}]

LEMMA MarkTurn ==
    ASSUME NEW s \in StoreType, NEW tx, NEW proofs, NEW i \in Nat \ {0}
    PROVE  CheckProof(Marked(s, proofs, i - 1), tx, proofs[i]) =
               IF Passes(s, tx, proofs, i) THEN {Marked(s, proofs, i)} ELSE {}
<1> DEFINE m == Marked(s, proofs, i - 1)
           N(k) == {proofs[j].nullifier : j \in 1 .. k}
<1>1. /\ m.used_nullifiers = s.used_nullifiers \cup N(i - 1)
      /\ m.commitments = s.commitments
  BY DEF Marked, StoreType
<1>2. N(i) = N(i - 1) \cup {proofs[i].nullifier}
  <2>1. \A j : j \in 1 .. i <=> j \in 1 .. i - 1 \/ j = i
    OBVIOUS
  <2> QED
    BY <2>1
<1>3. [m EXCEPT !.used_nullifiers = @ \cup {proofs[i].nullifier}] = Marked(s, proofs, i)
  <2>1. m.used_nullifiers \cup {proofs[i].nullifier} = s.used_nullifiers \cup N(i)
    BY <1>1, <1>2
  <2> DEFINE a == s.used_nullifiers \cup N(i)
             b == s.used_nullifiers \cup N(i - 1)
  <2>2. m = [s EXCEPT !.used_nullifiers = b] /\ Marked(s, proofs, i) = [s EXCEPT !.used_nullifiers = a]
    BY DEF Marked
  <2> HIDE DEF a, b, m, N
  <2> QED
    BY <2>1, <2>2 DEF StoreType, a
<1>4. Passes(s, tx, proofs, i) <=>
          /\ proofs[i].nullifier \notin m.used_nullifiers
          /\ proofs[i].commitment \in ToSet(m.commitments)
          /\ VerifyProof(leaves, tx, proofs[i])
  BY <1>1 DEF Passes
<1> HIDE DEF m
<1> QED
  BY <1>3, <1>4, Zenon DEF CheckProof, m

LEMMA CheckedList ==
    ASSUME NEW s \in StoreType, NEW tx, NEW proofs \in Seq(ZkProof)
    PROVE  CheckProofs(s, tx, proofs) =
               IF \A i \in DOMAIN proofs : Passes(s, tx, proofs, i)
               THEN {Marked(s, proofs, Len(proofs))}
               ELSE {}
<1> DEFINE n == Len(proofs)
           Ok(i) == \A j \in 1 .. i : Passes(s, tx, proofs, j)
           G(i) == IF Ok(i) THEN {Marked(s, proofs, i)} ELSE {}
<1>1. n \in Nat /\ DOMAIN proofs = 1 .. n
  OBVIOUS
<1>2. PICK f : CheckRun(f, s, proofs, tx)
  <2>1. Len(proofs) \in Nat
    OBVIOUS
  <2> QED
    BY <2>1, CheckLoop
<1> DEFINE S == {i \in 0 .. n : f[i] = G(i)}
<1>3. 0 \in S
  <2>1. Marked(s, proofs, 0) = s
    <3>1. {proofs[j].nullifier : j \in 1 .. 0} = {}
      OBVIOUS
    <3> QED
      BY <3>1 DEF Marked, StoreType
  <2>2. Ok(0) /\ 0 \in 0 .. n
    BY <1>1
  <2> HIDE DEF Ok, n
  <2> QED
    BY <1>2, <2>1, <2>2 DEF CheckRun
<1>4. ASSUME NEW i \in 1 .. n, i - 1 \in S PROVE i \in S
  <2>1. /\ i \in Nat \ {0} /\ i \in 0 .. n
        /\ f[i] = UNION {CheckProof(t, tx, proofs[i]) : t \in f[i - 1]}
        /\ f[i - 1] = G(i - 1)
    BY <1>1, <1>2, <1>4 DEF CheckRun
  <2>2. Ok(i) <=> Ok(i - 1) /\ Passes(s, tx, proofs, i)
    <3>1. \A j : j \in 1 .. i <=> j \in 1 .. i - 1 \/ j = i
      OBVIOUS
    <3> QED
      BY <3>1
  <2>3. CheckProof(Marked(s, proofs, i - 1), tx, proofs[i]) =
            IF Passes(s, tx, proofs, i) THEN {Marked(s, proofs, i)} ELSE {}
    BY <2>1, MarkTurn
  <2> HIDE DEF Ok
  <2>4. CASE Ok(i - 1)
    <3>1. f[i - 1] = {Marked(s, proofs, i - 1)}
      BY <2>1, <2>4
    <3>2. f[i] = CheckProof(Marked(s, proofs, i - 1), tx, proofs[i])
      <4>1. \A u : u \in f[i] <=> \E t \in f[i - 1] : u \in CheckProof(t, tx, proofs[i])
        BY <2>1
      <4>2. \A u : u \in f[i] <=> u \in CheckProof(Marked(s, proofs, i - 1), tx, proofs[i])
        BY <3>1, <4>1, Zenon
      <4> QED
        BY <4>2
    <3> QED
      BY <2>1, <2>2, <2>3, <2>4, <3>2
  <2>5. CASE ~ Ok(i - 1)
    <3>1. f[i - 1] = {}
      BY <2>1, <2>5
    <3>2. f[i] = {}
      BY <2>1, <3>1
    <3> QED
      BY <2>1, <2>2, <2>5, <3>2
  <2> QED
    BY <2>4, <2>5
<1>5. n \in S
  <2> HIDE DEF S
  <2>1. \A i \in 0 .. n : i \in S
    BY <1>1, <1>3, <1>4, PrefixInduction
  <2> QED
    BY <1>1, <2>1
<1>6. CheckProofs(s, tx, proofs) = f[n] /\ f[n] = G(n)
  BY <1>2, <1>5 DEF CheckRun
<1> QED
  BY <1>1, <1>6, Zenon

----------------------------------------------------------------------------
(* A call to the wallet itself, or to another contract, against the same   *)
(* call of the Solidity contract.                                          *)

LEMMA SolidityFields ==
    ASSUME NEW s \in StoreType
    PROVE  /\ SolidityOf(s) \in WalletType
           /\ SolidityOf(s).signaturesRequired = s.signatures_required
           /\ SolidityOf(s).length = Len(s.commitments)
           /\ Len(s.commitments) \in Nat
           /\ \A c \in Commitment : /\ SolidityOf(s).copies[c] = Occurrences(s.commitments, c)
                                   /\ Occurrences(s.commitments, c) \in Nat
           /\ SolidityOf(s).usedNonces = s.used_nonces
           /\ SolidityOf(s).usedNullifiers = s.used_nullifiers
           /\ SolidityOf(s).balance = s.balance
<1>1. s.commitments \in Seq(Commitment) /\ Len(s.commitments) \in Nat
  BY DEF StoreType
<1>2. [c \in Commitment |-> Occurrences(s.commitments, c)] \in [Commitment -> Nat]
  BY <1>1, OccurrencesType
<1> QED
  BY <1>1, <1>2, OccurrencesType DEF SolidityOf, StoreType, WalletType

\* Two well-formed wallets that agree in every field are the same.
LEMMA SameWallet ==
    ASSUME NEW w \in WalletType, NEW x \in WalletType,
           w.signaturesRequired = x.signaturesRequired,
           w.length = x.length,
           \A c \in Commitment : w.copies[c] = x.copies[c],
           w.usedNonces = x.usedNonces,
           w.usedNullifiers = x.usedNullifiers,
           \A a \in Asset : w.balance[a] = x.balance[a]
    PROVE  w = x
<1>1. w.copies = x.copies /\ w.balance = x.balance
  BY DEF WalletType
<1> QED
  BY <1>1 DEF WalletType

\* What a call leaves is the storage that the Solidity contract's call leaves.
Mirrors(u, s, w) == /\ u \in StoreType
                    /\ u.initialized = s.initialized
                    /\ SolidityOf(u) = w

LEMMA SameAdd ==
    ASSUME NEW s \in StoreType, NEW list \in Seq(Commitment), NEW newSig \in Nat
    PROVE  /\ AddSignersInternal(s, list, newSig) # {} <=>
                  AddSignersAccepts(SolidityOf(s), list, newSig)
           /\ \A u \in AddSignersInternal(s, list, newSig) :
                 Mirrors(u, s, AddSigners(SolidityOf(s), list, newSig))
<1> DEFINE w == SolidityOf(s)
           Bounded == Len(list) > 0 /\ newSig > 0 /\ newSig <= Len(s.commitments) + Len(list)
<1>1. /\ w \in WalletType /\ w.length = Len(s.commitments) /\ Len(s.commitments) \in Nat
      /\ \A c \in Commitment : w.copies[c] = Occurrences(s.commitments, c)
      /\ w.signaturesRequired = s.signatures_required
      /\ w.usedNonces = s.used_nonces
      /\ w.usedNullifiers = s.used_nullifiers
      /\ w.balance = s.balance
  BY SolidityFields
<1>2. \A i \in DOMAIN list : list[i] \in Commitment
  OBVIOUS
<1>3. ASSUME NEW u
      PROVE  u \in AddSignersInternal(s, list, newSig) <=>
                 Bounded /\ \E t \in PushSigners(s, list) : u = [t EXCEPT !.signatures_required = newSig]
  BY <1>1 DEF AddSignersInternal
<1>4. AddSignersInternal(s, list, newSig) # {} <=> Bounded /\ PushSigners(s, list) # {}
  <2> HIDE DEF Bounded
  <2> QED
    BY <1>3
<1>5. AddSignersInternal(s, list, newSig) # {} <=> AddSignersAccepts(w, list, newSig)
  <2>1. PushSigners(s, list) # {} <=>
            IsInjective(list) /\ \A i \in DOMAIN list : w.copies[list[i]] = 0
    BY <1>1, <1>2, PushedList
  <2> HIDE DEF w
  <2> QED
    BY <1>1, <1>4, <2>1 DEF AddSignersAccepts
<1>6. ASSUME NEW u \in AddSignersInternal(s, list, newSig)
      PROVE  Mirrors(u, s, AddSigners(w, list, newSig))
  <2>1. PICK t \in PushSigners(s, list) : u = [t EXCEPT !.signatures_required = newSig]
    BY <1>3, <1>6
  <2>2. /\ SameButSigners(t, s)
        /\ Len(t.commitments) = Len(s.commitments) + Len(list)
        /\ \A d \in Commitment : Occurrences(t.commitments, d) =
               Occurrences(s.commitments, d) + Occurrences(list, d)
    BY <2>1, PushedList
  <2>3. /\ u \in StoreType /\ u.initialized = s.initialized /\ u.signatures_required = newSig
        /\ u.commitments = t.commitments /\ u.used_nonces = s.used_nonces
        /\ u.used_nullifiers = s.used_nullifiers /\ u.balance = s.balance
    BY <2>1, <2>2 DEF SameButSigners, StoreType
  <2> DEFINE x == AddSigners(w, list, newSig)
             v == SolidityOf(u)
  <2>4. \A d \in Commitment : Occurrences(list, d) = IF d \in Range(list) THEN 1 ELSE 0
    <3>1. IsInjective(list)
      BY <2>1, PushedList
    <3> QED
      BY <3>1, NoOccurrence, OccursOnce, OccurrencesType
  <2>5. /\ v \in WalletType /\ v.signaturesRequired = newSig /\ v.length = Len(t.commitments)
        /\ \A c \in Commitment : v.copies[c] = Occurrences(t.commitments, c)
        /\ v.usedNonces = s.used_nonces /\ v.usedNullifiers = s.used_nullifiers
        /\ v.balance = s.balance
    BY <2>3, SolidityFields
  <2> HIDE DEF v, w
  <2>6. /\ x \in WalletType
        /\ x.signaturesRequired = newSig
        /\ x.length = w.length + Len(list)
        /\ \A c \in Commitment : x.copies[c] =
               IF c \in Range(list) THEN w.copies[c] + 1 ELSE w.copies[c]
        /\ x.usedNonces = w.usedNonces
        /\ x.usedNullifiers = w.usedNullifiers
        /\ x.balance = w.balance
    BY <1>1, AddSignersEffect, ZenonT(60)
  <2> HIDE DEF x
  <2>7. \A c \in Commitment : v.copies[c] = x.copies[c]
    <3>1. \A c \in Commitment : Occurrences(s.commitments, c) \in Nat
      BY OccurrencesType DEF StoreType
    <3> QED
      BY <1>1, <2>2, <2>4, <2>5, <2>6, <3>1
  <2>8. v = x
    <3>1. /\ v.signaturesRequired = x.signaturesRequired /\ v.length = x.length
          /\ v.usedNonces = x.usedNonces /\ v.usedNullifiers = x.usedNullifiers
          /\ \A a \in Asset : v.balance[a] = x.balance[a]
      BY <1>1, <2>2, <2>5, <2>6
    <3> QED
      BY <2>5, <2>6, <2>7, <3>1, SameWallet
  <2> QED
    BY <2>3, <2>8 DEF Mirrors, v, x
<1> QED
  BY <1>5, <1>6

LEMMA SameRemove ==
    ASSUME NEW s \in StoreType, NEW list \in Seq(Commitment), NEW newSig \in Nat
    PROVE  /\ RemoveSignersInternal(s, list, newSig) # {} <=>
                  RemoveSignersAccepts(SolidityOf(s), list, newSig)
           /\ \A u \in RemoveSignersInternal(s, list, newSig) :
                 Mirrors(u, s, RemoveSigners(SolidityOf(s), list, newSig))
<1> DEFINE w == SolidityOf(s)
           Bounded == /\ Len(list) > 0 /\ Len(s.commitments) > Len(list)
                      /\ newSig > 0 /\ newSig <= Len(s.commitments) - Len(list)
<1>1. /\ w \in WalletType /\ w.length = Len(s.commitments) /\ Len(s.commitments) \in Nat
      /\ \A c \in Commitment : w.copies[c] = Occurrences(s.commitments, c)
      /\ w.signaturesRequired = s.signatures_required
      /\ w.usedNonces = s.used_nonces
      /\ w.usedNullifiers = s.used_nullifiers
      /\ w.balance = s.balance
  BY SolidityFields
<1>2. ASSUME NEW u
      PROVE  u \in RemoveSignersInternal(s, list, newSig) <=>
                 Bounded /\ \E t \in PopSigners(s, list) : u = [t EXCEPT !.signatures_required = newSig]
  BY <1>1 DEF RemoveSignersInternal
<1>3. RemoveSignersInternal(s, list, newSig) # {} <=> Bounded /\ PopSigners(s, list) # {}
  <2> HIDE DEF Bounded
  <2> QED
    BY <1>2
<1>4. RemoveSignersInternal(s, list, newSig) # {} <=> RemoveSignersAccepts(w, list, newSig)
  <2>1. PopSigners(s, list) # {} <=> \A d \in Commitment : Occurrences(list, d) <= w.copies[d]
    BY <1>1, PoppedList
  <2> HIDE DEF w
  <2> QED
    BY <1>1, <1>3, <2>1 DEF RemoveSignersAccepts
<1>5. ASSUME NEW u \in RemoveSignersInternal(s, list, newSig)
      PROVE  Mirrors(u, s, RemoveSigners(w, list, newSig))
  <2>1. PICK t \in PopSigners(s, list) : u = [t EXCEPT !.signatures_required = newSig]
    BY <1>2, <1>5
  <2>2. /\ SameButSigners(t, s)
        /\ Len(t.commitments) = Len(s.commitments) - Len(list)
        /\ \A d \in Commitment : Occurrences(t.commitments, d) =
               Occurrences(s.commitments, d) - Occurrences(list, d)
    BY <2>1, PoppedList
  <2>3. /\ u \in StoreType /\ u.initialized = s.initialized /\ u.signatures_required = newSig
        /\ u.commitments = t.commitments /\ u.used_nonces = s.used_nonces
        /\ u.used_nullifiers = s.used_nullifiers /\ u.balance = s.balance
    BY <2>1, <2>2 DEF SameButSigners, StoreType
  <2> DEFINE x == RemoveSigners(w, list, newSig)
             v == SolidityOf(u)
  <2>4. /\ v \in WalletType /\ v.signaturesRequired = newSig /\ v.length = Len(t.commitments)
        /\ \A c \in Commitment : v.copies[c] = Occurrences(t.commitments, c)
        /\ v.usedNonces = s.used_nonces /\ v.usedNullifiers = s.used_nullifiers
        /\ v.balance = s.balance
    BY <2>3, SolidityFields
  <2>5. RemoveSignersAccepts(w, list, newSig)
    BY <1>4, <1>5
  <2> HIDE DEF v, w
  <2>6. /\ x \in WalletType
        /\ x.signaturesRequired = newSig
        /\ x.length = w.length - Len(list)
        /\ \A c \in Commitment : x.copies[c] = w.copies[c] - Occurrences(list, c)
        /\ x.usedNonces = w.usedNonces
        /\ x.usedNullifiers = w.usedNullifiers
        /\ x.balance = w.balance
    BY <1>1, <2>5, RemoveSignersEffect
  <2> HIDE DEF x
  <2>7. \A c \in Commitment : v.copies[c] = x.copies[c]
    BY <1>1, <2>2, <2>4, <2>6
  <2>8. v = x
    <3>1. /\ v.signaturesRequired = x.signaturesRequired /\ v.length = x.length
          /\ v.usedNonces = x.usedNonces /\ v.usedNullifiers = x.usedNullifiers
          /\ \A a \in Asset : v.balance[a] = x.balance[a]
      BY <1>1, <2>2, <2>4, <2>6
    <3> QED
      BY <2>4, <2>6, <2>7, <3>1, SameWallet
  <2> QED
    BY <2>3, <2>8 DEF Mirrors, v, x
<1> QED
  BY <1>4, <1>5

LEMMA SameUpdate ==
    ASSUME NEW s \in StoreType, NEW newSig \in Nat
    PROVE  /\ UpdateSignaturesRequiredInternal(s, newSig) # {} <=>
                  UpdateSignaturesRequiredAccepts(SolidityOf(s), newSig)
           /\ \A u \in UpdateSignaturesRequiredInternal(s, newSig) :
                 Mirrors(u, s, UpdateSignaturesRequired(SolidityOf(s), newSig))
<1>1. SolidityOf(s).length = Len(s.commitments) /\ Len(s.commitments) \in Nat
  BY SolidityFields
<1>2. UpdateSignaturesRequiredInternal(s, newSig) # {} <=>
          UpdateSignaturesRequiredAccepts(SolidityOf(s), newSig)
  <2> DEFINE n == Len(s.commitments)
  <2>1. UpdateSignaturesRequiredInternal(s, newSig) # {} <=> ~ (newSig = 0 \/ newSig > n)
    <3> DEFINE r == [s EXCEPT !.signatures_required = newSig]
    <3> HIDE DEF r
    <3>1. UpdateSignaturesRequiredInternal(s, newSig) = IF newSig = 0 \/ newSig > n THEN {} ELSE {r}
      BY DEF UpdateSignaturesRequiredInternal, r
    <3> HIDE DEF n
    <3> QED
      BY <3>1
  <2>2. UpdateSignaturesRequiredAccepts(SolidityOf(s), newSig) <=> newSig > 0 /\ newSig <= n
    BY <1>1, Zenon DEF UpdateSignaturesRequiredAccepts
  <2>3. n \in Nat
    BY <1>1
  <2> HIDE DEF n
  <2> QED
    BY <2>1, <2>2, <2>3
<1>3. ASSUME NEW u \in UpdateSignaturesRequiredInternal(s, newSig)
      PROVE  Mirrors(u, s, UpdateSignaturesRequired(SolidityOf(s), newSig))
  <2>1. u = [s EXCEPT !.signatures_required = newSig]
    BY DEF UpdateSignaturesRequiredInternal
  <2>2. /\ u \in StoreType /\ u.initialized = s.initialized /\ u.signatures_required = newSig
        /\ u.commitments = s.commitments /\ u.used_nonces = s.used_nonces
        /\ u.used_nullifiers = s.used_nullifiers /\ u.balance = s.balance
    BY <2>1 DEF StoreType
  <2>3. SolidityOf(u) = UpdateSignaturesRequired(SolidityOf(s), newSig)
    <3> DEFINE w == SolidityOf(s)
               x == UpdateSignaturesRequired(w, newSig)
    <3>1. /\ w \in WalletType /\ w.length = Len(s.commitments)
          /\ \A c \in Commitment : w.copies[c] = Occurrences(s.commitments, c)
          /\ w.usedNonces = s.used_nonces /\ w.usedNullifiers = s.used_nullifiers
          /\ w.balance = s.balance
      BY SolidityFields
    <3>2. /\ SolidityOf(u) \in WalletType
          /\ SolidityOf(u).signaturesRequired = newSig
          /\ SolidityOf(u).length = Len(s.commitments)
          /\ \A c \in Commitment : SolidityOf(u).copies[c] = Occurrences(s.commitments, c)
          /\ SolidityOf(u).usedNonces = s.used_nonces
          /\ SolidityOf(u).usedNullifiers = s.used_nullifiers
          /\ SolidityOf(u).balance = s.balance
      BY <2>2, SolidityFields
    <3> HIDE DEF w
    <3>3. /\ x \in WalletType /\ x.signaturesRequired = newSig /\ x.length = w.length
          /\ x.copies = w.copies /\ x.usedNonces = w.usedNonces
          /\ x.usedNullifiers = w.usedNullifiers /\ x.balance = w.balance
      BY <3>1, UpdateEffect
    <3> HIDE DEF x
    <3>4. SolidityOf(u) = x
      BY <3>1, <3>2, <3>3, SameWallet
    <3> QED
      BY <3>4 DEF x, w
  <2> QED
    BY <2>2, <2>3 DEF Mirrors
<1> QED
  BY <1>2, <1>3

LEMMA SamePay ==
    ASSUME NEW s \in StoreType, NEW pay \in [Asset -> Nat]
    PROVE  /\ Pay(s, pay) # {} <=> TransferAccepts(SolidityOf(s), pay)
           /\ \A u \in Pay(s, pay) : Mirrors(u, s, Transfer(SolidityOf(s), pay))
<1>1. SolidityOf(s).balance = s.balance
  BY SolidityFields
<1>2. Pay(s, pay) # {} <=> TransferAccepts(SolidityOf(s), pay)
  BY <1>1 DEF Pay, TransferAccepts
<1>3. ASSUME NEW u \in Pay(s, pay) PROVE Mirrors(u, s, Transfer(SolidityOf(s), pay))
  <2> DEFINE b == [a \in Asset |-> s.balance[a] - pay[a]]
  <2>1. u = [s EXCEPT !.balance = b] /\ \A a \in Asset : pay[a] <= s.balance[a]
    BY DEF Pay, Transfer, TransferAccepts
  <2>2. b \in [Asset -> Nat]
    BY <2>1 DEF StoreType
  <2>3. Transfer(SolidityOf(s), pay) = [SolidityOf(s) EXCEPT !.balance = b]
    BY <1>1, Zenon DEF Transfer
  <2> HIDE DEF b
  <2>4. /\ u \in StoreType /\ u.initialized = s.initialized
        /\ u.signatures_required = s.signatures_required
        /\ u.commitments = s.commitments /\ u.used_nonces = s.used_nonces
        /\ u.used_nullifiers = s.used_nullifiers /\ u.balance = b
    BY <2>1, <2>2 DEF StoreType
  <2>5. SolidityOf(u) = Transfer(SolidityOf(s), pay)
    BY <2>3, <2>4 DEF SolidityOf
  <2> QED
    BY <2>4, <2>5 DEF Mirrors
<1> QED
  BY <1>2, <1>3

\* The call that execute() makes, a payment to the wallet itself apart, which is refused.
LEMMA SameCall ==
    ASSUME NEW s \in StoreType, NEW tx \in Transactions
    PROVE  /\ DispatchCall(s, tx) # {} <=>
                  CallSucceeds(SolidityOf(s), tx) /\ tx.kind # "selfTransfer"
           /\ \A u \in DispatchCall(s, tx) : Mirrors(u, s, AfterCall(SolidityOf(s), tx))
<1> DEFINE w == SolidityOf(s)
<1>0. /\ tx.list \in Seq(Commitment) /\ tx.newSig \in Nat /\ tx.pay \in [Asset -> Nat]
      /\ tx.kind \in Kinds
  BY TxFields
<1>1. CASE tx.kind = "addSigners"
  <2>1. /\ DispatchCall(s, tx) = AddSignersInternal(s, tx.list, tx.newSig)
        /\ AfterCall(w, tx) = AddSigners(w, tx.list, tx.newSig)
        /\ CallSucceeds(w, tx) <=> AddSignersAccepts(w, tx.list, tx.newSig)
    BY <1>1 DEF DispatchCall, AfterCall, CallSucceeds
  <2> QED
    BY <1>0, <1>1, <2>1, SameAdd
<1>2. CASE tx.kind = "removeSigners"
  <2>1. /\ DispatchCall(s, tx) = RemoveSignersInternal(s, tx.list, tx.newSig)
        /\ AfterCall(w, tx) = RemoveSigners(w, tx.list, tx.newSig)
        /\ CallSucceeds(w, tx) <=> RemoveSignersAccepts(w, tx.list, tx.newSig)
    BY <1>2 DEF DispatchCall, AfterCall, CallSucceeds
  <2> QED
    BY <1>0, <1>2, <2>1, SameRemove
<1>3. CASE tx.kind = "updateSignaturesRequired"
  <2>1. /\ DispatchCall(s, tx) = UpdateSignaturesRequiredInternal(s, tx.newSig)
        /\ AfterCall(w, tx) = UpdateSignaturesRequired(w, tx.newSig)
        /\ CallSucceeds(w, tx) <=> UpdateSignaturesRequiredAccepts(w, tx.newSig)
    BY <1>3 DEF DispatchCall, AfterCall, CallSucceeds
  <2> QED
    BY <1>0, <1>3, <2>1, SameUpdate
<1>4. CASE tx.kind = "transfer"
  <2>1. /\ DispatchCall(s, tx) = Pay(s, tx.pay)
        /\ AfterCall(w, tx) = Transfer(w, tx.pay)
        /\ CallSucceeds(w, tx) <=> TransferAccepts(w, tx.pay)
    BY <1>4 DEF DispatchCall, AfterCall, CallSucceeds
  <2> QED
    BY <1>0, <1>4, <2>1, SamePay
<1>5. CASE tx.kind = "selfTransfer"
  BY <1>5 DEF DispatchCall
<1> QED
  BY <1>0, <1>1, <1>2, <1>3, <1>4, <1>5 DEF Kinds, GovernanceKinds

----------------------------------------------------------------------------
(* execute() against execute() of the Solidity contract.                   *)

\* The storage in which the call is made: the nullifiers and the nonce are marked.
LEMMA MarkedStorage ==
    ASSUME NEW s \in StoreType, NEW tx \in Transactions, NEW proofs \in Seq(ZkProof),
           NEW m, m = [Marked(s, proofs, Len(proofs)) EXCEPT !.used_nonces = @ \cup {tx.nonce}]
    PROVE  Mirrors(m, s, MarkSpent(SolidityOf(s), tx, proofs))
<1> DEFINE w == SolidityOf(s)
           v == SolidityOf(m)
           x == MarkSpent(w, tx, proofs)
           N == {proofs[j].nullifier : j \in 1 .. Len(proofs)}
<1>1. DOMAIN proofs = 1 .. Len(proofs)
  OBVIOUS
<1>2. N \subseteq Nullifiers
  <2>1. \A j \in 1 .. Len(proofs) : proofs[j] \in ZkProof
    OBVIOUS
  <2> QED
    BY <2>1 DEF ZkProof
<1>3. tx.nonce \in Nat
  BY TxFields
<1>4. /\ m \in StoreType /\ m.initialized = s.initialized
      /\ m.signatures_required = s.signatures_required /\ m.commitments = s.commitments
      /\ m.used_nonces = s.used_nonces \cup {tx.nonce}
      /\ m.used_nullifiers = s.used_nullifiers \cup N
      /\ m.balance = s.balance
  <2> DEFINE k == Marked(s, proofs, Len(proofs))
  <2>1. /\ k \in StoreType /\ k.initialized = s.initialized
        /\ k.signatures_required = s.signatures_required /\ k.commitments = s.commitments
        /\ k.used_nonces = s.used_nonces
        /\ k.used_nullifiers = s.used_nullifiers \cup N
        /\ k.balance = s.balance
    BY <1>2 DEF Marked, StoreType
  <2> HIDE DEF k, N
  <2> DEFINE a == k.used_nonces \cup {tx.nonce}
  <2>2. m = [k EXCEPT !.used_nonces = a]
    BY DEF k
  <2>3. a \in SUBSET Nat /\ a = s.used_nonces \cup {tx.nonce}
    BY <1>3, <2>1 DEF StoreType
  <2> HIDE DEF a
  <2>4. /\ m \in StoreType /\ m.initialized = k.initialized
        /\ m.signatures_required = k.signatures_required /\ m.commitments = k.commitments
        /\ m.used_nonces = a /\ m.used_nullifiers = k.used_nullifiers
        /\ m.balance = k.balance
    BY <2>1, <2>2, <2>3 DEF StoreType
  <2> QED
    BY <2>1, <2>3, <2>4
<1>5. /\ w \in WalletType /\ w.length = Len(s.commitments)
      /\ \A c \in Commitment : w.copies[c] = Occurrences(s.commitments, c)
      /\ w.signaturesRequired = s.signatures_required
      /\ w.usedNonces = s.used_nonces
      /\ w.usedNullifiers = s.used_nullifiers
      /\ w.balance = s.balance
  BY SolidityFields
<1>6. /\ v \in WalletType /\ v.length = Len(m.commitments)
      /\ \A c \in Commitment : v.copies[c] = Occurrences(m.commitments, c)
      /\ v.signaturesRequired = m.signatures_required
      /\ v.usedNonces = m.used_nonces
      /\ v.usedNullifiers = m.used_nullifiers
      /\ v.balance = m.balance
  BY <1>4, SolidityFields
<1> HIDE DEF v, w
<1>7. /\ x \in WalletType
      /\ x.copies = w.copies
      /\ x.length = w.length
      /\ x.signaturesRequired = w.signaturesRequired
      /\ x.balance = w.balance
      /\ x.usedNonces = w.usedNonces \cup {tx.nonce}
      /\ x.usedNullifiers = w.usedNullifiers \cup N
  BY <1>1, <1>5, MarkSpentType
<1> HIDE DEF x, N
<1>8. v = x
  <2>1. /\ v.signaturesRequired = x.signaturesRequired /\ v.length = x.length
        /\ v.usedNonces = x.usedNonces /\ v.usedNullifiers = x.usedNullifiers
        /\ \A a \in Asset : v.balance[a] = x.balance[a]
        /\ \A c \in Commitment : v.copies[c] = x.copies[c]
    BY <1>4, <1>5, <1>6, <1>7
  <2> QED
    BY <1>6, <1>7, <2>1, SameWallet
<1> QED
  BY <1>4, <1>8 DEF Mirrors, v, x, w

\* The loop over the proofs accepts what the Solidity contract accepts.
LEMMA SameProofs ==
    ASSUME NEW s \in StoreType, NEW tx, NEW proofs \in Seq(ZkProof)
    PROVE  (\A i \in DOMAIN proofs : Passes(s, tx, proofs, i)) <=>
               ProofsAccepted(SolidityOf(s), leaves, tx, proofs)
<1> SUFFICES ASSUME NEW i \in DOMAIN proofs
             PROVE  Passes(s, tx, proofs, i) <=>
                        /\ NullifierUnused(SolidityOf(s), proofs, i)
                        /\ IsCurrentSigner(SolidityOf(s), proofs[i].commitment)
                        /\ VerifyProof(leaves, tx, proofs[i])
  BY DEF ProofsAccepted
<1> DEFINE c == proofs[i].commitment
<1>1. c \in Commitment
  <2>1. proofs[i] \in ZkProof
    OBVIOUS
  <2> QED
    BY <2>1 DEF ZkProof
<1>2. /\ SolidityOf(s).usedNullifiers = s.used_nullifiers
      /\ SolidityOf(s).copies[c] = Occurrences(s.commitments, c)
      /\ Occurrences(s.commitments, c) \in Nat
  BY <1>1, SolidityFields
<1>3. c \in ToSet(s.commitments) <=> SolidityOf(s).copies[c] > 0
  <2>1. s.commitments \in Seq(Commitment)
    BY DEF StoreType
  <2>2. c \in ToSet(s.commitments) <=> Occurrences(s.commitments, c) # 0
    BY <2>1, InArray
  <2> QED
    BY <1>2, <2>2
<1> QED
  BY <1>2, <1>3 DEF Passes, NullifierUnused, IsCurrentSigner

LEMMA SameExecute ==
    ASSUME NEW s \in StoreType, NEW tx \in Transactions, NEW proofs \in Seq(ZkProof)
    PROVE  /\ Executed(s, tx, proofs) # {} <=>
                  /\ ExecuteSucceeds(SolidityOf(s), leaves, tx, proofs)
                  /\ tx.kind # "selfTransfer"
           /\ \A u \in Executed(s, tx, proofs) :
                 Mirrors(u, s, AfterExecute(SolidityOf(s), tx, proofs))
<1> DEFINE w == SolidityOf(s)
           k == Marked(s, proofs, Len(proofs))
           m == [k EXCEPT !.used_nonces = @ \cup {tx.nonce}]
           Ready == ~ (tx.nonce \in s.used_nonces \/ Len(proofs) < s.signatures_required)
           Passed == \A i \in DOMAIN proofs : Passes(s, tx, proofs, i)
<1>1. Mirrors(m, s, MarkSpent(w, tx, proofs))
  BY MarkedStorage
<1>2. /\ w \in WalletType
      /\ w.signaturesRequired = s.signatures_required
      /\ w.usedNonces = s.used_nonces
      /\ s.signatures_required \in Nat
  BY SolidityFields DEF StoreType
<1>3. Ready <=> NonceUnused(w, tx) /\ EnoughProofs(w, proofs)
  BY <1>2 DEF NonceUnused, EnoughProofs
<1>4. Passed <=> ProofsAccepted(w, leaves, tx, proofs)
  BY SameProofs
<1>5. CheckProofs(s, tx, proofs) = IF Passed THEN {k} ELSE {}
  BY CheckedList
<1>6. ASSUME NEW u
      PROVE  u \in Executed(s, tx, proofs) <=>
                 Ready /\ \E t \in CheckProofs(s, tx, proofs) :
                              u \in DispatchCall([t EXCEPT !.used_nonces = @ \cup {tx.nonce}], tx)
  BY DEF Executed
<1> HIDE DEF k, Ready, Passed
<1>7. ASSUME NEW u
      PROVE  u \in Executed(s, tx, proofs) <=> Ready /\ Passed /\ u \in DispatchCall(m, tx)
  BY <1>5, <1>6
<1> HIDE DEF m, w
<1>8. /\ DispatchCall(m, tx) # {} <=>
             CallSucceeds(MarkSpent(w, tx, proofs), tx) /\ tx.kind # "selfTransfer"
      /\ \A u \in DispatchCall(m, tx) :
            Mirrors(u, m, AfterCall(MarkSpent(w, tx, proofs), tx))
  <2>1. m \in StoreType /\ SolidityOf(m) = MarkSpent(w, tx, proofs)
    BY <1>1 DEF Mirrors
  <2> QED
    BY <2>1, SameCall
<1>9. CallSucceeds(MarkSpent(w, tx, proofs), tx) <=> CallSucceeds(w, tx)
  BY <1>2, MarkSpentType DEF CallSucceeds, AddSignersAccepts, RemoveSignersAccepts,
                             UpdateSignaturesRequiredAccepts, TransferAccepts
<1>10. Executed(s, tx, proofs) # {} <=>
           ExecuteSucceeds(w, leaves, tx, proofs) /\ tx.kind # "selfTransfer"
  BY <1>3, <1>4, <1>7, <1>8, <1>9, Zenon DEF ExecuteSucceeds
<1>11. ASSUME NEW u \in Executed(s, tx, proofs)
       PROVE  Mirrors(u, s, AfterExecute(w, tx, proofs))
  <2>1. u \in DispatchCall(m, tx)
    BY <1>7, <1>11
  <2> QED
    BY <1>1, <1>8, <2>1 DEF Mirrors, AfterExecute
<1> QED
  BY <1>10, <1>11 DEF w

----------------------------------------------------------------------------
(* The reachable states.                                                   *)

\* Until it is deployed the proxy is a fresh clone that nobody has called; from
\* then on it is initialised, so init refuses every later call.
InitialisedOnce ==
    /\ deployed = store.initialized
    /\ ~ deployed => store = FreshClone /\ leaves = {} /\ events = << >>

StylusInv == TypeOK /\ InitialisedOnce /\ ThresholdReachable

LEMMA FreshCloneType == FreshClone \in StoreType
BY DEF FreshClone, StoreType

LEMMA StylusInit == Init => StylusInv
<1> SUFFICES ASSUME Init PROVE StylusInv
  OBVIOUS
<1>1. TypeOK
  <2>1. deployed \in BOOLEAN /\ store \in StoreType
    BY FreshCloneType, Zenon DEF Init
  <2>2. leaves \subseteq LeafType
    BY DEF Init
  <2>3. events \in Seq(Solidity!EventType)
    <3> DEFINE E == Solidity!EventType
    <3> HIDE DEF E
    <3>1. << >> \in Seq(E)
      OBVIOUS
    <3> QED
      BY <3>1 DEF Init, E
  <2> QED
    BY <2>1, <2>2, <2>3, Zenon DEF TypeOK
<1>2. InitialisedOnce /\ ThresholdReachable
  BY DEF Init, InitialisedOnce, ThresholdReachable, FreshClone
<1> QED
  BY <1>1, <1>2 DEF StylusInv

\* A list of known proofs is a sequence of proofs.
LEMMA KnownProofs ==
    ASSUME TypeOK, NEW proofs \in Solidity!ProofLists
    PROVE  /\ proofs \in Seq(ZkProof)
           /\ \A i \in DOMAIN proofs : proofs[i] \in ZkProof
<1> DEFINE known == {[commitment |-> l.commitment, nullifier |-> l.nullifier] : l \in leaves}
<1>1. known \subseteq ZkProof
  BY DEF TypeOK, LeafType, ZkProof
<1>2. PICK n \in 0 .. MaxProofs : proofs \in [1 .. n -> known]
  BY DEF Solidity!ProofLists
<1>3. n \in Nat
  BY BoundsType
<1>4. QED
  BY <1>1, <1>2, <1>3

\* createWallet, or a call of init, finds a fresh clone and stores the list.
LEMMA Created ==
    ASSUME StylusInv, NEW list \in InitialSigners, NEW sigs \in 0 .. Len(list),
           CreateWallet(list, sigs)
    PROVE  /\ ~ deployed
           /\ list \in Seq(Commitment) /\ sigs > 0 /\ Len(list) > 0 /\ sigs <= Len(list)
           /\ deployed' = TRUE
           /\ store' \in StoreType
           /\ store'.initialized = TRUE
           /\ store'.signatures_required = sigs
           /\ store'.commitments = list
           /\ store'.used_nonces = {} /\ store'.used_nullifiers = {}
           /\ store'.balance = FreshClone.balance
           /\ leaves' = {} /\ events' = << >>
<1>1. /\ ~ store.initialized /\ sigs > 0 /\ Len(list) > 0 /\ sigs <= Len(list)
      /\ store' = [store EXCEPT !.signatures_required = sigs,
                                !.commitments = store.commitments \o list,
                                !.initialized = TRUE]
      /\ deployed' = TRUE /\ leaves' = leaves /\ events' = events
  BY DEF CreateWallet, InitializeState
<1>2. ~ deployed /\ store = FreshClone /\ leaves = {} /\ events = << >>
  BY <1>1 DEF StylusInv, InitialisedOnce
<1>3. list \in Seq(Commitment) /\ sigs \in Nat
  BY InitialSignersType
<1>4. FreshClone.commitments \o list = list
  BY <1>3 DEF FreshClone
<1>5. /\ FreshClone \in StoreType /\ FreshClone.used_nonces = {} /\ FreshClone.used_nullifiers = {}
  BY FreshCloneType DEF FreshClone
<1>6. store' = [FreshClone EXCEPT !.signatures_required = sigs, !.commitments = list,
                                  !.initialized = TRUE]
  BY <1>1, <1>2, <1>4
<1> QED
  BY <1>1, <1>2, <1>3, <1>5, <1>6 DEF StoreType

\* execute() leaves what the Solidity contract leaves.
LEMMA ExecutedAs ==
    ASSUME StylusInv, NEW tx \in Transactions, NEW proofs \in Solidity!ProofLists,
           Execute(tx, proofs)
    PROVE  /\ ExecuteSucceeds(SolidityOf(store), leaves, tx, proofs)
           /\ store' \in StoreType
           /\ store'.initialized = store.initialized
           /\ SolidityOf(store') = AfterExecute(SolidityOf(store), tx, proofs)
           /\ 1 <= store'.signatures_required
           /\ store'.signatures_required <= Len(store'.commitments)
<1> DEFINE w == SolidityOf(store)
<1>1. store \in StoreType /\ proofs \in Seq(ZkProof) /\ deployed
  BY KnownProofs DEF StylusInv, TypeOK, Execute
<1>2. store' \in Executed(store, tx, proofs)
  BY DEF Execute
<1>3. ExecuteSucceeds(w, leaves, tx, proofs)
  BY <1>1, <1>2, SameExecute
<1>4. PICK u : u = store'
  OBVIOUS
<1>5. Mirrors(u, store, AfterExecute(w, tx, proofs))
  BY <1>1, <1>2, <1>4, SameExecute
<1> DEFINE m == MarkSpent(w, tx, proofs)
<1>6. /\ w \in WalletType /\ m \in WalletType
      /\ m.signaturesRequired = w.signaturesRequired /\ m.length = w.length
      /\ m.copies = w.copies /\ m.balance = w.balance
  <2>1. w \in WalletType
    BY <1>1, SolidityFields
  <2> HIDE DEF w
  <2> QED
    BY <1>1, <2>1, MarkSpentType
<1>7. 1 <= m.signaturesRequired /\ m.signaturesRequired <= m.length
  <2>1. w.signaturesRequired = store.signatures_required /\ w.length = Len(store.commitments)
    BY <1>1, SolidityFields
  <2> HIDE DEF w, m
  <2> QED
    BY <1>1, <1>6, <2>1 DEF StylusInv, ThresholdReachable
<1> HIDE DEF w, m
<1>8. CallSucceeds(m, tx)
  BY <1>3, <1>6 DEF ExecuteSucceeds, CallSucceeds, AddSignersAccepts, RemoveSignersAccepts,
                    UpdateSignaturesRequiredAccepts, TransferAccepts
<1>9. /\ 1 <= AfterCall(m, tx).signaturesRequired
      /\ AfterCall(m, tx).signaturesRequired <= AfterCall(m, tx).length
  BY <1>6, <1>7, <1>8, AfterCallBounded
<1>10. /\ u \in StoreType /\ u.initialized = store.initialized
       /\ SolidityOf(u) = AfterCall(m, tx)
  BY <1>5 DEF Mirrors, AfterExecute, m
<1>11. 1 <= u.signatures_required /\ u.signatures_required <= Len(u.commitments)
  BY <1>9, <1>10, SolidityFields
<1> QED
  BY <1>3, <1>4, <1>10, <1>11 DEF AfterExecute, m, w

\* Money received changes nothing else.
LEMMA DepositedAs ==
    ASSUME StylusInv, NEW a \in Asset, NEW amount \in 1 .. MaxBalance, Deposit(a, amount)
    PROVE  /\ store' \in StoreType
           /\ store'.initialized = store.initialized
           /\ store'.signatures_required = store.signatures_required
           /\ store'.commitments = store.commitments
           /\ SolidityOf(store') = Receive(SolidityOf(store), a, amount)
<1>1. store \in StoreType /\ amount \in Nat /\ MaxBalance \in Nat
  BY BoundsType DEF StylusInv, TypeOK
<1>2. PICK u : u = store'
  OBVIOUS
<1> DEFINE b == [store.balance EXCEPT ![a] = @ + amount]
<1>3. b \in [Asset -> Nat] /\ u = [store EXCEPT !.balance = b]
  BY <1>1, <1>2 DEF Deposit, StoreType
<1>4. Receive(SolidityOf(store), a, amount) = [SolidityOf(store) EXCEPT !.balance = b]
  <2>1. SolidityOf(store).balance = store.balance
    BY <1>1, SolidityFields
  <2> QED
    BY <2>1 DEF Receive
<1> HIDE DEF b
<1>5. /\ u \in StoreType /\ u.initialized = store.initialized
      /\ u.signatures_required = store.signatures_required
      /\ u.commitments = store.commitments
      /\ u.used_nonces = store.used_nonces
      /\ u.used_nullifiers = store.used_nullifiers
      /\ u.balance = b
  BY <1>1, <1>3 DEF StoreType
<1>6. SolidityOf(u) = Receive(SolidityOf(store), a, amount)
  BY <1>4, <1>5 DEF SolidityOf
<1> QED
  BY <1>2, <1>5, <1>6

\* The entry that execute() adds to the log.
LEMMA LoggedType ==
    ASSUME StylusInv, NEW tx \in Transactions, NEW proofs \in Solidity!ProofLists
    PROVE  [tx |-> tx, approvers |-> {p.commitment : p \in ToSet(proofs)},
            required |-> store.signatures_required,
            signers |-> ToSet(store.commitments)] \in Solidity!EventType
<1>1. \A i \in DOMAIN proofs : proofs[i].commitment \in Commitment
  BY KnownProofs DEF StylusInv, ZkProof
<1>2. {p.commitment : p \in ToSet(proofs)} \in SUBSET Commitment
  BY <1>1 DEF ToSet
<1>3. store.commitments \in Seq(Commitment) /\ store.signatures_required \in Nat
  BY DEF StylusInv, TypeOK, StoreType
<1>4. ToSet(store.commitments) \in SUBSET Commitment
  BY <1>3 DEF ToSet
<1> QED
  BY <1>2, <1>3, <1>4 DEF Solidity!EventType

LEMMA StylusStep == StylusInv /\ [Next]_vars => StylusInv'
<1> SUFFICES ASSUME StylusInv, [Next]_vars PROVE StylusInv'
  OBVIOUS
<1>0. /\ deployed \in BOOLEAN /\ store \in StoreType /\ leaves \subseteq LeafType
      /\ events \in Seq(Solidity!EventType)
      /\ deployed = store.initialized
  BY DEF StylusInv, TypeOK, InitialisedOnce
<1>1. ASSUME NEW list \in InitialSigners, NEW sigs \in 0 .. Len(list), CreateWallet(list, sigs)
      PROVE  StylusInv'
  <2>1. /\ list \in Seq(Commitment) /\ sigs > 0 /\ sigs <= Len(list)
        /\ deployed' = TRUE
        /\ store' \in StoreType
        /\ store'.initialized = TRUE
        /\ store'.signatures_required = sigs
        /\ store'.commitments = list
        /\ leaves' = {} /\ events' = << >>
    BY <1>1, Created
  <2>2. TypeOK'
    <3> DEFINE E == Solidity!EventType
    <3> HIDE DEF E
    <3>1. << >> \in Seq(E)
      OBVIOUS
    <3>2. events' \in Seq(Solidity!EventType)
      BY <2>1, <3>1 DEF E
    <3>3. deployed' \in BOOLEAN /\ store' \in StoreType /\ leaves' \subseteq LeafType
      BY <2>1
    <3> QED
      BY <3>2, <3>3 DEF TypeOK, Solidity!EventType
  <2>3. InitialisedOnce'
    BY <2>1, Zenon DEF InitialisedOnce
  <2>4. ThresholdReachable'
    <3>1. sigs >= 1
      BY <2>1
    <3> QED
      BY <2>1, <3>1 DEF ThresholdReachable
  <2> QED
    BY <2>2, <2>3, <2>4 DEF StylusInv
<1>2. ASSUME NEW c \in Commitment, NEW tx \in Transactions, Aggregate(c, tx)
      PROVE  StylusInv'
  <2> DEFINE leaf == [tx |-> tx, commitment |-> c, nullifier |-> Nullifier(c, tx)]
  <2>1. leaf \in LeafType
    BY DEF LeafType, Nullifiers, Nullifier
  <2> HIDE DEF leaf
  <2>2. /\ deployed /\ leaves' = leaves \cup {leaf}
        /\ deployed' = deployed /\ store' = store /\ events' = events
    BY <1>2 DEF Aggregate, leaf
  <2> QED
    BY <1>0, <2>1, <2>2 DEF StylusInv, TypeOK, InitialisedOnce, ThresholdReachable, Solidity!EventType
<1>3. ASSUME NEW tx \in Transactions, NEW proofs \in Solidity!ProofLists, Execute(tx, proofs)
      PROVE  StylusInv'
  <2> DEFINE e == [tx |-> tx, approvers |-> {p.commitment : p \in ToSet(proofs)},
                   required |-> store.signatures_required,
                   signers |-> ToSet(store.commitments)]
  <2>1. e \in Solidity!EventType
    BY LoggedType
  <2> HIDE DEF e
  <2>2. /\ deployed /\ events' = Append(events, e) /\ deployed' = deployed /\ leaves' = leaves
    BY <1>3 DEF Execute, e
  <2>3. /\ store' \in StoreType /\ store'.initialized = store.initialized
        /\ 1 <= store'.signatures_required
        /\ store'.signatures_required <= Len(store'.commitments)
    BY <1>3, ExecutedAs
  <2>4. events' \in Seq(Solidity!EventType)
    BY <1>0, <2>1, <2>2
  <2> QED
    BY <1>0, <2>2, <2>3, <2>4
    DEF StylusInv, TypeOK, InitialisedOnce, ThresholdReachable, Solidity!EventType
<1>4. ASSUME NEW a \in Asset, NEW amount \in 1 .. MaxBalance, Deposit(a, amount)
      PROVE  StylusInv'
  <2>1. /\ store' \in StoreType /\ store'.initialized = store.initialized
        /\ store'.signatures_required = store.signatures_required
        /\ store'.commitments = store.commitments
    BY <1>4, DepositedAs
  <2>2. deployed /\ deployed' = deployed /\ leaves' = leaves /\ events' = events
    BY <1>4 DEF Deposit
  <2> QED
    BY <1>0, <2>1, <2>2
    DEF StylusInv, TypeOK, InitialisedOnce, ThresholdReachable, Solidity!EventType
<1>5. CASE UNCHANGED vars
  BY <1>0, <1>5
  DEF vars, StylusInv, TypeOK, InitialisedOnce, ThresholdReachable, Solidity!EventType
<1> QED
  BY <1>1, <1>2, <1>3, <1>4, <1>5, Zenon DEF Next

LEMMA AlwaysStylusInv == Spec => []StylusInv
BY StylusInit, StylusStep, PTL DEF Spec

\* The storage, the leaves and the log are well formed.
THEOREM TypeCorrect == Spec => []TypeOK
<1>1. StylusInv => TypeOK
  BY DEF StylusInv
<1> QED
  BY <1>1, AlwaysStylusInv, PTL

\* A deployed proxy has a threshold of at least one and at most the length of its
\* array, for every list it is initialised with and every sequence of calls.
THEOREM NeverOpen == Spec => []ThresholdReachable
<1>1. StylusInv => ThresholdReachable
  BY DEF StylusInv
<1> QED
  BY <1>1, AlwaysStylusInv, PTL

\* The port accepts exactly the calls that the Solidity contract accepts, but for the
\* payments to the wallet's own address, which it refuses.
THEOREM AcceptsAllButSelfTransfers == Spec => []SameButSelfTransfers
<1>1. StylusInv => SameButSelfTransfers
  <2> SUFFICES ASSUME StylusInv, NEW tx \in Transactions, NEW proofs \in Solidity!ProofLists
               PROVE  (Executed(store, tx, proofs) # {})
                          <=> /\ ExecuteSucceeds(SolidityOf(store), leaves, tx, proofs)
                              /\ tx.kind # "selfTransfer"
    BY DEF SameButSelfTransfers
  <2>1. store \in StoreType /\ proofs \in Seq(ZkProof)
    BY KnownProofs DEF StylusInv, TypeOK
  <2> QED
    BY <2>1, SameExecute
<1> QED
  BY <1>1, AlwaysStylusInv, PTL

----------------------------------------------------------------------------
(* Each step of the port is a step of the Solidity contract. The operators *)
(* of the instance are those of WalletOps.                                 *)

LEMMA InstanceCardinality == \A S : Solidity!Cardinality(S) = Cardinality(S)
BY DEF Cardinality, Solidity!Cardinality

LEMMA InstanceOccurrences == \A list, c : Solidity!Occurrences(list, c) = Occurrences(list, c)
BY InstanceCardinality DEF Occurrences, Solidity!Occurrences

LEMMA InstanceRange == \A f : Solidity!Range(f) = Range(f)
BY DEF Range, Solidity!Range

LEMMA InstanceAccepts ==
    ASSUME NEW w, NEW l, NEW tx, NEW proofs
    PROVE  Solidity!ExecuteSucceeds(w, l, tx, proofs) <=> ExecuteSucceeds(w, l, tx, proofs)
<1>1. Solidity!ProofsAccepted(w, l, tx, proofs) <=> ProofsAccepted(w, l, tx, proofs)
  BY DEF ProofsAccepted, NullifierUnused, IsCurrentSigner, VerifyProof,
         Solidity!ProofsAccepted, Solidity!NullifierUnused, Solidity!IsCurrentSigner,
         Solidity!VerifyProof
<1>2. /\ Solidity!NonceUnused(w, tx) <=> NonceUnused(w, tx)
      /\ Solidity!EnoughProofs(w, proofs) <=> EnoughProofs(w, proofs)
  BY DEF NonceUnused, EnoughProofs, Solidity!NonceUnused, Solidity!EnoughProofs
<1>3. Solidity!AddSignersAccepts(w, tx.list, tx.newSig) <=>
          AddSignersAccepts(w, tx.list, tx.newSig)
  BY DEF AddSignersAccepts, Solidity!AddSignersAccepts, IsInjective, Solidity!IsInjective
<1>4. Solidity!RemoveSignersAccepts(w, tx.list, tx.newSig) <=>
          RemoveSignersAccepts(w, tx.list, tx.newSig)
  BY InstanceOccurrences DEF RemoveSignersAccepts, Solidity!RemoveSignersAccepts
<1>5. /\ Solidity!UpdateSignaturesRequiredAccepts(w, tx.newSig) <=>
             UpdateSignaturesRequiredAccepts(w, tx.newSig)
      /\ Solidity!TransferAccepts(w, tx.pay) <=> TransferAccepts(w, tx.pay)
  BY DEF UpdateSignaturesRequiredAccepts, TransferAccepts,
         Solidity!UpdateSignaturesRequiredAccepts, Solidity!TransferAccepts
<1>6. Solidity!CallSucceeds(w, tx) <=> CallSucceeds(w, tx)
  BY <1>3, <1>4, <1>5, Zenon DEF CallSucceeds, Solidity!CallSucceeds
<1> QED
  BY <1>1, <1>2, <1>6, Zenon DEF ExecuteSucceeds, Solidity!ExecuteSucceeds

LEMMA InstanceAfter ==
    ASSUME NEW w, NEW tx \in Transactions, NEW proofs
    PROVE  Solidity!AfterExecute(w, tx, proofs) = AfterExecute(w, tx, proofs)
<1>1. Solidity!MarkSpent(w, tx, proofs) = MarkSpent(w, tx, proofs)
  BY Zenon DEF MarkSpent, Solidity!MarkSpent
<1>2. ASSUME NEW x PROVE Solidity!AfterCall(x, tx) = AfterCall(x, tx)
  <2>1. Solidity!AddSigners(x, tx.list, tx.newSig) = AddSigners(x, tx.list, tx.newSig)
    BY InstanceRange DEF AddSigners, Solidity!AddSigners
  <2>2. Solidity!RemoveSigners(x, tx.list, tx.newSig) = RemoveSigners(x, tx.list, tx.newSig)
    BY InstanceOccurrences DEF RemoveSigners, Solidity!RemoveSigners
  <2>3. /\ Solidity!UpdateSignaturesRequired(x, tx.newSig) = UpdateSignaturesRequired(x, tx.newSig)
        /\ Solidity!Transfer(x, tx.pay) = Transfer(x, tx.pay)
    BY Zenon DEF UpdateSignaturesRequired, Transfer, Solidity!UpdateSignaturesRequired, Solidity!Transfer
  <2>4. tx.kind \in Kinds
    BY TxFields
  <2> QED
    BY <2>1, <2>2, <2>3, <2>4 DEF Kinds, GovernanceKinds, AfterCall, Solidity!AfterCall
<1> QED
  BY <1>1, <1>2, Zenon DEF AfterExecute, Solidity!AfterExecute

\* The proxy comes into being as a constructed Solidity wallet.
LEMMA ConstructedAs ==
    ASSUME StylusInv, NEW list \in InitialSigners, NEW sigs \in 0 .. Len(list),
           CreateWallet(list, sigs)
    PROVE  ~ deployed /\ Solidity!Init'
<1>1. /\ ~ deployed
      /\ list \in Seq(Commitment) /\ sigs > 0 /\ Len(list) > 0 /\ sigs <= Len(list)
      /\ store'.signatures_required = sigs
      /\ store'.commitments = list
      /\ store'.used_nonces = {} /\ store'.used_nullifiers = {}
      /\ store'.balance = FreshClone.balance
      /\ leaves' = {} /\ events' = << >>
  BY Created
<1>2. PICK u : u = store'
  OBVIOUS
<1>3. SolidityOf(u) = Solidity!Constructed(list, sigs, FreshClone.balance)
  BY <1>1, <1>2, InstanceOccurrences DEF SolidityOf, Solidity!Constructed
<1>4. Solidity!ConstructorAccepts(list, sigs)
  BY <1>1 DEF Solidity!ConstructorAccepts
<1>5. sigs \in 0 .. Len(list) + 1
  BY <1>1
<1> QED
  BY <1>1, <1>2, <1>3, <1>4, <1>5 DEF Solidity!Init

LEMMA SameSigners ==
    ASSUME NEW s \in StoreType
    PROVE  Solidity!Signers(SolidityOf(s)) = ToSet(s.commitments)
<1>1. s.commitments \in Seq(Commitment)
  BY DEF StoreType
<1>2. ToSet(s.commitments) \subseteq Commitment
  BY <1>1 DEF ToSet
<1>3. \A c \in Commitment : c \in ToSet(s.commitments) <=> SolidityOf(s).copies[c] > 0
  <2> SUFFICES ASSUME NEW c \in Commitment
               PROVE  c \in ToSet(s.commitments) <=> SolidityOf(s).copies[c] > 0
    OBVIOUS
  <2>1. c \in ToSet(s.commitments) <=> Occurrences(s.commitments, c) # 0
    BY <1>1, InArray
  <2>2. /\ SolidityOf(s).copies[c] = Occurrences(s.commitments, c)
        /\ Occurrences(s.commitments, c) \in Nat
    BY SolidityFields
  <2> QED
    BY <2>1, <2>2
<1> QED
  BY <1>2, <1>3 DEF Solidity!Signers

LEMMA ExecuteMatches ==
    ASSUME StylusInv, NEW tx \in Transactions, NEW proofs \in Solidity!ProofLists,
           Execute(tx, proofs)
    PROVE  Solidity!Execute(tx, proofs)
<1>1. /\ ExecuteSucceeds(SolidityOf(store), leaves, tx, proofs)
      /\ SolidityOf(store') = AfterExecute(SolidityOf(store), tx, proofs)
  BY ExecutedAs
<1>2. /\ Solidity!ExecuteSucceeds(SolidityOf(store), leaves, tx, proofs)
      /\ SolidityOf(store') = Solidity!AfterExecute(SolidityOf(store), tx, proofs)
  BY <1>1, InstanceAccepts, InstanceAfter
<1>3. Solidity!ApproversOf(proofs) = {p.commitment : p \in ToSet(proofs)}
  BY DEF Solidity!ApproversOf, ToSet
<1>4. /\ Solidity!Signers(SolidityOf(store)) = ToSet(store.commitments)
      /\ SolidityOf(store).signaturesRequired = store.signatures_required
  BY SameSigners, SolidityFields DEF StylusInv, TypeOK
<1>5. events' = Append(events, [tx |-> tx, approvers |-> Solidity!ApproversOf(proofs),
                                required |-> SolidityOf(store).signaturesRequired,
                                signers |-> Solidity!Signers(SolidityOf(store))])
  BY <1>3, <1>4, Zenon DEF Execute
<1>6. leaves' = leaves
  BY DEF Execute
<1> QED
  BY <1>2, <1>5, <1>6, Zenon DEF Solidity!Execute

LEMMA MatchStep ==
    ASSUME StylusInv, [Next]_vars
    PROVE  [IF deployed THEN Solidity!Next \/ UNCHANGED Solidity!vars ELSE Solidity!Init']_vars
<1>1. ASSUME NEW list \in InitialSigners, NEW sigs \in 0 .. Len(list), CreateWallet(list, sigs)
      PROVE  ~ deployed /\ Solidity!Init'
  BY <1>1, ConstructedAs
<1>2. ASSUME NEW c \in Commitment, NEW tx \in Transactions, Aggregate(c, tx)
      PROVE  deployed /\ Solidity!Next
  <2>1. /\ deployed /\ Cardinality(leaves) < MaxLeaves
        /\ leaves' = leaves \cup {[tx |-> tx, commitment |-> c, nullifier |-> Nullifier(c, tx)]}
        /\ store' = store /\ events' = events
    BY <1>2 DEF Aggregate
  <2>2. Solidity!Nullifier(c, tx) = Nullifier(c, tx)
    BY DEF Nullifier, Solidity!Nullifier
  <2>3. Solidity!Aggregate(c, tx)
    BY <2>1, <2>2, InstanceCardinality DEF Solidity!Aggregate
  <2> QED
    BY <2>1, <2>3 DEF Solidity!Next
<1>3. ASSUME NEW tx \in Transactions, NEW proofs \in Solidity!ProofLists, Execute(tx, proofs)
      PROVE  deployed /\ Solidity!Next
  <2>1. Solidity!Execute(tx, proofs) /\ deployed
    BY <1>3, ExecuteMatches DEF Execute
  <2> QED
    BY <2>1 DEF Solidity!Next
<1>4. ASSUME NEW a \in Asset, NEW amount \in 1 .. MaxBalance, Deposit(a, amount)
      PROVE  deployed /\ Solidity!Next
  <2>1. /\ deployed /\ store.balance[a] + amount <= MaxBalance
        /\ leaves' = leaves /\ events' = events
    BY <1>4 DEF Deposit
  <2>2. SolidityOf(store') = Receive(SolidityOf(store), a, amount)
    BY <1>4, DepositedAs
  <2>3. SolidityOf(store).balance = store.balance
    BY DEF SolidityOf
  <2>4. Solidity!Receive(SolidityOf(store), a, amount) = Receive(SolidityOf(store), a, amount)
    BY Zenon DEF Receive, Solidity!Receive
  <2>5. Solidity!Deposit(a, amount)
    BY <2>1, <2>2, <2>3, <2>4, Zenon DEF Solidity!Deposit
  <2> QED
    BY <2>1, <2>5 DEF Solidity!Next
<1> QED
  BY <1>1, <1>2, <1>3, <1>4, Zenon DEF Next

\* The proxy is constructed as a Solidity wallet, and each later step of it is a step
\* of the Solidity contract: the Rust port refines the contract it replaces.
THEOREM PortRefinesContract == Spec => MatchesSolidity
<1>1. StylusInv /\ [Next]_vars =>
          [IF deployed THEN Solidity!Next \/ UNCHANGED Solidity!vars ELSE Solidity!Init']_vars
  BY MatchStep
<1> QED
  BY <1>1, AlwaysStylusInv, PTL DEF Spec, MatchesSolidity

----------------------------------------------------------------------------
(* The quorum. The port marks each nullifier in its turn, so accepted proofs *)
(* are of distinct signers, as in the contract.                              *)

QuorumInv == StylusInv /\ Sound(leaves) /\ QuorumOfSigners

\* What QuorumOfSigners says of one logged call.
HadQuorum(e, known) ==
    /\ e.approvers \subseteq e.signers
    /\ Cardinality(e.approvers) >= e.required
    /\ \A c \in e.approvers :
           [tx |-> e.tx, commitment |-> c, nullifier |-> Nullifier(c, e.tx)] \in known

LEMMA QuorumOfEach == QuorumOfSigners <=> \A i \in DOMAIN events : HadQuorum(events[i], leaves)
BY InstanceCardinality
   DEF QuorumOfSigners, Solidity!QuorumOfSigners, HadQuorum, Nullifier, Solidity!Nullifier

LEMMA LeavesStep == StylusInv /\ Sound(leaves) /\ [Next]_vars => Sound(leaves)' /\ leaves \subseteq leaves'
<1> SUFFICES ASSUME StylusInv, Sound(leaves), [Next]_vars PROVE Sound(leaves)' /\ leaves \subseteq leaves'
  OBVIOUS
<1>1. CASE \E c \in Commitment, tx \in Transactions : Aggregate(c, tx)
  BY <1>1 DEF Aggregate, Sound
<1>2. CASE leaves' = leaves
  BY <1>2 DEF Sound
<1> QED
  BY <1>1, <1>2 DEF Next, CreateWallet, Execute, Deposit, vars

\* What execute() logs had its quorum.
LEMMA LoggedHadQuorum ==
    ASSUME StylusInv, Sound(leaves), NEW tx \in Transactions, NEW proofs \in Solidity!ProofLists,
           Execute(tx, proofs)
    PROVE  \E e : events' = Append(events, e) /\ HadQuorum(e, leaves)
<1> DEFINE e == [tx |-> tx, approvers |-> {p.commitment : p \in ToSet(proofs)},
                 required |-> store.signatures_required, signers |-> ToSet(store.commitments)]
           w == SolidityOf(store)
<1>1. /\ proofs \in Seq(ZkProof)
      /\ \A i \in DOMAIN proofs : proofs[i] \in ZkProof
      /\ store \in StoreType
  BY KnownProofs DEF StylusInv, TypeOK
<1>2. ExecuteSucceeds(w, leaves, tx, proofs)
  BY ExecutedAs
<1>3. /\ w.signaturesRequired = store.signatures_required
      /\ \A c \in Commitment : w.copies[c] > 0 <=> c \in ToSet(store.commitments)
  <2>1. \A c \in Commitment : w.copies[c] > 0 <=> c \in Solidity!Signers(w)
    BY DEF Solidity!Signers
  <2> QED
    BY <1>1, <2>1, SolidityFields, SameSigners
<1> HIDE DEF w
<1>4. ProofsAccepted(w, leaves, tx, proofs) /\ Len(proofs) >= store.signatures_required
  BY <1>2, <1>3 DEF ExecuteSucceeds, EnoughProofs
<1>5. e.approvers = Approving(proofs)
  BY DEF ToSet, Approving
<1>6. Cardinality(Approving(proofs)) = Len(proofs) /\ OwnNullifiers(tx, proofs)
  BY <1>1, <1>4, AcceptedDistinct
<1>7. \A i \in DOMAIN proofs :
          /\ proofs[i].commitment \in ToSet(store.commitments)
          /\ [tx |-> tx, commitment |-> proofs[i].commitment,
              nullifier |-> proofs[i].nullifier] \in leaves
  BY <1>1, <1>3, <1>4 DEF ProofsAccepted, IsCurrentSigner, VerifyProof, ZkProof
<1>8. events' = Append(events, e)
  BY DEF Execute
<1>9. HadQuorum(e, leaves)
  <2>1. Cardinality(e.approvers) >= e.required
    BY <1>4, <1>5, <1>6
  <2>2. e.approvers \subseteq e.signers
    BY <1>5, <1>7 DEF Approving
  <2>3. \A c \in e.approvers :
            [tx |-> e.tx, commitment |-> c, nullifier |-> Nullifier(c, e.tx)] \in leaves
    BY <1>5, <1>6, <1>7 DEF Approving, OwnNullifiers
  <2> QED
    BY <2>1, <2>2, <2>3 DEF HadQuorum
<1> QED
  BY <1>8, <1>9

LEMMA QuorumStep == QuorumInv /\ [Next]_vars => QuorumInv'
<1> SUFFICES ASSUME QuorumInv, [Next]_vars PROVE QuorumInv'
  OBVIOUS
<1>1. StylusInv' /\ Sound(leaves)' /\ leaves \subseteq leaves'
  BY StylusStep, LeavesStep DEF QuorumInv
<1>2. \A e : HadQuorum(e, leaves) => HadQuorum(e, leaves')
  BY <1>1 DEF HadQuorum
<1>3. /\ events \in Seq(Solidity!EventType)
      /\ \A i \in DOMAIN events : HadQuorum(events[i], leaves)
  BY QuorumOfEach DEF QuorumInv, StylusInv, TypeOK
<1>4. (\A i \in DOMAIN events : HadQuorum(events[i], leaves))'
  <2>1. ASSUME NEW tx \in Transactions, NEW proofs \in Solidity!ProofLists, Execute(tx, proofs)
        PROVE  \A i \in DOMAIN events' : HadQuorum(events'[i], leaves')
    <3>1. PICK e : events' = Append(events, e) /\ HadQuorum(e, leaves)
      BY <2>1, LoggedHadQuorum DEF QuorumInv
    <3>2. \A i \in DOMAIN events' :
             \/ i \in DOMAIN events /\ events'[i] = events[i]
             \/ events'[i] = e
      BY <1>3, <3>1
    <3> QED
      BY <1>2, <1>3, <3>1, <3>2
  <2>2. CASE events' = events
    BY <1>2, <1>3, <2>2
  <2> QED
    BY <2>1, <2>2 DEF Next, CreateWallet, Aggregate, Deposit, vars
<1>5. QuorumOfSigners'
  BY <1>4, QuorumOfEach, PTL
<1> QED
  BY <1>1, <1>5 DEF QuorumInv

\* The port executes only what its threshold of distinct current signers approved,
\* whatever list it was initialised with.
THEOREM QuorumHolds == Spec => []QuorumOfSigners
<1>1. Init => QuorumInv
  BY StylusInit, QuorumOfEach DEF Init, QuorumInv, Sound
<1>2. QuorumInv => QuorumOfSigners
  BY DEF QuorumInv
<1> QED
  BY <1>1, <1>2, QuorumStep, PTL DEF Spec
=============================================================================
