-------------------------- MODULE TxCreationProofs --------------------------
(* Theorems about TxCreation, for any number of clients and items and any   *)
(* bound on the reservations.                                               *)
EXTENDS TxCreation, WellFoundedInduction, TLAPS

----------------------------------------------------------------------------

\* A set of integers that has an upper bound has a greatest member.
LEMMA MaxOfBounded ==
  ASSUME NEW k \in Nat, NEW S, S \subseteq -1 .. k, S # {}
  PROVE  Max(S) \in S /\ \A y \in S : Max(S) >= y
<1> DEFINE T == {k - n : n \in S}
<1>1. /\ \A n \in S : k - n \in T /\ k - n \in Nat /\ n \in Int
      /\ \A x \in T : \E n \in S : x = k - n
  OBVIOUS
<1> HIDE DEF T
<1>2. T \subseteq Nat /\ T # {}
  BY <1>1
<1>3. PICK x \in T : \A y \in T : ~ (<<y, x>> \in OpToRel(<, Nat))
  BY <1>2, NatLessThanWellFounded, WFMin, Zenon
<1>4. ASSUME NEW y \in T
      PROVE  x <= y
  <2> SUFFICES ASSUME y < x PROVE FALSE
    BY <1>2
  <2>1. <<y, x>> \in OpToRel(<, Nat)
    BY <1>2 DEF OpToRel
  <2> QED
    BY <1>3, <2>1
<1>5. PICK m \in S : x = k - m
  BY <1>1
<1>6. ASSUME NEW y \in S
      PROVE  m >= y
  <2>1. x <= k - y /\ y \in Int /\ m \in Int
    BY <1>1, <1>4
  <2> QED
    BY <1>5, <2>1
<1> QED
  BY <1>5, <1>6 DEF Max

----------------------------------------------------------------------------
(* The strengthening. *)

WithReservation == {"holding", "proving", "clearing"}

\* A nonce is less than the number of reservations made, so there is a greatest one.
NoncesBounded ==
    /\ \A r \in reserved : r.nonce < lastId
    /\ \A x \in rows : x.nonce < lastId
    /\ \A c \in Client : /\ client[c].nonce <= lastId
                         /\ client[c].pc \in WithReservation => client[c].nonce < lastId
                         /\ client[c].pc \in {"proving", "clearing"} => client[c].res # 0

\* A row that is being written has a nonce of its own.
ClearingAlone ==
    \A c \in Client : client[c].pc = "clearing" =>
        /\ \A x \in rows : x.nonce # client[c].nonce
        /\ \A d \in Client \ {c} : client[d].pc = "clearing" =>
               client[d].nonce # client[c].nonce

\* The items c has deleted for the row it is writing.
Cleared(c) == IF client[c].pc = "clearing" THEN client[c].batch \ client[c].todo ELSE {}

\* An item is in the table, in one row, or deleted for one row that is being written.
ItemsOnce ==
    /\ \A x \in rows : x.batch \cap items = {}
    /\ \A c \in Client : /\ Cleared(c) \cap items = {}
                         /\ \A x \in rows : x.batch \cap Cleared(c) = {}
                         /\ \A d \in Client \ {c} : Cleared(c) \cap Cleared(d) = {}

IInv == TypeOK /\ NoncesBounded /\ ClearingAlone /\ ItemsOnce /\ NonceInOneRow /\ ItemInOneRow

LEMMA InitIInv == Init => IInv
  BY MaxReservationsType
     DEF Init, IInv, TypeOK, NoncesBounded, ClearingAlone, ItemsOnce, NonceInOneRow,
         ItemInOneRow, Start, Id, WithReservation, Cleared

ClientState ==
    [pc : {"start", "reserving", "holding", "proving", "clearing"}, nonce : Nat,
     res : Id \cup {0}, batch : SUBSET Item, todo : SUBSET Item]

\* What a step of client c leaves of the others.
LEMMA ClientStep ==
  ASSUME TypeOK, NEW c \in Client, NEW new \in ClientState,
         client' = [client EXCEPT ![c] = new]
  PROVE  /\ client' \in [Client -> ClientState]
         /\ client'[c] = new
         /\ \A d \in Client \ {c} : client'[d] = client[d]
  BY DEF TypeOK, ClientState

\* A step that leaves rows and items alone and lets no client begin or go on writing.
LEMMA QuietStep ==
  ASSUME IInv, UNCHANGED <<rows, items>>,
         \A c \in Client : \/ client'[c] = client[c]
                           \/ client'[c].pc # "clearing"
  PROVE  ClearingAlone' /\ ItemsOnce' /\ NonceInOneRow' /\ ItemInOneRow'
<1>1. ClearingAlone' /\ NonceInOneRow' /\ ItemInOneRow'
  BY DEF IInv, ClearingAlone, NonceInOneRow, ItemInOneRow
<1>2. \A c \in Client : Cleared(c)' \subseteq Cleared(c)
  BY DEF Cleared
<1>3. ItemsOnce'
  BY <1>2 DEF IInv, ItemsOnce
<1> QED
  BY <1>1, <1>3

LEMMA ReadNextNonceKeeps ==
  ASSUME IInv, NEW c \in Client, ReadNextNonce(c)
  PROVE  IInv'
<1> DEFINE S == {-1} \cup {x.nonce : x \in rows} \cup {r.nonce : r \in reserved'}
<1>1. reserved' \subseteq reserved /\ UNCHANGED <<rows, items, lastId>>
  BY DEF ReadNextNonce
<1>2. lastId \in Nat /\ S # {} /\ S \subseteq -1 .. lastId
  BY <1>1, MaxReservationsType DEF IInv, TypeOK, NoncesBounded
<1>3. Max(S) \in S
  BY <1>2, MaxOfBounded
<1>4. Max(S) < lastId /\ Max(S) + 1 \in Nat
  BY <1>1, <1>2, <1>3, MaxReservationsType DEF IInv, TypeOK, NoncesBounded
<1>5. /\ client' = [client EXCEPT ![c] = [Start EXCEPT !.pc = "reserving", !.nonce = Max(S) + 1]]
  BY DEF ReadNextNonce, NextNonce
<1> HIDE DEF S
<1>6. TypeOK'
  BY <1>1, <1>4, <1>5 DEF IInv, TypeOK, Start
<1>7. NoncesBounded'
  <2>1. /\ client'[c].pc = "reserving" /\ client'[c].nonce = Max(S) + 1
        /\ \A d \in Client \ {c} : client'[d] = client[d]
    BY <1>5 DEF IInv, TypeOK, Start
  <2>2. Max(S) \in -1 .. lastId
    BY <1>2, <1>3
  <2>3. Max(S) + 1 <= lastId
    BY <1>2, <1>4, <2>2
  <2> QED
    BY <1>1, <2>1, <2>3 DEF IInv, NoncesBounded, WithReservation
<1>8. \A d \in Client : client'[d] = client[d] \/ client'[d].pc # "clearing"
  BY <1>5 DEF IInv, TypeOK, Start
<1> QED
  BY <1>1, <1>6, <1>7, <1>8, QuietStep DEF IInv

LEMMA CreateReservationKeeps ==
  ASSUME IInv, NEW c \in Client, CreateReservation(c)
  PROVE  IInv'
<1>1. UNCHANGED <<rows, items>>
  BY DEF CreateReservation
<1>2. \A d \in Client : client'[d] = client[d] \/ client'[d].pc # "clearing"
  BY DEF CreateReservation, IInv, TypeOK, Start
<1>3. CASE \E r \in reserved : r.nonce = client[c].nonce
  <2>1. TypeOK' /\ NoncesBounded'
    BY <1>3, MaxReservationsType
       DEF CreateReservation, IInv, TypeOK, NoncesBounded, Start, WithReservation
  <2> QED
    BY <1>1, <1>2, <2>1, QuietStep DEF IInv
<1>4. CASE ~ \E r \in reserved : r.nonce = client[c].nonce
  <2>1. /\ lastId < MaxReservations /\ lastId' = lastId + 1
        /\ reserved' = reserved \cup {[id |-> lastId', nonce |-> client[c].nonce,
                                       expired |-> FALSE]}
        /\ client' = [client EXCEPT ![c].pc = "holding"]
    BY <1>4 DEF CreateReservation
  <2>2. lastId' \in Id /\ lastId' \in 0 .. MaxReservations
    BY <2>1, MaxReservationsType DEF IInv, TypeOK, Id
  <2>3. TypeOK'
    <3>1. [id |-> lastId', nonce |-> client[c].nonce, expired |-> FALSE]
              \in [id : Id, nonce : Nat, expired : BOOLEAN]
      BY <2>2 DEF IInv, TypeOK
    <3>2. client' \in [Client -> [pc : {"start", "reserving", "holding", "proving", "clearing"},
                                  nonce : Nat, res : Id \cup {0},
                                  batch : SUBSET Item, todo : SUBSET Item]]
      BY <2>1 DEF IInv, TypeOK
    <3> QED
      BY <1>1, <2>1, <2>2, <3>1, <3>2 DEF IInv, TypeOK
  <2>4. NoncesBounded'
    BY <1>1, <2>1, MaxReservationsType DEF IInv, TypeOK, NoncesBounded, WithReservation
  <2> QED
    BY <1>1, <1>2, <2>3, <2>4, QuietStep DEF IInv
<1> QED
  BY <1>3, <1>4

LEMMA ExpireKeeps ==
  ASSUME IInv, NEW r \in reserved, Expire(r)
  PROVE  IInv'
<1>1. UNCHANGED <<rows, items, client, lastId>>
  BY DEF Expire
<1>2. TypeOK' /\ NoncesBounded'
  BY DEF Expire, IInv, TypeOK, NoncesBounded
<1> QED
  BY <1>1, <1>2, QuietStep DEF IInv

LEMMA CheckReservationKeeps ==
  ASSUME IInv, NEW c \in Client, NEW r \in reserved, NEW batch \in SUBSET Item,
         CheckReservation(c, r, batch)
  PROVE  IInv'
<1>1. UNCHANGED <<reserved, rows, items, lastId>>
  BY DEF CheckReservation
<1>2. \A d \in Client : client'[d] = client[d] \/ client'[d].pc # "clearing"
  BY DEF CheckReservation, IInv, TypeOK
<1>3. r.id \in Id /\ r.id # 0 /\ r.nonce = client[c].nonce /\ batch \subseteq Item
  BY DEF CheckReservation, IInv, TypeOK, Id
<1>4. client' = [client EXCEPT ![c].pc = "proving", ![c].res = r.id, ![c].batch = batch]
  BY DEF CheckReservation
<1>5. TypeOK'
  <2>1. client[c] \in ClientState
    BY DEF IInv, TypeOK, ClientState
  <2>2. [client[c] EXCEPT !.pc = "proving", !.res = r.id, !.batch = batch] \in ClientState
    BY <1>3, <2>1 DEF ClientState
  <2>3. client' = [client EXCEPT ![c] = [client[c] EXCEPT !.pc = "proving", !.res = r.id,
                                                          !.batch = batch]]
    BY <1>4
  <2>4. client' \in [Client -> ClientState]
    BY <2>2, <2>3, ClientStep DEF IInv
  <2> QED
    BY <1>1, <2>4 DEF IInv, TypeOK, ClientState
<1>6. NoncesBounded'
  <2>1. /\ client'[c].pc = "proving" /\ client'[c].nonce = r.nonce /\ client'[c].res # 0
        /\ \A d \in Client \ {c} : client'[d] = client[d]
    BY <1>3, <1>4 DEF IInv, TypeOK
  <2>2. client[c].nonce <= lastId /\ r.nonce < lastId
    BY DEF IInv, NoncesBounded
  <2> QED
    BY <1>1, <1>3, <2>1, <2>2 DEF IInv, NoncesBounded, WithReservation
<1> QED
  BY <1>1, <1>2, <1>5, <1>6, QuietStep DEF IInv

LEMMA FailKeeps ==
  ASSUME IInv, NEW c \in Client, Fail(c)
  PROVE  IInv'
<1>1. UNCHANGED <<reserved, rows, items, lastId>>
  BY DEF Fail
<1>2. \A d \in Client : client'[d] = client[d] \/ client'[d].pc # "clearing"
  BY DEF Fail, IInv, TypeOK
<1>3. TypeOK' /\ NoncesBounded'
  BY DEF Fail, IInv, TypeOK, NoncesBounded, WithReservation
<1> QED
  BY <1>1, <1>2, <1>3, QuietStep DEF IInv

LEMMA OpenTransactionKeeps ==
  ASSUME IInv, NEW c \in Client, OpenTransaction(c)
  PROVE  IInv'
<1> DEFINE new == [client[c] EXCEPT !.pc = "clearing", !.todo = client[c].batch]
<1>1. /\ UNCHANGED <<reserved, rows, items, lastId>>
      /\ client' = [client EXCEPT ![c].pc = "clearing", ![c].todo = client[c].batch]
      /\ client[c].pc = "proving"
  BY DEF OpenTransaction
<1>2. client[c] \in ClientState
  BY DEF IInv, TypeOK, ClientState
<1>3. new \in ClientState /\ client' = [client EXCEPT ![c] = new]
  BY <1>1, <1>2 DEF ClientState
<1> HIDE DEF new
<1>4. client' \in [Client -> ClientState]
  BY <1>3, ClientStep DEF IInv
<1>5. TypeOK' /\ NonceInOneRow' /\ ItemInOneRow'
  BY <1>1, <1>4 DEF IInv, TypeOK, ClientState, NonceInOneRow, ItemInOneRow
<1>6. NoncesBounded'
  <2>1. \A d \in Client : /\ client'[d].nonce = client[d].nonce
                          /\ client'[d].res = client[d].res
                          /\ client'[d].pc = client[d].pc \/ d = c
    BY <1>1 DEF IInv, TypeOK
  <2> QED
    BY <1>1, <2>1 DEF IInv, NoncesBounded, WithReservation
<1>7. ClearingAlone'
  BY <1>1 DEF OpenTransaction, IInv, TypeOK, ClearingAlone
<1>8. \A d \in Client : Cleared(d)' \subseteq Cleared(d)
  BY <1>1 DEF Cleared, IInv, TypeOK
<1>9. ItemsOnce'
  BY <1>1, <1>8 DEF IInv, ItemsOnce
<1> QED
  BY <1>5, <1>6, <1>7, <1>9 DEF IInv

\* Whoever deletes an item that is there adds it to the items it has deleted.
LEMMA ClearItemKeeps ==
  ASSUME IInv, NEW c \in Client, NEW i \in Item, ClearItem(c, i)
  PROVE  IInv'
<1> DEFINE new == [client[c] EXCEPT !.todo = @ \ {i},
                                   !.pc = IF i \in items THEN @ ELSE "start"]
<1>1. /\ UNCHANGED <<reserved, rows, lastId>>
      /\ items' = items \ {i}
      /\ client' = [client EXCEPT ![c].todo = @ \ {i},
                                  ![c].pc = IF i \in items THEN @ ELSE "start"]
  BY DEF ClearItem
<1>2. client[c] \in ClientState
  BY DEF IInv, TypeOK, ClientState
<1>3. new \in ClientState /\ client' = [client EXCEPT ![c] = new]
  BY <1>1, <1>2 DEF ClientState
<1> HIDE DEF new
<1>4. client' \in [Client -> ClientState]
  BY <1>3, ClientStep DEF IInv
<1>5. TypeOK' /\ NonceInOneRow' /\ ItemInOneRow'
  BY <1>1, <1>4 DEF IInv, TypeOK, ClientState, NonceInOneRow, ItemInOneRow
<1>6. NoncesBounded'
  <2>1. \A d \in Client : /\ client'[d].nonce = client[d].nonce
                          /\ client'[d].res = client[d].res
                          /\ client'[d].pc = client[d].pc \/ client'[d].pc = "start"
    BY <1>1 DEF IInv, TypeOK
  <2> QED
    BY <1>1, <2>1 DEF IInv, NoncesBounded, WithReservation
<1>7. ClearingAlone'
  BY <1>1 DEF IInv, TypeOK, ClearingAlone
<1>8. /\ \A d \in Client \ {c} : Cleared(d)' = Cleared(d)
      /\ Cleared(c)' \subseteq Cleared(c) \cup {i}
      /\ i \notin items => Cleared(c)' = {}
  BY <1>1 DEF IInv, TypeOK, Cleared
<1>9. i \in items => /\ \A x \in rows : i \notin x.batch
                     /\ \A d \in Client : i \notin Cleared(d)
  BY DEF IInv, ItemsOnce
<1>10. ItemsOnce'
  BY <1>1, <1>8, <1>9 DEF IInv, ItemsOnce
<1> QED
  BY <1>5, <1>6, <1>7, <1>10 DEF IInv

LEMMA CommitKeeps ==
  ASSUME IInv, NEW c \in Client, Commit(c)
  PROVE  IInv'
<1> DEFINE row == [nonce |-> client[c].nonce, res |-> client[c].res, batch |-> client[c].batch]
<1>1. /\ client[c].pc = "clearing" /\ client[c].todo = {}
      /\ reserved' = {r \in reserved : r.id # client[c].res}
      /\ rows' = rows \cup {row}
      /\ client' = [client EXCEPT ![c] = Start]
      /\ UNCHANGED <<items, lastId>>
  BY DEF Commit
<1>2. /\ row.nonce = client[c].nonce /\ row.batch = client[c].batch
      /\ Cleared(c) = row.batch
  BY <1>1 DEF Cleared
<1>3. row \in [nonce : Nat, res : Id, batch : SUBSET Item] /\ row.nonce < lastId
  BY <1>1 DEF IInv, TypeOK, NoncesBounded, WithReservation
<1> HIDE DEF row
<1>4. TypeOK'
  BY <1>1, <1>3 DEF IInv, TypeOK, Start
<1>5. NoncesBounded'
  BY <1>1, <1>3, MaxReservationsType DEF IInv, TypeOK, NoncesBounded, Start, WithReservation
<1>6. ClearingAlone' /\ NonceInOneRow'
  BY <1>1, <1>2 DEF IInv, TypeOK, ClearingAlone, NonceInOneRow, Start
<1>7. /\ \A d \in Client \ {c} : Cleared(d)' = Cleared(d)
      /\ Cleared(c)' = {}
  BY <1>1 DEF IInv, TypeOK, Cleared, Start
<1>8. ItemsOnce' /\ ItemInOneRow'
  BY <1>1, <1>2, <1>7 DEF IInv, ItemsOnce, ItemInOneRow
<1> QED
  BY <1>4, <1>5, <1>6, <1>8 DEF IInv

LEMMA StepKeeps ==
  ASSUME IInv, [Next]_vars
  PROVE  IInv'
<1>1. CASE UNCHANGED vars
  <2>1. TypeOK' /\ NoncesBounded'
    BY <1>1 DEF vars, IInv, TypeOK, NoncesBounded
  <2> QED
    BY <1>1, <2>1, QuietStep DEF vars, IInv
<1>2. CASE Next
  BY <1>2, ReadNextNonceKeeps, CreateReservationKeeps, ExpireKeeps, CheckReservationKeeps,
     FailKeeps, OpenTransactionKeeps, ClearItemKeeps, CommitKeeps DEF Next
<1> QED
  BY <1>1, <1>2

\* The inductive invariant holds in every reachable state, however the steps of the
\* clients and the expiry of their reservations interleave.
THEOREM InductiveInvariant == Spec => []IInv
  BY InitIInv, StepKeeps, PTL DEF Spec

\* Reservations, rows and clients keep their types; in particular the greatest nonce
\* exists and its successor is a natural number.
THEOREM TypeCorrect == Spec => []TypeOK
<1>1. IInv => TypeOK
  BY DEF IInv
<1> QED
  BY <1>1, InductiveInvariant, PTL

\* However many reservations expire while their clients wait, no nonce has two rows.
THEOREM OneRowPerNonce == Spec => []NonceInOneRow
<1>1. IInv => NonceInOneRow
  BY DEF IInv
<1> QED
  BY <1>1, InductiveInvariant, PTL

\* However many clients read the same batch items, each is in one row at most.
THEOREM OneRowPerItem == Spec => []ItemInOneRow
<1>1. IInv => ItemInOneRow
  BY DEF IInv
<1> QED
  BY <1>1, InductiveInvariant, PTL
=============================================================================
