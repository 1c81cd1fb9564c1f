--------------------------- MODULE DepositsProofs ---------------------------
(* Theorems about Deposits, for all requests, nonces, chains and addresses, *)
(* whatever the Account table does meanwhile.                               *)
EXTENDS Deposits, FiniteSetTheorems, TLAPS

----------------------------------------------------------------------------
(* The strengthening. *)

\* A request has its own row from its creation on, for its authorization, and
\* none before.
RowsOfRequests ==
    /\ \A d \in Deposit : dep[d].pc \in Recorded => \E r \in deposits : r.by = d
    /\ \A r \in deposits : dep[r.by].pc \in Recorded => RowFor(r, AuthOf(r.by))
    /\ \A r \in deposits : dep[r.by].pc \notin {"idle", "unused", "counted"}

\* A facilitator is asked for authorizations that have a row, and moves those only.
AskedHaveRows ==
    /\ \A x \in asked : \E r \in deposits : RowFor(r, x)
    /\ usdc \subseteq asked

IInv == TypeOK /\ RowsOfRequests /\ AskedHaveRows /\ SettledIsPaid

LEMMA InitIInv == Init => IInv
  BY DEF Init, IInv, TypeOK, RowsOfRequests, AskedHaveRows, SettledIsPaid,
         Pending, Recorded

\* The authorization of a pending request is one.
LEMMA AuthOfPending ==
  ASSUME TypeOK, NEW d \in Deposit, dep[d].pc \in Pending
  PROVE  AuthOf(d) \in Auth
  BY DEF TypeOK, AuthOf

\* What the steps of a request that leave the tables alone keep.
LEMMA QuietStep ==
  ASSUME IInv, UNCHANGED <<deposits, asked, usdc>>, TypeOK',
         \A d \in Deposit :
             \/ dep'[d] = dep[d]
             \/ dep[d].pc \notin Recorded /\ dep'[d].pc \notin Recorded
                /\ (dep'[d].pc \in {"idle", "unused", "counted"} =>
                       dep[d].pc \in {"idle", "unused", "counted"})
             \/ dep[d].pc \in Recorded /\ dep'[d].pc = "done"
  PROVE  IInv'
  BY DEF IInv, TypeOK, RowsOfRequests, AskedHaveRows, SettledIsPaid,
         RowFor, AuthOf, Recorded

LEMMA ValidateKeeps ==
  ASSUME IInv, NEW d \in Deposit, NEW x \in Auth, NEW path \in Payee, Validate(d, x, path)
  PROVE  IInv'
<1>1. \/ dep' = [dep EXCEPT ![d] = [pc |-> "unused", auth |-> {x}]]
      \/ dep' = [dep EXCEPT ![d] = [pc |-> "done", auth |-> {}]]
  BY DEF Validate, End
<1>2. TypeOK'
  BY <1>1 DEF IInv, TypeOK, Validate, Pending, Recorded
<1> QED
  BY <1>1, <1>2, QuietStep DEF Validate, IInv, TypeOK, Recorded

LEMMA CheckRateKeeps ==
  ASSUME IInv, NEW d \in Deposit, CheckRate(d)
  PROVE  IInv'
<1>1. \/ dep' = [dep EXCEPT ![d].pc = "counted"]
      \/ dep' = [dep EXCEPT ![d] = [pc |-> "done", auth |-> {}]]
  BY DEF CheckRate, Move, End
<1>2. TypeOK'
  BY <1>1 DEF IInv, TypeOK, CheckRate, Pending, Recorded
<1> QED
  BY <1>1, <1>2, QuietStep DEF CheckRate, IInv, TypeOK, Recorded

LEMMA CrashKeeps ==
  ASSUME IInv, NEW d \in Deposit, Crash(d)
  PROVE  IInv'
<1>1. TypeOK'
  BY DEF IInv, TypeOK, Crash, End, Pending, Recorded
<1> QED
  BY <1>1, QuietStep DEF Crash, End, IInv, TypeOK, Recorded

LEMMA CreateKeeps ==
  ASSUME IInv, NEW d \in Deposit, Create(d)
  PROVE  IInv'
<1> USE DEF IInv
<1>1. CASE \E r \in deposits : r.nonce = AuthOf(d).nonce
  <2>1. dep' = [dep EXCEPT ![d] = [pc |-> "done", auth |-> {}]]
    BY <1>1 DEF Create, End
  <2>2. TypeOK'
    BY <1>1, <2>1 DEF TypeOK, Create, Pending, Recorded
  <2> QED
    BY <1>1, <2>1, <2>2, QuietStep DEF Create, TypeOK, Recorded
<1>2. CASE ~ \E r \in deposits : r.nonce = AuthOf(d).nonce
  <2>1. /\ deposits' = deposits \cup {Row(d)} /\ UNCHANGED <<asked, usdc, spent>>
        /\ dep' = [dep EXCEPT ![d].pc = "verifying"]
        /\ dep[d].pc = "counted"
    BY <1>2 DEF Create, Move
  <2>2. AuthOf(d) \in Auth
    BY <2>1, AuthOfPending DEF Pending
  <2>3. /\ Row(d) \in [by : Deposit, nonce : Nonce, chain : Chain, address : Payee,
                       status : {"PENDING", "SETTLED", "FAILED"}, recent : BOOLEAN,
                       racing : SUBSET Deposit]
        /\ Row(d).by = d /\ Row(d).status = "PENDING" /\ RowFor(Row(d), AuthOf(d))
        /\ Row(d).nonce = AuthOf(d).nonce
    BY <2>2 DEF Row, Auth, RowFor
  <2>4. \A e \in Deposit : AuthOf(e)' = AuthOf(e)
    BY <2>1 DEF AuthOf, TypeOK
  <2>5. TypeOK'
    BY <2>1, <2>3 DEF TypeOK, Pending, Recorded
  <2>6. RowsOfRequests'
    BY <2>1, <2>3, <2>4 DEF RowsOfRequests, TypeOK, Recorded, RowFor
  <2>7. AskedHaveRows'
    BY <2>1 DEF AskedHaveRows, RowFor
  <2>9. SettledIsPaid'
    BY <2>1, <2>3 DEF SettledIsPaid, RowFor
  <2> QED
    BY <2>5, <2>6, <2>7, <2>9
<1> QED
  BY <1>1, <1>2

LEMMA VerifyKeeps ==
  ASSUME IInv, NEW d \in Deposit, Verify(d)
  PROVE  IInv'
<1> USE DEF IInv
<1>1. /\ asked' = asked \cup {AuthOf(d)} /\ UNCHANGED <<deposits, usdc, spent>>
      /\ dep' = [dep EXCEPT ![d].pc = "settling"]
      /\ dep[d].pc = "verifying"
  BY DEF Verify, Move
<1>2. AuthOf(d) \in Auth
  BY <1>1, AuthOfPending DEF Pending, Recorded
<1>3. PICK r \in deposits : r.by = d /\ RowFor(r, AuthOf(d))
  BY <1>1 DEF RowsOfRequests, Recorded
<1>4. \A e \in Deposit : AuthOf(e)' = AuthOf(e)
  BY <1>1 DEF AuthOf, TypeOK
<1>5. TypeOK'
  BY <1>1, <1>2 DEF TypeOK, Pending, Recorded
<1>6. RowsOfRequests'
  BY <1>1, <1>4 DEF RowsOfRequests, TypeOK, Recorded, RowFor
<1>7. AskedHaveRows'
  BY <1>1, <1>3 DEF AskedHaveRows, RowFor
<1> QED
  BY <1>1, <1>5, <1>6, <1>7 DEF SettledIsPaid, RowFor

LEMMA SettleKeeps ==
  ASSUME IInv, NEW x \in asked, Settle(x)
  PROVE  IInv'
<1> USE DEF IInv
<1>1. TypeOK'
  BY DEF TypeOK, Settle
<1> QED
  BY <1>1 DEF Settle, RowsOfRequests, AskedHaveRows, SettledIsPaid,
              RowFor, AuthOf

LEMMA SpendKeeps ==
  ASSUME IInv, NEW n \in Nonce, NEW c \in X402Chain, Spend(n, c)
  PROVE  IInv'
<1>1. TypeOK'
  BY DEF IInv, TypeOK, Spend
<1> QED
  BY <1>1, QuietStep DEF Spend

----------------------------------------------------------------------------
(* Steps that change rows that exist. *)

\* What of a row never changes.
SameRow(r, s) ==
    r.by = s.by /\ r.nonce = s.nonce /\ r.chain = s.chain /\ r.address = s.address

\* A step that rewrites rows into rows of the same request and authorization, and
\* makes SETTLED no row but one that was paid.
LEMMA RewriteStep ==
  ASSUME IInv, TypeOK', UNCHANGED <<asked, usdc>>,
         \A r \in deposits : \E s \in deposits' : SameRow(s, r),
         \A s \in deposits' : \E r \in deposits :
             /\ SameRow(s, r)
             /\ s.status = "SETTLED" =>
                    r.status = "SETTLED"
                    \/ \E x \in usdc : RowFor(r, x),
         \A d \in Deposit :
             \/ dep'[d] = dep[d]
             \/ dep[d].pc \in Recorded /\ dep'[d].pc = "done"
  PROVE  IInv'
<1> USE DEF IInv
<1>1. RowsOfRequests'
  BY DEF RowsOfRequests, TypeOK, Recorded, RowFor, AuthOf, SameRow
<1>2. AskedHaveRows'
  BY DEF AskedHaveRows, RowFor, SameRow
<1>3. SettledIsPaid'
  BY DEF SettledIsPaid, RowFor, SameRow
<1> QED
  BY <1>1, <1>2, <1>3

\* What SetStatus does to the rows.
LEMMA SetStatusRows ==
  ASSUME IInv, NEW d \in Deposit, NEW status \in {"SETTLED", "FAILED"}, SetStatus(d, status)
  PROVE  /\ deposits' \subseteq
                [by : Deposit, nonce : Nonce, chain : Chain, address : Payee,
                 status : {"PENDING", "SETTLED", "FAILED"}, recent : BOOLEAN,
                 racing : SUBSET Deposit]
         /\ \A r \in deposits : \E s \in deposits' : SameRow(s, r)
         /\ \A s \in deposits' : \E r \in deposits :
                SameRow(s, r) /\ (s.status = r.status \/ (r.by = d /\ s.status = status))
<1> DEFINE g(r) == IF r.by = d THEN [r EXCEPT !.status = status] ELSE r
<1>1. deposits' = {g(r) : r \in deposits}
  BY DEF SetStatus
<1>2. ASSUME NEW r \in deposits
      PROVE  /\ g(r) \in [by : Deposit, nonce : Nonce, chain : Chain, address : Payee,
                           status : {"PENDING", "SETTLED", "FAILED"}, recent : BOOLEAN,
                           racing : SUBSET Deposit]
             /\ SameRow(g(r), r)
             /\ g(r).status = r.status \/ (r.by = d /\ g(r).status = status)
  <2>1. r \in [by : Deposit, nonce : Nonce, chain : Chain, address : Payee,
               status : {"PENDING", "SETTLED", "FAILED"}, recent : BOOLEAN,
               racing : SUBSET Deposit]
    BY DEF IInv, TypeOK
  <2>2. CASE r.by = d
    BY <2>1, <2>2 DEF SameRow
  <2>3. CASE r.by # d
    BY <2>1, <2>3 DEF SameRow
  <2> QED
    BY <2>2, <2>3
<1> HIDE DEF g
<1> QED
  BY <1>1, <1>2

LEMMA SettledKeeps ==
  ASSUME IInv, NEW d \in Deposit, Settled(d)
  PROVE  IInv'
<1>1. /\ SetStatus(d, "SETTLED") /\ Answered(d) /\ UNCHANGED <<asked, usdc, spent>>
      /\ dep' = [dep EXCEPT ![d] = [pc |-> "done", auth |-> {}]]
      /\ dep[d].pc = "settling"
  BY DEF Settled, End
<1>2. TypeOK'
  BY <1>1, SetStatusRows DEF IInv, TypeOK, Pending, Recorded
<1>3. \A r \in deposits : r.by = d =>
         \E x \in usdc : RowFor(r, x)
  BY <1>1 DEF IInv, RowsOfRequests, Answered, Recorded
<1>4. \A s \in deposits' : \E r \in deposits :
         /\ SameRow(s, r)
         /\ s.status = "SETTLED" =>
                r.status = "SETTLED"
                \/ \E x \in usdc : RowFor(r, x)
  BY <1>1, <1>3, SetStatusRows
<1>5. \A e \in Deposit : \/ dep'[e] = dep[e]
                         \/ dep[e].pc \in Recorded /\ dep'[e].pc = "done"
  BY <1>1 DEF IInv, TypeOK, Recorded
<1> QED
  BY <1>1, <1>2, <1>4, <1>5, SetStatusRows, RewriteStep

LEMMA FailedKeeps ==
  ASSUME IInv, NEW d \in Deposit, Failed(d)
  PROVE  IInv'
<1>1. /\ SetStatus(d, "FAILED") /\ UNCHANGED <<asked, usdc, spent>>
      /\ dep' = [dep EXCEPT ![d] = [pc |-> "done", auth |-> {}]]
      /\ dep[d].pc \in Recorded
  BY DEF Failed, End
<1>2. TypeOK'
  BY <1>1, SetStatusRows DEF IInv, TypeOK, Pending, Recorded
<1>3. \A s \in deposits' : \E r \in deposits :
         SameRow(s, r) /\ (s.status = "SETTLED" => r.status = "SETTLED")
  BY <1>1, SetStatusRows
<1>4. \A e \in Deposit : \/ dep'[e] = dep[e]
                         \/ dep[e].pc \in Recorded /\ dep'[e].pc = "done"
  BY <1>1 DEF IInv, TypeOK
<1> QED
  BY <1>1, <1>2, <1>3, <1>4, SetStatusRows, RewriteStep

LEMMA AgeKeeps ==
  ASSUME IInv, NEW r \in deposits, Age(r)
  PROVE  IInv'
<1> DEFINE s == [r EXCEPT !.recent = FALSE, !.racing = {}]
<1>1. deposits' = (deposits \ {r}) \cup {s} /\ UNCHANGED <<asked, usdc, spent, dep>>
  BY DEF Age
<1>2. /\ s \in [by : Deposit, nonce : Nonce, chain : Chain, address : Payee,
                status : {"PENDING", "SETTLED", "FAILED"}, recent : BOOLEAN,
                racing : SUBSET Deposit]
      /\ SameRow(s, r) /\ s.status = r.status
  BY DEF IInv, TypeOK, SameRow
<1> HIDE DEF s
<1>3. TypeOK'
  BY <1>1, <1>2 DEF IInv, TypeOK
<1>5. \A t \in deposits : \E u \in deposits' : SameRow(u, t)
  BY <1>1, <1>2 DEF SameRow
<1>6. \A u \in deposits' : \E t \in deposits :
         SameRow(u, t) /\ (u.status = "SETTLED" => t.status = "SETTLED")
  BY <1>1, <1>2 DEF SameRow
<1> QED
  BY <1>1, <1>3, <1>5, <1>6, RewriteStep

----------------------------------------------------------------------------

LEMMA StepKeeps ==
  ASSUME IInv, [Next]_depositVars
  PROVE  IInv'
<1>1. CASE UNCHANGED depositVars
  <2>1. UNCHANGED <<deposits, asked, usdc, spent, dep>>
    BY <1>1 DEF depositVars
  <2>2. TypeOK'
    BY <2>1 DEF IInv, TypeOK
  <2> QED
    BY <2>1, <2>2, QuietStep
<1>2. CASE Next
  BY <1>2, ValidateKeeps, CheckRateKeeps, CreateKeeps, VerifyKeeps, SettledKeeps,
     FailedKeeps, CrashKeeps, SettleKeeps, SpendKeeps, AgeKeeps DEF Next
<1> QED
  BY <1>1, <1>2

\* Whatever happens to the Account table, the deposits' rows, requests and payments
\* keep their relation.
THEOREM InductiveInvariant == Spec => []IInv
  BY InitIInv, StepKeeps, PTL DEF Spec

\* SETTLED is only written for a row whose authorization a facilitator has executed.
THEOREM SettledWasPaid == Spec => []SettledIsPaid
<1>1. IInv => SettledIsPaid
  BY DEF IInv
<1> QED
  BY <1>1, InductiveInvariant, PTL

\* No payment of a facilitator is without its row, whatever was lost or crashed.
THEOREM PaymentsHaveRows == Spec => []PaidHasRow
<1>1. IInv => PaidHasRow
  BY DEF IInv, AskedHaveRows, PaidHasRow
<1> QED
  BY <1>1, InductiveInvariant, PTL

----------------------------------------------------------------------------
(* The rate limit. A request that has counted found fewer rows than the     *)
(* limit, and every row made since was made in a race with it. So of any    *)
(* rows of an address that are recent, those whose makers raced with the    *)
(* last of them are all but as many as the limit; which of them was the     *)
(* last is not in the table, only that each set of them has one.            *)

\* The rows among these that were made when request d had not counted, or had its row.
Unraced(d, rows) == {r \in rows : d \notin r.racing}

\* Each set of the rows has one whose request raced with all but RateLimit of the set.
HasLast(rows) ==
    \A some \in SUBSET rows :
        some # {} => \E s \in some : Cardinality(Unraced(s.by, some)) <= RateLimit

RaceInv ==
    /\ IsFiniteSet(deposits)
    /\ \A d \in Deposit : dep[d].pc = "counted" =>
           Cardinality(Unraced(d, RecentFor(AuthOf(d).address))) < RateLimit
    /\ \A address \in Payee : HasLast(RecentFor(address))

\* The limit is a number.
RateLimitType == RateLimit \in Nat

LEMMA InitRaceInv == Init => RaceInv
<1> SUFFICES ASSUME Init PROVE RaceInv
  OBVIOUS
<1>1. deposits = {} /\ \A d \in Deposit : dep[d].pc # "counted"
  BY DEF Init
<1>2. \A address : RecentFor(address) = {}
  BY <1>1 DEF RecentFor
<1>3. IsFiniteSet(deposits)
  BY <1>1, FS_EmptySet
<1> QED
  BY <1>1, <1>2, <1>3 DEF RaceInv, HasLast

LEMMA RowsAreFinite ==
  ASSUME IsFiniteSet(deposits), NEW d, NEW address,
         NEW rows \in SUBSET RecentFor(address)
  PROVE  /\ IsFiniteSet(rows) /\ Cardinality(rows) \in Nat
         /\ IsFiniteSet(Unraced(d, rows)) /\ Cardinality(Unraced(d, rows)) \in Nat
<1>1. rows \subseteq deposits /\ Unraced(d, rows) \subseteq deposits
  BY DEF RecentFor, Unraced
<1> QED
  BY <1>1, FS_Subset, FS_CardinalityType

\* Steps that make no row recent and after which no other request has counted.
LEMMA NoNewRow ==
  ASSUME RateLimitType, RaceInv, IsFiniteSet(deposits'),
         \A address : RecentFor(address)' \subseteq RecentFor(address),
         \A d \in Deposit : dep'[d].pc = "counted" => dep'[d] = dep[d]
  PROVE  RaceInv'
<1>1. ASSUME NEW d \in Deposit, dep'[d].pc = "counted"
      PROVE  Cardinality(Unraced(d, RecentFor(AuthOf(d).address)))' < RateLimit
  <2> PICK address : address = AuthOf(d).address
    OBVIOUS
  <2> DEFINE old == Unraced(d, RecentFor(address))
             new == Unraced(d, RecentFor(address)')
  <2>1. dep'[d] = dep[d] /\ AuthOf(d)' = AuthOf(d)
    BY <1>1 DEF AuthOf
  <2>2. Cardinality(old) < RateLimit
    BY <1>1, <2>1 DEF RaceInv
  <2>3. IsFiniteSet(old) /\ Cardinality(old) \in Nat
    BY RowsAreFinite DEF RaceInv
  <2>4. new \subseteq old
    BY DEF Unraced
  <2>5. Cardinality(Unraced(d, RecentFor(AuthOf(d).address)))' = Cardinality(new)
    BY <2>1 DEF RecentFor
  <2> HIDE DEF old, new
  <2>6. Cardinality(new) <= Cardinality(old) /\ Cardinality(new) \in Nat
    BY <2>3, <2>4, FS_Subset, FS_CardinalityType
  <2> QED
    BY <2>2, <2>3, <2>5, <2>6 DEF RateLimitType
<1>2. \A address \in Payee : HasLast(RecentFor(address))'
  BY DEF RaceInv, HasLast
<1> QED
  BY <1>1, <1>2 DEF RaceInv

LEMMA CheckRateRaces ==
  ASSUME RateLimitType, IInv, RaceInv, NEW d \in Deposit, CheckRate(d)
  PROVE  RaceInv'
<1>1. deposits' = deposits /\ \A address : RecentFor(address)' = RecentFor(address)
  BY DEF CheckRate, RecentFor
<1>2. CASE dep'[d].pc # "counted"
  <2>1. \A e \in Deposit : dep'[e].pc = "counted" => dep'[e] = dep[e]
    BY <1>2 DEF CheckRate, Move, End, IInv, TypeOK
  <2> QED
    BY <1>1, <2>1, NoNewRow DEF RaceInv
<1>3. CASE dep'[d].pc = "counted"
  <2> DEFINE rows == RecentFor(AuthOf(d).address)
  <2>1. ~ (Cardinality(rows) >= RateLimit) /\ dep' = [dep EXCEPT ![d].pc = "counted"]
    BY <1>3 DEF CheckRate, Move, End, IInv, TypeOK
  <2>2. AuthOf(d)' = AuthOf(d) /\ \A e \in Deposit \ {d} : dep'[e] = dep[e]
    BY <2>1 DEF AuthOf, IInv, TypeOK
  <2>3. /\ IsFiniteSet(rows) /\ Cardinality(rows) \in Nat
        /\ Cardinality(Unraced(d, rows)) \in Nat
    BY RowsAreFinite DEF RaceInv
  <2>4. Unraced(d, rows) \subseteq rows
    BY DEF Unraced
  <2> HIDE DEF rows
  <2>5. Cardinality(Unraced(d, rows)) <= Cardinality(rows)
    BY <2>3, <2>4, FS_Subset
  <2>6. Cardinality(Unraced(d, rows)) < RateLimit
    BY <2>1, <2>3, <2>5 DEF RateLimitType
  <2>7. \A e \in Deposit : dep'[e].pc = "counted" =>
             Cardinality(Unraced(e, RecentFor(AuthOf(e).address)))' < RateLimit
    <3> SUFFICES ASSUME NEW e \in Deposit, dep'[e].pc = "counted"
                 PROVE  Cardinality(Unraced(e, RecentFor(AuthOf(e).address)))' < RateLimit
      OBVIOUS
    <3>1. AuthOf(e)' = AuthOf(e)
      <4>1. CASE e = d
        BY <2>2, <4>1
      <4>2. CASE e # d
        BY <2>2, <4>2 DEF AuthOf
      <4> QED
        BY <4>1, <4>2
    <3>2. Cardinality(Unraced(e, RecentFor(AuthOf(e).address)))'
              = Cardinality(Unraced(e, RecentFor(AuthOf(e).address)))
      BY <1>1, <3>1 DEF RecentFor
    <3> QED
      BY <2>2, <2>6, <3>2 DEF RaceInv, rows
  <2> QED
    BY <1>1, <2>7 DEF RaceInv, HasLast
<1> QED
  BY <1>2, <1>3

LEMMA CreateRaces ==
  ASSUME RateLimitType, IInv, RaceInv, NEW d \in Deposit, Create(d)
  PROVE  RaceInv'
<1>1. CASE \E r \in deposits : r.nonce = AuthOf(d).nonce
  <2>1. deposits' = deposits /\ dep' = [dep EXCEPT ![d] = [pc |-> "done", auth |-> {}]]
    BY <1>1 DEF Create, End
  <2>2. \A e \in Deposit : dep'[e].pc = "counted" => dep'[e] = dep[e]
    BY <2>1 DEF IInv, TypeOK
  <2> QED
    BY <2>1, <2>2, NoNewRow DEF RaceInv, RecentFor
<1>2. CASE ~ \E r \in deposits : r.nonce = AuthOf(d).nonce
  <2> DEFINE row == Row(d)
             here == AuthOf(d).address
  <2>1. /\ deposits' = deposits \cup {row} /\ dep[d].pc = "counted"
        /\ dep' = [dep EXCEPT ![d].pc = "verifying"]
    BY <1>2 DEF Create, Move
  <2>2. /\ row.recent /\ row.address = here /\ row.by = d
        /\ row.racing = {e \in Deposit \ {d} : dep[e].pc = "counted"}
    BY DEF Row
  <2> HIDE DEF row
  <2>3. \A address : RecentFor(address)' =
            IF address = here THEN RecentFor(address) \cup {row} ELSE RecentFor(address)
    BY <2>1, <2>2 DEF RecentFor
  <2>4. /\ dep'[d].pc = "verifying"
        /\ \A e \in Deposit \ {d} : dep'[e] = dep[e] /\ AuthOf(e)' = AuthOf(e)
    BY <2>1 DEF AuthOf, IInv, TypeOK
  <2>5. IsFiniteSet(deposits')
    BY <2>1, FS_AddElement DEF RaceInv
  <2>6. ASSUME NEW e \in Deposit, dep'[e].pc = "counted"
        PROVE  Cardinality(Unraced(e, RecentFor(AuthOf(e).address)))' < RateLimit
    <3>1. e # d /\ dep[e].pc = "counted" /\ AuthOf(e)' = AuthOf(e) /\ e \in row.racing
      BY <2>2, <2>4, <2>6
    <3>2. Unraced(e, RecentFor(AuthOf(e).address)') = Unraced(e, RecentFor(AuthOf(e).address))
      BY <2>3, <3>1 DEF Unraced
    <3>3. Unraced(e, RecentFor(AuthOf(e).address))' = Unraced(e, RecentFor(AuthOf(e).address)')
      BY <3>1 DEF RecentFor
    <3> QED
      BY <3>1, <3>2, <3>3 DEF RaceInv
  <2>7. ASSUME NEW address \in Payee, NEW some \in SUBSET (RecentFor(address)'), some # {}
        PROVE  \E s \in some : Cardinality(Unraced(s.by, some)) <= RateLimit
    <3>1. CASE row \notin some
      <4>1. some \subseteq RecentFor(address)
        BY <2>3, <3>1
      <4> QED
        BY <2>7, <4>1 DEF RaceInv, HasLast
    <3>2. CASE row \in some
      <4>1. address = here \/ some \subseteq RecentFor(address)
        BY <2>3
      <4>2. address = here
        BY <2>2, <3>2, <4>1 DEF RecentFor
      <4> DEFINE before == Unraced(d, RecentFor(here))
      <4>3. Unraced(d, some) \subseteq before \cup {row}
        BY <2>3, <4>2 DEF Unraced
      <4>4. IsFiniteSet(before) /\ Cardinality(before) \in Nat
        BY RowsAreFinite DEF RaceInv
      <4>5. Cardinality(before) < RateLimit
        BY <2>1 DEF RaceInv
      <4> HIDE DEF before
      <4>6. /\ IsFiniteSet(before \cup {row})
            /\ Cardinality(before \cup {row}) \in {Cardinality(before), Cardinality(before) + 1}
        BY <4>4, FS_AddElement
      <4>7. /\ Cardinality(Unraced(d, some)) \in Nat
            /\ Cardinality(Unraced(d, some)) <= Cardinality(before \cup {row})
        BY <4>3, <4>6, FS_Subset, FS_CardinalityType
      <4>8. Cardinality(Unraced(d, some)) <= RateLimit
        BY <4>4, <4>5, <4>6, <4>7 DEF RateLimitType
      <4> QED
        BY <2>2, <3>2, <4>8
    <3> QED
      BY <3>1, <3>2
  <2>8. \A address \in Payee : HasLast(RecentFor(address))'
    BY <2>7 DEF HasLast
  <2> QED
    BY <2>5, <2>6, <2>8 DEF RaceInv
<1> QED
  BY <1>1, <1>2

\* An image of a finite set has at most as many members.
LEMMA ImageIsFinite ==
  ASSUME NEW S, IsFiniteSet(S), NEW T, NEW f \in [S -> T], \A y \in T : \E x \in S : y = f[x]
  PROVE  IsFiniteSet(T) /\ Cardinality(T) <= Cardinality(S)
<1>1. f \in Surjection(S, T)
  BY DEF Surjection
<1> QED
  BY <1>1, FS_Surjection DEF ExistsSurjection

\* Writing a status leaves makers, races and addresses of the rows as they are.
LEMMA SetStatusRaces ==
  ASSUME RateLimitType, IInv, RaceInv, NEW d \in Deposit,
         NEW status \in {"SETTLED", "FAILED"}, SetStatus(d, status)
  PROVE  /\ IsFiniteSet(deposits')
         /\ \A e, address : Cardinality(Unraced(e, RecentFor(address)'))
                              <= Cardinality(Unraced(e, RecentFor(address)))
         /\ \A address \in Payee : HasLast(RecentFor(address)')
<1> DEFINE g(r) == IF r.by = d THEN [r EXCEPT !.status = status] ELSE r
           SameRace(s, r) == /\ s.by = r.by /\ s.racing = r.racing
                             /\ s.recent = r.recent /\ s.address = r.address
<1>1. deposits' = {g(r) : r \in deposits}
  BY DEF SetStatus
<1>2. \A r \in deposits : SameRace(g(r), r)
  <2> SUFFICES ASSUME NEW r \in deposits PROVE SameRace(g(r), r)
    OBVIOUS
  <2>1. r \in [by : Deposit, nonce : Nonce, chain : Chain, address : Payee,
               status : {"PENDING", "SETTLED", "FAILED"}, recent : BOOLEAN,
               racing : SUBSET Deposit]
    BY DEF IInv, TypeOK
  <2> QED
    BY <2>1
<1> HIDE DEF g
<1>3. IsFiniteSet(deposits')
  <2> DEFINE f == [r \in deposits |-> g(r)]
  <2>1. f \in [deposits -> deposits'] /\ \A s \in deposits' : \E r \in deposits : s = f[r]
    BY <1>1
  <2> HIDE DEF f
  <2> QED
    BY <2>1, ImageIsFinite DEF RaceInv
<1>4. \A address : RecentFor(address)' = {g(r) : r \in RecentFor(address)}
  BY <1>1, <1>2 DEF RecentFor
<1>5. ASSUME NEW e, NEW address, NEW some \in SUBSET RecentFor(address)
      PROVE  Cardinality(Unraced(e, {g(r) : r \in some})) <= Cardinality(Unraced(e, some))
  <2>1. Unraced(e, {g(r) : r \in some}) = {g(r) : r \in Unraced(e, some)}
    <3>1. some \subseteq deposits
      BY DEF RecentFor
    <3> QED
      BY <1>2, <3>1 DEF Unraced
  <2>2. IsFiniteSet(Unraced(e, some))
    BY RowsAreFinite DEF RaceInv
  <2> DEFINE S == Unraced(e, some)
             T == Unraced(e, {g(r) : r \in some})
             f == [r \in S |-> g(r)]
  <2>3. f \in [S -> T] /\ \A s \in T : \E r \in S : s = f[r]
    BY <2>1
  <2> HIDE DEF f, S, T
  <2>4. Cardinality(T) <= Cardinality(S)
    <3>1. IsFiniteSet(S)
      BY <2>2 DEF S
    <3> QED
      BY <2>3, <3>1, ImageIsFinite
  <2> QED
    BY <2>4 DEF S, T
<1>6. ASSUME NEW address \in Payee, NEW some \in SUBSET (RecentFor(address)'), some # {}
      PROVE  \E s \in some : Cardinality(Unraced(s.by, some)) <= RateLimit
  <2> DEFINE old == {r \in RecentFor(address) : g(r) \in some}
  <2>1. old \in SUBSET RecentFor(address) /\ old # {} /\ some = {g(r) : r \in old}
    BY <1>4, <1>6
  <2> HIDE DEF old
  <2>2. PICK r \in old : Cardinality(Unraced(r.by, old)) <= RateLimit
    BY <2>1 DEF RaceInv, HasLast
  <2>3. g(r) \in some /\ g(r).by = r.by
    BY <1>2, <2>1 DEF RecentFor
  <2>4. Cardinality(Unraced(r.by, some)) <= Cardinality(Unraced(r.by, old))
    BY <1>5, <2>1
  <2>5. Cardinality(Unraced(r.by, some)) <= RateLimit
    <3>1. Cardinality(Unraced(r.by, old)) \in Nat
      BY <2>1, RowsAreFinite DEF RaceInv
    <3>2. some \subseteq deposits' /\ IsFiniteSet(Unraced(r.by, some))
      <4>1. some \subseteq deposits' /\ Unraced(r.by, some) \subseteq deposits'
        BY DEF RecentFor, Unraced
      <4> QED
        BY <1>3, <4>1, FS_Subset
    <3>3. Cardinality(Unraced(r.by, some)) \in Nat
      BY <3>2, FS_CardinalityType
    <3> QED
      BY <2>2, <2>4, <3>1, <3>3 DEF RateLimitType
  <2> QED
    BY <2>3, <2>5
<1>7. ASSUME NEW e, NEW address
      PROVE  Cardinality(Unraced(e, RecentFor(address)'))
                 <= Cardinality(Unraced(e, RecentFor(address)))
  BY <1>4, <1>5
<1> QED
  BY <1>3, <1>6, <1>7 DEF HasLast

LEMMA AnswerRaces ==
  ASSUME RateLimitType, IInv, RaceInv, NEW d \in Deposit, Settled(d) \/ Failed(d)
  PROVE  RaceInv'
<1>1. PICK status \in {"SETTLED", "FAILED"} :
          SetStatus(d, status) /\ dep' = [dep EXCEPT ![d] = [pc |-> "done", auth |-> {}]]
  BY DEF Settled, Failed, End
<1>2. ASSUME NEW e \in Deposit, dep'[e].pc = "counted"
      PROVE  Cardinality(Unraced(e, RecentFor(AuthOf(e).address)))' < RateLimit
  <2> PICK address : address = AuthOf(e).address
    OBVIOUS
  <2>1. dep'[e] = dep[e] /\ AuthOf(e)' = AuthOf(e)
    BY <1>1, <1>2 DEF AuthOf, IInv, TypeOK
  <2> DEFINE m == Cardinality(Unraced(e, RecentFor(address)))
             n == Cardinality(Unraced(e, RecentFor(address)'))
  <2>2. m < RateLimit
    BY <1>2, <2>1 DEF RaceInv
  <2>3. n <= m
    BY <1>1, SetStatusRaces
  <2>4. m \in Nat
    BY RowsAreFinite DEF RaceInv
  <2>5. n \in Nat
    <3>1. Unraced(e, RecentFor(address)') \subseteq deposits'
      BY DEF Unraced, RecentFor
    <3> QED
      BY <1>1, <3>1, SetStatusRaces, FS_Subset, FS_CardinalityType
  <2>6. Cardinality(Unraced(e, RecentFor(AuthOf(e).address)))' = n
    BY <2>1 DEF RecentFor
  <2> HIDE DEF m, n
  <2> QED
    BY <2>2, <2>3, <2>4, <2>5, <2>6 DEF RateLimitType
<1>3. IsFiniteSet(deposits') /\ \A address \in Payee : HasLast(RecentFor(address)')
  BY <1>1, SetStatusRaces
<1> QED
  BY <1>2, <1>3 DEF RaceInv, HasLast

LEMMA AgeRaces ==
  ASSUME RateLimitType, IInv, RaceInv, NEW r \in deposits, Age(r)
  PROVE  RaceInv'
<1> DEFINE s == [r EXCEPT !.recent = FALSE, !.racing = {}]
<1>1. deposits' = (deposits \ {r}) \cup {s} /\ dep' = dep /\ ~ s.recent
  BY DEF Age, IInv, TypeOK
<1> HIDE DEF s
<1>2. \A address : RecentFor(address)' \subseteq RecentFor(address)
  BY <1>1 DEF RecentFor
<1>3. IsFiniteSet(deposits \ {r})
  BY FS_Subset DEF RaceInv
<1>4. IsFiniteSet(deposits')
  BY <1>1, <1>3, FS_AddElement
<1> QED
  BY <1>1, <1>2, <1>4, NoNewRow

\* Steps of a request that has not counted, and payments.
LEMMA OtherRaces ==
  ASSUME RateLimitType, IInv, RaceInv, deposits' = deposits,
         \A d \in Deposit : dep'[d] = dep[d] \/ dep'[d].pc # "counted"
  PROVE  RaceInv'
  BY NoNewRow DEF RaceInv, RecentFor

LEMMA StepRaces ==
  ASSUME RateLimitType, IInv, RaceInv, [Next]_depositVars
  PROVE  RaceInv'
<1>1. CASE UNCHANGED depositVars
  BY <1>1, OtherRaces DEF depositVars
<1>2. ASSUME NEW d \in Deposit,
             \/ Verify(d) \/ Crash(d)
             \/ \E x \in Auth, path \in Payee : Validate(d, x, path)
      PROVE  RaceInv'
  <2>1. /\ deposits' = deposits /\ dep \in [Deposit -> [pc : {"idle", "done"} \cup Pending,
                                                       auth : SUBSET Auth]]
        /\ \/ dep' = [dep EXCEPT ![d].pc = "settling"]
           \/ dep' = [dep EXCEPT ![d] = [pc |-> "done", auth |-> {}]]
           \/ \E x : dep' = [dep EXCEPT ![d] = [pc |-> "unused", auth |-> {x}]]
    BY <1>2 DEF Verify, Crash, Validate, Move, End, IInv, TypeOK
  <2>2. dep'[d].pc # "counted" /\ \A e \in Deposit \ {d} : dep'[e] = dep[e]
    BY <2>1
  <2> QED
    BY <2>1, <2>2, OtherRaces
<1>3. ASSUME \/ \E x \in asked : Settle(x)
             \/ \E n \in Nonce, c \in X402Chain : Spend(n, c)
      PROVE  RaceInv'
  BY <1>3, OtherRaces DEF Settle, Spend
<1> QED
  BY <1>1, <1>2, <1>3, CheckRateRaces, CreateRaces, AnswerRaces, AgeRaces DEF Next

\* The rows of an address beyond the limit were all made in a race with one request, which
\* is what the whole set of the recent rows having a last one means.
LEMMA LastBoundsOverrun ==
  ASSUME RateLimitType, IInv, RaceInv
  PROVE  OverrunOnlyByRaces
<1> SUFFICES ASSUME NEW row \in deposits, Cardinality(RecentFor(row.address)) > RateLimit
             PROVE  \E s \in RecentFor(row.address) :
                        Cardinality({t \in RecentFor(row.address) : s.by \in t.racing})
                            >= Cardinality(RecentFor(row.address)) - RateLimit
  BY DEF OverrunOnlyByRaces
<1> DEFINE rows == RecentFor(row.address)
<1>1. row.address \in Payee
  BY DEF IInv, TypeOK
<1>2. HasLast(rows) /\ IsFiniteSet(rows) /\ Cardinality(rows) \in Nat
  BY <1>1, RowsAreFinite DEF RaceInv
<1>3. rows # {}
  <2>1. Cardinality({}) = 0
    BY FS_EmptySet
  <2> HIDE DEF rows
  <2>2. Cardinality(rows) > RateLimit
    BY DEF rows
  <2> QED
    BY <2>1, <2>2 DEF RateLimitType
<1>4. PICK s \in rows : Cardinality(Unraced(s.by, rows)) <= RateLimit
  BY <1>2, <1>3 DEF HasLast
<1> DEFINE raced == {t \in rows : s.by \in t.racing}
           unraced == Unraced(s.by, rows)
<1>5. raced = rows \ unraced /\ unraced \subseteq rows
  BY DEF Unraced
<1>6. IsFiniteSet(unraced) /\ Cardinality(unraced) \in Nat
  BY RowsAreFinite DEF RaceInv
<1> HIDE DEF unraced, raced, rows
<1>7. Cardinality(raced) = Cardinality(rows) - Cardinality(rows \cap unraced)
  BY <1>2, <1>5, <1>6, FS_Difference
<1>8. rows \cap unraced = unraced
  BY <1>5
<1>9. Cardinality(raced) >= Cardinality(rows) - RateLimit
  <2>1. Cardinality(raced) = Cardinality(rows) - Cardinality(unraced)
    BY <1>7, <1>8, Zenon
  <2>2. Cardinality(unraced) <= RateLimit
    BY <1>4 DEF unraced
  <2> QED
    BY <1>2, <1>6, <2>1, <2>2 DEF RateLimitType
<1> QED
  BY <1>4, <1>9 DEF raced, rows

\* Whatever requests race, age or fail, the rate limit of an account is overrun only by
\* rows made while one of them had counted and not been written.
THEOREM RateLimitHolds ==
  RateLimitType /\ Spec => []OverrunOnlyByRaces
<1> SUFFICES ASSUME RateLimitType
             PROVE  Spec => []OverrunOnlyByRaces
  OBVIOUS
<1>1. [](IInv) /\ RaceInv /\ [][Next]_depositVars => []RaceInv
  BY StepRaces, PTL
<1>2. IInv /\ RaceInv => OverrunOnlyByRaces
  BY LastBoundsOverrun
<1> QED
  BY <1>1, <1>2, InitRaceInv, InductiveInvariant, PTL DEF Spec
=============================================================================
