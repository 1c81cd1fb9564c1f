------------------------------ MODULE Deposits ------------------------------
(***************************************************************************)
(* x402 deposits: a payer signs a USDC authorization and posts it to the   *)
(* path of an account's address; the service checks it, writes a row, and  *)
(* has a facilitator submit it on its chain. The facilitator's answer may  *)
(* be lost, and it may submit after the service has given up. Nothing      *)
(* looks at a row again once its request has ended.                        *)
(* Operators named ..._Bug are wrong variants; see WalletOps.              *)
(***************************************************************************)
EXTENDS Integers, FiniteSets

CONSTANTS
    Deposit,    \* deposit requests
    Nonce,      \* nonces of authorizations
    Chain,
    X402Chain,  \* the chains deposits are supported on
    Payee,      \* bound: the addresses that payments and paths name, an account's or not
    RateLimit   \* PER_MULTISIG_RATE_LIMIT_COUNT

VARIABLES
    accounts,  \* the Account table, of which the address and the chain are read
    deposits,  \* the X402Deposit table: [by, nonce, chain, address, status, recent] and,
               \* for the properties, the requests that had counted when it was made
    asked,     \* the authorizations a facilitator was asked to settle
    usdc,      \* the authorizations that facilitators have had executed
    spent,     \* the nonces that payers have used or cancelled otherwise: [nonce, chain]
    dep        \* each request: [pc, auth]

depositVars == <<deposits, asked, usdc, spent, dep>>

\* The chain is the one a payment names as its network and is signed for.
Auth == [nonce : Nonce, chain : Chain, address : Payee]

\* Between the creation of its row and its answer.
Recorded == {"verifying", "settling"}

Pending == {"unused", "counted"} \cup Recorded

TypeOK ==
    /\ deposits \subseteq
           [by : Deposit, nonce : Nonce, chain : Chain, address : Payee,
            status : {"PENDING", "SETTLED", "FAILED"}, recent : BOOLEAN, racing : SUBSET Deposit]
    /\ asked \subseteq Auth
    /\ usdc \subseteq Auth
    /\ spent \subseteq [nonce : Nonce, chain : X402Chain]
    /\ dep \in [Deposit -> [pc : {"idle", "done"} \cup Pending, auth : SUBSET Auth]]
    /\ \A d \in Deposit : dep[d].pc \in Pending => dep[d].auth # {}

Init ==
    /\ deposits = {}
    /\ asked = {}
    /\ usdc = {}
    /\ spent = {}
    /\ dep = [d \in Deposit |-> [pc |-> "idle", auth |-> {}]]

Move(d, pc) == dep' = [dep EXCEPT ![d].pc = pc]

End(d) == dep' = [dep EXCEPT ![d] = [pc |-> "done", auth |-> {}]]

\* The authorization a request carries.
AuthOf(d) == CHOOSE x \in dep[d].auth : TRUE

\* An authorizer's nonce is executed once on a chain, whatever else it was signed for.
Consumed(x) ==
    \/ \E y \in usdc : y.nonce = x.nonce /\ y.chain = x.chain
    \/ [nonce |-> x.nonce, chain |-> x.chain] \in spent

----------------------------------------------------------------------------

\* The payment is taken to be for a chain of its own choice: breaks PaidIsOperable.
Matches_Bug(x, account) == x.chain \in X402Chain /\ x.address = account.address

\* The chain of the account must be supported, and the payment be for it.
Matches(x, account) ==
    /\ account.chain \in X402Chain
    /\ x.chain = account.chain /\ x.address = account.address

\* The nonce has no row, and is not used on the chain.
NonceUnused(x) == ~ Consumed(x) /\ ~ \E r \in deposits : r.nonce = x.nonce

\* A payment that may name anything is posted to a path. The account is found by
\* the address of the path alone, which accounts on several chains may share.
Validate(d, x, path) ==
    LET rows == {a \in accounts : a.address = path}
    IN  /\ dep[d].pc = "idle"
        /\ \/ rows = {} /\ End(d)
           \/ \E found \in rows :
                 IF Matches(x, found) /\ NonceUnused(x)
                 THEN dep' = [dep EXCEPT ![d] = [pc |-> "unused", auth |-> {x}]]
                 ELSE End(d)
        /\ UNCHANGED <<deposits, asked, usdc, spent>>

RecentFor(address) == {r \in deposits : r.recent /\ r.address = address}

\* One deposit more than the limit is let through: breaks OverrunOnlyByRaces.
CheckRate_Bug(d) ==
    /\ dep[d].pc = "unused"
    /\ IF Cardinality(RecentFor(AuthOf(d).address)) > RateLimit
       THEN End(d) ELSE Move(d, "counted")
    /\ UNCHANGED <<deposits, asked, usdc, spent>>

CheckRate(d) ==
    /\ dep[d].pc = "unused"
    /\ IF Cardinality(RecentFor(AuthOf(d).address)) >= RateLimit
       THEN End(d) ELSE Move(d, "counted")
    /\ UNCHANGED <<deposits, asked, usdc, spent>>

Row(d) ==
    [by |-> d, nonce |-> AuthOf(d).nonce, chain |-> AuthOf(d).chain,
     address |-> AuthOf(d).address, status |-> "PENDING", recent |-> TRUE,
     racing |-> {e \in Deposit \ {d} : dep[e].pc = "counted"}]

Create(d) ==
    /\ dep[d].pc = "counted"
    /\ IF \E r \in deposits : r.nonce = AuthOf(d).nonce
       THEN End(d) /\ UNCHANGED deposits
       ELSE /\ deposits' = deposits \cup {Row(d)}
            /\ Move(d, "verifying")
    /\ UNCHANGED <<asked, usdc, spent>>

\* verify succeeds and settle is posted.
Verify(d) ==
    /\ dep[d].pc = "verifying"
    /\ asked' = asked \cup {AuthOf(d)}
    /\ Move(d, "settling")
    /\ UNCHANGED <<deposits, usdc, spent>>

\* The facilitator submits, at any time after it was asked.
Settle(x) ==
    /\ x \in asked
    /\ ~ Consumed(x)
    /\ usdc' = usdc \cup {x}
    /\ UNCHANGED <<deposits, asked, spent, dep>>

\* The payer has the nonce executed by someone else, or cancels it.
Spend(n, c) ==
    /\ ~ \E x \in usdc : x.nonce = n /\ x.chain = c
    /\ spent' = spent \cup {[nonce |-> n, chain |-> c]}
    /\ UNCHANGED <<deposits, asked, usdc, dep>>

SetStatus(d, status) ==
    deposits' = {IF r.by = d THEN [r EXCEPT !.status = status] ELSE r : r \in deposits}

\* That it was asked is taken for an answer: breaks SettledIsPaid.
Answered_Bug(d) == AuthOf(d) \in asked

\* The facilitator answers with a transaction.
Answered(d) == AuthOf(d) \in usdc

Settled(d) ==
    /\ dep[d].pc = "settling"
    /\ Answered(d)
    /\ SetStatus(d, "SETTLED")
    /\ End(d)
    /\ UNCHANGED <<asked, usdc, spent>>

\* The row of a failed deposit is deleted, so that its nonce can be tried again:
\* breaks PaidHasRow.
Failed_Bug(d) ==
    /\ dep[d].pc \in Recorded
    /\ deposits' = {r \in deposits : r.by # d}
    /\ End(d)
    /\ UNCHANGED <<asked, usdc, spent>>

\* verify refuses, settle fails, its answer is lost, or the update to SETTLED fails:
\* the catch block.
Failed(d) ==
    /\ dep[d].pc \in Recorded
    /\ SetStatus(d, "FAILED")
    /\ End(d)
    /\ UNCHANGED <<asked, usdc, spent>>

\* The process dies, or the update to FAILED fails too.
Crash(d) ==
    /\ dep[d].pc \in Recorded
    /\ End(d)
    /\ UNCHANGED <<deposits, asked, usdc, spent>>

\* The window of the rate limit leaves a row behind.
Age(r) ==
    /\ r.recent
    /\ deposits' = (deposits \ {r}) \cup {[r EXCEPT !.recent = FALSE, !.racing = {}]}
    /\ UNCHANGED <<asked, usdc, spent, dep>>

Next ==
    \/ \E d \in Deposit :
          \/ CheckRate(d) \/ Create(d) \/ Verify(d)
          \/ Settled(d) \/ Failed(d) \/ Crash(d)
          \/ \E x \in Auth, path \in Payee : Validate(d, x, path)
    \/ \E x \in asked : Settle(x)
    \/ \E n \in Nonce, c \in X402Chain : Spend(n, c)
    \/ \E r \in deposits : Age(r)

\* The Account table may change between any two steps.
Spec == Init /\ [][Next]_depositVars

----------------------------------------------------------------------------

\* Row r is for authorization x.
RowFor(r, x) == r.nonce = x.nonce /\ r.chain = x.chain /\ r.address = x.address

\* A deposit is reported settled only when a facilitator moved the USDC, by the
\* authorization of its row, to the row's address on the row's chain.
SettledIsPaid ==
    \A r \in deposits : r.status = "SETTLED" => \E x \in usdc : RowFor(r, x)

\* Whatever a facilitator has moved for the service has a row, so a payment whose
\* answer was lost, or that came after the service gave up, can be found.
PaidHasRow == \A x \in usdc : \E r \in deposits : RowFor(r, x)

\* The rate limit is overrun only by requests that race: of the rows of an account
\* that are recent, all but RateLimit were made while the request of one of them
\* had counted and had no row yet.
OverrunOnlyByRaces ==
    \A r \in deposits :
        LET rows == RecentFor(r.address)
        IN  Cardinality(rows) > RateLimit =>
                \E s \in rows : Cardinality({t \in rows : s.by \in t.racing})
                                 >= Cardinality(rows) - RateLimit

\* A payment to an account on a supported chain is not refused for its account. (A
\* comment: "The lookup itself is by address -- disambiguation between chains relies
\* on that gate", the test that the chain of the row found is supported.)
SupportedAccountsArePaid ==
    [][\A d \in Deposit, x \in Auth :
          /\ Validate(d, x, x.address) /\ NonceUnused(x)
          /\ \E a \in accounts : Matches(x, a)
          => dep'[d].pc = "unused"]_depositVars
=============================================================================
