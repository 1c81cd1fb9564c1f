----------------------------- MODULE TxCreation -----------------------------
(***************************************************************************)
(* How a row of the transaction table comes to be, for one account: the    *)
(* client reserves a nonce for two minutes, the backend checks the         *)
(* reservation and the batch items, waits for zkVerify (longer than the    *)
(* reservation may last), and in one database transaction turns the        *)
(* reservation into a row. The batch items are deleted meanwhile, by       *)
(* statements that are not part of that transaction.                       *)
(*                                                                         *)
(* Rows that an open transaction has deleted or inserted are locked: the   *)
(* statements of others on them wait until it commits or rolls back.       *)
(* Operators named ..._Bug are wrong variants; see WalletOps.              *)
(***************************************************************************)
EXTENDS Integers, FiniteSets, FiniteSetsExt

CONSTANTS
    Client,          \* requests in flight, of clients that share the batch items
    Item,            \* batch items
    MaxReservations  \* bound: reservations ever made; their ids are 1 .. MaxReservations

ASSUME MaxReservationsType == MaxReservations \in Nat

VARIABLES
    reserved,  \* the ReservedNonce table: [id, nonce, expired]
    rows,      \* the Transaction table: the nonce, the reservation used, the batch
    items,     \* the BatchItem table
    client,    \* each client: [pc, nonce, res, batch, todo]
    lastId     \* the id of the newest reservation

vars == <<reserved, rows, items, client, lastId>>

Id == 1 .. MaxReservations

TypeOK ==
    /\ reserved \subseteq [id : Id, nonce : Nat, expired : BOOLEAN]
    /\ rows \subseteq [nonce : Nat, res : Id, batch : SUBSET Item]
    /\ items \subseteq Item
    /\ client \in [Client -> [pc : {"start", "reserving", "holding", "proving", "clearing"},
                              nonce : Nat, res : Id \cup {0},
                              batch : SUBSET Item, todo : SUBSET Item]]
    /\ lastId \in 0 .. MaxReservations

Start == [pc |-> "start", nonce |-> 0, res |-> 0, batch |-> {}, todo |-> {}]

Init ==
    /\ reserved = {}
    /\ rows = {}
    /\ items = Item
    /\ client = [c \in Client |-> Start]
    /\ lastId = 0

\* The reservation that an open transaction of c has deleted.
Locked(r) == \E c \in Client : client[c].pc = "clearing" /\ client[c].res = r.id

NextNonce(kept) == Max({-1} \cup {x.nonce : x \in rows} \cup {r.nonce : r \in kept}) + 1

\* The greatest nonce itself is handed out: breaks TypeOK.
ReadNextNonce_Bug(c) ==
    /\ client[c].pc = "start" /\ client[c].todo = {}
    /\ reserved' = {r \in reserved : ~ r.expired}
    /\ client' = [client EXCEPT ![c] = [Start EXCEPT !.pc = "reserving",
                                                    !.nonce = NextNonce(reserved') - 1]]
    /\ UNCHANGED <<rows, items, lastId>>

\* reserveNonce deletes what has expired and reads the two greatest nonces ...
ReadNextNonce(c) ==
    /\ client[c].pc = "start" /\ client[c].todo = {}
    /\ ~ \E r \in reserved : r.expired /\ Locked(r)
    /\ reserved' = {r \in reserved : ~ r.expired}
    /\ client' = [client EXCEPT ![c] = [Start EXCEPT !.pc = "reserving",
                                                    !.nonce = NextNonce(reserved')]]
    /\ UNCHANGED <<rows, items, lastId>>

\* ... and inserts; when another request got there first the insert fails.
CreateReservation(c) ==
    /\ client[c].pc = "reserving"
    /\ lastId < MaxReservations
    /\ IF \E r \in reserved : r.nonce = client[c].nonce
       THEN /\ client' = [client EXCEPT ![c] = Start]
            /\ UNCHANGED <<reserved, lastId>>
       ELSE /\ lastId' = lastId + 1
            /\ reserved' = reserved \cup {[id |-> lastId', nonce |-> client[c].nonce,
                                           expired |-> FALSE]}
            /\ client' = [client EXCEPT ![c].pc = "holding"]
    /\ UNCHANGED <<rows, items>>

Expire(r) ==
    /\ ~ r.expired
    /\ reserved' = (reserved \ {r}) \cup {[r EXCEPT !.expired = TRUE]}
    /\ UNCHANGED <<rows, items, client, lastId>>

\* createTransaction looks the reservation up by its nonce, not by who made it,
\* and reads the batch items.
CheckReservation(c, r, batch) ==
    /\ client[c].pc = "holding"
    /\ r.nonce = client[c].nonce /\ ~ r.expired
    /\ batch \subseteq items
    /\ client' = [client EXCEPT ![c].pc = "proving", ![c].res = r.id, ![c].batch = batch]
    /\ UNCHANGED <<reserved, rows, items, lastId>>

\* The unique index on the nonce is missing: breaks NonceInOneRow.
OpenTransaction_Bug(c) ==
    /\ client[c].pc = "proving"
    /\ \E r \in reserved : r.id = client[c].res /\ ~ Locked(r)
    /\ client' = [client EXCEPT ![c].pc = "clearing", ![c].todo = client[c].batch]
    /\ UNCHANGED <<reserved, rows, items, lastId>>

\* The database transaction deletes the reservation by its id and inserts the
\* row; it then waits for the deletions of the items.
OpenTransaction(c) ==
    /\ client[c].pc = "proving"
    /\ \E r \in reserved : r.id = client[c].res /\ ~ Locked(r)
    /\ \A x \in rows : x.nonce # client[c].nonce
    /\ \A d \in Client : client[d].pc = "clearing" => client[d].nonce # client[c].nonce
    /\ client' = [client EXCEPT ![c].pc = "clearing", ![c].todo = client[c].batch]
    /\ UNCHANGED <<reserved, rows, items, lastId>>

\* A missing item is not an error: breaks ItemInOneRow.
ClearItem_Bug(c, i) ==
    /\ i \in client[c].todo
    /\ items' = items \ {i}
    /\ client' = [client EXCEPT ![c].todo = @ \ {i}]
    /\ UNCHANGED <<reserved, rows, lastId>>

\* The deletions run concurrently. A missing item fails the transaction; the
\* deletions already started go on.
ClearItem(c, i) ==
    /\ i \in client[c].todo
    /\ items' = items \ {i}
    /\ client' = [client EXCEPT ![c].todo = @ \ {i},
                                ![c].pc = IF i \in items THEN @ ELSE "start"]
    /\ UNCHANGED <<reserved, rows, lastId>>

Commit(c) ==
    /\ client[c].pc = "clearing" /\ client[c].todo = {}
    /\ reserved' = {r \in reserved : r.id # client[c].res}
    /\ rows' = rows \cup {[nonce |-> client[c].nonce, res |-> client[c].res,
                           batch |-> client[c].batch]}
    /\ client' = [client EXCEPT ![c] = Start]
    /\ UNCHANGED <<items, lastId>>

\* zkVerify refuses, a check or a constraint fails, the transaction times out:
\* the client starts again.
Fail(c) ==
    /\ client[c].pc \in {"holding", "proving", "clearing"}
    /\ client' = [client EXCEPT ![c].pc = "start"]
    /\ UNCHANGED <<reserved, rows, items, lastId>>

Next ==
    \/ \E c \in Client :
          \/ ReadNextNonce(c) \/ CreateReservation(c) \/ OpenTransaction(c)
          \/ Commit(c) \/ Fail(c)
          \/ \E i \in Item : ClearItem(c, i)
          \/ \E r \in reserved, batch \in SUBSET Item : CheckReservation(c, r, batch)
    \/ \E r \in reserved : Expire(r)

Spec == Init /\ [][Next]_vars

----------------------------------------------------------------------------

\* No nonce has two rows, though the wait for zkVerify outlasts a reservation,
\* the nonce may be handed out again meanwhile, and another client may find the
\* new reservation by that nonce and use it up.
NonceInOneRow == \A x, y \in rows : x.nonce = y.nonce => x = y

\* A batch item is never part of two rows, so it is never paid twice, though two
\* requests may have read it before either deletes it.
ItemInOneRow == \A x, y \in rows : x.batch \cap y.batch # {} => x = y

\* An item that is gone is part of a row, or of the row being written. (The
\* comment of the deletion: "after successful creation".)
ItemsClearedAfterCreation ==
    \A i \in Item \ items :
        \/ \E x \in rows : i \in x.batch
        \/ \E c \in Client : client[c].pc = "clearing" /\ i \in client[c].batch
=============================================================================
