--------------------------- MODULE AccountCreation ---------------------------
(***************************************************************************)
(* How a multisig account comes to be: the backend has the relayer deploy  *)
(* a wallet on each chain asked for, one after the other, and then writes  *)
(* the users, the accounts and their signers in one database transaction.  *)
(* Nothing undoes a deployment when a later step fails. Meanwhile people   *)
(* log in for the first time, which creates the same users.                *)
(*                                                                         *)
(* An address names the deployer and the number of the contract among      *)
(* those it made on the chain: the relayer is one deployer on all chains,  *)
(* so an address can occur on two; a Stylus chain has a factory of its own.*)
(* Operators named ..._Bug are wrong variants; see WalletOps.              *)
(***************************************************************************)
EXTENDS Integers, Sequences, SequencesExt

CONSTANTS
    Commitment,
    EvmChain, StylusChain,
    Request,   \* requests to create accounts
    Body       \* what a request may ask: [creator, signers, threshold, chains]

ASSUME BodyType ==
    Body \subseteq [creator : Commitment, signers : Seq(Commitment), threshold : Nat \ {0},
                    chains : Seq(EvmChain \cup StylusChain)]

ASSUME ChainsDisjoint == EvmChain \cap StylusChain = {}

Chain == EvmChain \cup StylusChain

Address == [of : {"relayer"} \cup StylusChain, n : Nat \ {0}]

AddressOf(c, n) == [of |-> IF c \in StylusChain THEN c ELSE "relayer", n |-> n]

VARIABLES
    pool,      \* for each chain, the requests whose deployment waits, in nonce order
    wallets,   \* for each chain, the wallets: [by, signers, threshold], in order of creation
    users,     \* the commitments in the User table
    accounts,  \* the Account table with its signers: [by, chain, address, signers, threshold]
    req,       \* each request: [pc, body, left, simulated, made, missing]
    logins     \* the commitments for which a first login has found no user

vars == <<pool, wallets, users, accounts, req, logins>>

Working == {"deploying", "simulated", "waiting", "finding", "saving", "saved"}

Wallet == [by : Request, signers : Seq(Commitment), threshold : Nat \ {0}]

Account == [by : Request, chain : Chain, address : Address,
            signers : SUBSET Commitment, threshold : Nat \ {0}]

TypeOK ==
    /\ pool \in [Chain -> Seq(Request)]
    /\ wallets \in [Chain -> Seq(Wallet)]
    /\ users \subseteq Commitment
    /\ accounts \subseteq Account
    /\ req \in [Request -> [pc : {"new", "refused", "ok", "failed"} \cup Working,
                            body : Body, left : Seq(Chain), simulated : Nat,
                            made : SUBSET [chain : Chain, address : Address],
                            missing : SUBSET Commitment]]
    /\ logins \subseteq Commitment

\* A request that holds nothing but its body: before it is received and after its end.
Ended(pc, b) ==
    [pc |-> pc, body |-> b, left |-> << >>, simulated |-> 0, made |-> {}, missing |-> {}]

Init ==
    /\ pool = [c \in Chain |-> << >>]
    /\ wallets = [c \in Chain |-> << >>]
    /\ users = {}
    /\ accounts = {}
    /\ req \in [Request -> {Ended("new", b) : b \in Body}]
    /\ logins = {}

Move(q, pc) == req' = [req EXCEPT ![q].pc = pc]

End(q, pc) == req' = [req EXCEPT ![q] = Ended(pc, @.body)]

----------------------------------------------------------------------------

\* The signers are not looked at for repetitions.
Valid(b) ==
    /\ b.creator \in ToSet(b.signers)
    /\ b.threshold <= Len(b.signers)
    /\ Len(b.chains) > 0 /\ IsInjective(b.chains)

\* A request is made by a user who has logged in.
Authorized(q) == req[q].body.creator \in users

Receive(q) ==
    /\ req[q].pc = "new"
    /\ Authorized(q)
    /\ IF Valid(req[q].body)
       THEN req' = [req EXCEPT ![q].pc = "deploying", ![q].left = req[q].body.chains]
       ELSE End(q, "refused")
    /\ UNCHANGED <<pool, wallets, users, accounts, logins>>

\* The address of the last wallet made, not of the next one: breaks TypeOK.
Simulate_Bug(q) ==
    LET c == Head(req[q].left)
    IN  /\ req[q].pc = "deploying" /\ c \in StylusChain
        /\ req' = [req EXCEPT ![q].pc = "simulated", ![q].simulated = Len(wallets[c])]
        /\ UNCHANGED <<pool, wallets, users, accounts, logins>>

\* On a Stylus chain the address is what createWallet would return now.
Simulate(q) ==
    LET c == Head(req[q].left)
    IN  /\ req[q].pc = "deploying" /\ c \in StylusChain
        /\ req' = [req EXCEPT ![q].pc = "simulated", ![q].simulated = Len(wallets[c]) + 1]
        /\ UNCHANGED <<pool, wallets, users, accounts, logins>>

Send(q) ==
    LET c == Head(req[q].left)
    IN  /\ \/ req[q].pc = "deploying" /\ c \in EvmChain
           \/ req[q].pc = "simulated"
        /\ pool' = [pool EXCEPT ![c] = Append(@, q)]
        /\ Move(q, "waiting")
        /\ UNCHANGED <<wallets, users, accounts, logins>>

Mine(c) ==
    /\ pool[c] # << >>
    /\ LET q == Head(pool[c])
       IN  wallets' = [wallets EXCEPT ![c] =
               Append(@, [by |-> q, signers |-> req[q].body.signers,
                          threshold |-> req[q].body.threshold])]
    /\ pool' = [pool EXCEPT ![c] = Tail(@)]
    /\ UNCHANGED <<users, accounts, req, logins>>

\* createWallet reverts; its request can only fail. (The constructor on an EVM chain
\* was run by the estimate of its gas and reads nothing that changes.)
Revert(c) ==
    /\ c \in StylusChain /\ pool[c] # << >>
    /\ pool' = [pool EXCEPT ![c] = Tail(@)]
    /\ UNCHANGED <<wallets, users, accounts, req, logins>>

\* The deployment on the next chain is done, at index n.
Deployed(q, n) ==
    LET c == Head(req[q].left)
    IN  req' = [req EXCEPT ![q].pc = IF Len(req[q].left) = 1 THEN "finding" ELSE "deploying",
                           ![q].left = Tail(@),
                           ![q].made = @ \cup {[chain |-> c, address |-> AddressOf(c, n)]}]

\* Every receipt names the wallet mined last: breaks AccountsMirrorWallets.
Receipt_Bug(q) ==
    LET c == Head(req[q].left)
    IN  /\ req[q].pc = "waiting"
        /\ \E n \in DOMAIN wallets[c] : wallets[c][n].by = q
        /\ Deployed(q, Len(wallets[c]))
        /\ UNCHANGED <<pool, wallets, users, accounts, logins>>

\* On a Stylus chain the receipt is not waited for: breaks StylusRowsHoldAWallet.
Receipt_Bug2(q) ==
    LET c == Head(req[q].left)
    IN  /\ req[q].pc = "waiting"
        /\ IF c \in StylusChain
           THEN Deployed(q, req[q].simulated)
           ELSE \E n \in DOMAIN wallets[c] : wallets[c][n].by = q /\ Deployed(q, n)
        /\ UNCHANGED <<pool, wallets, users, accounts, logins>>

\* The receipt names the contract on an EVM chain; on a Stylus chain the
\* simulated address is kept.
Receipt(q) ==
    LET c == Head(req[q].left)
    IN  /\ req[q].pc = "waiting"
        /\ \E n \in DOMAIN wallets[c] :
              /\ wallets[c][n].by = q
              /\ Deployed(q, IF c \in StylusChain THEN req[q].simulated ELSE n)
        /\ UNCHANGED <<pool, wallets, users, accounts, logins>>

----------------------------------------------------------------------------
(* The database transaction: it looks each signer up, then creates the     *)
(* users that were missing, the accounts and the signer rows.              *)

FindUsers(q) ==
    /\ req[q].pc = "finding"
    /\ req' = [req EXCEPT ![q].pc = "saving",
                          ![q].missing = ToSet(req[q].body.signers) \ users]
    /\ UNCHANGED <<pool, wallets, users, accounts, logins>>

Rows(q) ==
    {[by |-> q, chain |-> m.chain, address |-> m.address,
      signers |-> ToSet(req[q].body.signers), threshold |-> req[q].body.threshold] :
        m \in req[q].made}

\* There is no unique index on (userId, accountId): breaks AccountsOperable.
NoConflict_Bug(q) ==
    /\ req[q].missing \cap users = {}
    /\ \A a \in accounts, r \in Rows(q) : a.chain = r.chain => a.address # r.address

\* What the unique indexes demand: no commitment twice among the users or in one
\* account, no address twice on a chain.
NoConflict(q) ==
    /\ IsInjective(req[q].body.signers)
    /\ req[q].missing \cap users = {}
    /\ \A a \in accounts, r \in Rows(q) : a.chain = r.chain => a.address # r.address

\* The accounts are written one by one, outside a transaction: breaks
\* AllChainsOrNone.
Save_Bug(q) ==
    /\ req[q].pc = "saving"
    /\ IsInjective(req[q].body.signers) /\ req[q].missing \cap users = {}
    /\ accounts' = accounts \cup
           {r \in Rows(q) : \A a \in accounts : a.chain = r.chain => a.address # r.address}
    /\ users' = users \cup req[q].missing
    /\ End(q, IF NoConflict(q) THEN "saved" ELSE "failed")
    /\ UNCHANGED <<pool, wallets, logins>>

Save(q) ==
    /\ req[q].pc = "saving"
    /\ IF NoConflict(q)
       THEN /\ accounts' = accounts \cup Rows(q)
            /\ users' = users \cup req[q].missing
            /\ End(q, "saved")
       ELSE /\ End(q, "failed")
            /\ UNCHANGED <<accounts, users>>
    /\ UNCHANGED <<pool, wallets, logins>>

\* The other signers are notified and the creator is answered.
Answer(q) ==
    /\ req[q].pc = "saved"
    /\ End(q, "ok")
    /\ UNCHANGED <<pool, wallets, users, accounts, logins>>

\* An error at any point, a receipt that does not come in time, or a crash.
Fail(q) ==
    /\ req[q].pc \in Working
    /\ End(q, "failed")
    /\ UNCHANGED <<pool, wallets, users, accounts, logins>>

----------------------------------------------------------------------------

\* A login whose proof was verified finds no user ...
LoginFindsNone(u) ==
    /\ u \notin users
    /\ logins' = logins \cup {u}
    /\ UNCHANGED <<pool, wallets, users, accounts, req>>

\* ... and creates one; it fails if one was created in between.
LoginCreates(u) ==
    /\ u \in logins
    /\ users' = users \cup {u}
    /\ logins' = logins \ {u}
    /\ UNCHANGED <<pool, wallets, accounts, req>>

Next ==
    \/ \E q \in Request :
          \/ Receive(q) \/ Simulate(q) \/ Send(q) \/ Receipt(q)
          \/ FindUsers(q) \/ Save(q) \/ Answer(q) \/ Fail(q)
    \/ \E c \in Chain : Mine(c) \/ Revert(c)
    \/ \E u \in Commitment : LoginFindsNone(u) \/ LoginCreates(u)

Spec == Init /\ [][Next]_vars

----------------------------------------------------------------------------

\* The wallet at the address of an account.
WalletOf(a) == wallets[a.chain][a.address.n]

\* On an EVM chain the account's address is the wallet deployed for it, with the
\* signers and the threshold of the row, whatever other requests deploy and
\* whichever fail: the state in which the execution of transactions starts.
AccountsMirrorWallets ==
    \A a \in accounts : a.chain \in EvmChain =>
        /\ a.address.n \in DOMAIN wallets[a.chain]
        /\ WalletOf(a).by = a.by /\ WalletOf(a).threshold = a.threshold
        /\ ToSet(WalletOf(a).signers) = a.signers

\* A wallet deployed with a repeated commitment, which neither the request's
\* checks nor the contract refuse, never becomes an account, so the wallet of an
\* account can reach its threshold.
AccountsOperable ==
    \A a \in accounts : a.chain \in EvmChain =>
        /\ IsInjective(WalletOf(a).signers)
        /\ a.threshold <= Cardinality(a.signers)

\* On a Stylus chain the address was simulated before the deployment, and another
\* deployment may take it first; but there always is a wallet at the address of an
\* account, and it is not later than the account's own.
StylusRowsHoldAWallet ==
    \A a \in accounts : a.chain \in StylusChain =>
        /\ a.address.n \in DOMAIN wallets[a.chain]
        /\ \E n \in DOMAIN wallets[a.chain] : n >= a.address.n /\ wallets[a.chain][n].by = a.by

\* The account's address on a Stylus chain is the proxy its own createWallet made.
\* (A comment: "Simulate first to capture the proxy address returned by
\* `createWallet`".)
StylusRowsAreOwn ==
    \A a \in accounts : a.chain \in StylusChain => WalletOf(a).by = a.by

\* A request has an account on each chain it asked for or on none, and on each if
\* it was answered: a batch that fails on its last chain leaves wallets, never a
\* part of its accounts.
AllChainsOrNone ==
    \A q \in Request :
        LET on == {a.chain : a \in {b \in accounts : b.by = q}}
        IN  /\ on \in {{}, ToSet(req[q].body.chains)}
            /\ req[q].pc = "ok" => on # {}
=============================================================================
