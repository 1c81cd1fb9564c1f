------------------------ MODULE AccountCreationProofs ------------------------
(* Theorems about AccountCreation, for all chains, requests and bodies.      *)
EXTENDS AccountCreation, FiniteSetTheorems, TLAPS

----------------------------------------------------------------------------
(* Sequences without repetitions. *)

LEMMA TailOfInjective ==
  ASSUME NEW S, NEW s \in Seq(S), Len(s) > 0, IsInjective(s)
  PROVE  /\ Head(s) \in S /\ Head(s) \in ToSet(s)
         /\ Tail(s) \in Seq(S) /\ IsInjective(Tail(s))
         /\ ToSet(Tail(s)) = ToSet(s) \ {Head(s)}
         /\ Len(s) \in Nat /\ Len(Tail(s)) = Len(s) - 1
<1>1. /\ Len(s) \in Nat \ {0} /\ Head(s) = s[1] /\ DOMAIN s = 1 .. Len(s)
      /\ Tail(s) \in Seq(S) /\ Len(Tail(s)) = Len(s) - 1
      /\ DOMAIN Tail(s) = 1 .. Len(s) - 1
      /\ \A i \in 1 .. Len(s) - 1 : Tail(s)[i] = s[i + 1]
      /\ \A i \in 1 .. Len(s) : s[i] \in S
  OBVIOUS
<1>2. IsInjective(Tail(s))
  BY <1>1 DEF IsInjective
<1>3. ToSet(Tail(s)) \subseteq ToSet(s) \ {Head(s)}
  BY <1>1 DEF IsInjective, ToSet
<1>4. ASSUME NEW x \in ToSet(s) \ {Head(s)}
      PROVE  x \in ToSet(Tail(s))
  <2>1. PICK i \in 1 .. Len(s) : x = s[i]
    BY <1>1 DEF ToSet
  <2>2. i - 1 \in 1 .. Len(s) - 1 /\ Tail(s)[i - 1] = x
    BY <1>1, <1>4, <2>1
  <2> QED
    BY <1>1, <2>2 DEF ToSet
<1>5. Head(s) \in S /\ Head(s) \in ToSet(s)
  BY <1>1 DEF ToSet
<1>6. ToSet(Tail(s)) = ToSet(s) \ {Head(s)}
  BY <1>3, <1>4
<1> QED
  BY <1>1, <1>2, <1>5, <1>6

\* Appending keeps what a sequence has at its places.
LEMMA AppendKeepsPlaces ==
  ASSUME NEW S, NEW s \in Seq(S), NEW x \in S
  PROVE  /\ Append(s, x) \in Seq(S)
         /\ DOMAIN s = 1 .. Len(s) /\ Len(s) \in Nat
         /\ DOMAIN Append(s, x) = 1 .. Len(s) + 1
         /\ \A i \in DOMAIN s : Append(s, x)[i] = s[i]
         /\ Append(s, x)[Len(s) + 1] = x
  OBVIOUS

\* A sequence without repetitions has as many members as entries.
LEMMA CardinalityOfInjective ==
  ASSUME NEW S, NEW s \in Seq(S), IsInjective(s)
  PROVE  IsFiniteSet(ToSet(s)) /\ Cardinality(ToSet(s)) = Len(s)
<1>1. Len(s) \in Nat /\ DOMAIN s = 1 .. Len(s)
  OBVIOUS
<1>2. IsFiniteSet(1 .. Len(s)) /\ Cardinality(1 .. Len(s)) = Len(s)
  BY <1>1, FS_Interval
<1>3. s \in Bijection(1 .. Len(s), ToSet(s))
  BY <1>1 DEF Bijection, Injection, Surjection, IsInjective, ToSet
<1> QED
  BY <1>2, <1>3, FS_Bijection DEF ExistsBijection

----------------------------------------------------------------------------
(* The strengthening. *)

Deploying == {"deploying", "simulated", "waiting"}

Before == Deploying \cup {"finding", "saving"}

After == {"saved", "ok", "failed"}

ChainsMade(q) == {m.chain : m \in req[q].made}

\* Until its rows are saved, a request has deployed once on each chain it asked for
\* but those left.
Progress(q) ==
    /\ req[q].pc = "new" => req[q].made = {}
    /\ req[q].pc \in Before =>
           /\ Valid(req[q].body)
           /\ IsInjective(req[q].left)
           /\ ToSet(req[q].left) \cap ChainsMade(q) = {}
           /\ ToSet(req[q].left) \cup ChainsMade(q) = ToSet(req[q].body.chains)
           /\ \A m, k \in req[q].made : m.chain = k.chain => m = k
           /\ req[q].pc \in Deploying => Len(req[q].left) > 0
           /\ req[q].pc \notin Deploying => ToSet(req[q].left) = {}
    /\ req[q].pc \in {"simulated", "waiting"} /\ Head(req[q].left) \in StylusChain =>
           req[q].simulated # 0

\* m names a wallet that q deployed.
NamesWalletOf(m, q) ==
    m.address.n \in DOMAIN wallets[m.chain] /\ wallets[m.chain][m.address.n].by = q

MadeOnEvm(q) == \A m \in req[q].made : m.chain \in EvmChain => NamesWalletOf(m, q)

WalletsAsAsked ==
    \A c \in Chain : \A n \in DOMAIN wallets[c] :
        /\ wallets[c][n].signers = req[wallets[c][n].by].body.signers
        /\ wallets[c][n].threshold = req[wallets[c][n].by].body.threshold

AccountsAsAsked ==
    \A a \in accounts :
        /\ req[a.by].pc \in After
        /\ Valid(req[a.by].body) /\ IsInjective(req[a.by].body.signers)
        /\ a.signers = ToSet(req[a.by].body.signers)
        /\ a.threshold = req[a.by].body.threshold
        /\ a.chain \in EvmChain => NamesWalletOf(a, a.by)

ChainsWithAccount(q) == {a.chain : a \in {b \in accounts : b.by = q}}

AllOrNone(q) ==
    /\ ChainsWithAccount(q) \in {{}, ToSet(req[q].body.chains)}
    /\ req[q].pc \in {"saved", "ok"} => ChainsWithAccount(q) # {}

IInv ==
    /\ TypeOK
    /\ \A q \in Request : Progress(q) /\ MadeOnEvm(q) /\ AllOrNone(q)
    /\ WalletsAsAsked
    /\ AccountsAsAsked

LEMMA InitIInv == Init => IInv
<1> SUFFICES ASSUME Init PROVE IInv
  OBVIOUS
<1>1. /\ req \in [Request -> {Ended("new", b) : b \in Body}]
      /\ wallets = [c \in Chain |-> << >>] /\ pool = [c \in Chain |-> << >>]
      /\ users = {} /\ accounts = {} /\ logins = {}
  BY DEF Init
<1>2. \A q \in Request : \E b \in Body : req[q] = Ended("new", b)
  BY <1>1
<1>3. TypeOK
  <2>1. \A b \in Body : Ended("new", b) \in
            [pc : {"new", "refused", "ok", "failed"} \cup Working,
             body : Body, left : Seq(Chain), simulated : Nat,
             made : SUBSET [chain : Chain, address : Address],
             missing : SUBSET Commitment]
    BY DEF Ended
  <2> QED
    BY <1>1, <2>1 DEF TypeOK
<1>4. ASSUME NEW q \in Request
      PROVE  Progress(q) /\ MadeOnEvm(q) /\ AllOrNone(q)
  <2> PICK b \in Body : req[q] = Ended("new", b)
    BY <1>2
  <2>1. req[q].pc = "new" /\ req[q].made = {}
    BY DEF Ended
  <2>2. ChainsWithAccount(q) = {}
    BY <1>1 DEF ChainsWithAccount
  <2> QED
    BY <2>1, <2>2 DEF Progress, Before, Deploying, MadeOnEvm, AllOrNone
<1>5. WalletsAsAsked
  BY <1>1 DEF WalletsAsAsked
<1>6. AccountsAsAsked
  BY <1>1 DEF AccountsAsAsked
<1> QED
  BY <1>3, <1>4, <1>5, <1>6 DEF IInv

----------------------------------------------------------------------------
(* Steps of one request that leave the wallets and the accounts alone. *)

LEMMA RequestStep ==
  ASSUME IInv, TypeOK', UNCHANGED <<wallets, accounts>>, NEW q \in Request,
         \A p \in Request \ {q} : req'[p] = req[p],
         req'[q].body = req[q].body,
         Progress(q)', MadeOnEvm(q)',
         req[q].pc \in After => req'[q].pc \in After,
         req'[q].pc \in {"saved", "ok"} => req[q].pc \in {"saved", "ok"}
  PROVE  IInv'
<1> USE DEF IInv
<1>1. ASSUME NEW p \in Request
      PROVE  Progress(p)' /\ MadeOnEvm(p)' /\ AllOrNone(p)'
  <2>1. CASE p = q
    BY <2>1 DEF AllOrNone, ChainsWithAccount
  <2>2. CASE p # q
    <3>1. req'[p] = req[p] /\ Progress(p) /\ MadeOnEvm(p) /\ AllOrNone(p)
      BY <2>2
    <3>2. Progress(p)'
      BY <3>1 DEF Progress, ChainsMade
    <3>3. MadeOnEvm(p)'
      BY <3>1 DEF MadeOnEvm, NamesWalletOf
    <3>4. AllOrNone(p)'
      BY <3>1 DEF AllOrNone, ChainsWithAccount
    <3> QED
      BY <3>2, <3>3, <3>4
  <2> QED
    BY <2>1, <2>2
<1>2. \A p \in Request : req'[p].body = req[p].body
  OBVIOUS
<1>3. WalletsAsAsked'
  <2> SUFFICES ASSUME NEW c \in Chain, NEW n \in DOMAIN wallets[c]
               PROVE  /\ wallets[c][n].signers = req'[wallets[c][n].by].body.signers
                      /\ wallets[c][n].threshold = req'[wallets[c][n].by].body.threshold
    BY DEF WalletsAsAsked
  <2>1. wallets[c][n] \in Wallet
    BY DEF TypeOK
  <2> QED
    BY <1>2, <2>1 DEF WalletsAsAsked, Wallet
<1>4. AccountsAsAsked'
  <2> SUFFICES ASSUME NEW a \in accounts
               PROVE  /\ req'[a.by].pc \in After
                      /\ req'[a.by].body = req[a.by].body
    BY DEF AccountsAsAsked, NamesWalletOf
  <2>1. a.by \in Request
    BY DEF TypeOK, Account
  <2> QED
    BY <1>2, <2>1 DEF AccountsAsAsked
<1> QED
  BY <1>1, <1>3, <1>4

\* The type of a request's state.
ReqState ==
    [pc : {"new", "refused", "ok", "failed"} \cup Working, body : Body, left : Seq(Chain),
     simulated : Nat, made : SUBSET [chain : Chain, address : Address],
     missing : SUBSET Commitment]

LEMMA BodyTyped ==
  ASSUME TypeOK, NEW q \in Request
  PROVE  /\ req[q] \in ReqState
         /\ req[q].body \in [creator : Commitment, signers : Seq(Commitment),
                             threshold : Nat \ {0}, chains : Seq(Chain)]
         /\ ToSet(req[q].body.signers) \subseteq Commitment
<1>1. req[q] \in ReqState
  BY DEF TypeOK, ReqState
<1>2. req[q].body \in [creator : Commitment, signers : Seq(Commitment),
                       threshold : Nat \ {0}, chains : Seq(Chain)]
  BY <1>1, BodyType DEF ReqState, Chain
<1>3. ToSet(req[q].body.signers) \subseteq Commitment
  BY <1>2 DEF ToSet
<1> QED
  BY <1>1, <1>2, <1>3

\* A request that ends, or is refused, forgets its work.
LEMMA EndStep ==
  ASSUME IInv, NEW q \in Request, NEW pc \in {"refused", "ok", "failed"},
         End(q, pc), UNCHANGED <<pool, wallets, users, accounts, logins>>,
         req[q].pc \in After => pc \in After,
         pc = "ok" => req[q].pc = "saved"
  PROVE  IInv'
<1>1. req[q] \in ReqState
  BY BodyTyped DEF IInv
<1>2. /\ req' = [req EXCEPT ![q] = Ended(pc, req[q].body)]
      /\ req'[q] = Ended(pc, req[q].body)
      /\ Ended(pc, req[q].body) \in ReqState
  BY <1>1 DEF End, Ended, ReqState, IInv, TypeOK
<1>3. TypeOK'
  BY <1>2 DEF IInv, TypeOK, ReqState
<1>4. req'[q].pc = pc /\ req'[q].made = {} /\ req'[q].body = req[q].body
  BY <1>2 DEF Ended
<1>5. Progress(q)' /\ MadeOnEvm(q)'
  BY <1>4 DEF Progress, MadeOnEvm, Before, Deploying
<1>6. \A p \in Request \ {q} : req'[p] = req[p]
  BY <1>2 DEF IInv, TypeOK
<1> QED
  BY <1>3, <1>4, <1>5, <1>6, RequestStep

LEMMA ReceiveKeeps ==
  ASSUME IInv, NEW q \in Request, Receive(q)
  PROVE  IInv'
<1>1. CASE ~ Valid(req[q].body)
  BY <1>1, EndStep DEF Receive, After
<1>2. CASE Valid(req[q].body)
  <2>1. /\ req' = [req EXCEPT ![q].pc = "deploying", ![q].left = req[q].body.chains]
        /\ UNCHANGED <<pool, wallets, users, accounts, logins>>
        /\ req[q].pc = "new"
    BY <1>2 DEF Receive
  <2>2. req[q] \in ReqState /\ req[q].body.chains \in Seq(Chain)
    BY BodyTyped DEF IInv
  <2>3. /\ req'[q] = [req[q] EXCEPT !.pc = "deploying", !.left = req[q].body.chains]
        /\ \A p \in Request \ {q} : req'[p] = req[p]
        /\ req' \in [Request -> ReqState]
    BY <2>1, <2>2 DEF IInv, TypeOK, ReqState, Working
  <2>4. TypeOK'
    BY <2>1, <2>3 DEF IInv, TypeOK, ReqState
  <2>5. /\ req'[q].pc = "deploying" /\ req'[q].left = req[q].body.chains
        /\ req'[q].body = req[q].body /\ req'[q].made = {}
    BY <2>1, <2>2, <2>3 DEF IInv, Progress, ReqState
  <2>6. Progress(q)'
    BY <1>2, <2>5 DEF Progress, Before, Deploying, ChainsMade, Valid
  <2>7. MadeOnEvm(q)'
    BY <2>5 DEF MadeOnEvm
  <2> QED
    BY <2>1, <2>3, <2>4, <2>5, <2>6, <2>7, RequestStep DEF After
<1> QED
  BY <1>1, <1>2

\* Steps that only move a request on, with what it has deployed and has left.
LEMMA MoveStep ==
  ASSUME IInv, NEW q \in Request, NEW r \in ReqState, TypeOK',
         req' = [req EXCEPT ![q] = r], UNCHANGED <<wallets, accounts>>,
         r.body = req[q].body, r.left = req[q].left, r.made = req[q].made,
         \/ req[q].pc \in Deploying /\ r.pc \in Deploying
         \/ req[q].pc \in Before \ Deploying /\ r.pc \in Before \ Deploying,
         r.pc \in {"simulated", "waiting"} /\ Head(r.left) \in StylusChain => r.simulated # 0
  PROVE  IInv'
<1>1. req'[q] = r /\ \A p \in Request \ {q} : req'[p] = req[p]
  BY DEF IInv, TypeOK
<1>2. Progress(q)'
  BY <1>1, ZenonT(30) DEF IInv, Progress, Before, Deploying, ChainsMade
<1>3. MadeOnEvm(q)'
  BY <1>1 DEF IInv, MadeOnEvm, NamesWalletOf
<1> QED
  BY <1>1, <1>2, <1>3, RequestStep DEF Before, Deploying, After

LEMMA SimulateKeeps ==
  ASSUME IInv, NEW q \in Request, Simulate(q)
  PROVE  IInv'
<1> DEFINE c == Head(req[q].left)
           n == Len(wallets[c]) + 1
           r == [req[q] EXCEPT !.pc = "simulated", !.simulated = n]
<1>1. /\ req[q].pc = "deploying" /\ c \in StylusChain
      /\ req' = [req EXCEPT ![q] = r]
      /\ UNCHANGED <<pool, wallets, users, accounts, logins>>
  BY DEF Simulate
<1>2. req[q] \in ReqState /\ n \in Nat \ {0}
  BY <1>1, BodyTyped DEF IInv, TypeOK, Chain
<1> HIDE DEF n
<1>3. r \in ReqState
  BY <1>2 DEF ReqState, Working
<1>4. TypeOK'
  BY <1>1, <1>3 DEF IInv, TypeOK, ReqState
<1>5. r.body = req[q].body /\ r.left = req[q].left /\ r.made = req[q].made /\ r.pc = "simulated"
      /\ r.simulated # 0
  BY <1>2 DEF ReqState
<1> QED
  BY <1>1, <1>3, <1>4, <1>5, MoveStep DEF Deploying

LEMMA SendKeeps ==
  ASSUME IInv, NEW q \in Request, Send(q)
  PROVE  IInv'
<1> DEFINE c == Head(req[q].left)
           r == [req[q] EXCEPT !.pc = "waiting"]
<1>1. /\ req[q].pc \in {"deploying", "simulated"}
      /\ pool' = [pool EXCEPT ![c] = Append(@, q)]
      /\ req' = [req EXCEPT ![q] = r]
      /\ UNCHANGED <<wallets, users, accounts, logins>>
  BY DEF Send, Move
<1>2. req[q] \in ReqState
  BY BodyTyped DEF IInv
<1>3. r \in ReqState
  BY <1>2 DEF ReqState, Working
<1>4. pool' \in [Chain -> Seq(Request)]
  <2>1. c \in Chain
    BY <1>1, <1>2, TailOfInjective DEF IInv, Progress, Before, Deploying, ReqState
  <2>2. pool[c] \in Seq(Request)
    BY <2>1 DEF IInv, TypeOK
  <2>3. Append(pool[c], q) \in Seq(Request)
    BY <2>2
  <2> HIDE DEF c
  <2> QED
    BY <1>1, <2>3 DEF IInv, TypeOK
<1>5. TypeOK'
  BY <1>1, <1>3, <1>4 DEF IInv, TypeOK, ReqState
<1>6. r.body = req[q].body /\ r.left = req[q].left /\ r.made = req[q].made /\ r.pc = "waiting"
      /\ r.simulated = req[q].simulated
  BY <1>2 DEF ReqState
<1>7. Head(r.left) \in StylusChain => r.simulated # 0
  BY <1>6, ChainsDisjoint DEF Send, IInv, Progress
<1> QED
  BY <1>1, <1>3, <1>5, <1>6, <1>7, MoveStep DEF Deploying

LEMMA FindUsersKeeps ==
  ASSUME IInv, NEW q \in Request, FindUsers(q)
  PROVE  IInv'
<1> DEFINE r == [req[q] EXCEPT !.pc = "saving",
                               !.missing = ToSet(req[q].body.signers) \ users]
<1>1. /\ req[q].pc = "finding"
      /\ req' = [req EXCEPT ![q] = r]
      /\ UNCHANGED <<pool, wallets, users, accounts, logins>>
  BY DEF FindUsers
<1>2. req[q] \in ReqState /\ ToSet(req[q].body.signers) \subseteq Commitment
  BY BodyTyped DEF IInv
<1>3. r \in ReqState
  BY <1>2 DEF ReqState, Working
<1>4. TypeOK'
  BY <1>1, <1>3 DEF IInv, TypeOK, ReqState
<1>5. r.body = req[q].body /\ r.left = req[q].left /\ r.made = req[q].made /\ r.pc = "saving"
  BY <1>2 DEF ReqState
<1> QED
  BY <1>1, <1>3, <1>4, <1>5, MoveStep DEF Deploying, Before

LEMMA ReceiptKeeps ==
  ASSUME IInv, NEW q \in Request, Receipt(q)
  PROVE  IInv'
<1> DEFINE c == Head(req[q].left)
<1>1. PICK n \in DOMAIN wallets[c] :
         /\ wallets[c][n].by = q
         /\ Deployed(q, IF c \in StylusChain THEN req[q].simulated ELSE n)
  BY DEF Receipt
<1> DEFINE k == IF c \in StylusChain THEN req[q].simulated ELSE n
           m == [chain |-> c, address |-> AddressOf(c, k)]
           pc == IF Len(req[q].left) = 1 THEN "finding" ELSE "deploying"
           r == [req[q] EXCEPT !.pc = pc, !.left = Tail(@), !.made = @ \cup {m}]
<1>2. /\ req[q].pc = "waiting"
      /\ req' = [req EXCEPT ![q] = r]
      /\ UNCHANGED <<pool, wallets, users, accounts, logins>>
  BY <1>1, ZenonT(60) DEF Receipt, Deployed
<1>3. req[q] \in ReqState
  BY BodyTyped DEF IInv
<1>4. /\ c \in Chain /\ c \in ToSet(req[q].left)
      /\ Tail(req[q].left) \in Seq(Chain) /\ IsInjective(Tail(req[q].left))
      /\ ToSet(Tail(req[q].left)) = ToSet(req[q].left) \ {c}
      /\ Len(req[q].left) \in Nat /\ Len(Tail(req[q].left)) = Len(req[q].left) - 1
  BY <1>2, <1>3, TailOfInjective DEF IInv, Progress, Before, Deploying, ReqState
<1>5. k \in Nat \ {0}
  <2>1. CASE c \in StylusChain
    BY <1>2, <1>3, <2>1 DEF IInv, Progress, ReqState
  <2>2. CASE c \notin StylusChain
    <3>1. DOMAIN wallets[c] \subseteq Nat \ {0}
      BY <1>4 DEF IInv, TypeOK
    <3> QED
      BY <2>2, <3>1
  <2> QED
    BY <2>1, <2>2
<1>6. m \in [chain : Chain, address : Address]
  BY <1>4, <1>5 DEF AddressOf, Address
<1>7. m.chain = c /\ (c \in EvmChain => NamesWalletOf(m, q))
  BY <1>1, ChainsDisjoint DEF AddressOf, NamesWalletOf
<1> HIDE DEF c, k, m
<1>8. r \in ReqState
  BY <1>3, <1>4, <1>6 DEF ReqState, Working
<1>9. /\ r.body = req[q].body /\ r.left = Tail(req[q].left) /\ r.made = req[q].made \cup {m}
      /\ r.pc = pc
  BY <1>3 DEF ReqState
<1> HIDE DEF r
<1>10. req'[q] = r /\ \A p \in Request \ {q} : req'[p] = req[p]
  BY <1>2 DEF IInv, TypeOK
<1>11. TypeOK'
  BY <1>2, <1>8 DEF IInv, TypeOK, ReqState
<1>12. Progress(q)'
  <2>1. /\ Valid(req[q].body)
        /\ ToSet(req[q].left) \cap ChainsMade(q) = {}
        /\ ToSet(req[q].left) \cup ChainsMade(q) = ToSet(req[q].body.chains)
        /\ \A x, y \in req[q].made : x.chain = y.chain => x = y
    BY <1>2 DEF IInv, Progress, Before, Deploying
  <2>2. ChainsMade(q)' = ChainsMade(q) \cup {c}
    BY <1>7, <1>9, <1>10 DEF ChainsMade
  <2>3. \A x, y \in r.made : x.chain = y.chain => x = y
    BY <1>4, <1>7, <1>9, <2>1 DEF ChainsMade
  <2>4. \/ r.pc = "deploying" /\ Len(r.left) > 0
        \/ r.pc = "finding" /\ ToSet(r.left) = {}
    <3>1. CASE Len(req[q].left) = 1
      BY <1>4, <1>9, <3>1 DEF ToSet
    <3>2. CASE Len(req[q].left) # 1
      <4>1. Len(req[q].left) > 0
        BY <1>2 DEF IInv, Progress, Before, Deploying
      <4>2. r.pc = "deploying"
        BY <1>9, <3>2
      <4> DEFINE l == Len(req[q].left)
      <4>3. Len(r.left) = l - 1 /\ l \in Nat /\ l > 0 /\ l # 1
        BY <1>4, <1>9, <3>2, <4>1
      <4> HIDE DEF l
      <4>4. l - 1 > 0
        BY <4>3
      <4>5. Len(r.left) > 0
        BY <4>3, <4>4, Zenon
      <4> QED
        BY <4>2, <4>5, Zenon
    <3> QED
      BY <3>1, <3>2
  <2> QED
    BY <1>4, <1>9, <1>10, <2>1, <2>2, <2>3, <2>4 DEF Progress, Deploying, Before
<1>13. MadeOnEvm(q)'
  BY <1>2, <1>7, <1>9, <1>10 DEF IInv, MadeOnEvm, NamesWalletOf
<1> QED
  BY <1>2, <1>9, <1>10, <1>11, <1>12, <1>13, RequestStep DEF After

LEMMA AnswerKeeps ==
  ASSUME IInv, NEW q \in Request, Answer(q)
  PROVE  IInv'
  BY EndStep DEF Answer, After

LEMMA FailKeeps ==
  ASSUME IInv, NEW q \in Request, Fail(q)
  PROVE  IInv'
  BY EndStep DEF Fail, After

----------------------------------------------------------------------------
(* Steps of the chains and of logins. *)

\* What the invariant says is kept as long as the wallets keep their places.
LEMMA WalletsGrow ==
  ASSUME IInv, TypeOK', UNCHANGED <<accounts, req>>, WalletsAsAsked',
         \A c \in Chain : /\ DOMAIN wallets[c] \subseteq DOMAIN wallets'[c]
                          /\ \A n \in DOMAIN wallets[c] : wallets'[c][n] = wallets[c][n]
  PROVE  IInv'
<1> USE DEF IInv
<1>1. ASSUME NEW q \in Request
      PROVE  Progress(q)' /\ AllOrNone(q)'
  BY DEF Progress, ChainsMade, AllOrNone, ChainsWithAccount
<1>2. ASSUME NEW q \in Request
      PROVE  MadeOnEvm(q)'
  BY DEF MadeOnEvm, NamesWalletOf, Chain
<1>3. AccountsAsAsked'
  BY DEF AccountsAsAsked, NamesWalletOf, Chain
<1> QED
  BY <1>1, <1>2, <1>3

LEMMA MineKeeps ==
  ASSUME IInv, NEW c \in Chain, Mine(c)
  PROVE  IInv'
<1> DEFINE q == Head(pool[c])
           w == [by |-> q, signers |-> req[q].body.signers, threshold |-> req[q].body.threshold]
<1>1. /\ pool[c] # << >>
      /\ wallets' = [wallets EXCEPT ![c] = Append(@, w)]
      /\ pool' = [pool EXCEPT ![c] = Tail(@)]
      /\ UNCHANGED <<users, accounts, req, logins>>
  BY DEF Mine
<1>2. pool[c] \in Seq(Request) /\ q \in Request /\ Tail(pool[c]) \in Seq(Request)
  BY <1>1 DEF IInv, TypeOK
<1> HIDE DEF q
<1>3. w \in Wallet /\ w.by = q /\ w.signers = req[q].body.signers
      /\ w.threshold = req[q].body.threshold
  BY <1>2, BodyTyped DEF IInv, Wallet
<1> HIDE DEF w
<1>4. /\ wallets[c] \in Seq(Wallet)
      /\ wallets'[c] = Append(wallets[c], w)
      /\ \A d \in Chain \ {c} : wallets'[d] = wallets[d]
  BY <1>1 DEF IInv, TypeOK
<1>5. /\ Append(wallets[c], w) \in Seq(Wallet)
      /\ DOMAIN wallets[c] = 1 .. Len(wallets[c]) /\ Len(wallets[c]) \in Nat
      /\ DOMAIN wallets'[c] = 1 .. Len(wallets[c]) + 1
      /\ \A n \in DOMAIN wallets[c] : wallets'[c][n] = wallets[c][n]
      /\ wallets'[c][Len(wallets[c]) + 1] = w
  BY <1>3, <1>4, AppendKeepsPlaces
<1>6. TypeOK'
  BY <1>1, <1>2, <1>5 DEF IInv, TypeOK
<1>7. WalletsAsAsked'
  <2> SUFFICES ASSUME NEW d \in Chain, NEW n \in DOMAIN wallets'[d]
               PROVE  /\ wallets'[d][n].signers = req[wallets'[d][n].by].body.signers
                      /\ wallets'[d][n].threshold = req[wallets'[d][n].by].body.threshold
    BY <1>1 DEF WalletsAsAsked
  <2>1. CASE d = c /\ n = Len(wallets[c]) + 1
    BY <1>3, <1>5, <2>1
  <2>2. CASE n \in DOMAIN wallets[d] /\ wallets'[d][n] = wallets[d][n]
    BY <2>2 DEF IInv, WalletsAsAsked
  <2>3. CASE d = c /\ n # Len(wallets[c]) + 1
    BY <1>5, <2>2, <2>3
  <2> QED
    BY <1>4, <2>1, <2>2, <2>3
<1>8. \A d \in Chain : /\ DOMAIN wallets[d] \subseteq DOMAIN wallets'[d]
                       /\ \A n \in DOMAIN wallets[d] : wallets'[d][n] = wallets[d][n]
  BY <1>4, <1>5
<1> QED
  BY <1>1, <1>6, <1>7, <1>8, WalletsGrow

\* Steps that touch neither wallets, accounts nor requests.
LEMMA OtherStep ==
  ASSUME IInv, TypeOK', UNCHANGED <<wallets, accounts, req>>
  PROVE  IInv'
  BY WalletsGrow DEF IInv, WalletsAsAsked

LEMMA RevertKeeps ==
  ASSUME IInv, NEW c \in Chain, Revert(c)
  PROVE  IInv'
<1>1. Tail(pool[c]) \in Seq(Request) /\ pool' = [pool EXCEPT ![c] = Tail(pool[c])]
  BY DEF IInv, TypeOK, Revert
<1>2. TypeOK'
  BY <1>1 DEF IInv, TypeOK, Revert
<1> QED
  BY <1>2, OtherStep DEF Revert

LEMMA LoginKeeps ==
  ASSUME IInv, NEW u \in Commitment, LoginFindsNone(u) \/ LoginCreates(u)
  PROVE  IInv'
<1>1. TypeOK'
  BY DEF IInv, TypeOK, LoginFindsNone, LoginCreates
<1> QED
  BY <1>1, OtherStep DEF LoginFindsNone, LoginCreates

----------------------------------------------------------------------------
(* The database transaction. *)

\* What the rows of a saving request are.
LEMMA RowsOfSaving ==
  ASSUME IInv, NEW q \in Request, req[q].pc = "saving"
  PROVE  /\ Rows(q) \subseteq Account
         /\ {a.chain : a \in Rows(q)} = ToSet(req[q].body.chains)
         /\ ToSet(req[q].body.chains) # {}
         /\ \A a \in Rows(q) :
               /\ a.by = q
               /\ a.signers = ToSet(req[q].body.signers)
               /\ a.threshold = req[q].body.threshold
               /\ a.chain \in EvmChain => NamesWalletOf(a, q)
         /\ \A a, b \in Rows(q) : a.chain = b.chain => a = b
<1> DEFINE row(m) == [by |-> q, chain |-> m.chain, address |-> m.address,
                      signers |-> ToSet(req[q].body.signers),
                      threshold |-> req[q].body.threshold]
<1>1. Rows(q) = {row(m) : m \in req[q].made}
  BY DEF Rows
<1>2. /\ req[q] \in ReqState
      /\ req[q].body \in [creator : Commitment, signers : Seq(Commitment),
                          threshold : Nat \ {0}, chains : Seq(Chain)]
      /\ ToSet(req[q].body.signers) \subseteq Commitment
  BY BodyTyped DEF IInv
<1>3. /\ ChainsMade(q) = ToSet(req[q].body.chains)
      /\ \A m, k \in req[q].made : m.chain = k.chain => m = k
      /\ Len(req[q].body.chains) > 0
  BY DEF IInv, Progress, Before, Deploying, Valid
<1>4. \A m \in req[q].made : row(m) \in Account
  BY <1>2 DEF ReqState, Account
<1>5. \A m \in req[q].made :
         /\ row(m).by = q /\ row(m).chain = m.chain /\ row(m).address = m.address
         /\ row(m).signers = ToSet(req[q].body.signers)
         /\ row(m).threshold = req[q].body.threshold
  OBVIOUS
<1> HIDE DEF row
<1>6. ToSet(req[q].body.chains) # {}
  <2>1. req[q].body.chains[1] \in ToSet(req[q].body.chains)
    BY <1>2, <1>3 DEF ToSet
  <2> QED
    BY <2>1
<1>7. {a.chain : a \in Rows(q)} = ChainsMade(q)
  BY <1>1, <1>5 DEF ChainsMade
<1>8. \A m \in req[q].made : m.chain \in EvmChain => NamesWalletOf(row(m), q)
  BY <1>5 DEF IInv, MadeOnEvm, NamesWalletOf
<1> QED
  BY <1>1, <1>3, <1>4, <1>5, <1>6, <1>7, <1>8

LEMMA SaveKeeps ==
  ASSUME IInv, NEW q \in Request, Save(q)
  PROVE  IInv'
<1>1. CASE ~ NoConflict(q)
  BY <1>1, EndStep DEF Save, After
<1>2. CASE NoConflict(q)
  <2> USE DEF IInv
  <2>1. /\ req[q].pc = "saving"
        /\ accounts' = accounts \cup Rows(q)
        /\ users' = users \cup req[q].missing
        /\ req' = [req EXCEPT ![q] = Ended("saved", req[q].body)]
        /\ UNCHANGED <<pool, wallets, logins>>
    BY <1>2 DEF Save, End
  <2>2. req[q] \in ReqState /\ Ended("saved", req[q].body) \in ReqState
    BY BodyTyped DEF Ended, ReqState, Working
  <2>3. /\ req'[q] = Ended("saved", req[q].body)
        /\ \A p \in Request \ {q} : req'[p] = req[p]
    BY <2>1 DEF TypeOK
  <2>4. /\ req'[q].pc = "saved" /\ req'[q].made = {} /\ req'[q].body = req[q].body
        /\ \A p \in Request : req'[p].body = req[p].body
    BY <2>3 DEF Ended
  <2>5. TypeOK'
    BY <2>1, <2>2, RowsOfSaving DEF TypeOK, ReqState
  <2>6. \A a \in accounts : a.by \in Request /\ a.by # q
    BY <2>1 DEF AccountsAsAsked, TypeOK, Account, After
  <2>7. ASSUME NEW p \in Request
        PROVE  Progress(p)' /\ MadeOnEvm(p)' /\ AllOrNone(p)'
    <3>1. CASE p = q
      <4>1. Progress(p)' /\ MadeOnEvm(p)'
        BY <2>4, <3>1 DEF Progress, MadeOnEvm, Before, Deploying
      <4>2. ChainsWithAccount(q)' = {a.chain : a \in Rows(q)}
        BY <2>1, <2>6, RowsOfSaving DEF ChainsWithAccount
      <4>3. ToSet(req[q].body.chains)' = ToSet(req[q].body.chains)
        <5>1. req'[q].body.chains = req[q].body.chains
          BY <2>4
        <5> QED
          BY <5>1 DEF ToSet
      <4>4. ChainsWithAccount(q)' = ToSet(req[q].body.chains) /\ ChainsWithAccount(q)' # {}
        BY <2>1, <4>2, RowsOfSaving
      <4>5. AllOrNone(q)'
        BY <4>3, <4>4 DEF AllOrNone
      <4> QED
        BY <3>1, <4>1, <4>5
    <3>2. CASE p # q
      <4>1. req'[p] = req[p] /\ wallets' = wallets
        BY <2>1, <2>3, <3>2
      <4>2. Progress(p)' /\ MadeOnEvm(p)'
        BY <4>1 DEF Progress, MadeOnEvm, ChainsMade, NamesWalletOf
      <4>3. ChainsWithAccount(p)' = ChainsWithAccount(p)
        BY <2>1, <3>2, RowsOfSaving DEF ChainsWithAccount
      <4>4. AllOrNone(p)'
        BY <4>1, <4>3 DEF AllOrNone
      <4> QED
        BY <4>2, <4>4
    <3> QED
      BY <3>1, <3>2
  <2>8. WalletsAsAsked'
    <3> SUFFICES ASSUME NEW c \in Chain, NEW n \in DOMAIN wallets[c]
                 PROVE  /\ wallets[c][n].signers = req'[wallets[c][n].by].body.signers
                        /\ wallets[c][n].threshold = req'[wallets[c][n].by].body.threshold
      BY <2>1 DEF WalletsAsAsked
    <3>1. wallets[c][n] \in Wallet
      BY DEF TypeOK
    <3> QED
      BY <2>4, <3>1 DEF WalletsAsAsked, Wallet
  <2>9. AccountsAsAsked'
    <3>1. ASSUME NEW a \in accounts
          PROVE  req'[a.by] = req[a.by]
      BY <2>3, <2>6
    <3>2. \A a \in Rows(q) :
             /\ req'[a.by].pc \in After
             /\ Valid(req'[a.by].body) /\ IsInjective(req'[a.by].body.signers)
             /\ a.signers = ToSet(req'[a.by].body.signers)
             /\ a.threshold = req'[a.by].body.threshold
             /\ a.chain \in EvmChain => NamesWalletOf(a, a.by)
      BY <1>2, <2>1, <2>4, RowsOfSaving DEF NoConflict, Progress, Before, After
    <3> QED
      BY <2>1, <3>1, <3>2 DEF AccountsAsAsked, NamesWalletOf
  <2> QED
    BY <2>5, <2>7, <2>8, <2>9
<1> QED
  BY <1>1, <1>2

----------------------------------------------------------------------------

LEMMA StepKeeps ==
  ASSUME IInv, [Next]_vars
  PROVE  IInv'
<1>1. CASE UNCHANGED vars
  <2>1. TypeOK'
    BY <1>1 DEF vars, IInv, TypeOK
  <2> QED
    BY <1>1, <2>1, OtherStep DEF vars
<1>2. CASE Next
  BY <1>2, ReceiveKeeps, SimulateKeeps, SendKeeps, ReceiptKeeps, FindUsersKeeps, SaveKeeps,
     AnswerKeeps, FailKeeps, MineKeeps, RevertKeeps, LoginKeeps DEF Next
<1> QED
  BY <1>1, <1>2

\* The inductive invariant holds in every reachable state, with any number of requests
\* deploying, failing and writing their rows at once.
THEOREM InductiveInvariant == Spec => []IInv
  BY InitIInv, StepKeeps, PTL DEF Spec

\* Requests, wallets and rows keep their types.
THEOREM TypeCorrect == Spec => []TypeOK
<1>1. IInv => TypeOK
  BY DEF IInv
<1> QED
  BY <1>1, InductiveInvariant, PTL

\* On an EVM chain every account is the wallet that was deployed for it.
THEOREM AccountsAreTheirWallets == Spec => []AccountsMirrorWallets
<1>1. ASSUME IInv PROVE AccountsMirrorWallets
  <2> SUFFICES ASSUME NEW a \in accounts, a.chain \in EvmChain
               PROVE  /\ a.address.n \in DOMAIN wallets[a.chain]
                      /\ WalletOf(a).by = a.by /\ WalletOf(a).threshold = a.threshold
                      /\ ToSet(WalletOf(a).signers) = a.signers
    BY DEF AccountsMirrorWallets
  <2>1. a.address.n \in DOMAIN wallets[a.chain] /\ WalletOf(a).by = a.by
    BY <1>1 DEF IInv, AccountsAsAsked, NamesWalletOf, WalletOf
  <2> QED
    BY <1>1, <2>1 DEF IInv, AccountsAsAsked, WalletsAsAsked, WalletOf, Chain
<1> QED
  BY <1>1, InductiveInvariant, PTL

\* Every account on an EVM chain can reach its threshold: a list with a repeated
\* signer becomes a wallet, never an account.
THEOREM AccountsCanAct == Spec => []AccountsOperable
<1>1. ASSUME IInv PROVE AccountsOperable
  <2> SUFFICES ASSUME NEW a \in accounts, a.chain \in EvmChain
               PROVE  /\ IsInjective(WalletOf(a).signers)
                      /\ a.threshold <= Cardinality(a.signers)
    BY DEF AccountsOperable
  <2>1. /\ IsInjective(req[a.by].body.signers) /\ Valid(req[a.by].body)
        /\ a.signers = ToSet(req[a.by].body.signers)
        /\ a.threshold = req[a.by].body.threshold
    BY <1>1 DEF IInv, AccountsAsAsked
  <2>2. /\ a.address.n \in DOMAIN wallets[a.chain] /\ WalletOf(a).by = a.by
        /\ WalletOf(a).signers = req[a.by].body.signers
    BY <1>1 DEF IInv, AccountsAsAsked, NamesWalletOf, WalletOf, WalletsAsAsked, Chain
  <2>3. a.by \in Request
    BY <1>1 DEF IInv, TypeOK, Account
  <2>4. req[a.by].body.signers \in Seq(Commitment)
    BY <1>1, <2>3, BodyTyped DEF IInv
  <2>5. Cardinality(a.signers) = Len(req[a.by].body.signers)
    BY <2>1, <2>4, CardinalityOfInjective
  <2> QED
    BY <2>1, <2>2, <2>5 DEF Valid
<1> QED
  BY <1>1, InductiveInvariant, PTL

\* A batch has all its accounts or none, whichever of its steps fails.
THEOREM BatchIsAllOrNone == Spec => []AllChainsOrNone
<1>1. IInv => AllChainsOrNone
  BY DEF IInv, AllOrNone, ChainsWithAccount, AllChainsOrNone
<1> QED
  BY <1>1, InductiveInvariant, PTL

----------------------------------------------------------------------------
(* Stylus chains: the address was simulated before the deployment. *)

\* Nothing of q's is on chain c, nor on its way there.
Untouched(q, c) ==
    /\ q \notin ToSet(pool[c])
    /\ \A n \in DOMAIN wallets[c] : wallets[c][n].by # q

\* A request has touched none of the chains it has left but the one it waits for.
LeftUntouched(q) ==
    /\ req[q].pc = "new" => \A c \in Chain : Untouched(q, c)
    /\ req[q].pc \in Deploying =>
           \A c \in ToSet(req[q].left) :
               c # Head(req[q].left) \/ req[q].pc # "waiting" => Untouched(q, c)

\* The simulated address is taken or the next to be, and the request's own wallet
\* does not come before it.
SimulatedFirst(q) ==
    LET c == Head(req[q].left)
    IN  req[q].pc \in {"simulated", "waiting"} /\ c \in StylusChain =>
            /\ req[q].simulated <= Len(wallets[c]) + 1
            /\ \A n \in DOMAIN wallets[c] : wallets[c][n].by = q => n >= req[q].simulated

\* There is a wallet at the address of m, and q has one there or later.
HoldsAWallet(m, q) ==
    /\ m.address.n \in DOMAIN wallets[m.chain]
    /\ \E n \in DOMAIN wallets[m.chain] : n >= m.address.n /\ wallets[m.chain][n].by = q

MadeOnStylus(q) == \A m \in req[q].made : m.chain \in StylusChain => HoldsAWallet(m, q)

RowsOnStylus == \A a \in accounts : a.chain \in StylusChain => HoldsAWallet(a, a.by)

StylusOrder(q) == LeftUntouched(q) /\ SimulatedFirst(q) /\ MadeOnStylus(q)

StylusInv == RowsOnStylus /\ \A q \in Request : StylusOrder(q)

LEMMA InitStylusInv == Init => StylusInv
<1> SUFFICES ASSUME Init PROVE StylusInv
  OBVIOUS
<1>1. /\ \A c \in Chain : wallets[c] = << >> /\ pool[c] = << >>
      /\ accounts = {}
      /\ \A q \in Request : req[q].pc = "new" /\ req[q].made = {}
  BY DEF Init, Ended
<1>2. \A q \in Request, c \in Chain : Untouched(q, c)
  BY <1>1 DEF Untouched, ToSet
<1> QED
  BY <1>1, <1>2 DEF StylusInv, RowsOnStylus, StylusOrder, LeftUntouched, SimulatedFirst,
                    MadeOnStylus, Deploying

\* The wallets of a chain keep their places and new ones come after them.
Grown(c) ==
    /\ Len(wallets[c]) <= Len(wallets'[c])
    /\ \A n \in DOMAIN wallets[c] : wallets'[c][n] = wallets[c][n]

LEMMA WalletPlaces ==
  ASSUME NEW w \in [Chain -> Seq(Wallet)], NEW c \in Chain
  PROVE  Len(w[c]) \in Nat /\ DOMAIN w[c] = 1 .. Len(w[c])
<1>1. w[c] \in Seq(Wallet)
  OBVIOUS
<1> QED
  BY <1>1

\* What a request holds is not lost as long as the wallets grow.
LEMMA HeldIsKept ==
  ASSUME TypeOK, TypeOK', NEW q, NEW m, m.chain \in StylusChain, Grown(m.chain),
         HoldsAWallet(m, q)
  PROVE  HoldsAWallet(m, q)'
<1>1. m.chain \in Chain
  BY DEF Chain
<1>2. DOMAIN wallets[m.chain] \subseteq DOMAIN wallets'[m.chain]
  BY <1>1, WalletPlaces DEF Grown, TypeOK
<1> QED
  BY <1>2 DEF HoldsAWallet, Grown

\* A request that does not move, and that the step brings nothing to a chain it has
\* left untouched.
LEMMA StandsStill ==
  ASSUME IInv, IInv', NEW q \in Request, StylusOrder(q), req'[q] = req[q],
         \A c \in Chain : Grown(c) /\ (Untouched(q, c) => Untouched(q, c)')
  PROVE  StylusOrder(q)'
<1> USE DEF IInv
<1>1. req[q] \in ReqState
  BY BodyTyped
<1>2. LeftUntouched(q)'
  <2>1. ToSet(req[q].left) \subseteq Chain
    BY <1>1 DEF ReqState, ToSet
  <2> QED
    BY <2>1 DEF StylusOrder, LeftUntouched
<1>3. SimulatedFirst(q)'
  <2> DEFINE c == Head(req[q].left)
  <2> SUFFICES ASSUME req[q].pc \in {"simulated", "waiting"}, c \in StylusChain
               PROVE  /\ req[q].simulated <= Len(wallets'[c]) + 1
                      /\ \A n \in DOMAIN wallets'[c] :
                             wallets'[c][n].by = q => n >= req[q].simulated
    BY DEF SimulatedFirst
  <2>1. /\ req[q].simulated <= Len(wallets[c]) + 1 /\ req[q].simulated \in Nat
        /\ \A n \in DOMAIN wallets[c] : wallets[c][n].by = q => n >= req[q].simulated
    BY <1>1 DEF StylusOrder, SimulatedFirst, ReqState
  <2>2. c \in Chain /\ Grown(c)
    BY DEF Chain
  <2> HIDE DEF c
  <2>3. /\ Len(wallets[c]) \in Nat /\ DOMAIN wallets[c] = 1 .. Len(wallets[c])
        /\ Len(wallets'[c]) \in Nat /\ DOMAIN wallets'[c] = 1 .. Len(wallets'[c])
    BY <2>2, WalletPlaces DEF TypeOK
  <2> QED
    BY <2>1, <2>2, <2>3 DEF Grown
<1>4. MadeOnStylus(q)'
  <2> SUFFICES ASSUME NEW m \in req[q].made, m.chain \in StylusChain
               PROVE  HoldsAWallet(m, q)'
    BY DEF MadeOnStylus
  <2>1. HoldsAWallet(m, q) /\ Grown(m.chain)
    BY DEF StylusOrder, MadeOnStylus, Chain
  <2> QED
    BY <2>1, HeldIsKept
<1> QED
  BY <1>2, <1>3, <1>4 DEF StylusOrder

\* A step of request q that adds to the tables of accounts and to the pools what is q's.
LEMMA OneMoves ==
  ASSUME IInv, IInv', StylusInv, NEW q \in Request, wallets' = wallets,
         \A p \in Request \ {q} : req'[p] = req[p],
         \A c \in Chain : ToSet(pool[c])' \subseteq ToSet(pool[c]) \cup {q},
         \A a \in accounts' \ accounts : a.chain \in StylusChain => HoldsAWallet(a, a.by),
         StylusOrder(q)'
  PROVE  StylusInv'
<1>1. \A c \in Chain : Grown(c)
  BY WalletPlaces DEF Grown, IInv, TypeOK
<1>2. \A p \in Request \ {q} : StylusOrder(p)'
  BY <1>1, StandsStill DEF StylusInv, Untouched
<1>3. RowsOnStylus'
  BY DEF StylusInv, RowsOnStylus, HoldsAWallet
<1> QED
  BY <1>2, <1>3 DEF StylusInv

LEMMA ReceiveStylus ==
  ASSUME IInv, IInv', StylusInv, NEW q \in Request, Receive(q)
  PROVE  StylusInv'
<1>1. req[q] \in ReqState /\ ToSet(req[q].body.chains) \subseteq Chain
  <2>1. req[q] \in ReqState /\ req[q].body.chains \in Seq(Chain)
    BY BodyTyped DEF IInv
  <2> QED
    BY <2>1 DEF ToSet
<1>2. /\ req[q].pc = "new" /\ UNCHANGED <<pool, wallets, accounts>>
      /\ \A p \in Request \ {q} : req'[p] = req[p]
      /\ \/ req'[q] = Ended("refused", req[q].body)
         \/ req'[q] = [req[q] EXCEPT !.pc = "deploying", !.left = req[q].body.chains]
  BY DEF Receive, End, IInv, TypeOK
<1>3. /\ \A c \in Chain : Untouched(q, c)'
      /\ req[q].made = {}
  BY <1>2 DEF StylusInv, StylusOrder, LeftUntouched, Untouched, IInv, Progress
<1>4. /\ req'[q].pc \in {"refused", "deploying"} /\ req'[q].made = {}
      /\ req'[q].pc = "deploying" => ToSet(req'[q].left) \subseteq Chain
  <2>1. CASE req'[q] = Ended("refused", req[q].body)
    BY <2>1 DEF Ended
  <2>2. CASE req'[q] = [req[q] EXCEPT !.pc = "deploying", !.left = req[q].body.chains]
    BY <1>1, <1>3, <2>2 DEF ReqState
  <2> QED
    BY <1>2, <2>1, <2>2
<1>5. StylusOrder(q)'
  BY <1>3, <1>4 DEF StylusOrder, LeftUntouched, SimulatedFirst, MadeOnStylus, Deploying
<1> QED
  BY <1>2, <1>5, OneMoves

LEMMA SimulateStylus ==
  ASSUME IInv, IInv', StylusInv, NEW q \in Request, Simulate(q)
  PROVE  StylusInv'
<1> DEFINE c == Head(req[q].left)
           r == [req[q] EXCEPT !.pc = "simulated", !.simulated = Len(wallets[c]) + 1]
<1>1. /\ req[q].pc = "deploying" /\ c \in StylusChain /\ c \in Chain
      /\ UNCHANGED <<pool, wallets, accounts>>
      /\ req'[q] = r
      /\ \A p \in Request \ {q} : req'[p] = req[p]
  BY DEF Simulate, IInv, TypeOK, Chain
<1>2. req[q] \in ReqState
  BY BodyTyped DEF IInv
<1>3. /\ r.pc = "simulated" /\ r.left = req[q].left /\ r.made = req[q].made
      /\ r.simulated = Len(wallets[c]) + 1
  BY <1>2 DEF ReqState
<1>4. c \in ToSet(req[q].left)
  BY <1>1, <1>2, TailOfInjective DEF IInv, Progress, Before, Deploying, ReqState
<1> HIDE DEF r
<1>5. LeftUntouched(q)'
  BY <1>1, <1>3 DEF StylusInv, StylusOrder, LeftUntouched, Deploying, Untouched
<1>6. SimulatedFirst(q)'
  <2>1. \A n \in DOMAIN wallets[c] : wallets[c][n].by # q
    BY <1>1, <1>4 DEF StylusInv, StylusOrder, LeftUntouched, Deploying, Untouched
  <2>2. Len(wallets[c]) \in Nat
    BY <1>1, WalletPlaces DEF IInv, TypeOK
  <2> QED
    BY <1>1, <1>3, <2>1, <2>2 DEF SimulatedFirst
<1>7. MadeOnStylus(q)'
  BY <1>1, <1>3 DEF StylusInv, StylusOrder, MadeOnStylus, HoldsAWallet
<1>8. StylusOrder(q)'
  BY <1>5, <1>6, <1>7 DEF StylusOrder
<1> QED
  BY <1>1, <1>8, OneMoves

LEMMA AppendMembers ==
  ASSUME NEW S, NEW s \in Seq(S), NEW x \in S
  PROVE  ToSet(Append(s, x)) = ToSet(s) \cup {x}
<1>1. /\ DOMAIN s = 1 .. Len(s) /\ Len(s) \in Nat
      /\ DOMAIN Append(s, x) = 1 .. Len(s) + 1
      /\ \A i \in DOMAIN s : Append(s, x)[i] = s[i]
      /\ Append(s, x)[Len(s) + 1] = x
  BY AppendKeepsPlaces
<1>2. ToSet(Append(s, x)) \subseteq ToSet(s) \cup {x}
  <2> SUFFICES ASSUME NEW i \in 1 .. Len(s) + 1 PROVE Append(s, x)[i] \in ToSet(s) \cup {x}
    BY <1>1 DEF ToSet
  <2> QED
    BY <1>1 DEF ToSet
<1>3. x \in ToSet(Append(s, x)) /\ ToSet(s) \subseteq ToSet(Append(s, x))
  BY <1>1 DEF ToSet
<1> QED
  BY <1>2, <1>3

LEMMA TailMembers ==
  ASSUME NEW S, NEW s \in Seq(S), s # << >>
  PROVE  Head(s) \in ToSet(s) /\ ToSet(Tail(s)) \subseteq ToSet(s)
<1>1. /\ Len(s) \in Nat \ {0} /\ DOMAIN s = 1 .. Len(s) /\ Head(s) = s[1]
      /\ DOMAIN Tail(s) = 1 .. Len(s) - 1
      /\ \A i \in 1 .. Len(s) - 1 : Tail(s)[i] = s[i + 1]
  OBVIOUS
<1> QED
  BY <1>1 DEF ToSet

LEMMA SendStylus ==
  ASSUME IInv, IInv', StylusInv, NEW q \in Request, Send(q)
  PROVE  StylusInv'
<1> DEFINE c == Head(req[q].left)
           r == [req[q] EXCEPT !.pc = "waiting"]
<1>1. /\ req[q].pc \in {"deploying", "simulated"}
      /\ req[q].pc = "deploying" => c \in EvmChain
      /\ pool' = [pool EXCEPT ![c] = Append(@, q)]
      /\ UNCHANGED <<wallets, accounts>>
      /\ req'[q] = r
      /\ \A p \in Request \ {q} : req'[p] = req[p]
  BY DEF Send, Move, IInv, TypeOK
<1>2. req[q] \in ReqState
  BY BodyTyped DEF IInv
<1>3. r.pc = "waiting" /\ r.left = req[q].left /\ r.made = req[q].made
      /\ r.simulated = req[q].simulated
  BY <1>2 DEF ReqState
<1>4. c \in Chain
  BY <1>1, <1>2, TailOfInjective DEF IInv, Progress, Before, Deploying, ReqState
<1> HIDE DEF r, c
<1>5. /\ \A d \in Chain : ToSet(pool[d])' \subseteq ToSet(pool[d]) \cup {q}
      /\ \A d \in Chain \ {c} : pool'[d] = pool[d]
  <2>1. \A d \in Chain \ {c} : pool'[d] = pool[d]
    BY <1>1 DEF IInv, TypeOK
  <2>2. pool[c] \in Seq(Request) /\ pool'[c] = Append(pool[c], q)
    BY <1>1, <1>4 DEF IInv, TypeOK
  <2>3. ToSet(pool'[c]) \subseteq ToSet(pool[c]) \cup {q}
    BY <2>2, AppendMembers
  <2>4. \A d \in Chain : ToSet(pool[d])' = ToSet(pool'[d])
    BY DEF ToSet
  <2> QED
    BY <2>1, <2>3, <2>4
<1>6. LeftUntouched(q)'
  <2> SUFFICES ASSUME NEW d \in ToSet(req[q].left), d # c
               PROVE  Untouched(q, d)'
    BY <1>1, <1>3 DEF LeftUntouched, c, Deploying, ToSet
  <2>1. Untouched(q, d)
    BY <1>1 DEF StylusInv, StylusOrder, LeftUntouched, Deploying, c
  <2>2. d \in Chain
    BY <1>2 DEF ReqState, ToSet
  <2> QED
    BY <1>1, <1>5, <2>1, <2>2 DEF Untouched, ToSet
<1>7. SimulatedFirst(q)'
  BY <1>1, <1>3, ChainsDisjoint DEF StylusInv, StylusOrder, SimulatedFirst, c
<1>8. MadeOnStylus(q)'
  BY <1>1, <1>3 DEF StylusInv, StylusOrder, MadeOnStylus, HoldsAWallet
<1>9. StylusOrder(q)'
  BY <1>6, <1>7, <1>8 DEF StylusOrder
<1> QED
  BY <1>1, <1>5, <1>9, OneMoves

LEMMA ReceiptStylus ==
  ASSUME IInv, IInv', StylusInv, NEW q \in Request, Receipt(q)
  PROVE  StylusInv'
<1> DEFINE c == Head(req[q].left)
<1>1. PICK n \in DOMAIN wallets[c] :
         /\ wallets[c][n].by = q
         /\ Deployed(q, IF c \in StylusChain THEN req[q].simulated ELSE n)
  BY SMTT(30) DEF Receipt
<1> DEFINE k == IF c \in StylusChain THEN req[q].simulated ELSE n
           m == [chain |-> c, address |-> AddressOf(c, k)]
           pc == IF Len(req[q].left) = 1 THEN "finding" ELSE "deploying"
           r == [req[q] EXCEPT !.pc = pc, !.left = Tail(@), !.made = @ \cup {m}]
<1>2. /\ req[q].pc = "waiting"
      /\ UNCHANGED <<pool, wallets, accounts>>
      /\ req'[q] = r
      /\ \A p \in Request \ {q} : req'[p] = req[p]
  BY <1>1 DEF Receipt, Deployed, IInv, TypeOK
<1>3. req[q] \in ReqState
  BY BodyTyped DEF IInv
<1>4. r.pc \in {"finding", "deploying"} /\ r.left = Tail(req[q].left)
      /\ r.made = req[q].made \cup {m}
  BY <1>3 DEF ReqState
<1>5. c \in Chain /\ ToSet(Tail(req[q].left)) = ToSet(req[q].left) \ {c}
  BY <1>2, <1>3, TailOfInjective DEF IInv, Progress, Before, Deploying, ReqState
<1>6. c \in StylusChain => HoldsAWallet(m, q)
  <2> SUFFICES ASSUME c \in StylusChain PROVE HoldsAWallet(m, q)
    OBVIOUS
  <2>1. m.chain = c /\ m.address.n = req[q].simulated
    BY DEF AddressOf
  <2>2. /\ n >= req[q].simulated /\ req[q].simulated \in Nat /\ req[q].simulated # 0
        /\ Len(wallets[c]) \in Nat /\ DOMAIN wallets[c] = 1 .. Len(wallets[c])
    BY <1>1, <1>2, <1>3, <1>5, WalletPlaces
       DEF StylusInv, StylusOrder, SimulatedFirst, IInv, TypeOK, Progress, ReqState
  <2> HIDE DEF m, c
  <2> QED
    BY <1>1, <2>1, <2>2 DEF HoldsAWallet
<1>7. m.chain = c
  OBVIOUS
<1> HIDE DEF r, c, m
<1>8. LeftUntouched(q)'
  <2>1. /\ req'[q].pc \in {"finding", "deploying"}
        /\ ToSet(req[q].left)' = ToSet(req[q].left) \ {c}
    BY <1>2, <1>4, <1>5 DEF ToSet
  <2>2. \A d \in ToSet(req[q].left) \ {c} : Untouched(q, d)
    BY <1>2 DEF StylusInv, StylusOrder, LeftUntouched, Deploying, c
  <2> QED
    BY <1>2, <2>1, <2>2 DEF LeftUntouched, Untouched, ToSet
<1>9. SimulatedFirst(q)'
  BY <1>2, <1>4 DEF SimulatedFirst
<1>10. MadeOnStylus(q)'
  BY <1>2, <1>4, <1>6, <1>7 DEF StylusInv, StylusOrder, MadeOnStylus, HoldsAWallet
<1>11. StylusOrder(q)'
  BY <1>8, <1>9, <1>10 DEF StylusOrder
<1> QED
  BY <1>2, <1>11, OneMoves

\* A request that is over, or only its rows away from it, owes nothing more to a chain.
LEMMA LateMoves ==
  ASSUME IInv, IInv', StylusInv, NEW q \in Request, UNCHANGED <<pool, wallets>>,
         \A p \in Request \ {q} : req'[p] = req[p],
         req'[q].pc \notin Deploying \cup {"new"},
         req'[q].made \subseteq req[q].made,
         \A a \in accounts' \ accounts : a.chain \in StylusChain => HoldsAWallet(a, a.by)
  PROVE  StylusInv'
<1>1. MadeOnStylus(q)'
  BY DEF StylusInv, StylusOrder, MadeOnStylus, HoldsAWallet
<1>2. StylusOrder(q)'
  BY <1>1 DEF StylusOrder, LeftUntouched, SimulatedFirst, Deploying
<1> QED
  BY <1>2, OneMoves

LEMMA FindUsersStylus ==
  ASSUME IInv, IInv', StylusInv, NEW q \in Request, FindUsers(q)
  PROVE  StylusInv'
<1>1. req[q] \in ReqState
  BY BodyTyped DEF IInv
<1>2. /\ req'[q].pc = "saving" /\ req'[q].made = req[q].made
      /\ \A p \in Request \ {q} : req'[p] = req[p]
      /\ UNCHANGED <<pool, wallets, accounts>>
  BY <1>1 DEF FindUsers, IInv, TypeOK, ReqState
<1> QED
  BY <1>2, LateMoves DEF Deploying

LEMMA EndStylus ==
  ASSUME IInv, IInv', StylusInv, NEW q \in Request, Answer(q) \/ Fail(q)
  PROVE  StylusInv'
<1>1. PICK pc \in {"ok", "failed"} :
          req' = [req EXCEPT ![q] = Ended(pc, req[q].body)]
          /\ UNCHANGED <<pool, wallets, accounts>>
  BY DEF Answer, Fail, End
<1>2. req'[q] = Ended(pc, req[q].body) /\ \A p \in Request \ {q} : req'[p] = req[p]
  BY <1>1 DEF IInv, TypeOK
<1>3. req'[q].pc = pc /\ req'[q].made = {}
  BY <1>2 DEF Ended
<1> QED
  BY <1>1, <1>2, <1>3, LateMoves DEF Deploying

LEMMA SaveStylus ==
  ASSUME IInv, IInv', StylusInv, NEW q \in Request, Save(q)
  PROVE  StylusInv'
<1>1. PICK pc \in {"saved", "failed"} : req' = [req EXCEPT ![q] = Ended(pc, req[q].body)]
  BY DEF Save, End
<1>2. req'[q] = Ended(pc, req[q].body) /\ \A p \in Request \ {q} : req'[p] = req[p]
  BY <1>1 DEF IInv, TypeOK
<1>3. req'[q].pc = pc /\ req'[q].made = {}
  BY <1>2 DEF Ended
<1>4. accounts' \subseteq accounts \cup Rows(q) /\ UNCHANGED <<pool, wallets>>
  BY DEF Save
<1>5. \A a \in Rows(q) : a.chain \in StylusChain => HoldsAWallet(a, a.by)
  <2> SUFFICES ASSUME NEW m \in req[q].made,
                      NEW a, a = [by |-> q, chain |-> m.chain, address |-> m.address,
                                  signers |-> ToSet(req[q].body.signers),
                                  threshold |-> req[q].body.threshold],
                      a.chain \in StylusChain
               PROVE  HoldsAWallet(a, a.by)
    BY DEF Rows
  <2>1. a.by = q /\ a.chain = m.chain /\ a.address = m.address
    OBVIOUS
  <2>2. HoldsAWallet(m, q)
    BY <2>1 DEF StylusInv, StylusOrder, MadeOnStylus
  <2> QED
    BY <2>1, <2>2 DEF HoldsAWallet
<1> QED
  BY <1>2, <1>3, <1>4, <1>5, LateMoves DEF Deploying

\* The steps that leave requests and accounts alone, when no request is brought to a
\* chain it has left untouched.
LEMMA ChainsMove ==
  ASSUME IInv, IInv', StylusInv, UNCHANGED <<accounts, req>>,
         \A c \in Chain : /\ Grown(c)
                          /\ \A q \in Request : Untouched(q, c) => Untouched(q, c)'
  PROVE  StylusInv'
<1>1. \A q \in Request : StylusOrder(q)'
  BY StandsStill DEF StylusInv
<1>2. RowsOnStylus'
  <2> SUFFICES ASSUME NEW a \in accounts, a.chain \in StylusChain
               PROVE  HoldsAWallet(a, a.by)'
    BY DEF RowsOnStylus
  <2>1. HoldsAWallet(a, a.by) /\ Grown(a.chain)
    BY DEF StylusInv, RowsOnStylus, Chain
  <2> QED
    BY <2>1, HeldIsKept DEF IInv
<1> QED
  BY <1>1, <1>2 DEF StylusInv

LEMMA MineStylus ==
  ASSUME IInv, IInv', StylusInv, NEW c \in Chain, Mine(c)
  PROVE  StylusInv'
<1> DEFINE q == Head(pool[c])
           w == [by |-> q, signers |-> req[q].body.signers, threshold |-> req[q].body.threshold]
<1>1. /\ pool[c] # << >> /\ pool[c] \in Seq(Request) /\ wallets[c] \in Seq(Wallet)
      /\ wallets'[c] = Append(wallets[c], w) /\ pool'[c] = Tail(pool[c])
      /\ \A d \in Chain \ {c} : wallets'[d] = wallets[d] /\ pool'[d] = pool[d]
      /\ UNCHANGED <<accounts, req>>
  BY DEF Mine, IInv, TypeOK
<1>2. q \in ToSet(pool[c]) /\ ToSet(Tail(pool[c])) \subseteq ToSet(pool[c])
  BY <1>1, TailMembers
<1>3. q \in Request
  BY <1>1
<1>4. w \in Wallet /\ w.by = q
  BY <1>3, BodyTyped DEF IInv, Wallet
<1> HIDE DEF w, q
<1>5. /\ DOMAIN wallets[c] = 1 .. Len(wallets[c]) /\ Len(wallets[c]) \in Nat
      /\ DOMAIN wallets'[c] = 1 .. Len(wallets[c]) + 1
      /\ \A n \in DOMAIN wallets[c] : wallets'[c][n] = wallets[c][n]
      /\ wallets'[c][Len(wallets[c]) + 1] = w
  BY <1>1, <1>4, AppendKeepsPlaces
<1>6. Len(wallets'[c]) = Len(wallets[c]) + 1
  BY <1>1, <1>4
<1>7. \A d \in Chain : Grown(d)
  <2>1. Grown(c)
    BY <1>5, <1>6 DEF Grown
  <2>2. \A d \in Chain \ {c} : Grown(d)
    BY <1>1, WalletPlaces DEF Grown, IInv, TypeOK
  <2> QED
    BY <2>1, <2>2
<1>8. ASSUME NEW p \in Request, NEW d \in Chain, Untouched(p, d)
      PROVE  Untouched(p, d)'
  <2>1. CASE d # c
    BY <1>1, <1>8, <2>1 DEF Untouched, ToSet
  <2>2. CASE d = c
    <3>1. p # q /\ p \notin ToSet(pool'[c])
      BY <1>1, <1>2, <1>8, <2>2 DEF Untouched
    <3>2. \A n \in DOMAIN wallets'[c] : wallets'[c][n].by # p
      BY <1>4, <1>5, <1>8, <2>2, <3>1 DEF Untouched
    <3>3. ToSet(pool[c])' = ToSet(pool'[c])
      BY DEF ToSet
    <3> QED
      BY <2>2, <3>1, <3>2, <3>3 DEF Untouched
  <2> QED
    BY <2>1, <2>2
<1> QED
  BY <1>1, <1>7, <1>8, ChainsMove

LEMMA RevertStylus ==
  ASSUME IInv, IInv', StylusInv, NEW c \in Chain, Revert(c)
  PROVE  StylusInv'
<1>1. /\ pool[c] # << >> /\ pool[c] \in Seq(Request) /\ pool'[c] = Tail(pool[c])
      /\ \A d \in Chain \ {c} : pool'[d] = pool[d]
      /\ UNCHANGED <<wallets, accounts, req>>
  BY DEF Revert, IInv, TypeOK
<1>2. \A d \in Chain : Grown(d)
  BY <1>1, WalletPlaces DEF Grown, IInv, TypeOK
<1>3. \A d \in Chain : ToSet(pool[d])' \subseteq ToSet(pool[d])
  <2>1. ToSet(Tail(pool[c])) \subseteq ToSet(pool[c])
    BY <1>1, TailMembers
  <2> QED
    BY <1>1, <2>1 DEF ToSet
<1>4. \A d \in Chain, p \in Request : Untouched(p, d) => Untouched(p, d)'
  BY <1>1, <1>3 DEF Untouched
<1> QED
  BY <1>1, <1>2, <1>4, ChainsMove

LEMMA OtherStylus ==
  ASSUME IInv, IInv', StylusInv, UNCHANGED <<pool, wallets, accounts, req>>
  PROVE  StylusInv'
<1>1. \A c \in Chain : Grown(c)
  BY WalletPlaces DEF Grown, IInv, TypeOK
<1> QED
  BY <1>1, ChainsMove DEF Untouched

LEMMA StepStylus ==
  ASSUME IInv, IInv', StylusInv, [Next]_vars
  PROVE  StylusInv'
<1>1. CASE UNCHANGED vars
  BY <1>1, OtherStylus DEF vars
<1>2. ASSUME NEW u \in Commitment, LoginFindsNone(u) \/ LoginCreates(u)
      PROVE  StylusInv'
  BY <1>2, OtherStylus DEF LoginFindsNone, LoginCreates
<1> QED
  BY <1>1, <1>2, ReceiveStylus, SimulateStylus, SendStylus, ReceiptStylus, FindUsersStylus,
     SaveStylus, EndStylus, MineStylus, RevertStylus DEF Next

\* At the address of an account on a Stylus chain there is a wallet, which may be
\* another's that was made between the simulation and the deployment, but never a later
\* one than the account's own.
THEOREM StylusAddressesAreTaken == Spec => []StylusRowsHoldAWallet
<1>1. Spec => []StylusInv
  BY InductiveInvariant, InitStylusInv, StepStylus, PTL DEF Spec
<1>2. StylusInv => StylusRowsHoldAWallet
  BY DEF StylusInv, RowsOnStylus, HoldsAWallet, StylusRowsHoldAWallet
<1> QED
  BY <1>1, <1>2, PTL
=============================================================================
