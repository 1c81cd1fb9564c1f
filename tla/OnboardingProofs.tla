-------------------------- MODULE OnboardingProofs --------------------------
(* Accounts and deposits together: the theorems of each hold of both, and   *)
(* USDC only reaches wallets whose signers can spend it.                    *)
EXTENDS Onboarding, AccountCreationProofs

DepositTheorems == INSTANCE DepositsProofs

allVars == <<vars, deposits, asked, usdc, spent, dep>>

----------------------------------------------------------------------------
(* Each part takes its own steps. *)

LEMMA AccountsStep ==
  ASSUME [OnboardingNext]_allVars
  PROVE  [Next]_vars
  BY DEF OnboardingNext, allVars

\* Whatever deposits do, the accounts behave as AccountCreation says.
THEOREM AccountsRefined == OnboardingSpec => Spec
<1>1. OnboardingInit => Init
  BY DEF OnboardingInit
<1> QED
  BY <1>1, AccountsStep, PTL DEF OnboardingSpec, Spec, allVars

LEMMA DepositsStep ==
  ASSUME [OnboardingNext]_allVars
  PROVE  [Deposits!Next]_(Deposits!depositVars)
  BY DEF OnboardingNext, allVars, Deposits!depositVars

\* The two instances of Deposits are the same specification.
LEMMA SameStep ==
  ASSUME [Deposits!Next]_(Deposits!depositVars)
  PROVE  [DepositTheorems!Next]_(DepositTheorems!depositVars)
<1> USE DEF Deposits!Move, DepositTheorems!Move, Deposits!End, DepositTheorems!End, Deposits!AuthOf, DepositTheorems!AuthOf
<1>1. \A d : Deposits!CheckRate(d) => DepositTheorems!CheckRate(d)
  BY DEF Deposits!CheckRate, DepositTheorems!CheckRate, Deposits!RecentFor, DepositTheorems!RecentFor,
         Deposits!Cardinality, DepositTheorems!Cardinality
<1>2. \A d : Deposits!Create(d) => DepositTheorems!Create(d)
  BY DEF Deposits!Create, DepositTheorems!Create, Deposits!Row, DepositTheorems!Row
<1>3. \A d : Deposits!Verify(d) => DepositTheorems!Verify(d)
  BY DEF Deposits!Verify, DepositTheorems!Verify
<1>4. \A d : Deposits!Settled(d) => DepositTheorems!Settled(d)
  BY DEF Deposits!Settled, DepositTheorems!Settled, Deposits!SetStatus, DepositTheorems!SetStatus, Deposits!Answered, DepositTheorems!Answered
<1>5. \A d : Deposits!Failed(d) => DepositTheorems!Failed(d)
  BY DEF Deposits!Failed, DepositTheorems!Failed, Deposits!SetStatus, DepositTheorems!SetStatus, Deposits!Recorded, DepositTheorems!Recorded
<1>6. \A d : Deposits!Crash(d) => DepositTheorems!Crash(d)
  BY DEF Deposits!Crash, DepositTheorems!Crash, Deposits!Recorded, DepositTheorems!Recorded
<1>7. \A d, x, path : Deposits!Validate(d, x, path) => DepositTheorems!Validate(d, x, path)
  <2>1. \A x, a : Deposits!Matches(x, a) <=> DepositTheorems!Matches(x, a)
    BY DEF Deposits!Matches, DepositTheorems!Matches
  <2>2. \A x : Deposits!NonceUnused(x) <=> DepositTheorems!NonceUnused(x)
    BY DEF Deposits!NonceUnused, DepositTheorems!NonceUnused, Deposits!Consumed, DepositTheorems!Consumed
  <2> QED
    BY <2>1, <2>2 DEF Deposits!Validate, DepositTheorems!Validate
<1>8. \A n, c : Deposits!Spend(n, c) => DepositTheorems!Spend(n, c)
  BY DEF Deposits!Spend, DepositTheorems!Spend
<1>9. \A x : Deposits!Settle(x) => DepositTheorems!Settle(x)
  BY DEF Deposits!Settle, DepositTheorems!Settle, Deposits!Consumed, DepositTheorems!Consumed
<1>10. \A r : Deposits!Age(r) => DepositTheorems!Age(r)
  BY DEF Deposits!Age, DepositTheorems!Age
<1> QED
  BY <1>1, <1>2, <1>3, <1>4, <1>5, <1>6, <1>7, <1>8, <1>9, <1>10
     DEF Deposits!Next, DepositTheorems!Next, Deposits!depositVars, DepositTheorems!depositVars,
         Deposits!Auth, DepositTheorems!Auth

\* Whatever becomes of the accounts, the deposits behave as Deposits says.
THEOREM DepositsRefined == OnboardingSpec => DepositTheorems!Spec
<1>1. OnboardingInit => DepositTheorems!Init
  BY DEF OnboardingInit, Deposits!Init, DepositTheorems!Init
<1>2. [OnboardingNext]_allVars => [DepositTheorems!Next]_(DepositTheorems!depositVars)
  BY DepositsStep, SameStep
<1> QED
  BY <1>1, <1>2, PTL DEF OnboardingSpec, DepositTheorems!Spec, allVars

\* SETTLED is only written for a row whose authorization a facilitator has executed.
THEOREM SettledWasPaid == OnboardingSpec => []SettledIsPaid
<1>1. DepositTheorems!SettledIsPaid => SettledIsPaid
  BY DEF SettledIsPaid, Deposits!SettledIsPaid, DepositTheorems!SettledIsPaid,
         Deposits!RowFor, DepositTheorems!RowFor
<1> QED
  BY <1>1, DepositsRefined, DepositTheorems!SettledWasPaid, PTL

\* No payment of a facilitator is without its row, whatever was lost or crashed.
THEOREM PaymentsHaveRows == OnboardingSpec => []PaidHasRow
<1>1. DepositTheorems!PaidHasRow => PaidHasRow
  BY DEF PaidHasRow, Deposits!PaidHasRow, DepositTheorems!PaidHasRow,
         Deposits!RowFor, DepositTheorems!RowFor
<1> QED
  BY <1>1, DepositsRefined, DepositTheorems!PaymentsHaveRows, PTL

\* The rate limit of an account is overrun only by rows that were made in a race.
THEOREM RateLimitHolds == OnboardingSpec => []OverrunOnlyByRaces
<1>1. DepositTheorems!OverrunOnlyByRaces => OverrunOnlyByRaces
  BY DEF OverrunOnlyByRaces, Deposits!OverrunOnlyByRaces, DepositTheorems!OverrunOnlyByRaces,
         Deposits!RecentFor, DepositTheorems!RecentFor,
         Deposits!Cardinality, DepositTheorems!Cardinality
<1>2. DepositTheorems!RateLimitType
  BY RateLimitType DEF DepositTheorems!RateLimitType
<1> QED
  BY <1>1, <1>2, DepositsRefined, DepositTheorems!RateLimitHolds, PTL

----------------------------------------------------------------------------
(* USDC goes to wallets that can spend it. *)

\* The account that authorization x pays.
HasAccount(x) == \E a \in accounts : a.chain = x.chain /\ a.address = x.address

\* Whatever is on its way to an address goes to the address of an account.
PaidToAccounts ==
    /\ \A d \in Deposit : \A x \in dep[d].auth : HasAccount(x)
    /\ \A x \in asked : HasAccount(x)
    /\ \A x \in usdc : HasAccount(x)

LEMMA AccountsStay ==
  ASSUME [OnboardingNext]_allVars
  PROVE  \A x : HasAccount(x) => HasAccount(x)'
<1>1. accounts \subseteq accounts'
  BY DEF OnboardingNext, allVars, vars, Next, Receive, Simulate, Send, Mine, Revert, Receipt,
         FindUsers, Save, Answer, Fail, LoginFindsNone, LoginCreates
<1> QED
  BY <1>1 DEF HasAccount

LEMMA DepositStepPaysAccounts ==
  ASSUME PaidToAccounts, Deposits!TypeOK, Deposits!Next, UNCHANGED accounts
  PROVE  PaidToAccounts'
<1> USE DEF PaidToAccounts, HasAccount, Deposits!TypeOK
<1>1. ASSUME NEW d \in Deposit, dep[d].pc \in Deposits!Pending
      PROVE  HasAccount(Deposits!AuthOf(d))
  BY <1>1 DEF Deposits!AuthOf
<1>2. ASSUME NEW d \in Deposit, Deposits!CheckRate(d) \/ Deposits!Create(d)
      PROVE  PaidToAccounts'
  BY <1>2 DEF Deposits!CheckRate, Deposits!Create, Deposits!Move, Deposits!End
<1>3. ASSUME NEW d \in Deposit, Deposits!Verify(d)
      PROVE  PaidToAccounts'
  BY <1>1, <1>3 DEF Deposits!Verify, Deposits!Move, Deposits!Pending, Deposits!Recorded
<1>4. ASSUME NEW d \in Deposit,
             Deposits!Settled(d) \/ Deposits!Failed(d) \/ Deposits!Crash(d)
      PROVE  PaidToAccounts'
  BY <1>4 DEF Deposits!Settled, Deposits!Failed, Deposits!Crash, Deposits!End
<1>5. ASSUME NEW d \in Deposit, NEW x \in Deposits!Auth, NEW path \in Payee,
             Deposits!Validate(d, x, path)
      PROVE  PaidToAccounts'
  <2>1. /\ UNCHANGED <<asked, usdc>>
        /\ \/ dep' = [dep EXCEPT ![d] = [pc |-> "done", auth |-> {}]]
           \/ /\ dep' = [dep EXCEPT ![d] = [pc |-> "unused", auth |-> {x}]]
              /\ \E a \in accounts : Deposits!Matches(x, a)
    BY <1>5 DEF Deposits!Validate, Deposits!End
  <2>2. (\E a \in accounts : Deposits!Matches(x, a)) => HasAccount(x)
    BY DEF Deposits!Matches
  <2> QED
    BY <2>1, <2>2
<1>6. ASSUME NEW x \in asked, Deposits!Settle(x)
      PROVE  PaidToAccounts'
  BY <1>6 DEF Deposits!Settle
<1>7. ASSUME NEW n \in Nonce, NEW c \in X402Chain, Deposits!Spend(n, c)
      PROVE  PaidToAccounts'
  BY <1>7 DEF Deposits!Spend
<1>8. ASSUME NEW r \in deposits, Deposits!Age(r)
      PROVE  PaidToAccounts'
  BY <1>8 DEF Deposits!Age
<1> QED
  BY <1>2, <1>3, <1>4, <1>5, <1>6, <1>7, <1>8 DEF Deposits!Next

LEMMA StepPaysAccounts ==
  ASSUME PaidToAccounts, Deposits!TypeOK, [OnboardingNext]_allVars
  PROVE  PaidToAccounts'
<1>1. CASE UNCHANGED <<deposits, asked, usdc, spent, dep>>
  BY <1>1, AccountsStay DEF PaidToAccounts
<1>2. CASE Deposits!Next /\ UNCHANGED vars
  BY <1>2, DepositStepPaysAccounts DEF vars
<1> QED
  BY <1>1, <1>2 DEF OnboardingNext, allVars

\* USDC that a facilitator moves for the service, whatever chain and payee the payment
\* names, goes to an account's address on that chain, where a wallet is; on an EVM
\* chain one that the account's signers can spend from, however creations, deposits
\* and failures interleave.
THEOREM PaidCanBeSpent == OnboardingSpec => []PaidIsOperable
<1>1. OnboardingInit => PaidToAccounts
  BY DEF OnboardingInit, Deposits!Init, PaidToAccounts
<1>2. DepositTheorems!IInv => Deposits!TypeOK
  BY DEF DepositTheorems!IInv, DepositTheorems!TypeOK, Deposits!TypeOK,
         DepositTheorems!Auth, Deposits!Auth, DepositTheorems!Pending, Deposits!Pending,
         DepositTheorems!Recorded, Deposits!Recorded
<1>3. ASSUME PaidToAccounts, TypeOK, AccountsMirrorWallets, AccountsOperable,
             StylusRowsHoldAWallet
      PROVE  PaidIsOperable
  <2> SUFFICES ASSUME NEW x \in usdc
               PROVE  \E a \in accounts :
                         /\ a.chain = x.chain /\ a.address = x.address
                         /\ a.address.n \in DOMAIN wallets[a.chain]
                         /\ a.chain \in EvmChain =>
                                /\ WalletOf(a).by = a.by
                                /\ ToSet(WalletOf(a).signers) = a.signers
                                /\ WalletOf(a).threshold <= Cardinality(a.signers)
    BY DEF PaidIsOperable
  <2>1. PICK a \in accounts : a.chain = x.chain /\ a.address = x.address
    BY <1>3 DEF PaidToAccounts, HasAccount
  <2>2. a.chain \in EvmChain \/ a.chain \in StylusChain
    BY <1>3 DEF TypeOK, Account, Chain
  <2>3. a.address.n \in DOMAIN wallets[a.chain]
    BY <1>3, <2>2 DEF AccountsMirrorWallets, StylusRowsHoldAWallet
  <2> QED
    BY <1>3, <2>1, <2>3 DEF AccountsMirrorWallets, AccountsOperable
<1>4. OnboardingSpec => []PaidToAccounts
  <2>1. OnboardingSpec => []Deposits!TypeOK
    BY <1>2, DepositsRefined, DepositTheorems!InductiveInvariant, PTL
  <2> QED
    BY <1>1, <2>1, StepPaysAccounts, PTL DEF OnboardingSpec, allVars
<1> QED
  BY <1>3, <1>4, AccountsRefined, TypeCorrect, AccountsAreTheirWallets, AccountsCanAct,
     StylusAddressesAreTaken, PTL
=============================================================================
