----------------------------- MODULE Onboarding -----------------------------
(***************************************************************************)
(* Accounts and the deposits made to them, side by side in one backend:    *)
(* deposits read the Account table that the creation of accounts writes.   *)
(***************************************************************************)
EXTENDS AccountCreation

CONSTANTS Deposit, Nonce, X402Chain, Payee, RateLimit

ASSUME X402ChainType == X402Chain \subseteq Chain
ASSUME RateLimitType == RateLimit \in Nat

VARIABLES deposits, asked, usdc, spent, dep

Deposits == INSTANCE Deposits

OnboardingInit == Init /\ Deposits!Init

OnboardingNext ==
    \/ Next /\ UNCHANGED <<deposits, asked, usdc, spent, dep>>
    \/ Deposits!Next /\ UNCHANGED vars

OnboardingSpec == OnboardingInit /\ [][OnboardingNext]_<<vars, deposits, asked, usdc, spent, dep>>

\* USDC that a facilitator has moved for the service, whatever chain and payee the
\* posted payment named, is at the address of an account on that very chain, where a
\* wallet has been deployed; on an EVM chain the one deployed for the account, with
\* its signers, enough of them to vote it out again.
PaidIsOperable ==
    \A x \in usdc :
        \E a \in accounts :
            /\ a.chain = x.chain /\ a.address = x.address
            /\ a.address.n \in DOMAIN wallets[a.chain]
            /\ a.chain \in EvmChain =>
                   /\ WalletOf(a).by = a.by /\ ToSet(WalletOf(a).signers) = a.signers
                   /\ WalletOf(a).threshold <= Cardinality(a.signers)

\* What Deposits promises holds beside the creation of accounts. A deposit is
\* reported settled only when a facilitator moved its USDC to the row's address.
SettledIsPaid == Deposits!SettledIsPaid

\* A payment a facilitator made can be found by its row, even when its answer was
\* lost or it came after the service gave up.
PaidHasRow == Deposits!PaidHasRow

\* The rate limit of an account is overrun only by requests that counted together.
OverrunOnlyByRaces == Deposits!OverrunOnlyByRaces

\* A payment to an account on a supported chain is not refused for its account.
SupportedAccountsArePaid == Deposits!SupportedAccountsArePaid
=============================================================================
