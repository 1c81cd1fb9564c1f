# PolyPay in TLA+

PolyPay is a multisig wallet whose signers stay private: a signer is a
commitment, an approval is a zero-knowledge proof that zkVerify aggregates, and
a backend collects the approvals and submits the wallet's calls through a
relayer. This directory specifies the parts of it where ordering, concurrency
and failure decide whether money moves as the signers agreed: the wallet
contract and its port to Stylus, the life of a transaction in the backend, the
creation of a transaction, the creation of accounts and the deposits made to
them. Paths below are relative to the repository's root.

## The system

| Component | State | Operations | Talks to |
|---|---|---|---|
| Wallet contract, `packages/hardhat/contracts/MetaMultiSigWallet.sol` | threshold, array of commitments, used nonces, used nullifiers, balances | `constructor`, `execute`, `addSigners`, `removeSigners`, `updateSignaturesRequired`, `batchTransfer`, `batchTransferMulti`, `receive` | zkVerify's aggregation contract, tokens, itself |
| Circuit, `packages/nextjs/public/circuit/src/main.nr` | none | proves knowledge of a secret and a signature; binds commitment, nullifier and transaction hash | wallet, through aggregated leaves |
| Transaction service, `packages/backend/src/transaction/transaction.service.ts` | rows of transactions, votes, nonce reservations | `reserveNonce`, `createTransaction`, `approve`, `deny`, `checkIfFailed` | zkVerify client, batch items |
| Executor, `transaction-executor.service.ts` | status, hash, signers, thresholds and votes in the database; the running call's memory | `executeOnChain`, `aggregateProofs`, `markExecuted`, `conditionalRevertToPending` | zkVerify client, relayer |
| Reconciler, `transaction-reconciler.scheduler.ts` | a listing while it runs | a pass every two hours | chain, executor |
| Relayer, `relayer-wallet.service.ts` | one funded key per chain | deployments, `executeTransaction` | chains |
| zkVerify client, `zkverify.service.ts` | a file cache of verification keys | submit and wait, job status, key registration | zkVerify's HTTP API |
| Accounts, `account.service.ts` | accounts, signers, users | `create`, `createBatch`, `update` of a name | relayer |
| x402 deposits, `x402.service.ts` | deposit rows | `processDeposit` | facilitators, token contract |
| Users, auth, `auth.service.ts`, `jwt.strategy.ts` | users | login, which creates a user that is missing | zkVerify client |
| Rewards, quests, partners (commented out in `app.module.ts`) | claim and point rows, prices | claim, transfer with retries, award | token contract |
| Contacts, batch items, notifications, admin, events | rows | CRUD | |
| Stylus wallet and factories, `packages/stylus*` | as the contract, and an `initialized` flag | as the contract, `create_wallet` | |
| Deposit agent, `usdc-deposit-agent` | none | one signed deposit under a policy | x402 |
| Frontend, `packages/nextjs` | caches | reserves, proves, votes, executes | backend, chain |

What is hard about it:

* every backend handler awaits databases, chains and zkVerify (up to minutes)
  between reading a row and writing it, and any handler, a second copy of the
  same one included, may run in the gaps;
* the chain and the database are two records of one fact, and the process can
  stop between writing one and the other;
* a call sent to a node may execute although the answer is lost;
* governance changes alter who may approve and how many must, while approvals
  of other transactions are under way;
* reservations expire while the work they cover is still running;
* wallets are deployed before the database transaction that records them, which
  can fail, and on Stylus chains their address is simulated beforehand;
* a facilitator may move USDC long after the service has recorded a failure;
* an address may name two accounts, one on each of two chains.

What makes each part correct:

* wallet: nothing happens without the threshold of distinct current signers,
  nothing twice, and the signers can always reach the threshold;
* execution: the chain executes a transaction at most once, the row says
  EXECUTED only then and then for good, and no row is stuck;
* voting: denials that make a transaction impossible and proofs that execute it
  exclude each other;
* creation: one row for each nonce, one row for each batch item;
* accounts: an account is the wallet that was deployed for it, with the signers
  and threshold it records, and a batch has all its accounts or none;
* deposits: a row says SETTLED only for USDC that has moved, what has moved has
  a row, and it is in a wallet, of the chain it moved on, whose signers can spend
  it;
* Stylus wallet: it accepts and does what the Solidity wallet does (it does,
  payments to itself apart).

## Modules

| Module | What it is |
|---|---|
| `WalletOps` | the wallet's storage as a record, each contract function as an acceptance test and an effect; constant level, shared by the next two |
| `MultisigWallet` | one deployed wallet, the aggregated leaves and the log of executed calls |
| `Multisig` | what a multisig promises: signers, threshold, approvals, ledger |
| `TxExecution` | voting, execution calls, relayer, chain and reconciler, over any number of accounts and rows |
| `TxCreation` | reservations, creation and batch items of one account |
| `StylusWallet` | the Rust port behind its proxy, as an implementation of `MultisigWallet` |
| `AccountCreation` | requests that create accounts, the relayer's deployments, logins, the User and Account tables |
| `Deposits` | x402 deposits, facilitators and the USDC contracts, over a given Account table |
| `Onboarding` | `AccountCreation` and `Deposits` side by side in one backend |
| `MC...` | instances for TLC, one per specification |
| `WalletOpsProofs`, `MultisigWalletProofs`, `TxExecutionProofs` | lemmas about the operators; theorems about the wallet; theorems about execution |
| `AccountCreationProofs`, `DepositsProofs`, `OnboardingProofs` | theorems about accounts; about deposits over any Account table; about both together |
| `TxCreationProofs` | theorems about the creation of transactions |
| `StylusWalletProofs` | theorems about the port, with the lemmas about its loops |

`MultisigWallet` and `TxExecution` share `WalletOps`: the wallets that the
executor's calls reach are the wallets the theorems are about. `TxCreation`
ends where `TxExecution`'s `Create` begins; its constants assume the uniqueness
of nonces that `TxCreation` checks. `AccountCreation` ends where `TxExecution`
begins: `AccountsMirrorWallets` is the agreement of signers and thresholds
between database and chain that `TxExecution` starts from. `Onboarding` gives
`Deposits` the Account table of `AccountCreation`; each step is a step of one of
the two.

Operators named `..._Bug` are deliberately wrong variants of the definition
after them. Each is put in the place of that definition to see that the
property named in its comment notices; no specification uses them.

### The wallet

A call that reverts changes nothing, so a failing call is a stuttering step and
`Execute` is the succeeding call. The order of the `commitments` array is
abstracted to the number of entries of each commitment and the length: the swap
and pop of `removeSigners` only changes the order, and nothing reads it. A
transaction hash is the transaction and a nullifier is the pair of commitment
and transaction (hashes do not collide); the zero commitment, which every
function rejects, is not among the commitments. All paying calls are one kind
with a total for each asset, since one failing payment reverts the whole call.
A value call to the wallet's own address, which a native transfer to that address
becomes (`transaction-executor.service.ts:450-454`), is a kind of its own,
`selfTransfer`: `receive` takes it and nothing moves. A batch or a token payment
to the wallet itself is not modelled: the recipients of a "transfer" are others.
A callee that calls `execute` again is covered: `execute` marks nullifiers and
nonce before its external call and changes nothing after it, so the nested call
is the same as one that follows. What a recipient may do to make a payment fail
is a call that is not taken.

### Execution

Each action of `TxExecution` ends at an await of the code. `status`, `txHash`,
`threshold`, `vote` and `dbSigners` are the database; `wallet`, `pool` and
`result` the chains; `ballot`, `caller` and `recon` the memory of running
handlers, which a crash of the process loses (`AbandonBallot`, `Crash`,
`EndPass`, one handler at a time, so a crash of all is several steps). The
database transaction of `markExecuted` is one step. A poll that finds nothing
changes nothing. The gas estimate is a simulation against the chain's state, so
`SendCall` requires that the call would succeed; by the time it is mined it may
not. The relayer's calls on one chain are mined in the order they were sent, as
its account nonce demands. A row counts as stale (30 minutes without an update)
when no call is between reading it and saving a hash: 60 polls 10 seconds apart
and a 40-second wait end well before, unless the job-status requests
themselves keep timing out.

### Creation

A reservation's expiry is an action that may come at any time. Rows that an
open database transaction holds are locked, and statements on them wait. The
deletions of the batch items run outside it, concurrently, and go on when it
fails.

### The Stylus wallet

A function of the port is the set of storages it may leave: one, or none when it
returns an error, which undoes the whole call. `Loop` is a Rust loop that
returns at the first error: the storages after each turn, as a function of the
number of turns. The commitments are a sequence here, with the swap and pop of
`remove_signers_internal`; `SolidityOf` counts its entries and is the refinement
mapping to `MultisigWallet`. A clone is made without funds. Fields that no
function changes after `init` (verifier, Poseidon contract, chain) are left out,
and so is the decoding of call data: a call to the wallet itself is the kind that
its selector names. `CreateWallet` is the factory's clone and `init` in one
transaction; a later `init` is the same action, which `initialized` refuses. The
bytes of selectors and arguments are not modelled, so a wrong selector in the
port's table would not be seen.

The contracts differ in one call. A `selfTransfer` runs `receive` in Solidity,
and is refused by the port (`lib.rs:183-188` and `446`), although
`packages/stylus/src/lib.rs:5` speaks of byte-for-byte compatible behaviour. The
backend submits such calls, as the transfer form accepts the wallet's own address;
on a Stylus chain they never succeed. `SameButSelfTransfers` states this difference
and that no call fares differently otherwise.

### Accounts

`req` is the memory of the requests: `create` is a batch of one chain. An address
is the deployer and the number of the contract among those it made on a chain,
so the relayer, which is one deployer on all EVM chains, makes equal addresses on
two chains (`packages/backend/prisma/schema.prisma:40-43`); a Stylus chain has
its own factory. The relayer's transactions on one chain are mined in the order
sent (`pool`); one that the node refuses for its nonce is `Fail`, as is every
error, a receipt that does not come and a crash. Nothing undoes a deployment,
so a request that fails leaves its wallets, and its transactions still waiting
are mined. An EVM deployment does not revert once mined, since its constructor was
run by the estimate of its gas and reads nothing that changes; `createWallet` on
a Stylus chain may. The database transaction is two steps, the lookup of the
users and the rest, which is atomic and fails on a unique index. `LoginFindsNone`
and `LoginCreates` are the two statements of a login, between which other users
may be created; a login that loses this race is the same as one that finds the
user.

### Deposits

`dep` is the memory of the requests. A payment is posted to the path of an
address; it names a network and a payee, and both are whatever the payer chose
(`Validate` takes any authorization and any path). `Validate` merges the lookup of
the account (by its address alone, so the row found may be that of another chain),
the gate and the checks of the payload (`Matches`) and the two checks of the nonce
(`NonceUnused`): what may happen between them only makes a request fail that would
fail later, or leaves the request where a later `Create` refuses it. `usdc` is what
facilitators have had executed; `spent`, the nonces that payers used elsewhere or
cancelled. Amount, time and signature are taken to be right: a payment that fails
these checks goes no further. The count of the rate limit and the creation of the
row are two steps. Verify, settle and the updates are the same on both
facilitators. A facilitator submits at any time after it was asked to
(`Settle`), and may have answered before or after, or never. `Settled` is its
answer and the update to SETTLED; `Failed` is the catch block, which is entered
by a refusal, a lost answer, and a failing update too. `Crash` is also a failing
update to FAILED. `racing` is not in the program: a row remembers the other
requests that had counted when it was made, for `OverrunOnlyByRaces`.

## Runs

| Run | Shows |
|---|---|
| `wallet_distinct` | all safety properties of a wallet deployed with distinct signers, that governance repeats none, and that it implements `Multisig` |
| `exec_races` | two execution calls, three approvers, two deniers and the pass on one two-of-three payment; what is recorded as executed is reopened only where the calls meet |
| `exec_recovery` | one call for each of two governance transactions, crashing anywhere; liveness and the signer table |
| `creation` | two creations, expiring reservations, shared batch items |
| `stylus` | but for payments to itself, the port accepts the calls the Solidity contract accepts, and it does the same, deployed with distinct or repeated signers; it executes with a quorum only |
| `onboarding` | two requests for accounts on three chains, first logins, two deposits; failures, crashes, deployments mined in every order, late facilitators, payments for another chain or payee than the path's |
| `exec_final_concurrent` | violated: a second call overwrites EXECUTED |
| `exec_cross_chain` | violated: a removal on one chain deletes votes on another chain's account |
| `exec_stale_reset` | violated: a stale row that the pass resets had been executed |
| `creation_items` | violated: batch items deleted, no row created |
| `stylus_address` | violated: an account on a Stylus chain at the wallet of another request |
| `deposit_refused` | violated: a deposit to an account is refused because another chain's account has its address |

The six violations are disagreements between a comment and the code; the
`findings` of `PROJECT.json` quote both. Of `exec_final_concurrent`: the window
is one database round trip of the second call, and TLC's trace fits the first
call's whole life into it. What the code does ensure is `ReopenedOnlyByRaces`: an
EXECUTED row leaves that status only by a second request that had read it as
PENDING, or by the pass acting on what it had listed before the other request
succeeded (a reverted hash in `ReconcileReverted`, a stale row in
`ResetStaleRow`). The last of these needs a third request, which starts after the
pass has looked; TLC's instance has two, the theorem any number.

### Bounds

* wallet: three commitments, so that a threshold of two, an addition, a removal
  and a removal of two can all happen; six transactions, three pairs of which
  compete for a nonce; lists of at most two proofs, the largest threshold
  reachable; five aggregated leaves, which are enough for two executed
  two-signer transactions and a spare; balances up to 2. `MaxProofs`,
  `MaxLeaves` and `MaxBalance` only cut behaviours; the theorems do not use
  them as such.
* execution: `Call` and `MaxCallsPerTx` bound the number of execution requests.
  Two calls per row give every race of two; `exec_recovery` allows one call per
  row, which is what its liveness properties and `ExecutedIsFinal` are about: with
  two, the races above defeat them.
* Stylus: seven transactions on three nonces, of every kind; four leaves are two
  executions by two signers.
* onboarding: two requests and two logins, two deposits, two nonces. Four bodies:
  a batch over an EVM and a Stylus chain, an account on a chain without
  deposits (whose address the first may share), a list that repeats a signer,
  and a list without its creator. `X402Chain` is one chain, so that an account
  on each side of the gate exists, with one address; payments and paths name the
  first address of the relayer or of the Stylus factory (`Payee`), and any chain.
  `RateLimit` is 1 instead of 30, so that two deposits can overrun it. The theorems
  have none of these bounds.
* creation: two clients, two items, three reservations: one expires, its nonce
  is reused, one more is pending.

`CHECK_DEADLOCK FALSE` everywhere: the bounded systems may stop, when every
transaction is executed or every bound is reached.

### Fairness

`TxExecution` assumes that a running call takes its next step or ends (each
await of the code resolves, rejects or times out, or the process ends), that
blocks are produced, and that the scheduled pass runs again and again and is
not cut short at the same row for ever (strong fairness on the pass's steps: it
runs every two hours, and an error on one row is caught and retried by the next
pass). Users need never act.

## Proofs

Every safety property and every action property that a passing run checks,
`ExecutedIsFinal` apart, is also a theorem, for every value of the constants. The
assumptions of each module are the types of its constants; a theorem that needs
more says so in its statement, and the need is explained below. TLC also checked
the inductive invariants, on the instances of the runs.

### The wallet

`MultisigWalletProofs` proves, for all commitments, assets, transactions,
deployments and bounds:

* `TypeCorrect`: types, in particular that balances and copies stay natural
  numbers;
* `InductiveInvariant`: `Spec => []IInv`;
* `ThresholdStaysBounded`, `QuorumHolds`, `NoReplay`, `ApprovalsNotConsumed`:
  four invariants of `wallet_distinct`, by `IInv`;
* `OnlyDeploymentRepeats`: `RepetitionsNeverGrow`, whatever the deployment;
* `StaysOperable`: `Operable`, if no deployment repeats a commitment
  (`DeployedDistinct`);
* `GovernanceNeedsOldQuorum`, `FundsLeaveByTransfer`: the other action properties;
* `RefinesMultisig`: the wallet implements `Multisig`, under `DeployedDistinct`.

`IInv` adds to the properties two facts they rest on: a leaf's nullifier is the
nullifier of its commitment and transaction (`CircuitSound`; without it two
proofs of one signer could carry different nullifiers and `QuorumOfSigners`
would not follow from the nullifier check), and the contract's map of nonces is
the set of logged nonces (`NoncesLogged`). The argument for the quorum is
`AcceptedDistinct`: proofs with pairwise different nullifiers, each bound to
the same transaction, come from pairwise different commitments, so the number of
approvers is the number of proofs. `WalletOpsProofs` holds what each contract
function does to each field, so that the invariants' steps expand no more of
the wallet than they need.

The entries are counted as pairs of a commitment and a number
(`EntriesOf`), which turns a sum over a function into the cardinality of a set:
an addition adds the pairs of its list, a removal takes one pair for each of its
list. That the length is the number of these entries is a lemma (`AlwaysCounted`)
which relates the two fields the model keeps for one array. With
`DeployedDistinct` no commitment ever has two copies, so the entries
are as many as the signers. Without it `Operable` is false (the contract does
not look for duplicates when it is deployed); `AccountsAreTheirWallets` and `AccountsCanAct` show that no
account is ever recorded for such a wallet on an EVM chain. The refinement needs
it for the same reason: the abstract threshold is bounded by distinct signers.

### Execution

`TxExecutionProofs` proves, for all accounts, chains, rows, voters, contract
calls and execution requests:

* `TypeCorrect`: types, in particular that the pass looks up receipts of hashes
  only and that every contract a block changes stays well formed;
* `ExecutedWasOnChain` and `ExecutesAtMostOnce`: `ExecutedOnChain` and
  `SucceedsOnce`, with any number of calls racing for a row, on any number of
  chains;
* `DenialsAreNotCounted`: `DeniersNotCounted`, under `DeniersStay`;
* `FailedIsNotExecuted`: `FailedNeverExecutes`, under `OnlyTransfers`;
* `SignersAgree`: `SignersMirrorChain`, under `DistinctlyDeployed` and
  `Commuting`;
* `ReopenedOnlyWhereRequestsMeet`: `ReopenedOnlyByRaces`, with no hypothesis: any
  number of requests for a row, whatever governance and denials do.

The first two properties are not inductive: that a row is marked
only after its own call succeeded rests on the hashes that rows and the pass
hold being those of calls submitted for that row (`HashesAreOfSent`,
`ListedAreOfSent`), on `MinedSucceeded`, and on receipts never being replaced,
for which a submitted call must be in one pool, once, without a receipt
(`PoolHoldsSent`, `ReceiptsAreOfSent`). A second success is impossible because
the first spent the row's nonce in the contract (`SuccessSpentNonce`). One
`...Effect` lemma for each party says what its steps do to the variables that
the invariant reads, and the step lemmas cite those instead of the actions.

Votes rest on `LifeInv`: a row that does not exist yet has neither votes nor
calls, is created by one request, and a request that waits for zkVerify will
write the first vote of its voter. So a collected proof is of a vote that is
aggregated and stays it (`CollectedStayAggregated`). `DeniersStay`, that no
transaction removes a denier, is needed: recording a removal deletes the removed
signer's votes, and one that is added again could deny after its proof was
collected.

A failed row is one whose members who have not denied are fewer than its
threshold (`FailedAreDoomed`), an executed call had the threshold's number of
proofs of members (`SuccessHadQuorum`), and the two sets of voters do not meet.
Both count against the deployed members and threshold (`AsDeployed`), hence
`OnlyTransfers`. It is not a convenience: TLC shows that governance defeats the
property. A payment is mined with one proof and its answer is lost, so that its
row is PENDING; a recorded `updateSignaturesRequired` to two then raises that
row's threshold, and a denial marks the executed payment FAILED.

For the signers, the contract has the deployed signers, those that successful
transactions added, and not those they removed (`ContractSigners`); the table
has no addition or removal that did not succeed (`TableNotAhead`) and has those
of every row that says EXECUTED (`TableNotBehind`). `DistinctlyDeployed`: a
removal takes one of two equal entries from the contract, and the member from
the table. `Commuting`, that no transaction adds whom another removes: the pass
may record two transactions in another order than they were mined in.

`ReopenedOnlyWhereRequestsMeet` follows the rows that one request has alone
(`Alone`). Its invariant `FinalInv` says of each such row: a call that waits for a
receipt has its hash in the row if the row says EXECUTING (`WaitingHashSaved`), an
EXECUTING row has a call (`ExecutingHasCall`), so a row that the pass found stale
has one that is over (`StaleHaveEnded`). A row that says EXECUTED was executed by a
call that succeeded, by `IInv`; a step that opens it again is then either that
call's own, which these facts exclude, or another's, which is what the property
says. A denial is left out of the statement: that governance lets it mark an
executed payment FAILED is described above.

### Accounts and deposits

`AccountCreationProofs` proves `TypeOK`, `AccountsMirrorWallets`,
`AccountsOperable`, `AllChainsOrNone` and `StylusRowsHoldAWallet` for all chains,
requests and bodies, from the types of the constants and the disjointness of EVM
and Stylus chains. The strengthening follows a request from its validation to
its rows: the chains it has deployed on and those it has left are disjoint and
together those it asked for, one deployment each (`Progress`); what it holds for
an EVM chain names a wallet of its own (`MadeOnEvm`), which has the signers and
the threshold of its body (`WalletsAsAsked`), as its rows have
(`AccountsAsAsked`). That a repeated signer never becomes an account is the
unique index on user and account, and `CardinalityOfInjective` turns it into
enough signers for the threshold. On Stylus chains (`StylusInv`) the address
that the simulation named is taken or the next to be, and a request has no wallet
before it (`SimulatedFirst`): whichever deployments are mined in between, its own
comes at that address or later, and by then the address is taken.

`DepositsProofs` proves `SettledIsPaid`, `PaidHasRow` and `OverrunOnlyByRaces` for
every behaviour of the Account table, with no assumption about what is in it. A
request has its row, for its own authorization, from the
creation on (`RowsOfRequests`), and a facilitator is asked for what has a row and
moves what it was asked for (`AskedHaveRows`). For the rate limit, a request that
has counted and has no row yet races with all but fewer than `RateLimit` of the
recent rows of its account, and of every set of such rows one, that made last,
raced with all but `RateLimit` (`RaceInv`, `HasLast`); which one was the last is
not in the table, so the invariant speaks of every set.

`OnboardingProofs` shows that the composition implements both parts
(`AccountsRefined`, `DepositsRefined`) and so has the deposits' theorems of the
composition. Neither part alone can state `PaidIsOperable`. Its proof shows that
what has passed `Matches` is to the address of an account on the authorization's own
chain (`PaidToAccounts`), which is where the gate and the comparison of networks
are needed, that accounts stay (`AccountsStay`), and then cites the accounts'
theorems.

### Creation

`TxCreationProofs` proves `TypeOK`, `NonceInOneRow` and `ItemInOneRow` for any
number of clients and items and any `MaxReservations`. The nonce a client reads
is one above the greatest in use, which exists because every nonce is below the
number of reservations made (`NoncesBounded`, `MaxOfBounded`). Between the
creation of a row and its commit the unique index keeps its nonce from every
other row and every other writer (`ClearingAlone`); an item is in the table, in
one row, or deleted for one row that is being written (`ItemsOnce`).

### The Stylus wallet

`StylusWalletProofs` proves, with no assumption but the types of the constants:

* `TypeCorrect` and `NeverOpen` (`ThresholdReachable`), for which the invariant
  adds that the proxy is deployed exactly when it is initialised
  (`InitialisedOnce`);
* `AcceptsAllButSelfTransfers` (`SameButSelfTransfers`): the same calls succeed,
  those to itself apart, with lists of any length and storages with repeated
  commitments;
* `PortRefinesContract` (`MatchesSolidity`): step by step, the port does what the
  contract does;
* `QuorumHolds` (`QuorumOfSigners`): what it executes had its quorum, whatever list it
  was initialised with. The lemma on distinct approvers, `AcceptedDistinct`, is the
  contract's (`WalletOpsProofs`).

Solidity's functions are stated at once, for the whole list, and the port's turn
by turn, so each loop has a lemma that says what it leaves after any number of
turns (`PushedList`, `PoppedList`, `CheckedList`), by induction on that number.
The turn of a removal is `SwapOccurrences`: overwriting the first entry equal to
`c` by the last one and dropping the last takes one occurrence of `c` and none of
any other, the case that the two are one entry included. The call lemmas
(`SameAdd`, `SameRemove`, `SameUpdate`, `SamePay`) then put the acceptance tests
side by side, and `SameProofs` shows that marking nullifiers one by one accepts
exactly the lists without repetition.

### Model-checked only

* liveness: `NeverStuckExecuting` and `SavedSuccessIsRecorded`
  (fairness and ENABLED are out of the prover's reach);
* `ExecutedIsFinal`, of one request for each row, whose theorem is the statement
  for any number, `ReopenedOnlyByRaces`; it is false with two requests, as
  `FailedNeverExecutes` and `SignersMirrorChain` are with the hypotheses above
  left out;
* the properties of the six runs that expect a violation.

## Not modelled, and the plan

Not modelled, because none of it runs: rewards, quests and partners, whose
modules `packages/backend/src/app.module.ts` comments out (lines 19-23 and
50-52). Not modelled, because no property of state could go wrong there:
encodings of call data and Merkle paths, gas and fees, the HTTP surface, tokens'
internals, events, read-only queries, the update of an account's name, contacts,
notifications, admin, feature requests, documentation pages, the one-shot
deposit agent, React views. The file of verification keys is read, removed and
written between awaits only, and a request that finds it gone registers again.

Most lines of the repository are of these kinds, or generated (contract ABIs in
`packages/nextjs/contracts` and `packages/shared/src/contracts`) or vendored
(`.yarn`); the modules here cover the services and contracts that keep state
which others rely on, and little of the rest could be mapped to a definition
that stands for it.

Next, in this order:

1. Signers and thresholds in `TxExecution` with governance transactions that do
   not commute: what the table says until the last of them is recorded.
2. The weaker statement that governance leaves of `FailedNeverExecutes`: a row
   marked FAILED after its execution was PENDING when a threshold was raised.
3. Liveness for approvals whose signers are removed.
