----------------------------- MODULE TxExecution -----------------------------
(***************************************************************************)
(* The life of a wallet transaction in the backend: a signer creates it,   *)
(* signers approve or deny it, execution calls collect the aggregated      *)
(* proofs, submit the contract call and record its outcome, and a          *)
(* scheduled pass repairs what interrupted calls left behind.              *)
(*                                                                         *)
(* Every await of a handler separates two actions, so that any two         *)
(* handlers interleave there. A call's identity is also the hash of the    *)
(* contract call it submits: one call submits at most once.                *)
(*                                                                         *)
(* Operators named ..._Bug are wrong variants; see WalletOps.              *)
(*                                                                         *)
(* The database is status, txHash, threshold, vote and dbSigners; pool,    *)
(* result and wallet are on chain; the rest is in the backend's memory.    *)
(***************************************************************************)
EXTENDS WalletOps, SequencesExt

CONSTANTS
    Account,          \* the wallets, [address, chain]: an address may exist on two chains
    TxId,             \* rows of the transaction table
    AccountOf,        \* the account of a row
    ContractCall,     \* the (nonce, to, value, data) that a row's type and fields encode
    Deployed,         \* the wallet of each account when the model starts
    Call,             \* bound: the execution requests ever made, and their tx hashes
    MaxCallsPerTx,    \* bound: of them, for one transaction
    Approvers,        \* the signers who may create or approve
    Deniers,          \* the signers who may deny
    NoHash

ASSUME RowsExist == TxId # {}
ASSUME AccountOfType == AccountOf \in [TxId -> Account]
ASSUME ContractCallType == ContractCall \in [TxId -> Transactions]
ASSUME DeployedType == Deployed \in [Account -> WalletType]
ASSUME VotersType == Approvers \subseteq Commitment /\ Deniers \subseteq Commitment
ASSUME NoHashType == NoHash \notin Call
ASSUME CommitmentFinite == IsFiniteSet(Commitment)
\* @@unique([accountAddress, chainId, nonce]) of the transaction table
ASSUME NonceUnique ==
    \A t, u \in TxId : AccountOf[t] = AccountOf[u] /\ ContractCall[t].nonce = ContractCall[u].nonce
                       => t = u

VARIABLES
    status,     \* of each row; "ABSENT" and "PROPOSED" before the row exists
    txHash,     \* the hash a row holds, NoHash for null
    threshold,  \* the approvals a row asks for
    vote,       \* the vote table: "NONE", "DENIED", or the state of an approval's proof
    dbSigners,  \* the AccountSigner table
    ballot,     \* the approve or deny request of a voter on a row, where it has got to
    caller,     \* the execution calls: [tx, pc, need, proofs]
    recon,      \* the scheduled pass: [phase, list]
    wallet,     \* each account's contract
    pool,       \* on each chain, the relayer's submitted calls, in nonce order
    result      \* the receipt of a submitted call, or "none"

db == <<status, txHash, threshold, vote, dbSigners>>
onChain == <<wallet, pool, result>>
vars == <<db, ballot, caller, recon, onChain>>

Chain == {a.chain : a \in Account}
ChainOf(t) == AccountOf[t].chain

ProofStatus == {"PENDING", "AGGREGATED", "FAILED"}
Stages == {"idle", "read", "aggregating", "aggregated", "ready", "sent", "waiting",
           "mined", "reverting", "done"}
\* A call that holds a row as EXECUTING, or is about to, and has not saved a hash.
BeforeHash == {"read", "aggregating", "aggregated", "ready", "sent", "reverting"}

TypeOK ==
    /\ status \in [TxId -> {"ABSENT", "PROPOSED", "PENDING", "EXECUTING", "EXECUTED", "FAILED"}]
    /\ txHash \in [TxId -> Call \cup {NoHash}]
    /\ threshold \in [TxId -> Nat]
    /\ vote \in [TxId -> [Commitment -> ProofStatus \cup {"NONE", "DENIED"}]]
    /\ dbSigners \in [Account -> SUBSET Commitment]
    /\ ballot \in [TxId -> [Commitment ->
                      {"idle", "creating", "approving", "denying", "counting", "failing"}]]
    /\ caller \in [Call -> [tx : TxId, pc : Stages, need : Nat, proofs : SUBSET Commitment]]
    /\ recon \in [phase : {"idle", "hashes", "stale"}, list : SUBSET (TxId \X (Call \cup {NoHash}))]
    /\ recon.phase = "hashes" => recon.list \subseteq TxId \X Call
    /\ wallet \in [Account -> WalletType]
    /\ pool \in [Chain -> Seq(Call)]
    /\ result \in [Call -> {"none", "success", "reverted"}]

Init ==
    /\ status = [t \in TxId |-> "ABSENT"]
    /\ txHash = [t \in TxId |-> NoHash]
    /\ threshold = [t \in TxId |-> 0]
    /\ vote = [t \in TxId |-> [v \in Commitment |-> "NONE"]]
    /\ dbSigners = [a \in Account |-> Signers(Deployed[a])]
    /\ ballot = [t \in TxId |-> [v \in Commitment |-> "idle"]]
    /\ caller = [c \in Call |-> [tx |-> CHOOSE t \in TxId : TRUE, pc |-> "idle",
                                 need |-> 0, proofs |-> {}]]
    /\ recon = [phase |-> "idle", list |-> {}]
    /\ wallet = Deployed
    /\ pool = [ch \in Chain |-> << >>]
    /\ result = [c \in Call |-> "none"]

----------------------------------------------------------------------------
(* Creating, approving and denying.                                        *)

GoTo(t, v, stage) == ballot' = [ballot EXCEPT ![t][v] = stage]

\* The client reads the wallet's threshold, then sends its request, whose
\* membership check precedes the wait for zkVerify.
Propose(t, v) ==
    /\ status[t] = "ABSENT" /\ v \in dbSigners[AccountOf[t]]
    /\ status' = [status EXCEPT ![t] = "PROPOSED"]
    /\ threshold' = [threshold EXCEPT ![t] = wallet[AccountOf[t]].signaturesRequired]
    /\ GoTo(t, v, "creating")
    /\ UNCHANGED <<txHash, vote, dbSigners, caller, recon, onChain>>

Create(t, v) ==
    /\ ballot[t][v] = "creating"
    /\ status' = [status EXCEPT ![t] = "PENDING"]
    /\ vote' = [vote EXCEPT ![t][v] = "PENDING"]
    /\ GoTo(t, v, "idle")
    /\ UNCHANGED <<txHash, threshold, dbSigners, caller, recon, onChain>>

\* The test for an earlier vote is left out: breaks DeniersNotCounted.
MayVote_Bug(t, v) ==
    /\ v \in dbSigners[AccountOf[t]]
    /\ status[t] \in {"PENDING", "EXECUTING"}
    /\ ballot[t][v] = "idle"

\* The access guard and the checks that approve and deny share.
MayVote(t, v) ==
    /\ v \in dbSigners[AccountOf[t]]
    /\ status[t] \in {"PENDING", "EXECUTING"}
    /\ ballot[t][v] = "idle" /\ vote[t][v] = "NONE"

StartApprove(t, v) ==
    /\ MayVote(t, v)
    /\ GoTo(t, v, "approving")
    /\ UNCHANGED <<db, caller, recon, onChain>>

\* After the wait for zkVerify neither the status nor the membership is read again.
RecordApproval(t, v) ==
    /\ ballot[t][v] = "approving"
    /\ vote' = [vote EXCEPT ![t][v] = "PENDING"]
    /\ GoTo(t, v, "idle")
    /\ UNCHANGED <<status, txHash, threshold, dbSigners, caller, recon, onChain>>

StartDeny(t, v) ==
    /\ MayVote(t, v)
    /\ GoTo(t, v, "denying")
    /\ UNCHANGED <<db, caller, recon, onChain>>

RecordDenial(t, v) ==
    /\ ballot[t][v] = "denying"
    /\ vote' = [vote EXCEPT ![t][v] = "DENIED"]
    /\ GoTo(t, v, "counting")
    /\ UNCHANGED <<status, txHash, threshold, dbSigners, caller, recon, onChain>>

VotersOf(t) == {v \in Commitment : vote[t][v] # "NONE"}
ApprovalsOf(t) == {v \in VotersOf(t) : vote[t][v] # "DENIED"}

MaxPossibleApproves(t) ==
    Cardinality(ApprovalsOf(t)) + Cardinality(dbSigners[AccountOf[t]]) - Cardinality(VotersOf(t))

\* Exactly enough possible approvals counts as too few: breaks FailedNeverExecutes.
CountVotes_Bug(t, v) ==
    /\ ballot[t][v] = "counting"
    /\ GoTo(t, v, IF MaxPossibleApproves(t) <= threshold[t] THEN "failing" ELSE "idle")
    /\ UNCHANGED <<db, caller, recon, onChain>>

\* checkIfFailed: the read and the unconditional write are separate statements.
CountVotes(t, v) ==
    /\ ballot[t][v] = "counting"
    /\ GoTo(t, v, IF MaxPossibleApproves(t) < threshold[t] THEN "failing" ELSE "idle")
    /\ UNCHANGED <<db, caller, recon, onChain>>

WriteFailed(t, v) ==
    /\ ballot[t][v] = "failing"
    /\ status' = [status EXCEPT ![t] = "FAILED"]
    /\ GoTo(t, v, "idle")
    /\ UNCHANGED <<txHash, threshold, vote, dbSigners, caller, recon, onChain>>

\* zkVerify refuses or times out, or the process stops.
AbandonBallot(t, v) ==
    /\ ballot[t][v] # "idle"
    /\ status' = IF ballot[t][v] = "creating" THEN [status EXCEPT ![t] = "ABSENT"] ELSE status
    /\ GoTo(t, v, "idle")
    /\ UNCHANGED <<txHash, threshold, vote, dbSigners, caller, recon, onChain>>

----------------------------------------------------------------------------
(* One execution call: executeOnChain and the relayer's executeTransaction. *)

At(c, stage) == caller[c].pc = stage
Step(c, stage) == caller' = [caller EXCEPT ![c].pc = stage]
TxOf(c) == caller[c].tx
AccountOfCall(c) == AccountOf[TxOf(c)]

ReadRow(c, t) ==
    /\ At(c, "idle")
    /\ Cardinality({d \in Call : caller[d].pc # "idle" /\ TxOf(d) = t}) < MaxCallsPerTx
    /\ status[t] = "PENDING"
    /\ caller' = [caller EXCEPT ![c] = [tx |-> t, pc |-> "read",
                                        need |-> threshold[t], proofs |-> {}]]
    /\ UNCHANGED <<db, ballot, recon, onChain>>

\* The write does not repeat the test of the status.
MarkExecuting(c) ==
    /\ At(c, "read")
    /\ status' = [status EXCEPT ![TxOf(c)] = "EXECUTING"]
    /\ Step(c, "aggregating")
    /\ UNCHANGED <<txHash, threshold, vote, dbSigners, ballot, recon, onChain>>

\* One vote's job is polled: it is aggregated or it failed.
PollJob(c, v, outcome) ==
    /\ At(c, "aggregating")
    /\ vote[TxOf(c)][v] = "PENDING"
    /\ vote' = [vote EXCEPT ![TxOf(c)][v] = outcome]
    /\ UNCHANGED <<status, txHash, threshold, dbSigners, ballot, caller, recon, onChain>>

NoneStillPending(c) ==
    /\ At(c, "aggregating")
    /\ \A v \in Commitment : vote[TxOf(c)][v] # "PENDING"
    /\ Step(c, "aggregated")
    /\ UNCHANGED <<db, ballot, recon, onChain>>

\* getExecutionData: the threshold compared is the one read at the start.
CollectProofs(c) ==
    LET got == {v \in Commitment : vote[TxOf(c)][v] = "AGGREGATED"}
    IN  /\ At(c, "aggregated")
        /\ caller' = [caller EXCEPT
               ![c].pc = IF Cardinality(got) < caller[c].need THEN "reverting" ELSE "ready",
               ![c].proofs = got]
        /\ UNCHANGED <<db, ballot, recon, onChain>>

\* The proofs the contract is given, each for the row's own contract call. The
\* aggregation contract knows them all: only aggregated votes are collected.
ProofsOf(c) ==
    LET voters == SetToSeq(caller[c].proofs)
    IN  [i \in DOMAIN voters |-> [commitment |-> voters[i],
                                  nullifier |-> Nullifier(voters[i], ContractCall[TxOf(c)])]]

CircuitLeaves(tx) ==
    {[tx |-> tx, commitment |-> v, nullifier |-> Nullifier(v, tx)] : v \in Commitment}

WouldSucceed(c) ==
    ExecuteSucceeds(wallet[AccountOfCall(c)], CircuitLeaves(ContractCall[TxOf(c)]),
                    ContractCall[TxOf(c)], ProofsOf(c))

\* The gas estimate simulates the call, so a call that fails now is not sent.
SendCall(c) ==
    /\ At(c, "ready")
    /\ WouldSucceed(c)
    /\ pool' = [pool EXCEPT ![ChainOf(TxOf(c))] = Append(@, c)]
    /\ Step(c, "sent")
    /\ UNCHANGED <<db, ballot, recon, wallet, result>>

PersistHash(c) ==
    /\ At(c, "sent")
    /\ txHash' = [txHash EXCEPT ![TxOf(c)] = c]
    /\ Step(c, "waiting")
    /\ UNCHANGED <<status, threshold, vote, dbSigners, ballot, recon, onChain>>

\* The receipt is not waited for: breaks ExecutedOnChain.
ReadReceipt_Bug(c) ==
    /\ At(c, "waiting")
    /\ Step(c, IF result[c] = "reverted" THEN "reverting" ELSE "mined")
    /\ UNCHANGED <<db, ballot, recon, onChain>>

ReadReceipt(c) ==
    /\ At(c, "waiting")
    /\ result[c] # "none"
    /\ Step(c, IF result[c] = "success" THEN "mined" ELSE "reverting")
    /\ UNCHANGED <<db, ballot, recon, onChain>>

Listed(t) == Range(ContractCall[t].list)

\* Removals are not mirrored: breaks SignersMirrorChain.
SignersAfter_Bug(t, people) ==
    IF ContractCall[t].kind = "addSigners" THEN people \cup Listed(t) ELSE people

SignersAfter(t, people) ==
    CASE ContractCall[t].kind = "addSigners"    -> people \cup Listed(t)
      [] ContractCall[t].kind = "removeSigners" -> people \ Listed(t)
      [] OTHER                                  -> people

\* One database transaction. It selects the rows to change by the account's
\* address and their status, not by the chain.
RecordExecution(t, hash) ==
    LET pending(u) == /\ status[u] = "PENDING"
                      /\ AccountOf[u].address = AccountOf[t].address
        kind == ContractCall[t].kind
    IN  /\ status' = [status EXCEPT ![t] = "EXECUTED"]
        /\ txHash' = [txHash EXCEPT ![t] = hash]
        /\ dbSigners' = [dbSigners EXCEPT ![AccountOf[t]] = SignersAfter(t, @)]
        /\ vote' = [u \in TxId |-> [v \in Commitment |->
               IF kind = "removeSigners" /\ v \in Listed(t) /\ pending(u)
               THEN "NONE" ELSE vote[u][v]]]
        /\ threshold' = [u \in TxId |->
               IF kind \in GovernanceKinds /\ u # t /\ pending(u)
               THEN ContractCall[t].newSig ELSE threshold[u]]

MarkExecuted(c) ==
    /\ At(c, "mined")
    /\ RecordExecution(TxOf(c), c)
    /\ Step(c, "done")
    /\ UNCHANGED <<ballot, recon, onChain>>

\* A receipt that does not come is taken for a failure: breaks SavedSuccessIsRecorded.
FailBeforeHash_Bug(c) ==
    /\ caller[c].pc \in {"aggregating", "aggregated", "ready", "sent", "waiting"}
    /\ Step(c, "reverting")
    /\ UNCHANGED <<db, ballot, recon, onChain>>

\* An error before the hash is known, the loss of the answer to a submitted
\* call included, leads to the catch block's revert.
FailBeforeHash(c) ==
    /\ caller[c].pc \in {"aggregating", "aggregated", "ready", "sent"}
    /\ Step(c, "reverting")
    /\ UNCHANGED <<db, ballot, recon, onChain>>

ConditionalRevertToPending(c) ==
    /\ At(c, "reverting")
    /\ IF status[TxOf(c)] = "EXECUTING"
       THEN /\ status' = [status EXCEPT ![TxOf(c)] = "PENDING"]
            /\ txHash' = [txHash EXCEPT ![TxOf(c)] = NoHash]
       ELSE UNCHANGED <<status, txHash>>
    /\ Step(c, "done")
    /\ UNCHANGED <<threshold, vote, dbSigners, ballot, recon, onChain>>

\* The process stops, or an error after the hash is known ends the call.
Crash(c) ==
    /\ caller[c].pc \notin {"idle", "done"}
    /\ Step(c, "done")
    /\ UNCHANGED <<db, ballot, recon, onChain>>

----------------------------------------------------------------------------
(* The chain: a block includes the first call of a pool.                   *)

Mine(ch) ==
    LET c == Head(pool[ch])
        a == AccountOfCall(c)
    IN  /\ pool[ch] # << >>
        /\ pool' = [pool EXCEPT ![ch] = Tail(@)]
        /\ IF WouldSucceed(c)
           THEN /\ wallet' = [wallet EXCEPT ![a] =
                                 AfterExecute(@, ContractCall[TxOf(c)], ProofsOf(c))]
                /\ result' = [result EXCEPT ![c] = "success"]
           ELSE /\ result' = [result EXCEPT ![c] = "reverted"]
                /\ UNCHANGED wallet
        /\ UNCHANGED <<db, ballot, caller, recon>>

----------------------------------------------------------------------------
(* The scheduled pass: first the rows with a hash, then the stale ones.    *)

\* Only rows back at PENDING are listed: breaks NeverStuckExecuting.
ListRowsWithHash_Bug ==
    /\ recon.phase = "idle"
    /\ recon' = [phase |-> "hashes",
                 list |-> {<<t, txHash[t]>> : t \in {u \in TxId :
                              txHash[u] # NoHash /\ status[u] = "PENDING"}}]
    /\ UNCHANGED <<db, ballot, caller, onChain>>

\* The filter on the hash is left out: breaks TypeOK.
ListRowsWithHash_Bug2 ==
    /\ recon.phase = "idle"
    /\ recon' = [phase |-> "hashes",
                 list |-> {<<t, txHash[t]>> : t \in {u \in TxId :
                              status[u] \in {"EXECUTING", "PENDING"}}}]
    /\ UNCHANGED <<db, ballot, caller, onChain>>

ListRowsWithHash ==
    /\ recon.phase = "idle"
    /\ recon' = [phase |-> "hashes",
                 list |-> {<<t, txHash[t]>> : t \in {u \in TxId :
                              txHash[u] # NoHash /\ status[u] \in {"EXECUTING", "PENDING"}}}]
    /\ UNCHANGED <<db, ballot, caller, onChain>>

\* The age of the row is not tested: breaks ExecutedIsFinal
\* and ReopenedOnlyByRaces.
Stale_Bug(t) == status[t] = "EXECUTING" /\ txHash[t] = NoHash

\* Thirty minutes without an update: no call is still on its way to a hash.
Stale(t) ==
    /\ status[t] = "EXECUTING" /\ txHash[t] = NoHash
    /\ \A c \in Call : TxOf(c) = t => caller[c].pc \notin BeforeHash

ListStaleRows ==
    /\ recon.phase = "hashes" /\ recon.list = {}
    /\ recon' = [phase |-> "stale", list |-> {<<t, NoHash>> : t \in {u \in TxId : Stale(u)}}]
    /\ UNCHANGED <<db, ballot, caller, onChain>>

Unlist(t, hash) == recon' = [recon EXCEPT !.list = @ \ {<<t, hash>>}]

ResetRow(t) ==
    /\ status' = [status EXCEPT ![t] = "PENDING"]
    /\ txHash' = [txHash EXCEPT ![t] = NoHash]
    /\ UNCHANGED <<threshold, vote, dbSigners>>

ReconcileSuccess(t, hash) ==
    /\ recon.phase = "hashes" /\ <<t, hash>> \in recon.list
    /\ result[hash] = "success"
    /\ RecordExecution(t, hash)
    /\ Unlist(t, hash)
    /\ UNCHANGED <<ballot, caller, onChain>>

ReconcileReverted(t, hash) ==
    /\ recon.phase = "hashes" /\ <<t, hash>> \in recon.list
    /\ result[hash] = "reverted"
    /\ ResetRow(t)
    /\ Unlist(t, hash)
    /\ UNCHANGED <<ballot, caller, onChain>>

\* No receipt yet.
SkipRow(t, hash) ==
    /\ recon.phase = "hashes" /\ <<t, hash>> \in recon.list
    /\ result[hash] = "none"
    /\ Unlist(t, hash)
    /\ UNCHANGED <<db, ballot, caller, onChain>>

ResetStaleRow(t) ==
    /\ recon.phase = "stale" /\ <<t, NoHash>> \in recon.list
    /\ ResetRow(t)
    /\ Unlist(t, NoHash)
    /\ UNCHANGED <<ballot, caller, onChain>>

\* The pass is over, or an error or a restart cuts it short.
EndPass ==
    /\ recon.phase # "idle"
    /\ recon' = [phase |-> "idle", list |-> {}]
    /\ UNCHANGED <<db, ballot, caller, onChain>>

----------------------------------------------------------------------------

VoterStep(t, v) ==
    \/ v \in Approvers /\ (Propose(t, v) \/ Create(t, v)
                             \/ StartApprove(t, v) \/ RecordApproval(t, v))
    \/ v \in Deniers /\ (StartDeny(t, v) \/ RecordDenial(t, v)
                             \/ CountVotes(t, v) \/ WriteFailed(t, v))
    \/ AbandonBallot(t, v)

\* The steps a running call takes by itself; each of its awaits ends.
CallStep(c) ==
    \/ MarkExecuting(c)
    \/ \E v \in Commitment, outcome \in {"AGGREGATED", "FAILED"} : PollJob(c, v, outcome)
    \/ NoneStillPending(c) \/ CollectProofs(c) \/ SendCall(c) \/ PersistHash(c)
    \/ ReadReceipt(c) \/ MarkExecuted(c)
    \/ FailBeforeHash(c) \/ ConditionalRevertToPending(c) \/ Crash(c)

ReconRow(t, hash) ==
    \/ ReconcileSuccess(t, hash) \/ ReconcileReverted(t, hash) \/ SkipRow(t, hash)

Next ==
    \/ \E t \in TxId, v \in Commitment : VoterStep(t, v)
    \/ \E c \in Call, t \in TxId : ReadRow(c, t)
    \/ \E c \in Call : CallStep(c)
    \/ \E ch \in Chain : Mine(ch)
    \/ ListRowsWithHash \/ ListStaleRows \/ EndPass
    \/ \E t \in TxId, hash \in Call : ReconRow(t, hash)
    \/ \E t \in TxId : ResetStaleRow(t)

\* Calls settle or end with the process; blocks are produced; the pass runs
\* every two hours, and a pass that an error cuts short is followed by others.
Fairness ==
    /\ \A c \in Call : WF_vars(CallStep(c))
    /\ \A ch \in Chain : WF_vars(Mine(ch))
    /\ WF_vars(ListRowsWithHash) /\ SF_vars(ListStaleRows) /\ WF_vars(EndPass)
    /\ \A t \in TxId, hash \in Call : SF_vars(ReconRow(t, hash))
    /\ \A t \in TxId : SF_vars(ResetStaleRow(t))

Spec == Init /\ [][Next]_vars /\ Fairness

----------------------------------------------------------------------------

\* A row that says EXECUTED was executed: markExecuted is reached only with the
\* hash of a call whose receipt says success, whoever reaches it.
ExecutedOnChain ==
    \A t \in TxId : status[t] = "EXECUTED" => \E c \in Call : TxOf(c) = t /\ result[c] = "success"

\* However many calls race for one transaction, and whatever is retried after a
\* crash or a reset, the contract executes it at most once.
SucceedsOnce ==
    \A c, d \in Call : TxOf(c) = TxOf(d) /\ result[c] = "success" /\ result[d] = "success" => c = d

\* What makes the two properties above inductive. A call that was submitted waits
\* in its own chain's pool, once, or has its receipt; the rows and the pass hold
\* only hashes of calls submitted for that row; a call goes on to markExecuted
\* with a receipt that says success; and a success has spent the row's nonce.
Unsent == {"idle", "read", "aggregating", "aggregated", "ready"}

Sent(c) == caller[c].pc \notin Unsent

PoolHoldsSent ==
    \A ch \in Chain :
        /\ IsInjective(pool[ch])
        /\ \A c \in Range(pool[ch]) : Sent(c) /\ ChainOf(TxOf(c)) = ch /\ result[c] = "none"

ReceiptsAreOfSent == \A c \in Call : result[c] # "none" => Sent(c)

HashesAreOfSent == \A t \in TxId : txHash[t] # NoHash => Sent(txHash[t]) /\ TxOf(txHash[t]) = t

ListedAreOfSent ==
    \A row \in recon.list : row[2] # NoHash => Sent(row[2]) /\ TxOf(row[2]) = row[1]

MinedSucceeded == \A c \in Call : At(c, "mined") => result[c] = "success"

SuccessSpentNonce ==
    \A c \in Call :
        result[c] = "success" => ContractCall[TxOf(c)].nonce \in wallet[AccountOfCall(c)].usedNonces

IInv ==
    /\ TypeOK
    /\ PoolHoldsSent /\ ReceiptsAreOfSent /\ HashesAreOfSent /\ ListedAreOfSent
    /\ MinedSucceeded /\ SuccessSpentNonce
    /\ ExecutedOnChain /\ SucceedsOnce

\* A transaction that the voters have made impossible is not executed: the count
\* of checkIfFailed, on votes still arriving and proofs not yet aggregated, and
\* the count of proofs by the contract never both go their way.
FailedNeverExecutes ==
    \A c \in Call : result[c] = "success" => status[TxOf(c)] # "FAILED"

\* Nobody's approval is used on chain while the table says that they denied.
DeniersNotCounted ==
    \A c \in Call, v \in Commitment :
        result[c] = "success" /\ v \in caller[c].proofs => vote[TxOf(c)][v] # "DENIED"

\* When each executed call of an account has been recorded, the signers of the
\* table are the signers of the contract, in whatever order and by whichever of
\* the call and the scheduled pass, or both, they were recorded.
SignersMirrorChain ==
    \A a \in Account :
        (\A c \in Call : AccountOfCall(c) = a /\ result[c] = "success" => status[TxOf(c)] = "EXECUTED")
        => dbSigners[a] = Signers(wallet[a])

\* EXECUTED is final. (The comment above conditionalRevertToPending: it
\* "prevents race condition where a concurrent call already set EXECUTED".)
ExecutedIsFinal ==
    [][\A t \in TxId : status[t] = "EXECUTED" => status'[t] = "EXECUTED"]_vars

\* A recorded execution is opened again only where two requests for the row met:
\* one that had read it as PENDING goes on to EXECUTING, or the pass acts on what it
\* had listed, a reverted hash or a stale row, before the other request succeeded.
\* A single request, its crashes, the answers it loses and the passes that look at it
\* never do it.
ReopenedOnlyByRaces ==
    [][\A t \in TxId : status[t] = "EXECUTED" /\ status'[t] \notin {"EXECUTED", "FAILED"} =>
          \E c, d \in Call :
              /\ c # d /\ TxOf(c) = t /\ TxOf(d) = t /\ result[d] = "success"
              /\ \/ At(c, "read")
                 \/ recon.phase = "hashes" /\ <<t, c>> \in recon.list /\ result[c] = "reverted"
                 \/ recon.phase = "stale" /\ <<t, NoHash>> \in recon.list /\ ~ At(c, "idle")]_vars

\* A vote is deleted only by the removal of its voter from the account the vote
\* belongs to. (The comment of the deletion: "same account only".)
VotesDeletedInSameAccount ==
    [][\A u \in TxId, v \in Commitment :
          vote[u][v] # "NONE" /\ vote'[u][v] = "NONE"
          => \E t \in TxId : /\ status'[t] = "EXECUTED" /\ AccountOf[t] = AccountOf[u]
                             /\ v \in Listed(t)]_vars

\* The stale rows that the pass resets to PENDING were not executed. (The
\* comment of the stale pass: they are "caused by pre-submission failures".)
StaleRowsNeverSubmitted ==
    recon.phase = "stale" =>
        \A row \in recon.list, c \in Call : TxOf(c) = row[1] => result[c] # "success"

\* No row stays EXECUTING for ever, whatever the point at which its call ended:
\* the hash saved before the receipt, or its absence, lets the pass settle it.
NeverStuckExecuting == \A t \in TxId : status[t] = "EXECUTING" ~> status[t] # "EXECUTING"

\* A successful call whose hash was saved ends up recorded, with its signers and
\* threshold changes, though the call itself died before it could record it.
SavedSuccessIsRecorded ==
    \A c \in Call : (result[c] = "success" /\ txHash[TxOf(c)] = c) ~> status[TxOf(c)] = "EXECUTED"
=============================================================================
