------------------------- MODULE TxExecutionProofs --------------------------
(* Machine-checked proofs about TxExecution, for every set of accounts,    *)
(* rows, calls, voters and contract calls: what the database says was      *)
(* executed was executed, once.                                            *)
EXTENDS TxExecution, WalletOpsProofs

\* The proofs a call passes to the contract form a list of proofs.
LEMMA ProofsOfType ==
    ASSUME TypeOK, NEW c \in Call
    PROVE  ProofsOf(c) \in Seq(ZkProof)
<1> DEFINE S == caller[c].proofs
<1> DEFINE voters == SetToSeq(S)
<1>1. S \subseteq Commitment /\ TxOf(c) \in TxId
  BY DEF TypeOK, TxOf
<1>2. ContractCall[TxOf(c)] \in Transactions
  BY <1>1, ContractCallType
<1>3. IsFiniteSet(S)
  BY <1>1, CommitmentFinite, FS_Subset
<1>4. PICK n \in Nat : ExistsBijection(1 .. n, S)
  BY <1>3, FS_NatBijection
<1>5. Cardinality(S) = n
  BY <1>3, <1>4, FS_CountingElements
<1>6. \E f \in [1 .. n -> S] : IsInjective(f)
  BY <1>4 DEF ExistsBijection, Bijection, Injection
<1>7. voters \in [1 .. n -> S]
  BY <1>5, <1>6 DEF SetToSeq
<1>8. \A i \in 1 .. n : [commitment |-> voters[i],
                         nullifier |-> Nullifier(voters[i], ContractCall[TxOf(c)])] \in ZkProof
  BY <1>1, <1>2, <1>7 DEF ZkProof, Nullifiers, Nullifier
<1>9. QED
  BY <1>4, <1>7, <1>8 DEF ProofsOf

\* What including a call that succeeds does to the account's contract.
LEMMA MineEffect ==
    ASSUME TypeOK, NEW c \in Call, WouldSucceed(c)
    PROVE  LET w == AfterExecute(wallet[AccountOfCall(c)], ContractCall[TxOf(c)], ProofsOf(c))
           IN  /\ w \in WalletType
               /\ w.usedNonces = wallet[AccountOfCall(c)].usedNonces
                                     \cup {ContractCall[TxOf(c)].nonce}
<1> DEFINE w == wallet[AccountOfCall(c)]
<1> DEFINE tx == ContractCall[TxOf(c)]
<1> DEFINE m == MarkSpent(w, tx, ProofsOf(c))
<1>1. w \in WalletType /\ tx \in Transactions
  BY AccountOfType, ContractCallType DEF TypeOK, TxOf, AccountOfCall
<1>2. /\ m \in WalletType
      /\ m.copies = w.copies
      /\ m.length = w.length
      /\ m.balance = w.balance
      /\ m.usedNonces = w.usedNonces \cup {tx.nonce}
  BY <1>1, ProofsOfType, MarkSpentType
<1>3. CallSucceeds(w, tx)
  BY DEF WouldSucceed, ExecuteSucceeds
<1>4. CallSucceeds(m, tx)
  BY <1>2, <1>3 DEF CallSucceeds, AddSignersAccepts, RemoveSignersAccepts,
                    UpdateSignaturesRequiredAccepts, TransferAccepts
<1>5. AfterCall(m, tx) \in WalletType /\ AfterCall(m, tx).usedNonces = m.usedNonces
  BY <1>1, <1>2, <1>4, AfterCallType
<1>6. QED
  BY <1>2, <1>5 DEF AfterExecute

\* A row's fields are those of a contract call.
LEMMA RowCall ==
    ASSUME NEW t \in TxId
    PROVE  /\ Listed(t) \subseteq Commitment
           /\ ContractCall[t].newSig \in Nat
           /\ AccountOf[t] \in Account
           /\ ChainOf(t) \in Chain
<1>1. ContractCall[t] \in Transactions /\ AccountOf[t] \in Account
  BY ContractCallType, AccountOfType
<1>2. ContractCall[t].list \in Seq(Commitment) /\ ContractCall[t].newSig \in Nat
  BY <1>1, TxFields
<1>3. Listed(t) \subseteq Commitment
  BY <1>2 DEF Listed, Range
<1>4. QED
  BY <1>1, <1>2, <1>3 DEF ChainOf, Chain

\* Recording an execution keeps the tables well formed.
LEMMA RecordType ==
    ASSUME TypeOK, NEW t \in TxId, NEW hash \in Call, RecordExecution(t, hash)
    PROVE  /\ status' = [status EXCEPT ![t] = "EXECUTED"]
           /\ txHash' = [txHash EXCEPT ![t] = hash]
           /\ threshold' \in [TxId -> Nat]
           /\ vote' \in [TxId -> [Commitment -> ProofStatus \cup {"NONE", "DENIED"}]]
           /\ dbSigners' \in [Account -> SUBSET Commitment]
<1>1. status' = [status EXCEPT ![t] = "EXECUTED"] /\ txHash' = [txHash EXCEPT ![t] = hash]
  BY DEF RecordExecution
<1>2. threshold' \in [TxId -> Nat]
  BY RowCall DEF RecordExecution, TypeOK
<1>3. vote' \in [TxId -> [Commitment -> ProofStatus \cup {"NONE", "DENIED"}]]
  BY DEF RecordExecution, TypeOK
<1>4. \A people \in SUBSET Commitment : SignersAfter(t, people) \in SUBSET Commitment
  BY RowCall DEF SignersAfter
<1>5. dbSigners' \in [Account -> SUBSET Commitment]
  BY <1>4, RowCall DEF RecordExecution, TypeOK
<1>6. QED
  BY <1>1, <1>2, <1>3, <1>5

----------------------------------------------------------------------------
(* Types, one lemma for each of the parties that take steps.               *)

\* The initial state is well formed.
LEMMA TypeInit == Init => TypeOK
<1>1. SUFFICES ASSUME Init PROVE TypeOK
  OBVIOUS
<1>2. \A a \in Account : Signers(Deployed[a]) \in SUBSET Commitment
  BY DEF Signers
<1>3. \A c \in Call : caller[c] \in [tx : TxId, pc : Stages, need : Nat, proofs : SUBSET Commitment]
  <2>1. (CHOOSE t \in TxId : TRUE) \in TxId
    BY RowsExist
  <2>2. QED
    BY <1>1, <2>1 DEF Init, Stages
<1>4. QED
  BY <1>1, <1>2, <1>3, DeployedType DEF Init, TypeOK, ProofStatus, Chain, Stages

\* Creating, approving and denying.
LEMMA VoterType ==
    ASSUME TypeOK, NEW t \in TxId, NEW v \in Commitment, VoterStep(t, v)
    PROVE  TypeOK'
<1> USE DEF TypeOK, db, onChain, GoTo, ProofStatus, Stages
<1>1. CASE Propose(t, v)
  <2>1. wallet[AccountOf[t]].signaturesRequired \in Nat
    BY RowCall DEF WalletType
  <2>2. QED
    BY <1>1, <2>1 DEF Propose
<1>2. CASE Create(t, v)
  BY <1>2 DEF Create
<1>3. CASE StartApprove(t, v)
  BY <1>3 DEF StartApprove
<1>4. CASE RecordApproval(t, v)
  BY <1>4 DEF RecordApproval
<1>5. CASE StartDeny(t, v)
  BY <1>5 DEF StartDeny
<1>6. CASE RecordDenial(t, v)
  BY <1>6 DEF RecordDenial
<1>7. CASE CountVotes(t, v)
  BY <1>7 DEF CountVotes
<1>8. CASE WriteFailed(t, v)
  BY <1>8 DEF WriteFailed
<1>9. CASE AbandonBallot(t, v)
  BY <1>9 DEF AbandonBallot
<1>10. QED
  BY <1>1, <1>2, <1>3, <1>4, <1>5, <1>6, <1>7, <1>8, <1>9 DEF VoterStep

\* The steps of an execution call.
LEMMA CallType ==
    ASSUME TypeOK, NEW c \in Call, CallStep(c)
    PROVE  TypeOK'
<1> USE DEF TypeOK, db, onChain, Step, At, ProofStatus
<1>0. /\ TxOf(c) \in TxId
      /\ \A stage \in Stages :
             [caller EXCEPT ![c].pc = stage]
                 \in [Call -> [tx : TxId, pc : Stages, need : Nat, proofs : SUBSET Commitment]]
  BY ZenonT(30) DEF TxOf
<1>1. CASE MarkExecuting(c)
  BY <1>0, <1>1 DEF MarkExecuting, Stages
<1>2. ASSUME NEW v \in Commitment, NEW outcome \in {"AGGREGATED", "FAILED"}, PollJob(c, v, outcome)
      PROVE  TypeOK'
  BY <1>0, <1>2 DEF PollJob
<1>3. CASE NoneStillPending(c)
  BY <1>0, <1>3 DEF NoneStillPending, Stages
<1>4. CASE CollectProofs(c)
  BY <1>0, <1>4, ZenonT(30) DEF CollectProofs, Stages
<1>5. CASE SendCall(c)
  <2>1. ChainOf(TxOf(c)) \in Chain
    BY <1>0, RowCall
  <2>2. pool' \in [Chain -> Seq(Call)]
    BY <1>5, <2>1 DEF SendCall
  <2>3. caller' \in [Call -> [tx : TxId, pc : Stages, need : Nat, proofs : SUBSET Commitment]]
    BY <1>0, <1>5 DEF SendCall, Stages
  <2>4. QED
    BY <1>5, <2>2, <2>3 DEF SendCall
<1>6. CASE PersistHash(c)
  BY <1>0, <1>6 DEF PersistHash, Stages
<1>7. CASE ReadReceipt(c)
  BY <1>0, <1>7 DEF ReadReceipt, Stages
<1>8. CASE MarkExecuted(c)
  <2>1. /\ threshold' \in [TxId -> Nat]
        /\ vote' \in [TxId -> [Commitment -> ProofStatus \cup {"NONE", "DENIED"}]]
        /\ dbSigners' \in [Account -> SUBSET Commitment]
        /\ status' = [status EXCEPT ![TxOf(c)] = "EXECUTED"]
        /\ txHash' = [txHash EXCEPT ![TxOf(c)] = c]
    <3>1. RecordExecution(TxOf(c), c)
      BY <1>8 DEF MarkExecuted
    <3>2. QED
      BY <1>0, <3>1, RecordType
  <2>2. caller' \in [Call -> [tx : TxId, pc : Stages, need : Nat, proofs : SUBSET Commitment]]
    BY <1>0, <1>8 DEF MarkExecuted, Stages
  <2>3. QED
    BY <1>8, <2>1, <2>2 DEF MarkExecuted
<1>9. CASE FailBeforeHash(c)
  BY <1>0, <1>9 DEF FailBeforeHash, Stages
<1>10. CASE ConditionalRevertToPending(c)
  <2>1. caller' \in [Call -> [tx : TxId, pc : Stages, need : Nat, proofs : SUBSET Commitment]]
    BY <1>0, <1>10 DEF ConditionalRevertToPending, Stages
  <2>2. CASE status[TxOf(c)] = "EXECUTING"
    BY <1>10, <2>1, <2>2 DEF ConditionalRevertToPending
  <2>3. CASE status[TxOf(c)] # "EXECUTING"
    BY <1>10, <2>1, <2>3 DEF ConditionalRevertToPending
  <2>4. QED
    BY <2>2, <2>3
<1>11. CASE Crash(c)
  BY <1>0, <1>11 DEF Crash, Stages
<1>12. QED
  BY <1>1, <1>2, <1>3, <1>4, <1>5, <1>6, <1>7, <1>8, <1>9, <1>10, <1>11 DEF CallStep

\* The inclusion of a call in a block.
LEMMA MineType ==
    ASSUME TypeOK, NEW ch \in Chain, Mine(ch)
    PROVE  TypeOK'
<1> DEFINE c == Head(pool[ch])
<1>1. pool[ch] \in Seq(Call) /\ pool[ch] # << >>
  BY DEF TypeOK, Mine
<1>2. c \in Call /\ Tail(pool[ch]) \in Seq(Call)
  BY <1>1
<1>3. AccountOfCall(c) \in Account
  BY <1>2, RowCall DEF TypeOK, TxOf, AccountOfCall
<1>4. wallet' \in [Account -> WalletType]
  <2>1. CASE WouldSucceed(c)
    <3>1. AfterExecute(wallet[AccountOfCall(c)], ContractCall[TxOf(c)], ProofsOf(c))
              \in WalletType
      BY <1>2, <2>1, MineEffect
    <3>2. wallet' = [wallet EXCEPT ![AccountOfCall(c)] =
              AfterExecute(wallet[AccountOfCall(c)], ContractCall[TxOf(c)], ProofsOf(c))]
      BY <2>1 DEF Mine
    <3>3. QED
      BY <1>3, <3>1, <3>2 DEF TypeOK
  <2>2. CASE ~ WouldSucceed(c)
    BY <2>2 DEF Mine, TypeOK
  <2>3. QED
    BY <2>1, <2>2
<1>5. pool' \in [Chain -> Seq(Call)]
  BY <1>2 DEF Mine, TypeOK
<1>6. result' \in [Call -> {"none", "success", "reverted"}]
  BY <1>2 DEF Mine, TypeOK
<1>7. QED
  BY <1>4, <1>5, <1>6 DEF Mine, TypeOK, db

\* The scheduled pass.
LEMMA ReconType ==
    ASSUME TypeOK,
           \/ ListRowsWithHash \/ ListStaleRows \/ EndPass
           \/ \E t \in TxId, hash \in Call : ReconRow(t, hash)
           \/ \E t \in TxId : ResetStaleRow(t)
    PROVE  TypeOK'
<1> USE DEF TypeOK, db, onChain, Unlist, ResetRow
<1>1. CASE ListRowsWithHash
  BY <1>1 DEF ListRowsWithHash
<1>2. CASE ListStaleRows
  BY <1>2 DEF ListStaleRows
<1>3. CASE EndPass
  BY <1>3 DEF EndPass
<1>4. ASSUME NEW t \in TxId, NEW hash \in Call, ReconcileSuccess(t, hash)
      PROVE  TypeOK'
  <2>1. /\ threshold' \in [TxId -> Nat]
        /\ vote' \in [TxId -> [Commitment -> ProofStatus \cup {"NONE", "DENIED"}]]
        /\ dbSigners' \in [Account -> SUBSET Commitment]
        /\ status' = [status EXCEPT ![t] = "EXECUTED"]
        /\ txHash' = [txHash EXCEPT ![t] = hash]
    BY <1>4, RecordType DEF ReconcileSuccess
  <2>2. QED
    BY <1>4, <2>1 DEF ReconcileSuccess
<1>5. ASSUME NEW t \in TxId, NEW hash \in Call, ReconcileReverted(t, hash)
      PROVE  TypeOK'
  BY <1>5 DEF ReconcileReverted
<1>6. ASSUME NEW t \in TxId, NEW hash \in Call, SkipRow(t, hash)
      PROVE  TypeOK'
  BY <1>6 DEF SkipRow
<1>7. ASSUME NEW t \in TxId, ResetStaleRow(t)
      PROVE  TypeOK'
  BY <1>7 DEF ResetStaleRow
<1>8. QED
  BY <1>1, <1>2, <1>3, <1>4, <1>5, <1>6, <1>7 DEF ReconRow

\* Every step keeps the database, the chain and the calls well formed.
LEMMA TypeStep == TypeOK /\ [Next]_vars => TypeOK'
<1>1. SUFFICES ASSUME TypeOK, [Next]_vars PROVE TypeOK'
  OBVIOUS
<1>2. ASSUME NEW c \in Call, NEW t \in TxId, ReadRow(c, t)
      PROVE  TypeOK'
  BY <1>1, <1>2 DEF ReadRow, TypeOK, Stages, db, onChain
<1>3. CASE UNCHANGED vars
  BY <1>1, <1>3 DEF TypeOK, vars, db, onChain
<1>4. QED
  BY <1>1, <1>2, <1>3, VoterType, CallType, MineType, ReconType DEF Next

\* Only well-formed states are reached: no hash is missing where one is read, and
\* the scheduled pass asks for receipts of hashes only.
THEOREM TypeCorrect == Spec => []TypeOK
<1>1. Init => TypeOK
  BY TypeInit
<1>2. TypeOK /\ [Next]_vars => TypeOK'
  BY TypeStep
<1>3. QED
  BY <1>1, <1>2, PTL DEF Spec

----------------------------------------------------------------------------
(* What each party's steps do to the variables of the invariant.           *)

\* Voters touch neither hashes, calls nor the chain, and mark no row EXECUTED.
LEMMA VoterEffect ==
    ASSUME TypeOK, NEW t \in TxId, NEW v \in Commitment, VoterStep(t, v)
    PROVE  /\ UNCHANGED <<txHash, caller, recon, wallet, pool, result>>
           /\ \A u \in TxId : status'[u] = "EXECUTED" => status[u] = "EXECUTED"
<1> USE DEF TypeOK, db, onChain
<1>1. CASE Propose(t, v)
  BY <1>1 DEF Propose
<1>2. CASE Create(t, v)
  BY <1>2 DEF Create
<1>3. CASE \/ StartApprove(t, v) \/ RecordApproval(t, v) \/ StartDeny(t, v)
           \/ RecordDenial(t, v) \/ CountVotes(t, v)
  BY <1>3 DEF StartApprove, RecordApproval, StartDeny, RecordDenial, CountVotes
<1>4. CASE WriteFailed(t, v)
  BY <1>4 DEF WriteFailed
<1>5. CASE AbandonBallot(t, v)
  BY <1>5 DEF AbandonBallot
<1>6. QED
  BY <1>1, <1>2, <1>3, <1>4, <1>5 DEF VoterStep

\* A call advances on its own: it submits once, saves its own hash in its own row,
\* and marks that row only from the stage "mined", which a receipt opens.
LEMMA CallEffect ==
    ASSUME TypeOK, NEW c \in Call, CallStep(c)
    PROVE  /\ UNCHANGED <<recon, wallet, result>>
           /\ \A d \in Call : /\ d # c => caller'[d] = caller[d]
                              /\ TxOf(d)' = TxOf(d)
                              /\ Sent(d) => Sent(d)'
           /\ At(c, "mined")' => result[c] = "success"
           /\ \A u \in TxId : \/ txHash'[u] = txHash[u]
                              \/ txHash'[u] = NoHash
                              \/ u = TxOf(c) /\ txHash'[u] = c /\ Sent(c)
           /\ \A u \in TxId : status'[u] = "EXECUTED" =>
                  status[u] = "EXECUTED" \/ (u = TxOf(c) /\ At(c, "mined"))
           /\ \/ UNCHANGED pool
              \/ /\ ~ Sent(c) /\ Sent(c)'
                 /\ pool' = [pool EXCEPT ![ChainOf(TxOf(c))] = Append(@, c)]
<1> USE DEF TypeOK, db, onChain, At, Sent, Unsent, TxOf
<1>0. TxOf(c) \in TxId
  OBVIOUS
<1>1. CASE MarkExecuting(c)
  BY <1>0, <1>1 DEF MarkExecuting, Step
<1>2. ASSUME NEW v \in Commitment, NEW outcome \in {"AGGREGATED", "FAILED"}, PollJob(c, v, outcome)
      PROVE  UNCHANGED <<status, txHash, caller, recon, wallet, pool, result>> /\ ~ At(c, "mined")
  BY <1>2 DEF PollJob
<1>3. CASE NoneStillPending(c)
  BY <1>3 DEF NoneStillPending, Step
<1>4. CASE CollectProofs(c)
  <2>1. PICK stage \in {"reverting", "ready"}, got \in SUBSET Commitment :
            caller' = [caller EXCEPT ![c].pc = stage, ![c].proofs = got]
    BY <1>4 DEF CollectProofs
  <2>2. /\ ~ Sent(c) /\ ~ At(c, "mined")
        /\ UNCHANGED <<status, txHash, recon, wallet, pool, result>>
    BY <1>4 DEF CollectProofs
  <2>3. /\ \A d \in Call : d # c => caller'[d] = caller[d]
        /\ caller'[c].tx = caller[c].tx /\ caller'[c].pc = stage
    BY <2>1
  <2>4. QED
    BY <2>2, <2>3, SMTT(30)
<1>5. CASE SendCall(c)
  BY <1>5 DEF SendCall, Step
<1>6. CASE PersistHash(c)
  BY <1>0, <1>6 DEF PersistHash, Step
<1>7. CASE ReadReceipt(c)
  BY <1>7 DEF ReadReceipt, Step
<1>8. CASE MarkExecuted(c)
  <2>1. /\ status' = [status EXCEPT ![TxOf(c)] = "EXECUTED"]
        /\ txHash' = [txHash EXCEPT ![TxOf(c)] = c]
    BY <1>8 DEF MarkExecuted, RecordExecution
  <2>2. QED
    BY <1>0, <1>8, <2>1 DEF MarkExecuted, Step
<1>9. CASE FailBeforeHash(c)
  BY <1>9 DEF FailBeforeHash, Step
<1>10. CASE ConditionalRevertToPending(c)
  BY <1>0, <1>10 DEF ConditionalRevertToPending, Step
<1>11. CASE Crash(c)
  BY <1>11 DEF Crash, Step
<1>12. QED
  BY <1>1, <1>2, <1>3, <1>4, <1>5, <1>6, <1>7, <1>8, <1>9, <1>10, <1>11 DEF CallStep

\* A new call knows its row and has submitted nothing.
LEMMA ReadRowEffect ==
    ASSUME TypeOK, NEW c \in Call, NEW t \in TxId, ReadRow(c, t)
    PROVE  /\ UNCHANGED <<status, txHash, recon, wallet, pool, result>>
           /\ \A d \in Call : d # c => caller'[d] = caller[d]
           /\ ~ Sent(c) /\ ~ Sent(c)' /\ ~ At(c, "mined")'
BY DEF ReadRow, TypeOK, db, onChain, At, Sent, Unsent

\* A block takes the first call of the pool and gives it its receipt.
LEMMA BlockEffect ==
    ASSUME TypeOK, NEW ch \in Chain, Mine(ch)
    PROVE  \E c \in Call :
               /\ UNCHANGED <<status, txHash, caller, recon>>
               /\ pool[ch] # << >> /\ c = Head(pool[ch])
               /\ pool' = [pool EXCEPT ![ch] = Tail(@)]
               /\ \/ /\ ~ WouldSucceed(c)
                     /\ result' = [result EXCEPT ![c] = "reverted"]
                     /\ UNCHANGED wallet
                  \/ /\ WouldSucceed(c)
                     /\ result' = [result EXCEPT ![c] = "success"]
                     /\ wallet' = [wallet EXCEPT ![AccountOfCall(c)] =
                            AfterExecute(@, ContractCall[TxOf(c)], ProofsOf(c))]
<1> DEFINE c == Head(pool[ch])
<1>1. pool[ch] \in Seq(Call) /\ pool[ch] # << >>
  BY DEF TypeOK, Mine
<1>2. c \in Call
  BY <1>1
<1>3. QED
  BY <1>1, <1>2 DEF Mine, db

\* The pass lists the hashes that rows hold, records a row only with a listed hash
\* whose receipt says success, and otherwise only clears hashes.
LEMMA ReconEffect ==
    ASSUME TypeOK,
           \/ ListRowsWithHash \/ ListStaleRows \/ EndPass
           \/ \E t \in TxId, hash \in Call : ReconRow(t, hash)
           \/ \E t \in TxId : ResetStaleRow(t)
    PROVE  /\ UNCHANGED <<caller, wallet, pool, result>>
           /\ \A row \in recon'.list :
                  \/ row \in recon.list
                  \/ row[2] = NoHash
                  \/ row[1] \in TxId /\ row[2] = txHash[row[1]]
           /\ \A u \in TxId : \/ txHash'[u] = txHash[u]
                              \/ txHash'[u] = NoHash
                              \/ <<u, txHash'[u]>> \in recon.list
           /\ \A u \in TxId : status'[u] = "EXECUTED" =>
                  \/ status[u] = "EXECUTED"
                  \/ \E hash \in Call : <<u, hash>> \in recon.list /\ result[hash] = "success"
<1> USE DEF TypeOK, db, onChain, Unlist, ResetRow
<1>1. CASE ListRowsWithHash
  BY <1>1 DEF ListRowsWithHash
<1>2. CASE ListStaleRows
  BY <1>2 DEF ListStaleRows
<1>3. CASE EndPass
  BY <1>3 DEF EndPass
<1>4. CASE \E t \in TxId, hash \in Call : ReconcileSuccess(t, hash)
  <2>1. PICK t \in TxId, hash \in Call : ReconcileSuccess(t, hash)
    BY <1>4
  <2>2. /\ status' = [status EXCEPT ![t] = "EXECUTED"]
        /\ txHash' = [txHash EXCEPT ![t] = hash]
    BY <2>1 DEF ReconcileSuccess, RecordExecution
  <2>3. QED
    BY <2>1, <2>2 DEF ReconcileSuccess
<1>5. CASE \E t \in TxId, hash \in Call : ReconcileReverted(t, hash)
  BY <1>5 DEF ReconcileReverted
<1>6. CASE \E t \in TxId, hash \in Call : SkipRow(t, hash)
  BY <1>6 DEF SkipRow
<1>7. CASE \E t \in TxId : ResetStaleRow(t)
  BY <1>7 DEF ResetStaleRow
<1>8. QED
  BY <1>1, <1>2, <1>3, <1>4, <1>5, <1>6, <1>7 DEF ReconRow

----------------------------------------------------------------------------
(* Facts about a pool as a sequence without repetition.                    *)

\* A call that is not in a pool is in it once after it is appended.
LEMMA AppendOnce ==
    ASSUME NEW S, NEW s \in Seq(S), NEW e \in S, IsInjective(s), e \notin Range(s)
    PROVE  /\ IsInjective(Append(s, e))
           /\ Range(Append(s, e)) = Range(s) \cup {e}
<1> DEFINE a == Append(s, e)
<1>1. /\ Len(s) \in Nat
      /\ DOMAIN s = 1 .. Len(s)
      /\ DOMAIN a = 1 .. Len(s) + 1
      /\ \A i \in 1 .. Len(s) : a[i] = s[i]
      /\ a[Len(s) + 1] = e
  OBVIOUS
<1>2. \A i \in 1 .. Len(s) : s[i] # e
  BY <1>1 DEF Range
<1>3. IsInjective(a)
  BY <1>1, <1>2 DEF IsInjective
<1>4. Range(a) \subseteq Range(s) \cup {e}
  BY <1>1 DEF Range
<1>5. Range(s) \subseteq Range(a) /\ e \in Range(a)
  BY <1>1 DEF Range
<1>6. QED
  BY <1>3, <1>4, <1>5

\* The first call of a pool is no longer in it when it is taken out.
LEMMA TailOnce ==
    ASSUME NEW S, NEW s \in Seq(S), s # << >>, IsInjective(s)
    PROVE  /\ IsInjective(Tail(s))
           /\ Range(Tail(s)) \subseteq Range(s)
           /\ Head(s) \in Range(s)
           /\ Head(s) \notin Range(Tail(s))
<1>1. /\ Len(s) \in Nat /\ Len(s) > 0
      /\ DOMAIN s = 1 .. Len(s)
      /\ DOMAIN Tail(s) = 1 .. Len(s) - 1
      /\ \A i \in 1 .. Len(s) - 1 : Tail(s)[i] = s[i + 1]
      /\ Head(s) = s[1]
  OBVIOUS
<1>2. \A i, j \in 1 .. Len(s) : s[i] = s[j] => i = j
  BY <1>1 DEF IsInjective
<1>3. \A i \in 1 .. Len(s) - 1 : i + 1 \in 1 .. Len(s) /\ Tail(s)[i] # s[1]
  BY <1>1, <1>2
<1>4. IsInjective(Tail(s))
  BY <1>1, <1>2, <1>3 DEF IsInjective
<1>5. Range(Tail(s)) \subseteq Range(s)
  BY <1>1, <1>3 DEF Range
<1>6. Head(s) \in Range(s) /\ Head(s) \notin Range(Tail(s))
  BY <1>1, <1>3 DEF Range
<1>7. QED
  BY <1>4, <1>5, <1>6

----------------------------------------------------------------------------
(* The inductive invariant, one lemma for each part.                       *)

\* A submitted call stays submitted, for the same row.
LEMMA SentStays ==
    ASSUME TypeOK, [Next]_vars
    PROVE  \A c \in Call : Sent(c) => Sent(c)' /\ TxOf(c)' = TxOf(c)
<1>1. ASSUME NEW t \in TxId, NEW v \in Commitment, VoterStep(t, v)
      PROVE  UNCHANGED caller
  BY <1>1, VoterEffect
<1>2. ASSUME NEW c \in Call, NEW t \in TxId, ReadRow(c, t)
      PROVE  \A d \in Call : Sent(d) => caller'[d] = caller[d]
  BY <1>2, ReadRowEffect
<1>3. ASSUME NEW c \in Call, CallStep(c)
      PROVE  \A d \in Call : TxOf(d)' = TxOf(d) /\ (Sent(d) => Sent(d)')
  BY <1>3, CallEffect
<1>4. ASSUME NEW ch \in Chain, Mine(ch)
      PROVE  UNCHANGED caller
  BY <1>4, BlockEffect
<1>5. CASE UNCHANGED vars
  BY <1>5 DEF vars, Sent, TxOf
<1>6. QED
  BY <1>1, <1>2, <1>3, <1>4, <1>5, ReconEffect DEF Next, Sent, TxOf

\* Only a submitted call is in a pool, once, and without a receipt.
LEMMA PoolStep ==
    ASSUME TypeOK, PoolHoldsSent, ReceiptsAreOfSent, [Next]_vars
    PROVE  PoolHoldsSent' /\ ReceiptsAreOfSent'
<1> USE DEF PoolHoldsSent, ReceiptsAreOfSent
<1>0. /\ \A c \in Call : Sent(c) => Sent(c)' /\ TxOf(c)' = TxOf(c)
      /\ \A ch \in Chain : pool[ch] \in Seq(Call) /\ Range(pool[ch]) \subseteq Call
  BY SentStays DEF TypeOK, Range
<1>1. CASE UNCHANGED <<pool, result>>
  BY <1>0, <1>1 DEF ChainOf
<1>2. ASSUME NEW c \in Call, CallStep(c), ~ Sent(c), Sent(c)',
             pool' = [pool EXCEPT ![ChainOf(TxOf(c))] = Append(@, c)]
      PROVE  PoolHoldsSent' /\ ReceiptsAreOfSent'
  <2> DEFINE home == ChainOf(TxOf(c))
  <2>1. UNCHANGED result /\ TxOf(c)' = TxOf(c)
    BY <1>2, CallEffect
  <2>2. home \in Chain
    BY RowCall DEF TypeOK, TxOf
  <2>3. c \notin Range(pool[home])
    BY <1>2, <2>2
  <2>4. /\ IsInjective(pool'[home])
        /\ Range(pool'[home]) = Range(pool[home]) \cup {c}
    <3>1. /\ pool'[home] = Append(pool[home], c)
          /\ pool[home] \in Seq(Call)
          /\ IsInjective(pool[home])
      BY <1>2, <2>2 DEF TypeOK
    <3>2. QED
      BY <2>3, <3>1, AppendOnce
  <2>5. \A ch \in Chain : ch # home => pool'[ch] = pool[ch]
    BY <1>2 DEF TypeOK
  <2>6. result[c] = "none"
    BY <1>2
  <2>7. QED
    BY <1>0, <1>2, <2>1, <2>4, <2>5, <2>6 DEF ChainOf
<1>3. ASSUME NEW ch \in Chain, Mine(ch)
      PROVE  PoolHoldsSent' /\ ReceiptsAreOfSent'
  <2>1. PICK c \in Call :
            /\ UNCHANGED caller
            /\ pool[ch] # << >> /\ c = Head(pool[ch])
            /\ pool' = [pool EXCEPT ![ch] = Tail(@)]
            /\ \/ result' = [result EXCEPT ![c] = "reverted"]
               \/ result' = [result EXCEPT ![c] = "success"]
    BY <1>3, BlockEffect
  <2>2. /\ IsInjective(pool'[ch])
        /\ Range(pool'[ch]) \subseteq Range(pool[ch])
        /\ c \in Range(pool[ch])
        /\ c \notin Range(pool'[ch])
    <3>1. pool'[ch] = Tail(pool[ch]) /\ pool[ch] \in Seq(Call) /\ IsInjective(pool[ch])
      BY <2>1 DEF TypeOK
    <3>2. QED
      BY <2>1, <3>1, TailOnce
  <2>3. \A k \in Chain : k # ch => pool'[k] = pool[k] /\ c \notin Range(pool'[k])
    <3>1. \A k \in Chain : k # ch => pool'[k] = pool[k]
      BY <2>1 DEF TypeOK
    <3>2. \A k \in Chain : c \in Range(pool[k]) => ChainOf(TxOf(c)) = k
      OBVIOUS
    <3>3. QED
      BY <2>2, <3>1, <3>2
  <2>4. Sent(c) /\ \A d \in Call : d # c => result'[d] = result[d]
    <3>1. Sent(c)
      BY <2>2
    <3>2. \A d \in Call : d # c => result'[d] = result[d]
      BY <2>1 DEF TypeOK
    <3>3. QED
      BY <3>1, <3>2
  <2>5. PoolHoldsSent'
    <3>1. SUFFICES ASSUME NEW k \in Chain
                   PROVE  /\ IsInjective(pool'[k])
                          /\ \A d \in Range(pool'[k]) :
                                 Sent(d)' /\ ChainOf(TxOf(d))' = k /\ result'[d] = "none"
      OBVIOUS
    <3>2. /\ IsInjective(pool'[k])
          /\ Range(pool'[k]) \subseteq Range(pool[k])
          /\ c \notin Range(pool'[k])
      BY <2>2, <2>3
    <3>3. ASSUME NEW d \in Range(pool'[k])
          PROVE  Sent(d)' /\ ChainOf(TxOf(d))' = k /\ result'[d] = "none"
      <4>1. d \in Call /\ d # c /\ d \in Range(pool[k])
        BY <1>0, <3>2
      <4>2. Sent(d) /\ ChainOf(TxOf(d)) = k /\ result[d] = "none"
        BY <4>1
      <4>3. QED
        BY <1>0, <2>4, <4>1, <4>2 DEF ChainOf
    <3>4. QED
      BY <3>2, <3>3
  <2>6. ReceiptsAreOfSent'
    BY <1>0, <2>4
  <2>7. QED
    BY <2>5, <2>6
<1>4. ASSUME NEW c \in Call, CallStep(c)
      PROVE  \/ UNCHANGED <<pool, result>>
             \/ /\ ~ Sent(c) /\ Sent(c)'
                /\ pool' = [pool EXCEPT ![ChainOf(TxOf(c))] = Append(@, c)]
  BY <1>4, CallEffect
<1>5. ASSUME NEW t \in TxId, NEW v \in Commitment, VoterStep(t, v)
      PROVE  UNCHANGED <<pool, result>>
  BY <1>5, VoterEffect
<1>6. ASSUME NEW c \in Call, NEW t \in TxId, ReadRow(c, t)
      PROVE  UNCHANGED <<pool, result>>
  BY <1>6, ReadRowEffect
<1>7. CASE UNCHANGED vars
  BY <1>1, <1>7 DEF vars, onChain
<1>8. QED
  BY <1>1, <1>2, <1>3, <1>4, <1>5, <1>6, <1>7, ReconEffect DEF Next

\* A row, and the pass, hold only hashes of calls submitted for that row.
LEMMA HashStep ==
    ASSUME TypeOK, HashesAreOfSent, ListedAreOfSent, [Next]_vars
    PROVE  HashesAreOfSent' /\ ListedAreOfSent'
<1> USE DEF HashesAreOfSent, ListedAreOfSent
<1>0. /\ \A c \in Call : Sent(c) => Sent(c)' /\ TxOf(c)' = TxOf(c)
      /\ \A u \in TxId : txHash[u] \in Call \cup {NoHash}
      /\ \A row \in recon.list : row[2] \in Call \cup {NoHash}
  BY SentStays DEF TypeOK
<1>1. CASE UNCHANGED <<txHash, recon>>
  BY <1>0, <1>1
<1>2. ASSUME NEW c \in Call, CallStep(c)
      PROVE  HashesAreOfSent' /\ ListedAreOfSent'
  <2>1. /\ UNCHANGED recon
        /\ \A u \in TxId : \/ txHash'[u] = txHash[u]
                           \/ txHash'[u] = NoHash
                           \/ u = TxOf(c) /\ txHash'[u] = c /\ Sent(c)
    BY <1>2, CallEffect
  <2>2. QED
    BY <1>0, <2>1
<1>3. CASE \/ ListRowsWithHash \/ ListStaleRows \/ EndPass
           \/ \E t \in TxId, hash \in Call : ReconRow(t, hash)
           \/ \E t \in TxId : ResetStaleRow(t)
  <2>1. /\ \A row \in recon'.list :
               \/ row \in recon.list
               \/ row[2] = NoHash
               \/ row[1] \in TxId /\ row[2] = txHash[row[1]]
        /\ \A u \in TxId : \/ txHash'[u] = txHash[u]
                           \/ txHash'[u] = NoHash
                           \/ <<u, txHash'[u]>> \in recon.list
    BY <1>3, ReconEffect
  <2>2. HashesAreOfSent'
    <3>1. ASSUME NEW u \in TxId, NEW h \in Call, txHash'[u] = h
          PROVE  Sent(h)' /\ TxOf(h)' = u
      <4>1. h # NoHash
        BY NoHashType
      <4>2. CASE txHash[u] = h
        BY <1>0, <4>1, <4>2
      <4>3. CASE <<u, h>> \in recon.list
        BY <1>0, <4>1, <4>3
      <4>4. QED
        BY <2>1, <3>1, <4>1, <4>2, <4>3
    <3>2. \A u \in TxId : txHash'[u] \in Call \cup {NoHash}
      BY TypeStep DEF TypeOK
    <3>3. QED
      BY <3>1, <3>2
  <2>3. ListedAreOfSent'
    <3>1. SUFFICES ASSUME NEW row \in recon'.list, row[2] # NoHash
                   PROVE  Sent(row[2])' /\ TxOf(row[2])' = row[1]
      OBVIOUS
    <3>2. CASE row \in recon.list
      BY <1>0, <3>1, <3>2
    <3>3. CASE row[1] \in TxId /\ row[2] = txHash[row[1]]
      BY <1>0, <3>1, <3>3
    <3>4. QED
      BY <2>1, <3>1, <3>2, <3>3
  <2>4. QED
    BY <2>2, <2>3
<1>4. ASSUME NEW t \in TxId, NEW v \in Commitment, VoterStep(t, v)
      PROVE  UNCHANGED <<txHash, recon>>
  BY <1>4, VoterEffect
<1>5. ASSUME NEW c \in Call, NEW t \in TxId, ReadRow(c, t)
      PROVE  UNCHANGED <<txHash, recon>>
  BY <1>5, ReadRowEffect
<1>6. ASSUME NEW ch \in Chain, Mine(ch)
      PROVE  UNCHANGED <<txHash, recon>>
  BY <1>6, BlockEffect
<1>7. CASE UNCHANGED vars
  BY <1>1, <1>7 DEF vars, db
<1>8. QED
  BY <1>1, <1>2, <1>3, <1>4, <1>5, <1>6, <1>7 DEF Next

\* A receipt, once there, is never replaced, and a block changes the contracts only
\* by giving one call of a pool its receipt; a success spends a nonce not yet spent.
LEMMA ReceiptStep ==
    ASSUME TypeOK, PoolHoldsSent, [Next]_vars
    PROVE  \/ UNCHANGED <<wallet, result>>
           \/ \E c \in Call :
                  /\ Sent(c) /\ result[c] = "none"
                  /\ UNCHANGED caller
                  /\ \A d \in Call : d # c => result'[d] = result[d]
                  /\ \A a \in Account : wallet[a].usedNonces \subseteq wallet'[a].usedNonces
                  /\ \/ result'[c] = "reverted"
                     \/ /\ result'[c] = "success"
                        /\ ContractCall[TxOf(c)].nonce \notin wallet[AccountOfCall(c)].usedNonces
                        /\ ContractCall[TxOf(c)].nonce \in wallet'[AccountOfCall(c)].usedNonces
<1>1. ASSUME NEW ch \in Chain, Mine(ch)
      PROVE  \E c \in Call :
                  /\ Sent(c) /\ result[c] = "none"
                  /\ UNCHANGED caller
                  /\ \A d \in Call : d # c => result'[d] = result[d]
                  /\ \A a \in Account : wallet[a].usedNonces \subseteq wallet'[a].usedNonces
                  /\ \/ result'[c] = "reverted"
                     \/ /\ result'[c] = "success"
                        /\ ContractCall[TxOf(c)].nonce \notin wallet[AccountOfCall(c)].usedNonces
                        /\ ContractCall[TxOf(c)].nonce \in wallet'[AccountOfCall(c)].usedNonces
  <2>1. PICK c \in Call :
            /\ UNCHANGED <<status, txHash, caller, recon>>
            /\ pool[ch] # << >> /\ c = Head(pool[ch])
            /\ \/ /\ result' = [result EXCEPT ![c] = "reverted"]
                  /\ UNCHANGED wallet
               \/ /\ WouldSucceed(c)
                  /\ result' = [result EXCEPT ![c] = "success"]
                  /\ wallet' = [wallet EXCEPT ![AccountOfCall(c)] =
                         AfterExecute(@, ContractCall[TxOf(c)], ProofsOf(c))]
    BY <1>1, BlockEffect
  <2>2. Sent(c) /\ result[c] = "none"
    <3>1. c \in Range(pool[ch])
      <4>1. pool[ch] \in Seq(Call) /\ IsInjective(pool[ch])
        BY DEF TypeOK, PoolHoldsSent
      <4>2. QED
        BY <2>1, <4>1, TailOnce
    <3>2. QED
      BY <3>1 DEF PoolHoldsSent
  <2>3. \A d \in Call : d # c => result'[d] = result[d]
    BY <2>1 DEF TypeOK
  <2>4. CASE result' = [result EXCEPT ![c] = "reverted"] /\ UNCHANGED wallet
    BY <2>1, <2>2, <2>3, <2>4 DEF TypeOK
  <2>5. CASE /\ WouldSucceed(c)
             /\ result' = [result EXCEPT ![c] = "success"]
             /\ wallet' = [wallet EXCEPT ![AccountOfCall(c)] =
                    AfterExecute(@, ContractCall[TxOf(c)], ProofsOf(c))]
    <3> DEFINE a == AccountOfCall(c)
    <3> DEFINE n == ContractCall[TxOf(c)].nonce
    <3>1. a \in Account
      BY RowCall DEF TypeOK, TxOf, AccountOfCall
    <3>2. n \notin wallet[a].usedNonces
      BY <2>5 DEF WouldSucceed, ExecuteSucceeds, NonceUnused
    <3>3. wallet'[a].usedNonces = wallet[a].usedNonces \cup {n}
      <4>1. wallet'[a] = AfterExecute(wallet[a], ContractCall[TxOf(c)], ProofsOf(c))
        BY <2>5, <3>1 DEF TypeOK
      <4>2. QED
        BY <2>5, <4>1, MineEffect
    <3>4. \A b \in Account : b # a => wallet'[b] = wallet[b]
      BY <2>5 DEF TypeOK
    <3>5. result'[c] = "success"
      BY <2>5 DEF TypeOK
    <3>6. \A b \in Account : wallet[b].usedNonces \subseteq wallet'[b].usedNonces
      BY <3>3, <3>4
    <3>7. QED
      BY <2>1, <2>2, <2>3, <3>2, <3>3, <3>5, <3>6
  <2>6. QED
    BY <2>1, <2>4, <2>5
<1>2. ASSUME NEW t \in TxId, NEW v \in Commitment, VoterStep(t, v)
      PROVE  UNCHANGED <<wallet, result>>
  BY <1>2, VoterEffect
<1>3. ASSUME NEW c \in Call, NEW t \in TxId, ReadRow(c, t)
      PROVE  UNCHANGED <<wallet, result>>
  BY <1>3, ReadRowEffect
<1>4. ASSUME NEW c \in Call, CallStep(c)
      PROVE  UNCHANGED <<wallet, result>>
  BY <1>4, CallEffect
<1>5. CASE UNCHANGED vars
  BY <1>5 DEF vars, onChain
<1>6. QED
  BY <1>1, <1>2, <1>3, <1>4, <1>5, ReconEffect DEF Next

\* A receipt does not change any more.
LEMMA ReceiptsStay ==
    ASSUME TypeOK, PoolHoldsSent, [Next]_vars
    PROVE  \A c \in Call : result[c] # "none" => result'[c] = result[c]
BY ReceiptStep

\* markExecuted is reached only with a receipt that says success.
LEMMA MinedStep ==
    ASSUME TypeOK, PoolHoldsSent, MinedSucceeded, [Next]_vars
    PROVE  MinedSucceeded'
<1> USE DEF MinedSucceeded, At
<1>0. \A c \in Call : result[c] # "none" => result'[c] = result[c]
  BY ReceiptsStay
<1>1. CASE UNCHANGED caller
  BY <1>0, <1>1
<1>2. ASSUME NEW t \in TxId, NEW v \in Commitment, VoterStep(t, v)
      PROVE  UNCHANGED caller
  BY <1>2, VoterEffect
<1>3. ASSUME NEW c \in Call, NEW t \in TxId, ReadRow(c, t)
      PROVE  MinedSucceeded'
  BY <1>0, <1>3, ReadRowEffect
<1>4. ASSUME NEW c \in Call, CallStep(c)
      PROVE  MinedSucceeded'
  BY <1>0, <1>4, CallEffect
<1>5. ASSUME NEW ch \in Chain, Mine(ch)
      PROVE  UNCHANGED caller
  BY <1>5, BlockEffect
<1>6. CASE UNCHANGED vars
  BY <1>1, <1>6 DEF vars
<1>7. QED
  BY <1>1, <1>2, <1>3, <1>4, <1>5, <1>6, ReconEffect DEF Next

\* A success spends its row's nonce in its account's contract, so a second call
\* for the row cannot succeed.
LEMMA SuccessStep ==
    ASSUME TypeOK, PoolHoldsSent, ReceiptsAreOfSent, SuccessSpentNonce, SucceedsOnce, [Next]_vars
    PROVE  SuccessSpentNonce' /\ SucceedsOnce'
<1> USE DEF SuccessSpentNonce, SucceedsOnce, AccountOfCall
<1>0. /\ \A c \in Call : Sent(c) => TxOf(c)' = TxOf(c)
      /\ \A c \in Call : result[c] = "success" => Sent(c)
      /\ \A c \in Call : TxOf(c) \in TxId /\ AccountOf[TxOf(c)] \in Account
  BY SentStays, RowCall DEF ReceiptsAreOfSent, TypeOK, TxOf
<1>1. CASE UNCHANGED <<wallet, result>>
  BY <1>0, <1>1
<1>2. ASSUME NEW c \in Call,
             Sent(c) /\ result[c] = "none",
             UNCHANGED caller,
             \A d \in Call : d # c => result'[d] = result[d],
             \A a \in Account : wallet[a].usedNonces \subseteq wallet'[a].usedNonces,
             \/ result'[c] = "reverted"
             \/ /\ result'[c] = "success"
                /\ ContractCall[TxOf(c)].nonce \notin wallet[AccountOfCall(c)].usedNonces
                /\ ContractCall[TxOf(c)].nonce \in wallet'[AccountOfCall(c)].usedNonces
      PROVE  SuccessSpentNonce' /\ SucceedsOnce'
  <2>1. \A d \in Call : TxOf(d)' = TxOf(d)
    BY <1>2 DEF TxOf
  <2>2. \A d \in Call : d # c /\ result'[d] = "success" =>
            /\ result[d] = "success"
            /\ ContractCall[TxOf(d)].nonce \in wallet[AccountOf[TxOf(d)]].usedNonces
            /\ ContractCall[TxOf(d)].nonce \in wallet'[AccountOf[TxOf(d)]].usedNonces
    BY <1>0, <1>2
  <2>3. SuccessSpentNonce'
    BY <1>2, <2>1, <2>2
  <2>4. \A d \in Call : d # c /\ result'[c] = "success" /\ result'[d] = "success" =>
            TxOf(d) # TxOf(c)
    BY <1>2, <2>2
  <2>5. SucceedsOnce'
    BY <2>1, <2>2, <2>4
  <2>6. QED
    BY <2>3, <2>5
<1>3. QED
  BY <1>1, <1>2, ReceiptStep

\* A row is marked EXECUTED only for a call of its own that succeeded.
LEMMA ExecutedStep ==
    ASSUME TypeOK, PoolHoldsSent, ReceiptsAreOfSent, ListedAreOfSent, MinedSucceeded,
           ExecutedOnChain, [Next]_vars
    PROVE  ExecutedOnChain'
<1>0. /\ \A c \in Call : result[c] = "success" => Sent(c) /\ result'[c] = "success"
      /\ \A c \in Call : Sent(c) => TxOf(c)' = TxOf(c)
  BY ReceiptsStay, SentStays DEF ReceiptsAreOfSent
<1>1. ASSUME NEW u \in TxId, status'[u] = "EXECUTED"
      PROVE  \E c \in Call : TxOf(c) = u /\ result[c] = "success"
  <2>1. CASE status[u] = "EXECUTED"
    BY <2>1 DEF ExecutedOnChain
  <2>2. ASSUME NEW t \in TxId, NEW v \in Commitment, VoterStep(t, v)
        PROVE  status[u] = "EXECUTED"
    BY <1>1, <2>2, VoterEffect
  <2>3. ASSUME NEW c \in Call, NEW t \in TxId, ReadRow(c, t)
        PROVE  status[u] = "EXECUTED"
    BY <1>1, <2>3, ReadRowEffect
  <2>4. ASSUME NEW c \in Call, CallStep(c)
        PROVE  \/ status[u] = "EXECUTED"
               \/ TxOf(c) = u /\ result[c] = "success"
    BY <1>1, <2>4, CallEffect DEF MinedSucceeded
  <2>5. ASSUME NEW ch \in Chain, Mine(ch)
        PROVE  status[u] = "EXECUTED"
    BY <1>1, <2>5, BlockEffect
  <2>6. CASE \/ ListRowsWithHash \/ ListStaleRows \/ EndPass
             \/ \E t \in TxId, hash \in Call : ReconRow(t, hash)
             \/ \E t \in TxId : ResetStaleRow(t)
    <3>1. \/ status[u] = "EXECUTED"
          \/ \E hash \in Call : <<u, hash>> \in recon.list /\ result[hash] = "success"
      BY <1>1, <2>6, ReconEffect
    <3>2. ASSUME NEW hash \in Call, <<u, hash>> \in recon.list
          PROVE  TxOf(hash) = u
      BY <3>2, NoHashType DEF ListedAreOfSent
    <3>3. QED
      BY <2>1, <3>1, <3>2
  <2>7. CASE UNCHANGED vars
    BY <1>1, <2>1, <2>7 DEF vars, db
  <2>8. QED
    BY <2>1, <2>2, <2>3, <2>4, <2>5, <2>6, <2>7 DEF Next
<1>2. QED
  BY <1>0, <1>1 DEF ExecutedOnChain

----------------------------------------------------------------------------

\* Before anything is submitted the inductive invariant holds.
LEMMA InvInit == Init => IInv
<1>1. SUFFICES ASSUME Init PROVE IInv
  OBVIOUS
<1>2. \A ch \in Chain : pool[ch] = << >>
  BY <1>1 DEF Init
<1>3. \A c \in Call : result[c] = "none" /\ caller[c].pc = "idle"
  BY <1>1 DEF Init
<1>4. PoolHoldsSent
  BY <1>2 DEF PoolHoldsSent, Range, IsInjective
<1>5. ReceiptsAreOfSent /\ MinedSucceeded /\ SuccessSpentNonce /\ SucceedsOnce
  BY <1>3 DEF ReceiptsAreOfSent, MinedSucceeded, At, SuccessSpentNonce, SucceedsOnce
<1>6. HashesAreOfSent /\ ListedAreOfSent /\ ExecutedOnChain
  BY <1>1 DEF Init, HashesAreOfSent, ListedAreOfSent, ExecutedOnChain
<1>7. QED
  BY <1>1, <1>4, <1>5, <1>6, TypeInit DEF IInv

\* Every step preserves it: the parts above, together.
LEMMA InvStep == IInv /\ [Next]_vars => IInv'
BY TypeStep, PoolStep, HashStep, MinedStep, SuccessStep, ExecutedStep DEF IInv

\* The inductive invariant holds in every reachable state, with any number of
\* calls racing, ending anywhere, and repaired by the scheduled pass.
THEOREM InductiveInvariant == Spec => []IInv
<1>1. Init => IInv
  BY InvInit
<1>2. IInv /\ [Next]_vars => IInv'
  BY InvStep
<1>3. QED
  BY <1>1, <1>2, PTL DEF Spec

\* A row that says EXECUTED was executed by the contract.
THEOREM ExecutedWasOnChain == Spec => []ExecutedOnChain
<1>1. IInv => ExecutedOnChain
  BY DEF IInv
<1>2. QED
  BY <1>1, InductiveInvariant, PTL

\* The contract executes each row at most once, however many calls submit it.
THEOREM ExecutesAtMostOnce == Spec => []SucceedsOnce
<1>1. IInv => SucceedsOnce
  BY DEF IInv
<1>2. QED
  BY <1>1, InductiveInvariant, PTL

----------------------------------------------------------------------------
(* Votes. What the two theorems below rest on, whatever governance does: a *)
(* row that is not created has neither votes nor calls, it is created by   *)
(* one request, and a request that waits to record a vote will record the  *)
(* first vote of its voter.                                                *)

Unborn(t) == status[t] \in {"ABSENT", "PROPOSED"}

UnbornUntouched ==
    \A t \in TxId : Unborn(t) =>
        /\ \A v \in Commitment : vote[t][v] = "NONE" /\ ballot[t][v] \in {"idle", "creating"}
        /\ \A c \in Call : TxOf(c) = t => At(c, "idle")
        /\ \A row \in recon.list : row[1] # t

CreatorAlone ==
    \A t \in TxId, v \in Commitment : ballot[t][v] = "creating" =>
        /\ status[t] = "PROPOSED"
        /\ \A u \in Commitment : ballot[t][u] = "creating" => u = v

VotersUndecided ==
    \A t \in TxId, v \in Commitment : ballot[t][v] \in {"approving", "denying"} =>
        vote[t][v] = "NONE"

LifeInv == UnbornUntouched /\ CreatorAlone /\ VotersUndecided

\* The votes of v may be deleted: some transaction removes it from an account.
MayLoseVotes(v) == \E t \in TxId : ContractCall[t].kind = "removeSigners" /\ v \in Listed(t)

OnlyTransfers == \A t \in TxId : ContractCall[t].kind = "transfer"

\* A recorded execution changes the status of its row, and deletes votes of members
\* it removes.
LEMMA RecordWrites ==
    ASSUME TypeOK, NEW t \in TxId, NEW hash \in Call, RecordExecution(t, hash)
    PROVE  /\ \A u \in TxId : u # t => status'[u] = status[u]
           /\ status'[t] = "EXECUTED"
           /\ \A u \in TxId, v \in Commitment :
                  \/ vote'[u][v] = vote[u][v]
                  \/ vote'[u][v] = "NONE" /\ MayLoseVotes(v)
           /\ OnlyTransfers => UNCHANGED <<threshold, dbSigners>>
<1>1. status' = [status EXCEPT ![t] = "EXECUTED"]
  BY DEF RecordExecution
<1>2. \A u \in TxId, v \in Commitment :
          \/ vote'[u][v] = vote[u][v]
          \/ vote'[u][v] = "NONE" /\ MayLoseVotes(v)
  BY DEF RecordExecution, MayLoseVotes
<1>3. ASSUME OnlyTransfers PROVE UNCHANGED <<threshold, dbSigners>>
  <2>1. ContractCall[t].kind = "transfer"
    BY <1>3 DEF OnlyTransfers
  <2>2. threshold' = [u \in TxId |-> threshold[u]]
    BY <2>1 DEF RecordExecution, GovernanceKinds
  <2>3. dbSigners' = [dbSigners EXCEPT ![AccountOf[t]] = dbSigners[AccountOf[t]]]
    BY <2>1 DEF RecordExecution, SignersAfter
  <2> QED
    BY <2>2, <2>3 DEF TypeOK
<1> QED
  BY <1>1, <1>2, <1>3 DEF TypeOK

\* A call in progress writes the status of its own row and the outcome of votes that
\* were pending; it takes the proofs that are aggregated when it looks.
LEMMA CallWrites ==
    ASSUME TypeOK, NEW c \in Call, CallStep(c)
    PROVE  /\ ~ At(c, "idle") /\ UNCHANGED ballot
           /\ \A u \in TxId : \/ status'[u] = status[u]
                              \/ u = TxOf(c) /\ status'[u] \in {"PENDING", "EXECUTING", "EXECUTED"}
           /\ \A u \in TxId, v \in Commitment :
                  \/ vote'[u][v] = vote[u][v]
                  \/ vote[u][v] = "PENDING" /\ vote'[u][v] \in {"AGGREGATED", "FAILED"}
                  \/ vote'[u][v] = "NONE" /\ MayLoseVotes(v)
           /\ \/ caller'[c].proofs = caller[c].proofs
              \/ /\ ~ Sent(c) /\ UNCHANGED vote
                 /\ caller'[c].proofs = {v \in Commitment : vote[TxOf(c)][v] = "AGGREGATED"}
           /\ OnlyTransfers => UNCHANGED <<threshold, dbSigners>>
<1> USE DEF TypeOK, db, onChain, At, Step
<1>0. TxOf(c) \in TxId
  BY DEF TxOf
<1>1. CASE MarkExecuting(c)
  BY <1>0, <1>1 DEF MarkExecuting
<1>2. ASSUME NEW v \in Commitment, NEW outcome \in {"AGGREGATED", "FAILED"}, PollJob(c, v, outcome)
      PROVE  /\ ~ At(c, "idle") /\ UNCHANGED <<ballot, status, threshold, dbSigners, caller>>
             /\ \A u \in TxId, x \in Commitment :
                    \/ vote'[u][x] = vote[u][x]
                    \/ vote[u][x] = "PENDING" /\ vote'[u][x] \in {"AGGREGATED", "FAILED"}
  BY <1>0, <1>2 DEF PollJob
<1>3. CASE NoneStillPending(c)
  BY <1>3 DEF NoneStillPending
<1>4. CASE CollectProofs(c)
  <2> DEFINE got == {v \in Commitment : vote[TxOf(c)][v] = "AGGREGATED"}
  <2>1. \E stage \in {"reverting", "ready"} :
            caller' = [caller EXCEPT ![c].pc = stage, ![c].proofs = got]
    BY <1>4 DEF CollectProofs
  <2>2. caller'[c].proofs = got
    <3> HIDE DEF got
    <3> QED
      BY <2>1
  <2>3. UNCHANGED <<ballot, status, vote, threshold, dbSigners>> /\ ~ Sent(c) /\ ~ At(c, "idle")
    BY <1>4 DEF CollectProofs, Sent, Unsent
  <2> QED
    BY <2>1, <2>2, <2>3
<1>5. CASE SendCall(c)
  BY <1>5 DEF SendCall
<1>6. CASE PersistHash(c)
  BY <1>6 DEF PersistHash
<1>7. CASE ReadReceipt(c)
  BY <1>7 DEF ReadReceipt
<1>8. CASE MarkExecuted(c)
  <2>1. RecordExecution(TxOf(c), c) /\ ~ At(c, "idle") /\ UNCHANGED ballot
        /\ caller'[c].proofs = caller[c].proofs
    BY <1>8 DEF MarkExecuted
  <2> QED
    BY <1>0, <2>1, RecordWrites
<1>9. CASE FailBeforeHash(c)
  BY <1>9 DEF FailBeforeHash
<1>10. CASE ConditionalRevertToPending(c)
  BY <1>0, <1>10 DEF ConditionalRevertToPending
<1>11. CASE Crash(c)
  BY <1>11 DEF Crash
<1>12. QED
  BY <1>1, <1>2, <1>3, <1>4, <1>5, <1>6, <1>7, <1>8, <1>9, <1>10, <1>11 DEF CallStep

\* The pass lists rows that exist and writes the status of rows it has listed.
LEMMA ReconWrites ==
    ASSUME TypeOK,
           \/ ListRowsWithHash \/ ListStaleRows \/ EndPass
           \/ \E t \in TxId, hash \in Call : ReconRow(t, hash)
           \/ \E t \in TxId : ResetStaleRow(t)
    PROVE  /\ UNCHANGED <<ballot, caller>>
           /\ \A row \in recon'.list : row \in recon.list \/ ~ Unborn(row[1])
           /\ \A u \in TxId : \/ status'[u] = status[u]
                              \/ /\ status'[u] \in {"PENDING", "EXECUTED"}
                                 /\ \E row \in recon.list : row[1] = u
           /\ \A u \in TxId, v \in Commitment :
                  \/ vote'[u][v] = vote[u][v]
                  \/ vote'[u][v] = "NONE" /\ MayLoseVotes(v)
           /\ OnlyTransfers => UNCHANGED <<threshold, dbSigners>>
<1> USE DEF TypeOK, db, onChain, Unlist, ResetRow
<1>1. CASE ListRowsWithHash
  BY <1>1 DEF ListRowsWithHash, Unborn
<1>2. CASE ListStaleRows
  BY <1>2 DEF ListStaleRows, Stale, Unborn
<1>3. CASE EndPass
  BY <1>3 DEF EndPass
<1>4. CASE \E t \in TxId, hash \in Call : ReconcileSuccess(t, hash)
  <2>1. PICK t \in TxId, hash \in Call : ReconcileSuccess(t, hash)
    BY <1>4
  <2>2. /\ RecordExecution(t, hash) /\ <<t, hash>> \in recon.list
        /\ UNCHANGED <<ballot, caller>> /\ recon'.list \subseteq recon.list
    BY <2>1 DEF ReconcileSuccess
  <2>3. <<t, hash>>[1] = t
    OBVIOUS
  <2> QED
    BY <2>2, <2>3, RecordWrites
<1>5. CASE \E t \in TxId, hash \in Call : ReconcileReverted(t, hash)
  <2>1. PICK t \in TxId, hash \in Call : ReconcileReverted(t, hash)
    BY <1>5
  <2>2. <<t, hash>> \in recon.list /\ <<t, hash>>[1] = t
    BY <2>1 DEF ReconcileReverted
  <2> QED
    BY <2>1, <2>2 DEF ReconcileReverted
<1>6. CASE \E t \in TxId, hash \in Call : SkipRow(t, hash)
  BY <1>6 DEF SkipRow
<1>7. CASE \E t \in TxId : ResetStaleRow(t)
  <2>1. PICK t \in TxId : ResetStaleRow(t)
    BY <1>7
  <2>2. <<t, NoHash>> \in recon.list /\ <<t, NoHash>>[1] = t
    BY <2>1 DEF ResetStaleRow
  <2> QED
    BY <2>1, <2>2 DEF ResetStaleRow
<1>8. QED
  BY <1>1, <1>2, <1>3, <1>4, <1>5, <1>6, <1>7 DEF ReconRow

\* Before the first row nothing is voted on.
LEMMA LifeInit == Init => LifeInv
BY DEF Init, LifeInv, UnbornUntouched, CreatorAlone, VotersUndecided, Unborn, At

\* What the steps of calls, blocks and the pass have in common for these three.
LEMMA LifeKept ==
    ASSUME TypeOK, LifeInv, UNCHANGED ballot,
           \A t \in TxId : Unborn(t) => status'[t] = status[t],
           \A t \in TxId : ~ Unborn(t) => ~ Unborn(t)',
           \A t \in TxId, v \in Commitment : vote[t][v] = "NONE" => vote'[t][v] = "NONE",
           \A t \in TxId, c \in Call : Unborn(t) /\ TxOf(c)' = t => At(c, "idle")',
           \A row \in recon'.list : ~ Unborn(row[1])
    PROVE  LifeInv'
<1> USE DEF LifeInv
<1>1. UnbornUntouched'
  <2>1. ASSUME NEW t \in TxId, Unborn(t)'
        PROVE  Unborn(t)
    BY <2>1
  <2>2. \A t \in TxId : Unborn(t)' => \A row \in recon'.list : row[1] # t
    BY <2>1
  <2> QED
    BY <2>1, <2>2 DEF UnbornUntouched
<1>2. CreatorAlone'
  BY DEF CreatorAlone, Unborn
<1>3. VotersUndecided'
  BY DEF VotersUndecided
<1> QED
  BY <1>1, <1>2, <1>3

\* The voters' own steps.
LEMMA LifeVoter ==
    ASSUME TypeOK, LifeInv, NEW t \in TxId, NEW v \in Commitment, VoterStep(t, v)
    PROVE  LifeInv'
<1> USE DEF TypeOK, db, onChain, GoTo, LifeInv, UnbornUntouched, CreatorAlone, VotersUndecided,
            Unborn, At, TxOf
<1>1. CASE Propose(t, v)
  BY <1>1 DEF Propose
<1>2. CASE Create(t, v)
  BY <1>2 DEF Create
<1>3. CASE StartApprove(t, v)
  BY <1>3 DEF StartApprove, MayVote
<1>4. CASE RecordApproval(t, v)
  BY <1>4 DEF RecordApproval
<1>5. CASE StartDeny(t, v)
  BY <1>5 DEF StartDeny, MayVote
<1>6. CASE RecordDenial(t, v)
  BY <1>6 DEF RecordDenial
<1>7. CASE CountVotes(t, v)
  BY <1>7 DEF CountVotes
<1>8. CASE WriteFailed(t, v)
  BY <1>8 DEF WriteFailed
<1>9. CASE AbandonBallot(t, v)
  BY <1>9 DEF AbandonBallot
<1>10. QED
  BY <1>1, <1>2, <1>3, <1>4, <1>5, <1>6, <1>7, <1>8, <1>9 DEF VoterStep

\* A block touches neither the tables nor the memory of the handlers.
LEMMA MineWrites ==
    ASSUME NEW ch \in Chain, Mine(ch)
    PROVE  UNCHANGED <<status, txHash, threshold, vote, dbSigners, ballot, caller, recon>>
BY DEF Mine, db

LEMMA LifeStep == TypeOK /\ LifeInv /\ [Next]_vars => LifeInv'
<1> SUFFICES ASSUME TypeOK, LifeInv, [Next]_vars PROVE LifeInv'
  OBVIOUS
<1>0. /\ \A row \in recon.list : ~ Unborn(row[1])
      /\ \A t \in TxId, c \in Call : Unborn(t) /\ TxOf(c) = t => At(c, "idle")
  BY DEF TypeOK, LifeInv, UnbornUntouched
<1>1. ASSUME NEW c \in Call, NEW t \in TxId, ReadRow(c, t)
      PROVE  LifeInv'
  <2>1. UNCHANGED <<status, vote, ballot, recon>> /\ ~ Unborn(t)
    BY <1>1 DEF ReadRow, db, Unborn
  <2>2. \A d \in Call : \/ caller'[d] = caller[d]
                        \/ TxOf(d)' = t
    BY <1>1 DEF ReadRow, TypeOK, TxOf
  <2>3. \A u \in TxId, d \in Call : Unborn(u) /\ TxOf(d)' = u => At(d, "idle")'
    BY <1>0, <2>1, <2>2 DEF TxOf, At
  <2>4. \A u \in TxId : Unborn(u)' = Unborn(u)
    BY <2>1 DEF Unborn
  <2> QED
    BY <1>0, <2>1, <2>3, <2>4, LifeKept
<1>2. ASSUME NEW c \in Call, CallStep(c)
      PROVE  LifeInv'
  <2>1. /\ ~ At(c, "idle") /\ UNCHANGED ballot
        /\ \A u \in TxId : \/ status'[u] = status[u]
                           \/ u = TxOf(c) /\ status'[u] \in {"PENDING", "EXECUTING", "EXECUTED"}
        /\ \A u \in TxId, v \in Commitment :
               \/ vote'[u][v] = vote[u][v]
               \/ vote[u][v] = "PENDING" /\ vote'[u][v] \in {"AGGREGATED", "FAILED"}
               \/ vote'[u][v] = "NONE" /\ MayLoseVotes(v)
    BY <1>2, CallWrites
  <2>2. /\ UNCHANGED recon
        /\ \A d \in Call : /\ d # c => caller'[d] = caller[d]
                           /\ TxOf(d)' = TxOf(d)
    BY <1>2, CallEffect
  <2>3. TxOf(c) \in TxId /\ ~ Unborn(TxOf(c))
    BY <1>0, <2>1 DEF TypeOK, TxOf
  <2>4. /\ \A u \in TxId : Unborn(u) => status'[u] = status[u]
        /\ \A u \in TxId : ~ Unborn(u) => ~ Unborn(u)'
    BY <2>1, <2>3 DEF Unborn
  <2>5. \A u \in TxId, d \in Call : Unborn(u) /\ TxOf(d)' = u => At(d, "idle")'
    BY <1>0, <2>2, <2>3 DEF At
  <2>6. \A u \in TxId, v \in Commitment : vote[u][v] = "NONE" => vote'[u][v] = "NONE"
    BY <2>1
  <2> QED
    BY <1>0, <2>1, <2>2, <2>4, <2>5, <2>6, LifeKept
<1>3. CASE \/ ListRowsWithHash \/ ListStaleRows \/ EndPass
           \/ \E t \in TxId, hash \in Call : ReconRow(t, hash)
           \/ \E t \in TxId : ResetStaleRow(t)
  <2>1. /\ UNCHANGED <<ballot, caller>>
        /\ \A row \in recon'.list : row \in recon.list \/ ~ Unborn(row[1])
        /\ \A u \in TxId : \/ status'[u] = status[u]
                           \/ /\ status'[u] \in {"PENDING", "EXECUTED"}
                              /\ \E row \in recon.list : row[1] = u
        /\ \A u \in TxId, v \in Commitment :
               \/ vote'[u][v] = vote[u][v]
               \/ vote'[u][v] = "NONE" /\ MayLoseVotes(v)
    BY <1>3, ReconWrites
  <2>2. /\ \A u \in TxId : Unborn(u) => status'[u] = status[u]
        /\ \A u \in TxId : ~ Unborn(u) => ~ Unborn(u)'
    BY <1>0, <2>1 DEF Unborn
  <2>3. \A u \in TxId, d \in Call : Unborn(u) /\ TxOf(d)' = u => At(d, "idle")'
    BY <1>0, <2>1 DEF At, TxOf
  <2>4. \A u \in TxId, v \in Commitment : vote[u][v] = "NONE" => vote'[u][v] = "NONE"
    BY <2>1
  <2> QED
    BY <1>0, <2>1, <2>2, <2>3, <2>4, LifeKept
<1>4. ASSUME NEW ch \in Chain, Mine(ch)
      PROVE  LifeInv'
  BY <1>4, MineWrites DEF LifeInv, UnbornUntouched, CreatorAlone, VotersUndecided, Unborn, At, TxOf
<1>5. CASE UNCHANGED vars
  BY <1>5 DEF vars, db, LifeInv, UnbornUntouched, CreatorAlone, VotersUndecided, Unborn, At, TxOf
<1> QED
  BY <1>1, <1>2, <1>3, <1>4, <1>5, LifeVoter DEF Next

----------------------------------------------------------------------------
(* Denials and proofs. The removal of a denier deletes its vote, so that it *)
(* could deny, once added again, after its proof was collected; as long as  *)
(* no transaction of the system removes a denier, its vote is its only one. *)

DeniersStay == \A v \in Deniers : ~ MayLoseVotes(v)

DenialsAreOfDeniers ==
    \A t \in TxId, v \in Commitment : vote[t][v] = "DENIED" => v \in Deniers

CollectedStayAggregated ==
    \A c \in Call, v \in Deniers :
        v \in caller[c].proofs => vote[TxOf(c)][v] = "AGGREGATED"

DenyInv == DenialsAreOfDeniers /\ CollectedStayAggregated

\* A voter writes the first vote of its own.
LEMMA VoterWrites ==
    ASSUME TypeOK, LifeInv, NEW t \in TxId, NEW v \in Commitment, VoterStep(t, v)
    PROVE  \A u \in TxId, x \in Commitment :
               \/ vote'[u][x] = vote[u][x]
               \/ /\ u = t /\ x = v /\ vote[u][x] = "NONE"
                  /\ vote'[u][x] = "PENDING" \/ (vote'[u][x] = "DENIED" /\ v \in Deniers)
<1> USE DEF TypeOK, db, onChain, GoTo, LifeInv, UnbornUntouched, CreatorAlone, VotersUndecided,
            Unborn
<1>1. CASE Propose(t, v)
  BY <1>1 DEF Propose
<1>2. CASE Create(t, v)
  BY <1>2 DEF Create
<1>3. CASE \/ StartApprove(t, v) \/ StartDeny(t, v) \/ CountVotes(t, v) \/ WriteFailed(t, v)
           \/ AbandonBallot(t, v)
  BY <1>3 DEF StartApprove, StartDeny, CountVotes, WriteFailed, AbandonBallot
<1>4. CASE RecordApproval(t, v)
  BY <1>4 DEF RecordApproval
<1>5. CASE v \in Deniers /\ RecordDenial(t, v)
  BY <1>5 DEF RecordDenial
<1>6. QED
  BY <1>1, <1>2, <1>3, <1>4, <1>5 DEF VoterStep

LEMMA DenyInit == Init => DenyInv
BY DEF Init, DenyInv, DenialsAreOfDeniers, CollectedStayAggregated

\* Proofs that are the same, or collected now, stay those of aggregated votes, when
\* the votes of deniers change only from NONE and from PENDING.
LEMMA DenyKept ==
    ASSUME TypeOK, DenyInv,
           \A t \in TxId, v \in Commitment :
               \/ vote'[t][v] = vote[t][v]
               \/ vote[t][v] \in {"NONE", "PENDING"} /\ (vote'[t][v] = "DENIED" => v \in Deniers)
               \/ vote'[t][v] = "NONE" /\ v \notin Deniers,
           \A c \in Call :
               \/ caller'[c].proofs = caller[c].proofs /\ TxOf(c)' = TxOf(c)
               \/ caller'[c].proofs = {}
               \/ /\ TxOf(c)' = TxOf(c) /\ UNCHANGED vote
                  /\ caller'[c].proofs = {v \in Commitment : vote[TxOf(c)][v] = "AGGREGATED"}
    PROVE  DenyInv'
<1>1. DenialsAreOfDeniers'
  BY DEF DenyInv, DenialsAreOfDeniers
<1>2. ASSUME NEW c \in Call, NEW v \in Deniers, v \in caller'[c].proofs
      PROVE  vote'[TxOf(c)'][v] = "AGGREGATED"
  <2>1. TxOf(c) \in TxId /\ v \in Commitment
    BY VotersType DEF TypeOK, TxOf
  <2>2. CASE caller'[c].proofs = caller[c].proofs /\ TxOf(c)' = TxOf(c)
    <3>1. vote[TxOf(c)][v] = "AGGREGATED"
      BY <1>2, <2>2 DEF DenyInv, CollectedStayAggregated
    <3>2. vote'[TxOf(c)][v] = vote[TxOf(c)][v]
      BY <2>1, <3>1
    <3> QED
      BY <2>2, <3>1, <3>2
  <2>3. CASE /\ TxOf(c)' = TxOf(c) /\ UNCHANGED vote
             /\ caller'[c].proofs = {x \in Commitment : vote[TxOf(c)][x] = "AGGREGATED"}
    BY <1>2, <2>3
  <2> QED
    BY <1>2, <2>2, <2>3
<1> QED
  BY <1>1, <1>2 DEF DenyInv, CollectedStayAggregated

LEMMA DenyStep ==
    ASSUME DeniersStay, TypeOK, LifeInv, DenyInv, [Next]_vars
    PROVE  DenyInv'
<1>1. ASSUME NEW t \in TxId, NEW v \in Commitment, VoterStep(t, v)
      PROVE  DenyInv'
  <2>1. UNCHANGED caller
    BY <1>1, VoterEffect
  <2> QED
    BY <1>1, <2>1, VoterWrites, DenyKept DEF TxOf
<1>2. ASSUME NEW c \in Call, NEW t \in TxId, ReadRow(c, t)
      PROVE  DenyInv'
  <2>1. UNCHANGED vote /\ \A d \in Call : caller'[d] = caller[d] \/ caller'[d].proofs = {}
    BY <1>2 DEF ReadRow, db, TypeOK
  <2> QED
    BY <2>1, DenyKept DEF TxOf
<1>3. ASSUME NEW c \in Call, CallStep(c)
      PROVE  DenyInv'
  <2>1. /\ \A d \in Call : d # c => caller'[d] = caller[d]
        /\ \A d \in Call : TxOf(d)' = TxOf(d)
    BY <1>3, CallEffect
  <2>2. /\ \A u \in TxId, v \in Commitment :
               \/ vote'[u][v] = vote[u][v]
               \/ vote[u][v] = "PENDING" /\ vote'[u][v] \in {"AGGREGATED", "FAILED"}
               \/ vote'[u][v] = "NONE" /\ MayLoseVotes(v)
        /\ \/ caller'[c].proofs = caller[c].proofs
           \/ /\ UNCHANGED vote
              /\ caller'[c].proofs = {v \in Commitment : vote[TxOf(c)][v] = "AGGREGATED"}
    BY <1>3, CallWrites
  <2> QED
    BY <2>1, <2>2, DenyKept DEF DeniersStay
<1>4. CASE \/ ListRowsWithHash \/ ListStaleRows \/ EndPass
           \/ \E t \in TxId, hash \in Call : ReconRow(t, hash)
           \/ \E t \in TxId : ResetStaleRow(t)
  <2>1. /\ UNCHANGED caller
        /\ \A u \in TxId, v \in Commitment :
               \/ vote'[u][v] = vote[u][v]
               \/ vote'[u][v] = "NONE" /\ MayLoseVotes(v)
    BY <1>4, ReconWrites
  <2> QED
    BY <2>1, DenyKept DEF DeniersStay, TxOf
<1>5. ASSUME NEW ch \in Chain, Mine(ch)
      PROVE  DenyInv'
  BY <1>5, MineWrites DEF DenyInv, DenialsAreOfDeniers, CollectedStayAggregated, TxOf
<1>6. CASE UNCHANGED vars
  BY <1>6 DEF vars, db, DenyInv, DenialsAreOfDeniers, CollectedStayAggregated, TxOf
<1> QED
  BY <1>1, <1>2, <1>3, <1>4, <1>5, <1>6 DEF Next

LEMMA AlwaysLife == Spec => [](TypeOK /\ LifeInv)
<1>1. Init => TypeOK /\ LifeInv
  BY TypeInit, LifeInit
<1>2. TypeOK /\ LifeInv /\ [Next]_vars => (TypeOK /\ LifeInv)'
  BY TypeStep, LifeStep
<1> QED
  BY <1>1, <1>2, PTL DEF Spec

LEMMA AlwaysDeny == DeniersStay /\ Spec => []DenyInv
<1> SUFFICES ASSUME DeniersStay PROVE Spec => []DenyInv
  OBVIOUS
<1>1. Init => DenyInv
  BY DenyInit
<1>2. TypeOK /\ LifeInv /\ DenyInv /\ [Next]_vars => DenyInv'
  BY DenyStep
<1> QED
  BY <1>1, <1>2, AlwaysLife, PTL DEF Spec

\* Nobody's proof is used on chain while the table says that they denied: between
\* the collection of the proofs and the block, and after it, their votes stay.
THEOREM DenialsAreNotCounted == DeniersStay /\ Spec => []DeniersNotCounted
<1>1. DenyInv /\ TypeOK => DeniersNotCounted
  <2> SUFFICES ASSUME DenyInv, TypeOK, NEW c \in Call, NEW v \in Commitment,
                      v \in caller[c].proofs, vote[TxOf(c)][v] = "DENIED"
               PROVE  FALSE
    BY DEF DeniersNotCounted
  <2>1. v \in Deniers
    BY DEF DenyInv, DenialsAreOfDeniers, TypeOK, TxOf
  <2> QED
    BY <2>1 DEF DenyInv, CollectedStayAggregated
<1> QED
  BY <1>1, AlwaysDeny, TypeCorrect, PTL

----------------------------------------------------------------------------
(* Failure and success. A pending row takes over the threshold of a        *)
(* governance transaction when that is recorded, and this may be after a   *)
(* call with fewer proofs was mined but not recorded, so the two counts    *)
(* exclude each other only while membership and threshold stay as deployed. *)

Members(t) == Signers(Deployed[AccountOf[t]])
Required(t) == Deployed[AccountOf[t]].signaturesRequired
Denied(t) == {v \in Commitment : vote[t][v] = "DENIED"}

\* Too few members are left who have not denied.
Doomed(t) == Cardinality(Members(t) \ Denied(t)) < Required(t)

AsDeployed ==
    /\ dbSigners = [a \in Account |-> Signers(Deployed[a])]
    /\ \A a \in Account : /\ wallet[a].copies = Deployed[a].copies
                          /\ wallet[a].signaturesRequired = Deployed[a].signaturesRequired
    /\ \A t \in TxId : status[t] # "ABSENT" => threshold[t] = Required(t)

VotersAreMembers ==
    \A t \in TxId, v \in Commitment :
        ballot[t][v] # "idle" \/ vote[t][v] # "NONE" => v \in Members(t)

FailedAreDoomed ==
    \A t \in TxId :
        status[t] = "FAILED" \/ (\E v \in Commitment : ballot[t][v] = "failing") => Doomed(t)

SuccessHadQuorum ==
    \A c \in Call : result[c] = "success" =>
        /\ caller[c].proofs \subseteq Members(TxOf(c))
        /\ Cardinality(caller[c].proofs) >= Required(TxOf(c))

FailInv == AsDeployed /\ VotersAreMembers /\ FailedAreDoomed /\ SuccessHadQuorum

\* Sets of signers are finite, and the deployed thresholds are numbers.
LEMMA MembersFinite ==
    ASSUME NEW t \in TxId
    PROVE  /\ Members(t) \subseteq Commitment
           /\ \A S \in SUBSET Commitment : IsFiniteSet(S) /\ Cardinality(S) \in Nat
           /\ Required(t) \in Nat
<1>1. \A S \in SUBSET Commitment : IsFiniteSet(S)
  BY CommitmentFinite, FS_Subset
<1>2. \A S \in SUBSET Commitment : Cardinality(S) \in Nat
  BY <1>1, FS_CardinalityType
<1>3. Members(t) \subseteq Commitment
  BY DEF Members, Signers
<1>4. Deployed[AccountOf[t]] \in WalletType
  BY RowCall, DeployedType
<1> QED
  BY <1>1, <1>2, <1>3, <1>4 DEF Required, WalletType

\* The count of checkIfFailed is the number of members who have not denied.
LEMMA CountIsOfMembers ==
    ASSUME TypeOK, AsDeployed, VotersAreMembers, NEW t \in TxId
    PROVE  MaxPossibleApproves(t) = Cardinality(Members(t) \ Denied(t))
<1> DEFINE A == ApprovalsOf(t)
           V == VotersOf(t)
           D == Denied(t)
           M == Members(t)
<1>1. dbSigners[AccountOf[t]] = M
  BY RowCall DEF AsDeployed, Members
<1>2. A \cup D = V /\ A \cap D = {} /\ D \subseteq M /\ M \subseteq Commitment
      /\ A \subseteq Commitment /\ D \subseteq Commitment
  BY MembersFinite DEF ApprovalsOf, VotersOf, Denied, VotersAreMembers
<1>3. /\ IsFiniteSet(A) /\ IsFiniteSet(D) /\ IsFiniteSet(M) /\ IsFiniteSet(M \ D)
      /\ Cardinality(A) \in Nat /\ Cardinality(D) \in Nat /\ Cardinality(M) \in Nat
      /\ Cardinality(M \ D) \in Nat
  BY <1>2, MembersFinite
<1>4. Cardinality(V) = Cardinality(A) + Cardinality(D)
  <2>1. Cardinality({}) = 0
    BY FS_EmptySet
  <2>2. Cardinality(A \cup D) = Cardinality(A) + Cardinality(D) - Cardinality(A \cap D)
    BY <1>3, FS_Union
  <2>3. Cardinality(A \cap D) = 0 /\ Cardinality(A \cup D) = Cardinality(V)
    <3>1. A \cap D = {} /\ A \cup D = V
      BY <1>2
    <3> QED
      BY <2>1, <3>1, Zenon
  <2> HIDE DEF A, D, V, M
  <2> QED
    BY <1>3, <2>2, <2>3
<1>5. Cardinality(M \ D) = Cardinality(M) - Cardinality(D)
  <2>1. M \cap D = D
    BY <1>2
  <2>2. Cardinality(M \ D) = Cardinality(M) - Cardinality(M \cap D)
    BY <1>3, FS_Difference
  <2> QED
    BY <2>1, <2>2
<1>6. MaxPossibleApproves(t) = Cardinality(A) + Cardinality(M) - Cardinality(V)
  BY <1>1 DEF MaxPossibleApproves
<1> HIDE DEF A, V, D, M
<1>7. MaxPossibleApproves(t) = Cardinality(M \ D)
  BY <1>3, <1>4, <1>5, <1>6
<1> QED
  BY <1>7 DEF M, D

\* A call that succeeds gives one proof for each of its voters, all of them signers,
\* and at least as many as the contract requires.
LEMMA SuccessQuorum ==
    ASSUME TypeOK, NEW c \in Call, WouldSucceed(c)
    PROVE  LET w == wallet[AccountOfCall(c)]
           IN  /\ caller[c].proofs \subseteq Signers(w)
               /\ Cardinality(caller[c].proofs) >= w.signaturesRequired
<1> DEFINE S == caller[c].proofs
           voters == SetToSeq(S)
           w == wallet[AccountOfCall(c)]
<1>1. S \subseteq Commitment /\ TxOf(c) \in TxId
  BY DEF TypeOK, TxOf
<1>2. IsFiniteSet(S) /\ Cardinality(S) \in Nat
  BY <1>1, MembersFinite
<1>3. PICK n \in Nat : ExistsBijection(1 .. n, S)
  BY <1>2, FS_NatBijection
<1>4. Cardinality(S) = n
  BY <1>2, <1>3, FS_CountingElements
<1>5. voters \in [1 .. n -> S] /\ IsInjective(voters)
  <2>1. \E f \in [1 .. n -> S] : IsInjective(f)
    BY <1>3 DEF ExistsBijection, Bijection, Injection
  <2> QED
    BY <1>4, <2>1 DEF SetToSeq
<1>6. voters \in Surjection(1 .. n, S)
  <2>1. voters \in Injection(1 .. n, S)
    BY <1>5 DEF Injection, IsInjective
  <2>2. Cardinality(1 .. n) = Cardinality(S)
    BY <1>4, IndexCardinality
  <2> QED
    BY <1>2, <2>1, <2>2, FS_Injection
<1>7. /\ DOMAIN ProofsOf(c) = 1 .. n
      /\ \A i \in 1 .. n : ProofsOf(c)[i].commitment = voters[i]
  BY <1>5 DEF ProofsOf
<1>8. Len(ProofsOf(c)) = n
  <2>1. ProofsOf(c) \in Seq(ZkProof)
    BY ProofsOfType
  <2> QED
    BY <1>7, <2>1
<1>9. \A i \in 1 .. n : w.copies[ProofsOf(c)[i].commitment] > 0
  BY <1>7 DEF WouldSucceed, ExecuteSucceeds, ProofsAccepted, IsCurrentSigner
<1>10. S \subseteq Signers(w)
  BY <1>1, <1>6, <1>7, <1>9 DEF Surjection, Signers
<1>11. Len(ProofsOf(c)) >= w.signaturesRequired
  BY DEF WouldSucceed, ExecuteSucceeds, EnoughProofs
<1> QED
  BY <1>4, <1>8, <1>10, <1>11

\* Without governance only the voters decide, and only they create rows; the rest
\* moves rows that exist and settles pending votes.
LEMMA OthersWrite ==
    ASSUME OnlyTransfers, TypeOK, LifeInv, [Next]_vars,
           ~ \E t \in TxId, v \in Commitment : VoterStep(t, v)
    PROVE  /\ UNCHANGED <<ballot, threshold, dbSigners>>
           /\ \A u \in TxId : Unborn(u) => status'[u] = status[u]
           /\ \A u \in TxId : status'[u] = "FAILED" => status[u] = "FAILED"
           /\ \A u \in TxId, v \in Commitment :
                  \/ vote'[u][v] = vote[u][v]
                  \/ vote[u][v] = "PENDING" /\ vote'[u][v] \in {"AGGREGATED", "FAILED"}
<1>0. \A v \in Commitment : ~ MayLoseVotes(v)
  BY DEF OnlyTransfers, MayLoseVotes
<1>1. ASSUME NEW c \in Call, NEW t \in TxId, ReadRow(c, t)
      PROVE  UNCHANGED <<status, vote, ballot, threshold, dbSigners>>
  BY <1>1 DEF ReadRow, db
<1>2. ASSUME NEW c \in Call, CallStep(c)
      PROVE  /\ ~ Unborn(TxOf(c)) /\ UNCHANGED <<ballot, threshold, dbSigners>>
             /\ \A u \in TxId : \/ status'[u] = status[u]
                                \/ u = TxOf(c) /\ status'[u] \in {"PENDING", "EXECUTING", "EXECUTED"}
             /\ \A u \in TxId, v \in Commitment :
                    \/ vote'[u][v] = vote[u][v]
                    \/ vote[u][v] = "PENDING" /\ vote'[u][v] \in {"AGGREGATED", "FAILED"}
  <2>1. ~ Unborn(TxOf(c))
    <3>1. TxOf(c) \in TxId /\ ~ At(c, "idle")
      BY <1>2, CallWrites DEF TypeOK, TxOf
    <3> QED
      BY <3>1 DEF LifeInv, UnbornUntouched
  <2> QED
    BY <1>0, <1>2, <2>1, CallWrites
<1>3. CASE \/ ListRowsWithHash \/ ListStaleRows \/ EndPass
           \/ \E t \in TxId, hash \in Call : ReconRow(t, hash)
           \/ \E t \in TxId : ResetStaleRow(t)
  <2>1. \A row \in recon.list : ~ Unborn(row[1])
    BY DEF TypeOK, LifeInv, UnbornUntouched
  <2> QED
    BY <1>0, <1>3, <2>1, ReconWrites
<1>4. ASSUME NEW ch \in Chain, Mine(ch)
      PROVE  UNCHANGED <<status, vote, ballot, threshold, dbSigners>>
  BY <1>4, MineWrites
<1>5. CASE UNCHANGED vars
  BY <1>5 DEF vars, db
<1> QED
  BY <1>1, <1>2, <1>3, <1>4, <1>5 DEF Next

\* A payment changes neither signers nor threshold.
LEMMA TransferKeepsSigners ==
    ASSUME OnlyTransfers, TypeOK, NEW c \in Call, WouldSucceed(c)
    PROVE  LET w == wallet[AccountOfCall(c)]
               after == AfterExecute(w, ContractCall[TxOf(c)], ProofsOf(c))
           IN  after.copies = w.copies /\ after.signaturesRequired = w.signaturesRequired
<1> DEFINE w == wallet[AccountOfCall(c)]
           tx == ContractCall[TxOf(c)]
           m == MarkSpent(w, tx, ProofsOf(c))
<1>1. w \in WalletType /\ tx \in Transactions /\ TxOf(c) \in TxId
  BY AccountOfType, ContractCallType DEF TypeOK, TxOf, AccountOfCall
<1>2. /\ m \in WalletType /\ m.copies = w.copies /\ m.balance = w.balance
      /\ m.signaturesRequired = w.signaturesRequired
  BY <1>1, ProofsOfType, MarkSpentType
<1>3. tx.kind = "transfer" /\ TransferAccepts(w, tx.pay)
  BY <1>1 DEF WouldSucceed, ExecuteSucceeds, CallSucceeds, OnlyTransfers
<1>4. TransferAccepts(m, tx.pay) /\ tx.pay \in [Asset -> Nat]
  BY <1>1, <1>2, <1>3, TxFields DEF TransferAccepts
<1>5. AfterCall(m, tx) = Transfer(m, tx.pay)
  BY <1>3 DEF AfterCall
<1> QED
  BY <1>2, <1>4, <1>5, TransferEffect DEF AfterExecute

LEMMA AsDeployedStep ==
    ASSUME OnlyTransfers, TypeOK, LifeInv, AsDeployed, [Next]_vars
    PROVE  AsDeployed'
<1>1. UNCHANGED dbSigners
  <2>1. ASSUME NEW t \in TxId, NEW v \in Commitment, VoterStep(t, v)
        PROVE  UNCHANGED dbSigners
    BY <2>1 DEF VoterStep, Propose, Create, StartApprove, RecordApproval, StartDeny, RecordDenial,
                CountVotes, WriteFailed, AbandonBallot, db
  <2> QED
    BY <2>1, OthersWrite
<1>2. ASSUME NEW a \in Account
      PROVE  /\ wallet'[a].copies = wallet[a].copies
             /\ wallet'[a].signaturesRequired = wallet[a].signaturesRequired
  <2>1. ASSUME NEW ch \in Chain, Mine(ch)
        PROVE  /\ wallet'[a].copies = wallet[a].copies
               /\ wallet'[a].signaturesRequired = wallet[a].signaturesRequired
    <3>1. PICK c \in Call :
              \/ UNCHANGED wallet
              \/ /\ WouldSucceed(c)
                 /\ wallet' = [wallet EXCEPT ![AccountOfCall(c)] =
                        AfterExecute(@, ContractCall[TxOf(c)], ProofsOf(c))]
      BY <2>1, BlockEffect
    <3>2. CASE WouldSucceed(c) /\ wallet' = [wallet EXCEPT ![AccountOfCall(c)] =
                        AfterExecute(@, ContractCall[TxOf(c)], ProofsOf(c))]
      <4>1. \/ wallet'[a] = wallet[a]
            \/ /\ a = AccountOfCall(c)
               /\ wallet'[a] = AfterExecute(wallet[a], ContractCall[TxOf(c)], ProofsOf(c))
        BY <3>2 DEF TypeOK
      <4> QED
        BY <3>2, <4>1, TransferKeepsSigners
    <3> QED
      BY <3>1, <3>2
  <2>2. ASSUME NEW t \in TxId, NEW v \in Commitment, VoterStep(t, v)
        PROVE  UNCHANGED wallet
    BY <2>2, VoterEffect
  <2>3. ASSUME NEW c \in Call, NEW t \in TxId, ReadRow(c, t)
        PROVE  UNCHANGED wallet
    BY <2>3, ReadRowEffect
  <2>4. ASSUME NEW c \in Call, CallStep(c)
        PROVE  UNCHANGED wallet
    BY <2>4, CallEffect
  <2>5. CASE UNCHANGED vars
    BY <2>5 DEF vars, onChain
  <2> QED
    BY <2>1, <2>2, <2>3, <2>4, <2>5, ReconEffect DEF Next
<1>3. ASSUME NEW u \in TxId, status'[u] # "ABSENT"
      PROVE  threshold'[u] = Required(u)
  <2>1. ASSUME NEW t \in TxId, NEW v \in Commitment, VoterStep(t, v)
        PROVE  \/ status[u] # "ABSENT" /\ threshold'[u] = threshold[u]
               \/ threshold'[u] = wallet[AccountOf[u]].signaturesRequired
    <3> USE <1>3 DEF TypeOK, db, onChain, GoTo, LifeInv, UnbornUntouched, CreatorAlone, Unborn
    <3>1. CASE Propose(t, v)
      BY <3>1 DEF Propose
    <3>2. CASE Create(t, v)
      BY <3>2 DEF Create
    <3>3. CASE \/ StartApprove(t, v) \/ RecordApproval(t, v) \/ StartDeny(t, v)
               \/ RecordDenial(t, v) \/ CountVotes(t, v)
      BY <3>3 DEF StartApprove, RecordApproval, StartDeny, RecordDenial, CountVotes
    <3>4. CASE WriteFailed(t, v)
      <4>1. ~ Unborn(t)
        BY <3>4 DEF WriteFailed
      <4> QED
        BY <3>4, <4>1 DEF WriteFailed
    <3>5. CASE AbandonBallot(t, v)
      BY <3>5 DEF AbandonBallot
    <3> QED
      BY <2>1, <3>1, <3>2, <3>3, <3>4, <3>5 DEF VoterStep
  <2>2. CASE ~ \E t \in TxId, v \in Commitment : VoterStep(t, v)
    BY <1>3, <2>2, OthersWrite DEF Unborn, AsDeployed, Required
  <2>3. wallet[AccountOf[u]].signaturesRequired = Required(u)
    BY RowCall DEF AsDeployed, Required
  <2> QED
    BY <2>1, <2>2, <2>3 DEF AsDeployed
<1> QED
  BY <1>1, <1>2, <1>3 DEF AsDeployed, Required

LEMMA MembersStep ==
    ASSUME OnlyTransfers, TypeOK, LifeInv, AsDeployed, VotersAreMembers, [Next]_vars
    PROVE  VotersAreMembers'
<1>1. ASSUME NEW t \in TxId, NEW v \in Commitment, VoterStep(t, v),
             NEW u \in TxId, NEW x \in Commitment, ballot'[u][x] # "idle" \/ vote'[u][x] # "NONE"
      PROVE  x \in Members(u)
  <2>1. \/ vote[u][x] # "NONE" \/ ballot[u][x] # "idle"
        \/ x \in dbSigners[AccountOf[u]]
    <3> USE <1>1 DEF TypeOK, db, onChain, GoTo
    <3>1. CASE Propose(t, v)
      BY <3>1 DEF Propose
    <3>2. CASE StartApprove(t, v) \/ StartDeny(t, v)
      <4>1. /\ UNCHANGED vote /\ v \in dbSigners[AccountOf[t]]
            /\ \A y \in TxId, z \in Commitment :
                   ballot'[y][z] = ballot[y][z] \/ (y = t /\ z = v)
        BY <3>2 DEF StartApprove, StartDeny, MayVote
      <4>2. (u = t /\ x = v) \/ (ballot'[u][x] = ballot[u][x] /\ vote'[u][x] = vote[u][x])
        BY <4>1
      <4> QED
        BY <1>1, <4>1, <4>2
    <3>3. CASE \/ Create(t, v) \/ RecordApproval(t, v) \/ RecordDenial(t, v)
               \/ CountVotes(t, v) \/ WriteFailed(t, v) \/ AbandonBallot(t, v)
      <4>1. /\ ballot[t][v] # "idle"
            /\ \A y \in TxId, z \in Commitment :
                   \/ ballot'[y][z] = ballot[y][z] /\ vote'[y][z] = vote[y][z]
                   \/ y = t /\ z = v
        BY <3>3 DEF Create, RecordApproval, RecordDenial, CountVotes, WriteFailed, AbandonBallot
      <4>2. (u = t /\ x = v) \/ (ballot'[u][x] = ballot[u][x] /\ vote'[u][x] = vote[u][x])
        BY <4>1
      <4> QED
        BY <1>1, <4>1, <4>2
    <3> QED
      BY <1>1, <3>1, <3>2, <3>3 DEF VoterStep
  <2>2. dbSigners[AccountOf[u]] = Members(u)
    BY RowCall DEF AsDeployed, Members
  <2> QED
    BY <2>1, <2>2 DEF VotersAreMembers
<1>2. CASE ~ \E t \in TxId, v \in Commitment : VoterStep(t, v)
  BY <1>2, OthersWrite DEF VotersAreMembers, Members
<1> QED
  BY <1>1, <1>2 DEF VotersAreMembers, Members

\* A member who denies leaves fewer who have not.
LEMMA DoomedStays ==
    ASSUME NEW t \in TxId, NEW D \in SUBSET Commitment, NEW E \in SUBSET Commitment, D \subseteq E,
           Cardinality(Members(t) \ D) < Required(t)
    PROVE  Cardinality(Members(t) \ E) < Required(t)
<1>1. /\ Members(t) \ D \in SUBSET Commitment
      /\ Members(t) \ E \in SUBSET (Members(t) \ D)
  BY MembersFinite
<1>2. IsFiniteSet(Members(t) \ D) /\ Cardinality(Members(t) \ D) \in Nat /\ Required(t) \in Nat
      /\ Cardinality(Members(t) \ E) \in Nat
  BY <1>1, MembersFinite
<1>3. Cardinality(Members(t) \ E) <= Cardinality(Members(t) \ D)
  BY <1>1, <1>2, FS_Subset
<1> QED
  BY <1>2, <1>3

LEMMA DoomedStep ==
    ASSUME OnlyTransfers, TypeOK, LifeInv, AsDeployed, VotersAreMembers, FailedAreDoomed, [Next]_vars
    PROVE  FailedAreDoomed'
<1>1. \A u \in TxId, x \in Commitment : vote[u][x] = "DENIED" => vote'[u][x] = "DENIED"
  <2>1. ASSUME NEW t \in TxId, NEW v \in Commitment, VoterStep(t, v)
        PROVE  \A u \in TxId, x \in Commitment : vote[u][x] = "DENIED" => vote'[u][x] = "DENIED"
    BY <2>1, VoterWrites
  <2> QED
    BY <2>1, OthersWrite
<1>2. ASSUME NEW u \in TxId, Doomed(u)
      PROVE  Doomed(u)'
  <2>1. PICK D \in SUBSET Commitment : D = Denied(u)
    BY DEF Denied
  <2>2. PICK E \in SUBSET Commitment : E = Denied(u)'
    BY DEF Denied
  <2>3. D \subseteq E
    BY <1>1, <2>1, <2>2 DEF Denied
  <2>4. Cardinality(Members(u) \ D) < Required(u)
    BY <1>2, <2>1 DEF Doomed
  <2>5. Cardinality(Members(u) \ E) < Required(u)
    BY <2>3, <2>4, DoomedStays
  <2> QED
    BY <2>2, <2>5 DEF Doomed, Members, Required
<1>3. ASSUME NEW t \in TxId, NEW v \in Commitment, VoterStep(t, v), NEW u \in TxId,
             status'[u] = "FAILED" \/ \E x \in Commitment : ballot'[u][x] = "failing"
      PROVE  Doomed(u)'
  <2>1. \/ status[u] = "FAILED"
        \/ \E x \in Commitment : ballot[u][x] = "failing"
        \/ u = t /\ CountVotes(t, v) /\ MaxPossibleApproves(t) < threshold[t]
    <3> USE DEF TypeOK, db, onChain, GoTo
    <3>1. CASE Propose(t, v)
      BY <1>3, <3>1 DEF Propose
    <3>2. CASE Create(t, v)
      BY <1>3, <3>2 DEF Create
    <3>3. CASE StartApprove(t, v) \/ RecordApproval(t, v) \/ StartDeny(t, v) \/ RecordDenial(t, v)
      BY <1>3, <3>3 DEF StartApprove, RecordApproval, StartDeny, RecordDenial
    <3>4. CASE CountVotes(t, v)
      BY <1>3, <3>4 DEF CountVotes
    <3>5. CASE WriteFailed(t, v)
      BY <1>3, <3>5 DEF WriteFailed
    <3>6. CASE AbandonBallot(t, v)
      BY <1>3, <3>6 DEF AbandonBallot
    <3> QED
      BY <1>3, <3>1, <3>2, <3>3, <3>4, <3>5, <3>6 DEF VoterStep
  <2>2. CASE status[u] = "FAILED" \/ \E x \in Commitment : ballot[u][x] = "failing"
    BY <1>2, <2>2 DEF FailedAreDoomed
  <2>3. CASE u = t /\ CountVotes(t, v) /\ MaxPossibleApproves(t) < threshold[t]
    <3>1. ballot[t][v] = "counting"
      BY <2>3 DEF CountVotes
    <3>2. status[t] # "ABSENT"
      BY <3>1 DEF LifeInv, UnbornUntouched, Unborn
    <3>3. threshold[t] = Required(t)
      BY <3>2 DEF AsDeployed
    <3>4. Doomed(t)
      BY <2>3, <3>3, CountIsOfMembers DEF Doomed
    <3> QED
      BY <1>2, <2>3, <3>4
  <2> QED
    BY <2>1, <2>2, <2>3
<1>4. CASE ~ \E t \in TxId, v \in Commitment : VoterStep(t, v)
  <2> SUFFICES ASSUME NEW u \in TxId,
                      status'[u] = "FAILED" \/ \E x \in Commitment : ballot'[u][x] = "failing"
               PROVE  Doomed(u)'
    BY DEF FailedAreDoomed
  <2>1. status[u] = "FAILED" \/ \E x \in Commitment : ballot[u][x] = "failing"
    BY <1>4, OthersWrite
  <2> QED
    BY <1>2, <2>1 DEF FailedAreDoomed
<1> QED
  BY <1>3, <1>4 DEF FailedAreDoomed

LEMMA QuorumStep ==
    ASSUME IInv, AsDeployed, SuccessHadQuorum, [Next]_vars
    PROVE  SuccessHadQuorum'
<1> SUFFICES ASSUME NEW c \in Call, result'[c] = "success"
             PROVE  /\ caller'[c].proofs \subseteq Members(TxOf(c)')
                    /\ Cardinality(caller'[c].proofs) >= Required(TxOf(c)')
  BY DEF SuccessHadQuorum, Members, Required
<1>0. TypeOK /\ TxOf(c) \in TxId
  BY DEF IInv, TypeOK, TxOf
<1>1. CASE result[c] = "success"
  <2>1. Sent(c)
    BY <1>1 DEF IInv, ReceiptsAreOfSent
  <2>2. TxOf(c)' = TxOf(c)
    BY <1>0, <2>1, SentStays
  <2>3. caller'[c].proofs = caller[c].proofs
    <3>1. ASSUME NEW t \in TxId, NEW v \in Commitment, VoterStep(t, v)
          PROVE  UNCHANGED caller
      BY <1>0, <3>1, VoterEffect
    <3>2. ASSUME NEW d \in Call, NEW t \in TxId, ReadRow(d, t)
          PROVE  caller'[c] = caller[c]
      BY <1>0, <2>1, <3>2, ReadRowEffect
    <3>3. ASSUME NEW d \in Call, CallStep(d)
          PROVE  caller'[c].proofs = caller[c].proofs
      <4>1. CASE d = c
        BY <1>0, <2>1, <3>3, <4>1, CallWrites
      <4>2. CASE d # c
        BY <1>0, <3>3, <4>2, CallEffect
      <4> QED
        BY <4>1, <4>2
    <3>4. ASSUME NEW ch \in Chain, Mine(ch)
          PROVE  UNCHANGED caller
      BY <3>4, MineWrites
    <3>5. CASE UNCHANGED vars
      BY <3>5 DEF vars
    <3> QED
      BY <1>0, <3>1, <3>2, <3>3, <3>4, <3>5, ReconEffect DEF Next
  <2> QED
    BY <1>1, <2>2, <2>3 DEF SuccessHadQuorum
<1>2. CASE result[c] # "success"
  <2>1. \E ch \in Chain : Mine(ch)
    <3>1. ASSUME NEW t \in TxId, NEW v \in Commitment, VoterStep(t, v)
          PROVE  UNCHANGED result
      BY <1>0, <3>1, VoterEffect
    <3>2. ASSUME NEW d \in Call, NEW t \in TxId, ReadRow(d, t)
          PROVE  UNCHANGED result
      BY <1>0, <3>2, ReadRowEffect
    <3>3. ASSUME NEW d \in Call, CallStep(d)
          PROVE  UNCHANGED result
      BY <1>0, <3>3, CallEffect
    <3>4. ASSUME UNCHANGED vars PROVE UNCHANGED result
      BY <3>4 DEF vars, onChain
    <3> QED
      BY <1>0, <1>2, <3>1, <3>2, <3>3, <3>4, ReconEffect DEF Next
  <2>2. UNCHANGED caller /\ WouldSucceed(c)
    BY <1>0, <1>2, <2>1, BlockEffect DEF TypeOK
  <2>3. /\ caller[c].proofs \subseteq Signers(wallet[AccountOfCall(c)])
        /\ Cardinality(caller[c].proofs) >= wallet[AccountOfCall(c)].signaturesRequired
    BY <1>0, <2>2, SuccessQuorum
  <2>4. /\ Signers(wallet[AccountOfCall(c)]) = Members(TxOf(c))
        /\ wallet[AccountOfCall(c)].signaturesRequired = Required(TxOf(c))
    BY <1>0, RowCall DEF AsDeployed, AccountOfCall, Members, Required, Signers
  <2> QED
    BY <2>2, <2>3, <2>4 DEF TxOf
<1> QED
  BY <1>1, <1>2

LEMMA FailInit == Init => FailInv
<1> SUFFICES ASSUME Init PROVE FailInv
  OBVIOUS
<1>1. AsDeployed
  BY DEF Init, AsDeployed
<1>2. VotersAreMembers /\ FailedAreDoomed /\ SuccessHadQuorum
  BY DEF Init, VotersAreMembers, FailedAreDoomed, SuccessHadQuorum
<1> QED
  BY <1>1, <1>2 DEF FailInv

LEMMA AlwaysFail == OnlyTransfers /\ Spec => []FailInv
<1> SUFFICES ASSUME OnlyTransfers PROVE Spec => []FailInv
  OBVIOUS
<1>1. IInv /\ TypeOK /\ LifeInv /\ FailInv /\ [Next]_vars => FailInv'
  BY AsDeployedStep, MembersStep, DoomedStep, QuorumStep DEF FailInv
<1> QED
  BY <1>1, FailInit, AlwaysLife, InductiveInvariant, PTL DEF Spec

\* A transaction that the voters have made impossible is not executed, before or after
\* the row says FAILED: whatever the order of denials, approvals, counts, collections
\* and blocks, a quorum of proofs and the denials counted have a voter in common.
THEOREM FailedIsNotExecuted == OnlyTransfers /\ Spec => []FailedNeverExecutes
<1>1. OnlyTransfers => DeniersStay
  BY DEF OnlyTransfers, DeniersStay, MayLoseVotes
<1>2. TypeOK /\ DenyInv /\ FailInv => FailedNeverExecutes
  <2> SUFFICES ASSUME TypeOK, DenyInv, FailInv, NEW c \in Call, result[c] = "success",
                      status[TxOf(c)] = "FAILED"
               PROVE  FALSE
    BY DEF FailedNeverExecutes
  <2> DEFINE t == TxOf(c)
             P == caller[c].proofs
  <2>1. t \in TxId /\ P \subseteq Commitment
    BY DEF TypeOK, TxOf
  <2>2. P \subseteq Members(t) /\ Cardinality(P) >= Required(t)
    BY DEF FailInv, SuccessHadQuorum
  <2>3. Cardinality(Members(t) \ Denied(t)) < Required(t)
    BY <2>1 DEF FailInv, FailedAreDoomed, Doomed
  <2>4. P \cap Denied(t) = {}
    <3> SUFFICES ASSUME NEW v \in P, vote[t][v] = "DENIED" PROVE FALSE
      BY DEF Denied
    <3>1. v \in Deniers
      BY <2>1 DEF DenyInv, DenialsAreOfDeniers
    <3> QED
      BY <3>1 DEF DenyInv, CollectedStayAggregated
  <2>5. /\ P \in SUBSET (Members(t) \ Denied(t))
        /\ Members(t) \ Denied(t) \in SUBSET Commitment
    BY <2>1, <2>2, <2>4, MembersFinite
  <2>6. /\ IsFiniteSet(Members(t) \ Denied(t)) /\ Cardinality(Members(t) \ Denied(t)) \in Nat
        /\ Cardinality(P) \in Nat /\ Required(t) \in Nat
    BY <2>1, <2>5, MembersFinite
  <2>7. Cardinality(P) <= Cardinality(Members(t) \ Denied(t))
    BY <2>5, <2>6, FS_Subset
  <2> HIDE DEF P, t
  <2> QED
    BY <2>2, <2>3, <2>6, <2>7
<1> QED
  BY <1>1, <1>2, TypeCorrect, AlwaysDeny, AlwaysFail, PTL

----------------------------------------------------------------------------
(* The signer table and the contract. Both are what the additions and the  *)
(* removals make of the deployed signers: the contract of those that have  *)
(* succeeded, the table of some of them, which include those of the rows   *)
(* that say EXECUTED. A row may say so, be reset and be recorded again.    *)

Additions(a, v) ==
    {t \in TxId : AccountOf[t] = a /\ ContractCall[t].kind = "addSigners" /\ v \in Listed(t)}
Removals(a, v) ==
    {t \in TxId : AccountOf[t] = a /\ ContractCall[t].kind = "removeSigners" /\ v \in Listed(t)}

DistinctlyDeployed == \A a \in Account : NoDuplicates(Deployed[a])

\* No transaction adds to an account whom another removes from it.
Commuting ==
    \A a \in Account, v \in Commitment : Additions(a, v) = {} \/ Removals(a, v) = {}

Succeeded(t) == \E c \in Call : TxOf(c) = t /\ result[c] = "success"

ContractSigners ==
    \A a \in Account :
        /\ NoDuplicates(wallet[a])
        /\ \A v \in Commitment :
               v \in Signers(wallet[a]) <=>
                   /\ v \in Signers(Deployed[a]) \/ \E t \in Additions(a, v) : Succeeded(t)
                   /\ ~ \E t \in Removals(a, v) : Succeeded(t)

TableNotAhead ==
    \A a \in Account, v \in Commitment :
        v \in dbSigners[a] =>
            /\ v \in Signers(Deployed[a]) \/ \E t \in Additions(a, v) : Succeeded(t)
            /\ ~ \E t \in Removals(a, v) : status[t] = "EXECUTED"

TableNotBehind ==
    \A a \in Account, v \in Commitment :
        /\ v \in Signers(Deployed[a]) \/ \E t \in Additions(a, v) : status[t] = "EXECUTED"
        /\ ~ \E t \in Removals(a, v) : Succeeded(t)
        => v \in dbSigners[a]

MirrorInv == ContractSigners /\ TableNotAhead /\ TableNotBehind

SignersStay ==
    /\ UNCHANGED <<wallet, dbSigners>>
    /\ \A u \in TxId : Succeeded(u)' <=> Succeeded(u)
    /\ \A u \in TxId : status'[u] = "EXECUTED" => status[u] = "EXECUTED"

RowRecorded(t) ==
    /\ Succeeded(t)
    /\ UNCHANGED wallet
    /\ dbSigners' = [dbSigners EXCEPT ![AccountOf[t]] = SignersAfter(t, @)]
    /\ \A u \in TxId : Succeeded(u)' <=> Succeeded(u)
    /\ \A u \in TxId : u # t => status'[u] = status[u]

CallMined(c) ==
    /\ WouldSucceed(c)
    /\ UNCHANGED <<status, dbSigners>>
    /\ wallet' = [wallet EXCEPT ![AccountOfCall(c)] =
           AfterExecute(@, ContractCall[TxOf(c)], ProofsOf(c))]
    /\ \A u \in TxId : Succeeded(u)' <=> Succeeded(u) \/ u = TxOf(c)

\* What each step does to signers: nothing, the record of a row that has succeeded, or
\* the success of a row on chain.
LEMMA MirrorEffect ==
    ASSUME IInv, [Next]_vars
    PROVE  \/ SignersStay
           \/ \E t \in TxId : RowRecorded(t)
           \/ \E c \in Call : CallMined(c)
<1>0. /\ TypeOK
      /\ \A c \in Call : result[c] = "success" => TxOf(c)' = TxOf(c)
  BY SentStays DEF IInv, ReceiptsAreOfSent
<1>1. ASSUME UNCHANGED result PROVE \A u \in TxId : Succeeded(u)' <=> Succeeded(u)
  BY <1>0, <1>1 DEF Succeeded
<1>2. ASSUME NEW t \in TxId, NEW hash \in Call, RecordExecution(t, hash), UNCHANGED <<wallet, result>>,
             TxOf(hash) = t, result[hash] = "success"
      PROVE  RowRecorded(t)
  <2>1. Succeeded(t)
    BY <1>2 DEF Succeeded
  <2>2. \A u \in TxId : u # t => status'[u] = status[u]
    BY <1>0, <1>2, RecordWrites
  <2>3. dbSigners' = [dbSigners EXCEPT ![AccountOf[t]] = SignersAfter(t, @)]
    BY <1>2 DEF RecordExecution
  <2> QED
    BY <1>1, <1>2, <2>1, <2>2, <2>3 DEF RowRecorded
<1>3. ASSUME NEW t \in TxId, NEW v \in Commitment, VoterStep(t, v)
      PROVE  SignersStay
  <2>1. UNCHANGED dbSigners
    BY <1>3 DEF VoterStep, Propose, Create, StartApprove, RecordApproval, StartDeny, RecordDenial,
                CountVotes, WriteFailed, AbandonBallot, db
  <2> QED
    BY <1>0, <1>1, <1>3, <2>1, VoterEffect DEF SignersStay
<1>4. ASSUME NEW c \in Call, NEW t \in TxId, ReadRow(c, t)
      PROVE  SignersStay
  <2>1. UNCHANGED <<wallet, dbSigners, status, result>>
    BY <1>4 DEF ReadRow, db, onChain
  <2> QED
    BY <1>1, <2>1 DEF SignersStay
<1>5. ASSUME NEW c \in Call, CallStep(c)
      PROVE  SignersStay \/ \E t \in TxId : RowRecorded(t)
  <2>1. UNCHANGED <<wallet, result>>
    BY <1>0, <1>5, CallEffect
  <2>2. CASE MarkExecuted(c)
    <3>1. /\ RecordExecution(TxOf(c), c) /\ result[c] = "success"
          /\ TxOf(c) \in TxId
      BY <1>0, <2>2 DEF MarkExecuted, IInv, MinedSucceeded, TypeOK, TxOf
    <3> QED
      BY <1>2, <2>1, <3>1
  <2>3. CASE ~ MarkExecuted(c)
    <3>1. UNCHANGED dbSigners
      BY <1>5, <2>3 DEF CallStep, MarkExecuting, PollJob, NoneStillPending, CollectProofs, SendCall,
               PersistHash, ReadReceipt, FailBeforeHash, ConditionalRevertToPending, Crash, db
    <3>2. \A u \in TxId : status'[u] = "EXECUTED" => status[u] = "EXECUTED"
      <4>1. \/ UNCHANGED status
            \/ status' = [status EXCEPT ![TxOf(c)] = "EXECUTING"]
            \/ status' = [status EXCEPT ![TxOf(c)] = "PENDING"]
        BY <1>5, <2>3 DEF CallStep, MarkExecuting, PollJob, NoneStillPending, CollectProofs, SendCall,
               PersistHash, ReadReceipt, FailBeforeHash, ConditionalRevertToPending, Crash, db
      <4> QED
        BY <1>0, <4>1 DEF TypeOK
    <3> QED
      BY <1>1, <2>1, <3>1, <3>2 DEF SignersStay
  <2> QED
    BY <2>2, <2>3
<1>6. ASSUME \E t \in TxId, hash \in Call : ReconcileSuccess(t, hash)
      PROVE  \E t \in TxId : RowRecorded(t)
  <2>1. PICK t \in TxId, hash \in Call : ReconcileSuccess(t, hash)
    BY <1>6
  <2>2. /\ RecordExecution(t, hash) /\ UNCHANGED <<wallet, result>>
        /\ <<t, hash>> \in recon.list /\ result[hash] = "success"
    BY <2>1 DEF ReconcileSuccess, onChain
  <2>3. TxOf(hash) = t
    BY <2>2, NoHashType DEF IInv, ListedAreOfSent
  <2> QED
    BY <1>2, <2>2, <2>3
<1>7. ASSUME \/ ListRowsWithHash \/ ListStaleRows \/ EndPass
             \/ \E t \in TxId, hash \in Call : ReconcileReverted(t, hash) \/ SkipRow(t, hash)
             \/ \E t \in TxId : ResetStaleRow(t)
      PROVE  SignersStay
  <2>1. UNCHANGED <<wallet, dbSigners, result>>
    BY <1>7 DEF ListRowsWithHash, ListStaleRows, EndPass, ReconcileReverted, SkipRow, ResetStaleRow,
                ResetRow, db, onChain
  <2>2. UNCHANGED status \/ \E t \in TxId : status' = [status EXCEPT ![t] = "PENDING"]
    BY <1>7 DEF ListRowsWithHash, ListStaleRows, EndPass, ReconcileReverted, SkipRow, ResetStaleRow,
                ResetRow, db, onChain
  <2> QED
    BY <1>0, <1>1, <2>1, <2>2 DEF TypeOK, SignersStay
<1>8. ASSUME NEW ch \in Chain, Mine(ch)
      PROVE  SignersStay \/ \E c \in Call : CallMined(c)
  <2>1. PICK c \in Call :
            /\ pool[ch] # << >> /\ c = Head(pool[ch])
            /\ \/ /\ result' = [result EXCEPT ![c] = "reverted"]
                  /\ UNCHANGED wallet
               \/ /\ WouldSucceed(c)
                  /\ result' = [result EXCEPT ![c] = "success"]
                  /\ wallet' = [wallet EXCEPT ![AccountOfCall(c)] =
                         AfterExecute(@, ContractCall[TxOf(c)], ProofsOf(c))]
    BY <1>0, <1>8, BlockEffect
  <2>2. UNCHANGED <<status, dbSigners, caller>>
    BY <1>8, MineWrites
  <2>3. result[c] = "none"
    <3>1. pool[ch] \in Seq(Call) /\ IsInjective(pool[ch])
      BY <1>0 DEF TypeOK, IInv, PoolHoldsSent
    <3>2. c \in Range(pool[ch])
      BY <2>1, <3>1, TailOnce
    <3> QED
      BY <3>2 DEF IInv, PoolHoldsSent
  <2>4. /\ \A d \in Call : d # c => result'[d] = result[d]
        /\ \A d \in Call : TxOf(d)' = TxOf(d)
    BY <1>0, <2>1, <2>2 DEF TypeOK, TxOf
  <2>5. CASE result' = [result EXCEPT ![c] = "reverted"] /\ UNCHANGED wallet
    <3>1. result'[c] = "reverted"
      BY <1>0, <2>5 DEF TypeOK
    <3>2. \A d \in Call : result'[d] = "success" <=> result[d] = "success"
      BY <2>3, <2>4, <3>1
    <3> QED
      BY <2>2, <2>4, <2>5, <3>2 DEF Succeeded, SignersStay
  <2>6. CASE /\ WouldSucceed(c)
             /\ result' = [result EXCEPT ![c] = "success"]
             /\ wallet' = [wallet EXCEPT ![AccountOfCall(c)] =
                    AfterExecute(@, ContractCall[TxOf(c)], ProofsOf(c))]
    <3>1. result'[c] = "success"
      BY <1>0, <2>6 DEF TypeOK
    <3>2. \A d \in Call : result'[d] = "success" <=> result[d] = "success" \/ d = c
      BY <2>4, <3>1
    <3>3. \A u \in TxId : Succeeded(u)' <=> Succeeded(u) \/ u = TxOf(c)
      BY <2>4, <3>2 DEF Succeeded
    <3> QED
      BY <2>2, <2>6, <3>3 DEF CallMined
  <2> QED
    BY <2>1, <2>5, <2>6
<1>9. ASSUME UNCHANGED vars PROVE SignersStay
  <2>1. UNCHANGED <<wallet, dbSigners, status, result>>
    BY <1>9 DEF vars, db, onChain
  <2> QED
    BY <1>1, <2>1 DEF SignersStay
<1> QED
  BY <1>3, <1>4, <1>5, <1>6, <1>7, <1>8, <1>9 DEF Next, ReconRow

\* A call mined adds or removes the members of its list, and keeps the rest.
LEMMA MinedSigners ==
    ASSUME TypeOK, NEW c \in Call, WouldSucceed(c), NoDuplicates(wallet[AccountOfCall(c)])
    PROVE  LET w == wallet[AccountOfCall(c)]
               t == TxOf(c)
               after == AfterExecute(w, ContractCall[t], ProofsOf(c))
           IN  /\ NoDuplicates(after)
               /\ Signers(after) = SignersAfter(t, Signers(w))
<1> DEFINE w == wallet[AccountOfCall(c)]
           tx == ContractCall[TxOf(c)]
           m == MarkSpent(w, tx, ProofsOf(c))
<1>1. w \in WalletType /\ tx \in Transactions
  BY AccountOfType, ContractCallType DEF TypeOK, TxOf, AccountOfCall
<1>2. /\ m \in WalletType /\ m.copies = w.copies /\ m.length = w.length
      /\ m.balance = w.balance
  BY <1>1, ProofsOfType, MarkSpentType
<1>3. CallSucceeds(m, tx)
  BY <1>2 DEF WouldSucceed, ExecuteSucceeds, CallSucceeds, AddSignersAccepts,
              RemoveSignersAccepts, UpdateSignaturesRequiredAccepts, TransferAccepts
<1>4. NoDuplicates(m) /\ Signers(m) = Signers(w)
  BY <1>2 DEF NoDuplicates, Signers
<1>5. /\ NoDuplicates(AfterCall(m, tx))
      /\ Signers(AfterCall(m, tx)) =
             CASE tx.kind = "addSigners"    -> Signers(w) \cup Range(tx.list)
               [] tx.kind = "removeSigners" -> Signers(w) \ Range(tx.list)
               [] OTHER                     -> Signers(w)
  <2> HIDE DEF m, tx, w
  <2>1. NoDuplicates(m) /\ m \in WalletType /\ tx \in Transactions /\ CallSucceeds(m, tx)
    BY <1>1, <1>2, <1>3, <1>4
  <2>2. /\ NoDuplicates(AfterCall(m, tx))
        /\ Signers(AfterCall(m, tx)) =
               CASE tx.kind = "addSigners"    -> Signers(m) \cup Range(tx.list)
                 [] tx.kind = "removeSigners" -> Signers(m) \ Range(tx.list)
                 [] OTHER                     -> Signers(m)
    BY <2>1, AfterCallSigners
  <2> QED
    BY <1>4, <2>2
<1> QED
  BY <1>5 DEF AfterExecute, SignersAfter, Listed

\* Whom SignersAfter adds is added by a row of the account, and likewise for removals.
LEMMA SignersAfterEffect ==
    ASSUME NEW t \in TxId, NEW people, NEW v \in Commitment
    PROVE  v \in SignersAfter(t, people) <=>
               /\ v \in people \/ t \in Additions(AccountOf[t], v)
               /\ t \notin Removals(AccountOf[t], v)
<1>1. CASE ContractCall[t].kind = "addSigners"
  BY <1>1 DEF SignersAfter, Additions, Removals
<1>2. CASE ContractCall[t].kind = "removeSigners"
  BY <1>2 DEF SignersAfter, Additions, Removals
<1>3. CASE ContractCall[t].kind \notin {"addSigners", "removeSigners"}
  BY <1>3 DEF SignersAfter, Additions, Removals
<1> QED
  BY <1>1, <1>2, <1>3

LEMMA ContractStep ==
    ASSUME Commuting, TypeOK, ContractSigners,
           SignersStay \/ (\E t \in TxId : RowRecorded(t)) \/ (\E c \in Call : CallMined(c))
    PROVE  ContractSigners'
<1>1. CASE SignersStay \/ (\E t \in TxId : RowRecorded(t))
  <2>1. UNCHANGED wallet /\ \A u \in TxId : Succeeded(u)' <=> Succeeded(u)
    BY <1>1 DEF SignersStay, RowRecorded
  <2> QED
    BY <2>1 DEF ContractSigners, Additions, Removals
<1>2. ASSUME NEW c \in Call, CallMined(c)
      PROVE  ContractSigners'
  <2> DEFINE t == TxOf(c)
             a == AccountOf[t]
  <2>1. t \in TxId /\ a \in Account
    BY RowCall DEF TypeOK, TxOf
  <2>2. /\ wallet'[a] = AfterExecute(wallet[a], ContractCall[t], ProofsOf(c))
        /\ \A b \in Account : b # a => wallet'[b] = wallet[b]
        /\ \A u \in TxId : Succeeded(u)' <=> Succeeded(u) \/ u = t
    BY <1>2, <2>1 DEF CallMined, TypeOK, AccountOfCall
  <2>3. NoDuplicates(wallet'[a]) /\ Signers(wallet'[a]) = SignersAfter(t, Signers(wallet[a]))
    BY <1>2, <2>1, <2>2, MinedSigners DEF CallMined, ContractSigners, AccountOfCall
  <2> SUFFICES ASSUME NEW b \in Account
               PROVE  /\ NoDuplicates(wallet'[b])
                      /\ \A v \in Commitment :
                             v \in Signers(wallet'[b]) <=>
                                 /\ v \in Signers(Deployed[b]) \/ \E u \in Additions(b, v) : Succeeded(u)'
                                 /\ ~ \E u \in Removals(b, v) : Succeeded(u)'
    BY DEF ContractSigners, Signers, NoDuplicates, Additions, Removals
  <2>4. CASE b # a
    <3>1. \A v \in Commitment : t \notin Additions(b, v) /\ t \notin Removals(b, v)
      BY <2>4 DEF Additions, Removals
    <3>2. wallet'[b] = wallet[b]
      BY <2>2, <2>4
    <3>3. \A v \in Commitment : /\ \A u \in Additions(b, v) : Succeeded(u)' <=> Succeeded(u)
                                /\ \A u \in Removals(b, v) : Succeeded(u)' <=> Succeeded(u)
      BY <2>2, <3>1 DEF Additions, Removals
    <3> QED
      BY <3>2, <3>3 DEF ContractSigners
  <2>5. CASE b = a
    <3> SUFFICES ASSUME NEW v \in Commitment
                 PROVE  v \in Signers(wallet'[b]) <=>
                            /\ v \in Signers(Deployed[b]) \/ \E u \in Additions(b, v) : Succeeded(u)'
                            /\ ~ \E u \in Removals(b, v) : Succeeded(u)'
      BY <2>3, <2>5
    <3>1. v \in Signers(wallet'[b]) <=>
              (v \in Signers(wallet[b]) \/ t \in Additions(b, v)) /\ t \notin Removals(b, v)
      BY <2>1, <2>3, <2>5, SignersAfterEffect
    <3>2. v \in Signers(wallet[b]) <=>
              /\ v \in Signers(Deployed[b]) \/ \E u \in Additions(b, v) : Succeeded(u)
              /\ ~ \E u \in Removals(b, v) : Succeeded(u)
      BY DEF ContractSigners
    <3>3. /\ (\E u \in Additions(b, v) : Succeeded(u)') <=>
                 (\E u \in Additions(b, v) : Succeeded(u)) \/ t \in Additions(b, v)
          /\ (\E u \in Removals(b, v) : Succeeded(u)') <=>
                 (\E u \in Removals(b, v) : Succeeded(u)) \/ t \in Removals(b, v)
      BY <2>2 DEF Additions, Removals
    <3>4. Additions(b, v) = {} \/ Removals(b, v) = {}
      BY DEF Commuting
    <3> QED
      BY <3>1, <3>2, <3>3, <3>4
  <2> QED
    BY <2>4, <2>5
<1> QED
  BY <1>1, <1>2

LEMMA TableStep ==
    ASSUME Commuting, TypeOK, TableNotAhead, TableNotBehind,
           SignersStay \/ (\E t \in TxId : RowRecorded(t)) \/ (\E c \in Call : CallMined(c))
    PROVE  TableNotAhead' /\ TableNotBehind'
<1>1. CASE SignersStay
  <2>1. /\ UNCHANGED dbSigners
        /\ \A u \in TxId : Succeeded(u)' <=> Succeeded(u)
        /\ \A u \in TxId : status'[u] = "EXECUTED" => status[u] = "EXECUTED"
    BY <1>1 DEF SignersStay
  <2>2. \A a, v : Additions(a, v) \subseteq TxId /\ Removals(a, v) \subseteq TxId
    BY DEF Additions, Removals
  <2> QED
    BY <2>1, <2>2 DEF TableNotAhead, TableNotBehind, Additions, Removals
<1>2. ASSUME NEW c \in Call, CallMined(c)
      PROVE  TableNotAhead' /\ TableNotBehind'
  <2>1. /\ UNCHANGED <<status, dbSigners>>
        /\ \A u \in TxId : Succeeded(u) => Succeeded(u)'
    BY <1>2 DEF CallMined
  <2> QED
    BY <2>1 DEF TableNotAhead, TableNotBehind, Additions, Removals
<1>3. ASSUME NEW t \in TxId, RowRecorded(t)
      PROVE  TableNotAhead' /\ TableNotBehind'
  <2>1. /\ Succeeded(t)
        /\ \A u \in TxId : Succeeded(u)' <=> Succeeded(u)
        /\ \A u \in TxId : u # t => status'[u] = status[u]
    BY <1>3 DEF RowRecorded
  <2>2. \A a \in Account : dbSigners'[a] = IF a = AccountOf[t] THEN SignersAfter(t, dbSigners[a])
                                           ELSE dbSigners[a]
    BY <1>3 DEF RowRecorded, TypeOK
  <2>3. ASSUME NEW a \in Account, NEW v \in Commitment
        PROVE  /\ v \in dbSigners'[a] <=>
                     (v \in dbSigners[a] \/ t \in Additions(a, v)) /\ t \notin Removals(a, v)
               /\ Additions(a, v) \subseteq TxId /\ Removals(a, v) \subseteq TxId
               /\ Additions(a, v) = {} \/ Removals(a, v) = {}
    <3>1. a # AccountOf[t] => t \notin Additions(a, v) /\ t \notin Removals(a, v)
      BY DEF Additions, Removals
    <3>2. v \in dbSigners'[a] <=>
              (v \in dbSigners[a] \/ t \in Additions(a, v)) /\ t \notin Removals(a, v)
      BY <2>2, <3>1, SignersAfterEffect
    <3>3. Additions(a, v) = {} \/ Removals(a, v) = {}
      BY DEF Commuting
    <3> QED
      BY <3>2, <3>3 DEF Additions, Removals
  <2>4. ASSUME NEW a \in Account, NEW v \in Commitment, v \in dbSigners'[a]
        PROVE  /\ v \in Signers(Deployed[a]) \/ \E u \in Additions(a, v) : Succeeded(u)'
               /\ ~ \E u \in Removals(a, v) : status'[u] = "EXECUTED"
    <3>1. CASE t \in Additions(a, v)
      BY <2>1, <2>3, <3>1
    <3>2. CASE t \notin Additions(a, v)
      <4>1. v \in dbSigners[a] /\ t \notin Removals(a, v)
        BY <2>3, <2>4, <3>2
      <4>2. /\ v \in Signers(Deployed[a]) \/ \E u \in Additions(a, v) : Succeeded(u)
            /\ ~ \E u \in Removals(a, v) : status[u] = "EXECUTED"
        BY <4>1 DEF TableNotAhead
      <4> QED
        BY <2>1, <2>3, <4>1, <4>2
    <3> QED
      BY <3>1, <3>2
  <2>5. ASSUME NEW a \in Account, NEW v \in Commitment,
               v \in Signers(Deployed[a]) \/ \E u \in Additions(a, v) : status'[u] = "EXECUTED",
               ~ \E u \in Removals(a, v) : Succeeded(u)'
        PROVE  v \in dbSigners'[a]
    <3>1. t \notin Removals(a, v)
      BY <2>1, <2>5
    <3>2. CASE t \in Additions(a, v)
      BY <2>3, <3>1, <3>2
    <3>3. CASE t \notin Additions(a, v)
      <4>1. /\ v \in Signers(Deployed[a]) \/ \E u \in Additions(a, v) : status[u] = "EXECUTED"
            /\ ~ \E u \in Removals(a, v) : Succeeded(u)
        BY <2>1, <2>3, <2>5, <3>3
      <4>2. v \in dbSigners[a]
        BY <4>1 DEF TableNotBehind
      <4> QED
        BY <2>3, <3>1, <4>2
    <3> QED
      BY <3>2, <3>3
  <2> QED
    BY <2>4, <2>5 DEF TableNotAhead, TableNotBehind, Additions, Removals
<1> QED
  BY <1>1, <1>2, <1>3

LEMMA MirrorInit == DistinctlyDeployed /\ Init => MirrorInv
<1> SUFFICES ASSUME DistinctlyDeployed, Init PROVE MirrorInv
  OBVIOUS
<1>1. /\ wallet = Deployed
      /\ dbSigners = [a \in Account |-> Signers(Deployed[a])]
      /\ \A t \in TxId : ~ Succeeded(t) /\ status[t] # "EXECUTED"
  BY DEF Init, Succeeded
<1>2. \A a, v : Additions(a, v) \subseteq TxId /\ Removals(a, v) \subseteq TxId
  BY DEF Additions, Removals
<1>3. ContractSigners
  BY <1>1, <1>2 DEF ContractSigners, DistinctlyDeployed
<1>4. TableNotAhead /\ TableNotBehind
  BY <1>1, <1>2 DEF TableNotAhead, TableNotBehind
<1> QED
  BY <1>3, <1>4 DEF MirrorInv

LEMMA AlwaysMirror == DistinctlyDeployed /\ Commuting /\ Spec => []MirrorInv
<1> SUFFICES ASSUME DistinctlyDeployed, Commuting PROVE Spec => []MirrorInv
  OBVIOUS
<1>1. IInv /\ MirrorInv /\ [Next]_vars => MirrorInv'
  <2> SUFFICES ASSUME IInv, MirrorInv, [Next]_vars PROVE MirrorInv'
    OBVIOUS
  <2>1. SignersStay \/ (\E t \in TxId : RowRecorded(t)) \/ (\E c \in Call : CallMined(c))
    BY MirrorEffect
  <2>2. TypeOK
    BY DEF IInv
  <2>3. ContractSigners /\ TableNotAhead /\ TableNotBehind
    BY DEF MirrorInv
  <2>4. ContractSigners' /\ TableNotAhead' /\ TableNotBehind'
    BY <2>1, <2>2, <2>3, ContractStep, TableStep
  <2> QED
    BY <2>4 DEF MirrorInv
<1>2. Init => MirrorInv
  BY MirrorInit
<1> QED
  BY <1>1, <1>2, InductiveInvariant, PTL DEF Spec

\* Once every executed call of an account is recorded the signers of the table are the
\* signers of the contract, however often each was recorded, by whom, in what order.
THEOREM SignersAgree == DistinctlyDeployed /\ Commuting /\ Spec => []SignersMirrorChain
<1>1. IInv /\ MirrorInv => SignersMirrorChain
  <2> SUFFICES ASSUME IInv, MirrorInv, NEW a \in Account,
                      \A c \in Call : AccountOfCall(c) = a /\ result[c] = "success"
                                      => status[TxOf(c)] = "EXECUTED"
               PROVE  dbSigners[a] = Signers(wallet[a])
    BY DEF SignersMirrorChain
  <2>1. \A t \in TxId : status[t] = "EXECUTED" => Succeeded(t)
    BY DEF IInv, ExecutedOnChain, Succeeded
  <2>2. \A t \in TxId : AccountOf[t] = a => (Succeeded(t) <=> status[t] = "EXECUTED")
    BY <2>1 DEF Succeeded, AccountOfCall
  <2>3. ASSUME NEW v \in Commitment
        PROVE  v \in dbSigners[a] <=> v \in Signers(wallet[a])
    <3>1. \A t \in Additions(a, v) \cup Removals(a, v) : Succeeded(t) <=> status[t] = "EXECUTED"
      BY <2>2 DEF Additions, Removals
    <3> QED
      BY <3>1 DEF MirrorInv, ContractSigners, TableNotAhead, TableNotBehind
  <2>4. dbSigners[a] \subseteq Commitment /\ Signers(wallet[a]) \subseteq Commitment
    BY DEF IInv, TypeOK, Signers
  <2> QED
    BY <2>3, <2>4
<1> QED
  BY <1>1, AlwaysMirror, InductiveInvariant, PTL

----------------------------------------------------------------------------
(* A recorded execution is opened again only where two requests for the row *)
(* meet. Of a row with one request the following is known, until a second   *)
(* starts: a write that comes late, or a receipt of an older listing, is     *)
(* that request's own; and if the pass lists the row as stale, its request   *)
(* has ended, since while waiting it would have saved its hash.              *)

Working(c) == ~ At(c, "idle")

Alone(t) == \A c, d \in Call : Working(c) /\ Working(d) /\ TxOf(c) = t /\ TxOf(d) = t => c = d

WaitingHashSaved ==
    \A c \in Call : /\ Alone(TxOf(c)) /\ caller[c].pc \in {"waiting", "mined"}
                    /\ status[TxOf(c)] = "EXECUTING"
                    => txHash[TxOf(c)] = c

ExecutingHasCall ==
    \A t \in TxId : status[t] = "EXECUTING" => \E c \in Call : TxOf(c) = t /\ Working(c)

StaleHaveEnded ==
    \A t \in TxId : Alone(t) /\ recon.phase = "stale" /\ <<t, NoHash>> \in recon.list =>
        /\ status[t] # "EXECUTED"
        /\ \E c \in Call : TxOf(c) = t /\ At(c, "done")

FinalInv == WaitingHashSaved /\ ExecutingHasCall /\ StaleHaveEnded

LEMMA FinalInit == Init => FinalInv
BY DEF Init, FinalInv, WaitingHashSaved, ExecutingHasCall, StaleHaveEnded,
       Working, At, TxOf

\* A voter's request changes the status of rows that no call has, and otherwise only
\* the last of the denials does.
LEMMA VoterMoves ==
    ASSUME TypeOK, LifeInv, NEW t \in TxId, NEW v \in Commitment, VoterStep(t, v)
    PROVE  \A u \in TxId :
               /\ status'[u] = "EXECUTING" => status[u] = "EXECUTING"
               /\ status[u] = "EXECUTED" =>
                      status'[u] = "EXECUTED" \/ (status'[u] = "FAILED" /\ v \in Deniers)
<1> USE DEF TypeOK, db, onChain
<1>1. CASE Propose(t, v)
  BY <1>1 DEF Propose
<1>2. CASE Create(t, v)
  BY <1>2 DEF Create, LifeInv, CreatorAlone
<1>3. CASE \/ StartApprove(t, v) \/ RecordApproval(t, v) \/ StartDeny(t, v)
           \/ RecordDenial(t, v) \/ CountVotes(t, v)
  BY <1>3 DEF StartApprove, RecordApproval, StartDeny, RecordDenial, CountVotes
<1>4. CASE v \in Deniers /\ WriteFailed(t, v)
  BY <1>4 DEF WriteFailed
<1>5. CASE AbandonBallot(t, v)
  BY <1>5 DEF AbandonBallot, LifeInv, CreatorAlone
<1>6. QED
  BY <1>1, <1>2, <1>3, <1>4, <1>5 DEF VoterStep

\* A call that is under way writes its own row only: EXECUTING at its start, its hash
\* before it waits, PENDING over EXECUTING, or EXECUTED at its end.
LEMMA CallMoves ==
    ASSUME TypeOK, NEW c \in Call, CallStep(c)
    PROVE  /\ Working(c) /\ Working(c)' /\ ~ At(c, "done")
           /\ \A u \in TxId : u # TxOf(c) => status'[u] = status[u] /\ txHash'[u] = txHash[u]
           /\ \/ /\ At(c, "read") /\ status'[TxOf(c)] = "EXECUTING"
                 /\ caller'[c].pc = "aggregating"
              \/ /\ status'[TxOf(c)] = status[TxOf(c)]
                 /\ \/ txHash'[TxOf(c)] = c
                    \/ /\ txHash'[TxOf(c)] = txHash[TxOf(c)]
                       /\ caller'[c].pc \in {"waiting", "mined"} =>
                              caller[c].pc \in {"waiting", "mined"}
              \/ status[TxOf(c)] = "EXECUTING" /\ status'[TxOf(c)] = "PENDING"
              \/ At(c, "mined") /\ status'[TxOf(c)] = "EXECUTED"
<1> USE DEF TypeOK, db, onChain, At, Working, TxOf
<1>0. TxOf(c) \in TxId
  OBVIOUS
<1>1. CASE MarkExecuting(c)
  BY <1>0, <1>1 DEF MarkExecuting, Step
<1>2. ASSUME NEW v \in Commitment, NEW outcome \in {"AGGREGATED", "FAILED"}, PollJob(c, v, outcome)
      PROVE  UNCHANGED <<status, txHash, caller>> /\ At(c, "aggregating")
  BY <1>2 DEF PollJob
<1>3. CASE NoneStillPending(c)
  BY <1>3 DEF NoneStillPending, Step
<1>4. CASE CollectProofs(c)
  <2>1. PICK stage \in {"reverting", "ready"}, got \in SUBSET Commitment :
            caller' = [caller EXCEPT ![c].pc = stage, ![c].proofs = got]
    BY <1>4 DEF CollectProofs
  <2>2. At(c, "aggregated") /\ UNCHANGED <<status, txHash>>
    BY <1>4 DEF CollectProofs
  <2>3. caller'[c].pc = stage
    BY <2>1
  <2> QED
    BY <2>2, <2>3
<1>5. CASE SendCall(c)
  BY <1>5 DEF SendCall, Step
<1>6. CASE PersistHash(c)
  BY <1>0, <1>6 DEF PersistHash, Step
<1>7. CASE ReadReceipt(c)
  BY <1>7 DEF ReadReceipt, Step
<1>8. CASE MarkExecuted(c)
  <2>1. /\ status' = [status EXCEPT ![TxOf(c)] = "EXECUTED"]
        /\ txHash' = [txHash EXCEPT ![TxOf(c)] = c]
    BY <1>8 DEF MarkExecuted, RecordExecution
  <2> QED
    BY <1>0, <1>8, <2>1 DEF MarkExecuted, Step
<1>9. CASE FailBeforeHash(c)
  BY <1>9 DEF FailBeforeHash, Step
<1>10. CASE ConditionalRevertToPending(c)
  BY <1>0, <1>10 DEF ConditionalRevertToPending, Step
<1>11. CASE Crash(c)
  BY <1>11 DEF Crash, Step
<1>12. QED
  BY <1>1, <1>2, <1>3, <1>4, <1>5, <1>6, <1>7, <1>8, <1>9, <1>10, <1>11 DEF CallStep

\* A request starts without touching the other requests or the rows.
LEMMA StartMoves ==
    ASSUME TypeOK, NEW c \in Call, NEW t \in TxId, ReadRow(c, t)
    PROVE  /\ At(c, "idle")
           /\ \A d \in Call : d # c => caller'[d] = caller[d]
           /\ TxOf(c)' = t /\ At(c, "read")'
           /\ UNCHANGED <<status, txHash, recon>>
BY DEF ReadRow, TypeOK, db, At, TxOf

\* A request that works stays on its row: alone after a step, alone before it.
LEMMA StaysAlone ==
    ASSUME \A d \in Call : Working(d) => Working(d)' /\ TxOf(d)' = TxOf(d),
           NEW t, Alone(t)'
    PROVE  Alone(t)
<1> SUFFICES ASSUME NEW d \in Call, NEW e \in Call, Working(d), Working(e), TxOf(d) = t, TxOf(e) = t
             PROVE  d = e
  BY DEF Alone
<1>1. Working(d)' /\ Working(e)' /\ TxOf(d)' = t /\ TxOf(e)' = t
  OBVIOUS
<1> QED
  BY <1>1 DEF Alone

\* The pass writes PENDING or EXECUTED; while it goes through the stale rows, only
\* PENDING, to rows that it has listed.
LEMMA ReconMoves ==
    ASSUME TypeOK,
           \/ ListRowsWithHash \/ ListStaleRows \/ EndPass
           \/ \E t \in TxId, hash \in Call : ReconRow(t, hash)
           \/ \E t \in TxId : ResetStaleRow(t)
    PROVE  /\ UNCHANGED caller
           /\ \A u \in TxId : \/ status'[u] = status[u] /\ txHash'[u] = txHash[u]
                              \/ status'[u] = "EXECUTED"
                              \/ /\ status'[u] = "PENDING"
                                 /\ \/ recon.phase = "hashes" /\
                                       \E hash \in Call : <<u, hash>> \in recon.list
                                                          /\ result[hash] = "reverted"
                                    \/ recon.phase = "stale" /\ <<u, NoHash>> \in recon.list
           /\ recon'.phase = "stale" =>
                  \/ UNCHANGED status /\ \A u \in TxId : <<u, NoHash>> \in recon'.list => Stale(u)
                  \/ /\ recon.phase = "stale" /\ recon'.list \subseteq recon.list
                     /\ \A u \in TxId : status'[u] \in {status[u], "PENDING"}
<1> USE DEF TypeOK, db, onChain, Unlist, ResetRow
<1>1. CASE ListRowsWithHash
  BY <1>1 DEF ListRowsWithHash
<1>2. CASE ListStaleRows
  BY <1>2 DEF ListStaleRows
<1>3. CASE EndPass
  BY <1>3 DEF EndPass
<1>4. CASE \E t \in TxId, hash \in Call : ReconcileSuccess(t, hash)
  <2>1. PICK t \in TxId, hash \in Call : ReconcileSuccess(t, hash)
    BY <1>4
  <2>2. /\ status' = [status EXCEPT ![t] = "EXECUTED"]
        /\ txHash' = [txHash EXCEPT ![t] = hash]
    BY <2>1 DEF ReconcileSuccess, RecordExecution
  <2> QED
    BY <2>1, <2>2 DEF ReconcileSuccess
<1>5. CASE \E t \in TxId, hash \in Call : ReconcileReverted(t, hash)
  BY <1>5, ZenonT(60) DEF ReconcileReverted
<1>6. CASE \E t \in TxId, hash \in Call : SkipRow(t, hash)
  BY <1>6 DEF SkipRow
<1>7. CASE \E t \in TxId : ResetStaleRow(t)
  <2>1. PICK t \in TxId : ResetStaleRow(t)
    BY <1>7
  <2>2. /\ recon.phase = "stale" /\ <<t, NoHash>> \in recon.list
        /\ \A u \in TxId : IF u = t THEN status'[u] = "PENDING"
                          ELSE status'[u] = status[u] /\ txHash'[u] = txHash[u]
        /\ UNCHANGED caller
    BY <2>1 DEF ResetStaleRow
  <2>3. recon'.list \subseteq recon.list
    BY <2>1 DEF ResetStaleRow
  <2> QED
    BY <2>2, <2>3
<1>8. QED
  BY <1>1, <1>2, <1>3, <1>4, <1>5, <1>6, <1>7 DEF ReconRow

\* Steps of one request keep what is known of all.
LEMMA FinalCall ==
    ASSUME TypeOK, FinalInv, NEW c \in Call, CallStep(c)
    PROVE  FinalInv'
<1> DEFINE t == TxOf(c)
<1>1. /\ t \in TxId /\ UNCHANGED recon
      /\ \A d \in Call : TxOf(d)' = TxOf(d) /\ (d # c => caller'[d] = caller[d])
  BY CallEffect DEF TypeOK, TxOf
<1>2. \A d \in Call : /\ Working(d)' <=> Working(d)
                      /\ At(d, "done") => At(d, "done")'
                      /\ TxOf(d) \in TxId
  BY <1>1, CallMoves, ZenonT(30) DEF Working, At, TypeOK, TxOf
<1>3. ASSUME NEW d \in Call, Alone(t), Working(d), TxOf(d) = t PROVE d = c
  BY <1>3, CallMoves DEF Alone
<1>4. ASSUME NEW u, Alone(u)' PROVE Alone(u)
  BY <1>1, <1>2, <1>4, StaysAlone
<1>5. WaitingHashSaved'
  <2> SUFFICES ASSUME NEW d \in Call, Alone(TxOf(d))', caller'[d].pc \in {"waiting", "mined"},
                      status'[TxOf(d)] = "EXECUTING"
               PROVE  txHash'[TxOf(d)] = d
    BY <1>1 DEF WaitingHashSaved
  <2>0. Alone(TxOf(d))
    <3>1. TxOf(d)' = TxOf(d)
      BY <1>1
    <3>2. PICK u : u = TxOf(d)
      OBVIOUS
    <3>3. Alone(u)'
      BY <3>1, <3>2 DEF Alone
    <3> QED
      BY <1>4, <3>2, <3>3
  <2>1. CASE d # c
    <3>1. caller'[d] = caller[d] /\ Working(d)
      BY <1>1, <2>1 DEF Working, At
    <3>2. TxOf(d) # t
      BY <1>3, <2>0, <2>1, <3>1
    <3>3. status'[TxOf(d)] = status[TxOf(d)] /\ txHash'[TxOf(d)] = txHash[TxOf(d)]
      BY <1>2, <3>2, CallMoves
    <3> QED
      BY <2>0, <3>1, <3>3 DEF FinalInv, WaitingHashSaved
  <2>2. CASE d = c
    BY <2>0, <2>2, CallMoves DEF FinalInv, WaitingHashSaved
  <2> QED
    BY <2>1, <2>2
<1>6. ExecutingHasCall'
  <2> SUFFICES ASSUME NEW u \in TxId, status'[u] = "EXECUTING"
               PROVE  \E d \in Call : TxOf(d)' = u /\ Working(d)'
    BY DEF ExecutingHasCall
  <2>1. CASE u = t
    BY <1>1, <1>2, <2>1, CallMoves
  <2>2. CASE u # t
    <3>1. PICK d \in Call : TxOf(d) = u /\ Working(d)
      BY <2>2, CallMoves DEF FinalInv, ExecutingHasCall
    <3> QED
      BY <1>1, <1>2, <3>1
  <2> QED
    BY <2>1, <2>2
<1>7. StaleHaveEnded'
  <2> SUFFICES ASSUME NEW u \in TxId, Alone(u)', recon.phase = "stale", <<u, NoHash>> \in recon.list
               PROVE  /\ status'[u] # "EXECUTED"
                      /\ \E d \in Call : TxOf(d)' = u /\ At(d, "done")'
    BY <1>1 DEF StaleHaveEnded
  <2>0. Alone(u)
    BY <1>4
  <2>1. PICK d \in Call : TxOf(d) = u /\ At(d, "done")
    BY <2>0 DEF FinalInv, StaleHaveEnded
  <2>2. u # t
    BY <1>3, <2>0, <2>1, CallMoves DEF Working, At
  <2>3. status'[u] = status[u]
    BY <2>2, CallMoves
  <2>4. TxOf(d)' = u /\ At(d, "done")'
    BY <1>1, <1>2, <2>1
  <2> QED
    BY <2>0, <2>3, <2>4 DEF FinalInv, StaleHaveEnded
<1> QED
  BY <1>5, <1>6, <1>7 DEF FinalInv

\* The start of a request does not disturb rows that it leaves alone.
LEMMA FinalStart ==
    ASSUME TypeOK, FinalInv, NEW c \in Call, NEW t \in TxId, ReadRow(c, t)
    PROVE  FinalInv'
<1>1. /\ At(c, "idle")
      /\ \A d \in Call : d # c => caller'[d] = caller[d]
      /\ TxOf(c)' = t /\ At(c, "read")'
      /\ UNCHANGED <<status, txHash, recon>>
  BY StartMoves
<1>2. \A d \in Call : Working(d) => /\ TxOf(d)' = TxOf(d) /\ Working(d)' /\ d # c
                                    /\ (At(d, "done") => At(d, "done")')
  BY <1>1 DEF Working, At, TxOf
<1>3. ASSUME NEW u, Alone(u)' PROVE Alone(u)
  BY <1>2, <1>3, StaysAlone
<1>5. WaitingHashSaved'
  <2> SUFFICES ASSUME NEW d \in Call, Alone(TxOf(d))', caller'[d].pc \in {"waiting", "mined"},
                      status'[TxOf(d)'] = "EXECUTING"
               PROVE  txHash'[TxOf(d)'] = d
    BY DEF WaitingHashSaved
  <2>1. d # c
    BY <1>1 DEF At
  <2>2. caller'[d] = caller[d] /\ TxOf(d)' = TxOf(d)
    BY <1>1, <2>1 DEF TxOf
  <2>3. Alone(TxOf(d))
    <3>1. PICK u : u = TxOf(d)
      OBVIOUS
    <3>2. Alone(u)'
      BY <2>2, <3>1 DEF Alone
    <3> QED
      BY <1>3, <3>1, <3>2
  <2> QED
    BY <1>1, <2>2, <2>3 DEF FinalInv, WaitingHashSaved
<1>6. ExecutingHasCall'
  BY <1>1, <1>2 DEF FinalInv, ExecutingHasCall
<1>7. StaleHaveEnded'
  <2> SUFFICES ASSUME NEW u \in TxId, Alone(u)', recon.phase = "stale", <<u, NoHash>> \in recon.list
               PROVE  /\ status[u] # "EXECUTED"
                      /\ \E d \in Call : TxOf(d)' = u /\ At(d, "done")'
    BY <1>1 DEF StaleHaveEnded
  <2>1. Alone(u)
    BY <1>3
  <2>2. PICK d \in Call : TxOf(d) = u /\ At(d, "done")
    BY <2>1 DEF FinalInv, StaleHaveEnded
  <2>3. Working(d)
    BY <2>2 DEF Working, At
  <2> QED
    BY <1>2, <2>1, <2>2, <2>3 DEF FinalInv, StaleHaveEnded
<1> QED
  BY <1>5, <1>6, <1>7 DEF FinalInv

\* The pass writes no row EXECUTING, and when it lists the stale ones their calls are
\* over: one that waits has saved its hash, and there is one that has started.
LEMMA FinalRecon ==
    ASSUME TypeOK, FinalInv,
           \/ ListRowsWithHash \/ ListStaleRows \/ EndPass
           \/ \E t \in TxId, hash \in Call : ReconRow(t, hash)
           \/ \E t \in TxId : ResetStaleRow(t)
    PROVE  FinalInv'
<1>1. /\ UNCHANGED caller
      /\ \A u \in TxId : status'[u] = "EXECUTING" =>
             status[u] = "EXECUTING" /\ txHash'[u] = txHash[u]
  BY ReconMoves
<1>2. ExecutingHasCall'
  BY <1>1 DEF FinalInv, ExecutingHasCall, Working, At, TxOf
<1>3. WaitingHashSaved'
  BY <1>1 DEF FinalInv, WaitingHashSaved, Alone, Working, At, TypeOK, TxOf
<1>4. StaleHaveEnded'
  <2> SUFFICES ASSUME NEW u \in TxId, Alone(u)', recon'.phase = "stale",
                      <<u, NoHash>> \in recon'.list
               PROVE  /\ status'[u] # "EXECUTED"
                      /\ \E c \in Call : TxOf(c)' = u /\ At(c, "done")'
    BY DEF StaleHaveEnded
  <2>0. Alone(u) /\ \A c \in Call : TxOf(c)' = TxOf(c) /\ (At(c, "done") => At(c, "done")')
    BY <1>1 DEF Alone, Working, TxOf, At
  <2>1. CASE Stale(u) /\ status'[u] = status[u]
    <3>1. status[u] = "EXECUTING" /\ txHash[u] = NoHash
      BY <2>1 DEF Stale
    <3>2. PICK c \in Call : TxOf(c) = u /\ Working(c)
      BY <3>1 DEF FinalInv, ExecutingHasCall
    <3>3. caller[c].pc \notin BeforeHash /\ caller[c].pc \in Stages /\ c # NoHash
      BY <2>1, <3>2, NoHashType DEF Stale, TypeOK
    <3>4. caller[c].pc \notin {"waiting", "mined"}
      BY <2>0, <3>1, <3>2, <3>3 DEF FinalInv, WaitingHashSaved
    <3>5. At(c, "done")
      BY <3>2, <3>3, <3>4 DEF Stages, BeforeHash, Working, At
    <3> QED
      BY <2>0, <2>1, <3>1, <3>2, <3>5
  <2>2. CASE /\ recon.phase = "stale" /\ <<u, NoHash>> \in recon.list
             /\ status'[u] \in {status[u], "PENDING"}
    BY <2>0, <2>2 DEF FinalInv, StaleHaveEnded
  <2> QED
    BY <2>1, <2>2, ReconMoves
<1> QED
  BY <1>2, <1>3, <1>4 DEF FinalInv

LEMMA FinalStep ==
    ASSUME TypeOK, LifeInv, FinalInv, [Next]_vars
    PROVE  FinalInv'
<1>1. ASSUME UNCHANGED <<txHash, caller, recon>>,
             \A u \in TxId : /\ status'[u] = "EXECUTING" => status[u] = "EXECUTING"
                             /\ status'[u] = "EXECUTED" => status[u] = "EXECUTED"
      PROVE  FinalInv'
  <2>1. \A c \in Call : TxOf(c) \in TxId /\ TxOf(c)' = TxOf(c) /\ (Working(c)' <=> Working(c))
    BY <1>1 DEF TypeOK, TxOf, Working, At
  <2>2. WaitingHashSaved'
    BY <1>1, <2>1 DEF FinalInv, WaitingHashSaved, Alone
  <2>3. ExecutingHasCall'
    BY <1>1, <2>1 DEF FinalInv, ExecutingHasCall
  <2>4. StaleHaveEnded'
    BY <1>1, <2>1 DEF FinalInv, StaleHaveEnded, Alone, At
  <2> QED
    BY <2>2, <2>3, <2>4 DEF FinalInv
<1>2. ASSUME NEW t \in TxId, NEW v \in Commitment, VoterStep(t, v) PROVE FinalInv'
  BY <1>1, <1>2, VoterEffect, VoterMoves
<1>3. ASSUME NEW ch \in Chain, Mine(ch) PROVE FinalInv'
  BY <1>1, <1>3, MineWrites
<1>4. CASE UNCHANGED vars
  BY <1>1, <1>4 DEF vars, db
<1> QED
  BY <1>2, <1>3, <1>4, FinalStart, FinalCall, FinalRecon DEF Next

LEMMA AlwaysFinal == Spec => []FinalInv
<1>1. TypeOK /\ LifeInv /\ FinalInv /\ [Next]_vars => FinalInv'
  BY FinalStep
<1> QED
  BY <1>1, FinalInit, AlwaysLife, PTL DEF Spec

\* Where two requests for a row meet so that the next step may open it again.
RequestsMeet(t) ==
    \E c, d \in Call :
        /\ c # d /\ TxOf(c) = t /\ TxOf(d) = t /\ result[d] = "success"
        /\ \/ At(c, "read")
           \/ recon.phase = "hashes" /\ <<t, c>> \in recon.list /\ result[c] = "reverted"
           \/ recon.phase = "stale" /\ <<t, NoHash>> \in recon.list /\ ~ At(c, "idle")

LEMMA ReopensRow ==
    ASSUME IInv, LifeInv, FinalInv, [Next]_vars,
           NEW t \in TxId, status[t] = "EXECUTED", status'[t] \notin {"EXECUTED", "FAILED"}
    PROVE  RequestsMeet(t)
<1> USE DEF IInv
<1>1. PICK d \in Call : TxOf(d) = t /\ result[d] = "success"
  BY DEF ExecutedOnChain
<1>2. Sent(d) /\ Working(d)
  BY <1>1 DEF ReceiptsAreOfSent, Sent, Unsent, Working, At
<1>3. ASSUME NEW u \in TxId, NEW v \in Commitment, VoterStep(u, v)
      PROVE  FALSE
  BY <1>3, VoterMoves
<1>4. ASSUME NEW c \in Call, NEW u \in TxId, ReadRow(c, u)
      PROVE  FALSE
  BY <1>4 DEF ReadRow, db
<1>5. ASSUME NEW c \in Call, CallStep(c)
      PROVE  RequestsMeet(t)
  <2>1. TxOf(c) = t /\ At(c, "read")
    BY <1>5, CallMoves
  <2>2. c # d
    BY <1>2, <2>1 DEF Sent, Unsent, At
  <2> QED
    BY <1>1, <2>1, <2>2 DEF RequestsMeet
<1>6. ASSUME NEW ch \in Chain, Mine(ch)
      PROVE  FALSE
  BY <1>6, MineWrites
<1>7. CASE \/ ListRowsWithHash \/ ListStaleRows \/ EndPass
           \/ \E u \in TxId, hash \in Call : ReconRow(u, hash)
           \/ \E u \in TxId : ResetStaleRow(u)
  <2>1. ASSUME NEW hash \in Call, recon.phase = "hashes", <<t, hash>> \in recon.list,
               result[hash] = "reverted"
        PROVE  RequestsMeet(t)
    <3>1. TxOf(hash) = t
      BY <2>1, NoHashType DEF ListedAreOfSent
    <3>2. hash # d
      BY <1>1, <2>1
    <3> QED
      BY <1>1, <2>1, <3>1, <3>2 DEF RequestsMeet
  <2>2. ASSUME recon.phase = "stale", <<t, NoHash>> \in recon.list
        PROVE  RequestsMeet(t)
    <3>1. ~ Alone(t)
      BY <2>2 DEF FinalInv, StaleHaveEnded
    <3>2. PICK c \in Call : Working(c) /\ TxOf(c) = t /\ c # d
      BY <3>1 DEF Alone
    <3> QED
      BY <1>1, <2>2, <3>2 DEF RequestsMeet, Working
  <2> QED
    BY <1>7, <2>1, <2>2, ReconMoves
<1>8. CASE UNCHANGED vars
  BY <1>8 DEF vars, db
<1> QED
  BY <1>3, <1>4, <1>5, <1>6, <1>7, <1>8 DEF Next

\* However many requests a row has: what opens a recorded execution again is the step
\* of a request, or of the pass, that met another request for the row. One request
\* alone, with its crashes, lost answers, stale rows and passes, never does.
THEOREM ReopenedOnlyWhereRequestsMeet == Spec => ReopenedOnlyByRaces
<1>1. IInv /\ LifeInv /\ FinalInv /\ [Next]_vars
      => [\A t \in TxId : status[t] = "EXECUTED" /\ status'[t] \notin {"EXECUTED", "FAILED"}
                          => RequestsMeet(t)]_vars
  BY ReopensRow
<1>2. [\A t \in TxId : status[t] = "EXECUTED" /\ status'[t] \notin {"EXECUTED", "FAILED"}
                       => RequestsMeet(t)]_vars
      => [\A t \in TxId : status[t] = "EXECUTED" /\ status'[t] \notin {"EXECUTED", "FAILED"} =>
             \E c, d \in Call :
                 /\ c # d /\ TxOf(c) = t /\ TxOf(d) = t /\ result[d] = "success"
                 /\ \/ At(c, "read")
                    \/ recon.phase = "hashes" /\ <<t, c>> \in recon.list /\ result[c] = "reverted"
                    \/ recon.phase = "stale" /\ <<t, NoHash>> \in recon.list /\ ~ At(c, "idle")]_vars
  BY DEF RequestsMeet
<1> QED
  BY <1>1, <1>2, AlwaysLife, AlwaysFinal, InductiveInvariant, PTL DEF Spec, ReopenedOnlyByRaces
=============================================================================
