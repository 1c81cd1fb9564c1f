SPECIFICATION Spec
CONSTANTS
    alice = alice
    bob = bob
    carol = carol
    eth = eth
    t1 = t1
    t2 = t2
    c1 = c1
    c2 = c2
    w = w
    horizen = horizen
    base = base
    NoHash = NoHash
    Commitment <- MCCommitment
    Asset <- MCAsset
    Transactions <- MCTransactions
    TxId = {t1}
    Account <- OneAccount
    AccountOf <- OneAccountOf
    ContractCall <- PayOnly
    Deployed <- TwoOfThree
    MaxCallsPerTx = 2
    Call = {c1, c2}
    Approvers = {alice, bob, carol}
    Deniers = {bob, carol}
INVARIANTS
    ExecutedOnChain
    SucceedsOnce
    FailedNeverExecutes
    DeniersNotCounted
PROPERTY ReopenedOnlyByRaces
CHECK_DEADLOCK FALSE
