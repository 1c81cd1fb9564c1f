SPECIFICATION Spec
CONSTANTS
    alice = alice
    bob = bob
    carol = carol
    eth = eth
    t1 = t1
    t2 = t2
    c1 = c1
    c2 = c2
    w = w
    horizen = horizen
    base = base
    NoHash = NoHash
    Commitment <- MCCommitment
    Asset <- MCAsset
    Transactions <- MCTransactions
    TxId = {t1, t2}
    Account <- TwoAccounts
    AccountOf <- EachOf
    ContractCall <- RemoveAndPay
    Deployed <- OneOfTwoEach
    MaxCallsPerTx = 1
    Call = {c1, c2}
    Approvers = {alice, bob}
    Deniers = {}
PROPERTIES
    VotesDeletedInSameAccount
CHECK_DEADLOCK FALSE
