SPECIFICATION Spec
CONSTANTS
    alice = alice
    bob = bob
    carol = carol
    eth = eth
    Commitment <- MCCommitment
    Asset <- MCAsset
    Transactions <- MCTransactions
    InitialSigners <- MCInitialSigners
    MaxProofs = 2
    MaxLeaves = 4
    MaxBalance = 1
INVARIANTS
    TypeOK
    ThresholdReachable
    QuorumOfSigners
    SameButSelfTransfers
PROPERTIES
    MatchesSolidity
CHECK_DEADLOCK FALSE
