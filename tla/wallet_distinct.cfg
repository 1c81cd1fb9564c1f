SPECIFICATION Spec
CONSTANTS
    alice = alice
    bob = bob
    carol = carol
    eth = eth
    Commitment <- MCCommitment
    Asset <- MCAsset
    Transactions <- MCTransactions
    InitialSigners <- MCDistinct
    InitialFunds <- MCFunds
    MaxProofs = 2
    MaxLeaves = 5
    MaxBalance = 2
INVARIANTS
    TypeOK
    ThresholdBounded
    QuorumOfSigners
    NonceExecutedOnce
    NullifiersSpentByTheirTx
    Operable
PROPERTIES
    RepetitionsNeverGrow
    GovernedByOldQuorum
    FundsLeaveByApprovedTransfer
    ImplementsMultisig
CHECK_DEADLOCK FALSE
