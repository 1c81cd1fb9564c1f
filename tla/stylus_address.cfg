SPECIFICATION OnboardingSpec
CONSTANTS
    alice = alice
    bob = bob
    base = base
    horizen = horizen
    arbitrum = arbitrum
    q1 = q1
    q2 = q2
    d1 = d1
    d2 = d2
    n1 = n1
    n2 = n2
    Deposit = {}
    Nonce = {}
    X402Chain = {}
    Payee = {}
    RateLimit = 1
    Commitment = {alice, bob}
    EvmChain = {base, horizen}
    StylusChain = {arbitrum}
    Request <- MCRequest
    Body <- MCBody
SYMMETRY Symmetry
INVARIANT StylusRowsAreOwn
CHECK_DEADLOCK FALSE
