---------------------------- MODULE MCOnboarding ----------------------------
(* Instances of Onboarding. *)
EXTENDS Onboarding, TLC

CONSTANTS alice, bob, base, horizen, arbitrum, q1, q2, d1, d2, n1, n2

MCRequest == {q1, q2}
MCDeposit == {d1, d2}
MCNonce == {n1, n2}

\* Addresses that are accounts on base, on horizen, on both or on none, depending on
\* what is deployed; and one of an account on arbitrum.
MCPayee == {[of |-> "relayer", n |-> 1], [of |-> arbitrum, n |-> 1]}

Ask(creator, signers, threshold, chains) ==
    [creator |-> creator, signers |-> signers, threshold |-> threshold, chains |-> chains]

MCBody ==
    {Ask(alice, <<alice, bob>>, 2, <<base, arbitrum>>),
     Ask(alice, <<alice>>, 1, <<horizen>>),
     Ask(alice, <<alice, bob, alice>>, 3, <<base>>),
     Ask(alice, <<bob>>, 1, <<base>>)}

Symmetry == Permutations(Request) \cup Permutations(MCDeposit) \cup Permutations(MCNonce)
=============================================================================
