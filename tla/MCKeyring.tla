----------------------------- MODULE MCKeyring -----------------------------
EXTENDS Keyring, TLC

MCSymmetry ==
    Permutations(Callers) \cup Permutations(Pools) \cup Permutations(Passphrases)
        \cup Permutations(Strings) \cup Permutations(Pages)
=============================================================================
