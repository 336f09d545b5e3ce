------------------------- MODULE MCSecretScreens -------------------------
(* Instances of SecretScreens for TLC. *)
EXTENDS SecretScreens, TLC

MCKeys == AesKeys \cup {Fragment(key) : key \in AesKeys}
(* Gone after one tick. *)
MCExpiry == {0}

MCSymmetry ==
    Permutations(Handlers) \cup Permutations(Links) \cup
    Permutations(AesKeys) \cup Permutations(Readers)
===========================================================================
