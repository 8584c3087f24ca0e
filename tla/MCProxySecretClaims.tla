------------------------ MODULE MCProxySecretClaims ------------------------
(* Small instance of ProxySecretClaims for TLC. *)
EXTENDS ProxySecretClaims, TLC

Symmetry == Permutations(Users) \cup Permutations(Digests) \cup Permutations(Transactions)
============================================================================
