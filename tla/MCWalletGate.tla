---------------------------- MODULE MCWalletGate ----------------------------
(* Instances of WalletGate for TLC: the user's requests are interchangeable. *)
EXTENDS WalletGate, TLC

RequestSymmetry == Permutations(Requests)
=============================================================================
