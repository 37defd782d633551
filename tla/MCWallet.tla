------------------------------ MODULE MCWallet ------------------------------
(***************************************************************************)
(* A small instance of Wallet for TLC.                                     *)
(***************************************************************************)
EXTENDS WalletSafety, TLC

CONSTANTS Own, Other   \* the password of the account, and another

CONSTANTS p1, p2

Symmetry == Permutations({p1, p2}) \cup Permutations({Own, Other})
=============================================================================
