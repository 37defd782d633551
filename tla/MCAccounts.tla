----------------------------- MODULE MCAccounts -----------------------------
(***************************************************************************)
(* A small instance of Accounts for TLC: one name with two spellings and   *)
(* another, two events, one of them with two spellings.                    *)
(***************************************************************************)
EXTENDS Accounts, TLC

FirstEvents == <<"websummit", "calculo">>

Spellings ==
  [s \in {"ana", "Ana", "rui", "websummit", "calculo", "Calculo",
          "opera"} |->
     CASE s = "Ana" -> "ana" [] s = "Calculo" -> "calculo" [] OTHER -> s]

Symmetry == Permutations(Threads) \cup Permutations(Passwords)
              \cup Permutations(UserIds)
=============================================================================
