----------------------------- MODULE MCSessions -----------------------------
(***************************************************************************)
(* Small instances of Sessions for TLC.                                    *)
(***************************************************************************)
EXTENDS SessionSafety, TLC

\* For the runs without liveness: connections, cookies, names and the copies
\* of Client are only compared.
Symmetry ==
  Permutations(Pointers) \cup Permutations(Cookies) \cup Permutations(Names)
    \cup Permutations(Clients \ Validators)
=============================================================================
