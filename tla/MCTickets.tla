----------------------------- MODULE MCTickets -----------------------------
(***************************************************************************)
(* Small instances of TicketService for TLC.                               *)
(***************************************************************************)
EXTENDS TicketRefinement, TicketClaims, TLC

\* Offers below zero, at every price, and above every price.
BelowAndAboveFace == -1 .. 2

\* A thread, a user and a code are only compared, never ordered.
Symmetry ==
  Permutations(Threads) \cup Permutations(Users) \cup Permutations(Codes)
=============================================================================
