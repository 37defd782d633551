---------------------------- MODULE TicketClaims ----------------------------
(***************************************************************************)
(* Sentences of REPORT.md and of TicketService.cpp about tickets, as       *)
(* written.  TLC refutes each of them on TicketService.                    *)
(***************************************************************************)
EXTENDS TicketSafety

Quiescent == \A th \in Threads : call[th] = Idle

\* "Ticket is no longer available" (TicketService.cpp:45): when no request is
\* under way, an id has at most one valid ticket.  Two purchases that both
\* looked the id up before either deleted it are both served.
OneTicketPerId ==
  Quiescent =>
    \A h, k \in DOMAIN ticket :
      TicketOf(ticket[h]).ticketID = TicketOf(ticket[k]).ticketID => h = k

\* SRA3 (REPORT.md:83): "invalidate the seller's access to a ticket after it
\* has been resold".  A purchase that runs between the two INSERTs of
\* sellTicket finds no row in resell_tickets and leaves the old ticket valid.
SellerLosesAccess ==
  Quiescent =>
    \A t \in issued : ValCodeHash(t) \in DOMAIN ticket =>
      ~\E h \in DOMAIN ticket \ {ValCodeHash(t)} :
         /\ TicketOf(ticket[h]).ticketID = t.ticketID
         /\ ticket[h].owner_id = t.sellerID
         /\ t.sellerID # t.buyerID

\* Assumption 5 (REPORT.md:95): "ticket validation renders the ticket
\* unusable".  sellTicket never reads `used', so a ticket that let its owner in
\* can be sold, and the new code lets the buyer in to the same seat.
SeatEnteredOnce ==
  \A t1, t2 \in issued :
    /\ t1.ticketID = t2.ticketID
    /\ admitted[t1.validationCode] > 0
    /\ admitted[t2.validationCode] > 0
    => t1 = t2
=============================================================================
