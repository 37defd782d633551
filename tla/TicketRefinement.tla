-------------------------- MODULE TicketRefinement --------------------------
(***************************************************************************)
(* TicketService seen as a TicketMarket.  With one connection at a time    *)
(* and no failed statement the service implements the market: the DELETE   *)
(* of makeTicketUnavailable is the purchase, the INSERT of addTicketInfo   *)
(* the resale, the UPDATE of setTicketInUse the admission, and every other *)
(* step is invisible.  MarketProofs proves it.                             *)
(***************************************************************************)
EXTENDS TicketSafety

\* Purchases that have happened for the market but are still being written.
SettlingSteps == {"addNewTicket"} \cup BuyTail

Settling == {th \in Threads : call[th].pc \in SettlingSteps}

SettlingIds == {call[th].t.ticketID : th \in Settling}

PassOf(t, used) == [code |-> t.validationCode, owner |-> t.buyerID,
                    price |-> t.price, used |-> used]

\* The pass of an id is that of the purchase being written, if there is one,
\* and else the one stored.
PassSeen(id) ==
  IF id \in SettlingIds
    THEN PassOf(call[CHOOSE th \in Settling : call[th].t.ticketID = id].t, FALSE)
    ELSE LET h == CHOOSE k \in DOMAIN ticket : TicketOf(ticket[k]).ticketID = id
         IN  PassOf(TicketOf(ticket[h]), ticket[h].used)

marketPass == [id \in HeldIds \cup SettlingIds |-> PassSeen(id)]

marketListing ==
  [id \in DOMAIN ticket_info |-> [price  |-> ticket_info[id].price,
                                  seller |-> ticket_info[id].sellerID]]

\* A code counts once the purchase it was generated for has happened.
marketSpent ==
  generated \ {call[th].t.validationCode : th \in AtCall("makeTicketUnavailable")}

Market == INSTANCE TicketMarket WITH
            Ids <- 1 .. CatalogueSize, Buyers <- Users, Passwords <- Codes,
            FacePrices <- Prices, Limit <- MaxOwned, Nobody <- NoSeller,
            listing <- marketListing, pass <- marketPass, spent <- marketSpent

\* Served one at a time, buyTicket, sellTicket and validateTicket sell every
\* id at most once, void the pass of the reseller at the moment of the sale,
\* keep the limit of MaxOwned passes, and admit a pass once.
ImplementsMarket == Market!Spec

-----------------------------------------------------------------------------
(***************************************************************************)
(* The invariant behind it, of the one call c there is at a time: an id    *)
(* has one ticket, and a second one only from the INSERT of the buyer's    *)
(* to the DELETE of the seller's, which resell_tickets leads to.           *)
(***************************************************************************)

RowsOf(id) == {h \in DOMAIN ticket : TicketOf(ticket[h]).ticketID = id}

\* The rows of an id that were there before the purchase c.
OldRows(c, id) ==
  RowsOf(id) \ IF c.pc \in SettlingSteps THEN {ValCodeHash(c.t)} ELSE {}

\* Who is on sale and held is on resale, or about to be; who is on resale is
\* held, and on sale or just bought.
TablesAgree(c) ==
  /\ \A id \in HeldIds : \A h, k \in OldRows(c, id) : h = k
  /\ \A h \in DOMAIN ticket : ticket[h].owner_id = TicketOf(ticket[h]).buyerID
  /\ \A h \in DOMAIN ticket :
       TicketOf(ticket[h]).ticketID \in DOMAIN ticket_info =>
         \/ h \in DOMAIN resell_tickets
         \/ c.pc = "addTicketToResell" /\ h = ValCodeHash(c.t)
  /\ \A h \in DOMAIN resell_tickets :
       /\ h \in DOMAIN ticket
       /\ \/ resell_tickets[h] \in DOMAIN ticket_info
          \/ /\ c.pc \in SettlingSteps \ {"removeTicket"}
             /\ c.t.ticketID = resell_tickets[h]

\* What was checked still holds when it is used.
StillTrue(c) ==
  /\ c.pc = "getTicketInfoById" => Cardinality(OwnedBy(c.user)) < MaxOwned
  /\ c.pc = "makeTicketUnavailable" =>
       /\ c.t.ticketID \in DOMAIN ticket_info
       /\ ticket_info[c.t.ticketID].price = c.t.price
       /\ Cardinality(OwnedBy(c.t.buyerID)) < MaxOwned
  /\ c.pc \in SettlingSteps =>
       /\ c.t.ticketID \notin DOMAIN ticket_info
       /\ OldRows(c, c.t.ticketID) \subseteq
            IF c.pc \in Purging THEN {c.old} ELSE DOMAIN resell_tickets
  /\ c.pc \in BuyTail => ~ticket[ValCodeHash(c.t)].used
  /\ c.pc \in Selling => ValCodeHash(c.t) \in DOMAIN ticket
  /\ c.pc = "addTicketToResell" => c.t.ticketID \in DOMAIN ticket_info
  /\ c.pc = "setTicketInUse" =>
       SHA256(c.code) \in DOMAIN ticket /\ ~ticket[SHA256(c.code)].used

\* With one connection, no failure and no restart the three tables agree on
\* every id, and what a call has checked is still true when the call uses it
\* (TicketService.cpp:17, 22, 44, 54, 75, 122).  Inductive with IInv.
SerialInv == \A th \in Threads : TablesAgree(call[th]) /\ StillTrue(call[th])
=============================================================================
