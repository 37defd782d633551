---------------------------- MODULE TicketSafety ----------------------------
(***************************************************************************)
(* What TicketService promises whatever the interleaving of its threads,   *)
(* the statements that fail and the restarts, and the inductive invariant  *)
(* behind it.  TicketPriceProofs, TicketCodeProofs and TicketCountProofs   *)
(* prove it, one group of conjuncts each.                                  *)
(***************************************************************************)
EXTENDS TicketService

\* The Ticket a row of the table ticket was made for (its hash is injective).
TicketOf(row) == row.ticket_hash[2]

BuyTail == {"isTicketInResell", "getOldTicketValCodeHash",
            "removeTicketFromResell", "removeTicket"}
BuyHead == {"makeTicketUnavailable", "addNewTicket"}
Purging == {"removeTicketFromResell", "removeTicket"}
Selling == {"addTicketInfo", "addTicketToResell"}

-----------------------------------------------------------------------------
(***************************************************************************)
(* Types                                                                   *)
(***************************************************************************)

Hashes == {"sha256"} \X Codes

InfoRow == [eventID : EventIds, sellerID : Users \cup {NoSeller},
            price : Nat, seat : Seats]

TicketRow == [ticket_hash : {"sha256"} \X Ticket, info : Seats,
              used : BOOLEAN, owner_id : Users]

CallRecord ==
  {Idle}
  \cup [pc : {"getTicketInfoById"}, user : Users, id : TicketIds,
        event : EventIds]
  \cup [pc : BuyHead \cup {"isTicketInResell", "getOldTicketValCodeHash",
                           "addTicketToResell"}, t : Ticket]
  \cup [pc : Purging, t : Ticket, old : Hashes \cup {NoHash}]
  \cup [pc : {"addTicketInfo"}, t : Ticket, newPrice : Nat]
  \cup [pc : {"setTicketInUse"}, code : Codes]

\* Every variable has its type: the keys of the tables are ids and hashes, a
\* row has the columns of the schema, and a thread is between two calls of one
\* of the three methods.
TypeOK ==
  /\ next_id \in TicketIds
  /\ DOMAIN ticket_info \subseteq 1 .. next_id - 1
  /\ \A id \in DOMAIN ticket_info : ticket_info[id] \in InfoRow
  /\ DOMAIN ticket \subseteq Hashes
  /\ \A h \in DOMAIN ticket : ticket[h] \in TicketRow
  /\ DOMAIN resell_tickets \subseteq Hashes
  /\ \A h \in DOMAIN resell_tickets : resell_tickets[h] \in TicketIds
  /\ faults \in 0 .. MaxFaults
  /\ call \in [Threads -> CallRecord]
  /\ generated \subseteq Codes
  /\ issued \subseteq Ticket
  /\ admitted \in [Codes -> Nat]
  /\ offered \subseteq [ticketID : TicketIds, eventID : EventIds,
                        price : Nat, seat : Seats]
  /\ listed \subseteq TicketIds /\ IsFiniteSet(listed)
  /\ restarts \in 0 .. MaxRestarts

-----------------------------------------------------------------------------
(***************************************************************************)
(* The purchase limit                                                      *)
(***************************************************************************)

OwnedBy(user) == {h \in DOMAIN ticket : ticket[h].owner_id = user}

\* Threads past the count of `user', up to the INSERT of the ticket.
BuyingFor(user) ==
  {th \in Threads :
     \/ call[th].pc = "getTicketInfoById" /\ call[th].user = user
     \/ call[th].pc \in BuyHead /\ call[th].t.buyerID = user}

\* REPORT.md SRA2, weakened to what a count read before the INSERT can give:
\* every other connection of the same user, and every count that failed and
\* read as 0, may add one ticket to the limit.
PurchaseLimit ==
  \A user \in Users :
    Cardinality(OwnedBy(user))
      <= MaxOwned - 1 + Cardinality(Threads) + faults

\* The limit counts the purchases under way too.
PurchaseLimitInv ==
  \A user \in Users :
    Cardinality(OwnedBy(user)) + Cardinality(BuyingFor(user))
      <= MaxOwned - 1 + Cardinality(Threads) + faults

-----------------------------------------------------------------------------
(***************************************************************************)
(* Prices and places                                                       *)
(***************************************************************************)

\* The id, event and seat are those of a row resetTickets once listed, at that
\* price or below.
Genuine(id, event, seat, price) ==
  \E o \in offered : /\ o.ticketID = id
                     /\ o.eventID = event
                     /\ o.seat = seat
                     /\ 0 <= price
                     /\ price <= o.price

GenuineTicket(t) == Genuine(t.ticketID, t.eventID, t.seat, t.price)

\* No chain of resales lifts a price above the face price, or moves a ticket
\* to another event or seat: what is on sale and what clients were sent goes
\* back to a row of the catalogue (checks at TicketService.cpp:131 and 136).
FaceValue ==
  /\ \A id \in DOMAIN ticket_info :
       LET row == ticket_info[id]
       IN  Genuine(id, row.eventID, row.seat, row.price)
  /\ \A t \in issued : GenuineTicket(t)

\* The same of tickets stored and tickets inside a call.
FaceValueInv ==
  /\ FaceValue
  /\ \A h \in DOMAIN ticket : GenuineTicket(TicketOf(ticket[h]))
  /\ \A th \in Threads :
       /\ call[th].pc \in BuyHead \cup BuyTail \cup Selling
            => GenuineTicket(call[th].t)
       /\ call[th].pc = "addTicketInfo" => call[th].newPrice <= call[th].t.price

-----------------------------------------------------------------------------
(***************************************************************************)
(* Codes and rows                                                          *)
(***************************************************************************)

\* A ticket that was delivered and is still stored passes the validator's
\* integrity check, and its row was made for its code (TicketService.cpp:41).
StoredAsIssued ==
  /\ \A h \in DOMAIN ticket : h = ValCodeHash(TicketOf(ticket[h]))
  /\ \A t \in issued : ValCodeHash(t) \in DOMAIN ticket => checkIntegrity(t)

\* A call holds the code: in its ticket, as what was presented, or behind the
\* hash of the ticket to delete.
Carries(c, code) ==
  \/ c.pc \in BuyHead \cup BuyTail \cup Selling /\ c.t.validationCode = code
  \/ c.pc = "setTicketInUse" /\ c.code = code
  \/ c.pc \in Purging /\ c.old = SHA256(code)

\* The code got out: it was resold, accepted at the door or delivered.
Traced(code) == \/ SHA256(code) \in DOMAIN resell_tickets
                \/ admitted[code] # 0
                \/ \E t \in issued : t.validationCode = code

\* Only the purchase that generated it knows the code of its ticket.
Private(th) ==
  LET code == call[th].t.validationCode
  IN  /\ code \in generated
      /\ ~Traced(code)
      /\ \A other \in Threads \ {th} : ~Carries(call[other], code)

\* The code of a ticket that is not stored yet is private and unknown to the
\* table.
FreshCodes ==
  \A th \in Threads : call[th].pc \in BuyHead =>
    Private(th) /\ ValCodeHash(call[th].t) \notin DOMAIN ticket

\* A code that has not been generated is nowhere.
UnusedCodes ==
  \A code \in Codes \ generated :
    /\ SHA256(code) \notin DOMAIN ticket
    /\ ~Traced(code)
    /\ \A th \in Threads : ~Carries(call[th], code)

\* A ticket stored but not yet delivered stays stored until delivery: it cannot
\* be on resale, since its buyer does not know its code yet.
PendingIsStored ==
  \A th \in Threads : call[th].pc \in BuyTail =>
    LET h == ValCodeHash(call[th].t)
    IN  /\ Private(th)
        /\ h \in DOMAIN ticket
        /\ ticket[h].ticket_hash = TicketHash(call[th].t)
        /\ call[th].pc \in Purging => call[th].old # h

\* Rows of resell_tickets, and the hashes read from them, are of tickets with
\* the id of the row.
ResaleIsOfItsTicket ==
  /\ \A h \in DOMAIN resell_tickets \cap DOMAIN ticket :
       TicketOf(ticket[h]).ticketID = resell_tickets[h]
  /\ \A th \in Threads :
       /\ call[th].pc \in Purging /\ call[th].old \in DOMAIN ticket
            => TicketOf(ticket[call[th].old]).ticketID = call[th].t.ticketID
       /\ call[th].pc \in Selling /\ ValCodeHash(call[th].t) \in DOMAIN ticket
            => TicketOf(ticket[ValCodeHash(call[th].t)]) = call[th].t

\* Inductive together.
CodeInv ==
  /\ StoredAsIssued
  /\ FreshCodes
  /\ UnusedCodes
  /\ PendingIsStored
  /\ ResaleIsOfItsTicket

-----------------------------------------------------------------------------
(***************************************************************************)
(* Revocation and loss                                                     *)
(***************************************************************************)

HeldIds == {TicketOf(ticket[h]).ticketID : h \in DOMAIN ticket}

\* A seat that was listed and that nobody can enter with or buy any more.
LostIds == listed \ (DOMAIN ticket_info \cup HeldIds \cup BeingStored)

\* A ticket id vanishes only with a failed statement (the INSERT of
\* TicketService.cpp:49), or with a purchase that a kill cuts off between its
\* DELETE and its INSERT when the TRUNCATE of the next start fails too; no
\* interleaving of purchases, sales, kills and partial refills loses another.
NoTicketLost == Cardinality(LostIds) <= faults

\* When a purchase deletes the seller's ticket (TicketService.cpp:63), the
\* ticket that replaces it is stored: no seat is left without a ticket.
ReplacedNotLost ==
  [][\A h \in DOMAIN ticket \ DOMAIN ticket' :
       TicketOf(ticket[h]).ticketID \in
         {TicketOf(ticket'[k]).ticketID : k \in DOMAIN ticket'}]_vars

\* A deleted ticket stays invalid and a used ticket stays used, though the
\* seller keeps the file: the row of an issued code never comes back and
\* `used' is never reset.
RevokedStaysRevoked ==
  [][\A t \in issued :
       LET h == ValCodeHash(t)
       IN  /\ h \in DOMAIN ticket' => h \in DOMAIN ticket
           /\ h \in DOMAIN ticket' /\ ticket[h].used => ticket'[h].used]_vars

-----------------------------------------------------------------------------
(***************************************************************************)
(* Admission                                                               *)
(***************************************************************************)

Admitting(code) == {th \in Threads : /\ call[th].pc = "setTicketInUse"
                                     /\ call[th].code = code}

\* One code opens the door at most once for each connection, plus once for
\* each UPDATE that failed and was not noticed (TicketService.cpp:83).
AdmissionBound ==
  \A code \in Codes : admitted[code] <= Cardinality(Threads) + faults

\* While a ticket is unused, only unnoticed failures have let its code in.
AdmissionInv ==
  \A code \in Codes :
    /\ admitted[code] + Cardinality(Admitting(code))
         <= Cardinality(Threads) + faults
    /\ SHA256(code) \in DOMAIN ticket /\ ~ticket[SHA256(code)].used
         => admitted[code] <= faults

-----------------------------------------------------------------------------

\* The inductive invariant.
IInv ==
  /\ TypeOK
  /\ PurchaseLimitInv
  /\ FaceValueInv
  /\ CodeInv
  /\ NoTicketLost
  /\ AdmissionInv
=============================================================================
