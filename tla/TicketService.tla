--------------------------- MODULE TicketService ---------------------------
(***************************************************************************)
(* common/src/Services/TicketService.cpp: buyTicket, sellTicket and        *)
(* validateTicket, each executed by the detached thread of one connection  *)
(* (TLSServer::run starts one handleClient per client, all sharing one     *)
(* Controller, one TicketService and one MySQL connection).  Nothing locks *)
(* and nothing opens a transaction, so two threads interleave between any  *)
(* two statements.                                                         *)
(*                                                                         *)
(* call[th] is the activation record of thread th: `pc' names the          *)
(* repository method it calls next, the other fields are the locals that   *)
(* are still read after that.  A step is one repository call and the local *)
(* code up to the next one.  A thread that throws std::invalid_argument or *)
(* returns goes back to "idle", where handleClient reads the next request. *)
(*                                                                         *)
(* A restart of Server.cpp kills every thread where it stands and runs     *)
(* reset_db before the first connection.                                   *)
(***************************************************************************)
EXTENDS TicketRepository

CONSTANTS Threads,       \* connections open at the same time
          Users,         \* ids of the table users
          Codes,         \* what generateValidationCode can return; also the
                         \* bound on the tickets generated in a behaviour
          AskingPrices,  \* prices a seller may ask for
          MaxOwned,      \* 6 in buyTicket
          MaxRestarts    \* bound: restarts of the server

ASSUME ServiceAssumption == /\ IsFiniteSet(Threads) /\ Threads # {}
                            /\ IsFiniteSet(Codes) /\ "mistyped" \notin Codes
                            /\ NoSeller \notin Users
                            /\ AskingPrices \subseteq Int
                            /\ MaxOwned \in Nat \ {0}
                            /\ MaxRestarts \in Nat

VARIABLES call,       \* thread -> its activation record
          generated,  \* validation codes generated so far
          issued,     \* history: tickets buyTicket has returned to a client
          admitted,   \* history: code -> times validateTicket accepted it
          offered,    \* history: id and row of everything resetTickets listed
          listed,     \* history: ids resetTickets has inserted since the last
                      \* TRUNCATE, but for purchases that a kill cut off
          restarts    \* restarts so far

starts == <<offered, listed, restarts>>
history == <<generated, issued, admitted>>
vars == <<tables, faults, call, history, starts>>

-----------------------------------------------------------------------------

\* The class Ticket.  Its purchaseDate only feeds the hash, where the
\* validation code already tells two tickets apart.  A price stands for its six
\* significant digits: face prices have no more, and the texts by which a price
\* comes back to the server, of a ticket and of a sale, keep no more.
Ticket == [ticketID : TicketIds, eventID : EventIds,
           sellerID : Users \cup {NoSeller}, buyerID : Users,
           price : Nat, seat : Seats, validationCode : Codes]

ValCodeHash(t) == SHA256(t.validationCode)

\* computeSHA256(ticket.serialize())
TicketHash(t) == SHA256(t)

Idle == [pc |-> "idle"]

Return(th) == call' = [call EXCEPT ![th] = Idle]

CallNext(th, record) == call' = [call EXCEPT ![th] = record]

AtCall(method) == {th \in Threads : call[th].pc = method}

\* Bound: a purchase starts only while a code is left for it to generate.
CodesRemain ==
  Cardinality(generated) + Cardinality(AtCall("getTicketInfoById"))
    < Cardinality(Codes)

Offers(catalogue) ==
  {[ticketID |-> id, eventID |-> catalogue[id].eventID,
    price |-> catalogue[id].price, seat |-> catalogue[id].seat] :
      id \in DOMAIN catalogue}

\* The ids a client can have seen on sale or in a ticket.
SeenIds == {o.ticketID : o \in offered}

\* The first start on empty tables: of the INSERTs, k are executed.
Init ==
  /\ \E k \in 0 .. CatalogueSize :
       /\ ticket_info \in Listings(1, k)
       /\ next_id = 1 + k
       /\ listed = 1 .. k
       /\ faults = IF k = CatalogueSize THEN 0 ELSE 1
  /\ faults <= MaxFaults
  /\ ticket = << >>
  /\ resell_tickets = << >>
  /\ call = [th \in Threads |-> Idle]
  /\ generated = {}
  /\ issued = {}
  /\ admitted = [c \in Codes |-> 0]
  /\ offered = Offers(ticket_info)
  /\ restarts = 0

-----------------------------------------------------------------------------
(***************************************************************************)
(* buyTicket(ticketId, eventId, userID)                                    *)
(***************************************************************************)

\* Slip, not part of Next: a seventh ticket, > where the code has >=.
BuyCountOwnedOffByOne(th, user, id, event) ==
  /\ call[th] = Idle
  /\ CodesRemain
  /\ getNrOfTicketsOwned(user, TRUE) <= MaxOwned
  /\ CallNext(th, [pc |-> "getTicketInfoById",
                   user |-> user, id |-> id, event |-> event])
  /\ UNCHANGED <<tables, faults, history, starts>>

\* Refused with "You already own 6 tickets", else on to the lookup.  A failed
\* count reads as 0.
BuyCountOwned(th, user, id, event) ==
  /\ call[th] = Idle
  /\ CodesRemain
  /\ \E ok \in BOOLEAN :
       /\ Statement(ok)
       /\ \/ /\ getNrOfTicketsOwned(user, ok) >= MaxOwned
             /\ UNCHANGED call
          \/ /\ getNrOfTicketsOwned(user, ok) < MaxOwned
             /\ CallNext(th, [pc |-> "getTicketInfoById",
                           user |-> user, id |-> id, event |-> event])
  /\ UNCHANGED <<tables, history, starts>>

\* The Ticket of the buyer, built from the row the lookup returned.
NewTicket(id, row, user, code) ==
  [ticketID |-> id, eventID |-> row.eventID, sellerID |-> row.sellerID,
   buyerID |-> user, price |-> row.price, seat |-> row.seat,
   validationCode |-> code]

\* Refused with "Ticket not found" unless the id is on sale for that event;
\* else a validation code is generated and the ticket built.
BuyLookUp(th) ==
  /\ call[th].pc = "getTicketInfoById"
  /\ \E ok \in BOOLEAN :
       LET found == {row \in getTicketInfoById(call[th].id, ok) :
                       row.eventID = call[th].event}
       IN /\ Statement(ok)
          /\ \/ found = {} /\ Return(th) /\ UNCHANGED generated
             \/ \E row \in found, code \in Codes \ generated :
                  /\ generated' = generated \cup {code}
                  /\ CallNext(th, [pc |-> "makeTicketUnavailable",
                                t |-> NewTicket(call[th].id, row,
                                                call[th].user, code)])
  /\ UNCHANGED <<tables, issued, admitted, starts>>

\* The DELETE that takes the id off sale succeeds whether or not the row is
\* still there.
BuyTakeOffSale(th) ==
  /\ call[th].pc = "makeTicketUnavailable"
  /\ \E ok \in BOOLEAN :
       /\ Statement(ok)
       /\ makeTicketUnavailable(call[th].t.ticketID, ok)
       /\ IF ok THEN CallNext(th, [pc |-> "addNewTicket", t |-> call[th].t])
                ELSE Return(th)
  /\ UNCHANGED <<ticket, resell_tickets, history, starts>>

\* Slip, not part of Next: the hash is taken after changeOwnership.
BuyAddTicketHashedLate(th) ==
  /\ call[th].pc = "addNewTicket"
  /\ LET t == call[th].t IN
       /\ addNewTicket(ValCodeHash(t),
                       TicketHash([t EXCEPT !.sellerID = t.buyerID]),
                       t.seat, t.buyerID, TRUE)
       /\ CallNext(th, [pc |-> "isTicketInResell", t |-> t])
  /\ UNCHANGED <<on_sale, resell_tickets, faults, history, starts>>

\* "Something went wrong" when the INSERT fails; the row of ticket_info is not
\* put back.
BuyAddTicket(th) ==
  /\ call[th].pc = "addNewTicket"
  /\ \E ok \in BOOLEAN :
       LET t == call[th].t IN
       /\ Statement(ok)
       /\ addNewTicket(ValCodeHash(t), TicketHash(t), t.seat, t.buyerID, ok)
       /\ IF addNewTicketSucceeds(ValCodeHash(t), ok)
            THEN CallNext(th, [pc |-> "isTicketInResell", t |-> t])
            ELSE Return(th)
  /\ UNCHANGED <<on_sale, resell_tickets, history, starts>>

\* buyTicket returns the ticket, which is sent to the client.
Deliver(th) ==
  /\ issued' = issued \cup {call[th].t}
  /\ Return(th)

BuyIsResold(th) ==
  /\ call[th].pc = "isTicketInResell"
  /\ \E ok \in BOOLEAN :
       /\ Statement(ok)
       /\ IF isTicketInResell(call[th].t.ticketID, ok)
            THEN /\ CallNext(th, [pc |-> "getOldTicketValCodeHash",
                               t |-> call[th].t])
                 /\ UNCHANGED issued
            ELSE Deliver(th)
  /\ UNCHANGED <<tables, generated, admitted, starts>>

BuyGetOld(th) ==
  /\ call[th].pc = "getOldTicketValCodeHash"
  /\ \E ok \in BOOLEAN :
       /\ Statement(ok)
       /\ \E old \in OldTicketValCodeHashes(call[th].t.ticketID, ok) :
            CallNext(th, [pc |-> "removeTicketFromResell",
                       t |-> call[th].t, old |-> old])
  /\ UNCHANGED <<tables, history, starts>>

BuyRemoveResell(th) ==
  /\ call[th].pc = "removeTicketFromResell"
  /\ \E ok \in BOOLEAN :
       /\ Statement(ok)
       /\ removeTicketFromResell(call[th].t.ticketID, ok)
  /\ CallNext(th, [pc |-> "removeTicket", t |-> call[th].t, old |-> call[th].old])
  /\ UNCHANGED <<on_sale, ticket, history, starts>>

\* Slip, not part of Next: DELETE ... WHERE the ticket has this id.
BuyRemoveOldById(th) ==
  /\ call[th].pc = "removeTicket"
  /\ ticket' = Delete(ticket, {h \in DOMAIN ticket :
                       ticket[h].ticket_hash[2].ticketID = call[th].t.ticketID})
  /\ Deliver(th)
  /\ UNCHANGED <<on_sale, resell_tickets, faults, generated, admitted, starts>>

\* Slip, not part of Next: the old ticket is left alone.
BuyRemoveOldForgotten(th) ==
  /\ call[th].pc = "removeTicket"
  /\ Deliver(th)
  /\ UNCHANGED <<tables, faults, generated, admitted, starts>>

BuyRemoveOld(th) ==
  /\ call[th].pc = "removeTicket"
  /\ \E ok \in BOOLEAN :
       /\ Statement(ok)
       /\ removeTicket(call[th].old, ok)
  /\ Deliver(th)
  /\ UNCHANGED <<on_sale, resell_tickets, generated, admitted, starts>>

-----------------------------------------------------------------------------
(***************************************************************************)
(* sellTicket(ticket, newPrice)                                            *)
(***************************************************************************)

\* What a client may submit: the text of a ticket whose code it was sent, with
\* anything in the fields deserialize takes from it.
Submissions ==
  [ticketID : SeenIds, eventID : EventIds, sellerID : Users \cup {NoSeller},
   buyerID : Users, price : Prices \cup AskingPrices, seat : Seats,
   validationCode : {t.validationCode : t \in issued}]

\* Slip, not part of Next: the hash of the submitted ticket is not compared.
SellCheckWithoutHash(th, t, newPrice) ==
  /\ call[th] = Idle
  /\ ValCodeHash(t) \in DOMAIN ticket
  /\ newPrice >= 0
  /\ newPrice <= t.price
  /\ CallNext(th, [pc |-> "addTicketInfo", t |-> t, newPrice |-> newPrice])
  /\ UNCHANGED <<tables, faults, history, starts>>

\* Slip, not part of Next: only the upper bound of the price is checked.
SellCheckAnyLowPrice(th, t, newPrice) ==
  /\ call[th] = Idle
  /\ getTicketHashByValidationCode(ValCodeHash(t), TRUE) = {TicketHash(t)}
  /\ newPrice <= t.price
  /\ CallNext(th, [pc |-> "addTicketInfo", t |-> t, newPrice |-> newPrice])
  /\ UNCHANGED <<tables, faults, history, starts>>

\* The three refusals: no such ticket, integrity compromised, invalid price.
SellCheck(th, t, newPrice) ==
  /\ call[th] = Idle
  /\ \E ok \in BOOLEAN :
       LET accepted ==
             /\ getTicketHashByValidationCode(ValCodeHash(t), ok)
                  = {TicketHash(t)}
             /\ newPrice >= 0
             /\ newPrice <= t.price
       IN /\ Statement(ok)
          /\ \/ ~accepted /\ UNCHANGED call
             \/ accepted /\ CallNext(th, [pc |-> "addTicketInfo", t |-> t,
                                       newPrice |-> newPrice])
  /\ UNCHANGED <<tables, history, starts>>

\* sellerID is the buyer recorded in the ticket, whoever sends the request.
SellList(th) ==
  /\ call[th].pc = "addTicketInfo"
  /\ \E ok \in BOOLEAN :
       LET t == call[th].t IN
       /\ Statement(ok)
       /\ addTicketInfo(t.ticketID,
                        [eventID |-> t.eventID, sellerID |-> t.buyerID,
                         price |-> call[th].newPrice, seat |-> t.seat], ok)
       /\ IF addTicketInfoSucceeds(t.ticketID, ok)
            THEN CallNext(th, [pc |-> "addTicketToResell", t |-> t])
            ELSE Return(th)
  /\ UNCHANGED <<ticket, resell_tickets, history, starts>>

\* Success and "Process Failed" leave the same state behind: the row of
\* ticket_info is not taken back.
SellMarkResell(th) ==
  /\ call[th].pc = "addTicketToResell"
  /\ \E ok \in BOOLEAN :
       /\ Statement(ok)
       /\ addTicketToResell(ValCodeHash(call[th].t), call[th].t.ticketID, ok)
  /\ Return(th)
  /\ UNCHANGED <<on_sale, ticket, history, starts>>

-----------------------------------------------------------------------------
(***************************************************************************)
(* validateTicket(validationCode, info)                                    *)
(***************************************************************************)

\* What a validator may type: a code some client was sent, or none of them.
Mistyped == "mistyped"
Presented == {t.validationCode : t \in issued} \cup {Mistyped}

\* Slip, not part of Next: `used' is not looked at.
ValidateCheckReused(th, code) ==
  /\ call[th] = Idle
  /\ SHA256(code) \in DOMAIN ticket
  /\ CallNext(th, [pc |-> "setTicketInUse", code |-> code])
  /\ UNCHANGED <<tables, faults, history, starts>>

\* "Ticket not found" and "Ticket is already in use" end the call.
ValidateCheck(th, code) ==
  /\ call[th] = Idle
  /\ \E ok \in BOOLEAN :
       LET h == SHA256(code)
           valid == existsTicketWithValidationCode(h, ok) /\ ~ticket[h].used
       IN /\ Statement(ok)
          /\ \/ ~valid /\ UNCHANGED call
             \/ valid /\ CallNext(th, [pc |-> "setTicketInUse", code |-> code])
  /\ UNCHANGED <<tables, history, starts>>

\* setTicketInUse returns nothing, so the code is accepted even when the
\* UPDATE failed.
ValidateMark(th) ==
  /\ call[th].pc = "setTicketInUse"
  /\ \E ok \in BOOLEAN :
       /\ Statement(ok)
       /\ setTicketInUse(SHA256(call[th].code), ok)
  /\ admitted' = [admitted EXCEPT ![call[th].code] = @ + 1]
  /\ Return(th)
  /\ UNCHANGED <<on_sale, resell_tickets, generated, issued, starts>>

-----------------------------------------------------------------------------

\* checkIntegrity: the code the client reads out is cut from the hash of its
\* own copy of the ticket (Client.cpp); the whole hash stands for the cut.
checkIntegrity(t) ==
  getTicketHashByValidationCode(ValCodeHash(t), TRUE) = {TicketHash(t)}

BeingStored == {call[th].t.ticketID : th \in AtCall("addNewTicket")}

\* The process is killed and started again.
Restart ==
  /\ restarts < MaxRestarts
  /\ restarts' = restarts + 1
  /\ call' = [th \in Threads |-> Idle]
  /\ \E truncated \in BOOLEAN, k \in 0 .. CatalogueSize :
       /\ resetTickets(truncated, k)
       /\ listed' = next_id' - k .. next_id' - 1
                      \cup IF truncated THEN {} ELSE listed \ BeingStored
  /\ offered' = offered \cup Offers(ticket_info')
  /\ UNCHANGED history

\* The steps of a request that has been accepted for execution.
Continue(th) ==
  \/ BuyLookUp(th)
  \/ BuyTakeOffSale(th)
  \/ BuyAddTicket(th)
  \/ BuyIsResold(th)
  \/ BuyGetOld(th)
  \/ BuyRemoveResell(th)
  \/ BuyRemoveOld(th)
  \/ SellList(th)
  \/ SellMarkResell(th)
  \/ ValidateMark(th)

Buy(th) ==
  \E user \in Users, id \in SeenIds, event \in EventIds :
    BuyCountOwned(th, user, id, event)

Sell(th) ==
  \E t \in Submissions, newPrice \in AskingPrices : SellCheck(th, t, newPrice)

Validate(th) == \E code \in Presented : ValidateCheck(th, code)

Next ==
  \/ \E th \in Threads : Buy(th) \/ Sell(th) \/ Validate(th) \/ Continue(th)
  \/ Restart

Spec == Init /\ [][Next]_vars
=============================================================================
