-------------------------- MODULE TicketPriceProofs --------------------------
(***************************************************************************)
(* Types and prices of TicketService, for any number of connections,       *)
(* users, codes, ids, failures and restarts: the facts about calls and     *)
(* statements the other proofs use, and FaceValue.  The argument for the   *)
(* latter: a price enters the system in resetTickets, is copied by         *)
(* buyTicket, and only sellTicket writes another, after it has compared    *)
(* the hash of the submitted ticket with the stored one and the price with *)
(* the ticket's.                                                           *)
(***************************************************************************)
EXTENDS TicketSafety, FiniteSetTheorems, TLAPS

-----------------------------------------------------------------------------
(***************************************************************************)
(* Types                                                                   *)
(***************************************************************************)

\* A row of the catalogue belongs to an event of the catalogue
\* (TicketRepository.cpp:43).
LEMMA EventOfType == \A n \in 1 .. CatalogueSize : EventOf(n) \in EventIds
<1> SUFFICES ASSUME NEW n \in 1 .. CatalogueSize PROVE EventOf(n) \in EventIds
  OBVIOUS
<1> DEFINE q == (n - 1) \div PerEvent
<1>1. NEvents \in Nat /\ PerEvent \in Nat /\ NEvents * PerEvent \in Nat
  BY CatalogueAssumption
<1>2. n \in Int /\ 1 <= n /\ n <= NEvents * PerEvent
  BY <1>1 DEF CatalogueSize
<1>3. PerEvent > 0
  BY <1>1, <1>2
<1>4. q \in Int /\ q >= 0 /\ q * PerEvent <= n - 1
  BY <1>1, <1>2, <1>3, Z3
<1>5. q < NEvents
  <2> SUFFICES ASSUME q >= NEvents PROVE FALSE
    BY <1>1, <1>4
  <2>1. q * PerEvent >= NEvents * PerEvent
    BY <1>1, <1>3, <1>4, Z3
  <2> QED
    BY <2>1, <1>1, <1>2, <1>4
<1> QED
  BY <1>1, <1>4, <1>5 DEF EventOf, EventIds

LEMMA CatalogueSizeType == CatalogueSize \in Nat
  BY CatalogueAssumption DEF CatalogueSize

\* The rows k INSERTs of resetTickets add have the type of the table.
LEMMA ListingsType ==
  ASSUME NEW from \in TicketIds, NEW k \in 0 .. CatalogueSize,
         NEW rows \in Listings(from, k)
  PROVE  /\ DOMAIN rows = from .. from + k - 1
         /\ \A id \in DOMAIN rows : rows[id] \in InfoRow
<1>1. PICK price \in [1 .. k -> Prices], seat \in [1 .. k -> Seats] :
        rows = [id \in from .. from + k - 1 |->
                  [eventID |-> EventOf(id - from + 1), sellerID |-> NoSeller,
                   price |-> price[id - from + 1],
                   seat |-> seat[id - from + 1]]]
  BY DEF Listings
<1>2. \A id \in from .. from + k - 1 :
        id - from + 1 \in 1 .. k /\ id - from + 1 \in 1 .. CatalogueSize
  BY CatalogueSizeType DEF TicketIds
<1>3. ASSUME NEW id \in from .. from + k - 1
      PROVE  /\ EventOf(id - from + 1) \in EventIds
             /\ price[id - from + 1] \in Nat
             /\ seat[id - from + 1] \in Seats
  BY <1>2, EventOfType, CatalogueAssumption
<1> QED
  BY <1>1, <1>3 DEF InfoRow

\* What is on sale has its type, and AUTO_INCREMENT is beyond it.
OnSaleType ==
  /\ next_id \in TicketIds
  /\ DOMAIN ticket_info \subseteq 1 .. next_id - 1
  /\ \A id \in DOMAIN ticket_info : ticket_info[id] \in InfoRow

LEMMA OffersType ==
  ASSUME OnSaleType
  PROVE  Offers(ticket_info) \subseteq
           [ticketID : TicketIds, eventID : EventIds, price : Nat, seat : Seats]
  BY DEF OnSaleType, Offers, InfoRow, TicketIds

\* So it is after resetTickets, however many of its statements failed, and
\* the ids of the rows inserted end at AUTO_INCREMENT.
LEMMA RefillType ==
  ASSUME OnSaleType, NEW truncated \in BOOLEAN, NEW k \in 0 .. CatalogueSize,
         resetTickets(truncated, k)
  PROVE  /\ OnSaleType'
         /\ next_id' - k .. next_id' - 1 \subseteq TicketIds
         /\ next_id' - k .. next_id' - 1 \subseteq DOMAIN ticket_info'
         /\ ~truncated => DOMAIN ticket_info \subseteq DOMAIN ticket_info'
<1> DEFINE from == IF truncated THEN 1 ELSE next_id
           kept == IF truncated THEN << >> ELSE ticket_info
<1>1. from \in TicketIds /\ k \in Nat
  BY CatalogueSizeType DEF OnSaleType, TicketIds
<1>2. PICK rows \in Listings(from, k) : ticket_info' = Overlay(kept, rows)
  BY DEF resetTickets
<1>3. next_id' = from + k
  BY DEF resetTickets
<1>4. /\ DOMAIN rows = from .. from + k - 1
      /\ \A id \in DOMAIN rows : rows[id] \in InfoRow
  BY <1>1, ListingsType
<1>5. /\ DOMAIN kept \subseteq 1 .. from - 1
      /\ \A id \in DOMAIN kept : kept[id] \in InfoRow
  BY DEF OnSaleType
<1>6. /\ DOMAIN ticket_info' = DOMAIN kept \cup DOMAIN rows
      /\ \A id \in DOMAIN ticket_info' : ticket_info'[id] \in InfoRow
  BY <1>2, <1>4, <1>5 DEF Overlay
<1>7. next_id' - k .. next_id' - 1 = DOMAIN rows
  BY <1>1, <1>3, <1>4 DEF TicketIds
<1>8. DOMAIN ticket_info' \subseteq 1 .. next_id' - 1
  BY <1>1, <1>3, <1>4, <1>5, <1>6 DEF TicketIds
<1> QED
  BY <1>1, <1>3, <1>4, <1>6, <1>7, <1>8 DEF OnSaleType, TicketIds

\* A statement adds at most one failure, and none beyond the bound.
LEMMA StatementFaults ==
  ASSUME faults \in 0 .. MaxFaults, NEW ok \in BOOLEAN, Statement(ok)
  PROVE  /\ faults' \in 0 .. MaxFaults
         /\ faults <= faults'
         /\ ~ok => faults' = faults + 1
  BY CatalogueAssumption DEF Statement

\* So do the two kinds of statement of resetTickets.
LEMMA RefillFaults ==
  ASSUME faults \in 0 .. MaxFaults, NEW truncated \in BOOLEAN, NEW k,
         resetTickets(truncated, k)
  PROVE  faults' \in 0 .. MaxFaults /\ faults <= faults'
<1> DEFINE failed == {step \in {<<1, truncated>>, <<2, k = CatalogueSize>>} :
                        ~step[2]}
<1>1. failed \subseteq {<<1, truncated>>, <<2, k = CatalogueSize>>}
  OBVIOUS
<1>2. IsFiniteSet({<<1, truncated>>, <<2, k = CatalogueSize>>})
  <2>1. ASSUME NEW x, NEW y PROVE IsFiniteSet({x, y})
    <3>1. IsFiniteSet({x} \cup {y})
      BY FS_Singleton, FS_Union
    <3>2. {x, y} = {x} \cup {y}
      OBVIOUS
    <3> QED
      BY <3>1, <3>2
  <2> QED
    BY <2>1, Zenon
<1>3. Cardinality(failed) \in Nat
  BY <1>1, <1>2, FS_Subset, FS_CardinalityType
<1> QED
  BY <1>3, CatalogueAssumption DEF resetTickets

\* Which locals an activation record has.
LEMMA CallType ==
  ASSUME NEW c \in CallRecord
  PROVE  /\ c.pc = "getTicketInfoById" => /\ c.user \in Users
                                          /\ c.id \in TicketIds
                                          /\ c.event \in EventIds
         /\ c.pc \in BuyHead \cup BuyTail \cup Selling => c.t \in Ticket
         /\ c.pc \in Purging => c.old \in Hashes \cup {NoHash}
         /\ c.pc = "addTicketInfo" => c.newPrice \in Nat
         /\ c.pc = "setTicketInUse" => c.code \in Codes
         /\ c.pc = "idle" => c = Idle
  BY DEF CallRecord, BuyHead, BuyTail, Selling, Purging, Idle

LEMMA CallStep ==
  ASSUME call \in [Threads -> CallRecord], NEW th \in Threads,
         NEW c \in CallRecord, CallNext(th, c)
  PROVE  call' \in [Threads -> CallRecord]
  BY DEF CallNext

LEMMA ReturnStep ==
  ASSUME call \in [Threads -> CallRecord], NEW th \in Threads, Return(th)
  PROVE  call' \in [Threads -> CallRecord]
  BY DEF Return, CallRecord

\* A step that touches one thread only disturbs that thread's call.
LEMMA OtherCalls ==
  ASSUME call \in [Threads -> CallRecord], NEW th \in Threads,
         NEW c, CallNext(th, c)
  PROVE  /\ call'[th] = c
         /\ \A other \in Threads \ {th} : call'[other] = call[other]
  BY DEF CallNext

LEMMA ReturnIsNext ==
  ASSUME NEW th \in Threads, Return(th)
  PROVE  CallNext(th, Idle)
  BY DEF Return, CallNext

-----------------------------------------------------------------------------

LEMMA InitType == Init => TypeOK
<1> SUFFICES ASSUME Init PROVE TypeOK
  OBVIOUS
<1>1. PICK k \in 0 .. CatalogueSize : /\ ticket_info \in Listings(1, k)
                                      /\ next_id = 1 + k
                                      /\ listed = 1 .. k
                                      /\ faults \in Nat
  BY DEF Init
<1>4. k \in Nat /\ 1 \in TicketIds
  BY CatalogueSizeType DEF TicketIds
<1>5. OnSaleType
  BY <1>1, <1>4, ListingsType DEF OnSaleType, TicketIds
<1>6. listed \subseteq TicketIds /\ IsFiniteSet(listed)
  BY <1>1, <1>4, FS_Interval DEF TicketIds
<1>7. faults \in 0 .. MaxFaults
  BY <1>1, CatalogueAssumption DEF Init
<1>2. DOMAIN ticket = {} /\ DOMAIN resell_tickets = {}
  BY DEF Init
<1>3. call \in [Threads -> CallRecord]
  BY DEF Init, CallRecord
<1> QED
  BY <1>2, <1>3, <1>5, <1>6, <1>7, OffersType, ServiceAssumption
  DEF Init, TypeOK, OnSaleType

LEMMA SeenType ==
  ASSUME TypeOK
  PROVE  SeenIds \subseteq TicketIds
  BY DEF TypeOK, SeenIds

LEMMA BuyCountOwnedType ==
  ASSUME TypeOK, NEW th \in Threads, NEW user \in Users, NEW id \in TicketIds,
         NEW event \in EventIds, BuyCountOwned(th, user, id, event)
  PROVE  TypeOK'
<1>1. PICK ok \in BOOLEAN :
        /\ Statement(ok)
        /\ \/ UNCHANGED call
           \/ CallNext(th, [pc |-> "getTicketInfoById",
                            user |-> user, id |-> id, event |-> event])
  BY DEF BuyCountOwned
<1>2. call' \in [Threads -> CallRecord]
  BY <1>1, CallStep DEF CallRecord, TypeOK
<1>3. faults' \in 0 .. MaxFaults
  BY <1>1, StatementFaults DEF TypeOK
<1> QED
  BY <1>2, <1>3 DEF TypeOK, BuyCountOwned, tables, history, on_sale, starts

LEMMA BuyLookUpType ==
  ASSUME TypeOK, NEW th \in Threads, BuyLookUp(th)
  PROVE  TypeOK'
<1>1. PICK ok \in BOOLEAN :
        LET found == {row \in getTicketInfoById(call[th].id, ok) :
                        row.eventID = call[th].event}
        IN /\ Statement(ok)
           /\ \/ found = {} /\ Return(th) /\ UNCHANGED generated
              \/ \E row \in found, code \in Codes \ generated :
                   /\ generated' = generated \cup {code}
                   /\ CallNext(th, [pc |-> "makeTicketUnavailable",
                                    t |-> NewTicket(call[th].id, row,
                                                    call[th].user, code)])
  BY DEF BuyLookUp
<1>2. faults' \in 0 .. MaxFaults
  BY <1>1, StatementFaults DEF TypeOK
<1>3. call[th].id \in TicketIds /\ call[th].user \in Users
  BY CallType DEF TypeOK, BuyLookUp
<1>4. \A row \in getTicketInfoById(call[th].id, ok) : row \in InfoRow
  BY DEF getTicketInfoById, TypeOK
<1>5. call' \in [Threads -> CallRecord] /\ generated' \subseteq Codes
  <2>1. CASE Return(th) /\ UNCHANGED generated
    BY <2>1, ReturnStep DEF TypeOK
  <2>2. ASSUME NEW row \in getTicketInfoById(call[th].id, ok),
               NEW code \in Codes,
               generated' = generated \cup {code},
               CallNext(th, [pc |-> "makeTicketUnavailable",
                             t |-> NewTicket(call[th].id, row,
                                             call[th].user, code)])
        PROVE  call' \in [Threads -> CallRecord] /\ generated' \subseteq Codes
    <3>1. NewTicket(call[th].id, row, call[th].user, code) \in Ticket
      BY <1>3, <1>4 DEF NewTicket, Ticket, InfoRow
    <3>2. [pc |-> "makeTicketUnavailable",
           t |-> NewTicket(call[th].id, row, call[th].user, code)] \in CallRecord
      BY <3>1 DEF CallRecord, BuyHead
    <3> QED
      BY <2>2, <3>2, CallStep DEF TypeOK
  <2> QED
    BY <1>1, <2>1, <2>2
<1> QED
  BY <1>2, <1>5 DEF TypeOK, BuyLookUp, tables, on_sale, starts

LEMMA BuyTakeOffSaleType ==
  ASSUME TypeOK, NEW th \in Threads, BuyTakeOffSale(th)
  PROVE  TypeOK'
<1>1. PICK ok \in BOOLEAN :
        /\ Statement(ok)
        /\ makeTicketUnavailable(call[th].t.ticketID, ok)
        /\ IF ok THEN CallNext(th, [pc |-> "addNewTicket", t |-> call[th].t])
                 ELSE Return(th)
  BY DEF BuyTakeOffSale
<1>2. faults' \in 0 .. MaxFaults
  BY <1>1, StatementFaults DEF TypeOK
<1>3. call[th].t \in Ticket
  BY CallType DEF TypeOK, BuyTakeOffSale, BuyHead
<1>4. [pc |-> "addNewTicket", t |-> call[th].t] \in CallRecord
  BY <1>3 DEF CallRecord, BuyHead
<1>5. call' \in [Threads -> CallRecord]
  BY <1>1, <1>4, CallStep, ReturnStep DEF TypeOK
<1>6. /\ next_id' = next_id
      /\ DOMAIN ticket_info' \subseteq DOMAIN ticket_info
      /\ \A id \in DOMAIN ticket_info' : ticket_info'[id] \in InfoRow
  BY <1>1 DEF makeTicketUnavailable, Delete, TypeOK
<1> QED
  BY <1>2, <1>5, <1>6 DEF TypeOK, BuyTakeOffSale, history, starts

LEMMA BuyAddTicketType ==
  ASSUME TypeOK, NEW th \in Threads, BuyAddTicket(th)
  PROVE  TypeOK'
<1> DEFINE t == call[th].t
<1>1. PICK ok \in BOOLEAN :
        /\ Statement(ok)
        /\ addNewTicket(ValCodeHash(t), TicketHash(t), t.seat, t.buyerID, ok)
        /\ IF addNewTicketSucceeds(ValCodeHash(t), ok)
             THEN CallNext(th, [pc |-> "isTicketInResell", t |-> t])
             ELSE Return(th)
  BY DEF BuyAddTicket
<1>2. faults' \in 0 .. MaxFaults
  BY <1>1, StatementFaults DEF TypeOK
<1>3. t \in Ticket
  BY CallType DEF TypeOK, BuyAddTicket, BuyHead
<1>4. [pc |-> "isTicketInResell", t |-> t] \in CallRecord
  BY <1>3 DEF CallRecord
<1>5. call' \in [Threads -> CallRecord]
  BY <1>1, <1>4, CallStep, ReturnStep DEF TypeOK
<1>6. ValCodeHash(t) \in Hashes
  BY <1>3 DEF ValCodeHash, SHA256, Hashes, Ticket
<1>7. [ticket_hash |-> TicketHash(t), info |-> t.seat, used |-> FALSE,
       owner_id |-> t.buyerID] \in TicketRow
  BY <1>3 DEF TicketRow, TicketHash, SHA256, Ticket
<1>8. /\ DOMAIN ticket' \subseteq Hashes
      /\ \A h \in DOMAIN ticket' : ticket'[h] \in TicketRow
  BY <1>1, <1>6, <1>7 DEF addNewTicket, Insert, TypeOK
<1> QED
  BY <1>2, <1>5, <1>8 DEF TypeOK, BuyAddTicket, history, on_sale, starts

LEMMA BuyIsResoldType ==
  ASSUME TypeOK, NEW th \in Threads, BuyIsResold(th)
  PROVE  TypeOK'
<1>1. PICK ok \in BOOLEAN :
        /\ Statement(ok)
        /\ \/ /\ CallNext(th, [pc |-> "getOldTicketValCodeHash",
                                t |-> call[th].t])
              /\ UNCHANGED issued
           \/ Deliver(th)
  BY DEF BuyIsResold
<1>2. faults' \in 0 .. MaxFaults
  BY <1>1, StatementFaults DEF TypeOK
<1>3. call[th].t \in Ticket
  BY CallType DEF TypeOK, BuyIsResold, BuyTail
<1>4. [pc |-> "getOldTicketValCodeHash", t |-> call[th].t] \in CallRecord
  BY <1>3 DEF CallRecord
<1>5. call' \in [Threads -> CallRecord] /\ issued' \subseteq Ticket
  BY <1>1, <1>3, <1>4, CallStep, ReturnStep DEF TypeOK, Deliver
<1> QED
  BY <1>2, <1>5 DEF TypeOK, BuyIsResold, tables, on_sale, starts

LEMMA BuyGetOldType ==
  ASSUME TypeOK, NEW th \in Threads, BuyGetOld(th)
  PROVE  TypeOK'
<1>1. PICK ok \in BOOLEAN :
        /\ Statement(ok)
        /\ \E h \in OldTicketValCodeHashes(call[th].t.ticketID, ok) :
             CallNext(th, [pc |-> "removeTicketFromResell",
                           t |-> call[th].t, old |-> h])
  BY DEF BuyGetOld
<1> PICK old \in OldTicketValCodeHashes(call[th].t.ticketID, ok) :
      CallNext(th, [pc |-> "removeTicketFromResell",
                    t |-> call[th].t, old |-> old])
  BY <1>1
<1>2. faults' \in 0 .. MaxFaults
  BY <1>1, StatementFaults DEF TypeOK
<1>3. call[th].t \in Ticket
  BY CallType DEF TypeOK, BuyGetOld, BuyTail
<1>4. old \in Hashes \cup {NoHash}
  BY <1>1 DEF OldTicketValCodeHashes, ResellRows, TypeOK
<1>5. [pc |-> "removeTicketFromResell", t |-> call[th].t, old |-> old]
        \in CallRecord
  BY <1>3, <1>4 DEF CallRecord, Purging
<1>6. call' \in [Threads -> CallRecord]
  BY <1>1, <1>5, CallStep DEF TypeOK
<1> QED
  BY <1>2, <1>6 DEF TypeOK, BuyGetOld, tables, history, on_sale, starts

LEMMA BuyRemoveResellType ==
  ASSUME TypeOK, NEW th \in Threads, BuyRemoveResell(th)
  PROVE  TypeOK'
<1>1. PICK ok \in BOOLEAN :
        Statement(ok) /\ removeTicketFromResell(call[th].t.ticketID, ok)
  BY DEF BuyRemoveResell
<1>2. faults' \in 0 .. MaxFaults
  BY <1>1, StatementFaults DEF TypeOK
<1>3. call[th].t \in Ticket /\ call[th].old \in Hashes \cup {NoHash}
  BY CallType DEF TypeOK, BuyRemoveResell, BuyTail, Purging
<1>4. [pc |-> "removeTicket", t |-> call[th].t, old |-> call[th].old]
        \in CallRecord
  BY <1>3 DEF CallRecord, Purging
<1>5. call' \in [Threads -> CallRecord]
  BY <1>4, CallStep DEF TypeOK, BuyRemoveResell
<1>6. /\ DOMAIN resell_tickets' \subseteq Hashes
      /\ \A h \in DOMAIN resell_tickets' : resell_tickets'[h] \in TicketIds
  BY <1>1 DEF removeTicketFromResell, Delete, TypeOK
<1> QED
  BY <1>2, <1>5, <1>6 DEF TypeOK, BuyRemoveResell, history, on_sale, starts

LEMMA BuyRemoveOldType ==
  ASSUME TypeOK, NEW th \in Threads, BuyRemoveOld(th)
  PROVE  TypeOK'
<1>1. PICK ok \in BOOLEAN : Statement(ok) /\ removeTicket(call[th].old, ok)
  BY DEF BuyRemoveOld
<1>2. faults' \in 0 .. MaxFaults
  BY <1>1, StatementFaults DEF TypeOK
<1>3. call[th].t \in Ticket
  BY CallType DEF TypeOK, BuyRemoveOld, BuyTail
<1>4. call' \in [Threads -> CallRecord] /\ issued' \subseteq Ticket
  BY <1>3, ReturnStep DEF TypeOK, BuyRemoveOld, Deliver
<1>5. /\ DOMAIN ticket' \subseteq Hashes
      /\ \A h \in DOMAIN ticket' : ticket'[h] \in TicketRow
  BY <1>1 DEF removeTicket, Delete, TypeOK
<1> QED
  BY <1>2, <1>4, <1>5 DEF TypeOK, BuyRemoveOld, on_sale, starts

\* A submission is any record, but one whose hash is stored is a ticket.
LEMMA AcceptedType ==
  ASSUME TypeOK, NEW t, NEW ok \in BOOLEAN,
         getTicketHashByValidationCode(ValCodeHash(t), ok) = {TicketHash(t)}
  PROVE  /\ t \in Ticket
         /\ ValCodeHash(t) \in DOMAIN ticket
         /\ ticket[ValCodeHash(t)].ticket_hash = TicketHash(t)
<1>1. /\ ValCodeHash(t) \in DOMAIN ticket
      /\ ticket[ValCodeHash(t)].ticket_hash = TicketHash(t)
  BY DEF getTicketHashByValidationCode
<1>2. TicketHash(t) \in {"sha256"} \X Ticket
  BY <1>1 DEF TypeOK, TicketRow
<1> QED
  BY <1>1, <1>2 DEF TicketHash, SHA256

LEMMA SellCheckType ==
  ASSUME TypeOK, NEW th \in Threads, NEW t \in Submissions,
         NEW newPrice \in AskingPrices, SellCheck(th, t, newPrice)
  PROVE  TypeOK'
<1>1. PICK ok \in BOOLEAN :
        /\ Statement(ok)
        /\ \/ UNCHANGED call
           \/ /\ getTicketHashByValidationCode(ValCodeHash(t), ok)
                   = {TicketHash(t)}
              /\ newPrice >= 0
              /\ CallNext(th, [pc |-> "addTicketInfo", t |-> t,
                               newPrice |-> newPrice])
  BY DEF SellCheck
<1>2. faults' \in 0 .. MaxFaults
  BY <1>1, StatementFaults DEF TypeOK
<1>3. t \in Ticket /\ newPrice >= 0
        => [pc |-> "addTicketInfo", t |-> t, newPrice |-> newPrice]
             \in CallRecord
  BY ServiceAssumption DEF CallRecord
<1>4. call' \in [Threads -> CallRecord]
  BY <1>1, <1>3, AcceptedType, CallStep DEF TypeOK
<1> QED
  BY <1>2, <1>4 DEF TypeOK, SellCheck, tables, history, on_sale, starts

LEMMA SellListType ==
  ASSUME TypeOK, NEW th \in Threads, SellList(th)
  PROVE  TypeOK'
<1> DEFINE t == call[th].t
           row == [eventID |-> t.eventID, sellerID |-> t.buyerID,
                   price |-> call[th].newPrice, seat |-> t.seat]
<1>1. PICK ok \in BOOLEAN :
        /\ Statement(ok)
        /\ addTicketInfo(t.ticketID, row, ok)
        /\ IF addTicketInfoSucceeds(t.ticketID, ok)
             THEN CallNext(th, [pc |-> "addTicketToResell", t |-> t])
             ELSE Return(th)
  BY DEF SellList
<1>2. faults' \in 0 .. MaxFaults
  BY <1>1, StatementFaults DEF TypeOK
<1>3. t \in Ticket /\ call[th].newPrice \in Nat
  BY CallType DEF TypeOK, SellList, Selling
<1>4. [pc |-> "addTicketToResell", t |-> t] \in CallRecord
  BY <1>3 DEF CallRecord
<1>5. call' \in [Threads -> CallRecord]
  BY <1>1, <1>4, CallStep, ReturnStep DEF TypeOK
<1>6. t.ticketID \in TicketIds /\ row \in InfoRow
  BY <1>3 DEF Ticket, InfoRow
<1>7. OnSaleType'
  <2>1. CASE addTicketInfoSucceeds(t.ticketID, ok)
    BY <1>1, <1>6, <2>1
    DEF addTicketInfo, addTicketInfoSucceeds, InsertSucceeds, Insert, TypeOK,
        OnSaleType, TicketIds
  <2>2. CASE ~addTicketInfoSucceeds(t.ticketID, ok)
    BY <1>1, <2>2
    DEF addTicketInfo, addTicketInfoSucceeds, InsertSucceeds, Insert, TypeOK,
        OnSaleType
  <2> QED
    BY <2>1, <2>2
<1> QED
  BY <1>2, <1>5, <1>7 DEF TypeOK, OnSaleType, SellList, history, starts

LEMMA SellMarkResellType ==
  ASSUME TypeOK, NEW th \in Threads, SellMarkResell(th)
  PROVE  TypeOK'
<1>1. PICK ok \in BOOLEAN :
        /\ Statement(ok)
        /\ addTicketToResell(ValCodeHash(call[th].t), call[th].t.ticketID, ok)
  BY DEF SellMarkResell
<1>2. faults' \in 0 .. MaxFaults
  BY <1>1, StatementFaults DEF TypeOK
<1>3. call[th].t \in Ticket
  BY CallType DEF TypeOK, SellMarkResell, Selling
<1>4. ValCodeHash(call[th].t) \in Hashes /\ call[th].t.ticketID \in TicketIds
  BY <1>3 DEF ValCodeHash, SHA256, Hashes, Ticket
<1>5. /\ DOMAIN resell_tickets' \subseteq Hashes
      /\ \A h \in DOMAIN resell_tickets' : resell_tickets'[h] \in TicketIds
  BY <1>1, <1>4 DEF addTicketToResell, Insert, TypeOK
<1>6. call' \in [Threads -> CallRecord]
  BY ReturnStep DEF TypeOK, SellMarkResell
<1> QED
  BY <1>2, <1>5, <1>6 DEF TypeOK, SellMarkResell, history, on_sale, starts

LEMMA ValidateCheckType ==
  ASSUME TypeOK, NEW th \in Threads, NEW code \in Presented,
         ValidateCheck(th, code)
  PROVE  TypeOK'
<1>1. PICK ok \in BOOLEAN :
        /\ Statement(ok)
        /\ \/ UNCHANGED call
           \/ /\ existsTicketWithValidationCode(SHA256(code), ok)
              /\ CallNext(th, [pc |-> "setTicketInUse", code |-> code])
  BY DEF ValidateCheck
<1>2. faults' \in 0 .. MaxFaults
  BY <1>1, StatementFaults DEF TypeOK
<1>3. SHA256(code) \in DOMAIN ticket => code \in Codes
  BY DEF TypeOK, Hashes, SHA256
<1>4. code \in Codes => [pc |-> "setTicketInUse", code |-> code] \in CallRecord
  BY DEF CallRecord
<1>5. call' \in [Threads -> CallRecord]
  BY <1>1, <1>3, <1>4, CallStep DEF TypeOK, existsTicketWithValidationCode
<1> QED
  BY <1>2, <1>5 DEF TypeOK, ValidateCheck, tables, history, on_sale, starts

LEMMA ValidateMarkType ==
  ASSUME TypeOK, NEW th \in Threads, ValidateMark(th)
  PROVE  TypeOK'
<1>1. PICK ok \in BOOLEAN :
        Statement(ok) /\ setTicketInUse(SHA256(call[th].code), ok)
  BY DEF ValidateMark
<1>2. faults' \in 0 .. MaxFaults
  BY <1>1, StatementFaults DEF TypeOK
<1>3. /\ DOMAIN ticket' \subseteq Hashes
      /\ \A h \in DOMAIN ticket' : ticket'[h] \in TicketRow
  BY <1>1 DEF setTicketInUse, TicketRow, TypeOK
<1>4. call[th].code \in Codes
  BY CallType DEF TypeOK, ValidateMark
<1>5. admitted' \in [Codes -> Nat]
  BY <1>4 DEF TypeOK, ValidateMark
<1>6. call' \in [Threads -> CallRecord]
  BY ReturnStep DEF TypeOK, ValidateMark
<1> QED
  BY <1>2, <1>3, <1>5, <1>6 DEF TypeOK, ValidateMark, on_sale, starts

LEMMA RestartType ==
  ASSUME TypeOK, Restart
  PROVE  TypeOK'
<1>1. PICK truncated \in BOOLEAN, k \in 0 .. CatalogueSize :
        /\ resetTickets(truncated, k)
        /\ listed' = next_id' - k .. next_id' - 1
                       \cup IF truncated THEN {} ELSE listed \ BeingStored
  BY DEF Restart
<1>2. OnSaleType' /\ next_id' - k .. next_id' - 1 \subseteq TicketIds
  BY <1>1, RefillType DEF TypeOK, OnSaleType
<1>3. call' \in [Threads -> CallRecord]
  BY DEF Restart, CallRecord
<1>4. restarts' \in 0 .. MaxRestarts
  BY ServiceAssumption DEF Restart, TypeOK
<1>5. offered' \subseteq [ticketID : TicketIds, eventID : EventIds,
                          price : Nat, seat : Seats]
  <2>1. Offers(ticket_info)' \subseteq
          [ticketID : TicketIds, eventID : EventIds, price : Nat, seat : Seats]
    BY <1>2 DEF OnSaleType, Offers, InfoRow, TicketIds
  <2> QED
    BY <2>1 DEF Restart, TypeOK, Offers
<1>6. listed' \subseteq TicketIds /\ IsFiniteSet(listed')
  <2> DEFINE inserted == next_id' - k .. next_id' - 1
             left == IF truncated THEN {} ELSE listed \ BeingStored
  <2>1. next_id' - k \in Int /\ next_id' - 1 \in Int
    BY <1>2, CatalogueSizeType DEF OnSaleType, TicketIds
  <2>2. IsFiniteSet(inserted)
    BY <2>1, FS_Interval
  <2>3. left \subseteq listed /\ IsFiniteSet(left)
    BY FS_Subset DEF TypeOK
  <2>4. IsFiniteSet(inserted \cup left)
    BY <2>2, <2>3, FS_Union
  <2> QED
    BY <1>1, <1>2, <2>3, <2>4 DEF TypeOK
<1>7. faults' \in 0 .. MaxFaults
  BY <1>1, RefillFaults DEF TypeOK
<1> QED
  BY <1>1, <1>2, <1>3, <1>4, <1>5, <1>6, <1>7
  DEF Restart, resetTickets, TypeOK, OnSaleType, history

\* Every step keeps the types.
LEMMA StepType ==
  ASSUME TypeOK, [Next]_vars
  PROVE  TypeOK'
<1>1. ASSUME NEW th \in Threads, Buy(th) PROVE TypeOK'
  BY <1>1, SeenType, BuyCountOwnedType DEF Buy
<1>2. ASSUME NEW th \in Threads, Sell(th) PROVE TypeOK'
  BY <1>2, SellCheckType DEF Sell
<1>3. ASSUME NEW th \in Threads, Validate(th) PROVE TypeOK'
  BY <1>3, ValidateCheckType DEF Validate
<1>4. ASSUME NEW th \in Threads, Continue(th) PROVE TypeOK'
  BY <1>4, BuyLookUpType, BuyTakeOffSaleType, BuyAddTicketType,
     BuyIsResoldType, BuyGetOldType, BuyRemoveResellType, BuyRemoveOldType,
     SellListType, SellMarkResellType, ValidateMarkType DEF Continue
<1>5. CASE Restart
  BY <1>5, RestartType
<1>6. CASE UNCHANGED vars
  BY <1>6 DEF vars, tables, history, TypeOK, on_sale, starts
<1> QED
  BY <1>1, <1>2, <1>3, <1>4, <1>5, <1>6 DEF Next

\* Every reachable state of TicketService has the types its tables and calls
\* declare, for every value of the constants.
THEOREM TypeCorrect == Spec => []TypeOK
<1>1. Init => TypeOK
  BY InitType
<1>2. TypeOK /\ [Next]_vars => TypeOK'
  BY StepType
<1> QED
  BY <1>1, <1>2, PTL DEF Spec

-----------------------------------------------------------------------------
(***************************************************************************)
(* Prices and places                                                       *)
(***************************************************************************)


\* The part of FaceValueInv about the activation record of one thread.
GenuineCall(c) ==
  /\ c.pc \in BuyHead \cup BuyTail \cup Selling => GenuineTicket(c.t)
  /\ c.pc = "addTicketInfo" => c.newPrice <= c.t.price

\* What is on sale when it is offered is genuine from then on.
LEMMA OfferGenuine ==
  ASSUME OnSaleType, Offers(ticket_info) \subseteq offered,
         NEW id \in DOMAIN ticket_info
  PROVE  Genuine(id, ticket_info[id].eventID, ticket_info[id].seat,
                 ticket_info[id].price)
<1> DEFINE o == [ticketID |-> id, eventID |-> ticket_info[id].eventID,
                 price |-> ticket_info[id].price, seat |-> ticket_info[id].seat]
<1>1. o \in offered
  BY DEF Offers
<1>2. ticket_info[id].price \in Nat
  BY DEF OnSaleType, InfoRow
<1> QED
  BY <1>1, <1>2 DEF Genuine

\* Nothing genuine stops being genuine.
LEMMA GenuineKept ==
  ASSUME offered \subseteq offered'
  PROVE  /\ \A id, event, seat, price :
              Genuine(id, event, seat, price)
                => Genuine(id, event, seat, price)'
         /\ \A t : GenuineTicket(t) => GenuineTicket(t)'
  BY DEF Genuine, GenuineTicket

\* A resale below the price of a genuine ticket is genuine.
LEMMA CheaperIsGenuine ==
  ASSUME NEW t \in Ticket, GenuineTicket(t), offered \subseteq [ticketID : TicketIds, eventID : EventIds, price : Nat, seat : Seats],
         NEW p \in Nat, p <= t.price
  PROVE  Genuine(t.ticketID, t.eventID, t.seat, p)
  BY DEF GenuineTicket, Genuine, Ticket

\* Steps that write neither ticket_info nor ticket nor issued, and leave the
\* thread with a genuine call.
LEMMA QuietStep ==
  ASSUME TypeOK, FaceValueInv, NEW th \in Threads, NEW c,
         CallNext(th, c), GenuineCall(c),
         UNCHANGED <<ticket_info, ticket, issued, offered>>
  PROVE  FaceValueInv'
<1>1. \A other \in Threads : GenuineCall(call'[other])
  BY OtherCalls DEF TypeOK, FaceValueInv, GenuineCall
<1> QED
  BY <1>1 DEF FaceValueInv, FaceValue, GenuineCall, GenuineTicket, Genuine

LEMMA IdleIsGenuine == GenuineCall(Idle)
  BY DEF GenuineCall, Idle, BuyHead, BuyTail, Selling

LEMMA InitFaceValue == Init => FaceValueInv
<1> SUFFICES ASSUME Init PROVE FaceValueInv
  OBVIOUS
<1>1. \A id \in DOMAIN ticket_info :
        Genuine(id, ticket_info[id].eventID, ticket_info[id].seat,
                ticket_info[id].price)
  BY InitType, OfferGenuine DEF Init, TypeOK, OnSaleType
<1>2. DOMAIN ticket = {}
  BY DEF Init
<1>3. \A th \in Threads : GenuineCall(call[th])
  BY IdleIsGenuine DEF Init
<1> QED
  BY <1>1, <1>2, <1>3 DEF Init, FaceValueInv, FaceValue, GenuineCall

LEMMA BuyLookUpFaceValue ==
  ASSUME TypeOK, FaceValueInv, NEW th \in Threads, BuyLookUp(th)
  PROVE  FaceValueInv'
<1>1. CASE Return(th)
  BY <1>1, ReturnIsNext, IdleIsGenuine, QuietStep DEF BuyLookUp, tables,
                                                      on_sale, starts
<1>2. ASSUME NEW ok \in BOOLEAN,
             NEW row \in getTicketInfoById(call[th].id, ok),
             NEW code \in Codes,
             CallNext(th, [pc |-> "makeTicketUnavailable",
                           t |-> NewTicket(call[th].id, row,
                                           call[th].user, code)])
      PROVE  FaceValueInv'
  <2>1. call[th].id \in DOMAIN ticket_info /\ row = ticket_info[call[th].id]
    BY DEF getTicketInfoById
  <2>2. GenuineTicket(NewTicket(call[th].id, row, call[th].user, code))
    BY <2>1 DEF NewTicket, GenuineTicket, FaceValueInv, FaceValue
  <2>3. GenuineCall([pc |-> "makeTicketUnavailable",
                     t |-> NewTicket(call[th].id, row, call[th].user, code)])
    BY <2>2 DEF GenuineCall
  <2> QED
    BY <1>2, <2>3, QuietStep DEF BuyLookUp, tables, on_sale, starts
<1> QED
  BY <1>1, <1>2 DEF BuyLookUp

LEMMA BuyTakeOffSaleFaceValue ==
  ASSUME TypeOK, FaceValueInv, NEW th \in Threads, BuyTakeOffSale(th)
  PROVE  FaceValueInv'
<1>1. GenuineTicket(call[th].t)
  BY DEF BuyTakeOffSale, FaceValueInv, BuyHead
<1>2. PICK c : CallNext(th, c) /\ GenuineCall(c)
  BY <1>1, IdleIsGenuine, ReturnIsNext DEF BuyTakeOffSale, GenuineCall
<1>3. \A other \in Threads : GenuineCall(call'[other])
  BY <1>2, OtherCalls DEF TypeOK, FaceValueInv, GenuineCall
<1>4. /\ DOMAIN ticket_info' \subseteq DOMAIN ticket_info
      /\ \A id \in DOMAIN ticket_info' : ticket_info'[id] = ticket_info[id]
  BY DEF BuyTakeOffSale, makeTicketUnavailable, Delete
<1>5. offered' = offered /\ ticket' = ticket /\ issued' = issued
  BY DEF BuyTakeOffSale, history, starts
<1> QED
  BY <1>3, <1>4, <1>5
  DEF FaceValueInv, FaceValue, GenuineCall, GenuineTicket, Genuine

LEMMA BuyAddTicketFaceValue ==
  ASSUME TypeOK, FaceValueInv, NEW th \in Threads, BuyAddTicket(th)
  PROVE  FaceValueInv'
<1> DEFINE t == call[th].t
<1>1. GenuineTicket(t)
  BY DEF BuyAddTicket, FaceValueInv, BuyHead
<1>2. PICK c : CallNext(th, c) /\ GenuineCall(c)
  BY <1>1, IdleIsGenuine, ReturnIsNext DEF BuyAddTicket, GenuineCall
<1>3. \A other \in Threads : GenuineCall(call'[other])
  BY <1>2, OtherCalls DEF TypeOK, FaceValueInv, GenuineCall
<1>4. \A h \in DOMAIN ticket' : \/ h \in DOMAIN ticket /\ ticket'[h] = ticket[h]
                                \/ TicketOf(ticket'[h]) = t
  BY DEF BuyAddTicket, addNewTicket, Insert, TicketOf, TicketHash, SHA256
<1>5. \A h \in DOMAIN ticket' : GenuineTicket(TicketOf(ticket'[h]))
  BY <1>1, <1>4 DEF FaceValueInv
<1>6. offered' = offered /\ ticket_info' = ticket_info /\ issued' = issued
  BY DEF BuyAddTicket, history, on_sale, starts
<1> QED
  BY <1>3, <1>5, <1>6
  DEF FaceValueInv, FaceValue, GenuineCall, GenuineTicket, Genuine, TicketOf

\* A purchase ends: its genuine ticket is delivered.
LEMMA DeliverFaceValue ==
  ASSUME TypeOK, FaceValueInv, NEW th \in Threads, call[th].pc \in BuyTail,
         Deliver(th), UNCHANGED <<ticket_info, offered>>,
         \A h \in DOMAIN ticket' : h \in DOMAIN ticket /\ ticket'[h] = ticket[h]
  PROVE  FaceValueInv'
<1>1. GenuineTicket(call[th].t)
  BY DEF FaceValueInv
<1>2. \A other \in Threads : GenuineCall(call'[other])
  BY ReturnIsNext, IdleIsGenuine, OtherCalls
  DEF Deliver, TypeOK, FaceValueInv, GenuineCall
<1>3. \A x \in issued' : GenuineTicket(x)
  BY <1>1 DEF Deliver, FaceValueInv, FaceValue
<1>4. \A h \in DOMAIN ticket' : GenuineTicket(TicketOf(ticket'[h]))
  BY DEF FaceValueInv
<1> QED
  BY <1>2, <1>3, <1>4
  DEF FaceValueInv, FaceValue, GenuineCall, GenuineTicket, Genuine, TicketOf

LEMMA BuyTailFaceValue ==
  ASSUME TypeOK, FaceValueInv, NEW th \in Threads,
         \/ BuyIsResold(th) \/ BuyGetOld(th)
         \/ BuyRemoveResell(th) \/ BuyRemoveOld(th)
  PROVE  FaceValueInv'
<1>1. call[th].pc \in BuyTail
  BY DEF BuyIsResold, BuyGetOld, BuyRemoveResell, BuyRemoveOld, BuyTail
<1>2. GenuineTicket(call[th].t)
  BY <1>1 DEF FaceValueInv
<1>3. CASE BuyIsResold(th)
  <2>1. CASE Deliver(th)
    BY <1>1, <1>3, <2>1, DeliverFaceValue DEF BuyIsResold, tables, on_sale,
                                              starts
  <2>2. CASE /\ CallNext(th, [pc |-> "getOldTicketValCodeHash",
                              t |-> call[th].t])
             /\ UNCHANGED issued
    <3>1. GenuineCall([pc |-> "getOldTicketValCodeHash", t |-> call[th].t])
      BY <1>2 DEF GenuineCall
    <3> QED
      BY <1>3, <2>2, <3>1, QuietStep DEF BuyIsResold, tables, on_sale, starts
  <2> QED
    BY <1>3, <2>1, <2>2 DEF BuyIsResold
<1>4. CASE BuyGetOld(th)
  <2>1. PICK old : CallNext(th, [pc |-> "removeTicketFromResell",
                                 t |-> call[th].t, old |-> old])
    BY <1>4 DEF BuyGetOld
  <2>2. GenuineCall([pc |-> "removeTicketFromResell",
                     t |-> call[th].t, old |-> old])
    BY <1>2 DEF GenuineCall
  <2> QED
    BY <1>4, <2>1, <2>2, QuietStep DEF BuyGetOld, tables, history, on_sale,
                                       starts
<1>5. CASE BuyRemoveResell(th)
  <2>1. GenuineCall([pc |-> "removeTicket", t |-> call[th].t,
                     old |-> call[th].old])
    BY <1>2 DEF GenuineCall
  <2> QED
    BY <1>5, <2>1, QuietStep DEF BuyRemoveResell, history, on_sale, starts
<1>6. CASE BuyRemoveOld(th)
  <2>1. \A h \in DOMAIN ticket' : h \in DOMAIN ticket /\ ticket'[h] = ticket[h]
    BY <1>6 DEF BuyRemoveOld, removeTicket, Delete
  <2> QED
    BY <1>1, <1>6, <2>1, DeliverFaceValue DEF BuyRemoveOld, on_sale, starts
<1> QED
  BY <1>3, <1>4, <1>5, <1>6

\* The checks of sellTicket: the submitted ticket is the stored one, and the
\* price asked is not above it.
LEMMA SellCheckFaceValue ==
  ASSUME TypeOK, FaceValueInv, NEW th \in Threads, NEW t \in Submissions,
         NEW newPrice \in AskingPrices, SellCheck(th, t, newPrice)
  PROVE  FaceValueInv'
<1>1. CASE UNCHANGED call
  BY <1>1 DEF SellCheck, tables, history, FaceValueInv, FaceValue,
              GenuineTicket, Genuine, TicketOf, on_sale, starts
<1>2. ASSUME NEW ok \in BOOLEAN,
             getTicketHashByValidationCode(ValCodeHash(t), ok)
               = {TicketHash(t)},
             newPrice <= t.price,
             CallNext(th, [pc |-> "addTicketInfo", t |-> t,
                           newPrice |-> newPrice])
      PROVE  FaceValueInv'
  <2>1. /\ ValCodeHash(t) \in DOMAIN ticket
        /\ ticket[ValCodeHash(t)].ticket_hash = TicketHash(t)
    BY <1>2 DEF getTicketHashByValidationCode
  <2>2. TicketOf(ticket[ValCodeHash(t)]) = t
    BY <2>1 DEF TicketOf, TicketHash, SHA256
  <2>3. GenuineTicket(t)
    BY <2>1, <2>2 DEF FaceValueInv
  <2>4. GenuineCall([pc |-> "addTicketInfo", t |-> t, newPrice |-> newPrice])
    BY <1>2, <2>3 DEF GenuineCall
  <2> QED
    BY <1>2, <2>4, QuietStep DEF SellCheck, tables, history, on_sale, starts
<1> QED
  BY <1>1, <1>2 DEF SellCheck

LEMMA SellListFaceValue ==
  ASSUME TypeOK, FaceValueInv, NEW th \in Threads, SellList(th)
  PROVE  FaceValueInv'
<1> DEFINE t == call[th].t
           row == [eventID |-> t.eventID, sellerID |-> t.buyerID,
                   price |-> call[th].newPrice, seat |-> t.seat]
<1>1. t \in Ticket /\ call[th].newPrice \in Nat
  BY CallType DEF TypeOK, SellList, Selling
<1>2. GenuineTicket(t) /\ call[th].newPrice <= t.price
  BY DEF SellList, FaceValueInv, Selling
<1>3. Genuine(t.ticketID, row.eventID, row.seat, row.price)
  BY <1>1, <1>2, CheaperIsGenuine DEF TypeOK
<1>4. PICK c : CallNext(th, c) /\ GenuineCall(c)
  BY <1>2, IdleIsGenuine, ReturnIsNext DEF SellList, GenuineCall
<1>5. \A other \in Threads : GenuineCall(call'[other])
  BY <1>4, OtherCalls DEF TypeOK, FaceValueInv, GenuineCall
<1>6. \A id \in DOMAIN ticket_info' :
        \/ id \in DOMAIN ticket_info /\ ticket_info'[id] = ticket_info[id]
        \/ id = t.ticketID /\ ticket_info'[id] = row
  BY DEF SellList, addTicketInfo, Insert
<1>7. \A id \in DOMAIN ticket_info' :
        Genuine(id, ticket_info'[id].eventID, ticket_info'[id].seat,
                ticket_info'[id].price)
  BY <1>3, <1>6 DEF FaceValueInv, FaceValue
<1>8. offered' = offered /\ ticket' = ticket /\ issued' = issued
  BY DEF SellList, history, starts
<1> QED
  BY <1>5, <1>7, <1>8
  DEF FaceValueInv, FaceValue, GenuineCall, GenuineTicket, Genuine, TicketOf

LEMMA ValidateMarkFaceValue ==
  ASSUME TypeOK, FaceValueInv, NEW th \in Threads, ValidateMark(th)
  PROVE  FaceValueInv'
<1>1. /\ DOMAIN ticket' = DOMAIN ticket
      /\ \A h \in DOMAIN ticket : TicketOf(ticket'[h]) = TicketOf(ticket[h])
  BY DEF ValidateMark, setTicketInUse, TicketOf, TypeOK, TicketRow
<1>2. \A other \in Threads : GenuineCall(call'[other])
  BY ReturnIsNext, IdleIsGenuine, OtherCalls
  DEF ValidateMark, TypeOK, FaceValueInv, GenuineCall
<1>3. \A h \in DOMAIN ticket' : GenuineTicket(TicketOf(ticket'[h]))
  BY <1>1 DEF FaceValueInv
<1>4. offered' = offered /\ ticket_info' = ticket_info /\ issued' = issued
  BY DEF ValidateMark, on_sale, starts
<1> QED
  BY <1>2, <1>3, <1>4
  DEF FaceValueInv, FaceValue, GenuineCall, GenuineTicket, Genuine, TicketOf

LEMMA RestartFaceValue ==
  ASSUME TypeOK, FaceValueInv, Restart
  PROVE  FaceValueInv'
<1>1. offered \subseteq offered' /\ Offers(ticket_info') \subseteq offered'
  BY DEF Restart
<1>2. \A th \in Threads : GenuineCall(call[th])'
  BY IdleIsGenuine DEF Restart, GenuineCall, Idle, BuyHead, BuyTail, Selling
<1>3. \A id \in DOMAIN ticket_info' :
        Genuine(id, ticket_info[id].eventID, ticket_info[id].seat,
                ticket_info[id].price)'
  <2> SUFFICES ASSUME NEW id \in DOMAIN ticket_info'
               PROVE  Genuine(id, ticket_info[id].eventID,
                              ticket_info[id].seat, ticket_info[id].price)'
    OBVIOUS
  <2> DEFINE o == [ticketID |-> id, eventID |-> ticket_info'[id].eventID,
                   price |-> ticket_info'[id].price,
                   seat |-> ticket_info'[id].seat]
  <2>1. o \in offered'
    BY <1>1 DEF Offers
  <2>2. ticket_info'[id].price \in Nat
    BY RestartType DEF TypeOK, InfoRow
  <2> QED
    BY <2>1, <2>2 DEF Genuine
<1>4. \A t : GenuineTicket(t) => GenuineTicket(t)'
  BY <1>1, GenuineKept
<1>5. ticket' = ticket /\ issued' = issued
  BY DEF Restart, resetTickets, history
<1> QED
  BY <1>2, <1>3, <1>4, <1>5 DEF FaceValueInv, FaceValue, GenuineCall, TicketOf

\* Every step keeps the invariant.
LEMMA StepFaceValue ==
  ASSUME TypeOK, FaceValueInv, [Next]_vars
  PROVE  FaceValueInv'
<1>1. ASSUME NEW th \in Threads, NEW user \in Users, NEW id \in SeenIds,
             NEW event \in EventIds, BuyCountOwned(th, user, id, event)
      PROVE  FaceValueInv'
  <2>1. CASE UNCHANGED call
    BY <1>1, <2>1 DEF BuyCountOwned, tables, history, FaceValueInv, FaceValue,
                      GenuineTicket, Genuine, TicketOf, on_sale, starts
  <2>2. CASE CallNext(th, [pc |-> "getTicketInfoById",
                           user |-> user, id |-> id, event |-> event])
    <3>1. GenuineCall([pc |-> "getTicketInfoById",
                       user |-> user, id |-> id, event |-> event])
      BY DEF GenuineCall, BuyHead, BuyTail, Selling
    <3> QED
      BY <1>1, <2>2, <3>1, QuietStep DEF BuyCountOwned, tables, history,
                                         on_sale, starts
  <2> QED
    BY <1>1, <2>1, <2>2 DEF BuyCountOwned
<1>2. ASSUME NEW th \in Threads, Sell(th) PROVE FaceValueInv'
  BY <1>2, SellCheckFaceValue DEF Sell
<1>3. ASSUME NEW th \in Threads, NEW code \in Presented, ValidateCheck(th, code)
      PROVE  FaceValueInv'
  <2>1. CASE UNCHANGED call
    BY <1>3, <2>1 DEF ValidateCheck, tables, history, FaceValueInv, FaceValue,
                      GenuineTicket, Genuine, TicketOf, on_sale, starts
  <2>2. CASE CallNext(th, [pc |-> "setTicketInUse", code |-> code])
    <3>1. GenuineCall([pc |-> "setTicketInUse", code |-> code])
      BY DEF GenuineCall, BuyHead, BuyTail, Selling
    <3> QED
      BY <1>3, <2>2, <3>1, QuietStep DEF ValidateCheck, tables, history,
                                         on_sale, starts
  <2> QED
    BY <1>3, <2>1, <2>2 DEF ValidateCheck
<1>4. ASSUME NEW th \in Threads, SellMarkResell(th) PROVE FaceValueInv'
  BY <1>4, ReturnIsNext, IdleIsGenuine, QuietStep DEF SellMarkResell,
                                                      history, on_sale, starts
<1>5. ASSUME NEW th \in Threads, Continue(th) PROVE FaceValueInv'
  BY <1>4, <1>5, BuyLookUpFaceValue, BuyTakeOffSaleFaceValue,
     BuyAddTicketFaceValue, BuyTailFaceValue, SellListFaceValue,
     ValidateMarkFaceValue DEF Continue
<1>6. CASE Restart
  BY <1>6, RestartFaceValue
<1>7. CASE UNCHANGED vars
  BY <1>7 DEF vars, tables, history, FaceValueInv, FaceValue, GenuineTicket,
              Genuine, TicketOf, on_sale, starts
<1> QED
  BY <1>1, <1>2, <1>3, <1>5, <1>6, <1>7 DEF Next, Buy, Validate

\* No interleaving of purchases, resales, validations, failures and restarts
\* puts a ticket on sale, or delivers one, above its face price or for another
\* event or seat than the catalogue gave its id.
THEOREM FaceValueHolds == Spec => []FaceValue
<1>1. Init => FaceValueInv
  BY InitFaceValue
<1>2. TypeOK /\ FaceValueInv /\ [Next]_vars => FaceValueInv'
  BY StepFaceValue
<1>3. FaceValueInv => FaceValue
  BY DEF FaceValueInv
<1> QED
  BY <1>1, <1>2, <1>3, TypeCorrect, PTL DEF Spec
=============================================================================
