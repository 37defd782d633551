-------------------------- MODULE TicketCodeProofs --------------------------
(***************************************************************************)
(* Codes and rows of TicketService: what is stored is what was delivered,  *)
(* what is revoked stays revoked, and a ticket is deleted only when the    *)
(* one that replaces it is stored.  The argument: a code that was          *)
(* generated stays private to its purchase until the ticket is delivered,  *)
(* so nobody can resell, present or delete a row that is still being       *)
(* written, and no row is written twice.                                   *)
(***************************************************************************)
EXTENDS TicketPriceProofs

LEMMA SHA256Injective ==
  ASSUME NEW x, NEW y, SHA256(x) = SHA256(y) PROVE x = y
  BY DEF SHA256

\* Every key of the table ticket is the hash of one code.
LEMMA KeyIsHash == \A h \in Hashes : \E code \in Codes : h = SHA256(code)
  BY DEF Hashes, SHA256

\* The parts of FreshCodes and PendingIsStored about one thread.
FreshAt(th) ==
  call[th].pc \in BuyHead =>
    Private(th) /\ ValCodeHash(call[th].t) \notin DOMAIN ticket

PendingAt(th) ==
  call[th].pc \in BuyTail =>
    LET h == ValCodeHash(call[th].t)
    IN  /\ Private(th)
        /\ h \in DOMAIN ticket
        /\ ticket[h].ticket_hash = TicketHash(call[th].t)
        /\ call[th].pc \in Purging => call[th].old # h

\* What a step of thread th, which ends with the record c, tells: the codes it
\* makes known it or somebody knew before, or it generated them; it stores rows
\* for its own code only, and deletes what it carries as the old hash only.
Discreet(th, c) ==
  /\ CallNext(th, c)
  /\ generated \subseteq generated'
  /\ \A code \in Codes :
       /\ Traced(code)' \/ Carries(c, code)
            => \/ Traced(code) \/ Carries(call[th], code)
               \/ code \in generated' \ generated
       /\ SHA256(code) \in DOMAIN ticket'
            => SHA256(code) \in DOMAIN ticket \/ Carries(call[th], code)
  /\ \A h \in DOMAIN ticket :
       \/ h \in DOMAIN ticket' /\ ticket'[h].ticket_hash = ticket[h].ticket_hash
       \/ call[th].pc \in Purging /\ h = call[th].old

\* Then the codes of the other purchases stay private, their rows stay stored,
\* and codes not generated stay unknown.
LEMMA CodesKept ==
  ASSUME TypeOK, CodeInv, NEW th \in Threads, NEW c, Discreet(th, c)
  PROVE  /\ UnusedCodes'
         /\ \A other \in Threads \ {th} : FreshAt(other)' /\ PendingAt(other)'
<1>1. /\ call'[th] = c
      /\ \A other \in Threads \ {th} : call'[other] = call[other]
  BY OtherCalls DEF TypeOK, Discreet
<1>2. UnusedCodes'
  <2> SUFFICES ASSUME NEW code \in Codes, code \notin generated'
               PROVE  /\ SHA256(code) \notin DOMAIN ticket'
                      /\ ~Traced(code)'
                      /\ \A x \in Threads : ~Carries(call'[x], code)
    BY DEF UnusedCodes, Carries
  <2>1. /\ SHA256(code) \notin DOMAIN ticket
        /\ ~Traced(code)
        /\ \A x \in Threads : ~Carries(call[x], code)
    BY DEF UnusedCodes, CodeInv, Discreet
  <2> QED
    BY <1>1, <2>1 DEF Discreet
<1>3. ASSUME NEW other \in Threads \ {th},
             call[other].pc \in BuyHead \cup BuyTail
      PROVE  /\ Private(other)'
             /\ ~Carries(call[th], call[other].t.validationCode)
  <2>1. PICK code \in Codes : code = call[other].t.validationCode
    BY <1>3, CallType DEF TypeOK, Ticket
  <2>2. Private(other)
    BY <1>3 DEF CodeInv, FreshCodes, PendingIsStored
  <2>3. /\ code \in generated'
        /\ ~Traced(code)'
        /\ ~Carries(c, code)
    BY <1>3, <2>1, <2>2 DEF Private, Discreet
  <2>4. \A x \in Threads \ {other} : ~Carries(call'[x], code)
    BY <1>1, <2>1, <2>2, <2>3 DEF Private
  <2> QED
    BY <1>1, <2>1, <2>2, <2>3, <2>4 DEF Private, Carries, Traced
<1>4. ASSUME NEW other \in Threads \ {th} PROVE FreshAt(other)'
  <2> SUFFICES ASSUME call[other].pc \in BuyHead
               PROVE  (ValCodeHash(call[other].t) \notin DOMAIN ticket)'
    BY <1>1, <1>3 DEF FreshAt
  <2>1. PICK code \in Codes : code = call[other].t.validationCode
    BY CallType DEF TypeOK, Ticket
  <2>2. SHA256(code) \notin DOMAIN ticket /\ ~Carries(call[th], code)
    BY <1>3, <2>1 DEF CodeInv, FreshCodes, ValCodeHash
  <2> QED
    BY <1>1, <2>1, <2>2 DEF Discreet, ValCodeHash
<1>5. ASSUME NEW other \in Threads \ {th} PROVE PendingAt(other)'
  <2> SUFFICES ASSUME call[other].pc \in BuyTail PROVE PendingAt(other)'
    BY <1>1 DEF PendingAt
  <2> DEFINE h == ValCodeHash(call[other].t)
  <2>1. h \in DOMAIN ticket /\ ticket[h].ticket_hash = TicketHash(call[other].t)
        /\ (call[other].pc \in Purging => call[other].old # h)
    BY DEF CodeInv, PendingIsStored
  <2>2. ~(call[th].pc \in Purging /\ h = call[th].old)
    BY <1>3 DEF Carries, ValCodeHash
  <2>3. h \in DOMAIN ticket' /\ ticket'[h].ticket_hash = ticket[h].ticket_hash
    BY <2>1, <2>2 DEF Discreet
  <2>4. Private(other)'
    BY <1>3
  <2> QED
    BY <1>1, <2>1, <2>3, <2>4 DEF PendingAt, ValCodeHash, TicketHash
<1> QED
  BY <1>2, <1>4, <1>5

\* What is left to show of a discreet step: the thread that takes it, and the
\* rows of the tables.
LEMMA CodeInvFromParts ==
  ASSUME TypeOK, CodeInv, NEW th \in Threads, NEW c, Discreet(th, c),
         FreshAt(th)', PendingAt(th)', StoredAsIssued', ResaleIsOfItsTicket'
  PROVE  CodeInv'
<1>1. \A x \in Threads : FreshAt(x)' /\ PendingAt(x)'
  BY CodesKept
<1>2. FreshCodes' /\ PendingIsStored'
  BY <1>1 DEF FreshAt, PendingAt, FreshCodes, PendingIsStored
<1> QED
  BY <1>2, CodesKept DEF CodeInv

\* The row of a sale under way, or of a ticket to delete, is the right one.
RowAt(c) ==
  /\ c.pc \in Purging /\ c.old \in DOMAIN ticket
       => TicketOf(ticket[c.old]).ticketID = c.t.ticketID
  /\ c.pc \in Selling /\ ValCodeHash(c.t) \in DOMAIN ticket
       => TicketOf(ticket[ValCodeHash(c.t)]) = c.t

\* A call that holds no more than the one before it held.
Follows(th, c) ==
  \/ c.pc \notin BuyHead \cup BuyTail \cup Selling \cup {"setTicketInUse"}
  \/ c.pc \in BuyHead /\ call[th].pc \in BuyHead /\ c.t = call[th].t
  \/ c.pc \in BuyTail \ Purging /\ call[th].pc \in BuyTail /\ c.t = call[th].t
  \/ c.pc \in Selling /\ call[th].pc \in Selling /\ c.t = call[th].t

LEMMA QuietCode ==
  ASSUME TypeOK, CodeInv, NEW th \in Threads, NEW c, CallNext(th, c),
         Follows(th, c),
         UNCHANGED <<ticket, resell_tickets, generated, issued, admitted>>
  PROVE  CodeInv'
<1>1. /\ call'[th] = c
      /\ \A other \in Threads \ {th} : call'[other] = call[other]
  BY OtherCalls DEF TypeOK
<1>2. \A code : Traced(code)' <=> Traced(code)
  BY DEF Traced
<1>3. \A code : Carries(c, code) => Carries(call[th], code)
  BY DEF Follows, Carries, BuyHead, BuyTail, Selling, Purging
<1>4. Discreet(th, c)
  BY <1>2, <1>3 DEF Discreet
<1>5. FreshAt(th)'
  <2>1. CASE c.pc \in BuyHead
    <3>1. call[th].pc \in BuyHead /\ c.t = call[th].t
      BY <2>1 DEF Follows, BuyHead, BuyTail, Selling, Purging
    <3> QED
      BY <1>1, <1>2, <3>1 DEF CodeInv, FreshCodes, FreshAt, Private,
                              ValCodeHash
  <2> QED
    BY <1>1, <2>1 DEF FreshAt
<1>6. PendingAt(th)'
  <2>1. CASE c.pc \in BuyTail
    <3>1. c.pc \notin Purging /\ call[th].pc \in BuyTail /\ c.t = call[th].t
      BY <2>1 DEF Follows, BuyHead, BuyTail, Selling, Purging
    <3> QED
      BY <1>1, <1>2, <3>1
      DEF CodeInv, PendingIsStored, PendingAt, Private, ValCodeHash, TicketHash
  <2> QED
    BY <1>1, <2>1 DEF PendingAt
<1>7. StoredAsIssued'
  BY DEF CodeInv, StoredAsIssued, checkIntegrity,
         getTicketHashByValidationCode,
         TicketOf
<1>8. RowAt(c)
  BY DEF CodeInv, ResaleIsOfItsTicket, RowAt, Follows, BuyHead, BuyTail,
         Selling, Purging
<1>9. ResaleIsOfItsTicket'
  BY <1>1, <1>8 DEF CodeInv, ResaleIsOfItsTicket, RowAt, TicketOf
<1> QED
  BY <1>4, <1>5, <1>6, <1>7, <1>9, CodeInvFromParts
LEMMA SameCode ==
  ASSUME CodeInv,
         UNCHANGED <<call, ticket, resell_tickets, generated, issued, admitted>>
  PROVE  CodeInv'
  BY DEF CodeInv, StoredAsIssued, FreshCodes, UnusedCodes, PendingIsStored,
         ResaleIsOfItsTicket, Private, Traced, Carries, checkIntegrity,
         getTicketHashByValidationCode, TicketOf, ValCodeHash, TicketHash

LEMMA ReturnFollows ==
  ASSUME NEW th \in Threads PROVE Follows(th, Idle)
  BY DEF Follows, Idle, BuyHead, BuyTail, Selling

-----------------------------------------------------------------------------

LEMMA InitCode == Init => CodeInv
<1> SUFFICES ASSUME Init PROVE CodeInv
  OBVIOUS
<1>1. \A th \in Threads : call[th] = Idle
  BY DEF Init
<1>2. DOMAIN ticket = {} /\ DOMAIN resell_tickets = {} /\ issued = {}
  BY DEF Init
<1>3. \A code \in Codes : admitted[code] = 0
  BY DEF Init
<1> QED
  BY <1>1, <1>2, <1>3
  DEF CodeInv, StoredAsIssued, FreshCodes, UnusedCodes, PendingIsStored,
      ResaleIsOfItsTicket, Traced, Carries, Idle, BuyHead, BuyTail, Selling,
      Purging

LEMMA BuyCountOwnedCode ==
  ASSUME TypeOK, CodeInv, NEW th \in Threads, NEW user \in Users,
         NEW id \in TicketIds, NEW event \in EventIds,
         BuyCountOwned(th, user, id, event)
  PROVE  CodeInv'
<1> DEFINE c == [pc |-> "getTicketInfoById",
                 user |-> user, id |-> id, event |-> event]
<1>1. Follows(th, c)
  BY DEF Follows, BuyHead, BuyTail, Selling
<1>2. UNCHANGED call \/ CallNext(th, c)
  BY DEF BuyCountOwned
<1> QED
  BY <1>1, <1>2, SameCode, QuietCode DEF BuyCountOwned, tables, history,
                                         on_sale, starts

\* The generated code was unused, so it is private to this purchase.
LEMMA BuyLookUpCode ==
  ASSUME TypeOK, CodeInv, NEW th \in Threads, BuyLookUp(th)
  PROVE  CodeInv'
<1>1. CASE Return(th) /\ UNCHANGED generated
  BY <1>1, ReturnIsNext, ReturnFollows, QuietCode DEF BuyLookUp, tables,
                                                      on_sale, starts
<1>2. ASSUME NEW ok \in BOOLEAN,
             NEW row \in getTicketInfoById(call[th].id, ok),
             NEW code \in Codes \ generated,
             generated' = generated \cup {code},
             CallNext(th, [pc |-> "makeTicketUnavailable",
                           t |-> NewTicket(call[th].id, row,
                                           call[th].user, code)])
      PROVE  CodeInv'
  <2> DEFINE c == [pc |-> "makeTicketUnavailable",
                   t |-> NewTicket(call[th].id, row, call[th].user, code)]
  <2>1. /\ call'[th] = c
        /\ \A other \in Threads \ {th} : call'[other] = call[other]
    BY <1>2, OtherCalls DEF TypeOK
  <2>2. /\ c.pc = "makeTicketUnavailable"
        /\ c.t.validationCode = code
    BY DEF NewTicket
  <2>3. \A x : Traced(x)' <=> Traced(x)
    BY DEF Traced, BuyLookUp, tables, on_sale, starts
  <2>4. \A x : Carries(c, x) => x = code
    BY <2>2 DEF Carries, Purging
  <2>5. Discreet(th, c)
    <3>1. CallNext(th, c) /\ UNCHANGED ticket
      BY <1>2 DEF BuyLookUp, tables, on_sale, starts
    <3> HIDE DEF c
    <3> QED
      BY <1>2, <2>3, <2>4, <3>1 DEF Discreet
  <2>6. /\ SHA256(code) \notin DOMAIN ticket
        /\ ~Traced(code)
        /\ \A x \in Threads : ~Carries(call[x], code)
    BY DEF CodeInv, UnusedCodes
  <2>7. FreshAt(th)'
    <3> HIDE DEF c
    <3> QED
      BY <1>2, <2>1, <2>2, <2>3, <2>6
      DEF FreshAt, Private, ValCodeHash, BuyLookUp, tables, on_sale, starts
  <2>8. PendingAt(th)'
    BY <2>1, <2>2 DEF PendingAt, BuyTail
  <2>9. StoredAsIssued'
    BY DEF CodeInv, StoredAsIssued, checkIntegrity, TicketOf, BuyLookUp,
           tables,
           getTicketHashByValidationCode, on_sale, starts
  <2>10. ResaleIsOfItsTicket'
    BY <2>1, <2>2
    DEF CodeInv, ResaleIsOfItsTicket, TicketOf, BuyLookUp, tables, Purging,
        Selling, on_sale, starts
  <2> QED
    BY <2>5, <2>7, <2>8, <2>9, <2>10, CodeInvFromParts
<1> QED
  BY <1>1, <1>2 DEF BuyLookUp
LEMMA BuyTakeOffSaleCode ==
  ASSUME TypeOK, CodeInv, NEW th \in Threads, BuyTakeOffSale(th)
  PROVE  CodeInv'
<1> DEFINE c == [pc |-> "addNewTicket", t |-> call[th].t]
<1>1. Follows(th, c)
  BY DEF Follows, BuyHead, BuyTakeOffSale
<1>2. CallNext(th, c) \/ CallNext(th, Idle)
  BY ReturnIsNext DEF BuyTakeOffSale
<1> QED
  BY <1>1, <1>2, ReturnFollows, QuietCode DEF BuyTakeOffSale, history, starts

\* The INSERT stores the row of a private code: no other call, and no row of
\* resell_tickets, can be about it.
LEMMA BuyAddTicketCode ==
  ASSUME TypeOK, CodeInv, NEW th \in Threads, BuyAddTicket(th)
  PROVE  CodeInv'
<1> DEFINE t == call[th].t
           c == [pc |-> "isTicketInResell", t |-> t]
<1>1. PICK ok \in BOOLEAN :
        /\ addNewTicket(ValCodeHash(t), TicketHash(t), t.seat, t.buyerID, ok)
        /\ IF addNewTicketSucceeds(ValCodeHash(t), ok)
             THEN CallNext(th, c)
             ELSE Return(th)
  BY DEF BuyAddTicket
<1>2. /\ UNCHANGED <<resell_tickets, generated, issued, admitted>>
      /\ call[th].pc \in BuyHead
  BY DEF BuyAddTicket, history, BuyHead, on_sale, starts
<1>3. CASE ~addNewTicketSucceeds(ValCodeHash(t), ok)
  <2>1. UNCHANGED ticket
    BY <1>1, <1>3 DEF addNewTicket, addNewTicketSucceeds, Insert
  <2> QED
    BY <1>1, <1>2, <1>3, <2>1, ReturnIsNext, ReturnFollows, QuietCode
<1>4. CASE addNewTicketSucceeds(ValCodeHash(t), ok)
  <2> DEFINE h == ValCodeHash(t)
  <2>1. /\ CallNext(th, c)
        /\ call'[th] = c
        /\ \A other \in Threads \ {th} : call'[other] = call[other]
    BY <1>1, <1>4, OtherCalls DEF TypeOK
  <2>2. /\ DOMAIN ticket' = DOMAIN ticket \cup {h}
        /\ ticket'[h].ticket_hash = TicketHash(t)
        /\ \A k \in DOMAIN ticket : ticket'[k] = ticket[k]
    BY <1>1, <1>4 DEF addNewTicket, addNewTicketSucceeds, Insert,
                      InsertSucceeds
  <2>3. \A x : Traced(x)' <=> Traced(x)
    BY <1>2 DEF Traced
  <2>4. Private(th) /\ h \notin DOMAIN ticket
    BY <1>2 DEF CodeInv, FreshCodes
  <2>5. \A x : Carries(c, x) <=> x = t.validationCode
    BY DEF Carries, BuyTail, Selling, BuyHead, Purging
  <2>6. Carries(call[th], t.validationCode)
    BY <1>2 DEF Carries
  <2>7. Discreet(th, c)
    <3> HIDE DEF c
    <3>1. \A code \in Codes : SHA256(code) = h => code = t.validationCode
      BY SHA256Injective DEF ValCodeHash
    <3> QED
      BY <1>2, <2>1, <2>2, <2>3, <2>5, <2>6, <3>1 DEF Discreet
  <2>8. FreshAt(th)'
    BY <2>1 DEF FreshAt, BuyHead
  <2>9. PendingAt(th)'
    <3>1. Private(th)'
      BY <1>2, <2>1, <2>3, <2>4 DEF Private
    <3> QED
      BY <2>1, <2>2, <3>1 DEF PendingAt, ValCodeHash, TicketHash, Purging
  <2>10. TicketOf(ticket'[h]) = t
    BY <2>2 DEF TicketOf, TicketHash, SHA256
  <2>11. StoredAsIssued'
    <3>1. \A k \in DOMAIN ticket' : k = ValCodeHash(TicketOf(ticket'[k]))
      BY <2>2, <2>10 DEF CodeInv, StoredAsIssued
    <3>2. \A x \in issued : ValCodeHash(x) # h
      BY <2>4, SHA256Injective DEF Private, Traced, ValCodeHash
    <3> QED
      BY <1>2, <2>2, <3>1, <3>2
      DEF CodeInv, StoredAsIssued, checkIntegrity, TicketOf,
          getTicketHashByValidationCode
  <2>12. ResaleIsOfItsTicket'
    <3>1. h \notin DOMAIN resell_tickets
      BY <2>4 DEF Private, Traced, ValCodeHash
    <3>2. ASSUME NEW x \in Threads \ {th}
          PROVE  /\ call[x].pc \in Purging => call[x].old # h
                 /\ call[x].pc \in Selling => ValCodeHash(call[x].t) # h
      BY <2>4, SHA256Injective DEF Private, Carries, ValCodeHash
    <3> QED
      BY <1>2, <2>1, <2>2, <3>1, <3>2
      DEF CodeInv, ResaleIsOfItsTicket, TicketOf, Purging, Selling
  <2> QED
    BY <2>7, <2>8, <2>9, <2>11, <2>12, CodeInvFromParts
<1> QED
  BY <1>3, <1>4

\* The purchase ends: its code is no longer private, and its row is stored.
LEMMA DeliverCode ==
  ASSUME TypeOK, CodeInv, NEW th \in Threads, call[th].pc \in BuyTail,
         Deliver(th), UNCHANGED <<resell_tickets, generated, admitted>>,
         \A h \in DOMAIN ticket' : h \in DOMAIN ticket /\ ticket'[h] = ticket[h],
         \A h \in DOMAIN ticket \ DOMAIN ticket' :
           call[th].pc \in Purging /\ h = call[th].old
  PROVE  CodeInv'
<1> DEFINE t == call[th].t
<1>1. /\ CallNext(th, Idle)
      /\ call'[th] = Idle
      /\ \A other \in Threads \ {th} : call'[other] = call[other]
  BY ReturnIsNext, OtherCalls DEF TypeOK, Deliver
<1>2. issued' = issued \cup {t}
  BY DEF Deliver
<1>3. Carries(call[th], t.validationCode)
  BY DEF Carries
<1>4. \A x : ~Carries(Idle, x)
  BY DEF Carries, Idle, BuyHead, BuyTail, Selling, Purging
<1>5. Discreet(th, Idle)
  <2>1. \A x : Traced(x)' => Traced(x) \/ x = t.validationCode
    BY <1>2 DEF Traced
  <2> QED
    BY <1>1, <1>3, <1>4, <2>1 DEF Discreet
<1>6. FreshAt(th)' /\ PendingAt(th)'
  BY <1>1 DEF FreshAt, PendingAt, Idle, BuyHead, BuyTail
<1>7. StoredAsIssued'
  BY <1>2
  DEF CodeInv, StoredAsIssued, PendingIsStored, checkIntegrity, TicketOf,
      getTicketHashByValidationCode
<1>8. ResaleIsOfItsTicket'
  BY <1>1
  DEF CodeInv, ResaleIsOfItsTicket, TicketOf, Idle, Purging, Selling
<1> QED
  BY <1>5, <1>6, <1>7, <1>8, CodeInvFromParts
LEMMA BuyIsResoldCode ==
  ASSUME TypeOK, CodeInv, NEW th \in Threads, BuyIsResold(th)
  PROVE  CodeInv'
<1> DEFINE c == [pc |-> "getOldTicketValCodeHash", t |-> call[th].t]
<1>1. call[th].pc \in BuyTail \ Purging
  BY DEF BuyIsResold, BuyTail, Purging
<1>2. CASE Deliver(th)
  BY <1>1, <1>2, DeliverCode DEF BuyIsResold, tables, on_sale, starts
<1>3. CASE CallNext(th, c) /\ UNCHANGED issued
  <2>1. Follows(th, c)
    BY <1>1 DEF Follows, BuyTail, Purging
  <2> QED
    BY <1>3, <2>1, QuietCode DEF BuyIsResold, tables, on_sale, starts
<1> QED
  BY <1>2, <1>3 DEF BuyIsResold

\* The hash read from resell_tickets is of another ticket with the same id: the
\* code of the new one is private.
LEMMA BuyGetOldCode ==
  ASSUME TypeOK, CodeInv, NEW th \in Threads, BuyGetOld(th)
  PROVE  CodeInv'
<1> DEFINE t == call[th].t
<1>1. PICK old \in UNION {OldTicketValCodeHashes(t.ticketID, ok) : ok \in BOOLEAN} :
        CallNext(th, [pc |-> "removeTicketFromResell", t |-> t, old |-> old])
  BY DEF BuyGetOld
<1> DEFINE c == [pc |-> "removeTicketFromResell", t |-> t, old |-> old]
<1>2. /\ UNCHANGED <<ticket, resell_tickets, generated, issued, admitted>>
      /\ call[th].pc \in BuyTail
  BY DEF BuyGetOld, tables, history, BuyTail, on_sale, starts
<1>3. /\ call'[th] = c
      /\ \A other \in Threads \ {th} : call'[other] = call[other]
  BY <1>1, OtherCalls DEF TypeOK
<1>4. \/ old = NoHash
      \/ old \in DOMAIN resell_tickets /\ resell_tickets[old] = t.ticketID
  BY DEF OldTicketValCodeHashes, ResellRows
<1>5. \A x : Traced(x)' <=> Traced(x)
  BY <1>2 DEF Traced
<1>6. \A x : SHA256(x) # NoHash
  BY DEF SHA256, NoHash
<1>7. \A x : Carries(c, x) => Carries(call[th], x) \/ Traced(x)
  BY <1>2, <1>4, <1>6 DEF Carries, Traced, BuyHead, BuyTail, Selling, Purging
<1>8. Discreet(th, c)
  <2> HIDE DEF c
  <2> QED
    BY <1>1, <1>2, <1>5, <1>7 DEF Discreet, c
<1>9. FreshAt(th)'
  BY <1>3 DEF FreshAt, BuyHead
<1>10. PendingAt(th)'
  <2>1. /\ Private(th)
        /\ ValCodeHash(t) \in DOMAIN ticket
        /\ ticket[ValCodeHash(t)].ticket_hash = TicketHash(t)
    BY <1>2 DEF CodeInv, PendingIsStored
  <2>2. Private(th)'
    BY <1>2, <1>3, <1>5, <2>1 DEF Private
  <2>3. old # ValCodeHash(t)
    BY <1>4, <1>6, <2>1 DEF Private, Traced, ValCodeHash
  <2> QED
    BY <1>2, <1>3, <2>1, <2>2, <2>3 DEF PendingAt, ValCodeHash, TicketHash
<1>11. StoredAsIssued'
  BY <1>2
  DEF CodeInv, StoredAsIssued, checkIntegrity, getTicketHashByValidationCode,
      TicketOf
<1>12. ResaleIsOfItsTicket'
  <2>1. old \in DOMAIN ticket => TicketOf(ticket[old]).ticketID = t.ticketID
    <3>1. NoHash \notin Hashes
      BY DEF NoHash, Hashes
    <3> QED
      BY <1>4, <3>1 DEF CodeInv, ResaleIsOfItsTicket, TypeOK
  <2> QED
    BY <1>2, <1>3, <2>1 DEF CodeInv, ResaleIsOfItsTicket, TicketOf, Selling
<1> QED
  BY <1>8, <1>9, <1>10, <1>11, <1>12, CodeInvFromParts

\* Fewer rows on resale make nothing known.
LEMMA BuyRemoveResellCode ==
  ASSUME TypeOK, CodeInv, NEW th \in Threads, BuyRemoveResell(th)
  PROVE  CodeInv'
<1> DEFINE c == [pc |-> "removeTicket", t |-> call[th].t, old |-> call[th].old]
<1>1. /\ UNCHANGED <<ticket, generated, issued, admitted>>
      /\ CallNext(th, c)
      /\ call[th].pc = "removeTicketFromResell"
  BY DEF BuyRemoveResell, history, on_sale, starts
<1>2. /\ call'[th] = c
      /\ \A other \in Threads \ {th} : call'[other] = call[other]
  BY <1>1, OtherCalls DEF TypeOK
<1>3. /\ DOMAIN resell_tickets' \subseteq DOMAIN resell_tickets
      /\ \A h \in DOMAIN resell_tickets' :
           resell_tickets'[h] = resell_tickets[h]
  BY DEF BuyRemoveResell, removeTicketFromResell, Delete
<1>4. \A x : Traced(x)' => Traced(x)
  BY <1>1, <1>3 DEF Traced
<1>5. \A x : Carries(c, x) => Carries(call[th], x)
  BY <1>1 DEF Carries, BuyTail, BuyHead, Selling, Purging
<1>6. Discreet(th, c)
  <2> HIDE DEF c
  <2> QED
    BY <1>1, <1>4, <1>5 DEF Discreet
<1>7. FreshAt(th)'
  BY <1>2 DEF FreshAt, BuyHead
<1>8. PendingAt(th)'
  <2>1. call[th].pc \in BuyTail /\ call[th].pc \in Purging
    BY <1>1 DEF BuyTail, Purging
  <2> QED
    BY <1>1, <1>2, <1>4, <2>1
    DEF CodeInv, PendingIsStored, PendingAt, Private, ValCodeHash, TicketHash
<1>9. StoredAsIssued'
  BY <1>1
  DEF CodeInv, StoredAsIssued, checkIntegrity, getTicketHashByValidationCode,
      TicketOf
<1>10. ResaleIsOfItsTicket'
  BY <1>1, <1>2, <1>3
  DEF CodeInv, ResaleIsOfItsTicket, TicketOf, Selling, Purging
<1> QED
  BY <1>6, <1>7, <1>8, <1>9, <1>10, CodeInvFromParts

LEMMA BuyRemoveOldCode ==
  ASSUME TypeOK, CodeInv, NEW th \in Threads, BuyRemoveOld(th)
  PROVE  CodeInv'
<1>1. call[th].pc \in BuyTail /\ call[th].pc \in Purging
  BY DEF BuyRemoveOld, BuyTail, Purging
<1>2. /\ \A h \in DOMAIN ticket' : h \in DOMAIN ticket /\ ticket'[h] = ticket[h]
      /\ \A h \in DOMAIN ticket \ DOMAIN ticket' : h = call[th].old
  BY DEF BuyRemoveOld, removeTicket, Delete
<1> QED
  BY <1>1, <1>2, DeliverCode DEF BuyRemoveOld

\* What is submitted was delivered, and is what is stored.
LEMMA SellCheckCode ==
  ASSUME TypeOK, CodeInv, NEW th \in Threads, NEW t \in Submissions,
         NEW newPrice \in AskingPrices, SellCheck(th, t, newPrice)
  PROVE  CodeInv'
<1> DEFINE c == [pc |-> "addTicketInfo", t |-> t, newPrice |-> newPrice]
<1>1. UNCHANGED <<ticket, resell_tickets, generated, issued, admitted>>
  BY DEF SellCheck, tables, history, on_sale, starts
<1>2. CASE UNCHANGED call
  BY <1>1, <1>2, SameCode
<1>3. CASE /\ ValCodeHash(t) \in DOMAIN ticket
           /\ ticket[ValCodeHash(t)].ticket_hash = TicketHash(t)
           /\ CallNext(th, c)
  <2>1. /\ call'[th] = c
        /\ \A other \in Threads \ {th} : call'[other] = call[other]
    BY <1>3, OtherCalls DEF TypeOK
  <2>2. \A x : Traced(x)' <=> Traced(x)
    BY <1>1 DEF Traced
  <2>3. PICK x \in issued : x.validationCode = t.validationCode
    BY DEF Submissions
  <2>4. \A y : Carries(c, y) => Traced(y)
    BY <2>3 DEF Carries, Traced, Purging
  <2>5. Discreet(th, c)
    <3> HIDE DEF c
    <3> QED
      BY <1>1, <1>3, <2>2, <2>4 DEF Discreet, c
  <2>6. FreshAt(th)' /\ PendingAt(th)'
    BY <2>1 DEF FreshAt, PendingAt, BuyHead, BuyTail
  <2>7. StoredAsIssued'
    BY <1>1
    DEF CodeInv, StoredAsIssued, checkIntegrity, getTicketHashByValidationCode,
        TicketOf
  <2>8. TicketOf(ticket[ValCodeHash(t)]) = t
    BY <1>3 DEF TicketOf, TicketHash, SHA256
  <2>9. ResaleIsOfItsTicket'
    BY <1>1, <2>1, <2>8
    DEF CodeInv, ResaleIsOfItsTicket, TicketOf, Selling, Purging
  <2> QED
    BY <2>5, <2>6, <2>7, <2>9, CodeInvFromParts
<1> QED
  BY <1>2, <1>3 DEF SellCheck, getTicketHashByValidationCode
LEMMA SellListCode ==
  ASSUME TypeOK, CodeInv, NEW th \in Threads, SellList(th)
  PROVE  CodeInv'
<1> DEFINE c == [pc |-> "addTicketToResell", t |-> call[th].t]
<1>1. Follows(th, c)
  BY DEF Follows, Selling, SellList
<1>2. CallNext(th, c) \/ CallNext(th, Idle)
  BY ReturnIsNext DEF SellList
<1> QED
  BY <1>1, <1>2, ReturnFollows, QuietCode DEF SellList, history, starts

\* The row of resell_tickets names the id of the ticket stored under its hash.
LEMMA SellMarkResellCode ==
  ASSUME TypeOK, CodeInv, NEW th \in Threads, SellMarkResell(th)
  PROVE  CodeInv'
<1> DEFINE t == call[th].t
<1>1. /\ UNCHANGED <<ticket, generated, issued, admitted>>
      /\ CallNext(th, Idle)
      /\ call[th].pc \in Selling
  BY ReturnIsNext DEF SellMarkResell, history, Selling, on_sale, starts
<1>2. /\ call'[th] = Idle
      /\ \A other \in Threads \ {th} : call'[other] = call[other]
  BY <1>1, OtherCalls DEF TypeOK
<1>3. \A h \in DOMAIN resell_tickets' :
        \/ h \in DOMAIN resell_tickets /\ resell_tickets'[h] = resell_tickets[h]
        \/ h = ValCodeHash(t) /\ resell_tickets'[h] = t.ticketID
  BY DEF SellMarkResell, addTicketToResell, Insert
<1>4. \A x : Traced(x)' => Traced(x) \/ Carries(call[th], x)
  BY <1>1, <1>3, SHA256Injective DEF Traced, Carries, ValCodeHash
<1>5. \A x : ~Carries(Idle, x)
  BY DEF Carries, Idle, BuyHead, BuyTail, Selling, Purging
<1>6. Discreet(th, Idle)
  BY <1>1, <1>4, <1>5 DEF Discreet
<1>7. FreshAt(th)' /\ PendingAt(th)'
  BY <1>2 DEF FreshAt, PendingAt, Idle, BuyHead, BuyTail
<1>8. StoredAsIssued'
  BY <1>1
  DEF CodeInv, StoredAsIssued, checkIntegrity, getTicketHashByValidationCode,
      TicketOf
<1>9. ResaleIsOfItsTicket'
  BY <1>1, <1>2, <1>3
  DEF CodeInv, ResaleIsOfItsTicket, TicketOf, Idle, Selling, Purging
<1> QED
  BY <1>6, <1>7, <1>8, <1>9, CodeInvFromParts

\* What is presented and found was delivered: "mistyped" is the code of no row.
LEMMA ValidateCheckCode ==
  ASSUME TypeOK, CodeInv, NEW th \in Threads, NEW code \in Presented,
         ValidateCheck(th, code)
  PROVE  CodeInv'
<1> DEFINE c == [pc |-> "setTicketInUse", code |-> code]
<1>1. UNCHANGED <<ticket, resell_tickets, generated, issued, admitted>>
  BY DEF ValidateCheck, tables, history, on_sale, starts
<1>2. CASE UNCHANGED call
  BY <1>1, <1>2, SameCode
<1>3. CASE SHA256(code) \in DOMAIN ticket /\ CallNext(th, c)
  <2>1. /\ call'[th] = c
        /\ \A other \in Threads \ {th} : call'[other] = call[other]
    BY <1>3, OtherCalls DEF TypeOK
  <2>2. code \in Codes
    BY <1>3 DEF TypeOK, Hashes, SHA256
  <2>3. Traced(code)
    BY <2>2, ServiceAssumption DEF Presented, Mistyped, Traced
  <2>4. \A x : Traced(x)' <=> Traced(x)
    BY <1>1 DEF Traced
  <2>5. \A x : Carries(c, x) => Traced(x)
    BY <2>3 DEF Carries, BuyHead, BuyTail, Selling, Purging
  <2>6. Discreet(th, c)
    <3> HIDE DEF c
    <3> QED
      BY <1>1, <1>3, <2>4, <2>5 DEF Discreet, c
  <2>7. FreshAt(th)' /\ PendingAt(th)'
    BY <2>1 DEF FreshAt, PendingAt, BuyHead, BuyTail
  <2>8. StoredAsIssued'
    BY <1>1
    DEF CodeInv, StoredAsIssued, checkIntegrity, getTicketHashByValidationCode,
        TicketOf
  <2>9. ResaleIsOfItsTicket'
    BY <1>1, <2>1 DEF CodeInv, ResaleIsOfItsTicket, TicketOf, Selling, Purging
  <2> QED
    BY <2>6, <2>7, <2>8, <2>9, CodeInvFromParts
<1> QED
  BY <1>2, <1>3 DEF ValidateCheck, existsTicketWithValidationCode

\* What an UPDATE of `used' leaves of a row.
LEMMA SetInUseKeepsRows ==
  ASSUME TypeOK, NEW th \in Threads, ValidateMark(th)
  PROVE  /\ DOMAIN ticket' = DOMAIN ticket
         /\ \A h \in DOMAIN ticket :
              /\ ticket'[h].ticket_hash = ticket[h].ticket_hash
              /\ ticket'[h].owner_id = ticket[h].owner_id
              /\ ticket[h].used => ticket'[h].used
  BY DEF ValidateMark, setTicketInUse, TypeOK, TicketRow

LEMMA ValidateMarkCode ==
  ASSUME TypeOK, CodeInv, NEW th \in Threads, ValidateMark(th)
  PROVE  CodeInv'
<1>1. /\ UNCHANGED <<resell_tickets, generated, issued>>
      /\ CallNext(th, Idle)
      /\ call[th].pc = "setTicketInUse"
      /\ admitted' = [admitted EXCEPT ![call[th].code] = @ + 1]
  BY ReturnIsNext DEF ValidateMark
<1>2. /\ call'[th] = Idle
      /\ \A other \in Threads \ {th} : call'[other] = call[other]
  BY <1>1, OtherCalls DEF TypeOK
<1>3. \A x \in Codes : Traced(x)' => Traced(x) \/ Carries(call[th], x)
  BY <1>1 DEF Traced, Carries, TypeOK
<1>4. \A x : ~Carries(Idle, x)
  BY DEF Carries, Idle, BuyHead, BuyTail, Selling, Purging
<1>5. Discreet(th, Idle)
  BY <1>1, <1>3, <1>4, SetInUseKeepsRows DEF Discreet
<1>6. FreshAt(th)' /\ PendingAt(th)'
  BY <1>2 DEF FreshAt, PendingAt, Idle, BuyHead, BuyTail
<1>7. StoredAsIssued'
  BY <1>1, SetInUseKeepsRows
  DEF CodeInv, StoredAsIssued, checkIntegrity, getTicketHashByValidationCode,
      TicketOf
<1>8. ResaleIsOfItsTicket'
  BY <1>1, <1>2, SetInUseKeepsRows
  DEF CodeInv, ResaleIsOfItsTicket, TicketOf, Idle, Selling, Purging
<1> QED
  BY <1>5, <1>6, <1>7, <1>8, CodeInvFromParts

\* A restart forgets the calls and nothing else.
LEMMA RestartCode ==
  ASSUME TypeOK, CodeInv, Restart
  PROVE  CodeInv'
<1>1. \A th \in Threads : call'[th] = Idle
  BY DEF Restart
<1>2. UNCHANGED <<ticket, resell_tickets, generated, issued, admitted>>
  BY DEF Restart, resetTickets, history
<1>3. \A x : ~Carries(Idle, x)
  BY DEF Carries, Idle, BuyHead, BuyTail, Selling, Purging
<1>4. UnusedCodes'
  <2> SUFFICES ASSUME NEW code \in Codes, code \notin generated'
               PROVE  /\ SHA256(code) \notin DOMAIN ticket'
                      /\ ~Traced(code)'
                      /\ \A th \in Threads : ~Carries(call'[th], code)
    BY DEF UnusedCodes, Carries
  <2> QED
    BY <1>1, <1>2, <1>3 DEF CodeInv, UnusedCodes, Traced
<1>5. FreshCodes' /\ PendingIsStored'
  BY <1>1 DEF FreshCodes, PendingIsStored, Idle, BuyHead, BuyTail
<1>6. StoredAsIssued'
  BY <1>2
  DEF CodeInv, StoredAsIssued, checkIntegrity, getTicketHashByValidationCode,
      TicketOf
<1>7. ResaleIsOfItsTicket'
  BY <1>1, <1>2
  DEF CodeInv, ResaleIsOfItsTicket, TicketOf, Idle, Purging, Selling
<1> QED
  BY <1>4, <1>5, <1>6, <1>7 DEF CodeInv

\* Every step keeps the invariant.
LEMMA StepCode ==
  ASSUME TypeOK, CodeInv, [Next]_vars
  PROVE  CodeInv'
<1>1. ASSUME NEW th \in Threads, Buy(th) PROVE CodeInv'
  BY <1>1, SeenType, BuyCountOwnedCode DEF Buy
<1>2. ASSUME NEW th \in Threads, Sell(th) PROVE CodeInv'
  BY <1>2, SellCheckCode DEF Sell
<1>3. ASSUME NEW th \in Threads, Validate(th) PROVE CodeInv'
  BY <1>3, ValidateCheckCode DEF Validate
<1>4. ASSUME NEW th \in Threads, Continue(th) PROVE CodeInv'
  BY <1>4, BuyLookUpCode, BuyTakeOffSaleCode, BuyAddTicketCode,
     BuyIsResoldCode, BuyGetOldCode, BuyRemoveResellCode, BuyRemoveOldCode,
     SellListCode, SellMarkResellCode, ValidateMarkCode DEF Continue
<1>5. CASE Restart
  BY <1>5, RestartCode
<1>6. CASE UNCHANGED vars
  BY <1>6, SameCode DEF vars, tables, history, on_sale, starts
<1> QED
  BY <1>1, <1>2, <1>3, <1>4, <1>5, <1>6 DEF Next

\* The codes under way are private and the rows stored are right, in every
\* reachable state.
THEOREM CodeInvariant == Spec => []CodeInv
<1>1. Init => CodeInv
  BY InitCode
<1>2. TypeOK /\ CodeInv /\ [Next]_vars => CodeInv'
  BY StepCode
<1> QED
  BY <1>1, <1>2, TypeCorrect, PTL DEF Spec

\* A delivered ticket that is still stored passes the validator's integrity
\* check (TicketService.cpp:41), whatever was sold, presented or failed since.
THEOREM StoredAsIssuedHolds == Spec => []StoredAsIssued
<1>1. CodeInv => StoredAsIssued
  BY DEF CodeInv
<1> QED
  BY <1>1, CodeInvariant, PTL
-----------------------------------------------------------------------------

\* Three statements write the table ticket.
LEMMA TicketWriters ==
  ASSUME [Next]_vars
  PROVE  \/ UNCHANGED ticket
         \/ \E th \in Threads :
              BuyAddTicket(th) \/ BuyRemoveOld(th) \/ ValidateMark(th)
<1>1. ASSUME NEW th \in Threads, Continue(th),
             ~BuyAddTicket(th), ~BuyRemoveOld(th), ~ValidateMark(th)
      PROVE  UNCHANGED ticket
  BY <1>1 DEF Continue, BuyLookUp, BuyTakeOffSale, BuyIsResold, BuyGetOld,
              BuyRemoveResell, SellList, SellMarkResell, tables, on_sale,
              starts
<1>2. ASSUME NEW th \in Threads, Buy(th) \/ Sell(th) \/ Validate(th)
      PROVE  UNCHANGED ticket
  BY <1>2 DEF Buy, Sell, Validate, BuyCountOwned, SellCheck, ValidateCheck,
              tables, on_sale, starts
<1>3. Restart \/ UNCHANGED vars => UNCHANGED ticket
  BY DEF Restart, resetTickets, vars, tables, on_sale, starts
<1> QED
  BY <1>1, <1>2, <1>3 DEF Next

\* The DELETE of removeTicket leaves the ticket of the purchase that runs it:
\* its hash is not the old one.
LEMMA DeletedIsReplaced ==
  ASSUME TypeOK, CodeInv, [Next]_vars, NEW h \in DOMAIN ticket \ DOMAIN ticket'
  PROVE  \E k \in DOMAIN ticket' :
           TicketOf(ticket'[k]).ticketID = TicketOf(ticket[h]).ticketID
<1>1. ASSUME NEW th \in Threads, BuyAddTicket(th) PROVE FALSE
  BY <1>1 DEF BuyAddTicket, addNewTicket, Insert
<1>2. ASSUME NEW th \in Threads, ValidateMark(th) PROVE FALSE
  BY <1>2, SetInUseKeepsRows
<1>3. PICK th \in Threads : BuyRemoveOld(th)
  BY <1>1, <1>2, TicketWriters
<1> DEFINE t == call[th].t
           k == ValCodeHash(t)
<1>4. call[th].pc \in BuyTail /\ call[th].pc \in Purging
  BY <1>3 DEF BuyRemoveOld, BuyTail, Purging
<1>5. k \in DOMAIN ticket /\ TicketOf(ticket[k]) = t /\ call[th].old # k
  BY <1>4 DEF CodeInv, PendingIsStored, TicketOf, TicketHash, SHA256
<1>6. h = call[th].old /\ k \in DOMAIN ticket' /\ ticket'[k] = ticket[k]
  BY <1>3, <1>5 DEF BuyRemoveOld, removeTicket, Delete
<1>7. TicketOf(ticket[h]).ticketID = t.ticketID
  BY <1>4, <1>6 DEF CodeInv, ResaleIsOfItsTicket
<1> QED
  BY <1>5, <1>6, <1>7

\* When the seller's ticket is deleted (TicketService.cpp:63), one with the same
\* id is stored, whatever other purchases and sales of that id do meanwhile.
THEOREM ReplacedNotLostHolds == Spec => ReplacedNotLost
<1>1. TypeOK /\ CodeInv /\ [Next]_vars =>
        \A h \in DOMAIN ticket \ DOMAIN ticket' :
          TicketOf(ticket[h]).ticketID \in
            {TicketOf(ticket'[k]).ticketID : k \in DOMAIN ticket'}
  BY DeletedIsReplaced
<1> QED
  BY <1>1, TypeCorrect, CodeInvariant, PTL DEF Spec, ReplacedNotLost

\* The row of a delivered code is not inserted again, since the code of a
\* purchase is private, and no statement resets `used'.
LEMMA IssuedStaysRevoked ==
  ASSUME TypeOK, CodeInv, [Next]_vars, NEW t \in issued,
         ValCodeHash(t) \in DOMAIN ticket'
  PROVE  /\ ValCodeHash(t) \in DOMAIN ticket
         /\ ticket[ValCodeHash(t)].used => ticket'[ValCodeHash(t)].used
<1> DEFINE h == ValCodeHash(t)
<1>1. ASSUME NEW th \in Threads, BuyAddTicket(th)
      PROVE  h \in DOMAIN ticket /\ ticket'[h] = ticket[h]
  <2>1. Private(th)
    BY <1>1 DEF CodeInv, FreshCodes, BuyAddTicket, BuyHead
  <2>2. h # ValCodeHash(call[th].t)
    BY <2>1, SHA256Injective DEF Private, Traced, ValCodeHash
  <2> QED
    BY <1>1, <2>2 DEF BuyAddTicket, addNewTicket, Insert
<1>2. ASSUME NEW th \in Threads, BuyRemoveOld(th)
      PROVE  h \in DOMAIN ticket /\ ticket'[h] = ticket[h]
  BY <1>2 DEF BuyRemoveOld, removeTicket, Delete
<1>3. ASSUME NEW th \in Threads, ValidateMark(th)
      PROVE  h \in DOMAIN ticket /\ (ticket[h].used => ticket'[h].used)
  BY <1>3, SetInUseKeepsRows
<1> QED
  BY <1>1, <1>2, <1>3, TicketWriters

\* A ticket deleted for a resale is never valid again, and a used one never
\* unused, though its first owner keeps the file (TicketService.cpp:63, 83).
THEOREM RevokedStaysRevokedHolds == Spec => RevokedStaysRevoked
<1>1. TypeOK /\ CodeInv /\ [Next]_vars =>
        \A t \in issued :
          LET h == ValCodeHash(t)
          IN  /\ h \in DOMAIN ticket' => h \in DOMAIN ticket
              /\ h \in DOMAIN ticket' /\ ticket[h].used => ticket'[h].used
  BY IssuedStaysRevoked
<1> QED
  BY <1>1, TypeCorrect, CodeInvariant, PTL DEF Spec, RevokedStaysRevoked
=============================================================================
