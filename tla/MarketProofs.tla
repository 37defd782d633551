---------------------------- MODULE MarketProofs ----------------------------
(***************************************************************************)
(* TicketService implements TicketMarket when it serves one connection, no *)
(* statement fails and it is not restarted: for any number of events,      *)
(* ids, users, codes and prices.  SerialInv of TicketRefinement is         *)
(* inductive together with IInv; with it every step is a purchase, a       *)
(* resale or an admission of the market, or invisible.                     *)
(***************************************************************************)
EXTENDS TicketRefinement, TicketCountProofs

\* What the refinement is about; the code has one connection for each client,
\* and a database that may fail, so it is a premise and no assumption.
Serial == /\ \A a, b \in Threads : a = b
          /\ MaxFaults = 0 /\ MaxRestarts = 0

\* Every statement succeeds.
LEMMA StatementSucceeds ==
  ASSUME Serial, TypeOK, NEW ok \in BOOLEAN, Statement(ok)
  PROVE  ok = TRUE /\ faults' = faults
<1>1. faults = 0
  BY DEF TypeOK, Serial
<1> QED
  BY <1>1 DEF Statement, Serial

LEMMA OneThread ==
  ASSUME Serial, NEW th \in Threads
  PROVE  /\ Threads = {th}
         /\ Settling = IF call[th].pc \in SettlingSteps THEN {th} ELSE {}
         /\ SettlingIds = IF call[th].pc \in SettlingSteps
                            THEN {call[th].t.ticketID} ELSE {}
         /\ \A m : AtCall(m) = IF call[th].pc = m THEN {th} ELSE {}
<1>1. Threads = {th}
  BY DEF Serial
<1>2. Settling = IF call[th].pc \in SettlingSteps THEN {th} ELSE {}
  BY <1>1 DEF Settling
<1> QED
  BY <1>1, <1>2 DEF SettlingIds, AtCall

\* What is known of the one call before its step.
LEMMA Before ==
  ASSUME IInv, SerialInv, NEW th \in Threads
  PROVE  /\ TypeOK /\ CodeInv
         /\ call[th] \in CallRecord
         /\ TablesAgree(call[th]) /\ StillTrue(call[th])
         /\ \A h \in DOMAIN ticket :
              /\ TicketOf(ticket[h]) \in Ticket
              /\ ticket[h].ticket_hash = TicketHash(TicketOf(ticket[h]))
              /\ h = ValCodeHash(TicketOf(ticket[h]))
<1>1. TypeOK /\ CodeInv /\ TablesAgree(call[th]) /\ StillTrue(call[th])
  BY DEF IInv, SerialInv
<1>2. call[th] \in CallRecord
  BY <1>1 DEF TypeOK
<1>3. ASSUME NEW h \in DOMAIN ticket
      PROVE  /\ TicketOf(ticket[h]) \in Ticket
             /\ ticket[h].ticket_hash = TicketHash(TicketOf(ticket[h]))
             /\ h = ValCodeHash(TicketOf(ticket[h]))
  <2>1. ticket[h] \in TicketRow
    BY <1>1, <1>3 DEF TypeOK
  <2>2. ticket[h].ticket_hash \in {"sha256"} \X Ticket
    BY <2>1 DEF TicketRow
  <2> QED
    BY <1>1, <1>3, <2>2 DEF TicketOf, TicketHash, SHA256, CodeInv,
                            StoredAsIssued
<1> QED
  BY <1>1, <1>2, <1>3

LEMMA After ==
  ASSUME Serial, TypeOK, NEW th \in Threads, NEW c, CallNext(th, c),
         TablesAgree(c)', StillTrue(c)'
  PROVE  SerialInv'
<1>1. call'[th] = c /\ Threads = {th}
  BY OtherCalls, OneThread DEF TypeOK
<1> QED
  BY <1>1 DEF SerialInv

-----------------------------------------------------------------------------
(***************************************************************************)
(* What the market sees.                                                   *)
(***************************************************************************)

\* The pass of an id that is being settled, or of the one row it has.
PassesSeen(th) ==
  /\ marketPass = [id \in HeldIds \cup SettlingIds |-> marketPass[id]]
  /\ call[th].pc \in SettlingSteps =>
       marketPass[call[th].t.ticketID] = PassOf(call[th].t, FALSE)
  /\ \A h \in DOMAIN ticket :
       TicketOf(ticket[h]).ticketID \notin SettlingIds =>
         marketPass[TicketOf(ticket[h]).ticketID]
           = PassOf(TicketOf(ticket[h]), ticket[h].used)

\* An id that is held has one old row, and no other id has any.
LEMMA OneOldRow ==
  ASSUME NEW c, TablesAgree(c)
  PROVE  \A x : \A h, k \in OldRows(c, x) : h = k
  BY DEF TablesAgree, OldRows, RowsOf, HeldIds

LEMMA PassIsSeen ==
  Serial /\ IInv /\ SerialInv => \A th \in Threads : PassesSeen(th)
<1> SUFFICES ASSUME Serial, IInv, SerialInv, NEW th \in Threads PROVE PassesSeen(th)
  OBVIOUS
<1>1. marketPass = [id \in HeldIds \cup SettlingIds |-> marketPass[id]]
  BY DEF marketPass
<1>2. ASSUME call[th].pc \in SettlingSteps
      PROVE  marketPass[call[th].t.ticketID] = PassOf(call[th].t, FALSE)
  <2>1. Settling = {th} /\ SettlingIds = {call[th].t.ticketID}
    BY <1>2, OneThread
  <2>2. (CHOOSE x \in Settling : call[x].t.ticketID = call[th].t.ticketID) = th
    BY <2>1
  <2> QED
    BY <2>1, <2>2 DEF marketPass, PassSeen
<1>3. ASSUME NEW h \in DOMAIN ticket,
             TicketOf(ticket[h]).ticketID \notin SettlingIds
      PROVE  marketPass[TicketOf(ticket[h]).ticketID]
               = PassOf(TicketOf(ticket[h]), ticket[h].used)
  <2> DEFINE id == TicketOf(ticket[h]).ticketID
  <2>1. id \in HeldIds
    BY DEF HeldIds
  <2>2. ASSUME NEW k \in DOMAIN ticket, TicketOf(ticket[k]).ticketID = id
        PROVE  k = h
    <3>1. ASSUME call[th].pc \in SettlingSteps
          PROVE  k # ValCodeHash(call[th].t) /\ h # ValCodeHash(call[th].t)
      <4>1. id # call[th].t.ticketID
        BY <1>3, <3>1, OneThread
      <4>2. call[th].t \in Ticket
        BY <3>1, Before, CallType DEF SettlingSteps, BuyHead
      <4>3. CASE call[th].pc \in BuyTail
        <5>1. ticket[ValCodeHash(call[th].t)].ticket_hash = TicketHash(call[th].t)
          BY <4>3 DEF IInv, CodeInv, PendingIsStored
        <5>2. TicketOf(ticket[ValCodeHash(call[th].t)]) = call[th].t
          BY <5>1 DEF TicketOf, TicketHash, SHA256
        <5> QED
          BY <2>2, <4>1, <5>2
      <4>4. CASE call[th].pc \in BuyHead
        BY <2>2, <4>4 DEF IInv, CodeInv, FreshCodes
      <4> QED
        BY <3>1, <4>3, <4>4 DEF SettlingSteps, BuyHead
    <3>2. k \in OldRows(call[th], id) /\ h \in OldRows(call[th], id)
      BY <2>2, <3>1 DEF OldRows, RowsOf
    <3> QED
      BY <2>1, <3>2, Before DEF TablesAgree
  <2>3. (CHOOSE k \in DOMAIN ticket : TicketOf(ticket[k]).ticketID = id) = h
    BY <2>2
  <2> HIDE DEF id
  <2> QED
    BY <1>3, <2>1, <2>3 DEF marketPass, PassSeen, id
<1> QED
  BY <1>1, <1>2, <1>3 DEF PassesSeen

LEMMA PassIsSeenNext ==
  (Serial /\ IInv /\ SerialInv => \A th \in Threads : PassesSeen(th))'
  BY PassIsSeen, PTL

\* After a step the passes are f, if f has them right.
LEMMA PassesAre ==
  ASSUME Serial, IInv', SerialInv', NEW th \in Threads, NEW f, NEW S,
         f \in [HeldIds' \cup SettlingIds' -> S],
         call'[th].pc \in SettlingSteps =>
           f[call'[th].t.ticketID] = PassOf(call'[th].t, FALSE),
         \A h \in DOMAIN ticket' :
           TicketOf(ticket'[h]).ticketID \notin SettlingIds' =>
             f[TicketOf(ticket'[h]).ticketID]
               = PassOf(TicketOf(ticket'[h]), ticket'[h].used)
  PROVE  marketPass' = f
<1>2. Serial'
  BY DEF Serial
<1>3. PassesSeen(th)'
  BY <1>2, PassIsSeenNext
<1>4. (SettlingIds = IF call[th].pc \in SettlingSteps
                       THEN {call[th].t.ticketID} ELSE {})'
  BY OneThread DEF SettlingIds, Settling
<1>5. ASSUME NEW id \in HeldIds' \cup SettlingIds' PROVE marketPass'[id] = f[id]
  <2>1. CASE id \in SettlingIds'
    BY <1>3, <1>4, <2>1 DEF PassesSeen
  <2>2. CASE id \notin SettlingIds'
    <3>1. PICK h \in DOMAIN ticket' : TicketOf(ticket'[h]).ticketID = id
      BY <1>5, <2>2 DEF HeldIds, TicketOf
    <3> QED
      BY <1>3, <2>2, <3>1 DEF PassesSeen, PassOf, TicketOf
  <2> QED
    BY <2>1, <2>2
<1>6. marketPass' = [id \in HeldIds' \cup SettlingIds' |-> marketPass'[id]]
  BY <1>3 DEF PassesSeen
<1> QED
  BY <1>5, <1>6

\* A step that leaves the passes as they are.
LEMMA SamePasses ==
  ASSUME Serial, IInv, SerialInv, IInv', SerialInv', NEW th \in Threads,
         HeldIds' \cup SettlingIds' = HeldIds \cup SettlingIds,
         call'[th].pc \in SettlingSteps =>
           call[th].pc \in SettlingSteps /\ call'[th].t = call[th].t,
         \A h \in DOMAIN ticket' :
           TicketOf(ticket'[h]).ticketID \notin SettlingIds' =>
             marketPass[TicketOf(ticket'[h]).ticketID]
               = PassOf(TicketOf(ticket'[h]), ticket'[h].used)
  PROVE  marketPass' = marketPass
<1>1. PICK f : f = marketPass
  OBVIOUS
<1>2. PassesSeen(th)
  BY PassIsSeen
<1>3. f = [id \in HeldIds \cup SettlingIds |-> f[id]]
  BY <1>1, <1>2 DEF PassesSeen
<1>4. PICK S : f \in [HeldIds' \cup SettlingIds' -> S]
  <2>1. f \in [HeldIds \cup SettlingIds -> {f[id] : id \in HeldIds \cup SettlingIds}]
    BY <1>3
  <2> QED
    BY <2>1
<1>5. call'[th].pc \in SettlingSteps =>
        f[call'[th].t.ticketID] = PassOf(call'[th].t, FALSE)
  BY <1>1, <1>2 DEF PassesSeen
<1>6. \A h \in DOMAIN ticket' :
        TicketOf(ticket'[h]).ticketID \notin SettlingIds' =>
          f[TicketOf(ticket'[h]).ticketID]
            = PassOf(TicketOf(ticket'[h]), ticket'[h].used)
  BY <1>1
<1>7. marketPass' = f
  BY <1>4, <1>5, <1>6, PassesAre
<1> QED
  BY <1>1, <1>7

\* A step the market does not see, before or after a purchase.
LEMMA Unseen ==
  ASSUME Serial, IInv, SerialInv, IInv', SerialInv', NEW th \in Threads,
         UNCHANGED <<ticket_info, ticket>>, marketSpent' = marketSpent,
         SettlingIds' = SettlingIds,
         call'[th].pc \in SettlingSteps =>
           call[th].pc \in SettlingSteps /\ call'[th].t = call[th].t
  PROVE  UNCHANGED Market!market
<1>1. PassesSeen(th)
  BY PassIsSeen
<1>2. HeldIds' = HeldIds
  BY DEF HeldIds, TicketOf
<1>3. \A h \in DOMAIN ticket' :
        TicketOf(ticket'[h]).ticketID \notin SettlingIds' =>
          marketPass[TicketOf(ticket'[h]).ticketID]
            = PassOf(TicketOf(ticket'[h]), ticket'[h].used)
  BY <1>1 DEF PassesSeen
<1>4. marketPass' = marketPass
  BY <1>2, <1>3, SamePasses
<1>5. marketListing' = marketListing
  BY DEF marketListing
<1> QED
  BY <1>4, <1>5 DEF Market!market

\* Codes count from the purchase on.
LEMMA SpentSeen ==
  ASSUME Serial, NEW th \in Threads
  PROVE  /\ call[th].pc # "makeTicketUnavailable" => marketSpent = generated
         /\ call[th].pc = "makeTicketUnavailable" =>
              marketSpent = generated \ {call[th].t.validationCode}
         /\ call'[th].pc # "makeTicketUnavailable" => marketSpent' = generated'
         /\ call'[th].pc = "makeTicketUnavailable" =>
              marketSpent' = generated' \ {call'[th].t.validationCode}
<1>1. Threads = {th}
  BY OneThread
<1> QED
  BY <1>1 DEF marketSpent, AtCall

-----------------------------------------------------------------------------
(***************************************************************************)
(* Steps before a purchase, a resale or an admission has begun.            *)
(***************************************************************************)

\* Where nothing is written the tables still agree.
LEMMA QuietTables ==
  ASSUME IInv, SerialInv, NEW th \in Threads, NEW c, UNCHANGED tables,
         call[th].pc \notin SettlingSteps \cup {"addTicketToResell"},
         c.pc \notin SettlingSteps
  PROVE  TablesAgree(c)'
<1>1. TablesAgree(call[th])
  BY Before
<1>2. ticket_info' = ticket_info /\ ticket' = ticket
      /\ resell_tickets' = resell_tickets
  BY DEF tables, on_sale
<1>3. \A id : OldRows(call[th], id) = RowsOf(id) /\ OldRows(c, id)' = RowsOf(id)
  BY <1>2 DEF OldRows, RowsOf, TicketOf
<1> QED
  BY <1>1, <1>2, <1>3, OneOldRow DEF TablesAgree, TicketOf

\* The same step seen by the market.
LEMMA QuietUnseen ==
  ASSUME Serial, IInv, SerialInv, IInv', SerialInv', NEW th \in Threads,
         UNCHANGED tables, marketSpent' = marketSpent,
         call[th].pc \notin SettlingSteps, call'[th].pc \notin SettlingSteps
  PROVE  UNCHANGED Market!market
<1>1. SettlingIds' = {} /\ SettlingIds = {}
  <2>1. Threads = {th}
    BY OneThread
  <2> QED
    BY <2>1 DEF SettlingIds, Settling
<1> QED
  BY <1>1, Unseen DEF tables, on_sale

\* A call that is refused at its first statement.
LEMMA StaysIdle ==
  ASSUME Serial, IInv, SerialInv, IInv', NEW th \in Threads, call[th] = Idle,
         UNCHANGED <<tables, call, generated>>
  PROVE  SerialInv' /\ UNCHANGED Market!market
<1>1. call[th].pc = "idle" /\ call'[th] = Idle /\ Threads = {th}
  BY OneThread DEF Idle
<1>2. TablesAgree(Idle)' /\ StillTrue(Idle)'
  BY <1>1, QuietTables DEF Idle, SettlingSteps, BuyTail, StillTrue, Selling
<1>3. SerialInv'
  BY <1>1, <1>2 DEF SerialInv
<1> QED
  BY <1>1, <1>3, SpentSeen, QuietUnseen DEF SettlingSteps, BuyTail

LEMMA BuyCountOwnedSerial ==
  ASSUME Serial, IInv, SerialInv, IInv', NEW th \in Threads, NEW user \in Users,
         NEW id \in SeenIds, NEW event \in EventIds,
         BuyCountOwned(th, user, id, event)
  PROVE  SerialInv' /\ UNCHANGED Market!market
<1>1. /\ UNCHANGED tables /\ generated' = generated
      /\ call[th] = Idle /\ call[th].pc = "idle"
  BY DEF BuyCountOwned, history, Idle, on_sale, starts
<1>2. CASE UNCHANGED call
  BY <1>1, <1>2, StaysIdle
<1>3. CASE /\ getNrOfTicketsOwned(user, TRUE) < MaxOwned
           /\ CallNext(th, [pc |-> "getTicketInfoById",
                            user |-> user, id |-> id, event |-> event])
  <2> DEFINE c == [pc |-> "getTicketInfoById", user |-> user, id |-> id,
                   event |-> event]
  <2>1. c.pc = "getTicketInfoById" /\ c.user = user /\ CallNext(th, c)
    BY <1>3
  <2> HIDE DEF c
  <2>2. Cardinality(OwnedBy(user))' < MaxOwned
    BY <1>1, <1>3 DEF getNrOfTicketsOwned, OwnedBy, tables
  <2>3. TablesAgree(c)'
    BY <1>1, <2>1, QuietTables DEF SettlingSteps, BuyTail
  <2>4. StillTrue(c)'
    BY <2>1, <2>2 DEF StillTrue, SettlingSteps, BuyTail, Selling, OwnedBy
  <2>5. SerialInv' /\ call'[th] = c
    BY <2>1, <2>3, <2>4, After, OtherCalls DEF IInv, TypeOK
  <2> QED
    BY <1>1, <2>1, <2>5, SpentSeen, QuietUnseen DEF SettlingSteps, BuyTail
<1>4. PICK ok \in BOOLEAN :
        /\ Statement(ok)
        /\ \/ UNCHANGED call
           \/ /\ getNrOfTicketsOwned(user, ok) < MaxOwned
              /\ CallNext(th, [pc |-> "getTicketInfoById",
                               user |-> user, id |-> id, event |-> event])
  BY DEF BuyCountOwned
<1>5. ok = TRUE
  BY <1>4, StatementSucceeds DEF IInv
<1> QED
  BY <1>2, <1>3, <1>4, <1>5

LEMMA BuyLookUpSerial ==
  ASSUME Serial, IInv, SerialInv, IInv', NEW th \in Threads, BuyLookUp(th)
  PROVE  SerialInv' /\ UNCHANGED Market!market
<1> DEFINE id == call[th].id
           user == call[th].user
<1>1. UNCHANGED tables /\ call[th].pc = "getTicketInfoById"
  BY DEF BuyLookUp
<1>2. CASE Return(th) /\ UNCHANGED generated
  <2>1. CallNext(th, Idle)
    BY <1>2, ReturnIsNext
  <2>2. TablesAgree(Idle)' /\ StillTrue(Idle)'
    BY <1>1, QuietTables DEF Idle, SettlingSteps, BuyTail, StillTrue, Selling
  <2>3. SerialInv' /\ call'[th] = Idle
    BY <2>1, <2>2, After, OtherCalls DEF IInv, TypeOK
  <2> QED
    BY <1>1, <1>2, <2>3, SpentSeen, QuietUnseen DEF Idle, SettlingSteps,
                                                    BuyTail
<1>3. ASSUME NEW row \in getTicketInfoById(id, TRUE), NEW code \in Codes \ generated,
             generated' = generated \cup {code},
             CallNext(th, [pc |-> "makeTicketUnavailable",
                           t |-> NewTicket(id, row, user, code)])
      PROVE  SerialInv' /\ UNCHANGED Market!market
  <2>0. PICK c : c = [pc |-> "makeTicketUnavailable",
                      t |-> NewTicket(id, row, user, code)]
    OBVIOUS
  <2>1. /\ c.pc = "makeTicketUnavailable" /\ c.t.ticketID = id
        /\ c.t.price = row.price /\ c.t.buyerID = user
        /\ c.t.validationCode = code /\ CallNext(th, c)
    BY <1>3, <2>0 DEF NewTicket
  <2>2. id \in DOMAIN ticket_info /\ row = ticket_info[id]
    BY <1>3 DEF getTicketInfoById
  <2>3. Cardinality(OwnedBy(user)) < MaxOwned
    BY <1>1, Before DEF StillTrue
  <2>4. TablesAgree(c)'
    BY <1>1, <2>1, QuietTables DEF SettlingSteps, BuyTail
  <2>5. PICK u : u = user
    OBVIOUS
  <2>6. OwnedBy(u)' = OwnedBy(u)
    BY <1>1 DEF OwnedBy, tables
  <2>7. StillTrue(c)'
    <3>1. /\ c.t.ticketID \in DOMAIN ticket_info'
          /\ ticket_info'[c.t.ticketID].price = c.t.price
          /\ Cardinality(OwnedBy(c.t.buyerID)') < MaxOwned
      BY <1>1, <2>1, <2>2, <2>3, <2>5, <2>6 DEF tables, on_sale
    <3> QED
      BY <2>1, <3>1 DEF StillTrue, SettlingSteps, BuyTail, Selling
  <2>8. SerialInv' /\ call'[th] = c
    BY <2>1, <2>4, <2>7, After, OtherCalls DEF IInv, TypeOK
  <2>9. marketSpent' = marketSpent
    <3>1. marketSpent = generated
      BY <1>1, SpentSeen
    <3>2. marketSpent' = generated' \ {code}
      BY <2>1, <2>8, SpentSeen
    <3> QED
      BY <1>3, <3>1, <3>2
  <2> QED
    BY <1>1, <2>1, <2>8, <2>9, QuietUnseen DEF SettlingSteps, BuyTail
<1>4. PICK ok \in BOOLEAN :
        LET found == {row \in getTicketInfoById(id, ok) : row.eventID = call[th].event}
        IN  /\ Statement(ok)
            /\ \/ found = {} /\ Return(th) /\ UNCHANGED generated
               \/ \E row \in found, code \in Codes \ generated :
                    /\ generated' = generated \cup {code}
                    /\ CallNext(th, [pc |-> "makeTicketUnavailable",
                                     t |-> NewTicket(id, row, user, code)])
  BY DEF BuyLookUp
<1>5. ok = TRUE
  BY <1>4, StatementSucceeds DEF IInv
<1> QED
  BY <1>2, <1>3, <1>4, <1>5

\* A ticket that was delivered and hashes to its row is the ticket of the row.
LEMMA SellCheckSerial ==
  ASSUME Serial, IInv, SerialInv, IInv', NEW th \in Threads,
         NEW t \in Submissions, NEW newPrice \in AskingPrices,
         SellCheck(th, t, newPrice)
  PROVE  SerialInv' /\ UNCHANGED Market!market
<1>1. /\ UNCHANGED tables /\ generated' = generated
      /\ call[th] = Idle /\ call[th].pc = "idle"
  BY DEF SellCheck, history, Idle, on_sale, starts
<1>2. CASE UNCHANGED call
  BY <1>1, <1>2, StaysIdle
<1>3. CASE /\ getTicketHashByValidationCode(ValCodeHash(t), TRUE) = {TicketHash(t)}
           /\ CallNext(th, [pc |-> "addTicketInfo", t |-> t, newPrice |-> newPrice])
  <2> DEFINE c == [pc |-> "addTicketInfo", t |-> t, newPrice |-> newPrice]
  <2>1. c.pc = "addTicketInfo" /\ c.t = t /\ CallNext(th, c)
    BY <1>3
  <2> HIDE DEF c
  <2>2. ValCodeHash(t) \in DOMAIN ticket'
    BY <1>1, <1>3 DEF getTicketHashByValidationCode, tables
  <2>3. TablesAgree(c)'
    BY <1>1, <2>1, QuietTables DEF SettlingSteps, BuyTail
  <2>4. StillTrue(c)'
    BY <2>1, <2>2 DEF StillTrue, SettlingSteps, BuyTail, ValCodeHash
  <2>5. SerialInv' /\ call'[th] = c
    BY <2>1, <2>3, <2>4, After, OtherCalls DEF IInv, TypeOK
  <2> QED
    BY <1>1, <2>1, <2>5, SpentSeen, QuietUnseen DEF SettlingSteps, BuyTail
<1>4. PICK ok \in BOOLEAN :
        /\ Statement(ok)
        /\ \/ UNCHANGED call
           \/ /\ getTicketHashByValidationCode(ValCodeHash(t), ok) = {TicketHash(t)}
              /\ CallNext(th, [pc |-> "addTicketInfo", t |-> t,
                               newPrice |-> newPrice])
  BY DEF SellCheck
<1>5. ok = TRUE
  BY <1>4, StatementSucceeds DEF IInv
<1> QED
  BY <1>2, <1>3, <1>4, <1>5

\* What is found unused stays so until it is marked.
LEMMA ValidateCheckSerial ==
  ASSUME Serial, IInv, SerialInv, IInv', NEW th \in Threads,
         NEW code \in Presented, ValidateCheck(th, code)
  PROVE  SerialInv' /\ UNCHANGED Market!market
<1>1. /\ UNCHANGED tables /\ generated' = generated
      /\ call[th] = Idle /\ call[th].pc = "idle"
  BY DEF ValidateCheck, history, Idle, on_sale, starts
<1>2. CASE UNCHANGED call
  BY <1>1, <1>2, StaysIdle
<1>3. CASE /\ existsTicketWithValidationCode(SHA256(code), TRUE)
           /\ ~ticket[SHA256(code)].used
           /\ CallNext(th, [pc |-> "setTicketInUse", code |-> code])
  <2> DEFINE c == [pc |-> "setTicketInUse", code |-> code]
  <2>1. c.pc = "setTicketInUse" /\ c.code = code /\ CallNext(th, c)
    BY <1>3
  <2> HIDE DEF c
  <2>2. SHA256(code) \in DOMAIN ticket' /\ ~ticket'[SHA256(code)].used
    BY <1>1, <1>3 DEF existsTicketWithValidationCode, tables
  <2>3. TablesAgree(c)'
    BY <1>1, <2>1, QuietTables DEF SettlingSteps, BuyTail
  <2>4. StillTrue(c)'
    BY <2>1, <2>2 DEF StillTrue, SettlingSteps, BuyTail, Selling
  <2>5. SerialInv' /\ call'[th] = c
    BY <2>1, <2>3, <2>4, After, OtherCalls DEF IInv, TypeOK
  <2> QED
    BY <1>1, <2>1, <2>5, SpentSeen, QuietUnseen DEF SettlingSteps, BuyTail
<1>4. PICK ok \in BOOLEAN :
        LET valid == existsTicketWithValidationCode(SHA256(code), ok)
                       /\ ~ticket[SHA256(code)].used
        IN  /\ Statement(ok)
            /\ \/ ~valid /\ UNCHANGED call
               \/ valid /\ CallNext(th, [pc |-> "setTicketInUse", code |-> code])
  BY DEF ValidateCheck
<1>5. ok = TRUE
  BY <1>4, StatementSucceeds DEF IInv
<1> QED
  BY <1>2, <1>3, <1>4, <1>5

-----------------------------------------------------------------------------
(***************************************************************************)
(* The purchase.                                                           *)
(***************************************************************************)

LEMMA SameCardinality == \A S : Market!Cardinality(S) = Cardinality(S)
  BY Zenon DEF Market!Cardinality, Cardinality

LEMMA PassFields ==
  ASSUME NEW t, NEW used
  PROVE  /\ PassOf(t, used).owner = t.buyerID
         /\ PassOf(t, used).price = t.price
         /\ PassOf(t, used).used = used
  BY DEF PassOf

\* Nobody holds more passes than rows of the table.
LEMMA PassesAreRows ==
  ASSUME Serial, IInv, SerialInv, NEW th \in Threads,
         call[th].pc \notin SettlingSteps, NEW user \in Users
  PROVE  /\ IsFiniteSet(Market!HeldBy(user))
         /\ Cardinality(Market!HeldBy(user)) <= Cardinality(OwnedBy(user))
<1> DEFINE S == OwnedBy(user)
           f == [h \in S |-> TicketOf(ticket[h]).ticketID]
           T == {f[h] : h \in S}
           Held == Market!HeldBy(user)
<1>1. IsFiniteSet(S)
  BY CountedFinite DEF IInv
<1>2. f \in Surjection(S, T)
  BY DEF Surjection
<1> HIDE DEF f
<1>3. IsFiniteSet(T) /\ Cardinality(T) <= Cardinality(S)
  BY <1>1, <1>2, FS_Surjection
<1>4. Held \subseteq T
  <2> SUFFICES ASSUME NEW id \in DOMAIN marketPass, marketPass[id].owner = user
               PROVE  id \in T
    BY DEF Market!HeldBy
  <2>1. SettlingIds = {} /\ PassesSeen(th)
    BY OneThread, PassIsSeen
  <2>2. PICK h \in DOMAIN ticket : TicketOf(ticket[h]).ticketID = id
    BY <2>1 DEF PassesSeen, HeldIds
  <2>3. TicketOf(ticket[h]).buyerID = user
    <3>1. marketPass[id] = PassOf(TicketOf(ticket[h]), ticket[h].used)
      BY <2>1, <2>2 DEF PassesSeen
    <3> QED
      BY <3>1, PassFields
  <2>4. h \in S
    BY <2>2, <2>3, Before DEF TablesAgree, OwnedBy
  <2> QED
    BY <2>2, <2>4 DEF f
<1>5. /\ IsFiniteSet(Held)
      /\ Cardinality(Held) <= Cardinality(T)
      /\ Cardinality(Held) \in Nat /\ Cardinality(T) \in Nat
  BY <1>3, <1>4, CardinalityMonotone
<1>6. Cardinality(S) \in Nat
  BY <1>1, FS_CardinalityType
<1> HIDE DEF S, T, Held
<1>7. Cardinality(Held) <= Cardinality(S)
  BY <1>3, <1>5, <1>6
<1> QED
  BY <1>5, <1>7 DEF Held, S

\* The DELETE that takes the id off sale, in the tables.
LEMMA BuyTakeOffSaleSerial ==
  ASSUME Serial, IInv, SerialInv, NEW th \in Threads, BuyTakeOffSale(th)
  PROVE  /\ SerialInv'
         /\ call[th].pc = "makeTicketUnavailable"
         /\ call'[th].pc = "addNewTicket" /\ call'[th].t = call[th].t
         /\ call[th].t \in Ticket
         /\ ticket_info' = Delete(ticket_info, {call[th].t.ticketID})
<1>1. /\ call[th].pc = "makeTicketUnavailable"
      /\ UNCHANGED <<ticket, resell_tickets>>
  BY DEF BuyTakeOffSale
<1>2. PICK t, id : t = call[th].t /\ id = t.ticketID
  OBVIOUS
<1>3. PICK ok \in BOOLEAN :
        /\ Statement(ok)
        /\ makeTicketUnavailable(id, ok)
        /\ ok => CallNext(th, [pc |-> "addNewTicket", t |-> t])
  BY <1>2 DEF BuyTakeOffSale
<1>4. ok = TRUE
  BY <1>3, StatementSucceeds DEF IInv
<1> DEFINE c == [pc |-> "addNewTicket", t |-> t]
<1>5. /\ c.pc = "addNewTicket" /\ c.t = t
      /\ CallNext(th, c) /\ call'[th] = c
  BY <1>3, <1>4, OtherCalls DEF IInv, TypeOK
<1> HIDE DEF c
<1>6. t \in Ticket
  BY <1>1, <1>2, Before, CallType DEF BuyHead
<1>7. /\ ticket_info' = Delete(ticket_info, {id})
      /\ DOMAIN ticket_info' = DOMAIN ticket_info \ {id}
  BY <1>3, <1>4 DEF makeTicketUnavailable, Delete
<1>8. TablesAgree(call[th]) /\ StillTrue(call[th])
  BY Before
<1>9. \A x : RowsOf(x)' = RowsOf(x) /\ OldRows(call[th], x) = RowsOf(x)
  BY <1>1 DEF RowsOf, OldRows, TicketOf, SettlingSteps, BuyTail
<1>10. TablesAgree(c)'
  <2>1. \A x : \A h, k \in OldRows(c, x)' : h = k
    BY <1>8, <1>9, OneOldRow DEF OldRows
  <2>2. ASSUME NEW h \in DOMAIN ticket,
               TicketOf(ticket[h]).ticketID \in DOMAIN ticket_info'
        PROVE  h \in DOMAIN resell_tickets
    BY <1>1, <1>7, <1>8, <2>2 DEF TablesAgree
  <2>3. ASSUME NEW h \in DOMAIN resell_tickets
        PROVE  /\ h \in DOMAIN ticket
               /\ resell_tickets[h] \in DOMAIN ticket_info' \cup {id}
    BY <1>1, <1>7, <1>8 DEF TablesAgree, SettlingSteps, BuyTail
  <2> QED
    BY <1>1, <1>2, <1>5, <1>8, <2>1, <2>2, <2>3
    DEF TablesAgree, TicketOf, SettlingSteps, BuyTail
<1>11. StillTrue(c)'
  <2>1. OldRows(c, id)' \subseteq DOMAIN resell_tickets
    <3>1. id \in DOMAIN ticket_info
      BY <1>1, <1>2, <1>8 DEF StillTrue
    <3>2. \A h \in RowsOf(id) : h \in DOMAIN resell_tickets
      BY <1>1, <1>8, <3>1 DEF TablesAgree, RowsOf
    <3> QED
      BY <1>9, <3>2 DEF OldRows
  <2> QED
    BY <1>1, <1>2, <1>5, <1>7, <2>1
    DEF StillTrue, SettlingSteps, BuyTail, Purging, Selling
<1> QED
  BY <1>1, <1>2, <1>5, <1>6, <1>7, <1>10, <1>11, After DEF IInv

\* The same step in the market: a purchase.
LEMMA BuyTakeOffSaleBuys ==
  ASSUME Serial, IInv, SerialInv, IInv', NEW th \in Threads, BuyTakeOffSale(th)
  PROVE  Market!Next
<1>1. PICK t, id, user, code : /\ t = call[th].t /\ id = t.ticketID
                               /\ user = t.buyerID /\ code = t.validationCode
  OBVIOUS
<1>2. /\ SerialInv'
      /\ call[th].pc = "makeTicketUnavailable"
      /\ call'[th].pc = "addNewTicket" /\ call'[th].t = t
      /\ t \in Ticket
      /\ ticket_info' = Delete(ticket_info, {id})
      /\ ticket' = ticket /\ generated' = generated
  BY <1>1, BuyTakeOffSaleSerial DEF BuyTakeOffSale, history, starts
<1>3. user \in Users /\ code \in Codes
  BY <1>1, <1>2 DEF Ticket
<1>4. /\ id \in DOMAIN ticket_info /\ ticket_info[id].price = t.price
      /\ Cardinality(OwnedBy(user)) < MaxOwned
  BY <1>1, <1>2, Before DEF StillTrue
<1>5. SettlingIds = {} /\ SettlingIds' = {id} /\ HeldIds' = HeldIds
  <2>1. Threads = {th}
    BY OneThread
  <2> QED
    BY <1>1, <1>2, <2>1
    DEF SettlingIds, Settling, SettlingSteps, BuyTail, HeldIds, TicketOf
<1>6. PassesSeen(th)
  BY PassIsSeen
<1>7. Cardinality(Market!HeldBy(user)) < MaxOwned
  <2>1. Cardinality(Market!HeldBy(user)) <= Cardinality(OwnedBy(user))
    BY <1>2, <1>3, PassesAreRows DEF SettlingSteps, BuyTail
  <2>2. Cardinality(OwnedBy(user)) \in Nat
    BY CountedFinite, FS_CardinalityType DEF IInv
  <2>3. Cardinality(Market!HeldBy(user)) \in Nat
    <3>1. IsFiniteSet(Market!HeldBy(user))
      BY <1>2, <1>3, PassesAreRows DEF SettlingSteps, BuyTail
    <3> QED
      BY <3>1, FS_CardinalityType
  <2> QED
    BY <1>4, <2>1, <2>2, <2>3, ServiceAssumption
<1>8. marketSpent = generated \ {code} /\ code \in generated
      /\ marketSpent' = marketSpent \cup {code}
  <2>1. code \in generated
    BY <1>1, <1>2 DEF IInv, CodeInv, FreshCodes, Private, BuyHead
  <2>2. marketSpent = generated \ {code}
    BY <1>1, <1>2, SpentSeen
  <2>3. marketSpent' = generated
    BY <1>2, SpentSeen
  <2> QED
    BY <2>1, <2>2, <2>3
<1>9. /\ id \in DOMAIN marketListing
      /\ marketListing[id].price = t.price
      /\ marketListing' = Market!Without(marketListing, id)
  <2>1. /\ DOMAIN marketListing = DOMAIN ticket_info
        /\ \A x \in DOMAIN ticket_info :
             marketListing[x] = [price |-> ticket_info[x].price,
                                 seller |-> ticket_info[x].sellerID]
    BY DEF marketListing
  <2>2. /\ DOMAIN ticket_info' = DOMAIN ticket_info \ {id}
        /\ \A x \in DOMAIN ticket_info' : ticket_info'[x] = ticket_info[x]
    BY <1>2 DEF Delete
  <2>3. marketListing' = [x \in DOMAIN ticket_info' |->
                            [price |-> ticket_info'[x].price,
                             seller |-> ticket_info'[x].sellerID]]
    BY DEF marketListing
  <2> QED
    BY <1>4, <2>1, <2>2, <2>3 DEF Market!Without
<1>10. PICK pass : pass = [code |-> code, owner |-> user,
                           price |-> marketListing[id].price, used |-> FALSE]
  OBVIOUS
<1>11. pass = PassOf(t, FALSE)
  BY <1>1, <1>9, <1>10 DEF PassOf
<1>12. marketPass' = Market!With(marketPass, id, pass)
  <2>1. PICK f : f = Market!With(marketPass, id, pass)
    OBVIOUS
  <2>2. DOMAIN marketPass = HeldIds
    BY <1>5, <1>6 DEF PassesSeen
  <2>3. /\ f \in [HeldIds' \cup SettlingIds' ->
                    {pass} \cup {marketPass[x] : x \in HeldIds}]
        /\ f[id] = pass
        /\ \A x \in HeldIds : x # id => f[x] = marketPass[x]
    BY <1>5, <2>1, <2>2 DEF Market!With
  <2>6. PICK S : f \in [HeldIds' \cup SettlingIds' -> S]
    BY <2>3
  <2>4. ASSUME NEW h \in DOMAIN ticket', TicketOf(ticket'[h]).ticketID \notin SettlingIds'
        PROVE  f[TicketOf(ticket'[h]).ticketID]
                 = PassOf(TicketOf(ticket'[h]), ticket'[h].used)
    <3>1. TicketOf(ticket[h]).ticketID \in HeldIds
      BY <1>2, <2>4 DEF HeldIds
    <3>2. marketPass[TicketOf(ticket[h]).ticketID]
            = PassOf(TicketOf(ticket[h]), ticket[h].used)
      BY <1>2, <1>5, <1>6, <2>4 DEF PassesSeen
    <3> QED
      BY <1>2, <1>5, <2>3, <2>4, <3>1, <3>2
  <2>5. call'[th].pc \in SettlingSteps => f[call'[th].t.ticketID] = PassOf(call'[th].t, FALSE)
    BY <1>1, <1>2, <1>11, <2>3
  <2> QED
    <3>1. SerialInv'
      BY <1>2
    <3>2. marketPass' = f
      BY <2>4, <2>5, <2>6, <3>1, PassesAre
    <3> QED
      BY <2>1, <3>2
<1>13. Market!Buy(user, id, code)
  BY <1>7, <1>8, <1>9, <1>10, <1>12, SameCardinality DEF Market!Buy
<1> QED
  BY <1>3, <1>4, <1>13 DEF Market!Next, marketListing

-----------------------------------------------------------------------------
(***************************************************************************)
(* The rest of a purchase, which the market does not see.                  *)
(***************************************************************************)

\* The row of the ticket of a purchase that has stored it.
LEMMA OwnRow ==
  ASSUME IInv, SerialInv, NEW th \in Threads, call[th].pc \in BuyTail
  PROVE  /\ call[th].t \in Ticket /\ ValCodeHash(call[th].t) \in DOMAIN ticket
         /\ TicketOf(ticket[ValCodeHash(call[th].t)]) = call[th].t
         /\ ~ticket[ValCodeHash(call[th].t)].used
         /\ ValCodeHash(call[th].t) \notin DOMAIN resell_tickets
<1>1. call[th].t \in Ticket
  BY Before, CallType
<1>2. /\ Private(th) /\ ValCodeHash(call[th].t) \in DOMAIN ticket
      /\ ticket[ValCodeHash(call[th].t)].ticket_hash = TicketHash(call[th].t)
  BY DEF IInv, CodeInv, PendingIsStored
<1>3. ~ticket[ValCodeHash(call[th].t)].used
  BY Before DEF StillTrue
<1>4. ValCodeHash(call[th].t) \notin DOMAIN resell_tickets
  BY <1>2 DEF Private, Traced, ValCodeHash
<1> QED
  BY <1>1, <1>2, <1>3, <1>4 DEF TicketOf, TicketHash, SHA256

\* The INSERT: the id has two tickets from here on, if it had one.
LEMMA BuyAddTicketSerial ==
  ASSUME Serial, IInv, SerialInv, IInv', NEW th \in Threads, BuyAddTicket(th)
  PROVE  SerialInv' /\ UNCHANGED Market!market
<1>1. /\ call[th].pc = "addNewTicket"
      /\ ticket_info' = ticket_info /\ resell_tickets' = resell_tickets
      /\ generated' = generated
  BY DEF BuyAddTicket, history, on_sale, starts
<1>2. PICK t, id, h0 : t = call[th].t /\ id = t.ticketID /\ h0 = ValCodeHash(t)
  OBVIOUS
<1>3. h0 \notin DOMAIN ticket /\ t \in Ticket
  <2>1. call[th].pc \in BuyHead
    BY <1>1 DEF BuyHead
  <2> QED
    BY <1>2, <2>1, Before, CallType DEF IInv, CodeInv, FreshCodes
<1>4. PICK ok \in BOOLEAN :
        /\ Statement(ok)
        /\ addNewTicket(h0, TicketHash(t), t.seat, t.buyerID, ok)
        /\ addNewTicketSucceeds(h0, ok) =>
             CallNext(th, [pc |-> "isTicketInResell", t |-> t])
  BY <1>2 DEF BuyAddTicket
<1>5. ok = TRUE
  BY <1>4, StatementSucceeds DEF IInv
<1> DEFINE c == [pc |-> "isTicketInResell", t |-> t]
           row == [ticket_hash |-> TicketHash(t), info |-> t.seat,
                   used |-> FALSE, owner_id |-> t.buyerID]
<1>6. /\ c.pc = "isTicketInResell" /\ c.t = t
      /\ CallNext(th, c) /\ call'[th] = c
  BY <1>3, <1>4, <1>5, OtherCalls
  DEF IInv, TypeOK, addNewTicketSucceeds, InsertSucceeds
<1>7. TicketOf(row) = t /\ row.owner_id = t.buyerID /\ ~row.used
  BY DEF TicketOf, TicketHash, SHA256
<1>8. ticket' = [k \in DOMAIN ticket \cup {h0} |-> IF k = h0 THEN row ELSE ticket[k]]
  BY <1>3, <1>4, <1>5 DEF addNewTicket, Insert, InsertSucceeds
<1> HIDE DEF c, row
<1>9. /\ DOMAIN ticket' = DOMAIN ticket \cup {h0} /\ ticket'[h0] = row
      /\ \A k \in DOMAIN ticket : ticket'[k] = ticket[k]
  BY <1>3, <1>8
<1>10. TablesAgree(call[th]) /\ StillTrue(call[th])
  BY Before
<1>11. \A x : OldRows(c, x)' = RowsOf(x) /\ OldRows(call[th], x) = RowsOf(x)
  <2> TAKE x
  <2>1. RowsOf(x)' \ {h0} = RowsOf(x)
    BY <1>3, <1>9 DEF RowsOf, TicketOf
  <2>2. RowsOf(x) \ {h0} = RowsOf(x)
    BY <1>3 DEF RowsOf
  <2> QED
    BY <1>1, <1>2, <1>6, <2>1, <2>2
    DEF OldRows, SettlingSteps, BuyTail, ValCodeHash
<1>12. SerialInv'
  <2>1. TablesAgree(c)'
    <3>1. \A h \in DOMAIN ticket' : ticket'[h].owner_id = TicketOf(ticket'[h]).buyerID
      BY <1>7, <1>9, <1>10 DEF TablesAgree
    <3>2. id \notin DOMAIN ticket_info
      BY <1>1, <1>2, <1>10 DEF StillTrue, SettlingSteps
    <3>3. ASSUME NEW h \in DOMAIN ticket',
                 TicketOf(ticket'[h]).ticketID \in DOMAIN ticket_info'
          PROVE  h \in DOMAIN resell_tickets
      BY <1>1, <1>2, <1>7, <1>9, <1>10, <3>2, <3>3 DEF TablesAgree
    <3>4. ASSUME NEW h \in DOMAIN resell_tickets
          PROVE  /\ h \in DOMAIN ticket'
                 /\ resell_tickets[h] \in DOMAIN ticket_info \/ resell_tickets[h] = id
      BY <1>1, <1>2, <1>9, <1>10 DEF TablesAgree
    <3> QED
      BY <1>1, <1>2, <1>6, <1>10, <1>11, <3>1, <3>3, <3>4, OneOldRow
      DEF TablesAgree, TicketOf, SettlingSteps, BuyTail
  <2>2. StillTrue(c)'
    <3>1. /\ id \notin DOMAIN ticket_info'
          /\ OldRows(c, id)' \subseteq DOMAIN resell_tickets'
      BY <1>1, <1>2, <1>10, <1>11 DEF StillTrue, SettlingSteps, Purging
    <3>2. ~ticket'[h0].used
      BY <1>7, <1>9
    <3> QED
      BY <1>2, <1>6, <3>1, <3>2
      DEF StillTrue, SettlingSteps, BuyTail, Purging, Selling, ValCodeHash
  <2> QED
    BY <1>6, <2>1, <2>2, After DEF IInv
<1>13. marketPass' = marketPass
  <2>1. SettlingIds = {id} /\ SettlingIds' = {id}
    <3>1. Threads = {th}
      BY OneThread
    <3> QED
      BY <1>1, <1>2, <1>6, <3>1 DEF SettlingIds, Settling, SettlingSteps,
                                    BuyTail
  <2>2. HeldIds' = HeldIds \cup {id}
    BY <1>2, <1>3, <1>7, <1>9 DEF HeldIds, TicketOf
  <2>3. PassesSeen(th)
    BY PassIsSeen
  <2>4. ASSUME NEW h \in DOMAIN ticket',
               TicketOf(ticket'[h]).ticketID \notin SettlingIds'
        PROVE  marketPass[TicketOf(ticket'[h]).ticketID]
                 = PassOf(TicketOf(ticket'[h]), ticket'[h].used)
    <3>1. h \in DOMAIN ticket /\ ticket'[h] = ticket[h]
      BY <1>2, <1>7, <1>9, <2>1, <2>4
    <3> QED
      BY <2>1, <2>3, <2>4, <3>1 DEF PassesSeen
  <2> QED
    BY <1>1, <1>2, <1>6, <1>12, <2>1, <2>2, <2>4, SamePasses DEF SettlingSteps
<1>14. marketListing' = marketListing
  BY <1>1 DEF marketListing
<1>15. marketSpent' = marketSpent
  BY <1>1, <1>6, SpentSeen
<1> QED
  BY <1>12, <1>13, <1>14, <1>15 DEF Market!market

\* The purchase ends: its ticket is the one of the id.
LEMMA DeliverSerial ==
  ASSUME Serial, IInv, SerialInv, IInv', NEW th \in Threads,
         call[th].pc \in BuyTail, Deliver(th),
         UNCHANGED <<ticket_info, resell_tickets, generated>>,
         NEW id, id = call[th].t.ticketID,
         NEW h0, h0 = ValCodeHash(call[th].t),
         DOMAIN ticket' \subseteq DOMAIN ticket,
         \A h \in DOMAIN ticket' : ticket'[h] = ticket[h],
         h0 \in DOMAIN ticket',
         \A h \in DOMAIN ticket \ DOMAIN ticket' : TicketOf(ticket[h]).ticketID = id,
         \A h \in DOMAIN ticket' : TicketOf(ticket[h]).ticketID = id => h = h0,
         \A h \in DOMAIN resell_tickets : resell_tickets[h] # id
  PROVE  SerialInv' /\ UNCHANGED Market!market
<1>1. CallNext(th, Idle) /\ call'[th] = Idle /\ Idle.pc = "idle"
  BY ReturnIsNext, OtherCalls DEF Deliver, IInv, TypeOK, Idle
<1>2. TablesAgree(call[th]) /\ StillTrue(call[th])
  BY Before
<1>3. TicketOf(ticket[h0]) = call[th].t /\ ~ticket[h0].used
  BY OwnRow
<1>4. SerialInv'
  <2>1. ASSUME NEW x, NEW h \in OldRows(Idle, x)', NEW k \in OldRows(Idle, x)'
        PROVE  h = k
    <3>1. /\ h \in DOMAIN ticket' /\ k \in DOMAIN ticket'
          /\ TicketOf(ticket[h]).ticketID = x /\ TicketOf(ticket[k]).ticketID = x
      BY <2>1 DEF OldRows, RowsOf, TicketOf
    <3>2. CASE x = id
      BY <3>1, <3>2
    <3>3. CASE x # id
      <4>1. h # h0 /\ k # h0
        BY <1>3, <3>1, <3>3
      <4>2. h \in OldRows(call[th], x) /\ k \in OldRows(call[th], x)
        BY <3>1, <4>1 DEF OldRows, RowsOf
      <4> QED
        BY <1>2, <4>2, OneOldRow
    <3> QED
      BY <3>2, <3>3
  <2>2. \A h \in DOMAIN ticket' : ticket'[h].owner_id = TicketOf(ticket'[h]).buyerID
    BY <1>2 DEF TablesAgree, TicketOf
  <2>3. ASSUME NEW h \in DOMAIN ticket',
               TicketOf(ticket'[h]).ticketID \in DOMAIN ticket_info
        PROVE  h \in DOMAIN resell_tickets
    BY <1>2, <2>3 DEF TablesAgree, BuyTail
  <2>4. ASSUME NEW h \in DOMAIN resell_tickets
        PROVE  h \in DOMAIN ticket' /\ resell_tickets[h] \in DOMAIN ticket_info
    <3>1. h \in DOMAIN ticket /\ resell_tickets[h] \in DOMAIN ticket_info
      BY <1>2, <2>4 DEF TablesAgree
    <3>2. TicketOf(ticket[h]).ticketID = resell_tickets[h]
      BY <2>4, <3>1 DEF IInv, CodeInv, ResaleIsOfItsTicket
    <3> QED
      BY <2>4, <3>1, <3>2
  <2>5. TablesAgree(Idle)'
    BY <2>1, <2>2, <2>3, <2>4 DEF TablesAgree, TicketOf
  <2>6. StillTrue(Idle)'
    BY <1>1 DEF StillTrue, SettlingSteps, BuyTail, Selling
  <2> QED
    BY <1>1, <2>5, <2>6, After DEF IInv
<1>5. marketPass' = marketPass
  <2>1. SettlingIds = {id} /\ SettlingIds' = {}
    <3>1. Threads = {th}
      BY OneThread
    <3> QED
      BY <1>1, <3>1 DEF SettlingIds, Settling, SettlingSteps, BuyTail
  <2>2. HeldIds' = HeldIds \cup {id}
    BY <1>3 DEF HeldIds, TicketOf
  <2>3. PassesSeen(th)
    BY PassIsSeen
  <2>4. ASSUME NEW h \in DOMAIN ticket'
        PROVE  marketPass[TicketOf(ticket'[h]).ticketID]
                 = PassOf(TicketOf(ticket'[h]), ticket'[h].used)
    <3>1. CASE TicketOf(ticket[h]).ticketID = id
      <4>1. h = h0 /\ ticket'[h0] = ticket[h0]
        BY <3>1
      <4>2. ticket[h0].used = FALSE
        <5>1. ticket[h0] \in TicketRow
          BY DEF IInv, TypeOK
        <5>2. ticket[h0].used \in BOOLEAN
          BY <5>1 DEF TicketRow
        <5> QED
          BY <1>3, <5>2
      <4>3. marketPass[id] = PassOf(call[th].t, FALSE)
        BY <2>3 DEF PassesSeen, SettlingSteps
      <4> QED
        BY <1>3, <3>1, <4>1, <4>2, <4>3
    <3>2. CASE TicketOf(ticket[h]).ticketID # id
      <4>1. h \in DOMAIN ticket /\ ticket'[h] = ticket[h]
        OBVIOUS
      <4> QED
        BY <2>1, <2>3, <3>2, <4>1 DEF PassesSeen, TicketOf
    <3> QED
      BY <3>1, <3>2
  <2> QED
    BY <1>1, <1>4, <2>1, <2>2, <2>4, SamePasses DEF SettlingSteps, BuyTail
<1>6. marketListing' = marketListing
  BY DEF marketListing
<1>7. marketSpent' = marketSpent
  BY <1>1, SpentSeen DEF BuyTail
<1> QED
  BY <1>4, <1>5, <1>6, <1>7 DEF Market!market

\* A step within a purchase that only the rows on resale may notice.
LEMMA TailStep ==
  ASSUME Serial, IInv, SerialInv, IInv', NEW th \in Threads,
         call[th].pc \in BuyTail, NEW c, CallNext(th, c),
         c.pc \in BuyTail, c.t = call[th].t,
         UNCHANGED <<ticket_info, ticket, generated>>,
         DOMAIN resell_tickets' \subseteq DOMAIN resell_tickets,
         \A h \in DOMAIN resell_tickets' : resell_tickets'[h] = resell_tickets[h],
         \A h \in DOMAIN resell_tickets \ DOMAIN resell_tickets' :
           resell_tickets[h] = call[th].t.ticketID,
         \A h \in DOMAIN resell_tickets' :
           c.pc = "removeTicket" => resell_tickets[h] # call[th].t.ticketID,
         call[th].pc = "removeTicket" => c.pc = "removeTicket",
         OldRows(call[th], call[th].t.ticketID) \subseteq
           IF c.pc \in Purging THEN {c.old} ELSE DOMAIN resell_tickets'
  PROVE  SerialInv' /\ UNCHANGED Market!market
<1>1. call'[th] = c
  BY OtherCalls DEF IInv, TypeOK
<1>2. TablesAgree(call[th]) /\ StillTrue(call[th])
  BY Before
<1>3. PICK t, id : t = call[th].t /\ id = t.ticketID
  OBVIOUS
<1>4. \A x : OldRows(c, x)' = OldRows(call[th], x)
  BY <1>3 DEF OldRows, RowsOf, TicketOf, SettlingSteps, ValCodeHash
<1>5. TablesAgree(c)'
  <2>1. ASSUME NEW h \in DOMAIN ticket,
               TicketOf(ticket[h]).ticketID \in DOMAIN ticket_info
        PROVE  h \in DOMAIN resell_tickets'
    <3>1. h \in DOMAIN resell_tickets
      BY <1>2, <2>1 DEF TablesAgree, BuyTail
    <3>2. resell_tickets[h] = TicketOf(ticket[h]).ticketID
      BY <2>1, <3>1 DEF IInv, CodeInv, ResaleIsOfItsTicket
    <3>3. id \notin DOMAIN ticket_info
      BY <1>2, <1>3 DEF StillTrue, SettlingSteps
    <3> QED
      BY <1>3, <2>1, <3>1, <3>2, <3>3
  <2>2. ASSUME NEW h \in DOMAIN resell_tickets'
        PROVE  /\ h \in DOMAIN ticket
               /\ \/ resell_tickets'[h] \in DOMAIN ticket_info
                  \/ c.pc # "removeTicket" /\ id = resell_tickets'[h]
    BY <1>2, <1>3, <2>2 DEF TablesAgree
  <2> QED
    BY <1>2, <1>3, <1>4, <2>1, <2>2, OneOldRow DEF TablesAgree, TicketOf, SettlingSteps
<1>6. StillTrue(c)'
  <2>1. id \notin DOMAIN ticket_info
    BY <1>2, <1>3 DEF StillTrue, SettlingSteps
  <2>2. ~ticket[ValCodeHash(t)].used
    BY <1>3, OwnRow
  <2>3. OldRows(c, id)' \subseteq IF c.pc \in Purging THEN {c.old} ELSE DOMAIN resell_tickets'
    BY <1>3, <1>4
  <2> QED
    BY <1>3, <2>1, <2>2, <2>3
    DEF StillTrue, SettlingSteps, BuyTail, Selling, ValCodeHash
<1>7. SerialInv'
  BY <1>5, <1>6, After DEF IInv
<1>8. marketSpent' = marketSpent
  BY <1>1, SpentSeen DEF BuyTail
<1>9. SettlingIds' = SettlingIds
  <2>1. Threads = {th}
    BY OneThread
  <2> QED
    BY <1>1, <2>1 DEF SettlingIds, Settling, SettlingSteps
<1> QED
  BY <1>1, <1>7, <1>8, <1>9, Unseen DEF SettlingSteps

\* Only the buyer's row of the id is left unless the id is on resale.
LEMMA BuyIsResoldSerial ==
  ASSUME Serial, IInv, SerialInv, IInv', NEW th \in Threads, BuyIsResold(th)
  PROVE  SerialInv' /\ UNCHANGED Market!market
<1>1. /\ call[th].pc = "isTicketInResell" /\ call[th].pc \in BuyTail
      /\ ticket_info' = ticket_info /\ ticket' = ticket
      /\ resell_tickets' = resell_tickets /\ generated' = generated
  BY DEF BuyIsResold, BuyTail, tables, on_sale, starts
<1>2. PICK t, id, h0 : t = call[th].t /\ id = t.ticketID /\ h0 = ValCodeHash(t)
  OBVIOUS
<1>3. OldRows(call[th], id) \subseteq DOMAIN resell_tickets
  BY <1>1, <1>2, Before DEF StillTrue, SettlingSteps, Purging
<1>4. CASE CallNext(th, [pc |-> "getOldTicketValCodeHash", t |-> t])
  <2> DEFINE c == [pc |-> "getOldTicketValCodeHash", t |-> t]
  <2>1. c.pc = "getOldTicketValCodeHash" /\ c.t = t /\ CallNext(th, c)
    BY <1>4
  <2> HIDE DEF c
  <2>2. c.pc \in BuyTail /\ c.pc \notin Purging
    BY <2>1 DEF BuyTail, Purging
  <2> QED
    BY <1>1, <1>2, <1>3, <2>1, <2>2, TailStep
<1>5. CASE ResellRows(id) = {} /\ Deliver(th)
  <2>1. ASSUME NEW h \in DOMAIN ticket, TicketOf(ticket[h]).ticketID = id
        PROVE  h = h0
    <3> SUFFICES ASSUME h # h0 PROVE FALSE
      OBVIOUS
    <3>1. h \in OldRows(call[th], id)
      BY <1>1, <1>2, <2>1 DEF OldRows, RowsOf, SettlingSteps
    <3>2. h \in DOMAIN resell_tickets
      BY <1>3, <3>1
    <3>3. resell_tickets[h] = id
      BY <2>1, <3>2 DEF IInv, CodeInv, ResaleIsOfItsTicket
    <3> QED
      BY <1>5, <3>2, <3>3 DEF ResellRows
  <2>2. \A h \in DOMAIN resell_tickets : resell_tickets[h] # id
    BY <1>5 DEF ResellRows
  <2>3. h0 \in DOMAIN ticket
    BY <1>1, <1>2, OwnRow
  <2> QED
    BY <1>1, <1>2, <1>5, <2>1, <2>2, <2>3, DeliverSerial
<1>6. PICK ok \in BOOLEAN :
        /\ Statement(ok)
        /\ IF isTicketInResell(id, ok)
             THEN CallNext(th, [pc |-> "getOldTicketValCodeHash", t |-> t])
             ELSE Deliver(th)
  BY <1>2 DEF BuyIsResold
<1>7. ok = TRUE
  BY <1>6, StatementSucceeds DEF IInv
<1> QED
  BY <1>4, <1>5, <1>6, <1>7 DEF isTicketInResell

\* Whichever row the SELECT returns, it is the one other ticket of the id.
LEMMA BuyGetOldSerial ==
  ASSUME Serial, IInv, SerialInv, IInv', NEW th \in Threads, BuyGetOld(th)
  PROVE  SerialInv' /\ UNCHANGED Market!market
<1>1. /\ call[th].pc = "getOldTicketValCodeHash" /\ call[th].pc \in BuyTail
      /\ ticket_info' = ticket_info /\ ticket' = ticket
      /\ resell_tickets' = resell_tickets /\ generated' = generated
  BY DEF BuyGetOld, BuyTail, tables, history, on_sale, starts
<1>2. PICK t, id, h0 : t = call[th].t /\ id = t.ticketID /\ h0 = ValCodeHash(t)
  OBVIOUS
<1>3. PICK ok \in BOOLEAN :
        /\ Statement(ok)
        /\ \E old \in OldTicketValCodeHashes(id, ok) :
             CallNext(th, [pc |-> "removeTicketFromResell", t |-> t, old |-> old])
  BY <1>2 DEF BuyGetOld
<1>4. ok = TRUE
  BY <1>3, StatementSucceeds DEF IInv
<1>5. PICK old \in OldTicketValCodeHashes(id, TRUE) :
        CallNext(th, [pc |-> "removeTicketFromResell", t |-> t, old |-> old])
  BY <1>3, <1>4
<1> DEFINE c == [pc |-> "removeTicketFromResell", t |-> t, old |-> old]
<1>6. /\ c.pc = "removeTicketFromResell" /\ c.t = t /\ c.old = old
      /\ CallNext(th, c) /\ c.pc \in BuyTail /\ c.pc \in Purging
  BY <1>5 DEF BuyTail, Purging
<1> HIDE DEF c
<1>7. /\ OldRows(call[th], id) \subseteq DOMAIN resell_tickets
      /\ TablesAgree(call[th])
  BY <1>1, <1>2, Before DEF StillTrue, SettlingSteps, Purging
<1>8. ASSUME NEW k \in OldRows(call[th], id) PROVE k = old
  <2>1. k \in DOMAIN resell_tickets /\ k \in DOMAIN ticket
        /\ TicketOf(ticket[k]).ticketID = id
    BY <1>7, <1>8 DEF OldRows, RowsOf
  <2>2. resell_tickets[k] = id
    BY <2>1 DEF IInv, CodeInv, ResaleIsOfItsTicket
  <2>3. old \in DOMAIN resell_tickets /\ resell_tickets[old] = id
    BY <1>5, <2>1, <2>2 DEF OldTicketValCodeHashes, ResellRows
  <2>4. old \in DOMAIN ticket
    BY <1>7, <2>3 DEF TablesAgree
  <2>5. TicketOf(ticket[old]).ticketID = id
    BY <2>3, <2>4 DEF IInv, CodeInv, ResaleIsOfItsTicket
  <2>6. old # h0
    BY <1>1, <1>2, <2>3, OwnRow
  <2>7. old \in OldRows(call[th], id)
    BY <1>2, <2>4, <2>5, <2>6 DEF OldRows, RowsOf
  <2> QED
    BY <1>7, <1>8, <2>7, OneOldRow
<1>9. OldRows(call[th], id) \subseteq {c.old}
  BY <1>6, <1>8
<1> QED
  BY <1>1, <1>2, <1>6, <1>9, TailStep

\* The resale is over before the seller's ticket goes.
LEMMA BuyRemoveResellSerial ==
  ASSUME Serial, IInv, SerialInv, IInv', NEW th \in Threads, BuyRemoveResell(th)
  PROVE  SerialInv' /\ UNCHANGED Market!market
<1>1. /\ call[th].pc = "removeTicketFromResell" /\ call[th].pc \in BuyTail
      /\ call[th].pc \in Purging
      /\ ticket_info' = ticket_info /\ ticket' = ticket /\ generated' = generated
  BY DEF BuyRemoveResell, BuyTail, Purging, history, on_sale, starts
<1>2. PICK t, id, old : t = call[th].t /\ id = t.ticketID /\ old = call[th].old
  OBVIOUS
<1>3. PICK ok \in BOOLEAN : Statement(ok) /\ removeTicketFromResell(id, ok)
  BY <1>2 DEF BuyRemoveResell
<1>4. ok = TRUE
  BY <1>3, StatementSucceeds DEF IInv
<1>5. resell_tickets' = Delete(resell_tickets, ResellRows(id))
  BY <1>3, <1>4 DEF removeTicketFromResell
<1>6. /\ DOMAIN resell_tickets' = DOMAIN resell_tickets \ ResellRows(id)
      /\ \A h \in DOMAIN resell_tickets' : resell_tickets'[h] = resell_tickets[h]
  BY <1>5 DEF Delete
<1>7. /\ \A h \in DOMAIN resell_tickets' : resell_tickets[h] # id
      /\ \A h \in DOMAIN resell_tickets \ DOMAIN resell_tickets' :
           resell_tickets[h] = id
  BY <1>6 DEF ResellRows
<1> DEFINE c == [pc |-> "removeTicket", t |-> t, old |-> old]
<1>8. /\ c.pc = "removeTicket" /\ c.t = t /\ c.old = old
      /\ CallNext(th, c) /\ c.pc \in BuyTail /\ c.pc \in Purging
  BY <1>2 DEF BuyRemoveResell, BuyTail, Purging
<1> HIDE DEF c
<1>9. OldRows(call[th], id) \subseteq {c.old}
  BY <1>1, <1>2, <1>8, Before DEF StillTrue, SettlingSteps
<1> QED
  BY <1>1, <1>2, <1>6, <1>7, <1>8, <1>9, TailStep

\* The seller's ticket goes.
LEMMA BuyRemoveOldSerial ==
  ASSUME Serial, IInv, SerialInv, IInv', NEW th \in Threads, BuyRemoveOld(th)
  PROVE  SerialInv' /\ UNCHANGED Market!market
<1>1. /\ call[th].pc = "removeTicket" /\ call[th].pc \in BuyTail
      /\ call[th].pc \in Purging /\ Deliver(th)
      /\ UNCHANGED <<ticket_info, resell_tickets, generated>>
  BY DEF BuyRemoveOld, BuyTail, Purging, on_sale, starts
<1>2. PICK t, id, h0, old : /\ t = call[th].t /\ id = t.ticketID
                            /\ h0 = ValCodeHash(t) /\ old = call[th].old
  OBVIOUS
<1>3. PICK ok \in BOOLEAN : Statement(ok) /\ removeTicket(old, ok)
  BY <1>2 DEF BuyRemoveOld
<1>4. ok = TRUE
  BY <1>3, StatementSucceeds DEF IInv
<1>5. /\ DOMAIN ticket' = DOMAIN ticket \ {old}
      /\ \A h \in DOMAIN ticket' : ticket'[h] = ticket[h]
  BY <1>3, <1>4 DEF removeTicket, Delete
<1>6. h0 \in DOMAIN ticket'
  BY <1>1, <1>2, <1>5 DEF IInv, CodeInv, PendingIsStored
<1>7. \A h \in DOMAIN ticket \ DOMAIN ticket' : TicketOf(ticket[h]).ticketID = id
  BY <1>1, <1>2, <1>5 DEF IInv, CodeInv, ResaleIsOfItsTicket
<1>8. ASSUME NEW h \in DOMAIN ticket', TicketOf(ticket[h]).ticketID = id
      PROVE  h = h0
  <2>1. OldRows(call[th], id) \subseteq {old}
    BY <1>1, <1>2, Before DEF StillTrue, SettlingSteps
  <2>2. h # h0 => h \in OldRows(call[th], id)
    BY <1>2, <1>5, <1>8 DEF OldRows, RowsOf
  <2> QED
    BY <1>5, <2>1, <2>2
<1>9. \A h \in DOMAIN resell_tickets : resell_tickets[h] # id
  <2>1. id \notin DOMAIN ticket_info
    BY <1>1, <1>2, Before DEF StillTrue, SettlingSteps
  <2> QED
    BY <1>1, <2>1, Before DEF TablesAgree
<1>10. DOMAIN ticket' \subseteq DOMAIN ticket
  BY <1>5
<1> QED
  BY <1>1, <1>2, <1>5, <1>6, <1>7, <1>8, <1>9, <1>10, DeliverSerial

-----------------------------------------------------------------------------
(***************************************************************************)
(* The resale and the admission.                                           *)
(***************************************************************************)

\* The INSERT of addTicketInfo, in the tables.  c is the call after it.
LEMMA SellListSerial ==
  ASSUME Serial, IInv, SerialInv, NEW th \in Threads,
         call[th].pc = "addTicketInfo", NEW t, t = call[th].t,
         NEW row, t.ticketID \notin DOMAIN ticket_info,
         ticket_info' = [x \in DOMAIN ticket_info \cup {t.ticketID} |->
                           IF x = t.ticketID THEN row ELSE ticket_info[x]],
         UNCHANGED <<ticket, resell_tickets>>,
         CallNext(th, [pc |-> "addTicketToResell", t |-> t])
  PROVE  SerialInv' /\ call'[th].pc = "addTicketToResell"
<1> DEFINE c == [pc |-> "addTicketToResell", t |-> t]
<1>1. /\ c.pc = "addTicketToResell" /\ c.t = t
      /\ CallNext(th, c) /\ call'[th] = c
  BY OtherCalls DEF IInv, TypeOK
<1> HIDE DEF c
<1>2. PICK id, h : id = t.ticketID /\ h = ValCodeHash(t)
  OBVIOUS
<1>3. TablesAgree(call[th]) /\ StillTrue(call[th]) /\ t \in Ticket
  BY Before, CallType DEF Selling
<1>4. h \in DOMAIN ticket /\ TicketOf(ticket[h]) = t
  BY <1>2, <1>3 DEF StillTrue, Selling, IInv, CodeInv, ResaleIsOfItsTicket
<1>5. \A x : OldRows(call[th], x) = RowsOf(x) /\ OldRows(c, x)' = RowsOf(x)
  BY <1>1 DEF OldRows, RowsOf, TicketOf, SettlingSteps, BuyTail
<1>6. DOMAIN ticket_info' = DOMAIN ticket_info \cup {id}
  BY <1>2
<1>7. ASSUME NEW k \in DOMAIN ticket,
             TicketOf(ticket[k]).ticketID \in DOMAIN ticket_info'
      PROVE  k \in DOMAIN resell_tickets \/ k = h
  <2>1. CASE TicketOf(ticket[k]).ticketID \in DOMAIN ticket_info
    BY <1>3, <2>1 DEF TablesAgree
  <2>2. CASE TicketOf(ticket[k]).ticketID = id
    <3>1. k \in RowsOf(id) /\ h \in RowsOf(id)
      BY <1>2, <1>4, <2>2 DEF RowsOf
    <3> QED
      BY <1>3, <1>4, <1>5, <3>1, OneOldRow DEF TablesAgree
  <2> QED
    BY <1>6, <1>7, <2>1, <2>2
<1>8. \A k \in DOMAIN resell_tickets :
        k \in DOMAIN ticket /\ resell_tickets[k] \in DOMAIN ticket_info'
  BY <1>3, <1>6 DEF TablesAgree, SettlingSteps, BuyTail
<1>9. TablesAgree(c)'
  BY <1>1, <1>2, <1>3, <1>5, <1>7, <1>8, OneOldRow DEF TablesAgree, TicketOf
<1>10. StillTrue(c)'
  BY <1>1, <1>2, <1>4, <1>6
  DEF StillTrue, SettlingSteps, BuyTail, Selling, ValCodeHash
<1> QED
  BY <1>1, <1>9, <1>10, After DEF IInv

\* An id is offered by the owner of its pass, for no more than was paid; or
\* it is on sale already and nothing happens.
LEMMA SellListResells ==
  ASSUME Serial, IInv, SerialInv, IInv', NEW th \in Threads, SellList(th)
  PROVE  SerialInv' /\ (Market!Next \/ UNCHANGED Market!market)
<1>1. /\ call[th].pc = "addTicketInfo"
      /\ ticket' = ticket /\ resell_tickets' = resell_tickets
      /\ generated' = generated
  BY DEF SellList, history, starts
<1>2. PICK t, id, price, h :
        /\ t = call[th].t /\ id = t.ticketID /\ h = ValCodeHash(t)
        /\ price = call[th].newPrice
  OBVIOUS
<1>3. PICK row : row = [eventID |-> t.eventID, sellerID |-> t.buyerID,
                        price |-> price, seat |-> t.seat]
  OBVIOUS
<1>4. PICK ok \in BOOLEAN :
        /\ Statement(ok)
        /\ addTicketInfo(id, row, ok)
        /\ IF addTicketInfoSucceeds(id, ok)
             THEN CallNext(th, [pc |-> "addTicketToResell", t |-> t])
             ELSE Return(th)
  BY <1>2, <1>3 DEF SellList
<1>5. ok = TRUE
  BY <1>4, StatementSucceeds DEF IInv
<1>6. CASE id \in DOMAIN ticket_info
  <2>1. /\ ticket_info' = ticket_info /\ next_id' = next_id
        /\ Return(th)
    BY <1>4, <1>5, <1>6 DEF addTicketInfo, addTicketInfoSucceeds, Insert,
                            InsertSucceeds
  <2>2. CallNext(th, Idle) /\ call'[th] = Idle /\ Idle.pc = "idle"
    BY <2>1, ReturnIsNext, OtherCalls DEF IInv, TypeOK, Idle
  <2>3. UNCHANGED tables
    BY <1>1, <2>1 DEF tables, on_sale
  <2>4. TablesAgree(Idle)' /\ StillTrue(Idle)'
    BY <1>1, <2>2, <2>3, QuietTables DEF SettlingSteps, BuyTail, StillTrue,
                                         Selling
  <2>5. SerialInv'
    BY <2>2, <2>4, After DEF IInv
  <2> QED
    BY <1>1, <2>2, <2>3, <2>5, SpentSeen, QuietUnseen DEF SettlingSteps,
                                                          BuyTail
<1>7. CASE id \notin DOMAIN ticket_info
  <2>1. /\ ticket_info' = [x \in DOMAIN ticket_info \cup {id} |->
                             IF x = id THEN row ELSE ticket_info[x]]
        /\ CallNext(th, [pc |-> "addTicketToResell", t |-> t])
    BY <1>4, <1>5, <1>7
    DEF addTicketInfo, addTicketInfoSucceeds, Insert, InsertSucceeds
  <2>2. SerialInv' /\ call'[th].pc = "addTicketToResell"
    BY <1>1, <1>2, <1>7, <2>1, SellListSerial
  <2>3. /\ t \in Ticket /\ price \in Nat /\ price <= t.price
    <3>1. call[th].pc \in Selling
      BY <1>1 DEF Selling
    <3>2. t \in Ticket /\ price \in Nat
      BY <1>1, <1>2, <3>1, Before, CallType
    <3> QED
      BY <1>1, <1>2, <3>2 DEF IInv, FaceValueInv
  <2>4. h \in DOMAIN ticket /\ TicketOf(ticket[h]) = t
    BY <1>1, <1>2, Before
    DEF StillTrue, Selling, IInv, CodeInv, ResaleIsOfItsTicket
  <2>5. /\ PassesSeen(th) /\ SettlingIds = {} /\ SettlingIds' = {}
        /\ HeldIds' = HeldIds
    <3>1. Threads = {th}
      BY OneThread
    <3> QED
      BY <1>1, <2>2, <3>1, PassIsSeen
      DEF SettlingIds, Settling, SettlingSteps, BuyTail, HeldIds, TicketOf
  <2>6. /\ id \in DOMAIN marketPass
        /\ marketPass[id].owner = t.buyerID /\ marketPass[id].price = t.price
    <3>1. id \in HeldIds
      BY <1>2, <2>4 DEF HeldIds
    <3>2. marketPass[id] = PassOf(t, ticket[h].used)
      BY <1>2, <2>4, <2>5 DEF PassesSeen
    <3> QED
      BY <2>5, <3>1, <3>2, PassFields DEF PassesSeen
  <2>7. DOMAIN marketListing = DOMAIN ticket_info
    BY DEF marketListing
  <2>8. marketListing' = Market!With(marketListing, id,
                           [price |-> price, seller |-> marketPass[id].owner])
    <3>1. PICK offer : offer = [price |-> price, seller |-> marketPass[id].owner]
      OBVIOUS
    <3>2. row.price = price /\ row.sellerID = t.buyerID
      BY <1>3
    <3>3. offer = [price |-> row.price, seller |-> row.sellerID]
      BY <2>6, <3>1, <3>2
    <3>4. marketListing' = [x \in DOMAIN ticket_info \cup {id} |->
                              [price |-> ticket_info'[x].price,
                               seller |-> ticket_info'[x].sellerID]]
      BY <2>1 DEF marketListing
    <3>5. \A x \in DOMAIN ticket_info \cup {id} :
            [price |-> ticket_info'[x].price, seller |-> ticket_info'[x].sellerID]
              = IF x = id THEN offer ELSE marketListing[x]
      BY <2>1, <3>3 DEF marketListing
    <3>6. marketListing' = Market!With(marketListing, id, offer)
      BY <2>7, <3>4, <3>5 DEF Market!With
    <3> QED
      BY <3>1, <3>6
  <2>9. marketPass' = marketPass
    <3>1. \A k \in DOMAIN ticket' :
            TicketOf(ticket'[k]).ticketID \notin SettlingIds' =>
              marketPass[TicketOf(ticket'[k]).ticketID]
                = PassOf(TicketOf(ticket'[k]), ticket'[k].used)
      BY <1>1, <2>5 DEF PassesSeen
    <3> QED
      BY <2>2, <2>5, <3>1, SamePasses DEF SettlingSteps, BuyTail
  <2>10. marketSpent' = marketSpent
    BY <1>1, <2>2, SpentSeen
  <2>11. 0 <= price /\ price <= marketPass[id].price
    BY <2>3, <2>6
  <2>12. Market!Resell(id, price)
    BY <1>7, <2>6, <2>7, <2>8, <2>9, <2>10, <2>11 DEF Market!Resell
  <2>13. price \in 0 .. marketPass[id].price
    <3>1. t.price \in Nat
      BY <2>3 DEF Ticket
    <3> QED
      BY <2>3, <2>6, <3>1
  <2> QED
    BY <2>2, <2>6, <2>12, <2>13 DEF Market!Next
<1> QED
  BY <1>6, <1>7

\* The resale is written down; the market has seen it.
LEMMA SellMarkResellSerial ==
  ASSUME Serial, IInv, SerialInv, IInv', NEW th \in Threads, SellMarkResell(th)
  PROVE  SerialInv' /\ UNCHANGED Market!market
<1>1. /\ call[th].pc = "addTicketToResell"
      /\ ticket_info' = ticket_info /\ ticket' = ticket /\ generated' = generated
      /\ CallNext(th, Idle) /\ call'[th] = Idle /\ Idle.pc = "idle"
  BY ReturnIsNext, OtherCalls DEF SellMarkResell, history, IInv, TypeOK,
                                  Idle, on_sale, starts
<1>2. PICK t, id, h : t = call[th].t /\ id = t.ticketID /\ h = ValCodeHash(t)
  OBVIOUS
<1>3. PICK ok \in BOOLEAN : Statement(ok) /\ addTicketToResell(h, id, ok)
  BY <1>2 DEF SellMarkResell
<1>4. ok = TRUE
  BY <1>3, StatementSucceeds DEF IInv
<1>5. /\ DOMAIN resell_tickets' = DOMAIN resell_tickets \cup {h}
      /\ \A k \in DOMAIN resell_tickets : resell_tickets'[k] = resell_tickets[k]
      /\ h \notin DOMAIN resell_tickets => resell_tickets'[h] = id
  BY <1>3, <1>4 DEF addTicketToResell, Insert, InsertSucceeds
<1>6. TablesAgree(call[th]) /\ StillTrue(call[th])
  BY Before
<1>7. h \in DOMAIN ticket /\ id \in DOMAIN ticket_info
  BY <1>1, <1>2, <1>6 DEF StillTrue, Selling
<1>8. \A x : OldRows(call[th], x) = RowsOf(x) /\ OldRows(Idle, x)' = RowsOf(x)
  BY <1>1 DEF OldRows, RowsOf, TicketOf, SettlingSteps, BuyTail
<1>9. \A k \in DOMAIN ticket :
        TicketOf(ticket[k]).ticketID \in DOMAIN ticket_info
          => k \in DOMAIN resell_tickets'
  BY <1>2, <1>5, <1>6 DEF TablesAgree
<1>10. ASSUME NEW k \in DOMAIN resell_tickets'
       PROVE  k \in DOMAIN ticket /\ resell_tickets'[k] \in DOMAIN ticket_info
  <2>1. \A x \in DOMAIN resell_tickets :
          x \in DOMAIN ticket /\ resell_tickets[x] \in DOMAIN ticket_info
    BY <1>1, <1>6 DEF TablesAgree, SettlingSteps, BuyTail
  <2> QED
    BY <1>5, <1>7, <1>10, <2>1
<1>11. TablesAgree(Idle)'
  BY <1>1, <1>6, <1>8, <1>9, <1>10, OneOldRow DEF TablesAgree, TicketOf
<1>12. StillTrue(Idle)'
  BY <1>1 DEF StillTrue, SettlingSteps, BuyTail, Selling
<1>13. SerialInv'
  BY <1>1, <1>11, <1>12, After DEF IInv
<1>14. SettlingIds = {} /\ SettlingIds' = {}
  <2>1. Threads = {th}
    BY OneThread
  <2> QED
    BY <1>1, <2>1 DEF SettlingIds, Settling, SettlingSteps, BuyTail
<1>15. marketSpent' = marketSpent
  BY <1>1, SpentSeen
<1> QED
  BY <1>1, <1>13, <1>14, <1>15, Unseen DEF SettlingSteps, BuyTail

\* The UPDATE, in the tables.
LEMMA ValidateMarkSerial ==
  ASSUME Serial, IInv, SerialInv, NEW th \in Threads, ValidateMark(th),
         NEW h, h = SHA256(call[th].code)
  PROVE  /\ SerialInv' /\ call'[th].pc = "idle"
         /\ call[th].pc = "setTicketInUse"
         /\ h \in DOMAIN ticket /\ ~ticket[h].used
         /\ DOMAIN ticket' = DOMAIN ticket
         /\ \A k \in DOMAIN ticket :
              /\ TicketOf(ticket'[k]) = TicketOf(ticket[k])
              /\ ticket'[k].owner_id = ticket[k].owner_id
         /\ \A k \in DOMAIN ticket \ {h} : ticket'[k] = ticket[k]
         /\ ticket'[h].used = TRUE
<1>1. /\ call[th].pc = "setTicketInUse"
      /\ ticket_info' = ticket_info /\ resell_tickets' = resell_tickets
      /\ CallNext(th, Idle) /\ call'[th] = Idle /\ Idle.pc = "idle"
  BY ReturnIsNext, OtherCalls DEF ValidateMark, IInv, TypeOK, Idle, on_sale, starts
<1>2. TablesAgree(call[th]) /\ StillTrue(call[th])
  BY Before
<1>3. h \in DOMAIN ticket /\ ~ticket[h].used
  BY <1>1, <1>2 DEF StillTrue
<1>4. PICK ok \in BOOLEAN : Statement(ok) /\ setTicketInUse(h, ok)
  BY DEF ValidateMark
<1>5. ok = TRUE
  BY <1>4, StatementSucceeds DEF IInv
<1>6. ticket' = [ticket EXCEPT ![h].used = TRUE]
  BY <1>3, <1>4, <1>5 DEF setTicketInUse
<1>7. ticket[h] \in TicketRow
  BY <1>3 DEF IInv, TypeOK
<1>8. /\ DOMAIN ticket' = DOMAIN ticket
      /\ \A k \in DOMAIN ticket \ {h} : ticket'[k] = ticket[k]
      /\ ticket'[h].used = TRUE
      /\ ticket'[h].owner_id = ticket[h].owner_id
      /\ ticket'[h].ticket_hash = ticket[h].ticket_hash
  BY <1>3, <1>6, <1>7 DEF TicketRow
<1>9. \A k \in DOMAIN ticket :
        /\ TicketOf(ticket'[k]) = TicketOf(ticket[k])
        /\ ticket'[k].owner_id = ticket[k].owner_id
  BY <1>8 DEF TicketOf
<1>10. \A x : OldRows(call[th], x) = RowsOf(x) /\ OldRows(Idle, x)' = RowsOf(x)
  <2> TAKE x
  <2>1. RowsOf(x)' = RowsOf(x)
    BY <1>8, <1>9 DEF RowsOf
  <2> QED
    BY <1>1, <2>1 DEF OldRows, SettlingSteps, BuyTail
<1>11. TablesAgree(Idle)'
  <2>1. \A k \in DOMAIN ticket' :
          TicketOf(ticket'[k]).ticketID \in DOMAIN ticket_info
            => k \in DOMAIN resell_tickets
    BY <1>1, <1>2, <1>8, <1>9 DEF TablesAgree
  <2>2. \A k \in DOMAIN resell_tickets :
          k \in DOMAIN ticket' /\ resell_tickets[k] \in DOMAIN ticket_info
    BY <1>1, <1>2, <1>8 DEF TablesAgree, SettlingSteps, BuyTail
  <2>3. \A k \in DOMAIN ticket' : ticket'[k].owner_id = TicketOf(ticket'[k]).buyerID
    BY <1>2, <1>8, <1>9 DEF TablesAgree
  <2> QED
    BY <1>1, <1>2, <1>10, <2>1, <2>2, <2>3, OneOldRow DEF TablesAgree
<1>12. StillTrue(Idle)'
  BY <1>1 DEF StillTrue, SettlingSteps, BuyTail, Selling
<1> QED
  BY <1>1, <1>3, <1>8, <1>9, <1>11, <1>12, After DEF IInv

\* The same step in the market: the pass opens the door.
LEMMA ValidateMarkAdmits ==
  ASSUME Serial, IInv, SerialInv, IInv', NEW th \in Threads, ValidateMark(th)
  PROVE  Market!Next
<1>1. PICK h : h = SHA256(call[th].code)
  OBVIOUS
<1>2. PICK t, id : t = TicketOf(ticket[h]) /\ id = t.ticketID
  OBVIOUS
<1>3. /\ SerialInv' /\ call'[th].pc = "idle"
      /\ call[th].pc = "setTicketInUse"
      /\ h \in DOMAIN ticket /\ ~ticket[h].used
      /\ DOMAIN ticket' = DOMAIN ticket
      /\ \A k \in DOMAIN ticket :
           TicketOf(ticket'[k]) = TicketOf(ticket[k])
      /\ \A k \in DOMAIN ticket \ {h} : ticket'[k] = ticket[k]
      /\ ticket'[h].used = TRUE
  BY <1>1, ValidateMarkSerial
<1>4. /\ PassesSeen(th) /\ SettlingIds = {} /\ SettlingIds' = {}
  <2>1. Threads = {th}
    BY OneThread
  <2> QED
    BY <1>3, <2>1, PassIsSeen DEF SettlingIds, Settling, SettlingSteps, BuyTail
<1>5. HeldIds' = HeldIds /\ id \in HeldIds
  BY <1>2, <1>3 DEF HeldIds
<1>6. ASSUME NEW k \in DOMAIN ticket, TicketOf(ticket[k]).ticketID = id
      PROVE  k = h
  <2>1. k \in OldRows(call[th], id) /\ h \in OldRows(call[th], id)
    BY <1>2, <1>3, <1>6 DEF OldRows, RowsOf, SettlingSteps, BuyTail
  <2> QED
    BY <2>1, Before, OneOldRow
<1>7. ticket[h].used = FALSE
  <2>1. ticket[h] \in TicketRow
    BY <1>3 DEF IInv, TypeOK
  <2>2. ticket[h].used \in BOOLEAN
    BY <2>1 DEF TicketRow
  <2> QED
    BY <1>3, <2>2
<1>8. /\ marketPass[id] = PassOf(t, FALSE)
      /\ DOMAIN marketPass = HeldIds
  <2>1. marketPass[id] = PassOf(t, ticket[h].used)
    BY <1>2, <1>3, <1>4 DEF PassesSeen
  <2> QED
    BY <1>4, <1>7, <2>1 DEF PassesSeen
<1>9. PICK f : f = [marketPass EXCEPT ![id].used = TRUE]
  OBVIOUS
<1>10. f[id] = PassOf(t, TRUE)
  <2>1. marketPass[id] \in [code : Codes, owner : Users, price : Nat, used : BOOLEAN]
    <3>1. t \in Ticket
      BY <1>2, <1>3, Before
    <3> QED
      BY <1>8, <3>1 DEF PassOf, Ticket
  <2>2. /\ f[id] \in [code : Codes, owner : Users, price : Nat, used : BOOLEAN]
        /\ f[id].code = marketPass[id].code
        /\ f[id].owner = marketPass[id].owner
        /\ f[id].price = marketPass[id].price
        /\ f[id].used = TRUE
    BY <1>5, <1>8, <1>9, <2>1
  <2>3. /\ marketPass[id].code = t.validationCode
        /\ marketPass[id].owner = t.buyerID /\ marketPass[id].price = t.price
    BY <1>8 DEF PassOf
  <2> QED
    BY <2>2, <2>3 DEF PassOf
<1>11. /\ f = [x \in HeldIds |-> f[x]]
       /\ \A x \in HeldIds : x # id => f[x] = marketPass[x]
  BY <1>5, <1>8, <1>9
<1>12. PICK S : f \in [HeldIds' \cup SettlingIds' -> S]
  <2>1. f \in [HeldIds -> {f[x] : x \in HeldIds}]
    BY <1>11
  <2> QED
    BY <1>4, <1>5, <2>1
<1>13. ASSUME NEW k \in DOMAIN ticket'
       PROVE  f[TicketOf(ticket'[k]).ticketID]
                = PassOf(TicketOf(ticket'[k]), ticket'[k].used)
  <2>1. TicketOf(ticket'[k]) = TicketOf(ticket[k]) /\ k \in DOMAIN ticket
    BY <1>3
  <2>2. CASE k = h
    BY <1>2, <1>3, <1>10, <2>1, <2>2
  <2>3. CASE k # h
    <3>1. TicketOf(ticket[k]).ticketID # id
      BY <1>6, <2>1, <2>3
    <3>2. TicketOf(ticket[k]).ticketID \in HeldIds
      BY <2>1 DEF HeldIds
    <3>3. marketPass[TicketOf(ticket[k]).ticketID]
            = PassOf(TicketOf(ticket[k]), ticket[k].used)
      BY <1>4, <2>1 DEF PassesSeen
    <3> QED
      BY <1>3, <1>11, <2>1, <2>3, <3>1, <3>2, <3>3
  <2> QED
    BY <2>2, <2>3
<1>14. marketPass' = f
  <2>1. SerialInv' /\ call'[th].pc \notin SettlingSteps
    BY <1>3 DEF SettlingSteps, BuyTail
  <2>2. \A k \in DOMAIN ticket' :
          TicketOf(ticket'[k]).ticketID \notin SettlingIds' =>
            f[TicketOf(ticket'[k]).ticketID]
              = PassOf(TicketOf(ticket'[k]), ticket'[k].used)
    BY <1>13
  <2> QED
    BY <1>12, <2>1, <2>2, PassesAre
<1>15. marketListing' = marketListing
  BY DEF marketListing, ValidateMark, on_sale, starts
<1>16. marketSpent' = marketSpent
  BY <1>3, SpentSeen DEF ValidateMark
<1>17. ~marketPass[id].used
  BY <1>8, PassFields
<1>18. Market!Admit(id)
  BY <1>5, <1>8, <1>9, <1>14, <1>15, <1>16, <1>17 DEF Market!Admit
<1> QED
  BY <1>5, <1>8, <1>18 DEF Market!Next

-----------------------------------------------------------------------------
(***************************************************************************)
(* The refinement.                                                         *)
(***************************************************************************)

LEMMA InitSerial ==
  ASSUME Serial, Init
  PROVE  SerialInv /\ Market!Init
<1>1. /\ DOMAIN ticket = {} /\ DOMAIN resell_tickets = {}
      /\ \A th \in Threads : call[th] = Idle /\ Idle.pc = "idle"
      /\ generated = {}
  BY DEF Init, Idle
<1>2. SerialInv
  BY <1>1 DEF SerialInv, TablesAgree, StillTrue, OldRows, RowsOf,
              SettlingSteps, BuyTail, Selling
<1>3. marketSpent = {}
  BY <1>1 DEF marketSpent
<1>4. marketPass = << >>
  <2>1. HeldIds \cup SettlingIds = {}
    BY <1>1 DEF HeldIds, SettlingIds, Settling, SettlingSteps, BuyTail
  <2> QED
    BY <2>1 DEF marketPass
<1>5. PICK price \in [1 .. CatalogueSize -> Prices] :
        /\ DOMAIN ticket_info = 1 .. CatalogueSize
        /\ \A id \in 1 .. CatalogueSize :
             ticket_info[id].price = price[id] /\ ticket_info[id].sellerID = NoSeller
  <2>1. PICK k \in 0 .. CatalogueSize :
          /\ ticket_info \in Listings(1, k)
          /\ faults = IF k = CatalogueSize THEN 0 ELSE 1
    BY DEF Init
  <2>2. k = CatalogueSize
    BY <2>1 DEF Init, Serial
  <2> QED
    BY <2>1, <2>2, CatalogueSizeType DEF Listings
<1>6. marketListing = Market!Opening(price)
  BY <1>5 DEF marketListing, Market!Opening
<1> QED
  BY <1>2, <1>3, <1>4, <1>5, <1>6 DEF Market!Init

\* Every step of a thread, one case for each action.
LEMMA ThreadStep ==
  ASSUME Serial, IInv, SerialInv, IInv', NEW th \in Threads,
         Buy(th) \/ Sell(th) \/ Validate(th) \/ Continue(th)
  PROVE  SerialInv' /\ (Market!Next \/ UNCHANGED Market!market)
<1>1. CASE Buy(th)
  BY <1>1, BuyCountOwnedSerial DEF Buy
<1>2. CASE Sell(th)
  BY <1>2, SellCheckSerial DEF Sell
<1>3. CASE Validate(th)
  BY <1>3, ValidateCheckSerial DEF Validate
<1>4. CASE BuyLookUp(th)
  BY <1>4, BuyLookUpSerial
<1>5. CASE BuyTakeOffSale(th)
  BY <1>5, BuyTakeOffSaleSerial, BuyTakeOffSaleBuys
<1>6. CASE BuyAddTicket(th)
  BY <1>6, BuyAddTicketSerial
<1>7. CASE BuyIsResold(th)
  BY <1>7, BuyIsResoldSerial
<1>8. CASE BuyGetOld(th)
  BY <1>8, BuyGetOldSerial
<1>9. CASE BuyRemoveResell(th)
  BY <1>9, BuyRemoveResellSerial
<1>10. CASE BuyRemoveOld(th)
  BY <1>10, BuyRemoveOldSerial
<1>11. CASE SellList(th)
  BY <1>11, SellListResells
<1>12. CASE SellMarkResell(th)
  BY <1>12, SellMarkResellSerial
<1>13. CASE ValidateMark(th)
  BY <1>13, ValidateMarkSerial, ValidateMarkAdmits
<1> QED
  BY <1>1, <1>2, <1>3, <1>4, <1>5, <1>6, <1>7, <1>8, <1>9, <1>10, <1>11, <1>12,
     <1>13 DEF Continue

\* Nothing happens.
LEMMA StutterSerial ==
  ASSUME Serial, IInv, SerialInv, IInv', UNCHANGED vars
  PROVE  SerialInv' /\ UNCHANGED Market!market
<1>1. /\ UNCHANGED <<ticket_info, ticket, resell_tickets>>
      /\ call' = call /\ generated' = generated
  BY DEF vars, tables, history, on_sale, starts
<1>2. SerialInv'
  <2>1. SUFFICES ASSUME NEW th \in Threads, NEW c, c = call[th]
                 PROVE  TablesAgree(c)' /\ StillTrue(c)'
    BY <1>1 DEF SerialInv
  <2>2. TablesAgree(c) /\ StillTrue(c)
    BY <2>1 DEF SerialInv
  <2>3. /\ \A x : OldRows(c, x)' = OldRows(c, x)
        /\ \A user : OwnedBy(user)' = OwnedBy(user)
    BY <1>1 DEF OldRows, RowsOf, TicketOf, OwnedBy
  <2>4. TablesAgree(c)'
    BY <1>1, <2>2, <2>3, OneOldRow DEF TablesAgree, TicketOf
  <2>5. Cardinality(OwnedBy(c.user))' = Cardinality(OwnedBy(c.user))
        /\ Cardinality(OwnedBy(c.t.buyerID))' = Cardinality(OwnedBy(c.t.buyerID))
    BY <2>3
  <2>6. StillTrue(c)'
    BY <1>1, <2>2, <2>3, <2>5 DEF StillTrue
  <2> QED
    BY <2>4, <2>6
<1>3. SettlingIds' = SettlingIds
  BY <1>1 DEF SettlingIds, Settling
<1>4. marketSpent' = marketSpent
  BY <1>1 DEF marketSpent, AtCall
<1>5. PICK th : th \in Threads
  BY ServiceAssumption
<1> QED
  BY <1>1, <1>2, <1>3, <1>4, <1>5, Unseen

\* The simulation.
LEMMA SerialStep ==
  ASSUME Serial, IInv, SerialInv, IInv', [Next]_vars
  PROVE  SerialInv' /\ [Market!Next]_(Market!market)
<1>1. CASE UNCHANGED vars
  BY <1>1, StutterSerial
<1>2. CASE Next
  <2>1. ~Restart
    BY DEF Restart, Serial, IInv, TypeOK
  <2>2. PICK th \in Threads : Buy(th) \/ Sell(th) \/ Validate(th) \/ Continue(th)
    BY <1>2, <2>1 DEF Next
  <2> QED
    BY <2>2, ThreadStep
<1> QED
  BY <1>1, <1>2

\* With one connection and nothing failing, what the checks of a call found
\* still holds when it acts on them, and the three tables tell the same story
\* about every id.
THEOREM SerialInvariant ==
  ASSUME Serial
  PROVE  Spec => []SerialInv
<1>1. Init => IInv /\ SerialInv
  BY IInvInductive, InitSerial
<1>2. IInv /\ SerialInv /\ [Next]_vars => IInv' /\ SerialInv'
  BY IInvInductive, SerialStep
<1> QED
  BY <1>1, <1>2, PTL DEF Spec

\* With one connection and nothing failing TicketService is the market: no id
\* is sold twice, no pass of a reseller outlives the sale, no limit is passed
\* and no pass admits twice.
THEOREM SerialServiceIsMarket ==
  ASSUME Serial
  PROVE  Spec => ImplementsMarket
<1>1. Init => IInv /\ SerialInv /\ Market!Init
  BY IInvInductive, InitSerial
<1>2. IInv /\ SerialInv /\ [Next]_vars =>
        IInv' /\ SerialInv' /\ [Market!Next]_(Market!market)
  BY IInvInductive, SerialStep
<1> QED
  BY <1>1, <1>2, PTL DEF Spec, ImplementsMarket, Market!Spec
=============================================================================
