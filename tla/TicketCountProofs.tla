------------------------- MODULE TicketCountProofs -------------------------
(***************************************************************************)
(* What TicketService counts: tickets owned, seats lost, admissions.  The  *)
(* code reads a count and writes later, so each bound is that of the code  *)
(* plus what the other connections and the failed statements may add; the  *)
(* invariants count the calls between the read and the write too, and      *)
(* every step keeps the sum.  Together with the other proofs this is the   *)
(* whole invariant IInv.                                                   *)
(***************************************************************************)
EXTENDS TicketCodeProofs

LEMMA CardinalityMonotone ==
  ASSUME NEW S, IsFiniteSet(S), NEW T, T \subseteq S
  PROVE  /\ IsFiniteSet(T)
         /\ Cardinality(T) \in Nat /\ Cardinality(S) \in Nat
         /\ Cardinality(T) <= Cardinality(S)
<1>1. T \in SUBSET S
  OBVIOUS
<1>2. IsFiniteSet(T) /\ Cardinality(T) <= Cardinality(S)
  BY <1>1, FS_Subset
<1> QED
  BY <1>2, FS_CardinalityType

\* One element comes, or one goes.
LEMMA CardinalityByOne ==
  ASSUME NEW S, IsFiniteSet(S), NEW x
  PROVE  /\ \A T : T \subseteq S \cup {x} => /\ Cardinality(T) \in Nat
                                             /\ Cardinality(T) <= Cardinality(S) + 1
         /\ \A T : x \in S /\ T \subseteq S \ {x} =>
                     /\ Cardinality(T) \in Nat
                     /\ Cardinality(T) <= Cardinality(S) - 1
<1>1. Cardinality(S) \in Nat
  BY FS_CardinalityType
<1>2. IsFiniteSet(S \cup {x}) /\ Cardinality(S \cup {x}) <= Cardinality(S) + 1
  BY <1>1, FS_AddElement
<1>3. ASSUME NEW T, T \subseteq S \cup {x}
      PROVE  Cardinality(T) \in Nat /\ Cardinality(T) <= Cardinality(S) + 1
  <2>1. /\ Cardinality(T) \in Nat /\ Cardinality(S \cup {x}) \in Nat
        /\ Cardinality(T) <= Cardinality(S \cup {x})
    BY <1>2, <1>3, CardinalityMonotone
  <2> QED
    BY <1>1, <1>2, <2>1
<1>4. ASSUME x \in S, NEW T, T \subseteq S \ {x}
      PROVE  Cardinality(T) \in Nat /\ Cardinality(T) <= Cardinality(S) - 1
  <2>1. IsFiniteSet(S \ {x}) /\ Cardinality(S \ {x}) = Cardinality(S) - 1
    BY <1>4, FS_RemoveElement
  <2>2. /\ Cardinality(T) \in Nat
        /\ Cardinality(T) <= Cardinality(S \ {x})
    BY <1>4, <2>1, CardinalityMonotone
  <2> QED
    BY <2>1, <2>2
<1> QED
  BY <1>3, <1>4

\* The sets that are counted are finite.
LEMMA CountedFinite ==
  ASSUME TypeOK
  PROVE  /\ \A user : IsFiniteSet(OwnedBy(user)) /\ IsFiniteSet(BuyingFor(user))
         /\ \A code : IsFiniteSet(Admitting(code))
         /\ IsFiniteSet(LostIds)
         /\ Cardinality(Threads) \in Nat
<1>1. IsFiniteSet(Hashes)
  BY ServiceAssumption, FS_Singleton, FS_Product DEF Hashes
<1>3. ASSUME NEW user
      PROVE  IsFiniteSet(OwnedBy(user)) /\ IsFiniteSet(BuyingFor(user))
  <2>1. OwnedBy(user) \subseteq Hashes /\ BuyingFor(user) \subseteq Threads
    BY DEF OwnedBy, BuyingFor, TypeOK
  <2> QED
    BY <1>1, <2>1, CardinalityMonotone, ServiceAssumption
<1>4. ASSUME NEW code PROVE IsFiniteSet(Admitting(code))
  <2>1. Admitting(code) \subseteq Threads
    BY DEF Admitting
  <2> QED
    BY <2>1, CardinalityMonotone, ServiceAssumption
<1>5. IsFiniteSet(LostIds)
  <2>1. LostIds \subseteq listed
    BY DEF LostIds
  <2> QED
    BY <2>1, CardinalityMonotone DEF TypeOK
<1> QED
  BY <1>3, <1>4, <1>5, FS_CardinalityType, ServiceAssumption
\* Failures are counted and never forgotten, not even by a restart.
LEMMA FaultsGrow ==
  ASSUME TypeOK, [Next]_vars
  PROVE  faults \in Nat /\ faults' \in Nat /\ faults <= faults'
<1>1. TypeOK'
  BY StepType
<1>2. faults \in Nat /\ faults' \in Nat
  BY <1>1 DEF TypeOK
<1>3. ASSUME NEW ok \in BOOLEAN, Statement(ok) PROVE faults <= faults'
  BY <1>2, <1>3 DEF Statement
<1>4. ASSUME NEW th \in Threads, Buy(th) \/ Sell(th) \/ Validate(th)
      PROVE  faults <= faults'
  BY <1>3, <1>4
  DEF Buy, Sell, Validate, BuyCountOwned, SellCheck, ValidateCheck
<1>5. ASSUME NEW th \in Threads, Continue(th) PROVE faults <= faults'
  BY <1>3, <1>5
  DEF Continue, BuyLookUp, BuyTakeOffSale, BuyAddTicket, BuyIsResold,
      BuyGetOld,
      BuyRemoveResell, BuyRemoveOld, SellList, SellMarkResell, ValidateMark
<1>6. CASE Restart
  BY <1>6, RefillFaults DEF Restart, TypeOK
<1>7. CASE UNCHANGED vars
  BY <1>2, <1>7 DEF vars
<1> QED
  BY <1>2, <1>4, <1>5, <1>6, <1>7 DEF Next

\* Every step but the INSERT of addNewTicket leaves the rows that are still
\* stored with their hashes and owners, and none of them unused again.
LEMMA RowsKept ==
  ASSUME TypeOK, [Next]_vars,
         NEW h \in DOMAIN ticket',
         \A th \in Threads : ~BuyAddTicket(th)
  PROVE  /\ h \in DOMAIN ticket
         /\ ticket'[h].ticket_hash = ticket[h].ticket_hash
         /\ ticket'[h].owner_id = ticket[h].owner_id
         /\ ticket[h].used => ticket'[h].used
<1>1. ASSUME NEW th \in Threads, BuyRemoveOld(th)
      PROVE  h \in DOMAIN ticket /\ ticket'[h] = ticket[h]
  BY <1>1 DEF BuyRemoveOld, removeTicket, Delete
<1> QED
  BY <1>1, TicketWriters, SetInUseKeepsRows

-----------------------------------------------------------------------------
(***************************************************************************)
(* The purchase limit                                                      *)
(***************************************************************************)

\* The call is counted as a purchase of the user that is under way.
Buying(c, user) == \/ c.pc = "getTicketInfoById" /\ c.user = user
                   \/ c.pc \in BuyHead /\ c.t.buyerID = user

\* A step that adds no ticket and no purchase under way keeps the limit.
LEMMA LimitKept ==
  ASSUME TypeOK, PurchaseLimitInv,
         faults \in Nat, faults' \in Nat, faults <= faults',
         \A user \in Users : /\ OwnedBy(user)' \subseteq OwnedBy(user)
                             /\ BuyingFor(user)' \subseteq BuyingFor(user)
  PROVE  PurchaseLimitInv'
<1> SUFFICES ASSUME NEW user \in Users
             PROVE  Cardinality(OwnedBy(user)') + Cardinality(BuyingFor(user)')
                      <= MaxOwned - 1 + Cardinality(Threads) + faults'
  BY DEF PurchaseLimitInv
<1>1. /\ Cardinality(OwnedBy(user)') \in Nat /\ Cardinality(OwnedBy(user)) \in Nat
      /\ Cardinality(OwnedBy(user)') <= Cardinality(OwnedBy(user))
  BY CountedFinite, CardinalityMonotone
<1>2. /\ Cardinality(BuyingFor(user)') \in Nat
      /\ Cardinality(BuyingFor(user)) \in Nat
      /\ Cardinality(BuyingFor(user)') <= Cardinality(BuyingFor(user))
  BY CountedFinite, CardinalityMonotone
<1>3. Cardinality(OwnedBy(user)) + Cardinality(BuyingFor(user))
        <= MaxOwned - 1 + Cardinality(Threads) + faults
  BY DEF PurchaseLimitInv
<1>4. Cardinality(Threads) \in Nat /\ MaxOwned \in Nat
  BY CountedFinite, ServiceAssumption
<1> QED
  BY <1>1, <1>2, <1>3, <1>4

\* Past the count, a purchase goes on for the user it was counted for.
LEMMA NoNewBuyer ==
  ASSUME TypeOK, NEW th \in Threads, Continue(th), ~BuyAddTicket(th),
         NEW user \in Users
  PROVE  BuyingFor(user)' \subseteq BuyingFor(user)
<1>1. \A u : ~Buying(Idle, u)
  BY DEF Buying, Idle, BuyHead
<1>2. ASSUME NEW c, CallNext(th, c),
             \A u \in Users : Buying(c, u) => Buying(call[th], u)
      PROVE  BuyingFor(user)' \subseteq BuyingFor(user)
  <2>1. /\ call'[th] = c
        /\ \A other \in Threads \ {th} : call'[other] = call[other]
    BY <1>2, OtherCalls DEF TypeOK
  <2>2. BuyingFor(user)' = {x \in Threads : Buying(call'[x], user)}
    BY DEF BuyingFor, Buying
  <2>3. BuyingFor(user) = {x \in Threads : Buying(call[x], user)}
    BY DEF BuyingFor, Buying
  <2> QED
    BY <1>2, <2>1, <2>2, <2>3
<1>3. CASE CallNext(th, Idle)
  BY <1>1, <1>2, <1>3
<1>4. CASE BuyLookUp(th)
  <2>1. ASSUME NEW row, NEW code,
               CallNext(th, [pc |-> "makeTicketUnavailable",
                             t |-> NewTicket(call[th].id, row,
                                             call[th].user, code)])
        PROVE  BuyingFor(user)' \subseteq BuyingFor(user)
    <3> DEFINE c == [pc |-> "makeTicketUnavailable",
                     t |-> NewTicket(call[th].id, row, call[th].user, code)]
    <3>1. \A u \in Users : Buying(c, u) => Buying(call[th], u)
      BY <1>4 DEF Buying, NewTicket, BuyLookUp
    <3> QED
      BY <1>2, <2>1, <3>1
  <2> QED
    BY <1>3, <1>4, <2>1, ReturnIsNext DEF BuyLookUp
<1>5. CASE BuyTakeOffSale(th)
  <2> DEFINE c == [pc |-> "addNewTicket", t |-> call[th].t]
  <2>1. \A u \in Users : Buying(c, u) => Buying(call[th], u)
    BY <1>5 DEF Buying, BuyTakeOffSale, BuyHead
  <2>2. CallNext(th, c) \/ CallNext(th, Idle)
    BY <1>5, ReturnIsNext DEF BuyTakeOffSale
  <2> QED
    BY <1>2, <1>3, <2>1, <2>2
<1>6. ASSUME NEW c, CallNext(th, c),
             c.pc \notin BuyHead \cup {"getTicketInfoById"}
      PROVE  BuyingFor(user)' \subseteq BuyingFor(user)
  BY <1>2, <1>6 DEF Buying
<1>7. CASE BuyIsResold(th)
  BY <1>3, <1>6, <1>7, ReturnIsNext DEF BuyIsResold, Deliver, BuyHead
<1>8. CASE BuyGetOld(th)
  BY <1>6, <1>8 DEF BuyGetOld, BuyHead
<1>9. CASE BuyRemoveResell(th)
  BY <1>6, <1>9 DEF BuyRemoveResell, BuyHead
<1>10. CASE SellList(th)
  BY <1>3, <1>6, <1>10, ReturnIsNext DEF SellList, BuyHead
<1>11. CASE BuyRemoveOld(th) \/ SellMarkResell(th) \/ ValidateMark(th)
  BY <1>3, <1>11, ReturnIsNext
  DEF BuyRemoveOld, Deliver, SellMarkResell, ValidateMark
<1> QED
  BY <1>4, <1>5, <1>7, <1>8, <1>9, <1>10, <1>11 DEF Continue
\* The count was below MaxOwned, and no more purchases are under way than there
\* are threads; or it failed, and the failure raised the bound.
LEMMA BuyCountOwnedLimit ==
  ASSUME TypeOK, PurchaseLimitInv, NEW th \in Threads, NEW user \in Users,
         NEW id \in TicketIds, NEW event \in EventIds,
         BuyCountOwned(th, user, id, event)
  PROVE  PurchaseLimitInv'
<1> DEFINE c == [pc |-> "getTicketInfoById",
                 user |-> user, id |-> id, event |-> event]
<1>1. PICK ok \in BOOLEAN :
        /\ Statement(ok)
        /\ \/ UNCHANGED call
           \/ getNrOfTicketsOwned(user, ok) < MaxOwned /\ CallNext(th, c)
  BY DEF BuyCountOwned
<1>2. faults \in Nat /\ faults' \in Nat /\ faults <= faults'
      /\ (~ok => faults' = faults + 1)
  BY <1>1, StatementFaults DEF TypeOK
<1>3. \A u : OwnedBy(u)' = OwnedBy(u)
  BY DEF OwnedBy, BuyCountOwned, tables, on_sale, starts
<1>4. CASE UNCHANGED call
  <2>1. \A u : BuyingFor(u)' = BuyingFor(u)
    BY <1>4 DEF BuyingFor
  <2> QED
    BY <1>2, <1>3, <2>1, LimitKept
<1>5. CASE getNrOfTicketsOwned(user, ok) < MaxOwned /\ CallNext(th, c)
  <2>1. /\ call'[th] = c
        /\ \A other \in Threads \ {th} : call'[other] = call[other]
    BY <1>5, OtherCalls DEF TypeOK
  <2>2. ASSUME NEW u \in Users, u # user
        PROVE  BuyingFor(u)' \subseteq BuyingFor(u)
    BY <2>1, <2>2 DEF BuyingFor, BuyHead
  <2>3. BuyingFor(user)' \subseteq BuyingFor(user) \cup {th}
    BY <2>1 DEF BuyingFor, BuyHead
  <2>4. Cardinality(OwnedBy(user)) \in Nat
        /\ Cardinality(BuyingFor(user)) \in Nat
        /\ Cardinality(Threads) \in Nat /\ MaxOwned \in Nat
    BY CountedFinite, FS_CardinalityType, ServiceAssumption
  <2>5. Cardinality(OwnedBy(user)) + Cardinality(BuyingFor(user)')
          <= MaxOwned - 1 + Cardinality(Threads) + faults'
    <3>1. CASE ok
      <4>1. Cardinality(OwnedBy(user)) <= MaxOwned - 1
        BY <1>5, <2>4, <3>1 DEF getNrOfTicketsOwned, OwnedBy
      <4>2. BuyingFor(user)' \subseteq Threads
        BY DEF BuyingFor
      <4>3. /\ Cardinality(BuyingFor(user)') \in Nat
            /\ Cardinality(BuyingFor(user)') <= Cardinality(Threads)
        BY <4>2, CardinalityMonotone, ServiceAssumption
      <4> QED
        BY <1>2, <2>4, <4>1, <4>3
    <3>2. CASE ~ok
      <4>1. IsFiniteSet(BuyingFor(user))
        BY CountedFinite
      <4>2. /\ Cardinality(BuyingFor(user)') \in Nat
            /\ Cardinality(BuyingFor(user)') <= Cardinality(BuyingFor(user)) + 1
        BY <2>3, <4>1, CardinalityByOne
      <4> QED
        BY <1>2, <2>4, <3>2, <4>2 DEF PurchaseLimitInv
    <3> QED
      BY <3>1, <3>2
  <2>6. ASSUME NEW u \in Users, u # user
        PROVE  Cardinality(OwnedBy(u)) + Cardinality(BuyingFor(u)')
                 <= MaxOwned - 1 + Cardinality(Threads) + faults'
    <3>1. /\ Cardinality(BuyingFor(u)') \in Nat
          /\ Cardinality(BuyingFor(u)) \in Nat
          /\ Cardinality(BuyingFor(u)') <= Cardinality(BuyingFor(u))
      BY <2>2, <2>6, CountedFinite, CardinalityMonotone
    <3>2. Cardinality(OwnedBy(u)) \in Nat
      BY CountedFinite, FS_CardinalityType
    <3> QED
      BY <1>2, <2>4, <3>1, <3>2 DEF PurchaseLimitInv
  <2> QED
    BY <1>3, <2>5, <2>6 DEF PurchaseLimitInv
<1> QED
  BY <1>1, <1>4, <1>5

\* The INSERT turns a purchase under way into a ticket owned.
LEMMA BuyAddTicketLimit ==
  ASSUME TypeOK, PurchaseLimitInv, NEW th \in Threads, BuyAddTicket(th)
  PROVE  PurchaseLimitInv'
<1> DEFINE t == call[th].t
           h == ValCodeHash(t)
<1>1. PICK ok \in BOOLEAN :
        /\ Statement(ok)
        /\ addNewTicket(h, TicketHash(t), t.seat, t.buyerID, ok)
        /\ \/ CallNext(th, [pc |-> "isTicketInResell", t |-> t])
           \/ CallNext(th, Idle)
  BY ReturnIsNext DEF BuyAddTicket
<1>2. faults \in Nat /\ faults' \in Nat /\ faults <= faults'
  BY <1>1, StatementFaults DEF TypeOK
<1>3. /\ call'[th].pc \notin BuyHead \cup {"getTicketInfoById"}
      /\ \A other \in Threads \ {th} : call'[other] = call[other]
  BY <1>1, OtherCalls DEF TypeOK, Idle, BuyHead
<1>4. \A u \in Users : BuyingFor(u)' \subseteq BuyingFor(u) \ {th}
  BY <1>3 DEF BuyingFor
<1>5. th \in BuyingFor(t.buyerID)
  BY DEF BuyingFor, BuyAddTicket, BuyHead
<1>6. \A k \in DOMAIN ticket' :
        \/ k \in DOMAIN ticket /\ ticket'[k] = ticket[k]
        \/ k = h /\ ticket'[k].owner_id = t.buyerID
  BY <1>1 DEF addNewTicket, Insert
<1> SUFFICES ASSUME NEW u \in Users
             PROVE  Cardinality(OwnedBy(u)') + Cardinality(BuyingFor(u)')
                      <= MaxOwned - 1 + Cardinality(Threads) + faults'
  BY DEF PurchaseLimitInv
<1>7. /\ Cardinality(OwnedBy(u)) \in Nat /\ Cardinality(BuyingFor(u)) \in Nat
      /\ Cardinality(Threads) \in Nat /\ MaxOwned \in Nat
  BY CountedFinite, FS_CardinalityType, ServiceAssumption
<1>8. Cardinality(OwnedBy(u)) + Cardinality(BuyingFor(u))
        <= MaxOwned - 1 + Cardinality(Threads) + faults
  BY DEF PurchaseLimitInv
<1>9. CASE u = t.buyerID
  <2>1. OwnedBy(u)' \subseteq OwnedBy(u) \cup {h}
    BY <1>6 DEF OwnedBy
  <2>2. /\ Cardinality(OwnedBy(u)') \in Nat
        /\ Cardinality(OwnedBy(u)') <= Cardinality(OwnedBy(u)) + 1
    BY <2>1, CountedFinite, CardinalityByOne
  <2>3. /\ Cardinality(BuyingFor(u)') \in Nat
        /\ Cardinality(BuyingFor(u)') <= Cardinality(BuyingFor(u)) - 1
    BY <1>4, <1>5, <1>9, CountedFinite, CardinalityByOne
  <2> QED
    BY <1>2, <1>7, <1>8, <2>2, <2>3
<1>10. CASE u # t.buyerID
  <2>1. OwnedBy(u)' \subseteq OwnedBy(u)
    BY <1>6, <1>10 DEF OwnedBy
  <2>2. /\ Cardinality(OwnedBy(u)') \in Nat
        /\ Cardinality(OwnedBy(u)') <= Cardinality(OwnedBy(u))
    BY <2>1, CountedFinite, CardinalityMonotone
  <2>3. BuyingFor(u)' \subseteq BuyingFor(u)
    BY <1>4
  <2>4. /\ Cardinality(BuyingFor(u)') \in Nat
        /\ Cardinality(BuyingFor(u)') <= Cardinality(BuyingFor(u))
    BY <2>3, CountedFinite, CardinalityMonotone
  <2> QED
    BY <1>2, <1>7, <1>8, <2>2, <2>4
<1> QED
  BY <1>9, <1>10

LEMMA InitLimit == Init => PurchaseLimitInv
<1> SUFFICES ASSUME Init, NEW user \in Users
             PROVE  Cardinality(OwnedBy(user)) + Cardinality(BuyingFor(user))
                      <= MaxOwned - 1 + Cardinality(Threads) + faults
  BY DEF PurchaseLimitInv
<1>1. OwnedBy(user) = {} /\ BuyingFor(user) = {}
  BY DEF Init, OwnedBy, BuyingFor, Idle, BuyHead
<1>2. Cardinality(Threads) \in Nat /\ MaxOwned \in Nat \ {0} /\ faults \in Nat
  BY InitType, FS_CardinalityType, ServiceAssumption DEF TypeOK
<1>3. Cardinality({}) = 0
  BY FS_EmptySet
<1> QED
  BY <1>1, <1>2, <1>3

\* Every step keeps the invariant.
LEMMA StepLimit ==
  ASSUME TypeOK, PurchaseLimitInv, [Next]_vars
  PROVE  PurchaseLimitInv'
<1>1. faults \in Nat /\ faults' \in Nat /\ faults <= faults'
  BY FaultsGrow
<1>2. ASSUME \A x \in Threads : ~BuyAddTicket(x)
      PROVE  \A user : OwnedBy(user)' \subseteq OwnedBy(user)
  BY <1>2, RowsKept DEF OwnedBy
<1>3. ASSUME \A x \in Threads : ~BuyAddTicket(x),
             \A user \in Users : BuyingFor(user)' \subseteq BuyingFor(user)
      PROVE  PurchaseLimitInv'
  BY <1>1, <1>2, <1>3, LimitKept
<1>4. ASSUME NEW x \in Threads, BuyAddTicket(x) PROVE PurchaseLimitInv'
  BY <1>4, BuyAddTicketLimit
<1>5. ASSUME NEW th \in Threads, Buy(th) PROVE PurchaseLimitInv'
  BY <1>5, SeenType, BuyCountOwnedLimit DEF Buy
<1>6. ASSUME NEW th \in Threads, Sell(th) \/ Validate(th)
      PROVE  PurchaseLimitInv'
  <2>1. ASSUME NEW c, CallNext(th, c), c.pc \in {"addTicketInfo", "setTicketInUse"}
        PROVE  \A user \in Users : BuyingFor(user)' \subseteq BuyingFor(user)
    BY <2>1, OtherCalls DEF BuyingFor, BuyHead, TypeOK
  <2>2. CASE UNCHANGED call
    BY <1>3, <1>4, <2>2 DEF BuyingFor
  <2>3. ASSUME NEW t, NEW newPrice,
               CallNext(th, [pc |-> "addTicketInfo", t |-> t,
                             newPrice |-> newPrice])
        PROVE  PurchaseLimitInv'
    BY <1>3, <1>4, <2>1, <2>3
  <2>4. ASSUME NEW code, CallNext(th, [pc |-> "setTicketInUse", code |-> code])
        PROVE  PurchaseLimitInv'
    BY <1>3, <1>4, <2>1, <2>4
  <2> QED
    BY <1>6, <2>2, <2>3, <2>4 DEF Sell, Validate, SellCheck, ValidateCheck
<1>7. ASSUME NEW th \in Threads, Continue(th) PROVE PurchaseLimitInv'
  BY <1>3, <1>4, <1>7, NoNewBuyer
<1>8. CASE Restart
  <2>1. \A user \in Users : BuyingFor(user)' \subseteq BuyingFor(user)
    BY <1>8 DEF Restart, BuyingFor, Idle, BuyHead
  <2> QED
    BY <1>3, <1>4, <2>1
<1>9. CASE UNCHANGED vars
  <2>1. \A user \in Users : BuyingFor(user)' \subseteq BuyingFor(user)
    BY <1>9 DEF vars, BuyingFor
  <2> QED
    BY <1>3, <1>4, <2>1
<1> QED
  BY <1>5, <1>6, <1>7, <1>8, <1>9 DEF Next

\* However many connections a user opens, whatever fails and whenever the
\* server restarts, the tickets owned stay within one less than the limit of
\* buyTicket plus one for each connection and failure (TicketService.cpp:17).
THEOREM PurchaseLimitHolds == Spec => []PurchaseLimit
<1>1. Init => PurchaseLimitInv
  BY InitLimit
<1>2. TypeOK /\ PurchaseLimitInv /\ [Next]_vars => PurchaseLimitInv'
  BY StepLimit
<1>3. TypeOK /\ PurchaseLimitInv => PurchaseLimit
  <2> SUFFICES ASSUME TypeOK, PurchaseLimitInv, NEW user \in Users
               PROVE  Cardinality(OwnedBy(user))
                        <= MaxOwned - 1 + Cardinality(Threads) + faults
    BY DEF PurchaseLimit
  <2>1. /\ Cardinality(OwnedBy(user)) \in Nat
        /\ Cardinality(BuyingFor(user)) \in Nat
        /\ Cardinality(Threads) \in Nat /\ MaxOwned \in Nat /\ faults \in Nat
    BY CountedFinite, FS_CardinalityType, ServiceAssumption DEF TypeOK
  <2> QED
    BY <2>1 DEF PurchaseLimitInv
<1> QED
  BY <1>1, <1>2, <1>3, TypeCorrect, PTL DEF Spec
-----------------------------------------------------------------------------
(***************************************************************************)
(* Admission                                                               *)
(***************************************************************************)

\* A step that admits nobody, and stores no unused row for a code that was
\* admitted, keeps the bound.
LEMMA AdmissionKept ==
  ASSUME TypeOK, AdmissionInv,
         faults \in Nat, faults' \in Nat, faults <= faults',
         UNCHANGED admitted,
         \A code \in Codes :
           /\ Admitting(code)' \subseteq Admitting(code)
           /\ SHA256(code) \in DOMAIN ticket' /\ ~ticket'[SHA256(code)].used
                => \/ SHA256(code) \in DOMAIN ticket /\ ~ticket[SHA256(code)].used
                   \/ admitted[code] = 0
  PROVE  AdmissionInv'
<1> SUFFICES ASSUME NEW code \in Codes
             PROVE  /\ admitted[code] + Cardinality(Admitting(code)')
                         <= Cardinality(Threads) + faults'
                    /\ SHA256(code) \in DOMAIN ticket'
                         /\ ~ticket'[SHA256(code)].used
                         => admitted[code] <= faults'
  BY DEF AdmissionInv, SHA256
<1>1. /\ Cardinality(Admitting(code)') \in Nat
      /\ Cardinality(Admitting(code)) \in Nat
      /\ Cardinality(Admitting(code)') <= Cardinality(Admitting(code))
  BY CountedFinite, CardinalityMonotone
<1>2. admitted[code] \in Nat /\ Cardinality(Threads) \in Nat
  BY CountedFinite DEF TypeOK
<1>3. admitted[code] + Cardinality(Admitting(code))
        <= Cardinality(Threads) + faults
  BY DEF AdmissionInv
<1>4. SHA256(code) \in DOMAIN ticket /\ ~ticket[SHA256(code)].used
        => admitted[code] <= faults
  BY DEF AdmissionInv
<1> QED
  BY <1>1, <1>2, <1>3, <1>4

\* A ticket is checked unused, so only failures have let its code in before; and
\* no more admissions are under way than there are threads.
LEMMA ValidateCheckAdmission ==
  ASSUME TypeOK, AdmissionInv, NEW th \in Threads, NEW presented \in Presented,
         ValidateCheck(th, presented)
  PROVE  AdmissionInv'
<1>1. UNCHANGED <<admitted, ticket>>
  BY DEF ValidateCheck, tables, history, on_sale, starts
<1>2. faults \in Nat /\ faults' \in Nat /\ faults <= faults'
  BY StatementFaults DEF ValidateCheck, TypeOK
<1>3. CASE UNCHANGED call
  BY <1>1, <1>2, <1>3, AdmissionKept DEF Admitting
<1>4. CASE /\ SHA256(presented) \in DOMAIN ticket
           /\ ~ticket[SHA256(presented)].used
           /\ CallNext(th, [pc |-> "setTicketInUse", code |-> presented])
  <2>1. /\ call'[th].code = presented
        /\ \A other \in Threads \ {th} : call'[other] = call[other]
    BY <1>4, OtherCalls DEF TypeOK
  <2> SUFFICES ASSUME NEW code \in Codes
               PROVE  /\ admitted[code] + Cardinality(Admitting(code)')
                           <= Cardinality(Threads) + faults'
                      /\ SHA256(code) \in DOMAIN ticket
                           /\ ~ticket[SHA256(code)].used
                           => admitted[code] <= faults'
    BY <1>1 DEF AdmissionInv, SHA256
  <2>2. admitted[code] \in Nat /\ Cardinality(Threads) \in Nat
    BY CountedFinite DEF TypeOK
  <2>3. SHA256(code) \in DOMAIN ticket /\ ~ticket[SHA256(code)].used
          => admitted[code] <= faults
    BY DEF AdmissionInv
  <2>4. CASE code = presented
    <3>1. Admitting(code)' \subseteq Threads
      BY DEF Admitting
    <3>2. /\ Cardinality(Admitting(code)') \in Nat
          /\ Cardinality(Admitting(code)') <= Cardinality(Threads)
      BY <3>1, CardinalityMonotone, ServiceAssumption
    <3> QED
      BY <1>2, <1>4, <2>2, <2>3, <2>4, <3>2
  <2>5. CASE code # presented
    <3>1. Admitting(code)' \subseteq Admitting(code)
      BY <2>1, <2>5 DEF Admitting
    <3>2. /\ Cardinality(Admitting(code)') \in Nat
          /\ Cardinality(Admitting(code)) \in Nat
          /\ Cardinality(Admitting(code)') <= Cardinality(Admitting(code))
      BY <3>1, CountedFinite, CardinalityMonotone
    <3>3. admitted[code] + Cardinality(Admitting(code))
            <= Cardinality(Threads) + faults
      BY DEF AdmissionInv
    <3> QED
      BY <1>2, <2>2, <2>3, <3>2, <3>3
  <2> QED
    BY <2>4, <2>5
<1> QED
  BY <1>3, <1>4 DEF ValidateCheck, existsTicketWithValidationCode

\* An admission under way becomes one that happened; the row is used from now
\* on, unless the UPDATE failed.
LEMMA ValidateMarkAdmission ==
  ASSUME TypeOK, AdmissionInv, NEW th \in Threads, ValidateMark(th)
  PROVE  AdmissionInv'
<1> DEFINE marked == call[th].code
<1>1. PICK ok \in BOOLEAN : Statement(ok) /\ setTicketInUse(SHA256(marked), ok)
  BY DEF ValidateMark
<1>2. /\ faults \in Nat /\ faults' \in Nat /\ faults <= faults'
      /\ ~ok => faults' = faults + 1
  BY <1>1, StatementFaults DEF TypeOK
<1>3. marked \in Codes /\ call[th].pc = "setTicketInUse"
  BY CallType DEF TypeOK, ValidateMark
<1>4. /\ call'[th] = Idle
      /\ \A other \in Threads \ {th} : call'[other] = call[other]
  BY ReturnIsNext, OtherCalls DEF TypeOK, ValidateMark
<1>5. /\ admitted'[marked] = admitted[marked] + 1
      /\ \A code \in Codes \ {marked} : admitted'[code] = admitted[code]
  BY <1>3 DEF ValidateMark, TypeOK
<1> SUFFICES ASSUME NEW code \in Codes
             PROVE  /\ admitted'[code] + Cardinality(Admitting(code)')
                         <= Cardinality(Threads) + faults'
                    /\ SHA256(code) \in DOMAIN ticket'
                         /\ ~ticket'[SHA256(code)].used
                         => admitted'[code] <= faults'
  BY DEF AdmissionInv, SHA256
<1>6. admitted[code] \in Nat /\ Cardinality(Threads) \in Nat
  BY CountedFinite DEF TypeOK
<1>7. admitted[code] + Cardinality(Admitting(code))
        <= Cardinality(Threads) + faults
  BY DEF AdmissionInv
<1>8. SHA256(code) \in DOMAIN ticket /\ ~ticket[SHA256(code)].used
        => admitted[code] <= faults
  BY DEF AdmissionInv
<1>9. SHA256(code) \in DOMAIN ticket' /\ ~ticket'[SHA256(code)].used
        => SHA256(code) \in DOMAIN ticket /\ ~ticket[SHA256(code)].used
  BY SetInUseKeepsRows
<1>10. Cardinality(Admitting(code)) \in Nat
  BY CountedFinite, FS_CardinalityType
<1>11. CASE code = marked
  <2>1. Admitting(code)' \subseteq Admitting(code) \ {th} /\ th \in Admitting(code)
    BY <1>3, <1>4, <1>11 DEF Admitting, Idle
  <2>2. /\ Cardinality(Admitting(code)') \in Nat
        /\ Cardinality(Admitting(code)') <= Cardinality(Admitting(code)) - 1
    BY <2>1, CountedFinite, CardinalityByOne
  <2>3. ok /\ SHA256(code) \in DOMAIN ticket' => ticket'[SHA256(code)].used
    BY <1>1, <1>11, SetInUseKeepsRows DEF setTicketInUse, TypeOK, TicketRow
  <2> QED
    BY <1>2, <1>5, <1>6, <1>7, <1>8, <1>9, <1>10, <1>11, <2>2, <2>3
<1>12. CASE code # marked
  <2>1. Admitting(code)' \subseteq Admitting(code)
    BY <1>4, <1>12 DEF Admitting, Idle
  <2>2. /\ Cardinality(Admitting(code)') \in Nat
        /\ Cardinality(Admitting(code)') <= Cardinality(Admitting(code))
    BY <2>1, CountedFinite, CardinalityMonotone
  <2> QED
    BY <1>2, <1>5, <1>6, <1>7, <1>8, <1>9, <1>10, <1>12, <2>2
<1> QED
  BY <1>11, <1>12

LEMMA InitAdmission == Init => AdmissionInv
<1> SUFFICES ASSUME Init, NEW code \in Codes
             PROVE  /\ admitted[code] + Cardinality(Admitting(code))
                         <= Cardinality(Threads) + faults
                    /\ admitted[code] <= faults
  BY DEF AdmissionInv
<1>1. Admitting(code) = {} /\ admitted[code] = 0
  BY DEF Init, Admitting, Idle
<1>2. /\ Cardinality(Threads) \in Nat /\ Cardinality({}) = 0
      /\ faults \in Nat
  BY InitType, FS_CardinalityType, FS_EmptySet, ServiceAssumption DEF TypeOK
<1> QED
  BY <1>1, <1>2

\* Every step keeps the invariant.  The row stored by a purchase is unused, but
\* its code was private.
LEMMA StepAdmission ==
  ASSUME TypeOK, CodeInv, AdmissionInv, [Next]_vars
  PROVE  AdmissionInv'
<1>1. faults \in Nat /\ faults' \in Nat /\ faults <= faults'
  BY FaultsGrow
<1>2. ASSUME NEW code \in Codes,
             SHA256(code) \in DOMAIN ticket', ~ticket'[SHA256(code)].used
      PROVE  \/ SHA256(code) \in DOMAIN ticket /\ ~ticket[SHA256(code)].used
             \/ admitted[code] = 0
  <2>1. ASSUME NEW th \in Threads, BuyAddTicket(th),
               SHA256(code) \notin DOMAIN ticket
        PROVE  admitted[code] = 0
    <3>1. SHA256(code) = ValCodeHash(call[th].t)
      BY <1>2, <2>1 DEF BuyAddTicket, addNewTicket, Insert
    <3>2. code = call[th].t.validationCode
      BY <3>1, SHA256Injective DEF ValCodeHash
    <3> QED
      BY <2>1, <3>2
      DEF BuyAddTicket, BuyHead, CodeInv, FreshCodes, Private, Traced
  <2>2. ASSUME NEW th \in Threads, BuyAddTicket(th),
               SHA256(code) \in DOMAIN ticket
        PROVE  ticket'[SHA256(code)] = ticket[SHA256(code)]
    BY <2>2 DEF BuyAddTicket, addNewTicket, Insert, InsertSucceeds
  <2> QED
    BY <1>2, <2>1, <2>2, RowsKept
<1>3. ASSUME UNCHANGED admitted,
             \A code \in Codes : Admitting(code)' \subseteq Admitting(code)
      PROVE  AdmissionInv'
  BY <1>1, <1>2, <1>3, AdmissionKept
<1>4. ASSUME NEW th \in Threads, NEW c, CallNext(th, c), c.pc # "setTicketInUse"
      PROVE  \A code \in Codes : Admitting(code)' \subseteq Admitting(code)
  BY <1>4, OtherCalls DEF Admitting, TypeOK
<1>5. ASSUME NEW th \in Threads, Buy(th) \/ Sell(th) PROVE AdmissionInv'
  <2>1. UNCHANGED admitted
    BY <1>5 DEF Buy, Sell, BuyCountOwned, SellCheck, history, on_sale, starts
  <2>2. CASE UNCHANGED call
    BY <1>3, <2>1, <2>2 DEF Admitting
  <2>3. ASSUME NEW user, NEW id, NEW event,
               CallNext(th, [pc |-> "getTicketInfoById", user |-> user,
                             id |-> id, event |-> event])
        PROVE  AdmissionInv'
    BY <1>3, <1>4, <2>1, <2>3
  <2>4. ASSUME NEW t, NEW newPrice,
               CallNext(th, [pc |-> "addTicketInfo", t |-> t,
                             newPrice |-> newPrice])
        PROVE  AdmissionInv'
    BY <1>3, <1>4, <2>1, <2>4
  <2> QED
    BY <1>5, <2>2, <2>3, <2>4 DEF Buy, Sell, BuyCountOwned, SellCheck
<1>6. ASSUME NEW th \in Threads, Validate(th) PROVE AdmissionInv'
  BY <1>6, ValidateCheckAdmission DEF Validate
<1>7. ASSUME NEW th \in Threads, ValidateMark(th) PROVE AdmissionInv'
  BY <1>7, ValidateMarkAdmission
<1>8. ASSUME NEW th \in Threads, Continue(th), ~ValidateMark(th)
      PROVE  AdmissionInv'
  <2>1. UNCHANGED admitted
    BY <1>8
    DEF Continue, BuyLookUp, BuyTakeOffSale, BuyAddTicket, BuyIsResold,
        BuyGetOld, BuyRemoveResell, BuyRemoveOld, SellList, SellMarkResell,
        history, on_sale, starts
  <2>2. \A code \in Codes : Admitting(code)' \subseteq Admitting(code)
    <3>1. CASE CallNext(th, Idle)
      BY <1>4, <3>1 DEF Idle
    <3>2. ASSUME NEW t, CallNext(th, [pc |-> "makeTicketUnavailable", t |-> t])
          PROVE  \A code \in Codes : Admitting(code)' \subseteq Admitting(code)
      BY <1>4, <3>2
    <3>3. CASE BuyLookUp(th)
      BY <3>1, <3>2, <3>3, ReturnIsNext DEF BuyLookUp
    <3>4. CASE BuyTakeOffSale(th)
      BY <1>4, <3>1, <3>4, ReturnIsNext DEF BuyTakeOffSale
    <3>5. CASE BuyAddTicket(th)
      BY <1>4, <3>1, <3>5, ReturnIsNext DEF BuyAddTicket
    <3>6. CASE BuyIsResold(th)
      BY <1>4, <3>1, <3>6, ReturnIsNext DEF BuyIsResold, Deliver
    <3>7. CASE BuyGetOld(th)
      BY <1>4, <3>7 DEF BuyGetOld
    <3>8. CASE BuyRemoveResell(th)
      BY <1>4, <3>8 DEF BuyRemoveResell
    <3>9. CASE SellList(th)
      BY <1>4, <3>1, <3>9, ReturnIsNext DEF SellList
    <3>10. CASE BuyRemoveOld(th) \/ SellMarkResell(th)
      BY <3>1, <3>10, ReturnIsNext DEF BuyRemoveOld, Deliver, SellMarkResell
    <3> QED
      BY <1>8, <3>3, <3>4, <3>5, <3>6, <3>7, <3>8, <3>9, <3>10 DEF Continue
  <2> QED
    BY <1>3, <2>1, <2>2
<1>9. CASE Restart
  <2>1. UNCHANGED admitted
    BY <1>9 DEF Restart, history
  <2>2. \A code \in Codes : Admitting(code)' \subseteq Admitting(code)
    BY <1>9 DEF Restart, Admitting, Idle
  <2> QED
    BY <1>3, <2>1, <2>2
<1>10. CASE UNCHANGED vars
  BY <1>3, <1>10 DEF vars, history, Admitting, on_sale, starts
<1> QED
  BY <1>5, <1>6, <1>7, <1>8, <1>9, <1>10 DEF Next
\* One code opens the door at most once for each connection and each failed
\* UPDATE (TicketService.cpp:83), however many validators present it at once.
THEOREM AdmissionBoundHolds == Spec => []AdmissionBound
<1>1. Init => AdmissionInv
  BY InitAdmission
<1>2. TypeOK /\ CodeInv /\ AdmissionInv /\ [Next]_vars => AdmissionInv'
  BY StepAdmission
<1>3. TypeOK /\ AdmissionInv => AdmissionBound
  <2> SUFFICES ASSUME TypeOK, AdmissionInv, NEW code \in Codes
               PROVE  admitted[code] <= Cardinality(Threads) + faults
    BY DEF AdmissionBound
  <2>1. /\ Cardinality(Admitting(code)) \in Nat
        /\ Cardinality(Threads) \in Nat
        /\ admitted[code] \in Nat /\ faults \in Nat
    BY CountedFinite, FS_CardinalityType DEF TypeOK
  <2> QED
    BY <2>1 DEF AdmissionInv
<1> QED
  BY <1>1, <1>2, <1>3, TypeCorrect, CodeInvariant, PTL DEF Spec

-----------------------------------------------------------------------------
(***************************************************************************)
(* Loss                                                                    *)
(***************************************************************************)

\* An id that is held stays held: a row is deleted only when another ticket of
\* its id is stored.
LEMMA HeldKept ==
  ASSUME TypeOK, CodeInv, [Next]_vars
  PROVE  HeldIds \subseteq HeldIds'
<1> SUFFICES ASSUME NEW h \in DOMAIN ticket
             PROVE  \E k \in DOMAIN ticket' :
                      TicketOf(ticket'[k]).ticketID = TicketOf(ticket[h]).ticketID
  BY DEF HeldIds, TicketOf
<1>1. CASE h \notin DOMAIN ticket'
  BY <1>1, DeletedIsReplaced
<1>2. CASE h \in DOMAIN ticket'
  <2>1. CASE \E th \in Threads : BuyAddTicket(th)
    BY <2>1 DEF BuyAddTicket, addNewTicket, Insert, InsertSucceeds
  <2>2. CASE \A th \in Threads : ~BuyAddTicket(th)
    BY <1>2, <2>2, RowsKept DEF TicketOf
  <2> QED
    BY <1>2, <2>1, <2>2
<1> QED
  BY <1>1, <1>2

LEMMA LostKept ==
  ASSUME TypeOK, NoTicketLost,
         faults \in Nat, faults' \in Nat, faults <= faults',
         LostIds' \subseteq LostIds
  PROVE  NoTicketLost'
<1>1. /\ Cardinality(LostIds') \in Nat /\ Cardinality(LostIds) \in Nat
      /\ Cardinality(LostIds') <= Cardinality(LostIds)
  BY CountedFinite, CardinalityMonotone
<1> QED
  BY <1>1 DEF NoTicketLost

\* Between the DELETE and the INSERT of a purchase its id is on the way.
LEMMA BuyTakeOffSaleLost ==
  ASSUME TypeOK, CodeInv, NEW th \in Threads, BuyTakeOffSale(th)
  PROVE  LostIds' \subseteq LostIds
<1>1. HeldIds' = HeldIds /\ listed' = listed
  BY DEF HeldIds, TicketOf, BuyTakeOffSale, starts
<1>2. call[th].pc = "makeTicketUnavailable"
  BY DEF BuyTakeOffSale
<1>3. PICK ok \in BOOLEAN :
        /\ makeTicketUnavailable(call[th].t.ticketID, ok)
        /\ IF ok THEN CallNext(th, [pc |-> "addNewTicket", t |-> call[th].t])
                 ELSE CallNext(th, Idle)
  BY ReturnIsNext DEF BuyTakeOffSale
<1>4. \A other \in Threads \ {th} : call'[other] = call[other]
  BY <1>3, OtherCalls DEF TypeOK
<1>5. BeingStored \subseteq BeingStored'
  BY <1>2, <1>4 DEF BeingStored, AtCall
<1>6. CASE ok
  <2>1. call'[th] = [pc |-> "addNewTicket", t |-> call[th].t]
    BY <1>3, <1>6, OtherCalls DEF TypeOK
  <2>2. call[th].t.ticketID \in BeingStored'
    BY <2>1 DEF BeingStored, AtCall
  <2>3. DOMAIN ticket_info \ {call[th].t.ticketID} \subseteq DOMAIN ticket_info'
    BY <1>3, <1>6 DEF makeTicketUnavailable, Delete
  <2> QED
    BY <1>1, <1>5, <2>2, <2>3 DEF LostIds
<1>7. CASE ~ok
  BY <1>1, <1>3, <1>5, <1>7 DEF LostIds, makeTicketUnavailable
<1> QED
  BY <1>6, <1>7

\* The key of the INSERT is private, so only a failure refuses the row.
LEMMA BuyAddTicketLost ==
  ASSUME TypeOK, CodeInv, NoTicketLost, NEW th \in Threads, BuyAddTicket(th),
         HeldIds \subseteq HeldIds'
  PROVE  NoTicketLost'
<1> DEFINE t == call[th].t
           h == ValCodeHash(t)
<1>1. PICK ok \in BOOLEAN :
        /\ Statement(ok)
        /\ addNewTicket(h, TicketHash(t), t.seat, t.buyerID, ok)
        /\ \/ CallNext(th, [pc |-> "isTicketInResell", t |-> t])
           \/ CallNext(th, Idle)
  BY ReturnIsNext DEF BuyAddTicket
<1>2. /\ faults \in Nat /\ faults' \in Nat /\ faults <= faults'
      /\ ~ok => faults' = faults + 1
  BY <1>1, StatementFaults DEF TypeOK
<1>3. \A other \in Threads \ {th} : call'[other] = call[other]
  BY <1>1, OtherCalls DEF TypeOK
<1>4. BeingStored \subseteq BeingStored' \cup {t.ticketID}
  BY <1>3 DEF BeingStored, AtCall
<1>5. UNCHANGED <<ticket_info, listed>>
  BY DEF BuyAddTicket, on_sale, starts
<1>6. CASE ok
  <2>1. h \notin DOMAIN ticket
    BY DEF BuyAddTicket, BuyHead, CodeInv, FreshCodes
  <2>2. h \in DOMAIN ticket' /\ TicketOf(ticket'[h]) = t
    BY <1>1, <1>6, <2>1
    DEF addNewTicket, Insert, InsertSucceeds, TicketOf, TicketHash, SHA256
  <2>3. t.ticketID \in HeldIds'
    BY <2>2 DEF HeldIds, TicketOf
  <2>4. LostIds' \subseteq LostIds
    BY <1>4, <1>5, <2>3 DEF LostIds
  <2> QED
    BY <1>2, <2>4, LostKept
<1>7. CASE ~ok
  <2>1. LostIds' \subseteq LostIds \cup {t.ticketID}
    BY <1>4, <1>5 DEF LostIds
  <2>2. /\ Cardinality(LostIds') \in Nat
        /\ Cardinality(LostIds') <= Cardinality(LostIds) + 1
    BY <2>1, CountedFinite, CardinalityByOne
  <2>3. Cardinality(LostIds) \in Nat
    BY CountedFinite, FS_CardinalityType
  <2> QED
    BY <1>2, <1>7, <2>2, <2>3 DEF NoTicketLost
<1> QED
  BY <1>6, <1>7

\* A start puts the ids it lists on sale; the others count only when the
\* TRUNCATE failed, and then their rows are still there.
LEMMA RestartLost ==
  ASSUME TypeOK, Restart, HeldIds \subseteq HeldIds'
  PROVE  LostIds' \subseteq LostIds
<1>1. PICK truncated \in BOOLEAN, k \in 0 .. CatalogueSize :
        /\ resetTickets(truncated, k)
        /\ listed' = next_id' - k .. next_id' - 1
                       \cup IF truncated THEN {} ELSE listed \ BeingStored
  BY DEF Restart
<1>2. /\ next_id' - k .. next_id' - 1 \subseteq DOMAIN ticket_info'
      /\ ~truncated => DOMAIN ticket_info \subseteq DOMAIN ticket_info'
  BY <1>1, RefillType DEF TypeOK, OnSaleType
<1> SUFFICES ASSUME NEW id \in LostIds' PROVE id \in LostIds
  OBVIOUS
<1>3. id \in listed' /\ id \notin DOMAIN ticket_info' /\ id \notin HeldIds'
  BY DEF LostIds
<1>4. ~truncated /\ id \in listed /\ id \notin BeingStored
  BY <1>1, <1>2, <1>3
<1> QED
  BY <1>2, <1>3, <1>4 DEF LostIds

LEMMA InitLost == Init => NoTicketLost
<1> SUFFICES ASSUME Init PROVE NoTicketLost
  OBVIOUS
<1>1. PICK k \in 0 .. CatalogueSize : /\ ticket_info \in Listings(1, k)
                                      /\ listed = 1 .. k
  BY DEF Init
<1>2. DOMAIN ticket_info = 1 .. k
  BY <1>1, CatalogueSizeType, ListingsType DEF TicketIds
<1>3. LostIds = {}
  BY <1>1, <1>2 DEF LostIds
<1>4. faults \in Nat
  BY InitType DEF TypeOK
<1> QED
  BY <1>3, <1>4, FS_EmptySet DEF NoTicketLost

\* Every step keeps the invariant.
LEMMA StepLost ==
  ASSUME TypeOK, CodeInv, NoTicketLost, [Next]_vars
  PROVE  NoTicketLost'
<1>1. faults \in Nat /\ faults' \in Nat /\ faults <= faults'
  BY FaultsGrow
<1>2. HeldIds \subseteq HeldIds'
  BY HeldKept
<1>3. ASSUME NEW th \in Threads, BuyAddTicket(th) PROVE NoTicketLost'
  BY <1>2, <1>3, BuyAddTicketLost
<1>4. ASSUME NEW th \in Threads, BuyTakeOffSale(th) PROVE NoTicketLost'
  BY <1>1, <1>4, BuyTakeOffSaleLost, LostKept
<1>5. ASSUME NEW th \in Threads, Continue(th),
             ~BuyAddTicket(th), ~BuyTakeOffSale(th)
      PROVE  NoTicketLost'
  <2>1. /\ DOMAIN ticket_info \subseteq DOMAIN ticket_info'
        /\ UNCHANGED listed
    BY <1>5
    DEF Continue, BuyLookUp, BuyIsResold, BuyGetOld, BuyRemoveResell,
        BuyRemoveOld, SellList, SellMarkResell, ValidateMark, tables,
        addTicketInfo, Insert, on_sale, starts
  <2>2. call[th].pc # "addNewTicket"
    BY <1>5
    DEF Continue, BuyLookUp, BuyIsResold, BuyGetOld, BuyRemoveResell,
        BuyRemoveOld, SellList, SellMarkResell, ValidateMark
  <2>3. \A other \in Threads \ {th} : call'[other] = call[other]
    BY <1>5
    DEF Continue, BuyLookUp, BuyIsResold, BuyGetOld, BuyRemoveResell,
        BuyRemoveOld, SellList, SellMarkResell, ValidateMark, Deliver, Return,
        CallNext, TypeOK
  <2>4. BeingStored \subseteq BeingStored'
    BY <2>2, <2>3 DEF BeingStored, AtCall
  <2>5. LostIds' \subseteq LostIds
    BY <1>2, <2>1, <2>4 DEF LostIds
  <2> QED
    BY <1>1, <2>5, LostKept
<1>6. ASSUME NEW th \in Threads, Buy(th) \/ Sell(th) \/ Validate(th)
      PROVE  NoTicketLost'
  <2>1. UNCHANGED <<ticket_info, listed>>
    BY <1>6 DEF Buy, Sell, Validate, BuyCountOwned, SellCheck, ValidateCheck,
                tables, on_sale, starts
  <2>2. call[th] = Idle /\ \A other \in Threads \ {th} : call'[other] = call[other]
    BY <1>6 DEF Buy, Sell, Validate, BuyCountOwned, SellCheck, ValidateCheck,
                CallNext, TypeOK
  <2>3. BeingStored \subseteq BeingStored'
    BY <2>2 DEF BeingStored, AtCall, Idle
  <2>4. LostIds' \subseteq LostIds
    BY <1>2, <2>1, <2>3 DEF LostIds
  <2> QED
    BY <1>1, <2>4, LostKept
<1>7. CASE Restart
  BY <1>1, <1>2, <1>7, RestartLost, LostKept
<1>8. CASE UNCHANGED vars
  <2>1. LostIds' = LostIds
    BY <1>8 DEF vars, tables, LostIds, HeldIds, BeingStored, AtCall,
                TicketOf, on_sale, starts
  <2> QED
    BY <1>1, <2>1, LostKept
<1> QED
  BY <1>3, <1>4, <1>5, <1>6, <1>7, <1>8 DEF Next

\* A listed id that is neither on sale, nor held, nor about to be stored was
\* lost by a failed statement (TicketService.cpp:49); no interleaving of
\* purchases, sales and starts, whole or broken off by a failed TRUNCATE or
\* INSERT, loses another.
THEOREM NoTicketLostHolds == Spec => []NoTicketLost
<1>1. Init => NoTicketLost
  BY InitLost
<1>2. TypeOK /\ CodeInv /\ NoTicketLost /\ [Next]_vars => NoTicketLost'
  BY StepLost
<1> QED
  BY <1>1, <1>2, TypeCorrect, CodeInvariant, PTL DEF Spec

\* The whole invariant, which the run of two connections checks on its
\* instance, is inductive: it holds in the first state and every step keeps it.
LEMMA IInvInductive == (Init => IInv) /\ (IInv /\ [Next]_vars => IInv')
<1>1. Init => IInv
  BY InitType, InitFaceValue, InitCode, InitLimit, InitLost, InitAdmission
  DEF IInv
<1>2. ASSUME IInv, [Next]_vars PROVE IInv'
  BY <1>2, StepType, StepFaceValue, StepCode, StepLimit, StepLost, StepAdmission
  DEF IInv
<1> QED
  BY <1>1, <1>2

\* Types, limit, prices, codes, losses and admissions hold together in every
\* reachable state, for every value of the constants.
THEOREM TicketInvariant == Spec => []IInv
<1> QED
  BY IInvInductive, PTL DEF Spec
=============================================================================
