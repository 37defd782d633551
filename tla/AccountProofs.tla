--------------------------- MODULE AccountProofs ---------------------------
(***************************************************************************)
(* For any names, collation, passwords, events, connections, failures and  *)
(* starts: the invariant IInv of Accounts, and from it everything the runs *)
(* check of accounts and events.                                           *)
(*                                                                         *)
(* For the accounts the argument is RowsAreSignUps, which ties every row   *)
(* of users to the sign-up that was accepted for it: a second INSERT for a *)
(* folded name is refused, and a log-in that passes compares a hash that   *)
(* only one spelling and one password give.  For the events it is          *)
(* EventsInPlace: a start inserts into an untouched table or is refused at *)
(* the first row, so the ids are the places, and rows are never changed.   *)
(***************************************************************************)
EXTENDS Accounts, FiniteSetTheorems, TLAPS

-----------------------------------------------------------------------------
(***************************************************************************)
(* The operators of the model.                                             *)
(***************************************************************************)

\* Distinct pairs of spelling and password have distinct hashes.
LEMMA SaltedInjective ==
  ASSUME NEW n, NEW p, NEW m, NEW q, Salted(n, p) = Salted(m, q)
  PROVE  n = m /\ p = q
PROOF BY DEF Salted

\* The dummy events are distinct, so each has one place, and each is spelled
\* as the collation stands for it.
LEMMA LoadedIsThePlace ==
  /\ DOMAIN Loaded = {DummyEvents[i] : i \in 1 .. Len(DummyEvents)}
  /\ \A i \in 1 .. Len(DummyEvents) : Loaded[DummyEvents[i]] = i
  /\ \A s \in DOMAIN Loaded : /\ Loaded[s] \in 1 .. Len(DummyEvents)
                              /\ s = DummyEvents[Loaded[s]]
                              /\ s \in EventNames /\ Fold[s] = s
PROOF
  <1>1. DOMAIN DummyEvents = 1 .. Len(DummyEvents)
    BY AccountAssumption
  <1>2. DOMAIN Loaded = {DummyEvents[i] : i \in 1 .. Len(DummyEvents)}
    BY <1>1 DEF Loaded
  <1>3. ASSUME NEW i \in 1 .. Len(DummyEvents)
        PROVE  Loaded[DummyEvents[i]] = i
    <2>1. DummyEvents[i] \in DOMAIN Loaded
      BY <1>2
    <2>2. Loaded[DummyEvents[i]] =
            CHOOSE j \in DOMAIN DummyEvents : DummyEvents[j] = DummyEvents[i]
      BY <2>1 DEF Loaded
    <2>3. \A j \in DOMAIN DummyEvents : DummyEvents[j] = DummyEvents[i] => j = i
      BY <1>1, AccountAssumption
    <2> QED BY <1>1, <2>2, <2>3
  <1> QED BY <1>1, <1>2, <1>3, AccountAssumption

\* There is a whole number of rows, none without an event.
LEMMA RowsType == Rows \in Nat /\ Len(DummyEvents) \in Nat
PROOF
  <1>1. Len(DummyEvents) \in Nat /\ TicketsPerEvent \in Nat
    BY AccountAssumption
  <1>2. \A a, b \in Nat : a * b \in Nat
    OBVIOUS
  <1> QED BY <1>1, <1>2 DEF Rows

\* Each row resetTickets inserts is for the id of an event.
LEMMA TicketRowsType ==
  ASSUME NEW from \in Nat, NEW k \in 0 .. Rows
  PROVE  /\ DOMAIN TicketRows(from, k) = from .. from + k - 1
         /\ \A id \in DOMAIN TicketRows(from, k) :
              TicketRows(from, k)[id] \in 1 .. Len(DummyEvents)
PROOF
  <1> DEFINE T == TicketsPerEvent
             L == Len(DummyEvents)
  <1>1. L \in Nat /\ T \in Nat \ {0} /\ k \in Nat /\ k <= L * T
    BY RowsType, AccountAssumption DEF Rows
  <1>2. \A d \in Nat : d < L * T => d \div T >= 0 /\ d \div T < L
    <2> HIDE DEF T, L
    <2> QED BY <1>1, Z3
  <1>3. ASSUME NEW id \in from .. from + k - 1
        PROVE  (id - from) \div T + 1 \in 1 .. L
    <2> DEFINE d == id - from
    <2>1. d \in Nat /\ d < L * T
      <3> DEFINE b == L * T
      <3>1. b \in Nat
        BY RowsType DEF Rows
      <3>2. k <= b
        BY <1>1
      <3> HIDE DEF b
      <3> QED BY <3>1, <3>2, <1>1
    <2>2. d \div T \in Int
      <3> HIDE DEF d, T, L
      <3> QED BY <1>1, <2>1
    <2> HIDE DEF d, T, L
    <2>3. d \div T >= 0 /\ d \div T < L
      BY <1>2, <2>1
    <2>4. d \div T + 1 \in 1 .. L
      BY <2>2, <2>3, <1>1
    <2> QED BY <2>4 DEF d
  <1> QED BY <1>3 DEF TicketRows

\* A statement adds at most one to the faults, within their bound.
LEMMA StatementType ==
  ASSUME faults \in 0 .. MaxFaults, NEW ok \in BOOLEAN, Statement(ok)
  PROVE  faults' \in 0 .. MaxFaults
PROOF BY AccountAssumption DEF Statement

\* The faults of a start are counted, at most one for each of its parts.
LEMMA StartFaults ==
  ASSUME faults \in Nat,
         NEW a \in BOOLEAN, NEW b \in BOOLEAN, NEW c \in BOOLEAN,
         NEW d \in BOOLEAN
  PROVE  faults + Cardinality({step \in {<<1, a>>, <<2, b>>, <<3, c>>, <<4, d>>} :
                                ~step[2]}) \in Nat
PROOF
  <1> DEFINE All == {<<1, a>>, <<2, b>>, <<3, c>>, <<4, d>>}
             Failed == {step \in All : ~step[2]}
  <1>1. IsFiniteSet({})
    BY FS_EmptySet
  <1>2. IsFiniteSet({} \cup {<<1, a>>})
    BY <1>1, FS_AddElement
  <1>3. IsFiniteSet(({} \cup {<<1, a>>}) \cup {<<2, b>>})
    BY <1>2, FS_AddElement
  <1>4. IsFiniteSet((({} \cup {<<1, a>>}) \cup {<<2, b>>}) \cup {<<3, c>>})
    BY <1>3, FS_AddElement
  <1>5. IsFiniteSet(((({} \cup {<<1, a>>}) \cup {<<2, b>>}) \cup {<<3, c>>})
                      \cup {<<4, d>>})
    BY <1>4, FS_AddElement
  <1>6. Failed \subseteq ((({} \cup {<<1, a>>}) \cup {<<2, b>>}) \cup {<<3, c>>})
                           \cup {<<4, d>>}
    OBVIOUS
  <1>7. IsFiniteSet(Failed)
    BY <1>5, <1>6, FS_Subset
  <1>8. Cardinality(Failed) \in Nat
    BY <1>7, FS_CardinalityType
  <1> HIDE DEF Failed, All
  <1>9. faults + Cardinality(Failed) \in Nat
    BY <1>8
  <1> QED BY <1>9 DEF Failed, All

\* addDummyEvents of an events table that is in place leaves it in place, keeps
\* its rows, and only adds dummy events (EventRepository.cpp:68).
LEMMA AddDummyEventsInPlace ==
  ASSUME EventsInPlace, \A s \in DOMAIN events : events[s] \in Nat,
         next_event \in Nat, NEW n \in 0 .. Len(DummyEvents),
         NEW ok \in BOOLEAN, addDummyEvents(n, ok)
  PROVE  /\ DOMAIN events \subseteq DOMAIN events'
         /\ \A s \in DOMAIN events : events'[s] = events[s]
         /\ DOMAIN events' \subseteq DOMAIN Loaded
         /\ \A s \in DOMAIN events' : events'[s] = Loaded[s] /\ events'[s] \in Nat
         /\ next_event' \in Nat
         /\ DOMAIN events' = {} => next_event' = 1
         /\ DOMAIN events' # {} => Present(1)'
PROOF
  <1>0. Len(DummyEvents) \in Nat
    BY RowsType
  <1>1. /\ DOMAIN events' =
             DOMAIN events \cup {DummyEvents[i] : i \in 1 .. n}
        /\ \A s \in DOMAIN events : events'[s] = events[s]
        /\ \A s \in DOMAIN events' \ DOMAIN events :
             events'[s] = next_event + Loaded[s] - 1
    BY DEF addDummyEvents
  <1>2. next_event' \in Nat
    BY <1>0 DEF addDummyEvents
  <1>3. \A s \in DOMAIN events :
          s \in DOMAIN Loaded /\ events[s] = Loaded[s]
    BY DEF EventsInPlace, EventIdsOfCatalogue
  <1>4. CASE DOMAIN events # {}
    <2>1. Present(1)
      BY <1>4 DEF EventsInPlace
    <2>2. n = 0
      <3>1. \A i \in 1 .. n : ~Present(i)
        BY DEF addDummyEvents
      <3> QED BY <2>1, <3>1, <1>0
    <2>3. DOMAIN events' = DOMAIN events
      <3>1. {DummyEvents[i] : i \in 1 .. n} = {}
        BY <2>2
      <3> QED BY <1>1, <3>1
    <2>4. Present(1)'
      BY <2>1, <2>3 DEF Present
    <2> QED BY <1>1, <1>2, <1>3, <1>4, <2>3, <2>4
  <1>5. CASE DOMAIN events = {}
    <2>1. next_event = 1
      BY <1>5 DEF EventsInPlace
    <2>2. DOMAIN events' \subseteq DOMAIN Loaded
      BY <1>0, <1>1, <1>5, LoadedIsThePlace
    <2>3. ASSUME NEW s \in DOMAIN events'
          PROVE  events'[s] = Loaded[s] /\ events'[s] \in Nat
      <3>1. Loaded[s] \in 1 .. Len(DummyEvents)
        BY <2>2, LoadedIsThePlace
      <3>2. events'[s] = next_event + Loaded[s] - 1
        BY <1>1, <1>5
      <3> QED BY <1>0, <2>1, <3>1, <3>2
    <2>4. CASE n = 0
      <3>1. DOMAIN events' = {}
        BY <1>1, <1>5, <2>4
      <3>2. ~(ok /\ n < Len(DummyEvents))
        BY <1>0, <1>5, <2>4 DEF addDummyEvents, Present
      <3>3. next_event' = 1
        BY <2>1, <2>4, <3>2 DEF addDummyEvents
      <3> QED BY <1>1, <1>2, <1>5, <2>2, <2>3, <3>1, <3>3
    <2>5. CASE n # 0
      <3>1. DummyEvents[1] \in DOMAIN events'
        BY <1>0, <1>1, <2>5
      <3> QED BY <1>1, <1>2, <1>5, <2>2, <2>3, <3>1 DEF Present
    <2> QED BY <2>4, <2>5
  <1> QED BY <1>4, <1>5

\* resetTickets leaves every row of ticket_info for an event, under an id
\* already given out, and the whole table when no statement of it failed
\* (TicketRepository.cpp:35).
LEMMA ResetTicketsType ==
  ASSUME \A id \in DOMAIN on_sale : /\ id \in 1 .. next_ticket - 1
                                    /\ on_sale[id] \in 1 .. Len(DummyEvents),
         next_ticket \in Nat \ {0}, NEW truncated \in BOOLEAN,
         NEW k \in 0 .. Rows, resetTickets(truncated, k)
  PROVE  /\ next_ticket' \in Nat \ {0}
         /\ \A id \in DOMAIN on_sale' :
              /\ id \in 1 .. next_ticket' - 1
              /\ on_sale'[id] \in 1 .. Len(DummyEvents)
         /\ CleanIsFull'
PROOF
  <1> DEFINE kept == IF truncated THEN << >> ELSE on_sale
             from == IF truncated THEN 1 ELSE next_ticket
  <1>0. Rows \in Nat /\ k \in Nat
    BY RowsType
  <1>1. /\ on_sale' = Overlay(kept, TicketRows(from, k))
        /\ next_ticket' = from + k
        /\ clean' = (truncated /\ k = Rows)
    BY DEF resetTickets
  <1>2. from \in Nat \ {0}
    OBVIOUS
  <1>3. \A id \in DOMAIN kept :
          id \in 1 .. from - 1 /\ kept[id] \in 1 .. Len(DummyEvents)
    OBVIOUS
  <1>4. /\ DOMAIN TicketRows(from, k) = from .. from + k - 1
        /\ \A id \in DOMAIN TicketRows(from, k) :
             TicketRows(from, k)[id] \in 1 .. Len(DummyEvents)
    BY <1>2, TicketRowsType
  <1>5. CleanIsFull'
    <2>1. SUFFICES ASSUME clean' PROVE on_sale' = TicketRows(1, Rows)
      BY DEF CleanIsFull, TicketRows, Rows
    <2>2. truncated /\ k = Rows
      BY <1>1, <2>1
    <2>3. on_sale' = Overlay(<< >>, TicketRows(1, Rows))
      BY <1>1, <2>2
    <2>4. Overlay(<< >>, TicketRows(1, Rows)) = TicketRows(1, Rows)
      BY DEF Overlay, TicketRows
    <2> QED BY <2>3, <2>4
  <1> HIDE DEF kept, from
  <1>6. /\ DOMAIN on_sale' = DOMAIN kept \cup (from .. from + k - 1)
        /\ \A id \in DOMAIN on_sale' :
             on_sale'[id] = IF id \in DOMAIN kept THEN kept[id]
                                                  ELSE TicketRows(from, k)[id]
    BY <1>1, <1>4 DEF Overlay
  <1>7. ASSUME NEW id \in DOMAIN on_sale'
        PROVE  /\ id \in 1 .. next_ticket' - 1
               /\ on_sale'[id] \in 1 .. Len(DummyEvents)
    <2>1. CASE id \in DOMAIN kept
      BY <1>0, <1>1, <1>2, <1>3, <1>6, <2>1
    <2>2. CASE id \notin DOMAIN kept
      BY <1>0, <1>1, <1>2, <1>4, <1>6, <2>2
    <2> QED BY <2>1, <2>2
  <1> QED BY <1>0, <1>1, <1>2, <1>5, <1>7
-----------------------------------------------------------------------------
(***************************************************************************)
(* The steps.                                                              *)
(***************************************************************************)

\* The calls a thread may be at.
Calls ==
  {Idle} \cup [pc : {"createUser"}, name : Names, password : Passwords]
    \cup [pc : {"getUserId"}, name : Names, event : EventNames, eventID : Nat]

\* Before the first start the tables are as the dump of src/db loads them.
LEMMA InitInv == Init => IInv
PROOF
  <1> SUFFICES ASSUME Init PROVE IInv
    OBVIOUS
  <1>0. Len(DummyEvents) \in Nat /\ Rows \in Nat
    BY RowsType
  <1>1. \A s \in DOMAIN events :
          s \in DOMAIN Loaded /\ events[s] = Loaded[s] /\ events[s] \in Nat
    BY <1>0, LoadedIsThePlace DEF Init
  <1>2. EventsInPlace
    <2>1. DOMAIN eventCache = {}
      BY DEF Init
    <2>2. CASE events = << >> /\ next_event = 1
      BY <1>1, <2>1, <2>2 DEF EventsInPlace, EventIdsOfCatalogue
    <2>3. CASE events = Loaded /\ next_event = Len(DummyEvents) + 1
      <3>1. CASE Len(DummyEvents) = 0
        <4>1. DOMAIN events = {}
          BY <2>3, <3>1, LoadedIsThePlace
        <4> QED
          BY <1>1, <2>1, <2>3, <3>1, <4>1 DEF EventsInPlace, EventIdsOfCatalogue
      <3>2. CASE Len(DummyEvents) # 0
        <4>1. Present(1)
          BY <1>0, <2>3, <3>2, LoadedIsThePlace DEF Present
        <4> QED
          BY <1>1, <2>1, <4>1 DEF EventsInPlace, EventIdsOfCatalogue, Present
      <3> QED BY <3>1, <3>2
    <2> QED BY <2>2, <2>3 DEF Init
  <1>3. \A id \in DOMAIN on_sale : /\ id \in 1 .. next_ticket - 1
                                   /\ on_sale[id] \in 1 .. Len(DummyEvents)
    <2>1. /\ on_sale = TicketRows(1, Rows)
          /\ next_ticket = Rows + 1
      BY DEF Init
    <2>2. Rows \in 0 .. Rows /\ 1 \in Nat
      BY <1>0
    <2>3. /\ DOMAIN on_sale = 1 .. 1 + Rows - 1
          /\ \A id \in DOMAIN on_sale : on_sale[id] \in 1 .. Len(DummyEvents)
      BY <2>1, <2>2, TicketRowsType
    <2> QED BY <1>0, <2>1, <2>3
  <1>4. TypeOK
    BY <1>0, <1>1, <1>3, AccountAssumption DEF TypeOK, Init
  <1>5. RowsAreSignUps /\ SignedInAsRegistered /\ ServedForSelf
    BY DEF Init, RowsAreSignUps, SignedInAsRegistered, ServedForSelf
  <1>6. BuyersAreServable /\ CleanIsFull
    BY DEF Init, BuyersAreServable, CleanIsFull, Idle
  <1> QED BY <1>2, <1>4, <1>5, <1>6 DEF IInv

\* A thread that goes on to a call leaves the calls typed and every other
\* thread where it was.
LEMMA CallsStayTyped ==
  ASSUME call \in [Threads -> Calls], NEW th \in Threads, NEW c \in Calls,
         call' = [call EXCEPT ![th] = c]
  PROVE  /\ call' \in [Threads -> Calls]
         /\ \A u \in Threads : u # th => call'[u] = call[u]
         /\ call'[th] = c
PROOF OBVIOUS

\* Going back to idle leaves the purchases under way as they are.
LEMMA ReturnKeepsBuyers ==
  ASSUME IInv, NEW th \in Threads, Return(th), events' = events,
         registered \subseteq registered'
  PROVE  call' \in [Threads -> Calls] /\ BuyersAreServable'
PROOF
  <1>1. Idle \in Calls
    BY DEF Calls
  <1>2. call \in [Threads -> Calls]
    BY DEF IInv, TypeOK, Calls
  <1>3. /\ call' \in [Threads -> Calls]
        /\ \A u \in Threads : u # th => call'[u] = call[u]
        /\ call'[th] = Idle
    BY <1>1, <1>2, CallsStayTyped DEF Return
  <1> QED BY <1>3 DEF IInv, BuyersAreServable, Idle

\* The first statement of a sign-up changes no table.
LEMMA SignUpFindKeepsInv ==
  ASSUME IInv, NEW th \in Threads, NEW name \in Names,
         NEW password \in Passwords, SignUpFind(th, name, password)
  PROVE  IInv'
PROOF
  <1>0. call \in [Threads -> Calls]
    BY DEF IInv, TypeOK, Calls
  <1>1. /\ UNCHANGED <<database, eventCache, starts, registered, signed_in,
                       served>>
        /\ faults' \in 0 .. MaxFaults
    BY StatementType DEF SignUpFind, IInv, TypeOK
  <1>2. call' \in [Threads -> Calls] /\ BuyersAreServable'
    <2> DEFINE c == [pc |-> "createUser", name |-> name, password |-> password]
    <2>1. CASE UNCHANGED call
      BY <1>0, <1>1, <2>1
         DEF IInv, BuyersAreServable, database
    <2>2. CASE call' = [call EXCEPT ![th] = c]
      <3>1. c \in Calls /\ c.pc = "createUser"
        BY DEF Calls
      <3> HIDE DEF c
      <3>2. /\ call' \in [Threads -> Calls]
            /\ \A u \in Threads : u # th => call'[u] = call[u]
            /\ call'[th] = c
        BY <1>0, <2>2, <3>1, CallsStayTyped
      <3> QED BY <1>1, <3>1, <3>2 DEF IInv, BuyersAreServable, database
    <2> QED BY <2>1, <2>2 DEF SignUpFind, CallNext
  <1> QED
    BY <1>1, <1>2 DEF IInv, TypeOK, Calls, RowsAreSignUps, SignedInAsRegistered,
         EventsInPlace, EventIdsOfCatalogue, Present, ServedForSelf,
         CleanIsFull, database, catalogue

\* createUser either leaves the three variables of the accounts alone or adds
\* one account to each, under a folded name that was not in the table.
LEMMA SignUpCreateKeepsInv ==
  ASSUME IInv, NEW th \in Threads, SignUpCreate(th)
  PROVE  IInv'
PROOF
  <1>1. /\ UNCHANGED <<events, next_event, catalogue, eventCache, starts, served>>
        /\ registered \subseteq registered'
        /\ Return(th)
    BY DEF SignUpCreate
  <1>2. call' \in [Threads -> Calls] /\ BuyersAreServable'
    BY <1>1, ReturnKeepsBuyers
  <1>3. faults' \in 0 .. MaxFaults
    BY StatementType DEF SignUpCreate, IInv, TypeOK
  <1>4. EventsInPlace' /\ ServedForSelf' /\ CleanIsFull'
    BY <1>1 DEF IInv, EventsInPlace, EventIdsOfCatalogue, Present,
                ServedForSelf, CleanIsFull, catalogue
  <1>5. ASSUME RowsAreSignUps', SignedInAsRegistered', registered' \subseteq Account,
               \A k \in DOMAIN users' : users'[k].id \in UserIds
        PROVE  IInv'
    <2>1. signed_in' \subseteq Account
      BY <1>5 DEF SignedInAsRegistered
    <2>2. \A k \in DOMAIN users' : k \in {Fold[name] : name \in Names}
      BY <1>5 DEF RowsAreSignUps, Account
    <2>3. TypeOK'
      BY <1>1, <1>2, <1>3, <1>5, <2>1, <2>2 DEF IInv, TypeOK, Calls, catalogue
    <2> QED BY <1>2, <1>4, <1>5, <2>3 DEF IInv
  <1>6. CASE UNCHANGED <<users, registered, signed_in>>
    BY <1>5, <1>6 DEF IInv, TypeOK, RowsAreSignUps, SignedInAsRegistered
  <1>7. CASE ~UNCHANGED <<users, registered, signed_in>>
    <2> DEFINE name == call[th].name
               password == call[th].password
    <2>1. PICK id \in UserIds :
            /\ Fold[name] \notin DOMAIN users
            /\ users' = Put(users, Fold[name],
                            [id |-> id, password |-> Salted(name, password)])
            /\ registered' = registered \cup
                 {[name |-> name, password |-> password, id |-> id]}
            /\ signed_in' = signed_in \cup
                 {[name |-> name, password |-> password, id |-> id]}
      BY <1>7 DEF SignUpCreate
    <2> DEFINE account == [name |-> name, password |-> password, id |-> id]
    <2>2. name \in Names /\ password \in Passwords
      BY DEF IInv, TypeOK, SignUpCreate, Idle
    <2>3. registered' \subseteq Account
      BY <2>1, <2>2 DEF IInv, TypeOK, Account
    <2>4. SignedInAsRegistered'
      BY <2>1 DEF IInv, SignedInAsRegistered
    <2>5. /\ DOMAIN users' = DOMAIN users \cup {Fold[name]}
          /\ users'[Fold[name]] =
               [id |-> id, password |-> Salted(name, password)]
          /\ \A k \in DOMAIN users : users'[k] = users[k]
      BY <2>1 DEF Put
    <2>6. ASSUME NEW a \in registered'
          PROVE  /\ Fold[a.name] \in DOMAIN users'
                 /\ users'[Fold[a.name]].id = a.id
                 /\ users'[Fold[a.name]].password = Salted(a.name, a.password)
      <3>1. CASE a \in registered
        BY <3>1, <2>5 DEF IInv, RowsAreSignUps
      <3>2. CASE a = account
        <4>1. a.name = name /\ a.password = password /\ a.id = id
          BY <3>2
        <4> QED BY <4>1, <2>5
      <3> QED BY <3>1, <3>2, <2>1
    <2>7. ASSUME NEW k \in DOMAIN users'
          PROVE  (\E a \in registered' : Fold[a.name] = k)
                   /\ users'[k].id \in UserIds
      <3>1. CASE k \in DOMAIN users
        BY <3>1, <2>1, <2>5 DEF IInv, TypeOK, RowsAreSignUps
      <3>2. CASE k = Fold[name]
        <4>1. account \in registered' /\ account.name = name
          BY <2>1
        <4> QED BY <3>2, <4>1, <2>5
      <3> QED BY <3>1, <3>2, <2>5
    <2>8. RowsAreSignUps'
      BY <2>6, <2>7 DEF RowsAreSignUps
    <2> QED BY <1>5, <2>3, <2>4, <2>7, <2>8
  <1> QED BY <1>6, <1>7

\* A log-in that passes is one of the accepted sign-ups, field by field.
LEMMA LogInKeepsInv ==
  ASSUME IInv, NEW th \in Threads, NEW name \in Names,
         NEW password \in Passwords, LogIn(th, name, password)
  PROVE  IInv'
PROOF
  <1>1. /\ UNCHANGED <<database, eventCache, call, starts, registered, served>>
        /\ faults' \in 0 .. MaxFaults
    BY StatementType DEF LogIn, IInv, TypeOK
  <1>2. signed_in' \subseteq registered
    <2>1. CASE UNCHANGED signed_in
      BY <2>1 DEF IInv, SignedInAsRegistered
    <2>2. CASE ~UNCHANGED signed_in
      <3>1. /\ Fold[name] \in DOMAIN users
            /\ users[Fold[name]].password = Salted(name, password)
            /\ signed_in' = signed_in \cup
                 {[name |-> name, password |-> password,
                   id |-> users[Fold[name]].id]}
        BY <2>2 DEF LogIn
      <3>2. PICK a \in registered : Fold[a.name] = Fold[name]
        BY <3>1 DEF IInv, RowsAreSignUps
      <3>3. /\ users[Fold[name]].id = a.id
            /\ Salted(a.name, a.password) = Salted(name, password)
        BY <3>1, <3>2 DEF IInv, RowsAreSignUps
      <3>4. a.name = name /\ a.password = password
        BY <3>3, SaltedInjective
      <3>5. a = [name |-> name, password |-> password,
                 id |-> users[Fold[name]].id]
        BY <3>3, <3>4 DEF IInv, TypeOK, Account
      <3> QED BY <3>1, <3>5 DEF IInv, SignedInAsRegistered
    <2> QED BY <2>1, <2>2
  <1>3. signed_in' \subseteq Account
    BY <1>2 DEF IInv, TypeOK
  <1>4. TypeOK'
    BY <1>1, <1>3 DEF IInv, TypeOK, database, catalogue
  <1> QED
    BY <1>1, <1>2, <1>4 DEF IInv, RowsAreSignUps, SignedInAsRegistered,
         EventsInPlace, EventIdsOfCatalogue, Present, ServedForSelf,
         BuyersAreServable, CleanIsFull, database, catalogue

\* getEventByName answers the id of the table, from the cache or from the table
\* itself, and what it caches is of the table (EventService.cpp:17).
LEMMA BuyGetEventKeepsInv ==
  ASSUME IInv, NEW th \in Threads, NEW session \in signed_in,
         NEW event \in EventNames, BuyGetEvent(th, session.name, event)
  PROVE  IInv'
PROOF
  <1> DEFINE name == session.name
  <1>0. call \in [Threads -> Calls] /\ name \in Names
        /\ \E a \in registered : a.name = name
    BY DEF IInv, TypeOK, Calls, Account, SignedInAsRegistered
  <1>1. /\ UNCHANGED <<database, starts, registered, signed_in, served>>
        /\ faults' \in 0 .. MaxFaults
    BY StatementType DEF BuyGetEvent, IInv, TypeOK
  <1>2. \A s \in DOMAIN events : /\ s \in DOMAIN Loaded /\ events[s] = Loaded[s]
                                 /\ events[s] \in Nat
    BY DEF IInv, TypeOK, EventsInPlace, EventIdsOfCatalogue
  <1>3. \A s \in DOMAIN eventCache : /\ Fold[s] \in DOMAIN events
                                     /\ eventCache[s] = events[Fold[s]]
    BY <1>2 DEF IInv, EventsInPlace, EventIdsOfCatalogue
  <1>4. \/ /\ Fold[event] \in DOMAIN events
           /\ CallNext(th, [pc |-> "getUserId", name |-> name, event |-> event,
                            eventID |-> events[Fold[event]]])
        \/ UNCHANGED call
    BY <1>3 DEF BuyGetEvent
  <1>5. /\ DOMAIN eventCache' \subseteq EventNames
        /\ \A s \in DOMAIN eventCache' : /\ Fold[s] \in DOMAIN events
                                         /\ eventCache'[s] = events[Fold[s]]
    <2>1. CASE UNCHANGED eventCache
      BY <1>3, <2>1 DEF IInv, TypeOK
    <2>2. CASE Fold[event] \in DOMAIN events
               /\ eventCache' = Put(eventCache, event, events[Fold[event]])
      <3>1. /\ DOMAIN eventCache' = DOMAIN eventCache \cup {event}
            /\ eventCache'[event] = events[Fold[event]]
            /\ \A k \in DOMAIN eventCache \ {event} :
                 eventCache'[k] = eventCache[k]
        BY <2>2 DEF Put
      <3> QED BY <1>3, <2>2, <3>1 DEF IInv, TypeOK
    <2> QED BY <2>1, <2>2 DEF BuyGetEvent
  <1>6. call' \in [Threads -> Calls] /\ BuyersAreServable'
    <2>1. CASE UNCHANGED call
      BY <1>0, <1>1, <2>1 DEF IInv, BuyersAreServable, database
    <2>2. CASE ~UNCHANGED call
      <3> DEFINE c == [pc |-> "getUserId", name |-> name, event |-> event,
                       eventID |-> events[Fold[event]]]
      <3>1. Fold[event] \in DOMAIN events /\ call' = [call EXCEPT ![th] = c]
        BY <1>4, <2>2 DEF CallNext
      <3>2. /\ c \in Calls /\ c.name = name /\ c.event = event
            /\ c.eventID = events[Fold[event]]
        BY <1>0, <1>2, <3>1 DEF Calls
      <3> HIDE DEF c
      <3>3. /\ call' \in [Threads -> Calls]
            /\ \A u \in Threads : u # th => call'[u] = call[u]
            /\ call'[th] = c
        BY <1>0, <3>1, <3>2, CallsStayTyped
      <3> HIDE DEF name
      <3>4. ASSUME NEW u \in Threads, call'[u].pc = "getUserId"
            PROVE  /\ \E a \in registered : a.name = call'[u].name
                   /\ Fold[call'[u].event] \in DOMAIN events
                   /\ call'[u].eventID = events[Fold[call'[u].event]]
        <4>1. CASE u = th
          BY <1>0, <3>1, <3>2, <3>3, <4>1
        <4>2. CASE u # th
          BY <3>3, <3>4, <4>2 DEF IInv, BuyersAreServable
        <4> QED BY <4>1, <4>2
      <3> QED BY <1>1, <3>3, <3>4 DEF BuyersAreServable, database
    <2> QED BY <2>1, <2>2
  <1>7. EventsInPlace'
    BY <1>1, <1>2, <1>5
       DEF IInv, EventsInPlace, EventIdsOfCatalogue, Present, database
  <1>8. TypeOK'
    BY <1>1, <1>5, <1>6 DEF IInv, TypeOK, Calls, database, catalogue
  <1> QED
    BY <1>1, <1>6, <1>7, <1>8 DEF IInv, RowsAreSignUps, SignedInAsRegistered,
         ServedForSelf, CleanIsFull, database, catalogue

\* The id of a purchase is that of the row of the name (UserService.cpp:45).
LEMMA BuyGetUserIdKeepsInv ==
  ASSUME IInv, NEW th \in Threads, BuyGetUserId(th)
  PROVE  IInv'
PROOF
  <1>1. /\ UNCHANGED <<database, eventCache, starts, registered, signed_in>>
        /\ faults' \in 0 .. MaxFaults
        /\ Return(th)
    BY StatementType DEF BuyGetUserId, IInv, TypeOK
  <1>2. call' \in [Threads -> Calls] /\ BuyersAreServable'
    BY <1>1, ReturnKeepsBuyers DEF database
  <1>3. /\ served' \subseteq [name : Names, event : EventNames, eventID : Nat,
                              id : UserIds]
        /\ ServedForSelf'
    <2>1. CASE UNCHANGED served
      BY <1>1, <2>1 DEF IInv, TypeOK, ServedForSelf, database
    <2>2. CASE ~UNCHANGED served
      <3> DEFINE s == [name |-> call[th].name, event |-> call[th].event,
                       eventID |-> call[th].eventID,
                       id |-> users[Fold[call[th].name]].id]
      <3>1. /\ Fold[call[th].name] \in DOMAIN users
            /\ served' = served \cup {s}
        BY <2>2 DEF BuyGetUserId
      <3>2. /\ call[th].name \in Names /\ call[th].event \in EventNames
            /\ call[th].eventID \in Nat
        BY DEF IInv, TypeOK, BuyGetUserId, Idle
      <3>3. /\ \E a \in registered : a.name = call[th].name
            /\ Fold[call[th].event] \in DOMAIN events
            /\ call[th].eventID = events[Fold[call[th].event]]
        BY DEF IInv, BuyersAreServable, BuyGetUserId
      <3>4. PICK a \in registered : a.name = call[th].name
        BY <3>3
      <3>5. users[Fold[call[th].name]].id = a.id
        BY <3>4 DEF IInv, RowsAreSignUps
      <3>6. /\ s \in [name : Names, event : EventNames, eventID : Nat,
                      id : UserIds]
            /\ a.name = s.name /\ a.id = s.id
            /\ Fold[s.event] \in DOMAIN events /\ s.eventID = events[Fold[s.event]]
        BY <3>1, <3>2, <3>3, <3>4, <3>5 DEF IInv, TypeOK
      <3> HIDE DEF s
      <3> QED BY <1>1, <3>1, <3>6 DEF IInv, TypeOK, ServedForSelf, database
    <2> QED BY <2>1, <2>2
  <1>4. TypeOK'
    BY <1>1, <1>2, <1>3 DEF IInv, TypeOK, Calls, database, catalogue
  <1> QED
    BY <1>1, <1>2, <1>3, <1>4 DEF IInv, RowsAreSignUps, SignedInAsRegistered,
         EventsInPlace, EventIdsOfCatalogue, Present, CleanIsFull, database,
         catalogue

\* A start keeps the events in their places and the cache with them, and ends
\* every call (Server.cpp:40-60).
LEMMA StartKeepsInv == ASSUME IInv, Start PROVE IInv'
PROOF
  <1>1. /\ UNCHANGED <<users, registered, served>>
        /\ signed_in' = {} /\ call' = [th \in Threads |-> Idle]
        /\ starts < MaxStarts /\ starts' = starts + 1
    BY DEF Start
  <1>2. PICK inserted \in BOOLEAN, read \in BOOLEAN, truncated \in BOOLEAN,
             filled \in BOOLEAN :
          /\ faults' = faults + Cardinality({step \in {<<1, inserted>>, <<2, read>>,
                          <<3, truncated>>, <<4, filled>>} : ~step[2]})
          /\ faults' <= MaxFaults
          /\ \E n \in 0 .. Len(DummyEvents) : addDummyEvents(n, inserted)
          /\ \E k \in 0 .. Rows : filled = (k = Rows) /\ resetTickets(truncated, k)
          /\ eventCache' = IF read THEN events' ELSE << >>
    BY DEF Start
  <1>3. faults' \in 0 .. MaxFaults
    <2>1. faults \in Nat
      BY DEF IInv, TypeOK
    <2>2. faults' \in Nat
      BY <1>2, <2>1, StartFaults
    <2> QED BY <1>2, <2>2, AccountAssumption
  <1>4. /\ DOMAIN events \subseteq DOMAIN events'
        /\ \A s \in DOMAIN events : events'[s] = events[s]
        /\ DOMAIN events' \subseteq DOMAIN Loaded
        /\ \A s \in DOMAIN events' : events'[s] = Loaded[s] /\ events'[s] \in Nat
        /\ next_event' \in Nat
        /\ DOMAIN events' = {} => next_event' = 1
        /\ DOMAIN events' # {} => Present(1)'
    BY <1>2, AddDummyEventsInPlace DEF IInv, TypeOK
  <1>5. /\ next_ticket' \in Nat \ {0}
        /\ \A id \in DOMAIN on_sale' :
             /\ id \in 1 .. next_ticket' - 1
             /\ on_sale'[id] \in 1 .. Len(DummyEvents)
        /\ CleanIsFull'
    BY <1>2, ResetTicketsType DEF IInv, TypeOK
  <1>6. \A s \in DOMAIN eventCache' :
          /\ s \in EventNames /\ Fold[s] \in DOMAIN events'
          /\ eventCache'[s] = Loaded[Fold[s]]
    <2>1. CASE read
      <3>1. eventCache' = events'
        BY <1>2, <2>1
      <3> QED BY <1>4, <3>1, LoadedIsThePlace
    <2>2. CASE ~read
      BY <1>2, <2>2
    <2> QED BY <2>1, <2>2
  <1>7. starts' \in 0 .. MaxStarts
    BY <1>1, AccountAssumption DEF IInv, TypeOK
  <1>8. EventsInPlace'
    BY <1>4, <1>6 DEF EventsInPlace, EventIdsOfCatalogue
  <1>9. ServedForSelf'
    BY <1>1, <1>4 DEF IInv, ServedForSelf
  <1>10. TypeOK'
    BY <1>1, <1>3, <1>4, <1>5, <1>6, <1>7 DEF IInv, TypeOK
  <1>11. BuyersAreServable' /\ RowsAreSignUps' /\ SignedInAsRegistered'
    BY <1>1 DEF IInv, BuyersAreServable, RowsAreSignUps, SignedInAsRegistered,
                Idle
  <1> QED BY <1>5, <1>8, <1>9, <1>10, <1>11 DEF IInv

\* No step takes a sign-up back, changes a row or signs in a stranger, moves an
\* event or sells in another's name.
LEMMA StepKeepsInv == IInv /\ [Next]_vars => IInv'
PROOF
  <1> SUFFICES ASSUME IInv, [Next]_vars PROVE IInv'
    OBVIOUS
  <1>1. CASE UNCHANGED vars
    BY <1>1 DEF vars, database, catalogue, IInv, TypeOK, RowsAreSignUps,
         SignedInAsRegistered, EventsInPlace, EventIdsOfCatalogue, Present,
         BuyersAreServable, ServedForSelf, CleanIsFull
  <1> QED
    BY <1>1, StartKeepsInv, SignUpFindKeepsInv, SignUpCreateKeepsInv,
       LogInKeepsInv, BuyGetEventKeepsInv, BuyGetUserIdKeepsInv
       DEF Next, ThreadStep

-----------------------------------------------------------------------------
(***************************************************************************)
(* The theorems.                                                           *)
(***************************************************************************)

\* Tables, cache, calls and histories agree in every reachable state.
THEOREM AccountInvariant == Spec => []IInv
PROOF BY InitInv, StepKeepsInv, PTL DEF Spec

\* The tables have the keys of their collation, and no failed lookup leaves an
\* id that is none (UserService.cpp:45).
THEOREM AccountTypeCorrect == Spec => []TypeOK
PROOF
  <1>1. IInv => TypeOK
    BY DEF IInv
  <1> QED BY <1>1, AccountInvariant, PTL

\* From the table being that of the accepted sign-ups: two accepted sign-ups
\* for one name are one sign-up (UserService.cpp:9-19).
LEMMA RowsGiveOneSignUp ==
  ASSUME IInv PROVE OneSignUpPerName
PROOF
  <1> SUFFICES ASSUME NEW a \in registered, NEW b \in registered,
                      Fold[a.name] = Fold[b.name]
               PROVE  a = b
    BY DEF OneSignUpPerName
  <1>1. a.id = b.id /\ Salted(a.name, a.password) = Salted(b.name, b.password)
    BY DEF IInv, RowsAreSignUps
  <1>2. a.name = b.name /\ a.password = b.password
    BY <1>1, SaltedInjective
  <1>3. a \in Account /\ b \in Account
    BY DEF IInv, TypeOK
  <1> QED BY <1>1, <1>2, <1>3 DEF Account

\* Of the sign-ups for one name, in any spelling, at most one is accepted
\* (UserService.cpp:9-19), however many run at once and whatever fails.
THEOREM OneSignUpPerNameHolds == Spec => []OneSignUpPerName
PROOF BY AccountInvariant, RowsGiveOneSignUp, PTL

\* Whoever is signed in signed up with that spelling and password
\* (UserService.cpp:23-32): the keys of auth_map are distinct accounts.
THEOREM SignedInAsRegisteredHolds == Spec => []SignedInAsRegistered
PROOF
  <1>1. IInv => SignedInAsRegistered
    BY DEF IInv
  <1> QED BY <1>1, AccountInvariant, PTL

\* A purchase is done for the account that asked and in the event it named
\* (Controller.cpp:233-235), whatever the cache holds and whatever fails.
THEOREM ServedForSelfHolds == Spec => []ServedForSelf
PROOF
  <1>1. IInv => ServedForSelf
    BY DEF IInv
  <1> QED BY <1>1, AccountInvariant, PTL

\* The ids of events are the places addDummyEvents gives them, which are the
\* eventIDs resetTickets counts (EventRepository.cpp:68, TicketRepository.cpp:44).
THEOREM EventIdsOfCatalogueHolds == Spec => []EventIdsOfCatalogue
PROOF
  <1>1. IInv => EventIdsOfCatalogue
    BY DEF IInv, EventsInPlace
  <1> QED BY <1>1, AccountInvariant, PTL

\* A whole table has the tickets of each event under the ids of its place.
LEMMA FullTableOnSale == ASSUME IInv PROVE CatalogueOnSale
PROOF
  <1> SUFFICES ASSUME clean
               PROVE  /\ DOMAIN on_sale = 1 .. Rows
                      /\ \A s \in DOMAIN events :
                           {id \in DOMAIN on_sale : on_sale[id] = events[s]} =
                             {id \in 1 .. Rows :
                                (id - 1) \div TicketsPerEvent = Loaded[s] - 1}
    BY DEF CatalogueOnSale
  <1>1. Rows \in Nat /\ on_sale = TicketRows(1, Rows)
    BY RowsType DEF IInv, CleanIsFull
  <1>2. DOMAIN on_sale = 1 .. Rows
    BY <1>1 DEF TicketRows
  <1>3. ASSUME NEW id \in 1 .. Rows
        PROVE  /\ on_sale[id] = (id - 1) \div TicketsPerEvent + 1
               /\ (id - 1) \div TicketsPerEvent \in Int
    <2>1. id - 1 \in Int /\ TicketsPerEvent \in Nat \ {0}
      BY <1>1, AccountAssumption
    <2>2. \A a \in Int, b \in Nat \ {0} : a \div b \in Int
      OBVIOUS
    <2> QED BY <1>1, <1>2, <2>1, <2>2 DEF TicketRows
  <1>4. ASSUME NEW s \in DOMAIN events
        PROVE  /\ events[s] = Loaded[s] /\ Loaded[s] \in Int
               /\ \A id \in 1 .. Rows :
                    on_sale[id] = events[s] <=>
                      (id - 1) \div TicketsPerEvent = Loaded[s] - 1
    <2>1. events[s] = Loaded[s] /\ Loaded[s] \in Int
      BY RowsType, LoadedIsThePlace DEF IInv, EventsInPlace, EventIdsOfCatalogue
    <2>2. \A a, b \in Int : a + 1 = b <=> a = b - 1
      OBVIOUS
    <2> QED BY <1>3, <2>1, <2>2
  <1> QED BY <1>2, <1>4

\* After a resetTickets that lost no statement every event is on sale with all
\* its tickets (TicketRepository.cpp:35), whatever earlier starts left.
THEOREM CatalogueOnSaleHolds == Spec => []CatalogueOnSale
PROOF BY AccountInvariant, FullTableOnSale, PTL
=============================================================================
