------------------------------ MODULE Accounts ------------------------------
(***************************************************************************)
(* Accounts and events: common/src/Services/UserService.cpp and            *)
(* EventService.cpp over their repositories, as the threads of the server  *)
(* call them, and reset_db of Server.cpp, which fills the tables events    *)
(* and ticket_info at each start.  Purchases take their rows of            *)
(* ticket_info in TicketService.                                           *)
(*                                                                         *)
(* The columns users.username and events.name are UNIQUE under the         *)
(* collation utf8mb4_0900_ai_ci (src/db), which compares without case and  *)
(* accents, while the maps of the server compare byte by byte.  Fold[s]    *)
(* stands for all spellings the collation takes for s, and the tables are  *)
(* functions of Fold[s].                                                   *)
(*                                                                         *)
(* As in TicketRepository, a step is one SQL statement with the local code *)
(* after it, and a statement that fails does nothing and is read as the    *)
(* default its method answers.  The rows a dump of src/db loads into users *)
(* are accounts like those signed up here.                                 *)
(***************************************************************************)
EXTENDS Integers, Sequences, FiniteSets

CONSTANTS Threads,      \* connections open at the same time
          Names,        \* usernames, as they are typed
          Passwords,
          UserIds,      \* ids of the table users
          DummyEvents,  \* names inserted by addDummyEvents, in order
          EventNames,   \* event names, as they are typed
          Fold,         \* spelling -> the spelling that stands for it
          TicketsPerEvent,  \* rows resetTickets inserts for each event
          MaxFaults,    \* bound: statements that fail in a behaviour
          MaxStarts     \* bound: starts of the server

ASSUME AccountAssumption ==
  /\ \A i \in DOMAIN DummyEvents : /\ DummyEvents[i] \in EventNames
                                   /\ Fold[DummyEvents[i]] = DummyEvents[i]
  /\ \A i, j \in DOMAIN DummyEvents : DummyEvents[i] = DummyEvents[j] => i = j
  /\ DummyEvents \in Seq(EventNames)
  /\ TicketsPerEvent \in Nat \ {0}
  /\ MaxFaults \in Nat /\ MaxStarts \in Nat

VARIABLES users,       \* folded username -> id and hash of the password
          events,      \* folded event name -> id
          next_event,  \* AUTO_INCREMENT of the table events
          on_sale,     \* id in ticket_info -> eventID
          next_ticket, \* AUTO_INCREMENT of the table ticket_info
          eventCache,  \* the member of EventService: typed name -> id
          call,        \* thread -> the repository method it calls next
          faults,      \* statements that have failed so far
          starts,      \* starts of the server so far
          clean,       \* history: no statement of the last resetTickets failed
          registered,  \* history: the sign-ups that were accepted
          signed_in,   \* the sign-ups and log-ins accepted since the start
          served       \* history: what the user and event of a purchase became

catalogue == <<on_sale, next_ticket, clean>>
database == <<users, events, next_event, catalogue>>
vars == <<database, eventCache, call, faults, starts, registered, signed_in,
          served>>

Idle == [pc |-> "idle"]

Return(th) == call' = [call EXCEPT ![th] = Idle]

CallNext(th, record) == call' = [call EXCEPT ![th] = record]

\* A thread between requests; there are none before the first start.
Ready(th) == starts > 0 /\ call[th] = Idle

Statement(ok) ==
  \/ ok /\ UNCHANGED faults
  \/ ~ok /\ faults < MaxFaults /\ faults' = faults + 1

Put(f, key, value) ==
  [k \in DOMAIN f \cup {key} |-> IF k = key THEN value ELSE f[k]]

\* The rows of f, and those of g under other keys.
Overlay(f, g) ==
  [k \in DOMAIN f \cup DOMAIN g |-> IF k \in DOMAIN f THEN f[k] ELSE g[k]]

Rows == Len(DummyEvents) * TicketsPerEvent

\* The first k rows of resetTickets: so many for each eventID from 1.
TicketRows(from, k) ==
  [id \in from .. from + k - 1 |-> (id - from) \div TicketsPerEvent + 1]

\* The table as the dump loads it: every event has the id of its place.
Loaded == [s \in {DummyEvents[i] : i \in DOMAIN DummyEvents} |->
             CHOOSE i \in DOMAIN DummyEvents : DummyEvents[i] = s]

Init ==
  /\ users = << >>
  /\ \/ events = << >> /\ next_event = 1
     \/ events = Loaded /\ next_event = Len(DummyEvents) + 1
  /\ on_sale = TicketRows(1, Rows) /\ next_ticket = Rows + 1 /\ clean = FALSE
  /\ eventCache = << >>
  /\ call = [th \in Threads |-> Idle]
  /\ faults = 0
  /\ starts = 0
  /\ registered = {}
  /\ signed_in = {}
  /\ served = {}

-----------------------------------------------------------------------------
(***************************************************************************)
(* Accounts                                                                *)
(***************************************************************************)

\* Slip, used by no action: the password is sent without a salt.
SaltedPlain(name, password) == <<password>>

\* generateSalt and saltPassword of the clients, and computeSHA256 of the
\* server: two spellings of a name have two salts.
Salted(name, password) == <<password, name>>

\* signUp: refused when the name is found.  A failed SELECT reads as a name
\* nobody has.
SignUpFind(th, name, password) ==
  /\ Ready(th)
  /\ \E ok \in BOOLEAN :
       /\ Statement(ok)
       /\ IF ok /\ Fold[name] \in DOMAIN users
            THEN UNCHANGED call
            ELSE CallNext(th, [pc |-> "createUser", name |-> name,
                            password |-> password])
  /\ UNCHANGED <<database, eventCache, starts, registered, signed_in, served>>

\* Slip, not part of Next: INSERT ... ON DUPLICATE KEY UPDATE.
SignUpCreateReplacing(th) ==
  /\ call[th].pc = "createUser"
  /\ LET name == call[th].name
         password == call[th].password
     IN \E id \in UserIds \ {users[k].id : k \in DOMAIN users} :
          LET account == [name |-> name, password |-> password, id |-> id] IN
          /\ users' = Put(users, Fold[name],
               [id |-> id, password |-> Salted(name, password)])
          /\ registered' = registered \cup {account}
          /\ signed_in' = signed_in \cup {account}
  /\ Return(th)
  /\ UNCHANGED <<events, next_event, catalogue, eventCache, faults, starts, served>>

\* createUser: refused when the UNIQUE key has the name by now.  AUTO_INCREMENT
\* skips the id of a refused row, so the id may be any that is not in use.
SignUpCreate(th) ==
  /\ call[th].pc = "createUser"
  /\ LET name == call[th].name
         password == call[th].password
     IN \E ok \in BOOLEAN :
          /\ Statement(ok)
          /\ IF ok /\ Fold[name] \notin DOMAIN users
               THEN \E id \in UserIds \ {users[k].id : k \in DOMAIN users} :
                      LET account == [name |-> name, password |-> password,
                                      id |-> id]
                      IN /\ users' = Put(users, Fold[name],
                              [id |-> id, password |-> Salted(name, password)])
                         /\ registered' = registered \cup {account}
                         /\ signed_in' = signed_in \cup {account}
               ELSE UNCHANGED <<users, registered, signed_in>>
  /\ Return(th)
  /\ UNCHANGED <<events, next_event, catalogue, eventCache, starts, served>>

\* loginUser: checkPassword compares the hash in the row of the name.
LogIn(th, name, password) ==
  /\ Ready(th)
  /\ \E ok \in BOOLEAN :
       /\ Statement(ok)
       /\ IF /\ ok
             /\ Fold[name] \in DOMAIN users
             /\ users[Fold[name]].password = Salted(name, password)
            THEN signed_in' = signed_in \cup
                   {[name |-> name, password |-> password,
                     id |-> users[Fold[name]].id]}
            ELSE UNCHANGED signed_in
  /\ UNCHANGED <<database, eventCache, call, starts, registered, served>>

-----------------------------------------------------------------------------
(***************************************************************************)
(* Events                                                                  *)
(***************************************************************************)

\* The first steps of doBuyTicketAction, for a user with a session:
\* getEventByName looks in the cache and then in the table, and caches what it
\* finds under the name as it was typed.
BuyGetEvent(th, name, event) ==
  /\ Ready(th)
  /\ \/ /\ event \in DOMAIN eventCache
        /\ CallNext(th, [pc |-> "getUserId", name |-> name,
                         event |-> event, eventID |-> eventCache[event]])
        /\ UNCHANGED <<eventCache, faults>>
     \/ /\ event \notin DOMAIN eventCache
        /\ \E ok \in BOOLEAN :
             /\ Statement(ok)
             /\ IF ok /\ Fold[event] \in DOMAIN events
                  THEN /\ eventCache' = Put(eventCache, event,
                                            events[Fold[event]])
                       /\ CallNext(th, [pc |-> "getUserId", name |-> name,
                            event |-> event, eventID |-> events[Fold[event]]])
                  ELSE UNCHANGED <<eventCache, call>>
  /\ UNCHANGED <<database, starts, registered, signed_in, served>>

\* Slip, not part of Next: -1 is not told from an id.
BuyGetUserIdUnchecked(th) ==
  /\ call[th].pc = "getUserId"
  /\ \E ok \in BOOLEAN :
       /\ Statement(ok)
       /\ served' = served \cup
            {[name |-> call[th].name, event |-> call[th].event,
              eventID |-> call[th].eventID,
              id |-> IF ok /\ Fold[call[th].name] \in DOMAIN users
                       THEN users[Fold[call[th].name]].id ELSE -1]}
  /\ Return(th)
  /\ UNCHANGED <<database, eventCache, starts, registered, signed_in>>

\* getUserId: a failed SELECT throws "User not found".
BuyGetUserId(th) ==
  /\ call[th].pc = "getUserId"
  /\ \E ok \in BOOLEAN :
       /\ Statement(ok)
       /\ IF ok /\ Fold[call[th].name] \in DOMAIN users
            THEN served' = served \cup
                   {[name |-> call[th].name, event |-> call[th].event,
                     eventID |-> call[th].eventID,
                     id |-> users[Fold[call[th].name]].id]}
            ELSE UNCHANGED served
  /\ Return(th)
  /\ UNCHANGED <<database, eventCache, starts, registered, signed_in>>

-----------------------------------------------------------------------------
(***************************************************************************)
(* The start of the server                                                 *)
(***************************************************************************)

Present(i) == DummyEvents[i] \in DOMAIN events

\* Slip, used by no action: after a refused row the loop goes on with the next.
addDummyEventsEach(n, ok) ==
  /\ \/ ok /\ n = Len(DummyEvents)
     \/ ~ok /\ n < Len(DummyEvents)
  /\ events' = [s \in DOMAIN events \cup {DummyEvents[i] : i \in 1 .. n} |->
                  IF s \in DOMAIN events THEN events[s]
                                         ELSE next_event + Loaded[s] - 1]
  /\ next_event' = next_event + n

\* One INSERT for each dummy event in one try block: n succeed, then one is
\* refused because the event is present, or fails, or there is none left.  A
\* row that is refused takes an id with it.
addDummyEvents(n, ok) ==
  /\ \A i \in 1 .. n : ~Present(i)
  /\ IF n = Len(DummyEvents) THEN ok ELSE ok => Present(n + 1)
  /\ events' = [s \in DOMAIN events \cup {DummyEvents[i] : i \in 1 .. n} |->
                  IF s \in DOMAIN events THEN events[s]
                                         ELSE next_event + Loaded[s] - 1]
  /\ next_event' = next_event + n
                     + (IF ok /\ n < Len(DummyEvents) THEN 1 ELSE 0)

\* Slip, used by no action: DELETE FROM ticket_info, which keeps AUTO_INCREMENT.
resetTicketsDeleting(truncated, k) ==
  /\ on_sale' = Overlay(IF truncated THEN << >> ELSE on_sale,
                         TicketRows(next_ticket, k))
  /\ next_ticket' = next_ticket + k
  /\ clean' = (truncated /\ k = Rows)

\* TRUNCATE, which also resets AUTO_INCREMENT and whose failure goes unnoticed;
\* then the INSERTs in one try block, of which k succeed.
resetTickets(truncated, k) ==
  LET kept == IF truncated THEN << >> ELSE on_sale
      from == IF truncated THEN 1 ELSE next_ticket
  IN /\ on_sale' = Overlay(kept, TicketRows(from, k))
     /\ next_ticket' = from + k
     /\ clean' = (truncated /\ k = Rows)

\* main: reset_db, then EventService is constructed and reads all events.  A
\* start also ends whatever ran before.
Start ==
  /\ starts < MaxStarts
  /\ starts' = starts + 1
  /\ \E inserted, read, truncated, filled \in BOOLEAN :
       /\ faults' = faults + Cardinality({step \in {<<1, inserted>>, <<2, read>>,
                       <<3, truncated>>, <<4, filled>>} : ~step[2]})
       /\ faults' <= MaxFaults
       /\ \E n \in 0 .. Len(DummyEvents) : addDummyEvents(n, inserted)
       /\ \E k \in 0 .. Rows : filled = (k = Rows) /\ resetTickets(truncated, k)
       /\ eventCache' = IF read THEN events' ELSE << >>
  /\ call' = [th \in Threads |-> Idle]
  /\ signed_in' = {}
  /\ UNCHANGED <<users, registered, served>>

-----------------------------------------------------------------------------

ThreadStep(th) ==
  \/ \E name \in Names, password \in Passwords :
       SignUpFind(th, name, password) \/ LogIn(th, name, password)
  \/ SignUpCreate(th)
  \/ \E session \in signed_in, event \in EventNames :
       BuyGetEvent(th, session.name, event)
  \/ BuyGetUserId(th)

Next == Start \/ \E th \in Threads : ThreadStep(th)

Spec == Init /\ [][Next]_vars

-----------------------------------------------------------------------------

Account == [name : Names, password : Passwords, id : UserIds]

\* The tables have the keys of their collation, and what a purchase is done
\* for is an id, never the -1 of a failed lookup.
TypeOK ==
  /\ \A k \in DOMAIN users : /\ k \in {Fold[name] : name \in Names}
                             /\ users[k].id \in UserIds
  /\ \A k \in DOMAIN events : events[k] \in Nat
  /\ next_event \in Nat /\ next_ticket \in Nat \ {0}
  /\ \A id \in DOMAIN on_sale : /\ id \in 1 .. next_ticket - 1
                                /\ on_sale[id] \in 1 .. Len(DummyEvents)
  /\ DOMAIN eventCache \subseteq EventNames
  /\ call \in [Threads ->
       {Idle} \cup [pc : {"createUser"}, name : Names, password : Passwords]
         \cup [pc : {"getUserId"}, name : Names, event : EventNames,
               eventID : Nat]]
  /\ faults \in 0 .. MaxFaults
  /\ starts \in 0 .. MaxStarts
  /\ registered \subseteq Account /\ signed_in \subseteq Account
  /\ served \subseteq [name : Names, event : EventNames, eventID : Nat,
                       id : UserIds]

\* Of the sign-ups for one name, in any spelling, at most one is accepted,
\* though the check and the INSERT are two statements (UserService.cpp:9-19)
\* and the check may fail.
OneSignUpPerName ==
  \A a, b \in registered : Fold[a.name] = Fold[b.name] => a = b

\* Who is signed in signed up once, under the same spelling and password, and
\* is that account: no two keys of auth_map are one row of users.
SignedInAsRegistered == signed_in \subseteq registered

\* A purchase is done for the account that asked for it, in the event it named:
\* no failed lookup and no cache entry lets it through under another id.
ServedForSelf ==
  \A s \in served :
    /\ \E a \in registered : a.name = s.name /\ a.id = s.id
    /\ Fold[s.event] \in DOMAIN events /\ s.eventID = events[Fold[s.event]]

\* The ids of the events are those resetTickets makes tickets for, 1, 2, ... in
\* the order of addDummyEvents, whatever starts failed half way; the cache
\* never disagrees, in any spelling.
EventIdsOfCatalogue ==
  /\ \A s \in DOMAIN events : s \in DOMAIN Loaded /\ events[s] = Loaded[s]
  /\ \A s \in DOMAIN eventCache : eventCache[s] = Loaded[Fold[s]]

\* After a start whose resetTickets lost no statement, every event is on sale
\* with its tickets under the ids of its place, whatever earlier starts left
\* half done in either table (TicketRepository.cpp:36).
CatalogueOnSale ==
  clean =>
    /\ DOMAIN on_sale = 1 .. Rows
    /\ \A s \in DOMAIN events :
         {id \in DOMAIN on_sale : on_sale[id] = events[s]} =
           {id \in 1 .. Rows : (id - 1) \div TicketsPerEvent = Loaded[s] - 1}

-----------------------------------------------------------------------------
(***************************************************************************)
(* The inductive invariant.                                                *)
(***************************************************************************)

\* The table users and the history of accepted sign-ups say the same.
RowsAreSignUps ==
  /\ \A a \in registered :
       /\ Fold[a.name] \in DOMAIN users
       /\ users[Fold[a.name]].id = a.id
       /\ users[Fold[a.name]].password = Salted(a.name, a.password)
  /\ \A k \in DOMAIN users : \E a \in registered : Fold[a.name] = k

\* Events are inserted into an empty table whose AUTO_INCREMENT is untouched, or
\* the first of them is refused; the cache holds events of the table.
EventsInPlace ==
  /\ EventIdsOfCatalogue
  /\ DOMAIN events = {} => next_event = 1
  /\ DOMAIN events # {} => Present(1)
  /\ \A s \in DOMAIN eventCache : Fold[s] \in DOMAIN events

\* A purchase under way is for an account that was signed in and for an event
\* of the table.
BuyersAreServable ==
  \A th \in Threads : call[th].pc = "getUserId" =>
    /\ \E a \in registered : a.name = call[th].name
    /\ Fold[call[th].event] \in DOMAIN events
    /\ call[th].eventID = events[Fold[call[th].event]]

CleanIsFull == clean => on_sale = TicketRows(1, Rows)

\* The inductive invariant: accounts, events, cache, calls and the ids on sale.
IInv ==
  /\ TypeOK
  /\ RowsAreSignUps
  /\ SignedInAsRegistered
  /\ EventsInPlace
  /\ BuyersAreServable
  /\ ServedForSelf
  /\ CleanIsFull
=============================================================================
