-------------------------- MODULE TicketRepository --------------------------
(***************************************************************************)
(* The ticket tables of the MySQL schema (src/db/ticketistdb_*.sql) and    *)
(* one operator per method of common/src/Repositories/                     *)
(* TicketRepository.cpp.                                                   *)
(*                                                                         *)
(* A table is a function from its primary key to the rest of the row, so   *)
(* an INSERT of a key that is present is refused, as MySQL refuses it.     *)
(* Every method prepares and executes ONE SQL statement outside any        *)
(* transaction, so a call is one atomic step of the caller.  Every method  *)
(* catches sql::SQLException, tests conn->isValid(), and answers a failure *)
(* with its own default (0, false, nullopt, "", or nothing at all): the    *)
(* argument `ok' says whether the statement was executed, and a method     *)
(* whose statement was not executed returns that default and leaves the    *)
(* table alone.                                                            *)
(*                                                                         *)
(* A method that reads is an operator whose value is what it returns.  A   *)
(* method that writes is an action on its table; where the code returns a  *)
(* bool, the operator of the same name ending in Succeeds is that bool.    *)
(***************************************************************************)
EXTENDS Integers, FiniteSets

CONSTANTS NEvents,     \* events of the catalogue; 4 in resetTickets
          PerEvent,    \* tickets of an event; 20 in resetTickets
          Prices,      \* face prices; 10, 20, ..., 100 in resetTickets
          Seats,       \* what generateRandomSeat can return
          MaxFaults    \* bound: statements that fail in a behaviour

ASSUME CatalogueAssumption == /\ NEvents \in Nat
                              /\ PerEvent \in Nat
                              /\ Prices \subseteq Nat
                              /\ MaxFaults \in Nat

VARIABLES ticket_info,      \* ticketID -> what is on sale under that id
          next_id,          \* AUTO_INCREMENT of the table ticket_info
          ticket,           \* validation_code (a hash) -> a ticket that exists
          resell_tickets,   \* hash_val_code -> ticket_Id
          faults            \* statements that have failed so far

on_sale == <<ticket_info, next_id>>
tables == <<on_sale, ticket, resell_tickets>>

-----------------------------------------------------------------------------
(***************************************************************************)
(* Rows, hashes, and the three shapes of SQL statement.                    *)
(***************************************************************************)

CatalogueSize == NEvents * PerEvent
TicketIds == Nat \ {0}
EventIds  == 1 .. NEvents

\* The event of the n-th row resetTickets inserts.
EventOf(n) == ((n - 1) \div PerEvent) + 1

\* sellerID of the rows resetTickets inserts: no user.
NoSeller == 0

\* CryptographicLibrary::computeSHA256.  Distinct inputs have distinct hashes.
SHA256(x) == <<"sha256", x>>

\* The empty string getOldTicketValCodeHash returns when it finds nothing; it
\* is the hash of nothing.
NoHash == <<>>

Delete(table, keys) == [k \in DOMAIN table \ keys |-> table[k]]

InsertSucceeds(table, key, ok) == ok /\ key \notin DOMAIN table

Insert(table, key, row, ok) ==
  IF InsertSucceeds(table, key, ok)
    THEN [k \in DOMAIN table \cup {key} |-> IF k = key THEN row ELSE table[k]]
    ELSE table

\* The outcome of one statement.  A failure counts against the bound.
Statement(ok) ==
  \/ ok /\ UNCHANGED faults
  \/ ~ok /\ faults < MaxFaults /\ faults' = faults + 1

-----------------------------------------------------------------------------
(***************************************************************************)
(* ticket_info                                                             *)
(***************************************************************************)

\* What k INSERTs of resetTickets add: AUTO_INCREMENT gives them the ids from
\* `from' on, each with a random price and seat, sold by nobody.
Listings(from, k) ==
  { [id \in from .. from + k - 1 |->
       [eventID |-> EventOf(id - from + 1), sellerID |-> NoSeller,
        price |-> price[id - from + 1], seat |-> seat[id - from + 1]]] :
      price \in [1 .. k -> Prices], seat \in [1 .. k -> Seats] }

Overlay(table, rows) ==
  [id \in DOMAIN table \cup DOMAIN rows |->
     IF id \in DOMAIN rows THEN rows[id] ELSE table[id]]

\* deleteAllTickets, whose TRUNCATE also resets AUTO_INCREMENT and whose failure
\* goes unnoticed; then the INSERTs in one try block, of which k are executed
\* and the next one, if there is one, fails.  The other tables are not touched.
resetTickets(truncated, k) ==
  LET from == IF truncated THEN 1 ELSE next_id
  IN  /\ \E rows \in Listings(from, k) :
           ticket_info' = Overlay(IF truncated THEN << >> ELSE ticket_info, rows)
      /\ next_id' = from + k
      /\ faults' = faults + Cardinality({step \in {<<1, truncated>>,
                                       <<2, k = CatalogueSize>>} : ~step[2]})
      /\ faults' <= MaxFaults
      /\ UNCHANGED <<ticket, resell_tickets>>

getTicketInfoById(id, ok) ==
  IF ok /\ id \in DOMAIN ticket_info THEN {ticket_info[id]} ELSE {}

\* True when the DELETE was executed, even if it deleted no row.
makeTicketUnavailable(id, ok) ==
  /\ ticket_info' = IF ok THEN Delete(ticket_info, {id}) ELSE ticket_info
  /\ UNCHANGED next_id

addTicketInfoSucceeds(id, ok) == InsertSucceeds(ticket_info, id, ok)

\* A row inserted with an id not given out yet moves AUTO_INCREMENT beyond it.
addTicketInfo(id, row, ok) ==
  /\ ticket_info' = Insert(ticket_info, id, row, ok)
  /\ next_id' = IF addTicketInfoSucceeds(id, ok) /\ id >= next_id
                  THEN id + 1 ELSE next_id

-----------------------------------------------------------------------------
(***************************************************************************)
(* ticket                                                                  *)
(***************************************************************************)

getNrOfTicketsOwned(user, ok) ==
  IF ok THEN Cardinality({h \in DOMAIN ticket : ticket[h].owner_id = user})
        ELSE 0

addNewTicketSucceeds(h, ok) == InsertSucceeds(ticket, h, ok)

\* The column `used' defaults to 0 in the schema.
addNewTicket(h, ticket_hash, info, user, ok) ==
  ticket' = Insert(ticket, h, [ticket_hash |-> ticket_hash, info |-> info,
                               used |-> FALSE, owner_id |-> user], ok)

existsTicketWithValidationCode(h, ok) == ok /\ h \in DOMAIN ticket

getTicketHashByValidationCode(h, ok) ==
  IF ok /\ h \in DOMAIN ticket THEN {ticket[h].ticket_hash} ELSE {}

\* Slip, used by no action: SET used = NOT used.
setTicketInUseToggled(h, ok) ==
  ticket' = IF ok /\ h \in DOMAIN ticket
              THEN [ticket EXCEPT ![h].used = ~@]
              ELSE ticket

setTicketInUse(h, ok) ==
  ticket' = IF ok /\ h \in DOMAIN ticket
              THEN [ticket EXCEPT ![h].used = TRUE]
              ELSE ticket

removeTicket(h, ok) == ticket' = IF ok THEN Delete(ticket, {h}) ELSE ticket

-----------------------------------------------------------------------------
(***************************************************************************)
(* resell_tickets                                                          *)
(***************************************************************************)

ResellRows(id) == {h \in DOMAIN resell_tickets : resell_tickets[h] = id}

addTicketToResell(h, id, ok) ==
  resell_tickets' = Insert(resell_tickets, h, id, ok)

isTicketInResell(id, ok) == ok /\ ResellRows(id) # {}

\* The hashes getOldTicketValCodeHash can return: the first row of a SELECT
\* without ORDER BY is any row.
OldTicketValCodeHashes(id, ok) ==
  IF ok /\ ResellRows(id) # {} THEN ResellRows(id) ELSE {NoHash}

removeTicketFromResell(id, ok) ==
  resell_tickets' =
    IF ok THEN Delete(resell_tickets, ResellRows(id)) ELSE resell_tickets
=============================================================================
