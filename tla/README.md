# TicketIST in TLA+

This directory models the server of TicketIST and the two programs that talk to
it. `*.tla` are the modules, `MC*.tla` and `*.cfg` the instances TLC checks,
`*Proofs.tla` the theorems TLAPS proves, and `PROJECT.json` the index: which
lines of `src/` each definition models, what each run checks, the hazards of
the code and the properties that cover them. Paths below are relative to
`src/`; `common/src` is abbreviated `c/`.

    tlc -workers 2 -config TicketsConcurrent.cfg MCTickets
    tlapm TicketPriceProofs.tla

## 1. The system

A server (`Server.cpp`) listens for TLS connections and keeps four tables in
MySQL. `Client` and `Validator` are console programs; each holds one connection
and sends one message at a time. `TLSServer::run` starts a **detached thread per
connection**, and all threads share one `Controller`, its services and
repositories and **one MySQL connection**. There is no mutex and no transaction
anywhere: any two threads interleave between any two SQL statements and between
any two uses of the session maps.

| Component | State | Operations | Interacts with | What is hard |
|---|---|---|---|---|
| Ticket tables (`c/Repositories/TicketRepository.cpp`, `db/*.sql`) | `ticket_info` (on sale), `ticket` (sold), `resell_tickets` | one SQL statement per method; failures are caught and answered with a default | called by TicketService | a failure that reads as 0, "" or nothing at all; a DELETE of nothing succeeds |
| TicketService (`c/Services/TicketService.cpp`) | none of its own | `buyTicket`, `sellTicket`, `validateTicket`, `checkIntegrity` | up to 8 statements a call, called by every thread | check-then-act across statements; half-done purchases and sales; restarts |
| Controller (`c/Controller/Controller.cpp`, `c/Message/AuthenticatedMessage.cpp`) | `auth_map`, `validator_map`, `ssl_to_username`, the static string of `generateCookie` | the `do...Action` handlers, `logoutUserBySSL` | calls the services between its check and its answer | the session checked is not the session answered from; stale `SSL*` keys |
| TLSServer (`c/Communication/TLSServer.cpp`) | one thread and one `SSL*` per connection | `run`, `handleClient` | Controller | three ways to end a thread, with three clean-ups |
| Client (`Client.cpp`), Validator (`Validator.cpp`) | globals `name`, `cookie`, `nonce` | `authenticate`, the menu, three receive functions, `logout` | TLSClient | a lost connection; answers with other factors; an `int` returned as `bool` |
| UserService, UserRepository | `users` | `signUp`, `loginUser`, `getUserId` | called by the log-in and purchase handlers | two sign-ups of one name; the collation folds names, the maps do not |
| EventService, EventRepository | `events`, `eventCache` | `getEventByName`, `addDummyEvents` | the purchase handler; ids must be those of `resetTickets` | a cache that is never emptied; a start that failed half way |
| Server start (`Server.cpp`) | - | `reset_db`, construction order | all tables | refills `ticket_info` and keeps the rest |
| Firewall, accept loop (`c/Communication/Firewall.cpp`, `TLSServer::run`) | last connection per address | `isAllowed`, `isRateLimited`, `SSL_accept` in the loop | TLSServer | a clock; one handshake at a time for everybody |
| TLSClient, framing (`c/Communication/TLSClient.cpp`) | a socket | `connectToServer`, `sendData`, `receiveData` | OpenSSL | one `SSL_read` of 1024 bytes is one message; a short read ends an answer |
| Message codecs (`c/Message/*.cpp`), Ticket, TicketInfo | values | `serialize`, `deserialize` | every handler | separators inside fields |
| Ticket files (`Client.cpp`, `c/Crypto`) | `clients/<name>/SymKey.key`, one `.txt` per ticket | `generateSymetricKey`, `saveTicket`, `getAndDecryptTicket` | file system, AES | two programs of one name; writes nobody checks; a program killed while it saves |
| User classes, test programs | - | - | - | - |

What makes each component correct:

* **Tickets.** A seat is sold once and never lost; a resale revokes the ticket
  of the seller; a price never rises above the face price; a user owns at most
  6 tickets; a code lets its holder in once; a ticket as delivered passes the
  integrity check. Section 4 says which of these hold, in what weakened form,
  and which do not.
* **Sessions.** A cookie is one log-in's; a client and the server agree on the
  nonce; a session that ended stays ended; every message is answered or the
  connection ends.
* **Connections.** The server handles what the program sent; the n-th answer a
  program reads is the answer to its n-th message; every wait ends; a program
  that keeps trying is let in; no program can end the server.
* **Ticket files.** A ticket the user was told is saved opens with its password
  for ever; a key is never replaced; no ticket is lost without a word.
* **Accounts and events.** One account per name, whatever the spelling; whoever
  is signed in is the account it signed up; a purchase is done for that account
  and for the event it named; event ids are those the tickets were made for.

The hazards, each at its line with its properties, are in `PROJECT.json`.

## 2. The modules

### Tickets

* `TicketRepository` - the three tables as functions from primary keys, and one
  operator per repository method. `ok` says whether the statement was executed;
  the operator gives the default the method's `catch` gives otherwise.
  `resetTickets` refills `ticket_info` with any prices and seats; its TRUNCATE
  may fail, after which the rows get ids from `next_id` (AUTO_INCREMENT) on, and
  so may any of its INSERTs, after which the rest is missing. Neither failure
  stops the start.
* `TicketService` - `call[th]` is the activation record of a connection's
  thread: which repository method comes next, and the locals still needed.
  One action per statement:

  | Action | Lines of `TicketService.cpp` |
  |---|---|
  | `BuyCountOwned`, `BuyLookUp`, `BuyTakeOffSale`, `BuyAddTicket` | `buyTicket` up to the INSERT of the ticket |
  | `BuyIsResold`, `BuyGetOld`, `BuyRemoveResell`, `BuyRemoveOld` | `buyTicket`, the purge of the seller's ticket |
  | `SellCheck`, `SellList`, `SellMarkResell` | `sellTicket` |
  | `ValidateCheck`, `ValidateMark` | `validateTicket` |
  | `Restart` | `Server.cpp`: all threads die, `reset_db` runs |

  A client submits to `sellTicket` the code of a ticket it was sent with
  anything in the other seven fields (`Submissions`), since `Ticket::deserialize`
  takes them all from the text; two tickets with one code are told apart by
  their hash. A restart kills the threads where they stand and resets; so does
  the first start, on empty tables.

  History variables: `issued` (tickets sent to clients), `admitted` (times a
  code was accepted), `offered` (rows `resetTickets` ever listed), `listed` (ids
  it has inserted since the last TRUNCATE, without those of purchases that a
  kill cut off), `generated`.
* `TicketSafety` - types, the safety and action properties, the inductive
  invariant `IInv`.
* `TicketMarket` - the abstract specification: ids on sale, one pass per id
  sold; a purchase, a resale and an admission are one step each.
* `TicketRefinement` - the mapping under which `TicketService` implements it.
* `TicketClaims` - sentences of `REPORT.md` and of the code, as written, that
  TLC refutes.
* `TicketPriceProofs`, `TicketCodeProofs`, `TicketCountProofs`,
  `MarketProofs` - section 5.

### Sessions

* `Sessions` - clients, connections and server threads. `wire[p]` is the message
  in flight on connection `p`, `thread[p]` where `handleClient` stands,
  `client[c]` the globals of a program. Each use of a session map is a step, so
  that another thread can replace the session between any two:

  | Action | Code |
  |---|---|
  | `ReadLogIn`, `GenerateCookie`, `Authenticate` | a log-in: the database, the write of the static cookie string, the copy of it into the map |
  | `ReadRequest`, `CompareCookie`, `CompareNonce` | a check: `find`, the cookie (line 62 or 88 of `Controller.cpp`), the nonce (68 or 94) |
  | `Answer`, `Count` | an answer: the cookie (117, 124, 131, 139), then the increment (118, 125, 132, 140) |
  | `ReadLogOut`, `FindValidator`, `LogOut` | `doLogoutAction`: the check as a user, then as a validator, and the `erase` |
  | `ReadGarbled`, `ServeThrows`, `ReadEnd` | the ends of `handleClient`: a message that does not parse, an exception no handler catches, `SSL_read <= 0` |

  The service call of a request lies between `CompareNonce` and `Answer`.
  `ServeThrows` is `std::out_of_range` of a number in a ticket that is sold:
  `doSellTicketAction` catches only `std::invalid_argument`. `SendGarbled` is a
  message whose last field is empty, for which the program has counted its nonce.
  The exceptions run `logoutUserBySSL`; `ReadEnd` leaves the session. `SSL_free`
  returns a pointer that a later connection may get, with the stale entry of
  `ssl_to_username`. Clients crash at any time. History: `issued` (the log-ins a
  cookie was stored for), `crossed` (cookies whose session was read or counted
  for the answer to a message of another session).
* `SessionSafety` - its properties, the inductive invariant `IInv`, and two
  claims TLC refutes.
* `SessionProofs` - section 5.

### Accounts and events

* `Accounts` - `users` and `events` as functions of `Fold[name]`, where `Fold`
  is the collation `utf8mb4_0900_ai_ci` of the schema; the find and the INSERT
  of `signUp` are two steps; `eventCache` is keyed by the name as typed. `Start`
  is a start of the server: `addDummyEvents` runs in one `try` block, stops at
  the first row that is refused or fails, and a refused row takes an
  AUTO_INCREMENT id with it. `reset_db` comes before it, in the statements of
  `resetTickets`: TRUNCATE and the INSERTs in one `try`, each of which may fail,
  and `TRUNCATE` resets the ids. `on_sale` holds the ids on sale per event.
* `AccountProofs` - section 5.

### Connections

* `Messages` - a text is a sequence of words, a separator is the word `":"`.
  `serialize` puts the action and the separators between the fields, and writes a
  double with the six significant digits of `operator<<` (`Rounded`); `Fields`
  is the `getline` chain (or `find` chain) of the `deserialize` functions, whose
  last field takes the rest. A text that does not parse is `Thrown`.
* `Transport` - the accept loop (`Accept`, `Handshake`, with `isAllowed` and
  `isRateLimited` against a clock), `handleClient` read by read, and the program
  in `connectToServer`, `sendData`, `receiveData`:

  | Action | Code |
  |---|---|
  | `Accept`, `Handshake` | `TLSServer::run` |
  | `ReadMessage`, `Serve`, `ServeThrows`, `Refuse`, `ReadEnd`, `BrokenPipe` | `handleClient`, the ways out of it and SIGPIPE |
  | `Launch`, `SendData`, `SendLogOut`, `ReceiveData`, `ConnectionLost`, `Crash` | the programs; `SendLogOut` also from `signalHandler`, in the middle of a wait |
  | `Tick`, `StartServer` | the clock; a start after the process ended |

  A record is what one `SSL_write` wrote; a read takes at most `Buffer` words of
  the oldest record. History: `replies` (answers per connection), `marks` (which
  connection had a message longer than a read, or a log-out during a wait).
* `TransportSafety`, `MCTransport` - properties with the inductive invariant
  `IInv`, and instance.
* `TransportProofs` - section 5.

### Ticket files

* `Wallet` - `disk` maps paths to texts. Programs of one name work on one
  directory; between the test of a file and its use, between opening (which
  truncates) and closing (which writes), any other step may happen, and a
  program may be killed. Encryption puts the key in front of a text and
  decryption with another key is `Thrown`, so a text says which layers it has.
  History: `saved` (tickets announced as saved), `lost` (announced as lost, or
  gone with a program), `marks` (paths spoiled by a race or a cut write).
* `WalletSafety`, `MCWallet` - properties with the inductive invariant `IInv`,
  and instance.
* `WalletProofs` - section 5.

The groups are composed by what they abstract from each other: `Sessions`
takes one message at a time and in order, which is `HandledAsSent`,
`AnswersMatch` and `WaitsEnd` of `Transport` for messages that fit a read;
`Transport` leaves open which of its answers a handler gives, which is what
`Sessions` decides; `Wallet` starts from a purchase that was answered; `Sessions`
leaves the service call between `CompareNonce` and `Answer` open (any other step
may happen there, and the answer may be an acceptance or a refusal, which
increment the nonce alike); `TicketService` starts a call for any user and event,
which is every way a session can make it start; `Accounts` says that the user id
and the event id a call starts with are the right ones.

Definitions that say "Slip" are not used by any specification. Each is the form
a plausible mistake would give the action after it; `PROJECT.json` pairs it with
the property that detects it.

## 3. Abstractions

* One SQL statement is atomic, and a failed one has no effect. A failure is
  counted in `faults` and bounded by `MaxFaults`.
* A use of a `std::map` or of the MySQL connection is one step. The code locks
  neither; what a corrupted map or connector does has no bound in the source.
  A torn write of the static cookie string is left out for the same reason; the
  whole-value race on it is modelled.
* A price of `TicketService` stands for its six significant digits. Face prices
  are 10 to 100; a price comes back to the server only in the text of a ticket
  or of a sale, and both are written with `operator<<`. What is written of a
  double, and that reading and writing it again changes nothing more, is
  `SixDigits` of `Messages` with `PrecisionAssumption`. A number of `Messages`
  is one that `stoi`, `stol` and `stod` can represent; one that is out of range
  throws, as any text that is no number does, and what that exception does is
  `ReadGarbled` and `ServeThrows` of `Sessions`.
* SHA-256 is injective (`<<"sha256", x>>`); random validation codes and cookies
  are distinct. A code stands for its ticket, so `purchaseDate` is left out.
* In `Sessions` a message is a record, and one the server cannot parse is
  `Garbled`. In `Transport` it is words; a word never spans two reads, and a text has
  no line break. The `getline` of a request's last field would stop at one;
  no request has one, and the answers, which have, are read with `find`.
* TCP below `Transport`: a write to a closed end succeeds once and makes a
  reset; a write after the reset raises SIGPIPE, which ends the server; a
  reset may discard what was not read. A program that loses its connection ends
  here; what it does with the error is in `Sessions`.
* `StartServer` of `Transport` is an operator who starts the server again, at
  any time or never.
* Files: opening with `std::ofstream` truncates, closing writes all or nothing.
  Reads do not fail. `RAND_bytes` and the cipher calls of a save may; the key
  derivation is a pure function of the password and does not. The directory of
  a name is its own, so names do not interfere.
* Nonces start at 0: they are compared only after the cookies are.
* In `Sessions` a client has one message outstanding. Ctrl-C during a wait
  makes two; that is in `Transport`.
* `Validator`'s `authenticate` ends without a return value when a log-in
  succeeds after a refused one; the model takes it as `Crash`.

## 4. What TLC checks

| Run | Instance | Shows |
|---|---|---|
| `tickets_concurrent` | 2 threads, 2 users, 2 codes, 2 events of 1 ticket, price 1, offers and submitted prices 1-2, limit 1, 1 failure, 1 restart | `IInv`, `FaceValue`, `NoTicketLost`, `AdmissionBound`, `StoredAsIssued`, `ReplacedNotLost`, `RevokedStaysRevoked` in every interleaving |
| `tickets_serial` | 1 thread, 2 users, 3 codes, 2 events of 1 ticket, price 1, offers -1..2, no failure | `SerialInv`, `ImplementsMarket`, `PurchaseLimit`, `TypeOK` |
| `sessions_shared` | 2 Clients and 1 Validator, 2 names, 2 connections, 2 cookies, 1 request after the log-in's answer | `IInv`, `TypeOK`, `NonceInSync`, `OwnCookies`, `DeadCookiesStayDead` |
| `sessions_live` | 1 Client and 1 Validator, 3 connections, 1 log-in, 2 requests | `EveryRequestEnds` |
| `accounts_concurrent` | 2 threads, 3 spellings of 2 names, 2 events of 1 ticket, 2 failures, 2 starts | `IInv`, `TypeOK`, `OneSignUpPerName`, `SignedInAsRegistered`, `ServedForSelf`, `EventIdsOfCatalogue`, `CatalogueOnSale` |
| `transport` | 2 programs on one host, one of which signs in, sends one message of 7 and logs out; reads of 12 words; 2 ticks a second; fair | `IInv`, `TypeOK`, `HandledAsSent`, `AnswersMatch`, `ServerOutlivesPrograms`, `WaitsEnd`, `ConnectionsDecided`, `RetriesGetThrough`, `ConnectionsReleased` |
| `wallet` | 2 programs of one name, 2 file names, 2 passwords, 2 purchases, 2 keys, 1 failure | `IInv`, `TypeOK`, `SavedTicketOpens`, `ToldTheTruth`, `TicketsAccounted`, `KeyNeverReplaced` |
| `double_sale` | 2 threads, no failure | refutes `OneTicketPerId` |
| `resale_race` | 2 threads, no failure | refutes `SellerLosesAccess` |
| `used_resold` | 1 thread, no failure | refutes `SeatEnteredOnce` |
| `session_stuck` | 2 Clients of one name | refutes `SessionUsable` |
| `shared_cookie` | 2 Clients of two names | refutes `CookieIdentifiesUser` |

**What holds.** With any interleaving, one failed statement and one restart, a
listed ticket id is lost only to a failed statement, or with a purchase that a
kill cuts off between its DELETE and its INSERT when the TRUNCATE of the next
start fails too; a start whose refill fails part way loses no more than what it
did not list. A purchase that deletes the seller's ticket has stored its
replacement; a deleted code never comes back; a code is accepted at most once
per connection plus once per unnoticed failure; the limit of 6 may be exceeded
by one ticket per further connection of the same user; a price never exceeds the
face price and a ticket never changes its id, event or seat, whatever is edited
in the file that is submitted. Served one request at a time without failures,
the service is a `TicketMarket`: each id sold once, the seller's pass void at
the sale. After a start in which no statement of `resetTickets` failed, each
event of the table is on sale with exactly its tickets, whatever earlier starts
left half done. A failed `addDummyEvents` on an empty table leaves events
missing, and no later start repairs that, since the first row refused ends its
`try`; but no event ever gets another's id (`EventIdsOfCatalogue`).

Of sessions: the holder of a session and the server agree on the nonce as long
as no answer to a message of another session read or counted the entry, which
takes a log-in of the same name stored during a check or an answer; a cookie
made only for another name or role is never held; a cookie whose session ended
stays dead.

Of connections: as long as a program's messages fit a read, the server handles
each as it was sent, with separators in its last field too and the price of a
sale rounded to six digits; the program reads each answer whole, over any number
of reads, and with the message it answers; its wait ends. The exceptions are
stated in the properties and are the ones the code has: a message longer than a
read (a purchase or a listing with a long event name typed; a sale has about 160
of the 1024 bytes) is served in pieces, the program reads one answer too many,
and if the rest has no colon the thread returns with the connection open; an
answer of exactly a number of reads makes `receiveData` wait for more; a log-out
during a wait leaves two answers on a connection nobody reads, which can end the
server by SIGPIPE. A program is let in or turned away whatever the others do,
and refused attempts do not prolong the second.

Of files: a ticket announced as saved opens, and "Password is incorrect" is
true, unless two programs of the name generated the key together, two chose a
file name together, or a write failed, was cut short or was of a failed
encryption; and for the second also unless the file was read while it was being
written. No ticket disappears without a message or the end of its program.

**What does not.** The five refuted claims are listed as findings in
`PROJECT.json` with the sentence quoted and the line of code. `double_sale`: two
purchases look an id up before either deletes it, and the DELETE of nothing
succeeds. `resale_race`: a purchase between the two INSERTs of `sellTicket`.
`used_resold`: `sellTicket` does not read `used`. `session_stuck`: of two
log-ins of one name, the second is stored between the check of a message of the
first and the count of its answer, which increments the nonce of the second.
`shared_cookie`: the static string of `generateCookie`. Two more departures are
visible in one step and listed among the hazards only: `EXIT_FAILURE` returned
as `true` (`ConnectionLost` of `Sessions`), and the `default` case of the
validator's menu, which waits for an answer to nothing (`ChooseNothing`).

**Bounds.** Two threads suffice for the races of tickets: a call has no wait and
no counter beyond the limit, and each race above is between one call and one
other. Two codes give a purchase, a resale and its purchase, or two sales of one
id; the third, in `tickets_serial`, a resale of what was resold. Two ids of two
events let an edited ticket name another id or event, a refill stop half way,
and one that follows a failed TRUNCATE add to what is there. The limit is 1 so
that it is reached; what two connections and a failed count add to it is
`PurchaseLimitInv`, a part of `IInv`, and of the theorem. One failure and one
restart may fall between any two statements, and the failure on any statement of
a start. In `sessions_shared` two names let programs share one or not, and
answers and messages of one be told from the other's; two cookies are two
log-ins, so a session is overwritten and the old one still used; `MaxNonce = 2`
allows one request after the log-in's answer before the log-out, and a log-out
that is itself counted. `sessions_live` has one log-in in a behaviour, of either
program, and two requests: more log-ins do not change what a thread waits for,
and an unanswered `SendLogIn` of the other program is reached through its
refusals. `accounts_concurrent` has a pair of spellings that fold together and
one name that does not, and starts on an empty and on a loaded table; one ticket
per event is enough for an event's rows to be missing, doubled or under another
id. In `transport` a read of 12 words is as long as a sale and the integrity
check, the longest messages of those that fit, as all of them do in the code for
names of ordinary length; a purchase in an event whose name was typed at length
does not; the price of the sale has more digits than are written; answers are
shorter than a read, one read, and longer. One program of two sends, since
connections share only the accept loop, the clock and the process; the other is
there to hold the accept loop, take the second of their address and be killed
with the server. Two ticks make a second that is neither over at once nor never.
In `wallet` two purchases and two keys give every race between two programs of a
name; the directories of two names are disjoint. Symmetry is used only in runs
without liveness, and only over sets whose members are compared and never
ordered or named.

**Fairness** (`FairSpec` of `Sessions`). Weak fairness of each connection's
`ServerStep`: the thread exists and the operating system schedules it; a
blocking `SSL_read` is a disabled step. Weak fairness of a client's receive
steps and of `ConnectionLost`: the program is blocked in `SSL_read` and returns
when there is something to read. No fairness for what a user does (connecting,
choosing an entry, logging out) nor for crashes.

`FairSpec` of `Transport`: weak fairness of `Accept` and `Handshake` (the loop
runs, and a program that connected shakes hands or is gone), of the clock, of
each thread's `ServerStep`, and of a program's `ReceiveData` and
`ConnectionLost`. None for sending, logging out, crashes, or the start of a
server that ended. A program that connects and never shakes hands would hold
the loop for ever; the programs of this repository call `SSL_connect` at once.

**Deadlock** is checked in every run and none is found: the programs can always
be started again, and a refused request is a step.

## 5. What is proved

TLAPS proves, for every value of the constants:

| Theorem | Statement |
|---|---|
| `TicketPriceProofs!TypeCorrect` | `Spec => []TypeOK` of `TicketSafety` |
| `TicketPriceProofs!FaceValueHolds` | `Spec => []FaceValue` |
| `TicketCodeProofs!StoredAsIssuedHolds` | `Spec => []StoredAsIssued` |
| `TicketCodeProofs!ReplacedNotLostHolds` | `Spec => ReplacedNotLost` |
| `TicketCodeProofs!RevokedStaysRevokedHolds` | `Spec => RevokedStaysRevoked` |
| `TicketCountProofs!PurchaseLimitHolds` | `Spec => []PurchaseLimit` |
| `TicketCountProofs!AdmissionBoundHolds` | `Spec => []AdmissionBound` |
| `TicketCountProofs!NoTicketLostHolds` | `Spec => []NoTicketLost` |
| `TicketCountProofs!TicketInvariant` | `Spec => []IInv` of `TicketSafety` |
| `MarketProofs!SerialInvariant` | `Serial` implies `Spec => []SerialInv` |
| `MarketProofs!SerialServiceIsMarket` | `Serial` implies `Spec => ImplementsMarket` |
| `SessionProofs!SessionInvariant` | `Spec => []IInv` of `SessionSafety` |
| `SessionProofs!SessionTypes` | `Spec => []TypeOK` |
| `SessionProofs!NoncesAgree` | `Spec => []NonceInSync` |
| `SessionProofs!CookiesAreOwn` | `Spec => []OwnCookies` |
| `SessionProofs!DeadCookies` | `Spec => DeadCookiesStayDead` |
| `AccountProofs!AccountInvariant` | `Spec => []IInv` of `Accounts` |
| `AccountProofs!AccountTypeCorrect` | `Spec => []TypeOK` |
| `AccountProofs!OneSignUpPerNameHolds` | `Spec => []OneSignUpPerName` |
| `AccountProofs!SignedInAsRegisteredHolds` | `Spec => []SignedInAsRegistered` |
| `AccountProofs!ServedForSelfHolds` | `Spec => []ServedForSelf` |
| `AccountProofs!EventIdsOfCatalogueHolds` | `Spec => []EventIdsOfCatalogue` |
| `AccountProofs!CatalogueOnSaleHolds` | `Spec => []CatalogueOnSale` |
| `WalletProofs!WalletInvariant` | `Spec => []IInv` of `WalletSafety` |
| `WalletProofs!WalletTypeCorrect` | `Spec => []TypeOK` |
| `WalletProofs!SavedTicketOpensHolds` | `Spec => []SavedTicketOpens` |
| `WalletProofs!ToldTheTruthHolds` | `Spec => []ToldTheTruth` |
| `WalletProofs!TicketsAccountedHolds` | `Spec => []TicketsAccounted` |
| `WalletProofs!KeyNeverReplacedHolds` | `Spec => KeyNeverReplaced` |
| `TransportProofs!RoundTrip` | `deserialize(serialize(m)) = Rounded(m)` for every separable `m` that is not refused |
| `TransportProofs!TransportInvariant` | `Spec => []IInv` of `TransportSafety` |
| `TransportProofs!TransportTypes` | `Spec => []TypeOK` |
| `TransportProofs!HandledAsSentHolds` | `Spec => []HandledAsSent` |
| `TransportProofs!AnswersMatchHolds` | `Spec => []AnswersMatch` |
| `TransportProofs!ServerOutlivesProgramsHolds` | `Spec => []ServerOutlivesPrograms` |

They assume the `ASSUME`s of the modules, which TLC evaluates:
`CatalogueAssumption` and `ServiceAssumption` (prices are naturals, threads and
codes finite sets, the limit positive), `SessionAssumption` (clients, pointers
and cookies are finite sets that do not contain the value that stands for
none), `AccountAssumption` (the dummy events are distinct and in the spelling
that stands for them), `WalletAssumption` (no ticket is saved under the name of
the key file), `VocabularyAssumption`, `TransportAssumption` and
`MessagesAssumption` (a colon is no number; programs send messages of their
classes, a cookie has no colon and no handler answers an empty text, which is
what the code of the handlers gives), and `PrecisionAssumption` (what is written
of a double is written the same again). Each invariant below was first an invariant of a run.

*Face value.* `FaceValue` speaks of what is on sale and what was delivered, and
is not inductive: a purchase under way carries the price it will deliver, and a
sale lists the price it compared earlier. `FaceValueInv` adds that tickets
stored, and tickets inside a call, are genuine, and that a sale about to list
carries no more than the price of its ticket. `sellTicket` keeps it because the hash of the
submitted ticket was compared with the stored one, and SHA-256 is injective: of
the tickets with a stored code, edited in whichever fields, only the one that
was sent passes. `resetTickets` keeps it because `offered` only grows, whichever
of its statements failed. `TypeOK` is proved first and used for the arithmetic;
its `next_id` bounds the ids of `ticket_info`, which is why a refill after a
failed TRUNCATE meets no id that is taken.

*Codes.* A row is stored under the hash of its data, so what matters is who
knows a code. `CodeInv` says that the code of a ticket not delivered yet is
`Private`: no other call carries it, and it was not resold, accepted or
delivered (`FreshCodes`, `PendingIsStored`); that a code not yet generated is
nowhere (`UnusedCodes`); and that a row of `resell_tickets`, or a hash read from
one, is of a ticket with the id of the row (`ResaleIsOfItsTicket`).
`RevokedStaysRevoked` follows because the only INSERT into `ticket` is under a
private code, and no method resets `used`; `ReplacedNotLost` because a purge
comes after the INSERT of the replacement, which nobody else can delete.

*Counts.* `PurchaseLimitInv` counts the purchases under way with the tickets
held: passing the count of `buyTicket` moves a thread into the sum, a count
that failed is paid by `faults`. `AdmissionInv` counts in the same way the
threads between the check and the UPDATE of `validateTicket`. `NoTicketLost`
is inductive with `CodeInv`: each statement moves an id of `listed` between being
on sale, being stored and being held, or fails. A start that truncates makes
`listed` what it inserts; one that does not adds new ids to both sides, and the
ids of the purchases that the kill cut off leave `listed`. The lemmas are about cardinalities of
unions and images of finite sets.

*The market.* `Serial` is that there is one thread and `MaxFaults` and
`MaxRestarts` are 0. It is a premise of the two theorems and no assumption of a
module, since the code serves many connections. `SerialInv` says that an id has
one ticket except between the INSERT and the DELETE of a resale, that the three
tables agree on every id, and that what the call checked is still true. Under
it each statement is a purchase, a resale or an admission of `TicketMarket`, or
leaves the three mapped variables as they are. `FaceValueInv` is what makes the
price of a resale legal.

*Sessions.* `IInv` is in three parts. `ConnInv`: a program and its thread speak
in turn (`InTurn`, `Attuned`, `Named`), so what is in flight, or still being
checked, is about the program at the other end. `CookieInv`: wherever a cookie
is - in the maps, in flight, in a thread between two uses of a map, in a
program - its name and role are those of a log-in it was issued to, and the
connection is that of the log-in (`Carried`, `Home`) unless an answer `crossed`.
`NonceInv`: the holder of a live session is alone (`SoleHolder`) and, if
a Client, still connected (`Parted`); it has the server's nonce between requests (`Even`) and is
one ahead while its request is checked, served and answered, until `Count`
(`Ahead`). The hard case is `Answer` and `Count`: each uses whatever entry the
map holds by then. When that is a live session and the message was of another,
its cookie becomes `crossed`, and the session is live no more for the theorem;
when it is the session of the message, the message is the holder's, who is one
ahead, and `Count` makes them even. A log-in stored between the two makes the
answer carry one cookie and count the other: `crossed` then gets the second, and
`Unheard` says that the answer to a log-in never brings a cookie somebody holds. The frames
of the server's steps (`ServerTurn`, `CheckTurn`) and of the programs' are
lemmas, so an action is argued for its own connection. `OwnCookies` follows from
`CookieInv`; `DeadCookiesStayDead` holds because only `Authenticate` stores a
cookie, and the cookie it stores is not yet issued to its connection.

*Accounts.* `OneSignUpPerName` needs the link between the history and the
table: `RowsAreSignUps` says that every accepted sign-up is the row of its
folded name, with its id and its salted hash, and that every row has one. The
find of `signUp` plays no part in the argument; the UNIQUE key does, which is
why the theorem holds with failed SELECTs and any number of threads.
`SignedInAsRegistered` follows since the salt is a function of the name as
typed: another spelling of the same row has another hash. `EventIdsOfCatalogue`
needs `EventsInPlace`: the table is empty and its AUTO_INCREMENT untouched, or
the first event is in it, and then every later start ends at that row before it
takes an id. `BuyersAreServable` carries what a purchase looked up to the
moment it is served. `CatalogueOnSale` is the arithmetic of `resetTickets`: the
ids of row `i` are `(i - 1) \div TicketsPerEvent`, for any catalogue.

*Ticket files.* What a program read before a step of another is stale unless
that other step leaves a mark. `KeyInv`, `Alone` and `SavedInv` say that,
without a mark, a key or a file is written by one program, from nothing, and
not at all once it is settled; `Encrypted` and `Read` that what a program holds
is then what is on the disk. `TicketsAccounted` is a partition of the tickets
bought; `KeyNeverReplaced` follows from `KeyInv`.

*Connections.* `RoundTrip` is about texts of any length: `Written` says what a
text holds after each field that `serialize` appends, `WrittenNext` that a
further field keeps the earlier ones readable as long as they have no colon,
since then the k-th colon of the text is the k-th separator (`MarkOfCount`), and
the layouts have at most five fields. In `IInv`, `WholeMessages` says that a
record is one message and fits a read until a long one was sent; `OneInFlight`
that a message, the call for it and the answer to it are never there together,
and that a connection that was reset brings no further message, which is why the
answer that would raise SIGPIPE is never written; `InStep` that what a program
has read of an answer, with what is still on the connection, is the text of that
answer. A step touches one connection, or closes several (`OthersStay`,
`SparedStays`), so each action is argued for its own connection. For
`AnswersMatch` every answer must be readable by the program (`AnswersAreReplies`):
its factors have no colon, and its last field, where there may be some, is not
empty.

**Model-checked only.** Liveness under fairness and `ENABLED` are beyond TLAPS:
`EveryRequestEnds`, `WaitsEnd`, `ConnectionsDecided`, `RetriesGetThrough` and
`ConnectionsReleased` stay with TLC. Nothing here rests on induction over
data: the round trip goes through the at most five fields of a layout one by
one. Every safety property of a passing run is a theorem.

## 6. What is not modelled

* Cryptography as such: RSA, the key pair of the server (`GenerateServerKeys.cpp`),
  what OpenSSL computes. `TicketEncryption`, which only a test uses.
* A server that cannot bind or connect to MySQL at its start: it exits.
* Two `Transport` programs that send at once, and more than one address: see
  the bounds.
* `-bypass`, `printTickets`, `getOwnedTickets`, the listings of events and tickets, which change no
  state of the server beyond the nonce that `Answer` counts.
* `loginValidator`'s table, which nothing writes; unused user classes and
  repository methods without a caller; the test programs, which only print.

## 7. Plan

Written in this order: tickets (most of the promises in `REPORT.md`), sessions,
accounts, then connections, ticket files and the statements of a start. Still
to do:

* *TicketIST*, the composition: a session's request carries its user to
  `TicketService`.
* *From sessions to connections*: that `Transport`, as long as nothing is marked,
  delivers what `Sessions` takes for granted, as a refinement and not only by
  the properties that section 2 names.
