------------------------------ MODULE Sessions ------------------------------
(***************************************************************************)
(* Sessions between the client programs (Client.cpp, Validator.cpp) and    *)
(* the server (common/src/Communication/TLSServer.cpp handleClient and     *)
(* common/src/Controller/Controller.cpp).                                  *)
(*                                                                         *)
(* A session is a (cookie, nonce) pair kept under the username in auth_map *)
(* or, for validators, in validator_map; a request carries the username,   *)
(* the cookie and the stored nonce + 1, and its answer carries the nonce   *)
(* after the increment.  One detached thread serves each connection; the   *)
(* threads share the maps and take no lock, so another connection's thread *)
(* runs between any two uses of a map: the three of a check, and the two   *)
(* of an answer.  What the service does between check and answer is        *)
(* TicketService.                                                          *)
(*                                                                         *)
(* A connection is named by its SSL* pointer, as the key of the map        *)
(* ssl_to_username is; SSL_free returns the pointer for a later SSL_new.   *)
(* A use of a session map is one step, with what the thread does next to   *)
(* it alone: its connection, its entry of ssl_to_username.  What a         *)
(* std::map does when two threads are inside it at once is not modelled.   *)
(*                                                                         *)
(* Messages fit a read; what a longer one does is in Transport.            *)
(*                                                                         *)
(* Nonces count from 0 in every session instead of a random origin: they   *)
(* are compared only after the cookies are.                                *)
(***************************************************************************)
EXTENDS Integers, FiniteSets

CONSTANTS Clients,     \* running copies of Client and Validator
          Validators,  \* the clients that are copies of Validator
          Names,       \* usernames; a validator may have a user's name
          Pointers,    \* SSL* values; also the bound on open connections
          Cookies,     \* what generateCookie can return; also the bound on
                       \* the log-ins of a behaviour
          MaxNonce,    \* bound: requests a client makes in a session
          NoName, NoCookie, NoSSL

ASSUME SessionAssumption ==
  /\ IsFiniteSet(Clients) /\ Validators \subseteq Clients
  /\ IsFiniteSet(Pointers) /\ IsFiniteSet(Cookies)
  /\ NoName \notin Names /\ NoCookie \notin Cookies /\ NoSSL \notin Pointers
  /\ MaxNonce \in Nat

VARIABLES sessions,         \* "user" -> auth_map, "validator" -> validator_map
          ssl_to_username,  \* pointer -> name; NoName where there is no entry
          cookie_buffer,    \* the static string of generateCookie
          thread,           \* pointer -> what handleClient is doing
          wire,             \* pointer -> the message in flight or being checked
          client,           \* client -> the globals of the program
          issued,           \* history: cookie -> the log-ins it was stored for
          crossed           \* history: cookies whose session was read or counted
                            \* for the answer to a message of another session

maps == <<sessions, ssl_to_username, cookie_buffer>>
server == <<maps, thread>>
history == <<issued, crossed>>
vars == <<server, wire, client, history>>

Roles == {"user", "validator"}
RoleOf(c) == IF c \in Validators THEN "validator" ELSE "user"

Quiet == [kind |-> "none"]
Free == [pc |-> "free"]       \* no thread: the pointer is not allocated
Reading == [pc |-> "read"]    \* blocked in SSL_read

\* A program that is not running has no connection and no session.
Down == [st |-> "down", ssl |-> NoSSL, name |-> NoName, cookie |-> NoCookie,
         nonce |-> 0, waits |-> "no"]

Init ==
  /\ sessions = [r \in Roles |-> << >>]
  /\ ssl_to_username = [p \in Pointers |-> NoName]
  /\ cookie_buffer = NoCookie
  /\ thread = [p \in Pointers |-> Free]
  /\ wire = [p \in Pointers |-> Quiet]
  /\ client = [c \in Clients |-> Down]
  /\ issued = << >>
  /\ crossed = {}

-----------------------------------------------------------------------------
(***************************************************************************)
(* The session maps                                                        *)
(***************************************************************************)

Put(map, key, value) ==
  [k \in DOMAIN map \cup {key} |-> IF k = key THEN value ELSE map[k]]

Erase(map, key) == [k \in DOMAIN map \ {key} |-> map[k]]

\* map[name] of a std::map: a missing entry is created as ("", 0).
At(map, name) ==
  IF name \in DOMAIN map THEN map[name] ELSE [cookie |-> NoCookie, nonce |-> 0]

\* logoutUserBySSL: whatever the role of the connection, it is auth_map that
\* loses the name.
logoutUserBySSL(p) ==
  /\ sessions' = [sessions EXCEPT !["user"] = Erase(@, ssl_to_username[p])]
  /\ ssl_to_username' = [ssl_to_username EXCEPT ![p] = NoName]

-----------------------------------------------------------------------------
(***************************************************************************)
(* The thread of connection p                                              *)
(***************************************************************************)

Peers(p) == {c \in Clients : client[c].ssl = p}

Send(p, m) == wire' = [wire EXCEPT ![p] = m]

Goto(p, record) == thread' = [thread EXCEPT ![p] = record]

Reject == [kind |-> "Reject"]

Received(p, kind) == thread[p] = Reading /\ wire[p].kind = kind

\* doLogInAction, doSignUpAction and doLogInValidatorAction up to the answer of
\* the database, which may also be that the statement failed.
ReadLogIn(p) ==
  /\ Received(p, "LogIn")
  /\ \/ /\ wire[p].right
        /\ Goto(p, [pc |-> "generate", role |-> wire[p].role,
                    name |-> wire[p].name])
        /\ Send(p, Quiet)
     \/ /\ Send(p, Reject)
        /\ UNCHANGED thread
  /\ UNCHANGED <<maps, client, history>>

\* saveSSL, then generateCookie, which returns a reference to its static string.
GenerateCookie(p) ==
  /\ thread[p].pc = "generate"
  /\ cookie_buffer' \in Cookies \ (DOMAIN issued \cup {cookie_buffer})
  /\ ssl_to_username' = [ssl_to_username EXCEPT ![p] = thread[p].name]
  /\ Goto(p, [thread[p] EXCEPT !.pc = "authenticate"])
  /\ UNCHANGED <<sessions, wire, client, history>>

LogInsWith(cookie) == IF cookie \in DOMAIN issued THEN issued[cookie] ELSE {}

\* authenticateUser or authenticateValidator: the static string is copied, as
\* it is by now, and a session of that name is overwritten.
Authenticate(p) ==
  /\ thread[p].pc = "authenticate"
  /\ sessions' = [sessions EXCEPT ![thread[p].role] =
       Put(@, thread[p].name, [cookie |-> cookie_buffer, nonce |-> 0])]
  /\ issued' = Put(issued, cookie_buffer, LogInsWith(cookie_buffer) \cup
       {[name |-> thread[p].name, role |-> thread[p].role, ssl |-> p]})
  /\ Goto(p, [pc |-> "greet", role |-> thread[p].role, name |-> thread[p].name,
              own |-> cookie_buffer])
  /\ UNCHANGED <<ssl_to_username, cookie_buffer, wire, client, crossed>>

\* A check has failed: the request is rejected; doLogoutAction, which has tried
\* the user's session, tries the validator's.
Refused(p, role) ==
  IF wire[p].kind = "LogOut" /\ role = "user"
    THEN Goto(p, [pc |-> "find", role |-> "validator"]) /\ UNCHANGED wire
    ELSE Goto(p, Reading) /\ Send(p, Reject)

\* isAuthenticated or isValidatorAuthenticated: the name has a session.
Find(p, role) ==
  IF wire[p].name \in DOMAIN sessions[role]
    THEN Goto(p, [pc |-> "cookie", role |-> role]) /\ UNCHANGED wire
    ELSE Refused(p, role)

ReadRequest(p) ==
  /\ Received(p, "Request")
  /\ Find(p, wire[p].role)
  /\ UNCHANGED <<maps, client, history>>

ReadLogOut(p) ==
  /\ Received(p, "LogOut")
  /\ Find(p, "user")
  /\ UNCHANGED <<maps, client, history>>

FindValidator(p) ==
  /\ thread[p].pc = "find"
  /\ Find(p, "validator")
  /\ UNCHANGED <<maps, client, history>>

\* Slip, not part of Next: a session that is gone by now is taken from the
\* message.
CompareCookieTrusting(p) ==
  /\ thread[p].pc = "cookie"
  /\ LET role == thread[p].role
         m    == wire[p]
     IN IF m.name \notin DOMAIN sessions[role]
          THEN /\ sessions' = [sessions EXCEPT ![role] = Put(@, m.name,
                                [cookie |-> m.cookie, nonce |-> m.nonce - 1])]
               /\ Goto(p, [thread[p] EXCEPT !.pc = "nonce"])
               /\ UNCHANGED wire
          ELSE /\ IF sessions[role][m.name].cookie = m.cookie
                    THEN Goto(p, [thread[p] EXCEPT !.pc = "nonce"]) /\ UNCHANGED wire
                    ELSE Refused(p, role)
               /\ UNCHANGED sessions
  /\ UNCHANGED <<ssl_to_username, cookie_buffer, client, history>>

\* The cookie of the entry, which is another one by now if a log-in was stored,
\* and an empty one that this creates if the session is gone.
CompareCookie(p) ==
  /\ thread[p].pc = "cookie"
  /\ LET role  == thread[p].role
         name  == wire[p].name
         entry == At(sessions[role], name)
     IN /\ sessions' = [sessions EXCEPT ![role] = Put(@, name, entry)]
        /\ IF entry.cookie = wire[p].cookie
             THEN Goto(p, [pc |-> "nonce", role |-> role]) /\ UNCHANGED wire
             ELSE Refused(p, role)
  /\ UNCHANGED <<ssl_to_username, cookie_buffer, client, history>>

\* The check has passed: the service is called, or the session erased.
Admitted(p, role) ==
  /\ Send(p, Quiet)
  /\ IF wire[p].kind = "Request"
       THEN Goto(p, [pc |-> "answer", role |-> role, name |-> wire[p].name,
                     own |-> wire[p].cookie])
       ELSE Goto(p, [pc |-> "erase", role |-> role, name |-> wire[p].name])

\* Slip, not part of Next: the nonce is counted before it is compared.
CompareNonceCountingRefused(p) ==
  /\ thread[p].pc = "nonce"
  /\ LET role  == thread[p].role
         name  == wire[p].name
         entry == At(sessions[role], name)
     IN IF entry.nonce + 1 = wire[p].nonce
          THEN /\ sessions' = [sessions EXCEPT ![role] = Put(@, name, entry)]
               /\ Admitted(p, role)
          ELSE /\ sessions' = [sessions EXCEPT ![role] =
                                 Put(@, name, [entry EXCEPT !.nonce = @ + 1])]
               /\ Refused(p, role)
  /\ UNCHANGED <<ssl_to_username, cookie_buffer, client, history>>

\* The nonce of the entry, under whatever session it is now.
CompareNonce(p) ==
  /\ thread[p].pc = "nonce"
  /\ LET role  == thread[p].role
         name  == wire[p].name
         entry == At(sessions[role], name)
     IN /\ sessions' = [sessions EXCEPT ![role] = Put(@, name, entry)]
        /\ IF entry.nonce + 1 = wire[p].nonce THEN Admitted(p, role)
                                              ELSE Refused(p, role)
  /\ UNCHANGED <<ssl_to_username, cookie_buffer, client, history>>

\* The session with that cookie was used for a message of the session `own'.
Cross(cookie, own) == crossed' = crossed \cup ({cookie} \ {own, NoCookie})

\* Slip, not part of Next: a validator is answered from auth_map.
AnswerFromAuthMap(p) ==
  /\ thread[p].pc \in {"greet", "answer"}
  /\ LET name  == thread[p].name
         entry == At(sessions["user"], name)
     IN /\ sessions' = [sessions EXCEPT !["user"] = Put(@, name, entry)]
        /\ Goto(p, [pc |-> "count", role |-> thread[p].role, name |-> name,
                    own |-> thread[p].own, cookie |-> entry.cookie])
        /\ Cross(entry.cookie, thread[p].own)
  /\ UNCHANGED <<ssl_to_username, cookie_buffer, wire, client, issued>>

\* createAcceptAuthMessage, createRejectAuthMessage and their validator
\* versions read the entry again, under whatever session it is now: its cookie.
Answer(p) ==
  /\ thread[p].pc \in {"greet", "answer"}
  /\ LET role  == thread[p].role
         name  == thread[p].name
         entry == At(sessions[role], name)
     IN /\ sessions' = [sessions EXCEPT ![role] = Put(@, name, entry)]
        /\ Goto(p, [pc |-> "count", role |-> role, name |-> name,
                    own |-> thread[p].own, cookie |-> entry.cookie])
        /\ Cross(entry.cookie, thread[p].own)
  /\ UNCHANGED <<ssl_to_username, cookie_buffer, wire, client, issued>>

\* And then they increment the nonce, of what may be another session again.
Count(p) ==
  /\ thread[p].pc = "count"
  /\ LET role  == thread[p].role
         name  == thread[p].name
         entry == At(sessions[role], name)
     IN /\ sessions' = [sessions EXCEPT ![role] =
             Put(@, name, [entry EXCEPT !.nonce = @ + 1])]
        /\ Send(p, [kind |-> "Auth", name |-> name, cookie |-> thread[p].cookie,
                    nonce |-> entry.nonce + 1])
        /\ Cross(entry.cookie, thread[p].own)
  /\ Goto(p, Reading)
  /\ UNCHANGED <<ssl_to_username, cookie_buffer, client, issued>>

LogOut(p) ==
  /\ thread[p].pc = "erase"
  /\ sessions' = [sessions EXCEPT ![thread[p].role] = Erase(@, thread[p].name)]
  /\ Send(p, [kind |-> "Accept"])
  /\ Goto(p, Reading)
  /\ UNCHANGED <<ssl_to_username, cookie_buffer, client, history>>

\* Slip, not part of Next: SSL_free without close.
ReleaseUnclosed(p) ==
  /\ Goto(p, Free)
  /\ Send(p, Quiet)
  /\ UNCHANGED client

\* SSL_free and close: the other end reads the end of the stream.
Release(p) ==
  /\ Goto(p, Free)
  /\ Send(p, Quiet)
  /\ client' = [c \in Clients |->
                  IF client[c].ssl = p THEN [client[c] EXCEPT !.ssl = NoSSL]
                                       ELSE client[c]]

\* Slip, not part of Next: the thread returns and leaves the connection open.
ReadGarbledReturning(p) ==
  /\ Received(p, "Garbled")
  /\ Goto(p, Free)
  /\ Send(p, Quiet)
  /\ UNCHANGED <<maps, client, history>>

\* A message that does not deserialize throws out of messageHandler.
ReadGarbled(p) ==
  /\ Received(p, "Garbled")
  /\ logoutUserBySSL(p)
  /\ Release(p)
  /\ UNCHANGED <<cookie_buffer, history>>

\* So does sellTicket, after the check: std::out_of_range of a number in the
\* ticket is no invalid_argument, which is all doSellTicketAction catches.
ServeThrows(p) ==
  /\ thread[p].pc = "answer" /\ thread[p].role = "user"
  /\ logoutUserBySSL(p)
  /\ Release(p)
  /\ UNCHANGED <<cookie_buffer, history>>

\* SSL_read returns 0 or less: the session is not logged out, and the entry of
\* ssl_to_username stays.
ReadEnd(p) ==
  /\ thread[p] = Reading
  /\ Peers(p) = {}
  /\ wire[p].kind \notin {"LogIn", "Request", "LogOut", "Garbled"}
  /\ Release(p)
  /\ UNCHANGED <<maps, history>>

ServerStep(p) ==
  \/ ReadLogIn(p) \/ GenerateCookie(p) \/ Authenticate(p)
  \/ ReadRequest(p) \/ ReadLogOut(p) \/ FindValidator(p)
  \/ CompareCookie(p) \/ CompareNonce(p)
  \/ Answer(p) \/ Count(p) \/ LogOut(p)
  \/ ReadGarbled(p) \/ ServeThrows(p) \/ ReadEnd(p)

-----------------------------------------------------------------------------
(***************************************************************************)
(* A client program                                                        *)
(***************************************************************************)

Update(c, record) == client' = [client EXCEPT ![c] = record]

\* The program is started: TLSServer::run accepts and starts the thread.
Connect(c) ==
  /\ client[c] = Down
  /\ \E p \in Pointers :
       /\ thread[p] = Free
       /\ Update(c, [Down EXCEPT !.st = "login", !.ssl = p])
       /\ Goto(p, Reading)
  /\ UNCHANGED <<maps, wire, history>>

CanSend(c) == client[c].ssl # NoSSL /\ client[c].waits = "no"

\* Bound: a log-in is sent only while a cookie is left for it.
CookiesRemain ==
  Cardinality(DOMAIN issued)
    + Cardinality({p \in Pointers : \/ thread[p].pc \in {"generate", "authenticate"}
                                    \/ wire[p].kind = "LogIn"})
    < Cardinality(Cookies)

SendLogIn(c, name, right) ==
  /\ client[c].st = "login"
  /\ CanSend(c)
  /\ CookiesRemain
  /\ Send(client[c].ssl, [kind |-> "LogIn", role |-> RoleOf(c), name |-> name,
                          right |-> right])
  /\ Update(c, [client[c] EXCEPT !.waits = "login"])
  /\ UNCHANGED <<server, history>>

\* ++nonce and send: any entry of the menu that talks to the server.
SendRequest(c) ==
  /\ client[c].st = "menu"
  /\ CanSend(c)
  /\ client[c].nonce < MaxNonce
  /\ Send(client[c].ssl, [kind |-> "Request", role |-> RoleOf(c),
                          name |-> client[c].name, cookie |-> client[c].cookie,
                          nonce |-> client[c].nonce + 1])
  /\ Update(c, [client[c] EXCEPT !.nonce = @ + 1, !.waits = "request"])
  /\ UNCHANGED <<server, history>>

\* validatorMenu waits for an answer after a choice that is not on the menu
\* too, for which it has sent nothing.
ChooseNothing(c) ==
  /\ c \in Validators
  /\ client[c].st = "menu"
  /\ client[c].waits = "no"
  /\ Update(c, [client[c] EXCEPT !.waits = "nothing"])
  /\ UNCHANGED <<server, wire, history>>

\* The last entry of the menu, or Ctrl-C, which also interrupts a wait for
\* nothing.
SendLogOut(c) ==
  /\ client[c].st = "menu"
  /\ client[c].ssl # NoSSL
  /\ client[c].waits \in {"no", "nothing"}
  /\ Send(client[c].ssl, [kind |-> "LogOut",
                          name |-> client[c].name, cookie |-> client[c].cookie,
                          nonce |-> client[c].nonce + 1])
  /\ Update(c, [client[c] EXCEPT !.nonce = @ + 1, !.waits = "logout"])
  /\ UNCHANGED <<server, history>>

\* ++nonce and a request that does not deserialize, its last field being empty:
\* the code a Validator is not given before the end of its input, the sale of a
\* ticket file with nothing in it.
SendGarbled(c) ==
  /\ client[c].st = "menu"
  /\ CanSend(c)
  /\ client[c].nonce < MaxNonce
  /\ Send(client[c].ssl, [kind |-> "Garbled"])
  /\ Update(c, [client[c] EXCEPT !.nonce = @ + 1, !.waits = "request"])
  /\ UNCHANGED <<server, history>>

Answered(c, kinds) ==
  /\ client[c].ssl # NoSSL
  /\ wire[client[c].ssl].kind \in kinds

\* The answer to a log-in.
ReceiveLogIn(c) ==
  /\ client[c].waits = "login"
  /\ Answered(c, {"Auth", "Reject"})
  /\ LET m == wire[client[c].ssl] IN
       IF m.kind = "Auth"
         THEN Update(c, [client[c] EXCEPT !.st = "menu", !.name = m.name,
                           !.cookie = m.cookie, !.nonce = m.nonce,
                           !.waits = "no"])
         ELSE Update(c, [client[c] EXCEPT !.waits = "no"])
  /\ Send(client[c].ssl, Quiet)
  /\ UNCHANGED <<server, history>>

\* An answer with this session's factors is printed, one without is ignored;
\* neither changes the globals, and neither does a Reject.
ReceiveAnswer(c) ==
  /\ client[c].waits = "request"
  /\ Answered(c, {"Auth", "Reject"})
  /\ Update(c, [client[c] EXCEPT !.waits = "no"])
  /\ Send(client[c].ssl, Quiet)
  /\ UNCHANGED <<server, history>>

\* logout exits whatever the answer is.
ReceiveLogOut(c) ==
  /\ client[c].waits = "logout"
  /\ Answered(c, {"Accept", "Reject"})
  /\ Update(c, Down)
  /\ Send(client[c].ssl, Quiet)
  /\ UNCHANGED <<server, history>>

\* The connection is gone.  Client: the read returns nothing, the menu falls
\* back to authenticate, whose send throws, and `return EXIT_FAILURE' is true:
\* back to the menu with the globals as they are.  Validator: the exception of
\* the send or of the empty answer ends the program.
ConnectionLost(c) ==
  /\ client[c].st \in {"login", "menu"}
  /\ client[c].ssl = NoSSL
  /\ IF c \in Validators \/ client[c].waits = "logout"
       THEN Update(c, Down)
       ELSE Update(c, [client[c] EXCEPT !.st = "menu", !.waits = "no"])
  /\ UNCHANGED <<server, wire, history>>

\* The program is killed or crashes; its end of the connection closes.  It is
\* also what becomes of a Validator whose log-in succeeds after a refused one:
\* its authenticate then ends without a return value.
Crash(c) ==
  /\ client[c] # Down
  /\ Update(c, Down)
  /\ UNCHANGED <<server, wire, history>>

ClientStep(c) ==
  \/ Connect(c) \/ Crash(c) \/ ConnectionLost(c)
  \/ \E name \in Names, right \in BOOLEAN : SendLogIn(c, name, right)
  \/ SendRequest(c) \/ SendLogOut(c) \/ SendGarbled(c) \/ ChooseNothing(c)
  \/ ReceiveLogIn(c) \/ ReceiveAnswer(c) \/ ReceiveLogOut(c)

Next ==
  \/ \E p \in Pointers : ServerStep(p)
  \/ \E c \in Clients : ClientStep(c)

Spec == Init /\ [][Next]_vars

\* Every thread of the server runs; a client reads what has arrived.
FairSpec ==
  /\ Spec
  /\ \A p \in Pointers : WF_vars(ServerStep(p))
  /\ \A c \in Clients : WF_vars(ReceiveLogIn(c) \/ ReceiveAnswer(c)
                                  \/ ReceiveLogOut(c) \/ ConnectionLost(c))
=============================================================================
