--------------------------- MODULE SessionSafety ---------------------------
(***************************************************************************)
(* What the session protocol guarantees when clients crash and reconnect,  *)
(* log in twice under one name, log out, and send what does not parse; and *)
(* the inductive invariant behind it, which SessionProofs proves.          *)
(***************************************************************************)
EXTENDS Sessions

Entry == [cookie : Cookies \cup {NoCookie}, nonce : Nat]

Message ==
  [kind : {"none", "Reject", "Accept", "Garbled"}]
  \cup [kind : {"LogIn"}, role : Roles, name : Names, right : BOOLEAN]
  \cup [kind : {"Request"}, role : Roles, name : Names \cup {NoName},
        cookie : Cookies \cup {NoCookie}, nonce : Nat]
  \cup [kind : {"LogOut"}, name : Names \cup {NoName},
        cookie : Cookies \cup {NoCookie}, nonce : Nat]
  \cup [kind : {"Auth"}, name : Names, cookie : Cookies \cup {NoCookie},
        nonce : Nat]

\* The message is on the wire until its check is over.
Checking == {"find", "cookie", "nonce"}

Activity == {Free, Reading}
            \cup [pc : {"generate", "authenticate", "erase"}, role : Roles, name : Names]
            \cup [pc : Checking, role : Roles]
            \cup [pc : {"greet", "answer"}, role : Roles, name : Names,
                  own : Cookies \cup {NoCookie}]
            \cup [pc : {"count"}, role : Roles, name : Names,
                  own : Cookies \cup {NoCookie}, cookie : Cookies \cup {NoCookie}]

Program == [st : {"down", "login", "menu"}, ssl : Pointers \cup {NoSSL},
            name : Names \cup {NoName}, cookie : Cookies \cup {NoCookie},
            nonce : Nat, waits : {"no", "login", "request", "logout", "nothing"}]

\* Maps, threads, messages and programs have the shapes of the code; two
\* programs never have the same connection.
TypeOK ==
  /\ DOMAIN sessions = Roles
  /\ \A r \in Roles : /\ DOMAIN sessions[r] \subseteq Names
                      /\ \A n \in DOMAIN sessions[r] : sessions[r][n] \in Entry
  /\ ssl_to_username \in [Pointers -> Names \cup {NoName}]
  /\ cookie_buffer \in Cookies \cup {NoCookie}
  /\ thread \in [Pointers -> Activity]
  /\ wire \in [Pointers -> Message]
  /\ client \in [Clients -> Program]
  /\ DOMAIN issued \subseteq Cookies
  /\ \A k \in DOMAIN issued :
       issued[k] \subseteq [name : Names, role : Roles, ssl : Pointers]
  /\ crossed \subseteq DOMAIN issued
  /\ \A c, d \in Clients :
       client[c].ssl = client[d].ssl /\ client[c].ssl # NoSSL => c = d

\* The session a client believes it has is the one the server has stored.
HoldsStored(c) ==
  LET role == RoleOf(c) IN
    /\ client[c].st = "menu"
    /\ client[c].name \in DOMAIN sessions[role]
    /\ client[c].cookie = sessions[role][client[c].name].cookie

\* One log-in was given this cookie.
Unshared(cookie) ==
  cookie \in DOMAIN issued /\ Cardinality(issued[cookie]) = 1

\* A session stays usable: as long as only its own messages were answered from
\* its entry, no log-in having been stored between a check and the two reads of
\* an answer, its holder and the server agree on the nonce whenever no request is
\* under way, so the next request is accepted (Controller.cpp:68, 131, 132).
\* Crashes, reconnections, refused requests, and other sessions of the same name
\* do not disturb it.
NonceInSync ==
  \A c \in Clients :
    /\ HoldsStored(c)
    /\ client[c].waits = "no"
    /\ Unshared(client[c].cookie)
    /\ client[c].cookie \notin crossed
    => sessions[RoleOf(c)][client[c].name].nonce = client[c].nonce

\* No client ever holds a cookie that was made only for another username or
\* another kind of account, though answers are written from whatever the map
\* holds by then (Controller.cpp:117 and 131).
OwnCookies ==
  \A c \in Clients :
    client[c].cookie \in DOMAIN issued =>
      \E l \in issued[client[c].cookie] : /\ l.name = client[c].name
                                          /\ l.role = RoleOf(c)

\* A cookie whose session was overwritten or logged out stays dead: no later
\* step of any thread stores it again, unless two log-ins got it.
DeadCookiesStayDead ==
  [][\A k \in DOMAIN issued, r \in Roles :
       /\ \E n \in DOMAIN sessions'[r] : sessions'[r][n].cookie = k
       /\ Cardinality(issued'[k]) = 1
       => \E n \in DOMAIN sessions[r] : sessions[r][n].cookie = k]_vars

-----------------------------------------------------------------------------
(***************************************************************************)
(* The inductive invariant behind these.                                   *)
(***************************************************************************)

\* What is on the connection of a program, and what its thread does, is about
\* that program.
Attuned(c) ==
  client[c].ssl # NoSSL =>
    LET t == thread[client[c].ssl]
        m == wire[client[c].ssl]
    IN  /\ client[c].waits \in {"no", "nothing"} => t = Reading /\ m = Quiet
        /\ t.pc \in {"generate", "authenticate", "greet"} => client[c].waits = "login"
        /\ t.pc = "answer" => client[c].waits = "request"
        /\ t.pc = "count" => client[c].waits \in {"login", "request"}
        /\ t.pc \in {"generate", "authenticate", "greet", "answer", "count"} =>
             t.role = RoleOf(c)
        /\ t.pc \in {"answer", "count"} /\ client[c].waits = "request" =>
             t.name = client[c].name
        /\ m.kind = "LogIn" => client[c].waits = "login" /\ m.role = RoleOf(c)
        /\ m.kind = "LogOut" => client[c].waits = "logout"
        /\ m.kind = "Request" =>
             /\ client[c].waits = "request"
             /\ m.role = RoleOf(c) /\ m.name = client[c].name
             /\ m.cookie = client[c].cookie /\ m.nonce = client[c].nonce

\* The name that ends with a connection is the one its program goes by.
Named(c) ==
  client[c].ssl # NoSSL =>
    LET t == thread[client[c].ssl]
        m == wire[client[c].ssl]
        name == ssl_to_username[client[c].ssl]
    IN  /\ client[c].st = "menu" => client[c].name = name
        /\ t.pc \in {"authenticate", "greet"} => t.name = name
        /\ t.pc = "count" /\ client[c].waits = "login" => t.name = name
        /\ m.kind = "Auth" /\ client[c].waits = "login" => m.name = name

\* A thread at work has taken the message off its connection, unless it is still
\* checking it.
InTurn(p) ==
  /\ thread[p] = Free => Peers(p) = {}
  /\ thread[p].pc \in Checking =>
       /\ wire[p].kind \in {"Request", "LogOut"}
       /\ wire[p].kind = "Request" => thread[p].role = wire[p].role
       /\ IF thread[p].pc = "find" THEN wire[p].kind = "LogOut"
                                   ELSE wire[p].name \in Names
  /\ thread[p] # Reading /\ thread[p].pc \notin Checking => wire[p] = Quiet

\* Programs and connections speak in turn.
ConnInv ==
  /\ \A p \in Pointers : InTurn(p)
  /\ \A c \in Clients :
       /\ client[c].st = "down" => client[c] = Down
       /\ client[c].st = "login" => client[c].cookie = NoCookie
       /\ client[c].waits = "login" => client[c].st = "login"
       /\ client[c].waits = "request" => client[c].st = "menu"
       /\ Attuned(c) /\ Named(c)

\* A log-in of that name and role got the cookie.
Own(cookie, name, role) ==
  /\ cookie \in DOMAIN issued
  /\ \E l \in issued[cookie] : l.name = name /\ l.role = role

\* A log-in on connection p got the cookie, unless it was answered elsewhere.
Home(cookie, p) == \/ cookie \in crossed
                   \/ \E l \in issued[cookie] : l.ssl = p

\* Under a session, between its check and its answer.
Answering == {"greet", "answer", "count"}

\* The cookies on connection p are those of the log-ins on p, or crossed.
Carried(p) ==
  /\ thread[p].pc = "authenticate" =>
       /\ cookie_buffer \in Cookies
       /\ cookie_buffer \in DOMAIN issued =>
            \A l \in issued[cookie_buffer] : l.ssl # p
  /\ wire[p].kind \in {"Auth", "Request"} /\ wire[p].cookie # NoCookie =>
       wire[p].cookie \in DOMAIN issued /\ Home(wire[p].cookie, p)
  /\ thread[p].pc \in Answering /\ thread[p].own # NoCookie =>
       thread[p].own \in DOMAIN issued /\ Home(thread[p].own, p)
  /\ thread[p].pc = "count" /\ thread[p].cookie # NoCookie =>
       /\ Own(thread[p].cookie, thread[p].name, thread[p].role)
       /\ Home(thread[p].cookie, p)
  /\ wire[p].kind = "Auth" /\ wire[p].cookie # NoCookie =>
       \A c \in Peers(p) : Own(wire[p].cookie, wire[p].name, RoleOf(c))

\* A cookie stays with the log-ins it was issued to, wherever it goes.
CookieInv ==
  /\ \A k \in DOMAIN issued : issued[k] # {} /\ IsFiniteSet(issued[k])
  /\ \A p \in Pointers : Carried(p)
  /\ \A r \in Roles : \A n \in DOMAIN sessions[r] :
       sessions[r][n].cookie # NoCookie => Own(sessions[r][n].cookie, n, r)
  /\ \A c \in Clients : client[c].cookie # NoCookie =>
       /\ Own(client[c].cookie, client[c].name, RoleOf(c))
       /\ client[c].ssl # NoSSL => Home(client[c].cookie, client[c].ssl)

\* One log-in got the cookie of a stored session, and it was used for its own
\* messages only.
LiveEntry(r, n) ==
  /\ n \in DOMAIN sessions[r]
  /\ Unshared(sessions[r][n].cookie)
  /\ sessions[r][n].cookie \notin crossed

Live(c) == HoldsStored(c) /\ LiveEntry(RoleOf(c), client[c].name)

StoredNonce(c) == sessions[RoleOf(c)][client[c].name].nonce

\* Whoever holds a live session is alone with its cookie.
SoleHolder(c, d) ==
  Live(c) /\ Live(d) /\ client[c].cookie = client[d].cookie => c = d

\* Between requests, and once answered, its holder has the nonce of the server.
Even(c) ==
  /\ Live(c)
  /\ \/ client[c].waits \in {"no", "nothing"}
     \/ /\ client[c].waits = "request"
        /\ client[c].ssl # NoSSL
        /\ wire[client[c].ssl].kind \in {"Auth", "Reject"}
  => StoredNonce(c) = client[c].nonce

\* A Client whose connection is lost has lost its session.
Parted(c) ==
  client[c].ssl = NoSSL /\ RoleOf(c) = "user" => ~Live(c)

\* A request under its cookie, until it is answered, is the holder's, who is one
\* ahead.
Ahead(c, p) ==
  /\ Live(c)
  /\ \/ wire[p].kind = "Request" /\ wire[p].cookie = client[c].cookie
     \/ thread[p].pc \in Answering /\ thread[p].own = client[c].cookie
  => /\ client[c].ssl = p /\ client[c].waits = "request"
     /\ client[c].nonce = StoredNonce(c) + 1

\* Nobody else is about to receive its cookie.
Unheard(c, p) ==
  /\ Live(c)
  /\ \/ wire[p].kind = "Auth" /\ wire[p].cookie = client[c].cookie
     \/ thread[p].pc = "count" /\ thread[p].cookie = client[c].cookie
  => \A d \in Peers(p) : client[d].waits # "login"

\* The answer to a log-in brings the nonce of the server.
Greeting(d, p) ==
  LET m == wire[p]
      r == RoleOf(d)
  IN  /\ d \in Peers(p) /\ client[d].waits = "login" /\ m.kind = "Auth"
      /\ LiveEntry(r, m.name) /\ m.cookie = sessions[r][m.name].cookie
      => m.nonce = sessions[r][m.name].nonce

NonceInv ==
  \A c \in Clients :
    /\ Even(c) /\ Parted(c)
    /\ \A d \in Clients : SoleHolder(c, d)
    /\ \A p \in Pointers : Ahead(c, p) /\ Unheard(c, p) /\ Greeting(c, p)

\* The inductive invariant: types, turns, cookies and nonces (Controller.cpp:68,
\* 117, 131).
IInv == TypeOK /\ ConnInv /\ CookieInv /\ NonceInv

-----------------------------------------------------------------------------

\* Every message sent to the server ends in an answer or in the end of the
\* connection.
EveryRequestEnds ==
  \A c \in Clients :
    client[c].waits \in {"login", "request", "logout"}
      ~> client[c].waits \in {"no", "nothing"}

-----------------------------------------------------------------------------
(***************************************************************************)
(* Sentences of REPORT.md about sessions, as written.  TLC refutes them.   *)
(***************************************************************************)

\* REPORT.md:319 "Upon receiving and validating an authenticated message, the
\* server updates the stored nonce value": a client that holds the stored cookie,
\* which no other log-in was given, is never refused for its nonce.  The answer
\* to a message of a session that was overwritten meanwhile increments the nonce
\* of the new one.
SessionUsable ==
  \A c \in Clients :
    HoldsStored(c) /\ client[c].waits = "no" /\ Unshared(client[c].cookie)
      => sessions[RoleOf(c)][client[c].name].nonce = client[c].nonce

\* REPORT.md:180 "a token (session cookies) to uniquely identify the user": two
\* sessions never have one cookie.  generateCookie returns a reference to a
\* static string that all threads write (AuthenticatedMessage.cpp:42).
CookieIdentifiesUser ==
  \A r1, r2 \in Roles : \A n1 \in DOMAIN sessions[r1], n2 \in DOMAIN sessions[r2] :
    /\ sessions[r1][n1].cookie = sessions[r2][n2].cookie
    /\ sessions[r1][n1].cookie \in Cookies
    => r1 = r2 /\ n1 = n2
=============================================================================
