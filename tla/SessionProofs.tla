--------------------------- MODULE SessionProofs ---------------------------
(***************************************************************************)
(* The session protocol keeps its promises for any number of clients,      *)
(* validators, names, connections and cookies.                             *)
(*                                                                         *)
(* IInv of SessionSafety is inductive.  ConnInv says that a program and    *)
(* its connection speak in turn, so an answer is to the request that was   *)
(* sent.  CookieInv says that a cookie stays with the log-ins it was       *)
(* issued to; one that a second log-in gets is no longer unshared.         *)
(* NonceInv says that the one holder of a live session is either even with *)
(* the server or one request ahead of it.  The only step that changes the  *)
(* nonce of a live session is the Count of an answer under its cookie, and *)
(* by Ahead that answer is to the holder's own request.                    *)
(*                                                                         *)
(* ConnTurn, CookieTurn and QuietTurn are the frame of the server's steps, *)
(* ServerTurn is all three at once; OthersTurn, ClientShapes and           *)
(* ClientTurn are the frame of a program's.                                *)
(***************************************************************************)
EXTENDS SessionSafety, FiniteSetTheorems, TLAPS

-----------------------------------------------------------------------------
(***************************************************************************)
(* Shapes                                                                  *)
(***************************************************************************)

LEMMA MessageFields ==
  ASSUME NEW m \in Message
  PROVE  /\ m.kind \in {"none", "Reject", "Accept", "Garbled", "LogIn",
                        "Request", "LogOut", "Auth"}
         /\ m.kind = "LogIn" => m.role \in Roles /\ m.name \in Names
         /\ m.kind = "Request" =>
              /\ m.role \in Roles /\ m.name \in Names \cup {NoName}
              /\ m.cookie \in Cookies \cup {NoCookie} /\ m.nonce \in Nat
         /\ m.kind = "LogOut" =>
              /\ m.name \in Names \cup {NoName}
              /\ m.cookie \in Cookies \cup {NoCookie} /\ m.nonce \in Nat
         /\ m.kind = "Auth" =>
              /\ m.name \in Names
              /\ m.cookie \in Cookies \cup {NoCookie} /\ m.nonce \in Nat
  BY DEF Message

LEMMA ActivityFields ==
  ASSUME NEW t \in Activity
  PROVE  /\ t.pc \in {"free", "read", "generate", "authenticate", "find", "cookie",
                      "nonce", "greet", "answer", "count", "erase"}
         /\ t = Free <=> t.pc = "free"
         /\ t = Reading <=> t.pc = "read"
         /\ t.pc \notin {"free", "read"} => t.role \in Roles
         /\ t.pc \in {"generate", "authenticate", "greet", "answer", "count", "erase"} =>
              t.name \in Names
         /\ t.pc \in Answering => t.own \in Cookies \cup {NoCookie}
         /\ t.pc = "count" => t.cookie \in Cookies \cup {NoCookie}
  BY DEF Activity, Free, Reading, Checking, Answering

\* What the records of a thread at work are.
LEMMA ActivityForms ==
  /\ \A x \in {"generate", "authenticate", "erase"}, r \in Roles, n \in Names :
       [pc |-> x, role |-> r, name |-> n] \in Activity
  /\ \A x \in Checking, r \in Roles : [pc |-> x, role |-> r] \in Activity
  /\ \A x \in {"greet", "answer"}, r \in Roles, n \in Names,
        k \in Cookies \cup {NoCookie} :
       [pc |-> x, role |-> r, name |-> n, own |-> k] \in Activity
  /\ \A r \in Roles, n \in Names, k, j \in Cookies \cup {NoCookie} :
       [pc |-> "count", role |-> r, name |-> n, own |-> k, cookie |-> j] \in Activity
  BY DEF Activity

LEMMA ProgramFields ==
  ASSUME NEW x \in Program
  PROVE  /\ x.st \in {"down", "login", "menu"}
         /\ x.ssl \in Pointers \cup {NoSSL}
         /\ x.name \in Names \cup {NoName}
         /\ x.cookie \in Cookies \cup {NoCookie}
         /\ x.nonce \in Nat
         /\ x.waits \in {"no", "login", "request", "logout", "nothing"}
  BY DEF Program

LEMMA Constants ==
  /\ Quiet \in Message /\ Reject \in Message /\ [kind |-> "Accept"] \in Message
  /\ [kind |-> "Garbled"] \in Message
  /\ Quiet.kind = "none" /\ Reject.kind = "Reject"
  /\ Free \in Activity /\ Reading \in Activity /\ Down \in Program
  /\ Free.pc = "free" /\ Reading.pc = "read"
  /\ \A c \in Clients : RoleOf(c) \in Roles
  /\ Roles = {"user", "validator"}
  BY DEF Message, Quiet, Reject, Free, Reading, Activity, Down, Program, RoleOf, Roles

LEMMA DownFields ==
  /\ Down.st = "down" /\ Down.ssl = NoSSL /\ Down.name = NoName
  /\ Down.cookie = NoCookie /\ Down.nonce = 0 /\ Down.waits = "no"
  BY DEF Down

LEMMA Sent ==
  ASSUME wire \in [Pointers -> Message], NEW p \in Pointers, NEW m \in Message,
         Send(p, m)
  PROVE  /\ wire' \in [Pointers -> Message] /\ wire'[p] = m
         /\ \A q \in Pointers \ {p} : wire'[q] = wire[q]
  BY DEF Send

LEMMA Gone ==
  ASSUME thread \in [Pointers -> Activity], NEW p \in Pointers,
         NEW t \in Activity, Goto(p, t)
  PROVE  /\ thread' \in [Pointers -> Activity] /\ thread'[p] = t
         /\ \A q \in Pointers \ {p} : thread'[q] = thread[q]
  BY DEF Goto

LEMMA Updated ==
  ASSUME client \in [Clients -> Program], NEW c \in Clients,
         NEW x \in Program, Update(c, x)
  PROVE  /\ client' \in [Clients -> Program] /\ client'[c] = x
         /\ \A d \in Clients \ {c} : client'[d] = client[d]
  BY DEF Update

\* A program with some of its globals changed.
LEMMA ProgramWaits ==
  ASSUME NEW x \in Program, NEW w \in {"no", "login", "request", "logout", "nothing"}
  PROVE  LET y == [x EXCEPT !.waits = w]
         IN  /\ y \in Program /\ y.st = x.st /\ y.ssl = x.ssl /\ y.name = x.name
             /\ y.cookie = x.cookie /\ y.nonce = x.nonce /\ y.waits = w
  BY DEF Program

LEMMA ProgramCounts ==
  ASSUME NEW x \in Program, NEW w \in {"no", "login", "request", "logout", "nothing"}
  PROVE  LET y == [x EXCEPT !.nonce = @ + 1, !.waits = w]
         IN  /\ y \in Program /\ y.st = x.st /\ y.ssl = x.ssl /\ y.name = x.name
             /\ y.cookie = x.cookie /\ y.nonce = x.nonce + 1 /\ y.waits = w
<1>1. PICK n \in Nat : n = x.nonce + 1
  BY DEF Program
<1>2. LET y == [x EXCEPT !.nonce = n, !.waits = w]
      IN  /\ y \in Program /\ y.st = x.st /\ y.ssl = x.ssl /\ y.name = x.name
          /\ y.cookie = x.cookie /\ y.nonce = n /\ y.waits = w
  BY DEF Program
<1>3. [x EXCEPT !.nonce = @ + 1, !.waits = w] = [x EXCEPT !.nonce = n, !.waits = w]
  BY <1>1
<1> QED
  BY <1>1, <1>2, <1>3

LEMMA ProgramLoses ==
  ASSUME NEW x \in Program
  PROVE  LET y == [x EXCEPT !.ssl = NoSSL]
         IN  /\ y \in Program /\ y.st = x.st /\ y.ssl = NoSSL /\ y.name = x.name
             /\ y.cookie = x.cookie /\ y.nonce = x.nonce /\ y.waits = x.waits
  BY DEF Program

LEMMA ProgramReturns ==
  ASSUME NEW x \in Program
  PROVE  LET y == [x EXCEPT !.st = "menu", !.waits = "no"]
         IN  /\ y \in Program /\ y.st = "menu" /\ y.ssl = x.ssl /\ y.name = x.name
             /\ y.cookie = x.cookie /\ y.nonce = x.nonce /\ y.waits = "no"
  BY DEF Program

LEMMA ProgramEnters ==
  ASSUME NEW x \in Program, NEW m \in Message, m.kind = "Auth"
  PROVE  LET y == [x EXCEPT !.st = "menu", !.name = m.name, !.cookie = m.cookie,
                            !.nonce = m.nonce, !.waits = "no"]
         IN  /\ y \in Program /\ y.st = "menu" /\ y.ssl = x.ssl /\ y.name = m.name
             /\ y.cookie = m.cookie /\ y.nonce = m.nonce /\ y.waits = "no"
  BY MessageFields DEF Program

LEMMA ProgramConnects ==
  ASSUME NEW p \in Pointers
  PROVE  LET y == [Down EXCEPT !.st = "login", !.ssl = p]
         IN  /\ y \in Program /\ y.st = "login" /\ y.ssl = p /\ y.name = NoName
             /\ y.cookie = NoCookie /\ y.nonce = 0 /\ y.waits = "no"
  BY DEF Program, Down

-----------------------------------------------------------------------------
(***************************************************************************)
(* The maps                                                                *)
(***************************************************************************)

\* The sessions stay as they are, but for ones that end and for empty entries.
Kept ==
  /\ DOMAIN sessions' = Roles
  /\ \A r \in Roles : DOMAIN sessions'[r] \subseteq Names
  /\ \A r \in Roles : \A n \in DOMAIN sessions'[r] :
       \/ n \in DOMAIN sessions[r] /\ sessions'[r][n] = sessions[r][n]
       \/ sessions'[r][n] = [cookie |-> NoCookie, nonce |-> 0]

\* No cookie comes into the maps.
NothingStored ==
  \A r \in Roles : \A n \in DOMAIN sessions'[r] :
    sessions'[r][n].cookie # NoCookie =>
      n \in DOMAIN sessions[r] /\ sessions'[r][n].cookie = sessions[r][n].cookie

LEMMA KeptSame ==
  ASSUME TypeOK, UNCHANGED sessions
  PROVE  Kept
  BY DEF TypeOK, Kept

LEMMA KeptErase ==
  ASSUME TypeOK, NEW r \in Roles, NEW n,
         sessions' = [sessions EXCEPT ![r] = Erase(@, n)]
  PROVE  Kept
  BY DEF TypeOK, Kept, Erase

\* What a use of map[n] does to the map.
LEMMA EntryUsed ==
  ASSUME TypeOK, NEW r \in Roles, NEW n \in Names, NEW e,
         sessions' = [sessions EXCEPT ![r] = Put(@, n, e)]
  PROVE  /\ DOMAIN sessions' = Roles
         /\ \A s \in Roles \ {r} : sessions'[s] = sessions[s]
         /\ DOMAIN sessions'[r] = DOMAIN sessions[r] \cup {n}
         /\ sessions'[r][n] = e
         /\ \A m \in DOMAIN sessions[r] \ {n} : sessions'[r][m] = sessions[r][m]
  BY DEF TypeOK, Put

LEMMA EntryRead ==
  ASSUME TypeOK, NEW r \in Roles, NEW n
  PROVE  LET e == At(sessions[r], n) IN
           /\ e \in Entry
           /\ \/ n \in DOMAIN sessions[r] /\ e = sessions[r][n]
              \/ e = [cookie |-> NoCookie, nonce |-> 0]
           /\ e.cookie # NoCookie => n \in DOMAIN sessions[r] /\ e = sessions[r][n]
  BY DEF TypeOK, At, Entry

LEMMA KeptUse ==
  ASSUME TypeOK, NEW r \in Roles, NEW n \in Names,
         sessions' = [sessions EXCEPT ![r] = Put(@, n, At(sessions[r], n))]
  PROVE  Kept
<1>1. PICK e : e = At(sessions[r], n)
  OBVIOUS
<1>2. /\ DOMAIN sessions' = Roles
      /\ \A s \in Roles \ {r} : sessions'[s] = sessions[s]
      /\ DOMAIN sessions'[r] = DOMAIN sessions[r] \cup {n}
      /\ sessions'[r][n] = e
      /\ \A m \in DOMAIN sessions[r] \ {n} : sessions'[r][m] = sessions[r][m]
  <2>1. sessions' = [sessions EXCEPT ![r] = Put(@, n, e)]
    BY <1>1
  <2> QED
    BY <2>1, EntryUsed
<1>3. \/ n \in DOMAIN sessions[r] /\ e = sessions[r][n]
      \/ e = [cookie |-> NoCookie, nonce |-> 0]
  BY <1>1, EntryRead
<1>4. \A s \in Roles : DOMAIN sessions'[s] \subseteq Names
  BY <1>2 DEF TypeOK
<1>5. ASSUME NEW s \in Roles, NEW m \in DOMAIN sessions'[s]
      PROVE  \/ m \in DOMAIN sessions[s] /\ sessions'[s][m] = sessions[s][m]
             \/ sessions'[s][m] = [cookie |-> NoCookie, nonce |-> 0]
  <2>1. CASE s = r /\ m = n
    BY <1>2, <1>3, <2>1
  <2>2. CASE s = r /\ m # n
    BY <1>2, <1>5, <2>2
  <2>3. CASE s # r
    BY <1>2, <1>5, <2>3
  <2> QED
    BY <2>1, <2>2, <2>3
<1> QED
  BY <1>2, <1>4, <1>5 DEF Kept

LEMMA KeptTyped ==
  ASSUME TypeOK, Kept
  PROVE  /\ DOMAIN sessions' = Roles
         /\ \A r \in Roles : /\ DOMAIN sessions'[r] \subseteq Names
                             /\ \A n \in DOMAIN sessions'[r] : sessions'[r][n] \in Entry
         /\ NothingStored
<1>1. [cookie |-> NoCookie, nonce |-> 0] \in Entry
  BY DEF Entry
<1> QED
  BY <1>1 DEF TypeOK, Kept, NothingStored

-----------------------------------------------------------------------------
(***************************************************************************)
(* Steps in general                                                        *)
(***************************************************************************)

\* No session that anybody may know of comes to life or changes.
Steady ==
  \A r \in Roles : \A n :
    LiveEntry(r, n)' /\ sessions'[r][n].cookie \in DOMAIN issued =>
      /\ LiveEntry(r, n) /\ sessions'[r][n] = sessions[r][n]
      /\ issued'[sessions[r][n].cookie] = issued[sessions[r][n].cookie]

LEMMA KeptSteady ==
  ASSUME TypeOK, Kept, UNCHANGED issued, crossed \subseteq crossed'
  PROVE  Steady
<1> SUFFICES ASSUME NEW r \in Roles, NEW n, LiveEntry(r, n)'
             PROVE  LiveEntry(r, n) /\ sessions'[r][n] = sessions[r][n]
  BY DEF Steady
<1>1. /\ n \in DOMAIN sessions'[r] /\ Unshared(sessions'[r][n].cookie)
      /\ sessions'[r][n].cookie \notin crossed'
  BY DEF LiveEntry, Unshared
<1>2. sessions'[r][n].cookie # NoCookie
  BY <1>1, SessionAssumption DEF TypeOK, Unshared
<1>3. n \in DOMAIN sessions[r] /\ sessions'[r][n] = sessions[r][n]
  BY <1>1, <1>2 DEF Kept
<1> QED
  BY <1>1, <1>3 DEF LiveEntry

\* What a live session has is a cookie somebody was given.
LEMMA LiveIsIssued ==
  ASSUME CookieInv, TypeOK', NEW cookie, Unshared(cookie)',
         cookie # NoCookie => cookie \in DOMAIN issued
  PROVE  cookie \in DOMAIN issued
<1>1. cookie \in Cookies
  BY DEF TypeOK, Unshared
<1> QED
  BY <1>1, SessionAssumption

LEMMA StillLive ==
  ASSUME CookieInv, TypeOK', Steady, NEW c \in Clients, Live(c)',
         client'[c].st = client[c].st,
         client'[c].name = client[c].name, client'[c].cookie = client[c].cookie
  PROVE  /\ Live(c) /\ StoredNonce(c)' = StoredNonce(c)
         /\ issued'[client[c].cookie] = issued[client[c].cookie]
<1>1. PICK r, n, k : r = RoleOf(c) /\ n = client[c].name /\ k = client[c].cookie
  OBVIOUS
<1>2. RoleOf(c)' = r /\ r \in Roles
  BY <1>1, Constants DEF RoleOf
<1>3. LiveEntry(r, n)' /\ sessions'[r][n].cookie = k
  BY <1>1, <1>2 DEF Live, HoldsStored
<1>4. k \in DOMAIN issued
  <2>1. Unshared(k)'
    BY <1>3 DEF LiveEntry
  <2>2. k # NoCookie => k \in DOMAIN issued
    BY <1>1 DEF CookieInv, Own
  <2> QED
    BY <2>1, <2>2, LiveIsIssued
<1>5. /\ LiveEntry(r, n) /\ sessions'[r][n] = sessions[r][n]
      /\ issued'[sessions[r][n].cookie] = issued[sessions[r][n].cookie]
  BY <1>2, <1>3, <1>4 DEF Steady
<1>6. client[c].cookie = sessions[r][n].cookie
  BY <1>1, <1>3, <1>5
<1> QED
  BY <1>1, <1>2, <1>5, <1>6 DEF Live, HoldsStored, StoredNonce, LiveEntry

\* A step of the server on connection p that brings no answer of a session.
LEMMA QuietTurn ==
  ASSUME TypeOK, CookieInv, NonceInv, TypeOK', NEW p \in Pointers, Steady,
         \A q \in Pointers \ {p} : thread'[q] = thread[q] /\ wire'[q] = wire[q],
         \A c \in Clients :
           /\ client'[c].st = client[c].st /\ client'[c].name = client[c].name
           /\ client'[c].cookie = client[c].cookie
           /\ client'[c].nonce = client[c].nonce
           /\ client'[c].waits = client[c].waits
           /\ \/ client'[c].ssl = client[c].ssl
              \/ client[c].ssl = p /\ client'[c].ssl = NoSSL,
         wire'[p].kind # "Auth",
         \A c \in Clients : Ahead(c, p)' /\ Unheard(c, p)',
         \A c \in Clients :
           wire'[p].kind = "Reject" /\ client[c].ssl = p
             => ~(Live(c) /\ client[c].waits = "request"),
         \A c \in Clients :
           client'[c].ssl = NoSSL /\ client[c].ssl # NoSSL /\ RoleOf(c) = "user"
             => ~Live(c)'
  PROVE  NonceInv'
<1>1. /\ NoSSL \notin Pointers
      /\ \A c \in Clients : client[c].ssl \in Pointers \cup {NoSSL}
  BY SessionAssumption, ProgramFields DEF TypeOK
<1> SUFFICES ASSUME NEW c \in Clients
             PROVE  /\ Even(c)' /\ Parted(c)'
                    /\ \A d \in Clients : SoleHolder(c, d)'
                    /\ \A q \in Pointers :
                         Ahead(c, q)' /\ Unheard(c, q)' /\ Greeting(c, q)'
  BY DEF NonceInv
<1>2. \A d \in Clients : Live(d)' =>
        /\ Live(d) /\ StoredNonce(d)' = StoredNonce(d)
        /\ issued'[client[d].cookie] = issued[client[d].cookie]
  BY StillLive
<1>3. Even(c)'
  <2> SUFFICES ASSUME Live(c)',
                      \/ client[c].waits \in {"no", "nothing"}
                      \/ /\ client[c].waits = "request"
                         /\ client'[c].ssl # NoSSL
                         /\ wire'[client'[c].ssl].kind \in {"Auth", "Reject"}
               PROVE  StoredNonce(c)' = client'[c].nonce
    BY DEF Even
  <2>1. Even(c)
    BY DEF NonceInv
  <2>2. CASE client[c].waits \in {"no", "nothing"}
    BY <1>2, <2>1, <2>2 DEF Even
  <2>3. CASE client[c].waits = "request" /\ client[c].ssl = p
    BY <1>1, <1>2, <2>3
  <2>4. CASE client[c].waits = "request" /\ client[c].ssl \in Pointers \ {p}
    <3>1. wire'[client'[c].ssl] = wire[client[c].ssl] /\ client'[c].ssl = client[c].ssl
      BY <1>1, <2>4
    <3> QED
      BY <1>2, <2>1, <2>4, <3>1 DEF Even
  <2> QED
    BY <1>1, <2>2, <2>3, <2>4
<1>4. ASSUME NEW d \in Clients PROVE SoleHolder(c, d)'
  BY <1>2, <1>4 DEF NonceInv, SoleHolder
<1>5. ASSUME NEW q \in Pointers PROVE Ahead(c, q)'
  <2>2. CASE q # p
    <3>1. Ahead(c, q) /\ thread'[q] = thread[q] /\ wire'[q] = wire[q]
      BY <1>5, <2>2 DEF NonceInv
    <3> QED
      BY <1>2, <2>2, <3>1 DEF Ahead
  <2> QED
    BY <2>2
<1>6. ASSUME NEW q \in Pointers PROVE Unheard(c, q)' /\ Greeting(c, q)'
  <2>1. CASE q = p
    BY <2>1 DEF Greeting
  <2>2. CASE q # p
    <3>1. Unheard(c, q) /\ Greeting(c, q) /\ wire'[q] = wire[q] /\ thread'[q] = thread[q]
      BY <1>6, <2>2 DEF NonceInv
    <3>2. \A d \in Clients : d \in Peers(q)' => d \in Peers(q)
      BY <1>1, <1>6 DEF Peers
    <3>3. Unheard(c, q)'
      BY <1>2, <3>1, <3>2 DEF Unheard, Peers
    <3>4. Greeting(c, q)'
      <4>1. PICK r, m : r = RoleOf(c) /\ m = wire[q]
        OBVIOUS
      <4>2. RoleOf(c)' = r /\ r \in Roles
        BY <4>1, Constants DEF RoleOf
      <4>3. ASSUME LiveEntry(r, m.name)', m.cookie = sessions'[r][m.name].cookie,
                   m.kind = "Auth"
            PROVE  /\ LiveEntry(r, m.name)
                   /\ sessions'[r][m.name] = sessions[r][m.name]
        <5>1. Unshared(m.cookie)'
          BY <4>3 DEF LiveEntry
        <5>2. m.cookie # NoCookie => m.cookie \in DOMAIN issued
          BY <1>6, <4>1, <4>3 DEF CookieInv, Carried
        <5>3. m.cookie \in DOMAIN issued
          BY <5>1, <5>2, LiveIsIssued
        <5> QED
          BY <4>2, <4>3, <5>3 DEF Steady
      <4> QED
        BY <3>1, <3>2, <4>1, <4>2, <4>3 DEF Greeting
    <3> QED
      BY <3>3, <3>4
  <2> QED
    BY <2>1, <2>2
<1>7. Parted(c)'
  <2>1. Parted(c) /\ RoleOf(c)' = RoleOf(c)
    BY DEF NonceInv, RoleOf
  <2> QED
    BY <1>2, <2>1 DEF Parted
<1> QED
  BY <1>3, <1>4, <1>5, <1>6, <1>7

\* A step of the server on connection p, for programs and connections.
LEMMA ConnTurn ==
  ASSUME TypeOK, ConnInv, NEW p \in Pointers,
         \A q \in Pointers \ {p} :
           /\ thread'[q] = thread[q] /\ wire'[q] = wire[q]
           /\ ssl_to_username'[q] = ssl_to_username[q],
         client' = client, InTurn(p)',
         \A c \in Clients : client[c].ssl = p => Attuned(c)' /\ Named(c)'
  PROVE  ConnInv'
<1>1. ASSUME NEW q \in Pointers PROVE InTurn(q)'
  <2>1. CASE q = p
    BY <2>1
  <2>2. CASE q # p
    <3>1. InTurn(q) /\ thread'[q] = thread[q] /\ wire'[q] = wire[q]
      BY <1>1, <2>2 DEF ConnInv
    <3> QED
      BY <3>1 DEF InTurn, Peers
  <2> QED
    BY <2>1, <2>2
<1>2. ASSUME NEW c \in Clients PROVE Attuned(c)' /\ Named(c)'
  <2>1. CASE client[c].ssl = p
    BY <2>1
  <2>2. CASE client[c].ssl = NoSSL
    BY <2>2 DEF Attuned, Named
  <2>3. CASE client[c].ssl \in Pointers \ {p}
    <3>1. Attuned(c) /\ Named(c)
      BY DEF ConnInv
    <3>2. RoleOf(c)' = RoleOf(c)
      BY DEF RoleOf
    <3>3. Attuned(c)'
      BY <2>3, <3>1, <3>2 DEF Attuned
    <3>4. Named(c)'
      BY <2>3, <3>1 DEF Named
    <3> QED
      BY <3>3, <3>4
  <2> QED
    BY <2>1, <2>2, <2>3, ProgramFields DEF TypeOK
<1> QED
  BY <1>1, <1>2 DEF ConnInv

\* A step on connection p that stores no cookie.
LEMMA CookieTurn ==
  ASSUME TypeOK, CookieInv, NEW p \in Pointers,
         \A q \in Pointers \ {p} : thread'[q] = thread[q] /\ wire'[q] = wire[q],
         \A c \in Clients :
           /\ client'[c].name = client[c].name /\ client'[c].cookie = client[c].cookie
           /\ client'[c].ssl = client[c].ssl \/ client'[c].ssl = NoSSL,
         \/ cookie_buffer' = cookie_buffer
         \/ cookie_buffer' \in Cookies /\ cookie_buffer' \notin DOMAIN issued,
         UNCHANGED issued, crossed \subseteq crossed', NothingStored, Carried(p)'
  PROVE  CookieInv'
<1>1. ASSUME NEW k, NEW q, Home(k, q)
      PROVE  Home(k, q)'
  BY <1>1 DEF Home
<1>2. ASSUME NEW k, NEW n, NEW r, Own(k, n, r)
      PROVE  Own(k, n, r)'
  BY <1>2 DEF Own
<1>3. NoSSL \notin Pointers
  BY SessionAssumption
<1>4. ASSUME NEW q \in Pointers PROVE Carried(q)'
  <2>1. CASE q = p
    BY <2>1
  <2>2. CASE q # p
    <3>1. PICK t, m : t = thread[q] /\ m = wire[q]
      OBVIOUS
    <3>2. thread'[q] = t /\ wire'[q] = m
      BY <1>4, <2>2, <3>1
    <3>3. Carried(q)
      BY <1>4 DEF CookieInv
    <3>4. t.pc = "authenticate" =>
            /\ cookie_buffer' \in Cookies
            /\ cookie_buffer' \in DOMAIN issued' =>
                 \A l \in issued'[cookie_buffer'] : l.ssl # q
      BY <3>1, <3>3 DEF Carried
    <3>5. m.kind \in {"Auth", "Request"} /\ m.cookie # NoCookie =>
            m.cookie \in DOMAIN issued' /\ Home(m.cookie, q)'
      BY <1>1, <3>1, <3>3 DEF Carried
    <3>6. t.pc \in Answering /\ t.own # NoCookie =>
            t.own \in DOMAIN issued' /\ Home(t.own, q)'
      BY <1>1, <3>1, <3>3 DEF Carried
    <3>7. t.pc = "count" /\ t.cookie # NoCookie =>
            Own(t.cookie, t.name, t.role)' /\ Home(t.cookie, q)'
      BY <1>1, <1>2, <3>1, <3>3 DEF Carried
    <3>8. ASSUME NEW c \in Peers(q)', m.kind = "Auth", m.cookie # NoCookie
          PROVE  Own(m.cookie, m.name, RoleOf(c))'
      <4>1. c \in Peers(q)
        BY <1>3, <1>4, <3>8 DEF Peers
      <4>2. Own(m.cookie, m.name, RoleOf(c))
        BY <3>1, <3>3, <3>8, <4>1 DEF Carried
      <4> QED
        BY <4>2 DEF Own, RoleOf
    <3> QED
      BY <3>2, <3>4, <3>5, <3>6, <3>7, <3>8 DEF Carried, Own, Home
  <2> QED
    BY <2>1, <2>2
<1>5. ASSUME NEW r \in Roles, NEW n \in DOMAIN sessions'[r],
             sessions'[r][n].cookie # NoCookie
      PROVE  Own(sessions[r][n].cookie, n, r)'
  <2>1. PICK k : k = sessions'[r][n].cookie
    OBVIOUS
  <2>2. Own(k, n, r)
    BY <1>5, <2>1 DEF NothingStored, CookieInv
  <2> QED
    BY <1>2, <2>1, <2>2 DEF Own
<1>6. ASSUME NEW c \in Clients, client'[c].cookie # NoCookie
      PROVE  /\ Own(client[c].cookie, client[c].name, RoleOf(c))'
             /\ client'[c].ssl # NoSSL => Home(client[c].cookie, client[c].ssl)'
  <2>1. PICK k, q : k = client[c].cookie /\ q = client[c].ssl
    OBVIOUS
  <2>2. Own(k, client[c].name, RoleOf(c)) /\ (q # NoSSL => Home(k, q))
    BY <1>6, <2>1 DEF CookieInv
  <2>3. q # NoSSL => Home(k, q)'
    BY <1>1, <2>2
  <2> QED
    BY <1>6, <2>1, <2>2, <2>3 DEF Own, Home, RoleOf
<1>7. \A k \in DOMAIN issued' : issued'[k] # {} /\ IsFiniteSet(issued'[k])
  BY DEF CookieInv
<1> QED
  BY <1>4, <1>5, <1>6, <1>7 DEF CookieInv

\* A thread that is not in the middle of an answer and a line with neither a
\* request nor an answer carry nothing.
LEMMA NothingCarried ==
  ASSUME NEW p \in Pointers,
         thread'[p].pc \notin Answering \cup {"authenticate"},
         wire'[p].kind \notin {"Auth", "Request"}
  PROVE  Carried(p)' /\ \A c \in Clients : Ahead(c, p)' /\ Unheard(c, p)'
  BY DEF Carried, Ahead, Unheard, Answering

\* A step of the server on connection p that stores no session, counts nothing
\* and leaves the programs alone.
LEMMA ServerTurn ==
  ASSUME IInv, NEW p \in Pointers, NEW t \in Activity, NEW m \in Message,
         Goto(p, t), Send(p, m), Kept,
         ssl_to_username' \in [Pointers -> Names \cup {NoName}],
         \A q \in Pointers \ {p} : ssl_to_username'[q] = ssl_to_username[q],
         \/ cookie_buffer' = cookie_buffer
         \/ cookie_buffer' \in Cookies /\ cookie_buffer' \notin DOMAIN issued,
         UNCHANGED <<client, issued>>,
         crossed \subseteq crossed', crossed' \subseteq DOMAIN issued,
         m.kind # "Auth",
         \A c \in Clients :
           m.kind = "Reject" /\ client[c].ssl = p
             => ~(Live(c) /\ client[c].waits = "request"),
         InTurn(p)',
         \A c \in Clients : client[c].ssl = p => Attuned(c)' /\ Named(c)',
         Carried(p)',
         \A c \in Clients :
           /\ Live(c)
           /\ \/ m.kind = "Request" /\ m.cookie = client[c].cookie
              \/ t.pc \in Answering /\ t.own = client[c].cookie
           => /\ client[c].ssl = p /\ client[c].waits = "request"
              /\ client[c].nonce = StoredNonce(c) + 1,
         \A c, d \in Clients :
           /\ Live(c) /\ client[c].cookie \notin crossed'
           /\ t.pc = "count" /\ t.cookie = client[c].cookie /\ client[d].ssl = p
           => client[d].waits # "login"
  PROVE  IInv'
<1>1. TypeOK /\ ConnInv /\ CookieInv /\ NonceInv
  BY DEF IInv
<1>2. /\ thread' \in [Pointers -> Activity] /\ wire' \in [Pointers -> Message]
      /\ \A q \in Pointers \ {p} : thread'[q] = thread[q] /\ wire'[q] = wire[q]
      /\ thread'[p] = t /\ wire'[p] = m
  BY <1>1, Gone, Sent DEF TypeOK
<1>3. TypeOK' /\ NothingStored
  <2>1. /\ DOMAIN sessions' = Roles
        /\ \A r \in Roles : /\ DOMAIN sessions'[r] \subseteq Names
                            /\ \A n \in DOMAIN sessions'[r] : sessions'[r][n] \in Entry
        /\ NothingStored
    BY <1>1, KeptTyped
  <2> QED
    BY <1>1, <1>2, <2>1 DEF TypeOK
<1>4. ConnInv'
  BY <1>1, <1>2, ConnTurn
<1>5. CookieInv'
  BY <1>1, <1>2, <1>3, CookieTurn
<1>6. Steady
  BY <1>1, KeptSteady
<1>7. ASSUME NEW c \in Clients PROVE Ahead(c, p)' /\ Unheard(c, p)'
  <2>1. Live(c)' => /\ Live(c) /\ StoredNonce(c)' = StoredNonce(c)
                    /\ client[c].cookie \notin crossed'
    <3>1. Live(c)' => Live(c) /\ StoredNonce(c)' = StoredNonce(c)
      BY <1>1, <1>3, <1>6, <1>7, StillLive
    <3>2. Live(c)' => client'[c].cookie \notin crossed'
      BY DEF Live, HoldsStored, LiveEntry, RoleOf
    <3> QED
      BY <3>1, <3>2
  <2>2. Ahead(c, p)'
    BY <1>2, <1>7, <2>1 DEF Ahead
  <2>3. Unheard(c, p)'
    BY <1>2, <1>7, <2>1 DEF Unheard, Peers
  <2> QED
    BY <2>2, <2>3
<1>8. NonceInv'
  BY <1>1, <1>2, <1>3, <1>6, <1>7, QuietTurn
<1> QED
  BY <1>3, <1>4, <1>5, <1>8 DEF IInv

-----------------------------------------------------------------------------
(***************************************************************************)
(* The server                                                              *)
(***************************************************************************)

\* The thread is done and has answered without a session.
LEMMA ReplyKeeps ==
  ASSUME IInv, NEW p \in Pointers, NEW m \in Message, m.kind \in {"Reject", "Accept"},
         Goto(p, Reading), Send(p, m), Kept,
         UNCHANGED <<ssl_to_username, cookie_buffer, client, issued, crossed>>,
         \A c \in Clients : client[c].ssl = p => client[c].waits \notin {"no", "nothing"},
         \A c \in Clients : m.kind = "Reject" /\ client[c].ssl = p
                              => ~(Live(c) /\ client[c].waits = "request")
  PROVE  IInv'
<1>1. TypeOK /\ ConnInv
  BY DEF IInv
<1>2. thread'[p] = Reading /\ wire'[p] = m
  BY <1>1, Gone, Sent, Constants DEF TypeOK
<1>3. InTurn(p)'
  BY <1>2, Constants DEF InTurn, Checking
<1>4. ASSUME NEW c \in Clients, client[c].ssl = p
      PROVE  Attuned(c)' /\ Named(c)'
  <2>1. Named(c)
    BY <1>1 DEF ConnInv
  <2>2. Attuned(c)'
    BY <1>2, <1>4, Constants DEF Attuned
  <2>3. Named(c)'
    BY <1>2, <1>4, <2>1, Constants DEF Named
  <2> QED
    BY <2>2, <2>3
<1>5. Reading.pc \notin Answering \cup {"authenticate"}
      /\ m.kind \notin {"Auth", "Request"}
  BY Constants DEF Answering
<1>6. Carried(p)'
  BY <1>2, <1>5, NothingCarried
<1>7. Reading \in Activity /\ Reading.pc # "count"
  BY Constants
<1>8. /\ ssl_to_username' \in [Pointers -> Names \cup {NoName}]
      /\ crossed' \subseteq DOMAIN issued
  BY <1>1 DEF TypeOK
<1> QED
  BY <1>3, <1>4, <1>5, <1>6, <1>7, <1>8, ServerTurn

LEMMA ReadLogInKeeps ==
  ASSUME IInv, NEW p \in Pointers, ReadLogIn(p)
  PROVE  IInv'
<1>1. TypeOK /\ ConnInv
  BY DEF IInv
<1>2. /\ thread[p] = Reading /\ wire[p].kind = "LogIn" /\ wire[p] \in Message
      /\ UNCHANGED <<sessions, ssl_to_username, cookie_buffer, client, issued, crossed>>
  BY <1>1 DEF ReadLogIn, Received, maps, history, TypeOK
<1>3. PICK t : t = [pc |-> "generate", role |-> wire[p].role, name |-> wire[p].name]
  OBVIOUS
<1>4. t \in Activity /\ t.pc = "generate" /\ t.role = wire[p].role
  BY <1>2, <1>3, MessageFields, ActivityForms
<1>5. \/ Goto(p, t) /\ Send(p, Quiet)
      \/ Send(p, Reject) /\ thread' = thread
  BY <1>3 DEF ReadLogIn
<1>6. Kept
  BY <1>1, <1>2, KeptSame
<1>7. ASSUME NEW c \in Clients, client[c].ssl = p
      PROVE  client[c].waits = "login" /\ client[c].st = "login"
             /\ wire[p].role = RoleOf(c)
  BY <1>1, <1>2, <1>7, SessionAssumption DEF ConnInv, Attuned
<1>8. CASE Goto(p, t) /\ Send(p, Quiet)
  <2>1. thread'[p] = t /\ wire'[p] = Quiet
    BY <1>1, <1>4, <1>8, Gone, Sent, Constants DEF TypeOK
  <2>2. InTurn(p)'
    BY <1>4, <2>1, Constants DEF InTurn, Checking
  <2>3. ASSUME NEW c \in Clients, client[c].ssl = p
        PROVE  Attuned(c)' /\ Named(c)'
    BY <1>2, <1>4, <1>7, <2>1, <2>3, Constants DEF Attuned, Named, RoleOf
  <2>4. t.pc \notin Answering \cup {"authenticate"}
        /\ Quiet.kind \notin {"Auth", "Request", "Reject"}
    BY <1>4, Constants DEF Answering
  <2>5. Carried(p)'
    BY <2>1, <2>4, NothingCarried
  <2>6. /\ ssl_to_username' \in [Pointers -> Names \cup {NoName}]
        /\ crossed' \subseteq DOMAIN issued /\ Quiet \in Message /\ t.pc # "count"
    BY <1>1, <1>2, <1>4, Constants DEF TypeOK
  <2> QED
    BY <1>2, <1>4, <1>6, <1>8, <2>2, <2>3, <2>4, <2>5, <2>6, ServerTurn
<1>9. CASE Send(p, Reject) /\ thread' = thread
  <2>1. Goto(p, Reading)
    BY <1>1, <1>2, <1>9 DEF Goto, TypeOK
  <2> QED
    BY <1>2, <1>6, <1>7, <1>9, <2>1, ReplyKeeps, Constants
<1> QED
  BY <1>5, <1>8, <1>9

LEMMA GenerateCookieKeeps ==
  ASSUME IInv, NEW p \in Pointers, GenerateCookie(p)
  PROVE  IInv'
<1>1. TypeOK /\ ConnInv
  BY DEF IInv
<1>2. /\ thread[p].pc = "generate" /\ thread[p] \in Activity
      /\ cookie_buffer' \in Cookies /\ cookie_buffer' \notin DOMAIN issued
      /\ ssl_to_username' = [ssl_to_username EXCEPT ![p] = thread[p].name]
      /\ UNCHANGED <<sessions, wire, client, issued, crossed>>
  BY <1>1 DEF GenerateCookie, history, TypeOK
<1>3. PICK t : t = [thread[p] EXCEPT !.pc = "authenticate"]
  OBVIOUS
<1>4. /\ t \in Activity /\ t.pc = "authenticate"
      /\ t.role = thread[p].role /\ t.name = thread[p].name
      /\ thread[p].name \in Names
  <2>1. thread[p] \in [pc : {"generate", "authenticate", "erase"},
                       role : Roles, name : Names]
    BY <1>2 DEF Activity, Free, Reading, Checking
  <2> QED
    BY <1>3, <2>1 DEF Activity
<1>5. wire[p] = Quiet
  BY <1>1, <1>2, Constants DEF ConnInv, InTurn, Checking
<1>6. Goto(p, t) /\ Send(p, Quiet)
  BY <1>1, <1>2, <1>3, <1>5 DEF GenerateCookie, Send, TypeOK
<1>7. thread'[p] = t /\ wire'[p] = Quiet
  BY <1>1, <1>4, <1>6, Gone, Sent, Constants DEF TypeOK
<1>8. /\ ssl_to_username' \in [Pointers -> Names \cup {NoName}]
      /\ ssl_to_username'[p] = t.name
      /\ \A q \in Pointers \ {p} : ssl_to_username'[q] = ssl_to_username[q]
  BY <1>1, <1>2, <1>4 DEF TypeOK
<1>9. InTurn(p)'
  BY <1>4, <1>7, Constants DEF InTurn, Checking
<1>10. ASSUME NEW c \in Clients, client[c].ssl = p
       PROVE  Attuned(c)' /\ Named(c)'
  <2>1. client[c].waits = "login" /\ t.role = RoleOf(c) /\ client[c].st = "login"
    BY <1>1, <1>2, <1>4, <1>10, SessionAssumption DEF ConnInv, Attuned
  <2> QED
    BY <1>2, <1>4, <1>7, <1>8, <1>10, <2>1, Constants DEF Attuned, Named, RoleOf
<1>11. t.pc \notin Answering /\ Quiet.kind \notin {"Auth", "Request", "Reject"}
  BY <1>4, Constants DEF Answering
<1>12. Carried(p)'
  BY <1>2, <1>4, <1>7, <1>11 DEF Carried
<1>13. /\ Kept /\ crossed' \subseteq DOMAIN issued /\ Quiet \in Message
       /\ t.pc # "count"
  BY <1>1, <1>2, <1>4, KeptSame, Constants DEF TypeOK
<1> QED
  BY <1>2, <1>4, <1>6, <1>8, <1>9, <1>10, <1>11, <1>12, <1>13, ServerTurn

\* A cookie given out for the second time is nobody's alone.
LEMMA SharedCookie ==
  ASSUME NEW S, IsFiniteSet(S), S # {}, NEW x, x \notin S
  PROVE  Cardinality(S \cup {x}) # 1
<1>1. IsFiniteSet(S \cup {x}) /\ Cardinality(S \cup {x}) = Cardinality(S) + 1
  BY FS_AddElement
<1>2. Cardinality(S) \in Nat /\ Cardinality(S) # 0
  BY FS_CardinalityType, FS_EmptySet
<1> QED
  BY <1>1, <1>2

LEMMA AuthenticateKeeps ==
  ASSUME IInv, NEW p \in Pointers, Authenticate(p)
  PROVE  IInv'
<1>1. TypeOK /\ ConnInv /\ CookieInv /\ NonceInv
  BY DEF IInv
<1>2. PICK k, r, n, e, l :
        /\ k = cookie_buffer /\ r = thread[p].role /\ n = thread[p].name
        /\ e = [cookie |-> k, nonce |-> 0]
        /\ l = [name |-> n, role |-> r, ssl |-> p]
  OBVIOUS
<1>3. /\ thread[p].pc = "authenticate" /\ thread[p] \in Activity
      /\ sessions' = [sessions EXCEPT ![r] = Put(@, n, e)]
      /\ issued' = Put(issued, k, LogInsWith(k) \cup {l})
      /\ UNCHANGED <<ssl_to_username, cookie_buffer, wire, client, crossed>>
  BY <1>1, <1>2 DEF Authenticate, TypeOK
<1>4. /\ r \in Roles /\ n \in Names /\ k \in Cookies
      /\ k \in DOMAIN issued => \A x \in issued[k] : x.ssl # p
  BY <1>1, <1>2, <1>3, ActivityFields DEF CookieInv, Carried
<1>5. PICK t : t = [pc |-> "greet", role |-> r, name |-> n, own |-> k]
  OBVIOUS
<1>6. t \in Activity /\ t.pc = "greet" /\ t.role = r /\ t.name = n /\ t.own = k
  BY <1>4, <1>5, ActivityForms
<1>7. /\ thread' \in [Pointers -> Activity] /\ thread'[p] = t
      /\ \A q \in Pointers \ {p} : thread'[q] = thread[q]
  <2>1. Goto(p, t)
    BY <1>2, <1>5 DEF Authenticate
  <2> QED
    BY <1>1, <1>6, <2>1, Gone DEF TypeOK
<1>8. /\ DOMAIN sessions' = Roles
      /\ \A s \in Roles \ {r} : sessions'[s] = sessions[s]
      /\ DOMAIN sessions'[r] = DOMAIN sessions[r] \cup {n}
      /\ sessions'[r][n] = e
      /\ \A m \in DOMAIN sessions[r] \ {n} : sessions'[r][m] = sessions[r][m]
  BY <1>1, <1>3, <1>4, EntryUsed
<1>9. /\ DOMAIN issued' = DOMAIN issued \cup {k}
      /\ \A j \in DOMAIN issued \ {k} : issued'[j] = issued[j]
      /\ issued'[k] = LogInsWith(k) \cup {l}
  BY <1>3 DEF Put
<1>10. /\ k \in DOMAIN issued => LogInsWith(k) = issued[k]
       /\ k \notin DOMAIN issued => LogInsWith(k) = {}
  BY DEF LogInsWith
<1>11. l \in [name : Names, role : Roles, ssl : Pointers] /\ e \in Entry
       /\ e.cookie = k /\ l.name = n /\ l.role = r /\ l.ssl = p
  BY <1>2, <1>4 DEF Entry
<1>12. TypeOK'
  <2>1. /\ DOMAIN sessions' = Roles
        /\ \A s \in Roles : /\ DOMAIN sessions'[s] \subseteq Names
                            /\ \A m \in DOMAIN sessions'[s] : sessions'[s][m] \in Entry
    BY <1>1, <1>4, <1>8, <1>11 DEF TypeOK
  <2>2. /\ DOMAIN issued' \subseteq Cookies
        /\ \A j \in DOMAIN issued' :
             issued'[j] \subseteq [name : Names, role : Roles, ssl : Pointers]
    BY <1>1, <1>4, <1>9, <1>10, <1>11 DEF TypeOK
  <2>3. crossed' \subseteq DOMAIN issued'
    BY <1>1, <1>3, <1>9 DEF TypeOK
  <2> QED
    BY <1>1, <1>3, <1>7, <2>1, <2>2, <2>3 DEF TypeOK
<1>13. wire[p] = Quiet
  BY <1>1, <1>3, Constants DEF ConnInv, InTurn, Checking
<1>14. ConnInv'
  <2>1. InTurn(p)'
    BY <1>3, <1>6, <1>7, <1>13, Constants DEF InTurn, Checking
  <2>2. ASSUME NEW c \in Clients, client[c].ssl = p
        PROVE  Attuned(c)' /\ Named(c)'
    <3>1. /\ client[c].waits = "login" /\ t.role = RoleOf(c) /\ client[c].st = "login"
          /\ t.name = ssl_to_username[p]
      BY <1>1, <1>2, <1>3, <1>6, <2>2, SessionAssumption DEF ConnInv, Attuned, Named
    <3> QED
      BY <1>3, <1>6, <1>7, <1>13, <2>2, <3>1, Constants DEF Attuned, Named, RoleOf
  <2> QED
    BY <1>1, <1>3, <1>7, <2>1, <2>2, ConnTurn
<1>15. \A j \in DOMAIN issued : j \in DOMAIN issued' /\ issued[j] \subseteq issued'[j]
  BY <1>9, <1>10
<1>16. ASSUME NEW j, NEW m, NEW s, Own(j, m, s)
       PROVE  Own(j, m, s)'
  BY <1>15, <1>16 DEF Own
<1>17. ASSUME NEW j, NEW q, j \in DOMAIN issued, Home(j, q)
       PROVE  Home(j, q)'
  BY <1>3, <1>15, <1>17 DEF Home
<1>18. CookieInv'
  <2>1. \A j \in DOMAIN issued' : issued'[j] # {} /\ IsFiniteSet(issued'[j])
    <3>1. IsFiniteSet(LogInsWith(k))
      BY <1>1, <1>10, FS_EmptySet DEF CookieInv
    <3>2. IsFiniteSet(LogInsWith(k) \cup {l})
      BY <3>1, FS_AddElement
    <3> QED
      BY <1>1, <1>9, <3>2 DEF CookieInv
  <2>2. ASSUME NEW q \in Pointers, q # p PROVE Carried(q)'
    <3>1. PICK m, x : m = wire[q] /\ x = thread[q]
      OBVIOUS
    <3>2. wire'[q] = m /\ thread'[q] = x /\ cookie_buffer' = k
      BY <1>2, <1>3, <1>7, <2>2, <3>1
    <3>3. Carried(q)
      BY <1>1 DEF CookieInv
    <3>4. x.pc = "authenticate" =>
            \A y \in issued'[k] : y.ssl # q
      <4> SUFFICES ASSUME x.pc = "authenticate" PROVE \A y \in issued'[k] : y.ssl # q
        OBVIOUS
      <4>1. k \in DOMAIN issued => \A y \in issued[k] : y.ssl # q
        BY <1>2, <3>1, <3>3 DEF Carried
      <4> QED
        BY <1>9, <1>10, <1>11, <2>2, <4>1
    <3>5. m.kind \in {"Auth", "Request"} /\ m.cookie # NoCookie =>
            m.cookie \in DOMAIN issued' /\ Home(m.cookie, q)'
      BY <1>15, <1>17, <3>1, <3>3 DEF Carried
    <3>6. x.pc \in Answering /\ x.own # NoCookie =>
            x.own \in DOMAIN issued' /\ Home(x.own, q)'
      BY <1>15, <1>17, <3>1, <3>3 DEF Carried
    <3>7. x.pc = "count" /\ x.cookie # NoCookie =>
            Own(x.cookie, x.name, x.role)' /\ Home(x.cookie, q)'
      <4> SUFFICES ASSUME x.pc = "count", x.cookie # NoCookie
                   PROVE  Own(x.cookie, x.name, x.role)' /\ Home(x.cookie, q)'
        OBVIOUS
      <4>1. Own(x.cookie, x.name, x.role) /\ Home(x.cookie, q)
        BY <3>1, <3>3 DEF Carried
      <4>2. x.cookie \in DOMAIN issued
        BY <4>1 DEF Own
      <4> QED
        BY <1>16, <1>17, <4>1, <4>2
    <3>8. ASSUME NEW c \in Peers(q)', m.kind = "Auth", m.cookie # NoCookie
          PROVE  Own(m.cookie, m.name, RoleOf(c))'
      <4>1. c \in Peers(q)
        BY <1>3, <3>8 DEF Peers
      <4>2. Own(m.cookie, m.name, RoleOf(c))
        BY <3>1, <3>3, <3>8, <4>1 DEF Carried
      <4>3. PICK s : s = RoleOf(c)
        OBVIOUS
      <4>4. Own(m.cookie, m.name, s)'
        BY <1>16, <4>2, <4>3
      <4> QED
        BY <4>3, <4>4 DEF Own, RoleOf
    <3> QED
      BY <1>4, <3>2, <3>4, <3>5, <3>6, <3>7, <3>8 DEF Carried, Own, Home
  <2>3. Carried(p)'
    <3>1. k \in DOMAIN issued' /\ Home(k, p)'
      BY <1>9, <1>11 DEF Home
    <3>2. wire'[p].kind \notin {"Auth", "Request"}
      BY <1>3, <1>13, Constants
    <3> QED
      BY <1>6, <1>7, <3>1, <3>2 DEF Carried, Home
  <2>6. ASSUME NEW s \in Roles, NEW m \in DOMAIN sessions'[s],
               sessions'[s][m].cookie # NoCookie
        PROVE  Own(sessions[s][m].cookie, m, s)'
    <3>1. CASE s = r /\ m = n
      BY <1>8, <1>9, <1>11, <3>1 DEF Own
    <3>2. CASE ~(s = r /\ m = n)
      <4>1. m \in DOMAIN sessions[s] /\ sessions'[s][m] = sessions[s][m]
        BY <1>8, <2>6, <3>2
      <4>2. PICK j : j = sessions[s][m].cookie
        OBVIOUS
      <4>3. Own(j, m, s)
        BY <1>1, <2>6, <4>1, <4>2 DEF CookieInv
      <4>4. Own(j, m, s)'
        BY <1>16, <4>3
      <4> QED
        BY <4>1, <4>2, <4>4 DEF Own
    <3> QED
      BY <3>1, <3>2
  <2>7. ASSUME NEW c \in Clients, client[c].cookie # NoCookie
        PROVE  /\ Own(client[c].cookie, client[c].name, RoleOf(c))'
               /\ client'[c].ssl # NoSSL => Home(client[c].cookie, client[c].ssl)'
    <3>1. PICK j, m, s, q : /\ j = client[c].cookie /\ m = client[c].name
                            /\ s = RoleOf(c) /\ q = client[c].ssl
      OBVIOUS
    <3>2. Own(j, m, s) /\ (q # NoSSL => Home(j, q))
      BY <1>1, <2>7, <3>1 DEF CookieInv
    <3>3. Own(j, m, s)' /\ (q # NoSSL => Home(j, q)')
      <4>1. j \in DOMAIN issued
        BY <3>2 DEF Own
      <4> QED
        BY <1>16, <1>17, <3>2, <4>1
    <3> QED
      BY <1>3, <3>1, <3>3 DEF Own, Home, RoleOf
  <2> QED
    BY <1>3, <2>1, <2>2, <2>3, <2>6, <2>7 DEF CookieInv
<1>19. NonceInv'
  <2>1. k \in DOMAIN issued => Cardinality(issued'[k]) # 1
    <3>1. l \notin LogInsWith(k)
      BY <1>4, <1>10, <1>11
    <3> QED
      BY <1>1, <1>9, <1>10, <3>1, SharedCookie DEF CookieInv
  <2>2. Steady
    <3> SUFFICES ASSUME NEW s \in Roles, NEW m, LiveEntry(s, m)',
                        sessions'[s][m].cookie \in DOMAIN issued
                 PROVE  /\ LiveEntry(s, m) /\ sessions'[s][m] = sessions[s][m]
                        /\ issued'[sessions[s][m].cookie] = issued[sessions[s][m].cookie]
      BY DEF Steady
    <3>1. sessions'[s][m].cookie # k /\ m \in DOMAIN sessions'[s]
          /\ Cardinality(issued'[sessions'[s][m].cookie]) = 1
          /\ sessions'[s][m].cookie \notin crossed
      BY <1>3, <2>1 DEF LiveEntry, Unshared
    <3>2. ~(s = r /\ m = n)
      BY <1>8, <1>11, <3>1
    <3>3. m \in DOMAIN sessions[s] /\ sessions'[s][m] = sessions[s][m]
      BY <1>8, <3>1, <3>2
    <3>4. issued'[sessions[s][m].cookie] = issued[sessions[s][m].cookie]
      BY <1>9, <3>1, <3>3
    <3> QED
      BY <3>1, <3>3, <3>4 DEF LiveEntry, Unshared
  <2>3. wire'[p].kind \notin {"Auth", "Request", "Reject"}
    BY <1>3, <1>13, Constants
  <2>4. ASSUME NEW c \in Clients PROVE Ahead(c, p)' /\ Unheard(c, p)'
    <3>1. ASSUME Live(c)', k = client[c].cookie
          PROVE  FALSE
      <4>1. k \in DOMAIN issued
        BY <1>1, <1>4, <3>1, SessionAssumption DEF CookieInv, Own
      <4>2. Unshared(k)'
        <5>1. client'[c].cookie = k /\ Unshared(client[c].cookie)'
          BY <1>3, <3>1 DEF Live, HoldsStored, LiveEntry, Unshared, RoleOf
        <5> QED
          BY <1>3, <3>1, <5>1 DEF Unshared
      <4> QED
        BY <2>1, <4>1, <4>2 DEF Unshared
    <3>2. Ahead(c, p)'
      BY <1>3, <1>6, <1>7, <2>3, <3>1 DEF Ahead
    <3>3. Unheard(c, p)'
      BY <1>6, <1>7, <2>3 DEF Unheard
    <3> QED
      BY <3>2, <3>3
  <2>5. \A q \in Pointers \ {p} : thread'[q] = thread[q] /\ wire'[q] = wire[q]
    BY <1>3, <1>7
  <2> QED
    BY <1>1, <1>3, <1>12, <2>2, <2>3, <2>4, <2>5, QuietTurn
<1> QED
  BY <1>12, <1>14, <1>18, <1>19 DEF IInv

-----------------------------------------------------------------------------
(***************************************************************************)
(* The check of a message, one use of the map at a time                    *)
(***************************************************************************)

\* What a thread that checks a message knows.
LEMMA CheckedLine ==
  ASSUME IInv, NEW p \in Pointers, wire[p].kind \in {"Request", "LogOut"}
  PROVE  /\ wire[p] \in Message /\ thread[p] \in Activity
         /\ \A c \in Clients : client[c].ssl = p =>
              /\ client[c].waits \in {"request", "logout"}
              /\ wire[p].kind = "LogOut" => client[c].waits = "logout"
              /\ client[c].st = "menu" => client[c].name = ssl_to_username[p]
              /\ wire[p].kind = "Request" =>
                   /\ client[c].waits = "request"
                   /\ wire[p].role = RoleOf(c) /\ wire[p].name = client[c].name
                   /\ wire[p].cookie = client[c].cookie
                   /\ wire[p].nonce = client[c].nonce
  BY SessionAssumption DEF IInv, TypeOK, ConnInv, Attuned, Named

\* No use of the map fails the request of the holder of a live session.
LEMMA HolderPasses ==
  ASSUME IInv, NEW p \in Pointers, wire[p].kind = "Request",
         NEW c \in Clients, client[c].ssl = p, Live(c)
  PROVE  /\ wire[p].role \in Roles
         /\ wire[p].name \in DOMAIN sessions[wire[p].role]
         /\ sessions[wire[p].role][wire[p].name].cookie = wire[p].cookie
         /\ sessions[wire[p].role][wire[p].name].nonce + 1 = wire[p].nonce
<1>1. /\ wire[p].role = RoleOf(c) /\ wire[p].name = client[c].name
      /\ wire[p].cookie = client[c].cookie /\ wire[p].nonce = client[c].nonce
  BY CheckedLine
<1>2. client[c].nonce = StoredNonce(c) + 1
  BY <1>1 DEF IInv, NonceInv, Ahead
<1> QED
  BY <1>1, <1>2, Constants DEF Live, HoldsStored, StoredNonce

\* A use of the map in a check, whatever it finds.
LEMMA CheckTurn ==
  ASSUME IInv, NEW p \in Pointers, NEW s \in Roles,
         wire[p].kind \in {"Request", "LogOut"},
         thread[p] = Reading \/ thread[p].pc \in Checking,
         wire[p].kind = "Request" => s = wire[p].role,
         Kept,
         UNCHANGED <<ssl_to_username, cookie_buffer, client, issued, crossed>>,
         \/ /\ UNCHANGED wire /\ wire[p].name \in Names
            /\ \E x \in {"cookie", "nonce"} : Goto(p, [pc |-> x, role |-> s])
         \/ /\ Refused(p, s)
            /\ wire[p].kind = "Request" =>
                 \A c \in Clients : client[c].ssl = p => ~Live(c)
  PROVE  IInv'
<1>1. TypeOK /\ ConnInv /\ CookieInv /\ NonceInv
  BY DEF IInv
<1>2. PICK m : m = wire[p]
  OBVIOUS
<1>3. m \in Message /\ m.kind \in {"Request", "LogOut"}
  BY <1>2, CheckedLine
<1>4. ASSUME UNCHANGED wire, NEW x \in Checking, NEW r \in Roles,
             Goto(p, [pc |-> x, role |-> r]),
             m.kind = "Request" => r = m.role,
             IF x = "find" THEN m.kind = "LogOut" ELSE m.name \in Names
      PROVE  IInv'
  <2>1. PICK t : t = [pc |-> x, role |-> r]
    OBVIOUS
  <2>2. t \in Activity /\ t.pc = x /\ t.role = r /\ Goto(p, t)
    BY <1>4, <2>1, ActivityForms
  <2>3. Send(p, m)
    BY <1>1, <1>2, <1>4 DEF Send, TypeOK
  <2>4. thread'[p] = t /\ wire'[p] = m
    BY <1>1, <1>3, <2>2, <2>3, Gone, Sent DEF TypeOK
  <2>5. t.pc \notin {"free", "read", "generate", "authenticate", "erase"} \cup Answering
    BY <2>2 DEF Checking, Answering
  <2>6. InTurn(p)'
    BY <1>3, <1>4, <2>2, <2>4, <2>5, Constants DEF InTurn
  <2>7. ASSUME NEW c \in Clients, client[c].ssl = p
        PROVE  Attuned(c)' /\ Named(c)'
    <3>1. /\ client[c].waits \in {"request", "logout"}
          /\ m.kind = "LogOut" => client[c].waits = "logout"
          /\ client[c].st = "menu" => client[c].name = ssl_to_username[p]
          /\ m.kind = "Request" =>
               /\ client[c].waits = "request"
               /\ m.role = RoleOf(c) /\ m.name = client[c].name
               /\ m.cookie = client[c].cookie /\ m.nonce = client[c].nonce
      BY <1>2, <1>3, <2>7, CheckedLine
    <3>2. Attuned(c)'
      BY <1>3, <2>4, <2>5, <2>7, <3>1 DEF Attuned, RoleOf, Answering
    <3>3. Named(c)'
      BY <1>3, <2>4, <2>5, <2>7, <3>1 DEF Named, Answering
    <3> QED
      BY <3>2, <3>3
  <2>8. Carried(p)'
    <3>1. Carried(p)
      BY <1>1 DEF CookieInv
    <3> QED
      BY <1>2, <1>3, <2>4, <2>5, <3>1 DEF Carried, Home, Answering
  <2>9. ASSUME NEW c \in Clients, Live(c), m.kind = "Request",
               m.cookie = client[c].cookie
        PROVE  /\ client[c].ssl = p /\ client[c].waits = "request"
               /\ client[c].nonce = StoredNonce(c) + 1
    <3>1. Ahead(c, p)
      BY <1>1 DEF NonceInv
    <3> QED
      BY <1>2, <2>9, <3>1 DEF Ahead
  <2>10. /\ ssl_to_username' \in [Pointers -> Names \cup {NoName}]
         /\ crossed' \subseteq DOMAIN issued
         /\ m.kind \notin {"Auth", "Reject"} /\ t.pc # "count"
    BY <1>1, <1>3, <2>5 DEF TypeOK, Answering
  <2> QED
    BY <1>3, <2>2, <2>3, <2>5, <2>6, <2>7, <2>8, <2>9, <2>10, ServerTurn
<1>5. CASE /\ UNCHANGED wire /\ m.name \in Names
           /\ \E x \in {"cookie", "nonce"} : Goto(p, [pc |-> x, role |-> s])
  BY <1>2, <1>4, <1>5 DEF Checking
<1>6. CASE /\ Refused(p, s)
           /\ m.kind = "Request" => \A c \in Clients : client[c].ssl = p => ~Live(c)
  <2>1. CASE m.kind = "LogOut" /\ s = "user"
    <3>1. UNCHANGED wire /\ Goto(p, [pc |-> "find", role |-> "validator"])
      BY <1>2, <1>6, <2>1 DEF Refused
    <3> QED
      BY <1>4, <2>1, <3>1, Constants DEF Checking
  <2>2. CASE ~(m.kind = "LogOut" /\ s = "user")
    <3>1. Goto(p, Reading) /\ Send(p, Reject)
      BY <1>2, <1>6, <2>2 DEF Refused
    <3>2. ASSUME NEW c \in Clients, client[c].ssl = p
          PROVE  /\ client[c].waits \notin {"no", "nothing"}
                 /\ ~(Live(c) /\ client[c].waits = "request")
      BY <1>2, <1>3, <1>6, <3>2, CheckedLine
    <3> QED
      BY <3>1, <3>2, ReplyKeeps, Constants
  <2> QED
    BY <2>1, <2>2
<1> QED
  BY <1>2, <1>5, <1>6

\* The first use of a map: does the name have a session.
LEMMA FindKeeps ==
  ASSUME IInv, NEW p \in Pointers, NEW s \in Roles, Find(p, s),
         wire[p].kind \in {"Request", "LogOut"},
         thread[p] = Reading \/ thread[p].pc \in Checking,
         wire[p].kind = "Request" => s = wire[p].role,
         UNCHANGED <<maps, client, history>>
  PROVE  IInv'
<1>1. /\ TypeOK
      /\ UNCHANGED <<sessions, ssl_to_username, cookie_buffer, client, issued, crossed>>
  BY DEF IInv, maps, history
<1>2. Kept
  BY <1>1, KeptSame
<1>3. CASE wire[p].name \in DOMAIN sessions[s]
  <2>1. UNCHANGED wire /\ Goto(p, [pc |-> "cookie", role |-> s])
    BY <1>3 DEF Find
  <2>2. wire[p].name \in Names
    BY <1>1, <1>3 DEF TypeOK
  <2> QED
    BY <1>1, <1>2, <2>1, <2>2, CheckTurn
<1>4. CASE wire[p].name \notin DOMAIN sessions[s]
  <2>1. Refused(p, s)
    BY <1>4 DEF Find
  <2>2. wire[p].kind = "Request" =>
          \A c \in Clients : client[c].ssl = p => ~Live(c)
    BY <1>4, HolderPasses
  <2> QED
    BY <1>1, <1>2, <2>1, <2>2, CheckTurn
<1> QED
  BY <1>3, <1>4

LEMMA ReadRequestKeeps ==
  ASSUME IInv, NEW p \in Pointers, ReadRequest(p)
  PROVE  IInv'
<1>1. /\ thread[p] = Reading /\ wire[p].kind = "Request" /\ Find(p, wire[p].role)
      /\ UNCHANGED <<maps, client, history>>
  BY DEF ReadRequest, Received
<1>2. wire[p].role \in Roles
  BY <1>1, CheckedLine, MessageFields
<1> QED
  BY <1>1, <1>2, FindKeeps

LEMMA ReadLogOutKeeps ==
  ASSUME IInv, NEW p \in Pointers, ReadLogOut(p)
  PROVE  IInv'
  BY FindKeeps, Constants DEF ReadLogOut, Received

LEMMA FindValidatorKeeps ==
  ASSUME IInv, NEW p \in Pointers, FindValidator(p)
  PROVE  IInv'
<1>1. /\ thread[p].pc = "find" /\ Find(p, "validator")
      /\ UNCHANGED <<maps, client, history>>
  BY DEF FindValidator
<1>2. wire[p].kind = "LogOut" /\ thread[p].pc \in Checking
  BY <1>1 DEF IInv, ConnInv, InTurn, Checking
<1> QED
  BY <1>1, <1>2, FindKeeps, Constants

\* What the record of a thread that is past the first use is.
LEMMA CheckingThread ==
  ASSUME IInv, NEW p \in Pointers, thread[p].pc \in {"cookie", "nonce"}
  PROVE  /\ thread[p].role \in Roles /\ wire[p].name \in Names
         /\ thread[p].pc \in Checking
         /\ wire[p].kind \in {"Request", "LogOut"}
         /\ wire[p].kind = "Request" => thread[p].role = wire[p].role
<1>1. thread[p] \in Activity /\ thread[p].pc \in Checking /\ thread[p].pc # "find"
  BY DEF IInv, TypeOK, Checking
<1> QED
  BY <1>1, ActivityFields DEF IInv, ConnInv, InTurn

LEMMA CompareCookieKeeps ==
  ASSUME IInv, NEW p \in Pointers, CompareCookie(p)
  PROVE  IInv'
<1>1. PICK s, n, e : s = thread[p].role /\ n = wire[p].name /\ e = At(sessions[s], n)
  OBVIOUS
<1>2. /\ s \in Roles /\ n \in Names /\ thread[p].pc \in Checking
      /\ wire[p].kind \in {"Request", "LogOut"}
      /\ wire[p].kind = "Request" => s = wire[p].role
  BY <1>1, CheckingThread DEF CompareCookie
<1>3. /\ sessions' = [sessions EXCEPT ![s] = Put(@, n, At(sessions[s], n))]
      /\ UNCHANGED <<ssl_to_username, cookie_buffer, client, issued, crossed>>
  BY <1>1 DEF CompareCookie, history
<1>4. Kept
  BY <1>2, <1>3, KeptUse DEF IInv
<1>5. CASE e.cookie = wire[p].cookie
  <2>1. UNCHANGED wire /\ Goto(p, [pc |-> "nonce", role |-> s])
    BY <1>1, <1>5 DEF CompareCookie
  <2> QED
    BY <1>1, <1>2, <1>3, <1>4, <2>1, CheckTurn
<1>6. CASE e.cookie # wire[p].cookie
  <2>1. Refused(p, s)
    BY <1>1, <1>6 DEF CompareCookie
  <2>2. wire[p].kind = "Request" =>
          \A c \in Clients : client[c].ssl = p => ~Live(c)
    BY <1>1, <1>2, <1>6, HolderPasses DEF At
  <2> QED
    BY <1>2, <1>3, <1>4, <2>1, <2>2, CheckTurn
<1> QED
  BY <1>5, <1>6

LEMMA CompareNonceKeeps ==
  ASSUME IInv, NEW p \in Pointers, CompareNonce(p)
  PROVE  IInv'
<1>1. PICK s, n, m, e : /\ s = thread[p].role /\ n = wire[p].name /\ m = wire[p]
                        /\ e = At(sessions[s], n)
  OBVIOUS
<1>2. /\ s \in Roles /\ n \in Names /\ thread[p].pc \in Checking
      /\ m.kind \in {"Request", "LogOut"} /\ m \in Message
      /\ m.kind = "Request" => s = m.role
  BY <1>1, CheckingThread, CheckedLine DEF CompareNonce
<1>3. /\ sessions' = [sessions EXCEPT ![s] = Put(@, n, At(sessions[s], n))]
      /\ UNCHANGED <<ssl_to_username, cookie_buffer, client, issued, crossed>>
  BY <1>1 DEF CompareNonce, history
<1>4. Kept /\ TypeOK /\ ConnInv
  BY <1>2, <1>3, KeptUse DEF IInv
<1>5. CASE e.nonce + 1 # m.nonce
  <2>1. Refused(p, s)
    BY <1>1, <1>5 DEF CompareNonce
  <2>2. m.kind = "Request" =>
          \A c \in Clients : client[c].ssl = p => ~Live(c)
    BY <1>1, <1>2, <1>5, HolderPasses DEF At
  <2> QED
    BY <1>1, <1>2, <1>3, <1>4, <2>1, <2>2, CheckTurn
<1>6. CASE e.nonce + 1 = m.nonce
  <2>1. Admitted(p, s)
    BY <1>1, <1>6 DEF CompareNonce
  <2>2. /\ ssl_to_username' \in [Pointers -> Names \cup {NoName}]
        /\ crossed' \subseteq DOMAIN issued /\ Quiet \in Message
        /\ Quiet.kind \notin {"Auth", "Request", "Reject"}
    BY <1>3, <1>4, Constants DEF TypeOK
  <2>3. CASE m.kind = "Request"
    <3>1. PICK t : t = [pc |-> "answer", role |-> s, name |-> n, own |-> m.cookie]
      OBVIOUS
    <3>2. /\ t \in Activity /\ t.pc = "answer" /\ t.role = s /\ t.name = n
          /\ t.own = m.cookie
      BY <1>2, <2>3, <3>1, MessageFields, ActivityForms
    <3>3. Goto(p, t) /\ Send(p, Quiet)
      BY <1>1, <2>1, <2>3, <3>1 DEF Admitted
    <3>4. thread'[p] = t /\ wire'[p] = Quiet
      BY <1>4, <3>2, <3>3, Gone, Sent, Constants DEF TypeOK
    <3>5. InTurn(p)'
      BY <3>2, <3>4, Constants DEF InTurn, Checking
    <3>6. ASSUME NEW c \in Clients, client[c].ssl = p
          PROVE  Attuned(c)' /\ Named(c)'
      <4>1. /\ client[c].waits = "request" /\ m.role = RoleOf(c)
            /\ m.name = client[c].name
            /\ client[c].st = "menu" => client[c].name = ssl_to_username[p]
        BY <1>1, <1>2, <2>3, <3>6, CheckedLine
      <4>2. Attuned(c)'
        BY <1>1, <1>2, <1>3, <2>3, <3>2, <3>4, <3>6, <4>1, Constants DEF Attuned, RoleOf
      <4>3. Named(c)'
        BY <1>3, <3>2, <3>4, <3>6, <4>1, Constants DEF Named
      <4> QED
        BY <4>2, <4>3
    <3>7. Carried(p)'
      <4>1. m.cookie # NoCookie => m.cookie \in DOMAIN issued /\ Home(m.cookie, p)
        BY <1>1, <2>3 DEF IInv, CookieInv, Carried
      <4> QED
        BY <1>3, <2>2, <3>2, <3>4, <4>1 DEF Carried, Home
    <3>8. ASSUME NEW c \in Clients, Live(c), m.cookie = client[c].cookie
          PROVE  /\ client[c].ssl = p /\ client[c].waits = "request"
                 /\ client[c].nonce = StoredNonce(c) + 1
      <4>1. Ahead(c, p)
        BY DEF IInv, NonceInv
      <4> QED
        BY <1>1, <2>3, <3>8, <4>1 DEF Ahead
    <3> QED
      BY <1>3, <1>4, <2>2, <3>2, <3>3, <3>5, <3>6, <3>7, <3>8, ServerTurn
  <2>4. CASE m.kind # "Request"
    <3>1. PICK t : t = [pc |-> "erase", role |-> s, name |-> n]
      OBVIOUS
    <3>2. t \in Activity /\ t.pc = "erase"
      BY <1>2, <3>1, ActivityForms
    <3>3. Goto(p, t) /\ Send(p, Quiet)
      BY <1>1, <2>1, <2>4, <3>1 DEF Admitted
    <3>4. thread'[p] = t /\ wire'[p] = Quiet
      BY <1>4, <3>2, <3>3, Gone, Sent, Constants DEF TypeOK
    <3>5. InTurn(p)'
      BY <3>2, <3>4, Constants DEF InTurn, Checking
    <3>6. ASSUME NEW c \in Clients, client[c].ssl = p
          PROVE  Attuned(c)' /\ Named(c)'
      <4>1. /\ client[c].waits = "logout"
            /\ client[c].st = "menu" => client[c].name = ssl_to_username[p]
        BY <1>1, <1>2, <2>4, <3>6, CheckedLine
      <4> QED
        BY <1>3, <3>2, <3>4, <3>6, <4>1, Constants DEF Attuned, Named
    <3>7. t.pc \notin Answering \cup {"authenticate", "count"}
      BY <3>2 DEF Answering
    <3>8. Carried(p)'
      BY <2>2, <3>4, <3>7, NothingCarried
    <3> QED
      BY <1>3, <1>4, <2>2, <3>2, <3>3, <3>5, <3>6, <3>7, <3>8, ServerTurn
  <2> QED
    BY <2>3, <2>4
<1> QED
  BY <1>5, <1>6

-----------------------------------------------------------------------------
(***************************************************************************)
(* The answer of a session, and the end of one                             *)
(***************************************************************************)

\* Where a program whose answer is being written stands.
LEMMA AnsweringLine ==
  ASSUME IInv, NEW p \in Pointers, thread[p].pc \in Answering
  PROVE  /\ thread[p] \in Activity /\ thread[p].role \in Roles
         /\ thread[p].name \in Names /\ thread[p].own \in Cookies \cup {NoCookie}
         /\ wire[p] = Quiet
         /\ \A c \in Clients : client[c].ssl = p =>
              /\ client[c].waits \in {"login", "request"}
              /\ thread[p].role = RoleOf(c)
              /\ client[c].waits = "request" => thread[p].name = client[c].name
              /\ client[c].waits = "login" => /\ client[c].st = "login"
                                              /\ thread[p].name = ssl_to_username[p]
              /\ client[c].st = "menu" => client[c].name = ssl_to_username[p]
<1>1. /\ thread[p] \in Activity
      /\ thread[p].pc \in {"greet", "answer", "count"}
      /\ thread[p].pc \notin {"free", "read"} \cup Checking
  BY DEF IInv, TypeOK, Answering, Checking
<1>2. /\ thread[p].role \in Roles /\ thread[p].name \in Names
      /\ thread[p].own \in Cookies \cup {NoCookie}
  BY <1>1, ActivityFields
<1>3. wire[p] = Quiet
  BY <1>1, Constants DEF IInv, ConnInv, InTurn
<1>4. ASSUME NEW c \in Clients, client[c].ssl = p
      PROVE  /\ client[c].waits \in {"login", "request"}
             /\ thread[p].role = RoleOf(c)
             /\ client[c].waits = "request" => thread[p].name = client[c].name
             /\ client[c].waits = "login" => /\ client[c].st = "login"
                                             /\ thread[p].name = ssl_to_username[p]
             /\ client[c].st = "menu" => client[c].name = ssl_to_username[p]
  BY <1>1, <1>4, SessionAssumption DEF IInv, ConnInv, Attuned, Named
<1> QED
  BY <1>1, <1>2, <1>3, <1>4

LEMMA AnswerKeeps ==
  ASSUME IInv, NEW p \in Pointers, Answer(p)
  PROVE  IInv'
<1>1. TypeOK /\ ConnInv /\ CookieInv /\ NonceInv
  BY DEF IInv
<1>2. PICK r, n, own, k, t :
        /\ r = thread[p].role /\ n = thread[p].name /\ own = thread[p].own
        /\ k = At(sessions[r], n).cookie
        /\ t = [pc |-> "count", role |-> r, name |-> n, own |-> own, cookie |-> k]
  OBVIOUS
<1>3. /\ thread[p].pc \in {"greet", "answer"} /\ thread[p].pc \in Answering
      /\ r \in Roles /\ n \in Names /\ own \in Cookies \cup {NoCookie}
      /\ wire[p] = Quiet
  BY <1>2, AnsweringLine DEF Answer, Answering
<1>4. /\ k \in Cookies \cup {NoCookie}
      /\ k # NoCookie => n \in DOMAIN sessions[r] /\ sessions[r][n].cookie = k
  BY <1>1, <1>2, <1>3, EntryRead DEF Entry
<1>5. /\ t \in Activity /\ t.pc = "count" /\ t.role = r /\ t.name = n
      /\ t.own = own /\ t.cookie = k
  BY <1>2, <1>3, <1>4, ActivityForms
<1>6. /\ sessions' = [sessions EXCEPT ![r] = Put(@, n, At(sessions[r], n))]
      /\ Goto(p, t) /\ crossed' = crossed \cup ({k} \ {own, NoCookie})
      /\ UNCHANGED <<ssl_to_username, cookie_buffer, wire, client, issued>>
  BY <1>2 DEF Answer, Cross
<1>7. Kept /\ Send(p, Quiet)
  BY <1>1, <1>3, <1>6, KeptUse DEF Send, TypeOK
<1>8. thread'[p] = t /\ wire'[p] = Quiet
  BY <1>1, <1>5, <1>6, <1>7, Gone, Sent, Constants DEF TypeOK
<1>9. k # NoCookie => Own(k, n, r) /\ k \in DOMAIN issued
  BY <1>1, <1>3, <1>4 DEF CookieInv, Own
<1>10. /\ ssl_to_username' \in [Pointers -> Names \cup {NoName}]
       /\ crossed \subseteq crossed' /\ crossed' \subseteq DOMAIN issued
       /\ Quiet \in Message /\ Quiet.kind \notin {"Auth", "Request", "Reject"}
  BY <1>1, <1>6, <1>9, Constants DEF TypeOK
<1>11. InTurn(p)'
  BY <1>5, <1>8, Constants DEF InTurn, Checking
<1>12. ASSUME NEW c \in Clients, client[c].ssl = p
       PROVE  Attuned(c)' /\ Named(c)'
  <2>1. /\ client[c].waits \in {"login", "request"} /\ r = RoleOf(c)
        /\ client[c].waits = "request" => n = client[c].name
        /\ client[c].waits = "login" => n = ssl_to_username[p]
        /\ client[c].st = "menu" => client[c].name = ssl_to_username[p]
    BY <1>2, <1>3, <1>12, AnsweringLine
  <2>2. Attuned(c)'
    BY <1>5, <1>6, <1>8, <1>12, <2>1, Constants DEF Attuned, RoleOf
  <2>3. Named(c)'
    BY <1>5, <1>6, <1>8, <1>10, <1>12, <2>1 DEF Named
  <2> QED
    BY <2>2, <2>3
<1>13. own # NoCookie => own \in DOMAIN issued /\ Home(own, p)
  BY <1>1, <1>2, <1>3 DEF CookieInv, Carried
<1>14. Carried(p)'
  <2>1. own # NoCookie => Home(own, p)'
    BY <1>6, <1>10, <1>13 DEF Home
  <2>2. k # NoCookie => Own(k, n, r)' /\ Home(k, p)'
    <3>1. k # NoCookie => Own(k, n, r)'
      BY <1>6, <1>9 DEF Own
    <3>2. k # NoCookie /\ k # own => Home(k, p)'
      BY <1>6 DEF Home
    <3> QED
      BY <2>1, <3>1, <3>2
  <2> QED
    BY <1>5, <1>6, <1>8, <1>10, <1>13, <2>1, <2>2 DEF Carried, Own, Home, Answering
<1>15. ASSUME NEW c \in Clients, Live(c), own = client[c].cookie
       PROVE  /\ client[c].ssl = p /\ client[c].waits = "request"
              /\ client[c].nonce = StoredNonce(c) + 1
  <2>1. Ahead(c, p)
    BY <1>1 DEF NonceInv
  <2> QED
    BY <1>2, <1>3, <1>15, <2>1 DEF Ahead
<1>16. ASSUME NEW c \in Clients, NEW d \in Clients, Live(c),
              client[c].cookie \notin crossed', k = client[c].cookie,
              client[d].ssl = p
       PROVE  client[d].waits # "login"
  <2>1. k # NoCookie
    BY <1>1, <1>16, SessionAssumption DEF TypeOK, Live, HoldsStored, LiveEntry, Unshared
  <2>2. k = own
    BY <1>6, <1>16, <2>1
  <2>3. client[c].ssl = p /\ client[c].waits = "request"
    BY <1>15, <1>16, <2>2
  <2>4. c = d
    BY <1>1, <1>16, <2>3, SessionAssumption DEF TypeOK
  <2> QED
    BY <2>3, <2>4
<1> QED
  BY <1>5, <1>6, <1>7, <1>10, <1>11, <1>12, <1>14, <1>15, <1>16, ServerTurn

LEMMA LogOutKeeps ==
  ASSUME IInv, NEW p \in Pointers, LogOut(p)
  PROVE  IInv'
<1>1. TypeOK /\ ConnInv
  BY DEF IInv
<1>2. PICK r, n, m : r = thread[p].role /\ n = thread[p].name /\ m = [kind |-> "Accept"]
  OBVIOUS
<1>3. /\ thread[p].pc = "erase" /\ thread[p] \in Activity
      /\ sessions' = [sessions EXCEPT ![r] = Erase(@, n)]
      /\ Send(p, m) /\ Goto(p, Reading)
      /\ UNCHANGED <<ssl_to_username, cookie_buffer, client, issued, crossed>>
  BY <1>1, <1>2 DEF LogOut, history, TypeOK
<1>4. r \in Roles
  BY <1>2, <1>3, ActivityFields
<1>5. Kept
  BY <1>1, <1>3, <1>4, KeptErase
<1>6. m \in Message /\ m.kind = "Accept"
  BY <1>2, Constants
<1>7. ASSUME NEW c \in Clients, client[c].ssl = p
      PROVE  client[c].waits \notin {"no", "nothing"}
  BY <1>1, <1>3, <1>7, SessionAssumption, Constants DEF ConnInv, Attuned
<1> QED
  BY <1>3, <1>5, <1>6, <1>7, ReplyKeeps

\* The end of a connection: one whose thread has thrown, or one that no program
\* has any more.
LEMMA ReleaseKeeps ==
  ASSUME IInv, NEW p \in Pointers, Release(p), Kept,
         UNCHANGED <<cookie_buffer, issued, crossed>>,
         ssl_to_username' \in [Pointers -> Names \cup {NoName}],
         \A q \in Pointers \ {p} : ssl_to_username'[q] = ssl_to_username[q],
         \A c \in Peers(p) : RoleOf(c) = "user" => ~Live(c)'
  PROVE  IInv'
<1>1. TypeOK /\ ConnInv /\ CookieInv /\ NonceInv
  BY DEF IInv
<1>2. /\ thread' \in [Pointers -> Activity] /\ wire' \in [Pointers -> Message]
      /\ \A q \in Pointers \ {p} : thread'[q] = thread[q] /\ wire'[q] = wire[q]
      /\ thread'[p] = Free /\ wire'[p] = Quiet
  <2>1. Goto(p, Free) /\ Send(p, Quiet)
    BY DEF Release
  <2> QED
    BY <1>1, <2>1, Gone, Sent, Constants DEF TypeOK
<1>3. ASSUME NEW c \in Clients
      PROVE  /\ client'[c] \in Program
             /\ client[c].ssl # p => client'[c] = client[c]
             /\ client[c].ssl = p => client'[c].ssl = NoSSL
             /\ client'[c].st = client[c].st /\ client'[c].name = client[c].name
             /\ client'[c].cookie = client[c].cookie
             /\ client'[c].nonce = client[c].nonce
             /\ client'[c].waits = client[c].waits
  <2>1. client[c] \in Program
    BY <1>1 DEF TypeOK
  <2>2. client'[c] = IF client[c].ssl = p THEN [client[c] EXCEPT !.ssl = NoSSL]
                                          ELSE client[c]
    BY DEF Release
  <2> QED
    BY <2>1, <2>2, ProgramLoses
<1>4. client' \in [Clients -> Program]
  BY <1>3 DEF Release
<1>5. TypeOK' /\ NothingStored
  <2>1. \A c, d \in Clients :
          client'[c].ssl = client'[d].ssl /\ client'[c].ssl # NoSSL => c = d
    BY <1>1, <1>3 DEF TypeOK
  <2>2. /\ DOMAIN sessions' = Roles
        /\ \A r \in Roles : /\ DOMAIN sessions'[r] \subseteq Names
                            /\ \A n \in DOMAIN sessions'[r] : sessions'[r][n] \in Entry
        /\ NothingStored
    BY <1>1, KeptTyped
  <2> QED
    BY <1>1, <1>2, <1>4, <2>1, <2>2 DEF TypeOK
<1>6. NoSSL \notin Pointers
  BY SessionAssumption
<1>7. ConnInv'
  <2>1. ASSUME NEW q \in Pointers PROVE InTurn(q)'
    <3>1. CASE q = p
      <4>1. \A c \in Clients : client'[c].ssl # p
        BY <1>3, <1>6
      <4> QED
        BY <1>2, <3>1, <4>1, Constants DEF InTurn, Peers, Checking
    <3>2. CASE q # p
      <4>1. \A c \in Clients : client'[c].ssl = q => client[c].ssl = q
        BY <1>3, <1>6, <2>1
      <4>2. InTurn(q)
        BY <1>1, <2>1 DEF ConnInv
      <4> QED
        BY <1>2, <2>1, <3>2, <4>1, <4>2 DEF InTurn, Peers
    <3> QED
      BY <3>1, <3>2
  <2>2. ASSUME NEW c \in Clients PROVE Attuned(c)' /\ Named(c)'
    <3>1. CASE client[c].ssl = p
      BY <1>3, <3>1 DEF Attuned, Named
    <3>2. CASE client[c].ssl = NoSSL
      BY <1>3, <1>6, <3>2 DEF Attuned, Named
    <3>3. CASE client[c].ssl \in Pointers \ {p}
      <4>1. Attuned(c) /\ Named(c)
        BY <1>1 DEF ConnInv
      <4>2. RoleOf(c)' = RoleOf(c) /\ client'[c] = client[c]
        BY <1>3, <3>3 DEF RoleOf
      <4>3. Attuned(c)'
        BY <1>2, <3>3, <4>1, <4>2 DEF Attuned
      <4>4. Named(c)'
        BY <1>2, <3>3, <4>1, <4>2 DEF Named
      <4> QED
        BY <4>3, <4>4
    <3> QED
      BY <1>1, <3>1, <3>2, <3>3, ProgramFields DEF TypeOK
  <2>3. ASSUME NEW c \in Clients, client'[c].st = "down" PROVE client'[c] = Down
    BY <1>1, <1>3, <1>6, <2>3, DownFields DEF ConnInv
  <2> QED
    BY <1>1, <1>3, <2>1, <2>2, <2>3 DEF ConnInv
<1>8. /\ Free.pc \notin Answering \cup {"authenticate"}
      /\ Quiet.kind \notin {"Auth", "Request", "Reject"}
  BY Constants DEF Answering
<1>9. Carried(p)' /\ \A c \in Clients : Ahead(c, p)' /\ Unheard(c, p)'
  BY <1>2, <1>8, NothingCarried
<1>10. CookieInv'
  <2>1. ASSUME NEW c \in Clients
        PROVE  /\ client'[c].name = client[c].name /\ client'[c].cookie = client[c].cookie
               /\ client'[c].ssl = client[c].ssl \/ client'[c].ssl = NoSSL
    <3>1. CASE client[c].ssl = p
      BY <1>3, <3>1
    <3>2. CASE client[c].ssl # p
      BY <1>3, <3>2
    <3> QED
      BY <3>1, <3>2
  <2> QED
    BY <1>1, <1>2, <1>5, <1>9, <2>1, CookieTurn
<1>11. NonceInv'
  <2>1. Steady
    BY <1>1, KeptSteady
  <2>2. ASSUME NEW c \in Clients
        PROVE  \/ client'[c].ssl = client[c].ssl
               \/ client[c].ssl = p /\ client'[c].ssl = NoSSL
    <3>1. CASE client[c].ssl = p
      BY <1>3, <3>1
    <3>2. CASE client[c].ssl # p
      BY <1>3, <3>2
    <3> QED
      BY <3>1, <3>2
  <2>3. ASSUME NEW c \in Clients, client'[c].ssl = NoSSL, client[c].ssl # NoSSL,
               RoleOf(c) = "user"
        PROVE  ~Live(c)'
    <3>1. c \in Peers(p)
      BY <1>3, <2>3 DEF Peers
    <3> QED
      BY <2>3, <3>1
  <2>4. wire'[p].kind \notin {"Auth", "Reject"}
    BY <1>2, <1>8
  <2> QED
    BY <1>1, <1>2, <1>3, <1>5, <1>9, <2>1, <2>2, <2>3, <2>4, QuietTurn
<1> QED
  BY <1>5, <1>7, <1>10, <1>11 DEF IInv

\* An exception in the thread: the name that ends with the connection is the one
\* its program goes by.
LEMMA ThrowKeeps ==
  ASSUME IInv, NEW p \in Pointers, logoutUserBySSL(p), Release(p),
         UNCHANGED <<cookie_buffer, history>>
  PROVE  IInv'
<1>1. TypeOK /\ ConnInv
  BY DEF IInv
<1>2. PICK n : n = ssl_to_username[p]
  OBVIOUS
<1>3. /\ UNCHANGED <<cookie_buffer, issued, crossed>>
      /\ sessions' = [sessions EXCEPT !["user"] = Erase(@, n)]
      /\ ssl_to_username' = [ssl_to_username EXCEPT ![p] = NoName]
  BY <1>2 DEF logoutUserBySSL, history
<1>4. /\ ssl_to_username' \in [Pointers -> Names \cup {NoName}]
      /\ \A q \in Pointers \ {p} : ssl_to_username'[q] = ssl_to_username[q]
  BY <1>1, <1>3 DEF TypeOK
<1>5. Kept
  BY <1>1, <1>3, KeptErase, Constants
<1>6. ASSUME NEW c \in Peers(p), RoleOf(c) = "user"
      PROVE  ~Live(c)'
  <2> SUFFICES ASSUME Live(c)' PROVE FALSE
    OBVIOUS
  <2>1. c \in Clients /\ client[c].ssl = p /\ RoleOf(c)' = "user"
    BY <1>6 DEF Peers, RoleOf
  <2>2. client'[c].st = client[c].st /\ client'[c].name = client[c].name
    <3>1. client[c] \in Program
      BY <1>1, <2>1 DEF TypeOK
    <3>2. client'[c] = [client[c] EXCEPT !.ssl = NoSSL]
      BY <2>1 DEF Release
    <3> QED
      BY <3>1, <3>2, ProgramLoses
  <2>3. client[c].st = "menu" /\ client[c].name \in DOMAIN sessions'["user"]
    BY <2>1, <2>2 DEF Live, HoldsStored
  <2>4. client[c].name = n
    BY <1>1, <1>2, <2>1, <2>3, SessionAssumption DEF ConnInv, Named
  <2> QED
    BY <1>1, <1>3, <2>3, <2>4, Constants DEF TypeOK, Erase
<1> QED
  BY <1>3, <1>4, <1>5, <1>6, ReleaseKeeps

LEMMA ReadGarbledKeeps ==
  ASSUME IInv, NEW p \in Pointers, ReadGarbled(p)
  PROVE  IInv'
  BY ThrowKeeps DEF ReadGarbled

LEMMA ServeThrowsKeeps ==
  ASSUME IInv, NEW p \in Pointers, ServeThrows(p)
  PROVE  IInv'
  BY ThrowKeeps DEF ServeThrows

LEMMA ReadEndKeeps ==
  ASSUME IInv, NEW p \in Pointers, ReadEnd(p)
  PROVE  IInv'
<1>1. TypeOK
  BY DEF IInv
<1>2. /\ Peers(p) = {} /\ Release(p)
      /\ UNCHANGED <<sessions, ssl_to_username, cookie_buffer, issued, crossed>>
  BY DEF ReadEnd, maps, history
<1>3. Kept /\ ssl_to_username' \in [Pointers -> Names \cup {NoName}]
  BY <1>1, <1>2, KeptSame DEF TypeOK
<1> QED
  BY <1>2, <1>3, ReleaseKeeps

\* One log-in has one name and one role, and one connection.
LEMMA OneLogIn ==
  ASSUME CookieInv, NEW k, Unshared(k), NEW n1, NEW r1, NEW n2, NEW r2,
         Own(k, n1, r1), Own(k, n2, r2)
  PROVE  n1 = n2 /\ r1 = r2
<1>1. IsFiniteSet(issued[k]) /\ Cardinality(issued[k]) = 1
  BY DEF CookieInv, Unshared
<1>2. \E l : issued[k] = {l}
  BY <1>1, FS_Singleton
<1> QED
  BY <1>2 DEF Own

LEMMA OneHome ==
  ASSUME CookieInv, NEW k, Unshared(k), k \notin crossed, NEW p, NEW q,
         Home(k, p), Home(k, q)
  PROVE  p = q
<1>1. IsFiniteSet(issued[k]) /\ Cardinality(issued[k]) = 1
  BY DEF CookieInv, Unshared
<1>2. \E l : issued[k] = {l}
  BY <1>1, FS_Singleton
<1> QED
  BY <1>2 DEF Home

LEMMA CountKeeps ==
  ASSUME IInv, NEW p \in Pointers, Count(p)
  PROVE  IInv'
<1>1. TypeOK /\ ConnInv /\ CookieInv /\ NonceInv
  BY DEF IInv
<1>2. PICK r, n, own, ck, k, i :
        /\ r = thread[p].role /\ n = thread[p].name /\ own = thread[p].own
        /\ ck = thread[p].cookie
        /\ k = At(sessions[r], n).cookie /\ i = At(sessions[r], n).nonce
  OBVIOUS
<1>3. /\ thread[p].pc = "count" /\ thread[p].pc \in Answering
      /\ r \in Roles /\ n \in Names /\ wire[p] = Quiet
      /\ ck \in Cookies \cup {NoCookie}
  BY <1>2, AnsweringLine, ActivityFields DEF Count, Answering
<1>4. At(sessions[r], n) \in Entry
  BY <1>1, <1>3, EntryRead
<1>5. i \in Nat /\ k \in Cookies \cup {NoCookie}
  BY <1>2, <1>4 DEF Entry
<1>6. PICK e, m :
        /\ e = [At(sessions[r], n) EXCEPT !.nonce = @ + 1]
        /\ m = [kind |-> "Auth", name |-> n, cookie |-> ck, nonce |-> i + 1]
  OBVIOUS
<1>7. e \in Entry /\ e.cookie = k /\ e.nonce = i + 1
  <2>1. PICK j \in Nat : j = i + 1
    BY <1>5
  <2>2. e = [At(sessions[r], n) EXCEPT !.nonce = j]
    BY <1>2, <1>6, <2>1
  <2> QED
    BY <1>2, <1>4, <2>1, <2>2 DEF Entry
<1>8. /\ m \in Message /\ m.kind = "Auth" /\ m.name = n /\ m.cookie = ck
      /\ m.nonce = i + 1
  BY <1>3, <1>5, <1>6 DEF Message
<1>9. /\ sessions' = [sessions EXCEPT ![r] = Put(@, n, e)]
      /\ Send(p, m) /\ Goto(p, Reading)
      /\ crossed' = crossed \cup ({k} \ {own, NoCookie})
      /\ UNCHANGED <<ssl_to_username, cookie_buffer, client, issued>>
  BY <1>2, <1>6 DEF Count, Cross
<1>10. /\ thread' \in [Pointers -> Activity] /\ wire' \in [Pointers -> Message]
       /\ \A q \in Pointers \ {p} : thread'[q] = thread[q] /\ wire'[q] = wire[q]
       /\ thread'[p] = Reading /\ wire'[p] = m
  BY <1>1, <1>8, <1>9, Gone, Sent, Constants DEF TypeOK
<1>11. /\ DOMAIN sessions' = Roles
       /\ \A s \in Roles \ {r} : sessions'[s] = sessions[s]
       /\ DOMAIN sessions'[r] = DOMAIN sessions[r] \cup {n}
       /\ sessions'[r][n] = e
       /\ \A j \in DOMAIN sessions[r] \ {n} : sessions'[r][j] = sessions[r][j]
  BY <1>1, <1>3, <1>9, EntryUsed
<1>12. k # NoCookie => /\ n \in DOMAIN sessions[r] /\ sessions[r][n].cookie = k
                       /\ sessions[r][n].nonce = i /\ Own(k, n, r)
  <2>1. k # NoCookie => /\ n \in DOMAIN sessions[r] /\ sessions[r][n].cookie = k
                        /\ sessions[r][n].nonce = i
    BY <1>2 DEF At
  <2> QED
    BY <1>1, <1>3, <2>1 DEF CookieInv
<1>13. crossed \subseteq crossed' /\ (k # NoCookie /\ k \notin crossed' => k = own)
  BY <1>9
<1>14. TypeOK'
  <2>1. \A s \in Roles : /\ DOMAIN sessions'[s] \subseteq Names
                         /\ \A j \in DOMAIN sessions'[s] : sessions'[s][j] \in Entry
    BY <1>1, <1>3, <1>7, <1>11 DEF TypeOK
  <2>2. crossed' \subseteq DOMAIN issued
    BY <1>1, <1>9, <1>12 DEF TypeOK, Own
  <2> QED
    BY <1>1, <1>9, <1>10, <1>11, <2>1, <2>2 DEF TypeOK
<1>15. ASSUME NEW c \in Clients, client[c].ssl = p
       PROVE  /\ client[c].waits \in {"login", "request"} /\ RoleOf(c) = r
              /\ client[c].waits = "request" => client[c].name = n
              /\ client[c].waits = "login" => n = ssl_to_username[p]
              /\ client[c].st = "menu" => client[c].name = ssl_to_username[p]
  BY <1>2, <1>3, <1>15, AnsweringLine
<1>16. ConnInv'
  <2>1. ASSUME NEW c \in Clients, client[c].ssl = p PROVE Attuned(c)' /\ Named(c)'
    <3>1. Attuned(c)'
      BY <1>8, <1>9, <1>10, <1>15, <2>1, Constants DEF Attuned, RoleOf
    <3>2. Named(c)'
      BY <1>8, <1>9, <1>10, <1>15, <2>1, Constants DEF Named
    <3> QED
      BY <3>1, <3>2
  <2>2. InTurn(p)'
    BY <1>10, Constants DEF InTurn, Checking
  <2> QED
    BY <1>1, <1>9, <1>10, <2>1, <2>2, ConnTurn
<1>17. NothingStored
  BY <1>7, <1>11, <1>12 DEF NothingStored
<1>18. CookieInv'
  <2>1. ck # NoCookie => Own(ck, n, r) /\ Home(ck, p)
    BY <1>1, <1>2, <1>3 DEF CookieInv, Carried
  <2>2. ck # NoCookie => Own(ck, n, r)' /\ Home(ck, p)' /\ ck \in DOMAIN issued'
    BY <1>9, <1>13, <2>1 DEF Own, Home
  <2>3. \A c \in Peers(p)' : RoleOf(c)' = r
    BY <1>9, <1>15 DEF Peers, RoleOf
  <2>4. Carried(p)'
    <3>1. wire'[p].kind = "Auth" /\ wire'[p].cookie = ck /\ wire'[p].name = n
      BY <1>8, <1>10
    <3>2. thread'[p].pc \notin Answering \cup {"authenticate", "count"}
      BY <1>10, Constants DEF Answering
    <3> QED
      BY <2>2, <2>3, <3>1, <3>2 DEF Carried, Own, Home
  <2> QED
    BY <1>1, <1>9, <1>10, <1>13, <1>17, <2>4, CookieTurn
<1>19. ASSUME NEW s \in Roles, NEW j, LiveEntry(s, j)'
       PROVE  /\ LiveEntry(s, j) /\ sessions'[s][j].cookie = sessions[s][j].cookie
              /\ sessions[s][j].cookie \notin crossed'
              /\ ~(s = r /\ j = n) => sessions'[s][j] = sessions[s][j]
              /\ s = r /\ j = n => /\ sessions[s][j].cookie = k /\ k = own
                                   /\ k # NoCookie /\ sessions[s][j].nonce = i
  <2>1. /\ j \in DOMAIN sessions'[s] /\ Unshared(sessions'[s][j].cookie)
        /\ sessions'[s][j].cookie \notin crossed'
    BY <1>9, <1>19 DEF LiveEntry, Unshared
  <2>2. CASE s = r /\ j = n
    <3>1. k \in DOMAIN issued /\ sessions'[s][j].cookie = k
      BY <1>7, <1>11, <2>1, <2>2 DEF Unshared
    <3>2. k # NoCookie
      BY <1>1, <3>1, SessionAssumption DEF TypeOK
    <3> QED
      BY <1>12, <1>13, <2>1, <2>2, <3>1, <3>2 DEF LiveEntry
  <2>3. CASE ~(s = r /\ j = n)
    <3>1. j \in DOMAIN sessions[s] /\ sessions'[s][j] = sessions[s][j]
      BY <1>11, <2>1, <2>3
    <3> QED
      BY <1>13, <2>1, <2>3, <3>1 DEF LiveEntry
  <2> QED
    BY <2>2, <2>3
<1>20. ASSUME NEW c \in Clients, Live(c)'
       PROVE  /\ Live(c)
              /\ ~(RoleOf(c) = r /\ client[c].name = n) =>
                   StoredNonce(c)' = StoredNonce(c)
              /\ RoleOf(c) = r /\ client[c].name = n =>
                   /\ client[c].ssl = p /\ client[c].waits = "request"
                   /\ client[c].nonce = StoredNonce(c)'
  <2>1. PICK s, j : s = RoleOf(c) /\ j = client[c].name
    OBVIOUS
  <2>2. RoleOf(c)' = s /\ s \in Roles /\ client'[c].name = j
    BY <1>9, <2>1, Constants DEF RoleOf
  <2>3. LiveEntry(s, j)' /\ client[c].st = "menu"
        /\ client[c].cookie = sessions'[s][j].cookie
    BY <1>9, <1>20, <2>2 DEF Live, HoldsStored
  <2>4. Live(c)
    BY <1>19, <2>1, <2>2, <2>3 DEF Live, HoldsStored, LiveEntry
  <2>5. ASSUME s = r, j = n
        PROVE  /\ client[c].ssl = p /\ client[c].waits = "request"
               /\ client[c].nonce = StoredNonce(c)'
    <3>1. client[c].cookie = own /\ sessions[s][j].nonce = i
      BY <1>19, <2>2, <2>3, <2>5
    <3>2. Ahead(c, p)
      BY <1>1 DEF NonceInv
    <3>3. client[c].ssl = p /\ client[c].waits = "request"
          /\ client[c].nonce = StoredNonce(c) + 1
      BY <1>2, <1>3, <2>4, <3>1, <3>2 DEF Ahead
    <3>4. StoredNonce(c) = i
      BY <2>1, <3>1 DEF StoredNonce
    <3>5. StoredNonce(c)' = i + 1
      BY <1>7, <1>11, <2>2, <2>5 DEF StoredNonce
    <3> QED
      BY <3>3, <3>4, <3>5
  <2>6. ~(s = r /\ j = n) => StoredNonce(c)' = StoredNonce(c)
    BY <1>19, <2>1, <2>2, <2>3 DEF StoredNonce
  <2> QED
    BY <2>1, <2>4, <2>5, <2>6
<1>21. NonceInv'
  <2> SUFFICES ASSUME NEW c \in Clients
               PROVE  /\ Even(c)' /\ Parted(c)'
                      /\ \A d \in Clients : SoleHolder(c, d)'
                      /\ \A q \in Pointers :
                           Ahead(c, q)' /\ Unheard(c, q)' /\ Greeting(c, q)'
    BY DEF NonceInv
  <2>1. Even(c)'
    <3> SUFFICES ASSUME Live(c)',
                        ~(RoleOf(c) = r /\ client[c].name = n),
                        \/ client[c].waits \in {"no", "nothing"}
                        \/ /\ client[c].waits = "request"
                           /\ client[c].ssl # NoSSL
                           /\ wire'[client[c].ssl].kind \in {"Auth", "Reject"}
                 PROVE  StoredNonce(c)' = client[c].nonce
      BY <1>9, <1>20 DEF Even
    <3>1. Even(c) /\ Live(c) /\ StoredNonce(c)' = StoredNonce(c)
      BY <1>1, <1>20 DEF NonceInv
    <3>2. client[c].ssl # p
      BY <1>15
    <3>3. client[c].ssl # NoSSL => wire'[client[c].ssl] = wire[client[c].ssl]
      BY <1>1, <1>10, <3>2, ProgramFields DEF TypeOK
    <3> QED
      BY <3>1, <3>3 DEF Even
  <2>2. ASSUME NEW d \in Clients PROVE SoleHolder(c, d)'
    BY <1>1, <1>9, <1>20, <2>2 DEF NonceInv, SoleHolder
  <2>3. ASSUME NEW q \in Pointers PROVE Ahead(c, q)'
    <3>1. CASE q = p
      BY <1>8, <1>10, <3>1, Constants DEF Ahead, Answering
    <3>2. CASE q # p
      <4>1. Ahead(c, q) /\ thread'[q] = thread[q] /\ wire'[q] = wire[q]
        BY <1>1, <1>10, <2>3, <3>2 DEF NonceInv
      <4> QED
        BY <1>9, <1>20, <3>2, <4>1 DEF Ahead
    <3> QED
      BY <3>1, <3>2
  <2>4. ASSUME NEW q \in Pointers PROVE Unheard(c, q)'
    <3>1. Unheard(c, q)
      BY <1>1, <2>4 DEF NonceInv
    <3>2. CASE q = p
      BY <1>2, <1>3, <1>8, <1>9, <1>10, <1>20, <3>1, <3>2, Constants DEF Unheard, Peers
    <3>3. CASE q # p
      <4>1. wire'[q] = wire[q] /\ thread'[q] = thread[q]
        BY <1>10, <2>4, <3>3
      <4> QED
        BY <1>9, <1>20, <3>1, <4>1 DEF Unheard, Peers
    <3> QED
      BY <3>2, <3>3
  <2>5. ASSUME NEW q \in Pointers PROVE Greeting(c, q)'
    <3>1. PICK s, x : s = RoleOf(c) /\ x = wire'[q]
      OBVIOUS
    <3>2. RoleOf(c)' = s /\ s \in Roles
      BY <3>1, Constants DEF RoleOf
    <3> SUFFICES ASSUME client[c].ssl = q, client[c].waits = "login",
                        x.kind = "Auth", LiveEntry(s, x.name)',
                        x.cookie = sessions'[s][x.name].cookie
                 PROVE  x.nonce = sessions'[s][x.name].nonce
      BY <1>9, <3>1, <3>2 DEF Greeting, Peers
    <3>3. CASE q = p
      <4>1. s = r /\ x = m
        BY <1>10, <1>15, <3>1, <3>3
      <4> QED
        BY <1>7, <1>8, <1>11, <4>1
    <3>4. CASE q # p
      <4>1. Greeting(c, q) /\ wire[q] = x
        BY <1>1, <1>10, <2>5, <3>1, <3>4 DEF NonceInv
      <4>2. ~(s = r /\ x.name = n)
        <5> SUFFICES ASSUME s = r, x.name = n PROVE FALSE
          OBVIOUS
        <5>1. /\ x.cookie = k /\ k = own /\ k # NoCookie /\ k \notin crossed
              /\ Unshared(k)
          BY <1>13, <1>19, <3>2 DEF LiveEntry
        <5>2. Home(k, q)
          BY <1>1, <2>5, <4>1, <5>1 DEF CookieInv, Carried
        <5>3. Home(k, p)
          BY <1>1, <1>2, <1>3, <5>1 DEF CookieInv, Carried
        <5> QED
          BY <1>1, <3>4, <5>1, <5>2, <5>3, OneHome
      <4>3. LiveEntry(s, x.name) /\ sessions'[s][x.name] = sessions[s][x.name]
        BY <1>19, <3>2, <4>2
      <4> QED
        BY <2>5, <3>1, <4>1, <4>3 DEF Greeting, Peers
    <3> QED
      BY <3>3, <3>4
  <2>6. Parted(c)'
    <3>1. Parted(c) /\ RoleOf(c)' = RoleOf(c)
      BY <1>1 DEF NonceInv, RoleOf
    <3> QED
      BY <1>9, <1>20, <3>1 DEF Parted
  <2> QED
    BY <2>1, <2>2, <2>3, <2>4, <2>5, <2>6
<1> QED
  BY <1>14, <1>16, <1>18, <1>21 DEF IInv

-----------------------------------------------------------------------------
(***************************************************************************)
(* The programs                                                            *)
(***************************************************************************)

\* A program with the cookie of a live session has that session.
LEMMA SameSession ==
  ASSUME TypeOK, CookieInv, NEW c \in Clients, NEW d \in Clients, Live(d),
         client[c].st = "menu", client[c].cookie = client[d].cookie
  PROVE  Live(c)
<1>1. PICK k : k = client[d].cookie
  OBVIOUS
<1>2. Unshared(k) /\ k \in DOMAIN issued
  BY <1>1 DEF Live, HoldsStored, LiveEntry, Unshared
<1>3. k # NoCookie
  BY <1>2, SessionAssumption DEF TypeOK
<1>4. Own(k, client[c].name, RoleOf(c)) /\ Own(k, client[d].name, RoleOf(d))
  BY <1>1, <1>3 DEF CookieInv
<1>5. client[c].name = client[d].name /\ RoleOf(c) = RoleOf(d)
  BY <1>2, <1>4, OneLogIn
<1> QED
  BY <1>5 DEF Live, HoldsStored

\* The cookie of a live session is a cookie.
LEMMA LiveHasCookie ==
  ASSUME TypeOK, NEW c \in Clients, Live(c)
  PROVE  client[c].cookie \in DOMAIN issued /\ client[c].cookie # NoCookie
  BY SessionAssumption DEF TypeOK, Live, HoldsStored, LiveEntry, Unshared

\* A step of one program, for what the others and their sessions expect.
LEMMA OthersTurn ==
  ASSUME TypeOK, CookieInv, NonceInv, NEW c \in Clients,
         UNCHANGED <<sessions, issued, crossed>>,
         \A d \in Clients \ {c} : client'[d] = client[d],
         \A q \in Pointers : thread'[q] = thread[q] \/ thread'[q] = Reading,
         \A q \in Pointers : client[c].ssl # q => wire'[q] = wire[q],
         \A q \in Pointers : client[c].ssl = q /\ wire'[q] # wire[q] =>
           /\ wire'[q].kind # "Auth"
           /\ wire'[q].kind = "Request" =>
                client[c].st = "menu" /\ wire'[q].cookie = client[c].cookie,
         \A q \in Pointers : client'[c].ssl = q /\ client'[c].waits = "login" =>
           wire'[q].kind # "Auth" /\ thread'[q].pc # "count",
         \A d \in Clients \ {c} :
           Live(c)' /\ Live(d) => client'[c].cookie # client[d].cookie,
         Even(c)', Parted(c)',
         \A q \in Pointers : Ahead(c, q)' /\ Unheard(c, q)'
  PROVE  NonceInv'
<1>1. ASSUME NEW d \in Clients, d # c
      PROVE  /\ Live(d)' <=> Live(d)
             /\ Live(d) => StoredNonce(d)' = StoredNonce(d)
             /\ client'[d] = client[d] /\ RoleOf(d)' = RoleOf(d)
  <2>1. client'[d] = client[d]
    BY <1>1
  <2> QED
    BY <2>1 DEF Live, HoldsStored, LiveEntry, Unshared, StoredNonce, RoleOf
<1>2. ASSUME NEW d \in Clients, d # c PROVE Even(d)' /\ Parted(d)'
  <2>1. Even(d) /\ Parted(d)
    BY DEF NonceInv
  <2>2. CASE client[d].ssl = NoSSL
    BY <1>1, <1>2, <2>1, <2>2 DEF Even, Parted
  <2>3. CASE client[d].ssl \in Pointers
    <3>1. client[c].ssl # client[d].ssl
      BY <1>2, <2>3, SessionAssumption DEF TypeOK
    <3>2. wire'[client[d].ssl] = wire[client[d].ssl]
      BY <2>3, <3>1
    <3> QED
      BY <1>1, <1>2, <2>1, <3>2 DEF Even, Parted
  <2> QED
    BY <2>2, <2>3, ProgramFields DEF TypeOK
<1>3. ASSUME NEW d \in Clients, NEW e \in Clients PROVE SoleHolder(d, e)'
  <2>1. CASE d # c /\ e # c
    BY <1>1, <2>1 DEF NonceInv, SoleHolder
  <2>2. CASE d = c /\ e # c
    BY <1>1, <2>2 DEF SoleHolder
  <2>3. CASE d # c /\ e = c
    BY <1>1, <2>3 DEF SoleHolder
  <2>4. CASE d = c /\ e = c
    BY <2>4 DEF SoleHolder
  <2> QED
    BY <2>1, <2>2, <2>3, <2>4
<1>4. ASSUME NEW q \in Pointers, thread'[q] # thread[q]
      PROVE  thread'[q].pc \notin Answering /\ thread'[q].pc # "count"
  BY <1>4, Constants DEF Answering
<1>5. ASSUME NEW d \in Clients, d # c, NEW q \in Pointers PROVE Ahead(d, q)'
  <2>1. Ahead(d, q) /\ client'[d] = client[d]
    BY <1>1, <1>5 DEF NonceInv
  <2>2. ASSUME Live(d), wire'[q] # wire[q]
        PROVE  ~(wire'[q].kind = "Request" /\ wire'[q].cookie = client[d].cookie)
    <3> SUFFICES ASSUME wire'[q].kind = "Request", wire'[q].cookie = client[d].cookie
                 PROVE  FALSE
      OBVIOUS
    <3>1. client[c].st = "menu" /\ client[c].cookie = client[d].cookie
      BY <2>2
    <3>2. Live(c)
      BY <2>2, <3>1, SameSession
    <3>3. c = d
      BY <2>2, <3>1, <3>2 DEF NonceInv, SoleHolder
    <3> QED
      BY <1>5, <3>3
  <2> QED
    BY <1>1, <1>4, <1>5, <2>1, <2>2 DEF Ahead
<1>6. \A q \in Pointers : wire'[q].kind = "Auth" => wire'[q] = wire[q]
  OBVIOUS
<1>7. ASSUME NEW d \in Clients, d # c, NEW q \in Pointers PROVE Unheard(d, q)'
  <2>1. Unheard(d, q)
    BY DEF NonceInv
  <2>2. \A e \in Peers(q)' :
          /\ client'[e].waits = "login"
          /\ wire'[q].kind = "Auth" \/ thread'[q].pc = "count"
          => e \in Peers(q) /\ client[e].waits = "login"
    BY <1>7 DEF Peers
  <2> QED
    BY <1>1, <1>4, <1>6, <1>7, <2>1, <2>2 DEF Unheard
<1>8. ASSUME NEW d \in Clients, NEW q \in Pointers PROVE Greeting(d, q)'
  <2>1. Greeting(d, q) /\ RoleOf(d)' = RoleOf(d)
    BY <1>8 DEF NonceInv, RoleOf
  <2>2. CASE d = c
    BY <1>8, <2>2 DEF Greeting, Peers
  <2>3. CASE d # c
    BY <1>1, <1>6, <1>8, <2>1, <2>3 DEF Greeting, Peers, LiveEntry, Unshared
  <2> QED
    BY <2>2, <2>3
<1> QED
  BY <1>2, <1>3, <1>5, <1>7, <1>8 DEF NonceInv

\* A step of a program that does not connect: shapes, turns and cookies.
LEMMA ClientShapes ==
  ASSUME IInv, NEW c \in Clients, NEW x \in Program, Update(c, x),
         UNCHANGED <<sessions, ssl_to_username, cookie_buffer, thread, issued, crossed>>,
         wire' \in [Pointers -> Message],
         \A q \in Pointers : client[c].ssl # q => wire'[q] = wire[q],
         \A q \in Pointers : client[c].ssl = q /\ wire'[q] # wire[q] =>
           /\ thread[q] = Reading /\ wire'[q].kind # "Auth"
           /\ wire'[q].kind = "Request" => wire'[q].cookie = client[c].cookie,
         x.ssl = client[c].ssl \/ x.ssl = NoSSL,
         x.cookie # NoCookie =>
           /\ Own(x.cookie, x.name, RoleOf(c))
           /\ x.ssl # NoSSL => Home(x.cookie, x.ssl),
         x.st = "down" => x = Down,
         x.st = "login" => x.cookie = NoCookie,
         x.waits = "login" => x.st = "login",
         x.waits = "request" => x.st = "menu",
         Attuned(c)', Named(c)'
  PROVE  TypeOK' /\ ConnInv' /\ CookieInv'
<1>1. TypeOK /\ ConnInv /\ CookieInv /\ NonceInv
  BY DEF IInv
<1>2. /\ client' \in [Clients -> Program] /\ client'[c] = x
      /\ \A d \in Clients \ {c} : client'[d] = client[d]
  BY <1>1, Updated DEF TypeOK
<1>3. NoSSL \notin Pointers
  BY SessionAssumption
<1>4. TypeOK'
  <2>1. \A d, e \in Clients :
          client'[d].ssl = client'[e].ssl /\ client'[d].ssl # NoSSL => d = e
    BY <1>1, <1>2 DEF TypeOK
  <2> QED
    BY <1>1, <1>2, <2>1 DEF TypeOK
<1>5. \A d \in Clients, q \in Pointers : client'[d].ssl = q => client[d].ssl = q
  BY <1>2, <1>3
<1>6. ConnInv'
  <2>1. ASSUME NEW q \in Pointers PROVE InTurn(q)'
    <3>1. Peers(q)' \subseteq Peers(q)
      BY <1>5, <2>1 DEF Peers
    <3>2. InTurn(q) /\ thread'[q] = thread[q]
      BY <1>1 DEF ConnInv
    <3>3. CASE wire'[q] = wire[q]
      BY <3>1, <3>2, <3>3 DEF InTurn
    <3>4. CASE wire'[q] # wire[q]
      BY <3>1, <3>2, <3>4, Constants DEF InTurn, Checking
    <3> QED
      BY <3>3, <3>4
  <2>2. ASSUME NEW d \in Clients, d # c PROVE Attuned(d)' /\ Named(d)'
    <3>1. /\ Attuned(d) /\ Named(d) /\ client'[d] = client[d]
          /\ RoleOf(d)' = RoleOf(d)
      BY <1>1, <1>2, <2>2 DEF ConnInv, RoleOf
    <3>2. client[d].ssl # NoSSL =>
            /\ wire'[client[d].ssl] = wire[client[d].ssl]
            /\ thread'[client[d].ssl] = thread[client[d].ssl]
            /\ ssl_to_username'[client[d].ssl] = ssl_to_username[client[d].ssl]
      BY <1>1, <2>2, ProgramFields DEF TypeOK
    <3>3. Attuned(d)'
      BY <3>1, <3>2 DEF Attuned
    <3>4. Named(d)'
      BY <3>1, <3>2 DEF Named
    <3> QED
      BY <3>3, <3>4
  <2>3. ASSUME NEW d \in Clients
        PROVE  /\ client'[d].st = "down" => client'[d] = Down
               /\ client'[d].st = "login" => client'[d].cookie = NoCookie
               /\ client'[d].waits = "login" => client'[d].st = "login"
               /\ client'[d].waits = "request" => client'[d].st = "menu"
    <3>1. CASE d = c
      BY <1>2, <3>1
    <3>2. CASE d # c
      <4>1. client'[d] = client[d]
        BY <1>2, <3>2
      <4> QED
        BY <1>1, <4>1 DEF ConnInv
    <3> QED
      BY <3>1, <3>2
  <2> QED
    BY <2>1, <2>2, <2>3 DEF ConnInv
<1>7. CookieInv'
  <2>1. ASSUME NEW d \in Clients, client[d].cookie # NoCookie
        PROVE  /\ Own(client[d].cookie, client[d].name, RoleOf(d))
               /\ client[d].ssl # NoSSL => Home(client[d].cookie, client[d].ssl)
    BY <1>1, <2>1 DEF CookieInv
  <2>2. ASSUME NEW d \in Clients, client'[d].cookie # NoCookie
        PROVE  /\ Own(client'[d].cookie, client'[d].name, RoleOf(d))
               /\ client'[d].ssl # NoSSL => Home(client'[d].cookie, client'[d].ssl)
    <3>1. CASE d = c
      BY <1>2, <2>2, <3>1
    <3>2. CASE d # c
      <4>1. client'[d] = client[d]
        BY <1>2, <3>2
      <4> QED
        BY <2>1, <2>2, <4>1
    <3> QED
      BY <3>1, <3>2
  <2>3. ASSUME NEW q \in Pointers PROVE Carried(q)'
    <3>1. Carried(q) /\ thread'[q] = thread[q]
      BY <1>1 DEF CookieInv
    <3>2. Peers(q)' \subseteq Peers(q)
      BY <1>5, <2>3 DEF Peers
    <3>3. CASE wire'[q] = wire[q]
      BY <3>1, <3>2, <3>3 DEF Carried, Own, Home, RoleOf
    <3>4. CASE wire'[q] # wire[q]
      <4>1. /\ client[c].ssl = q /\ thread[q] = Reading /\ wire'[q].kind # "Auth"
            /\ wire'[q].kind = "Request" => wire'[q].cookie = client[c].cookie
        BY <2>3, <3>4
      <4>2. thread'[q].pc \notin Answering \cup {"authenticate", "count"}
        BY <3>1, <4>1, Constants DEF Answering
      <4>3. wire'[q].kind = "Request" /\ wire'[q].cookie # NoCookie =>
              wire'[q].cookie \in DOMAIN issued /\ Home(wire'[q].cookie, q)
        BY <1>3, <2>1, <2>3, <4>1 DEF Own
      <4> QED
        BY <4>1, <4>2, <4>3 DEF Carried, Home
    <3> QED
      BY <3>3, <3>4
  <2>4. /\ \A k \in DOMAIN issued : issued[k] # {} /\ IsFiniteSet(issued[k])
        /\ \A r \in Roles : \A n \in DOMAIN sessions[r] :
             sessions[r][n].cookie # NoCookie => Own(sessions[r][n].cookie, n, r)
    BY <1>1 DEF CookieInv
  <2> QED
    BY <2>2, <2>3, <2>4 DEF CookieInv, Own, Home, RoleOf
<1> QED
  BY <1>4, <1>6, <1>7

\* A step of a program that keeps its session or has none.
LEMMA ClientTurn ==
  ASSUME IInv, NEW c \in Clients, NEW x \in Program, Update(c, x),
         UNCHANGED <<sessions, ssl_to_username, cookie_buffer, thread, issued, crossed>>,
         wire' \in [Pointers -> Message],
         \A q \in Pointers : client[c].ssl # q => wire'[q] = wire[q],
         \A q \in Pointers : client[c].ssl = q /\ wire'[q] # wire[q] =>
           /\ thread[q] = Reading /\ wire'[q].kind # "Auth"
           /\ wire'[q].kind = "Request" =>
                client[c].st = "menu" /\ wire'[q].cookie = client[c].cookie,
         x.ssl = client[c].ssl \/ x.ssl = NoSSL,
         x.cookie # NoCookie => x.cookie = client[c].cookie /\ x.name = client[c].name,
         x.st = "down" => x = Down,
         x.st = "login" => x.cookie = NoCookie,
         x.waits = "login" => x.st = "login",
         x.waits = "request" => x.st = "menu",
         Attuned(c)', Named(c)',
         \A q \in Pointers : x.ssl = q /\ x.waits = "login" =>
           wire'[q].kind # "Auth" /\ thread[q].pc # "count",
         Even(c)', Parted(c)',
         \A q \in Pointers : client[c].ssl = q => Ahead(c, q)'
  PROVE  IInv'
<1>1. TypeOK /\ ConnInv /\ CookieInv /\ NonceInv
  BY DEF IInv
<1>2. /\ client' \in [Clients -> Program] /\ client'[c] = x
      /\ \A d \in Clients \ {c} : client'[d] = client[d]
  BY <1>1, Updated DEF TypeOK
<1>3. x.cookie # NoCookie =>
        /\ Own(x.cookie, x.name, RoleOf(c))
        /\ x.ssl # NoSSL => Home(x.cookie, x.ssl)
  BY <1>1 DEF CookieInv
<1>4. TypeOK' /\ ConnInv' /\ CookieInv'
  BY <1>3, ClientShapes
<1>5. NonceInv'
  <2>1. ASSUME Live(c)'
        PROVE  /\ Live(c) /\ client'[c].cookie = client[c].cookie
               /\ client'[c].name = client[c].name
               /\ StoredNonce(c)' = StoredNonce(c)
    <3>1. client'[c].cookie # NoCookie
      BY <1>4, <2>1, LiveHasCookie, SessionAssumption
      DEF TypeOK, Live, HoldsStored, LiveEntry, Unshared
    <3>2. x.cookie = client[c].cookie /\ x.name = client[c].name
      BY <1>2, <3>1
    <3>3. client[c].st = "menu"
      <4>1. client[c] \in Program
        BY <1>1 DEF TypeOK
      <4> QED
        BY <1>1, <1>2, <3>1, <3>2, <4>1, ProgramFields, DownFields DEF ConnInv
    <3> QED
      BY <1>2, <2>1, <3>2, <3>3
      DEF Live, HoldsStored, LiveEntry, Unshared, StoredNonce, RoleOf
  <2>2. ASSUME NEW d \in Clients \ {c}, Live(c)', Live(d)
        PROVE  client'[c].cookie # client[d].cookie
    BY <1>1, <2>1, <2>2 DEF NonceInv, SoleHolder
  <2>3. ASSUME NEW q \in Pointers PROVE Ahead(c, q)'
    <3>1. CASE client[c].ssl = q
      BY <3>1
    <3>2. CASE client[c].ssl # q
      <4>1. Ahead(c, q) /\ wire'[q] = wire[q] /\ thread'[q] = thread[q]
        BY <1>1, <2>3, <3>2 DEF NonceInv
      <4> QED
        BY <2>1, <3>2, <4>1 DEF Ahead
    <3> QED
      BY <3>1, <3>2
  <2>4. \A q \in Pointers : wire'[q].kind = "Auth" => wire'[q] = wire[q]
    OBVIOUS
  <2>5. ASSUME NEW q \in Pointers PROVE Unheard(c, q)'
    <3>1. Unheard(c, q)
      BY <1>1 DEF NonceInv
    <3>2. \A e \in Peers(q)' :
            /\ client'[e].waits = "login"
            /\ wire'[q].kind = "Auth" \/ thread'[q].pc = "count"
            => e \in Peers(q) /\ client[e].waits = "login"
      BY <1>2, <2>5 DEF Peers
    <3> QED
      BY <2>1, <2>4, <2>5, <3>1, <3>2 DEF Unheard
  <2> QED
    BY <1>1, <1>2, <2>2, <2>3, <2>5, OthersTurn
<1> QED
  BY <1>4, <1>5 DEF IInv

\* Where a program with a connection that waits for nothing stands.
LEMMA SilentLine ==
  ASSUME IInv, NEW c \in Clients, client[c].ssl # NoSSL,
         client[c].waits \in {"no", "nothing"}
  PROVE  /\ client[c] \in Program /\ client[c].ssl \in Pointers
         /\ thread[client[c].ssl] = Reading /\ wire[client[c].ssl] = Quiet
         /\ Even(c)
         /\ client[c].st = "menu" =>
              client[c].name = ssl_to_username[client[c].ssl]
<1>1. client[c] \in Program /\ client[c].ssl \in Pointers
  BY ProgramFields DEF IInv, TypeOK
<1> QED
  BY <1>1 DEF IInv, ConnInv, Attuned, Named, NonceInv

\* A program without a live session has nothing to agree on.
LEMMA NoSession ==
  ASSUME NEW c \in Clients, client'[c].st # "menu"
  PROVE  /\ Even(c)' /\ Parted(c)'
         /\ \A q \in Pointers : Ahead(c, q)' /\ Unheard(c, q)'
  BY DEF Even, Parted, Ahead, Unheard, Live, HoldsStored

\* A program whose connection is open has not been parted from its session.
LEMMA StillConnected ==
  ASSUME NEW c \in Clients, client'[c].ssl # NoSSL
  PROVE  Parted(c)'
  BY DEF Parted

LEMMA SendLogInKeeps ==
  ASSUME IInv, NEW c \in Clients, NEW name \in Names, NEW right \in BOOLEAN,
         SendLogIn(c, name, right)
  PROVE  IInv'
<1>1. PICK p, m, x :
        /\ p = client[c].ssl
        /\ m = [kind |-> "LogIn", role |-> RoleOf(c), name |-> name, right |-> right]
        /\ x = [client[c] EXCEPT !.waits = "login"]
  OBVIOUS
<1>2. /\ Update(c, x) /\ Send(p, m) /\ client[c].st = "login"
      /\ p # NoSSL /\ client[c].waits = "no"
      /\ UNCHANGED <<sessions, ssl_to_username, cookie_buffer, thread, issued, crossed>>
  BY <1>1 DEF SendLogIn, CanSend, server, maps, history
<1>3. /\ client[c] \in Program /\ p \in Pointers /\ thread[p] = Reading
  BY <1>1, <1>2, SilentLine
<1>4. m \in Message /\ m.kind = "LogIn" /\ m.role = RoleOf(c)
  BY <1>1, Constants DEF Message
<1>5. /\ x \in Program /\ x.st = "login" /\ x.ssl = p /\ x.cookie = client[c].cookie
      /\ x.name = client[c].name /\ x.waits = "login"
  BY <1>1, <1>2, <1>3, ProgramWaits
<1>6. /\ wire' \in [Pointers -> Message] /\ wire'[p] = m
      /\ \A q \in Pointers \ {p} : wire'[q] = wire[q]
      /\ client'[c] = x
  BY <1>2, <1>3, <1>4, <1>5, Sent, Updated DEF IInv, TypeOK
<1>7. x.cookie = NoCookie
  BY <1>2, <1>5 DEF IInv, ConnInv
<1>8. Attuned(c)' /\ Named(c)'
  BY <1>2, <1>3, <1>4, <1>5, <1>6, Constants DEF Attuned, Named, RoleOf
<1>9. Even(c)' /\ Parted(c)' /\ \A q \in Pointers : Ahead(c, q)'
  BY <1>5, <1>6, NoSession
<1>10. \A q \in Pointers : client[c].ssl # q => wire'[q] = wire[q]
  BY <1>1, <1>6
<1>11. \A q \in Pointers : client[c].ssl = q =>
         /\ thread[q] = Reading /\ thread[q].pc # "count"
         /\ wire'[q].kind \notin {"Auth", "Request"}
  BY <1>1, <1>3, <1>4, <1>6, Constants
<1>12. x.st # "down" /\ x.waits # "request" /\ x.ssl = client[c].ssl
  BY <1>1, <1>5
<1> QED
  BY <1>2, <1>5, <1>6, <1>7, <1>8, <1>9, <1>10, <1>11, <1>12, ClientTurn

LEMMA SendRequestKeeps ==
  ASSUME IInv, NEW c \in Clients, SendRequest(c)
  PROVE  IInv'
<1>1. PICK p, m, x :
        /\ p = client[c].ssl
        /\ m = [kind |-> "Request", role |-> RoleOf(c), name |-> client[c].name,
                cookie |-> client[c].cookie, nonce |-> client[c].nonce + 1]
        /\ x = [client[c] EXCEPT !.nonce = @ + 1, !.waits = "request"]
  OBVIOUS
<1>2. /\ Update(c, x) /\ Send(p, m) /\ client[c].st = "menu"
      /\ p # NoSSL /\ client[c].waits = "no"
      /\ UNCHANGED <<sessions, ssl_to_username, cookie_buffer, thread, issued, crossed>>
  BY <1>1 DEF SendRequest, CanSend, server, maps, history
<1>3. /\ client[c] \in Program /\ p \in Pointers /\ thread[p] = Reading /\ Even(c)
      /\ client[c].name = ssl_to_username[p]
  BY <1>1, <1>2, SilentLine
<1>4. /\ m \in Message /\ m.kind = "Request" /\ m.role = RoleOf(c)
      /\ m.name = client[c].name /\ m.cookie = client[c].cookie
      /\ m.nonce = client[c].nonce + 1
  <2>1. client[c].nonce + 1 \in Nat /\ client[c].name \in Names \cup {NoName}
        /\ client[c].cookie \in Cookies \cup {NoCookie} /\ RoleOf(c) \in Roles
    BY <1>3, ProgramFields, Constants
  <2> QED
    BY <1>1, <2>1 DEF Message
<1>5. /\ x \in Program /\ x.st = "menu" /\ x.ssl = p /\ x.cookie = client[c].cookie
      /\ x.name = client[c].name /\ x.nonce = client[c].nonce + 1
      /\ x.waits = "request"
  BY <1>1, <1>2, <1>3, ProgramCounts
<1>6. /\ wire' \in [Pointers -> Message] /\ wire'[p] = m
      /\ \A q \in Pointers \ {p} : wire'[q] = wire[q]
      /\ client'[c] = x
  BY <1>2, <1>3, <1>4, <1>5, Sent, Updated DEF IInv, TypeOK
<1>7. Attuned(c)' /\ Named(c)' /\ Parted(c)'
  BY <1>2, <1>3, <1>4, <1>5, <1>6, Constants, StillConnected DEF Attuned, Named, RoleOf
<1>8. Even(c)'
  BY <1>2, <1>4, <1>5, <1>6 DEF Even
<1>9. Ahead(c, p)'
  <2> SUFFICES ASSUME Live(c)'
               PROVE  client'[c].nonce = StoredNonce(c)' + 1
    BY <1>5, <1>6 DEF Ahead
  <2>1. Live(c) /\ StoredNonce(c)' = StoredNonce(c)
    BY <1>2, <1>5, <1>6 DEF Live, HoldsStored, LiveEntry, Unshared, StoredNonce, RoleOf
  <2>2. StoredNonce(c) = client[c].nonce
    BY <1>2, <1>3, <2>1 DEF Even
  <2> QED
    BY <1>5, <1>6, <2>1, <2>2
<1>10. \A q \in Pointers : client[c].ssl # q => wire'[q] = wire[q]
  BY <1>1, <1>6
<1>11. \A q \in Pointers : client[c].ssl = q =>
         /\ thread[q] = Reading /\ wire'[q].kind = "Request"
         /\ wire'[q].cookie = client[c].cookie
  BY <1>1, <1>3, <1>4, <1>6
<1> QED
  BY <1>1, <1>2, <1>5, <1>6, <1>7, <1>8, <1>9, <1>10, <1>11, ClientTurn

LEMMA ChooseNothingKeeps ==
  ASSUME IInv, NEW c \in Clients, ChooseNothing(c)
  PROVE  IInv'
<1>1. PICK x : x = [client[c] EXCEPT !.waits = "nothing"]
  OBVIOUS
<1>2. /\ Update(c, x) /\ client[c].st = "menu" /\ client[c].waits = "no"
      /\ UNCHANGED <<sessions, ssl_to_username, cookie_buffer, thread, issued, crossed>>
      /\ UNCHANGED wire
  BY <1>1 DEF ChooseNothing, server, maps, history
<1>3. client[c] \in Program /\ wire' \in [Pointers -> Message]
  BY <1>2 DEF IInv, TypeOK
<1>4. /\ x \in Program /\ x.st = "menu" /\ x.ssl = client[c].ssl
      /\ x.cookie = client[c].cookie /\ x.name = client[c].name
      /\ x.nonce = client[c].nonce /\ x.waits = "nothing"
  BY <1>1, <1>2, <1>3, ProgramWaits
<1>5. client'[c] = x
  BY <1>2, <1>4, Updated DEF IInv, TypeOK
<1>6. Attuned(c)' /\ Named(c)'
  <2>1. Attuned(c) /\ Named(c) /\ RoleOf(c)' = RoleOf(c)
    BY DEF IInv, ConnInv, RoleOf
  <2>2. Attuned(c)'
    BY <1>2, <1>4, <1>5, <2>1, Constants DEF Attuned
  <2>3. Named(c)'
    BY <1>2, <1>4, <1>5, <2>1, Constants DEF Attuned, Named
  <2> QED
    BY <2>2, <2>3
<1>7. Even(c)' /\ Parted(c)' /\ \A q \in Pointers : Ahead(c, q)'
  <2>1. Even(c) /\ Parted(c) /\ \A q \in Pointers : Ahead(c, q)
    BY DEF IInv, NonceInv
  <2>2. /\ Live(c)' => Live(c) /\ StoredNonce(c)' = StoredNonce(c)
        /\ RoleOf(c)' = RoleOf(c)
    BY <1>2, <1>4, <1>5 DEF Live, HoldsStored, LiveEntry, Unshared, StoredNonce, RoleOf
  <2>3. Even(c)' /\ Parted(c)'
    BY <1>2, <1>4, <1>5, <2>1, <2>2 DEF Even, Parted
  <2>4. \A q \in Pointers : Ahead(c, q)'
    BY <1>2, <1>4, <1>5, <2>1, <2>2 DEF Ahead
  <2> QED
    BY <2>3, <2>4
<1> QED
  BY <1>2, <1>3, <1>4, <1>5, <1>6, <1>7, ClientTurn

LEMMA SendLogOutKeeps ==
  ASSUME IInv, NEW c \in Clients, SendLogOut(c)
  PROVE  IInv'
<1>1. PICK p, m, x :
        /\ p = client[c].ssl
        /\ m = [kind |-> "LogOut", name |-> client[c].name,
                cookie |-> client[c].cookie, nonce |-> client[c].nonce + 1]
        /\ x = [client[c] EXCEPT !.nonce = @ + 1, !.waits = "logout"]
  OBVIOUS
<1>2. /\ Update(c, x) /\ Send(p, m) /\ client[c].st = "menu"
      /\ p # NoSSL /\ client[c].waits \in {"no", "nothing"}
      /\ UNCHANGED <<sessions, ssl_to_username, cookie_buffer, thread, issued, crossed>>
  BY <1>1 DEF SendLogOut, server, maps, history
<1>3. /\ client[c] \in Program /\ p \in Pointers /\ thread[p] = Reading
      /\ client[c].name = ssl_to_username[p]
  BY <1>1, <1>2, SilentLine
<1>4. m \in Message /\ m.kind = "LogOut"
  <2>1. client[c].nonce + 1 \in Nat /\ client[c].name \in Names \cup {NoName}
        /\ client[c].cookie \in Cookies \cup {NoCookie}
    BY <1>3, ProgramFields
  <2> QED
    BY <1>1, <2>1 DEF Message
<1>5. /\ x \in Program /\ x.st = "menu" /\ x.ssl = p /\ x.cookie = client[c].cookie
      /\ x.name = client[c].name /\ x.waits = "logout"
  BY <1>1, <1>2, <1>3, ProgramCounts
<1>6. /\ wire' \in [Pointers -> Message] /\ wire'[p] = m
      /\ \A q \in Pointers \ {p} : wire'[q] = wire[q]
      /\ client'[c] = x
  BY <1>2, <1>3, <1>4, <1>5, Sent, Updated DEF IInv, TypeOK
<1>7. Attuned(c)' /\ Named(c)' /\ Parted(c)'
  BY <1>2, <1>3, <1>4, <1>5, <1>6, Constants, StillConnected DEF Attuned, Named, RoleOf
<1>8. Even(c)'
  BY <1>5, <1>6 DEF Even
<1>9. Ahead(c, p)'
  BY <1>2, <1>3, <1>4, <1>6, Constants DEF Ahead, Answering
<1>10. \A q \in Pointers : client[c].ssl # q => wire'[q] = wire[q]
  BY <1>1, <1>6
<1>11. \A q \in Pointers : client[c].ssl = q =>
         thread[q] = Reading /\ wire'[q].kind = "LogOut"
  BY <1>1, <1>3, <1>4, <1>6
<1> QED
  BY <1>1, <1>2, <1>5, <1>6, <1>7, <1>8, <1>9, <1>10, <1>11, ClientTurn

LEMMA SendGarbledKeeps ==
  ASSUME IInv, NEW c \in Clients, SendGarbled(c)
  PROVE  IInv'
<1>1. PICK p, m, x :
        /\ p = client[c].ssl /\ m = [kind |-> "Garbled"]
        /\ x = [client[c] EXCEPT !.nonce = @ + 1, !.waits = "request"]
  OBVIOUS
<1>2. /\ Update(c, x) /\ Send(p, m) /\ client[c].st = "menu"
      /\ p # NoSSL /\ client[c].waits = "no"
      /\ UNCHANGED <<sessions, ssl_to_username, cookie_buffer, thread, issued, crossed>>
  BY <1>1 DEF SendGarbled, CanSend, server, maps, history
<1>3. /\ client[c] \in Program /\ p \in Pointers /\ thread[p] = Reading
      /\ client[c].name = ssl_to_username[p]
  BY <1>1, <1>2, SilentLine
<1>4. m \in Message /\ m.kind = "Garbled"
  BY <1>1, Constants
<1>5. /\ x \in Program /\ x.st = "menu" /\ x.ssl = p /\ x.cookie = client[c].cookie
      /\ x.name = client[c].name /\ x.waits = "request"
  BY <1>1, <1>2, <1>3, ProgramCounts
<1>6. /\ wire' \in [Pointers -> Message] /\ wire'[p] = m
      /\ \A q \in Pointers \ {p} : wire'[q] = wire[q]
      /\ client'[c] = x
  BY <1>2, <1>3, <1>4, <1>5, Sent, Updated DEF IInv, TypeOK
<1>7. Attuned(c)' /\ Named(c)' /\ Parted(c)'
  BY <1>2, <1>3, <1>4, <1>5, <1>6, Constants, StillConnected DEF Attuned, Named, RoleOf
<1>8. Even(c)'
  BY <1>4, <1>5, <1>6 DEF Even
<1>9. Ahead(c, p)'
  BY <1>2, <1>3, <1>4, <1>6, Constants DEF Ahead, Answering
<1>10. \A q \in Pointers : client[c].ssl # q => wire'[q] = wire[q]
  BY <1>1, <1>6
<1>11. \A q \in Pointers : client[c].ssl = q =>
         thread[q] = Reading /\ wire'[q].kind = "Garbled"
  BY <1>1, <1>3, <1>4, <1>6
<1> QED
  BY <1>1, <1>2, <1>5, <1>6, <1>7, <1>8, <1>9, <1>10, <1>11, ClientTurn

\* Where a program to which an answer has come stands.
LEMMA AnsweredLine ==
  ASSUME IInv, NEW c \in Clients, NEW kinds,
         kinds \subseteq {"Auth", "Reject", "Accept"}, Answered(c, kinds)
  PROVE  /\ client[c] \in Program /\ client[c].ssl \in Pointers
         /\ thread[client[c].ssl] = Reading
         /\ wire[client[c].ssl] \in Message /\ wire[client[c].ssl].kind \in kinds
<1>1. client[c] \in Program /\ client[c].ssl \in Pointers
  BY ProgramFields DEF IInv, TypeOK, Answered
<1>2. wire[client[c].ssl].kind \in {"Auth", "Reject", "Accept"}
  BY DEF Answered
<1>3. wire[client[c].ssl] # Quiet /\ thread[client[c].ssl].pc \notin Checking
  BY <1>1, <1>2, Constants DEF IInv, ConnInv, InTurn
<1> QED
  BY <1>1, <1>3 DEF IInv, TypeOK, ConnInv, InTurn, Answered

\* The program is idle again, its globals as they were.
LEMMA IdleAgain ==
  ASSUME IInv, NEW c \in Clients, client[c].ssl \in Pointers,
         thread[client[c].ssl] = Reading,
         Update(c, [client[c] EXCEPT !.waits = "no"]), Send(client[c].ssl, Quiet),
         UNCHANGED <<sessions, ssl_to_username, cookie_buffer, thread, issued, crossed>>,
         Live(c) => StoredNonce(c) = client[c].nonce
  PROVE  IInv'
<1>1. PICK p, x : p = client[c].ssl /\ x = [client[c] EXCEPT !.waits = "no"]
  OBVIOUS
<1>2. client[c] \in Program /\ p \in Pointers /\ thread[p] = Reading
  BY <1>1 DEF IInv, TypeOK
<1>3. /\ x \in Program /\ x.st = client[c].st /\ x.ssl = p
      /\ x.cookie = client[c].cookie /\ x.name = client[c].name
      /\ x.nonce = client[c].nonce /\ x.waits = "no"
  BY <1>1, <1>2, ProgramWaits
<1>4. /\ wire' \in [Pointers -> Message] /\ wire'[p] = Quiet
      /\ \A q \in Pointers \ {p} : wire'[q] = wire[q]
      /\ client'[c] = x
  BY <1>1, <1>2, <1>3, Sent, Updated, Constants DEF IInv, TypeOK
<1>5. Attuned(c)' /\ Named(c)' /\ Parted(c)'
  <2>1. client[c].st = "menu" => client[c].name = ssl_to_username[p]
    BY <1>1, <1>2, SessionAssumption DEF IInv, ConnInv, Named
  <2>2. Attuned(c)' /\ Parted(c)'
    BY <1>2, <1>3, <1>4, Constants, SessionAssumption, StillConnected DEF Attuned
  <2>3. Named(c)'
    BY <1>2, <1>3, <1>4, <2>1, Constants DEF Named
  <2> QED
    BY <2>2, <2>3
<1>6. Even(c)'
  <2>1. Live(c)' => Live(c) /\ StoredNonce(c)' = StoredNonce(c)
    BY <1>3, <1>4 DEF Live, HoldsStored, LiveEntry, Unshared, StoredNonce, RoleOf
  <2>2. Live(c) => client[c].st = "menu"
    BY DEF Live, HoldsStored
  <2> QED
    BY <1>3, <1>4, <2>1, <2>2 DEF Even
<1>7. Ahead(c, p)'
  BY <1>2, <1>4, Constants DEF Ahead, Answering
<1>8. \A q \in Pointers : client[c].ssl # q => wire'[q] = wire[q]
  BY <1>1, <1>4
<1>9. \A q \in Pointers : client[c].ssl = q =>
        /\ thread[q] = Reading /\ wire'[q].kind \notin {"Auth", "Request"}
        /\ Ahead(c, q)'
  BY <1>1, <1>2, <1>4, <1>7, Constants
<1>10. /\ x.ssl = client[c].ssl /\ x.st # "down"
       /\ x.st = "login" => x.cookie = NoCookie
       /\ x.waits \notin {"login", "request"}
  <2>1. client[c].st # "down"
    BY <1>1, <1>2, DownFields, SessionAssumption DEF IInv, ConnInv
  <2>2. client[c].st = "login" => client[c].cookie = NoCookie
    BY DEF IInv, ConnInv
  <2> QED
    BY <1>1, <1>3, <2>1, <2>2
<1>11. Update(c, x)
  BY <1>1
<1>12. x.cookie = client[c].cookie /\ x.name = client[c].name /\ x \in Program
  BY <1>3
<1>13. wire' \in [Pointers -> Message]
  BY <1>4
<1> QED
  BY <1>5, <1>6, <1>8, <1>9, <1>10, <1>11, <1>12, <1>13, ClientTurn

LEMMA ReceiveAnswerKeeps ==
  ASSUME IInv, NEW c \in Clients, ReceiveAnswer(c)
  PROVE  IInv'
<1>1. /\ Update(c, [client[c] EXCEPT !.waits = "no"]) /\ Send(client[c].ssl, Quiet)
      /\ UNCHANGED <<sessions, ssl_to_username, cookie_buffer, thread, issued, crossed>>
      /\ client[c].waits = "request"
  BY DEF ReceiveAnswer, server, maps, history
<1>2. /\ client[c].ssl \in Pointers /\ thread[client[c].ssl] = Reading
      /\ wire[client[c].ssl].kind \in {"Auth", "Reject"}
  <2>1. Answered(c, {"Auth", "Reject"})
    BY DEF ReceiveAnswer
  <2> QED
    BY <2>1, AnsweredLine
<1>3. Live(c) => StoredNonce(c) = client[c].nonce
  BY <1>1, <1>2, SessionAssumption DEF IInv, NonceInv, Even
<1> QED
  BY <1>1, <1>2, <1>3, IdleAgain

\* The program ends.
LEMMA EndKeeps ==
  ASSUME IInv, NEW c \in Clients, Update(c, Down),
         UNCHANGED <<sessions, ssl_to_username, cookie_buffer, thread, issued, crossed>>,
         wire' \in [Pointers -> Message],
         \A q \in Pointers : wire'[q] # wire[q] =>
           client[c].ssl = q /\ thread[q] = Reading /\ wire'[q] = Quiet
  PROVE  IInv'
<1>1. client'[c] = Down
  BY Updated, Constants DEF IInv, TypeOK
<1>2. Attuned(c)' /\ Named(c)'
  BY <1>1, DownFields DEF Attuned, Named
<1>3. Even(c)' /\ Parted(c)' /\ \A q \in Pointers : Ahead(c, q)'
  BY <1>1, DownFields, NoSession
<1>4. \A q \in Pointers : client[c].ssl # q => wire'[q] = wire[q]
  OBVIOUS
<1>5. \A q \in Pointers : wire'[q] # wire[q] =>
        thread[q] = Reading /\ wire'[q].kind \notin {"Auth", "Request"}
  BY Constants
<1> QED
  BY <1>2, <1>3, <1>4, <1>5, ClientTurn, DownFields, Constants

LEMMA ReceiveLogOutKeeps ==
  ASSUME IInv, NEW c \in Clients, ReceiveLogOut(c)
  PROVE  IInv'
<1>1. /\ Update(c, Down) /\ Send(client[c].ssl, Quiet)
      /\ UNCHANGED <<sessions, ssl_to_username, cookie_buffer, thread, issued, crossed>>
  BY DEF ReceiveLogOut, server, maps, history
<1>2. client[c].ssl \in Pointers /\ thread[client[c].ssl] = Reading
  <2>1. Answered(c, {"Accept", "Reject"})
    BY DEF ReceiveLogOut
  <2> QED
    BY <2>1, AnsweredLine
<1>3. /\ wire' \in [Pointers -> Message] /\ wire'[client[c].ssl] = Quiet
      /\ \A q \in Pointers \ {client[c].ssl} : wire'[q] = wire[q]
  BY <1>1, <1>2, Sent, Constants DEF IInv, TypeOK
<1> QED
  BY <1>1, <1>2, <1>3, EndKeeps

LEMMA CrashKeeps ==
  ASSUME IInv, NEW c \in Clients, Crash(c)
  PROVE  IInv'
<1>1. /\ Update(c, Down) /\ wire' = wire
      /\ UNCHANGED <<sessions, ssl_to_username, cookie_buffer, thread, issued, crossed>>
  BY DEF Crash, server, maps, history
<1>2. wire' \in [Pointers -> Message]
  BY <1>1 DEF IInv, TypeOK
<1> QED
  BY <1>1, <1>2, EndKeeps

LEMMA ConnectionLostKeeps ==
  ASSUME IInv, NEW c \in Clients, ConnectionLost(c)
  PROVE  IInv'
<1>1. PICK x : x = [client[c] EXCEPT !.st = "menu", !.waits = "no"]
  OBVIOUS
<1>2. /\ client[c].st \in {"login", "menu"} /\ client[c].ssl = NoSSL
      /\ wire' = wire
      /\ UNCHANGED <<sessions, ssl_to_username, cookie_buffer, thread, issued, crossed>>
      /\ \/ Update(c, Down)
         \/ Update(c, x) /\ RoleOf(c) = "user"
  BY <1>1 DEF ConnectionLost, server, maps, history, RoleOf
<1>3. client[c] \in Program /\ wire' \in [Pointers -> Message]
  BY <1>2 DEF IInv, TypeOK
<1>4. CASE Update(c, Down)
  BY <1>2, <1>3, <1>4, EndKeeps
<1>5. CASE Update(c, x) /\ RoleOf(c) = "user"
  <2>1. /\ x \in Program /\ x.st = "menu" /\ x.ssl = NoSSL
        /\ x.cookie = client[c].cookie /\ x.name = client[c].name
        /\ x.nonce = client[c].nonce /\ x.waits = "no"
    BY <1>1, <1>2, <1>3, ProgramReturns
  <2>2. client'[c] = x
    BY <1>5, <2>1, Updated DEF IInv, TypeOK
  <2>3. Attuned(c)' /\ Named(c)'
    BY <2>1, <2>2 DEF Attuned, Named
  <2>4. ~Live(c)'
    <3> SUFFICES ASSUME Live(c)' PROVE FALSE
      OBVIOUS
    <3>1. client[c].cookie # NoCookie
      <4>1. client[c].cookie \in DOMAIN issued
        BY <1>2, <2>1, <2>2 DEF Live, HoldsStored, LiveEntry, Unshared, RoleOf
      <4> QED
        BY <4>1, SessionAssumption DEF IInv, TypeOK
    <3>2. client[c].st = "menu"
      BY <1>2, <3>1 DEF IInv, ConnInv
    <3>3. Live(c)
      BY <1>2, <2>1, <2>2, <3>2
      DEF Live, HoldsStored, LiveEntry, Unshared, RoleOf
    <3> QED
      BY <1>2, <1>5, <3>3 DEF IInv, NonceInv, Parted
  <2>5. Even(c)' /\ Parted(c)'
    BY <2>4 DEF Even, Parted
  <2>6. \A q \in Pointers : client[c].ssl # q
    BY <1>2, SessionAssumption
  <2> QED
    BY <1>2, <1>3, <1>5, <2>1, <2>3, <2>5, <2>6, ClientTurn
<1> QED
  BY <1>2, <1>4, <1>5

LEMMA ReceiveLogInKeeps ==
  ASSUME IInv, NEW c \in Clients, ReceiveLogIn(c)
  PROVE  IInv'
<1>1. TypeOK /\ ConnInv /\ CookieInv /\ NonceInv
  BY DEF IInv
<1>2. PICK p, m, r : p = client[c].ssl /\ m = wire[client[c].ssl] /\ r = RoleOf(c)
  OBVIOUS
<1>3. /\ client[c].waits = "login" /\ Send(p, Quiet)
      /\ UNCHANGED <<sessions, ssl_to_username, cookie_buffer, thread, issued, crossed>>
  BY <1>2 DEF ReceiveLogIn, server, maps, history
<1>4. /\ client[c] \in Program /\ p \in Pointers /\ thread[p] = Reading
      /\ m \in Message /\ m = wire[p] /\ m.kind \in {"Auth", "Reject"}
  <2>1. Answered(c, {"Auth", "Reject"})
    BY DEF ReceiveLogIn
  <2> QED
    BY <1>2, <2>1, AnsweredLine
<1>5. client[c].st = "login"
  BY <1>1, <1>3 DEF ConnInv
<1>6. /\ wire' \in [Pointers -> Message] /\ wire'[p] = Quiet
      /\ \A q \in Pointers \ {p} : wire'[q] = wire[q]
  BY <1>1, <1>3, <1>4, Sent, Constants DEF TypeOK
<1>7. CASE m.kind = "Reject"
  <2>1. Update(c, [client[c] EXCEPT !.waits = "no"])
    BY <1>2, <1>7 DEF ReceiveLogIn
  <2>2. ~Live(c)
    BY <1>5 DEF Live, HoldsStored
  <2> QED
    BY <1>2, <1>3, <1>4, <2>1, <2>2, IdleAgain
<1>8. CASE m.kind = "Auth"
  <2>1. PICK x : x = [client[c] EXCEPT !.st = "menu", !.name = m.name,
                        !.cookie = m.cookie, !.nonce = m.nonce, !.waits = "no"]
    OBVIOUS
  <2>2. Update(c, x)
    BY <1>2, <1>8, <2>1 DEF ReceiveLogIn
  <2>3. /\ x \in Program /\ x.st = "menu" /\ x.ssl = p /\ x.name = m.name
        /\ x.cookie = m.cookie /\ x.nonce = m.nonce /\ x.waits = "no"
    BY <1>2, <1>4, <1>8, <2>1, ProgramEnters
  <2>4. /\ client'[c] = x
        /\ \A d \in Clients \ {c} : client'[d] = client[d]
    BY <1>1, <2>2, <2>3, Updated DEF TypeOK
  <2>5. c \in Peers(p)
    BY <1>2 DEF Peers
  <2>6. m.cookie # NoCookie => /\ m.cookie \in DOMAIN issued /\ Home(m.cookie, p)
                               /\ Own(m.cookie, m.name, r)
    BY <1>1, <1>2, <1>4, <1>8, <2>5 DEF CookieInv, Carried
  <2>7. Attuned(c)' /\ Named(c)' /\ Parted(c)'
    <3>1. m.name = ssl_to_username[p]
      BY <1>1, <1>2, <1>3, <1>4, <1>8, SessionAssumption DEF ConnInv, Named
    <3>2. Attuned(c)' /\ Parted(c)'
      BY <1>3, <1>4, <1>6, <2>3, <2>4, Constants, SessionAssumption, StillConnected
      DEF Attuned
    <3>3. Named(c)'
      BY <1>3, <1>4, <1>6, <2>3, <2>4, <3>1, Constants DEF Named
    <3> QED
      BY <3>2, <3>3
  <2>8. \A q \in Pointers : client[c].ssl # q => wire'[q] = wire[q]
    BY <1>2, <1>6
  <2>9. \A q \in Pointers : client[c].ssl = q =>
          thread[q] = Reading /\ wire'[q].kind \notin {"Auth", "Request"}
    BY <1>2, <1>4, <1>6, Constants
  <2>10. TypeOK' /\ ConnInv' /\ CookieInv'
    <3>1. x.ssl = client[c].ssl
      BY <1>2, <2>3
    <3>2. x.cookie # NoCookie => /\ Own(x.cookie, x.name, RoleOf(c))
                                 /\ x.ssl # NoSSL => Home(x.cookie, x.ssl)
      BY <1>2, <2>3, <2>6
    <3> QED
      BY <1>3, <1>6, <2>2, <2>3, <2>7, <2>8, <2>9, <3>1, <3>2, ClientShapes
  <2>11. RoleOf(c)' = r /\ r \in Roles
    BY <1>2, Constants DEF RoleOf
  <2>12. ASSUME Live(c)'
         PROVE  /\ LiveEntry(r, m.name) /\ m.cookie = sessions[r][m.name].cookie
                /\ Unshared(m.cookie) /\ m.cookie \notin crossed
                /\ m.cookie # NoCookie
                /\ StoredNonce(c)' = m.nonce
    <3>1. LiveEntry(r, m.name) /\ m.cookie = sessions[r][m.name].cookie
      BY <1>3, <2>3, <2>4, <2>11, <2>12 DEF Live, HoldsStored, LiveEntry, Unshared
    <3>2. Greeting(c, p)
      BY <1>1, <1>4 DEF NonceInv
    <3>3. m.nonce = sessions[r][m.name].nonce
      BY <1>2, <1>3, <1>4, <1>8, <2>5, <3>1, <3>2 DEF Greeting
    <3>4. StoredNonce(c)' = sessions[r][m.name].nonce
      BY <1>3, <2>3, <2>4, <2>11 DEF StoredNonce
    <3>5. Unshared(m.cookie) /\ m.cookie \notin crossed
      BY <3>1 DEF LiveEntry
    <3>6. m.cookie # NoCookie
      BY <1>1, <3>5, SessionAssumption DEF TypeOK, Unshared
    <3> QED
      BY <3>1, <3>3, <3>4, <3>5, <3>6
  <2>13. Even(c)'
    BY <2>3, <2>4, <2>12 DEF Even
  \* Two connections cannot both have been given an unshared cookie.
  <2>14. ASSUME Live(c)', NEW q \in Pointers, Home(m.cookie, q)
         PROVE  q = p
    BY <1>1, <2>6, <2>12, <2>14, OneHome
  <2>15. ASSUME Live(c)', NEW q \in Pointers,
                \/ /\ wire'[q].kind \in {"Auth", "Request"}
                   /\ wire'[q].cookie = m.cookie
                \/ thread'[q].pc \in Answering /\ thread'[q].own = m.cookie
                \/ thread'[q].pc = "count" /\ thread'[q].cookie = m.cookie
         PROVE  FALSE
    <3>1. Carried(q) /\ thread'[q] = thread[q]
      BY <1>1, <1>3 DEF CookieInv
    <3>2. CASE q = p
      BY <1>4, <1>6, <2>15, <3>1, <3>2, Constants DEF Answering
    <3>3. CASE q # p
      <4>1. wire'[q] = wire[q]
        BY <1>6, <3>3
      <4>2. Home(m.cookie, q)
        BY <2>12, <2>15, <3>1, <4>1 DEF Carried
      <4> QED
        BY <2>14, <2>15, <3>3, <4>2
    <3> QED
      BY <3>2, <3>3
  <2>16. ASSUME NEW q \in Pointers PROVE Ahead(c, q)' /\ Unheard(c, q)'
    <3>1. Unheard(c, q)'
      BY <2>3, <2>4, <2>15, <2>16 DEF Unheard
    <3>2. Ahead(c, q)'
      BY <2>3, <2>4, <2>15, <2>16 DEF Ahead
    <3> QED
      BY <3>1, <3>2
  <2>17. ASSUME NEW d \in Clients \ {c}, Live(c)', Live(d)
         PROVE  client'[c].cookie # client[d].cookie
    <3>1. Unheard(d, p)
      BY <1>1, <1>4 DEF NonceInv
    <3> QED
      BY <1>3, <1>4, <1>8, <2>3, <2>4, <2>5, <2>17, <3>1 DEF Unheard
  <2>18. NonceInv'
    <3>1. \A q \in Pointers : thread'[q] = thread[q]
      BY <1>3
    <3>2. client'[c].waits # "login"
      BY <2>3, <2>4
    <3> QED
      BY <1>1, <1>3, <2>4, <2>7, <2>8, <2>9, <2>13, <2>16, <2>17, <3>1, <3>2,
         OthersTurn
  <2> QED
    BY <2>10, <2>18 DEF IInv
<1> QED
  BY <1>4, <1>7, <1>8

LEMMA ConnectKeeps ==
  ASSUME IInv, NEW c \in Clients, Connect(c)
  PROVE  IInv'
<1>1. TypeOK /\ ConnInv /\ CookieInv /\ NonceInv
  BY DEF IInv
<1>2. PICK p \in Pointers :
        /\ thread[p] = Free /\ Goto(p, Reading)
        /\ Update(c, [Down EXCEPT !.st = "login", !.ssl = p])
  BY DEF Connect
<1>3. /\ client[c] = Down
      /\ UNCHANGED <<sessions, ssl_to_username, cookie_buffer, wire, issued, crossed>>
  BY DEF Connect, maps, history
<1>4. PICK x : x = [Down EXCEPT !.st = "login", !.ssl = p]
  OBVIOUS
<1>5. /\ x \in Program /\ x.st = "login" /\ x.ssl = p /\ x.name = NoName
      /\ x.cookie = NoCookie /\ x.nonce = 0 /\ x.waits = "no"
  BY <1>4, ProgramConnects
<1>6. /\ client' \in [Clients -> Program] /\ client'[c] = x
      /\ \A d \in Clients \ {c} : client'[d] = client[d]
  BY <1>1, <1>2, <1>4, <1>5, Updated DEF TypeOK
<1>7. /\ thread' \in [Pointers -> Activity] /\ thread'[p] = Reading
      /\ \A q \in Pointers \ {p} : thread'[q] = thread[q]
  BY <1>1, <1>2, Gone, Constants DEF TypeOK
<1>8. wire[p] = Quiet /\ \A d \in Clients : client[d].ssl # p
  BY <1>1, <1>2, Constants DEF ConnInv, InTurn, Peers, Checking
<1>9. NoSSL \notin Pointers /\ client[c].ssl = NoSSL
  BY <1>3, DownFields, SessionAssumption
<1>10. TypeOK'
  <2>1. \A d, e \in Clients :
          client'[d].ssl = client'[e].ssl /\ client'[d].ssl # NoSSL => d = e
    BY <1>1, <1>5, <1>6, <1>8 DEF TypeOK
  <2> QED
    BY <1>1, <1>3, <1>6, <1>7, <2>1 DEF TypeOK
<1>11. ConnInv'
  <2>1. ASSUME NEW q \in Pointers PROVE InTurn(q)'
    <3>1. CASE q = p
      BY <1>7, <3>1, Constants DEF InTurn, Checking
    <3>2. CASE q # p
      <4>1. Peers(q)' \subseteq Peers(q)
        BY <1>5, <1>6, <3>2 DEF Peers
      <4> QED
        BY <1>1, <1>3, <1>7, <2>1, <3>2, <4>1 DEF ConnInv, InTurn
    <3> QED
      BY <3>1, <3>2
  <2>2. ASSUME NEW d \in Clients
        PROVE  /\ client'[d].st = "down" => client'[d] = Down
               /\ client'[d].st = "login" => client'[d].cookie = NoCookie
               /\ client'[d].waits = "login" => client'[d].st = "login"
               /\ client'[d].waits = "request" => client'[d].st = "menu"
               /\ Attuned(d)' /\ Named(d)'
    <3>1. CASE d = c
      <4>1. Attuned(c)' /\ Named(c)'
        BY <1>3, <1>5, <1>6, <1>7, <1>8, Constants DEF Attuned, Named
      <4> QED
        BY <1>5, <1>6, <3>1, <4>1
    <3>2. CASE d # c
      <4>1. client'[d] = client[d] /\ RoleOf(d)' = RoleOf(d)
        BY <1>6, <3>2 DEF RoleOf
      <4>2. client[d].ssl # NoSSL => thread'[client[d].ssl] = thread[client[d].ssl]
        BY <1>1, <1>7, <1>8, ProgramFields DEF TypeOK
      <4>3. Attuned(d)' /\ Named(d)'
        <5>1. Attuned(d) /\ Named(d)
          BY <1>1 DEF ConnInv
        <5>2. Attuned(d)'
          BY <1>3, <4>1, <4>2, <5>1 DEF Attuned
        <5>3. Named(d)'
          BY <1>3, <4>1, <4>2, <5>1 DEF Named
        <5> QED
          BY <5>2, <5>3
      <4> QED
        BY <1>1, <4>1, <4>3 DEF ConnInv
    <3> QED
      BY <3>1, <3>2
  <2> QED
    BY <2>1, <2>2 DEF ConnInv
<1>12. CookieInv'
  <2>1. ASSUME NEW q \in Pointers PROVE Carried(q)'
    <3>1. Carried(q)
      BY <1>1 DEF CookieInv
    <3>2. CASE q = p
      <4>1. thread'[q].pc \notin Answering \cup {"authenticate", "count"}
        BY <1>7, <3>2, Constants DEF Answering
      <4>2. wire'[q].kind \notin {"Auth", "Request"}
        BY <1>3, <1>8, <3>2, Constants
      <4> QED
        BY <2>1, <4>1, <4>2, NothingCarried
    <3>3. CASE q # p
      <4>1. Peers(q)' \subseteq Peers(q) /\ thread'[q] = thread[q]
        BY <1>5, <1>6, <1>7, <2>1, <3>3 DEF Peers
      <4> QED
        BY <1>3, <3>1, <4>1 DEF Carried, Own, Home, RoleOf
    <3> QED
      BY <3>2, <3>3
  <2>2. ASSUME NEW d \in Clients, client'[d].cookie # NoCookie
        PROVE  /\ Own(client'[d].cookie, client'[d].name, RoleOf(d))
               /\ client'[d].ssl # NoSSL => Home(client'[d].cookie, client'[d].ssl)
    <3>1. client'[d] = client[d]
      BY <1>5, <1>6, <2>2
    <3> QED
      BY <1>1, <2>2, <3>1 DEF CookieInv
  <2>3. /\ \A k \in DOMAIN issued : issued[k] # {} /\ IsFiniteSet(issued[k])
        /\ \A r \in Roles : \A n \in DOMAIN sessions[r] :
             sessions[r][n].cookie # NoCookie => Own(sessions[r][n].cookie, n, r)
    BY <1>1 DEF CookieInv
  <2> QED
    BY <1>3, <2>1, <2>2, <2>3 DEF CookieInv, Own, Home, RoleOf
<1>13. NonceInv'
  <2>1. Even(c)' /\ Parted(c)' /\ \A q \in Pointers : Ahead(c, q)' /\ Unheard(c, q)'
    BY <1>5, <1>6, NoSession
  <2>2. ~Live(c)' /\ client'[c].waits # "login"
    BY <1>5, <1>6 DEF Live, HoldsStored
  <2>3. \A q \in Pointers : thread'[q] = thread[q] \/ thread'[q] = Reading
    BY <1>7
  <2> QED
    BY <1>1, <1>3, <1>6, <2>1, <2>2, <2>3, OthersTurn
<1> QED
  BY <1>10, <1>11, <1>12, <1>13 DEF IInv

-----------------------------------------------------------------------------
(***************************************************************************)
(* The theorems                                                            *)
(***************************************************************************)

LEMMA InitHolds == Init => IInv
<1> SUFFICES ASSUME Init PROVE IInv
  OBVIOUS
<1>1. /\ sessions = [r \in Roles |-> << >>] /\ cookie_buffer = NoCookie
      /\ thread = [p \in Pointers |-> Free] /\ wire = [p \in Pointers |-> Quiet]
      /\ client = [c \in Clients |-> Down]
      /\ ssl_to_username = [p \in Pointers |-> NoName]
      /\ issued = << >> /\ crossed = {}
  BY DEF Init
<1>2. DOMAIN issued = {} /\ \A r \in Roles : DOMAIN sessions[r] = {}
  BY <1>1
<1>3. \A c \in Clients : client[c].ssl = NoSSL /\ client[c].waits = "no"
                         /\ client[c].cookie = NoCookie /\ client[c].st = "down"
  BY <1>1, DownFields
<1>4. NoSSL \notin Pointers
  BY SessionAssumption
<1>5. TypeOK
  <2>1. DOMAIN sessions = Roles
    BY <1>1
  <2> QED
    BY <1>1, <1>2, <1>3, <2>1, Constants DEF TypeOK
<1>6. ConnInv
  <2>1. \A p \in Pointers : InTurn(p)
    BY <1>1, <1>3, <1>4, Constants DEF InTurn, Checking, Peers
  <2> QED
    BY <1>1, <1>3, <2>1 DEF ConnInv, Attuned, Named
<1>7. CookieInv
  <2>1. \A p \in Pointers : thread[p].pc = "free" /\ wire[p].kind = "none"
    BY <1>1, Constants
  <2>2. \A p \in Pointers : Carried(p)
    BY <2>1 DEF Carried, Answering
  <2> QED
    BY <1>2, <1>3, <2>2 DEF CookieInv
<1>8. NonceInv
  <2>1. \A c \in Clients : ~Live(c)
    BY <1>3 DEF Live, HoldsStored
  <2>2. \A p \in Pointers : wire[p].kind # "Auth"
    BY <1>1, Constants
  <2> QED
    BY <2>1, <2>2 DEF NonceInv, Even, Parted, SoleHolder, Ahead, Unheard, Greeting
<1> QED
  BY <1>5, <1>6, <1>7, <1>8 DEF IInv

LEMMA StutterKeeps ==
  ASSUME IInv, UNCHANGED vars
  PROVE  IInv'
<1>1. UNCHANGED <<sessions, ssl_to_username, cookie_buffer, thread, wire, client,
                  issued, crossed>>
  BY DEF vars, server, maps, history
<1>2. TypeOK'
  BY <1>1 DEF IInv, TypeOK
<1>3. ConnInv'
  BY <1>1 DEF IInv, ConnInv, InTurn, Attuned, Named, Peers, RoleOf
<1>4. CookieInv'
  BY <1>1 DEF IInv, CookieInv, Carried, Own, Home, Peers, RoleOf
<1>5. \A c \in Clients : /\ Live(c)' <=> Live(c)
                         /\ StoredNonce(c)' = StoredNonce(c)
                         /\ RoleOf(c)' = RoleOf(c)
  BY <1>1 DEF Live, HoldsStored, LiveEntry, Unshared, StoredNonce, RoleOf
<1>6. NonceInv'
  <2>1. ASSUME NEW c \in Clients PROVE Even(c)' /\ Parted(c)'
    BY <1>1, <1>5 DEF IInv, NonceInv, Even, Parted
  <2>2. ASSUME NEW c \in Clients, NEW d \in Clients PROVE SoleHolder(c, d)'
    BY <1>1, <1>5 DEF IInv, NonceInv, SoleHolder
  <2>3. ASSUME NEW c \in Clients, NEW p \in Pointers
        PROVE  Ahead(c, p)' /\ Unheard(c, p)'
    BY <1>1, <1>5 DEF IInv, NonceInv, Ahead, Unheard, Peers
  <2>4. ASSUME NEW c \in Clients, NEW p \in Pointers PROVE Greeting(c, p)'
    BY <1>1 DEF IInv, NonceInv, Greeting, LiveEntry, Unshared, Peers, RoleOf
  <2> QED
    BY <2>1, <2>2, <2>3, <2>4 DEF NonceInv
<1> QED
  BY <1>2, <1>3, <1>4, <1>6 DEF IInv

LEMMA StepKeeps == IInv /\ [Next]_vars => IInv'
<1> SUFFICES ASSUME IInv, [Next]_vars PROVE IInv'
  OBVIOUS
<1>1. ASSUME NEW p \in Pointers, ServerStep(p) PROVE IInv'
  BY <1>1, ReadLogInKeeps, GenerateCookieKeeps, AuthenticateKeeps, ReadRequestKeeps,
     ReadLogOutKeeps, FindValidatorKeeps, CompareCookieKeeps, CompareNonceKeeps,
     AnswerKeeps, CountKeeps, LogOutKeeps, ReadGarbledKeeps, ServeThrowsKeeps,
     ReadEndKeeps
  DEF ServerStep
<1>2. ASSUME NEW c \in Clients, ClientStep(c) PROVE IInv'
  BY <1>2, ConnectKeeps, CrashKeeps, ConnectionLostKeeps, SendLogInKeeps,
     SendRequestKeeps, SendLogOutKeeps, SendGarbledKeeps, ChooseNothingKeeps,
     ReceiveLogInKeeps, ReceiveAnswerKeeps, ReceiveLogOutKeeps
  DEF ClientStep
<1>3. CASE UNCHANGED vars
  BY <1>3, StutterKeeps
<1> QED
  BY <1>1, <1>2, <1>3 DEF Next

\* The inductive invariant holds in every state of the session protocol.
THEOREM SessionInvariant == Spec => []IInv
<1> QED
  BY InitHolds, StepKeeps, PTL DEF Spec

\* Maps, threads, messages and programs keep the shapes of the code, and no two
\* programs share a connection.
THEOREM SessionTypes == Spec => []TypeOK
<1>1. IInv => TypeOK
  BY DEF IInv
<1> QED
  BY <1>1, SessionInvariant, PTL

\* A client and the server agree on the nonce between requests, for any number
\* of clients, names, connections and log-ins, whatever crashes, as long as no
\* answer to a message of another session has read or counted this one.
THEOREM NoncesAgree == Spec => []NonceInSync
<1>1. IInv => NonceInSync
  <2> SUFFICES ASSUME IInv, NEW c \in Clients, HoldsStored(c),
                      client[c].waits = "no", Unshared(client[c].cookie),
                      client[c].cookie \notin crossed
               PROVE  sessions[RoleOf(c)][client[c].name].nonce = client[c].nonce
    BY DEF NonceInSync
  <2>1. Live(c)
    BY DEF Live, HoldsStored, LiveEntry
  <2>2. Even(c)
    BY DEF IInv, NonceInv
  <2> QED
    BY <2>1, <2>2 DEF Even, StoredNonce
<1> QED
  BY <1>1, SessionInvariant, PTL

\* Nobody ever holds a cookie that was made only for another name or another
\* kind of account.
THEOREM CookiesAreOwn == Spec => []OwnCookies
<1>1. IInv => OwnCookies
  <2> SUFFICES ASSUME IInv, NEW c \in Clients, client[c].cookie \in DOMAIN issued
               PROVE  \E l \in issued[client[c].cookie] : /\ l.name = client[c].name
                                                          /\ l.role = RoleOf(c)
    BY DEF OwnCookies
  <2>1. client[c].cookie # NoCookie
    BY SessionAssumption DEF IInv, TypeOK
  <2> QED
    BY <2>1 DEF IInv, CookieInv, Own
<1> QED
  BY <1>1, SessionInvariant, PTL

\* What a step leaves in the maps: only a log-in brings a cookie into them.
LEMMA StoredCookies ==
  ASSUME IInv, [Next]_vars, ~\E p \in Pointers : Authenticate(p)
  PROVE  NothingStored
<1>1. TypeOK /\ (Kept => NothingStored)
  BY KeptTyped DEF IInv
<1>2. CASE UNCHANGED sessions
  BY <1>1, <1>2, KeptSame
<1>3. ASSUME NEW p \in Pointers, CompareCookie(p) \/ CompareNonce(p)
      PROVE  NothingStored
  <2>1. PICK s, n : s = thread[p].role /\ n = wire[p].name
    OBVIOUS
  <2>2. s \in Roles /\ n \in Names
    BY <1>3, <2>1, CheckingThread DEF CompareCookie, CompareNonce
  <2>3. sessions' = [sessions EXCEPT ![s] = Put(@, n, At(sessions[s], n))]
    BY <1>3, <2>1 DEF CompareCookie, CompareNonce
  <2> QED
    BY <1>1, <2>2, <2>3, KeptUse
<1>4. ASSUME NEW p \in Pointers, Answer(p)
      PROVE  NothingStored
  <2>1. PICK s, n : s = thread[p].role /\ n = thread[p].name
    OBVIOUS
  <2>2. s \in Roles /\ n \in Names
    BY <1>4, <2>1, AnsweringLine DEF Answer, Answering
  <2>3. sessions' = [sessions EXCEPT ![s] = Put(@, n, At(sessions[s], n))]
    BY <1>4, <2>1 DEF Answer
  <2> QED
    BY <1>1, <2>2, <2>3, KeptUse
<1>5. ASSUME NEW p \in Pointers, Count(p)
      PROVE  NothingStored
  <2>1. PICK s, n, e, f : /\ s = thread[p].role /\ n = thread[p].name
                          /\ e = At(sessions[s], n) /\ f = [e EXCEPT !.nonce = @ + 1]
    OBVIOUS
  <2>2. s \in Roles /\ n \in Names
    BY <1>5, <2>1, AnsweringLine DEF Count, Answering
  <2>3. /\ e \in Entry
        /\ e.cookie # NoCookie => n \in DOMAIN sessions[s] /\ e = sessions[s][n]
    BY <1>1, <2>1, <2>2, EntryRead
  <2>4. f.cookie = e.cookie
    BY <2>1, <2>3 DEF Entry
  <2>5. sessions' = [sessions EXCEPT ![s] = Put(@, n, f)]
    BY <1>5, <2>1 DEF Count
  <2>6. /\ DOMAIN sessions' = Roles
        /\ \A r \in Roles \ {s} : sessions'[r] = sessions[r]
        /\ DOMAIN sessions'[s] = DOMAIN sessions[s] \cup {n}
        /\ sessions'[s][n] = f
        /\ \A m \in DOMAIN sessions[s] \ {n} : sessions'[s][m] = sessions[s][m]
    BY <1>1, <2>2, <2>5, EntryUsed
  <2> QED
    BY <2>3, <2>4, <2>6 DEF NothingStored
<1>6. ASSUME NEW p \in Pointers, LogOut(p)
      PROVE  NothingStored
  <2>1. PICK s, n : s \in Roles /\ sessions' = [sessions EXCEPT ![s] = Erase(@, n)]
    BY <1>1, <1>6, ActivityFields DEF LogOut, TypeOK
  <2> QED
    BY <1>1, <2>1, KeptErase
<1>7. ASSUME NEW p \in Pointers, ReadGarbled(p) \/ ServeThrows(p)
      PROVE  NothingStored
  <2>1. PICK n : sessions' = [sessions EXCEPT !["user"] = Erase(@, n)]
    BY <1>7 DEF ReadGarbled, ServeThrows, logoutUserBySSL
  <2> QED
    BY <1>1, <2>1, KeptErase, Constants
<1>8. ASSUME NEW p \in Pointers,
             \/ ReadLogIn(p) \/ GenerateCookie(p) \/ ReadRequest(p)
             \/ ReadLogOut(p) \/ FindValidator(p) \/ ReadEnd(p)
      PROVE  UNCHANGED sessions
  BY <1>8 DEF ReadLogIn, GenerateCookie, ReadRequest, ReadLogOut, FindValidator,
              ReadEnd, maps
<1>9. ASSUME NEW p \in Pointers, ServerStep(p)
      PROVE  NothingStored
  BY <1>2, <1>3, <1>4, <1>5, <1>6, <1>7, <1>8, <1>9 DEF ServerStep
<1>10. ASSUME NEW c \in Clients, ClientStep(c)
       PROVE  UNCHANGED sessions
  BY <1>10 DEF ClientStep, Connect, Crash, ConnectionLost, SendLogIn, SendRequest,
               SendLogOut, SendGarbled, ChooseNothing, ReceiveLogIn, ReceiveAnswer,
               ReceiveLogOut, server, maps
<1>11. CASE UNCHANGED vars
  BY <1>2, <1>11 DEF vars, server, maps
<1> QED
  BY <1>2, <1>9, <1>10, <1>11 DEF Next

\* The cookie of a session that was overwritten or logged out never comes back
\* into the maps, unless two log-ins were given it.
THEOREM DeadCookies == Spec => DeadCookiesStayDead
<1> DEFINE A == \A k \in DOMAIN issued, r \in Roles :
                  /\ \E n \in DOMAIN sessions'[r] : sessions'[r][n].cookie = k
                  /\ Cardinality(issued'[k]) = 1
                  => \E n \in DOMAIN sessions[r] : sessions[r][n].cookie = k
<1>1. IInv /\ [Next]_vars => A
  <2> SUFFICES ASSUME IInv, [Next]_vars, NEW k \in DOMAIN issued, NEW r \in Roles,
                      NEW n \in DOMAIN sessions'[r], sessions'[r][n].cookie = k,
                      Cardinality(issued'[k]) = 1
               PROVE  \E i \in DOMAIN sessions[r] : sessions[r][i].cookie = k
    OBVIOUS
  <2>1. CASE \E p \in Pointers : Authenticate(p)
    <3>1. PICK p \in Pointers : Authenticate(p)
      BY <2>1
    <3>2. PICK s, m, b, l :
            /\ s = thread[p].role /\ m = thread[p].name /\ b = cookie_buffer
            /\ l = [name |-> m, role |-> s, ssl |-> p]
      OBVIOUS
    <3>3. /\ thread[p].pc = "authenticate" /\ s \in Roles
          /\ sessions' = [sessions EXCEPT ![s] =
                            Put(@, m, [cookie |-> b, nonce |-> 0])]
          /\ issued' = Put(issued, b, LogInsWith(b) \cup {l})
      BY <3>1, <3>2, ActivityFields DEF Authenticate, IInv, TypeOK
    <3>4. CASE r = s /\ n = m
      <4>1. k = b
        BY <3>3, <3>4 DEF IInv, TypeOK, Put
      <4>2. issued'[k] = issued[k] \cup {l} /\ l.ssl = p
        BY <3>2, <3>3, <4>1 DEF Put, LogInsWith
      <4>3. l \notin issued[k]
        BY <3>2, <3>3, <4>1, <4>2 DEF IInv, CookieInv, Carried
      <4>4. IsFiniteSet(issued[k]) /\ issued[k] # {}
        BY DEF IInv, CookieInv
      <4> QED
        BY <4>2, <4>3, <4>4, SharedCookie
    <3>5. CASE ~(r = s /\ n = m)
      BY <3>3, <3>5 DEF IInv, TypeOK, Put
    <3> QED
      BY <3>4, <3>5
  <2>2. CASE ~\E p \in Pointers : Authenticate(p)
    <3>1. k # NoCookie
      BY SessionAssumption DEF IInv, TypeOK
    <3> QED
      BY <2>2, <3>1, StoredCookies DEF NothingStored
  <2> QED
    BY <2>1, <2>2
<1>2. Spec => [][A]_vars
  BY <1>1, SessionInvariant, PTL DEF Spec
<1> QED
  BY <1>2 DEF DeadCookiesStayDead
=============================================================================
