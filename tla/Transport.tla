----------------------------- MODULE Transport -----------------------------
(***************************************************************************)
(* Connections between the programs and the server, below the sessions:    *)
(* common/src/Communication (TLSServer, Firewall, TLSClient) and the       *)
(* exchanges of Client.cpp and Validator.cpp.                              *)
(*                                                                         *)
(* One SSL_write makes one record, and one SSL_read returns what is left   *)
(* of the oldest record, at most Buffer words of it.  The server takes     *)
(* each read for a message.  A client reads until a read is short.         *)
(*                                                                         *)
(* Closing a socket and what TCP does after it is the environment: a write *)
(* to a closed end succeeds once and resets the connection, and a write    *)
(* after the reset raises SIGPIPE, which nothing in src handles.           *)
(*                                                                         *)
(* What a handler answers is left open, as is what a program does when its *)
(* connection is lost (Sessions): here it ends.                            *)
(***************************************************************************)
EXTENDS Messages

CONSTANTS Clients,         \* programs; each has one connection at a time
          Address,         \* client -> its IP address
          Allowed,         \* addresses isAllowed lets through
          Requests,        \* client -> messages it can send, signing in included
          Texts,           \* action -> texts of the answers to it
          Cookie, Nonce,   \* factors of a session, which Sessions is about
          LogOut,          \* the message logout sends
          Buffer,          \* words in a read; 1024 bytes in the code
          TicksPerSecond,  \* resolution of the clock
          MaxSent,         \* bound: client -> messages it sends before a log-out
          Nobody

ASSUME TransportAssumption ==
  /\ Buffer \in Nat \ {0} /\ TicksPerSecond \in Nat \ {0} /\ MaxSent \in [Clients -> Nat]
  /\ Nobody \notin Clients

\* The actions handleAction has an answer for; it answers "" to all others,
\* and sendData of "" only logs.
Served == {"SIGN_UP", "LOG_IN", "LOG_IN_VALIDATOR", "GET_AVAILABLE_TICKETS",
           "BUY_TICKET", "SELL_TICKET", "VALIDATE_TICKET", "CHECK_INTEGRITY",
           "LOG_OUT"}

\* The programs send messages of their classes, cookies are alphanumeric, and no
\* handler answers without a text.
ASSUME MessagesAssumption ==
  /\ Requests \in [Clients -> SUBSET Message]
  /\ LogOut \in Message
  /\ Cookie \in Text /\ Colon \notin ToSet(Cookie)
  /\ \E n \in Numbers : Nonce = <<n>>
  /\ \A action \in Served : Texts[action] \subseteq Text \ {<< >>}

VARIABLES up,         \* the server process runs
          backlog,    \* connections accept has not returned, oldest first
          acceptor,   \* the client SSL_accept waits for, or Nobody
          since,      \* address -> ticks since client_last_request_, capped
          link,       \* client -> the state of its connection
          thread,     \* client -> what handleClient does for it
          toServer,   \* client -> records written by the program
          toClient,   \* client -> records written by the server
          client,     \* client -> the program
          replies,    \* history: client -> answers written on its connection
          marks       \* history: client -> "split" if it sent a message longer
                      \* than a read, "interrupted" if a log-out during a wait

accepting == <<backlog, acceptor, since>>
wires == <<toServer, toClient>>
history == <<replies, marks>>
vars == <<up, accepting, link, thread, wires, client, history>>

Addresses == {Address[c] : c \in Clients}

\* rate_limit_seconds_ in ticks, which is also where `since' stops counting.
Second == TicksPerSecond

\* in: authenticate has returned, and the program is in its menu with the
\* handler of SIGINT set.  got is what receiveData has read since the last
\* message was sent.
Down == [st |-> "down", in |-> FALSE, sent |-> 0, got |-> << >>]
NoThread == [pc |-> "none"]
Reading == [pc |-> "read"]

Init ==
  /\ up = TRUE
  /\ backlog = << >>
  /\ acceptor = Nobody
  /\ since = [ip \in Addresses |-> Second]
  /\ link = [c \in Clients |-> "none"]
  /\ thread = [c \in Clients |-> NoThread]
  /\ toServer = [c \in Clients |-> << >>]
  /\ toClient = [c \in Clients |-> << >>]
  /\ client = [c \in Clients |-> Down]
  /\ replies = [c \in Clients |-> << >>]
  /\ marks = [c \in Clients |-> {}]

Goto(c, record) == thread' = [thread EXCEPT ![c] = record]

-----------------------------------------------------------------------------
(***************************************************************************)
(* The accept loop, TLSServer::run                                         *)
(***************************************************************************)

\* duration_cast truncates to whole seconds.
isRateLimited(ip) == since[ip] \div TicksPerSecond < 1

\* The server's end of a connection is closed.
Closed(state) == IF state \in {"none", "left", "reset"} THEN "none" ELSE "shut"

\* Slip, not part of Next: a refused connection starts the second again.
AcceptExtending ==
  /\ up /\ acceptor = Nobody /\ backlog # << >>
  /\ LET c == Head(backlog)
         ip == Address[c]
     IN /\ since' = [since EXCEPT ![ip] = 0]
        /\ IF ip \notin Allowed \/ isRateLimited(ip)
             THEN /\ link' = [link EXCEPT ![c] = Closed(@)]
                  /\ UNCHANGED acceptor
             ELSE acceptor' = c /\ UNCHANGED link
  /\ backlog' = Tail(backlog)
  /\ UNCHANGED <<up, thread, wires, client, history>>

\* accept, isAllowed and isRateLimited.  A connection that is refused is closed
\* without a word and does not count for the next.
Accept ==
  /\ up /\ acceptor = Nobody /\ backlog # << >>
  /\ LET c == Head(backlog)
         ip == Address[c]
     IN IF ip \notin Allowed \/ isRateLimited(ip)
          THEN /\ link' = [link EXCEPT ![c] = Closed(@)]
               /\ UNCHANGED <<acceptor, since>>
          ELSE /\ acceptor' = c
               /\ since' = [since EXCEPT ![ip] = 0]
               /\ UNCHANGED link
  /\ backlog' = Tail(backlog)
  /\ UNCHANGED <<up, thread, wires, client, history>>

\* Slip, not part of Next: after a failed handshake the loop does not continue.
HandshakeStuck ==
  /\ acceptor # Nobody
  /\ link[acceptor] = "queued"
  /\ link' = [link EXCEPT ![acceptor] = "open"]
  /\ Goto(acceptor, Reading)
  /\ client' = [client EXCEPT ![acceptor].st = "idle"]
  /\ acceptor' = Nobody
  /\ UNCHANGED <<up, backlog, since, wires, history>>

\* SSL_accept, for which the loop waits: it fails when the program is gone.
Handshake ==
  /\ acceptor # Nobody
  /\ IF link[acceptor] = "queued"
       THEN /\ link' = [link EXCEPT ![acceptor] = "open"]
            /\ Goto(acceptor, Reading)
            /\ client' = [client EXCEPT ![acceptor].st = "idle"]
       ELSE /\ link' = [link EXCEPT ![acceptor] = "none"]
            /\ UNCHANGED <<thread, client>>
  /\ acceptor' = Nobody
  /\ UNCHANGED <<up, backlog, since, wires, history>>

Tick ==
  /\ \E ip \in Addresses : since[ip] < Second
  /\ since' = [ip \in Addresses |->
                IF since[ip] < Second THEN since[ip] + 1 ELSE Second]
  /\ UNCHANGED <<up, backlog, acceptor, link, thread, wires, client, history>>

-----------------------------------------------------------------------------
(***************************************************************************)
(* The thread of a connection, TLSServer::handleClient                     *)
(***************************************************************************)

\* The next read of a queue of records, and the queue after it.
Chunk(records) == SubSeq(Head(records).text, 1,
                         IF Len(Head(records).text) < Buffer
                           THEN Len(Head(records).text) ELSE Buffer)

AfterChunk(records) ==
  LET rest == SubSeq(Head(records).text, Buffer + 1, Len(Head(records).text))
  IN IF rest = << >> THEN Tail(records)
     ELSE <<[Head(records) EXCEPT !.text = rest]>> \o Tail(records)

\* SSL_free and close.
Close(c) ==
  /\ Goto(c, NoThread)
  /\ link' = [link EXCEPT ![c] = Closed(@)]
  /\ toServer' = [toServer EXCEPT ![c] = << >>]

\* What messageHandler does with a read: it throws, calls the handler of the
\* action, or has nothing to say.
Dispatch(c, text, of) ==
  LET action == Head(Action(text)) IN
    \/ /\ ~IsNumber(Action(text))
       /\ Close(c)
    \/ /\ IsNumber(Action(text)) /\ action \in Served
       /\ IF deserialize(text) = Thrown
            THEN Close(c)
            ELSE /\ Goto(c, [pc |-> "serve", m |-> deserialize(text), of |-> of])
                 /\ toServer' = [toServer EXCEPT ![c] = AfterChunk(@)]
                 /\ UNCHANGED link
    \/ /\ IsNumber(Action(text)) /\ action \notin Served
       /\ toServer' = [toServer EXCEPT ![c] = AfterChunk(@)]
       /\ UNCHANGED <<link, thread>>

\* One SSL_read, taken for a message; without a colon it is not one.
ReadMessage(c) ==
  /\ thread[c] = Reading
  /\ toServer[c] # << >>
  /\ LET text == Chunk(toServer[c]) IN
       IF Colons(text) = {}
         THEN /\ Goto(c, [pc |-> "refuse"])
              /\ toServer' = [toServer EXCEPT ![c] = AfterChunk(@)]
              /\ UNCHANGED link
         ELSE Dispatch(c, text, Head(toServer[c]).m)
  /\ UNCHANGED <<up, accepting, toClient, client, history>>

\* SSL_write of an answer.
Write(c, m) ==
  /\ IF link[c] = "open"
       THEN /\ toClient' = [toClient EXCEPT ![c] =
                              Append(@, [text |-> serialize(m)])]
            /\ replies' = [replies EXCEPT ![c] = Append(@, m)]
       ELSE UNCHANGED <<toClient, replies>>
  /\ link' = [link EXCEPT ![c] = IF @ = "left" THEN "reset" ELSE @]

Reject == [action |-> "REJECT", fields |-> << << >> >>]

SignIns == {"SIGN_UP", "LOG_IN", "LOG_IN_VALIDATOR"}

\* What the handlers answer to a message: with the factors of a session, or
\* that there is none.
Answers(m) ==
  {Reject} \cup
  IF m.action = "LOG_OUT"
    THEN {[action |-> "ACCEPT", fields |-> <<text>>] : text \in Texts[m.action]}
    ELSE {[action |-> action, fields |-> <<m.fields[1], Cookie, Nonce, text>>] :
            action \in {"ACCEPT_AUTH"} \cup
                        (IF m.action \in SignIns THEN {} ELSE {"REJECT_AUTH"}),
            text \in Texts[m.action]}

\* Slip, not part of Next: a message that is refused gets no answer.
ServeSilently(c) ==
  /\ thread[c].pc = "serve"
  /\ \E m \in Answers(thread[c].m) :
       IF m = Reject THEN UNCHANGED <<toClient, replies, link>> ELSE Write(c, m)
  /\ Goto(c, Reading)
  /\ UNCHANGED <<up, accepting, toServer, client, marks>>

Serve(c) ==
  /\ thread[c].pc = "serve"
  /\ \E m \in Answers(thread[c].m) : Write(c, m)
  /\ Goto(c, Reading)
  /\ UNCHANGED <<up, accepting, toServer, client, marks>>

\* The ticket of a sale is parsed by the service, where std::stoi and std::stod
\* may throw what the handler does not catch.
ServeThrows(c) ==
  /\ thread[c].pc = "serve" /\ thread[c].m.action = "SELL_TICKET"
  /\ Close(c)
  /\ UNCHANGED <<up, accepting, toClient, client, history>>

\* "Invalid message format.": the thread returns, and the connection stays.
Refuse(c) ==
  /\ thread[c].pc = "refuse"
  /\ Write(c, Reject)
  /\ Goto(c, [pc |-> "returned"])
  /\ UNCHANGED <<up, accepting, toServer, client, marks>>

\* Slip, not part of Next: the thread returns without a clean-up here too.
ReadEndReturning(c) ==
  /\ thread[c] = Reading
  /\ \/ link[c] = "left" /\ toServer[c] = << >>
     \/ link[c] = "reset"
  /\ Goto(c, [pc |-> "returned"])
  /\ toServer' = [toServer EXCEPT ![c] = << >>]
  /\ UNCHANGED <<up, accepting, link, toClient, client, history>>

\* SSL_read returns 0 or less.  After a reset, what was not read may be gone.
ReadEnd(c) ==
  /\ thread[c] = Reading
  /\ \/ link[c] = "left" /\ toServer[c] = << >>
     \/ link[c] = "reset"
  /\ Close(c)
  /\ UNCHANGED <<up, accepting, toClient, client, history>>

\* An answer is written to a connection that was reset: SIGPIPE ends the
\* process, and with it every connection.
BrokenPipe(c) ==
  /\ thread[c].pc \in {"serve", "refuse"}
  /\ link[c] = "reset"
  /\ up' = FALSE
  /\ backlog' = << >> /\ acceptor' = Nobody
  /\ thread' = [d \in Clients |-> NoThread]
  /\ link' = [d \in Clients |-> Closed(link[d])]
  /\ toServer' = [d \in Clients |-> << >>]
  /\ UNCHANGED <<since, toClient, client, history>>

ServerStep(c) ==
  \/ ReadMessage(c) \/ Serve(c) \/ ServeThrows(c) \/ Refuse(c)
  \/ ReadEnd(c) \/ BrokenPipe(c)

\* The server is started again, with an empty client_last_request_.
StartServer ==
  /\ ~up
  /\ up' = TRUE
  /\ since' = [ip \in Addresses |-> Second]
  /\ UNCHANGED <<backlog, acceptor, link, thread, wires, client, history>>

-----------------------------------------------------------------------------
(***************************************************************************)
(* A program                                                               *)
(***************************************************************************)

Update(c, record) == client' = [client EXCEPT ![c] = record]

\* The program ends and its end of the connection closes; an answer left unread
\* makes that a reset.
Leave(c) ==
  /\ Update(c, Down)
  /\ link' = [link EXCEPT ![c] =
       CASE @ = "shut" -> "none"
         [] @ = "open" /\ toClient[c] # << >> -> "reset"
         [] @ \in {"open", "queued"} -> "left"
         [] OTHER -> @]
  /\ toClient' = [toClient EXCEPT ![c] = << >>]
  /\ replies' = [replies EXCEPT ![c] = << >>]

\* connectToServer.  A connection that a returned thread left behind does not
\* stand in the way of another.
Launch(c) ==
  /\ up
  /\ client[c] = Down
  /\ link[c] = "none" \/ thread[c].pc = "returned"
  /\ Update(c, [Down EXCEPT !.st = "connecting"])
  /\ link' = [link EXCEPT ![c] = "queued"]
  /\ backlog' = Append(backlog, c)
  /\ thread' = [thread EXCEPT ![c] = NoThread]
  /\ toServer' = [toServer EXCEPT ![c] = << >>]
  /\ marks' = [marks EXCEPT ![c] = {}]
  /\ UNCHANGED <<up, acceptor, since, toClient, replies>>

\* The program's SSL_write.
Send(c, m, mark) ==
  /\ toServer' = [toServer EXCEPT ![c] =
                    Append(@, [m |-> m, text |-> serialize(m)])]
  /\ marks' = [marks EXCEPT ![c] = @ \cup mark \cup
                 (IF Len(serialize(m)) > Buffer THEN {"split"} ELSE {})]

\* sendData of authenticate, and then of the menu.
SendData(c, m) ==
  /\ client[c].st = "idle" /\ link[c] = "open"
  /\ m.action \in SignIns <=> ~client[c].in
  /\ client[c].sent < MaxSent[c]
  /\ Send(c, m, {})
  /\ Update(c, [client[c] EXCEPT !.st = "wait", !.sent = @ + 1, !.got = << >>])
  /\ UNCHANGED <<up, accepting, link, thread, toClient, replies>>

\* Slip, not part of Next: logout goes back to the menu.
SendLogOutStaying(c) ==
  /\ client[c].in /\ client[c].st \in {"idle", "wait"} /\ link[c] = "open"
  /\ Send(c, LogOut, IF client[c].st = "wait" THEN {"interrupted"} ELSE {})
  /\ Update(c, [client[c] EXCEPT !.st = "wait", !.sent = @ + 1, !.got = << >>])
  /\ UNCHANGED <<up, accepting, link, thread, toClient, replies>>

\* logout, from the menu or from signalHandler during a wait.
SendLogOut(c) ==
  /\ client[c].in /\ client[c].st \in {"idle", "wait"} /\ link[c] = "open"
  /\ Send(c, LogOut, IF client[c].st = "wait" THEN {"interrupted"} ELSE {})
  /\ Update(c, [client[c] EXCEPT !.st = "exit", !.sent = @ + 1, !.got = << >>])
  /\ UNCHANGED <<up, accepting, link, thread, toClient, replies>>

Waits(c) == client[c].st \in {"wait", "exit"}

\* Slip, not part of Next: an answer is whatever the first read returns.
ReceiveDataOnce(c) ==
  /\ Waits(c)
  /\ toClient[c] # << >>
  /\ LET got == Chunk(toClient[c])
     IN IF client[c].st = "wait"
          THEN /\ Update(c, [client[c] EXCEPT
                     !.got = got, !.st = "idle",
                     !.in = @ \/ Head(got) = "ACCEPT_AUTH"])
               /\ toClient' = [toClient EXCEPT ![c] = AfterChunk(@)]
               /\ UNCHANGED <<link, replies>>
          ELSE Leave(c)
  /\ UNCHANGED <<up, accepting, thread, toServer, marks>>

\* One round of receiveData: a full read asks for another, a short one ends the
\* message; logout exits with whatever it read.
ReceiveData(c) ==
  /\ Waits(c)
  /\ toClient[c] # << >>
  /\ LET text == Chunk(toClient[c])
         got  == client[c].got \o text
         more == Len(text) = Buffer
     IN IF more \/ client[c].st = "wait"
          THEN /\ Update(c, [client[c] EXCEPT
                     !.got = got,
                     !.st = IF more THEN @ ELSE "idle",
                     !.in = @ \/ (~more /\ Head(got) = "ACCEPT_AUTH")])
               /\ toClient' = [toClient EXCEPT ![c] = AfterChunk(@)]
               /\ UNCHANGED <<link, replies>>
          ELSE Leave(c)
  /\ UNCHANGED <<up, accepting, thread, toServer, marks>>

\* The server's end is closed: SSL_connect, SSL_read or SSL_write fails.
ConnectionLost(c) ==
  /\ link[c] = "shut" /\ toClient[c] = << >>
  /\ Leave(c)
  /\ UNCHANGED <<up, accepting, thread, toServer, marks>>

\* The program is killed.
Crash(c) ==
  /\ client[c] # Down
  /\ Leave(c)
  /\ UNCHANGED <<up, accepting, thread, toServer, marks>>

ProgramStep(c) ==
  \/ Launch(c) \/ SendLogOut(c) \/ ReceiveData(c) \/ ConnectionLost(c) \/ Crash(c)
  \/ \E m \in Requests[c] : SendData(c, m)

Next ==
  \/ Accept \/ Handshake \/ Tick \/ StartServer
  \/ \E c \in Clients : ServerStep(c) \/ ProgramStep(c)

Spec == Init /\ [][Next]_vars

\* The accept loop and the threads run, time passes, a program connects to the
\* end and reads what arrives.
FairSpec ==
  /\ Spec
  /\ WF_vars(Accept) /\ WF_vars(Handshake) /\ WF_vars(Tick)
  /\ \A c \in Clients : /\ WF_vars(ServerStep(c))
                        /\ WF_vars(ReceiveData(c)) /\ WF_vars(ConnectionLost(c))
=============================================================================
