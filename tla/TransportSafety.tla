--------------------------- MODULE TransportSafety ---------------------------
(***************************************************************************)
(* What connections guarantee: which answer a program gets, what the       *)
(* server reads, and that nobody is kept waiting, as long as messages fit  *)
(* a read; and what exactly goes wrong when they do not.                   *)
(***************************************************************************)
EXTENDS Transport

\* What a handler was called with.
Handled ==
  {m \in [action : Served, fields : Seq(Text)] :
     Len(m.fields) > 0 /\ Colon \notin ToSet(m.fields[1])}

\* Answers, all of which the program can read back; none has a double.
Reply ==
  {m \in Message :
     /\ Layout[m.action].doubles = {}
     /\ Separable(m)
     /\ Layout[m.action].empty \/ m.fields[Len(m.fields)] # << >>}

Threads ==
  [pc : {"none", "read", "refuse", "returned"}]
    \cup [pc : {"serve"}, m : Handled, of : Message]

Programs == [st : {"down", "connecting", "idle", "wait", "exit"}, in : BOOLEAN,
             sent : Nat, got : Text]

\* Connections, threads and programs have the states of the code, and a program
\* sends its log-out last.
TypeOK ==
  /\ up \in BOOLEAN
  /\ backlog \in Seq(Clients) /\ acceptor \in Clients \cup {Nobody}
  /\ since \in [Addresses -> 0 .. Second]
  /\ link \in [Clients -> {"none", "queued", "open", "left", "reset", "shut"}]
  /\ thread \in [Clients -> Threads]
  /\ toServer \in [Clients -> Seq([m : Message, text : Text])]
  /\ toClient \in [Clients -> Seq([text : Text])]
  /\ client \in [Clients -> Programs]
  /\ replies \in [Clients -> Seq(Reply)]
  /\ marks \in [Clients -> SUBSET {"split", "interrupted"}]
  /\ \A c \in Clients : client[c].sent <= MaxSent[c] + 1

\* The server handles what the program sent, field by field, whatever the last
\* field contains: each read is one message and deserialize undoes serialize,
\* except that of a price six significant digits arrive (SellTicketMessage.cpp:40),
\* until a message longer than a read was sent (TLSServer.cpp:222).
HandledAsSent ==
  \A c \in Clients :
    thread[c].pc = "serve" /\ "split" \notin marks[c] /\ Separable(thread[c].of)
      => thread[c].m = Rounded(thread[c].of)

\* The n-th wait of a program ends with the n-th answer of the server, all of it
\* and nothing else, over any number of reads; so a ticket that saveTicket gets
\* without isAuthenticationCorrect is the ticket just bought (Client.cpp:744).
AnswersMatch ==
  \A c \in Clients :
    client[c].st = "idle" /\ client[c].sent > 0 /\ "split" \notin marks[c]
      => deserialize(client[c].got) = replies[c][client[c].sent]

\* Nothing a program does to its connection, at any time, ends the server or
\* leaves a thread returned with its connection open, except that a message
\* longer than a read, or for the first also a log-out during a wait, puts a
\* second answer on the connection (TLSServer.cpp:100 and 237).
ServerOutlivesPrograms ==
  /\ up \/ \E c \in Clients : marks[c] # {}
  /\ \A c \in Clients : thread[c].pc \in {"refuse", "returned"} => "split" \in marks[c]

-----------------------------------------------------------------------------
(***************************************************************************)
(* The inductive invariant.                                                *)
(***************************************************************************)

\* A connection that is queued or open has a program at its other end, and a
\* program without one has nothing of an earlier connection.
EndsAgree(c) ==
  /\ client[c].st = "down" => client[c] = Down
  /\ client[c].st = "connecting" =>
       /\ client[c] = [Down EXCEPT !.st = "connecting"]
       /\ thread[c] = NoThread /\ toServer[c] = << >> /\ marks[c] = {}
  /\ client[c].st \in {"down", "connecting"} =>
       toClient[c] = << >> /\ replies[c] = << >>
  /\ client[c].st \in {"idle", "wait"} =>
       client[c].sent <= MaxSent[c] /\ "interrupted" \notin marks[c]
  /\ link[c] = "queued" => client[c].st = "connecting"
  /\ link[c] = "open" => client[c].st \in {"idle", "wait", "exit"}

\* Before a message longer than a read, a record is a message.
WholeMessages(c) ==
  "split" \notin marks[c] =>
    /\ \A i \in DOMAIN toServer[c] : LET r == toServer[c][i] IN
         r.text = serialize(r.m) /\ Len(r.text) <= Buffer
    /\ thread[c].pc = "serve" => thread[c].m = deserialize(serialize(thread[c].of))
    /\ thread[c].pc \notin {"refuse", "returned"}

Quiet(c) == toServer[c] = << >> /\ thread[c].pc # "serve"

\* A message, the call for it and the answer to it are never there together; and
\* a connection that was reset brings no further message.
OneInFlight(c) ==
  marks[c] = {} =>
    /\ Len(toServer[c]) <= 1 /\ Len(toClient[c]) <= 1
    /\ thread[c].pc = "serve" => toServer[c] = << >>
    /\ toClient[c] # << >> \/ link[c] = "reset" \/ client[c].st = "idle" => Quiet(c)

\* A program in its menu has read one answer to each message.  One that waits has
\* no answer yet, or an answer of which it read the first part, in full reads.
InStep(c) ==
  "split" \notin marks[c] =>
    /\ client[c].st = "idle" =>
         /\ toClient[c] = << >>
         /\ Len(replies[c]) = client[c].sent
         /\ client[c].sent > 0
              => client[c].got = serialize(replies[c][client[c].sent])
    /\ client[c].st = "wait" =>
         \/ /\ toClient[c] = << >> /\ client[c].got = << >>
            /\ Len(replies[c]) + 1 = client[c].sent
         \/ /\ Quiet(c)
            /\ Len(replies[c]) = client[c].sent /\ client[c].sent > 0
            /\ client[c].got \o (IF toClient[c] = << >> THEN << >>
                                 ELSE toClient[c][1].text)
                 = serialize(replies[c][client[c].sent])

ConnInv(c) == EndsAgree(c) /\ WholeMessages(c) /\ OneInFlight(c) /\ InStep(c)

\* The inductive invariant: types, the connections one by one, and a server that
\* ended only after an exception (TLSServer.cpp:222, TLSClient.cpp:161).
IInv ==
  /\ TypeOK
  /\ \A c \in Clients : ConnInv(c)
  /\ up \/ \E c \in Clients : marks[c] # {}

-----------------------------------------------------------------------------

\* The whole answer has been read, in full reads: receiveData asks for more.
AwaitsMore(c) ==
  /\ client[c].got # << >> /\ Len(client[c].got) % Buffer = 0
  /\ toClient[c] = << >>

\* Every wait for an answer ends, but for an answer of exactly a number of reads
\* (TLSClient.cpp:161) and on a connection that a long message desynchronised.
WaitsEnd ==
  \A c \in Clients :
    Waits(c) ~> ~Waits(c) \/ AwaitsMore(c) \/ "split" \in marks[c]

\* A program that connects is let in or turned away, whatever the others do, in
\* an accept loop that waits for one handshake at a time (TLSServer.cpp:199).
ConnectionsDecided ==
  \A c \in Clients : client[c].st = "connecting" ~> client[c].st # "connecting"

\* An address whose programs keep trying is let in again and again: attempts
\* that are refused do not prolong the second (Firewall.cpp:36).
RetriesGetThrough ==
  \A ip \in Allowed \cap Addresses :
    []<>(\E c \in Clients : Address[c] = ip /\ link[c] = "queued")
      => []<>(\E c \in Clients : Address[c] = ip /\ acceptor = c)

\* When a program has gone, the server frees its side of the connection.
ConnectionsReleased ==
  \A c \in Clients :
    link[c] \in {"left", "reset"} ~> link[c] = "none" \/ "split" \in marks[c]
=============================================================================
