---------------------------- MODULE MCTransport ----------------------------
(***************************************************************************)
(* A small instance of Transport for TLC: reads of 12 words, messages and  *)
(* answers shorter than a read, exactly one, and longer.                   *)
(***************************************************************************)
EXTENDS TransportSafety, TLC

CONSTANTS Sender, Newcomer

Vocabulary ==
  ActionTypes \cup
  {":", "7", "7.0000001", "1000000001", "ana", "COOKIE_1", "pass", "salt", "web", "summit", "2",
   "code", "hash", "sold", "row", "done"}

User == <<"ana">>
Cookie1 == <<"COOKIE_1">>
Nonce1 == <<"1000000001">>

Sent(action, fields) ==
  [action |-> action, fields |-> <<User, Cookie1, Nonce1>> \o fields]

\* One program sends: it signs in with a separator in its password, and then any
\* of the messages of Client and Validator.  A purchase fits a read, or, of an
\* event whose name was typed at length, does not, and what is left may have a
\* separator; a sale fits, exactly, and its price has more digits than are
\* written; codes and hashes are whatever was typed.
Menus ==
  [c \in Clients |-> IF c = Newcomer THEN {} ELSE
     { [action |-> "LOG_IN", fields |-> <<User, <<"pass", ":", "salt">> >>],
       Sent("GET_AVAILABLE_TICKETS", << <<"web">> >>),
       Sent("BUY_TICKET", << <<"7">>, <<"web">> >>),
       Sent("BUY_TICKET", << <<"7">>, <<"web", "summit", "2">> >>),
       Sent("BUY_TICKET", << <<"7">>, <<"web", "summit", "code", ":">> >>),
       Sent("SELL_TICKET", << <<"7.0000001">>, <<"code", ":">> >>),
       Sent("CHECK_INTEGRITY", << <<"code", ":">>, <<"hash">> >>),
       Sent("VALIDATE_TICKET", << <<"code", ":">> >>) }]

Leaving == Sent("LOG_OUT", << >>)

\* operator<< of a double; the other numbers are shorter.
Digits == [n \in {"7", "7.0000001", "1000000001"} |->
             IF n = "7.0000001" THEN "7" ELSE n]

\* With its factors an answer to a purchase is shorter than a read, a read, or
\* longer than a read.
Lines ==
  [action \in Served |->
     IF action = "BUY_TICKET"
       THEN { <<"sold">>, <<"row", ":", "row", "row">>,
              <<"row", ":", "row", "row", "row">> }
       ELSE { <<"done">> }]

\* The other program only comes and goes.
SentBy == [c \in Clients |-> IF c = Newcomer THEN 0 ELSE 2]

SameHost == [c \in Clients |-> "127.0.0.1"]
=============================================================================
