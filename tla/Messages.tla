------------------------------ MODULE Messages ------------------------------
(***************************************************************************)
(* The messages of common/src/Message: how each class is written and read. *)
(*                                                                         *)
(* A text is a sequence of words.  A word is ":", the number of an         *)
(* ActionType (named here as in ActionType.h), another number, or any      *)
(* piece of text without a colon; a long value is several words.  All      *)
(* classes write "action:field:field:..." and differ in what they read     *)
(* back, which is their layout.                                            *)
(***************************************************************************)
EXTENDS Naturals, FiniteSets, SequencesExt

CONSTANTS Words,     \* what texts are made of
          Numbers,   \* words that std::stoi, stol and stod read as a number
          SixDigits  \* number -> what operator<< writes of it when it is a double

Colon == ":"

ActionTypes == {"SIGN_UP", "LOG_IN", "LOG_IN_VALIDATOR", "TICKET_SELL",
                "GET_AVAILABLE_TICKETS", "BUY_TICKET", "ACCEPT", "REJECT",
                "ACCEPT_AUTH", "REJECT_AUTH", "VALIDATE_TICKET",
                "CHECK_INTEGRITY", "LOG_OUT", "SELL_TICKET", "UNKNOWN"}

ASSUME VocabularyAssumption ==
  {Colon} \cup ActionTypes \cup Numbers \subseteq Words /\ Colon \notin Numbers

\* A double is written with six significant digits, and so is what is read back.
ASSUME PrecisionAssumption ==
  /\ SixDigits \in [Numbers -> Numbers]
  /\ \A n \in Numbers : SixDigits[SixDigits[n]] = SixDigits[n]

-----------------------------------------------------------------------------
(***************************************************************************)
(* Layouts: the fields after the action, those that are converted to       *)
(* numbers, those of them that are doubles, and whether the last may be    *)
(* empty.                                                                  *)
(***************************************************************************)

Credentials == [size |-> 2, numbers |-> {}, doubles |-> {}, empty |-> TRUE]
Factors(n, numbers) == [size |-> 3 + n, numbers |-> {3} \cup numbers,
                        doubles |-> {}, empty |-> FALSE]
Plain == [size |-> 1, numbers |-> {}, doubles |-> {}, empty |-> TRUE]

SignUpMessage              == Credentials
LogInMessage               == Credentials
LogInValidatorMessage      == Credentials
GetAvailableTicketsMessage == Factors(1, {})
BuyTicketMessage           == Factors(2, {4})
SellTicketMessage          == [Factors(2, {4}) EXCEPT !.doubles = {4}]
ValidateTicketMessage      == Factors(1, {})
CheckIntegrityMessage      == Factors(2, {})
LogOutMessage              == Factors(0, {})
AcceptMessage              == Plain
RejectMessage              == Plain
AcceptAuthMessage          == Factors(1, {})
RejectAuthMessage          == Factors(1, {})

Layout ==
  [SIGN_UP |-> SignUpMessage, LOG_IN |-> LogInMessage,
   LOG_IN_VALIDATOR |-> LogInValidatorMessage,
   GET_AVAILABLE_TICKETS |-> GetAvailableTicketsMessage,
   BUY_TICKET |-> BuyTicketMessage, SELL_TICKET |-> SellTicketMessage,
   VALIDATE_TICKET |-> ValidateTicketMessage,
   CHECK_INTEGRITY |-> CheckIntegrityMessage, LOG_OUT |-> LogOutMessage,
   ACCEPT |-> AcceptMessage, REJECT |-> RejectMessage,
   ACCEPT_AUTH |-> AcceptAuthMessage, REJECT_AUTH |-> RejectAuthMessage]

Text == Seq(Words)

\* The messages the programs and the handlers make: all the fields of the class,
\* and a number where it has one.
Message ==
  {m \in [action : DOMAIN Layout, fields : Seq(Text)] :
     /\ Len(m.fields) = Layout[m.action].size
     /\ \A k \in Layout[m.action].numbers : \E n \in Numbers : m.fields[k] = <<n>>}

\* None but the last field has a separator in it.
Separable(m) ==
  \A k \in 1 .. Len(m.fields) - 1 : Colon \notin ToSet(m.fields[k])

-----------------------------------------------------------------------------

\* A message after its doubles were written: the price of a sale keeps six of
\* its digits.
Rounded(m) ==
  [m EXCEPT !.fields =
     [k \in DOMAIN m.fields |->
        IF k \in Layout[m.action].doubles THEN <<SixDigits[Head(m.fields[k])]>>
                                          ELSE m.fields[k]]]

\* What the k-th field adds to a text.
Part(m, k) == IF k <= Len(m.fields) THEN <<Colon>> \o m.fields[k] ELSE << >>

\* serialize of every class; none has more than five fields.
serialize(m) ==
  LET r == Rounded(m)
  IN <<r.action>> \o Part(r, 1) \o Part(r, 2) \o Part(r, 3) \o Part(r, 4)
                  \o Part(r, 5)

Colons(text) == {i \in DOMAIN text : text[i] = Colon}

\* The place of the k-th colon; 0 is before the text.
Mark(text, k) ==
  IF k = 0 THEN 0
  ELSE CHOOSE i \in Colons(text) : Cardinality({j \in Colons(text) : j <= i}) = k

\* Slip, used by no action: the last field ends at the next colon.
FieldsToColon(text, n) ==
  [k \in 1 .. n |->
     SubSeq(text, Mark(text, k) + 1,
            IF k < Cardinality(Colons(text)) THEN Mark(text, k + 1) - 1
                                             ELSE Len(text))]

\* The n fields after the action: each ends at a colon, the last at the end.
Fields(text, n) ==
  [k \in 1 .. n |->
     SubSeq(text, Mark(text, k) + 1,
            IF k < n THEN Mark(text, k + 1) - 1 ELSE Len(text))]

\* std::stoi, stol and stod read the number a text begins with and leave the
\* rest; they throw when there is none.
IsNumber(text) == text # << >> /\ Head(text) \in ActionTypes \cup Numbers

Action(text) == SubSeq(text, 1, Mark(text, 1) - 1)

Thrown == [action |-> "thrown", fields |-> << >>]

\* deserialize of the class that the action of the text names.
deserialize(text) ==
  LET action == Head(Action(text))
      layout == Layout[action]
      read   == Fields(text, layout.size)
  IN IF /\ Cardinality(Colons(text)) >= layout.size
        /\ layout.empty \/ read[layout.size] # << >>
        /\ \A k \in layout.numbers : IsNumber(read[k])
       THEN [action |-> action,
             fields |-> [k \in 1 .. layout.size |->
                           IF k \in layout.numbers THEN <<Head(read[k])>>
                                                   ELSE read[k]]]
       ELSE Thrown
=============================================================================
