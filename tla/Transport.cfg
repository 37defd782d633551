\* Two programs on one host: one signs in, sends one message and logs out, in
\* any number of connections, the other comes and goes.
SPECIFICATION FairSpec
CONSTANTS
  Sender = Sender
  Newcomer = Newcomer
  Nobody = Nobody
  Words <- Vocabulary
  Numbers = {"7", "7.0000001", "1000000001"}
  SixDigits <- Digits
  Clients = {Sender, Newcomer}
  Address <- SameHost
  Allowed = {"127.0.0.1"}
  Requests <- Menus
  Texts <- Lines
  Cookie <- Cookie1
  Nonce <- Nonce1
  LogOut <- Leaving
  Buffer = 12
  TicksPerSecond = 2
  MaxSent <- SentBy
INVARIANTS IInv TypeOK HandledAsSent AnswersMatch ServerOutlivesPrograms
PROPERTIES WaitsEnd ConnectionsDecided RetriesGetThrough ConnectionsReleased
