\* Two programs, two tickets, two keys, one failed operation.
SPECIFICATION Spec
CONSTANTS
  p1 = p1
  p2 = p2
  Own = Own
  Other = Other
  Unknown = Unknown
  Programs = {p1, p2}
  Names = {"ana"}
  FileNames = {"web", "expo"}
  Passwords = {Own, Other}
  MaxBought = 2
  MaxKeys = 2
  MaxFailures = 1
INVARIANTS IInv TypeOK SavedTicketOpens ToldTheTruth TicketsAccounted
PROPERTIES KeyNeverReplaced
SYMMETRY Symmetry
