---------------------------- MODULE WalletProofs ----------------------------
(***************************************************************************)
(* The ticket files keep their promises for any number of programs, names, *)
(* file names, passwords, tickets, keys and failures.                      *)
(*                                                                         *)
(* IInv of WalletSafety is inductive: one lemma for each step of a         *)
(* program.  QuietStep is what every step that writes no file leaves       *)
(* alone, DiskStep what a step that writes one must; MenuStep, DownStep    *)
(* and HolderStep are the shapes most of the steps have.                   *)
(***************************************************************************)
EXTENDS WalletSafety, SequenceTheorems, TLAPS

\* A key is at least one character and it takes its text away again; a text
\* taken from the disk opens as a text.
LEMMA OpenedTyped ==
  ASSUME NEW text \in Texts, NEW password, NEW key \in Keys,
         keys \in Nat, bought \in Nat
  PROVE  Opened(text, password, key) \in Texts
PROOF
  <1> DEFINE inner == unprotectSymetric(text, <<password>>)
  <1>1. CASE text = << >>
    BY <1>1 DEF Opened, unprotectSymetric, Thrown, Texts
  <1>2. ASSUME NEW a, text = <<a>> PROVE Opened(text, password, key) \in Texts
    <2>1. inner = << >>
      BY <1>2 DEF unprotectSymetric, Thrown
    <2> QED BY <2>1 DEF Opened, unprotectSymetric, Thrown, Texts
  <1>3. ASSUME NEW a \in Passwords, NEW k \in 1 .. keys, NEW t \in 1 .. bought,
               text = <<a, k, t>>
        PROVE  Opened(text, password, key) \in Texts
    <2>1. inner = << >> \/ inner = <<k, t>>
      BY <1>3 DEF unprotectSymetric, Thrown
    <2>2. unprotectSymetric(inner, key) \in {<< >>, <<t>>}
      BY <2>1, <1>3 DEF unprotectSymetric, Thrown
    <2> QED BY <2>2 DEF Opened, Texts
  <1> QED BY <1>1, <1>2, <1>3 DEF Texts

\* Encrypting puts the key in front.
LEMMA KeyInFront ==
  ASSUME NEW a, NEW b, NEW c
  PROVE  /\ protectSymetric(<< >>, <<a>>) = <<a>>
         /\ protectSymetric(<<b>>, <<a>>) = <<a, b>>
         /\ protectSymetric(<<b, c>>, <<a>>) = <<a, b, c>>
PROOF
  <1> DEFINE S == {a, b, c}
  <1>1. /\ <<a>> \in Seq(S) /\ <<b>> \in Seq(S) /\ <<b, c>> \in Seq(S)
        /\ <<a, b>> \in Seq(S) /\ <<a, b, c>> \in Seq(S) /\ << >> \in Seq(S)
    OBVIOUS
  <1>2. <<a>> # << >>
    OBVIOUS
  <1>3. <<a>> \o << >> = <<a>>
    BY <1>1, ConcatEmptySeq
  <1>4. <<a>> \o <<b>> = <<a, b>>
    <2>1. /\ <<a>> \o <<b>> \in Seq(S)
          /\ Len(<<a>> \o <<b>>) = Len(<<a>>) + Len(<<b>>)
          /\ \A i \in 1 .. Len(<<a>>) + Len(<<b>>) : (<<a>> \o <<b>>)[i] =
               IF i <= Len(<<a>>) THEN <<a>>[i] ELSE <<b>>[i - Len(<<a>>)]
      BY <1>1, ConcatProperties
    <2>2. Len(<<a>> \o <<b>>) = 2
      BY <2>1
    <2>3. (<<a>> \o <<b>>)[1] = a /\ (<<a>> \o <<b>>)[2] = b
      BY <2>1
    <2>4. \A i \in 1 .. Len(<<a>> \o <<b>>) : (<<a>> \o <<b>>)[i] = <<a, b>>[i]
      BY <2>2, <2>3
    <2>5. Len(<<a, b>>) = 2
      OBVIOUS
    <2> QED BY <1>1, <2>1, <2>2, <2>4, <2>5, SeqEqual
  <1>5. <<a>> \o <<b, c>> = <<a, b, c>>
    <2>1. /\ <<a>> \o <<b, c>> \in Seq(S)
          /\ Len(<<a>> \o <<b, c>>) = Len(<<a>>) + Len(<<b, c>>)
          /\ \A i \in 1 .. Len(<<a>>) + Len(<<b, c>>) : (<<a>> \o <<b, c>>)[i] =
               IF i <= Len(<<a>>) THEN <<a>>[i] ELSE <<b, c>>[i - Len(<<a>>)]
      BY <1>1, ConcatProperties
    <2>2. Len(<<a>> \o <<b, c>>) = 3
      BY <2>1
    <2>3. (<<a>> \o <<b, c>>)[1] = a /\ (<<a>> \o <<b, c>>)[2] = b /\ (<<a>> \o <<b, c>>)[3] = c
      BY <2>1
    <2>4. \A i \in 1 .. Len(<<a>> \o <<b, c>>) : (<<a>> \o <<b, c>>)[i] = <<a, b, c>>[i]
      BY <2>2, <2>3
    <2>5. Len(<<a, b, c>>) = 3
      OBVIOUS
    <2> QED BY <1>1, <2>1, <2>2, <2>4, <2>5, SeqEqual
  <1> QED BY <1>2, <1>3, <1>4, <1>5 DEF protectSymetric

\* Two layers put on are taken off again.
LEMMA ProtectedOpens ==
  ASSUME NEW ticket, NEW password, NEW k
  PROVE  Opened(protectSymetric(protectSymetric(<<ticket>>, <<k>>), <<password>>),
                password, <<k>>) = <<ticket>>
PROOF
  <1>1. protectSymetric(<<ticket>>, <<k>>) = <<k, ticket>>
    BY KeyInFront
  <1>2. protectSymetric(<<k, ticket>>, <<password>>) = <<password, k, ticket>>
    BY KeyInFront
  <1>3. unprotectSymetric(<<password, k, ticket>>, <<password>>) = <<k, ticket>>
    BY DEF unprotectSymetric
  <1>4. unprotectSymetric(<<k, ticket>>, <<k>>) = <<ticket>>
    BY DEF unprotectSymetric
  <1> QED BY <1>1, <1>2, <1>3, <1>4 DEF Opened

\* A text is empty, or only its password, when the first encryption or both of
\* them failed, or the key is that of an empty file.
LEMMA ProtectedTyped ==
  ASSUME NEW ticket \in 1 .. bought, NEW password \in Passwords, NEW key \in Keys
  PROVE  /\ protectSymetric(protectSymetric(<<ticket>>, key), <<password>>) \in Texts
         /\ protectSymetric(<< >>, <<password>>) \in Texts
         /\ << >> \in Texts
PROOF
  <1>1. protectSymetric(<< >>, <<password>>) = <<password>>
    BY KeyInFront
  <1>2. CASE key = << >>
    BY <1>1, <1>2 DEF protectSymetric, Texts
  <1>3. ASSUME NEW k \in 1 .. keys, key = <<k>>
        PROVE  protectSymetric(protectSymetric(<<ticket>>, key), <<password>>) \in Texts
    <2>1. protectSymetric(<<ticket>>, <<k>>) = <<k, ticket>>
      BY KeyInFront
    <2>2. protectSymetric(<<k, ticket>>, <<password>>) = <<password, k, ticket>>
      BY KeyInFront
    <2> QED BY <1>3, <2>1, <2>2 DEF Texts
  <1>4. << >> \in Texts /\ <<password>> \in Texts
    BY DEF Texts
  <1>5. PICK k : key = << >> \/ (k \in 1 .. keys /\ key = <<k>>)
    BY DEF Keys
  <1> QED BY <1>1, <1>2, <1>3, <1>4, <1>5
-----------------------------------------------------------------------------
(***************************************************************************)
(* Steps in general.                                                       *)
(***************************************************************************)

\* What ToldTheTruth says of one program.
Told(p) ==
  \A r \in saved :
    /\ program[p].pc = "told" /\ program[p].password = r.password
    /\ r.path = <<program[p].name, program[p].file>>
    /\ ~Spoiled(r.path, {"raced", "cut", "early"})
    => program[p].text = <<r.ticket>>

\* The invariant for the files, and for one program.
Disk == KeyInv /\ SavedInv /\ SavedTicketOpens
Fine(p) == Held(p) /\ Encrypted(p) /\ Alone(p) /\ Read(p) /\ Told(p)

LEMMA InvByParts ==
  IInv <=> TypeOK /\ Disk /\ (\A p \in Programs : Fine(p)) /\ TicketsAccounted
PROOF BY DEF IInv, Disk, Fine, Told, ToldTheTruth

\* The name of a ticket file is never that of a key file.
LEMMA PathFacts ==
  ASSUME NEW n, NEW m, NEW f \in FileNames
  PROVE  <<n, f>> # KeyPath(m) /\ <<n, f>>[1] = n /\ KeyPath(n)[1] = n
         /\ (KeyPath(n) = KeyPath(m) <=> n = m)
PROOF BY WalletAssumption DEF KeyPath

\* Keys and tickets are only added.
LEMMA TextsGrow ==
  ASSUME keys \in Nat, keys' \in Nat, keys <= keys',
         bought \in Nat, bought' \in Nat, bought <= bought'
  PROVE  Keys \subseteq Keys' /\ Texts \subseteq Texts' /\ Program \subseteq Program'
PROOF
  <1>1. 1 .. keys \subseteq 1 .. keys' /\ 1 .. bought \subseteq 1 .. bought'
        /\ 0 .. bought \subseteq 0 .. bought'
    OBVIOUS
  <1>2. Keys \subseteq Keys'
    BY <1>1 DEF Keys
  <1>3. Texts \subseteq Texts'
    BY <1>1 DEF Texts
  <1> QED BY <1>1, <1>2, <1>3 DEF Program

\* What a program that is down holds.
LEMMA DownTyped ==
  ASSUME TypeOK
  PROVE  << >> \in Keys /\ << >> \in Texts /\ Unknown \notin Names
         /\ Down \in Program /\ \A n \in Names, b \in BOOLEAN : Menu(n, b) \in Program
PROOF
  <1>1. << >> \in Keys /\ << >> \in Texts /\ Unknown \notin Names
    BY WalletAssumption DEF Keys, Texts
  <1>2. bought \in Nat
    BY DEF TypeOK
  <1>3. 0 \in 0 .. bought /\ "down" \in Steps /\ "menu" \in Steps
    BY <1>2 DEF Steps
  <1>4. Down \in Program
    BY <1>1, <1>3 DEF Down, Program
  <1>5. ASSUME NEW n \in Names, NEW b \in BOOLEAN PROVE Menu(n, b) \in Program
    BY <1>3, <1>4, <1>5 DEF Menu, Program
  <1> QED BY <1>1, <1>4, <1>5

\* A step of p is a step of no other program.
LEMMA GotoIsOneProgram ==
  ASSUME TypeOK, NEW p \in Programs, NEW c, Goto(p, c)
  PROVE  /\ program'[p] = c
         /\ \A q \in Programs \ {p} : program'[q] = program[q]
         /\ Program \subseteq Program' /\ c \in Program'
              => program' \in [Programs -> Program']
PROOF BY DEF Goto, TypeOK

\* A step of p that writes no file and saves nothing, and after which p is at
\* no file, keeps the invariant of the files and of every other program; if it
\* was making the key, that is marked.
LEMMA QuietStep ==
  ASSUME IInv, NEW p \in Programs, NEW c, Goto(p, c),
         disk' = disk, saved' = saved, marks \subseteq marks',
         bought' \in Nat, bought <= bought', Keys \subseteq Keys',
         c.pc \notin keyLocked \cup filing,
         \A n : p \in KeyMakers(n) /\ Exists(KeyPath(n))
               => Marked(KeyPath(n), {"raced", "cut"})'
  PROVE  Disk' /\ Alone(p)' /\ \A q \in Programs \ {p} : Fine(q)'
PROOF
  <1>0. /\ program'[p] = c
        /\ \A q \in Programs \ {p} : program'[q] = program[q]
    BY GotoIsOneProgram DEF IInv
  <1>1. \A path, how : Marked(path, how) => Marked(path, how)'
    BY DEF Marked
  <1>2. \A path, how : Spoiled(path, how) => Spoiled(path, how)'
    BY DEF Spoiled, KeyPath
  <1>3. \A n : KeyMakers(n)' = KeyMakers(n) \ {p}
    BY <1>0 DEF KeyMakers, Name
  <1>4. \A path : Writers(path)' = Writers(path) \ {p}
    BY <1>0 DEF Writers, Name, FilePath
  <1>5. \A path : Exists(path)' <=> Exists(path)
    BY DEF Exists
  <1>6. \A n : Settled(n) => Settled(n)'
    BY <1>3, <1>5 DEF Settled, KeyPath
  <1>7. KeyInv'
    <2> SUFFICES ASSUME NEW n \in Names
                 PROVE  (/\ Exists(KeyPath(n)) => disk[KeyPath(n)] \in Keys
                         /\ ~Marked(KeyPath(n), {"raced"}) =>
                              \A q \in KeyMakers(n) :
                                /\ KeyMakers(n) = {q}
                                /\ Exists(KeyPath(n)) =>
                                     program[q].pc = "write key"
                                       /\ disk[KeyPath(n)] = << >>
                         /\ Settled(n) /\ ~Marked(KeyPath(n), {"raced", "cut"})
                              => disk[KeyPath(n)] # << >>)'
      BY DEF KeyInv
    <2>1. (Exists(KeyPath(n)) => disk[KeyPath(n)] \in Keys)'
      BY <1>5 DEF IInv, KeyInv, KeyPath
    <2>2. ASSUME ~Marked(KeyPath(n), {"raced"})', NEW q \in KeyMakers(n)'
          PROVE  (/\ KeyMakers(n) = {q}
                  /\ Exists(KeyPath(n)) =>
                       program[q].pc = "write key" /\ disk[KeyPath(n)] = << >>)'
      <3>1. q \in KeyMakers(n) /\ q # p /\ q \in Programs
        BY <1>3, <2>2 DEF KeyMakers
      <3>2. ~Marked(KeyPath(n), {"raced"})
        BY <1>1, <2>2 DEF KeyPath
      <3>3. /\ KeyMakers(n) = {q}
            /\ Exists(KeyPath(n)) =>
                 program[q].pc = "write key" /\ disk[KeyPath(n)] = << >>
        BY <3>1, <3>2 DEF IInv, KeyInv
      <3> QED BY <1>0, <1>3, <1>5, <3>1, <3>3 DEF KeyPath
    <2>3. ASSUME Settled(n)', ~Marked(KeyPath(n), {"raced", "cut"})'
          PROVE  disk'[KeyPath(n)] # << >>
      <3>1. Exists(KeyPath(n)) /\ KeyMakers(n) \subseteq {p}
        BY <1>3, <1>5, <2>3 DEF Settled, KeyPath
      <3>2. p \notin KeyMakers(n)
        BY <2>3, <3>1 DEF KeyPath
      <3>3. Settled(n) /\ ~Marked(KeyPath(n), {"raced", "cut"})
        BY <1>1, <2>3, <3>1, <3>2 DEF Settled, KeyPath
      <3> QED BY <3>3 DEF IInv, KeyInv
    <2> QED BY <2>1, <2>2, <2>3 DEF KeyPath
  <1>8. SavedInv'
    BY <1>2, <1>4, <1>5, <1>6 DEF IInv, SavedInv
  <1>9. SavedTicketOpens'
    BY <1>2 DEF IInv, SavedTicketOpens, KeyPath
  <1>10. Alone(p)'
    BY <1>0 DEF Alone
  <1>11. ASSUME NEW q \in Programs \ {p} PROVE Fine(q)'
    <2>1. program'[q] = program[q]
      BY <1>0, <1>11
    <2>2. Held(q)'
      <3>1. Held(q) /\ bought \in Nat
        BY DEF IInv, TypeOK
      <3>2. 1 .. bought \subseteq 1 .. bought'
        BY <3>1
      <3> QED BY <2>1, <3>1, <3>2 DEF Held, Name, FilePath, KeyPath, Exists
    <2>3. Encrypted(q)'
      BY <1>1, <1>6, <2>1 DEF IInv, Encrypted, Name, KeyPath
    <2>4. Alone(q)'
      BY <1>1, <1>4, <1>5, <1>11, <2>1 DEF IInv, Alone, Name, FilePath
    <2>5. Read(q)'
      BY <1>1, <1>2, <1>4, <2>1 DEF IInv, Read, Name, FilePath, KeyPath
    <2>6. Told(q)'
      BY <1>2, <2>1 DEF IInv, ToldTheTruth, Told
    <2> QED BY <2>2, <2>3, <2>4, <2>5, <2>6 DEF Fine
  <1> QED BY <1>7, <1>8, <1>9, <1>10, <1>11 DEF Disk

\* What TicketsAccounted says of a ticket that is neither being saved nor saved.
Excused(t) == \E l \in lost : l.ticket = t /\ (l.why = "no key" => l.keyless)

\* A ticket stays accounted for, if the step says where that of p is.
LEMMA AccountedStep ==
  ASSUME IInv, NEW p \in Programs, NEW c, Goto(p, c),
         saved \subseteq saved', lost \subseteq lost',
         \A t \in 1 .. bought' :
           t \in 1 .. bought \/ (c.pc \in saving /\ c.ticket = t),
         program[p].pc \in saving =>
           \/ c.pc \in saving /\ c.ticket = program[p].ticket
           \/ \E r \in saved' : r.ticket = program[p].ticket
           \/ \A t : t = program[p].ticket => Excused(t)'
  PROVE  TicketsAccounted'
PROOF
  <1>0. /\ program'[p] = c
        /\ \A q \in Programs \ {p} : program'[q] = program[q]
    BY GotoIsOneProgram DEF IInv
  <1> SUFFICES ASSUME NEW t \in 1 .. bought'
               PROVE  \/ \E q \in Programs : program'[q].pc \in saving
                                               /\ program'[q].ticket = t
                      \/ \E r \in saved' : r.ticket = t
                      \/ Excused(t)'
    BY DEF TicketsAccounted, Excused
  <1>1. CASE c.pc \in saving /\ c.ticket = t
    BY <1>0, <1>1
  <1>2. CASE t \in 1 .. bought
    <2>1. CASE \E q \in Programs : program[q].pc \in saving /\ program[q].ticket = t
      <3>1. PICK q \in Programs : program[q].pc \in saving /\ program[q].ticket = t
        BY <2>1
      <3>2. CASE q # p
        BY <1>0, <3>1, <3>2
      <3>3. CASE q = p
        BY <1>0, <3>1, <3>3
      <3> QED BY <3>2, <3>3
    <2>2. CASE (\E r \in saved : r.ticket = t) \/ Excused(t)
      BY <2>2 DEF Excused
    <2> QED BY <1>2, <2>1, <2>2 DEF IInv, TicketsAccounted, Excused
  <1> QED BY <1>1, <1>2

\* The parts of the invariant after a step of p.
LEMMA InvAfterStep ==
  ASSUME NEW p \in Programs, TypeOK', Disk', \A q \in Programs \ {p} : Fine(q)',
         Held(p)', Encrypted(p)', Alone(p)', Read(p)', Told(p)', TicketsAccounted'
  PROVE  IInv'
PROOF
  <1>1. \A q \in Programs : Fine(q)'
    BY DEF Fine
  <1> QED BY <1>1 DEF IInv, Disk, Fine, Told, ToldTheTruth

-----------------------------------------------------------------------------
(***************************************************************************)
(* The steps that write no file.                                           *)
(***************************************************************************)

\* A program starts, and holds nothing yet.
LEMMA SignInKeepsInv ==
  ASSUME IInv, NEW p \in Programs, SignIn(p) PROVE IInv'
PROOF
  <1>1. PICK n \in Names :
          Goto(p, [Down EXCEPT !.pc = "check key", !.name = n])
    BY DEF SignIn
  <1> DEFINE c == [Down EXCEPT !.pc = "check key", !.name = n]
  <1>2. /\ UNCHANGED <<disk, counters, saved, lost, marks>>
        /\ program[p].pc = "down"
    BY DEF SignIn, Down
  <1>3. c.pc = "check key" /\ c.name = n /\ c \in Program
    BY DownTyped DEF Down, Program, Steps, IInv
  <1>4. Goto(p, c)
    BY <1>1
  <1> HIDE DEF c
  <1>5. Keys' = Keys /\ Texts' = Texts /\ Program' = Program /\ bought \in Nat
    BY <1>2 DEF Keys, Texts, Program, counters, IInv, TypeOK
  <1>6. /\ program'[p] = c
        /\ program' \in [Programs -> Program']
    BY <1>3, <1>4, <1>5, GotoIsOneProgram DEF IInv
  <1>7. Disk' /\ Alone(p)' /\ \A q \in Programs \ {p} : Fine(q)'
    <2>1. \A k : p \notin KeyMakers(k)
      BY <1>2 DEF KeyMakers, keyLocked
    <2>2. c.pc \notin keyLocked \cup filing
      BY <1>3 DEF keyLocked, filing
    <2>3. bought' \in Nat /\ bought <= bought'
      BY <1>2, <1>5 DEF counters
    <2> QED BY <1>2, <1>4, <1>5, <2>1, <2>2, <2>3, QuietStep
  <1>8. Held(p)' /\ Encrypted(p)' /\ Read(p)' /\ Told(p)'
    BY <1>3, <1>6 DEF Held, Encrypted, Read, Told, Name, keyLocked, filing,
                      reading, saving
  <1>9. TypeOK'
    BY <1>2, <1>5, <1>6 DEF IInv, TypeOK, counters
  <1>10. TicketsAccounted'
    BY <1>2, <1>3, <1>4, AccountedStep DEF counters, saving
  <1> QED BY <1>7, <1>8, <1>9, <1>10, InvAfterStep

\* Mark adds at most the one mark, and only if what it is for happens.
LEMMA MarkTyped ==
  ASSUME TypeOK, NEW path \in Paths, NEW what \in {"raced", "cut", "early"},
         NEW happens \in BOOLEAN, Mark(path, what, happens)
  PROVE  /\ marks \subseteq marks'
         /\ \A m \in marks' : m.path \in Paths /\ m.what \in {"raced", "cut", "early"}
         /\ happens => \A how : what \in how => Marked(path, how)'
PROOF
  <1>1. [path |-> path, what |-> what].path = path
        /\ [path |-> path, what |-> what].what = what
    OBVIOUS
  <1>2. CASE happens
    <2>1. marks' = marks \cup {[path |-> path, what |-> what]}
      BY <1>2 DEF Mark
    <2> QED BY <1>1, <2>1 DEF TypeOK, Marked
  <1>3. CASE ~happens
    <2>1. marks' = marks
      BY <1>3 DEF Mark
    <2> QED BY <1>3, <2>1 DEF TypeOK
  <1> QED BY <1>2, <1>3

\* A program at a file has a name, and the paths it uses are paths.
LEMMA PathsTyped ==
  ASSUME NEW n \in Names, NEW f \in FileNames
  PROVE  <<n, f>> \in Paths
PROOF BY DEF Paths

LEMMA KeyPathTyped ==
  ASSUME NEW n \in Names
  PROVE  KeyPath(n) \in Paths
PROOF BY DEF KeyPath, Paths

\* A step that writes no file and ends at the menu, with a key on the disk or
\* knowing that there is none.
LEMMA MenuStep ==
  ASSUME IInv, NEW p \in Programs, NEW keyless \in BOOLEAN, Name(p) \in Names,
         GotoMenu(p, keyless), disk' = disk, saved' = saved,
         marks \subseteq marks',
         \A m \in marks' : m.path \in Paths /\ m.what \in {"raced", "cut", "early"},
         bought' = bought, keys' = keys, failures' \in 0 .. MaxFailures,
         keyless \/ Exists(KeyPath(Name(p))),
         \A n : p \in KeyMakers(n) /\ Exists(KeyPath(n))
               => Marked(KeyPath(n), {"raced", "cut"})',
         lost \subseteq lost',
         \A t : program[p].pc \in saving /\ t = program[p].ticket => Excused(t)'
  PROVE  IInv'
PROOF
  <1> DEFINE n == Name(p)
             c == Menu(n, keyless)
  <1>1. Goto(p, c) /\ c \in Program
    BY DownTyped DEF GotoMenu, IInv
  <1>2. c.pc = "menu" /\ c.name = n /\ c.keyless = keyless
    BY DEF Menu, Down
  <1>3. n \in Names /\ (keyless \/ Exists(KeyPath(n)))
    OBVIOUS
  <1> HIDE DEF c, n
  <1>4. Keys' = Keys /\ Texts' = Texts /\ Program' = Program /\ bought \in Nat
    BY DEF Keys, Texts, Program, IInv, TypeOK
  <1>5. /\ program'[p] = c
        /\ program' \in [Programs -> Program']
    BY <1>1, <1>4, GotoIsOneProgram DEF IInv
  <1>6. Disk' /\ Alone(p)' /\ \A q \in Programs \ {p} : Fine(q)'
    <2>1. c.pc \notin keyLocked \cup filing
      BY <1>2 DEF keyLocked, filing
    <2>2. bought' \in Nat /\ bought <= bought'
      BY <1>4
    <2> QED BY <1>1, <1>4, <2>1, <2>2, QuietStep
  <1>7. Held(p)' /\ Encrypted(p)' /\ Read(p)' /\ Told(p)'
    BY <1>2, <1>3, <1>5 DEF Held, Encrypted, Read, Told, Name, keyLocked, filing,
                      reading, saving, Exists, KeyPath
  <1>8. TypeOK'
    BY <1>4, <1>5 DEF IInv, TypeOK
  <1>9. TicketsAccounted'
    BY <1>1, <1>2, AccountedStep
  <1> QED BY <1>6, <1>7, <1>8, <1>9, InvAfterStep

\* A step that writes no file and ends the program.
LEMMA DownStep ==
  ASSUME IInv, NEW p \in Programs, Goto(p, Down), disk' = disk, saved' = saved,
         marks \subseteq marks',
         \A m \in marks' : m.path \in Paths /\ m.what \in {"raced", "cut", "early"},
         bought' = bought, keys' = keys, failures' \in 0 .. MaxFailures,
         \A n : p \in KeyMakers(n) /\ Exists(KeyPath(n))
               => Marked(KeyPath(n), {"raced", "cut"})',
         lost \subseteq lost',
         \A t : program[p].pc \in saving /\ t = program[p].ticket => Excused(t)'
  PROVE  IInv'
PROOF
  <1>1. Down \in Program /\ Down.pc = "down"
    BY DownTyped DEF Down, IInv
  <1>2. Keys' = Keys /\ Texts' = Texts /\ Program' = Program /\ bought \in Nat
    BY DEF Keys, Texts, Program, IInv, TypeOK
  <1>3. /\ program'[p] = Down
        /\ program' \in [Programs -> Program']
    BY <1>1, <1>2, GotoIsOneProgram DEF IInv
  <1>4. Disk' /\ Alone(p)' /\ \A q \in Programs \ {p} : Fine(q)'
    <2>1. Down.pc \notin keyLocked \cup filing
      BY <1>1 DEF keyLocked, filing
    <2>2. bought' \in Nat /\ bought <= bought'
      BY <1>2
    <2> QED BY <1>2, <2>1, <2>2, QuietStep
  <1>5. Held(p)' /\ Encrypted(p)' /\ Read(p)' /\ Told(p)'
    BY <1>1, <1>3 DEF Held, Encrypted, Read, Told, Name, keyLocked, filing,
                      reading, saving
  <1>6. TypeOK'
    BY <1>2, <1>3 DEF IInv, TypeOK
  <1>7. TicketsAccounted'
    BY <1>1, AccountedStep
  <1> QED BY <1>4, <1>5, <1>6, <1>7, InvAfterStep

\* A program that is killed or logs out leaves files that are there or that its
\* mark speaks of (Client.cpp:177).
LEMMA LeaveKeepsInv ==
  ASSUME IInv, NEW p \in Programs, Leave(p) PROVE IInv'
PROOF
  <1> DEFINE path == KeyPath(Name(p))
             l == [ticket |-> program[p].ticket, why |-> "gone",
                   keyless |-> program[p].keyless]
  <1>1. /\ program[p].pc \notin {"down", "told"}
        /\ Goto(p, Down)
        /\ program[p].pc \in saving => lost' = lost \cup {l}
        /\ program[p].pc \notin saving => UNCHANGED lost
        /\ Mark(path, "cut", program[p].pc = "write key")
        /\ UNCHANGED <<disk, counters, saved>>
    BY DEF Leave, Lose
  <1>2. path \in Paths
    BY <1>1, KeyPathTyped DEF IInv, Held
  <1>3. /\ marks \subseteq marks'
        /\ \A m \in marks' : m.path \in Paths /\ m.what \in {"raced", "cut", "early"}
        /\ program[p].pc = "write key"
             => \A how, k : k = path /\ "cut" \in how => Marked(k, how)'
    <2>1. PICK k : k = path
      OBVIOUS
    <2> HIDE DEF path
    <2> QED BY <1>1, <1>2, <2>1, MarkTyped DEF IInv
  <1>4. ASSUME NEW n, p \in KeyMakers(n), Exists(KeyPath(n))
        PROVE  Marked(KeyPath(n), {"raced", "cut"})'
    <2>1. n = Name(p) /\ program[p].pc \in keyLocked /\ n \in Names
      BY <1>4 DEF KeyMakers, IInv, Held, keyLocked
    <2>2. CASE program[p].pc = "write key"
      BY <1>3, <2>1, <2>2
    <2>3. CASE program[p].pc # "write key"
      <3>1. Marked(KeyPath(n), {"raced"})
        BY <1>4, <2>1, <2>3 DEF IInv, KeyInv
      <3> QED BY <1>3, <3>1 DEF Marked, KeyPath
    <2> QED BY <2>2, <2>3
  <1>5. /\ lost \subseteq lost'
        /\ \A t : program[p].pc \in saving /\ t = program[p].ticket => Excused(t)'
    <2>1. l.ticket = program[p].ticket /\ l.why # "no key"
      OBVIOUS
    <2> HIDE DEF l
    <2> QED BY <1>1, <2>1 DEF Excused
  <1>6. failures' \in 0 .. MaxFailures /\ bought' = bought /\ keys' = keys
    BY <1>1 DEF counters, IInv, TypeOK
  <1> QED BY <1>1, <1>3, <1>4, <1>5, <1>6, DownStep

\* Failures stay within their bound.
LEMMA FailureTyped ==
  ASSUME failures \in 0 .. MaxFailures, Failure
  PROVE  failures' \in 0 .. MaxFailures
PROOF BY WalletAssumption DEF Failure

\* A program in the middle of something: its step may use what it holds, and
\* the invariant is kept if what it holds then is right.
LEMMA HolderStep ==
  ASSUME IInv, NEW p \in Programs, NEW c, Goto(p, c),
         disk' = disk, saved' = saved, keys' = keys, marks \subseteq marks',
         \A m \in marks' : m.path \in Paths /\ m.what \in {"raced", "cut", "early"},
         bought' \in 0 .. MaxBought, bought <= bought',
         failures' \in 0 .. MaxFailures,
         program[p].pc \notin keyLocked, c.pc \notin keyLocked \cup filing,
         c \in Program'
  PROVE  /\ Disk' /\ Alone(p)' /\ \A q \in Programs \ {p} : Fine(q)'
         /\ TypeOK' /\ program'[p] = c
PROOF
  <1>0. bought \in Nat /\ keys \in Nat /\ bought' \in Nat
    BY WalletAssumption DEF IInv, TypeOK
  <1>1. Keys \subseteq Keys' /\ Texts \subseteq Texts' /\ Program \subseteq Program'
    BY <1>0, TextsGrow
  <1>2. Disk' /\ Alone(p)' /\ \A q \in Programs \ {p} : Fine(q)'
    <2>1. \A n : p \notin KeyMakers(n)
      BY DEF KeyMakers
    <2> QED BY <1>0, <1>1, <2>1, QuietStep
  <1>3. program'[p] = c /\ program' \in [Programs -> Program']
    BY <1>1, GotoIsOneProgram DEF IInv
  <1>4. TypeOK'
    <2>1. \A path \in DOMAIN disk' : disk'[path] \in Texts'
      BY <1>1 DEF IInv, TypeOK
    <2> QED BY <1>3, <2>1 DEF IInv, TypeOK
  <1> QED BY <1>2, <1>3, <1>4

\* The key that exists is kept, or there is none and the menu knows
\* (Client.cpp:177).
LEMMA GenerateKeyMenuKeepsInv ==
  ASSUME IInv, NEW p \in Programs, GenerateKey(p), program'[p].pc = "menu"
  PROVE  IInv'
PROOF
  <1>1. /\ program[p].pc = "check key"
        /\ UNCHANGED <<disk, saved, lost>>
    BY DEF GenerateKey
  <1>2. Name(p) \in Names
    BY <1>1 DEF IInv, Held
  <1>3. \/ GotoMenu(p, FALSE) /\ Exists(KeyPath(Name(p)))
             /\ UNCHANGED <<counters, marks>>
        \/ GotoMenu(p, TRUE) /\ Failure /\ UNCHANGED <<bought, keys, marks>>
    <2>1. CASE Goto(p, [program[p] EXCEPT !.pc = "open key", !.key = <<keys'>>])
      <3>1. program'[p] = [program[p] EXCEPT !.pc = "open key", !.key = <<keys'>>]
        BY <2>1, GotoIsOneProgram DEF IInv
      <3>2. program[p] \in Program
        BY DEF IInv, TypeOK
      <3>3. program'[p].pc = "open key"
        BY <3>1, <3>2 DEF Program
      <3> QED BY <3>3
    <2> QED BY <2>1 DEF GenerateKey
  <1>4. /\ \A n : p \notin KeyMakers(n)
        /\ program[p].pc \notin saving
    BY <1>1 DEF KeyMakers, keyLocked, saving
  <1>5. /\ failures' \in 0 .. MaxFailures /\ bought' = bought /\ keys' = keys
        /\ marks' = marks
    BY <1>3, FailureTyped DEF counters, IInv, TypeOK
  <1>6. \A m \in marks' : m.path \in Paths /\ m.what \in {"raced", "cut", "early"}
    BY <1>5 DEF IInv, TypeOK
  <1>7. CASE GotoMenu(p, FALSE) /\ Exists(KeyPath(Name(p)))
    BY <1>1, <1>2, <1>4, <1>5, <1>6, <1>7, MenuStep
  <1>8. CASE GotoMenu(p, TRUE)
    BY <1>1, <1>2, <1>4, <1>5, <1>6, <1>8, MenuStep
  <1> QED BY <1>3, <1>7, <1>8

\* The ticket that was sold is held by the program that bought it.
LEMMA PurchaseKeepsInv ==
  ASSUME IInv, NEW p \in Programs, Purchase(p) PROVE IInv'
PROOF
  <1> DEFINE c == [program[p] EXCEPT !.pc = "answered", !.ticket = bought']
  <1>1. /\ program[p].pc = "menu"
        /\ bought < MaxBought /\ bought' = bought + 1
        /\ Goto(p, c)
        /\ UNCHANGED <<disk, keys, failures, saved, lost, marks>>
    BY DEF Purchase
  <1>2. program[p] \in Program /\ bought \in Nat /\ bought' \in 0 .. MaxBought
    BY <1>1, WalletAssumption DEF IInv, TypeOK
  <1>3. Program \subseteq Program' /\ bought' \in 0 .. bought'
    BY <1>1, <1>2, TextsGrow DEF IInv, TypeOK
  <1>4. /\ c.pc = "answered" /\ c.ticket = bought' /\ c.name = Name(p)
        /\ c.keyless = program[p].keyless
    BY <1>2 DEF Program, Name
  <1>5. c \in Program'
    <2>1. program[p] \in Program' /\ "answered" \in Steps
      BY <1>2, <1>3 DEF Steps, saving
    <2> QED BY <1>3, <2>1 DEF Program
  <1> HIDE DEF c
  <1>6. c.pc \notin keyLocked \cup filing /\ program[p].pc \notin keyLocked
    BY <1>1, <1>4 DEF keyLocked, filing
  <1>7. /\ Disk' /\ Alone(p)' /\ \A q \in Programs \ {p} : Fine(q)'
        /\ TypeOK' /\ program'[p] = c
    <2>1. failures' \in 0 .. MaxFailures /\ bought <= bought'
      BY <1>1, <1>2 DEF IInv, TypeOK
    <2>2. \A m \in marks' : m.path \in Paths /\ m.what \in {"raced", "cut", "early"}
      BY <1>1 DEF IInv, TypeOK
    <2> QED BY <1>1, <1>2, <1>5, <1>6, <2>1, <2>2, HolderStep
  <1>8. Name(p) \in Names /\ (program[p].keyless \/ Exists(KeyPath(Name(p))))
    BY <1>1 DEF IInv, Held
  <1>9. Held(p)' /\ Encrypted(p)' /\ Read(p)' /\ Told(p)'
    <2>1. PICK n : n = Name(p)
      OBVIOUS
    <2>2. program'[p].ticket \in 1 .. bought'
      BY <1>1, <1>2, <1>4, <1>7
    <2> QED BY <1>1, <1>4, <1>7, <1>8, <2>1, <2>2 DEF Held, Encrypted, Read, Told,
               Name, keyLocked, filing, reading, Exists, KeyPath
  <1>10. TicketsAccounted'
    <2>1. \A t \in 1 .. bought' : t \in 1 .. bought \/ t = bought'
      BY <1>1, <1>2
    <2> QED BY <1>1, <1>4, <2>1, AccountedStep DEF saving
  <1> QED BY <1>7, <1>9, <1>10, InvAfterStep

\* Without a key the ticket is given up, with a message; with one, the key that
\* was read is the one that stays, or a race is marked (Client.cpp:280).
LEMMA ReadKeyKeepsInv ==
  ASSUME IInv, NEW p \in Programs, ReadKey(p) PROVE IInv'
PROOF
  <1> DEFINE n == Name(p)
             path == KeyPath(n)
             c == [program[p] EXCEPT !.pc = "password", !.key = disk[path]]
  <1>1. /\ program[p].pc = "answered"
        /\ UNCHANGED <<disk, counters, saved>>
    BY DEF ReadKey
  <1>2. /\ n \in Names /\ program[p] \in Program /\ bought \in Nat
        /\ program[p].ticket \in 1 .. bought
        /\ program[p].keyless \/ Exists(path)
    <2>1. TypeOK /\ Held(p)
      BY DEF IInv
    <2>2. /\ n \in Names /\ program[p].ticket \in 1 .. bought
          /\ program[p].keyless \/ Exists(path)
      BY <1>1, <2>1 DEF Held, saving
    <2>3. program[p] \in Program /\ bought \in Nat
      BY <2>1 DEF TypeOK
    <2> QED BY <2>2, <2>3
  <1>3. /\ failures' \in 0 .. MaxFailures /\ bought' \in 0 .. MaxBought
        /\ bought' = bought /\ keys' = keys /\ bought <= bought'
        /\ program[p].pc \notin keyLocked /\ \A k : p \notin KeyMakers(k)
    <2>1. program[p].pc \notin keyLocked /\ \A k : p \notin KeyMakers(k)
      BY <1>1 DEF KeyMakers, keyLocked
    <2>2. UNCHANGED <<bought, keys, failures>> /\ TypeOK
      BY <1>1 DEF counters, IInv
    <2>3. bought <= bought'
      BY <1>2, <2>2
    <2> QED BY <2>1, <2>2, <2>3 DEF TypeOK
  <1>4. CASE ~Exists(path)
    <2>1. /\ GotoMenu(p, program[p].keyless) /\ UNCHANGED marks
          /\ lost' = lost \cup {[ticket |-> program[p].ticket, why |-> "no key",
                                 keyless |-> program[p].keyless]}
      BY <1>4 DEF ReadKey, BackToMenu, Lose
    <2>2. program[p].keyless = TRUE
      BY <1>2, <1>4 DEF Program
    <2>3. \A t : t = program[p].ticket => Excused(t)'
      <3> DEFINE l == [ticket |-> program[p].ticket, why |-> "no key",
                       keyless |-> program[p].keyless]
      <3>1. l.ticket = program[p].ticket /\ l.keyless /\ l \in lost'
        BY <2>1, <2>2
      <3> HIDE DEF l
      <3> QED BY <3>1 DEF Excused
    <2>4. \A m \in marks' : m.path \in Paths /\ m.what \in {"raced", "cut", "early"}
      BY <2>1 DEF IInv, TypeOK
    <2>5. GotoMenu(p, TRUE) /\ lost \subseteq lost'
      BY <2>1, <2>2
    <2> QED BY <1>1, <1>2, <1>3, <2>1, <2>3, <2>4, <2>5, MenuStep
  <1>5. CASE Exists(path)
    <2>1. /\ Goto(p, c) /\ lost' = lost
          /\ Mark(path, "raced", Meanwhile(p, keyLocked))
      BY <1>5 DEF ReadKey
    <2>2. /\ marks \subseteq marks'
          /\ \A m \in marks' : m.path \in Paths /\ m.what \in {"raced", "cut", "early"}
          /\ Meanwhile(p, keyLocked) => \A k : k = path => Marked(k, {"raced"})'
      <3>1. PICK k : k = path
        OBVIOUS
      <3>2. k \in Paths /\ Mark(k, "raced", Meanwhile(p, keyLocked))
        BY <1>2, <2>1, <3>1, KeyPathTyped
      <3>3. PICK b \in BOOLEAN : b <=> Meanwhile(p, keyLocked)
        OBVIOUS
      <3>4. Mark(k, "raced", b)
        BY <3>2, <3>3 DEF Mark
      <3>5. /\ marks \subseteq marks'
            /\ \A m \in marks' : m.path \in Paths /\ m.what \in {"raced", "cut", "early"}
            /\ b => Marked(k, {"raced"})'
        BY <3>2, <3>4, MarkTyped DEF IInv
      <3> HIDE DEF path
      <3> QED BY <3>1, <3>3, <3>5
    <2>3. disk[path] \in Keys
      BY <1>2, <1>5 DEF IInv, KeyInv
    <2>4. /\ c.pc = "password" /\ c.ticket = program[p].ticket /\ c.name = n
          /\ c.keyless = program[p].keyless /\ c.key = disk[path]
      BY <1>2 DEF Program, Name
    <2>5. c \in Program'
      <3>1. "password" \in Steps
        BY DEF Steps, saving
      <3>2. c \in Program
        BY <1>2, <2>3, <3>1 DEF Program
      <3>3. Program' = Program
        BY <1>3 DEF Program, Keys, Texts
      <3> QED BY <3>2, <3>3
    <2> HIDE DEF c
    <2>6. c.pc \notin keyLocked \cup filing
      BY <2>4 DEF keyLocked, filing
    <2>7. /\ Disk' /\ Alone(p)' /\ \A q \in Programs \ {p} : Fine(q)'
          /\ TypeOK' /\ program'[p] = c
      BY <1>1, <1>3, <2>1, <2>2, <2>5, <2>6, HolderStep
    <2>8. Held(p)' /\ Read(p)' /\ Told(p)'
      BY <1>1, <1>2, <1>3, <1>5, <2>4, <2>7 DEF Held, Read, Told, Name, keyLocked,
           filing, reading, Exists, KeyPath
    <2>9. Encrypted(p)'
      <3>1. ASSUME NEW k, k = n, ~Marked(KeyPath(k), {"raced"})'
            PROVE  KeyMakers(k)' = {}
        <4>1. ~Meanwhile(p, keyLocked)
          BY <2>2, <3>1 DEF KeyPath
        <4>2. \A q \in Programs \ {p} : program'[q] = program[q]
          BY <2>1, GotoIsOneProgram DEF IInv
        <4>3. c.pc \notin keyLocked
          BY <2>6
        <4>4. ASSUME NEW q \in Programs, program'[q].name = k,
                     program'[q].pc \in keyLocked
              PROVE  FALSE
          <5>1. q # p
            BY <2>7, <4>3, <4>4
          <5>2. program[q].name = k /\ program[q].pc \in keyLocked
            BY <4>2, <4>4, <5>1
          <5> QED BY <3>1, <4>1, <5>1, <5>2 DEF Meanwhile, Name
        <4> QED BY <4>4 DEF KeyMakers, Name
      <3> QED BY <1>1, <1>5, <2>4, <2>7, <3>1 DEF Encrypted, Settled, Name, Exists,
                 KeyPath, filing
    <2>10. TicketsAccounted'
      BY <1>1, <1>3, <2>1, <2>4, AccountedStep DEF saving
    <2> QED BY <2>7, <2>8, <2>9, <2>10, InvAfterStep
  <1> QED BY <1>4, <1>5

\* What is saved later opens, unless an encryption failed or the key of the name
\* was spoiled (Client.cpp:291-294).
LEMMA EncryptKeepsInv ==
  ASSUME IInv, NEW p \in Programs, Encrypt(p) PROVE IInv'
PROOF
  <1> DEFINE n == Name(p)
             path == KeyPath(n)
             t == program[p].ticket
  <1>1. /\ program[p].pc = "password"
        /\ UNCHANGED <<disk, bought, keys, saved, lost, marks>>
    BY DEF Encrypt
  <1>2. /\ n \in Names /\ t \in 1 .. bought
        /\ program[p].keyless \/ Exists(path)
    BY <1>1 DEF IInv, Held, saving
  <1>3. /\ program[p] \in Program /\ bought \in 0 .. MaxBought
        /\ failures \in 0 .. MaxFailures
        /\ \A m \in marks : m.path \in Paths /\ m.what \in {"raced", "cut", "early"}
    BY DEF IInv, TypeOK
  <1>4. ASSUME NEW password \in Passwords, NEW text, NEW failed \in BOOLEAN,
               Goto(p, [program[p] EXCEPT !.pc = "file name", !.text = text,
                          !.password = password, !.failed = failed]),
               failures' \in 0 .. MaxFailures, text \in Texts,
               ~failed => text = protectSymetric(
                            protectSymetric(<<t>>, program[p].key), <<password>>)
        PROVE  IInv'
    <2> DEFINE c == [program[p] EXCEPT !.pc = "file name", !.text = text,
                          !.password = password, !.failed = failed]
    <2>1. /\ c.pc = "file name" /\ c.ticket = t /\ c.name = n /\ c.failed = failed
          /\ c.keyless = program[p].keyless /\ c.text = text
          /\ c.password = password
      BY <1>3 DEF Program, Name
    <2>2. c \in Program'
      <3>1. "file name" \in Steps
        BY DEF Steps, saving
      <3>2. c \in Program
        BY <1>3, <1>4, <3>1 DEF Program
      <3>3. Program' = Program
        BY <1>1 DEF Program, Keys, Texts
      <3> QED BY <3>2, <3>3
    <2>3. Goto(p, c)
      BY <1>4
    <2> HIDE DEF c
    <2>4. c.pc \notin keyLocked \cup filing /\ program[p].pc \notin keyLocked
      BY <1>1, <2>1 DEF keyLocked, filing
    <2>5. bought <= bought'
      BY <1>1, <1>3, WalletAssumption
    <2>6. /\ Disk' /\ Alone(p)' /\ \A q \in Programs \ {p} : Fine(q)'
          /\ TypeOK' /\ program'[p] = c
      BY <1>1, <1>3, <1>4, <2>2, <2>3, <2>4, <2>5, HolderStep
    <2>7. Held(p)' /\ Read(p)' /\ Told(p)'
      BY <1>1, <1>2, <2>1, <2>6 DEF Held, Read, Told, Name, keyLocked,
           filing, reading, Exists, KeyPath
    <2>8. ASSUME ~Marked(path, {"raced"})
          PROVE  /\ Settled(n)
                 /\ ~Marked(path, {"cut"}) /\ ~failed =>
                      Opened(text, password, disk[path]) = <<t>>
      <3>1. Settled(n) /\ program[p].key = disk[path]
        BY <1>1, <2>8 DEF IInv, Encrypted
      <3>2. ASSUME ~Marked(path, {"cut"}), ~failed
            PROVE  Opened(text, password, disk[path]) = <<t>>
        <4>1. ~Marked(path, {"raced", "cut"})
          BY <2>8, <3>2 DEF Marked
        <4>2. disk[path] # << >> /\ disk[path] \in Keys
          BY <1>2, <3>1, <4>1 DEF IInv, KeyInv, Settled
        <4>3. PICK k : disk[path] = <<k>>
          BY <4>2 DEF Keys
        <4> QED BY <1>4, <3>1, <3>2, <4>3, ProtectedOpens
      <3> QED BY <3>1, <3>2
    <2>9. Encrypted(p)'
      <3>1. \A k : KeyMakers(k)' \subseteq KeyMakers(k)
        <4>1. \A q \in Programs \ {p} : program'[q] = program[q]
          BY <2>3, GotoIsOneProgram DEF IInv
        <4> QED BY <2>1, <2>4, <2>6, <4>1 DEF KeyMakers, Name
      <3>2. PICK k : k = n
        OBVIOUS
      <3>3. Settled(k) => Settled(k)'
        BY <1>1, <3>1, <3>2 DEF Settled, Exists, KeyPath
      <3>4. Marked(KeyPath(k), {"raced"})' <=> Marked(KeyPath(k), {"raced"})
        BY <1>1 DEF Marked, KeyPath
      <3>5. Marked(KeyPath(k), {"cut"})' <=> Marked(KeyPath(k), {"cut"})
        BY <1>1 DEF Marked, KeyPath
      <3>6. Name(p)' = k /\ program'[p].pc = "file name"
        BY <2>1, <2>6, <3>2 DEF Name
      <3> QED BY <1>1, <2>1, <2>6, <2>8, <3>2, <3>3, <3>4, <3>5, <3>6
             DEF Encrypted, KeyPath, filing
    <2>10. TicketsAccounted'
      BY <1>1, <2>1, <2>3, AccountedStep DEF saving
    <2> QED BY <2>6, <2>7, <2>9, <2>10, InvAfterStep
  <1>5. /\ program[p].key \in Keys
        /\ Failure => failures' \in 0 .. MaxFailures
    BY <1>3, FailureTyped DEF Program
  <1>6. PICK password \in Passwords :
          LET inner == protectSymetric(<<t>>, program[p].key)
              step(result, failed) ==
                Goto(p, [program[p] EXCEPT !.pc = "file name", !.text = result,
                           !.password = password, !.failed = failed])
          IN \/ step(protectSymetric(inner, <<password>>), FALSE) /\ UNCHANGED failures
             \/ step(protectSymetric(<< >>, <<password>>), TRUE) /\ Failure
             \/ step(<< >>, TRUE) /\ Failure
    BY DEF Encrypt
  <1>7. /\ protectSymetric(protectSymetric(<<t>>, program[p].key), <<password>>)
             \in Texts
        /\ protectSymetric(<< >>, <<password>>) \in Texts
        /\ << >> \in Texts
    BY <1>2, <1>5, ProtectedTyped
  <1> HIDE DEF t
  <1> QED BY <1>3, <1>4, <1>5, <1>6, <1>7

\* What was read of a saved ticket is what is on the disk (Client.cpp:369).
LEMMA ReadFileKeepsInv ==
  ASSUME IInv, NEW p \in Programs, ReadFile(p) PROVE IInv'
PROOF
  <1> DEFINE n == Name(p)
             key == IF Exists(KeyPath(n)) THEN disk[KeyPath(n)] ELSE << >>
  <1>1. /\ program[p].pc = "menu"
        /\ UNCHANGED <<disk, counters, saved, lost>>
    BY DEF ReadFile
  <1>2. n \in Names /\ (program[p].keyless \/ Exists(KeyPath(n)))
    BY <1>1 DEF IInv, Held
  <1>3. /\ program[p] \in Program /\ bought \in 0 .. MaxBought
        /\ failures \in 0 .. MaxFailures /\ bought \in Nat
    BY WalletAssumption DEF IInv, TypeOK
  <1>4. PICK f \in FileNames, sell \in BOOLEAN :
          /\ Exists(<<n, f>>)
          /\ Goto(p, [program[p] EXCEPT !.pc = "unlock", !.file = f, !.sell = sell,
                        !.text = disk[<<n, f>>], !.key = key])
          /\ Mark(<<n, f>>, "early", MeanwhileAt(p, "write file", f))
    BY DEF ReadFile
  <1> DEFINE path == <<n, f>>
             c == [program[p] EXCEPT !.pc = "unlock", !.file = f, !.sell = sell,
                        !.text = disk[path], !.key = key]
  <1>5. /\ marks \subseteq marks'
        /\ \A m \in marks' : m.path \in Paths /\ m.what \in {"raced", "cut", "early"}
        /\ MeanwhileAt(p, "write file", f)
             => \A k : k = path => Marked(k, {"raced", "early"})'
    <2>1. PICK k : k = path
      OBVIOUS
    <2>2. PICK b \in BOOLEAN : b <=> MeanwhileAt(p, "write file", f)
      OBVIOUS
    <2>3. k \in Paths /\ Mark(k, "early", b)
      BY <1>2, <1>4, <2>1, <2>2, PathsTyped DEF Mark
    <2>4. /\ marks \subseteq marks'
          /\ \A m \in marks' : m.path \in Paths /\ m.what \in {"raced", "cut", "early"}
          /\ b => Marked(k, {"raced", "early"})'
      BY <2>3, MarkTyped DEF IInv
    <2> HIDE DEF path
    <2> QED BY <2>1, <2>2, <2>4
  <1>6. key \in Keys /\ disk[path] \in Texts
    <2>1. key \in Keys
      BY <1>2, DownTyped DEF IInv, KeyInv
    <2> QED BY <1>4, <2>1 DEF IInv, TypeOK, Exists
  <1>7. /\ c.pc = "unlock" /\ c.file = f /\ c.name = n /\ c.text = disk[path]
        /\ c.keyless = program[p].keyless /\ c.key = key
    BY <1>3 DEF Program, Name
  <1> HIDE DEF key
  <1>8. c \in Program'
    <2>1. "unlock" \in Steps
      BY DEF Steps
    <2>2. c \in Program
      BY <1>3, <1>6, <2>1 DEF Program
    <2>3. Program' = Program
      BY <1>1 DEF Program, Keys, Texts, counters
    <2> QED BY <2>2, <2>3
  <1>9. Goto(p, c)
    BY <1>4
  <1> HIDE DEF c
  <1>10. c.pc \notin keyLocked \cup filing /\ program[p].pc \notin keyLocked
         /\ program[p].pc \notin saving
    BY <1>1, <1>7 DEF keyLocked, filing, saving
  <1>11. /\ bought' = bought /\ keys' = keys /\ failures' \in 0 .. MaxFailures
         /\ bought' \in 0 .. MaxBought /\ bought <= bought'
    BY <1>1, <1>3 DEF counters
  <1>12. /\ Disk' /\ Alone(p)' /\ \A q \in Programs \ {p} : Fine(q)'
         /\ TypeOK' /\ program'[p] = c
    BY <1>1, <1>5, <1>8, <1>9, <1>10, <1>11, HolderStep
  <1>13. Held(p)' /\ Encrypted(p)' /\ Told(p)'
    BY <1>1, <1>2, <1>4, <1>7, <1>12 DEF Held, Encrypted, Told, Name, keyLocked,
         saving, filing, reading, Exists, KeyPath, FilePath
  <1>14. \A q \in Programs \ {p} : program'[q] = program[q]
    BY <1>9, GotoIsOneProgram DEF IInv
  <1>15. ASSUME NEW k, k = path, ~Marked(k, {"raced", "early"})'
         PROVE  Writers(k)' = {}
    <2>1. ~MeanwhileAt(p, "write file", f)
      BY <1>5, <1>15
    <2>2. ~Marked(k, {"raced"})
      BY <1>5, <1>15 DEF Marked
    <2>3. ASSUME NEW q \in Programs, program'[q].pc \in filing,
                 program'[q].name = n, program'[q].file = f
          PROVE  FALSE
      <3>1. q # p
        BY <1>10, <1>12, <2>3
      <3>2. program[q].pc \in filing /\ program[q].name = n /\ program[q].file = f
        BY <1>14, <2>3, <3>1
      <3>3. program[q].pc = "open file"
        BY <2>1, <3>1, <3>2 DEF MeanwhileAt, Name, filing
      <3>4. FilePath(q) = k
        BY <1>15, <3>2 DEF FilePath, Name
      <3> QED BY <1>4, <1>15, <2>2, <3>2, <3>3, <3>4 DEF IInv, Alone
    <2> QED BY <1>15, <2>3 DEF Writers, FilePath, Name
  <1>16. ASSUME NEW r \in saved, r.path = path,
                ~Spoiled(r.path, {"raced", "cut", "early"})'
         PROVE  key = disk[KeyPath(n)]
    <2>1. PICK k : k = r.path
      OBVIOUS
    <2>2. ~Spoiled(k, {"raced", "cut"})
      BY <1>5, <1>16, <2>1 DEF Spoiled, KeyPath
    <2>3. r.path[1] = n
      BY <1>16
    <2> QED BY <2>1, <2>2, <2>3 DEF IInv, SavedInv, Settled, key
  <1>17. Read(p)'
    <2>1. FilePath(p)' = path /\ Name(p)' = n
      BY <1>7, <1>12 DEF FilePath, Name
    <2>2. PICK k : k = path
      OBVIOUS
    <2>3. (program[p].pc \in reading /\ ~Marked(FilePath(p), {"raced", "early"}) =>
             Writers(FilePath(p)) = {})'
      BY <1>15, <2>1, <2>2
    <2>4. ASSUME NEW r \in saved', r.path = path,
                 ~Spoiled(r.path, {"raced", "cut", "early"})'
          PROVE  program'[p].text = disk'[r.path]
                   /\ program'[p].key = disk'[KeyPath(n)]
      BY <1>1, <1>7, <1>12, <1>16, <2>4
    <2> QED BY <2>1, <2>3, <2>4 DEF Read, KeyPath
  <1>18. TicketsAccounted'
    BY <1>1, <1>9, <1>10, <1>11, AccountedStep
  <1> QED BY <1>12, <1>13, <1>17, <1>18, InvAfterStep

\* A ticket that was saved opens with its password, from what was read of it
\* before the prompt (Client.cpp:369).
LEMMA UnlockKeepsInv ==
  ASSUME IInv, NEW p \in Programs, Unlock(p) PROVE IInv'
PROOF
  <1> DEFINE n == Name(p)
             path == FilePath(p)
  <1>1. /\ program[p].pc = "unlock"
        /\ UNCHANGED <<disk, counters, saved, lost, marks>>
    BY DEF Unlock
  <1>2. PICK password \in Passwords :
          Goto(p, [program[p] EXCEPT !.pc = "told", !.password = password,
                     !.text = Opened(@, password, program[p].key)])
    BY DEF Unlock
  <1> DEFINE text == Opened(program[p].text, password, program[p].key)
             c == [program[p] EXCEPT !.pc = "told", !.password = password,
                     !.text = text]
  <1>3. /\ program[p] \in Program /\ bought \in 0 .. MaxBought
        /\ failures \in 0 .. MaxFailures /\ bought \in Nat /\ keys \in Nat
        /\ \A m \in marks : m.path \in Paths /\ m.what \in {"raced", "cut", "early"}
    BY WalletAssumption DEF IInv, TypeOK
  <1>4. Goto(p, c)
    BY <1>2, <1>3 DEF Program
  <1>5. text \in Texts
    BY <1>3, OpenedTyped DEF Program
  <1>6. /\ c.pc = "told" /\ c.file = program[p].file /\ c.name = n
        /\ c.text = text /\ c.password = password
        /\ c.keyless = program[p].keyless
    BY <1>3 DEF Program, Name
  <1> HIDE DEF text
  <1>7. c \in Program'
    <2>1. "told" \in Steps
      BY DEF Steps
    <2>2. c \in Program
      BY <1>3, <1>5, <2>1 DEF Program
    <2>3. Program' = Program
      BY <1>1 DEF Program, Keys, Texts, counters
    <2> QED BY <2>2, <2>3
  <1> HIDE DEF c
  <1>8. c.pc \notin keyLocked \cup filing /\ program[p].pc \notin keyLocked
        /\ program[p].pc \notin saving
    BY <1>1, <1>6 DEF keyLocked, filing, saving
  <1>9. /\ bought' = bought /\ keys' = keys /\ failures' \in 0 .. MaxFailures
        /\ bought' \in 0 .. MaxBought /\ bought <= bought'
    BY <1>1, <1>3 DEF counters
  <1>10. /\ Disk' /\ Alone(p)' /\ \A q \in Programs \ {p} : Fine(q)'
         /\ TypeOK' /\ program'[p] = c
    BY <1>1, <1>3, <1>4, <1>7, <1>8, <1>9, HolderStep
  <1>11. /\ Held(p)
         /\ ~Marked(path, {"raced", "early"}) => Writers(path) = {}
         /\ \A r \in saved :
              r.path = path /\ ~Spoiled(r.path, {"raced", "cut", "early"})
              => program[p].text = disk[r.path] /\ program[p].key = disk[KeyPath(n)]
    BY <1>1 DEF IInv, Read, reading
  <1>12. FilePath(p)' = path /\ Name(p)' = n
    BY <1>6, <1>10 DEF FilePath, Name
  <1>13. Held(p)' /\ Encrypted(p)'
    BY <1>1, <1>6, <1>10, <1>11 DEF Held, Encrypted, Name, keyLocked,
         saving, filing, reading, Exists, KeyPath, FilePath
  <1>14. Read(p)'
    <2>1. \A k : Writers(k)' \subseteq Writers(k)
      <3>1. \A q \in Programs \ {p} : program'[q] = program[q]
        BY <1>4, GotoIsOneProgram DEF IInv
      <3> QED BY <1>8, <1>10, <3>1 DEF Writers, FilePath, Name
    <2>2. PICK k : k = path
      OBVIOUS
    <2>3. Marked(k, {"raced", "early"})' <=> Marked(k, {"raced", "early"})
      BY <1>1 DEF Marked
    <2>4. ~Marked(k, {"raced", "early"})' => Writers(k)' = {}
      BY <1>11, <2>1, <2>2, <2>3
    <2> QED BY <1>6, <1>10, <1>12, <2>2, <2>4 DEF Read
  <1>15. Told(p)'
    <2> SUFFICES ASSUME NEW r \in saved, password = r.password, r.path = path,
                        ~Spoiled(r.path, {"raced", "cut", "early"})
                 PROVE  text = <<r.ticket>>
      BY <1>1, <1>6, <1>10, <1>12 DEF Told, Spoiled, KeyPath, FilePath, Name
    <2>1. program[p].text = disk[r.path] /\ program[p].key = disk[KeyPath(n)]
      BY <1>11
    <2>2. r.path[1] = n
      BY DEF FilePath
    <2>3. ~Spoiled(r.path, {"raced", "cut"})
      BY DEF Spoiled
    <2>4. Opened(disk[r.path], r.password, disk[KeyPath(n)]) = <<r.ticket>>
      BY <2>2, <2>3 DEF IInv, SavedTicketOpens
    <2> QED BY <2>1, <2>4 DEF text
  <1>16. TicketsAccounted'
    BY <1>1, <1>4, <1>8, <1>9, AccountedStep
  <1> QED BY <1>10, <1>13, <1>14, <1>15, <1>16, InvAfterStep

\* After the answer the program is at the menu, or it ended (Client.cpp:723).
LEMMA ContinueKeepsInv ==
  ASSUME IInv, NEW p \in Programs, Continue(p) PROVE IInv'
PROOF
  <1>1. /\ program[p].pc = "told"
        /\ UNCHANGED <<disk, counters, saved, lost, marks>>
        /\ Goto(p, Down) \/ GotoMenu(p, program[p].keyless)
    BY DEF Continue, BackToMenu
  <1>2. TypeOK /\ Held(p)
    BY DEF IInv
  <1>3. /\ Name(p) \in Names
        /\ program[p].keyless \/ Exists(KeyPath(Name(p)))
    BY <1>1, <1>2 DEF Held, reading
  <1>4. /\ program[p].keyless \in BOOLEAN /\ program[p].pc \notin saving
        /\ \A n : p \notin KeyMakers(n)
    <2>1. program[p].keyless \in BOOLEAN
      BY <1>2 DEF TypeOK, Program
    <2> QED BY <1>1, <2>1 DEF KeyMakers, keyLocked, saving
  <1>5. /\ failures' \in 0 .. MaxFailures /\ bought' = bought /\ keys' = keys
        /\ \A m \in marks' : m.path \in Paths /\ m.what \in {"raced", "cut", "early"}
    BY <1>1, <1>2 DEF counters, TypeOK
  <1>6. CASE Goto(p, Down)
    BY <1>1, <1>4, <1>5, <1>6, DownStep
  <1>7. CASE GotoMenu(p, program[p].keyless)
    BY <1>1, <1>3, <1>4, <1>5, <1>7, MenuStep
  <1> QED BY <1>1, <1>6, <1>7

\* A key file that cannot be opened leaves the menu without a key; one that is
\* there all the same was raced (Client.cpp:192).
LEMMA OpenKeyFailKeepsInv ==
  ASSUME IInv, NEW p \in Programs, program[p].pc = "open key", Failure,
         GotoMenu(p, TRUE), UNCHANGED <<disk, bought, keys, saved, lost, marks>>
  PROVE  IInv'
PROOF
  <1>1. TypeOK /\ Held(p) /\ KeyInv
    BY DEF IInv
  <1>2. Name(p) \in Names /\ program[p].pc \notin saving
    BY <1>1 DEF Held, saving
  <1>3. /\ failures' \in 0 .. MaxFailures
        /\ \A m \in marks' : m.path \in Paths /\ m.what \in {"raced", "cut", "early"}
    BY <1>1, FailureTyped DEF TypeOK
  <1>4. ASSUME NEW n, p \in KeyMakers(n), Exists(KeyPath(n))
        PROVE  Marked(KeyPath(n), {"raced", "cut"})'
    <2>1. n = Name(p)
      BY <1>4 DEF KeyMakers
    <2>2. Marked(KeyPath(n), {"raced"})
      BY <1>1, <1>2, <1>4, <2>1 DEF KeyInv
    <2> QED BY <2>2 DEF Marked, KeyPath
  <1> QED BY <1>2, <1>3, <1>4, MenuStep

\* A ticket file that cannot be opened is told of (Client.cpp:321).
LEMMA OpenFileFailKeepsInv ==
  ASSUME IInv, NEW p \in Programs, program[p].pc = "open file", Failure,
         BackToMenu(p), UNCHANGED <<disk, bought, keys, saved, marks>>,
         Lose(program[p].ticket, "no file", program[p].keyless)
  PROVE  IInv'
PROOF
  <1>1. TypeOK /\ Held(p)
    BY DEF IInv
  <1>2. /\ Name(p) \in Names
        /\ program[p].keyless \/ Exists(KeyPath(Name(p)))
    BY <1>1 DEF Held, saving
  <1>3. /\ program[p].keyless \in BOOLEAN
        /\ \A n : p \notin KeyMakers(n)
    <2>1. program[p].keyless \in BOOLEAN
      BY <1>1 DEF TypeOK, Program
    <2> QED BY <2>1 DEF KeyMakers, keyLocked
  <1>4. /\ failures' \in 0 .. MaxFailures
        /\ \A m \in marks' : m.path \in Paths /\ m.what \in {"raced", "cut", "early"}
    BY <1>1, FailureTyped DEF TypeOK
  <1>5. /\ lost \subseteq lost'
        /\ \A t : t = program[p].ticket => Excused(t)'
    <2> DEFINE l == [ticket |-> program[p].ticket, why |-> "no file",
                     keyless |-> program[p].keyless]
    <2>1. l.ticket = program[p].ticket /\ l.why # "no key"
      OBVIOUS
    <2>2. lost' = lost \cup {l}
      BY DEF Lose
    <2> HIDE DEF l
    <2> QED BY <2>1, <2>2 DEF Excused
  <1>6. GotoMenu(p, program[p].keyless)
    BY DEF BackToMenu
  <1> QED BY <1>2, <1>3, <1>4, <1>5, <1>6, MenuStep

-----------------------------------------------------------------------------
(***************************************************************************)
(* The steps that create, truncate or write a file.                        *)
(***************************************************************************)

\* What a step of p must leave alone for the other programs and for the tickets
\* saved before: keys that are settled, and files p does not write.
LEMMA DiskStep ==
  ASSUME IInv, NEW p \in Programs, NEW c, Goto(p, c), saved \subseteq saved',
         marks \subseteq marks', bought' = bought,
         \A path : Exists(path) => Exists(path)',
         \A n : Settled(n) => /\ Settled(n)'
                              /\ disk'[KeyPath(n)] = disk[KeyPath(n)],
         \A path \in Names \X FileNames :
           /\ Exists(path) => Writers(path)' \subseteq Writers(path)
           /\ p \notin Writers(path) =>
                /\ Exists(path) => disk'[path] = disk[path]
                /\ Exists(path)' => Exists(path)
                /\ Writers(path) # {} /\ ~Marked(path, {"raced"})'
                     => Writers(path)' \subseteq Writers(path),
         \A r \in saved' \ saved : p \in Writers(r.path)
  PROVE  /\ \A q \in Programs \ {p} : Fine(q)'
         /\ \A r \in saved : ~Spoiled(r.path, {"raced", "cut"})' =>
              /\ Settled(r.path[1])' /\ Exists(r.path)' /\ Writers(r.path)' = {}
              /\ Opened(disk'[r.path], r.password, disk'[KeyPath(r.path[1])])
                   = <<r.ticket>>
PROOF
  <1>0. /\ \A q \in Programs \ {p} : program'[q] = program[q]
        /\ \A r \in saved : r.path \in Names \X FileNames
    BY GotoIsOneProgram DEF IInv, TypeOK
  <1>1. \A path, how : Marked(path, how) => Marked(path, how)'
    BY DEF Marked
  <1>2. \A path, how : Spoiled(path, how) => Spoiled(path, how)'
    BY DEF Spoiled, KeyPath
  <1>3. ASSUME NEW r \in saved, ~Spoiled(r.path, {"raced", "cut"})'
        PROVE  /\ Settled(r.path[1])' /\ Exists(r.path)' /\ Writers(r.path)' = {}
               /\ Opened(disk'[r.path], r.password, disk'[KeyPath(r.path[1])])
                    = <<r.ticket>>
    <2>1. ~Spoiled(r.path, {"raced", "cut"})
      BY <1>2, <1>3
    <2>2. /\ Settled(r.path[1]) /\ Exists(r.path) /\ Writers(r.path) = {}
          /\ Opened(disk[r.path], r.password, disk[KeyPath(r.path[1])])
               = <<r.ticket>>
      BY <2>1 DEF IInv, SavedInv, SavedTicketOpens
    <2>3. disk'[r.path] = disk[r.path] /\ Writers(r.path)' = {}
      BY <1>0, <2>2
    <2>4. PICK n, path : n = r.path[1] /\ path = r.path
      OBVIOUS
    <2>5. /\ Settled(n)' /\ disk'[KeyPath(n)] = disk[KeyPath(n)]
          /\ Exists(path)'
      BY <2>2, <2>4
    <2> QED BY <2>2, <2>3, <2>4, <2>5
  <1>4. ASSUME NEW q \in Programs \ {p} PROVE Fine(q)'
    <2>1. program'[q] = program[q] /\ Name(q)' = Name(q) /\ FilePath(q)' = FilePath(q)
      BY <1>0, <1>4 DEF Name, FilePath
    <2>2. PICK n : n = Name(q)
      OBVIOUS
    <2>3. PICK path : path = FilePath(q)
      OBVIOUS
    <2>4. /\ Held(q) /\ Encrypted(q) /\ Alone(q) /\ Read(q) /\ Told(q)
      BY <1>4 DEF IInv, ToldTheTruth, Told
    <2>5. program[q].pc \in filing \cup reading => path \in Names \X FileNames
      BY <2>3, <2>4 DEF Held, FilePath, filing, reading
    <2>6. Held(q)'
      <3>1. /\ Exists(path) => Exists(path)'
            /\ Exists(KeyPath(n)) => Exists(KeyPath(n))'
        OBVIOUS
      <3> QED BY <2>1, <2>2, <2>3, <2>4, <3>1 DEF Held, KeyPath
    <2>7. Encrypted(q)'
      <3>1. /\ Settled(n) => Settled(n)' /\ disk'[KeyPath(n)] = disk[KeyPath(n)]
            /\ Marked(KeyPath(n), {"raced"}) => Marked(KeyPath(n), {"raced"})'
            /\ Marked(KeyPath(n), {"cut"}) => Marked(KeyPath(n), {"cut"})'
        BY <1>1
      <3> QED BY <2>1, <2>2, <2>4, <3>1 DEF Encrypted, KeyPath
    <2>8. Alone(q)'
      <3> SUFFICES ASSUME program[q].pc \in filing, ~Marked(path, {"raced"})'
                   PROVE  /\ Writers(path)' = {q}
                          /\ program[q].pc = "open file" => ~Exists(path)'
        BY <2>1, <2>3 DEF Alone
      <3>1. ~Marked(path, {"raced"})
        BY <1>1
      <3>2. /\ Writers(path) = {q}
            /\ program[q].pc = "open file" => ~Exists(path)
        BY <2>3, <2>4, <3>1 DEF Alone
      <3>3. q \in Writers(path)'
        BY <2>1, <2>3 DEF Writers
      <3> QED BY <1>4, <2>5, <3>2, <3>3
    <2>9. ASSUME program[q].pc \in reading, ~Marked(path, {"raced", "early"})'
          PROVE  Writers(path) = {} /\ Writers(path)' = {}
      <3>1. ~Marked(path, {"raced", "early"})
        BY <1>1, <2>9
      <3>2. Writers(path) = {} /\ Exists(path)
        BY <2>3, <2>4, <2>9, <3>1 DEF Read, Held
      <3> QED BY <2>5, <2>9, <3>2
    <2>10. ASSUME program[q].pc \in reading, NEW r \in saved', r.path = path,
                  ~Spoiled(path, {"raced", "cut", "early"})'
           PROVE  /\ r \in saved
                  /\ ~Spoiled(path, {"raced", "cut", "early"})
                  /\ disk'[path] = disk[path]
                  /\ disk'[KeyPath(n)] = disk[KeyPath(n)]
      <3>1. ~Marked(path, {"raced", "early"})'
        BY <2>10 DEF Marked, Spoiled, KeyPath
      <3>2. Writers(path) = {}
        BY <2>9, <2>10, <3>1
      <3>3. r \in saved
        BY <2>10, <3>2
      <3>4. ~Spoiled(path, {"raced", "cut", "early"})
        BY <1>2, <2>10
      <3>5. ~Spoiled(path, {"raced", "cut"})
        BY <3>4 DEF Spoiled
      <3>6. path[1] = n
        BY <2>2, <2>3 DEF FilePath
      <3>7. Settled(n) /\ Exists(path)
        BY <2>10, <3>3, <3>5, <3>6 DEF IInv, SavedInv
      <3> QED BY <2>5, <2>10, <3>2, <3>3, <3>4, <3>7
    <2>11. Read(q)'
      <3>1. (program[q].pc \in reading /\ ~Marked(FilePath(q), {"raced", "early"}) =>
               Writers(FilePath(q)) = {})'
        BY <2>1, <2>3, <2>9
      <3>2. ASSUME program[q].pc = "unlock", NEW r \in saved', r.path = path,
                   ~Spoiled(path, {"raced", "cut", "early"})'
            PROVE  program[q].text = disk'[path] /\ program[q].key = disk'[KeyPath(n)]
        <4>1. /\ r \in saved /\ ~Spoiled(path, {"raced", "cut", "early"})
              /\ disk'[path] = disk[path] /\ disk'[KeyPath(n)] = disk[KeyPath(n)]
          BY <2>10, <3>2 DEF reading
        <4> QED BY <2>2, <2>3, <2>4, <3>2, <4>1 DEF Read
      <3>3. (program[q].pc = "unlock" =>
              \A r \in saved :
                /\ r.path = FilePath(q)
                /\ ~Spoiled(r.path, {"raced", "cut", "early"})
                => /\ program[q].text = disk[r.path]
                   /\ program[q].key = disk[KeyPath(Name(q))])'
        BY <2>1, <2>2, <2>3, <3>2 DEF KeyPath
      <3> QED BY <3>1, <3>3 DEF Read
    <2>12. Told(q)'
      <3>1. ASSUME program[q].pc = "told", NEW r \in saved', r.path = path,
                   program[q].password = r.password,
                   ~Spoiled(path, {"raced", "cut", "early"})'
            PROVE  program[q].text = <<r.ticket>>
        <4>1. r \in saved /\ ~Spoiled(path, {"raced", "cut", "early"})
          BY <2>10, <3>1 DEF reading
        <4> QED BY <2>3, <2>4, <3>1, <4>1 DEF Told, FilePath, Name
      <3> QED BY <2>1, <2>3, <3>1 DEF Told, FilePath, Name
    <2> QED BY <2>6, <2>7, <2>8, <2>11, <2>12 DEF Fine
  <1> QED BY <1>3, <1>4

\* Put writes one file and keeps the others.
LEMMA PutIsOneFile ==
  ASSUME NEW path, NEW text, Put(path, text)
  PROVE  /\ \A q : Exists(q)' <=> Exists(q) \/ q = path
         /\ disk'[path] = text
         /\ \A q : Exists(q) /\ q # path => disk'[q] = disk[q]
         /\ TypeOK /\ path \in Paths /\ text \in Texts =>
              /\ DOMAIN disk' \subseteq Paths
              /\ \A q \in DOMAIN disk' : disk'[q] \in Texts
PROOF BY DEF Put, Exists, TypeOK

\* Keys are texts.
LEMMA KeysAreTexts == Keys \subseteq Texts
PROOF BY DEF Keys, Texts

\* Two sign-ins that find no key are marked; otherwise one program is making it
\* (Client.cpp:177).
LEMMA GenerateKeyKeepsInv ==
  ASSUME IInv, NEW p \in Programs, GenerateKey(p) PROVE IInv'
PROOF
  <1> DEFINE n == Name(p)
             c == [program[p] EXCEPT !.pc = "open key", !.key = <<keys'>>]
  <1>1. CASE program'[p].pc = "menu"
    BY <1>1, GenerateKeyMenuKeepsInv
  <1>2. CASE program'[p].pc # "menu"
    <2>1. \/ GotoMenu(p, FALSE) \/ GotoMenu(p, TRUE)
          \/ /\ ~Exists(KeyPath(n)) /\ keys < MaxKeys /\ keys' = keys + 1
             /\ Goto(p, c) /\ Mark(KeyPath(n), "raced", Meanwhile(p, keyLocked))
             /\ UNCHANGED <<bought, failures>>
      BY DEF GenerateKey
    <2>2. ~GotoMenu(p, FALSE) /\ ~GotoMenu(p, TRUE)
      <3>1. ASSUME NEW b \in BOOLEAN, GotoMenu(p, b) PROVE FALSE
        <4>1. program'[p] = Menu(Name(p), b)
          BY <3>1, GotoIsOneProgram DEF GotoMenu, IInv
        <4>2. program'[p].pc = "menu"
          BY <4>1 DEF Menu, Down
        <4> QED BY <1>2, <4>2
      <3> QED BY <3>1
    <2>3. /\ ~Exists(KeyPath(n)) /\ keys < MaxKeys /\ keys' = keys + 1
          /\ Goto(p, c) /\ Mark(KeyPath(n), "raced", Meanwhile(p, keyLocked))
          /\ UNCHANGED <<bought, failures, disk, saved, lost>>
          /\ program[p].pc = "check key"
      BY <2>1, <2>2 DEF GenerateKey
    <2>4. /\ n \in Names /\ program[p] \in Program /\ bought \in Nat
          /\ keys \in Nat /\ keys' \in 1 .. MaxKeys /\ bought <= bought'
          /\ keys <= keys' /\ keys' \in 1 .. keys' /\ bought' \in Nat
      <3>1. n \in Names
        BY <2>3 DEF IInv, Held
      <3>2. program[p] \in Program /\ bought \in Nat /\ keys \in Nat
        BY WalletAssumption DEF IInv, TypeOK
      <3>3. keys < MaxKeys /\ keys' = keys + 1 /\ bought' = bought
        BY <2>3
      <3>4. keys' \in 1 .. MaxKeys /\ keys <= keys' /\ keys' \in 1 .. keys'
        BY <3>2, <3>3, WalletAssumption
      <3> QED BY <3>1, <3>2, <3>3, <3>4
    <2>5. /\ marks \subseteq marks'
          /\ \A m \in marks' : m.path \in Paths /\ m.what \in {"raced", "cut", "early"}
          /\ Meanwhile(p, keyLocked) => \A k : k = KeyPath(n) => Marked(k, {"raced"})'
      <3>1. PICK k : k = KeyPath(n)
        OBVIOUS
      <3>2. PICK b \in BOOLEAN : b <=> Meanwhile(p, keyLocked)
        OBVIOUS
      <3>3. k \in Paths /\ Mark(k, "raced", b)
        BY <2>3, <2>4, <3>1, <3>2, KeyPathTyped DEF Mark
      <3>4. /\ marks \subseteq marks'
            /\ \A m \in marks' : m.path \in Paths /\ m.what \in {"raced", "cut", "early"}
            /\ b => Marked(k, {"raced"})'
        BY <3>3, MarkTyped DEF IInv
      <3> QED BY <3>1, <3>2, <3>4
    <2>6. Keys \subseteq Keys' /\ Texts \subseteq Texts' /\ Program \subseteq Program'
      <3>1. keys' \in Nat
        BY <2>4, WalletAssumption
      <3> QED BY <2>4, <3>1, TextsGrow
    <2>7. <<keys'>> \in Keys' /\ "open key" \in Steps
      BY <2>4 DEF Keys, Steps, keyLocked
    <2>8. c \in Program'
      BY <2>4, <2>6, <2>7 DEF Program
    <2>9. /\ c.pc = "open key" /\ c.name = n /\ c.key = <<keys'>>
          /\ c.file = program[p].file
      BY <2>4 DEF Program, Name
    <2> HIDE DEF c
    <2>10. /\ program'[p] = c /\ program' \in [Programs -> Program']
           /\ \A q \in Programs \ {p} : program'[q] = program[q]
      BY <2>3, <2>6, <2>8, GotoIsOneProgram DEF IInv
    <2>11. TypeOK'
      <3>1. \A path \in DOMAIN disk' : disk'[path] \in Texts'
        BY <2>3, <2>6 DEF IInv, TypeOK
      <3>2. keys' \in 0 .. MaxKeys
        BY <2>4, WalletAssumption
      <3>3. /\ bought' = bought /\ failures' = failures /\ disk' = disk
            /\ saved' = saved
        BY <2>3
      <3> QED BY <2>5, <2>10, <3>1, <3>2, <3>3 DEF IInv, TypeOK
    <2>12. PICK m : m = n
      OBVIOUS
    <2>13. /\ KeyMakers(m)' = KeyMakers(m) \cup {p}
           /\ \A k : k # m => KeyMakers(k)' = KeyMakers(k)
      BY <2>3, <2>9, <2>10, <2>12 DEF KeyMakers, Name, keyLocked
    <2>14. \A path : Writers(path)' = Writers(path) /\ p \notin Writers(path)
      BY <2>3, <2>9, <2>10 DEF Writers, FilePath, Name, filing
    <2>15. \A path : Exists(path)' <=> Exists(path)
      BY <2>3 DEF Exists
    <2>16. \A k : Settled(k) => k # m /\ Settled(k)'
      BY <2>3, <2>12, <2>13, <2>15 DEF Settled, KeyPath
    <2>17. /\ \A q \in Programs \ {p} : Fine(q)'
           /\ \A r \in saved : ~Spoiled(r.path, {"raced", "cut"})' =>
                /\ Settled(r.path[1])' /\ Exists(r.path)' /\ Writers(r.path)' = {}
                /\ Opened(disk'[r.path], r.password, disk'[KeyPath(r.path[1])])
                     = <<r.ticket>>
      BY <2>3, <2>5, <2>14, <2>15, <2>16, DiskStep
    <2>18. KeyInv'
      <3> SUFFICES ASSUME NEW k \in Names
                   PROVE  /\ Exists(KeyPath(k))' => disk'[KeyPath(k)] \in Keys'
                          /\ ~Marked(KeyPath(k), {"raced"})' =>
                               \A q \in KeyMakers(k)' :
                                 /\ KeyMakers(k)' = {q}
                                 /\ Exists(KeyPath(k))' =>
                                      program'[q].pc = "write key"
                                        /\ disk'[KeyPath(k)] = << >>
                          /\ Settled(k)' /\ ~Marked(KeyPath(k), {"raced", "cut"})'
                               => disk'[KeyPath(k)] # << >>
        BY DEF KeyInv, KeyPath
      <3>1. Exists(KeyPath(k))' => Exists(KeyPath(k)) /\ disk'[KeyPath(k)] \in Keys'
        BY <2>3, <2>6, <2>15 DEF IInv, KeyInv, KeyPath
      <3>2. /\ Marked(KeyPath(k), {"raced"}) => Marked(KeyPath(k), {"raced"})'
            /\ Marked(KeyPath(k), {"raced", "cut"})
                 => Marked(KeyPath(k), {"raced", "cut"})'
        BY <2>5 DEF Marked, KeyPath
      <3>3. CASE k = m
        <4>1. ~Exists(KeyPath(k))' /\ ~Settled(k)'
          BY <2>3, <2>12, <2>13, <2>15, <3>1, <3>3 DEF Settled, KeyPath
        <4>2. ASSUME ~Marked(KeyPath(k), {"raced"})' PROVE KeyMakers(k)' = {p}
          <5>1. ~Meanwhile(p, keyLocked)
            BY <2>5, <2>12, <3>3, <4>2 DEF KeyPath
          <5>2. KeyMakers(k) \subseteq {p}
            BY <2>12, <3>3, <5>1 DEF Meanwhile, KeyMakers, Name
          <5> QED BY <2>13, <3>3, <5>2
        <4> QED BY <4>1, <4>2
      <3>4. CASE k # m
        <4>1. KeyMakers(k)' = KeyMakers(k) /\ p \notin KeyMakers(k)
          BY <2>3, <2>13, <3>4 DEF KeyMakers, keyLocked
        <4>2. Settled(k)' => Settled(k)
          BY <3>1, <4>1 DEF Settled, KeyPath
        <4>3. ASSUME NEW q \in KeyMakers(k)' PROVE program'[q] = program[q]
          BY <2>10, <4>1, <4>3 DEF KeyMakers
        <4> QED BY <2>3, <3>1, <3>2, <4>1, <4>2, <4>3 DEF IInv, KeyInv
      <3> QED BY <3>3, <3>4
    <2>19. SavedInv' /\ SavedTicketOpens'
      BY <2>3, <2>17 DEF SavedInv, SavedTicketOpens, Settled, KeyMakers, Exists,
           KeyPath
    <2>20. Held(p)' /\ Encrypted(p)' /\ Alone(p)' /\ Read(p)' /\ Told(p)'
      <3>1. <<keys'>> # << >>
        OBVIOUS
      <3> QED BY <2>4, <2>9, <2>10, <3>1 DEF Held, Encrypted, Alone, Read, Told, Name,
                 keyLocked, saving, filing, reading
    <2>21. TicketsAccounted'
      <3>1. \A t \in 1 .. bought' : t \in 1 .. bought
        BY <2>3
      <3> QED BY <2>3, <3>1, AccountedStep DEF saving
    <2> QED BY <2>11, <2>17, <2>18, <2>19, <2>20, <2>21, InvAfterStep DEF Disk
  <1> QED BY <1>1, <1>2

\* KeyInv, unfolded after a step.
LEMMA KeyInvNext ==
  ASSUME \A n \in Names :
           /\ Exists(KeyPath(n))' => disk'[KeyPath(n)] \in Keys'
           /\ ~Marked(KeyPath(n), {"raced"})' =>
                \A q \in KeyMakers(n)' :
                  /\ KeyMakers(n)' = {q}
                  /\ Exists(KeyPath(n))' =>
                       program'[q].pc = "write key" /\ disk'[KeyPath(n)] = << >>
           /\ Settled(n)' /\ ~Marked(KeyPath(n), {"raced", "cut"})'
                => disk'[KeyPath(n)] # << >>
  PROVE  KeyInv'
PROOF BY DEF KeyInv, KeyPath

\* A step that leaves the key of a name and its makers alone keeps what KeyInv
\* says of it.
LEMMA KeyUntouched ==
  ASSUME IInv, NEW p \in Programs, NEW c, Goto(p, c), NEW n \in Names,
         marks \subseteq marks', Keys \subseteq Keys',
         KeyMakers(n)' = KeyMakers(n), p \notin KeyMakers(n),
         Exists(KeyPath(n))' <=> Exists(KeyPath(n)),
         Exists(KeyPath(n)) => disk'[KeyPath(n)] = disk[KeyPath(n)]
  PROVE  /\ Exists(KeyPath(n))' => disk'[KeyPath(n)] \in Keys'
         /\ ~Marked(KeyPath(n), {"raced"})' =>
              \A q \in KeyMakers(n)' :
                /\ KeyMakers(n)' = {q}
                /\ Exists(KeyPath(n))' =>
                     program'[q].pc = "write key" /\ disk'[KeyPath(n)] = << >>
         /\ Settled(n)' /\ ~Marked(KeyPath(n), {"raced", "cut"})'
              => disk'[KeyPath(n)] # << >>
PROOF
  <1>1. /\ Marked(KeyPath(n), {"raced"}) => Marked(KeyPath(n), {"raced"})'
        /\ Marked(KeyPath(n), {"raced", "cut"})
             => Marked(KeyPath(n), {"raced", "cut"})'
    BY DEF Marked, KeyPath
  <1>2. Settled(n)' => Settled(n)
    BY DEF Settled, KeyPath
  <1>3. ASSUME NEW q \in KeyMakers(n) PROVE program'[q] = program[q]
    BY GotoIsOneProgram DEF KeyMakers, IInv
  <1>4. /\ Exists(KeyPath(n)) => disk[KeyPath(n)] \in Keys
        /\ ~Marked(KeyPath(n), {"raced"}) =>
             \A q \in KeyMakers(n) :
               /\ KeyMakers(n) = {q}
               /\ Exists(KeyPath(n)) =>
                    program[q].pc = "write key" /\ disk[KeyPath(n)] = << >>
        /\ Settled(n) /\ ~Marked(KeyPath(n), {"raced", "cut"})
             => disk[KeyPath(n)] # << >>
    BY DEF IInv, KeyInv
  <1>5. Exists(KeyPath(n))' => disk'[KeyPath(n)] \in Keys'
    BY <1>4 DEF KeyPath
  <1>6. ASSUME ~Marked(KeyPath(n), {"raced"})', NEW q \in KeyMakers(n)'
        PROVE  /\ KeyMakers(n)' = {q}
               /\ Exists(KeyPath(n))' =>
                    program'[q].pc = "write key" /\ disk'[KeyPath(n)] = << >>
    BY <1>1, <1>3, <1>4, <1>6
  <1>7. Settled(n)' /\ ~Marked(KeyPath(n), {"raced", "cut"})'
          => disk'[KeyPath(n)] # << >>
    BY <1>1, <1>2, <1>4 DEF Settled
  <1> QED BY <1>5, <1>6, <1>7

\* The key file is opened where there was none, unless the key is raced
\* (Client.cpp:192).
LEMMA OpenKeyKeepsInv ==
  ASSUME IInv, NEW p \in Programs, OpenKey(p) PROVE IInv'
PROOF
  <1> DEFINE n == Name(p)
             c == [program[p] EXCEPT !.pc = "write key"]
  <1>1. /\ program[p].pc = "open key"
        /\ UNCHANGED <<bought, keys, saved, lost, marks>>
    BY DEF OpenKey
  <1>2. CASE GotoMenu(p, TRUE) /\ Failure /\ UNCHANGED disk
    BY <1>1, <1>2, OpenKeyFailKeepsInv
  <1>3. CASE Put(KeyPath(n), << >>) /\ Goto(p, c) /\ UNCHANGED failures
    <2>1. PICK m, path : m = n /\ path = KeyPath(m)
      OBVIOUS
    <2>2. /\ m \in Names /\ program[p] \in Program /\ path \in Paths
          /\ << >> \in Texts /\ << >> \in Keys
      BY <1>1, <2>1, KeyPathTyped, DownTyped DEF IInv, TypeOK, Held
    <2>3. Put(path, << >>)
      BY <1>3, <2>1
    <2>4. /\ \A q : Exists(q)' <=> Exists(q) \/ q = path
          /\ disk'[path] = << >>
          /\ \A q : Exists(q) /\ q # path => disk'[q] = disk[q]
          /\ DOMAIN disk' \subseteq Paths
          /\ \A q \in DOMAIN disk' : disk'[q] \in Texts
      BY <2>2, <2>3, PutIsOneFile DEF IInv
    <2>5. Keys' = Keys /\ Texts' = Texts /\ Program' = Program
      <3>1. keys' = keys /\ bought' = bought
        BY <1>1
      <3> QED BY <3>1 DEF Keys, Texts, Program
    <2>6. c \in Program
      <3>1. "write key" \in Steps
        BY DEF Steps, keyLocked
      <3> QED BY <2>2, <3>1 DEF Program
    <2>7. /\ c.pc = "write key" /\ c.name = m /\ c.key = program[p].key
      BY <2>1, <2>2 DEF Program, Name
    <2>8. Goto(p, c)
      BY <1>3
    <2> HIDE DEF c
    <2>9. /\ program'[p] = c /\ program' \in [Programs -> Program']
          /\ \A q \in Programs \ {p} : program'[q] = program[q]
      BY <2>5, <2>6, <2>8, GotoIsOneProgram DEF IInv
    <2>10. TypeOK'
      BY <1>1, <1>3, <2>4, <2>5, <2>9 DEF IInv, TypeOK
    <2>11. /\ \A k : KeyMakers(k)' = KeyMakers(k)
           /\ p \in KeyMakers(m)
           /\ \A k : k # m => p \notin KeyMakers(k)
      BY <1>1, <2>1, <2>7, <2>9 DEF KeyMakers, Name, keyLocked
    <2>12. \A q : Writers(q)' = Writers(q) /\ p \notin Writers(q)
      BY <1>1, <2>7, <2>9 DEF Writers, FilePath, Name, filing
    <2>13. \A q \in Names \X FileNames : q # path
      BY <2>1, WalletAssumption DEF KeyPath
    <2>14. \A k : k # m => KeyPath(k) # path
      BY <2>1 DEF KeyPath
    <2>15. ASSUME NEW k, Settled(k)
           PROVE  Settled(k)' /\ disk'[KeyPath(k)] = disk[KeyPath(k)]
      <3>1. k # m /\ Exists(KeyPath(k)) /\ KeyMakers(k) = {}
        BY <2>11, <2>15 DEF Settled
      <3>2. Exists(KeyPath(k))'
        BY <2>4, <3>1
      <3> QED BY <2>4, <2>11, <2>14, <3>1, <3>2 DEF Settled, KeyPath
    <2>16. /\ \A q \in Programs \ {p} : Fine(q)'
           /\ \A r \in saved : ~Spoiled(r.path, {"raced", "cut"})' =>
                /\ Settled(r.path[1])' /\ Exists(r.path)' /\ Writers(r.path)' = {}
                /\ Opened(disk'[r.path], r.password, disk'[KeyPath(r.path[1])])
                     = <<r.ticket>>
      BY <1>1, <2>4, <2>8, <2>12, <2>13, <2>15, DiskStep
    <2>17. KeyInv'
      <3>1. ASSUME NEW k \in Names
            PROVE  /\ Exists(KeyPath(k))' => disk'[KeyPath(k)] \in Keys'
                   /\ ~Marked(KeyPath(k), {"raced"})' =>
                        \A q \in KeyMakers(k)' :
                          /\ KeyMakers(k)' = {q}
                          /\ Exists(KeyPath(k))' =>
                               program'[q].pc = "write key"
                                 /\ disk'[KeyPath(k)] = << >>
                   /\ Settled(k)' /\ ~Marked(KeyPath(k), {"raced", "cut"})'
                        => disk'[KeyPath(k)] # << >>
        <4>1. CASE k = m
          <5>1. disk'[KeyPath(k)] = << >> /\ << >> \in Keys'
            BY <2>1, <2>2, <2>4, <2>5, <4>1
          <5>2. ~Settled(k)'
            BY <2>11, <4>1 DEF Settled
          <5>3. ASSUME ~Marked(KeyPath(k), {"raced"})', NEW q \in KeyMakers(k)'
                PROVE  KeyMakers(k)' = {q} /\ program'[q].pc = "write key"
            <6>1. ~Marked(KeyPath(k), {"raced"}) /\ q \in KeyMakers(k)
              BY <1>1, <2>11, <5>3 DEF Marked, KeyPath
            <6>2. KeyMakers(k) = {q}
              BY <6>1 DEF IInv, KeyInv
            <6>3. q = p
              BY <2>11, <4>1, <6>2
            <6> QED BY <2>7, <2>9, <2>11, <6>2, <6>3
          <5> QED BY <5>1, <5>2, <5>3
        <4>2. CASE k # m
          BY <1>1, <2>4, <2>5, <2>8, <2>11, <2>14, <4>2, KeyUntouched
        <4> QED BY <4>1, <4>2
      <3> QED BY <3>1, KeyInvNext
    <2>18. SavedInv' /\ SavedTicketOpens'
      BY <1>1, <2>16 DEF SavedInv, SavedTicketOpens, Settled, KeyMakers, Exists,
           KeyPath
    <2>19. Held(p)' /\ Encrypted(p)' /\ Alone(p)' /\ Read(p)' /\ Told(p)'
      <3>1. program[p].key # << >>
        BY <1>1 DEF IInv, Held, keyLocked
      <3>2. Exists(path)'
        BY <2>4
      <3> QED BY <2>1, <2>2, <2>7, <2>9, <3>1, <3>2 DEF Held, Encrypted, Alone, Read,
                 Told, Name, keyLocked, saving, filing, reading, KeyPath
    <2>20. TicketsAccounted'
      <3>1. \A t \in 1 .. bought' : t \in 1 .. bought
        BY <1>1
      <3> QED BY <1>1, <2>8, <3>1, AccountedStep DEF saving
    <2> QED BY <2>10, <2>16, <2>17, <2>18, <2>19, <2>20, InvAfterStep DEF Disk
  <1> QED BY <1>2, <1>3 DEF OpenKey

\* The key is on the disk for good, or the mark says that it was cut
\* (Client.cpp:192).
LEMMA WriteKeyKeepsInv ==
  ASSUME IInv, NEW p \in Programs, WriteKey(p) PROVE IInv'
PROOF
  <1> DEFINE n == Name(p)
             c == Menu(n, FALSE)
  <1>1. /\ program[p].pc = "write key" /\ GotoMenu(p, FALSE)
        /\ UNCHANGED <<bought, keys, saved, lost>>
    BY DEF WriteKey
  <1>2. PICK m, path : m = n /\ path = KeyPath(m)
    OBVIOUS
  <1>3. /\ m \in Names /\ path \in Paths /\ Exists(path)
        /\ program[p].key \in Keys /\ program[p].key # << >>
        /\ program[p].pc \notin saving
    <2>1. TypeOK /\ Held(p)
      BY DEF IInv
    <2>2. m \in Names /\ Exists(path) /\ program[p].key # << >>
      BY <1>1, <1>2, <2>1 DEF Held, keyLocked
    <2> QED BY <1>1, <1>2, <2>1, <2>2, KeyPathTyped DEF TypeOK, Program, saving
  <1>4. CASE Failure /\ UNCHANGED disk /\ Mark(path, "cut", TRUE)
    <2>1. failures' \in 0 .. MaxFailures
      BY <1>4, FailureTyped DEF IInv, TypeOK
    <2>2. /\ marks \subseteq marks'
          /\ \A k \in marks' : k.path \in Paths /\ k.what \in {"raced", "cut", "early"}
          /\ Marked(path, {"raced", "cut"})'
      BY <1>3, <1>4, MarkTyped DEF IInv
    <2>3. \A k : p \in KeyMakers(k) => KeyPath(k) = path
      BY <1>2 DEF KeyMakers
    <2>4. \A k : p \in KeyMakers(k) => Marked(KeyPath(k), {"raced", "cut"})'
      BY <2>2, <2>3 DEF KeyPath
    <2>5. Name(p) \in Names /\ Exists(KeyPath(Name(p))) /\ FALSE \in BOOLEAN
      BY <1>2, <1>3
    <2>6. /\ disk' = disk /\ saved' = saved /\ bought' = bought /\ keys' = keys
          /\ lost \subseteq lost' /\ GotoMenu(p, FALSE)
          /\ program[p].pc \notin saving
      BY <1>1, <1>3, <1>4
    <2> QED BY <2>1, <2>2, <2>4, <2>5, <2>6, MenuStep
  <1>5. CASE Put(path, program[p].key) /\ UNCHANGED <<failures, marks>>
    <2>1. /\ \A q : Exists(q)' <=> Exists(q) \/ q = path
          /\ disk'[path] = program[p].key
          /\ \A q : Exists(q) /\ q # path => disk'[q] = disk[q]
          /\ DOMAIN disk' \subseteq Paths
          /\ \A q \in DOMAIN disk' : disk'[q] \in Texts
      BY <1>3, <1>5, PutIsOneFile, KeysAreTexts DEF IInv
    <2>2. Keys' = Keys /\ Texts' = Texts /\ Program' = Program
      <3>1. keys' = keys /\ bought' = bought
        BY <1>1
      <3> QED BY <3>1 DEF Keys, Texts, Program
    <2>3. Goto(p, c) /\ c \in Program
      BY <1>1, <1>2, <1>3, DownTyped DEF GotoMenu, IInv
    <2>4. c.pc = "menu" /\ c.name = m
      BY <1>2 DEF Menu, Down
    <2> HIDE DEF c
    <2>5. /\ program'[p] = c /\ program' \in [Programs -> Program']
          /\ \A q \in Programs \ {p} : program'[q] = program[q]
      BY <2>2, <2>3, GotoIsOneProgram DEF IInv
    <2>6. TypeOK'
      BY <1>1, <1>5, <2>1, <2>2, <2>5 DEF IInv, TypeOK
    <2>7. /\ \A k : KeyMakers(k)' = KeyMakers(k) \ {p}
          /\ p \in KeyMakers(m)
          /\ \A k : k # m => p \notin KeyMakers(k)
      BY <1>1, <1>2, <2>4, <2>5 DEF KeyMakers, Name, keyLocked
    <2>8. \A q : Writers(q)' = Writers(q) /\ p \notin Writers(q)
      BY <1>1, <2>4, <2>5 DEF Writers, FilePath, Name, filing
    <2>9. \A q \in Names \X FileNames : q # path
      BY <1>2, WalletAssumption DEF KeyPath
    <2>10. \A k : k # m => KeyPath(k) # path
      BY <1>2 DEF KeyPath
    <2>11. ASSUME NEW k, Settled(k)
           PROVE  Settled(k)' /\ disk'[KeyPath(k)] = disk[KeyPath(k)]
      <3>1. k # m /\ Exists(KeyPath(k)) /\ KeyMakers(k) = {}
        BY <2>7, <2>11 DEF Settled
      <3>2. Exists(KeyPath(k))'
        BY <2>1, <3>1
      <3> QED BY <2>1, <2>7, <2>10, <3>1, <3>2 DEF Settled, KeyPath
    <2>12. /\ \A q \in Programs \ {p} : Fine(q)'
           /\ \A r \in saved : ~Spoiled(r.path, {"raced", "cut"})' =>
                /\ Settled(r.path[1])' /\ Exists(r.path)' /\ Writers(r.path)' = {}
                /\ Opened(disk'[r.path], r.password, disk'[KeyPath(r.path[1])])
                     = <<r.ticket>>
      BY <1>1, <1>5, <2>1, <2>3, <2>8, <2>9, <2>11, DiskStep
    <2>13. KeyInv'
      <3>1. ASSUME NEW k \in Names
            PROVE  /\ Exists(KeyPath(k))' => disk'[KeyPath(k)] \in Keys'
                   /\ ~Marked(KeyPath(k), {"raced"})' =>
                        \A q \in KeyMakers(k)' :
                          /\ KeyMakers(k)' = {q}
                          /\ Exists(KeyPath(k))' =>
                               program'[q].pc = "write key"
                                 /\ disk'[KeyPath(k)] = << >>
                   /\ Settled(k)' /\ ~Marked(KeyPath(k), {"raced", "cut"})'
                        => disk'[KeyPath(k)] # << >>
        <4>1. CASE k = m
          <5>1. disk'[KeyPath(k)] \in Keys' /\ disk'[KeyPath(k)] # << >>
            BY <1>2, <1>3, <2>1, <2>2, <4>1
          <5>2. ASSUME ~Marked(KeyPath(k), {"raced"})', NEW q \in KeyMakers(k)'
                PROVE  FALSE
            <6>1. ~Marked(KeyPath(k), {"raced"}) /\ q \in KeyMakers(k) /\ q # p
              BY <1>5, <2>7, <5>2 DEF Marked, KeyPath
            <6>2. KeyMakers(k) = {q}
              BY <6>1 DEF IInv, KeyInv
            <6> QED BY <2>7, <4>1, <6>1, <6>2
          <5> QED BY <5>1, <5>2
        <4>2. CASE k # m
          <5>1. KeyMakers(k)' = KeyMakers(k) /\ p \notin KeyMakers(k)
            BY <2>7, <4>2
          <5> QED BY <1>5, <2>1, <2>2, <2>3, <2>10, <4>2, <5>1, KeyUntouched
        <4> QED BY <4>1, <4>2
      <3> QED BY <3>1, KeyInvNext
    <2>14. SavedInv' /\ SavedTicketOpens'
      BY <1>1, <2>12 DEF SavedInv, SavedTicketOpens, Settled, KeyMakers, Exists,
           KeyPath
    <2>15. Held(p)' /\ Encrypted(p)' /\ Alone(p)' /\ Read(p)' /\ Told(p)'
      <3>1. Exists(path)'
        BY <2>1
      <3> QED BY <1>2, <1>3, <2>4, <2>5, <3>1 DEF Held, Encrypted, Alone, Read,
                 Told, Name, keyLocked, saving, filing, reading, KeyPath
    <2>16. TicketsAccounted'
      <3>1. \A t \in 1 .. bought' : t \in 1 .. bought
        BY <1>1
      <3> QED BY <1>1, <1>3, <2>3, <3>1, AccountedStep
    <2> QED BY <2>6, <2>12, <2>13, <2>14, <2>15, <2>16, InvAfterStep DEF Disk
  <1> QED BY <1>2, <1>4, <1>5 DEF WriteKey

\* A name is chosen that no file has; if another program of the name is about to
\* open it too, that is marked (Client.cpp:307).
LEMMA ChooseNameKeepsInv ==
  ASSUME IInv, NEW p \in Programs, ChooseName(p) PROVE IInv'
PROOF
  <1> DEFINE n == Name(p)
  <1>1. /\ program[p].pc = "file name"
        /\ UNCHANGED <<disk, counters, saved, lost>>
    BY DEF ChooseName
  <1>2. PICK f \in FileNames :
          /\ ~Exists(<<n, f>>)
          /\ Goto(p, [program[p] EXCEPT !.pc = "open file", !.file = f])
          /\ Mark(<<n, f>>, "raced", MeanwhileAt(p, "open file", f))
    BY DEF ChooseName
  <1> DEFINE c == [program[p] EXCEPT !.pc = "open file", !.file = f]
  <1>3. PICK path : path = <<n, f>>
    OBVIOUS
  <1>4. /\ n \in Names /\ program[p].ticket \in 1 .. bought
        /\ program[p].keyless \/ Exists(KeyPath(n))
    BY <1>1 DEF IInv, Held, saving
  <1>5. /\ program[p] \in Program /\ path \in Names \X FileNames /\ path \in Paths
    BY <1>3, <1>4, PathsTyped DEF IInv, TypeOK
  <1>6. /\ marks \subseteq marks'
        /\ \A m \in marks' : m.path \in Paths /\ m.what \in {"raced", "cut", "early"}
        /\ MeanwhileAt(p, "open file", f) => Marked(path, {"raced"})'
    <2>1. PICK b \in BOOLEAN : b <=> MeanwhileAt(p, "open file", f)
      OBVIOUS
    <2>2. Mark(path, "raced", b)
      BY <1>2, <1>3, <2>1 DEF Mark
    <2> QED BY <1>5, <2>1, <2>2, MarkTyped DEF IInv
  <1>7. /\ c.pc = "open file" /\ c.file = f /\ c.name = n /\ c.text = program[p].text
        /\ c.keyless = program[p].keyless /\ c.password = program[p].password
        /\ c.failed = program[p].failed /\ c.ticket = program[p].ticket
    BY <1>5 DEF Program, Name
  <1>8. c \in Program
    <2>1. "open file" \in Steps
      BY DEF Steps, saving
    <2> QED BY <1>5, <2>1 DEF Program
  <1>9. Goto(p, c)
    BY <1>2
  <1> HIDE DEF c
  <1>10. Keys' = Keys /\ Texts' = Texts /\ Program' = Program
    <2>1. keys' = keys /\ bought' = bought
      BY <1>1 DEF counters
    <2> QED BY <2>1 DEF Keys, Texts, Program
  <1>11. /\ program'[p] = c /\ program' \in [Programs -> Program']
         /\ \A q \in Programs \ {p} : program'[q] = program[q]
    BY <1>8, <1>9, <1>10, GotoIsOneProgram DEF IInv
  <1>12. TypeOK'
    BY <1>1, <1>6, <1>10, <1>11 DEF IInv, TypeOK, counters
  <1>13. \A k : KeyMakers(k)' = KeyMakers(k) /\ p \notin KeyMakers(k)
    BY <1>1, <1>7, <1>11 DEF KeyMakers, Name, keyLocked
  <1>14. /\ Writers(path)' = Writers(path) \cup {p}
         /\ \A q : q # path => Writers(q)' = Writers(q)
    BY <1>1, <1>3, <1>7, <1>11 DEF Writers, FilePath, Name, filing
  <1>15. \A q : Exists(q)' <=> Exists(q)
    BY <1>1 DEF Exists
  <1>16. \A k : Settled(k) => Settled(k)' /\ disk'[KeyPath(k)] = disk[KeyPath(k)]
    BY <1>1, <1>13, <1>15 DEF Settled, KeyPath
  <1>17. ASSUME NEW q \in Writers(path), ~Marked(path, {"raced"})'
         PROVE  FALSE
    <2>1. /\ q \in Programs /\ program[q].pc \in filing /\ program[q].name = n
          /\ program[q].file = f /\ FilePath(q) = path
      BY <1>3, <1>17 DEF Writers, FilePath, Name
    <2>2. q # p
      BY <1>1, <2>1 DEF filing
    <2>3. program[q].pc = "write file"
      BY <1>6, <1>17, <2>1, <2>2 DEF MeanwhileAt, Name, filing
    <2> QED BY <1>2, <1>3, <2>1, <2>3 DEF IInv, Held
  <1>18. /\ \A q \in Programs \ {p} : Fine(q)'
         /\ \A r \in saved : ~Spoiled(r.path, {"raced", "cut"})' =>
              /\ Settled(r.path[1])' /\ Exists(r.path)' /\ Writers(r.path)' = {}
              /\ Opened(disk'[r.path], r.password, disk'[KeyPath(r.path[1])])
                   = <<r.ticket>>
    <2>1. /\ bought' = bought /\ saved' = saved
          /\ \A q \in Names \X FileNames :
               /\ Exists(q) => Writers(q)' \subseteq Writers(q)
               /\ p \notin Writers(q) =>
                    /\ Exists(q) => disk'[q] = disk[q]
                    /\ Exists(q)' => Exists(q)
                    /\ Writers(q) # {} /\ ~Marked(q, {"raced"})'
                         => Writers(q)' \subseteq Writers(q)
      BY <1>1, <1>2, <1>3, <1>14, <1>15, <1>17 DEF counters
    <2> QED BY <1>6, <1>9, <1>15, <1>16, <2>1, DiskStep
  <1>19. KeyInv'
    <2>1. keys' = keys /\ disk' = disk
      BY <1>1 DEF counters
    <2> QED BY <1>6, <1>9, <1>10, <1>13, <1>15, <2>1, KeyUntouched, KeyInvNext
  <1>20. SavedInv' /\ SavedTicketOpens'
    BY <1>1, <1>18 DEF SavedInv, SavedTicketOpens, Settled, KeyMakers, Exists,
         KeyPath
  <1>21. Name(p)' = n /\ FilePath(p)' = path
    BY <1>3, <1>7, <1>11 DEF Name, FilePath
  <1>22. Held(p)' /\ Read(p)' /\ Told(p)'
    BY <1>1, <1>4, <1>7, <1>11 DEF Held, Read, Told, Name, keyLocked, saving, filing,
         reading, KeyPath, Exists, counters
  <1>23. Alone(p)'
    BY <1>2, <1>3, <1>14, <1>15, <1>17, <1>21 DEF Alone
  <1>24. Encrypted(p)'
    <2>1. PICK m : m = n
      OBVIOUS
    <2>2. ASSUME NEW how, Marked(KeyPath(m), how) PROVE Marked(KeyPath(m), how)'
      BY <1>6, <2>2 DEF Marked, KeyPath
    <2>3. Settled(m) => Settled(m)' /\ disk'[KeyPath(m)] = disk[KeyPath(m)]
      BY <1>16
    <2>4. ~Marked(KeyPath(m), {"raced"}) =>
            /\ Settled(m)
            /\ ~Marked(KeyPath(m), {"cut"}) /\ ~program[p].failed =>
                 Opened(program[p].text, program[p].password, disk[KeyPath(m)])
                   = <<program[p].ticket>>
      BY <1>1, <2>1 DEF IInv, Encrypted
    <2> QED BY <1>7, <1>11, <1>21, <2>1, <2>2, <2>3, <2>4 DEF Encrypted, KeyPath
  <1>25. TicketsAccounted'
    <2>1. \A t \in 1 .. bought' : t \in 1 .. bought
      BY <1>1 DEF counters
    <2> QED BY <1>1, <1>7, <1>9, <2>1, AccountedStep DEF saving
  <1> QED BY <1>12, <1>18, <1>19, <1>20, <1>22, <1>23, <1>24, <1>25, InvAfterStep
         DEF Disk

\* The file is opened by the one program that chose its name, unless the name
\* was raced (Client.cpp:319).
LEMMA OpenFileKeepsInv ==
  ASSUME IInv, NEW p \in Programs, OpenFile(p) PROVE IInv'
PROOF
  <1> DEFINE n == Name(p)
             c == [program[p] EXCEPT !.pc = "write file"]
  <1>1. /\ program[p].pc = "open file"
        /\ UNCHANGED <<bought, keys, saved, marks>>
    BY DEF OpenFile
  <1>2. PICK path : path = <<n, program[p].file>>
    OBVIOUS
  <1>3. CASE /\ Failure /\ BackToMenu(p) /\ UNCHANGED disk
             /\ Lose(program[p].ticket, "no file", program[p].keyless)
    BY <1>1, <1>3, OpenFileFailKeepsInv
  <1>4. CASE Put(path, << >>) /\ Goto(p, c) /\ UNCHANGED <<failures, lost>>
    <2>1. /\ n \in Names /\ program[p].file \in FileNames
          /\ program[p].ticket \in 1 .. bought
          /\ program[p].keyless \/ Exists(KeyPath(n))
      BY <1>1 DEF IInv, Held, saving, filing
    <2>2. /\ program[p] \in Program /\ path \in Names \X FileNames
          /\ path \in Paths /\ << >> \in Texts
      BY <1>2, <2>1, PathsTyped, DownTyped DEF IInv, TypeOK
    <2>3. /\ \A q : Exists(q)' <=> Exists(q) \/ q = path
          /\ disk'[path] = << >>
          /\ \A q : Exists(q) /\ q # path => disk'[q] = disk[q]
          /\ DOMAIN disk' \subseteq Paths
          /\ \A q \in DOMAIN disk' : disk'[q] \in Texts
      BY <1>4, <2>2, PutIsOneFile DEF IInv
    <2>4. Keys' = Keys /\ Texts' = Texts /\ Program' = Program
      <3>1. keys' = keys /\ bought' = bought
        BY <1>1
      <3> QED BY <3>1 DEF Keys, Texts, Program
    <2>5. c \in Program
      <3>1. "write file" \in Steps
        BY DEF Steps, saving
      <3> QED BY <2>2, <3>1 DEF Program
    <2>6. /\ c.pc = "write file" /\ c.name = n /\ c.file = program[p].file
          /\ c.text = program[p].text /\ c.keyless = program[p].keyless
          /\ c.password = program[p].password /\ c.failed = program[p].failed
          /\ c.ticket = program[p].ticket
      BY <2>2 DEF Program, Name
    <2>7. Goto(p, c)
      BY <1>4
    <2> HIDE DEF c
    <2>8. /\ program'[p] = c /\ program' \in [Programs -> Program']
          /\ \A q \in Programs \ {p} : program'[q] = program[q]
      BY <2>4, <2>5, <2>7, GotoIsOneProgram DEF IInv
    <2>9. TypeOK'
      BY <1>1, <1>4, <2>3, <2>4, <2>8 DEF IInv, TypeOK
    <2>10. \A k : KeyMakers(k)' = KeyMakers(k) /\ p \notin KeyMakers(k)
      BY <1>1, <2>6, <2>8 DEF KeyMakers, Name, keyLocked
    <2>11. (\A q : Writers(q)' = Writers(q)) /\ p \in Writers(path)
      BY <1>1, <1>2, <2>6, <2>8 DEF Writers, FilePath, Name, filing
    <2>12. \A k : KeyPath(k) # path
      BY <1>2, <2>1, PathFacts
    <2>13. \A k : /\ Exists(KeyPath(k))' <=> Exists(KeyPath(k))
                  /\ Exists(KeyPath(k)) => disk'[KeyPath(k)] = disk[KeyPath(k)]
      <3> TAKE k
      <3>1. PICK q : q = KeyPath(k)
        OBVIOUS
      <3> QED BY <2>3, <2>12, <3>1 DEF KeyPath
    <2>14. \A k : Settled(k) => Settled(k)' /\ disk'[KeyPath(k)] = disk[KeyPath(k)]
      BY <2>10, <2>13 DEF Settled, KeyPath
    <2>15. /\ \A q \in Programs \ {p} : Fine(q)'
           /\ \A r \in saved : ~Spoiled(r.path, {"raced", "cut"})' =>
                /\ Settled(r.path[1])' /\ Exists(r.path)' /\ Writers(r.path)' = {}
                /\ Opened(disk'[r.path], r.password, disk'[KeyPath(r.path[1])])
                     = <<r.ticket>>
      <3>1. \A q \in Names \X FileNames :
              /\ Exists(q) => Writers(q)' \subseteq Writers(q)
              /\ p \notin Writers(q) =>
                   /\ Exists(q) => disk'[q] = disk[q]
                   /\ Exists(q)' => Exists(q)
                   /\ Writers(q) # {} /\ ~Marked(q, {"raced"})'
                        => Writers(q)' \subseteq Writers(q)
        BY <2>3, <2>11
      <3> QED BY <1>1, <2>3, <2>7, <2>14, <3>1, DiskStep
    <2>16. KeyInv'
      BY <1>1, <2>4, <2>7, <2>10, <2>13, KeyUntouched, KeyInvNext
    <2>17. SavedInv' /\ SavedTicketOpens'
      BY <1>1, <2>15 DEF SavedInv, SavedTicketOpens, Settled, KeyMakers, Exists,
           KeyPath
    <2>18. Name(p)' = n /\ FilePath(p)' = path /\ FilePath(p) = path
      BY <1>2, <2>6, <2>8 DEF Name, FilePath
    <2>19. Held(p)' /\ Read(p)' /\ Told(p)'
      <3>1. PICK m : m = n
        OBVIOUS
      <3>2. Exists(path)' /\ (Exists(KeyPath(m)) => Exists(KeyPath(m))')
        BY <2>3, <2>13
      <3> QED BY <1>1, <2>1, <2>6, <2>8, <2>18, <3>1, <3>2 DEF Held, Read, Told, Name,
                 keyLocked, saving, filing, reading, KeyPath
    <2>20. Alone(p)'
      <3>1. Marked(path, {"raced"})' <=> Marked(path, {"raced"})
        BY <1>1 DEF Marked
      <3> QED BY <1>1, <2>6, <2>8, <2>11, <2>18, <3>1 DEF IInv, Alone, filing
    <2>21. Encrypted(p)'
      <3>1. PICK m : m = n
        OBVIOUS
      <3>2. \A how : Marked(KeyPath(m), how)' <=> Marked(KeyPath(m), how)
        BY <1>1 DEF Marked, KeyPath
      <3>3. Settled(m) => Settled(m)' /\ disk'[KeyPath(m)] = disk[KeyPath(m)]
        BY <2>14
      <3>4. ~Marked(KeyPath(m), {"raced"}) =>
              /\ Settled(m)
              /\ ~Marked(KeyPath(m), {"cut"}) /\ ~program[p].failed =>
                   Opened(program[p].text, program[p].password, disk[KeyPath(m)])
                     = <<program[p].ticket>>
        BY <1>1, <3>1 DEF IInv, Encrypted, filing
      <3> QED BY <2>6, <2>8, <2>18, <3>1, <3>2, <3>3, <3>4 DEF Encrypted, KeyPath
    <2>22. TicketsAccounted'
      <3>1. \A t \in 1 .. bought' : t \in 1 .. bought
        BY <1>1
      <3> QED BY <1>1, <1>4, <2>6, <2>7, <3>1, AccountedStep DEF saving
    <2> QED BY <2>9, <2>15, <2>16, <2>17, <2>19, <2>20, <2>21, <2>22, InvAfterStep
           DEF Disk
  <1> QED BY <1>2, <1>3, <1>4 DEF OpenFile

\* What "Ticket saved to" does to the disk: the file holds the text, or the mark
\* says that it was cut (Client.cpp:324).
LEMMA WriteFileDisk ==
  ASSUME IInv, NEW p \in Programs, WriteFile(p), NEW path,
         path = <<Name(p), program[p].file>>
  PROVE  /\ path \in Names \X FileNames
         /\ Exists(path)
         /\ \A q : Exists(q)' <=> Exists(q)
         /\ \A q : Exists(q) /\ q # path => disk'[q] = disk[q]
         /\ DOMAIN disk' \subseteq Paths
         /\ \A q \in DOMAIN disk' : disk'[q] \in Texts
         /\ marks \subseteq marks'
         /\ \A m \in marks' : m.path \in Paths /\ m.what \in {"raced", "cut", "early"}
         /\ failures' \in 0 .. MaxFailures
         /\ ~Marked(path, {"cut"})' =>
              disk'[path] = program[p].text /\ ~program[p].failed
PROOF
  <1>1. program[p].pc = "write file"
    BY DEF WriteFile
  <1>2. TypeOK /\ Held(p)
    BY DEF IInv
  <1>3. /\ path \in Names \X FileNames
        /\ Exists(path)
    BY <1>1, <1>2 DEF Held, FilePath, filing
  <1>4. path \in Paths /\ program[p].text \in Texts /\ program[p].failed \in BOOLEAN
    BY <1>2, <1>3 DEF Paths, TypeOK, Program
  <1>5. CASE Failure /\ Mark(path, "cut", TRUE) /\ UNCHANGED disk
    <2>1. failures' \in 0 .. MaxFailures
      BY <1>2, <1>5, FailureTyped DEF TypeOK
    <2>2. /\ marks \subseteq marks'
          /\ \A m \in marks' : m.path \in Paths /\ m.what \in {"raced", "cut", "early"}
          /\ Marked(path, {"cut"})'
      BY <1>2, <1>4, <1>5, MarkTyped
    <2>3. /\ DOMAIN disk' \subseteq Paths
          /\ \A q \in DOMAIN disk' : disk'[q] \in Texts
      BY <1>2, <1>5 DEF TypeOK
    <2>4. \A q : (Exists(q)' <=> Exists(q)) /\ disk'[q] = disk[q]
      BY <1>5 DEF Exists
    <2> QED BY <1>3, <2>1, <2>2, <2>3, <2>4
  <1>6. CASE /\ Put(path, program[p].text) /\ Mark(path, "cut", program[p].failed)
             /\ UNCHANGED failures
    <2>1. failures' \in 0 .. MaxFailures
      BY <1>2, <1>6 DEF TypeOK
    <2>2. /\ marks \subseteq marks'
          /\ \A m \in marks' : m.path \in Paths /\ m.what \in {"raced", "cut", "early"}
          /\ program[p].failed => Marked(path, {"cut"})'
      BY <1>2, <1>4, <1>6, MarkTyped
    <2>3. /\ \A q : Exists(q)' <=> Exists(q) \/ q = path
          /\ disk'[path] = program[p].text
          /\ \A q : Exists(q) /\ q # path => disk'[q] = disk[q]
          /\ DOMAIN disk' \subseteq Paths
          /\ \A q \in DOMAIN disk' : disk'[q] \in Texts
      BY <1>2, <1>4, <1>6, PutIsOneFile
    <2>4. \A q : Exists(q)' <=> Exists(q)
      BY <1>3, <2>3
    <2> QED BY <1>3, <2>1, <2>2, <2>3, <2>4
  <1>7. \/ /\ Put(path, program[p].text) /\ Mark(path, "cut", program[p].failed)
           /\ UNCHANGED failures
        \/ Failure /\ Mark(path, "cut", TRUE) /\ UNCHANGED disk
    BY DEF WriteFile
  <1> QED BY <1>5, <1>6, <1>7

\* A ticket whose owner is told that it is saved opens, unless something marked
\* happened to its file or its key; and it is accounted for.
LEMMA WriteFileKeepsInv ==
  ASSUME IInv, NEW p \in Programs, WriteFile(p) PROVE IInv'
PROOF
  <1> DEFINE n == Name(p)
             c == Menu(n, program[p].keyless)
  <1>1. /\ program[p].pc = "write file" /\ Goto(p, c)
        /\ UNCHANGED <<bought, keys, lost>>
    BY DEF WriteFile, BackToMenu, GotoMenu
  <1>2. PICK path, m : m = n /\ path = <<n, program[p].file>>
    OBVIOUS
  <1>3. PICK r0 : /\ saved' = saved \cup {r0}
                  /\ r0.ticket = program[p].ticket /\ r0.path = path
                  /\ r0.password = program[p].password
    <2> DEFINE r == [ticket |-> program[p].ticket,
                     path |-> <<Name(p), program[p].file>>,
                     password |-> program[p].password]
    <2>1. /\ r.ticket = program[p].ticket /\ r.path = path
          /\ r.password = program[p].password
      BY <1>2
    <2>2. saved' = saved \cup {r}
      BY DEF WriteFile
    <2> HIDE DEF r
    <2> QED BY <2>1, <2>2
  <1>4. /\ path \in Names \X FileNames /\ Exists(path) /\ path[1] = m
        /\ \A q : Exists(q)' <=> Exists(q)
        /\ \A q : Exists(q) /\ q # path => disk'[q] = disk[q]
        /\ marks \subseteq marks'
        /\ ~Marked(path, {"cut"})' =>
             disk'[path] = program[p].text /\ ~program[p].failed
    BY <1>2, WriteFileDisk
  <1>5. /\ m \in Names /\ program[p].ticket \in 1 .. bought
        /\ program[p].keyless \/ Exists(KeyPath(m))
    BY <1>1, <1>2 DEF IInv, Held, saving
  <1>6. Keys' = Keys /\ Texts' = Texts /\ Program' = Program
    <2>1. keys' = keys /\ bought' = bought
      BY <1>1
    <2> QED BY <2>1 DEF Keys, Texts, Program
  <1>7. c \in Program
    <2>1. program[p].keyless \in BOOLEAN
      BY DEF IInv, TypeOK, Program
    <2> QED BY <1>2, <1>5, <2>1, DownTyped DEF IInv
  <1>8. c.pc = "menu" /\ c.name = m /\ c.keyless = program[p].keyless
    BY <1>2 DEF Menu, Down
  <1> HIDE DEF c
  <1>9. /\ program'[p] = c /\ program' \in [Programs -> Program']
        /\ \A q \in Programs \ {p} : program'[q] = program[q]
    BY <1>1, <1>6, <1>7, GotoIsOneProgram DEF IInv
  <1>10. TypeOK'
    <2>1. \A r \in saved' : r.path \in Names \X FileNames
      BY <1>3, <1>4 DEF IInv, TypeOK
    <2>2. /\ DOMAIN disk' \subseteq Paths
          /\ \A q \in DOMAIN disk' : disk'[q] \in Texts
          /\ \A k \in marks' : k.path \in Paths /\ k.what \in {"raced", "cut", "early"}
          /\ failures' \in 0 .. MaxFailures
      BY <1>2, WriteFileDisk
    <2>3. bought' \in 0 .. MaxBought /\ keys' \in 0 .. MaxKeys
      BY <1>1 DEF IInv, TypeOK
    <2> QED BY <1>6, <1>9, <2>1, <2>2, <2>3 DEF TypeOK
  <1>11. \A k : KeyMakers(k)' = KeyMakers(k) /\ p \notin KeyMakers(k)
    BY <1>1, <1>8, <1>9 DEF KeyMakers, Name, keyLocked
  <1>12. /\ \A q : Writers(q)' = Writers(q) \ {p}
         /\ \A q : p \in Writers(q) <=> q = path
    BY <1>1, <1>2, <1>8, <1>9 DEF Writers, FilePath, Name, filing
  <1>13. \A k : /\ Exists(KeyPath(k))' <=> Exists(KeyPath(k))
                /\ Exists(KeyPath(k)) => disk'[KeyPath(k)] = disk[KeyPath(k)]
    <2> TAKE k
    <2>1. PICK q : q = KeyPath(k)
      OBVIOUS
    <2>2. q # path
      BY <1>4, <2>1, WalletAssumption DEF KeyPath
    <2> QED BY <1>4, <2>1, <2>2 DEF KeyPath
  <1>14. \A k : Settled(k) => Settled(k)' /\ disk'[KeyPath(k)] = disk[KeyPath(k)]
    BY <1>11, <1>13 DEF Settled, KeyPath
  <1>15. /\ \A q \in Programs \ {p} : Fine(q)'
         /\ \A r \in saved : ~Spoiled(r.path, {"raced", "cut"})' =>
              /\ Settled(r.path[1])' /\ Exists(r.path)' /\ Writers(r.path)' = {}
              /\ Opened(disk'[r.path], r.password, disk'[KeyPath(r.path[1])])
                   = <<r.ticket>>
    <2>1. \A q \in Names \X FileNames :
            /\ Exists(q) => Writers(q)' \subseteq Writers(q)
            /\ p \notin Writers(q) =>
                 /\ Exists(q) => disk'[q] = disk[q]
                 /\ Exists(q)' => Exists(q)
                 /\ Writers(q) # {} /\ ~Marked(q, {"raced"})'
                      => Writers(q)' \subseteq Writers(q)
      BY <1>4, <1>12
    <2>2. \A r \in saved' \ saved : p \in Writers(r.path)
      BY <1>3, <1>12
    <2> QED BY <1>1, <1>3, <1>4, <1>14, <2>1, <2>2, DiskStep
  <1>16. KeyInv'
    BY <1>1, <1>4, <1>6, <1>11, <1>13, KeyUntouched, KeyInvNext
  <1>17. ASSUME ~Spoiled(path, {"raced", "cut"})'
         PROVE  /\ Settled(m)' /\ Exists(path)' /\ Writers(path)' = {}
                /\ Opened(disk'[path], program[p].password, disk'[KeyPath(m)])
                     = <<program[p].ticket>>
    <2>1. /\ ~Marked(path, {"raced"})' /\ ~Marked(path, {"cut"})'
          /\ ~Marked(KeyPath(m), {"raced"})' /\ ~Marked(KeyPath(m), {"cut"})'
      BY <1>4, <1>17 DEF Spoiled, Marked, KeyPath
    <2>2. /\ ~Marked(path, {"raced"}) /\ ~Marked(KeyPath(m), {"raced"})
          /\ ~Marked(KeyPath(m), {"cut"})
      BY <1>4, <2>1 DEF Marked, KeyPath
    <2>3. Writers(path) = {p}
      BY <1>1, <1>2, <2>2 DEF IInv, Alone, FilePath, filing
    <2>4. disk'[path] = program[p].text /\ ~program[p].failed
      BY <1>4, <2>1
    <2>5. /\ Settled(m)
          /\ Opened(program[p].text, program[p].password, disk[KeyPath(m)])
               = <<program[p].ticket>>
      BY <1>1, <1>2, <2>2, <2>4 DEF IInv, Encrypted, filing
    <2>6. Settled(m)' /\ disk'[KeyPath(m)] = disk[KeyPath(m)]
      BY <1>14, <2>5
    <2> QED BY <1>4, <1>12, <2>3, <2>4, <2>5, <2>6
  <1>18. SavedInv' /\ SavedTicketOpens'
    <2>1. ASSUME NEW r \in saved', ~Spoiled(r.path, {"raced", "cut"})'
          PROVE  /\ Settled(r.path[1])' /\ Exists(r.path)' /\ Writers(r.path)' = {}
                 /\ Opened(disk'[r.path], r.password, disk'[KeyPath(r.path[1])])
                      = <<r.ticket>>
      <3>1. CASE r \in saved
        BY <1>15, <2>1, <3>1
      <3>2. CASE r = r0
        <4>1. ~Spoiled(path, {"raced", "cut"})'
          BY <1>3, <2>1, <3>2 DEF Spoiled, KeyPath
        <4> QED BY <1>3, <1>4, <1>17, <3>2, <4>1 DEF Settled, KeyMakers, Exists,
                   KeyPath, Writers, FilePath, Name
      <3> QED BY <1>3, <3>1, <3>2
    <2> QED BY <2>1 DEF SavedInv, SavedTicketOpens, Settled, KeyMakers, Exists,
               KeyPath
  <1>19. Name(p)' = m
    BY <1>8, <1>9 DEF Name
  <1>20. Held(p)' /\ Encrypted(p)' /\ Alone(p)' /\ Read(p)' /\ Told(p)'
    <2>1. Exists(KeyPath(m)) => Exists(KeyPath(m))'
      BY <1>13
    <2> QED BY <1>5, <1>8, <1>9, <1>19, <2>1 DEF Held, Encrypted, Alone, Read, Told,
               Name, keyLocked, saving, filing, reading, KeyPath
  <1>21. TicketsAccounted'
    <2>1. \A t \in 1 .. bought' : t \in 1 .. bought
      BY <1>1
    <2>2. \E r \in saved' : r.ticket = program[p].ticket
      BY <1>3
    <2> QED BY <1>1, <1>3, <2>1, <2>2, AccountedStep
  <1> QED BY <1>10, <1>15, <1>16, <1>18, <1>20, <1>21, InvAfterStep DEF Disk

-----------------------------------------------------------------------------
(***************************************************************************)
(* The theorems.                                                           *)
(***************************************************************************)

LEMMA InitInv == Init => IInv
PROOF
  <1> SUFFICES ASSUME Init PROVE IInv
    OBVIOUS
  <1>1. 0 \in Nat /\ bought = 0 /\ keys = 0 /\ failures = 0
    BY DEF Init
  <1>2. << >> \in Keys /\ << >> \in Texts /\ "down" \in Steps /\ 0 \in 0 .. bought
    BY <1>1 DEF Keys, Texts, Steps
  <1>3. Down \in Program
    BY <1>2 DEF Down, Program
  <1>4. \A p \in Programs : program[p] = Down /\ program[p].pc = "down"
    BY DEF Init, Down
  <1>5. TypeOK
    <2>1. program \in [Programs -> Program]
      BY <1>3 DEF Init
    <2>2. bought \in 0 .. MaxBought /\ keys \in 0 .. MaxKeys
          /\ failures \in 0 .. MaxFailures
      BY <1>1, WalletAssumption
    <2>3. DOMAIN disk = {} /\ saved = {} /\ marks = {}
      BY DEF Init
    <2> QED BY <2>1, <2>2, <2>3 DEF TypeOK
  <1>6. DOMAIN disk = {} /\ saved = {}
    BY DEF Init
  <1>7. KeyInv
    BY <1>4, <1>6 DEF KeyInv, Exists, Settled, KeyMakers, keyLocked
  <1>8. SavedInv /\ SavedTicketOpens /\ ToldTheTruth
    BY <1>6 DEF SavedInv, SavedTicketOpens, ToldTheTruth
  <1>9. \A p \in Programs : Held(p) /\ Encrypted(p) /\ Alone(p) /\ Read(p)
    BY <1>4 DEF Held, Encrypted, Alone, Read, keyLocked, saving, filing, reading
  <1>10. TicketsAccounted
    <2>1. 1 .. bought = {}
      BY <1>1
    <2> QED BY <2>1 DEF TicketsAccounted
  <1> QED BY <1>5, <1>7, <1>8, <1>9, <1>10 DEF IInv

LEMMA StepKeepsInv ==
  ASSUME IInv, [Next]_vars PROVE IInv'
PROOF
  <1>1. CASE UNCHANGED vars
    <2>1. /\ disk' = disk /\ program' = program /\ saved' = saved /\ lost' = lost
          /\ marks' = marks /\ bought' = bought /\ keys' = keys
          /\ failures' = failures
      BY <1>1 DEF vars, counters
    <2>2. Keys' = Keys /\ Texts' = Texts /\ Program' = Program
      BY <2>1 DEF Keys, Texts, Program
    <2>3. TypeOK'
      BY <2>1, <2>2 DEF IInv, TypeOK
    <2>4. KeyInv'
      BY <2>1, <2>2 DEF IInv, KeyInv, Settled, Exists, KeyMakers, Marked, Name,
         KeyPath
    <2>5. SavedInv' /\ SavedTicketOpens' /\ ToldTheTruth'
      BY <2>1 DEF IInv, SavedInv, SavedTicketOpens, ToldTheTruth, Settled, Exists,
         KeyMakers, Spoiled, Writers, FilePath, Name, KeyPath
    <2>6. \A p \in Programs : Held(p)' /\ Encrypted(p)' /\ Alone(p)' /\ Read(p)'
      BY <2>1 DEF IInv, Held, Encrypted, Alone, Read, Settled, Exists, KeyMakers,
         Marked, Spoiled, Writers, FilePath, Name, KeyPath
    <2>7. TicketsAccounted'
      BY <2>1 DEF IInv, TicketsAccounted
    <2> QED BY <2>3, <2>4, <2>5, <2>6, <2>7 DEF IInv
  <1>2. ASSUME NEW p \in Programs,
               \/ SignIn(p) \/ GenerateKey(p) \/ OpenKey(p) \/ WriteKey(p)
               \/ Purchase(p) \/ ReadKey(p) \/ Encrypt(p) \/ ChooseName(p)
               \/ OpenFile(p) \/ WriteFile(p)
               \/ ReadFile(p) \/ Unlock(p) \/ Continue(p) \/ Leave(p)
        PROVE  IInv'
    BY <1>2, SignInKeepsInv, GenerateKeyKeepsInv, OpenKeyKeepsInv, WriteKeyKeepsInv,
       PurchaseKeepsInv, ReadKeyKeepsInv, EncryptKeepsInv, ChooseNameKeepsInv,
       OpenFileKeepsInv, WriteFileKeepsInv, ReadFileKeepsInv, UnlockKeepsInv,
       ContinueKeepsInv, LeaveKeepsInv
  <1> QED BY <1>1, <1>2 DEF Next

\* Every reachable state of the programs and their files satisfies the invariant.
THEOREM WalletInvariant == Spec => []IInv
PROOF BY InitInv, StepKeepsInv, PTL DEF Spec

\* Files hold keys and tickets under two layers, and programs have the states of
\* the code.
THEOREM WalletTypeCorrect == Spec => []TypeOK
PROOF
  <1>1. IInv => TypeOK
    BY DEF IInv
  <1> QED BY <1>1, WalletInvariant, PTL

\* A ticket its owner was told is saved opens with its password for ever, unless
\* its file or its key was raced or cut (Client.cpp:177, 192, 307).
THEOREM SavedTicketOpensHolds == Spec => []SavedTicketOpens
PROOF
  <1>1. IInv => SavedTicketOpens
    BY DEF IInv
  <1> QED BY <1>1, WalletInvariant, PTL

\* "Password is incorrect" is true of a ticket that was saved and not spoiled
\* (Client.cpp:369, 723).
THEOREM ToldTheTruthHolds == Spec => []ToldTheTruth
PROOF
  <1>1. IInv => ToldTheTruth
    BY DEF IInv
  <1> QED BY <1>1, WalletInvariant, PTL

\* No ticket disappears in silence (Client.cpp:280).
THEOREM TicketsAccountedHolds == Spec => []TicketsAccounted
PROOF
  <1>1. IInv => TicketsAccounted
    BY DEF IInv
  <1> QED BY <1>1, WalletInvariant, PTL

\* A key that was written is never written again, unless two programs found no
\* key together (Client.cpp:177).
THEOREM KeyNeverReplacedHolds == Spec => KeyNeverReplaced
PROOF
  <1>1. ASSUME IInv, [Next]_vars, NEW n \in Names, Exists(KeyPath(n)),
               disk[KeyPath(n)] # << >>, ~Marked(KeyPath(n), {"raced"})'
        PROVE  Exists(KeyPath(n))' /\ disk'[KeyPath(n)] = disk[KeyPath(n)]
    <2>1. CASE disk' = disk
      BY <1>1, <2>1 DEF Exists, KeyPath
    <2>2. ASSUME NEW p \in Programs, OpenKey(p) \/ WriteKey(p), disk' # disk
          PROVE  Exists(KeyPath(n))' /\ disk'[KeyPath(n)] = disk[KeyPath(n)]
      <3>1. PICK path, text : path = KeyPath(Name(p)) /\ Put(path, text)
        BY <2>2 DEF OpenKey, WriteKey
      <3>2. \/ program[p].pc = "open key" /\ marks' = marks
            \/ program[p].pc = "write key" /\ marks' = marks
        BY <2>2 DEF OpenKey, WriteKey
      <3>3. ~Marked(KeyPath(n), {"raced"})
        BY <1>1, <3>2 DEF Marked, KeyPath
      <3>4. Name(p) # n
        <4>1. SUFFICES ASSUME Name(p) = n PROVE FALSE
          OBVIOUS
        <4>2. p \in KeyMakers(n)
          BY <3>2, <4>1 DEF KeyMakers, keyLocked
        <4>3. disk[KeyPath(n)] = << >>
          BY <1>1, <3>3, <4>2 DEF IInv, KeyInv
        <4> QED BY <1>1, <4>3
      <3>5. path # KeyPath(n)
        BY <3>1, <3>4 DEF KeyPath
      <3> QED BY <1>1, <3>1, <3>5, PutIsOneFile DEF KeyPath
    <2>3. ASSUME NEW p \in Programs, OpenFile(p) \/ WriteFile(p), disk' # disk
          PROVE  Exists(KeyPath(n))' /\ disk'[KeyPath(n)] = disk[KeyPath(n)]
      <3>1. PICK path, text : path = <<Name(p), program[p].file>> /\ Put(path, text)
        BY <2>3 DEF OpenFile, WriteFile
      <3>2. program[p].pc \in filing
        BY <2>3 DEF OpenFile, WriteFile, filing
      <3>3. program[p].file \in FileNames
        BY <1>1, <3>2 DEF IInv, Held
      <3>4. path # KeyPath(n)
        BY <3>1, <3>3, PathFacts
      <3> QED BY <1>1, <3>1, <3>4, PutIsOneFile DEF KeyPath
    <2>4. \/ disk' = disk
          \/ \E p \in Programs : OpenKey(p) \/ WriteKey(p) \/ OpenFile(p) \/ WriteFile(p)
      BY <1>1 DEF Next, vars, SignIn, GenerateKey, Purchase, ReadKey, Encrypt,
         ChooseName, ReadFile, Unlock, Continue, Leave
    <2> QED BY <2>1, <2>2, <2>3, <2>4
  <1>2. IInv /\ [Next]_vars =>
          [\A n \in Names :
             /\ KeyPath(n) \in DOMAIN disk
             /\ disk[KeyPath(n)] # << >>
             /\ ~\E m \in marks' : m.path = KeyPath(n) /\ m.what = "raced"
             => KeyPath(n) \in DOMAIN disk' /\ disk'[KeyPath(n)] = disk[KeyPath(n)]]_vars
    BY <1>1 DEF Exists, Marked, KeyPath
  <1> QED BY <1>2, WalletInvariant, PTL DEF Spec, KeyNeverReplaced
=============================================================================
