---------------------------- MODULE WalletSafety ----------------------------
(***************************************************************************)
(* What the ticket files promise their owner, and the few ways in which    *)
(* the promise is broken: programs of one name in each other's way, and    *)
(* writes that fail or are cut short.                                      *)
(***************************************************************************)
EXTENDS Wallet, FiniteSets

Texts ==
  {<< >>} \cup {<<k>> : k \in 1 .. keys} \cup {<<t>> : t \in 1 .. bought}
  \cup {<<password>> : password \in Passwords}
  \cup {<<password, k, t>> :
          password \in Passwords, k \in 1 .. keys, t \in 1 .. bought}

Keys == {<< >>} \cup {<<k>> : k \in 1 .. keys}

Steps == {"down", "check key", "menu", "unlock", "told"} \cup keyLocked \cup saving

Program ==
  [pc : Steps, name : Names \cup {Unknown}, keyless : BOOLEAN,
   ticket : 0 .. bought, key : Keys, text : Texts,
   password : Passwords \cup {Unknown}, file : FileNames \cup {Unknown},
   failed : BOOLEAN, sell : BOOLEAN]

\* Files hold keys and tickets under two layers; programs have the states of
\* the code.
TypeOK ==
  /\ DOMAIN disk \subseteq Paths
  /\ \A path \in DOMAIN disk : disk[path] \in Texts
  /\ program \in [Programs -> Program]
  /\ bought \in 0 .. MaxBought /\ keys \in 0 .. MaxKeys
  /\ failures \in 0 .. MaxFailures
  /\ \A r \in saved : r.path \in Names \X FileNames
  /\ \A m \in marks : m.path \in Paths /\ m.what \in {"raced", "cut", "early"}

Spoiled(path, how) ==
  \E m \in marks : m.path \in {path, KeyPath(path[1])} /\ m.what \in how

\* A ticket its owner was told is saved opens with the password it was saved
\* with, for ever, whatever other programs of any name do and wherever they are
\* killed; unless two programs generated the key of the name together, two chose
\* one file name together, or a write was cut short (Client.cpp:177, 192, 307).
SavedTicketOpens ==
  \A r \in saved :
    ~Spoiled(r.path, {"raced", "cut"}) =>
      /\ {r.path, KeyPath(r.path[1])} \subseteq DOMAIN disk
      /\ Opened(disk[r.path], r.password, disk[KeyPath(r.path[1])]) = <<r.ticket>>

\* "Password is incorrect" is true of a ticket that was saved when it was chosen
\* and not spoiled: what is read before the prompt is not stale after it, and
\* SELL TICKET ends the program for a wrong password only (Client.cpp:369, 723).
ToldTheTruth ==
  \A p \in Programs : \A r \in saved :
    /\ program[p].pc = "told" /\ program[p].password = r.password
    /\ r.path = <<program[p].name, program[p].file>>
    /\ ~Spoiled(r.path, {"raced", "cut", "early"})
    => program[p].text = <<r.ticket>>

\* No ticket disappears in silence: what was bought is being saved, is saved, or
\* was lost with its program or with an error message; for lack of a key only
\* after a sign-in that failed to make one (Client.cpp:280).
TicketsAccounted ==
  \A t \in 1 .. bought :
    \/ \E p \in Programs : program[p].pc \in saving /\ program[p].ticket = t
    \/ \E r \in saved : r.ticket = t
    \/ \E l \in lost : l.ticket = t /\ (l.why = "no key" => l.keyless)

\* A key that was written is never written again, over any number of sign-ins
\* under its name, unless two of them found no key together (Client.cpp:177).
KeyNeverReplaced ==
  [][\A n \in Names :
       /\ KeyPath(n) \in DOMAIN disk
       /\ disk[KeyPath(n)] # << >>
       /\ ~\E m \in marks' : m.path = KeyPath(n) /\ m.what = "raced"
       => KeyPath(n) \in DOMAIN disk' /\ disk'[KeyPath(n)] = disk[KeyPath(n)]]_vars

-----------------------------------------------------------------------------
(***************************************************************************)
(* The inductive invariant: what a program holds at each step, and who is  *)
(* alone with a file as long as no mark says otherwise.                    *)
(***************************************************************************)

Marked(path, how) == \E m \in marks : m.path = path /\ m.what \in how

FilePath(p) == <<Name(p), program[p].file>>

filing == {"open file", "write file"}
reading == {"unlock", "told"}

KeyMakers(n) ==
  {p \in Programs : Name(p) = n /\ program[p].pc \in keyLocked}

Writers(path) ==
  {p \in Programs : program[p].pc \in filing /\ FilePath(p) = path}

\* The key of n is on the disk, and nobody is about to write it.
Settled(n) == Exists(KeyPath(n)) /\ KeyMakers(n) = {}

\* What a program has chosen, was sold or generated, and the files there are
\* because it got this far.
Held(p) ==
  /\ program[p].pc # "down" => Name(p) \in Names
  /\ program[p].pc \in keyLocked => program[p].key # << >>
  /\ program[p].pc \in saving => program[p].ticket \in 1 .. bought
  /\ program[p].pc \in filing \cup reading => program[p].file \in FileNames
  /\ program[p].pc \in {"write file"} \cup reading => Exists(FilePath(p))
  /\ program[p].pc = "write key" => Exists(KeyPath(Name(p)))
  /\ program[p].pc \in {"menu"} \cup saving \cup reading
       => program[p].keyless \/ Exists(KeyPath(Name(p)))

\* Key files hold keys.  Unless it was raced, the key of a name is made by one
\* program, from nothing, and is there when that program is done with it.
KeyInv ==
  \A n \in Names :
    /\ Exists(KeyPath(n)) => disk[KeyPath(n)] \in Keys
    /\ ~Marked(KeyPath(n), {"raced"}) =>
         \A p \in KeyMakers(n) :
           /\ KeyMakers(n) = {p}
           /\ Exists(KeyPath(n)) =>
                program[p].pc = "write key" /\ disk[KeyPath(n)] = << >>
    /\ Settled(n) /\ ~Marked(KeyPath(n), {"raced", "cut"})
         => disk[KeyPath(n)] # << >>

\* A ticket is encrypted with the key that stays on the disk, unless that was
\* raced; the text to save opens, unless an encryption failed or the key was
\* cut.
Encrypted(p) == ~Marked(KeyPath(Name(p)), {"raced"}) =>
  /\ program[p].pc = "password" =>
       Settled(Name(p)) /\ program[p].key = disk[KeyPath(Name(p))]
  /\ program[p].pc \in {"file name"} \cup filing =>
       /\ Settled(Name(p))
       /\ ~Marked(KeyPath(Name(p)), {"cut"}) /\ ~program[p].failed =>
            Opened(program[p].text, program[p].password,
                   disk[KeyPath(Name(p))]) = <<program[p].ticket>>

\* Unless it was raced, a file is made by one program, from nothing.
Alone(p) ==
  program[p].pc \in filing /\ ~Marked(FilePath(p), {"raced"}) =>
    /\ Writers(FilePath(p)) = {p}
    /\ program[p].pc = "open file" => ~Exists(FilePath(p))

\* A ticket that was saved is left alone, and so is its key.
SavedInv ==
  \A r \in saved : ~Spoiled(r.path, {"raced", "cut"}) =>
    Settled(r.path[1]) /\ Exists(r.path) /\ Writers(r.path) = {}

\* What was read of a ticket that was saved is what is on the disk, and it will
\* not be saved again.
Read(p) ==
  /\ program[p].pc \in reading /\ ~Marked(FilePath(p), {"raced", "early"}) =>
       Writers(FilePath(p)) = {}
  /\ program[p].pc = "unlock" =>
       \A r \in saved :
         /\ r.path = FilePath(p)
         /\ ~Spoiled(r.path, {"raced", "cut", "early"})
         => /\ program[p].text = disk[r.path]
            /\ program[p].key = disk[KeyPath(Name(p))]

\* The inductive invariant: keys, files and what the programs hold agree.
IInv ==
  /\ TypeOK
  /\ KeyInv
  /\ SavedInv
  /\ SavedTicketOpens
  /\ \A p \in Programs : Held(p) /\ Encrypted(p) /\ Alone(p) /\ Read(p)
  /\ ToldTheTruth
  /\ TicketsAccounted
=============================================================================
