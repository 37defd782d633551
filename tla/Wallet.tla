------------------------------- MODULE Wallet -------------------------------
(***************************************************************************)
(* The ticket files of Client.cpp: the directory clients/<name> with the   *)
(* key of the name and one encrypted file for each ticket.                 *)
(*                                                                         *)
(* Programs of one or several names share a disk and may be killed at any  *)
(* step.  std::ofstream truncates a file when it opens it and writes when  *)
(* it is closed; what is buffered in between is lost with the program, and *)
(* neither writer looks at whether the write succeeded.                    *)
(*                                                                         *)
(* A text is a sequence, and encrypting it puts its key in front; the      *)
(* empty text is an empty file, and what a failed encryption returns.  A   *)
(* text decrypts with its own key only: with any other, the padding or     *)
(* Ticket::deserialize refuses it.  The key derived from a password is the *)
(* password.                                                               *)
(*                                                                         *)
(* What the server answers is in Sessions and TicketService; here a        *)
(* sign-in succeeds and a purchase yields a new ticket.                    *)
(***************************************************************************)
EXTENDS Naturals, Sequences

CONSTANTS Programs, Names, FileNames, Passwords,
          MaxBought,     \* bound: tickets bought
          MaxKeys,       \* bound: keys generated
          MaxFailures,   \* bound: failed operations
          Unknown        \* no name

ASSUME WalletAssumption ==
  /\ MaxBought \in Nat /\ MaxKeys \in Nat /\ MaxFailures \in Nat
  /\ "SymKey.key" \notin FileNames /\ Unknown \notin Names

VARIABLES disk,      \* paths that exist -> text
          program,   \* program -> what it does and for whom
          bought,    \* tickets bought so far
          keys,      \* keys generated so far
          failures,  \* operations that failed so far
          saved,     \* history: tickets whose user was told they are saved
          lost,      \* history: tickets whose user was told they are not, or
                     \* whose program was gone before it saved them
          marks      \* history: what happened to a path that may spoil it

counters == <<bought, keys, failures>>
vars == <<disk, program, counters, saved, lost, marks>>

KeyPath(n) == <<n, "SymKey.key">>
Paths == Names \X ({"SymKey.key"} \cup FileNames)
Exists(path) == path \in DOMAIN disk
Put(path, text) ==
  disk' = [q \in DOMAIN disk \cup {path} |-> IF q = path THEN text ELSE disk[q]]

\* keyless: the sign-in left the name without a key.  failed: an encryption of
\* the text to save failed.  sell: a ticket is read to be sold.
Down == [pc |-> "down", name |-> Unknown, keyless |-> FALSE, ticket |-> 0,
         key |-> << >>, text |-> << >>, password |-> Unknown, file |-> Unknown,
         failed |-> FALSE, sell |-> FALSE]
Menu(n, keyless) ==
  [Down EXCEPT !.pc = "menu", !.name = n, !.keyless = keyless]

Init ==
  /\ disk = [path \in {} |-> << >>]
  /\ program = [p \in Programs |-> Down]
  /\ bought = 0 /\ keys = 0 /\ failures = 0
  /\ saved = {} /\ lost = {} /\ marks = {}

Name(p) == program[p].name
Goto(p, record) == program' = [program EXCEPT ![p] = record]
GotoMenu(p, keyless) == Goto(p, Menu(Name(p), keyless))
BackToMenu(p) == GotoMenu(p, program[p].keyless)
Failure == failures < MaxFailures /\ failures' = failures + 1

\* Another program of the name of p is at one of these steps.
Meanwhile(p, steps) ==
  \E q \in Programs \ {p} : Name(q) = Name(p) /\ program[q].pc \in steps

MeanwhileAt(p, step, f) ==
  \E q \in Programs \ {p} :
    Name(q) = Name(p) /\ program[q].pc = step /\ program[q].file = f

Mark(path, what, happens) ==
  marks' = marks \cup IF happens THEN {[path |-> path, what |-> what]} ELSE {}

-----------------------------------------------------------------------------
(***************************************************************************)
(* Encryption                                                              *)
(***************************************************************************)

\* Slip, used by no action: without a key the text is left as it is.
ProtectOrPlain(text, key) == key \o text

\* A key of another size than 32 bytes, as that of an empty key file, makes the
\* result empty.
protectSymetric(text, key) == IF key = << >> THEN << >> ELSE key \o text

Thrown == << >>
unprotectSymetric(text, key) ==
  IF text # << >> /\ key # << >> /\ Head(text) = Head(key) THEN Tail(text)
  ELSE Thrown

\* Slip, used by no action: the layers are taken off in the other order.
OpenedInnerFirst(text, password, key) ==
  unprotectSymetric(unprotectSymetric(text, key), <<password>>)

\* getAndDecryptTicket and Ticket::deserialize, which refuses an empty text.
Opened(text, password, key) ==
  unprotectSymetric(unprotectSymetric(text, <<password>>), key)

-----------------------------------------------------------------------------
(***************************************************************************)
(* The key: generateSymetricKey, after a sign-in                           *)
(***************************************************************************)

keyLocked == {"open key", "write key"}

SignIn(p) ==
  /\ program[p] = Down
  /\ \E n \in Names : Goto(p, [Down EXCEPT !.pc = "check key", !.name = n])
  /\ UNCHANGED <<disk, counters, saved, lost, marks>>

\* Slip, not part of Next: every sign-in generates a key.
GenerateKeyAlways(p) ==
  /\ program[p].pc = "check key"
  /\ keys < MaxKeys
  /\ keys' = keys + 1
  /\ Goto(p, [program[p] EXCEPT !.pc = "open key", !.key = <<keys'>>])
  /\ Mark(KeyPath(Name(p)), "raced", Meanwhile(p, keyLocked))
  /\ UNCHANGED <<disk, bought, failures, saved, lost>>

\* A key file that exists is kept, whatever is in it; or a key is generated.  If
\* that fails, or creating the directory does, the menu opens without a key.
GenerateKey(p) ==
  /\ program[p].pc = "check key"
  /\ IF Exists(KeyPath(Name(p)))
       THEN /\ GotoMenu(p, FALSE)
            /\ UNCHANGED <<counters, marks>>
       ELSE \/ /\ keys < MaxKeys
               /\ keys' = keys + 1
               /\ Goto(p, [program[p] EXCEPT !.pc = "open key", !.key = <<keys'>>])
               /\ Mark(KeyPath(Name(p)), "raced", Meanwhile(p, keyLocked))
               /\ UNCHANGED <<bought, failures>>
            \/ /\ Failure
               /\ GotoMenu(p, TRUE)
               /\ UNCHANGED <<bought, keys, marks>>
  /\ UNCHANGED <<disk, saved, lost>>

OpenKey(p) ==
  /\ program[p].pc = "open key"
  /\ \/ /\ Put(KeyPath(Name(p)), << >>)
        /\ Goto(p, [program[p] EXCEPT !.pc = "write key"])
        /\ UNCHANGED failures
     \/ /\ Failure
        /\ GotoMenu(p, TRUE)
        /\ UNCHANGED disk
  /\ UNCHANGED <<bought, keys, saved, lost, marks>>

WriteKey(p) ==
  /\ program[p].pc = "write key"
  /\ \/ /\ Put(KeyPath(Name(p)), program[p].key)
        /\ UNCHANGED <<failures, marks>>
     \/ /\ Failure
        /\ Mark(KeyPath(Name(p)), "cut", TRUE)
        /\ UNCHANGED disk
  /\ GotoMenu(p, FALSE)
  /\ UNCHANGED <<bought, keys, saved, lost>>

-----------------------------------------------------------------------------
(***************************************************************************)
(* A purchase and saveTicket                                               *)
(***************************************************************************)

Lose(ticket, why, keyless) ==
  lost' = lost \cup {[ticket |-> ticket, why |-> why, keyless |-> keyless]}

\* The server has sold a ticket; its answer is on the way.
Purchase(p) ==
  /\ program[p].pc = "menu"
  /\ bought < MaxBought
  /\ bought' = bought + 1
  /\ Goto(p, [program[p] EXCEPT !.pc = "answered", !.ticket = bought'])
  /\ UNCHANGED <<disk, keys, failures, saved, lost, marks>>

\* "Something went wrong. Please log in again.", or readKey, before the prompt
\* for a password.
ReadKey(p) ==
  /\ program[p].pc = "answered"
  /\ IF Exists(KeyPath(Name(p)))
       THEN /\ Goto(p, [program[p] EXCEPT !.pc = "password",
                                       !.key = disk[KeyPath(Name(p))]])
            /\ Mark(KeyPath(Name(p)), "raced", Meanwhile(p, keyLocked))
            /\ UNCHANGED lost
       ELSE /\ BackToMenu(p)
            /\ Lose(program[p].ticket, "no key", program[p].keyless)
            /\ UNCHANGED marks
  /\ UNCHANGED <<disk, counters, saved>>

\* The password of the account or, after "Y", any other.  Either encryption may
\* fail, and nobody looks.
Encrypt(p) ==
  /\ program[p].pc = "password"
  /\ \E password \in Passwords :
       LET inner == protectSymetric(<<program[p].ticket>>, program[p].key)
           step(result, failed) ==
             Goto(p, [program[p] EXCEPT !.pc = "file name", !.text = result,
                        !.password = password, !.failed = failed])
       IN \/ step(protectSymetric(inner, <<password>>), FALSE) /\ UNCHANGED failures
          \/ step(protectSymetric(<< >>, <<password>>), TRUE) /\ Failure
          \/ step(<< >>, TRUE) /\ Failure
  /\ UNCHANGED <<disk, bought, keys, saved, lost, marks>>

\* Slip, not part of Next: a name that is taken ends saveTicket.
ChooseNameOnce(p) ==
  /\ program[p].pc = "file name"
  /\ \E f \in FileNames :
       IF Exists(<<Name(p), f>>)
         THEN BackToMenu(p)
         ELSE Goto(p, [program[p] EXCEPT !.pc = "open file", !.file = f])
  /\ UNCHANGED <<disk, counters, saved, lost, marks>>

\* Slip, not part of Next: the name is not looked up.
ChooseAnyName(p) ==
  /\ program[p].pc = "file name"
  /\ \E f \in FileNames :
       /\ Goto(p, [program[p] EXCEPT !.pc = "open file", !.file = f])
       /\ Mark(<<Name(p), f>>, "raced", MeanwhileAt(p, "open file", f))
  /\ UNCHANGED <<disk, counters, saved, lost>>

\* A name is asked for until it is not taken.
ChooseName(p) ==
  /\ program[p].pc = "file name"
  /\ \E f \in FileNames :
       /\ ~Exists(<<Name(p), f>>)
       /\ Goto(p, [program[p] EXCEPT !.pc = "open file", !.file = f])
       /\ Mark(<<Name(p), f>>, "raced", MeanwhileAt(p, "open file", f))
  /\ UNCHANGED <<disk, counters, saved, lost>>

OpenFile(p) ==
  /\ program[p].pc = "open file"
  /\ \/ /\ Put(<<Name(p), program[p].file>>, << >>)
        /\ Goto(p, [program[p] EXCEPT !.pc = "write file"])
        /\ UNCHANGED <<failures, lost>>
     \/ /\ Failure
        /\ BackToMenu(p)
        /\ Lose(program[p].ticket, "no file", program[p].keyless)
        /\ UNCHANGED disk
  /\ UNCHANGED <<bought, keys, saved, marks>>

\* "Ticket saved to: ".
WriteFile(p) ==
  /\ program[p].pc = "write file"
  /\ LET path == <<Name(p), program[p].file>>
     IN \/ /\ Put(path, program[p].text)
           /\ Mark(path, "cut", program[p].failed)
           /\ UNCHANGED failures
        \/ /\ Failure
           /\ Mark(path, "cut", TRUE)
           /\ UNCHANGED disk
  /\ saved' = saved \cup {[ticket |-> program[p].ticket,
                           path |-> <<Name(p), program[p].file>>,
                           password |-> program[p].password]}
  /\ BackToMenu(p)
  /\ UNCHANGED <<bought, keys, lost>>

-----------------------------------------------------------------------------
(***************************************************************************)
(* Reading a ticket: SEE TICKET, the two codes, SELL TICKET                *)
(***************************************************************************)

\* askFileName, and the file and the key are read, before the prompt.
ReadFile(p) ==
  /\ program[p].pc = "menu"
  /\ \E f \in FileNames, sell \in BOOLEAN :
       /\ Exists(<<Name(p), f>>)
       /\ Goto(p, [program[p] EXCEPT
            !.pc = "unlock", !.file = f, !.sell = sell,
            !.text = disk[<<Name(p), f>>],
            !.key = IF Exists(KeyPath(Name(p))) THEN disk[KeyPath(Name(p))]
                                                ELSE << >>])
       /\ Mark(<<Name(p), f>>, "early", MeanwhileAt(p, "write file", f))
  /\ UNCHANGED <<disk, counters, saved, lost>>

\* The ticket is shown or sent, or "Password is incorrect"; the choice SELL
\* TICKET has no handler for what is thrown, and the program ends.
Unlock(p) ==
  /\ program[p].pc = "unlock"
  /\ \E password \in Passwords :
       Goto(p, [program[p] EXCEPT !.pc = "told", !.password = password,
                  !.text = Opened(@, password, program[p].key)])
  /\ UNCHANGED <<disk, counters, saved, lost, marks>>

Continue(p) ==
  /\ program[p].pc = "told"
  /\ IF program[p].sell /\ program[p].text = Thrown THEN Goto(p, Down)
                                                     ELSE BackToMenu(p)
  /\ UNCHANGED <<disk, counters, saved, lost, marks>>

-----------------------------------------------------------------------------
(***************************************************************************)
(* The end of a program                                                    *)
(***************************************************************************)

saving == {"answered", "password", "file name", "open file", "write file"}

\* The program is killed, or logs out, also from a prompt of saveTicket.
Leave(p) ==
  /\ program[p].pc \notin {"down", "told"}
  /\ Goto(p, Down)
  /\ IF program[p].pc \in saving
       THEN Lose(program[p].ticket, "gone", program[p].keyless)
       ELSE UNCHANGED lost
  /\ Mark(KeyPath(Name(p)), "cut", program[p].pc = "write key")
  /\ UNCHANGED <<disk, counters, saved>>

Next ==
  \E p \in Programs :
    \/ SignIn(p) \/ GenerateKey(p) \/ OpenKey(p) \/ WriteKey(p)
    \/ Purchase(p) \/ ReadKey(p) \/ Encrypt(p) \/ ChooseName(p)
    \/ OpenFile(p) \/ WriteFile(p)
    \/ ReadFile(p) \/ Unlock(p) \/ Continue(p) \/ Leave(p)

Spec == Init /\ [][Next]_vars
=============================================================================
