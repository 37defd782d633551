---------------------------- MODULE TicketMarket ----------------------------
(***************************************************************************)
(* What TicketService is for, with no tables and no threads: a catalogue   *)
(* of ids on sale, and for every id sold the one pass that opens the door. *)
(* A purchase, a resale and an admission are each one step.                *)
(***************************************************************************)
EXTENDS Integers, FiniteSets

CONSTANTS Ids, Buyers, Passwords, FacePrices, Limit, Nobody

VARIABLES listing,  \* id -> [price, seller] of the ids on sale
          pass,     \* id -> [code, owner, price, used] of the ids sold
          spent     \* codes of the passes ever made

market == <<listing, pass, spent>>

Opening(price) == [id \in Ids |-> [price |-> price[id], seller |-> Nobody]]

Init ==
  /\ listing \in {Opening(price) : price \in [Ids -> FacePrices]}
  /\ pass = << >>
  /\ spent = {}

With(f, id, value) ==
  [i \in DOMAIN f \cup {id} |-> IF i = id THEN value ELSE f[i]]

Without(f, id) == [i \in DOMAIN f \ {id} |-> f[i]]

HeldBy(user) == {id \in DOMAIN pass : pass[id].owner = user}

\* A sale takes the id off the market and makes the only pass for it: the
\* pass of the seller, if any, is void from this step on.
Buy(user, id, code) ==
  /\ Cardinality(HeldBy(user)) < Limit
  /\ code \notin spent
  /\ listing' = Without(listing, id)
  /\ pass' = With(pass, id, [code |-> code, owner |-> user,
                             price |-> listing[id].price, used |-> FALSE])
  /\ spent' = spent \cup {code}

\* The owner of a pass offers the id again, for no more than was paid.  The
\* pass stays good until somebody buys.
Resell(id, price) ==
  /\ id \in DOMAIN pass
  /\ id \notin DOMAIN listing
  /\ 0 <= price /\ price <= pass[id].price
  /\ listing' = With(listing, id, [price |-> price, seller |-> pass[id].owner])
  /\ UNCHANGED <<pass, spent>>

\* A pass opens the door once.
Admit(id) ==
  /\ id \in DOMAIN pass
  /\ ~pass[id].used
  /\ pass' = [pass EXCEPT ![id].used = TRUE]
  /\ UNCHANGED <<listing, spent>>

Next ==
  \/ \E user \in Buyers, code \in Passwords :
       \E id \in DOMAIN listing : Buy(user, id, code)
  \/ \E id \in DOMAIN pass : \E price \in 0 .. pass[id].price : Resell(id, price)
  \/ \E id \in DOMAIN pass : Admit(id)

Spec == Init /\ [][Next]_market
=============================================================================
