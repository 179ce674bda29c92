-------------------------------- MODULE Ledger --------------------------------
(***************************************************************************)
(* What the billing service promises of money, with no handlers, requests, *)
(* rows or stores in it: the credits a user has are never negative; they   *)
(* grow by credits, and shrink only by the charge of an event that was     *)
(* never charged before, to anyone, and by exactly the cost on record.     *)
(***************************************************************************)
EXTENDS Integers

CONSTANTS User, Event

VARIABLES
  funds,    \* the credits of every user
  charges   \* the charges on record: event, user, cost

Charges == [event : Event, user : User, cost : Nat]

Init ==
  /\ funds \in [User -> Nat]
  /\ charges = {}

\* All that happens to credits happens to those of one user.
Only(u) == \A v \in User \ {u} : funds'[v] = funds[v]

Credit(u) ==
  /\ Only(u)
  /\ funds'[u] > funds[u]
  /\ UNCHANGED charges

\* A free event is charged too: at no cost.
Charge(u, e) ==
  LET cost == funds[u] - funds'[u]
  IN  /\ Only(u)
      /\ \A c \in charges : c.event # e
      /\ cost >= 0
      /\ charges' = charges \cup {[event |-> e, user |-> u, cost |-> cost]}

Next ==
  /\ funds' \in [User -> Nat]
  /\ \E u \in User : Credit(u) \/ \E e \in Event : Charge(u, e)

Spec == Init /\ [][Next]_<<funds, charges>>

\* Of a store in which an account can be closed with the credits it has.
Close(u) ==
  /\ Only(u)
  /\ funds'[u] = 0
  /\ UNCHANGED charges

ClosingSpec == Init /\ [][Next \/ \E u \in User : Close(u)]_<<funds, charges>>

=============================================================================
