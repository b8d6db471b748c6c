---------------------------- MODULE Settlement ----------------------------
(***************************************************************************)
(* What orderService promises its customers, the face service and the      *)
(* subscribers of its events about money, with no document, handler, queue *)
(* or job in sight:                                                        *)
(*                                                                         *)
(*   - a settled order stays settled;                                      *)
(*   - order.paid is only ever said of a settled order;                    *)
(*   - a person becomes a debtor only over an order to be paid later;      *)
(*   - an expiry is announced only for such an order, and only once its    *)
(*     customer is in the debtor registry.                                 *)
(***************************************************************************)
CONSTANTS Orders, Users, Nobody

VARIABLES
    owner,      \* who placed each order, or Nobody
    deferred,   \* placed orders to be paid later
    paid,       \* settled orders
    announced,  \* orders order.paid has been said of
    debtors,    \* the debtor registry
    notified    \* orders order.qr.expired has been said of

vars == <<owner, deferred, paid, announced, debtors, notified>>

Init ==
    /\ owner = [o \in Orders |-> Nobody]
    /\ deferred = {}
    /\ paid = {}
    /\ announced = {}
    /\ debtors = {}
    /\ notified = {}

\* An order is either settled as it is placed, or deferred.
Place(o, u) ==
    /\ owner[o] = Nobody
    /\ owner' = [owner EXCEPT ![o] = u]
    /\ \/ deferred' = deferred \cup {o} /\ paid' = paid
       \/ paid' = paid \cup {o} /\ deferred' = deferred
    /\ UNCHANGED <<announced, debtors, notified>>

Settle(o) ==
    /\ owner[o] # Nobody
    /\ paid' = paid \cup {o}
    /\ UNCHANGED <<owner, deferred, announced, debtors, notified>>

Announce(o) ==
    /\ o \in paid
    /\ announced' = announced \cup {o}
    /\ UNCHANGED <<owner, deferred, paid, debtors, notified>>

Blacklist(o) ==
    /\ o \in deferred
    /\ debtors' = debtors \cup {owner[o]}
    /\ UNCHANGED <<owner, deferred, paid, announced, notified>>

NotifyExpiry(o) ==
    /\ o \in deferred
    /\ owner[o] \in debtors
    /\ notified' = notified \cup {o}
    /\ UNCHANGED <<owner, deferred, paid, announced, debtors>>

Next ==
    \E o \in Orders :
        \/ \E u \in Users : Place(o, u)
        \/ Settle(o) \/ Announce(o) \/ Blacklist(o) \/ NotifyExpiry(o)

Spec == Init /\ [][Next]_vars

=============================================================================
