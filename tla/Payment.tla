------------------------------ MODULE Payment ------------------------------
(***************************************************************************)
(* What a payment promises the client who asks for it and the services     *)
(* that hear of it, with no connection, process, channel or timer in       *)
(* sight:                                                                  *)
(*                                                                         *)
(*   - a request that was refused before it was taken up costs nothing;    *)
(*   - only what was charged is recorded as paid, and it stays recorded;   *)
(*   - only what is recorded is announced, and it cannot be unsaid;        *)
(*   - a request gets one answer, and success is only said of what is      *)
(*     recorded and announced.                                             *)
(*                                                                         *)
(* A refusal promises nothing of a request that was taken up: it may yet   *)
(* be charged, recorded and announced.                                     *)
(***************************************************************************)
CONSTANT Requests

VARIABLES
    taken,      \* requests somebody works or worked on
    notable,    \* those among them other services are to hear of
    charged,    \* requests the customer was charged for
    recorded,   \* requests recorded as paid
    announced,  \* requests whose payment was announced
    reply       \* the answer to each request: "none", "success" or "refused"

vars == <<taken, notable, charged, recorded, announced, reply>>

Init ==
    /\ taken = {}
    /\ notable = {}
    /\ charged = {}
    /\ recorded = {}
    /\ announced = {}
    /\ reply = [r \in Requests |-> "none"]

Take(r) ==
    /\ r \notin taken
    /\ reply[r] = "none"
    /\ taken' = taken \cup {r}
    /\ notable' \in {notable, notable \cup {r}}
    /\ UNCHANGED <<charged, recorded, announced, reply>>

Charge(r) ==
    /\ r \in taken
    /\ charged' = charged \cup {r}
    /\ UNCHANGED <<taken, notable, recorded, announced, reply>>

Record(r) ==
    /\ r \in charged
    /\ recorded' = recorded \cup {r}
    /\ UNCHANGED <<taken, notable, charged, announced, reply>>

Announce(r) ==
    /\ r \in recorded \cap notable
    /\ announced' = announced \cup {r}
    /\ UNCHANGED <<taken, notable, charged, recorded, reply>>

Confirm(r) ==
    /\ reply[r] = "none"
    /\ r \in recorded
    /\ r \in notable => r \in announced
    /\ reply' = [reply EXCEPT ![r] = "success"]
    /\ UNCHANGED <<taken, notable, charged, recorded, announced>>

Refuse(r) ==
    /\ reply[r] = "none"
    /\ reply' = [reply EXCEPT ![r] = "refused"]
    /\ UNCHANGED <<taken, notable, charged, recorded, announced>>

Next ==
    \E r \in Requests :
        \/ Take(r) \/ Refuse(r)
        \/ Charge(r) \/ Record(r) \/ Announce(r)
        \/ Confirm(r)

Spec == Init /\ [][Next]_vars

=============================================================================
