--------------------------- MODULE OrderLifecycle ---------------------------
(***************************************************************************)
(* The order documents of orderService and everybody who writes them:      *)
(*                                                                         *)
(*   - HTTP and gRPC handlers (create, cancel, scan), each split at its    *)
(*     awaits: a read, a write computed from what was read, and the        *)
(*     publications that follow the write;                                 *)
(*   - the RabbitMQ consumer of payment events, with its processed-event   *)
(*     collection, broker redelivery after a crash and nack without        *)
(*     requeue after an error;                                             *)
(*   - the cron job that turns unscanned orders into debts, whose runs may *)
(*     overlap, and the face service's blacklist it calls;                 *)
(*   - the debt-status query, which repairs debts already paid.            *)
(*                                                                         *)
(* One document is written atomically (findByIdAndUpdate); nothing ties a  *)
(* handler's write to its read.  Of the published events only the two that *)
(* make a claim about the order are kept: order.paid and order.qr.expired. *)
(***************************************************************************)
EXTENDS Naturals, FiniteSets

CONSTANTS
    Orders,      \* ids MongoDB may give to orders
    Users,       \* customers
    Handlers,    \* requests that may be in flight at the same time
    Jobs,        \* runs of the expiry job that may overlap
    Events,      \* payment events, by eventId
    Types,       \* order types in use
    NoOrder,     \* an orderId that is in no document
    Nobody,      \* no user, no scanner
    BatchSize,   \* QR_EXPIRY_SCAN_BATCH_SIZE
    MaxFaults    \* bound: database errors and crashes in a behaviour

ASSUME NoOrderAssumption == NoOrder \notin Orders
ASSUME NobodyAssumption == Nobody \notin Users /\ Nobody \notin Handlers
ASSUME TypesAssumption == Types \subseteq {"DELIVERY", "PREORDER", "RESERVATION"}
ASSUME BatchSizeAssumption == BatchSize \in Nat \ {0}
ASSUME MaxFaultsAssumption == MaxFaults \in Nat

VARIABLES
    order,      \* the orders collection
    req,        \* the in-flight handler of each slot and what it has read
    job,        \* the runs of QrExpiryScammerTrapJob
    evt,        \* payment events: sent, in the queue, in the consumer
    processed,  \* the processed_events collection
    published,  \* routing keys published for each order, ever
    blacklist,  \* persons the face service holds as DEBTOR
    faults      \* faults so far

vars == <<order, req, job, evt, processed, published, blacklist, faults>>

-----------------------------------------------------------------------------
(* The document *)

Methods  == {"PAY_ON_APP", "PAY_LATER"}
Statuses == {"CREATED", "PAID", "EXPIRED", "DELIVERED", "OBTAINED",
             "FINISHED", "COMPLETED", "CANCELLED"}
Pays     == {"UNPAID", "PAID"}
Debts    == {"NONE", "OUTSTANDING", "CLEARED"}
Keys     == {"order.paid", "order.qr.expired"}

\* The fields the handlers branch on.  flagged: both riskFlags, which are
\* always written together.  scannedBy: the request that set qr.scannedAt.
\* qr: "pending" until createOrder has stored the token it hands out.
\* lapsed: qr.expiresAt is in the past.
Doc == [status    : Statuses \cup {"ABSENT"},
        user      : Users \cup {Nobody},
        type      : Types \cup {"NONE"},
        method    : Methods,
        pay       : Pays,
        debt      : Debts,
        flagged   : BOOLEAN,
        scannedBy : Handlers \cup {Nobody},
        qr        : {"pending", "final"},
        lapsed    : BOOLEAN]

Absent == [status |-> "ABSENT", user |-> Nobody, type |-> "NONE",
           method |-> "PAY_LATER", pay |-> "UNPAID", debt |-> "NONE",
           flagged |-> FALSE, scannedBy |-> Nobody, qr |-> "pending",
           lapsed |-> FALSE]

Stored(o) == order[o].status # "ABSENT"

(* What each writer sets, as a function of the document it finds *)

\* deriveInitialState: an order paid on the app is born PAID.
NewDoc(u, t, m) ==
    [status    |-> IF m = "PAY_ON_APP" THEN "PAID" ELSE "CREATED",
     user      |-> u,
     type      |-> t,
     method    |-> m,
     pay       |-> IF m = "PAY_ON_APP" THEN "PAID" ELSE "UNPAID",
     debt      |-> "NONE",
     flagged   |-> FALSE,
     scannedBy |-> Nobody,
     qr        |-> "pending",
     lapsed    |-> FALSE]

\* The whole qr subdocument is replaced: its scan fields return to null.
FinalQrDoc(d) ==
    [d EXCEPT !.qr = "final", !.scannedBy = Nobody, !.lapsed = FALSE]

\* The debt written is decided by the debt the handler read.
CancelDoc(d, seenDebt) ==
    [d EXCEPT !.status = "CANCELLED", !.flagged = FALSE,
              !.debt = IF seenDebt = "CLEARED" THEN "CLEARED" ELSE "NONE"]

\* determineScanOutcome: orderStatus by type and method.
ScanStatus(d) ==
    CASE d.type = "DELIVERY" /\ d.method = "PAY_LATER" -> "PAID"
      [] d.type = "DELIVERY" /\ d.method # "PAY_LATER" -> "DELIVERED"
      [] d.type = "PREORDER"                           -> "OBTAINED"
      [] OTHER                                         -> "FINISHED"

\* Faulty variant: the payment status that was read is written back.
ScanPay_asRead(d, seenPay) == seenPay

\* determineScanOutcome: paymentStatus, from the payment status that was read.
ScanPay(d, seenPay) == IF d.method = "PAY_LATER" THEN "PAID" ELSE seenPay

\* Faulty variant: an order paid at the handover stays UNPAID.
ScanDoc_unpaid(d, h, seenPay) ==
    [d EXCEPT !.scannedBy = h, !.status = ScanStatus(d), !.debt = "CLEARED",
              !.flagged = FALSE]

ScanDoc(d, h, seenPay) ==
    [d EXCEPT !.scannedBy = h, !.status = ScanStatus(d),
              !.pay = ScanPay(d, seenPay), !.debt = "CLEARED",
              !.flagged = FALSE]

PaidDoc(d) ==
    [d EXCEPT !.status = "PAID", !.pay = "PAID", !.debt = "CLEARED",
              !.flagged = FALSE]

\* Faulty variant: the status is forgotten.
ExpireDoc_noStatus(d) == [d EXCEPT !.debt = "OUTSTANDING", !.flagged = TRUE]

ExpireDoc(d) ==
    [d EXCEPT !.status = "EXPIRED", !.debt = "OUTSTANDING", !.flagged = TRUE]

\* Faulty variant: the repair clears the debt and leaves the flags up.
ClearDoc_keepsFlags(d) == [d EXCEPT !.debt = "CLEARED"]

\* clearPaidOutstandingDebtByUser
ClearDoc(d) == [d EXCEPT !.debt = "CLEARED", !.flagged = FALSE]

\* Faulty variant: the filter on payment.status is missing.
Unsettled_paidToo(d) ==
    /\ d.lapsed
    /\ d.scannedBy = Nobody
    /\ d.debt # "CLEARED"
    /\ d.status \notin {"ABSENT", "EXPIRED", "COMPLETED", "CANCELLED"}

\* The filter of findExpiredUnscanned.
Unsettled(d) ==
    /\ d.lapsed
    /\ d.scannedBy = Nobody
    /\ d.pay # "PAID"
    /\ d.debt # "CLEARED"
    /\ d.status \notin {"ABSENT", "EXPIRED", "COMPLETED", "CANCELLED"}

Eligible == {o \in Orders : Unsettled(order[o])}

-----------------------------------------------------------------------------
(* The processes *)

HandlerPcs == {"idle", "create_qr", "create_pub", "cancel", "scan", "scan_pub"}
JobPcs     == {"idle", "next", "blacklist", "publish"}
EventPcs   == {"unsent", "queued", "read", "written", "marked", "acked",
               "dropped"}

\* seen: the field of the order the handler has read and will act on.
IdleReq == [pc |-> "idle", order |-> NoOrder, seen |-> "NONE"]
IdleJob == [pc |-> "idle", batch |-> {}, cur |-> NoOrder]
NoEvent == [pc |-> "unsent", order |-> NoOrder]

Init ==
    /\ order = [o \in Orders |-> Absent]
    /\ req = [h \in Handlers |-> IdleReq]
    /\ job = [j \in Jobs |-> IdleJob]
    /\ evt = [e \in Events |-> NoEvent]
    /\ processed = {}
    /\ published = [o \in Orders |-> {}]
    /\ blacklist = {}
    /\ faults = 0

Write(o, d)    == order' = [order EXCEPT ![o] = d]
Publish(o, ks) == published' = [published EXCEPT ![o] = @ \cup ks]
AnnouncePaid(pay) == IF pay = "PAID" THEN {"order.paid"} ELSE {}
Fault          == faults < MaxFaults /\ faults' = faults + 1

\* Handler h goes on to pc with what it has read.
Goto(h, pc, o, seen) ==
    req' = [req EXCEPT ![h] = [pc |-> pc, order |-> o, seen |-> seen]]

Finish(h) == req' = [req EXCEPT ![h] = IdleReq]

-----------------------------------------------------------------------------
(* createOrder *)

\* The document is inserted under a placeholder QR nobody is given.
CreateInsert(h, o) ==
    /\ req[h].pc = "idle"
    /\ ~Stored(o)
    /\ \E u \in Users, t \in Types, m \in Methods :
         /\ Write(o, NewDoc(u, t, m))
         /\ Goto(h, "create_qr", o, "NONE")
    /\ UNCHANGED <<job, evt, processed, published, blacklist, faults>>

\* The final QR is stored; the document is returned as it is now.
CreateQr(h) ==
    /\ req[h].pc = "create_qr"
    /\ LET o == req[h].order
       IN  /\ Write(o, FinalQrDoc(order[o]))
           /\ Goto(h, "create_pub", o, order[o].pay)
    /\ UNCHANGED <<job, evt, processed, published, blacklist, faults>>

\* order.created, order.qr.generated, payment.verify, inventory.check and,
\* for an order that is paid, order.paid.
CreatePublish(h) ==
    /\ req[h].pc = "create_pub"
    /\ Publish(req[h].order, AnnouncePaid(req[h].seen))
    /\ Finish(h)
    /\ UNCHANGED <<order, job, evt, processed, blacklist, faults>>

-----------------------------------------------------------------------------
(* cancelMyOrder *)

CancelRead(h, o) ==
    /\ req[h].pc = "idle"
    /\ Stored(o)
    /\ order[o].scannedBy = Nobody
    /\ order[o].status \notin {"EXPIRED", "COMPLETED", "CANCELLED"}
    /\ order[o].debt # "OUTSTANDING"
    /\ Goto(h, "cancel", o, order[o].debt)
    /\ UNCHANGED <<order, job, evt, processed, published, blacklist, faults>>

\* Then order.cancelled is published.
CancelWrite(h) ==
    /\ req[h].pc = "cancel"
    /\ LET o == req[h].order IN Write(o, CancelDoc(order[o], req[h].seen))
    /\ Finish(h)
    /\ UNCHANGED <<job, evt, processed, published, blacklist, faults>>

-----------------------------------------------------------------------------
(* scanQr *)

\* The token is the one the document holds, it has not expired, and it has
\* not been scanned.  A cancelled or expired order is not refused.
ScanRead(h, o) ==
    /\ req[h].pc = "idle"
    /\ Stored(o)
    /\ order[o].qr = "final"
    /\ ~order[o].lapsed
    /\ order[o].scannedBy = Nobody
    /\ Goto(h, "scan", o, order[o].pay)
    /\ UNCHANGED <<order, job, evt, processed, published, blacklist, faults>>

\* After the membership lookup: the outcome, from the order that was read.
ScanWrite(h) ==
    /\ req[h].pc = "scan"
    /\ LET o == req[h].order
           d == ScanDoc(order[o], h, req[h].seen)
       IN  /\ Write(o, d)
           /\ Goto(h, "scan_pub", o, d.pay)
    /\ UNCHANGED <<job, evt, processed, published, blacklist, faults>>

\* order.qr.scanned, order.paid for an order that is paid, inventory.consumed.
ScanPublish(h) ==
    /\ req[h].pc = "scan_pub"
    /\ Publish(req[h].order, AnnouncePaid(req[h].seen))
    /\ Finish(h)
    /\ UNCHANGED <<order, job, evt, processed, blacklist, faults>>

-----------------------------------------------------------------------------
(* Any handler *)

\* An await rejects: a lookup, a 403, a database error.  What was written
\* stays, what was not yet published never is.
RequestFails(h) ==
    /\ req[h].pc # "idle"
    /\ Finish(h)
    /\ UNCHANGED <<order, job, evt, processed, published, blacklist, faults>>

\* getMyDebtStatus repairs the debts of a user that are already paid.
DebtStatus(u) ==
    /\ order' = [o \in Orders |->
                   IF /\ order[o].user = u
                      /\ order[o].debt = "OUTSTANDING"
                      /\ order[o].pay = "PAID"
                   THEN ClearDoc(order[o])
                   ELSE order[o]]
    /\ UNCHANGED <<req, job, evt, processed, published, blacklist, faults>>

\* The clock passes qr.expiresAt.
QrLapses(o) ==
    /\ Stored(o)
    /\ ~order[o].lapsed
    /\ Write(o, [order[o] EXCEPT !.lapsed = TRUE])
    /\ UNCHANGED <<req, job, evt, processed, published, blacklist, faults>>

-----------------------------------------------------------------------------
(* The payment consumer: onPaymentSucceeded and onOrderPaymentSucceeded *)

\* paymentService publishes under a fresh eventId, for an order that exists
\* or for an orderId the client made up.
PaymentSent(e, o) ==
    /\ evt[e].pc = "unsent"
    /\ o # NoOrder => Stored(o)
    /\ evt' = [evt EXCEPT ![e] = [pc |-> "queued", order |-> o]]
    /\ UNCHANGED <<order, req, job, processed, published, blacklist, faults>>

Advance(e, from, to) ==
    /\ evt[e].pc = from
    /\ evt' = [evt EXCEPT ![e].pc = to]

\* isProcessed, or no such order: return, and the bus acks.
EventIgnored(e) ==
    /\ e \in processed \/ evt[e].order = NoOrder
    /\ Advance(e, "queued", "acked")
    /\ UNCHANGED <<order, req, job, processed, published, blacklist, faults>>

\* Faulty variant: the event is recorded before its order is updated.
EventRead_marksFirst(e) ==
    /\ e \notin processed
    /\ evt[e].order # NoOrder
    /\ Advance(e, "queued", "read")
    /\ processed' = processed \cup {e}
    /\ UNCHANGED <<order, req, job, published, blacklist, faults>>

EventRead(e) ==
    /\ e \notin processed
    /\ evt[e].order # NoOrder
    /\ Advance(e, "queued", "read")
    /\ UNCHANGED <<order, req, job, processed, published, blacklist, faults>>

EventApply(e) ==
    /\ Advance(e, "read", "written")
    /\ LET o == evt[e].order IN Write(o, PaidDoc(order[o]))
    /\ UNCHANGED <<req, job, processed, published, blacklist, faults>>

EventMark(e) ==
    /\ Advance(e, "written", "marked")
    /\ processed' = processed \cup {e}
    /\ UNCHANGED <<order, req, job, published, blacklist, faults>>

\* order.payment.status.changed and order.paid; then the bus acks.
EventAnnounce(e) ==
    /\ Advance(e, "marked", "acked")
    /\ Publish(evt[e].order, {"order.paid"})
    /\ UNCHANGED <<order, req, job, processed, blacklist, faults>>

\* A database error in the handler: the bus nacks without requeue.
EventFails(e) ==
    /\ \E from \in {"queued", "read", "written"} : Advance(e, from, "dropped")
    /\ Fault
    /\ UNCHANGED <<order, req, job, processed, published, blacklist>>

-----------------------------------------------------------------------------
(* The expiry job: processExpiredQrOrders *)

\* findExpiredUnscanned: at most BatchSize orders, as they are now.
JobSelect(j) ==
    /\ job[j].pc = "idle"
    /\ \E B \in (SUBSET Eligible) \ {{}} :
         /\ \/ B = Eligible /\ Cardinality(B) <= BatchSize
            \/ Cardinality(B) = BatchSize
         /\ job' = [job EXCEPT ![j] = [pc |-> "next", batch |-> B, cur |-> NoOrder]]
    /\ UNCHANGED <<order, req, evt, processed, published, blacklist, faults>>

\* The next order of the batch, whatever has become of it since the query.
JobMark(j, o) ==
    /\ job[j].pc = "next"
    /\ o \in job[j].batch
    /\ Write(o, ExpireDoc(order[o]))
    /\ job' = [job EXCEPT ![j] = [pc    |-> "blacklist",
                                  batch |-> job[j].batch \ {o},
                                  cur   |-> o]]
    /\ UNCHANGED <<req, evt, processed, published, blacklist, faults>>

Debtor(j) == order[job[j].cur].user

JobBlacklist(j) ==
    /\ job[j].pc = "blacklist"
    /\ blacklist' = blacklist \cup {Debtor(j)}
    /\ job' = [job EXCEPT ![j].pc = "publish"]
    /\ UNCHANGED <<order, req, evt, processed, published, faults>>

\* addDebtor throws, and the rest of the batch is abandoned.  After a
\* timeout the face service may have done the work all the same.
JobBlacklistFails(j) ==
    /\ job[j].pc = "blacklist"
    /\ blacklist' \in {blacklist, blacklist \cup {Debtor(j)}}
    /\ job' = [job EXCEPT ![j] = IdleJob]
    /\ UNCHANGED <<order, req, evt, processed, published, faults>>

JobPublish(j) ==
    /\ job[j].pc = "publish"
    /\ Publish(job[j].cur, {"order.qr.expired"})
    /\ job' = [job EXCEPT ![j] = IF job[j].batch = {}
                                 THEN IdleJob
                                 ELSE [pc    |-> "next",
                                       batch |-> job[j].batch,
                                       cur   |-> NoOrder]]
    /\ UNCHANGED <<order, req, evt, processed, blacklist, faults>>

\* The update of an order fails: the run ends there.
JobFails(j) ==
    /\ job[j].pc = "next"
    /\ job' = [job EXCEPT ![j] = IdleJob]
    /\ Fault
    /\ UNCHANGED <<order, req, evt, processed, published, blacklist>>

-----------------------------------------------------------------------------

\* The process stops and restarts: what was in memory is gone, and the
\* broker redelivers what was not acked.
Crash ==
    /\ req' = [h \in Handlers |-> IdleReq]
    /\ job' = [j \in Jobs |-> IdleJob]
    /\ evt' = [e \in Events |->
                 IF evt[e].pc \in {"read", "written", "marked"}
                 THEN [evt[e] EXCEPT !.pc = "queued"]
                 ELSE evt[e]]
    /\ Fault
    /\ UNCHANGED <<order, processed, published, blacklist>>

HandlerStep(h) ==
    \/ CreateQr(h) \/ CreatePublish(h)
    \/ CancelWrite(h)
    \/ ScanWrite(h) \/ ScanPublish(h)

ConsumerStep(e) ==
    \/ EventIgnored(e) \/ EventRead(e) \/ EventApply(e)
    \/ EventMark(e)    \/ EventAnnounce(e)

JobStep(j) ==
    \/ JobSelect(j)
    \/ \E o \in Orders : JobMark(j, o)
    \/ JobBlacklist(j)
    \/ JobBlacklistFails(j)
    \/ JobPublish(j)

Client ==
    \/ \E h \in Handlers, o \in Orders :
         CreateInsert(h, o) \/ CancelRead(h, o) \/ ScanRead(h, o)
    \/ \E u \in Users : DebtStatus(u)
    \/ \E e \in Events, o \in Orders \cup {NoOrder} : PaymentSent(e, o)

Failure ==
    \/ \E h \in Handlers : RequestFails(h)
    \/ \E e \in Events : EventFails(e)
    \/ \E j \in Jobs : JobFails(j)
    \/ Crash

Next ==
    \/ Client
    \/ \E h \in Handlers : HandlerStep(h)
    \/ \E e \in Events : ConsumerStep(e)
    \/ \E j \in Jobs : JobStep(j)
    \/ \E o \in Orders : QrLapses(o)
    \/ Failure

\* A handler whose await has settled goes on; a consumer with a message
\* handles it; the cron job keeps running and addDebtor's race with its timer
\* always settles.  Clients, the clock and faults owe nothing.
Fairness ==
    /\ \A h \in Handlers : WF_vars(HandlerStep(h) \/ RequestFails(h))
    /\ \A e \in Events : WF_vars(ConsumerStep(e))
    /\ \A j \in Jobs : WF_vars(JobStep(j))

Safe == Init /\ [][Next]_vars
Spec == Safe /\ Fairness

-----------------------------------------------------------------------------
(* Safety *)

\* Every variable has its type.
TypeOK ==
    /\ order \in [Orders -> Doc]
    /\ req \in [Handlers -> [pc    : HandlerPcs,
                             order : Orders \cup {NoOrder},
                             seen  : Pays \cup Debts]]
    /\ job \in [Jobs -> [pc    : JobPcs,
                         batch : SUBSET Orders,
                         cur   : Orders \cup {NoOrder}]]
    /\ evt \in [Events -> [pc    : EventPcs,
                           order : Orders \cup {NoOrder}]]
    /\ processed \in SUBSET Events
    /\ published \in [Orders -> SUBSET Keys]
    /\ blacklist \in SUBSET (Users \cup {Nobody})
    /\ faults \in 0..MaxFaults

\* A customer who paid on the app is never treated as owing: whatever the
\* interleaving of scans, cancellations, late payments and stale batches of
\* the expiry job, the order stays PAID and is never EXPIRED or OUTSTANDING.
PrepaidNeverDebtor ==
    \A o \in Orders :
        Stored(o) /\ order[o].method = "PAY_ON_APP" =>
            /\ order[o].pay = "PAID"
            /\ order[o].debt # "OUTSTANDING"
            /\ order[o].status # "EXPIRED"

\* An order that was handed over against its QR is paid for good, even when a
\* stale batch of the expiry job has turned it into a debt since: the debt
\* query, which skips PAID orders, never shows it to the customer.
ScannedIsPaid ==
    \A o \in Orders : order[o].scannedBy # Nobody => order[o].pay = "PAID"

\* The status, the debt and the risk flags are written by six handlers and
\* repaired by a seventh, and still agree: flags up exactly while a debt is
\* outstanding, and a debt only on an EXPIRED order.
DebtCoherent ==
    \A o \in Orders :
        /\ order[o].flagged <=> order[o].debt = "OUTSTANDING"
        /\ order[o].debt = "OUTSTANDING" => order[o].status = "EXPIRED"

\* Debts are what they should be: only of orders that were to be paid later,
\* and with the status and the flags that go with them.
DebtIsSound == PrepaidNeverDebtor /\ DebtCoherent

\* Nobody is blacklisted by the face service who has not placed an order to be
\* paid later: the job reads the debtor from the document, whatever was
\* written to it between the query and the call.
BlacklistSound ==
    \A u \in blacklist :
        \E o \in Orders : /\ order[o].user = u
                          /\ Stored(o)
                          /\ order[o].method = "PAY_LATER"

\* order.qr.expired, on which the fraud notification is sent, is published
\* only after the face service has taken the user in.
ExpiredOnlyAfterBlacklist ==
    \A o \in Orders : "order.qr.expired" \in published[o] => order[o].user \in blacklist

\* A payment event is recorded as processed, or acked, only once its order
\* is paid: a crash between the update, the mark and the ack repeats work
\* and never loses the payment.
ProcessedIsPaid ==
    \A e \in Events :
        (e \in processed \/ evt[e].pc = "acked") /\ evt[e].order # NoOrder =>
            order[evt[e].order].pay = "PAID"

\* order.paid is announced only for an order that is paid, and still is.
AnnouncedIsPaid ==
    \A o \in Orders : "order.paid" \in published[o] => order[o].pay = "PAID"

\* What is said of an order is so: to the broker, that its payment was taken in,
\* to the other services, that it was paid or that it expired.
AnnouncementsHold ==
    ProcessedIsPaid /\ AnnouncedIsPaid /\ ExpiredOnlyAfterBlacklist

\* No step takes a payment back: a scan that read the order before a payment
\* arrived does not overwrite it with what it read.
PaidIsStable ==
    [][\A o \in Orders : order[o].pay = "PAID" => order'[o].pay = "PAID"]_vars

(* Liveness *)

\* An order left unsettled when its QR lapsed does not stay so, even if the
\* face service never answers and every run of the job is cut short by it.
ExpiryProgress ==
    \A o \in Orders : Unsettled(order[o]) ~> ~Unsettled(order[o])

-----------------------------------------------------------------------------
(* The invariant that makes the safety properties inductive *)

\* A document has an owner and a type from its insertion on.
DocumentsOwned ==
    \A o \in Orders :
        /\ Stored(o) <=> order[o].user \in Users
        /\ Stored(o) <=> order[o].type \in Types
        /\ ~Stored(o) => order[o] = Absent

\* A handler works on a stored order, and if what it has read says PAID, the
\* order is paid now.  A scan of an order paid on the app has read PAID.
HandlersInFlight ==
    \A h \in Handlers :
        req[h].pc # "idle" =>
            /\ req[h].order \in Orders
            /\ Stored(req[h].order)
            /\ req[h].seen = "PAID" => order[req[h].order].pay = "PAID"
            /\ req[h].pc = "scan" =>
                 /\ req[h].seen \in Pays
                 /\ order[req[h].order].method = "PAY_ON_APP" => req[h].seen = "PAID"
            /\ req[h].pc = "cancel" => req[h].seen \in Debts \ {"OUTSTANDING"}

\* The expiry job only ever holds orders to be paid later, and publishes
\* after it has blacklisted.
JobsInFlight ==
    \A j \in Jobs :
        /\ \A o \in job[j].batch : Stored(o) /\ order[o].method = "PAY_LATER"
        /\ job[j].pc \in {"blacklist", "publish"} =>
             /\ job[j].cur \in Orders
             /\ Stored(job[j].cur)
             /\ order[job[j].cur].method = "PAY_LATER"
        /\ job[j].pc = "publish" => Debtor(j) \in blacklist

\* Where a payment event stands between the update and the ack.
EventsInFlight ==
    \A e \in Events :
        /\ evt[e].order # NoOrder => Stored(evt[e].order)
        /\ evt[e].pc \in {"read", "written", "marked"} => evt[e].order # NoOrder
        /\ evt[e].pc \in {"written", "marked"} => order[evt[e].order].pay = "PAID"
        /\ evt[e].pc = "unsent" => e \notin processed
        /\ e \in processed => evt[e].order # NoOrder

\* An order announced as expired is one to be paid later.
NotifiedDeferred ==
    \A o \in Orders : "order.qr.expired" \in published[o] =>
                          Stored(o) /\ order[o].method = "PAY_LATER"

IInv ==
    /\ TypeOK
    /\ DocumentsOwned
    /\ PrepaidNeverDebtor
    /\ ScannedIsPaid
    /\ DebtCoherent
    /\ BlacklistSound
    /\ ExpiredOnlyAfterBlacklist
    /\ ProcessedIsPaid
    /\ AnnouncedIsPaid
    /\ HandlersInFlight
    /\ JobsInFlight
    /\ EventsInFlight
    /\ NotifiedDeferred

-----------------------------------------------------------------------------
(* The abstract specification it implements *)

Abstract == INSTANCE Settlement WITH
    owner     <- [o \in Orders |-> order[o].user],
    deferred  <- {o \in Orders : Stored(o) /\ order[o].method = "PAY_LATER"},
    paid      <- {o \in Orders : order[o].pay = "PAID"},
    announced <- {o \in Orders : "order.paid" \in published[o]},
    debtors   <- blacklist,
    notified  <- {o \in Orders : "order.qr.expired" \in published[o]}

\* Every step of the handlers, the consumer and the job is a step of the
\* abstract specification, or none: what happens in between the reads and the
\* writes, and in a crash, is not visible to those it makes promises to.
ImplementsSettlement == Abstract!Spec

-----------------------------------------------------------------------------
(* What the repository says and the code does not do *)

\* AnalysisReadme.md:267: "If QR scanned in time -> timer cancelled, no
\* debtor action".
ScannedNoDebtor ==
    \A o \in Orders : order[o].scannedBy # Nobody => order[o].debt # "OUTSTANDING"

=============================================================================
