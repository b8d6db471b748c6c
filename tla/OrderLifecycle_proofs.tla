----------------------- MODULE OrderLifecycle_proofs -----------------------
(***************************************************************************)
(* The safety properties of OrderLifecycle, proved for every number of     *)
(* orders, users, handlers, job runs and payment events.                   *)
(*                                                                         *)
(* Every step of the system, whoever takes it, is a good step of the       *)
(* documents (GoodStep): a stored order keeps its owner, type and method,  *)
(* a payment is never taken back, and each document stays sound by itself  *)
(* (GoodDoc).  What the processes carry between their steps then stays     *)
(* true because it only speaks of what good steps preserve.                *)
(***************************************************************************)
EXTENDS OrderLifecycle, TLAPS

\* One document is sound by itself.
GoodDoc(d) ==
    /\ d \in Doc
    /\ d.status # "ABSENT" <=> d.user \in Users
    /\ d.status # "ABSENT" <=> d.type \in Types
    /\ d.status = "ABSENT" => d = Absent
    /\ d.status # "ABSENT" /\ d.method = "PAY_ON_APP" =>
         d.pay = "PAID" /\ d.debt # "OUTSTANDING" /\ d.status # "EXPIRED"
    /\ d.scannedBy # Nobody => d.pay = "PAID"
    /\ d.flagged <=> d.debt = "OUTSTANDING"
    /\ d.debt = "OUTSTANDING" => d.status = "EXPIRED"

\* What an update of a stored document c leaves as it was.
Keeps(c, d) ==
    /\ d.status # "ABSENT"
    /\ d.user = c.user
    /\ d.type = c.type
    /\ d.method = c.method
    /\ c.pay = "PAID" => d.pay = "PAID"

GoodStep ==
    /\ order' \in [Orders -> Doc]
    /\ \A o \in Orders : /\ GoodDoc(order'[o])
                         /\ Stored(o) => Keeps(order[o], order'[o])

-----------------------------------------------------------------------------
(* Lemmas about one document *)

\* In a state of the invariant every document is sound.
LEMMA DocsAreGood ==
    ASSUME IInv
    PROVE  \A o \in Orders : GoodDoc(order[o])
  BY DEF IInv, TypeOK, DocumentsOwned, PrepaidNeverDebtor, ScannedIsPaid,
         DebtCoherent, GoodDoc, Stored

\* The document createOrder inserts is sound.
LEMMA NewDocIsGood ==
    ASSUME NEW u \in Users, NEW t \in Types, NEW m \in Methods
    PROVE  GoodDoc(NewDoc(u, t, m)) /\ NewDoc(u, t, m).status # "ABSENT"
  BY NobodyAssumption DEF GoodDoc, NewDoc, Doc, Methods, Statuses, Pays, Debts

\* Storing the final QR, which forgets a scan, changes nothing else.
LEMMA FinalQrDocIsGood ==
    ASSUME NEW d, GoodDoc(d), d.status # "ABSENT"
    PROVE  GoodDoc(FinalQrDoc(d)) /\ Keeps(d, FinalQrDoc(d))
  BY DEF GoodDoc, Keeps, FinalQrDoc, Doc

\* A cancellation keeps the payment, and leaves no debt.
LEMMA CancelDocIsGood ==
    ASSUME NEW d, NEW seen, GoodDoc(d), d.status # "ABSENT"
    PROVE  GoodDoc(CancelDoc(d, seen)) /\ Keeps(d, CancelDoc(d, seen))
  BY DEF GoodDoc, Keeps, CancelDoc, Doc, Statuses, Debts

\* A scan leaves a paid order, provided what it read of an order paid on the
\* app was PAID.
LEMMA ScanDocIsGood ==
    ASSUME NEW d, NEW h \in Handlers, NEW seen \in Pays,
           GoodDoc(d), d.status # "ABSENT",
           d.method = "PAY_ON_APP" => seen = "PAID"
    PROVE  /\ GoodDoc(ScanDoc(d, h, seen))
           /\ Keeps(d, ScanDoc(d, h, seen))
           /\ ScanDoc(d, h, seen).pay = "PAID"
<1> DEFINE e == ScanDoc(d, h, seen)
<1>1. ScanStatus(d) \in Statuses \ {"EXPIRED", "ABSENT"}
  BY DEF ScanStatus, Statuses
<1>2. ScanPay(d, seen) = "PAID"
  BY DEF ScanPay, GoodDoc, Doc, Methods
<1>3. /\ e.status = ScanStatus(d) /\ e.pay = ScanPay(d, seen)
      /\ e.debt = "CLEARED" /\ e.flagged = FALSE
      /\ e.user = d.user /\ e.type = d.type /\ e.method = d.method
  BY DEF GoodDoc, ScanDoc, Doc
<1>4. e \in Doc
  <2> DEFINE s == ScanStatus(d)
             p == ScanPay(d, seen)
  <2>1. s \in Statuses /\ p \in Pays /\ "CLEARED" \in Debts
    BY <1>1, <1>2 DEF Pays, Debts
  <2>2. e = [d EXCEPT !.scannedBy = h, !.status = s, !.pay = p,
                      !.debt = "CLEARED", !.flagged = FALSE]
    BY DEF ScanDoc
  <2> HIDE DEF s, p, e
  <2> QED
    BY <2>1, <2>2 DEF GoodDoc, Doc
<1> HIDE DEF e
<1>5. GoodDoc(e) /\ Keeps(d, e) /\ e.pay = "PAID"
  BY <1>1, <1>2, <1>3, <1>4 DEF GoodDoc, Keeps
<1> QED
  BY <1>5 DEF e

\* A payment leaves a paid order without a debt.
LEMMA PaidDocIsGood ==
    ASSUME NEW d, GoodDoc(d), d.status # "ABSENT"
    PROVE  GoodDoc(PaidDoc(d)) /\ Keeps(d, PaidDoc(d)) /\ PaidDoc(d).pay = "PAID"
  BY DEF GoodDoc, Keeps, PaidDoc, Doc, Statuses, Pays, Debts

\* The expiry of an order to be paid later is sound, whatever became of it.
LEMMA ExpireDocIsGood ==
    ASSUME NEW d, GoodDoc(d), d.status # "ABSENT", d.method = "PAY_LATER"
    PROVE  GoodDoc(ExpireDoc(d)) /\ Keeps(d, ExpireDoc(d))
  BY DEF GoodDoc, Keeps, ExpireDoc, Doc, Statuses, Debts

\* So is the repair of a paid debt.
LEMMA ClearDocIsGood ==
    ASSUME NEW d, GoodDoc(d), d.status # "ABSENT"
    PROVE  GoodDoc(ClearDoc(d)) /\ Keeps(d, ClearDoc(d))
  BY DEF GoodDoc, Keeps, ClearDoc, Doc, Debts

-----------------------------------------------------------------------------
(* What good steps preserve *)

\* Updating one stored document by a sound one that keeps what it must is a
\* good step.
LEMMA WriteIsGood ==
    ASSUME IInv, NEW o \in Orders, NEW d, Write(o, d), GoodDoc(d),
           Stored(o) => Keeps(order[o], d)
    PROVE  GoodStep
<1>1. order \in [Orders -> Doc] /\ d \in Doc
  BY DEF IInv, TypeOK, GoodDoc
<1>2. \A p \in Orders : order'[p] = IF p = o THEN d ELSE order[p]
  BY <1>1 DEF Write
<1>3. \A p \in Orders : Stored(p) => Keeps(order[p], order[p])
  BY DEF Keeps, Stored
<1> QED
  BY <1>1, <1>2, <1>3, DocsAreGood DEF GoodStep, Write

\* A step that writes no document is a good step.
LEMMA NoWriteIsGood ==
    ASSUME IInv, UNCHANGED order
    PROVE  GoodStep
  BY DocsAreGood DEF GoodStep, Keeps, Stored, IInv, TypeOK

\* The properties of single documents.
LEMMA GoodStepDocs ==
    ASSUME GoodStep
    PROVE  DocumentsOwned' /\ PrepaidNeverDebtor' /\ ScannedIsPaid' /\ DebtCoherent'
  BY DEF GoodStep, GoodDoc, DocumentsOwned, PrepaidNeverDebtor, ScannedIsPaid,
         DebtCoherent, Stored

LEMMA GoodStepHandlers ==
    ASSUME IInv, GoodStep, UNCHANGED req
    PROVE  HandlersInFlight'
  BY DEF IInv, GoodStep, Keeps, HandlersInFlight, Stored

LEMMA GoodStepJobs ==
    ASSUME IInv, GoodStep, UNCHANGED <<job, blacklist>>
    PROVE  JobsInFlight'
  BY DEF IInv, TypeOK, GoodStep, Keeps, JobsInFlight, Stored, Debtor

LEMMA GoodStepEvents ==
    ASSUME IInv, GoodStep, UNCHANGED <<evt, processed>>
    PROVE  EventsInFlight' /\ ProcessedIsPaid'
  BY DEF IInv, TypeOK, GoodStep, Keeps, EventsInFlight, ProcessedIsPaid, Stored

LEMMA GoodStepPublished ==
    ASSUME IInv, GoodStep, UNCHANGED <<published, blacklist>>
    PROVE  AnnouncedIsPaid' /\ ExpiredOnlyAfterBlacklist' /\ NotifiedDeferred'
  BY DEF IInv, GoodStep, Keeps, AnnouncedIsPaid, ExpiredOnlyAfterBlacklist,
         NotifiedDeferred, DocumentsOwned, Stored, Absent

LEMMA GoodStepBlacklist ==
    ASSUME IInv, GoodStep, UNCHANGED blacklist
    PROVE  BlacklistSound'
  BY DEF IInv, GoodStep, Keeps, BlacklistSound, Stored

\* A publication adds its keys to its order's, and nothing else.
LEMMA PublishAdds ==
    ASSUME TypeOK, NEW o \in Orders, NEW ks, Publish(o, ks)
    PROVE  \A p \in Orders : \A k :
             k \in published'[p] <=> k \in published[p] \/ (p = o /\ k \in ks)
  BY DEF TypeOK, Publish

-----------------------------------------------------------------------------
(* One lemma per action *)

LEMMA CreateInsertStep ==
    ASSUME IInv, NEW h \in Handlers, NEW o \in Orders, CreateInsert(h, o)
    PROVE  IInv' /\ GoodStep
<1>1. PICK u \in Users, t \in Types, m \in Methods :
        /\ Write(o, NewDoc(u, t, m))
        /\ Goto(h, "create_qr", o, "NONE")
  BY DEF CreateInsert
<1>2. GoodStep
  BY <1>1, NewDocIsGood, WriteIsGood DEF CreateInsert
<1>3. order'[o].status # "ABSENT"
  BY <1>1, NewDocIsGood DEF Write, IInv, TypeOK
<1>4. UNCHANGED <<job, evt, processed, published, blacklist, faults>>
  BY DEF CreateInsert
<1>5. TypeOK'
  BY <1>1, <1>2, <1>4 DEF IInv, TypeOK, GoodStep, Goto, HandlerPcs, Debts
<1>6. HandlersInFlight'
  BY <1>1, <1>2, <1>3
     DEF IInv, TypeOK, GoodStep, Keeps, HandlersInFlight, Goto, Stored
<1> QED
  BY <1>2, <1>4, <1>5, <1>6, GoodStepDocs, GoodStepJobs, GoodStepEvents,
     GoodStepPublished, GoodStepBlacklist DEF IInv

LEMMA CreateQrStep ==
    ASSUME IInv, NEW h \in Handlers, CreateQr(h)
    PROVE  IInv' /\ GoodStep
<1> DEFINE o == req[h].order
<1>1. o \in Orders /\ Stored(o)
  BY DEF IInv, HandlersInFlight, CreateQr
<1>2. Write(o, FinalQrDoc(order[o])) /\ Goto(h, "create_pub", o, order[o].pay)
  BY DEF CreateQr
<1>3. GoodStep
  BY <1>1, <1>2, DocsAreGood, FinalQrDocIsGood, WriteIsGood DEF Stored
<1>4. UNCHANGED <<job, evt, processed, published, blacklist, faults>>
  BY DEF CreateQr
<1>5. TypeOK'
  BY <1>1, <1>2, <1>3, <1>4
     DEF IInv, TypeOK, GoodStep, Goto, HandlerPcs, Doc
<1>6. HandlersInFlight'
  BY <1>1, <1>2, <1>3
     DEF IInv, TypeOK, GoodStep, Keeps, HandlersInFlight, Goto, Stored
<1> QED
  BY <1>3, <1>4, <1>5, <1>6, GoodStepDocs, GoodStepJobs, GoodStepEvents,
     GoodStepPublished, GoodStepBlacklist DEF IInv

\* What a handler does when it publishes order.paid, or not, and ends.
LEMMA HandlerPublishes ==
    ASSUME IInv, NEW h \in Handlers, req[h].pc # "idle", Finish(h),
           Publish(req[h].order, AnnouncePaid(req[h].seen)),
           UNCHANGED <<order, job, evt, processed, blacklist, faults>>
    PROVE  IInv' /\ GoodStep
<1> DEFINE o == req[h].order
<1>1. o \in Orders /\ (req[h].seen = "PAID" => order[o].pay = "PAID")
  BY DEF IInv, HandlersInFlight
<1>2. GoodStep
  BY NoWriteIsGood
<1>3. \A p \in Orders :
        \/ published'[p] = published[p]
        \/ /\ p = o /\ order[o].pay = "PAID"
           /\ published'[p] = published[p] \cup {"order.paid"}
  BY <1>1 DEF Publish, AnnouncePaid, IInv, TypeOK
<1>4. TypeOK'
  BY <1>1 DEF IInv, TypeOK, Finish, IdleReq, Publish, AnnouncePaid, HandlerPcs,
              Debts, Keys
<1>5. HandlersInFlight'
  BY DEF IInv, TypeOK, HandlersInFlight, Finish, IdleReq, Stored
<1>6. AnnouncedIsPaid' /\ ExpiredOnlyAfterBlacklist' /\ NotifiedDeferred'
  BY <1>3 DEF IInv, AnnouncedIsPaid, ExpiredOnlyAfterBlacklist, NotifiedDeferred,
              Stored
<1> QED
  BY <1>2, <1>4, <1>5, <1>6, GoodStepDocs, GoodStepJobs, GoodStepEvents,
     GoodStepBlacklist DEF IInv

\* A handler that starts by reading order o, and writes nothing yet.
LEMMA HandlerReads ==
    ASSUME IInv, NEW h \in Handlers, NEW o \in Orders, CancelRead(h, o) \/ ScanRead(h, o)
    PROVE  IInv' /\ GoodStep
<1>1. GoodStep
  BY NoWriteIsGood DEF CancelRead, ScanRead
<1>2. UNCHANGED <<job, evt, processed, published, blacklist, faults>>
  BY DEF CancelRead, ScanRead
<1>3. \E pc \in {"cancel", "scan"}, seen \in Pays \cup Debts : Goto(h, pc, o, seen)
  BY DEF CancelRead, ScanRead, IInv, TypeOK, Doc
<1>4. TypeOK'
  BY <1>1, <1>2, <1>3 DEF IInv, TypeOK, GoodStep, Goto, HandlerPcs
<1>5. HandlersInFlight'
  <2>1. Stored(o) /\ UNCHANGED order
    BY DEF CancelRead, ScanRead
  <2>2. CASE CancelRead(h, o)
    BY <2>1, <2>2 DEF CancelRead, IInv, TypeOK, HandlersInFlight, Goto, Stored, Doc,
                      Debts
  <2>3. CASE ScanRead(h, o)
    BY <2>1, <2>3 DEF ScanRead, IInv, TypeOK, PrepaidNeverDebtor, HandlersInFlight,
                      Goto, Stored, Doc
  <2> QED
    BY <2>2, <2>3
<1> QED
  BY <1>1, <1>2, <1>4, <1>5, GoodStepDocs, GoodStepJobs, GoodStepEvents,
     GoodStepPublished, GoodStepBlacklist DEF IInv

LEMMA CancelWriteStep ==
    ASSUME IInv, NEW h \in Handlers, CancelWrite(h)
    PROVE  IInv' /\ GoodStep
<1> DEFINE o == req[h].order
<1>1. o \in Orders /\ Stored(o)
  BY DEF IInv, HandlersInFlight, CancelWrite
<1>2. Write(o, CancelDoc(order[o], req[h].seen)) /\ Finish(h)
  BY DEF CancelWrite
<1>3. GoodStep
  BY <1>1, <1>2, DocsAreGood, CancelDocIsGood, WriteIsGood DEF Stored
<1>4. UNCHANGED <<job, evt, processed, published, blacklist, faults>>
  BY DEF CancelWrite
<1>5. TypeOK'
  BY <1>2, <1>3, <1>4 DEF IInv, TypeOK, GoodStep, Finish, IdleReq, HandlerPcs, Debts
<1>6. HandlersInFlight'
  BY <1>2, <1>3
     DEF IInv, TypeOK, GoodStep, Keeps, HandlersInFlight, Finish, IdleReq, Stored
<1> QED
  BY <1>3, <1>4, <1>5, <1>6, GoodStepDocs, GoodStepJobs, GoodStepEvents,
     GoodStepPublished, GoodStepBlacklist DEF IInv

LEMMA ScanWriteStep ==
    ASSUME IInv, NEW h \in Handlers, ScanWrite(h)
    PROVE  IInv' /\ GoodStep
<1> DEFINE o == req[h].order
           d == ScanDoc(order[o], h, req[h].seen)
<1>1. /\ o \in Orders /\ Stored(o)
      /\ req[h].seen \in Pays
      /\ order[o].method = "PAY_ON_APP" => req[h].seen = "PAID"
  BY DEF IInv, HandlersInFlight, ScanWrite
<1>2. Write(o, d) /\ Goto(h, "scan_pub", o, d.pay)
  BY DEF ScanWrite
<1>3. GoodDoc(d) /\ Keeps(order[o], d) /\ d.pay = "PAID"
  BY <1>1, DocsAreGood, ScanDocIsGood DEF Stored
<1>4. GoodStep
  BY <1>1, <1>2, <1>3, WriteIsGood
<1>5. UNCHANGED <<job, evt, processed, published, blacklist, faults>>
  BY DEF ScanWrite
<1>6. TypeOK'
  BY <1>1, <1>2, <1>3, <1>4, <1>5 DEF IInv, TypeOK, GoodStep, Goto, HandlerPcs, Pays
<1>7. HandlersInFlight'
  <2>1. order'[o] = d
    BY <1>1, <1>2 DEF Write, IInv, TypeOK
  <2> HIDE DEF d
  <2> QED
    BY <1>1, <1>2, <1>3, <1>4, <2>1
       DEF IInv, TypeOK, GoodStep, Keeps, HandlersInFlight, Goto, Stored
<1> QED
  BY <1>4, <1>5, <1>6, <1>7, GoodStepDocs, GoodStepJobs, GoodStepEvents,
     GoodStepPublished, GoodStepBlacklist DEF IInv

LEMMA RequestFailsStep ==
    ASSUME IInv, NEW h \in Handlers, RequestFails(h)
    PROVE  IInv' /\ GoodStep
<1>1. GoodStep
  BY NoWriteIsGood DEF RequestFails
<1>2. UNCHANGED <<job, evt, processed, published, blacklist, faults>> /\ Finish(h)
  BY DEF RequestFails
<1>3. TypeOK'
  BY <1>1, <1>2 DEF IInv, TypeOK, GoodStep, Finish, IdleReq, HandlerPcs, Debts
<1>4. HandlersInFlight'
  BY <1>1, <1>2 DEF IInv, TypeOK, GoodStep, Keeps, HandlersInFlight, Finish, IdleReq,
                    Stored
<1> QED
  BY <1>1, <1>2, <1>3, <1>4, GoodStepDocs, GoodStepJobs, GoodStepEvents,
     GoodStepPublished, GoodStepBlacklist DEF IInv

\* The two steps that touch documents only: the repair of debts, the clock.
LEMMA DocumentsOnly ==
    ASSUME IInv, GoodStep,
           UNCHANGED <<req, job, evt, processed, published, blacklist, faults>>
    PROVE  IInv'
<1>1. TypeOK'
  BY DEF IInv, TypeOK, GoodStep
<1> QED
  BY <1>1, GoodStepDocs, GoodStepHandlers, GoodStepJobs, GoodStepEvents,
     GoodStepPublished, GoodStepBlacklist DEF IInv

LEMMA DebtStatusStep ==
    ASSUME IInv, NEW u \in Users, DebtStatus(u)
    PROVE  IInv' /\ GoodStep
<1>1. GoodStep
  <2>1. \A o \in Orders :
          \/ order'[o] = order[o]
          \/ order'[o] = ClearDoc(order[o]) /\ Stored(o)
    BY NobodyAssumption DEF DebtStatus, Stored, IInv, DocumentsOwned
  <2>2. \A o \in Orders : GoodDoc(order'[o]) /\ (Stored(o) => Keeps(order[o], order'[o]))
    BY <2>1, DocsAreGood, ClearDocIsGood DEF Stored, Keeps
  <2>3. order' = [o \in Orders |-> order'[o]]
    BY DEF DebtStatus
  <2> QED
    BY <2>2, <2>3 DEF GoodStep, GoodDoc
<1> QED
  BY <1>1, DocumentsOnly DEF DebtStatus

LEMMA QrLapsesStep ==
    ASSUME IInv, NEW o \in Orders, QrLapses(o)
    PROVE  IInv' /\ GoodStep
<1> DEFINE d == [order[o] EXCEPT !.lapsed = TRUE]
<1>0. GoodDoc(order[o]) /\ order[o].status # "ABSENT"
  BY DocsAreGood DEF QrLapses, Stored
<1>1. GoodDoc(d) /\ Keeps(order[o], d)
  <2>1. /\ d \in Doc
        /\ d.status = order[o].status /\ d.user = order[o].user
        /\ d.type = order[o].type /\ d.method = order[o].method
        /\ d.pay = order[o].pay /\ d.debt = order[o].debt
        /\ d.flagged = order[o].flagged /\ d.scannedBy = order[o].scannedBy
    BY <1>0 DEF GoodDoc, Doc
  <2> HIDE DEF d
  <2> QED
    BY <1>0, <2>1 DEF GoodDoc, Keeps
<1>2. GoodStep
  BY <1>1, WriteIsGood DEF QrLapses
<1> QED
  BY <1>2, DocumentsOnly DEF QrLapses

LEMMA PaymentSentStep ==
    ASSUME IInv, NEW e \in Events, NEW o \in Orders \cup {NoOrder}, PaymentSent(e, o)
    PROVE  IInv' /\ GoodStep
<1>1. GoodStep
  BY NoWriteIsGood DEF PaymentSent
<1>2. UNCHANGED <<order, req, job, processed, published, blacklist, faults>>
  BY DEF PaymentSent
<1>3. TypeOK'
  BY <1>1, <1>2 DEF IInv, TypeOK, PaymentSent, EventPcs
<1>4. EventsInFlight' /\ ProcessedIsPaid'
  BY <1>2 DEF IInv, TypeOK, EventsInFlight, ProcessedIsPaid, PaymentSent, Stored
<1> QED
  BY <1>1, <1>2, <1>3, <1>4, GoodStepDocs, GoodStepHandlers, GoodStepJobs,
     GoodStepPublished, GoodStepBlacklist DEF IInv

\* The consumer's steps that write no document and publish nothing.
LEMMA QuietConsumerStep ==
    ASSUME IInv, NEW e \in Events,
           EventIgnored(e) \/ EventRead(e) \/ EventMark(e) \/ EventFails(e)
    PROVE  IInv' /\ GoodStep
<1>1. UNCHANGED <<order, req, job, published, blacklist>>
  BY DEF EventIgnored, EventRead, EventMark, EventFails
<1>2. GoodStep
  BY <1>1, NoWriteIsGood
<1>3. TypeOK'
  BY <1>1, MaxFaultsAssumption
     DEF IInv, TypeOK, EventIgnored, EventRead, EventMark, EventFails, Advance,
         EventPcs, Fault
<1>4. EventsInFlight' /\ ProcessedIsPaid'
  <2> USE DEF IInv, TypeOK, EventsInFlight, ProcessedIsPaid, Stored, Advance
  <2>1. CASE EventIgnored(e)
    BY <1>1, <2>1 DEF EventIgnored
  <2>2. CASE EventRead(e)
    BY <1>1, <2>2 DEF EventRead
  <2>3. CASE EventMark(e)
    BY <1>1, <2>3 DEF EventMark
  <2>4. CASE EventFails(e)
    BY <1>1, <2>4 DEF EventFails
  <2> QED
    BY <2>1, <2>2, <2>3, <2>4
<1> QED
  BY <1>1, <1>2, <1>3, <1>4, GoodStepDocs, GoodStepHandlers, GoodStepJobs,
     GoodStepPublished, GoodStepBlacklist DEF IInv

LEMMA EventApplyStep ==
    ASSUME IInv, NEW e \in Events, EventApply(e)
    PROVE  IInv' /\ GoodStep
<1> DEFINE o == evt[e].order
<1>1. o \in Orders /\ Stored(o)
  BY DEF IInv, TypeOK, EventsInFlight, EventApply, Advance
<1>2. Write(o, PaidDoc(order[o])) /\ Advance(e, "read", "written")
  BY DEF EventApply
<1>3. GoodStep
  BY <1>1, <1>2, DocsAreGood, PaidDocIsGood, WriteIsGood DEF Stored
<1>4. order'[o].pay = "PAID"
  BY <1>1, <1>2, DocsAreGood, PaidDocIsGood DEF Write, IInv, TypeOK, Stored
<1>5. UNCHANGED <<req, job, processed, published, blacklist, faults>>
  BY DEF EventApply
<1>6. TypeOK'
  BY <1>2, <1>3, <1>5 DEF IInv, TypeOK, GoodStep, Advance, EventPcs
<1>7. EventsInFlight' /\ ProcessedIsPaid'
  BY <1>1, <1>2, <1>3, <1>4, <1>5
     DEF IInv, TypeOK, GoodStep, Keeps, EventsInFlight, ProcessedIsPaid, Stored, Advance
<1> QED
  BY <1>3, <1>5, <1>6, <1>7, GoodStepDocs, GoodStepHandlers, GoodStepJobs,
     GoodStepPublished, GoodStepBlacklist DEF IInv

LEMMA EventAnnounceStep ==
    ASSUME IInv, NEW e \in Events, EventAnnounce(e)
    PROVE  IInv' /\ GoodStep
<1> DEFINE o == evt[e].order
<1>1. o \in Orders /\ order[o].pay = "PAID"
  BY DEF IInv, TypeOK, EventsInFlight, EventAnnounce, Advance
<1>2. UNCHANGED <<order, req, job, processed, blacklist, faults>>
  BY DEF EventAnnounce
<1>3. GoodStep
  BY <1>2, NoWriteIsGood
<1>4. TypeOK'
  BY <1>1, <1>2 DEF IInv, TypeOK, EventAnnounce, Advance, Publish, EventPcs, Keys
<1>5. EventsInFlight' /\ ProcessedIsPaid'
  BY <1>1, <1>2 DEF IInv, TypeOK, EventsInFlight, ProcessedIsPaid, Stored,
                    EventAnnounce, Advance
<1>6. AnnouncedIsPaid' /\ ExpiredOnlyAfterBlacklist' /\ NotifiedDeferred'
  <2>1. TypeOK /\ Publish(o, {"order.paid"})
    BY DEF EventAnnounce, IInv
  <2>2. \A p \in Orders : \A k :
          k \in published'[p] <=> k \in published[p] \/ (p = o /\ k = "order.paid")
    BY <1>1, <2>1, PublishAdds
  <2> QED
    BY <1>1, <1>2, <2>2 DEF IInv, AnnouncedIsPaid, ExpiredOnlyAfterBlacklist,
                            NotifiedDeferred, Stored
<1> QED
  BY <1>2, <1>3, <1>4, <1>5, <1>6, GoodStepDocs, GoodStepHandlers, GoodStepJobs,
     GoodStepBlacklist DEF IInv

LEMMA JobSelectStep ==
    ASSUME IInv, NEW j \in Jobs, JobSelect(j)
    PROVE  IInv' /\ GoodStep
<1>1. PICK B \in SUBSET Eligible :
        job' = [job EXCEPT ![j] = [pc |-> "next", batch |-> B, cur |-> NoOrder]]
  BY DEF JobSelect
<1>2. \A o \in B : o \in Orders /\ Stored(o) /\ order[o].method = "PAY_LATER"
  BY DEF Eligible, Unsettled, IInv, TypeOK, PrepaidNeverDebtor, Doc, Methods, Stored
<1>3. UNCHANGED <<order, req, evt, processed, published, blacklist, faults>>
  BY DEF JobSelect
<1>4. GoodStep
  BY <1>3, NoWriteIsGood
<1>5. TypeOK'
  BY <1>1, <1>2, <1>3 DEF IInv, TypeOK, JobPcs
<1>6. JobsInFlight'
  BY <1>1, <1>2, <1>3 DEF IInv, TypeOK, JobsInFlight, Stored, Debtor
<1> QED
  BY <1>3, <1>4, <1>5, <1>6, GoodStepDocs, GoodStepHandlers, GoodStepEvents,
     GoodStepPublished, GoodStepBlacklist DEF IInv

LEMMA JobMarkStep ==
    ASSUME IInv, NEW j \in Jobs, NEW o \in Orders, JobMark(j, o)
    PROVE  IInv' /\ GoodStep
<1>1. Stored(o) /\ order[o].method = "PAY_LATER"
  BY DEF IInv, JobsInFlight, JobMark
<1>2. GoodStep
  BY <1>1, DocsAreGood, ExpireDocIsGood, WriteIsGood DEF JobMark, Stored
<1>3. UNCHANGED <<req, evt, processed, published, blacklist, faults>>
  BY DEF JobMark
<1>4. TypeOK'
  BY <1>2, <1>3 DEF IInv, TypeOK, GoodStep, JobMark, JobPcs
<1>5. JobsInFlight'
  <2>1. \A q \in Orders : Stored(q) =>
          Stored(q)' /\ order'[q].method = order[q].method
                     /\ order'[q].user = order[q].user
    BY <1>2 DEF GoodStep, Keeps, Stored
  <2>2. /\ job'[j].pc = "blacklist" /\ job'[j].cur = o
        /\ job'[j].batch = job[j].batch \ {o}
        /\ \A i \in Jobs \ {j} : job'[i] = job[i]
        /\ \A i \in Jobs : job[i].batch \subseteq Orders
    BY DEF JobMark, IInv, TypeOK
  <2>3. JobsInFlight
    BY DEF IInv
  <2> QED
    BY <1>1, <1>3, <2>1, <2>2, <2>3 DEF JobsInFlight, Debtor
<1> QED
  BY <1>2, <1>3, <1>4, <1>5, GoodStepDocs, GoodStepHandlers, GoodStepEvents,
     GoodStepPublished, GoodStepBlacklist DEF IInv

\* The call of the face service, whether it is seen to succeed or not.
LEMMA JobBlacklistStep ==
    ASSUME IInv, NEW j \in Jobs, JobBlacklist(j) \/ JobBlacklistFails(j)
    PROVE  IInv' /\ GoodStep
<1> DEFINE o == job[j].cur
<1>1. /\ o \in Orders /\ Stored(o) /\ order[o].method = "PAY_LATER"
      /\ Debtor(j) = order[o].user /\ Debtor(j) \in Users
  BY DEF IInv, JobsInFlight, DocumentsOwned, JobBlacklist, JobBlacklistFails, Debtor
<1>2. UNCHANGED <<order, req, evt, processed, published, faults>>
  BY DEF JobBlacklist, JobBlacklistFails
<1>3. blacklist' \in {blacklist, blacklist \cup {Debtor(j)}}
  BY DEF JobBlacklist, JobBlacklistFails
<1>4. GoodStep
  BY <1>2, NoWriteIsGood
<1>5. TypeOK'
  <2>1. blacklist' \in SUBSET (Users \cup {Nobody})
    BY <1>1, <1>3 DEF IInv, TypeOK
  <2>2. job' \in [Jobs -> [pc    : JobPcs,
                          batch : SUBSET Orders,
                          cur   : Orders \cup {NoOrder}]]
    BY DEF IInv, TypeOK, JobBlacklist, JobBlacklistFails, JobPcs, IdleJob
  <2> QED
    BY <1>2, <2>1, <2>2 DEF IInv, TypeOK
<1>6. JobsInFlight'
  <2>1. CASE JobBlacklist(j)
    BY <1>1, <1>2, <2>1 DEF IInv, TypeOK, JobsInFlight, JobBlacklist, Stored, Debtor
  <2>2. CASE JobBlacklistFails(j)
    BY <1>2, <1>3, <2>2 DEF IInv, TypeOK, JobsInFlight, JobBlacklistFails, IdleJob,
                            Stored, Debtor
  <2> QED
    BY <2>1, <2>2
<1>7. AnnouncedIsPaid' /\ ExpiredOnlyAfterBlacklist' /\ NotifiedDeferred'
  BY <1>2, <1>3 DEF IInv, AnnouncedIsPaid, ExpiredOnlyAfterBlacklist,
                    NotifiedDeferred, Stored
<1>8. BlacklistSound'
  BY <1>1, <1>2, <1>3 DEF IInv, BlacklistSound, Stored
<1> QED
  BY <1>2, <1>4, <1>5, <1>6, <1>7, <1>8, GoodStepDocs, GoodStepHandlers,
     GoodStepEvents DEF IInv

LEMMA JobPublishStep ==
    ASSUME IInv, NEW j \in Jobs, JobPublish(j)
    PROVE  IInv' /\ GoodStep
<1> DEFINE o == job[j].cur
<1>1. /\ o \in Orders /\ Stored(o) /\ order[o].method = "PAY_LATER"
      /\ order[o].user \in blacklist
  BY DEF IInv, JobsInFlight, JobPublish, Debtor
<1>2. UNCHANGED <<order, req, evt, processed, blacklist, faults>>
  BY DEF JobPublish
<1>3. GoodStep
  BY <1>2, NoWriteIsGood
<1>4. TypeOK'
  BY <1>1, <1>2 DEF IInv, TypeOK, JobPublish, JobPcs, IdleJob, Publish, Keys
<1>5. JobsInFlight'
  BY <1>2 DEF IInv, TypeOK, JobsInFlight, JobPublish, IdleJob, Stored, Debtor
<1>6. AnnouncedIsPaid' /\ ExpiredOnlyAfterBlacklist' /\ NotifiedDeferred'
  <2>1. TypeOK /\ Publish(o, {"order.qr.expired"})
    BY DEF JobPublish, IInv
  <2>2. \A p \in Orders : \A k :
          k \in published'[p] <=> k \in published[p] \/ (p = o /\ k = "order.qr.expired")
    BY <1>1, <2>1, PublishAdds
  <2> QED
    BY <1>1, <1>2, <2>2 DEF IInv, AnnouncedIsPaid, ExpiredOnlyAfterBlacklist,
                            NotifiedDeferred, Stored
<1> QED
  BY <1>2, <1>3, <1>4, <1>5, <1>6, GoodStepDocs, GoodStepHandlers, GoodStepEvents,
     GoodStepBlacklist DEF IInv

LEMMA JobFailsStep ==
    ASSUME IInv, NEW j \in Jobs, JobFails(j)
    PROVE  IInv' /\ GoodStep
<1>1. UNCHANGED <<order, req, evt, processed, published, blacklist>>
  BY DEF JobFails
<1>2. GoodStep
  BY <1>1, NoWriteIsGood
<1>3. TypeOK'
  BY <1>1, MaxFaultsAssumption DEF IInv, TypeOK, JobFails, JobPcs, IdleJob, Fault
<1>4. JobsInFlight'
  BY <1>1 DEF IInv, TypeOK, JobsInFlight, JobFails, IdleJob, Stored, Debtor
<1> QED
  BY <1>1, <1>2, <1>3, <1>4, GoodStepDocs, GoodStepHandlers, GoodStepEvents,
     GoodStepPublished, GoodStepBlacklist DEF IInv

LEMMA CrashStep ==
    ASSUME IInv, Crash
    PROVE  IInv' /\ GoodStep
<1>1. UNCHANGED <<order, processed, published, blacklist>>
  BY DEF Crash
<1>2. GoodStep
  BY <1>1, NoWriteIsGood
<1>4. TypeOK'
  BY <1>1, MaxFaultsAssumption
     DEF IInv, TypeOK, Crash, IdleReq, IdleJob, HandlerPcs, JobPcs, EventPcs, Debts, Fault
<1>5. HandlersInFlight' /\ JobsInFlight'
  BY DEF HandlersInFlight, JobsInFlight, Crash, IdleReq, IdleJob
<1>6. EventsInFlight' /\ ProcessedIsPaid'
  <2>1. \A e \in Events :
          /\ evt'[e].order = evt[e].order
          /\ \/ evt'[e].pc = "queued" /\ evt[e].pc # "unsent"
             \/ evt'[e].pc = evt[e].pc
    <3> SUFFICES ASSUME NEW e \in Events
                 PROVE  /\ evt'[e].order = evt[e].order
                        /\ \/ evt'[e].pc = "queued" /\ evt[e].pc # "unsent"
                           \/ evt'[e].pc = evt[e].pc
      OBVIOUS
    <3>1. evt[e] \in [pc : EventPcs, order : Orders \cup {NoOrder}]
      BY DEF IInv, TypeOK
    <3>2. evt'[e] = IF evt[e].pc \in {"read", "written", "marked"}
                    THEN [evt[e] EXCEPT !.pc = "queued"]
                    ELSE evt[e]
      BY DEF Crash
    <3> QED
      BY <3>1, <3>2
  <2> QED
    BY <1>1, <2>1 DEF IInv, TypeOK, EventsInFlight, ProcessedIsPaid, Stored
<1> QED
  BY <1>1, <1>2, <1>4, <1>5, <1>6, GoodStepDocs, GoodStepPublished,
     GoodStepBlacklist DEF IInv

-----------------------------------------------------------------------------
(* The invariant *)

\* The initial state satisfies it.
LEMMA InitInvariant == Init => IInv
<1> SUFFICES ASSUME Init PROVE IInv
  OBVIOUS
<1>1. Absent \in Doc
  BY DEF Absent, Doc, Statuses, Methods, Pays, Debts
<1>2. TypeOK
  BY <1>1, MaxFaultsAssumption
     DEF Init, TypeOK, IdleReq, IdleJob, NoEvent, HandlerPcs, JobPcs, EventPcs, Debts
<1>3. \A o \in Orders : GoodDoc(order[o])
  BY <1>1, NobodyAssumption, TypesAssumption DEF Init, GoodDoc, Absent
<1>4. DocumentsOwned /\ PrepaidNeverDebtor /\ ScannedIsPaid /\ DebtCoherent
  BY <1>3 DEF GoodDoc, DocumentsOwned, PrepaidNeverDebtor, ScannedIsPaid,
              DebtCoherent, Stored
<1>5. HandlersInFlight /\ JobsInFlight
  BY DEF Init, HandlersInFlight, JobsInFlight, IdleReq, IdleJob
<1>6. EventsInFlight /\ ProcessedIsPaid
  BY DEF Init, EventsInFlight, ProcessedIsPaid, NoEvent
<1>7. /\ AnnouncedIsPaid /\ ExpiredOnlyAfterBlacklist /\ NotifiedDeferred
      /\ BlacklistSound
  BY DEF Init, AnnouncedIsPaid, ExpiredOnlyAfterBlacklist, NotifiedDeferred,
         BlacklistSound
<1> QED
  BY <1>2, <1>4, <1>5, <1>6, <1>7 DEF IInv

\* Every step keeps the invariant and is a good step of the documents.
LEMMA NextInvariant == IInv /\ [Next]_vars => IInv' /\ GoodStep
<1> SUFFICES ASSUME IInv, [Next]_vars PROVE IInv' /\ GoodStep
  OBVIOUS
<1>1. CASE Client
  BY <1>1, CreateInsertStep, HandlerReads, DebtStatusStep, PaymentSentStep DEF Client
<1>2. ASSUME NEW h \in Handlers, HandlerStep(h) PROVE IInv' /\ GoodStep
  <2>1. CASE CreatePublish(h) \/ ScanPublish(h)
    BY <2>1, HandlerPublishes DEF CreatePublish, ScanPublish
  <2>2. CASE CreateQr(h) \/ CancelWrite(h) \/ ScanWrite(h)
    BY <2>2, CreateQrStep, CancelWriteStep, ScanWriteStep
  <2> QED
    BY <1>2, <2>1, <2>2 DEF HandlerStep
<1>3. ASSUME NEW e \in Events, ConsumerStep(e) PROVE IInv' /\ GoodStep
  BY <1>3, QuietConsumerStep, EventApplyStep, EventAnnounceStep DEF ConsumerStep
<1>4. ASSUME NEW j \in Jobs, JobStep(j) PROVE IInv' /\ GoodStep
  BY <1>4, JobSelectStep, JobMarkStep, JobBlacklistStep, JobPublishStep DEF JobStep
<1>5. ASSUME NEW o \in Orders, QrLapses(o) PROVE IInv' /\ GoodStep
  BY <1>5, QrLapsesStep
<1>6. CASE Failure
  BY <1>6, RequestFailsStep, QuietConsumerStep, JobFailsStep, CrashStep DEF Failure
<1>7. CASE UNCHANGED vars
  BY <1>7, NoWriteIsGood, DocumentsOnly DEF vars
<1> QED
  BY <1>1, <1>2, <1>3, <1>4, <1>5, <1>6, <1>7 DEF Next

\* In every behaviour of the order service the invariant holds throughout.
THEOREM Invariance == Safe => []IInv
<1> QED
  BY InitInvariant, NextInvariant, PTL DEF Safe

\* Every variable keeps its type.
THEOREM TypeCorrect == Safe => []TypeOK
<1>1. IInv => TypeOK
  BY DEF IInv
<1> QED
  BY <1>1, Invariance, PTL

\* No customer who paid on the app ever owes anything, and status, debt and
\* risk flags agree.
THEOREM DebtTheorem == Safe => []DebtIsSound
<1>1. IInv => DebtIsSound
  BY DEF IInv, DebtIsSound
<1> QED
  BY <1>1, Invariance, PTL

\* An order handed over against its QR is paid.
THEOREM ScannedTheorem == Safe => []ScannedIsPaid
<1>1. IInv => ScannedIsPaid
  BY DEF IInv
<1> QED
  BY <1>1, Invariance, PTL

\* The face service never holds a person who placed no order to be paid later.
THEOREM BlacklistTheorem == Safe => []BlacklistSound
<1>1. IInv => BlacklistSound
  BY DEF IInv
<1> QED
  BY <1>1, Invariance, PTL

\* A payment event is processed or acked only once its order is paid, order.paid
\* is said of paid orders only, order.qr.expired only of orders whose customer
\* the face service holds.
THEOREM AnnouncementsTheorem == Safe => []AnnouncementsHold
<1>1. IInv => AnnouncementsHold
  BY DEF IInv, AnnouncementsHold
<1> QED
  BY <1>1, Invariance, PTL

\* No step takes a payment back.
THEOREM PaidTheorem == Safe => PaidIsStable
<1>1. IInv /\ [Next]_vars =>
        [\A o \in Orders : order[o].pay = "PAID" => order'[o].pay = "PAID"]_vars
  <2> SUFFICES ASSUME IInv, [Next]_vars, NEW o \in Orders, order[o].pay = "PAID"
               PROVE  order'[o].pay = "PAID"
    OBVIOUS
  <2>1. GoodStep
    BY NextInvariant
  <2>2. Stored(o)
    BY DEF IInv, DocumentsOwned, Absent
  <2> QED
    BY <2>1, <2>2 DEF GoodStep, Keeps
<1> QED
  BY <1>1, Invariance, PTL DEF Safe, PaidIsStable

-----------------------------------------------------------------------------
(* Refinement of the abstract specification *)

\* The abstract state is left as it is by a step that publishes nothing,
\* calls no face service, inserts no order and pays none.
LEMMA SilentStep ==
    ASSUME IInv, IInv', GoodStep, UNCHANGED <<published, blacklist>>,
           \A o \in Orders : /\ Stored(o)' => Stored(o)
                             /\ order'[o].pay = "PAID" => order[o].pay = "PAID"
    PROVE  UNCHANGED Abstract!vars
<1>1. \A o \in Orders : /\ order'[o].user = order[o].user
                        /\ Stored(o)' <=> Stored(o)
                        /\ order'[o].method = order[o].method
                        /\ order'[o].pay = "PAID" <=> order[o].pay = "PAID"
  BY DEF GoodStep, Keeps, IInv, DocumentsOwned, Stored, Absent
<1> QED
  BY <1>1 DEF Abstract!vars

\* The updates that have nothing to do with the payment leave it alone.
LEMMA QuietUpdates ==
    ASSUME NEW d \in Doc
    PROVE  /\ FinalQrDoc(d).pay = d.pay
           /\ \A seen : CancelDoc(d, seen).pay = d.pay
           /\ ExpireDoc(d).pay = d.pay
           /\ ClearDoc(d).pay = d.pay /\ ClearDoc(d).status = d.status
           /\ [d EXCEPT !.lapsed = TRUE].pay = d.pay
<1>1. FinalQrDoc(d).pay = d.pay
  BY DEF FinalQrDoc, Doc
<1>2. \A seen : CancelDoc(d, seen).pay = d.pay
  BY DEF CancelDoc, Doc
<1>3. ExpireDoc(d).pay = d.pay
  BY DEF ExpireDoc, Doc
<1>4. ClearDoc(d).pay = d.pay /\ ClearDoc(d).status = d.status
  BY DEF ClearDoc, Doc
<1>5. [d EXCEPT !.lapsed = TRUE].pay = d.pay
  BY DEF Doc
<1> QED
  BY <1>1, <1>2, <1>3, <1>4, <1>5

LEMMA SilentWrite ==
    ASSUME IInv, IInv', GoodStep, UNCHANGED <<published, blacklist>>,
           NEW o \in Orders, NEW d, Stored(o), Write(o, d), d.pay = order[o].pay
    PROVE  UNCHANGED Abstract!vars
<1>1. \A p \in Orders : order'[p] = IF p = o THEN d ELSE order[p]
  BY DEF Write, IInv, TypeOK
<1> QED
  BY <1>1, SilentStep DEF Stored

LEMMA CreateInsertRefines ==
    ASSUME IInv, NEW h \in Handlers, NEW o \in Orders, CreateInsert(h, o)
    PROVE  Abstract!Next
<1>1. PICK u \in Users, t \in Types, m \in Methods : Write(o, NewDoc(u, t, m))
  BY DEF CreateInsert
<1> DEFINE d == NewDoc(u, t, m)
<1>2. /\ d.user = u /\ d.method = m /\ d.status # "ABSENT"
      /\ d.pay = "PAID" <=> m = "PAY_ON_APP"
  BY NewDocIsGood DEF NewDoc
<1>3. \A p \in Orders : order'[p] = IF p = o THEN d ELSE order[p]
  BY <1>1 DEF Write, IInv, TypeOK
<1>4. order[o].user = Nobody /\ ~Stored(o) /\ order[o].pay # "PAID"
  BY DEF CreateInsert, IInv, DocumentsOwned, Absent
<1>5. UNCHANGED <<published, blacklist>>
  BY DEF CreateInsert
<1> HIDE DEF d
<1>6. Abstract!Place(o, u)
  BY <1>2, <1>3, <1>4, <1>5 DEF Abstract!Place, Stored, Methods
<1> QED
  BY <1>6 DEF Abstract!Next

\* The update of a document that leaves it paid settles its order.
LEMMA PayingRefines ==
    ASSUME IInv, NEW o \in Orders, NEW d, Stored(o), Write(o, d),
           Keeps(order[o], d), d.pay = "PAID", UNCHANGED <<published, blacklist>>
    PROVE  Abstract!Next
<1>1. \A p \in Orders : order'[p] = IF p = o THEN d ELSE order[p]
  BY DEF Write, IInv, TypeOK
<1>2. order[o].user # Nobody
  BY NobodyAssumption DEF IInv, DocumentsOwned
<1>3. Abstract!Settle(o)
  BY <1>1, <1>2 DEF Abstract!Settle, Keeps, Stored
<1> QED
  BY <1>3 DEF Abstract!Next

\* Publishing order.paid for a paid order announces it.
LEMMA AnnouncingRefines ==
    ASSUME IInv, NEW o \in Orders, order[o].pay = "PAID", Publish(o, {"order.paid"}),
           UNCHANGED <<order, blacklist>>
    PROVE  Abstract!Next
<1>1. \A p \in Orders : \A k :
        k \in published'[p] <=> k \in published[p] \/ (p = o /\ k = "order.paid")
  <2>1. TypeOK
    BY DEF IInv
  <2> QED
    BY <2>1, PublishAdds
<1>2. Abstract!Announce(o)
  BY <1>1 DEF Abstract!Announce, Stored
<1> QED
  BY <1>2 DEF Abstract!Next

\* Publishing order.qr.expired for a deferred order of a debtor notifies.
LEMMA NotifyingRefines ==
    ASSUME IInv, NEW o \in Orders, Stored(o), order[o].method = "PAY_LATER",
           order[o].user \in blacklist, Publish(o, {"order.qr.expired"}),
           UNCHANGED <<order, blacklist>>
    PROVE  Abstract!Next
<1>1. \A p \in Orders : \A k :
        k \in published'[p] <=> k \in published[p] \/ (p = o /\ k = "order.qr.expired")
  <2>1. TypeOK
    BY DEF IInv
  <2> QED
    BY <2>1, PublishAdds
<1>2. Abstract!NotifyExpiry(o)
  BY <1>1 DEF Abstract!NotifyExpiry, Stored
<1> QED
  BY <1>2 DEF Abstract!Next

LEMMA JobBlacklistRefines ==
    ASSUME IInv, NEW j \in Jobs, JobBlacklist(j) \/ JobBlacklistFails(j)
    PROVE  Abstract!Next \/ UNCHANGED Abstract!vars
<1> DEFINE o == job[j].cur
<1>1. o \in Orders /\ Stored(o) /\ order[o].method = "PAY_LATER"
  BY DEF IInv, JobsInFlight, JobBlacklist, JobBlacklistFails
<1>2. UNCHANGED <<order, published>> /\ blacklist' \in {blacklist, blacklist \cup {Debtor(j)}}
  BY DEF JobBlacklist, JobBlacklistFails
<1>3. CASE blacklist' = blacklist
  BY <1>2, <1>3 DEF Abstract!vars, Stored
<1>4. CASE blacklist' = blacklist \cup {Debtor(j)}
  <2>1. Abstract!Blacklist(o)
    BY <1>1, <1>2, <1>4 DEF Abstract!Blacklist, Debtor, Stored
  <2> QED
    BY <1>1, <2>1 DEF Abstract!Next
<1> QED
  BY <1>2, <1>3, <1>4

LEMMA JobPublishRefines ==
    ASSUME IInv, NEW j \in Jobs, JobPublish(j)
    PROVE  Abstract!Next
<1> DEFINE o == job[j].cur
<1>1. /\ o \in Orders /\ Stored(o) /\ order[o].method = "PAY_LATER"
      /\ order[o].user \in blacklist
  BY DEF IInv, JobsInFlight, JobPublish, Debtor
<1>2. UNCHANGED <<order, blacklist>> /\ Publish(o, {"order.qr.expired"})
  BY DEF JobPublish
<1> HIDE DEF o
<1> QED
  BY <1>1, <1>2, NotifyingRefines

\* What a handler publishes is order.paid of a paid order, or nothing.
LEMMA HandlerPublishRefines ==
    ASSUME IInv, NEW h \in Handlers, CreatePublish(h) \/ ScanPublish(h)
    PROVE  Abstract!Next \/ UNCHANGED Abstract!vars
<1> DEFINE o == req[h].order
<1>1. /\ o \in Orders
      /\ req[h].seen = "PAID" => order[o].pay = "PAID"
  BY DEF IInv, HandlersInFlight, CreatePublish, ScanPublish
<1>2. UNCHANGED <<order, blacklist>> /\ Publish(o, AnnouncePaid(req[h].seen))
  BY DEF CreatePublish, ScanPublish
<1>3. CASE req[h].seen = "PAID"
  <2>1. Publish(o, {"order.paid"})
    BY <1>2, <1>3 DEF AnnouncePaid
  <2> HIDE DEF o
  <2> QED
    BY <1>1, <1>2, <1>3, <2>1, AnnouncingRefines
<1>4. CASE req[h].seen # "PAID"
  <2>1. UNCHANGED published
    BY <1>2, <1>4 DEF AnnouncePaid, Publish, IInv, TypeOK
  <2> QED
    BY <1>2, <2>1 DEF Abstract!vars, Stored
<1> QED
  BY <1>3, <1>4

\* A handler's write settles an order, or cannot be seen.
LEMMA HandlerWriteRefines ==
    ASSUME IInv, IInv', GoodStep, NEW h \in Handlers,
           CreateQr(h) \/ CancelWrite(h) \/ ScanWrite(h)
    PROVE  Abstract!Next \/ UNCHANGED Abstract!vars
<1> DEFINE o == req[h].order
<1>1. o \in Orders /\ Stored(o) /\ GoodDoc(order[o])
  BY DocsAreGood DEF IInv, HandlersInFlight, CreateQr, CancelWrite, ScanWrite
<1>2. UNCHANGED <<published, blacklist>>
  BY DEF CreateQr, CancelWrite, ScanWrite
<1>3. CASE CreateQr(h) \/ CancelWrite(h)
  <2>1. PICK d : Write(o, d) /\ d.pay = order[o].pay
    <3>1. order[o] \in Doc
      BY <1>1 DEF GoodDoc
    <3>2. CASE CreateQr(h)
      BY <3>1, <3>2, QuietUpdates DEF CreateQr
    <3>3. CASE CancelWrite(h)
      BY <3>1, <3>3, QuietUpdates DEF CancelWrite
    <3> QED
      BY <1>3, <3>2, <3>3
  <2> HIDE DEF o
  <2> QED
    BY <1>1, <1>2, <2>1, SilentWrite
<1>4. CASE ScanWrite(h)
  <2> DEFINE d == ScanDoc(order[o], h, req[h].seen)
  <2>1. req[h].seen \in Pays /\ (order[o].method = "PAY_ON_APP" => req[h].seen = "PAID")
    BY <1>4 DEF IInv, HandlersInFlight, ScanWrite
  <2>2. Keeps(order[o], d) /\ d.pay = "PAID"
    BY <1>1, <2>1, ScanDocIsGood DEF Stored
  <2>3. Write(o, d)
    BY <1>4 DEF ScanWrite
  <2> HIDE DEF o, d
  <2> QED
    BY <1>1, <1>2, <2>2, <2>3, PayingRefines
<1> QED
  BY <1>3, <1>4

LEMMA EventApplyRefines ==
    ASSUME IInv, NEW e \in Events, EventApply(e)
    PROVE  Abstract!Next
<1> DEFINE o == evt[e].order
           d == PaidDoc(order[o])
<1>1. o \in Orders /\ Stored(o) /\ GoodDoc(order[o])
  BY DocsAreGood DEF IInv, TypeOK, EventsInFlight, EventApply, Advance
<1>2. Keeps(order[o], d) /\ d.pay = "PAID"
  BY <1>1, PaidDocIsGood DEF Stored
<1>3. Write(o, d) /\ UNCHANGED <<published, blacklist>>
  BY DEF EventApply
<1> HIDE DEF o, d
<1> QED
  BY <1>1, <1>2, <1>3, PayingRefines

LEMMA EventAnnounceRefines ==
    ASSUME IInv, NEW e \in Events, EventAnnounce(e)
    PROVE  Abstract!Next
<1> DEFINE o == evt[e].order
<1>1. o \in Orders /\ order[o].pay = "PAID"
  BY DEF IInv, TypeOK, EventsInFlight, EventAnnounce, Advance
<1>2. UNCHANGED <<order, blacklist>> /\ Publish(o, {"order.paid"})
  BY DEF EventAnnounce
<1> HIDE DEF o
<1> QED
  BY <1>1, <1>2, AnnouncingRefines

\* The updates of the debt query, the clock and the expiry job.
LEMMA QuietWriteRefines ==
    ASSUME IInv, IInv', GoodStep,
           \/ \E u \in Users : DebtStatus(u)
           \/ \E o \in Orders : QrLapses(o)
           \/ \E j \in Jobs, o \in Orders : JobMark(j, o)
    PROVE  UNCHANGED Abstract!vars
<1>1. UNCHANGED <<published, blacklist>>
  BY DEF DebtStatus, QrLapses, JobMark
<1>2. CASE \E u \in Users : DebtStatus(u)
  <2>1. \A p \in Orders : order'[p] \in {order[p], ClearDoc(order[p])}
    BY <1>2 DEF DebtStatus
  <2>2. \A p \in Orders : /\ ClearDoc(order[p]).pay = order[p].pay
                         /\ ClearDoc(order[p]).status = order[p].status
    BY QuietUpdates DEF IInv, TypeOK
  <2> QED
    BY <1>1, <2>1, <2>2, SilentStep DEF Stored
<1>3. CASE \E o \in Orders : QrLapses(o)
  <2>1. PICK o \in Orders : QrLapses(o)
    BY <1>3
  <2>2. [order[o] EXCEPT !.lapsed = TRUE].pay = order[o].pay
    BY QuietUpdates DEF IInv, TypeOK
  <2> QED
    BY <1>1, <2>1, <2>2, SilentWrite DEF QrLapses
<1>4. CASE \E j \in Jobs, o \in Orders : JobMark(j, o)
  <2>1. PICK j \in Jobs, o \in Orders : JobMark(j, o)
    BY <1>4
  <2>2. Stored(o)
    BY <2>1 DEF JobMark, JobsInFlight, IInv
  <2>3. ExpireDoc(order[o]).pay = order[o].pay
    BY QuietUpdates DEF IInv, TypeOK
  <2> QED
    BY <1>1, <2>1, <2>2, <2>3, SilentWrite DEF JobMark
<1> QED
  BY <1>2, <1>3, <1>4

LEMMA NextRefines ==
    ASSUME IInv, IInv', GoodStep, [Next]_vars
    PROVE  Abstract!Next \/ UNCHANGED Abstract!vars
<1>1. CASE UNCHANGED <<order, published, blacklist>>
  BY <1>1 DEF Abstract!vars, Stored
<1>2. CASE Client
  <2>1. CASE \E h \in Handlers, o \in Orders : CreateInsert(h, o)
    BY <2>1, CreateInsertRefines
  <2>2. CASE \E u \in Users : DebtStatus(u)
    BY <2>2, QuietWriteRefines
  <2>3. CASE \/ \E h \in Handlers, o \in Orders : CancelRead(h, o) \/ ScanRead(h, o)
             \/ \E e \in Events, o \in Orders \cup {NoOrder} : PaymentSent(e, o)
    BY <1>1, <2>3 DEF CancelRead, ScanRead, PaymentSent
  <2> QED
    BY <1>2, <2>1, <2>2, <2>3 DEF Client
<1>3. ASSUME NEW h \in Handlers, HandlerStep(h)
      PROVE  Abstract!Next \/ UNCHANGED Abstract!vars
  BY <1>3, HandlerPublishRefines, HandlerWriteRefines DEF HandlerStep
<1>4. ASSUME NEW e \in Events, ConsumerStep(e)
      PROVE  Abstract!Next \/ UNCHANGED Abstract!vars
  <2>1. CASE EventApply(e) \/ EventAnnounce(e)
    BY <2>1, EventApplyRefines, EventAnnounceRefines
  <2>2. CASE EventIgnored(e) \/ EventRead(e) \/ EventMark(e)
    BY <1>1, <2>2 DEF EventIgnored, EventRead, EventMark
  <2> QED
    BY <1>4, <2>1, <2>2 DEF ConsumerStep
<1>5. ASSUME NEW j \in Jobs, JobStep(j)
      PROVE  Abstract!Next \/ UNCHANGED Abstract!vars
  <2>1. CASE JobSelect(j)
    BY <1>1, <2>1 DEF JobSelect
  <2>2. CASE \E o \in Orders : JobMark(j, o)
    BY <2>2, QuietWriteRefines
  <2>3. CASE JobBlacklist(j) \/ JobBlacklistFails(j)
    BY <2>3, JobBlacklistRefines
  <2>4. CASE JobPublish(j)
    BY <2>4, JobPublishRefines
  <2> QED
    BY <1>5, <2>1, <2>2, <2>3, <2>4 DEF JobStep
<1>6. CASE \E o \in Orders : QrLapses(o)
  BY <1>6, QuietWriteRefines
<1>7. CASE Failure
  BY <1>1, <1>7 DEF Failure, RequestFails, EventFails, JobFails, Crash
<1>8. CASE UNCHANGED vars
  BY <1>1, <1>8 DEF vars
<1> QED
  BY <1>2, <1>3, <1>4, <1>5, <1>6, <1>7, <1>8 DEF Next

\* The handlers, the consumer and the job together implement Settlement.
THEOREM Refinement == Safe => ImplementsSettlement
<1>1. Init => Abstract!Init
  BY DEF Init, Abstract!Init, Absent, Stored
<1>2. IInv /\ IInv' /\ [Next]_vars => [Abstract!Next]_Abstract!vars
  <2> SUFFICES ASSUME IInv, IInv', [Next]_vars
               PROVE  Abstract!Next \/ UNCHANGED Abstract!vars
    BY DEF Abstract!vars
  <2>1. GoodStep
    BY NextInvariant
  <2> QED
    BY <2>1, NextRefines
<1> QED
  BY <1>1, <1>2, Invariance, PTL DEF Safe, Abstract!Spec, ImplementsSettlement

=============================================================================
