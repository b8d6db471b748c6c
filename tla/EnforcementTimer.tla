-------------------------- MODULE EnforcementTimer --------------------------
(***************************************************************************)
(* The driver-arrival timer of notificationService, for one order (orders  *)
(* share nothing): the timer document, the order-state document, the two   *)
(* delayed BullMQ jobs, the worker that runs them one at a time, and the   *)
(* consumer of order.driver.arrived, order.qr.scanned and order.qr.expired.*)
(*                                                                         *)
(* The consumer has up to RABBITMQ_PREFETCH messages in its handlers at    *)
(* once, and every handler is a chain of awaits; nothing orders the        *)
(* messages of one order, or a message and the job that is running.        *)
(***************************************************************************)
EXTENDS Naturals

CONSTANTS
    Slots,        \* messages that may be in the queue or a handler at once
    MaxArrived,   \* bound: order.driver.arrived events
    MaxScanned,   \* bound: order.qr.scanned events
    MaxExpired,   \* bound: order.qr.expired events from orderService
    MaxCrashes,   \* bound: restarts of the process
    MaxErrors,    \* bound: awaits that reject
    PhoneGiven    \* whether the arrival event carries a phone number

ASSUME LimitsAssumption ==
    {MaxArrived, MaxScanned, MaxExpired, MaxCrashes, MaxErrors} \subseteq Nat
ASSUME PhoneAssumption == PhoneGiven \in BOOLEAN

VARIABLES
    timer,    \* state of the EnforcementTimer document
    ostate,   \* the OrderState document
    queue,    \* the two jobs of the order, by job id
    stalled,  \* jobs that are to be run, or were run, again after a restart
    worker,   \* where the BullMQ worker is in processTimerJob
    msgs,     \* messages: waiting, or in a handler and how far
    sent,     \* events other services have published so far
    sms,      \* warning messages sent to the customer
    notices,  \* times the customer was told that the order expired
    crashes,
    errors,
    cut       \* history: an error has ended a handler or the expiry job, or
              \* restarts interrupted that job twice, or an arrival was
              \* delivered again after it had been handled

vars == <<timer, ostate, queue, stalled, worker, msgs, sent, sms, notices,
          crashes, errors, cut>>

TimerStates == {"NONE", "ACTIVE", "WARNING_SENT", "CANCELLED", "EXPIRED"}
Open        == {"ACTIVE", "WARNING_SENT"}
JobNames    == {"warning", "expire"}
JobStates   == {"none", "delayed", "active", "failed"}
WorkerPcs   == {"idle",
                "w_read", "w_check", "w_sms", "w_mark", "w_done",
                "e_read", "e_check", "e_publish", "e_cancel", "e_done"}
Kinds       == {"arrived", "scanned", "expired"}
MsgPcs      == {"queued",
                "a_state", "a_warning", "a_expire",
                "s_expire", "s_timer", "s_state",
                "x_check", "x_timer", "x_state",
                "x_suppress", "x_warning", "x_expire", "ack"}

Free     == [kind |-> "none", pc |-> "queued"]
Limit(k) == CASE k = "arrived" -> MaxArrived
              [] k = "scanned" -> MaxScanned
              [] k = "expired" -> MaxExpired

Init ==
    /\ timer = "NONE"
    /\ ostate = [status |-> "NONE", qrScanned |-> FALSE]
    /\ queue = [j \in JobNames |-> "none"]
    /\ stalled = {}
    /\ worker = "idle"
    /\ msgs = [m \in Slots |-> Free]
    /\ sent = [k \in Kinds |-> 0]
    /\ sms = 0
    /\ notices = 0
    /\ crashes = 0
    /\ errors = 0
    /\ cut = FALSE

jobs    == <<queue, stalled>>
history == <<sent, sms, notices, crashes, errors, cut>>

-----------------------------------------------------------------------------
(* The two documents and the job queue *)

\* Faulty variant: only the status is looked at, not the flag.
CanSendSmsForOrder_statusOnly(s) == s.status \notin {"NONE", "QR_SCANNED"}

\* canSendSmsForOrder
CanSendSmsForOrder(s) ==
    /\ s.status # "NONE"
    /\ ~s.qrScanned
    /\ s.status # "QR_SCANNED"

ArrivedState    == [status |-> "DRIVER_ARRIVED", qrScanned |-> FALSE]
ScannedState    == [status |-> "QR_SCANNED", qrScanned |-> TRUE]
ExpiredState(s) == [s EXCEPT !.status = "QR_EXPIRED"]

\* The mark... methods update a document that exists and never insert one.
Marked(state) == IF timer = "NONE" THEN "NONE" ELSE state

\* queue.add with a job id that is taken, even by a failed job, adds nothing.
Added(j) ==
    /\ queue' = [queue EXCEPT ![j] = IF @ = "none" THEN "delayed" ELSE @]
    /\ UNCHANGED stalled

\* A locked job cannot be removed: Job.remove throws.
Removable(j) == queue[j] # "active"
Removed(j)   ==
    /\ queue' = [queue EXCEPT ![j] = "none"]
    /\ stalled' = stalled \ {j}

\* removeOnComplete, after processTimerJob has returned.
Completed(j) == worker' = "idle" /\ Removed(j)

-----------------------------------------------------------------------------
(* The messages *)

At(m, kind, pc) == msgs[m] = [kind |-> kind, pc |-> pc]
Goto(m, pc)     == msgs' = [msgs EXCEPT ![m].pc = pc]
Done(m)         == msgs' = [msgs EXCEPT ![m] = Free]
Handled(m)      == Goto(m, "ack")

\* Another service publishes an event of this order.
EventSent(m, k) ==
    /\ msgs[m] = Free
    /\ sent[k] < Limit(k)
    /\ msgs' = [msgs EXCEPT ![m] = [kind |-> k, pc |-> "queued"]]
    /\ sent' = [sent EXCEPT ![k] = @ + 1]
    /\ UNCHANGED <<timer, ostate, jobs, worker, sms, notices, crashes, errors,
                   cut>>

\* The handler has returned and the broker hears of it.
Ack(m) ==
    /\ msgs[m].pc = "ack"
    /\ Done(m)
    /\ UNCHANGED <<timer, ostate, jobs, worker, history>>

(* handleDriverArrived *)

UpsertActive(m) ==
    /\ At(m, "arrived", "queued")
    /\ timer' = "ACTIVE"
    /\ Goto(m, "a_state")
    /\ UNCHANGED <<ostate, jobs, worker, history>>

UpsertArrived(m) ==
    /\ At(m, "arrived", "a_state")
    /\ ostate' = ArrivedState
    /\ Goto(m, "a_warning")
    /\ UNCHANGED <<timer, jobs, worker, history>>

ScheduleWarning(m) ==
    /\ At(m, "arrived", "a_warning")
    /\ Added("warning")
    /\ Goto(m, "a_expire")
    /\ UNCHANGED <<timer, ostate, worker, history>>

\* Faulty variant: the message is done once the warning is scheduled.
ScheduleExpire_forgotten(m) ==
    /\ At(m, "arrived", "a_expire")
    /\ Handled(m)
    /\ UNCHANGED <<timer, ostate, jobs, worker, history>>

ScheduleExpire(m) ==
    /\ At(m, "arrived", "a_expire")
    /\ Added("expire")
    /\ Handled(m)
    /\ UNCHANGED <<timer, ostate, worker, history>>

(* cancelTimerJobs, called by two handlers: the warning, then the expiry *)

CancelWarning(m, kind, from, to) ==
    /\ At(m, kind, from)
    /\ Removable("warning")
    /\ Removed("warning")
    /\ Goto(m, to)
    /\ UNCHANGED <<timer, ostate, worker, history>>

\* The job is running: the handler throws and the bus drops the message.
CancelThrows(m) ==
    /\ \/ /\ At(m, "scanned", "queued") \/ At(m, "expired", "x_warning")
          /\ ~Removable("warning")
       \/ /\ At(m, "scanned", "s_expire") \/ At(m, "expired", "x_expire")
          /\ ~Removable("expire")
    /\ Done(m)
    /\ cut' = TRUE
    /\ UNCHANGED <<timer, ostate, jobs, worker, sent, sms, notices, crashes,
                   errors>>

(* handleQrScanned *)

ScanCancelsWarning(m) == CancelWarning(m, "scanned", "queued", "s_expire")

ScanCancelsExpire(m) ==
    /\ At(m, "scanned", "s_expire")
    /\ Removable("expire")
    /\ Removed("expire")
    /\ Goto(m, "s_timer")
    /\ UNCHANGED <<timer, ostate, worker, history>>

ScanCancelsTimer(m) ==
    /\ At(m, "scanned", "s_timer")
    /\ timer' = Marked("CANCELLED")
    /\ Goto(m, "s_state")
    /\ UNCHANGED <<ostate, jobs, worker, history>>

MarkScanned(m) ==
    /\ At(m, "scanned", "s_state")
    /\ ostate' = ScannedState
    /\ Handled(m)
    /\ UNCHANGED <<timer, jobs, worker, history>>

(* handleQrExpired.  Neither publisher of the event gives it a phone       *)
(* number, so its fraud message is never sent.                             *)

ExpiredRead(m) ==
    /\ At(m, "expired", "queued")
    /\ \/ /\ timer \in {"EXPIRED", "CANCELLED"}
          /\ Done(m)
       \/ /\ timer \notin {"EXPIRED", "CANCELLED"}
          /\ Goto(m, "x_check")
    /\ UNCHANGED <<timer, ostate, jobs, worker, history>>

ExpiredCheck(m) ==
    /\ At(m, "expired", "x_check")
    /\ Goto(m, IF CanSendSmsForOrder(ostate) THEN "x_timer" ELSE "x_suppress")
    /\ UNCHANGED <<timer, ostate, jobs, worker, history>>

ExpiredSuppressed(m) ==
    /\ At(m, "expired", "x_suppress")
    /\ timer' = Marked("CANCELLED")
    /\ Goto(m, "x_warning")
    /\ UNCHANGED <<ostate, jobs, worker, history>>

\* Faulty variant: only the order state is marked.
MarkExpired_forgotten(m) ==
    /\ At(m, "expired", "x_timer")
    /\ Goto(m, "x_state")
    /\ UNCHANGED <<timer, ostate, jobs, worker, history>>

MarkExpired(m) ==
    /\ At(m, "expired", "x_timer")
    /\ timer' = Marked("EXPIRED")
    /\ Goto(m, "x_state")
    /\ UNCHANGED <<ostate, jobs, worker, history>>

MarkStateExpired(m) ==
    /\ At(m, "expired", "x_state")
    /\ ostate' = ExpiredState(ostate)
    /\ Goto(m, "x_warning")
    /\ UNCHANGED <<timer, jobs, worker, history>>

ExpiredCancelsWarning(m) == CancelWarning(m, "expired", "x_warning", "x_expire")

ExpiredCancelsExpire(m) ==
    /\ At(m, "expired", "x_expire")
    /\ Removable("expire")
    /\ Removed("expire")
    /\ Handled(m)
    /\ UNCHANGED <<timer, ostate, worker, history>>

-----------------------------------------------------------------------------
(* The worker: processTimerJob *)

\* The delay has elapsed (the two delays are independent settings, so either
\* job may be first) and the worker is free.
JobStarts(j) ==
    /\ worker = "idle"
    /\ queue[j] = "delayed"
    /\ queue' = [queue EXCEPT ![j] = "active"]
    /\ worker' = IF j = "warning" THEN "w_read" ELSE "e_read"
    /\ UNCHANGED <<timer, ostate, stalled, msgs, history>>

WarningRead ==
    /\ worker = "w_read"
    /\ \/ timer \notin Open /\ Completed("warning")
       \/ /\ timer \in Open
          /\ worker' = IF PhoneGiven THEN "w_check" ELSE "w_mark"
          /\ UNCHANGED jobs
    /\ UNCHANGED <<timer, ostate, msgs, history>>

WarningCheck ==
    /\ worker = "w_check"
    /\ worker' = IF CanSendSmsForOrder(ostate) THEN "w_sms" ELSE "w_mark"
    /\ UNCHANGED <<timer, ostate, jobs, msgs, history>>

WarningSms ==
    /\ worker = "w_sms"
    /\ sms' = sms + 1
    /\ worker' = "w_mark"
    /\ UNCHANGED <<timer, ostate, jobs, msgs, sent, notices, crashes, errors,
                   cut>>

\* markWarningSent, whatever the timer has become since it was read; then
\* timer.update to the socket and timer.3_minutes_left to the bus.
WarningMark ==
    /\ worker = "w_mark"
    /\ timer' = Marked("WARNING_SENT")
    /\ worker' = "w_done"
    /\ UNCHANGED <<ostate, jobs, msgs, history>>

ExpireRead ==
    /\ worker = "e_read"
    /\ \/ timer \notin Open /\ Completed("expire")
       \/ timer \in Open /\ worker' = "e_check" /\ UNCHANGED jobs
    /\ UNCHANGED <<timer, ostate, msgs, history>>

ExpireCheck ==
    /\ worker = "e_check"
    /\ worker' = IF CanSendSmsForOrder(ostate) THEN "e_publish" ELSE "e_cancel"
    /\ UNCHANGED <<timer, ostate, jobs, msgs, history>>

\* order.qr.expired to the bus, order.expired to the customer's socket; the
\* timer document is left to the consumer of the event.
ExpirePublish(m) ==
    /\ worker = "e_publish"
    /\ msgs[m] = Free
    /\ msgs' = [msgs EXCEPT ![m] = [kind |-> "expired", pc |-> "queued"]]
    /\ notices' = notices + 1
    /\ worker' = "e_done"
    /\ UNCHANGED <<timer, ostate, jobs, sent, sms, crashes, errors, cut>>

ExpireCancel ==
    /\ worker = "e_cancel"
    /\ timer' = Marked("CANCELLED")
    /\ Completed("expire")
    /\ UNCHANGED <<ostate, msgs, history>>

\* What the job had to do is done; a restart before this runs it again.
JobCompletes(j) ==
    /\ worker = IF j = "warning" THEN "w_done" ELSE "e_done"
    /\ Completed(j)
    /\ UNCHANGED <<timer, ostate, msgs, history>>

-----------------------------------------------------------------------------
(* Faults *)

\* An await of a handler rejects: nack without requeue.
HandlerFails(m) ==
    /\ msgs[m].kind # "none"
    /\ msgs[m].pc # "ack"
    /\ Done(m)
    /\ errors < MaxErrors /\ errors' = errors + 1
    /\ cut' = TRUE
    /\ UNCHANGED <<timer, ostate, jobs, worker, sent, sms, notices, crashes>>

\* An await of the worker rejects: the job has one attempt and stays failed.
JobFails(j) ==
    /\ queue[j] = "active"
    /\ queue' = [queue EXCEPT ![j] = "failed"]
    /\ worker' = "idle"
    /\ errors < MaxErrors /\ errors' = errors + 1
    /\ cut' = (cut \/ j = "expire")
    /\ UNCHANGED <<timer, ostate, stalled, msgs, sent, sms, notices, crashes>>

\* BullMQ finds the job of a worker that has gone: maxStalledCount is 1, so it
\* is run again once, and fails if it is found a second time.
Recovered(j) ==
    IF queue[j] # "active" THEN queue[j]
    ELSE IF j \in stalled THEN "failed" ELSE "delayed"

\* The process restarts: the broker redelivers what was not acked, handled or
\* not, and BullMQ recovers the stalled job.
Crash ==
    /\ crashes < MaxCrashes /\ crashes' = crashes + 1
    /\ worker' = "idle"
    /\ queue' = [j \in JobNames |-> Recovered(j)]
    /\ stalled' = stalled \cup {j \in JobNames : queue[j] = "active"}
    /\ msgs' = [m \in Slots |-> [msgs[m] EXCEPT !.pc = "queued"]]
    /\ cut' = \/ cut
              \/ \E m \in Slots : At(m, "arrived", "ack")
              \/ queue'["expire"] = "failed" /\ queue["expire"] = "active"
    /\ UNCHANGED <<timer, ostate, sent, sms, notices, errors>>

-----------------------------------------------------------------------------

ArrivedStep(m) ==
    \/ UpsertActive(m) \/ UpsertArrived(m)
    \/ ScheduleWarning(m) \/ ScheduleExpire(m)

ScannedStep(m) ==
    \/ ScanCancelsWarning(m) \/ ScanCancelsExpire(m)
    \/ ScanCancelsTimer(m) \/ MarkScanned(m)

ExpiredStep(m) ==
    \/ ExpiredRead(m) \/ ExpiredCheck(m) \/ ExpiredSuppressed(m)
    \/ MarkExpired(m) \/ MarkStateExpired(m)
    \/ ExpiredCancelsWarning(m) \/ ExpiredCancelsExpire(m)

MessageStep(m) ==
    \/ ArrivedStep(m) \/ ScannedStep(m) \/ ExpiredStep(m)
    \/ CancelThrows(m) \/ Ack(m)

WorkerStep ==
    \/ \E j \in JobNames : JobStarts(j) \/ JobCompletes(j)
    \/ WarningRead \/ WarningCheck \/ WarningSms \/ WarningMark
    \/ ExpireRead \/ ExpireCheck \/ ExpireCancel
    \/ \E m \in Slots : ExpirePublish(m)

Failure ==
    \/ \E m \in Slots : HandlerFails(m)
    \/ \E j \in JobNames : JobFails(j)
    \/ Crash

Next ==
    \/ \E m \in Slots, k \in Kinds : EventSent(m, k)
    \/ \E m \in Slots : MessageStep(m)
    \/ WorkerStep
    \/ Failure

\* A handler whose await has settled goes on, the delays elapse and the
\* worker takes what is due.  Other services and faults owe nothing.
Fairness ==
    /\ \A m \in Slots : WF_vars(MessageStep(m))
    /\ WF_vars(WorkerStep)

Safe == Init /\ [][Next]_vars
Spec == Safe /\ Fairness

-----------------------------------------------------------------------------
(* Safety *)

\* Every variable has its type; the worker has a job locked exactly while it
\* is in processTimerJob.
TypeOK ==
    /\ timer \in TimerStates
    /\ ostate \in [status : {"NONE", "DRIVER_ARRIVED", "QR_SCANNED", "QR_EXPIRED"},
                   qrScanned : BOOLEAN]
    /\ queue \in [JobNames -> JobStates]
    /\ stalled \subseteq JobNames
    /\ worker \in WorkerPcs
    /\ msgs \in [Slots -> [kind : Kinds \cup {"none"}, pc : MsgPcs]]
    /\ sent \in [Kinds -> Nat]
    /\ sms \in Nat /\ notices \in Nat
    /\ crashes \in 0..MaxCrashes /\ errors \in 0..MaxErrors
    /\ cut \in BOOLEAN
    /\ queue["warning"] = "active" <=> 
           worker \in {"w_read", "w_check", "w_sms", "w_mark", "w_done"}
    /\ queue["expire"] = "active" <=>
           worker \in {"e_read", "e_check", "e_publish", "e_cancel", "e_done"}

InFlight(k) == \E m \in Slots : msgs[m].kind = k

\* The scan is recorded, no arrival is about to overwrite it (or will after a
\* redelivery), and the worker is not between its last look at the order and
\* a message to the customer.
Settled ==
    /\ ostate.qrScanned
    /\ ~InFlight("arrived")
    /\ worker \notin {"w_sms", "e_publish"}

\* Once a scan is settled only another arrival can lead to a message to the
\* customer: no warning and no expiry is sent, whatever timer jobs are left
\* over, whatever order.qr.expired events are late, and through restarts.
ScannedStaysQuiet ==
    [][Settled => /\ sms' = sms /\ notices' = notices
                  /\ Settled' \/ sent'["arrived"] > sent["arrived"]]_vars

\* One arrival, handled once, no expiry from orderService, and neither an error
\* nor a second interruption that ended more than the warning job.
Unattended ==
    /\ sent["arrived"] <= 1 /\ sent["expired"] = 0
    /\ ~cut

\* The handler of m is yet to schedule the expiry job or to close the timer.
Decides(m) ==
    \/ msgs[m].kind = "arrived" /\ msgs[m].pc # "ack"
    \/ msgs[m].kind = "scanned" /\ msgs[m].pc \notin {"s_state", "ack"}
    \/ msgs[m].kind = "expired"
          /\ msgs[m].pc \notin {"x_state", "x_warning", "x_expire", "ack"}

\* An ACTIVE timer has a deadline: its expiry job is in the queue, or a message
\* that will schedule the job or close the timer is in flight.  Neither scans
\* nor a restart take it away, only what Unattended excludes: a second arrival,
\* an expiry of orderService, an error in a handler or in the expiry job, and
\* restarts that interrupt that job twice.
ActiveHasDeadline ==
    timer = "ACTIVE" /\ Unattended =>
        queue["expire"] \in {"delayed", "active"} \/ \E m \in Slots : Decides(m)

(* Liveness *)

\* A timer that was started is decided, whatever scans, restarts and the jobs'
\* own races do to it.
TimerDecides ==
    timer = "ACTIVE" ~> timer \in {"CANCELLED", "EXPIRED"} \/ ~Unattended

=============================================================================
