---------------------- MODULE EnforcementTimer_proofs ----------------------
(***************************************************************************)
(* What EnforcementTimer guarantees for every number of messages, events,  *)
(* restarts and errors: the types, with the lock of the running job; that  *)
(* a settled scan stays quiet; and that an ACTIVE timer keeps its deadline *)
(* whatever scans and single restarts do, unless a second arrival, an      *)
(* expiry of orderService, an error in a handler or the expiry job, or a   *)
(* second restart in that job takes it away.                               *)
(*                                                                         *)
(* The last needs a name for what one step of a handler may not do to the  *)
(* argument (Harmless), which is shown of each kind of message in turn.    *)
(***************************************************************************)
EXTENDS EnforcementTimer, TLAPS

-----------------------------------------------------------------------------
(* Types *)

\* The messages and the jobs an action leaves have their types again.
LEMMA MessagesTyped ==
    ASSUME TypeOK, NEW m \in Slots, NEW pc \in MsgPcs, Goto(m, pc) \/ Done(m)
    PROVE  msgs' \in [Slots -> [kind : Kinds \cup {"none"}, pc : MsgPcs]]
  BY DEF TypeOK, Goto, Done, Free, MsgPcs

LEMMA InitTyped == Init => TypeOK
  <1> SUFFICES ASSUME Init PROVE TypeOK
    OBVIOUS
  <1>1. cut \in BOOLEAN
    BY DEF Init
  <1>2. /\ crashes \in 0..MaxCrashes /\ errors \in 0..MaxErrors
        /\ sent \in [Kinds -> Nat] /\ sms \in Nat /\ notices \in Nat
    BY LimitsAssumption DEF Init
  <1> QED
    BY <1>1, <1>2
    DEF Init, TypeOK, TimerStates, JobNames, JobStates, WorkerPcs, Kinds, Free,
        MsgPcs

\* A step of a message's handler keeps the types.
LEMMA MessageTyped ==
    ASSUME TypeOK, NEW m \in Slots, MessageStep(m)
    PROVE  TypeOK'
  <1>1. msgs' \in [Slots -> [kind : Kinds \cup {"none"}, pc : MsgPcs]]
    <2>1. \E pc \in MsgPcs : Goto(m, pc) \/ Done(m)
      BY DEF MessageStep, ArrivedStep, ScannedStep, ExpiredStep, CancelThrows, Ack, Handled,
             UpsertActive, UpsertArrived, ScheduleWarning, ScheduleExpire,
             ScanCancelsWarning, ScanCancelsExpire, ScanCancelsTimer, MarkScanned,
             ExpiredRead, ExpiredCheck, ExpiredSuppressed, MarkExpired,
             MarkStateExpired, ExpiredCancelsWarning, ExpiredCancelsExpire,
             CancelWarning, MsgPcs
    <2> QED BY <2>1, MessagesTyped
  <1>2. UNCHANGED <<worker, sent, sms, notices, crashes, errors>> /\ cut' \in BOOLEAN
    BY DEF TypeOK, history, jobs, MessageStep, ArrivedStep, ScannedStep, ExpiredStep, CancelThrows, Ack, Handled,
           UpsertActive, UpsertArrived, ScheduleWarning, ScheduleExpire,
           ScanCancelsWarning, ScanCancelsExpire, ScanCancelsTimer, MarkScanned,
           ExpiredRead, ExpiredCheck, ExpiredSuppressed, MarkExpired,
           MarkStateExpired, ExpiredCancelsWarning, ExpiredCancelsExpire,
           CancelWarning
  <1>3. timer' \in TimerStates
    BY DEF MessageStep, ArrivedStep, ScannedStep, ExpiredStep, CancelThrows, Ack, Handled,
           UpsertActive, UpsertArrived, ScheduleWarning, ScheduleExpire,
           ScanCancelsWarning, ScanCancelsExpire, ScanCancelsTimer, MarkScanned,
           ExpiredRead, ExpiredCheck, ExpiredSuppressed, MarkExpired,
           MarkStateExpired, ExpiredCancelsWarning, ExpiredCancelsExpire,
           CancelWarning, Marked, TimerStates, TypeOK
  <1>4. ostate' \in [status : {"NONE", "DRIVER_ARRIVED", "QR_SCANNED", "QR_EXPIRED"},
                     qrScanned : BOOLEAN]
    <2>1. ostate' \in {ostate, ArrivedState, ScannedState, ExpiredState(ostate)}
      BY DEF MessageStep, ArrivedStep, ScannedStep, ExpiredStep, CancelThrows, Ack, Handled,
           UpsertActive, UpsertArrived, ScheduleWarning, ScheduleExpire,
           ScanCancelsWarning, ScanCancelsExpire, ScanCancelsTimer, MarkScanned,
           ExpiredRead, ExpiredCheck, ExpiredSuppressed, MarkExpired,
           MarkStateExpired, ExpiredCancelsWarning, ExpiredCancelsExpire,
           CancelWarning
    <2>2. CASE ostate' = ostate
      BY <2>2 DEF TypeOK
    <2>3. CASE ostate' = ArrivedState
      BY <2>3 DEF ArrivedState
    <2>4. CASE ostate' = ScannedState
      BY <2>4 DEF ScannedState
    <2>5. CASE ostate' = ExpiredState(ostate)
      BY <2>5 DEF ExpiredState, TypeOK
    <2> QED BY <2>1, <2>2, <2>3, <2>4, <2>5
  <1>5. \/ UNCHANGED <<queue, stalled>>
        \/ \E j \in JobNames : Added(j)
        \/ \E j \in JobNames : Removable(j) /\ Removed(j)
    BY DEF jobs, MessageStep, ArrivedStep, ScannedStep, ExpiredStep, CancelThrows, Ack, Handled,
           UpsertActive, UpsertArrived, ScheduleWarning, ScheduleExpire,
           ScanCancelsWarning, ScanCancelsExpire, ScanCancelsTimer, MarkScanned,
           ExpiredRead, ExpiredCheck, ExpiredSuppressed, MarkExpired,
           MarkStateExpired, ExpiredCancelsWarning, ExpiredCancelsExpire,
           CancelWarning, JobNames
  <1>6. /\ queue' \in [JobNames -> JobStates]
        /\ \A j \in JobNames : queue'[j] = "active" <=> queue[j] = "active"
    <2>1. queue \in [JobNames -> JobStates]
      BY DEF TypeOK
    <2> QED
      BY <1>5, <2>1 DEF Added, Removable, Removed, JobStates
  <1>7. stalled' \subseteq JobNames
    <2>1. stalled' \subseteq stalled /\ stalled \subseteq JobNames
      BY <1>5 DEF Added, Removed, TypeOK
    <2> QED
      BY <2>1
  <1> QED BY <1>7, <1>1, <1>2, <1>3, <1>4, <1>6 DEF TypeOK, JobNames

\* A step of the worker keeps the types, and the lock with it.
LEMMA WorkerTyped ==
    ASSUME TypeOK, WorkerStep
    PROVE  TypeOK'
  <1> USE DEF TypeOK, JobNames, JobStates, WorkerPcs, history, jobs
  <1>1. ASSUME NEW j \in JobNames, JobStarts(j) PROVE TypeOK'
    BY <1>1 DEF JobStarts
  <1>2. ASSUME NEW j \in JobNames, JobCompletes(j) PROVE TypeOK'
    BY <1>2 DEF JobCompletes, Completed, Removed
  <1>3. CASE WarningRead
    BY <1>3 DEF WarningRead, Completed, Removed
  <1>4. CASE WarningCheck
    BY <1>4 DEF WarningCheck
  <1>5. CASE WarningSms
    BY <1>5 DEF WarningSms
  <1>6. CASE WarningMark
    BY <1>6 DEF WarningMark, Marked, TimerStates
  <1>7. CASE ExpireRead
    BY <1>7 DEF ExpireRead, Completed, Removed
  <1>8. CASE ExpireCheck
    BY <1>8 DEF ExpireCheck
  <1>9. CASE ExpireCancel
    BY <1>9 DEF ExpireCancel, Completed, Removed, Marked, TimerStates
  <1>10. ASSUME NEW m \in Slots, ExpirePublish(m) PROVE TypeOK'
    BY <1>10 DEF ExpirePublish, Kinds, MsgPcs
  <1> QED
    BY <1>1, <1>2, <1>3, <1>4, <1>5, <1>6, <1>7, <1>8, <1>9, <1>10 DEF WorkerStep

\* So does a fault.
LEMMA FailureTyped ==
    ASSUME TypeOK, Failure
    PROVE  TypeOK'
  <1> USE LimitsAssumption DEF TypeOK, JobNames, JobStates, WorkerPcs
  <1>1. ASSUME NEW m \in Slots, HandlerFails(m) PROVE TypeOK'
    BY <1>1 DEF HandlerFails, Done, Free, MsgPcs, jobs
  <1>2. ASSUME NEW j \in JobNames, JobFails(j) PROVE TypeOK'
    BY <1>2 DEF JobFails
  <1>3. CASE Crash
    <2>1. cut' \in BOOLEAN
      BY <1>3 DEF Crash
    <2>2. /\ queue' \in [JobNames -> JobStates]
          /\ \A j \in JobNames : queue'[j] # "active"
          /\ stalled' \subseteq JobNames
      BY <1>3 DEF Crash, Recovered
    <2>3. msgs' \in [Slots -> [kind : Kinds \cup {"none"}, pc : MsgPcs]]
      BY <1>3 DEF Crash, MsgPcs
    <2>4. /\ UNCHANGED <<timer, ostate, sent, sms, notices, errors>>
          /\ worker' = "idle" /\ crashes' \in 0..MaxCrashes
      BY <1>3 DEF Crash
    <2> QED
      BY <2>1, <2>2, <2>3, <2>4
  <1> QED BY <1>1, <1>2, <1>3 DEF Failure

LEMMA NextTyped ==
    ASSUME TypeOK, [Next]_vars
    PROVE  TypeOK'
  <1>1. ASSUME NEW m \in Slots, NEW k \in Kinds, EventSent(m, k) PROVE TypeOK'
    BY <1>1 DEF EventSent, TypeOK, Kinds, MsgPcs, jobs
  <1>2. CASE UNCHANGED vars
    BY <1>2 DEF vars, TypeOK
  <1> QED
    BY <1>1, <1>2, MessageTyped, WorkerTyped, FailureTyped DEF Next

\* Every variable keeps its type, and a job is locked exactly while the
\* worker is in processTimerJob with it.
THEOREM TypeCorrect == Safe => []TypeOK
  <1>1. Init => TypeOK
    BY InitTyped
  <1>2. TypeOK /\ [Next]_vars => TypeOK'
    BY NextTyped
  <1> QED BY <1>1, <1>2, PTL DEF Safe

-----------------------------------------------------------------------------
(* A settled scan *)

\* What a handler that is not one of an arrival does to a settled order.
LEMMA SettledMessage ==
    ASSUME TypeOK, Settled, NEW m \in Slots, MessageStep(m)
    PROVE  /\ sms' = sms /\ notices' = notices
           /\ Settled'
  <1>1. \A n \in Slots : msgs[n].kind # "arrived"
    BY DEF Settled, InFlight
  <1>2. ~ArrivedStep(m)
    BY <1>1 DEF ArrivedStep, UpsertActive, UpsertArrived, ScheduleWarning,
                ScheduleExpire, At
  <1>3. UNCHANGED <<worker, sms, notices>>
    BY <1>2 DEF history, jobs, MessageStep, ScannedStep, ExpiredStep, CancelThrows, Ack, Handled,
           ScanCancelsWarning, ScanCancelsExpire, ScanCancelsTimer, MarkScanned,
           ExpiredRead, ExpiredCheck, ExpiredSuppressed, MarkExpired,
           MarkStateExpired, ExpiredCancelsWarning, ExpiredCancelsExpire,
           CancelWarning
  <1>4. ostate' \in {ostate, ScannedState, ExpiredState(ostate)}
    BY <1>2 DEF MessageStep, ScannedStep, ExpiredStep, CancelThrows, Ack, Handled,
           ScanCancelsWarning, ScanCancelsExpire, ScanCancelsTimer, MarkScanned,
           ExpiredRead, ExpiredCheck, ExpiredSuppressed, MarkExpired,
           MarkStateExpired, ExpiredCancelsWarning, ExpiredCancelsExpire,
           CancelWarning
  <1>5. ostate'.qrScanned
    BY <1>4 DEF Settled, ScannedState, ExpiredState, TypeOK
  <1>6. \E pc \in MsgPcs : Goto(m, pc) \/ Done(m)
    BY <1>2 DEF MessageStep, ScannedStep, ExpiredStep, CancelThrows, Ack, Handled,
           ScanCancelsWarning, ScanCancelsExpire, ScanCancelsTimer, MarkScanned,
           ExpiredRead, ExpiredCheck, ExpiredSuppressed, MarkExpired,
           MarkStateExpired, ExpiredCancelsWarning, ExpiredCancelsExpire,
           CancelWarning, MsgPcs
  <1>7. \A n \in Slots : msgs'[n].kind # "arrived"
    BY <1>1, <1>6 DEF Goto, Done, Free, TypeOK
  <1> QED BY <1>3, <1>5, <1>7 DEF Settled, InFlight

\* The worker finds the order scanned wherever it looks before a message.
LEMMA SettledWorker ==
    ASSUME TypeOK, Settled, WorkerStep
    PROVE  /\ sms' = sms /\ notices' = notices
           /\ Settled'
  <1>1. ~CanSendSmsForOrder(ostate)
    BY DEF Settled, CanSendSmsForOrder
  <1>2. UNCHANGED <<ostate, msgs, sms, notices>> /\ worker' \notin {"w_sms", "e_publish"}
    BY <1>1 DEF WorkerStep, JobStarts, JobCompletes, WarningRead, WarningCheck,
           WarningSms, WarningMark, ExpireRead, ExpireCheck, ExpirePublish,
           ExpireCancel, Completed, history, jobs, Settled
  <1> QED BY <1>2 DEF Settled, InFlight

\* Faults neither send anything nor bring an arrival.
LEMMA SettledFailure ==
    ASSUME TypeOK, Settled, Failure
    PROVE  /\ sms' = sms /\ notices' = notices
           /\ Settled'
  <1>1. \A n \in Slots : msgs'[n].kind # "arrived"
    <2>1. \A n \in Slots : msgs[n].kind # "arrived"
      BY DEF Settled, InFlight
    <2>2. CASE Crash
      BY <2>1, <2>2 DEF Crash, TypeOK
    <2>3. CASE ~Crash
      BY <2>1, <2>3 DEF Failure, HandlerFails, JobFails, Done, Free, TypeOK
    <2> QED BY <2>2, <2>3
  <1>2. UNCHANGED <<ostate, sms, notices>> /\ worker' \notin {"w_sms", "e_publish"}
    BY DEF Settled, Failure, HandlerFails, JobFails, Crash
  <1> QED BY <1>1, <1>2 DEF Settled, InFlight

\* Once a scan is settled, only another arrival can lead to a message to the
\* customer.
THEOREM QuietTheorem == Safe => ScannedStaysQuiet
  <1> DEFINE Quiet == Settled => /\ sms' = sms /\ notices' = notices
                                 /\ Settled' \/ sent'["arrived"] > sent["arrived"]
  <1>1. TypeOK /\ [Next]_vars => [Quiet]_vars
    <2> SUFFICES ASSUME TypeOK, Next, Settled
                 PROVE  /\ sms' = sms /\ notices' = notices
                        /\ Settled' \/ sent'["arrived"] > sent["arrived"]
      OBVIOUS
    <2>1. ASSUME NEW m \in Slots, EventSent(m, "arrived")
          PROVE  /\ sms' = sms /\ notices' = notices
                 /\ sent'["arrived"] > sent["arrived"]
      BY <2>1 DEF EventSent, TypeOK, Kinds
    <2>2. ASSUME NEW m \in Slots, NEW k \in Kinds, EventSent(m, k), k # "arrived"
          PROVE  sms' = sms /\ notices' = notices /\ Settled'
      BY <2>2 DEF EventSent, TypeOK, Settled, InFlight
    <2> QED
      BY <2>1, <2>2, SettledMessage, SettledWorker, SettledFailure DEF Next
  <1> QED BY <1>1, TypeCorrect, PTL DEF Safe, ScannedStaysQuiet

-----------------------------------------------------------------------------
(* The deadline of an arrival *)

\* A job to expire, or its event, is there only once the arrival was handled,
\* and no second one sets the timer to ACTIVE again: what closes it does so for
\* good.  A job that has run leaves its event, or a timer that is closed.
HandledOnce ==
    Unattended =>
        /\ InFlight("arrived") => sent["arrived"] = 1
        /\ \A m, n \in Slots :
             msgs[m].kind = "arrived" /\ msgs[n].kind = "arrived" => m = n
        /\ queue["expire"] # "none" \/ InFlight("expired") =>
             /\ sent["arrived"] = 1
             /\ \A m \in Slots : msgs[m].kind = "arrived" => msgs[m].pc = "ack"
        /\ \A m \in Slots : msgs[m].kind = "expired" /\ ~Decides(m) => timer # "ACTIVE"
        /\ worker = "e_done" => timer # "ACTIVE" \/ InFlight("expired")

DeadlineInv ==
    /\ TypeOK
    /\ ~cut => queue["expire"] # "failed"
    /\ HandledOnce
    /\ ActiveHasDeadline

LEMMA InitDeadline == Init => DeadlineInv
  <1> SUFFICES ASSUME Init PROVE DeadlineInv
    OBVIOUS
  <1>1. TypeOK
    BY InitTyped
  <1>2. queue["expire"] = "none" /\ worker = "idle" /\ timer = "NONE"
    BY DEF Init, JobNames
  <1>3. \A m \in Slots : msgs[m].kind = "none"
    BY DEF Init, Free
  <1>4. HandledOnce
    BY <1>2, <1>3 DEF HandledOnce, InFlight
  <1> QED BY <1>1, <1>2, <1>4 DEF DeadlineInv, ActiveHasDeadline

\* An event is published: the first arrival finds neither job nor expiry.
LEMMA DeadlineSent ==
    ASSUME DeadlineInv, TypeOK', NEW m \in Slots, NEW k \in Kinds, EventSent(m, k)
    PROVE  DeadlineInv'
  <1>1. /\ UNCHANGED <<timer, queue, worker, cut>>
        /\ msgs[m].kind = "none"
        /\ \A n \in Slots : msgs'[n] = IF n = m THEN [kind |-> k, pc |-> "queued"]
                                                ELSE msgs[n]
    BY DEF EventSent, DeadlineInv, TypeOK, Free, jobs
  <1>2. \A l \in Kinds : /\ sent[l] \in Nat
                         /\ sent'[l] = IF l = k THEN sent[l] + 1 ELSE sent[l]
    BY DEF EventSent, DeadlineInv, TypeOK
  <1>3. \A n \in Slots : Decides(n) => Decides(n)'
    BY <1>1 DEF Decides
  <1>4. ASSUME Unattended'
        PROVE  /\ Unattended /\ k # "expired"
               /\ k = "arrived" => sent["arrived"] = 0 /\ sent'["arrived"] = 1
               /\ k # "arrived" => sent'["arrived"] = sent["arrived"]
    BY <1>1, <1>2, <1>4 DEF Unattended, Kinds
  <1>5. HandledOnce'
    <2> SUFFICES ASSUME Unattended' PROVE HandledOnce'
      BY DEF HandledOnce
    <2> USE <1>1, <1>4 DEF DeadlineInv, HandledOnce, InFlight, Kinds
    <2>1. InFlight("arrived")' => sent'["arrived"] = 1
      OBVIOUS
    <2>2. \A n, o \in Slots :
            msgs'[n].kind = "arrived" /\ msgs'[o].kind = "arrived" => n = o
      OBVIOUS
    <2>3. queue'["expire"] # "none" \/ InFlight("expired")' =>
            /\ sent'["arrived"] = 1
            /\ \A n \in Slots : msgs'[n].kind = "arrived" => msgs'[n].pc = "ack"
      OBVIOUS
    <2>4. \A n \in Slots : msgs'[n].kind = "expired" /\ ~Decides(n)' => timer' # "ACTIVE"
      BY <1>3
    <2>5. worker' = "e_done" => timer' # "ACTIVE" \/ InFlight("expired")'
      OBVIOUS
    <2> HIDE DEF DeadlineInv, InFlight
    <2> QED BY <2>1, <2>2, <2>3, <2>4, <2>5
  <1>6. ActiveHasDeadline'
    BY <1>1, <1>3, <1>4 DEF DeadlineInv, ActiveHasDeadline
  <1> QED BY <1>1, <1>5, <1>6 DEF DeadlineInv

\* The step of a handler touches its own message only, and of the claim's
\* conditions only the one on errors.
LEMMA OneMessageMoves ==
    ASSUME TypeOK, NEW m \in Slots, MessageStep(m)
    PROVE  /\ UNCHANGED <<worker, sent>>
           /\ cut' \in {cut, TRUE}
           /\ \A n \in Slots \ {m} : msgs'[n] = msgs[n]
           /\ msgs'[m].kind \in {msgs[m].kind, "none"}
  <1>1. /\ UNCHANGED worker
        /\ UNCHANGED history \/ CancelThrows(m)
        /\ \E pc \in MsgPcs : Goto(m, pc) \/ Done(m)
    BY DEF MessageStep, ArrivedStep, ScannedStep, ExpiredStep, CancelThrows,
           Ack, Handled, UpsertActive, UpsertArrived, ScheduleWarning,
           ScheduleExpire, ScanCancelsWarning, ScanCancelsExpire,
           ScanCancelsTimer, MarkScanned, ExpiredRead, ExpiredCheck,
           ExpiredSuppressed, MarkExpired, MarkStateExpired,
           ExpiredCancelsWarning, ExpiredCancelsExpire, CancelWarning, MsgPcs
  <1>2. UNCHANGED sent
    BY <1>1 DEF CancelThrows, history
  <1>3. cut' \in {cut, TRUE}
    BY <1>1 DEF CancelThrows, history
  <1>4. /\ \A n \in Slots \ {m} : msgs'[n] = msgs[n]
        /\ msgs'[m].kind \in {msgs[m].kind, "none"}
    BY <1>1 DEF TypeOK, Goto, Done, Free
  <1> QED
    BY <1>1, <1>2, <1>3, <1>4, Zenon

\* What such a step may not do, as long as the claim is made: schedule a job
\* for nothing, go back once the arrival was handled, set a timer to ACTIVE
\* and end, or remove the job of an ACTIVE timer and end.
Harmless(m) ==
    /\ ~cut' /\ queue'["expire"] = "failed" => queue["expire"] = "failed"
    /\ Unattended /\ Unattended' =>
         /\ queue'["expire"] # "none" =>
              \/ queue["expire"] # "none"
              \/ msgs[m].kind = "arrived" /\ msgs'[m].pc = "ack"
         /\ msgs[m].kind = "arrived" /\ msgs[m].pc = "ack" =>
              msgs'[m].kind = "none" \/ msgs'[m].pc = "ack"
         /\ timer' = "ACTIVE" /\ timer # "ACTIVE" =>
              msgs[m].kind = "arrived" /\ Decides(m)
         /\ timer' = "ACTIVE" /\ Decides(m) =>
              Decides(m)' \/ queue'["expire"] \in {"delayed", "active"}
         /\ timer' = "ACTIVE" /\ msgs[m].kind = "expired" => Decides(m)'
         /\ timer' = "ACTIVE" /\ queue'["expire"] # queue["expire"] =>
              Decides(m)' \/ queue'["expire"] \in {"delayed", "active"}

LEMMA DeadlineMessage ==
    ASSUME DeadlineInv, TypeOK', NEW m \in Slots, MessageStep(m), Harmless(m)
    PROVE  DeadlineInv'
  <1>1. /\ UNCHANGED <<worker, sent>>
        /\ cut' \in {cut, TRUE}
        /\ \A n \in Slots \ {m} : msgs'[n] = msgs[n]
        /\ msgs'[m].kind \in {msgs[m].kind, "none"}
    BY OneMessageMoves DEF DeadlineInv
  <1>2. Unattended' => Unattended
    BY <1>1 DEF Unattended
  <1> USE DEF Harmless
  <1>3. \A n \in Slots \ {m} : Decides(n)' <=> Decides(n)
    BY <1>1 DEF Decides
  <1>4. HandledOnce'
    <2> SUFFICES ASSUME Unattended' PROVE HandledOnce'
      BY DEF HandledOnce
    <2>1. HandledOnce /\ Unattended
      BY <1>2 DEF DeadlineInv
    <2>2. InFlight("arrived")' => sent'["arrived"] = 1
      BY <1>1, <2>1 DEF HandledOnce, InFlight
    <2>3. \A n, o \in Slots :
            msgs'[n].kind = "arrived" /\ msgs'[o].kind = "arrived" => n = o
      BY <1>1, <2>1 DEF HandledOnce
    <2>4. queue'["expire"] # "none" \/ InFlight("expired")' =>
            /\ sent'["arrived"] = 1
            /\ \A n \in Slots : msgs'[n].kind = "arrived" => msgs'[n].pc = "ack"
      <3>1. InFlight("expired")' => InFlight("expired")
        BY <1>1 DEF InFlight
      <3>2. CASE queue["expire"] # "none" \/ InFlight("expired")
        BY <1>1, <2>1, <3>2 DEF HandledOnce
      <3>3. CASE msgs[m].kind = "arrived" /\ msgs'[m].pc = "ack"
        BY <1>1, <2>1, <3>3 DEF HandledOnce, InFlight
      <3> QED
        BY <2>1, <3>1, <3>2, <3>3
    <2>5. ASSUME timer' = "ACTIVE", timer # "ACTIVE"
          PROVE  queue["expire"] = "none" /\ ~InFlight("expired")
      <3>1. msgs[m].kind = "arrived" /\ msgs[m].pc # "ack"
        BY <2>1, <2>5 DEF Decides
      <3> QED
        BY <2>1, <3>1 DEF HandledOnce
    <2>6. ASSUME NEW n \in Slots, msgs'[n].kind = "expired", ~Decides(n)'
          PROVE  timer' # "ACTIVE"
      <3>1. CASE n = m
        BY <1>1, <2>1, <2>6, <3>1
      <3>2. CASE n # m
        BY <1>1, <1>3, <2>1, <2>5, <2>6, <3>2 DEF HandledOnce, InFlight
      <3> QED BY <3>1, <3>2
    <2>7. ASSUME worker' = "e_done", timer' = "ACTIVE"
          PROVE  InFlight("expired")'
      <3>1. queue["expire"] = "active"
        BY <1>1, <2>7 DEF DeadlineInv, TypeOK
      <3>2. timer = "ACTIVE"
        BY <2>5, <2>7, <3>1
      <3>3. PICK n \in Slots : msgs[n].kind = "expired"
        BY <1>1, <2>1, <2>7, <3>2 DEF HandledOnce, InFlight
      <3>4. n = m => Decides(m)'
        BY <2>1, <2>7, <3>3
      <3> QED
        BY <1>1, <3>3, <3>4 DEF InFlight, Decides
    <2> QED BY <2>2, <2>3, <2>4, <2>6, <2>7 DEF HandledOnce
  <1>5. ActiveHasDeadline'
    <2> SUFFICES ASSUME Unattended', timer' = "ACTIVE"
                 PROVE  \/ queue'["expire"] \in {"delayed", "active"}
                        \/ \E n \in Slots : Decides(n)'
      BY DEF ActiveHasDeadline
    <2>1. CASE Decides(m)
      BY <1>2, <2>1
    <2>2. CASE ~Decides(m)
      BY <1>2, <1>3, <2>2 DEF DeadlineInv, ActiveHasDeadline
    <2> QED BY <2>1, <2>2
  <1>6. ~cut' => queue'["expire"] # "failed"
    <2>1. ~cut' => ~cut
      BY <1>1, Zenon
    <2> QED
      BY <2>1 DEF DeadlineInv
  <1> QED BY <1>4, <1>5, <1>6 DEF DeadlineInv

\* The arrival's handler has scheduled the job when it is done.
LEMMA ArrivedHarmless ==
    ASSUME DeadlineInv, NEW m \in Slots, ArrivedStep(m)
    PROVE  Harmless(m)
  <1> USE DEF Harmless, DeadlineInv, TypeOK, At, Goto, Handled, Decides, JobNames,
              JobStates, history, jobs
  <1>1. CASE UpsertActive(m) \/ UpsertArrived(m)
    BY <1>1 DEF UpsertActive, UpsertArrived
  <1>2. CASE ScheduleWarning(m)
    BY <1>2 DEF ScheduleWarning, Added
  <1>3. CASE ScheduleExpire(m)
    BY <1>3 DEF ScheduleExpire, Added, Unattended
  <1> QED BY <1>1, <1>2, <1>3 DEF ArrivedStep

\* A scan's handler removes the job before it closes the timer.
LEMMA ScannedHarmless ==
    ASSUME DeadlineInv, NEW m \in Slots, ScannedStep(m)
    PROVE  Harmless(m)
  <1> USE DEF Harmless, DeadlineInv, TypeOK, At, Goto, Handled, Decides, JobNames,
              JobStates, history, jobs
  <1>1. CASE ScanCancelsWarning(m)
    BY <1>1 DEF ScanCancelsWarning, CancelWarning, Removed
  <1>2. CASE ScanCancelsExpire(m)
    BY <1>2 DEF ScanCancelsExpire, Removed
  <1>3. CASE ScanCancelsTimer(m)
    BY <1>3 DEF ScanCancelsTimer, Marked
  <1>4. CASE MarkScanned(m)
    BY <1>4 DEF MarkScanned
  <1> QED BY <1>1, <1>2, <1>3, <1>4 DEF ScannedStep

\* The expiry's handler closes the timer before it removes the job.
LEMMA ExpiredHarmless ==
    ASSUME DeadlineInv, NEW m \in Slots, ExpiredStep(m)
    PROVE  Harmless(m)
  <1> USE DEF Harmless, DeadlineInv, TypeOK, At, Goto, Handled, Decides, JobNames,
              JobStates, history, jobs
  <1>1. Unattended /\ msgs[m].kind = "expired" /\ ~Decides(m) => timer # "ACTIVE"
    BY DEF HandledOnce
  <1>2. CASE ExpiredRead(m)
    BY <1>2 DEF ExpiredRead, Done, Free
  <1>3. CASE ExpiredCheck(m)
    BY <1>3 DEF ExpiredCheck
  <1>4. CASE ExpiredSuppressed(m) \/ MarkExpired(m)
    BY <1>4 DEF ExpiredSuppressed, MarkExpired, Marked
  <1>5. CASE MarkStateExpired(m)
    BY <1>1, <1>5 DEF MarkStateExpired
  <1>6. CASE ExpiredCancelsWarning(m)
    BY <1>1, <1>6 DEF ExpiredCancelsWarning, CancelWarning, Removed
  <1>7. CASE ExpiredCancelsExpire(m)
    BY <1>1, <1>7 DEF ExpiredCancelsExpire, Removed
  <1> QED BY <1>2, <1>3, <1>4, <1>5, <1>6, <1>7 DEF ExpiredStep

\* A message that leaves was handled, or ended the claim.
LEMMA LeavingHarmless ==
    ASSUME DeadlineInv, NEW m \in Slots, CancelThrows(m) \/ Ack(m)
    PROVE  Harmless(m)
  <1> USE DEF Harmless, DeadlineInv, TypeOK, Done, Free, Decides, history, jobs
  <1>1. CASE CancelThrows(m)
    BY <1>1 DEF CancelThrows, Unattended
  <1>2. CASE Ack(m)
    <2>1. Unattended /\ msgs[m].kind = "expired" => timer # "ACTIVE"
      BY <1>2 DEF Ack, HandledOnce
    <2> QED
      BY <1>2, <2>1 DEF Ack
  <1> QED BY <1>1, <1>2

\* The worker: the expiry job ends with its event in the queue, or with a
\* timer that is not ACTIVE.
LEMMA DeadlineWorker ==
    ASSUME DeadlineInv, TypeOK', WorkerStep
    PROVE  DeadlineInv'
  <1>1. UNCHANGED <<sent, cut>>
    BY DEF WorkerStep, JobStarts, JobCompletes, WarningRead, WarningCheck,
           WarningSms, WarningMark, ExpireRead, ExpireCheck, ExpirePublish,
           ExpireCancel, history, jobs
  <1>2. Unattended' <=> Unattended
    BY <1>1 DEF Unattended
  <1>3. timer' = "ACTIVE" => timer = "ACTIVE"
    BY DEF WorkerStep, JobStarts, JobCompletes, WarningRead, WarningCheck,
           WarningSms, WarningMark, ExpireRead, ExpireCheck, ExpirePublish,
           ExpireCancel, Marked, history, jobs
  <1>4. /\ queue'["expire"] = "failed" => queue["expire"] = "failed"
        /\ queue["expire"] = "none" => queue'["expire"] = "none"
        /\ timer' = "ACTIVE" /\ queue["expire"] \in {"delayed", "active"} =>
             queue'["expire"] \in {"delayed", "active"} \/ worker = "e_done"
    BY DEF DeadlineInv, TypeOK, JobNames, JobStates, WorkerStep, JobStarts,
           JobCompletes, WarningRead, WarningCheck, WarningSms, WarningMark,
           ExpireRead, ExpireCheck, ExpirePublish, ExpireCancel, Completed,
           Removed, Marked, Open, history, jobs
  <1>5. \A n \in Slots : \/ msgs'[n] = msgs[n]
                         \/ /\ msgs[n].kind = "none"
                            /\ msgs'[n] = [kind |-> "expired", pc |-> "queued"]
                            /\ queue["expire"] = "active"
    BY DEF DeadlineInv, TypeOK, Free, WorkerStep, JobStarts, JobCompletes,
           WarningRead, WarningCheck, WarningSms, WarningMark, ExpireRead,
           ExpireCheck, ExpirePublish, ExpireCancel, history, jobs
  <1>6. worker' = "e_done" => worker = "e_done" \/ InFlight("expired")'
    <2>1. ASSUME NEW m \in Slots, ExpirePublish(m) PROVE InFlight("expired")'
      BY <2>1 DEF ExpirePublish, InFlight, DeadlineInv, TypeOK
    <2> QED
      BY <2>1 DEF WorkerStep, JobStarts, JobCompletes, WarningRead, WarningCheck,
           WarningSms, WarningMark, ExpireRead, ExpireCheck, ExpireCancel, Completed,
           history, jobs
  <1>7. \A n \in Slots : /\ Decides(n) => Decides(n)'
                         /\ msgs'[n].kind # msgs[n].kind => Decides(n)'
    BY <1>5 DEF Decides
  <1>8. HandledOnce'
    <2> SUFFICES ASSUME Unattended PROVE HandledOnce'
      BY <1>2 DEF HandledOnce
    <2>1. HandledOnce
      BY DEF DeadlineInv
    <2>2. \A n \in Slots : msgs'[n].kind = "arrived" => msgs'[n] = msgs[n]
      BY <1>5
    <2>3. InFlight("arrived")' => sent'["arrived"] = 1
      BY <1>1, <2>1, <2>2 DEF HandledOnce, InFlight
    <2>4. \A n, o \in Slots :
            msgs'[n].kind = "arrived" /\ msgs'[o].kind = "arrived" => n = o
      BY <2>1, <2>2 DEF HandledOnce
    <2>5. queue'["expire"] # "none" \/ InFlight("expired")' =>
            /\ sent'["arrived"] = 1
            /\ \A n \in Slots : msgs'[n].kind = "arrived" => msgs'[n].pc = "ack"
      <3>1. InFlight("expired")' => InFlight("expired") \/ queue["expire"] = "active"
        BY <1>5 DEF InFlight
      <3> QED
        BY <1>1, <1>4, <2>1, <2>2, <3>1 DEF HandledOnce
    <2>6. \A n \in Slots :
            msgs'[n].kind = "expired" /\ ~Decides(n)' => timer' # "ACTIVE"
      BY <1>3, <1>7, <2>1 DEF HandledOnce
    <2>7. InFlight("expired") => InFlight("expired")'
      BY <1>5 DEF InFlight
    <2>8. worker' = "e_done" => timer' # "ACTIVE" \/ InFlight("expired")'
      BY <1>3, <1>6, <2>1, <2>7 DEF HandledOnce
    <2> QED BY <2>3, <2>4, <2>5, <2>6, <2>8 DEF HandledOnce
  <1>9. ActiveHasDeadline'
    <2> SUFFICES ASSUME Unattended, timer' = "ACTIVE"
                 PROVE  \/ queue'["expire"] \in {"delayed", "active"}
                        \/ \E n \in Slots : Decides(n)'
      BY <1>2 DEF ActiveHasDeadline
    <2>1. timer = "ACTIVE" /\ HandledOnce /\ ActiveHasDeadline
      BY <1>3 DEF DeadlineInv
    <2>2. worker = "e_done" => \E n \in Slots : Decides(n)
      BY <2>1 DEF HandledOnce, InFlight
    <2> QED
      BY <1>4, <1>7, <2>1, <2>2 DEF ActiveHasDeadline
  <1> QED BY <1>1, <1>4, <1>8, <1>9 DEF DeadlineInv

\* An error that ends what matters ends the claim, and so does a restart that
\* delivers again what was handled or finds the expiry job stalled before; any
\* other leaves every message and job to begin again.
LEMMA DeadlineFailure ==
    ASSUME DeadlineInv, TypeOK', Failure
    PROVE  DeadlineInv'
  <1>1. CASE cut'
    BY <1>1 DEF DeadlineInv, HandledOnce, ActiveHasDeadline, Unattended
  <1>2. CASE ~cut' /\ ~Crash
    <2>1. PICK j \in JobNames : JobFails(j) /\ j # "expire"
      BY <1>2 DEF Failure, HandlerFails, JobFails
    <2>2. /\ UNCHANGED <<timer, sent, msgs>>
          /\ queue'["expire"] = queue["expire"]
          /\ worker' = "idle"
      BY <2>1 DEF JobFails, DeadlineInv, TypeOK, JobNames
    <2>3. ~cut
      BY <1>2, <2>1 DEF JobFails
    <2> QED
      BY <2>2, <2>3
      DEF DeadlineInv, HandledOnce, ActiveHasDeadline, Unattended, InFlight,
          Decides
  <1>3. CASE ~cut' /\ Crash
    <2>1. /\ ~cut
          /\ \A m \in Slots : ~At(m, "arrived", "ack")
          /\ queue["expire"] = "active" => queue'["expire"] # "failed"
      BY <1>3 DEF Crash
    <2>2. /\ UNCHANGED <<timer, sent>>
          /\ worker' = "idle"
          /\ queue'["expire"] = IF queue["expire"] = "active" THEN "delayed"
                                                            ELSE queue["expire"]
      BY <1>3, <2>1 DEF Crash, Recovered, JobNames
    <2>3. \A m \in Slots : /\ msgs'[m].kind = msgs[m].kind /\ msgs'[m].pc = "queued"
                           /\ msgs[m].kind = "arrived" => msgs[m].pc # "ack"
      BY <1>3, <2>1 DEF Crash, At, DeadlineInv, TypeOK
    <2>4. \A m \in Slots : /\ Decides(m) => Decides(m)'
                           /\ msgs'[m].kind = "expired" => Decides(m)'
      BY <2>3 DEF Decides
    <2>5. Unattended' => Unattended
      BY <2>1, <2>2 DEF Unattended
    <2>6. HandledOnce'
      BY <2>2, <2>3, <2>4, <2>5 DEF DeadlineInv, HandledOnce, InFlight
    <2>7. ActiveHasDeadline'
      BY <2>2, <2>4, <2>5 DEF DeadlineInv, ActiveHasDeadline
    <2> QED
      BY <2>1, <2>2, <2>6, <2>7 DEF DeadlineInv
  <1> QED BY <1>1, <1>2, <1>3

\* As long as one arrival is handled once, no expiry comes from orderService, no
\* error ends a handler or the expiry job and no two restarts interrupt that
\* job (the second time BullMQ fails it), an ACTIVE timer keeps its expiry job
\* or a message that will schedule it or close the timer, however often it is
\* scanned and however often the process restarts otherwise.
THEOREM DeadlineTheorem == Safe => []ActiveHasDeadline
  <1>1. DeadlineInv /\ [Next]_vars => DeadlineInv'
    <2> SUFFICES ASSUME DeadlineInv, [Next]_vars PROVE DeadlineInv'
      OBVIOUS
    <2>1. TypeOK'
      BY NextTyped DEF DeadlineInv
    <2>2. ASSUME NEW m \in Slots, MessageStep(m) PROVE DeadlineInv'
      <3>1. Harmless(m)
        BY <2>2, ArrivedHarmless, ScannedHarmless, ExpiredHarmless,
           LeavingHarmless
        DEF MessageStep
      <3> QED BY <2>1, <2>2, <3>1, DeadlineMessage
    <2>3. CASE UNCHANGED vars
      BY <2>3 DEF vars, DeadlineInv, TypeOK, HandledOnce, ActiveHasDeadline,
                  InFlight, Decides, Unattended
    <2> QED
      BY <2>1, <2>2, <2>3, DeadlineSent, DeadlineWorker, DeadlineFailure
      DEF Next
  <1>2. DeadlineInv => ActiveHasDeadline
    BY DEF DeadlineInv
  <1> QED BY <1>1, <1>2, InitDeadline, PTL DEF Safe

=============================================================================
