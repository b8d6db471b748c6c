---------------------- MODULE PaymentTransactions_proofs ----------------------
(***************************************************************************)
(* Proofs about PaymentTransactions, for any number of requests and of     *)
(* attempts to start.  The inductive invariant says what a handler has     *)
(* done by each of its steps, and who can still be waiting for it; from it *)
(* every step is a step of Payment or leaves it alone.                     *)
(***************************************************************************)
EXTENDS PaymentTransactions, TLAPS

\* What the handler of r has done by now.
Stage(r) ==
    /\ handler[r] \in {"none", "create"} => tx[r] = "none" /\ r \notin charged
    /\ handler[r] = "charge" => tx[r] = "PENDING" /\ r \notin charged
    /\ handler[r] = "update" => tx[r] = "PENDING" /\ r \in charged
    /\ handler[r] \in {"publish", "answer", "done", "closed"} =>
          tx[r] = "SUCCESS" /\ r \in charged
    /\ handler[r] \in {"answer", "done"} /\ Announced(r) => r \in Sent
    /\ r \in Sent => tx[r] = "SUCCESS" /\ r \in charged

\* How far the gateway can be.
Waits(r) ==
    /\ client[r] = "idle" => handler[r] = "none"
    /\ client[r] = "ok" => handler[r] = "done"
    /\ handler[r] \in Live \cup {"shut", "closed"} =>
          client[r] \in {"waiting", "unavailable"}
    /\ handler[r] \in {"shut", "closed"} => ~conn[r]

\* The publisher is closed only when no connection is left.
NobodyConnected == phase = "closing" => \A r \in Requests : ~conn[r]

IInv == TypeOK /\ NobodyConnected /\ \A r \in Requests : Stage(r) /\ Waits(r)

-----------------------------------------------------------------------------
(* Types *)

LEMMA InitTyped == Init => TypeOK
  <1> SUFFICES ASSUME Init PROVE TypeOK
    OBVIOUS
  <1>1. attempt \in 1..MaxAttempts
    BY MaxAttemptsAssumption DEF Init
  <1>2. channel \in BOOLEAN
    BY DEF Init
  <1>3. conn \in [Requests -> BOOLEAN]
    BY DEF Init
  <1> QED
    BY <1>1, <1>2, <1>3
    DEF Init, TypeOK, Kinds, Clients, Handlers, TxStatus, Phases

\* A step of a handler keeps the types.
LEMMA HandlerTyped ==
    ASSUME TypeOK, NEW r \in Requests,
           Handle(r) \/ HandlerFails(r) \/ SocketTimeout(r)
    PROVE  TypeOK'
  <1> USE DEF TypeOK, Step, Live, Interrupted, Handlers, TxStatus, process,
              ledger, events
  <1>1. CASE CreatePending(r)
    BY <1>1 DEF CreatePending
  <1>2. CASE Charge(r)
    BY <1>2 DEF Charge
  <1>3. CASE MarkSuccess(r)
    BY <1>3 DEF MarkSuccess
  <1>4. CASE Publish(r)
    BY <1>4 DEF Publish
  <1>5. CASE SkipPublish(r)
    BY <1>5 DEF SkipPublish
  <1>6. CASE Answer(r)
    BY <1>6 DEF Answer
  <1>7. CASE HandlerFails(r)
    BY <1>7 DEF HandlerFails
  <1>8. CASE SocketTimeout(r)
    BY <1>8 DEF SocketTimeout
  <1> QED
    BY <1>1, <1>2, <1>3, <1>4, <1>5, <1>6, <1>7, <1>8
    DEF Handle, PublishOrderPaid, PublishSubscription

\* A step of the gateway keeps the types.
LEMMA GatewayTyped ==
    ASSUME TypeOK, NEW r \in Requests, Gateway(r)
    PROVE  TypeOK'
  <1> USE DEF TypeOK, Reply, Replies, Clients, Live, Interrupted, Handlers,
              Kinds, process, ledger, events
  <1>1. ASSUME NEW k \in Kinds \ {"none"}, Forward(r, k) PROVE TypeOK'
    BY <1>1 DEF Forward
  <1>2. CASE Abort(r)
    BY <1>2 DEF Abort
  <1>3. CASE FetchFails(r)
    BY <1>3 DEF FetchFails
  <1>4. CASE Headers(r)
    BY <1>4 DEF Headers
  <1>5. CASE Body(r)
    BY <1>5 DEF Body
  <1> QED
    BY <1>1, <1>2, <1>3, <1>4, <1>5 DEF Gateway

\* A step of the process keeps the types.
LEMMA ProcessTyped ==
    ASSUME TypeOK, Flush \/ Process
    PROVE  TypeOK'
  <1> USE MaxAttemptsAssumption
      DEF TypeOK, Phases, Live, Interrupted, Handlers, process, ledger, events,
          Ended
  <1>1. CASE Flush
    BY <1>1 DEF Flush
  <1>2. CASE Connected \/ ConnectFails \/ MongoFails \/ Shutdown \/ StartAgain
    <2>1. attempt' \in 1..MaxAttempts /\ phase' \in Phases
      BY <1>2 DEF Connected, ConnectFails, MongoFails, Shutdown, StartAgain
    <2>2. channel' \in BOOLEAN
      BY <1>2 DEF Connected, ConnectFails, MongoFails, Shutdown, StartAgain
    <2>3. UNCHANGED <<kind, client, conn, handler, ledger, events>>
      BY <1>2 DEF Connected, ConnectFails, MongoFails, Shutdown, StartAgain
    <2> QED
      BY <2>1, <2>2, <2>3
  <1>6. CASE Severed
    BY <1>6 DEF Severed
  <1>7. CASE CloseFails
    BY <1>7 DEF CloseFails
  <1>3. CASE Drained
    BY <1>3 DEF Drained
  <1>4. CASE Exit
    BY <1>4 DEF Exit
  <1>5. CASE Crash
    BY <1>5 DEF Crash
  <1> QED
    BY <1>1, <1>2, <1>3, <1>4, <1>5, <1>6, <1>7 DEF Process

LEMMA NextTyped ==
    ASSUME TypeOK, [Next]_vars
    PROVE  TypeOK'
  <1>1. CASE UNCHANGED vars
    BY <1>1 DEF vars, ledger, events, process, TypeOK
  <1> QED
    BY <1>1, HandlerTyped, GatewayTyped, ProcessTyped DEF Next

\* Every variable keeps its type.
THEOREM TypeCorrect == Spec => []TypeOK
  <1>1. TypeOK /\ [Next]_vars => TypeOK'
    BY NextTyped
  <1> QED
    BY InitTyped, <1>1, PTL DEF Spec

-----------------------------------------------------------------------------
(* The stages of the handlers and of the gateway *)

LEMMA InitSound == Init => IInv
  BY InitTyped
  DEF Init, IInv, NobodyConnected, Stage, Waits, Sent, Live

\* A step of a handler moves one request to its next stage.
LEMMA HandlerSound ==
    ASSUME IInv, NEW r \in Requests,
           Handle(r) \/ HandlerFails(r) \/ SocketTimeout(r),
           NEW s \in Requests
    PROVE  NobodyConnected' /\ Stage(s)' /\ Waits(s)'
  <1> USE DEF IInv, TypeOK, NobodyConnected, Stage, Waits, Announced, Sent,
              Step, Live, Interrupted, process, ledger, events
  <1>1. CASE CreatePending(r)
    BY <1>1 DEF CreatePending
  <1>2. CASE Charge(r)
    BY <1>2 DEF Charge
  <1>3. CASE MarkSuccess(r)
    BY <1>3 DEF MarkSuccess
  <1>4. CASE Publish(r)
    BY <1>4 DEF Publish
  <1>5. CASE SkipPublish(r)
    BY <1>5 DEF SkipPublish
  <1>6. CASE Answer(r)
    BY <1>6 DEF Answer
  <1>7. CASE HandlerFails(r)
    BY <1>7 DEF HandlerFails
  <1>8. CASE SocketTimeout(r)
    BY <1>8 DEF SocketTimeout
  <1> HIDE DEF IInv, TypeOK, NobodyConnected, Stage, Waits
  <1> QED
    BY <1>1, <1>2, <1>3, <1>4, <1>5, <1>6, <1>7, <1>8
    DEF Handle, PublishOrderPaid, PublishSubscription

\* The gateway answers success only for a handler that has come to its end,
\* and a request it forwards begins with nothing done.
LEMMA GatewaySound ==
    ASSUME IInv, NEW r \in Requests, Gateway(r), NEW s \in Requests
    PROVE  NobodyConnected' /\ Stage(s)' /\ Waits(s)'
  <1> USE DEF IInv, TypeOK, NobodyConnected, Stage, Waits, Announced, Sent,
              Reply, Live, process, ledger, events
  <1>1. ASSUME NEW k \in Kinds \ {"none"}, Forward(r, k)
        PROVE  NobodyConnected' /\ Stage(s)' /\ Waits(s)'
    BY <1>1 DEF Forward
  <1>2. CASE Abort(r)
    BY <1>2 DEF Abort
  <1>3. CASE FetchFails(r)
    BY <1>3 DEF FetchFails
  <1>4. CASE Headers(r)
    BY <1>4 DEF Headers
  <1>5. CASE Body(r)
    BY <1>5 DEF Body
  <1> HIDE DEF IInv, TypeOK, NobodyConnected, Stage, Waits
  <1> QED
    BY <1>1, <1>2, <1>3, <1>4, <1>5 DEF Gateway

\* What ends handlers closes their connections or has waited for that; an event
\* that leaves the buffer is at the broker or lost.
LEMMA ProcessSound ==
    ASSUME IInv, Flush \/ Process, NEW s \in Requests
    PROVE  NobodyConnected' /\ Stage(s)' /\ Waits(s)'
  <1> USE DEF IInv, TypeOK, NobodyConnected, Stage, Waits, Announced, Sent,
              Live, Ended, process, ledger, events
  <1>1. CASE Flush
    BY <1>1 DEF Flush
  <1>2. CASE Connected \/ ConnectFails \/ MongoFails \/ Shutdown \/ StartAgain
    BY <1>2 DEF Connected, ConnectFails, MongoFails, Shutdown, StartAgain
  <1>6. CASE Severed
    BY <1>6 DEF Severed
  <1>7. CASE CloseFails
    BY <1>7 DEF CloseFails
  <1>3. CASE Drained
    BY <1>3 DEF Drained
  <1>4. CASE Exit
    BY <1>4 DEF Exit
  <1>5. CASE Crash
    BY <1>5 DEF Crash
  <1> HIDE DEF IInv, TypeOK, NobodyConnected, Stage, Waits
  <1> QED
    BY <1>1, <1>2, <1>3, <1>4, <1>5, <1>6, <1>7 DEF Process

LEMMA NextSound ==
    ASSUME IInv, [Next]_vars
    PROVE  IInv'
  <1>1. TypeOK'
    BY NextTyped DEF IInv
  <1>2. CASE UNCHANGED vars
    BY <1>2 DEF IInv, TypeOK, NobodyConnected, Stage, Waits, Announced, Sent,
                vars, ledger, events, process
  <1>3. CASE Next
    <2>1. ASSUME NEW s \in Requests PROVE Stage(s)' /\ Waits(s)'
      BY <1>3, HandlerSound, GatewaySound, ProcessSound DEF Next
    <2>2. NobodyConnected'
      BY <1>3, <2>1, HandlerSound, GatewaySound, ProcessSound
      DEF Next, NobodyConnected
    <2> QED
      BY <1>1, <2>1, <2>2 DEF IInv
  <1> QED
    BY <1>2, <1>3

\* The stages of handlers and gateway hold in every state.
THEOREM Invariance == Spec => []IInv
  <1>1. IInv /\ [Next]_vars => IInv'
    BY NextSound
  <1> QED
    BY InitSound, <1>1, PTL DEF Spec

-----------------------------------------------------------------------------
(* The properties *)

\* A client that is told of success has paid, the transaction says so and the
\* event was handed over, whatever crashed or was closed since.
THEOREM AnswerTheorem == Spec => []AnswerIsKept
  <1>1. IInv => AnswerIsKept
    BY DEF IInv, Stage, Waits, AnswerIsKept
  <1> QED
    BY Invariance, <1>1, PTL

\* Charge, transaction and event differ only where a handler is at work or was
\* ended by something else than itself, a channel closed by the broker included.
THEOREM LedgerTheorem == Spec => []LedgerMatchesEvents
  <1>1. IInv => LedgerMatchesEvents
    BY DEF IInv, TypeOK, Handlers, Live, Interrupted, Stage,
           LedgerMatchesEvents
  <1> QED
    BY Invariance, <1>1, PTL

\* A shutdown ends no handler somebody waits for.
THEOREM ShutdownTheorem == Spec => []ShutdownSparesWaiting
  <1>1. IInv => ShutdownSparesWaiting
    BY DEF IInv, Waits, ShutdownSparesWaiting
  <1> QED
    BY Invariance, <1>1, PTL

\* The fair specification the runs check is the specification with more said.
THEOREM FairTheorem ==
    FairSpec => [](AnswerIsKept /\ LedgerMatchesEvents /\ ShutdownSparesWaiting)
  BY AnswerTheorem, LedgerTheorem, ShutdownTheorem, PTL DEF FairSpec

-----------------------------------------------------------------------------
(* Refinement of Payment *)

\* What a payment promises does not see a step that ends no handler before it
\* began, and leaves ledger, events and answers alone.
LEMMA UnseenStep ==
    ASSUME kind' = kind, tx' = tx, charged' = charged, Sent' = Sent,
           \A r \in Requests : /\ handler'[r] = "none" <=> handler[r] = "none"
                              /\ Said(r)' = Said(r)
    PROVE  UNCHANGED Promise!vars
  BY DEF Promise!vars, Announced

\* A handler charges, records and announces in this order; the rest of what it
\* does is not seen.
LEMMA HandlerRefines ==
    ASSUME IInv, NEW r \in Requests,
           Handle(r) \/ HandlerFails(r) \/ SocketTimeout(r)
    PROVE  Promise!Next \/ UNCHANGED Promise!vars
  <1>1. TypeOK /\ Stage(r)
    BY DEF IInv
  <1>2. CASE SocketTimeout(r)
    BY <1>2, UnseenStep DEF SocketTimeout, ledger, events, Sent, Said
  <1>3. ASSUME NEW a \in Live, NEW b \in Live \cup {"done", "failed", "closed"},
               Step(r, a, b), client' = client
        PROVE  \A q \in Requests : /\ handler'[q] = "none" <=> handler[q] = "none"
                                  /\ Said(q)' = Said(q)
    BY <1>1, <1>3 DEF TypeOK, Step, Live, Said
  <1>4. CASE SkipPublish(r) \/ Answer(r) \/ HandlerFails(r)
    <2>1. \A q \in Requests : /\ handler'[q] = "none" <=> handler[q] = "none"
                             /\ Said(q)' = Said(q)
      BY <1>3, <1>4 DEF SkipPublish, Answer, HandlerFails, Live
    <2> QED
      BY <1>4, <2>1, UnseenStep
      DEF SkipPublish, Answer, HandlerFails, ledger, events, Sent
  <1>5. CASE CreatePending(r)
    <2>1. \A q \in Requests : /\ handler'[q] = "none" <=> handler[q] = "none"
                             /\ Said(q)' = Said(q)
      BY <1>3, <1>5 DEF CreatePending, Live
    <2>2. \A q \in Requests : tx'[q] = "SUCCESS" <=> tx[q] = "SUCCESS"
      BY <1>1, <1>5 DEF CreatePending, TypeOK, Stage, Step
    <2> QED
      BY <1>5, <2>1, <2>2
      DEF CreatePending, events, Sent, Promise!vars, Announced
  <1>6. CASE Charge(r)
    <2>1. \A q \in Requests : /\ handler'[q] = "none" <=> handler[q] = "none"
                             /\ Said(q)' = Said(q)
      BY <1>3, <1>6 DEF Charge, Live
    <2>2. Promise!Charge(r)
      BY <1>6, <2>1
      DEF Charge, Step, events, Sent, Promise!Charge, Announced
    <2> QED
      BY <2>2 DEF Promise!Next
  <1>7. CASE MarkSuccess(r)
    <2>1. \A q \in Requests : /\ handler'[q] = "none" <=> handler[q] = "none"
                             /\ Said(q)' = Said(q)
      BY <1>3, <1>7 DEF MarkSuccess, Live
    <2>2. \A q \in Requests : tx'[q] = "SUCCESS" <=> tx[q] = "SUCCESS" \/ q = r
      BY <1>1, <1>7 DEF MarkSuccess, TypeOK
    <2>3. Promise!Record(r)
      BY <1>1, <1>7, <2>1, <2>2
      DEF MarkSuccess, Step, Stage, events, Sent, Promise!Record, Announced
    <2> QED
      BY <2>3 DEF Promise!Next
  <1>8. CASE (PublishOrderPaid(r) \/ PublishSubscription(r)) /\ ~channel
    <2> DEFINE end == IF phase = "closing" THEN "closed" ELSE "failed"
    <2>1. /\ Step(r, "publish", end)
          /\ UNCHANGED buffer
          /\ end \in {"closed", "failed"}
      BY <1>8 DEF PublishOrderPaid, PublishSubscription, Publish
    <2> HIDE DEF end
    <2>2. UNCHANGED <<kind, client, ledger, delivered, lost>>
      BY <1>8 DEF PublishOrderPaid, PublishSubscription, Publish
    <2>3. \A q \in Requests : /\ handler'[q] = "none" <=> handler[q] = "none"
                             /\ Said(q)' = Said(q)
      BY <1>3, <2>1, <2>2 DEF Live
    <2> QED
      BY <2>1, <2>2, <2>3, UnseenStep DEF ledger, Sent
  <1>9. CASE (PublishOrderPaid(r) \/ PublishSubscription(r)) /\ channel
    <2>1. Step(r, "publish", "answer") /\ buffer' = buffer \cup {r}
      BY <1>9 DEF PublishOrderPaid, PublishSubscription, Publish
    <2>2. UNCHANGED <<kind, client, ledger, delivered, lost>>
      BY <1>9 DEF PublishOrderPaid, PublishSubscription, Publish
    <2>3. \A q \in Requests : /\ handler'[q] = "none" <=> handler[q] = "none"
                             /\ Said(q)' = Said(q)
      BY <1>3, <2>1, <2>2 DEF Live
    <2>4. Announced(r)
      BY <1>9 DEF PublishOrderPaid, PublishSubscription, Announced
    <2>5. Promise!Announce(r)
      BY <1>1, <2>1, <2>2, <2>3, <2>4
      DEF Step, Stage, ledger, Sent, Promise!Announce, Announced
    <2> QED
      BY <2>5 DEF Promise!Next
  <1> QED
    BY <1>2, <1>4, <1>5, <1>6, <1>7, <1>8, <1>9 DEF Handle

\* The gateway hands a request over or refuses it, gives it up, or passes on
\* what a handler that came to its end has said.
LEMMA GatewayRefines ==
    ASSUME IInv, NEW r \in Requests, Gateway(r)
    PROVE  Promise!Next \/ UNCHANGED Promise!vars
  <1>1. TypeOK /\ Stage(r) /\ Waits(r)
    BY DEF IInv
  <1>2. ASSUME NEW a \in {"ok", "fail", "unavailable"}, Reply(r, a),
               client[r] \in {"idle", "waiting", "body"},
               UNCHANGED <<handler, ledger, events>>,
               \A q \in Requests : Announced(q)' /\ handler[q] # "none"
                                      <=> Announced(q) /\ handler[q] # "none",
               a = "ok" => handler[r] = "done"
        PROVE  Promise!Next
    <2>1. /\ Said(r) = "none"
          /\ Said(r)' = IF a = "ok" THEN "success" ELSE "refused"
          /\ \A q \in Requests \ {r} : Said(q)' = Said(q)
      BY <1>1, <1>2 DEF TypeOK, Reply, Said
    <2>2. CASE a = "ok"
      <3>1. tx[r] = "SUCCESS" /\ (Announced(r) => r \in Sent)
        BY <1>1, <1>2, <2>2 DEF Stage
      <3>2. Promise!Confirm(r)
        BY <1>2, <2>1, <2>2, <3>1
        DEF Promise!Confirm, ledger, events, Sent
      <3> QED
        BY <3>2 DEF Promise!Next
    <2>3. CASE a # "ok"
      <3>1. Promise!Refuse(r)
        BY <1>2, <2>1, <2>3 DEF Promise!Refuse, ledger, events, Sent
      <3> QED
        BY <3>1 DEF Promise!Next
    <2> QED
      BY <2>2, <2>3
  <1>3. ASSUME NEW k \in Kinds \ {"none"}, Forward(r, k)
        PROVE  Promise!Next
    <2>1. /\ client[r] = "idle" /\ handler[r] = "none"
          /\ UNCHANGED <<ledger, events>>
          /\ kind' = [kind EXCEPT ![r] = k]
      BY <1>1, <1>3 DEF Forward, Waits
    <2>2. \A q \in Requests \ {r} : Announced(q)' <=> Announced(q)
      BY <1>1, <2>1 DEF TypeOK, Announced
    <2>3. CASE phase = "up"
      <3>1. /\ handler' = [handler EXCEPT ![r] = "create"]
            /\ client' = [client EXCEPT ![r] = "waiting"]
        BY <1>3, <2>3 DEF Forward, Reply
      <3>2. /\ \A q \in Requests : Said(q)' = Said(q)
            /\ Said(r) = "none"
        BY <1>1, <2>1, <3>1 DEF TypeOK, Said
      <3>3. \A q \in Requests : handler'[q] # "none" <=> handler[q] # "none" \/ q = r
        BY <1>1, <3>1 DEF TypeOK
      <3>4. Promise!Take(r)
        <4>1. {q \in Requests : handler'[q] # "none"}
                = {q \in Requests : handler[q] # "none"} \cup {r}
          BY <3>3
        <4>2. {q \in Requests : handler'[q] # "none" /\ Announced(q)'}
                \in {{q \in Requests : handler[q] # "none" /\ Announced(q)},
                     {q \in Requests : handler[q] # "none" /\ Announced(q)}
                        \cup {r}}
          <5>1. CASE Announced(r)'
            BY <2>2, <3>3, <5>1
          <5>2. CASE ~Announced(r)'
            BY <2>1, <2>2, <3>3, <5>2
          <5> QED
            BY <5>1, <5>2
        <4> QED
          BY <2>1, <3>2, <4>1, <4>2 DEF Promise!Take, ledger, events, Sent
      <3> QED
        BY <3>4 DEF Promise!Next
    <2>4. CASE phase # "up"
      <3>1. Reply(r, "unavailable") /\ UNCHANGED handler
        BY <1>3, <2>4 DEF Forward
      <3> QED
        BY <1>2, <2>1, <2>2, <3>1
    <2> QED
      BY <2>3, <2>4
  <1>4. CASE Headers(r)
    <2>1. \A q \in Requests : Said(q)' = Said(q)
      BY <1>1, <1>4 DEF TypeOK, Headers, Reply, Said
    <2> QED
      BY <1>4, <2>1, UnseenStep DEF Headers, ledger, events, Sent
  <1>5. CASE Abort(r) \/ FetchFails(r)
    <2>1. /\ Reply(r, "unavailable") /\ client[r] = "waiting"
          /\ UNCHANGED <<kind, handler, ledger, events>>
      BY <1>5 DEF Abort, FetchFails
    <2> QED
      BY <1>2, <2>1 DEF Announced
  <1>6. CASE Body(r)
    <2> DEFINE a == IF conn[r] /\ handler[r] = "done" THEN "ok" ELSE "fail"
    <2>1. /\ Reply(r, a) /\ client[r] = "body"
          /\ UNCHANGED <<kind, handler, ledger, events>>
      BY <1>6 DEF Body
    <2>2. a \in {"ok", "fail", "unavailable"} /\ (a = "ok" => handler[r] = "done")
      OBVIOUS
    <2> HIDE DEF a
    <2> QED
      BY <1>2, <2>1, <2>2 DEF Announced
  <1> QED
    BY <1>3, <1>4, <1>5, <1>6 DEF Gateway

\* What happens to the process, the channel and the buffer is not seen: what a
\* crash or the broker's closing finds in the buffer had been announced.
LEMMA ProcessRefines ==
    ASSUME IInv, Flush \/ Process
    PROVE  UNCHANGED Promise!vars
  <1>1. UNCHANGED <<kind, client, ledger>> /\ Sent' = Sent
    BY DEF Flush, Process, Connected, ConnectFails, MongoFails, Severed,
           Shutdown, Drained, Exit, CloseFails, Crash, StartAgain,
           ledger, events, Sent
  <1>2. \A r \in Requests : handler'[r] = "none" <=> handler[r] = "none"
    BY DEF Flush, Process, Connected, ConnectFails, MongoFails, Severed,
           Shutdown, Drained, Exit, CloseFails, Crash, StartAgain,
           Ended, Live
  <1> QED
    BY <1>1, <1>2, UnseenStep DEF ledger, Said

\* The gateway, the handlers and the process together keep what a payment
\* promises, whatever fails.
THEOREM PaymentRefinement == Spec => ImplementsPayment
  <1>1. Init => Promise!Init
    BY DEF Init, Promise!Init, Sent, Said
  <1>2. IInv /\ [Next]_vars => [Promise!Next]_Promise!vars
    <2> SUFFICES ASSUME IInv, [Next]_vars
                 PROVE  Promise!Next \/ UNCHANGED Promise!vars
      BY DEF Promise!vars
    <2>1. CASE UNCHANGED vars
      BY <2>1, UnseenStep
      DEF vars, ledger, events, process, Sent, Said
    <2>2. CASE Next
      BY <2>2, HandlerRefines, GatewayRefines, ProcessRefines DEF Next
    <2> QED
      BY <2>1, <2>2
  <1> QED
    BY <1>1, <1>2, Invariance, PTL DEF Spec, Promise!Spec, ImplementsPayment

=============================================================================
