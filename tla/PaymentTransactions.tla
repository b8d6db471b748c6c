------------------------- MODULE PaymentTransactions -------------------------
(***************************************************************************)
(* Payments, from the gateway that forwards a request to the event that    *)
(* tells the other services: the transaction, the provider's charge and    *)
(* the published event are three things, done one after the other by a     *)
(* handler that an error, the end of the process or its shutdown may end,  *)
(* and that goes on when nobody waits for it any more.  The publisher has  *)
(* one channel for as long as the process lives: it does not hear that the *)
(* broker closed it, and opens no other.                                   *)
(*                                                                         *)
(* A request carries no key: a repeated request is one more request.       *)
(***************************************************************************)
EXTENDS Naturals

CONSTANTS
    Requests,       \* the requests clients send, one of them again or not
    MaxAttempts     \* maxAttempts of createContainerWithRetry

ASSUME MaxAttemptsAssumption == MaxAttempts \in Nat \ {0}

VARIABLES
    kind,       \* what each request asks for
    client,     \* what the gateway does for each request, and has answered
    conn,       \* the connection of the request to paymentService is open
    handler,    \* what the handler in paymentService is about to do
    tx,         \* status of the transaction of the request
    charged,    \* requests the provider has charged for (external)
    buffer,     \* events given to the channel, not yet at the broker
    delivered,  \* events at the broker
    lost,       \* history: events in the buffer when it went with the
                \* process or with the connection to the broker
    phase,      \* the process of paymentService
    attempt,    \* of createContainerWithRetry
    channel     \* the publisher's channel is open

ledger  == <<tx, charged>>
events  == <<buffer, delivered, lost>>
process == <<phase, attempt, channel>>
vars    == <<kind, client, conn, handler, ledger, events, process>>

Replies == {"ok", "fail", "unavailable"}
Clients == {"idle", "waiting", "body"} \cup Replies

\* PAYMENT_STATUS; nothing sets FAILED.
TxStatus == {"none", "PENDING", "SUCCESS"}

Live        == {"create", "charge", "update", "publish", "answer"}
Interrupted == {"failed", "closed", "shut", "killed"}
Handlers    == {"none", "done"} \cup Live \cup Interrupted

Phases == {"starting", "up", "draining", "closing", "down"}

\* "unbound" is a subscription without restaurantId.
Kinds == {"none", "order", "subscription", "unbound"}

\* The payments an event follows.
Announced(r) == kind[r] \in {"order", "subscription"}

Init ==
    /\ kind = [r \in Requests |-> "none"]
    /\ client = [r \in Requests |-> "idle"]
    /\ conn = [r \in Requests |-> FALSE]
    /\ handler = [r \in Requests |-> "none"]
    /\ tx = [r \in Requests |-> "none"]
    /\ charged = {}
    /\ buffer = {}
    /\ delivered = {}
    /\ lost = {}
    /\ phase = "starting"
    /\ attempt = 1
    /\ channel = FALSE

-----------------------------------------------------------------------------
(* The gateway: forwardToPaymentService *)

Reply(r, a) == client' = [client EXCEPT ![r] = a]

\* fetch reaches a process that accepts connections, or none.
Forward(r, k) ==
    /\ client[r] = "idle"
    /\ kind' = [kind EXCEPT ![r] = k]
    /\ IF phase = "up"
       THEN /\ Reply(r, "waiting")
            /\ conn' = [conn EXCEPT ![r] = TRUE]
            /\ handler' = [handler EXCEPT ![r] = "create"]
       ELSE Reply(r, "unavailable") /\ UNCHANGED <<conn, handler>>
    /\ UNCHANGED <<ledger, events, process>>

\* Faulty variant: only a connection that is lost is given up.
Abort_brokenOnly(r) ==
    /\ client[r] = "waiting"
    /\ ~conn[r]
    /\ Reply(r, "unavailable")
    /\ UNCHANGED <<kind, conn, handler, ledger, events, process>>

\* The AbortController after ten seconds: sendUnavailable.
Abort(r) ==
    /\ client[r] = "waiting"
    /\ Reply(r, "unavailable")
    /\ conn' = [conn EXCEPT ![r] = FALSE]
    /\ UNCHANGED <<kind, handler, ledger, events, process>>

\* The connection ends without an answer: sendUnavailable.
FetchFails(r) ==
    /\ client[r] = "waiting"
    /\ ~conn[r]
    /\ Reply(r, "unavailable")
    /\ UNCHANGED <<kind, conn, handler, ledger, events, process>>

\* The headers arrive: from here on no timer runs.
Headers(r) ==
    /\ client[r] = "waiting"
    /\ conn[r]
    /\ handler[r] \in {"done", "failed", "closed"}
    /\ Reply(r, "body")
    /\ UNCHANGED <<kind, conn, handler, ledger, events, process>>

\* Faulty variant: the status is taken for the answer, whatever the body says.
Body_statusOnly(r) ==
    /\ client[r] = "body"
    /\ Reply(r, "ok")
    /\ conn' = [conn EXCEPT ![r] = FALSE]
    /\ UNCHANGED <<kind, handler, ledger, events, process>>

\* The body is read, or breaks off: a payload without success is an error,
\* sent with the status of the answer.
Body(r) ==
    /\ client[r] = "body"
    /\ Reply(r, IF conn[r] /\ handler[r] = "done" THEN "ok" ELSE "fail")
    /\ conn' = [conn EXCEPT ![r] = FALSE]
    /\ UNCHANGED <<kind, handler, ledger, events, process>>

-----------------------------------------------------------------------------
(* The handlers: createOrderPayment and createSubscriptionPayment *)

Step(r, from, to) ==
    /\ phase # "down"
    /\ handler[r] = from
    /\ handler' = [handler EXCEPT ![r] = to]

\* Faulty variant: the transaction is created as what it is to become.
CreatePending_settled(r) ==
    /\ Step(r, "create", "charge")
    /\ tx' = [tx EXCEPT ![r] = "SUCCESS"]
    /\ UNCHANGED <<kind, client, conn, charged, events, process>>

\* transactionRepository.create
CreatePending(r) ==
    /\ Step(r, "create", "charge")
    /\ tx' = [tx EXCEPT ![r] = "PENDING"]
    /\ UNCHANGED <<kind, client, conn, charged, events, process>>

\* simulateProviderCharge: it always succeeds.
Charge(r) ==
    /\ Step(r, "charge", "update")
    /\ charged' = charged \cup {r}
    /\ UNCHANGED <<kind, client, conn, tx, events, process>>

\* Faulty variant: the answer is sent before the event is published.
MarkSuccess_answersEarly(r) ==
    /\ Step(r, "update", "answer")
    /\ tx' = [tx EXCEPT ![r] = "SUCCESS"]
    /\ UNCHANGED <<kind, client, conn, charged, events, process>>

\* transactionRepository.updateById
MarkSuccess(r) ==
    /\ Step(r, "update", "publish")
    /\ tx' = [tx EXCEPT ![r] = "SUCCESS"]
    /\ UNCHANGED <<kind, client, conn, charged, events, process>>

\* Faulty variant: nothing is published for a client that has left.
Publish_ifWaitedFor(r) ==
    /\ Step(r, "publish", "answer")
    /\ buffer' = IF conn[r] THEN buffer \cup {r} ELSE buffer
    /\ UNCHANGED <<kind, client, conn, ledger, delivered, lost, process>>

\* channel.publish: the event goes to a buffer, and nobody waits for the
\* broker.  On a closed channel it throws, whether the shutdown closed it
\* ("closed") or the broker ("failed"): the error middleware answers.
Publish(r) ==
    /\ IF channel
       THEN Step(r, "publish", "answer") /\ buffer' = buffer \cup {r}
       ELSE /\ Step(r, "publish",
                    IF phase = "closing" THEN "closed" ELSE "failed")
            /\ UNCHANGED buffer
    /\ UNCHANGED <<kind, client, conn, ledger, delivered, lost, process>>

PublishOrderPaid(r)    == kind[r] = "order" /\ Publish(r)
PublishSubscription(r) == kind[r] = "subscription" /\ Publish(r)

\* A subscription without a restaurant is announced to nobody.
SkipPublish(r) ==
    /\ kind[r] = "unbound"
    /\ Step(r, "publish", "answer")
    /\ UNCHANGED <<kind, client, conn, ledger, events, process>>

\* 201, to whoever is still there.
Answer(r) ==
    /\ Step(r, "answer", "done")
    /\ UNCHANGED <<kind, client, conn, ledger, events, process>>

\* Validation, or an error of the database: the error middleware answers.
HandlerFails(r) ==
    /\ \/ Step(r, "create", "failed")
       \/ Step(r, "update", "failed")
    /\ UNCHANGED <<kind, client, conn, ledger, events, process>>

\* The timeout middleware sets no callback: the socket is destroyed, and the
\* handler is not told.
SocketTimeout(r) ==
    /\ conn[r]
    /\ handler[r] \in Live
    /\ conn' = [conn EXCEPT ![r] = FALSE]
    /\ UNCHANGED <<kind, client, handler, ledger, events, process>>

-----------------------------------------------------------------------------
(* The process *)

\* The buffer reaches the broker.
Flush ==
    /\ channel
    /\ buffer # {}
    /\ delivered' = delivered \cup buffer
    /\ buffer' = {}
    /\ UNCHANGED <<kind, client, conn, handler, ledger, lost, process>>

\* The broker closes the connection by force.  amqplib reports that as 'close'
\* only, to which the publisher does not listen: the process stays up, with a
\* channel on which everything throws.  (A connection that breaks is an 'error'
\* without a listener, which ends the process: Crash.)
Severed ==
    /\ phase \in {"up", "draining"}
    /\ channel
    /\ channel' = FALSE
    /\ lost' = lost \cup buffer
    /\ buffer' = {}
    /\ UNCHANGED <<kind, client, conn, handler, ledger, delivered, phase,
                   attempt>>

Connected ==
    /\ phase = "starting"
    /\ phase' = "up"
    /\ channel' = TRUE
    /\ UNCHANGED <<kind, client, conn, handler, ledger, events, attempt>>

\* The broker cannot be reached; after the last attempt the process ends.
ConnectFails ==
    /\ phase = "starting"
    /\ IF attempt < MaxAttempts
       THEN attempt' = attempt + 1 /\ UNCHANGED phase
       ELSE phase' = "down" /\ UNCHANGED attempt
    /\ UNCHANGED <<kind, client, conn, handler, ledger, events, channel>>

\* connectMongo comes first and is tried once.
MongoFails ==
    /\ phase = "starting"
    /\ attempt = 1
    /\ phase' = "down"
    /\ UNCHANGED <<kind, client, conn, handler, ledger, events, attempt,
                   channel>>

\* SIGTERM: server.close refuses new connections.
Shutdown ==
    /\ phase = "up"
    /\ phase' = "draining"
    /\ UNCHANGED <<kind, client, conn, handler, ledger, events, attempt,
                   channel>>

\* Faulty variant: the publisher is closed without waiting for the requests.
Drained_atOnce ==
    /\ phase = "draining"
    /\ channel
    /\ phase' = "closing"
    /\ channel' = FALSE
    /\ delivered' = delivered \cup buffer
    /\ buffer' = {}
    /\ UNCHANGED <<kind, client, conn, handler, ledger, lost, attempt>>

\* server.close has no connection left to wait for: the publisher is closed,
\* which sends what the channel holds.
Drained ==
    /\ phase = "draining"
    /\ \A r \in Requests : ~conn[r]
    /\ channel
    /\ phase' = "closing"
    /\ channel' = FALSE
    /\ delivered' = delivered \cup buffer
    /\ buffer' = {}
    /\ UNCHANGED <<kind, client, conn, handler, ledger, lost, attempt>>

Ended(r, how) == IF handler[r] \in Live THEN how ELSE handler[r]

\* process.exit
Exit ==
    /\ phase = "closing"
    /\ phase' = "down"
    /\ handler' = [r \in Requests |-> Ended(r, "shut")]
    /\ conn' = [r \in Requests |-> FALSE]
    /\ UNCHANGED <<kind, client, ledger, events, attempt, channel>>

\* Closing a channel the broker has closed throws; nobody catches what shutdown
\* throws, and the process ends at once.
CloseFails ==
    /\ phase = "draining"
    /\ \A r \in Requests : ~conn[r]
    /\ ~channel
    /\ phase' = "down"
    /\ handler' = [r \in Requests |-> Ended(r, "shut")]
    /\ UNCHANGED <<kind, client, conn, ledger, events, attempt, channel>>

\* The process ends without a word: connections, handlers and buffer are gone.
Crash ==
    /\ phase \in {"up", "draining", "closing"}
    /\ phase' = "down"
    /\ handler' = [r \in Requests |-> Ended(r, "killed")]
    /\ conn' = [r \in Requests |-> FALSE]
    /\ lost' = lost \cup buffer
    /\ buffer' = {}
    /\ channel' = FALSE
    /\ UNCHANGED <<kind, client, ledger, delivered, attempt>>

\* The container is started again.
StartAgain ==
    /\ phase = "down"
    /\ phase' = "starting"
    /\ attempt' = 1
    /\ UNCHANGED <<kind, client, conn, handler, ledger, events, channel>>

-----------------------------------------------------------------------------

Handle(r) ==
    \/ CreatePending(r) \/ Charge(r) \/ MarkSuccess(r)
    \/ PublishOrderPaid(r) \/ PublishSubscription(r) \/ SkipPublish(r)
    \/ Answer(r)

Gateway(r) ==
    \/ \E k \in Kinds \ {"none"} : Forward(r, k)
    \/ Abort(r) \/ FetchFails(r) \/ Headers(r) \/ Body(r)

Process == Connected \/ ConnectFails \/ MongoFails \/ Severed \/ Shutdown
           \/ Drained \/ Exit \/ CloseFails \/ Crash \/ StartAgain

Next ==
    \/ \E r \in Requests : Handle(r) \/ HandlerFails(r) \/ SocketTimeout(r)
    \/ \E r \in Requests : Gateway(r)
    \/ Flush
    \/ Process

Spec == Init /\ [][Next]_vars

\* What the event loops owe: a handler goes on, the gateway's timer fires, what
\* arrives is read, and an open channel is written out to a broker that reads.
\* Requests, errors, signals and restarts are owed by nobody, nor that the
\* broker keeps the connection.
FairSpec ==
    /\ Spec
    /\ \A r \in Requests :
         /\ WF_vars(Handle(r))
         /\ WF_vars(Abort(r))
         /\ WF_vars(Body(r))
    /\ WF_vars(Flush)

-----------------------------------------------------------------------------
(* Properties *)

TypeOK ==
    /\ kind \in [Requests -> Kinds]
    /\ client \in [Requests -> Clients]
    /\ conn \in [Requests -> BOOLEAN]
    /\ handler \in [Requests -> Handlers]
    /\ tx \in [Requests -> TxStatus]
    /\ charged \subseteq Requests
    /\ buffer \subseteq Requests
    /\ delivered \subseteq Requests
    /\ lost \subseteq Requests
    /\ phase \in Phases
    /\ attempt \in 1..MaxAttempts
    /\ channel \in BOOLEAN

Sent == buffer \cup delivered \cup lost

\* A client that is told of success has paid, the transaction says so, and the
\* event was handed over: only the end of the process, or of its connection to
\* the broker, can lose it then.
AnswerIsKept ==
    \A r \in Requests : client[r] = "ok" =>
        /\ r \in charged
        /\ tx[r] = "SUCCESS"
        /\ Announced(r) => r \in Sent

\* Charge, transaction and event differ only where a handler is at work or was
\* ended by an error (of the database, or of publish on a channel the broker
\* has closed), a shutdown or a crash: no event without a charge, no
\* transaction left PENDING and no charge left unannounced by a handler that
\* came to its end.
LedgerMatchesEvents ==
    \A r \in Requests :
        /\ r \in Sent => r \in charged /\ tx[r] = "SUCCESS"
        /\ tx[r] = "PENDING" => handler[r] \in {"charge", "update"}
                                               \cup Interrupted
        /\ r \in charged /\ Announced(r) =>
              r \in Sent \/ handler[r] \in {"update", "publish"}
                                           \cup Interrupted

\* A shutdown on a signal ends no handler somebody waits for: those it ends, or
\* whose event finds the channel closed, had lost their connection before, and
\* their client hears that the service is unavailable.
ShutdownSparesWaiting ==
    \A r \in Requests : handler[r] \in {"shut", "closed"} =>
        ~conn[r] /\ client[r] \in {"waiting", "unavailable"}

\* What the answer to a request says, if there is one.
Said(r) ==
    CASE client[r] = "ok"                      -> "success"
      [] client[r] \in {"fail", "unavailable"} -> "refused"
      [] OTHER                                 -> "none"

\* An event counts as announced from the moment it is given to the channel, one
\* that a crash or the broker's closing loses included.
Promise == INSTANCE Payment WITH
    taken     <- {r \in Requests : handler[r] # "none"},
    notable   <- {r \in Requests : handler[r] # "none" /\ Announced(r)},
    recorded  <- {r \in Requests : tx[r] = "SUCCESS"},
    announced <- Sent,
    reply     <- [r \in Requests |-> Said(r)]

\* Every step of the gateway, the handlers and the process is a step of what a
\* payment promises, or none: timers, shutdowns and crashes change neither what
\* was charged, recorded and announced, nor an answer that was given.
ImplementsPayment == Promise!Spec

\* Every request is answered by the gateway, whatever becomes of its handler.
EveryRequestIsAnswered ==
    \A r \in Requests : client[r] = "waiting" ~> client[r] \in Replies

\* Every charge is announced to the broker, unless something ended the handler
\* or the process before, publish found the channel closed, or the broker closed
\* the connection on the event: giving up on the answer does not stop it.
ChargeIsAnnounced ==
    \A r \in Requests :
        r \in charged /\ Announced(r) ~>
            r \in delivered \cup lost \/ handler[r] \in Interrupted
=============================================================================
