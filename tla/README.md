# A TLA+ model of the Tasty backend

The repository is a food-ordering backend: eight JavaScript services and
packages which talk over gRPC and RabbitMQ and keep their state in MongoDB and
Redis.  The specifications here are translated from the code under `src/`; the
`map` of `PROJECT.json` names the lines each definition stands for.

1. [The system](#1-the-system)
2. [What is modelled, and how it corresponds to the code](#2-modules)
3. [Runs](#3-runs)
4. [Fairness and deadlock](#4-fairness-and-deadlock)
5. [Proofs](#5-proofs)
6. [Where the code and its documents disagree](#6-findings)
7. [What is not modelled](#7-not-modelled)
8. [Plan](#8-plan)

## 1. The system

| part | state it keeps | operations that change it |
|---|---|---|
| `apiGateway` | one circuit breaker per downstream service, in memory | every gRPC call it forwards |
| `userService` | users, credentials, refresh sessions, codes, OAuth links (MongoDB); account status | register, verify, login, refresh, logout, reset, face activation; cleanup job |
| `restaurantService` | restaurants, staff, menus, public projections (MongoDB); menu cache (Redis) | create, publish, archive, review, suspend, staff changes, menu edits; payment consumer |
| `orderService` | orders, processed events, copies of memberships (MongoDB) | create, cancel, scan, debt query; payment and membership consumers; QR expiry job |
| `notificationService` | enforcement timers, order states (MongoDB); delayed jobs (Redis/BullMQ) | three order events; two timer jobs; socket and mail/SMS delivery |
| `paymentService` | payment transactions (MongoDB) | pay a subscription, pay an order |
| `faceRecognitionService` | face identities, the watchlist of debtors (MongoDB, vectors) | register, verify, search, add debtor |
| `common` | none | gRPC interceptors, request context, tracing |

**How they interact.**  The gateway translates HTTP to gRPC and calls one
service per request, through that service's breaker and with a deadline.
Payments, and whatever else it does not translate, it forwards over HTTP.
`orderService` calls `userService` (who is this, may he order), the face service
(`addDebtor`) and, by event, everybody else.  All events go through one RabbitMQ
topic exchange with the same consumer code in each service: a handler that
returns is acked, a handler that throws is nacked *without* requeue, a process
that dies has its unacked messages delivered again.  A consumer handles up to
its prefetch count of messages at the same time and nothing orders them.

**What makes it hard.**  Every handler is a chain of awaits.  MongoDB makes a
single `findByIdAndUpdate` atomic and nothing more: there is no transaction, no
version check and seldom a condition on the write, so every handler writes from a
read that may be stale, against other handlers, a cron job whose runs may
overlap, consumers that are run again after a restart, and a job queue that
runs a stalled job twice.  Events are published after the write they report, so
a crash in between loses them.

**What makes each part correct.**

- *Orders*: money is never taken back or claimed twice; a customer who has paid
  is never treated as a debtor; a debt, its flags and the order's status agree;
  an event only says what is true; a payment event is not lost by a crash.
- *Enforcement timer*: a scan silences the timer; a timer nobody answers
  expires; a customer is warned once.
- *Circuit breaker*: open exactly after enough failures in a row; never closed
  forever or half-open forever, whatever the order of late answers.
- *Refresh sessions*: one live token per family; a token used twice revokes the
  whole family.
- *Accounts*: active only after every verification; a locked account is not
  entered; the cleanup job does not delete an account that only waits for a code.
- *Sign-in*: tokens for an account go to whom it belongs; no account is left
  without its identity; a lock is earned and lasts.
- *Restaurants and menus*: publicly visible only when active, subscribed and
  verified; the projection and the cache follow the document.
- *Payments*: what a client is told has happened; no event without a charge, no
  charge without an event; every request is answered.
- *Memberships*: the copies in `orderService` follow the assignments of
  `restaurantService`, and nobody touches a restaurant he is not assigned to;
  every restaurant has its owner.
- *Watchlist*: a debtor can be listed, is found until cleared, and who
  resembles one does not enrol, under whatever account.

`PROJECT.json` lists all parts under `components`, and under `hazards` the
places in the code where one of these properties could fail in a way a unit
test would hardly reach, each with the property that watches it or the reason
there is none yet.

## 2. Modules

| module | what it is |
|---|---|
| `OrderLifecycle` | the order documents and all their writers |
| `Settlement` | what orderService promises about money; `OrderLifecycle` implements it |
| `Payment` | what paymentService promises whoever pays and whoever hears of it; `PaymentTransactions` implements it |
| `EnforcementTimer` | the driver-arrival timer of notificationService |
| `CircuitBreaker` | one breaker of apiGateway |
| `RefreshSession` | one refresh session of userService and the tokens it rotates through |
| `AccountActivation` | one account of userService, from registration to activation or deletion |
| `RestaurantLifecycle` | one restaurant of restaurantService, its status, its menu, and what the public is shown |
| `PaymentTransactions` | payments, from the gateway's request to the published event, and the process of paymentService |
| `StaffAccess` | assignments of accounts to restaurants, their events, the copy in orderService, and who may do what with them |
| `SignIn` | login with a password and its lock; OAuth sign-in and linking |
| `FaceWatchlist` | face identities, their vectors, and the two services which ask for them |
| `MC...` | the same modules with their symmetry sets, for TLC |
| `..._proofs` | theorems and proofs |

Definitions named `X_variant` next to a definition `X` are faulty variants of
it: plausible bugs.  Each property of a run is refuted by TLC when the variant
`PROJECT.json` pairs it with takes the place of `X`.

### OrderLifecycle

`orderService/src/services/order.service.js`, its repository, `qr-expiry-scammer-trap.job.js`
and the payment consumer.

| in the model | in the code |
|---|---|
| `order[o]` | the Mongo document, with the fields some handler branches on; `flagged` stands for both `riskFlags` (always written together), `lapsed` for `qr.expiresAt < now`, `scannedBy` for `qr.scannedAt` and who set it, `qr` for the placeholder and final token |
| `req[h]` | a request between two awaits: where it is, and the one field it read that its write depends on |
| `job[j]` | a run of the cron job: its batch and the order in hand; two runs overlap because the cron callback is not guarded |
| `evt[e]`, `processed` | a payment event between the broker and its ack; the `processed_events` collection |
| `published[o]` | the routing keys ever published, of which only `order.paid` and `order.qr.expired` are kept: the others make no claim the order could contradict |
| `blacklist` | what the face service was told by `addDebtor` (external, one step that may fail after having been done) |

One action per segment of code between awaits that read or write shared state:
`CreateInsert`, `CreateQr`, `CreatePublish`; `CancelRead`, `CancelWrite`;
`ScanRead`, `ScanWrite`, `ScanPublish`; `DebtStatus`; `EventRead`,
`EventApply`, `EventMark`, `EventAnnounce`; `JobSelect`, `JobMark`,
`JobBlacklist`, `JobPublish`.  `RequestFails`, `EventFails`, `JobFails`,
`JobBlacklistFails` and `Crash` cut them short.  Amounts are positive and
otherwise absent; `markDriverArrived` is left out because nothing reads the
field it sets; user, restaurant and membership lookups appear only as a refusal
or failure of the request.

`DebtStatus` is one action: it is a read that returns what was found and an
`updateMany` whose filter MongoDB evaluates document by document.

### EnforcementTimer

`notificationService/src/services/enforcement-notification.service.js`, the
BullMQ timer queue and the consumer.  One order is modelled: every key, job id
and document is per order, and only the worker (concurrency 1) is shared; the
worker being busy with another order is the worker not taking a step.

| in the model | in the code |
|---|---|
| `timer`, `ostate` | the `EnforcementTimer` and `OrderState` documents |
| `queue[j]` | the BullMQ job `warning` or `expire` of this order, by its fixed job id |
| `worker` | where `processTimerJob` is |
| `msgs[m]` | a message waiting or in its handler, and how far; at `"ack"` the handler has returned and the broker has not heard of it, so a restart delivers again what was handled |
| `sent`, `sms`, `notices` | history: events published, warnings sent, expiries told to the customer |
| `stalled` | jobs a restart has found running once; BullMQ counts this for each job |
| `cut` | history: an error or a second restart has ended a handler or the expiry job, or an arrival was delivered again after it had been handled |

BullMQ is external, with five documented behaviours the code depends on: adding
a job id that exists adds nothing, removing a job the worker has locked throws,
a job has one attempt unless told otherwise, a job whose worker died is run
again, and one whose worker died twice is not: the worker of the code keeps the
default `maxStalledCount` of 1 (`Recovered`). (Releases that refuse a ":" in a
custom job id make every add throw; that is the error case `HandlerFails`.) The
two delays are independent settings, so either may elapse first. No publisher of
`order.qr.expired` puts a phone number in it, so the fraud SMS of
`handleQrExpired` is never sent and is not in the model; what the customer is
told is the socket message of the worker. The gRPC entry `EnqueueDriverArrival`
runs the same handler and has no caller.

### CircuitBreaker

`apiGateway`'s breaker: `state`, `consecutiveFailures` and `nextAttemptAt` are
its three fields; `now` is `Date.now()` in ticks; `inFlight` and `startedAt` are
the calls admitted and not yet answered, each within its gRPC deadline.  A call
refused by an open breaker changes nothing and is not a step.  *Any* gRPC error
counts as a failure, a business refusal (`NOT_FOUND`, `PERMISSION_DENIED`)
included: `Fail` does not tell them apart because the code does not.

### RefreshSession

`userService/src/services/token.service.js`, `session.service.js` and their
repositories.  One session is modelled: every `familyId` is created together
with its one `sessionId`, so the family is the session, and two sessions share
nothing but the code.

| in the model | in the code |
|---|---|
| `session`, `current`, `previous`, `revoked`, `compromised` | the session document; a token stands for its hash |
| `used` | the marks `rt:used:` in Redis; `Fade` is their expiry |
| `req[r]` | a refresh request between two awaits: its token and the two hashes it read |
| `held` | the tokens a client has received: only those can be presented |
| `spent`, `presented`, `replayed`, `faded` | history: tokens that were current and no longer are, that were presented, whether one was presented twice, whose mark has expired |

`rotateRefreshToken` reads the session (`Present`), asks Redis and judges
(`Judge`), and either revokes (`RevokeFamily`) or goes on to
`issueTokensForUser`, which reads the session *again* (`Reload`), saves the two
hashes (`Save`), after which the old token is marked (`Mark`) and the answer
sent (`Reply`).  An error or a lost answer ends the request anywhere.  Logout,
a session past its `expiresAt` and the TTL index are actions too.  A token with
a wrong secret, or of a user who is refused, changes nothing and is not a step.

### AccountActivation

`userService`'s `auth.service.js`, `email-verification.service.js`,
`phone-verification.service.js`, `user.service.js`, `oauth.service.js` and the
cleanup job.  One account is modelled: no step reads or writes two, and a batch
of the job is a sequence of independent visits.

| in the model | in the code |
|---|---|
| `life`, `user` | the user document; its deadline is null, ahead or past |
| `oauth` | an OAuth sign-in that gives tokens before the address is verified |
| `codes` | channels (the address, a phone) with an unconsumed verification code |
| `enrolled` | the face service knows this account's face (external) |
| `req[r]` | a request between two awaits: the document it read and what it is about |
| `job[j]` | a run of the cleanup job inside its loop, on this account |
| `confirmed`, `announced` | history: channels whose code somebody gave; `user.deleted` was published |

All requests write with Mongoose's `save()`, which sends the fields that differ
from what *this request* read, whatever the document has become since.  The
operator `Save` is that merge, field by field, and it is where the interleavings
meet.  `JobDelete` deletes by id, without repeating the condition of its query.
Wrong, expired or locked codes are the request that ends (`RequestFails`);
the counters behind them only refuse, which any request here may be.

### RestaurantLifecycle

`restaurantService`'s `restaurant.service.js`, `activation-gate.service.js`,
`menu.service.js`, `projection.service.js`, `public.service.js`, the payment
consumer and their repositories.  One restaurant is modelled: only the refusal
to create a second one while the first is unpaid looks at two.

| in the model | in the code |
|---|---|
| `created`, `doc` | the document, with the fields a decision or a claim is about; of dates only whether they are null; `PAST_DUE` and `CANCELED` are `PENDING`, because the code compares only with `ACTIVE`; `CLOSED` is assigned nowhere |
| `menu` | categories, items and options, as one value of which only "the same or another" matters |
| `proj`, `shown` | the projection (never written, live, soft-deleted) and its content |
| `cache` | the entry in Redis; slug and city are constant, so there is one key |
| `req[r]` | a request between two awaits: the update it is about to send, or the menu it has read |
| `vetted`, `disturbed` | history: the document has met the activation gate; two operations on the menu overlapped, or one was cut short |

A handler reads the document, decides, and sends an update with the fields it
decided on.  `Update` is such an update, with `Keep` for a field that is not in
it, and `Apply` is `findOneAndUpdate`.  A handler whose update uses nothing of
what it read (`UnverifyRestaurant`, `RejectVerification`, `SuspendRestaurant`) is
one step; the others are the decision and then `Stores` or
`StoresThenRebuilds`.  `PaymentSucceeds` is the one conditional update of the
consumer, at any time and any number of times, which covers redelivery and
disorder.  `rebuildForRestaurant` is `Rebuild`, then `RemoveProjection` and
`InvalidateCache`, or `LoadMenu`, `UpsertProjection` and `SetCache`.  Its four
queries are one step: if the menu is edited between them, the rebuild at the end
of that edit overlaps this one.  Owners and staff are in `StaffAccess`; the
events that carry no state and the low-stock alert are left out.

### PaymentTransactions

`paymentService`'s `payment.service.js`, its repository, publisher, timeout
middleware and `server.js`, and `forwardToPaymentService` of the gateway.

| in the model | in the code |
|---|---|
| `kind[r]` | which route and whether a subscription names its restaurant; without one nothing is published |
| `client[r]` | `forwardToPaymentService`: waiting for the headers under its `AbortController`, reading the body without it, or the answer given |
| `conn[r]` | the connection between the two processes: `server.close` waits for it, and either side may end it |
| `handler[r]` | the next await of the handler, or what ended it: an error, a closed channel, `process.exit`, a crash |
| `tx[r]`, `charged` | the status of the transaction document; what the provider did |
| `buffer`, `delivered`, `lost` | `channel.publish` fills a buffer and waits for nobody: the broker gets it later, on closing, or never |
| `channel` | the publisher's one channel, opened at the start and never again: the broker may close it (`Severed`), and the process goes on |
| `phase`, `attempt` | the start with its retries, SIGTERM, the drain, the closing of the publisher, the exit; Docker starts a stopped container again |

`Payment` is the same seen from outside: a request is taken, charged, recorded,
announced and answered, and there is no connection, process or channel.
`Promise` in `PaymentTransactions` is the mapping: what has a handler is taken,
what is `SUCCESS` is recorded, what was given to the channel is announced (what
a crash or the broker's closing loses included), and `Said` is the answer the client was given.

A handler is not told that nobody waits for it: `Abort` and `SocketTimeout` end
the connection and leave `handler` alone.  `HandlerFails` is an error where the
handler awaits the database; `Publish` throws after `Drained` has closed the
channel, and after the broker has: amqplib reports a connection closed by force
as `close`, not as `error`, the publisher listens to neither, and what was in the
buffer is gone (`Severed`).  A shutdown after that throws when it closes the
channel, and the process ends there (`CloseFails`).  A connection that breaks, or
a channel error, is an `error` event without a listener, which ends the process:
`Crash`.  There is no idempotency key in the code, so a client that repeats a
payment sends another request.

### StaffAccess

`restaurantService`'s creation and staff assignment, its publisher, the broker,
`orderService`'s membership consumer and repository, and the routes, gRPC
handlers and services of the three processes that ask who somebody is.

| in the model | in the code |
|---|---|
| `call[c]` | `createRestaurant` or `addStaffMember` between two awaits, with the restaurants it found for its user |
| `standing[r]` | whether `existsUnresolvedUnpaidByIds` would count the restaurant; `RestaurantLifecycle` says how it changes, here `ChangeStanding` does at any time |
| `mapping` | the `restaurant-users` collection, unique by account and restaurant |
| `events` | every `RESTAURANT_STAFF_ASSIGNED`: in the publisher's buffer, the queue, the handler, or lost; `marked` is its entry in `processed_events` |
| `bound`, `consuming` | the queue exists from the first start of the consumer, and is durable |
| `copy` | the memberships of `orderService` |
| `service[s]` | a request that has passed its checks and is about to act |

`Claims` are what a token says: any set of roles of `RoleClaims`, and an account
that is pending, active, or active with all three verifications.  A token
outlives what it says, so each request brings claims of its own and no variable
remembers an account.  `RestaurantRoute`, `OrderRoute`, `ForwardToRestaurants`,
`ForwardToOrders` and `GrpcRoute` are the five ways in, `Allowed` what the
services check behind them: `orderService` its copy, `restaurantService` the
mapping.  The routes of a customer's own orders are one operation, `order`.
`CheckAccess` is one step because the only thing it reads that another process
can change is the membership it reads last; `Act` comes after it, with anything
in between.

### SignIn

`userService`'s `auth.service.js` (register, login), `oauth.service.js`, the two
providers and the repositories with their unique indexes.

| in the model | in the code |
|---|---|
| `profile[i]` | what `exchangeCodeForProfile` returns for an identity at a provider, in every combination the two providers' code allows (external) |
| `account[a]` | the user document: address, failure count, `lockUntil`; `origin` is history |
| `link[i]` | the OAuth account document of an identity |
| `attempt[q]` | a login between reading the document and judging the password, or an OAuth sign-in or linking, with the state it was started from |
| `issued`, `asked`, `unlinked`, `failures` | history the properties compare with |

`RightPassword` and `WrongPassword` save what *the document that was read* makes
them save.  `Insert` and `Link` are where the indexes on the email, the identity
and the account refuse.  `Delete` is the cleanup job, which leaves links behind:
`FindUser` is what a sign-in makes of such a link.

### FaceWatchlist

`faceRecognitionService`'s `face.service.js`, `vector.repository.js`, routes and
gRPC server, `activateAccount` of `userService`, `addDebtor` as the expiry job of
`orderService` calls it, and the operator who holds the service key.

| in the model | in the code |
|---|---|
| `identity[p]` | the list of the identity document of a person, which is unique |
| `vector` | the vector documents, by id: person, face, list.  Nothing of them is unique, so a person may have several; only they are searched |
| `Faces`, `Alike` | what an activation or an operator presents, and which faces score above the threshold: the embedder's numbers, as any relation |
| `account[p]`, `customers` | the caller's side: never active, active, or waiting for its activation again; who can have orders |
| `call[c]` | a caller and the handler it called, as one chain of awaits, with the face it brought |
| `debtors`, `strays`, `torn` | history: who was listed, and neither met an enrolment past its search nor passed a search with a face unlike those enrolled; whose documents were cut short between, overlapped, or were more than one |

A person is an id, not a face.  Nothing compares the face of an activation with
one enrolled before, so `StartActivation` takes any face for any account that is
not active; and `StartBlacklist` takes any person, because
`POST /v1/faces/blacklist/debtor` does.  `UpsertVector` changes one vector of the
person, whichever; when it finds none the insertion is a step of its own
(`InsertVector`), and two upserts that both found none insert two.  The event log
of the service is written and never read: it is one more await that can fail.

## 3. Runs

A state count is TLC's number of distinct states, after symmetry where the cfg
has it.

| run | instance | shows |
|---|---|---|
| `order_race` | 1 order, 2 requests, 2 job runs, 2 payment events, 1 fault (1.0 M states) | `DebtIsSound`, `ScannedIsPaid`, `AnnouncementsHold`, the refinement `ImplementsSettlement` |
| `order_expiry` | 2 orders of a user, 2 job runs with batches of 1, 1 fault (0.4 M) | `BlacklistSound`, and `ExpiryProgress`: the batch limit starves nobody, because an order that was marked leaves the query even if the run is cut short |
| `timer_races` | 1 arrival, 1 scan, 1 expiry, 1 restart, 1 error, 2 messages at a time (1.6 M) | `ScannedStaysQuiet`, `ActiveHasDeadline`, `TimerDecides` |
| `breaker_calls` | 3 calls, threshold 2, window 2, deadline 2, 7 ticks (0.1 M) | `StateIsEarned`, `OpenIsBounded`, `HalfOpenResolves` |
| `refresh_rotation` | 4 tokens, 2 requests (0.2 M) | `HolderIsSafe`, `FirstReplayIsSeen`, `RevokedIsFinal` |
| `account_races` | 2 phones, 2 requests, 1 run of the job (6.9 M) | `StatusIsSound`, `DeletionIsDue`, `VerifiedIsFinal` |
| `restaurant_races` | 2 menus, 2 requests, verification required (1.4 M) | `PublicIsVetted`, `StatusIsCoherent`, `FreshUnlessOverlap` |
| `watchlist_races` | 2 accounts, 2 faces, 2 vector documents, 2 calls, the operator registers faces as `NORMAL` (2.1 M) | `DebtorIsEnrolled`, `DebtorStaysListed`, `BlockedUnlessRaced`, `ListsAgree` |
| `payment_faults` | 2 payments, 2 attempts to start (0.5 M) | `AnswerIsKept`, `LedgerMatchesEvents`, `ShutdownSparesWaiting`, the refinement `ImplementsPayment`, `EveryRequestIsAnswered`, `ChargeIsAnnounced` |
| `staff_access` | 2 accounts, 2 restaurants, 2 creations or assignments, 1 request that asks for one, 3 sets of roles, 1 role to assign (1.2 M) | `CopyIsAssigned`, `ServedByStaff`, `OwnerUnlessCutShort`, `UnpaidBlocksTheNext`, `AssignmentIsKnownOrUnderway` |
| `sign_in_races` | 2 accounts, 2 identities, 1 address, 2 requests, a lock after 2 failures, linking by address allowed (1.1 M) | `TokensGoToTheOwner`, `StrandedOnlyByCut`, `LockIsEarned`, `LockLasts` |

`order_scan_expiry` is a counterexample: section 6.  Some of the properties are
conjunctions of named parts, each of which relates two pieces of state on its
own: `DebtIsSound` is `PrepaidNeverDebtor` and `DebtCoherent`;
`AnnouncementsHold` is `ProcessedIsPaid`, `AnnouncedIsPaid` and
`ExpiredOnlyAfterBlacklist`; `StateIsEarned` is `ClosedBelowThreshold` and
`HalfOpenHasProbe`; `HolderIsSafe` is `CurrentIsUnused` and
`AlarmMeansReplay`; `StatusIsSound` is `StatusIsEarned` and
`DeadlineMatchesStatus`; `PublicIsVetted` is `OpenIsVetted` and
`ShownIsVetted`.  That a payment is never taken back (`PaidIsStable` of
`OrderLifecycle`) is a part of `ImplementsSettlement`.

**Why these bounds.**

- *Orders*: a document is written by one process at a time and each write
  depends on at most one earlier read, so two processes of each kind around one
  document give every stale-write pattern.  Nothing compares two documents
  except a batch of the job; `order_expiry` has two orders competing for a batch,
  and the proofs cover larger batches and any number of users.  One fault is
  enough for the interesting cases (a crash between two steps and its
  redelivery).
- *Timer*: two slots hold any two of an arrival, a scan and an expiry in their
  handlers at once; a redelivered message and what the worker publishes take a
  slot too.  The restart gives a second handling of the arrival when it comes
  before the ack, so one published arrival is enough.  `ActiveHasDeadline` and
  `TimerDecides` excuse what `Unattended` names, and nothing else, because with
  each of these they are false (section 6): an arrival handled twice finds the
  id of the running expiry job taken, an expiry of orderService removes the jobs
  of an arrival that comes with it, and a handler or an expiry job that ends in
  an error is not run again.  Scans, restarts and errors of the warning job are
  not excused, and the theorems are about any number of each; the second restart
  under one job, with which BullMQ gives it up, is in the theorems and not in the
  run.
- *Breaker*: seven ticks are enough to open, wait, half-open, fail the probe and
  wait again; three calls give an answer of each generation.
- *Refresh*: four tokens give three rotations, so a token can be current,
  previous, spent with a mark and spent without one.  Two requests overlap in
  every way; three of them (4.6 M states) show nothing more.
- *Account*: two requests of any kind give every pair of a stale save and the
  save it meets; two phones give a change of the phone.  The conditions of the
  job are read once and its deletion has none, so a second overlapping run only
  finds the account gone.  The proofs cover any number of all three.
- *Restaurant*: every update depends on one read, so two requests give every pair
  of a stale update and the writes it meets; payment events, refusals and
  expiries of the cache are single steps that need no request of their own.  Two
  menus tell a stale one from the present one.  Without the requirement of
  verification the reachable states are fewer (0.4 M) and nothing else happens;
  the proofs cover both.
- *Watchlist*: no step reads more than its own person and, in the search, the
  vectors of one other; so two accounts and two calls of any kind on one or both
  give every pair of a search and the write it misses.  Two faces, each like
  itself only, tell a debtor who presents the same face from one who presents
  another, and let two accounts have the same one or different ones.  Two vectors
  are what overlapping upserts of one person insert.  With three vectors (6.5 M
  states), or an operator who registers faces as `BANNED` too (11.3 M), nothing
  new happens, and the proofs cover any number, any `Alike` and any lists.  Calls
  end and begin again without bound.
- *Payments*: requests share nothing but the process, so two are one and another
  that the drain waits for; the second may be the first sent again.  Starts,
  shutdowns, crashes and lost channels are not bounded.
- *Staff*: two calls give two creations, two assignments or one of each that
  overlap, of one account or two, at one restaurant or two.  A request asks for
  one assignment, so one is enough.  The sets of roles are those of somebody who
  delivers, of a chef who also serves, and of the superadmin: every route that
  does not admit everybody, and every check of `Allowed`, lets one of them pass
  and stops another.  The proof covers any sets.
- *Sign-in*: an insertion or a link is decided by at most one lookup before it,
  so two requests of any kind give every pair of a lookup and the write it
  misses, with registration, unlinking and deletion as single steps at any time.
  With two failures a count that is stale by one already makes the difference; a
  password is asked for any number of times, OAuth once per request, an id is not
  used again.  One address tells equal from different, because an identity may
  have none.  Where `AutoLink` is off one branch is absent.

## 4. Fairness and deadlock

The order, timer and breaker modules have `Safe` (no fairness) and `Spec` (with
it), `PaymentTransactions` has `Spec` and `FairSpec`; safety is checked under
either and proved without fairness.  The other modules have none: a client may
always give up, and nothing there must happen.  Weak fairness is assumed of

- a request handler, a message handler or a job run that has begun: its await
  settles, because the drivers time out, and the event loop runs its
  continuation;
- a consumer with a message in its queue (the broker delivers);
- the cron job, which is scheduled for ever, and the BullMQ worker with a
  delayed job (the delay elapses);
- a gateway call: gRPC ends it at its deadline, and `AbortController` a
  forwarded payment; what has arrived is read;
- the buffer of paymentService's channel, which the event loop writes out while
  the channel is open, to a broker that reads.

Never of a client, another service, the clock reaching a QR's expiry, an error,
a signal, a restart, a crash or a broker that keeps its connections. There is no
strong fairness anywhere.

Deadlock is checked in the order runs, `restaurant_races`, `payment_faults` and
`watchlist_races`.  The other cfgs say `CHECK_DEADLOCK FALSE`, because what they
model really stops: the timer when all events have been published and handled,
the breaker when the clock has reached `MaxTime` and all calls are answered, a
session when it is revoked or gone and no request is left, an account when it is
deleted, and assignments and sign-ins when the requests of the instance are used
up.

## 5. Proofs

All theorems are proved by TLAPS for every value of the constants, under the
named assumptions in the modules (ids differ from the null ids, settings are
natural numbers and positive where the code needs it).  The inductive invariants
and the type invariants that are proved are not checked by TLC again.

**`OrderLifecycle_proofs`.**  `Invariance` is `Safe => []IInv`.  None of the
safety properties is inductive alone: that a prepaid customer is no debtor, for
instance, needs that a scan of a prepaid order read `PAID` (`HandlersInFlight`)
and that a batch holds only orders to be paid later (`JobsInFlight`), although
the batch was selected arbitrarily long ago.  The argument is that what matters
about a document only grows: every write is shown to `Keep` the owner, the type,
the method and a payment, and to produce a `GoodDoc` from one; then what a
process carries from its read stays true while others write.  `DebtTheorem`,
`ScannedTheorem`, `BlacklistTheorem`, `AnnouncementsTheorem` and `TypeCorrect`
follow, `PaidTheorem` (a payment is never taken back) is an action property from
the same invariant, and `Refinement` shows that each step of the handlers, the consumer and the job is a
step of `Settlement` or stutters.

**`EnforcementTimer_proofs`.**  `TypeCorrect` contains the lock correspondence (a
job is locked exactly while the worker is inside it).  `QuietTheorem` proves
`ScannedStaysQuiet` from it: once a scan is recorded, no arrival is in flight and
the worker is not past its last check, no step but a new arrival can lead to a
message.  `DeadlineTheorem` proves `ActiveHasDeadline` for any bounds on
arrivals, scans, restarts, errors and slots; a second restart under the expiry
job, which BullMQ then gives up, is one more way to be `Unattended`.
`HandledOnce` is what it needs: as
long as nothing on the list of `Unattended` has happened, there is at most one
arrival, its handler is done when there is an expiry job or an expiry, an expiry
that has passed its decision has closed the timer, and an expiry job that is
done leaves a closed timer or an expiry behind.  A scan may remove the job at
any moment, and between that and `ScanCancelsTimer` the scan itself is what will
decide the timer (`Decides`), again after a restart.  `Harmless` says what one
step of a handler may not do to all this; it is shown of each kind of message,
and `DeadlineMessage` concludes from it alone.

**`CircuitBreaker_proofs`.**  `StateTheorem` and `BoundTheorem`: for any number
of concurrent calls and any setting.  The strengthening is `OldCallsOnly`: while
the breaker is open it admits nobody, so every call in flight is older than the
opening and its deadline bounds how far it can push the window.

**`RefreshSession_proofs`.**  For any number of tokens and requests.
`TokensAccounted` says that a replaced token is never current again and that only
such tokens are marked, however the rotations overlap; with the types it also
gives `RevokedTheorem`.  `OneAtATime` says that as long as no token was presented
twice there is at most one rotation in flight and the chain of marks has no gap
but the expired ones.  `HolderTheorem` and `ReplayTheorem` follow: an honest
client that never repeats a token is never accused, and the first token presented
twice after its rotation is noticed.

The same module proves `SignIn`, which begins such sessions, for any number of
accounts, identities, attempts and addresses, with or without linking by address
(`IdsAssumption`: the null id is no id).  Each step decides by one document, read
an await before.  `Ages` says what no step takes back: an id is not used again,
an account keeps its address and origin, and requests to link and failures are
remembered.  So what entitles an identity to an account when a sign-in finds it
(`Entitled`) entitles it still when the tokens are given, through links removed
and accounts deleted meanwhile, and `AttemptFits` says this of every attempt in
flight; of a login it says that the count it read is not above the failures
there were, from which a lock is earned although two logins may judge by the same
count.  `TokensTheorem`, `StrandedTheorem`, `LockTheorem` and `LastsTheorem`
follow.

**`AccountActivation_proofs`.**  For any number of phones, requests and runs of
the job.  A save merges the conclusions of a request into a document others have
changed, and the properties are about the result.  The proof says what a request
may conclude from a document it read (`Fit`: it takes back neither address nor
face, enters only statuses that were earned, and changes the deadline only
together with the status), and that what a request has read is still true of the
stored document in the direction that matters (`SeenIsSound`).  `SaveSound` then
shows once that saving something `Fit` keeps the document sound; `EmailFit`,
`PhoneFit`, `PhoneChangeFit` and `ActivationFit` show it of the four kinds of
save, and `StatusTheorem`, `DeletionTheorem` and `FinalTheorem` follow.

The same module proves `FaceWatchlist`, whose activation enrols the face of an
account, for any number of persons, faces, vectors and calls and any `Alike`,
reflexive or not. No step of it reads and writes at once, and a search may be
outdated when the enrolment it admitted writes. `FaceInv` says of each call what
it has established by what it is about to do (`CallFits`), and then what
concerns a *settled* debtor, one who is no stray (`Settled`): no enrolment of
his own is past its search (`Passed`), because one that passes it for a debtor
has presented a face unlike his and makes him a stray; so nothing takes his
vectors off the list. And whoever is past a search with a face like a settled
debtor's had it before that debtor was listed (`Excused`): the search missed
nobody it could have found. `Whole` is about the pairs of documents: as long as
`torn` does not name a person, at most one handler is between his documents
(`Inside`), it brings all his vectors to the list of the identity it wrote, and
when there is none they are on it. `EnrolledTheorem`, `ListedTheorem`,
`BlockedTheorem` and `ListsTheorem` follow.

**`RestaurantLifecycle_proofs`.**  For any number of menus and requests and
either setting of the gate.  `StatusIsCoherent` relates fields that seven
handlers write in different combinations, from documents read at different
times.  `UpdateIsSound` says what an update may ask for so that *any* coherent
document takes it: a status it sets comes with what explains it, and an update
that sets none leaves the explanation alone.  `UpdateIsEarned` says that an
update that opens the restaurant was concluded from a document that met the gate,
which `vetted` remembers.  `ApplySound` merges the two into the document,
`GateSound` and `DecisionStep` show that every handler sends such updates, and
`PublicTheorem`, `StatusTheorem` and `TypeCorrect` follow from `Invariance`.
`FreshTheorem` uses a second invariant, `OneAtATime`: as long as operations do
not overlap, at most one is in progress and each of its steps leaves behind what
the next one relies on.

**`PaymentTransactions_proofs`.**  For any number of requests.  `Stage` says what
a handler has done by each of its steps, `Waits` how far the gateway can be while
the handler is there, and `NobodyConnected` that a closing process has no
connection left; together with the types they are inductive, and `AnswerTheorem`,
`LedgerTheorem` and `ShutdownTheorem` follow at once.  The point of the middle
one is that a handler whose client has gone is not different from one whose
client waits: nothing in `Stage` mentions the client.  `FairTheorem` carries them
to the specification the run checks.

`PaymentRefinement` is `Spec => ImplementsPayment`: every step of a handler, of
the gateway or of the process is one step of `Payment` for its request, or
changes nothing that is promised (`HandlerRefines`, `GatewayRefines`,
`ProcessRefines`).  What has to be shown is mostly the order: that what is
announced was recorded and what was recorded was charged is `Stage`, and that an
answer of success comes after both is `Waits`; a shutdown, a timeout, a crash
and a channel closed by the broker are stutters because none of them takes back
what a handler has done.

**`StaffAccess_proofs`.**  For any accounts, restaurants, requests, sets of roles
in tokens and roles of staff; three invariants, one on top of the types each.
`AccessInv` says that what is about to be announced has been assigned, that an
event tells of an assignment and is marked only when it has been applied, and
with these that the copy, the requests about to act and the assignments on their
way are as the properties say (`CopyTheorem`, `ServedTheorem`, `KnownTheorem`);
each part rests on the fact that assignments and known memberships stay as they
are, whatever is delivered twice.  `OwnerInv` says that there is exactly one
creation behind every restaurant, that it owns it from its assignment on, and
that nobody else ever gets the role of owner (`OwnerTheorem`).  `UnpaidInv` adds
`Sees`: a creation sees the ones that were done when it began, so it ends if one
of them is still unpaid (`UnpaidTheorem`).

**Only model-checked**: liveness (`ExpiryProgress`, `TimerDecides`,
`HalfOpenResolves`, `EveryRequestIsAnswered`, `ChargeIsAnnounced`), which is
beyond this prover.  Every invariant and every other action property of a
passing run is a theorem.  No module uses a recursive operator, and no theorem
needs induction over data.

## 6. Findings

`order_scan_expiry` is a run whose only property is what a document says, with a
TLC trace that refutes it: an order scanned between the job's query and its
update becomes a debt, and its customer is blacklisted
(`order.service.js:458`; `AnalysisReadme.md:267`).

Other divergences and surprises can be read off the models, and have no run of
their own.  The properties above say exactly how far each of them reaches.

*Orders and their timer*

- two scans that both read an unscanned order both consume its "one-time" QR
  (`orderService/README.md:17`, `order.service.js:314`), and a scanned order is
  cancelled by a cancellation that read it before (`order.service.js:209`, `221`);
- a cancelled or expired order can still be scanned while its QR has not lapsed:
  the scan checks neither;
- if `addDebtor` fails once, the debtor is never blacklisted: the order is
  already `EXPIRED`, which the query of the job excludes (`order.service.js:473`;
  `AnalysisReadme.md:271` says "user blacklisted as debtor in face service");
- a cancellation concluded from an older document forgives a debt recorded
  meanwhile;
- `orderService` does not consume `order.qr.expired`, so an expiry decided by the
  timer records no debt;
- a scan event handled while a timer job runs throws on the locked job and is
  dropped; the customer is then told the order expired;
- a scan that has removed the expiry job and is delivered again after a restart
  throws if the warning job is running by then: the timer stays open with no
  expiry job, and no scan is recorded
  (`enforcement-notification.service.js:141`);
- a restart between the SMS and `markWarningSent` sends a second warning
  (`enforcement-notification.service.js:190`); an expiry handled between the
  expiry job's check and its publication is announced again (line 225); a second
  arrival, or one that was handled and is delivered again after a restart, whose
  `queue.add` meets the id of the running expiry job leaves the timer ACTIVE with
  no job (line 172);
- an expiry job that two restarts interrupt is failed by BullMQ and not run again:
  the timer stays ACTIVE (the worker of line 35 sets no `maxStalledCount`).

*Accounts and sign-in*

- two refresh requests that both read the session before either saves rotate the
  same token twice, and no reuse is reported (`FirstReplayIsSeen` is about a
  token that is presented after its rotation);
- when the phone is changed while `activateAccount` waits for the face service,
  the account becomes active with a phone nobody verified; `restaurantService`,
  which looks at the status only, then admits it, the gateway and `orderService`
  do not;
- because a save sends only what it changed, giving the code of one phone while
  another request stores a second one marks the second as verified
  (`phone-verification.service.js:154`);
- the cleanup job deletes by id whatever its query found, also an account that
  was activated in between; and an active account that changes its phone goes
  back to `PENDING_PHONE_VERIFICATION`, and after giving the code has a new
  deadline to present a face it has presented already, or be deleted;
- the cleanup leaves the OAuth link of the account it deletes: the next sign-in
  makes a new account without a link, and the one after that tries to make it
  again and fails on the index of the address;
- linking a second identity to an account that has one answers `linked: true` and
  links nothing (`oauth.service.js:144`); and `/start?mode=link` has no
  authentication in front of it, so its callback is refused.

*Restaurants and staff*

- the list of restaurants asks for the status `ACTIVE` only, where
  `AnalysisReadme.md:199` says "Public visibility requires active status + active
  subscription + verified profile"; and `visibility` alone may be `PUBLIC` while
  the restaurant is suspended or unsubscribed, through an update concluded from an
  older document or a subscription in the payload of `updateRestaurant`.  The
  readers of a single restaurant and of its menu look at all four fields;
- `requestPublish` opens an archived restaurant past the restore fee, and a
  suspended restaurant can be archived and then published or paid for;
- a subscription update that read the document before a payment takes the
  payment's activation of the subscription back;
- a soft-deleted projection is never written again: the filter of the upsert does
  not match it and `restaurantId` is unique, so that after a suspension and its
  end the menu does not come back and the request ends in an error
  (`public-menu.repository.js:7`, `public-menu-projection.model.js:9`);
- two rebuilds that overlap may leave the older menu in the projection and the
  cache, or one in each, until the next edit; archiving and a payment rebuild
  nothing;
- `RESTAURANT_STAFF_REMOVED` has a consumer and no publisher: whoever has been
  assigned stays;
- a creation that ends between the restaurant and the assignment leaves a
  restaurant whose slug is taken and that nobody owns, and an assignment whose
  event is lost is never announced again.

*Payments and faces*

- nothing sets a transaction to `FAILED`: what an error or a crash interrupts
  stays `PENDING`, charged or not, and nothing looks for it;
- a client that is told the service is unavailable may have paid
  (`AnswerIsKept` has no converse);
- after the broker has closed the connection of paymentService by force
  (`domain-event.publisher.js:26`), what was in the buffer is lost, and every
  later payment is charged, recorded `SUCCESS`, answered with an error and
  announced to nobody, until the process is started again;
- an operator's registration takes a person off the list of debtors, and so does
  an enrolment that had passed its search when the debtor was listed;
- without any race, a debtor whose phone has changed is activated again with
  another identity card and face: the search finds nothing, and the enrolment
  overwrites `DEBTOR` by `NORMAL` (`user.service.js:101`,
  `vector.repository.js:31`);
- `/blacklist/debtor` for a person without a vector leaves an identity on the list
  of debtors that no search finds, and a later activation takes it off;
- no index makes the vector of a person unique (`face-vector.model.js:3`): two
  upserts that overlap may insert two, and every later one changes one of them,
  while the other keeps its face and its list until a blacklisting marks both.

## 7. Not modelled

- *`OrderLifecycle` and `EnforcementTimer` composed*: nothing flows back from the
  timer to the orders, and the inputs of `EnforcementTimer` (arrivals, scans and
  expiries in any number and order) contain all that orders publish; so what is
  checked of the timer holds of the composition.  What the composition could add,
  that the number of events is right, would cost the product of two state spaces
  of more than a million states each.
- *The attempts of verification codes and the intervals between them*: counters
  that only refuse; every request of `AccountActivation` may be refused.
- *The removal of memberships*: it cannot happen (section 6).
- *Channels and sockets of notificationService, mail and SMS providers*: provider
  calls and rooms; what was sent is an observation of `EnforcementTimer`.
- *The numbers of the face embedder*: an external process; which faces are alike
  is a constant of `FaceWatchlist`, that it refuses or is late an action.
- *Parsing, validation and the wording of answers in the HTTP and gRPC layers,
  the proxying of routes, tracing, logging, key management, API documentation,
  configuration, seed scripts*: no state a property could be about.  The checks
  those layers make of a token are in `StaffAccess`.

## 8. Plan

All components with state of their own are modelled.  What would come next, in
order of worth:

1. the composition of `StaffAccess` with `RestaurantLifecycle`, so that
   `ChangeStanding` is the payment and the review and not any change;
2. a reconciliation of interrupted payments and of lost events, when the code
   gets one: `LedgerMatchesEvents` and `AssignmentIsKnownOrUnderway` name the
   states it has to look for.
