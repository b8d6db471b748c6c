----------------------------- MODULE StaffAccess -----------------------------
(***************************************************************************)
(* Who may do what at a restaurant: restaurantService assigns accounts to  *)
(* restaurants, RabbitMQ carries each assignment to orderService, and      *)
(* orderService asks its own copy when a member of the staff lists orders, *)
(* scans a QR code or reports an arrival, while restaurantService asks the *)
(* assignments themselves when somebody edits the restaurant or its menu.  *)
(*                                                                         *)
(* An access token says what the account was when the token was issued:    *)
(* every request brings claims of its own.                                 *)
(***************************************************************************)
CONSTANTS
    Users, Restaurants,     \* a restaurant is its city and slug
    Calls,          \* requests to restaurantService
    Services,       \* what else is asked of either service
    RoleClaims,     \* the sets of roles access tokens carry
    StaffRoles      \* what an account can be assigned as

Roles == {"user", "worker", "staff", "chef", "delivery_man", "manager",
          "superadmin"}

ASSUME RolesAssumption == RoleClaims \subseteq SUBSET Roles
ASSUME StaffRolesAssumption ==
    StaffRoles \subseteq {"MANAGER", "STAFF", "DELIVERY_MAN", "CHEF"}

VARIABLES
    call,       \* requests that create a restaurant or assign an account
    standing,   \* what a restaurant is for the check on its owner's next one
    mapping,    \* role of each account at each restaurant: restaurant-users
    events,     \* RESTAURANT_STAFF_ASSIGNED events, wherever they are
    bound,      \* the queue of orderService exists
    consuming,  \* orderService consumes it
    copy,       \* memberships in orderService
    service     \* requests that an assignment may allow, to either service

staffing == <<call, standing, mapping>>
broker   == <<events, bound>>
orders   == <<consuming, copy>>
vars     == <<staffing, broker, orders, service>>

None   == "none"
Duties == {"OWNER"} \cup StaffRoles
Pairs  == Users \X Restaurants

\* "unpaid" since it was created, "again" after having been "clear": both stop
\* the owner from creating another one.
Standings == {None, "unpaid", "clear", "again"}
Blocking(r) == standing[r] \in {"unpaid", "again"}

\* An account that is ACTIVE has an email, a phone and a face that are verified,
\* but for a phone that was changed while it was activated.
Claims == [roles : RoleClaims, account : {"pending", "active", "verified"}]

\* user: the account the mapping is for.  owned: the restaurants read before.
\* after: the creations that had succeeded when it started.
\* "failed" is a request that ended after the restaurant was inserted.
Call == [op : {"create", "staff"}, user : Users, rest : Restaurants,
         role : Duties, paid : BOOLEAN,
         pc : {"find", "owned", "unpaid", "insert", "assign", "announce",
               "done", "failed"},
         owned : SUBSET Restaurants, after : SUBSET Calls]
Free == [op |-> None]
Gone == [op |-> "gone"]

Event == [user : Users, rest : Restaurants, role : Duties, marked : BOOLEAN,
          at : {"channel", "queue", "check", "apply", "mark", "ack", "lost"}]

\* What the controllers offer: "order" is what a customer does with orders of
\* his own, "all" the list of every order.
OrderOps  == {"order", "list", "all", "scan", "arrive"}
ManageOps == {"manage", "alert"}
MenuOps   == {"menu", "item"}
ReviewOps == {"review"}
Ops       == OrderOps \cup ManageOps \cup MenuOps \cup ReviewOps

Kinds == {"DELIVERY", "other"}
Service == [op : Ops, user : Users, rest : Restaurants, kind : Kinds,
            roles : RoleClaims]

Init ==
    /\ call = [c \in Calls |-> Free]
    /\ service = [s \in Services |-> Free]
    /\ standing = [r \in Restaurants |-> None]
    /\ mapping = [p \in Pairs |-> None]
    /\ copy = [p \in Pairs |-> None]
    /\ events = {}
    /\ bound = FALSE
    /\ consuming = FALSE

-----------------------------------------------------------------------------
(* Entry: what an access token must say.  The services can be reached through *)
(* the gateway and without it.                                               *)

\* onAuthenticated of restaurantService
Active(cl) == cl.account # "pending"

\* requireFullyVerifiedAccount of the gateway, onAuthenticated of orderService
FullyVerified(cl) == cl.account = "verified"

\* requireRole of the routes; everybody is a user.
ManagerRoutes ==
    [manage |-> {"user", "manager", "superadmin"},
     alert  |-> {"chef", "superadmin"}]
MenuRoutes ==
    [menu |-> {"user", "manager", "superadmin", "staff", "worker"},
     item |-> {"manager", "superadmin", "staff", "worker"}]
AdminRoutes == [review |-> {"superadmin"}]
OrderRoutes ==
    [order  |-> Roles,
     list   |-> {"staff", "manager", "delivery_man", "superadmin"},
     all    |-> {"superadmin"},
     scan   |-> {"staff", "manager", "delivery_man", "superadmin"},
     arrive |-> {"delivery_man", "superadmin"}]

Route(cl, routes, op) ==
    op \in DOMAIN routes /\ cl.roles \cap routes[op] # {}

\* The HTTP routes of the two services
RestaurantRoute(cl, op) ==
    /\ Active(cl)
    /\ \/ Route(cl, ManagerRoutes, op)
       \/ Route(cl, MenuRoutes, op)
       \/ Route(cl, AdminRoutes, op)
OrderRoute(cl, op) == FullyVerified(cl) /\ Route(cl, OrderRoutes, op)

\* The gateway forwards a request to the HTTP route with its token, and to the
\* edits of a restaurant it lets fully verified accounts only; whoever stops
\* waiting does not stop the service.
ForwardToRestaurants(cl, op) ==
    /\ op \in ManageOps \cup MenuOps => FullyVerified(cl)
    /\ RestaurantRoute(cl, op)
ForwardToOrders(cl, op) ==
    op \in {"order", "list", "all", "scan"} /\ OrderRoute(cl, op)

\* A new order and an arrival become gRPC calls, where no role is asked for.
GrpcRoute(cl, op) == op \in {"order", "arrive"} /\ FullyVerified(cl)

Admitted(cl, op) ==
    \/ RestaurantRoute(cl, op) \/ ForwardToRestaurants(cl, op)
    \/ OrderRoute(cl, op) \/ ForwardToOrders(cl, op)
    \/ GrpcRoute(cl, op)

-----------------------------------------------------------------------------
(* restaurantService *)

At(c, pc)   == call[c].op \in {"create", "staff"} /\ call[c].pc = pc
Goto(c, pc) == call' = [call EXCEPT ![c].pc = pc]
Close(c)    == call' = [call EXCEPT ![c] = Gone]

Created == {c \in Calls : call[c].op = "create" /\ call[c].pc = "done"}

\* POST /restaurants; with MEMBERSHIP_FIRST the client says it has paid.
StartCreate(c, u, r, paid, cl) ==
    /\ call[c] = Free
    /\ RestaurantRoute(cl, "manage")
    /\ call' = [call EXCEPT ![c] =
          [op |-> "create", user |-> u, rest |-> r, role |-> "OWNER",
           paid |-> paid, pc |-> "owned", owned |-> {}, after |-> Created]]
    /\ UNCHANGED <<standing, mapping, broker, orders, service>>

\* POST /restaurants/:id/staff: requireRestaurantAccess lets the superadmin
\* and everybody the restaurant has assigned pass.
StartStaff(c, u, r, v, d, cl) ==
    /\ call[c] = Free
    /\ RestaurantRoute(cl, "manage")
    /\ "superadmin" \in cl.roles \/ mapping[<<u, r>>] # None
    /\ call' = [call EXCEPT ![c] =
          [op |-> "staff", user |-> v, rest |-> r, role |-> d, paid |-> FALSE,
           pc |-> "find", owned |-> {}, after |-> {}]]
    /\ UNCHANGED <<standing, mapping, broker, orders, service>>

\* addStaffMember looks for the restaurant.
FindRestaurant(c) ==
    /\ At(c, "find")
    /\ IF standing[call[c].rest] # None THEN Goto(c, "assign") ELSE Close(c)
    /\ UNCHANGED <<standing, mapping, broker, orders, service>>

\* Faulty variant: only what the account manages is looked up.
FindOwned_managed(c) ==
    /\ At(c, "owned")
    /\ call' = [call EXCEPT ![c].pc = "unpaid",
          ![c].owned = {r \in Restaurants :
                           mapping[<<call[c].user, r>>] = "MANAGER"}]
    /\ UNCHANGED <<standing, mapping, broker, orders, service>>

\* findRestaurantIdsByUserAndRoles
FindOwned(c) ==
    /\ At(c, "owned")
    /\ call' = [call EXCEPT ![c].pc = "unpaid",
          ![c].owned = {r \in Restaurants :
                           mapping[<<call[c].user, r>>] = "OWNER"}]
    /\ UNCHANGED <<standing, mapping, broker, orders, service>>

\* existsUnresolvedUnpaidByIds
CheckUnpaid(c) ==
    /\ At(c, "unpaid")
    /\ IF \E r \in call[c].owned : Blocking(r)
       THEN Close(c)
       ELSE call' = [call EXCEPT ![c].pc = "insert", ![c].owned = {}]
    /\ UNCHANGED <<standing, mapping, broker, orders, service>>

\* The index on city and slug refuses a restaurant that exists.
Insert(c) ==
    /\ At(c, "insert")
    /\ IF standing[call[c].rest] # None
       THEN Close(c) /\ UNCHANGED standing
       ELSE /\ call' = [call EXCEPT ![c].pc = "assign", ![c].paid = FALSE]
            /\ standing' = [standing EXCEPT ![call[c].rest] =
                               IF call[c].paid THEN "clear" ELSE "unpaid"]
    /\ UNCHANGED <<mapping, broker, orders, service>>

Pair(c) == <<call[c].user, call[c].rest>>

\* A creation that ends here leaves its restaurant behind.
Break(c) == IF call[c].op = "create" THEN Goto(c, "failed") ELSE Close(c)

\* Faulty variant: the owner is not assigned by the creation.
Assign_staffOnly(c) ==
    /\ At(c, "assign")
    /\ IF mapping[Pair(c)] # None
       THEN Break(c) /\ UNCHANGED mapping
       ELSE /\ Goto(c, "announce")
            /\ mapping' = [mapping EXCEPT ![Pair(c)] =
                   IF call[c].op = "staff" THEN call[c].role ELSE None]
    /\ UNCHANGED <<standing, broker, orders, service>>

\* restaurantUserRepository.create: one mapping for an account at a restaurant.
Assign(c) ==
    /\ At(c, "assign")
    /\ IF mapping[Pair(c)] # None
       THEN Break(c) /\ UNCHANGED mapping
       ELSE /\ Goto(c, "announce")
            /\ mapping' = [mapping EXCEPT ![Pair(c)] = call[c].role]
    /\ UNCHANGED <<standing, broker, orders, service>>

Assigned(c, at) == [user |-> call[c].user, rest |-> call[c].rest,
                    role |-> call[c].role, marked |-> FALSE, at |-> at]

\* publishEvent: the event goes to the channel's buffer; an error is logged.
Announce(c) ==
    /\ At(c, "announce")
    /\ IF call[c].op = "create" THEN Goto(c, "done") ELSE Close(c)
    /\ \E at \in {"channel", "lost"} : events' = events \cup {Assigned(c, at)}
    /\ UNCHANGED <<standing, mapping, bound, orders, service>>

\* An error of the database.
CallFails(c) ==
    /\ \/ /\ \E pc \in {"find", "owned", "unpaid", "insert"} : At(c, pc)
          /\ Close(c)
       \/ At(c, "assign") /\ Break(c)
    /\ UNCHANGED <<standing, mapping, broker, orders, service>>

\* Payment, review, suspension: what they do is in RestaurantLifecycle.
ChangeStanding(r) ==
    /\ standing[r] # None
    /\ standing' = [standing EXCEPT ![r] =
                       IF Blocking(r) THEN "clear" ELSE "again"]
    /\ UNCHANGED <<call, mapping, broker, orders, service>>

-----------------------------------------------------------------------------
(* The events *)

Move(e, f) == events' = (events \ {e}) \cup {f}
MoveTo(e, at) == Move(e, [e EXCEPT !.at = at])

\* The broker routes the event to the queue, if the queue is there.
Flush(e) ==
    /\ e.at = "channel"
    /\ MoveTo(e, IF bound THEN "queue" ELSE "lost")
    /\ UNCHANGED <<staffing, bound, orders, service>>

\* assertQueue, bindQueue, consume
StartConsumer ==
    /\ ~consuming
    /\ consuming' = TRUE
    /\ bound' = TRUE
    /\ UNCHANGED <<staffing, events, copy, service>>

Deliver(e) ==
    /\ consuming
    /\ e.at = "queue"
    /\ MoveTo(e, "check")
    /\ UNCHANGED <<staffing, bound, orders, service>>

\* Faulty variant: the event is marked before it is applied.
IsProcessed_marksFirst(e) ==
    /\ e.at = "check"
    /\ Move(e, [e EXCEPT !.at = IF e.marked THEN "ack" ELSE "apply",
                         !.marked = TRUE])
    /\ UNCHANGED <<staffing, bound, orders, service>>

IsProcessed(e) ==
    /\ e.at = "check"
    /\ MoveTo(e, IF e.marked THEN "ack" ELSE "apply")
    /\ UNCHANGED <<staffing, bound, orders, service>>

\* Faulty variant: the role is the default of the mapping, not the event's.
UpsertMapping_asStaff(e) ==
    /\ e.at = "apply"
    /\ copy' = [copy EXCEPT ![<<e.user, e.rest>>] = "STAFF"]
    /\ MoveTo(e, "mark")
    /\ UNCHANGED <<staffing, bound, consuming, service>>

\* upsertMapping
UpsertMapping(e) ==
    /\ e.at = "apply"
    /\ copy' = [copy EXCEPT ![<<e.user, e.rest>>] = e.role]
    /\ MoveTo(e, "mark")
    /\ UNCHANGED <<staffing, bound, consuming, service>>

MarkProcessed(e) ==
    /\ e.at = "mark"
    /\ Move(e, [e EXCEPT !.at = "ack", !.marked = TRUE])
    /\ UNCHANGED <<staffing, bound, orders, service>>

Ack(e) ==
    /\ e.at = "ack"
    /\ events' = events \ {e}
    /\ UNCHANGED <<staffing, bound, orders, service>>

InFlight(e) == e.at \in {"check", "apply", "mark", "ack"}

\* An error of the database: the message is rejected and not queued again.
Nack(e) ==
    /\ e.at \in {"check", "apply", "mark"}
    /\ MoveTo(e, "lost")
    /\ UNCHANGED <<staffing, bound, orders, service>>

-----------------------------------------------------------------------------
(* What an assignment allows, in orderService and in restaurantService *)

Super(q) == "superadmin" \in q.roles

\* The first half of assertScannerAuthorized.
RoleFits(q) ==
    q.roles \cap (IF q.kind = "DELIVERY" THEN {"delivery_man"}
                  ELSE {"staff", "manager"}) # {}

\* hasRestaurantAccess, of either service
HasAccess(q) == copy[<<q.user, q.rest>>] # None
Manages(q)   == mapping[<<q.user, q.rest>>] # None

\* Faulty variant: an arrival is taken from any member of the staff.
Allowed_anyStaff(q) ==
    \/ q.op \in {"order", "all", "review"}
    \/ Super(q) /\ (q.op = "arrive" => q.kind = "DELIVERY")
    \/ q.op = "list" /\ HasAccess(q)
    \/ q.op = "scan" /\ RoleFits(q) /\ HasAccess(q)
    \/ q.op = "arrive" /\ q.kind = "DELIVERY" /\ HasAccess(q)
    \/ q.op \in ManageOps \cup MenuOps /\ Manages(q)

\* listRestaurantOrders, scanQr, markDriverArrived; requireRestaurantAccess and
\* ensureManageAccess.  Three operations ask for nothing but the role.
Allowed(q) ==
    \/ q.op \in {"order", "all", "review"}
    \/ Super(q) /\ (q.op = "arrive" => q.kind = "DELIVERY")
    \/ q.op = "list" /\ HasAccess(q)
    \/ q.op = "scan" /\ RoleFits(q) /\ HasAccess(q)
    \/ /\ q.op = "arrive" /\ q.kind = "DELIVERY"
       /\ RoleFits(q) /\ HasAccess(q)
    \/ q.op \in ManageOps \cup MenuOps /\ Manages(q)

\* A request, up to the lookup of the assignment: nothing it has read before
\* can change.
CheckAccess(s, op, u, r, k, cl) ==
    LET q == [op |-> op, user |-> u, rest |-> r, kind |-> k, roles |-> cl.roles]
    IN  /\ service[s] = Free
        /\ op \in {"scan", "arrive"} \/ k = "other"
        /\ Admitted(cl, op)
        /\ Allowed(q)
        /\ service' = [service EXCEPT ![s] = q]
        /\ UNCHANGED <<staffing, broker, orders>>

\* What it does to the order is in OrderLifecycle, to the restaurant and its
\* menu in RestaurantLifecycle.
Act(s) ==
    /\ service[s] # Free
    /\ service' = [service EXCEPT ![s] = Free]
    /\ UNCHANGED <<staffing, broker, orders>>

-----------------------------------------------------------------------------
(* Crashes; Docker starts a service that has stopped again. *)

\* An assignment that was not announced never will be.
CrashRestaurants ==
    /\ call' = [c \in Calls |->
          IF call[c] = Free \/ c \in Created THEN call[c]
          ELSE IF call[c].op = "create"
                  /\ call[c].pc \in {"assign", "announce", "failed"}
               THEN [call[c] EXCEPT !.pc = "failed"] ELSE Gone]
    /\ events' = {IF e.at = "channel" THEN [e EXCEPT !.at = "lost"] ELSE e :
                     e \in events}
                 \cup {Assigned(c, "lost") :
                          c \in {d \in Calls : At(d, "announce")}}
    /\ service' = [s \in Services |->
          IF service[s].op \in OrderOps THEN service[s] ELSE Free]
    /\ UNCHANGED <<standing, mapping, bound, orders>>

\* What was not acknowledged is queued again.
CrashOrders ==
    /\ consuming
    /\ consuming' = FALSE
    /\ events' = {IF InFlight(e) THEN [e EXCEPT !.at = "queue"] ELSE e :
                     e \in events}
    /\ service' = [s \in Services |->
          IF service[s].op \in OrderOps THEN Free ELSE service[s]]
    /\ UNCHANGED <<staffing, bound, copy>>

-----------------------------------------------------------------------------

Handle(e) == IsProcessed(e) \/ UpsertMapping(e) \/ MarkProcessed(e) \/ Ack(e)

NextCall(c) ==
    \/ \E u \in Users, r \in Restaurants, cl \in Claims :
         \/ \E paid \in BOOLEAN : StartCreate(c, u, r, paid, cl)
         \/ \E v \in Users, d \in StaffRoles : StartStaff(c, u, r, v, d, cl)
    \/ FindRestaurant(c) \/ FindOwned(c) \/ CheckUnpaid(c) \/ Insert(c)
    \/ Assign(c) \/ Announce(c) \/ CallFails(c)

NextService(s) ==
    \/ \E u \in Users, r \in Restaurants, cl \in Claims, k \in Kinds,
          op \in Ops : CheckAccess(s, op, u, r, k, cl)
    \/ Act(s)

Next ==
    \/ \E c \in Calls : NextCall(c)
    \/ \E r \in Restaurants : ChangeStanding(r)
    \/ \E e \in events : Flush(e) \/ Deliver(e) \/ Handle(e) \/ Nack(e)
    \/ StartConsumer
    \/ \E s \in Services : NextService(s)
    \/ CrashRestaurants
    \/ CrashOrders

Spec == Init /\ [][Next]_vars

-----------------------------------------------------------------------------
(* Properties *)

TypeOK ==
    /\ call \in [Calls -> Call \cup {Free, Gone}]
    /\ standing \in [Restaurants -> Standings]
    /\ mapping \in [Pairs -> Duties \cup {None}]
    /\ copy \in [Pairs -> Duties \cup {None}]
    /\ events \subseteq Event
    /\ bound \in BOOLEAN
    /\ consuming \in BOOLEAN
    /\ service \in [Services -> Service \cup {Free}]

\* orderService never knows a membership that restaurantService has not
\* assigned, nor another role than the assigned one.
CopyIsAssigned ==
    \A p \in Pairs : copy[p] # None => copy[p] = mapping[p]

\* Whichever entry a request takes, what it is about to do with something that
\* is not the account's own is done by the superadmin, or by somebody whom
\* restaurantService has assigned to that very restaurant, although orderService
\* asks its copy; delivery orders are scanned and their arrival reported by
\* delivery men only, and low stock by a chef.
ServedByStaff ==
    \A q \in {service[s] : s \in Services} \ {Free} : ~Super(q) =>
        /\ q.op # "order" => mapping[<<q.user, q.rest>>] # None
        /\ q.op \in {"scan", "arrive"} => RoleFits(q)
        /\ q.op = "arrive" => q.kind = "DELIVERY"
        /\ q.op = "alert" => "chef" \in q.roles

Owns(u, r) == mapping[<<u, r>>] = "OWNER"

\* A restaurant has one owner, who created it, unless its creation is about to
\* assign him or ended there: after an error, a crash, or because somebody was
\* quicker and gave him another role.
OwnerUnlessCutShort ==
    \A r \in Restaurants : standing[r] # None =>
        \E c \in Calls :
            /\ call[c].op = "create"
            /\ call[c].rest = r
            /\ \A u \in Users : Owns(u, r) => u = call[c].user
            /\ Owns(call[c].user, r) \/ call[c].pc \in {"assign", "failed"}

\* Two restaurants of one owner that were never paid for were created by
\* requests that overlapped.
UnpaidBlocksTheNext ==
    \A c, d \in Calls :
        /\ call[d].op = "create" /\ c \in call[d].after
        /\ call[c].user = call[d].user
        /\ standing[call[c].rest] = "unpaid"
        => call[d].pc \in {"owned", "unpaid"}

Announcing(u, r) == \E c \in Calls : At(c, "announce") /\ Pair(c) = <<u, r>>

\* No assignment is forgotten on its way: one that orderService does not know
\* is about to be announced, or its event is somewhere between the channel and
\* the update of the copy, or was lost by a crash, an error or a queue that was
\* not there yet.
AssignmentIsKnownOrUnderway ==
    \A u \in Users, r \in Restaurants :
        mapping[<<u, r>>] # None /\ copy[<<u, r>>] = None =>
            \/ Announcing(u, r)
            \/ \E e \in events : /\ e.user = u
                                /\ e.rest = r
                                /\ e.at \in {"channel", "queue", "check",
                                            "apply", "lost"}
=============================================================================
