-------------------------- MODULE StaffAccess_proofs --------------------------
(***************************************************************************)
(* Proofs about StaffAccess, for any accounts, restaurants and requests,   *)
(* any sets of roles tokens carry and any roles staff is assigned.         *)
(***************************************************************************)
EXTENDS StaffAccess, TLAPS

\* What is about to be announced has been assigned.
Announces(c) == At(c, "announce") => mapping[Pair(c)] = call[c].role

\* An event tells of an assignment, and is marked when it has been applied.
TellsTrue(e) ==
    /\ mapping[<<e.user, e.rest>>] = e.role
    /\ e.marked \/ e.at \in {"mark", "ack"} => copy[<<e.user, e.rest>>] # None

\* The inductive invariant of what is assigned, told, copied and asked.
AccessInv ==
    /\ TypeOK
    /\ \A c \in Calls : Announces(c)
    /\ \A e \in events : TellsTrue(e)
    /\ CopyIsAssigned
    /\ ServedByStaff
    /\ AssignmentIsKnownOrUnderway

-----------------------------------------------------------------------------
(* Types *)

LEMMA NoneIsNoDuty == None \notin Duties
  BY StaffRolesAssumption DEF None, Duties

\* What At says of the type of the request.
LEMMA AtTyped ==
    ASSUME TypeOK, NEW c \in Calls, NEW pc, At(c, pc)
    PROVE  /\ call[c] \in Call
           /\ Pair(c) \in Pairs
           /\ call[c].role \in Duties
  BY DEF TypeOK, At, Call, Free, Gone, None, Pair, Pairs

LEMMA InitTyped == Init => TypeOK
  BY DEF Init, TypeOK, Standings, None

\* A step of a request to restaurantService keeps the types.
LEMMA CallTyped ==
    ASSUME TypeOK, NEW c \in Calls, NextCall(c)
    PROVE  TypeOK'
  <1> USE DEF TypeOK, staffing, broker, orders
  <1>1. ASSUME NEW u \in Users, NEW r \in Restaurants, NEW cl \in Claims,
               NEW paid \in BOOLEAN, StartCreate(c, u, r, paid, cl)
        PROVE  TypeOK'
    BY <1>1 DEF StartCreate, Call, Created, Duties
  <1>2. ASSUME NEW u \in Users, NEW r \in Restaurants, NEW cl \in Claims,
               NEW v \in Users, NEW d \in StaffRoles,
               StartStaff(c, u, r, v, d, cl)
        PROVE  TypeOK'
    BY <1>2 DEF StartStaff, Call, Duties
  <1>3. CASE FindRestaurant(c)
    BY <1>3, AtTyped DEF FindRestaurant, Goto, Close, Call
  <1>4. CASE FindOwned(c)
    <2> DEFINE rs == {r \in Restaurants :
                         mapping[<<call[c].user, r>>] = "OWNER"}
    <2>1. /\ rs \subseteq Restaurants
          /\ call' = [call EXCEPT ![c].pc = "unpaid", ![c].owned = rs]
          /\ UNCHANGED <<standing, mapping, broker, orders, service>>
      BY <1>4 DEF FindOwned
    <2>2. call[c] \in Call
      BY <1>4, AtTyped DEF FindOwned
    <2> HIDE DEF rs
    <2> QED
      BY <2>1, <2>2 DEF Call
  <1>5. CASE CheckUnpaid(c)
    BY <1>5, AtTyped DEF CheckUnpaid, Close, Call
  <1>6. CASE Insert(c)
    BY <1>6, AtTyped DEF Insert, Close, Call, Standings
  <1>7. CASE Assign(c)
    BY <1>7, AtTyped DEF Assign, Break, Goto, Close, Call
  <1>8. CASE Announce(c)
    <2>1. \A at \in {"channel", "lost"} : Assigned(c, at) \in Event
      BY <1>8, AtTyped DEF Announce, Assigned, Event, Call
    <2> QED
      BY <1>8, <2>1, AtTyped DEF Announce, Goto, Close, Call
  <1>9. CASE CallFails(c)
    BY <1>9, AtTyped DEF CallFails, Break, Goto, Close, Call
  <1> QED
    BY <1>1, <1>2, <1>3, <1>4, <1>5, <1>6, <1>7, <1>8, <1>9 DEF NextCall

\* An event keeps its type wherever it goes.
LEMMA EventTyped ==
    ASSUME NEW e \in Event,
           NEW at \in {"channel", "queue", "check", "apply", "mark", "ack",
                       "lost"}
    PROVE  /\ [e EXCEPT !.at = at] \in Event
           /\ [e EXCEPT !.at = at, !.marked = TRUE] \in Event
  BY DEF Event

\* What a step of an event does to the events.
Moves(e) == Flush(e) \/ Deliver(e) \/ Handle(e) \/ Nack(e)

LEMMA MovesTyped ==
    ASSUME TypeOK, NEW e \in events, Moves(e)
    PROVE  TypeOK'
  <1> USE DEF TypeOK, staffing, broker, orders, Move, MoveTo
  <1>0. e \in Event /\ e.role \in Duties /\ <<e.user, e.rest>> \in Pairs
    BY DEF Event, Pairs
  <1>1. CASE Flush(e)
    BY <1>0, <1>1, EventTyped DEF Flush
  <1>2. CASE Deliver(e)
    BY <1>0, <1>2, EventTyped DEF Deliver
  <1>3. CASE IsProcessed(e)
    BY <1>0, <1>3, EventTyped DEF IsProcessed
  <1>4. CASE UpsertMapping(e)
    BY <1>0, <1>4, EventTyped DEF UpsertMapping
  <1>5. CASE MarkProcessed(e)
    BY <1>0, <1>5, EventTyped DEF MarkProcessed
  <1>6. CASE Ack(e)
    BY <1>0, <1>6 DEF Ack
  <1>7. CASE Nack(e)
    BY <1>0, <1>7, EventTyped DEF Nack
  <1> QED
    BY <1>1, <1>2, <1>3, <1>4, <1>5, <1>6, <1>7 DEF Moves, Handle

LEMMA ServiceTyped ==
    ASSUME TypeOK, NEW s \in Services, NextService(s)
    PROVE  TypeOK'
  <1> USE DEF TypeOK, staffing, broker, orders
  <1>1. ASSUME NEW u \in Users, NEW r \in Restaurants, NEW cl \in Claims,
               NEW k \in Kinds, NEW op \in Ops, CheckAccess(s, op, u, r, k, cl)
        PROVE  TypeOK'
    <2>1. [op |-> op, user |-> u, rest |-> r, kind |-> k, roles |-> cl.roles]
             \in Service
      BY DEF Service, Claims
    <2> QED
      BY <1>1, <2>1 DEF CheckAccess
  <1>2. CASE Act(s)
    BY <1>2 DEF Act
  <1> QED
    BY <1>1, <1>2 DEF NextService

LEMMA CrashTyped ==
    ASSUME TypeOK, CrashRestaurants \/ CrashOrders
    PROVE  TypeOK'
  <1> USE DEF TypeOK, staffing, broker, orders
  <1>1. CASE CrashRestaurants
    <2>1. ASSUME NEW c \in Calls PROVE call'[c] \in Call \cup {Free, Gone}
      <3>1. call'[c] \in {call[c], [call[c] EXCEPT !.pc = "failed"], Gone}
        BY <1>1 DEF CrashRestaurants
      <3>2. call[c] \in Call => [call[c] EXCEPT !.pc = "failed"] \in Call
        BY DEF Call
      <3>3. call[c] \in {Free, Gone} => call'[c] \in {call[c], Gone}
        BY <1>1 DEF CrashRestaurants, Free, Gone, None
      <3> QED
        BY <3>1, <3>2, <3>3
    <2>2. \A c \in Calls : At(c, "announce") => Assigned(c, "lost") \in Event
      BY AtTyped DEF Assigned, Event, Call
    <2>3. events' \subseteq Event
      BY <1>1, <2>2, EventTyped DEF CrashRestaurants
    <2>4. service' \in [Services -> Service \cup {Free}]
      BY <1>1 DEF CrashRestaurants
    <2>5. call' \in [Calls -> Call \cup {Free, Gone}]
      BY <1>1, <2>1 DEF CrashRestaurants
    <2> QED
      BY <1>1, <2>3, <2>4, <2>5 DEF CrashRestaurants
  <1>2. CASE CrashOrders
    BY <1>2, EventTyped DEF CrashOrders
  <1> QED
    BY <1>1, <1>2

LEMMA OthersTyped ==
    ASSUME TypeOK, StartConsumer \/ \E r \in Restaurants : ChangeStanding(r)
    PROVE  TypeOK'
  BY DEF TypeOK, StartConsumer, ChangeStanding, staffing, broker, orders,
         Standings

LEMMA NextTyped ==
    ASSUME TypeOK, [Next]_vars
    PROVE  TypeOK'
  <1>1. CASE UNCHANGED vars
    BY <1>1 DEF vars, staffing, broker, orders, TypeOK
  <1> QED
    BY <1>1, CallTyped, MovesTyped, ServiceTyped, CrashTyped, OthersTyped
    DEF Next, Moves

\* Every variable keeps its type.
THEOREM TypeCorrect == Spec => []TypeOK
  <1>1. TypeOK /\ [Next]_vars => TypeOK'
    BY NextTyped
  <1> QED
    BY InitTyped, <1>1, PTL DEF Spec

-----------------------------------------------------------------------------
(* What each step can change *)

\* Only Assign assigns.
LEMMA WhoAssigns ==
    ASSUME [Next]_vars
    PROVE  UNCHANGED mapping \/ \E c \in Calls : Assign(c)
  <1> USE DEF staffing, broker, orders
  <1>1. CASE UNCHANGED vars
    BY <1>1 DEF vars
  <1>2. ASSUME NEW c \in Calls, NextCall(c) PROVE UNCHANGED mapping \/ Assign(c)
    BY <1>2 DEF NextCall, StartCreate, StartStaff, FindRestaurant, FindOwned,
                CheckUnpaid, Insert, Announce, CallFails
  <1>3. ASSUME NEW e \in events, Moves(e) PROVE UNCHANGED mapping
    BY <1>3 DEF Moves, Handle, Flush, Deliver, IsProcessed, UpsertMapping,
                MarkProcessed, Ack, Nack
  <1>4. ASSUME NEW s \in Services, NextService(s) PROVE UNCHANGED mapping
    BY <1>4 DEF NextService, CheckAccess, Act
  <1>5. ASSUME \/ StartConsumer \/ CrashRestaurants \/ CrashOrders
               \/ \E r \in Restaurants : ChangeStanding(r)
        PROVE  UNCHANGED mapping
    BY <1>5 DEF StartConsumer, CrashRestaurants, CrashOrders, ChangeStanding
  <1> QED
    BY <1>1, <1>2, <1>3, <1>4, <1>5 DEF Next, Moves

\* An assignment is not taken back, and given to nobody who has one.
LEMMA AssignmentStays ==
    ASSUME TypeOK, [Next]_vars, NEW p \in Pairs, mapping[p] # None
    PROVE  mapping'[p] = mapping[p]
  <1>1. ASSUME NEW c \in Calls, Assign(c) PROVE mapping'[p] = mapping[p]
    BY <1>1, AtTyped DEF Assign, TypeOK
  <1> QED
    BY <1>1, WhoAssigns

\* Only UpsertMapping changes the copy.
LEMMA WhoCopies ==
    ASSUME [Next]_vars
    PROVE  UNCHANGED copy \/ \E e \in events : UpsertMapping(e)
  <1> USE DEF staffing, broker, orders
  <1>1. CASE UNCHANGED vars
    BY <1>1 DEF vars
  <1>2. ASSUME NEW c \in Calls, NextCall(c) PROVE UNCHANGED copy
    BY <1>2 DEF NextCall, StartCreate, StartStaff, FindRestaurant, FindOwned,
                CheckUnpaid, Insert, Assign, Announce, CallFails
  <1>3. ASSUME NEW e \in events, Moves(e)
        PROVE  UNCHANGED copy \/ UpsertMapping(e)
    BY <1>3 DEF Moves, Handle, Flush, Deliver, IsProcessed,
                MarkProcessed, Ack, Nack
  <1>4. ASSUME NEW s \in Services, NextService(s) PROVE UNCHANGED copy
    BY <1>4 DEF NextService, CheckAccess, Act
  <1>5. ASSUME \/ StartConsumer \/ CrashRestaurants \/ CrashOrders
               \/ \E r \in Restaurants : ChangeStanding(r)
        PROVE  UNCHANGED copy
    BY <1>5 DEF StartConsumer, CrashRestaurants, CrashOrders, ChangeStanding
  <1> QED
    BY <1>1, <1>2, <1>3, <1>4, <1>5 DEF Next, Moves

\* What is known stays known.
LEMMA KnownStays ==
    ASSUME TypeOK, [Next]_vars, NEW p \in Pairs, copy[p] # None
    PROVE  copy'[p] # None
  <1>1. ASSUME NEW e \in events, UpsertMapping(e) PROVE copy'[p] # None
    BY <1>1, NoneIsNoDuty DEF UpsertMapping, TypeOK, Event
  <1> QED
    BY <1>1, WhoCopies

\* The requests change one at a time, or when restaurantService crashes.
LEMMA WhoCalls ==
    ASSUME [Next]_vars
    PROVE  \/ UNCHANGED call
           \/ \E c \in Calls : NextCall(c)
           \/ CrashRestaurants
  <1> USE DEF staffing, broker, orders
  <1>1. CASE UNCHANGED vars
    BY <1>1 DEF vars
  <1>2. ASSUME NEW e \in events, Moves(e) PROVE UNCHANGED call
    BY <1>2 DEF Moves, Handle, Flush, Deliver, IsProcessed, UpsertMapping,
                MarkProcessed, Ack, Nack
  <1>3. ASSUME NEW s \in Services, NextService(s) PROVE UNCHANGED call
    BY <1>3 DEF NextService, CheckAccess, Act
  <1>4. ASSUME \/ StartConsumer \/ CrashOrders
               \/ \E r \in Restaurants : ChangeStanding(r)
        PROVE  UNCHANGED call
    BY <1>4 DEF StartConsumer, CrashOrders, ChangeStanding
  <1> QED
    BY <1>1, <1>2, <1>3, <1>4 DEF Next, Moves

\* The events change when one is made or moves, or by a crash.
LEMMA WhoSends ==
    ASSUME [Next]_vars
    PROVE  \/ UNCHANGED events
           \/ \E c \in Calls : Announce(c)
           \/ \E e \in events : Moves(e)
           \/ CrashRestaurants
           \/ CrashOrders
  <1> USE DEF staffing, broker, orders
  <1>1. CASE UNCHANGED vars
    BY <1>1 DEF vars
  <1>2. ASSUME NEW c \in Calls, NextCall(c)
        PROVE  UNCHANGED events \/ Announce(c)
    BY <1>2 DEF NextCall, StartCreate, StartStaff, FindRestaurant, FindOwned,
                CheckUnpaid, Insert, Assign, CallFails
  <1>3. ASSUME NEW s \in Services, NextService(s) PROVE UNCHANGED events
    BY <1>3 DEF NextService, CheckAccess, Act
  <1>4. ASSUME StartConsumer \/ \E r \in Restaurants : ChangeStanding(r)
        PROVE  UNCHANGED events
    BY <1>4 DEF StartConsumer, ChangeStanding
  <1> QED
    BY <1>1, <1>2, <1>3, <1>4 DEF Next, Moves

-----------------------------------------------------------------------------
(* Assignments, events and the copy *)

LEMMA InitAccess == Init => AccessInv
  BY InitTyped
  DEF Init, AccessInv, Announces, At, Free, None, Pairs, CopyIsAssigned,
      ServedByStaff, AssignmentIsKnownOrUnderway

LEMMA AnnouncesStep ==
    ASSUME TypeOK, [Next]_vars, NEW c \in Calls, Announces(c)
    PROVE  Announces(c)'
  <1>1. CASE call'[c] = call[c]
    <2>1. At(c, "announce")' <=> At(c, "announce")
      BY <1>1 DEF At
    <2>2. At(c, "announce") => Pair(c) \in Pairs /\ mapping[Pair(c)] # None
      BY AtTyped, NoneIsNoDuty DEF Announces
    <2> QED
      BY <1>1, <2>1, <2>2, AssignmentStays DEF Announces, Pair
  <1>2. ASSUME NEW d \in Calls, NextCall(d), call'[c] # call[c]
        PROVE  Announces(c)'
    <2> USE DEF TypeOK, Announces, At
    <2>1. ASSUME NEW u \in Users, NEW r \in Restaurants, NEW cl \in Claims,
                 \/ \E paid \in BOOLEAN : StartCreate(d, u, r, paid, cl)
                 \/ \E v \in Users, x \in StaffRoles :
                       StartStaff(d, u, r, v, x, cl)
          PROVE  Announces(c)'
      BY <1>2, <2>1 DEF StartCreate, StartStaff
    <2>2. CASE Assign(d)
      <3>1. call[d] \in Call /\ Pair(d) \in Pairs
        BY <2>2, AtTyped DEF Assign
      <3> QED
        BY <1>2, <2>2, <3>1
        DEF Assign, Break, Goto, Close, Gone, Pair, Call
    <2>3. CASE FindRestaurant(d) \/ CheckUnpaid(d) \/ Insert(d)
               \/ Announce(d) \/ CallFails(d)
      BY <1>2, <2>3
      DEF FindRestaurant, CheckUnpaid, Insert, Announce, CallFails, Break,
          Goto, Close, Gone, Call, Free
    <2>4. CASE FindOwned(d)
      <3>1. PICK rs : call' = [call EXCEPT ![d].pc = "unpaid", ![d].owned = rs]
        BY <2>4, Zenon DEF FindOwned
      <3> QED
        BY <1>2, <2>4, <3>1 DEF Call, Free, Gone
    <2> QED
      BY <1>2, <2>1, <2>2, <2>3, <2>4 DEF NextCall
  <1>3. CASE CrashRestaurants
    <2>1. At(c, "announce")' => call'[c] = call[c]
      BY <1>3 DEF CrashRestaurants, At, Gone, Created, TypeOK, Call, Free
    <2> QED
      BY <1>1, <2>1 DEF Announces
  <1> QED
    BY <1>1, <1>2, <1>3, WhoCalls

\* An event that stays as it is goes on telling what is.
LEMMA TruthStays ==
    ASSUME TypeOK, [Next]_vars, NEW e \in events, TellsTrue(e)
    PROVE  TellsTrue(e)'
  <1>1. <<e.user, e.rest>> \in Pairs /\ e.role # None
    BY NoneIsNoDuty DEF TypeOK, Event, Pairs
  <1> QED
    BY <1>1, AssignmentStays, KnownStays DEF TellsTrue

LEMMA TruthStep ==
    ASSUME AccessInv, [Next]_vars, NEW f \in events'
    PROVE  TellsTrue(f)'
  <1>0. \A e \in events : TellsTrue(e)' /\ TellsTrue(e) /\ e \in Event
    BY TruthStays DEF AccessInv, TypeOK
  <1>1. CASE f \in events
    BY <1>0, <1>1
  <1>2. ASSUME NEW c \in Calls, At(c, "announce"),
               f = Assigned(c, "channel") \/ f = Assigned(c, "lost")
        PROVE  TellsTrue(f)'
    <2>1. /\ Announces(c) /\ mapping[Pair(c)] # None /\ Pair(c) \in Pairs
      BY <1>2, AtTyped, NoneIsNoDuty DEF AccessInv, Announces
    <2>2. mapping'[Pair(c)] = call[c].role
      BY <1>2, <2>1, AssignmentStays DEF AccessInv, Announces
    <2> QED
      BY <1>2, <2>2 DEF TellsTrue, Assigned, Pair
  <1>3. ASSUME NEW e \in events,
               NEW at \in {"queue", "check", "apply", "lost"},
               f = [e EXCEPT !.at = at]
        PROVE  TellsTrue(f)'
    BY <1>0, <1>3 DEF TellsTrue, Event
  <1>4. ASSUME NEW e \in events, Moves(e)
        PROVE  TellsTrue(f)'
    <2> USE DEF Move, MoveTo
    <2>1. CASE Flush(e) \/ Deliver(e) \/ Nack(e)
      BY <1>1, <1>3, <2>1 DEF Flush, Deliver, Nack
    <2>2. CASE IsProcessed(e)
      <3>1. e.marked => f = [e EXCEPT !.at = "ack"] \/ f \in events
        BY <2>2 DEF IsProcessed
      <3>2. ~e.marked => f = [e EXCEPT !.at = "apply"] \/ f \in events
        BY <2>2 DEF IsProcessed
      <3> QED
        BY <1>0, <1>1, <1>3, <3>1, <3>2 DEF TellsTrue, Event
    <2>3. CASE UpsertMapping(e)
      <3>1. copy'[<<e.user, e.rest>>] # None
        BY <1>0, <2>3, NoneIsNoDuty
        DEF UpsertMapping, AccessInv, TypeOK, Pairs, Event
      <3>2. f = [e EXCEPT !.at = "mark"] \/ f \in events
        BY <2>3 DEF UpsertMapping
      <3> QED
        BY <1>0, <1>1, <3>1, <3>2 DEF TellsTrue, Event
    <2>4. CASE MarkProcessed(e)
      <3>1. e.at = "mark"
        BY <2>4 DEF MarkProcessed
      <3>2. f = [e EXCEPT !.at = "ack", !.marked = TRUE] \/ f \in events
        BY <2>4 DEF MarkProcessed
      <3> QED
        BY <1>0, <1>1, <3>1, <3>2 DEF TellsTrue, Event
    <2>5. CASE Ack(e)
      BY <1>1, <2>5 DEF Ack
    <2> QED
      BY <1>4, <2>1, <2>2, <2>3, <2>4, <2>5 DEF Moves, Handle
  <1>5. CASE CrashRestaurants
    <2>1. \/ f \in events
          \/ \E e \in events : f = [e EXCEPT !.at = "lost"]
          \/ \E c \in Calls : At(c, "announce") /\ f = Assigned(c, "lost")
      BY <1>5 DEF CrashRestaurants
    <2> QED
      BY <1>1, <1>2, <1>3, <2>1
  <1>6. CASE CrashOrders
    <2>1. f \in events \/ \E e \in events : f = [e EXCEPT !.at = "queue"]
      BY <1>6 DEF CrashOrders
    <2> QED
      BY <1>1, <1>3, <2>1
  <1>7. ASSUME NEW c \in Calls, Announce(c) PROVE TellsTrue(f)'
    BY <1>1, <1>2, <1>7 DEF Announce
  <1> QED
    BY <1>1, <1>4, <1>5, <1>6, <1>7, WhoSends

LEMMA CopyStep ==
    ASSUME AccessInv, [Next]_vars
    PROVE  CopyIsAssigned'
  <1> SUFFICES ASSUME NEW p \in Pairs, copy'[p] # None
               PROVE  copy'[p] = mapping'[p]
    BY DEF CopyIsAssigned
  <1>1. CASE copy'[p] = copy[p]
    BY <1>1, AssignmentStays DEF AccessInv, CopyIsAssigned
  <1>2. ASSUME NEW e \in events, UpsertMapping(e), copy'[p] # copy[p]
        PROVE  copy'[p] = mapping'[p]
    <2>1. p = <<e.user, e.rest>> /\ copy'[p] = e.role /\ UNCHANGED mapping
      BY <1>2 DEF UpsertMapping, AccessInv, TypeOK, staffing
    <2> QED
      BY <2>1 DEF AccessInv, TellsTrue
  <1> QED
    BY <1>1, <1>2, WhoCopies

\* Only CheckAccess begins a request.
LEMMA WhoServes ==
    ASSUME TypeOK, [Next]_vars, NEW s \in Services
    PROVE  \/ service'[s] \in {service[s], Free}
           \/ /\ UNCHANGED mapping
              /\ \E u \in Users, r \in Restaurants, cl \in Claims,
                    k \in Kinds, op \in Ops : CheckAccess(s, op, u, r, k, cl)
  <1> USE DEF staffing, broker, orders
  <1>1. CASE UNCHANGED vars
    BY <1>1 DEF vars
  <1>2. ASSUME NEW c \in Calls, NextCall(c) PROVE UNCHANGED service
    BY <1>2 DEF NextCall, StartCreate, StartStaff, FindRestaurant, FindOwned,
                CheckUnpaid, Insert, Assign, Announce, CallFails
  <1>3. ASSUME NEW e \in events, Moves(e) PROVE UNCHANGED service
    BY <1>3 DEF Moves, Handle, Flush, Deliver, IsProcessed, UpsertMapping,
                MarkProcessed, Ack, Nack
  <1>4. ASSUME NEW x \in Services, NextService(x),
               service'[s] \notin {service[s], Free}
        PROVE  /\ UNCHANGED mapping
               /\ \E u \in Users, r \in Restaurants, cl \in Claims,
                     k \in Kinds, op \in Ops : CheckAccess(s, op, u, r, k, cl)
    <2>1. CASE Act(x)
      BY <1>4, <2>1 DEF Act, TypeOK
    <2>2. ASSUME NEW u \in Users, NEW r \in Restaurants, NEW cl \in Claims,
                 NEW k \in Kinds, NEW op \in Ops,
                 CheckAccess(x, op, u, r, k, cl)
          PROVE  x = s /\ UNCHANGED mapping
      BY <1>4, <2>2 DEF CheckAccess, TypeOK
    <2> QED
      BY <1>4, <2>1, <2>2 DEF NextService
  <1>5. CASE CrashRestaurants \/ CrashOrders
    BY <1>5 DEF CrashRestaurants, CrashOrders
  <1>6. ASSUME StartConsumer \/ \E r \in Restaurants : ChangeStanding(r)
        PROVE  UNCHANGED service
    BY <1>6 DEF StartConsumer, ChangeStanding
  <1> QED
    BY <1>1, <1>2, <1>3, <1>4, <1>5, <1>6 DEF Next, Moves

\* What ServedByStaff asks of one request.
Served(q) ==
    ~Super(q) =>
        /\ q.op # "order" => mapping[<<q.user, q.rest>>] # None
        /\ q.op \in {"scan", "arrive"} => RoleFits(q)
        /\ q.op = "arrive" => q.kind = "DELIVERY"
        /\ q.op = "alert" => "chef" \in q.roles

LEMMA ServedOneByOne ==
    ServedByStaff <=> \A s \in Services : service[s] # Free => Served(service[s])
  BY DEF ServedByStaff, Served

\* Which request the entries let through for nobody but the superadmin, and low
\* stock for no one but a chef.
LEMMA EntrySound ==
    ASSUME NEW cl, NEW op, Admitted(cl, op), "superadmin" \notin cl.roles
    PROVE  op \notin {"all", "review"} /\ (op = "alert" => "chef" \in cl.roles)
  BY DEF Admitted, RestaurantRoute, ForwardToRestaurants, OrderRoute,
         ForwardToOrders, GrpcRoute, Route, ManagerRoutes, MenuRoutes,
         AdminRoutes, OrderRoutes

\* A request that is let through is served by somebody who may.
LEMMA CheckSound ==
    ASSUME AccessInv, NEW s \in Services,
           NEW u \in Users, NEW r \in Restaurants, NEW cl \in Claims,
           NEW k \in Kinds, NEW op \in Ops, CheckAccess(s, op, u, r, k, cl)
    PROVE  Served(service'[s])
  <1> DEFINE q == [op |-> op, user |-> u, rest |-> r, kind |-> k,
                   roles |-> cl.roles]
  <1>1. Admitted(cl, op) /\ Allowed(q) /\ service'[s] = q
    BY DEF CheckAccess, AccessInv, TypeOK
  <1>2. copy[<<u, r>>] # None => mapping[<<u, r>>] # None
    BY DEF AccessInv, CopyIsAssigned, Pairs
  <1>3. q.op = op /\ q.user = u /\ q.rest = r /\ q.kind = k
        /\ q.roles = cl.roles
    OBVIOUS
  <1>4. ~Super(q) => op \notin {"all", "review"}
                     /\ (op = "alert" => "chef" \in cl.roles)
    BY <1>1, <1>3, EntrySound DEF Super
  <1> HIDE DEF q
  <1>5. Served(q)
    BY <1>1, <1>2, <1>3, <1>4
    DEF Allowed, Served, HasAccess, Manages, Ops, OrderOps, ManageOps, MenuOps,
        ReviewOps
  <1> QED
    BY <1>1, <1>5

\* Whoever is let through stays assigned while his request is under way.
LEMMA ServedStep ==
    ASSUME AccessInv, [Next]_vars
    PROVE  ServedByStaff'
  <1>0. TypeOK
    BY DEF AccessInv
  <1>1. ASSUME NEW s \in Services, service'[s] # Free
        PROVE  Served(service[s])'
    <2>1. CASE service'[s] = service[s]
      <3>1. Served(service[s])
        BY <1>1, <2>1, ServedOneByOne DEF AccessInv
      <3>2. <<service[s].user, service[s].rest>> \in Pairs
        BY <1>0, <1>1, <2>1 DEF TypeOK, Service, Pairs
      <3> QED
        BY <1>0, <2>1, <3>1, <3>2, AssignmentStays
        DEF Served, Super, RoleFits
    <2>2. ASSUME UNCHANGED mapping, Served(service'[s])
          PROVE  Served(service[s])'
      BY <2>2 DEF Served, Super, RoleFits
    <2> QED
      BY <1>0, <1>1, <2>1, <2>2, CheckSound, WhoServes
  <1>2. ServedByStaff' <=> \A s \in Services :
                              service'[s] # Free => Served(service[s])'
    BY DEF ServedByStaff, Served
  <1> QED
    BY <1>1, <1>2

\* An assignment on its way gets to the next place, or to the copy.
LEMMA KnownStep ==
    ASSUME AccessInv, [Next]_vars
    PROVE  AssignmentIsKnownOrUnderway'
  <1> DEFINE Places == {"channel", "queue", "check", "apply", "lost"}
             Under(f, u, r) == f.user = u /\ f.rest = r /\ f.at \in Places
  <1>0. TypeOK
    BY DEF AccessInv
  <1> SUFFICES ASSUME NEW u \in Users, NEW r \in Restaurants,
                      mapping'[<<u, r>>] # None, copy'[<<u, r>>] = None
               PROVE  \/ Announcing(u, r)'
                      \/ \E f \in events' : Under(f, u, r)
    BY DEF AssignmentIsKnownOrUnderway
  <1>1. <<u, r>> \in Pairs /\ copy[<<u, r>>] = None
    BY <1>0, KnownStays DEF Pairs
  <1>2. ASSUME NEW c \in Calls, Assign(c), mapping[<<u, r>>] = None
        PROVE  Announcing(u, r)'
    <2>1. call[c] \in Call /\ Pair(c) \in Pairs
      BY <1>0, <1>2, AtTyped DEF Assign
    <2>2. Pair(c) = <<u, r>> /\ mapping[Pair(c)] = None
      BY <1>0, <1>1, <1>2, <2>1 DEF Assign, TypeOK
    <2>3. call' = [call EXCEPT ![c].pc = "announce"]
      BY <1>2, <2>2 DEF Assign, Goto
    <2>4. At(c, "announce")' /\ Pair(c)' = <<u, r>>
      BY <1>0, <1>2, <2>1, <2>2, <2>3 DEF TypeOK, Assign, At, Pair, Call
    <2> QED
      BY <2>4 DEF Announcing
  <1>3. ASSUME NEW c \in Calls, At(c, "announce"), Pair(c) = <<u, r>>
        PROVE  Announcing(u, r)' \/ \E f \in events' : Under(f, u, r)
    <2>0. call[c] \in Call /\ call[c].user = u /\ call[c].rest = r
      BY <1>0, <1>3, AtTyped DEF Pair
    <2>1. CASE call'[c] = call[c]
      BY <1>3, <2>1 DEF Announcing, At, Pair
    <2>2. ASSUME NEW at \in Places, Assigned(c, at) \in events'
          PROVE  \E f \in events' : Under(f, u, r)
      BY <2>0, <2>2 DEF Assigned
    <2>3. CASE CrashRestaurants
      BY <1>3, <2>2, <2>3 DEF CrashRestaurants
    <2>4. CASE Announce(c)
      BY <2>2, <2>4 DEF Announce
    <2>5. ASSUME NEW d \in Calls, NextCall(d), call'[c] # call[c]
          PROVE  Announce(c)
      <3> USE DEF At
      <3>1. ASSUME NEW x \in Users, NEW y \in Restaurants, NEW cl \in Claims,
                   \/ \E paid \in BOOLEAN : StartCreate(d, x, y, paid, cl)
                   \/ \E v \in Users, z \in StaffRoles :
                         StartStaff(d, x, y, v, z, cl)
            PROVE  call'[c] = call[c]
        BY <1>0, <1>3, <3>1 DEF StartCreate, StartStaff, Free, None, TypeOK
      <3>2. FindRestaurant(d) \/ CheckUnpaid(d) \/ Insert(d) \/ Assign(d)
            \/ CallFails(d) => call'[c] = call[c]
        BY <1>0, <1>3
        DEF FindRestaurant, CheckUnpaid, Insert, Assign, CallFails, Goto,
            Close, Break, TypeOK
      <3>3. FindOwned(d) => d # c /\ \E rs :
               call' = [call EXCEPT ![d].pc = "unpaid", ![d].owned = rs]
        BY <1>3, Zenon DEF FindOwned
      <3>4. Announce(d) => d = c \/ call'[c] = call[c]
        BY <1>0 DEF Announce, Goto, Close, TypeOK
      <3> QED
        BY <1>0, <2>5, <3>1, <3>2, <3>3, <3>4 DEF NextCall, TypeOK
    <2> QED
      BY <2>1, <2>3, <2>4, <2>5, WhoCalls
  <1>4. ASSUME NEW e \in events, Under(e, u, r)
        PROVE  \E f \in events' : Under(f, u, r)
    <2>0. e \in Event /\ ~e.marked
      BY <1>0, <1>1, <1>4 DEF TypeOK, AccessInv, TellsTrue
    <2>1. CASE e \in events'
      BY <1>4, <2>1
    <2>2. ASSUME NEW at \in Places, [e EXCEPT !.at = at] \in events'
          PROVE  \E f \in events' : Under(f, u, r)
      BY <1>4, <2>0, <2>2 DEF Event
    <2>3. CASE Moves(e)
      <3> USE DEF Move, MoveTo
      <3>1. CASE Flush(e) \/ Deliver(e) \/ Nack(e)
        BY <2>2, <3>1 DEF Flush, Deliver, Nack
      <3>2. CASE IsProcessed(e)
        BY <2>0, <2>2, <3>2 DEF IsProcessed
      <3>3. ~UpsertMapping(e)
        BY <1>0, <1>1, <1>4, <2>0, NoneIsNoDuty
        DEF UpsertMapping, TypeOK, Event
      <3>4. ~MarkProcessed(e) /\ ~Ack(e)
        BY <1>4 DEF MarkProcessed, Ack
      <3> QED
        BY <2>3, <3>1, <3>2, <3>3, <3>4 DEF Moves, Handle
    <2>4. ASSUME NEW x \in events, Moves(x), x # e PROVE e \in events'
      BY <2>4 DEF Moves, Handle, Flush, Deliver, IsProcessed, UpsertMapping,
                  MarkProcessed, Ack, Nack, Move, MoveTo
    <2>5. CASE CrashRestaurants
      BY <2>1, <2>2, <2>5 DEF CrashRestaurants
    <2>6. CASE CrashOrders
      BY <2>1, <2>2, <2>6 DEF CrashOrders
    <2>7. ASSUME NEW c \in Calls, Announce(c) PROVE e \in events'
      BY <2>7 DEF Announce
    <2> QED
      BY <2>1, <2>3, <2>4, <2>5, <2>6, <2>7, WhoSends
  <1>5. CASE mapping[<<u, r>>] = None
    BY <1>2, <1>5, WhoAssigns
  <1>6. CASE mapping[<<u, r>>] # None
    BY <1>1, <1>3, <1>4, <1>6
    DEF AccessInv, AssignmentIsKnownOrUnderway, Announcing
  <1> QED
    BY <1>5, <1>6

LEMMA AccessStep ==
    ASSUME AccessInv, [Next]_vars
    PROVE  AccessInv'
  BY NextTyped, AnnouncesStep, TruthStep, CopyStep, ServedStep, KnownStep
  DEF AccessInv

\* The invariant holds in every state.
THEOREM Access == Spec => []AccessInv
  <1>1. AccessInv /\ [Next]_vars => AccessInv'
    BY AccessStep
  <1> QED
    BY InitAccess, <1>1, PTL DEF Spec

\* orderService knows no other membership, and no other role, than what
\* restaurantService has assigned.
THEOREM CopyTheorem == Spec => []CopyIsAssigned
  <1>1. AccessInv => CopyIsAssigned
    BY DEF AccessInv
  <1> QED
    BY Access, <1>1, PTL

\* Whichever entry and whichever claims, what a request does with something
\* that is not the account's own is done by staff of that restaurant.
THEOREM ServedTheorem == Spec => []ServedByStaff
  <1>1. AccessInv => ServedByStaff
    BY DEF AccessInv
  <1> QED
    BY Access, <1>1, PTL

\* An assignment orderService does not know is on its way or was lost.
THEOREM KnownTheorem == Spec => []AssignmentIsKnownOrUnderway
  <1>1. AccessInv => AssignmentIsKnownOrUnderway
    BY DEF AccessInv
  <1> QED
    BY Access, <1>1, PTL

-----------------------------------------------------------------------------
(* Owners: how a request goes on *)

\* The request is still the one that was made.
Kept(c) ==
    /\ call'[c] \in Call
    /\ call'[c].op = call[c].op
    /\ call'[c].user = call[c].user
    /\ call'[c].rest = call[c].rest
    /\ call'[c].role = call[c].role
    /\ call'[c].after = call[c].after

LEMMA KeptBy ==
    ASSUME NEW c \in Calls, call[c] \in Call,
           NEW pc \in {"find", "owned", "unpaid", "insert", "assign",
                       "announce", "done", "failed"},
           NEW os \in SUBSET Restaurants, NEW paid \in BOOLEAN,
           \/ call'[c] = [call[c] EXCEPT !.pc = pc]
           \/ call'[c] = [call[c] EXCEPT !.pc = pc, !.owned = os]
           \/ call'[c] = [call[c] EXCEPT !.pc = pc, !.paid = paid]
    PROVE  Kept(c)
  BY DEF Kept, Call

\* A request goes on with what it was made with, or is gone.
LEMMA GoesOn ==
    ASSUME TypeOK, [Next]_vars, NEW c \in Calls, call[c] \in Call
    PROVE  call'[c] = Gone \/ Kept(c)
  <1>1. CASE call'[c] = call[c]
    BY <1>1 DEF Kept
  <1>2. ASSUME NEW d \in Calls, NextCall(d), call'[c] # call[c]
        PROVE  call'[c] = Gone \/ Kept(c)
    <2> USE DEF TypeOK
    <2>0. call[c] # Free
      BY DEF Call, Free, None
    <2>1. ASSUME NEW u \in Users, NEW r \in Restaurants, NEW cl \in Claims,
                 \/ \E paid \in BOOLEAN : StartCreate(d, u, r, paid, cl)
                 \/ \E v \in Users, x \in StaffRoles :
                       StartStaff(d, u, r, v, x, cl)
          PROVE  FALSE
      BY <1>2, <2>0, <2>1 DEF StartCreate, StartStaff
    <2>2. CASE FindOwned(d)
      <3> DEFINE rs == {r \in Restaurants :
                           mapping[<<call[d].user, r>>] = "OWNER"}
      <3>1. /\ rs \subseteq Restaurants
            /\ call' = [call EXCEPT ![d].pc = "unpaid", ![d].owned = rs]
        BY <2>2 DEF FindOwned
      <3> HIDE DEF rs
      <3>2. call'[c] = [call[c] EXCEPT !.pc = "unpaid", !.owned = rs]
        BY <1>2, <3>1
      <3> QED
        BY <3>1, <3>2, KeptBy
    <2>3. CASE FindRestaurant(d) \/ Assign(d) \/ Announce(d) \/ CallFails(d)
      <3>1. \/ call'[c] = Gone
            \/ \E pc \in {"assign", "announce", "done", "failed"} :
                  call' = [call EXCEPT ![d].pc = pc]
        BY <1>2, <2>3 DEF FindRestaurant, Assign, Announce, CallFails, Break,
                          Goto, Close
      <3>2. ASSUME NEW pc \in {"assign", "announce", "done", "failed"},
                   call' = [call EXCEPT ![d].pc = pc]
            PROVE  Kept(c)
        <4>1. call'[c] = [call[c] EXCEPT !.pc = pc]
          BY <1>2, <3>2
        <4> QED
          BY <4>1, KeptBy
      <3> QED
        BY <3>1, <3>2
    <2>4. CASE CheckUnpaid(d)
      <3>1. \/ call'[c] = Gone
            \/ call'[c] = [call[c] EXCEPT !.pc = "insert", !.owned = {}]
        BY <1>2, <2>4 DEF CheckUnpaid, Close
      <3> QED
        BY <3>1, KeptBy
    <2>5. CASE Insert(d)
      <3>1. \/ call'[c] = Gone
            \/ call'[c] = [call[c] EXCEPT !.pc = "assign", !.paid = FALSE]
        BY <1>2, <2>5 DEF Insert, Close
      <3> QED
        BY <3>1, KeptBy
    <2> QED
      BY <1>2, <2>1, <2>2, <2>3, <2>4, <2>5 DEF NextCall
  <1>3. CASE CrashRestaurants
    <2>1. call'[c] \in {call[c], [call[c] EXCEPT !.pc = "failed"], Gone}
      BY <1>3 DEF CrashRestaurants
    <2> QED
      BY <1>1, <2>1, KeptBy
  <1> QED
    BY <1>1, <1>2, <1>3, WhoCalls

\* A request is moved by itself or by the crash.
LEMMA MovesItself ==
    ASSUME TypeOK, [Next]_vars, NEW c \in Calls
    PROVE  call'[c] = call[c] \/ NextCall(c) \/ CrashRestaurants
  <1>1. ASSUME NEW d \in Calls, NextCall(d), d # c PROVE call'[c] = call[c]
    <2>1. \E x : call' = [call EXCEPT ![d] = x]
      <3>1. ASSUME NEW x, call' = [call EXCEPT ![d].pc = x]
            PROVE  \E y : call' = [call EXCEPT ![d] = y]
        BY <3>1
      <3>2. CASE FindOwned(d)
        BY <3>2 DEF FindOwned
      <3>3. CASE CheckUnpaid(d) \/ Insert(d)
        BY <3>3 DEF CheckUnpaid, Insert, Close
      <3>4. CASE FindRestaurant(d) \/ Assign(d) \/ Announce(d) \/ CallFails(d)
        BY <3>1, <3>4
        DEF FindRestaurant, Assign, Announce, CallFails, Break, Goto, Close
      <3>5. ASSUME NEW u \in Users, NEW r \in Restaurants, NEW cl \in Claims,
                   \/ \E paid \in BOOLEAN : StartCreate(d, u, r, paid, cl)
                   \/ \E v \in Users, x \in StaffRoles :
                         StartStaff(d, u, r, v, x, cl)
            PROVE  \E y : call' = [call EXCEPT ![d] = y]
        BY <3>5 DEF StartCreate, StartStaff
      <3> QED
        BY <1>1, <3>2, <3>3, <3>4, <3>5 DEF NextCall
    <2> QED
      BY <1>1, <2>1 DEF TypeOK
  <1> QED
    BY <1>1, WhoCalls

\* The steps of a request, one after the other.
Advance(c) ==
    LET from == call[c].pc
        to   == call'[c].pc
    IN  \/ FindRestaurant(c) /\ from = "find" /\ to = "assign"
        \/ FindOwned(c) /\ from = "owned" /\ to = "unpaid"
        \/ CheckUnpaid(c) /\ from = "unpaid" /\ to = "insert"
        \/ Insert(c) /\ from = "insert" /\ to = "assign"
        \/ /\ Assign(c) /\ from = "assign" /\ to = "announce"
           /\ mapping[Pair(c)] = None
        \/ /\ Announce(c) /\ from = "announce" /\ to = "done"
           /\ call[c].op = "create"
        \/ /\ from \in {"assign", "announce", "failed"} /\ to = "failed"
           /\ call[c].op = "create" /\ (Assign(c) => mapping[Pair(c)] # None)

LEMMA Advances ==
    ASSUME TypeOK, [Next]_vars, NEW c \in Calls, call[c] \in Call,
           call'[c] # call[c], call'[c] # Gone
    PROVE  Advance(c)
  <1>0. ASSUME NEW pc, NEW os, NEW paid,
               \/ call' = [call EXCEPT ![c].pc = pc]
               \/ call' = [call EXCEPT ![c].pc = pc, ![c].owned = os]
               \/ call' = [call EXCEPT ![c].pc = pc, ![c].paid = paid]
        PROVE  call'[c].pc = pc
    BY <1>0 DEF TypeOK, Call
  <1>1. CASE NextCall(c)
    <2> USE DEF Advance, At
    <2>1. ASSUME NEW u \in Users, NEW r \in Restaurants, NEW cl \in Claims,
                 \/ \E paid \in BOOLEAN : StartCreate(c, u, r, paid, cl)
                 \/ \E v \in Users, x \in StaffRoles :
                       StartStaff(c, u, r, v, x, cl)
          PROVE  FALSE
      <3>1. call[c] # Free
        BY DEF Call, Free, None
      <3> QED
        BY <2>1, <3>1 DEF StartCreate, StartStaff
    <2>2. CASE FindRestaurant(c)
      BY <1>0, <2>2 DEF FindRestaurant, Goto, Close, TypeOK
    <2>3. CASE FindOwned(c)
      <3>1. call'[c].pc = "unpaid"
        BY <1>0, <2>3 DEF FindOwned
      <3> QED
        BY <2>3, <3>1 DEF FindOwned
    <2>4. CASE CheckUnpaid(c)
      <3>1. /\ call[c].pc = "unpaid"
            /\ call' = [call EXCEPT ![c].pc = "insert", ![c].owned = {}]
        BY <2>4 DEF CheckUnpaid, Close, TypeOK
      <3>2. call'[c].pc = "insert"
        BY <1>0, <3>1
      <3> QED
        BY <2>4, <3>1, <3>2
    <2>5. CASE Insert(c)
      <3>1. /\ call[c].pc = "insert"
            /\ call' = [call EXCEPT ![c].pc = "assign", ![c].paid = FALSE]
        BY <2>5 DEF Insert, Close, TypeOK
      <3>2. call'[c].pc = "assign"
        BY <1>0, <3>1
      <3> QED
        BY <2>5, <3>1, <3>2
    <2>6. CASE Assign(c)
      <3>1. CASE mapping[Pair(c)] = None
        <4>1. call'[c].pc = "announce"
          BY <1>0, <2>6, <3>1 DEF Assign, Goto
        <4> QED
          BY <2>6, <3>1, <4>1 DEF Assign
      <3>2. CASE mapping[Pair(c)] # None
        <4>1. call[c].op = "create" /\ call'[c].pc = "failed"
          BY <1>0, <2>6, <3>2 DEF Assign, Break, Goto, Close, TypeOK
        <4> QED
          BY <2>6, <3>2, <4>1 DEF Assign
      <3> QED
        BY <3>1, <3>2
    <2>7. CASE Announce(c)
      BY <1>0, <2>7 DEF Announce, Goto, Close, TypeOK
    <2>8. CASE CallFails(c)
      <3>1. CASE call[c].pc = "assign" /\ call' = [call EXCEPT ![c].pc = "failed"]
                 /\ call[c].op = "create" /\ UNCHANGED mapping
        <4>1. call'[c].pc = "failed"
          BY <1>0, <3>1
        <4>2. Assign(c) => mapping[Pair(c)] # None
          <5>1. ASSUME Assign(c), mapping[Pair(c)] = None PROVE FALSE
            <6>1. call'[c].pc = "announce"
              BY <1>0, <5>1 DEF Assign, Goto
            <6> QED
              BY <4>1, <6>1
          <5> QED
            BY <5>1
        <4> QED
          BY <3>1, <4>1, <4>2
      <3> QED
        BY <2>8, <3>1 DEF CallFails, Break, Goto, Close, TypeOK, staffing
    <2> QED
      BY <1>1, <2>1, <2>2, <2>3, <2>4, <2>5, <2>6, <2>7, <2>8 DEF NextCall
  <1>2. CASE CrashRestaurants
    <2>1. /\ call'[c] = [call[c] EXCEPT !.pc = "failed"]
          /\ call[c].op = "create"
          /\ call[c].pc \in {"assign", "announce", "failed"}
      BY <1>2 DEF CrashRestaurants
    <2>2. call'[c].pc = "failed"
      BY <2>1 DEF Call
    <2>3. Assign(c) => mapping[Pair(c)] # None
      <3>1. ASSUME Assign(c), mapping[Pair(c)] = None PROVE FALSE
        <4>1. call'[c].pc = "announce"
          BY <1>0, <3>1 DEF Assign, Goto
        <4> QED
          BY <2>2, <4>1
      <3> QED
        BY <3>1
    <2> QED
      BY <2>1, <2>2, <2>3 DEF Advance
  <1> QED
    BY <1>1, <1>2, MovesItself

\* The request has inserted its restaurant.
Inserted(c) ==
    /\ call[c].op = "create"
    /\ call[c].pc \in {"assign", "announce", "done", "failed"}

\* A creation makes an owner, a request of the other kind does not, and each
\* takes its own steps.
FitsOp(c) ==
    /\ call[c].op = "create" => call[c].role = "OWNER" /\ call[c].pc # "find"
    /\ call[c].op = "staff" => /\ call[c].role \in StaffRoles
                               /\ call[c].pc \in {"find", "assign", "announce"}

\* Who is not yet in a request is in none before it starts.
LEMMA StartsFree ==
    ASSUME TypeOK, [Next]_vars, NEW c \in Calls, call[c] \notin Call,
           call'[c] # call[c]
    PROVE  \/ call'[c] = Gone
           \/ \E u \in Users, r \in Restaurants, cl \in Claims :
                 \/ \E paid \in BOOLEAN : StartCreate(c, u, r, paid, cl)
                 \/ \E v \in Users, x \in StaffRoles :
                       StartStaff(c, u, r, v, x, cl)
  <1>1. call[c] \in {Free, Gone}
    BY DEF TypeOK
  <1>2. CASE CrashRestaurants
    BY <1>1, <1>2 DEF CrashRestaurants, Free, Gone, None
  <1>3. CASE NextCall(c)
    <2>1. \A pc : ~At(c, pc)
      BY <1>1 DEF At, Free, Gone, None
    <2> QED
      BY <1>3, <2>1 DEF NextCall, FindRestaurant, FindOwned, CheckUnpaid,
                        Insert, Assign, Announce, CallFails
  <1> QED
    BY <1>2, <1>3, MovesItself

LEMMA FitsOpStep ==
    ASSUME TypeOK, [Next]_vars, NEW c \in Calls, FitsOp(c)
    PROVE  FitsOp(c)'
  <1>1. CASE call'[c] = call[c]
    BY <1>1 DEF FitsOp
  <1>2. CASE call'[c] = Gone
    BY <1>2 DEF FitsOp, Gone
  <1>3. CASE call[c] \in Call /\ call'[c] # call[c] /\ call'[c] # Gone
    <2>1. Advance(c) /\ Kept(c)
      BY <1>3, Advances, GoesOn
    <2>2. call[c].op \in {"create", "staff"}
      BY <1>3 DEF Call
    <2> QED
      BY <2>1, <2>2 DEF FitsOp, Kept, Advance
  <1>4. CASE call[c] \notin Call /\ call'[c] # call[c] /\ call'[c] # Gone
    <2>1. PICK u \in Users, r \in Restaurants, cl \in Claims :
             \/ \E paid \in BOOLEAN : StartCreate(c, u, r, paid, cl)
             \/ \E v \in Users, x \in StaffRoles :
                   StartStaff(c, u, r, v, x, cl)
      BY <1>4, StartsFree
    <2>2. \/ /\ call'[c].op = "create" /\ call'[c].role = "OWNER"
             /\ call'[c].pc = "owned"
          \/ /\ call'[c].op = "staff" /\ call'[c].role \in StaffRoles
             /\ call'[c].pc = "find"
      BY <2>1 DEF StartCreate, StartStaff, TypeOK
    <2> QED
      BY <2>2 DEF FitsOp
  <1> QED
    BY <1>1, <1>2, <1>3, <1>4

\* What it has inserted it does not forget; it announces what it has assigned,
\* and nothing happens to it when it is done.
LEMMA InsertedStays ==
    ASSUME TypeOK, [Next]_vars, NEW c \in Calls, Inserted(c)
    PROVE  /\ Inserted(c)' /\ Kept(c)
           /\ call[c].pc = "done" => call'[c] = call[c]
           /\ call'[c].pc \in {"announce", "done"} =>
                 \/ call[c].pc \in {"announce", "done"}
                 \/ Assign(c) /\ mapping[Pair(c)] = None
  <1>0. call[c] \in Call
    BY DEF TypeOK, Inserted, Free, Gone, None
  <1>1. CASE call'[c] = call[c]
    BY <1>0, <1>1 DEF Inserted, Kept
  <1>2. CASE call'[c] # call[c] /\ call'[c] # Gone
    <2>1. Advance(c) /\ Kept(c)
      BY <1>0, <1>2, Advances, GoesOn
    <2> QED
      BY <2>1 DEF Inserted, Kept, Advance
  <1>3. call'[c] # Gone
    <2> SUFFICES ASSUME call'[c] = Gone PROVE FALSE
      OBVIOUS
    <2>1. call'[c] # call[c]
      BY DEF Inserted, Gone
    <2>2. CASE CrashRestaurants
      <3>1. call'[c] \in {call[c], [call[c] EXCEPT !.pc = "failed"]}
        BY <2>2 DEF CrashRestaurants, Inserted, Created
      <3> QED
        BY <1>0, <2>1, <3>1 DEF Call, Gone, Inserted
    <2>3. ASSUME NEW pc, call' = [call EXCEPT ![c].pc = pc] PROVE FALSE
      BY <1>0, <2>3 DEF Call, Gone, Inserted, TypeOK
    <2>4. CASE NextCall(c)
      <3>1. ~FindRestaurant(c) /\ ~FindOwned(c) /\ ~CheckUnpaid(c) /\ ~Insert(c)
        BY DEF FindRestaurant, FindOwned, CheckUnpaid, Insert, At, Inserted
      <3>2. ~Assign(c) /\ ~Announce(c) /\ ~CallFails(c)
        BY <2>3 DEF Assign, Announce, CallFails, At, Inserted, Break, Goto
      <3>3. call[c] # Free
        BY <1>0 DEF Call, Free, None
      <3> QED
        BY <2>4, <3>1, <3>2, <3>3 DEF NextCall, StartCreate, StartStaff
    <2> QED
      BY <2>1, <2>2, <2>4, MovesItself
  <1> QED
    BY <1>1, <1>2, <1>3

\* It inserts what was not there.
LEMMA InsertedBegins ==
    ASSUME TypeOK, [Next]_vars, NEW c \in Calls, FitsOp(c),
           ~Inserted(c), Inserted(c)'
    PROVE  /\ Insert(c) /\ Kept(c)
           /\ standing[call[c].rest] = None
           /\ standing' = [standing EXCEPT ![call[c].rest] =
                             IF call[c].paid THEN "clear" ELSE "unpaid"]
           /\ call'[c].pc = "assign"
           /\ call[c].op = "create"
  <1>1. call'[c] # call[c] /\ call'[c] # Gone
    BY DEF Inserted, Gone
  <1>2. call[c] \in Call
    <2> SUFFICES ASSUME call[c] \notin Call PROVE FALSE
      OBVIOUS
    <2>1. PICK u \in Users, r \in Restaurants, cl \in Claims :
             \/ \E paid \in BOOLEAN : StartCreate(c, u, r, paid, cl)
             \/ \E v \in Users, x \in StaffRoles :
                   StartStaff(c, u, r, v, x, cl)
      BY <1>1, StartsFree
    <2>2. call'[c].pc \in {"owned", "find"}
      BY <2>1 DEF StartCreate, StartStaff, TypeOK
    <2> QED
      BY <2>2 DEF Inserted
  <1>3. Advance(c) /\ Kept(c)
    BY <1>1, <1>2, Advances, GoesOn
  <1>4. Insert(c) /\ call'[c].pc = "assign" /\ call[c].op = "create"
    BY <1>3 DEF Inserted, Kept, Advance, FitsOp
  <1> QED
    BY <1>1, <1>3, <1>4 DEF Insert, Close, TypeOK

-----------------------------------------------------------------------------
(* Owners: one creation behind every restaurant *)

InsertedIts(c) == Inserted(c) => standing[call[c].rest] # None

CreatorOwns(c) ==
    Inserted(c) /\ call[c].pc \in {"announce", "done"} =>
        Owns(call[c].user, call[c].rest)

OneCreator ==
    \A c, d \in Calls :
        Inserted(c) /\ Inserted(d) /\ call[c].rest = call[d].rest => c = d

EveryoneHasCreator ==
    \A r \in Restaurants : standing[r] # None =>
        \E c \in Calls : Inserted(c) /\ call[c].rest = r

OwnersCreated ==
    \A u \in Users, r \in Restaurants : Owns(u, r) =>
        \E c \in Calls : Inserted(c) /\ call[c].rest = r /\ call[c].user = u

OwnerInv ==
    /\ TypeOK
    /\ \A c \in Calls : FitsOp(c) /\ InsertedIts(c) /\ CreatorOwns(c)
    /\ OneCreator
    /\ EveryoneHasCreator
    /\ OwnersCreated

\* A restaurant that exists goes on existing.
LEMMA StandingStays ==
    ASSUME TypeOK, [Next]_vars, \A c \in Calls : FitsOp(c)
    PROVE  /\ \A r \in Restaurants : standing[r] # None => standing'[r] # None
           /\ \/ UNCHANGED standing
              \/ \E r \in Restaurants : ChangeStanding(r)
              \/ \E c \in Calls : Insert(c) /\ Inserted(c)' /\ ~Inserted(c)
  <1> USE DEF staffing, broker, orders
  <1>1. CASE UNCHANGED vars
    BY <1>1 DEF vars
  <1>2. ASSUME NEW c \in Calls, NextCall(c)
        PROVE  UNCHANGED standing \/ Insert(c)
    BY <1>2 DEF NextCall, StartCreate, StartStaff, FindRestaurant, FindOwned,
                CheckUnpaid, Assign, Announce, CallFails
  <1>3. ASSUME NEW c \in Calls, Insert(c)
        PROVE  /\ \A r \in Restaurants :
                      standing[r] # None => standing'[r] # None
               /\ \/ UNCHANGED standing
                  \/ Inserted(c)' /\ ~Inserted(c)
    <2>1. call[c] \in Call /\ call[c].pc = "insert"
      BY <1>3, AtTyped DEF Insert, At
    <2>2. CASE UNCHANGED standing
      BY <2>2
    <2>3. CASE /\ call' = [call EXCEPT ![c].pc = "assign", ![c].paid = FALSE]
               /\ standing[call[c].rest] = None
               /\ standing' = [standing EXCEPT ![call[c].rest] =
                                  IF call[c].paid THEN "clear" ELSE "unpaid"]
      <3>1. CASE call[c].op = "create"
        BY <2>1, <2>3, <3>1 DEF TypeOK, Inserted, Call
      <3>2. CASE call[c].op = "staff"
        BY <2>1, <3>2 DEF FitsOp
      <3> QED
        BY <2>1, <3>1, <3>2 DEF Call
    <2> QED
      BY <1>3, <2>2, <2>3 DEF Insert
  <1>4. ASSUME NEW e \in events, Moves(e) PROVE UNCHANGED standing
    BY <1>4 DEF Moves, Handle, Flush, Deliver, IsProcessed, UpsertMapping,
                MarkProcessed, Ack, Nack
  <1>5. ASSUME NEW s \in Services, NextService(s) PROVE UNCHANGED standing
    BY <1>5 DEF NextService, CheckAccess, Act
  <1>6. CASE StartConsumer \/ CrashRestaurants \/ CrashOrders
    BY <1>6 DEF StartConsumer, CrashRestaurants, CrashOrders
  <1>7. ASSUME NEW r \in Restaurants, ChangeStanding(r)
        PROVE  \A x \in Restaurants : standing[x] # None => standing'[x] # None
    BY <1>7 DEF ChangeStanding, TypeOK, None
  <1> QED
    BY <1>1, <1>2, <1>3, <1>4, <1>5, <1>6, <1>7 DEF Next, Moves

LEMMA InitOwner == Init => OwnerInv
  BY InitTyped
  DEF Init, OwnerInv, FitsOp, InsertedIts, CreatorOwns, OneCreator,
      EveryoneHasCreator, OwnersCreated, Inserted, Owns, Free, None, Pairs

\* What is inserted in the next state has been, or is just being inserted.
LEMMA InsertedNext ==
    ASSUME OwnerInv, [Next]_vars, NEW c \in Calls, Inserted(c)'
    PROVE  /\ Kept(c)
           /\ call'[c].rest \in Restaurants
           /\ call'[c].user \in Users
           /\ Inserted(c) \/ standing[call[c].rest] = None
  <1>1. Kept(c)
    BY InsertedStays, InsertedBegins DEF OwnerInv
  <1>2. Inserted(c) \/ standing[call[c].rest] = None
    BY InsertedBegins DEF OwnerInv
  <1> QED
    BY <1>1, <1>2 DEF Kept, Call

LEMMA OneCreatorStep ==
    ASSUME OwnerInv, [Next]_vars
    PROVE  OneCreator'
  <1> SUFFICES ASSUME NEW c \in Calls, NEW d \in Calls, Inserted(c)',
                      Inserted(d)', call'[c].rest = call'[d].rest
               PROVE  c = d
    BY DEF OneCreator
  <1>0. TypeOK /\ FitsOp(c) /\ FitsOp(d)
    BY DEF OwnerInv
  <1>1. call[c].rest = call[d].rest
    BY InsertedNext DEF Kept
  <1>2. CASE Inserted(c) /\ Inserted(d)
    BY <1>1, <1>2 DEF OwnerInv, OneCreator
  <1>3. ~(Inserted(c) /\ ~Inserted(d)) /\ ~(~Inserted(c) /\ Inserted(d))
    BY <1>1, InsertedNext DEF OwnerInv, InsertedIts
  <1>4. CASE ~Inserted(c) /\ ~Inserted(d)
    <2>1. Insert(c) /\ Insert(d) /\ standing[call[c].rest] = None
          /\ call'[d].pc = "assign" /\ At(d, "insert")
      BY <1>0, <1>4, InsertedBegins DEF Insert
    <2>2. call[d] \in Call /\ call[d].pc = "insert"
      BY <1>0, <2>1, AtTyped DEF At
    <2>3. c # d => call'[d] = call[d]
      BY <1>0, <2>1 DEF Insert, Close, TypeOK
    <2> QED
      BY <2>1, <2>2, <2>3
  <1> QED
    BY <1>2, <1>3, <1>4

LEMMA EveryoneStep ==
    ASSUME OwnerInv, [Next]_vars
    PROVE  EveryoneHasCreator'
  <1>0. TypeOK /\ \A c \in Calls : FitsOp(c)
    BY DEF OwnerInv
  <1> SUFFICES ASSUME NEW r \in Restaurants, standing'[r] # None
               PROVE  \E c \in Calls : Inserted(c)' /\ call'[c].rest = r
    BY DEF EveryoneHasCreator
  <1>1. CASE standing[r] # None
    <2>1. PICK c \in Calls : Inserted(c) /\ call[c].rest = r
      BY <1>1 DEF OwnerInv, EveryoneHasCreator
    <2> QED
      BY <1>0, <2>1, InsertedStays DEF Kept
  <1>2. CASE standing[r] = None
    <2>1. ASSUME NEW x \in Restaurants, ChangeStanding(x) PROVE FALSE
      BY <1>0, <1>2, <2>1 DEF ChangeStanding, TypeOK
    <2>2. PICK c \in Calls : Insert(c) /\ Inserted(c)' /\ ~Inserted(c)
      BY <1>0, <1>2, <2>1, StandingStays
    <2>3. call[c].rest = r /\ Kept(c)
      BY <1>0, <1>2, <2>2, InsertedBegins DEF TypeOK
    <2> QED
      BY <2>2, <2>3 DEF Kept
  <1> QED
    BY <1>1, <1>2

LEMMA OwnersStep ==
    ASSUME OwnerInv, [Next]_vars
    PROVE  OwnersCreated'
  <1>0. TypeOK /\ \A c \in Calls : FitsOp(c)
    BY DEF OwnerInv
  <1> SUFFICES ASSUME NEW u \in Users, NEW r \in Restaurants,
                      mapping'[<<u, r>>] = "OWNER"
               PROVE  \E c \in Calls : /\ Inserted(c)'
                                       /\ call'[c].rest = r
                                       /\ call'[c].user = u
    BY DEF OwnersCreated, Owns
  <1>1. CASE Owns(u, r)
    <2>1. PICK c \in Calls : Inserted(c) /\ call[c].rest = r /\ call[c].user = u
      BY <1>1 DEF OwnerInv, OwnersCreated
    <2> QED
      BY <1>0, <2>1, InsertedStays DEF Kept
  <1>2. CASE ~Owns(u, r)
    <2>1. PICK c \in Calls : Assign(c)
      BY <1>2, WhoAssigns DEF Owns
    <2>2. /\ call[c] \in Call /\ Pair(c) \in Pairs /\ call[c].pc = "assign"
      BY <1>0, <2>1, AtTyped DEF Assign, At
    <2>3. /\ Pair(c) = <<u, r>> /\ call[c].role = "OWNER"
      BY <1>0, <1>2, <2>1, <2>2 DEF Assign, Owns, TypeOK, Pairs
    <2>4. call[c].op = "create"
      BY <1>0, <2>2, <2>3, StaffRolesAssumption DEF FitsOp, Call
    <2>5. Inserted(c) /\ call[c].user = u /\ call[c].rest = r
      BY <2>2, <2>3, <2>4 DEF Inserted, Pair
    <2> QED
      BY <1>0, <2>5, InsertedStays DEF Kept
  <1> QED
    BY <1>1, <1>2

LEMMA CreatorStep ==
    ASSUME OwnerInv, [Next]_vars, NEW c \in Calls
    PROVE  InsertedIts(c)' /\ CreatorOwns(c)'
  <1>0. TypeOK /\ \A d \in Calls : FitsOp(d)
    BY DEF OwnerInv
  <1> SUFFICES ASSUME Inserted(c)'
               PROVE  InsertedIts(c)' /\ CreatorOwns(c)'
    BY DEF InsertedIts, CreatorOwns
  <1>1. /\ Kept(c) /\ call[c].rest \in Restaurants /\ call[c].user \in Users
        /\ <<call[c].user, call[c].rest>> \in Pairs
    BY InsertedNext DEF Kept, Pairs
  <1>2. CASE Inserted(c)
    <2>1. standing'[call[c].rest] # None
      BY <1>0, <1>1, <1>2, StandingStays DEF OwnerInv, InsertedIts
    <2>2. CASE call[c].pc \in {"announce", "done"}
      <3>1. mapping[<<call[c].user, call[c].rest>>] = "OWNER"
        BY <1>2, <2>2 DEF OwnerInv, CreatorOwns, Owns
      <3>2. mapping'[<<call[c].user, call[c].rest>>] = "OWNER"
        BY <1>0, <1>1, <3>1, AssignmentStays DEF None
      <3> QED
        BY <1>1, <2>1, <3>2 DEF InsertedIts, CreatorOwns, Owns, Kept
    <2>3. CASE Assign(c) /\ mapping[Pair(c)] = None
      <3>1. call[c].role = "OWNER"
        BY <1>0, <1>2 DEF FitsOp, Inserted
      <3>2. mapping'[<<call[c].user, call[c].rest>>] = "OWNER"
        BY <1>0, <1>1, <2>3, <3>1 DEF Assign, Pair, TypeOK
      <3> QED
        BY <1>1, <2>1, <3>2 DEF InsertedIts, CreatorOwns, Owns, Kept
    <2>4. CASE call'[c].pc \notin {"announce", "done"}
      BY <1>1, <2>1, <2>4 DEF InsertedIts, CreatorOwns, Kept
    <2> QED
      BY <1>0, <1>2, <2>2, <2>3, <2>4, InsertedStays
  <1>3. CASE ~Inserted(c)
    <2>1. /\ standing' = [standing EXCEPT ![call[c].rest] =
                             IF call[c].paid THEN "clear" ELSE "unpaid"]
          /\ call'[c].pc = "assign"
      BY <1>0, <1>3, InsertedBegins
    <2>2. standing'[call[c].rest] # None
      BY <1>0, <1>1, <2>1 DEF TypeOK, None
    <2> QED
      BY <1>1, <2>1, <2>2 DEF InsertedIts, CreatorOwns, Kept
  <1> QED
    BY <1>2, <1>3

LEMMA OwnerStep ==
    ASSUME OwnerInv, [Next]_vars
    PROVE  OwnerInv'
  <1>1. \A c \in Calls : FitsOp(c)'
    BY FitsOpStep DEF OwnerInv
  <1> QED
    BY <1>1, NextTyped, CreatorStep, OneCreatorStep, EveryoneStep, OwnersStep
    DEF OwnerInv

\* The invariant holds in every state.
THEOREM Ownership == Spec => []OwnerInv
  <1>1. OwnerInv /\ [Next]_vars => OwnerInv'
    BY OwnerStep
  <1> QED
    BY InitOwner, <1>1, PTL DEF Spec

\* A restaurant has one owner, who created it, unless its creation is about to
\* assign him or ended there.
THEOREM OwnerTheorem == Spec => []OwnerUnlessCutShort
  <1>1. OwnerInv => OwnerUnlessCutShort
    <2> SUFFICES ASSUME OwnerInv, NEW r \in Restaurants, standing[r] # None
                 PROVE  \E c \in Calls :
                          /\ call[c].op = "create"
                          /\ call[c].rest = r
                          /\ \A u \in Users : Owns(u, r) => u = call[c].user
                          /\ \/ Owns(call[c].user, r)
                             \/ call[c].pc \in {"assign", "failed"}
      BY DEF OwnerUnlessCutShort
    <2>1. PICK c \in Calls : Inserted(c) /\ call[c].rest = r
      BY DEF OwnerInv, EveryoneHasCreator
    <2>2. ASSUME NEW u \in Users, Owns(u, r) PROVE u = call[c].user
      <3>1. PICK d \in Calls : /\ Inserted(d) /\ call[d].rest = r
                               /\ call[d].user = u
        BY <2>2 DEF OwnerInv, OwnersCreated
      <3> QED
        BY <2>1, <3>1 DEF OwnerInv, OneCreator
    <2>3. Owns(call[c].user, r) \/ call[c].pc \in {"assign", "failed"}
      BY <2>1 DEF OwnerInv, CreatorOwns, Inserted
    <2> QED
      BY <2>1, <2>2, <2>3 DEF Inserted
  <1> QED
    BY Ownership, <1>1, PTL

-----------------------------------------------------------------------------
(* Unpaid restaurants: a creation sees those that were done when it started *)

Sees(c, d) ==
    call[d].op = "create" /\ c \in call[d].after =>
        /\ c \in Created
        /\ call[c].user = call[d].user =>
              /\ call[d].pc = "unpaid" => call[c].rest \in call[d].owned
              /\ standing[call[c].rest] = "unpaid" =>
                    call[d].pc \in {"owned", "unpaid"}

UnpaidInv == OwnerInv /\ \A c, d \in Calls : Sees(c, d)

LEMMA InitUnpaid == Init => UnpaidInv
  BY InitOwner DEF Init, UnpaidInv, Sees, Free, None

\* Only a new restaurant has never been paid for.
LEMMA NeverUnpaidAgain ==
    ASSUME OwnerInv, [Next]_vars, NEW r \in Restaurants,
           standing[r] # None, standing'[r] = "unpaid"
    PROVE  standing[r] = "unpaid"
  <1>0. TypeOK /\ \A c \in Calls : FitsOp(c)
    BY DEF OwnerInv
  <1>1. ASSUME NEW x \in Restaurants, ChangeStanding(x)
        PROVE  standing[r] = "unpaid"
    BY <1>0, <1>1 DEF ChangeStanding, TypeOK
  <1>2. ASSUME NEW c \in Calls, Insert(c), Inserted(c)', ~Inserted(c)
        PROVE  standing[r] = "unpaid"
    BY <1>0, <1>2, InsertedBegins DEF TypeOK
  <1> QED
    BY <1>0, <1>1, <1>2, StandingStays

LEMMA SeesStep ==
    ASSUME OwnerInv, [Next]_vars, NEW c \in Calls, NEW d \in Calls, Sees(c, d)
    PROVE  Sees(c, d)'
  <1>0. TypeOK /\ \A x \in Calls : FitsOp(x)
    BY DEF OwnerInv
  <1> SUFFICES ASSUME call'[d].op = "create", c \in call'[d].after
               PROVE  Sees(c, d)'
    BY DEF Sees
  <1>1. call'[d] # Gone
    BY DEF Gone
  <1>2. ASSUME c \in Created
        PROVE  /\ call'[c] = call[c] /\ c \in Created'
               /\ call[c].rest \in Restaurants
               /\ Owns(call[c].user, call[c].rest)
               /\ standing'[call[c].rest] = "unpaid" =>
                     standing[call[c].rest] = "unpaid"
    <2>1. Inserted(c) /\ call[c].pc = "done"
      BY <1>2 DEF Created, Inserted
    <2>2. call'[c] = call[c] /\ Kept(c)
      BY <1>0, <2>1, InsertedStays
    <2>3. c \in Created'
      BY <1>2, <2>2 DEF Created
    <2>4. call[c].rest \in Restaurants
      BY <2>2 DEF Kept, Call
    <2> QED
      BY <2>1, <2>2, <2>3, <2>4, NeverUnpaidAgain
      DEF OwnerInv, InsertedIts, CreatorOwns
  <1>3. CASE call[d] \in Call
    <2>1. Kept(d)
      BY <1>0, <1>1, <1>3, GoesOn
    <2>2. c \in Created /\ call[d].op = "create" /\ c \in call[d].after
      BY <2>1 DEF Kept, Sees
    <2>3. CASE call'[d] = call[d]
      BY <1>2, <2>2, <2>3 DEF Sees
    <2>4. CASE FindOwned(d)
      <3> DEFINE rs == {r \in Restaurants :
                           mapping[<<call[d].user, r>>] = "OWNER"}
      <3>1. call' = [call EXCEPT ![d].pc = "unpaid", ![d].owned = rs]
        BY <2>4 DEF FindOwned
      <3>2. call[c].user = call[d].user => call[c].rest \in rs
        BY <1>2, <2>2 DEF Owns
      <3> HIDE DEF rs
      <3>3. call'[d].pc = "unpaid" /\ call'[d].owned = rs
            /\ call'[d].user = call[d].user
        BY <1>0, <1>3, <3>1 DEF TypeOK, Call
      <3> QED
        BY <1>2, <2>2, <3>2, <3>3 DEF Sees
    <2>5. CASE CheckUnpaid(d) /\ call[d].pc = "unpaid" /\ call'[d].pc = "insert"
      <3>1. UNCHANGED standing /\ ~ \E r \in call[d].owned : Blocking(r)
        BY <1>0, <1>1, <2>5 DEF CheckUnpaid, Close, TypeOK
      <3>2. call[c].user = call[d].user => standing[call[c].rest] # "unpaid"
        BY <2>2, <2>5, <3>1 DEF Sees, Blocking
      <3> QED
        BY <1>2, <2>1, <2>2, <2>5, <3>1, <3>2 DEF Sees, Kept
    <2>6. CASE call[d].pc \notin {"owned", "unpaid"} /\ call'[d].pc # "unpaid"
      BY <1>2, <2>1, <2>2, <2>6 DEF Sees, Kept
    <2>7. CASE call'[d] # call[d]
      <3>1. Advance(d)
        BY <1>0, <1>1, <1>3, <2>7, Advances
      <3> QED
        BY <2>4, <2>5, <2>6, <3>1 DEF Advance
    <2> QED
      BY <2>3, <2>7
  <1>4. CASE call[d] \notin Call /\ call'[d] # call[d]
    <2>1. PICK u \in Users, r \in Restaurants, cl \in Claims :
             \/ \E paid \in BOOLEAN : StartCreate(d, u, r, paid, cl)
             \/ \E v \in Users, x \in StaffRoles :
                   StartStaff(d, u, r, v, x, cl)
      BY <1>0, <1>1, <1>4, StartsFree
    <2>2. call'[d].pc = "owned" /\ call'[d].after = Created
      BY <1>0, <2>1 DEF StartCreate, StartStaff, TypeOK
    <2>3. c \in Created
      BY <2>2
    <2> QED
      BY <1>2, <2>2, <2>3 DEF Sees
  <1>5. CASE call[d] \notin Call /\ call'[d] = call[d]
    <2>1. FALSE
      BY <1>0, <1>5 DEF TypeOK, Free, Gone, None
    <2> QED
      BY <2>1
  <1> QED
    BY <1>3, <1>4, <1>5

\* Two restaurants of one owner that were never paid for were created by
\* requests that overlapped.
THEOREM UnpaidTheorem == Spec => []UnpaidBlocksTheNext
  <1>1. UnpaidInv /\ [Next]_vars => UnpaidInv'
    BY OwnerStep, SeesStep DEF UnpaidInv
  <1>2. UnpaidInv => UnpaidBlocksTheNext
    BY DEF UnpaidInv, Sees, UnpaidBlocksTheNext
  <1> QED
    BY InitUnpaid, <1>1, <1>2, PTL DEF Spec

=============================================================================
