---------------------- MODULE RestaurantLifecycle_proofs ----------------------
(***************************************************************************)
(* The safety properties of RestaurantLifecycle, for any number of menus   *)
(* and of requests in flight, with and without the verification setting.   *)
(*                                                                         *)
(* Every update a request may have in flight is sound to apply to any      *)
(* sound document (UpdateIsSound says so of the update alone), so it does  *)
(* not matter how old the document was from which it was concluded.        *)
(***************************************************************************)
EXTENDS RestaurantLifecycle, TLAPS

LEMMA Initially == Init => IInv /\ OneAtATime
<1> SUFFICES ASSUME Init PROVE IInv /\ OneAtATime
  OBVIOUS
<1> USE DEF Init, Idle
<1>1. Nothing \in Update /\ NewDoc \in Doc
  BY DEF Nothing, Update, Keep, NewDoc, Doc, Statuses, Visibilities,
         Subscriptions, Verifications
<1>2. TypeOK
  BY <1>1 DEF TypeOK, Pcs, MaybeMenu
<1>3. OpenIsVetted /\ StatusIsCoherent /\ ShownIsVetted
  BY DEF OpenIsVetted, StatusIsCoherent, ShownIsVetted, NewDoc
<1>4. UpdatesInFlight /\ MenusInFlight /\ (MeetsGate(doc) => vetted)
  BY DEF UpdatesInFlight, MenusInFlight, MeetsGate, NewDoc
<1>5. OneAtATime
  BY DEF OneAtATime, MenuPcs
<1> QED
  BY <1>2, <1>3, <1>4, <1>5 DEF IInv

-----------------------------------------------------------------------------
(* Updates *)

LEMMA NothingKeeps ==
  /\ Nothing \in Update
  /\ Nothing.status = Keep /\ Nothing.visibility = Keep
  /\ Nothing.subscription = Keep /\ Nothing.verification = Keep
  /\ Nothing.blockers = {Keep} /\ Nothing.suspendedAt = Keep
  /\ Nothing.restoreFee = Keep
BY DEF Nothing, Update, Keep

\* What applying an update must keep.
DocSound ==
    /\ doc \in Doc /\ vetted \in BOOLEAN
    /\ OpenIsVetted /\ StatusIsCoherent
    /\ MeetsGate(doc) => vetted

LEMMA ApplySound ==
  ASSUME IInv, NEW w \in Update, UpdateIsSound(w), Apply(w),
         w.status = "ACTIVE" \/ w.visibility = "PUBLIC" => vetted'
  PROVE  DocSound' /\ (vetted => vetted')
<1>1. doc \in Doc /\ vetted \in BOOLEAN /\ StatusIsCoherent /\ OpenIsVetted
  BY DEF IInv, TypeOK
<1>2. /\ doc'.status = Or(w.status, doc.status)
      /\ doc'.visibility = Or(w.visibility, doc.visibility)
      /\ doc'.blockers = IF w.blockers = {Keep} THEN doc.blockers
                         ELSE w.blockers
      /\ doc'.suspendedAt = Or(w.suspendedAt, doc.suspendedAt)
      /\ doc'.restoreFee = Or(w.restoreFee, doc.restoreFee)
  BY DEF Apply, Store
<1>3. doc' \in Doc
  BY <1>1 DEF Apply, Store, Or, Update, Doc, Keep
<1>4. /\ vetted' = (vetted \/ MeetsGate(doc'))
      /\ vetted' \in BOOLEAN
  BY <1>1 DEF Apply, Store, MeetsGate
<1>5. OpenIsVetted'
  BY <1>1, <1>2, <1>4 DEF OpenIsVetted, Or, Keep
<1>6. StatusIsCoherent'
  <2>1. CASE w.status = Keep
    BY <2>1, <1>1, <1>2, <1>3
       DEF StatusIsCoherent, UpdateIsSound, Or, Keep, Doc, Statuses, Update
  <2>2. CASE w.status # Keep
    <3>1. doc'.status = w.status /\ w.status \in Statuses
      BY <2>2, <1>2 DEF Or, Update
    <3>2. CASE w.status = "ACTIVE"
      BY <3>1, <3>2, <1>2
         DEF StatusIsCoherent, UpdateIsSound, Or, Keep, Statuses
    <3>3. CASE w.status = "PENDING_SUBSCRIPTION"
      BY <3>1, <3>3, <1>2
         DEF StatusIsCoherent, UpdateIsSound, Keep, Statuses
    <3>4. CASE w.status = "PENDING_VERIFICATION"
      BY <3>1, <3>4, <1>2
         DEF StatusIsCoherent, UpdateIsSound, Keep, Statuses, Blockers
    <3>5. CASE w.status \in {"SUSPENDED", "ARCHIVED"}
      BY <3>1, <3>5, <1>2
         DEF StatusIsCoherent, UpdateIsSound, Or, Keep, Statuses
    <3> QED
      BY <3>1, <3>2, <3>3, <3>4, <3>5 DEF UpdateIsSound, Statuses
  <2> QED
    BY <2>1, <2>2
<1> QED
  BY <1>3, <1>4, <1>5, <1>6 DEF DocSound

\* The conclusions of the gate, with what publishing or unsuspending adds.
LEMMA GateSound ==
  ASSUME IInv, NEW x \in {"null", Keep}, NextStatus(doc) = "ACTIVE" => x = "null"
  PROVE  LET w == GateUpdate(doc, x)
         IN  w \in Update /\ UpdateIsSound(w) /\ UpdateIsEarned(w)
<1> DEFINE w == GateUpdate(doc, x)
<1>1. doc \in Doc /\ (MeetsGate(doc) => vetted)
  BY DEF IInv, TypeOK
<1>2. /\ GateBlockers(doc) \in SUBSET Blockers
      /\ GateBlockers(doc) = {} => MeetsGate(doc)
  BY <1>1, SettingAssumption
     DEF GateBlockers, Blockers, MeetsGate, Doc, Verifications
<1>3. /\ NextStatus(doc) \in {"ACTIVE", "PENDING_SUBSCRIPTION",
                             "PENDING_VERIFICATION"}
      /\ NextStatus(doc) = "ACTIVE" => GateBlockers(doc) = {}
      /\ NextStatus(doc) = "PENDING_SUBSCRIPTION" =>
            "SUBSCRIPTION_INACTIVE" \in GateBlockers(doc)
      /\ NextStatus(doc) = "PENDING_VERIFICATION" =>
            /\ GateBlockers(doc) # {}
            /\ "SUBSCRIPTION_INACTIVE" \notin GateBlockers(doc)
  BY DEF NextStatus
<1>4. /\ w \in Update
      /\ w.status = NextStatus(doc) /\ w.blockers = GateBlockers(doc)
      /\ w.visibility = IF NextStatus(doc) = "ACTIVE" THEN "PUBLIC"
                        ELSE "HIDDEN"
      /\ w.suspendedAt = x /\ w.restoreFee = Keep
  BY <1>2, <1>3, NothingKeeps
     DEF GateUpdate, Update, Keep, Statuses, Visibilities
<1> HIDE DEF w
<1>6. UpdateIsSound(w)
  BY <1>2, <1>3, <1>4 DEF UpdateIsSound, Keep
<1>7. UpdateIsEarned(w)
  BY <1>1, <1>2, <1>3, <1>4 DEF UpdateIsEarned
<1> QED
  BY <1>4, <1>6, <1>7 DEF w

-----------------------------------------------------------------------------
(* The requests that only decide *)

LEMMA AskKeeps ==
  ASSUME IInv, NEW r \in Requests, NEW pc \in {"store", "storeRebuild"},
         NEW w \in Update, UpdateIsSound(w), UpdateIsEarned(w),
         Ask(r, pc, w), OnlyReq
  PROVE  IInv'
<1>1. /\ req'[r] = [pc |-> pc, set |-> w, content |-> NoMenu]
      /\ \A q \in Requests \ {r} : req'[q] = req[q]
      /\ req' \in [Requests -> [pc : Pcs, set : Update, content : MaybeMenu]]
  BY DEF IInv, TypeOK, Ask, Pcs, MaybeMenu
<1>2. TypeOK'
  BY <1>1 DEF IInv, TypeOK, OnlyReq, public
<1>3. OpenIsVetted' /\ StatusIsCoherent' /\ ShownIsVetted'
      /\ (MeetsGate(doc) => vetted)'
  BY DEF IInv, OnlyReq, public, OpenIsVetted, StatusIsCoherent, ShownIsVetted,
         MeetsGate
<1>4. UpdatesInFlight'
  BY <1>1 DEF IInv, UpdatesInFlight, UpdateIsSound, UpdateIsEarned, OnlyReq
<1>5. MenusInFlight'
  BY <1>1 DEF IInv, MenusInFlight, OnlyReq
<1> QED
  BY <1>2, <1>3, <1>4, <1>5 DEF IInv

\* What each of them asks for is sound.
LEMMA DecisionStep ==
  ASSUME IInv, NEW r \in Requests, NEW s \in Subscriptions,
         \/ UpdateRestaurant(r, s) \/ UpdateSubscription(r, s)
         \/ RequestPublish(r) \/ ArchiveRestaurant(r)
         \/ VerifyRestaurant(r) \/ UnsuspendRestaurant(r)
  PROVE  IInv' /\ OnlyReq /\ req'[r].pc \notin MenuPcs /\ req[r].pc = "idle"
         /\ \A q \in Requests \ {r} : req'[q] = req[q]
<1> SUFFICES ASSUME NEW pc \in {"store", "storeRebuild"}, NEW w \in Update,
                    UpdateIsSound(w), UpdateIsEarned(w), Ask(r, pc, w), OnlyReq,
                    req[r].pc = "idle"
             PROVE  IInv' /\ req'[r].pc \notin MenuPcs
                    /\ \A q \in Requests \ {r} : req'[q] = req[q]
  <2> DEFINE Asks(w) == /\ w \in Update /\ UpdateIsSound(w) /\ UpdateIsEarned(w)
                        /\ Ask(r, "store", w) \/ Ask(r, "storeRebuild", w)
  <2>1. \A v \in Visibilities :
           (v = "PUBLIC" => doc.status = "ACTIVE") =>
             /\ LET w == [Nothing EXCEPT !.subscription = s, !.visibility = v]
                IN  w \in Update /\ UpdateIsSound(w) /\ UpdateIsEarned(w)
             /\ LET w == [Nothing EXCEPT !.verification = "VERIFIED",
                                         !.visibility = v]
                IN  w \in Update /\ UpdateIsSound(w) /\ UpdateIsEarned(w)
    BY NothingKeeps DEF Update, UpdateIsSound, UpdateIsEarned, Keep, Statuses,
           Visibilities, Subscriptions, Verifications, IInv, OpenIsVetted
  <2>2. LET w == [Nothing EXCEPT !.subscription = s]
        IN  w \in Update /\ UpdateIsSound(w) /\ UpdateIsEarned(w)
    BY NothingKeeps DEF Update, UpdateIsSound, UpdateIsEarned, Keep, Statuses,
           Subscriptions
  <2>3. LET w == [Nothing EXCEPT !.status = "ARCHIVED", !.visibility = "HIDDEN",
                                 !.restoreFee = "required"]
        IN  w \in Update /\ UpdateIsSound(w) /\ UpdateIsEarned(w)
    BY NothingKeeps DEF Update, UpdateIsSound, UpdateIsEarned, Keep, Statuses,
           Visibilities
  <2>4. /\ ToVisibility([doc EXCEPT !.subscription = s]) \in Visibilities
        /\ ToVisibility([doc EXCEPT !.subscription = s]) = "PUBLIC" =>
              doc.status = "ACTIVE"
        /\ ToVisibility([doc EXCEPT !.verification = "VERIFIED"]) \in Visibilities
        /\ ToVisibility([doc EXCEPT !.verification = "VERIFIED"]) = "PUBLIC" =>
              doc.status = "ACTIVE"
    BY DEF ToVisibility, Visibilities, IInv, TypeOK, Doc
  <2>5. \E w \in Update : Asks(w)
    <3>1. CASE UpdateRestaurant(r, s)
      BY <3>1, <2>2 DEF UpdateRestaurant
    <3>2. CASE UpdateSubscription(r, s)
      BY <3>2, <2>1, <2>4 DEF UpdateSubscription
    <3>3. CASE VerifyRestaurant(r)
      BY <3>3, <2>1, <2>4 DEF VerifyRestaurant
    <3>4. CASE ArchiveRestaurant(r)
      BY <3>4, <2>3 DEF ArchiveRestaurant
    <3>5. CASE RequestPublish(r)
      BY <3>5, GateSound DEF RequestPublish, Keep
    <3>6. CASE UnsuspendRestaurant(r)
      BY <3>6, GateSound DEF UnsuspendRestaurant
    <3> QED
      BY <3>1, <3>2, <3>3, <3>4, <3>5, <3>6
  <2>6. OnlyReq /\ req[r].pc = "idle"
    BY DEF UpdateRestaurant, UpdateSubscription, VerifyRestaurant, Reads,
           ArchiveRestaurant, RequestPublish, UnsuspendRestaurant
  <2> QED
    BY <2>5, <2>6
<1>1. IInv'
  BY AskKeeps
<1> QED
  BY <1>1 DEF IInv, TypeOK, Ask, MenuPcs
-----------------------------------------------------------------------------
(* The writes *)

ReqTypes == [pc : Pcs, set : Update, content : MaybeMenu]

\* A sound document is all that matters of a write.
LEMMA DocWritten ==
  ASSUME IInv, DocSound', vetted => vetted', UNCHANGED <<menu, public>>,
         created' \in BOOLEAN, disturbed' \in BOOLEAN,
         req' \in [Requests -> ReqTypes],
         \A q \in Requests : req'[q] = req[q] \/ req'[q].pc \in {"idle", "rebuild"}
  PROVE  IInv'
<1>1. TypeOK'
  BY DEF IInv, TypeOK, DocSound, public, ReqTypes
<1>2. OpenIsVetted' /\ StatusIsCoherent' /\ (MeetsGate(doc) => vetted)'
  BY DEF DocSound
<1>3. ShownIsVetted'
  BY DEF IInv, ShownIsVetted, public
<1>4. UpdatesInFlight'
  BY DEF IInv, UpdatesInFlight, UpdateIsSound, UpdateIsEarned
<1>5. MenusInFlight'
  BY DEF IInv, MenusInFlight
<1> QED
  BY <1>1, <1>2, <1>3, <1>4, <1>5 DEF IInv

LEMMA CreateStep == ASSUME IInv, CreateRestaurant PROVE IInv'
<1>1. DocSound' /\ (vetted => vetted')
  <2>1. NewDoc \in Doc
    BY DEF NewDoc, Doc, Statuses, Visibilities, Subscriptions, Verifications
  <2>2. vetted \in BOOLEAN
    BY DEF IInv, TypeOK
  <2>3. CASE Store(NewDoc)
    BY <2>1, <2>2, <2>3 DEF Store, DocSound, OpenIsVetted, StatusIsCoherent,
                            MeetsGate, NewDoc
  <2>4. CASE Store([NewDoc EXCEPT !.status = "ACTIVE", !.visibility = "PUBLIC",
                                  !.subscription = "ACTIVE",
                                  !.verification = "VERIFIED"])
    <3>1. /\ doc' \in Doc /\ doc'.status = "ACTIVE"
          /\ doc'.subscription = "ACTIVE" /\ doc'.verification = "VERIFIED"
          /\ doc'.blockers = {} /\ doc'.suspendedAt = "null"
      BY <2>4 DEF Store, NewDoc, Doc, Statuses, Visibilities, Subscriptions,
                  Verifications
    <3>2. vetted' = (vetted \/ MeetsGate(doc')) /\ MeetsGate(doc')
      BY <2>4, <3>1 DEF Store, MeetsGate
    <3> QED
      BY <2>2, <3>1, <3>2 DEF DocSound, OpenIsVetted, StatusIsCoherent
  <2> QED
    BY <2>3, <2>4 DEF CreateRestaurant
<1>2. /\ UNCHANGED <<menu, public, req>>
      /\ created' \in BOOLEAN /\ disturbed' \in BOOLEAN
      /\ req' \in [Requests -> ReqTypes]
  BY DEF CreateRestaurant, IInv, TypeOK, ReqTypes
<1> QED
  BY <1>1, <1>2, DocWritten

\* The writes that need no request in flight.
LEMMA ReviewStep ==
  ASSUME IInv, UnverifyRestaurant \/ RejectVerification \/ PaymentSucceeds
  PROVE  IInv'
<1>1. DocSound' /\ (vetted => vetted')
  <2>1. CASE UnverifyRestaurant
    <3> DEFINE w == [Nothing EXCEPT !.verification = "UNVERIFIED",
                                    !.visibility = "HIDDEN"]
    <3>1. w \in Update /\ UpdateIsSound(w) /\ w.status # "ACTIVE"
          /\ w.visibility # "PUBLIC"
      BY NothingKeeps DEF Update, UpdateIsSound, Keep, Visibilities,
                          Verifications
    <3>2. Apply(w)
      BY <2>1 DEF UnverifyRestaurant
    <3> QED
      BY <3>1, <3>2, ApplySound
  <2>2. CASE RejectVerification
    <3> DEFINE w == [Nothing EXCEPT !.verification = "REJECTED",
                                    !.status = "PENDING_VERIFICATION",
                                    !.visibility = "HIDDEN",
                                    !.blockers = {"VERIFICATION_REJECTED"}]
    <3>1. w \in Update /\ UpdateIsSound(w) /\ w.status # "ACTIVE"
          /\ w.visibility # "PUBLIC"
      BY NothingKeeps DEF Update, UpdateIsSound, Keep, Visibilities,
                          Verifications, Statuses, Blockers
    <3>2. Apply(w)
      BY <2>2 DEF RejectVerification
    <3> QED
      BY <3>1, <3>2, ApplySound
  <2>3. CASE PaymentSucceeds
    <3> DEFINE w == Activation
    <3>1. w \in Update /\ UpdateIsSound(w)
      BY DEF Activation, Update, UpdateIsSound, Keep, Visibilities,
             Verifications, Subscriptions, Statuses
    <3>2. Apply(w)
      BY <2>3 DEF PaymentSucceeds
    <3>3. doc'.subscription = "ACTIVE" /\ doc'.verification = "VERIFIED"
      BY <3>2 DEF Activation, Apply, Store, Or, Keep
    <3>4. vetted'
      BY <3>2, <3>3 DEF Apply, Store, MeetsGate
    <3> HIDE DEF w
    <3> QED
      BY <3>1, <3>2, <3>4, ApplySound
  <2> QED
    BY <2>1, <2>2, <2>3
<1>2. /\ UNCHANGED <<menu, public, req, created, disturbed>>
      /\ created' \in BOOLEAN /\ disturbed' \in BOOLEAN
      /\ req' \in [Requests -> ReqTypes]
  BY DEF UnverifyRestaurant, RejectVerification, PaymentSucceeds, IInv, TypeOK,
         ReqTypes
<1> QED
  BY <1>1, <1>2, DocWritten

\* The writes of requests.
LEMMA StoreStep ==
  ASSUME IInv, NEW r \in Requests,
         SuspendRestaurant(r) \/ Stores(r) \/ StoresThenRebuilds(r)
  PROVE  IInv'
<1>1. DocSound' /\ (vetted => vetted')
  <2>1. CASE SuspendRestaurant(r)
    <3> DEFINE w == [Nothing EXCEPT !.status = "SUSPENDED",
                                    !.visibility = "HIDDEN",
                                    !.suspendedAt = "set"]
    <3>1. w \in Update /\ UpdateIsSound(w) /\ w.status # "ACTIVE"
          /\ w.visibility # "PUBLIC"
      BY NothingKeeps DEF Update, UpdateIsSound, Keep, Visibilities, Statuses
    <3>2. Apply(w)
      BY <2>1 DEF SuspendRestaurant
    <3> QED
      BY <3>1, <3>2, ApplySound
  <2>2. CASE Stores(r) \/ StoresThenRebuilds(r)
    <3> DEFINE w == req[r].set
    <3>1. req[r].pc \in {"store", "storeRebuild"} /\ Apply(w)
      BY <2>2 DEF Stores, StoresThenRebuilds
    <3>2. w \in Update /\ UpdateIsSound(w) /\ UpdateIsEarned(w)
      BY <3>1 DEF IInv, TypeOK, UpdatesInFlight
    <3>3. vetted => vetted'
      BY <3>1 DEF Apply, Store
    <3> HIDE DEF w
    <3> QED
      BY <3>1, <3>2, <3>3, ApplySound DEF UpdateIsEarned
  <2> QED
    BY <2>1, <2>2
<1>2. /\ UNCHANGED <<menu, public, created>>
      /\ created' \in BOOLEAN /\ disturbed' \in BOOLEAN
  BY DEF SuspendRestaurant, Stores, StoresThenRebuilds, Begins, IInv, TypeOK
<1>3. /\ req' \in [Requests -> ReqTypes]
      /\ \A q \in Requests : req'[q] = req[q] \/ req'[q].pc \in {"idle", "rebuild"}
  BY NothingKeeps DEF SuspendRestaurant, Stores, StoresThenRebuilds, Ask, Finish,
       Idle, IInv, TypeOK, ReqTypes, Pcs, MaybeMenu
<1> QED
  BY <1>1, <1>2, <1>3, DocWritten

-----------------------------------------------------------------------------
(* The menu *)

\* A step of r that leaves the document alone and asks for no update.
LEMMA MenuKeeps ==
  ASSUME IInv, NEW r \in Requests, UNCHANGED <<created, doc, vetted>>,
         menu' \in Menus, disturbed' \in BOOLEAN,
         proj' \in {"none", "live", "deleted"},
         shown' \in MaybeMenu, cache' \in MaybeMenu,
         proj' # "none" \/ cache' # NoMenu => vetted,
         req' \in [Requests -> ReqTypes],
         \A q \in Requests \ {r} : req'[q] = req[q],
         req'[r].pc \notin {"store", "storeRebuild"},
         req'[r].pc \in {"load", "upsert", "cache", "get", "find", "fill"}
            => vetted
  PROVE  IInv'
<1>1. TypeOK'
  BY DEF IInv, TypeOK, ReqTypes
<1>2. OpenIsVetted' /\ StatusIsCoherent' /\ ShownIsVetted'
      /\ (MeetsGate(doc) => vetted)'
  BY DEF IInv, OpenIsVetted, StatusIsCoherent, ShownIsVetted, MeetsGate
<1>3. UpdatesInFlight'
  BY DEF IInv, UpdatesInFlight, UpdateIsSound, UpdateIsEarned
<1>4. MenusInFlight'
  BY DEF IInv, MenusInFlight
<1> QED
  BY <1>1, <1>2, <1>3, <1>4 DEF IInv

LEMMA RebuildStep ==
  ASSUME IInv, NEW r \in Requests,
         \/ \E m \in Menus : EditMenu(r, m)
         \/ Rebuild(r) \/ RemoveProjection(r) \/ InvalidateCache(r)
         \/ LoadMenu(r) \/ UpsertProjection(r) \/ SetCache(r)
  PROVE  IInv'
<1> USE DEF IInv, TypeOK, ReqTypes, Pcs, MaybeMenu, Idle
<1>1. ASSUME NEW m \in Menus, EditMenu(r, m) PROVE IInv'
  BY <1>1, NothingKeeps, MenuKeeps
     DEF EditMenu, Ask, Begins, public, ShownIsVetted
<1>2. CASE Rebuild(r)
  BY <1>2, MenuKeeps
     DEF Rebuild, Goto, OnlyReq, public, ShownIsVetted, OpenIsVetted
<1>3. CASE RemoveProjection(r)
  BY <1>3, MenuKeeps DEF RemoveProjection, Goto, ShownIsVetted
<1>4. CASE InvalidateCache(r)
  BY <1>4, NothingKeeps, MenuKeeps DEF InvalidateCache, Finish, ShownIsVetted
<1>5. CASE LoadMenu(r)
  <2>1. vetted
    BY <1>5 DEF LoadMenu, MenusInFlight
  <2> QED
    BY <1>5, <2>1, MenuKeeps DEF LoadMenu, OnlyReq, public
<1>6. CASE UpsertProjection(r)
  <2>1. vetted
    BY <1>6 DEF UpsertProjection, MenusInFlight
  <2>2. CASE proj = "deleted"
    BY <1>6, <2>1, <2>2, NothingKeeps, MenuKeeps DEF UpsertProjection, Finish
  <2>3. CASE proj # "deleted"
    BY <1>6, <2>1, <2>3, MenuKeeps DEF UpsertProjection, Goto
  <2> QED
    BY <2>2, <2>3
<1>7. CASE SetCache(r)
  <2>1. vetted
    BY <1>7 DEF SetCache, MenusInFlight
  <2> QED
    BY <1>7, <2>1, NothingKeeps, MenuKeeps DEF SetCache, Finish
<1> QED
  BY <1>1, <1>2, <1>3, <1>4, <1>5, <1>6, <1>7

LEMMA ServeStep ==
  ASSUME IInv, NEW r \in Requests,
         \/ GetRestaurantMenu(r) \/ ReadCache(r) \/ ReadProjection(r)
         \/ FillCache(r) \/ RequestFails(r)
  PROVE  IInv'
<1> USE DEF IInv, TypeOK, ReqTypes, Pcs, MaybeMenu, Idle
<1>1. CASE GetRestaurantMenu(r)
  BY <1>1, MenuKeeps
     DEF GetRestaurantMenu, IsPublic, Goto, OnlyReq, public, ShownIsVetted,
         OpenIsVetted
<1>2. CASE ReadCache(r)
  <2>1. vetted
    BY <1>2 DEF ReadCache, MenusInFlight
  <2>2. CASE cache # NoMenu
    BY <1>2, <2>1, <2>2, NothingKeeps, MenuKeeps
       DEF ReadCache, Finish, public, ShownIsVetted
  <2>3. CASE cache = NoMenu
    BY <1>2, <2>1, <2>3, MenuKeeps DEF ReadCache, Goto, Begins, public
  <2> QED
    BY <2>2, <2>3
<1>3. CASE ReadProjection(r)
  <2>1. vetted
    BY <1>3 DEF ReadProjection, MenusInFlight
  <2>2. CASE proj = "live"
    BY <1>3, <2>1, <2>2, MenuKeeps DEF ReadProjection, OnlyReq, public
  <2>3. CASE proj # "live"
    BY <1>3, <2>1, <2>3, NothingKeeps, MenuKeeps
       DEF ReadProjection, Finish, OnlyReq, public
  <2> QED
    BY <2>2, <2>3
<1>4. CASE FillCache(r)
  <2>1. vetted
    BY <1>4 DEF FillCache, MenusInFlight
  <2> QED
    BY <1>4, <2>1, NothingKeeps, MenuKeeps DEF FillCache, Finish
<1>5. CASE RequestFails(r)
  BY <1>5, NothingKeeps, MenuKeeps DEF RequestFails, Finish, public, ShownIsVetted
<1> QED
  BY <1>1, <1>2, <1>3, <1>4, <1>5

LEMMA QuietStep ==
  ASSUME IInv, CacheExpires \/ UNCHANGED vars
  PROVE  IInv'
<1>1. UNCHANGED <<created, doc, menu, proj, shown, req, vetted, disturbed>>
      /\ cache' \in {cache, NoMenu}
  BY DEF CacheExpires, vars, public
<1>2. TypeOK'
  BY <1>1 DEF IInv, TypeOK, MaybeMenu
<1> QED
  BY <1>1, <1>2 DEF IInv, OpenIsVetted, StatusIsCoherent, ShownIsVetted,
                    UpdatesInFlight, UpdateIsSound, UpdateIsEarned,
                    MenusInFlight, MeetsGate

LEMMA Inductive == IInv /\ [Next]_vars => IInv'
<1> SUFFICES ASSUME IInv, [Next]_vars PROVE IInv'
  OBVIOUS
<1>1. ASSUME NEW r \in Requests, RequestStep(r) PROVE IInv'
  <2>1. ASSUME NEW s \in Subscriptions,
               UpdateRestaurant(r, s) \/ UpdateSubscription(r, s)
        PROVE  IInv'
    BY <2>1, DecisionStep
  <2>2. CASE RequestPublish(r) \/ ArchiveRestaurant(r) \/ VerifyRestaurant(r)
             \/ UnsuspendRestaurant(r)
    <3>1. "ACTIVE" \in Subscriptions
      BY DEF Subscriptions
    <3> QED
      BY <2>2, <3>1, DecisionStep
  <2>3. CASE SuspendRestaurant(r) \/ Stores(r) \/ StoresThenRebuilds(r)
    BY <2>3, StoreStep
  <2>4. CASE \/ \E m \in Menus : EditMenu(r, m)
             \/ Rebuild(r) \/ RemoveProjection(r) \/ InvalidateCache(r)
             \/ LoadMenu(r) \/ UpsertProjection(r) \/ SetCache(r)
    BY <2>4, RebuildStep
  <2>5. CASE \/ GetRestaurantMenu(r) \/ ReadCache(r) \/ ReadProjection(r)
             \/ FillCache(r) \/ RequestFails(r)
    BY <2>5, ServeStep
  <2> QED
    BY <1>1, <2>1, <2>2, <2>3, <2>4, <2>5 DEF RequestStep
<1>2. CASE CreateRestaurant
  BY <1>2, CreateStep
<1>3. CASE UnverifyRestaurant \/ RejectVerification \/ PaymentSucceeds
  BY <1>3, ReviewStep
<1>4. CASE CacheExpires \/ UNCHANGED vars
  BY <1>4, QuietStep
<1> QED
  BY <1>1, <1>2, <1>3, <1>4 DEF Next

-----------------------------------------------------------------------------
(* One operation on the menu at a time *)

\* Steps of requests that do nothing to the menu.
LEMMA ApartKeeps ==
  ASSUME OneAtATime, NEW r \in Requests,
         req[r].pc \notin MenuPcs, req'[r].pc \notin MenuPcs,
         \A q \in Requests \ {r} : req'[q] = req[q],
         UNCHANGED <<menu, proj, shown, cache, disturbed>>
  PROVE  OneAtATime'
BY DEF OneAtATime, MenuPcs

\* r starts to rebuild, and is alone if nothing was disturbed.
LEMMA BeginKeeps ==
  ASSUME OneAtATime, NEW r \in Requests, req[r].pc \notin MenuPcs,
         req'[r].pc = "rebuild", Begins(r), disturbed \in BOOLEAN,
         \A q \in Requests \ {r} : req'[q] = req[q],
         UNCHANGED <<proj, shown, cache>>
  PROVE  OneAtATime'
<1> SUFFICES ASSUME ~disturbed' PROVE OneAtATime'
  BY DEF OneAtATime
<1>1. ~disturbed /\ Alone(r)
  BY DEF Begins
<1>2. \A q \in Requests \ {r} : req'[q].pc \notin MenuPcs
  BY <1>1 DEF Alone
<1>3. \A q \in Requests : req[q].pc # "invalidate"
  BY <1>1 DEF Alone, MenuPcs
<1> QED
  BY <1>1, <1>2, <1>3 DEF OneAtATime, MenuPcs

\* The steps of r when it is the operation in progress.
LEMMA ProgressKeeps ==
  ASSUME IInv, OneAtATime, NEW r \in Requests,
         \/ Rebuild(r) \/ RemoveProjection(r) \/ InvalidateCache(r)
         \/ LoadMenu(r) \/ UpsertProjection(r) \/ SetCache(r)
         \/ ReadProjection(r) \/ FillCache(r)
  PROVE  OneAtATime'
<1> USE DEF MenuPcs, Idle
<1>1. /\ req[r].pc \in MenuPcs
      /\ UNCHANGED <<menu, disturbed>>
      /\ \A q \in Requests \ {r} : req'[q] = req[q]
      /\ req \in [Requests -> ReqTypes]
  BY DEF Rebuild, RemoveProjection, InvalidateCache, LoadMenu, UpsertProjection,
         SetCache, ReadProjection, FillCache, OnlyReq, public, Goto, Finish,
         IInv, TypeOK, ReqTypes
<1> SUFFICES ASSUME ~disturbed PROVE OneAtATime'
  BY <1>1 DEF OneAtATime
<1>2. \A q \in Requests \ {r} : req[q].pc \notin MenuPcs /\ req'[q] = req[q]
  BY <1>1 DEF OneAtATime
<1>3. CASE Rebuild(r)
  BY <1>1, <1>2, <1>3 DEF Rebuild, Goto, OnlyReq, public, OneAtATime
<1>4. CASE RemoveProjection(r)
  <2>1. req'[r].pc = "invalidate" /\ proj' # "live"
    BY <1>1, <1>4 DEF RemoveProjection, Goto
  <2> QED
    BY <1>1, <1>2, <2>1 DEF OneAtATime
<1>5. CASE InvalidateCache(r)
  <2>1. req'[r].pc = "idle" /\ proj' # "live" /\ cache' = NoMenu
    BY <1>1, <1>5 DEF InvalidateCache, Finish, OneAtATime
  <2> QED
    BY <1>1, <1>2, <2>1 DEF OneAtATime
<1>6. CASE LoadMenu(r)
  <2>1. req'[r].pc = "upsert" /\ req'[r].content = menu
        /\ UNCHANGED <<proj, shown, cache>>
    BY <1>1, <1>6 DEF LoadMenu, OnlyReq, public
  <2> QED
    BY <1>1, <1>2, <1>6, <2>1 DEF OneAtATime, LoadMenu
<1>7. CASE UpsertProjection(r)
  <2>1. cache' = cache /\ req[r].content = menu /\ req[r].pc = "upsert"
    BY <1>7 DEF UpsertProjection, OneAtATime
  <2>2. CASE proj = "deleted"
    <3>1. req'[r].pc = "idle" /\ UNCHANGED <<proj, shown>> /\ cache = NoMenu
      BY <1>1, <1>2, <1>7, <2>1, <2>2
         DEF UpsertProjection, Finish, OneAtATime
    <3> QED
      BY <1>1, <1>2, <2>1, <2>2, <3>1 DEF OneAtATime
  <2>3. CASE proj # "deleted"
    <3>1. req'[r].pc = "cache" /\ req'[r].content = menu
          /\ proj' = "live" /\ shown' = menu
      BY <1>1, <1>7, <2>1, <2>3 DEF UpsertProjection, Goto, ReqTypes
    <3> QED
      BY <1>1, <1>2, <2>1, <3>1 DEF OneAtATime
  <2> QED
    BY <2>2, <2>3
<1>8. CASE SetCache(r) \/ FillCache(r)
  <2>1. proj = "live" /\ shown = menu /\ req[r].content = menu
    BY <1>8 DEF SetCache, FillCache, OneAtATime
  <2>2. UNCHANGED <<proj, shown>> /\ cache' = menu /\ req'[r].pc = "idle"
    BY <1>1, <1>8, <2>1 DEF SetCache, FillCache, Finish
  <2> QED
    BY <1>1, <1>2, <2>1, <2>2 DEF OneAtATime
<1>9. CASE ReadProjection(r)
  <2>1. UNCHANGED <<proj, shown, cache>> /\ req[r].pc = "find"
    BY <1>9 DEF ReadProjection, OnlyReq, public
  <2>2. (proj = "live" => shown = menu) /\ (cache # NoMenu => cache = menu)
    BY <1>2, <2>1 DEF OneAtATime
  <2>3. CASE proj = "live"
    <3>1. req' = [req EXCEPT ![r].pc = "fill", ![r].content = shown]
      BY <1>9, <2>3 DEF ReadProjection
    <3>2. req'[r].pc = "fill" /\ req'[r].content = menu
      BY <1>1, <2>2, <2>3, <3>1 DEF ReqTypes
    <3> QED
      BY <1>1, <1>2, <2>1, <2>2, <2>3, <3>2 DEF OneAtATime
  <2>4. CASE proj # "live"
    <3>1. req'[r].pc = "idle"
      BY <1>1, <1>9, <2>4 DEF ReadProjection, Finish
    <3> QED
      BY <1>1, <1>2, <2>1, <2>2, <2>4, <3>1 DEF OneAtATime
  <2> QED
    BY <2>3, <2>4
<1> QED
  BY <1>3, <1>4, <1>5, <1>6, <1>7, <1>8, <1>9

\* A reader that misses the cache, and a request that ends early.
LEMMA ReaderKeeps ==
  ASSUME IInv, OneAtATime, NEW r \in Requests, ReadCache(r) \/ RequestFails(r)
  PROVE  OneAtATime'
<1>1. /\ UNCHANGED <<menu, proj, shown, cache>>
      /\ \A q \in Requests \ {r} : req'[q] = req[q]
      /\ req'[r].pc \in {"idle", "find"}
      /\ disturbed \in BOOLEAN
  BY DEF ReadCache, RequestFails, Goto, Finish, Idle, public, IInv, TypeOK,
         ReqTypes
<1>2. CASE ReadCache(r) /\ cache # NoMenu
  BY <1>1, <1>2, ApartKeeps DEF ReadCache, Finish, MenuPcs, Idle, IInv, TypeOK
<1>3. CASE ReadCache(r) /\ cache = NoMenu
  <2> SUFFICES ASSUME ~disturbed' PROVE OneAtATime'
    BY DEF OneAtATime
  <2>1. ~disturbed /\ Alone(r) /\ req[r].pc = "get" /\ req'[r].pc = "find"
    BY <1>1, <1>3 DEF ReadCache, Begins, Goto, IInv, TypeOK, ReqTypes
  <2>2. \A q \in Requests : req[q].pc \notin MenuPcs
    BY <2>1 DEF Alone, MenuPcs
  <2>3. (proj = "live" => shown = menu) /\ cache = NoMenu
    BY <1>3, <2>1, <2>2 DEF OneAtATime, MenuPcs
  <2>4. \A q \in Requests \ {r} : req'[q].pc \notin MenuPcs
    BY <1>1, <2>2
  <2> QED
    BY <1>1, <2>1, <2>3, <2>4 DEF OneAtATime, MenuPcs
<1>4. CASE RequestFails(r)
  <2> SUFFICES ASSUME ~disturbed' PROVE OneAtATime'
    BY DEF OneAtATime
  <2>1. req[r].pc \notin MenuPcs /\ disturbed' = disturbed
        /\ req'[r].pc = "idle"
    BY <1>4, <1>1 DEF RequestFails, Finish, Idle, IInv, TypeOK
  <2> QED
    BY <1>1, <2>1, ApartKeeps DEF MenuPcs
<1> QED
  BY <1>2, <1>3, <1>4

LEMMA SequenceStep == IInv /\ OneAtATime /\ [Next]_vars => OneAtATime'
<1> SUFFICES ASSUME IInv, OneAtATime, [Next]_vars PROVE OneAtATime'
  OBVIOUS
<1>0. disturbed \in BOOLEAN /\ req \in [Requests -> ReqTypes]
  BY DEF IInv, TypeOK, ReqTypes
<1>1. ASSUME NEW r \in Requests, RequestStep(r) PROVE OneAtATime'
  <2>1. ASSUME NEW s \in Subscriptions,
               \/ UpdateRestaurant(r, s) \/ UpdateSubscription(r, s)
               \/ RequestPublish(r) \/ ArchiveRestaurant(r)
               \/ VerifyRestaurant(r) \/ UnsuspendRestaurant(r)
        PROVE  OneAtATime'
    <3>1. OnlyReq /\ req'[r].pc \notin MenuPcs /\ req[r].pc = "idle"
          /\ \A q \in Requests \ {r} : req'[q] = req[q]
      BY <2>1, DecisionStep
    <3> QED
      BY <3>1, ApartKeeps DEF OnlyReq, public, MenuPcs
  <2>2. CASE Stores(r) \/ GetRestaurantMenu(r)
    <3>1. /\ req[r].pc \notin MenuPcs /\ req'[r].pc \notin MenuPcs
          /\ \A q \in Requests \ {r} : req'[q] = req[q]
      BY <1>0, <2>2 DEF Stores, GetRestaurantMenu, Reads, Goto, Finish, Idle,
                        MenuPcs, ReqTypes
    <3>2. UNCHANGED <<menu, proj, shown, cache, disturbed>>
      BY <2>2 DEF Stores, GetRestaurantMenu, OnlyReq, public
    <3> QED
      BY <3>1, <3>2, ApartKeeps
  <2>3. CASE SuspendRestaurant(r) \/ StoresThenRebuilds(r)
             \/ \E m \in Menus : EditMenu(r, m)
    <3>1. /\ req[r].pc \notin MenuPcs /\ req'[r].pc = "rebuild"
          /\ \A q \in Requests \ {r} : req'[q] = req[q]
      BY <1>0, <2>3 DEF SuspendRestaurant, StoresThenRebuilds, EditMenu, Reads,
                        Ask, MenuPcs
    <3>2. Begins(r) /\ UNCHANGED <<proj, shown, cache>>
      BY <2>3 DEF SuspendRestaurant, StoresThenRebuilds, EditMenu, public
    <3> QED
      BY <1>0, <3>1, <3>2, BeginKeeps
  <2>4. CASE \/ Rebuild(r) \/ RemoveProjection(r) \/ InvalidateCache(r)
             \/ LoadMenu(r) \/ UpsertProjection(r) \/ SetCache(r)
             \/ ReadProjection(r) \/ FillCache(r)
    BY <2>4, ProgressKeeps
  <2>5. CASE ReadCache(r) \/ RequestFails(r)
    BY <2>5, ReaderKeeps
  <2>6. "ACTIVE" \in Subscriptions
    BY DEF Subscriptions
  <2> QED
    BY <1>1, <2>1, <2>2, <2>3, <2>4, <2>5, <2>6 DEF RequestStep
<1>2. CASE CreateRestaurant \/ UnverifyRestaurant \/ RejectVerification
           \/ PaymentSucceeds \/ UNCHANGED vars
  BY <1>2 DEF CreateRestaurant, UnverifyRestaurant, RejectVerification,
              PaymentSucceeds, vars, public, OneAtATime
<1>3. CASE CacheExpires
  BY <1>3 DEF CacheExpires, OneAtATime
<1> QED
  BY <1>1, <1>2, <1>3 DEF Next

-----------------------------------------------------------------------------
(* The theorems *)

\* IInv holds in every reachable state, however old the documents from which
\* the updates in flight were concluded.
THEOREM Invariance == Spec => []IInv
<1>1. Init => IInv
  BY Initially
<1> QED
  BY <1>1, Inductive, PTL DEF Spec

\* Every variable keeps its type.
THEOREM TypeCorrect == Spec => []TypeOK
<1>1. IInv => TypeOK
  BY DEF IInv
<1> QED
  BY <1>1, Invariance, PTL

\* A restaurant that is active, public or shown has met the activation gate, for
\* any number of managers and administrators deciding at once.
THEOREM PublicTheorem == Spec => []PublicIsVetted
<1>1. IInv => PublicIsVetted
  BY DEF IInv, PublicIsVetted
<1> QED
  BY <1>1, Invariance, PTL

\* The status and what explains it agree, for any interleaving of the handlers
\* that write overlapping parts of them.
THEOREM StatusTheorem == Spec => []StatusIsCoherent
<1>1. IInv => StatusIsCoherent
  BY DEF IInv
<1> QED
  BY <1>1, Invariance, PTL

\* Projection and cache are the menu when its operations are done, if they
\* neither overlapped nor failed, for any history of the restaurant.
THEOREM FreshTheorem == Spec => []FreshUnlessOverlap
<1>1. Init => OneAtATime
  BY Initially
<1>2. OneAtATime => FreshUnlessOverlap
  BY DEF OneAtATime, FreshUnlessOverlap, MenuPcs
<1> QED
  BY <1>1, <1>2, Invariance, SequenceStep, PTL DEF Spec

=============================================================================
