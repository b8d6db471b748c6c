-------------------------- MODULE RestaurantLifecycle --------------------------
(***************************************************************************)
(* One restaurant of restaurantService: its document, the public           *)
(* projection of its menu, the projection's copy in Redis, and the         *)
(* requests of its manager, of the superadmin and of the public.           *)
(*                                                                         *)
(* A request reads the document, decides, and sends an update with the     *)
(* fields it has decided on, whatever the document has become.  Some       *)
(* requests then rebuild the projection, query by query.                   *)
(***************************************************************************)

CONSTANTS
    Menus,      \* what the categories, items and options may amount to
    NoMenu,     \* nothing cached
    Requests,   \* requests that may be in flight at the same time
    RequireVerification     \* REQUIRE_VERIFICATION_FOR_ACTIVATION

ASSUME MenusAssumption == NoMenu \notin Menus
ASSUME SettingAssumption == RequireVerification \in BOOLEAN

VARIABLES
    created,    \* the document has been inserted
    doc,        \* its fields
    menu,       \* the menu as it is stored
    proj,       \* the projection: never written, live or soft-deleted
    shown,      \* its content
    cache,      \* the menu in Redis
    req,        \* the requests
    vetted,     \* history: the document has met the activation gate
    disturbed   \* history: menu operations overlapped, or one was cut short

public == <<proj, shown, cache>>
vars   == <<created, doc, menu, public, req, vetted, disturbed>>

MaybeMenu == Menus \cup {NoMenu}

Statuses      == {"DRAFT", "PENDING_SUBSCRIPTION", "PENDING_VERIFICATION",
                  "ACTIVE", "SUSPENDED", "ARCHIVED"}
Visibilities  == {"HIDDEN", "PUBLIC"}
\* PAST_DUE and CANCELED are told from PENDING nowhere.
Subscriptions == {"PENDING", "ACTIVE"}
Verifications == {"UNVERIFIED", "VERIFIED", "REJECTED"}
Blockers      == {"SUBSCRIPTION_INACTIVE", "VERIFICATION_REQUIRED",
                  "VERIFICATION_REJECTED"}

\* suspendedAt is a date or null, and so on: only which of the two is kept.
Doc == [status : Statuses, visibility : Visibilities,
        subscription : Subscriptions, verification : Verifications,
        blockers : SUBSET Blockers,
        suspendedAt : {"null", "set"}, restoreFee : {"none", "required"}]

NewDoc == [status |-> "DRAFT", visibility |-> "HIDDEN",
           subscription |-> "PENDING", verification |-> "UNVERIFIED",
           blockers |-> {}, suspendedAt |-> "null", restoreFee |-> "none"]

(* What a request sends: a field that is not in the update is kept. *)

Keep == "keep"

Update == [status : Statuses \cup {Keep}, visibility : Visibilities \cup {Keep},
           subscription : Subscriptions \cup {Keep},
           verification : Verifications \cup {Keep},
           blockers : (SUBSET Blockers) \cup {{Keep}},
           suspendedAt : {"null", "set", Keep},
           restoreFee : {"none", "required", Keep}]

Nothing == [status |-> Keep, visibility |-> Keep, subscription |-> Keep,
            verification |-> Keep, blockers |-> {Keep}, suspendedAt |-> Keep,
            restoreFee |-> Keep]

\* A request stores and is done, stores and rebuilds, or serves the menu.
Pcs  == {"idle", "store", "storeRebuild", "rebuild", "remove", "invalidate",
         "load", "upsert", "cache", "get", "find", "fill"}
Idle == [pc |-> "idle", set |-> Nothing, content |-> NoMenu]

Init ==
    /\ created = FALSE
    /\ doc = NewDoc
    /\ menu \in Menus
    /\ proj = "none" /\ shown = NoMenu /\ cache = NoMenu
    /\ req = [r \in Requests |-> Idle]
    /\ vetted = FALSE
    /\ disturbed = FALSE

Finish(r)    == req' = [req EXCEPT ![r] = Idle]
Goto(r, pc)  == req' = [req EXCEPT ![r].pc = pc]
Ask(r, pc, set) == req' = [req EXCEPT ![r] = [pc |-> pc, set |-> set,
                                              content |-> NoMenu]]

\* A request that may change or has read what the public sees.
MenuPcs == {"rebuild", "remove", "invalidate", "load", "upsert", "cache",
            "find", "fill"}
Alone(r) == \A q \in Requests \ {r} : req[q].pc \notin MenuPcs

\* r starts to work on the menu.
Begins(r) == disturbed' = (disturbed \/ ~Alone(r))

-----------------------------------------------------------------------------
(* The activation gate *)

\* Faulty variant: the subscription is not looked at.
GateBlockers_verificationOnly(d) ==
    (IF RequireVerification /\ d.verification = "REJECTED"
     THEN {"VERIFICATION_REJECTED"} ELSE {})
    \cup (IF RequireVerification /\ d.verification = "UNVERIFIED"
          THEN {"VERIFICATION_REQUIRED"} ELSE {})

GateBlockers(d) ==
    (IF d.subscription # "ACTIVE" THEN {"SUBSCRIPTION_INACTIVE"} ELSE {})
    \cup (IF RequireVerification /\ d.verification = "REJECTED"
          THEN {"VERIFICATION_REJECTED"} ELSE {})
    \cup (IF RequireVerification /\ d.verification = "UNVERIFIED"
          THEN {"VERIFICATION_REQUIRED"} ELSE {})

NextStatus(d) ==
    IF GateBlockers(d) = {} THEN "ACTIVE"
    ELSE IF "SUBSCRIPTION_INACTIVE" \in GateBlockers(d)
         THEN "PENDING_SUBSCRIPTION"
         ELSE "PENDING_VERIFICATION"

\* What requestPublish and unsuspendRestaurant conclude from the gate.
GateUpdate(d, suspendedAt) ==
    [Nothing EXCEPT !.status = NextStatus(d), !.blockers = GateBlockers(d),
                    !.visibility = IF NextStatus(d) = "ACTIVE" THEN "PUBLIC"
                                   ELSE "HIDDEN",
                    !.suspendedAt = suspendedAt]

\* toVisibility.
ToVisibility(d) ==
    IF d.status = "ACTIVE" /\ d.subscription = "ACTIVE"
       /\ d.verification = "VERIFIED"
    THEN "PUBLIC" ELSE "HIDDEN"

\* What a restaurant must have been for the public to know of it.
MeetsGate(d) ==
    /\ d.subscription = "ACTIVE"
    /\ RequireVerification => d.verification = "VERIFIED"

\* The document becomes d.
Store(d) ==
    /\ doc' = d
    /\ vetted' = (vetted \/ MeetsGate(d))

Or(new, old) == IF new = Keep THEN old ELSE new

\* updateById: the fields in the update, and nothing else, in one step.
Apply(set) ==
    Store([status       |-> Or(set.status, doc.status),
           visibility   |-> Or(set.visibility, doc.visibility),
           subscription |-> Or(set.subscription, doc.subscription),
           verification |-> Or(set.verification, doc.verification),
           blockers     |-> IF set.blockers = {Keep} THEN doc.blockers
                            ELSE set.blockers,
           suspendedAt  |-> Or(set.suspendedAt, doc.suspendedAt),
           restoreFee   |-> Or(set.restoreFee, doc.restoreFee)])

-----------------------------------------------------------------------------
(* The manager *)

\* createRestaurant: a draft, or with a subscription paid before, an open one.
CreateRestaurant ==
    /\ ~created
    /\ created' = TRUE
    /\ \/ Store(NewDoc)
       \/ Store([NewDoc EXCEPT !.status = "ACTIVE", !.visibility = "PUBLIC",
                               !.subscription = "ACTIVE",
                               !.verification = "VERIFIED"])
    /\ UNCHANGED <<menu, public, req, disturbed>>

\* A request that starts with the document, and decides at once.
Reads(r) == created /\ req[r].pc = "idle"
OnlyReq  == UNCHANGED <<created, doc, menu, public, vetted, disturbed>>

\* updateRestaurant, whose payload may carry a subscription.
UpdateRestaurant(r, s) ==
    /\ Reads(r)
    /\ doc.status \notin {"SUSPENDED", "ARCHIVED"}
    /\ Ask(r, "store", [Nothing EXCEPT !.subscription = s])
    /\ OnlyReq

RequestPublish(r) ==
    /\ Reads(r)
    /\ doc.status # "SUSPENDED"
    /\ Ask(r, "storeRebuild",
           GateUpdate(doc, IF NextStatus(doc) = "ACTIVE" THEN "null" ELSE Keep))
    /\ OnlyReq

ArchiveRestaurant(r) ==
    /\ Reads(r)
    /\ doc.status # "ARCHIVED"
    /\ Ask(r, "store", [Nothing EXCEPT !.status = "ARCHIVED",
                                       !.visibility = "HIDDEN",
                                       !.restoreFee = "required"])
    /\ OnlyReq

-----------------------------------------------------------------------------
(* The superadmin *)

\* verifyRestaurant: the visibility is that of the document as it was read.
VerifyRestaurant(r) ==
    /\ Reads(r)
    /\ Ask(r, "store",
           [Nothing EXCEPT
               !.verification = "VERIFIED",
               !.visibility = ToVisibility([doc EXCEPT
                                               !.verification = "VERIFIED"])])
    /\ OnlyReq

\* updateSubscription writes the subscription whole: one that the payload
\* leaves out is the one that was read.
UpdateSubscription(r, s) ==
    /\ Reads(r)
    /\ Ask(r, "store",
           [Nothing EXCEPT
               !.subscription = s,
               !.visibility = ToVisibility([doc EXCEPT !.subscription = s])])
    /\ OnlyReq

UnsuspendRestaurant(r) ==
    /\ Reads(r)
    /\ Ask(r, "storeRebuild", GateUpdate(doc, "null"))
    /\ OnlyReq

\* These use nothing of what they read but that it is there.

UnverifyRestaurant ==
    /\ created
    /\ Apply([Nothing EXCEPT !.verification = "UNVERIFIED",
                             !.visibility = "HIDDEN"])
    /\ UNCHANGED <<created, menu, public, req, disturbed>>

\* Faulty variant: the blockers are left as they were.
RejectVerification_keepsBlockers ==
    /\ created
    /\ Apply([Nothing EXCEPT !.verification = "REJECTED",
                             !.status = "PENDING_VERIFICATION",
                             !.visibility = "HIDDEN"])
    /\ UNCHANGED <<created, menu, public, req, disturbed>>

RejectVerification ==
    /\ created
    /\ Apply([Nothing EXCEPT !.verification = "REJECTED",
                             !.status = "PENDING_VERIFICATION",
                             !.visibility = "HIDDEN",
                             !.blockers = {"VERIFICATION_REJECTED"}])
    /\ UNCHANGED <<created, menu, public, req, disturbed>>

SuspendRestaurant(r) ==
    /\ Reads(r)
    /\ Apply([Nothing EXCEPT !.status = "SUSPENDED", !.visibility = "HIDDEN",
                             !.suspendedAt = "set"])
    /\ Ask(r, "rebuild", Nothing)
    /\ Begins(r)
    /\ UNCHANGED <<created, menu, public>>

-----------------------------------------------------------------------------
(* The writes *)

\* The update of a request that does no more.
Stores(r) ==
    /\ req[r].pc = "store"
    /\ Apply(req[r].set)
    /\ Finish(r)
    /\ UNCHANGED <<created, menu, public, disturbed>>

\* The update of a request that goes on to rebuild the projection.
StoresThenRebuilds(r) ==
    /\ req[r].pc = "storeRebuild"
    /\ Apply(req[r].set)
    /\ Ask(r, "rebuild", Nothing)
    /\ Begins(r)
    /\ UNCHANGED <<created, menu, public>>

\* activateByRestaurantId.
Activation ==
    [status |-> "ACTIVE", visibility |-> "PUBLIC",
     subscription |-> "ACTIVE", verification |-> "VERIFIED",
     blockers |-> {}, suspendedAt |-> "null", restoreFee |-> "none"]

\* payment.subscription.success, handled once or again: one conditional update.
PaymentSucceeds ==
    /\ created
    /\ doc.status # "SUSPENDED"
    /\ Apply(Activation)
    /\ UNCHANGED <<created, menu, public, req, disturbed>>

-----------------------------------------------------------------------------
(* rebuildForRestaurant *)

\* The end of any operation on the menu: the menu of the staff is changed.
EditMenu(r, m) ==
    /\ Reads(r)
    /\ m # menu
    /\ menu' = m
    /\ Ask(r, "rebuild", Nothing)
    /\ Begins(r)
    /\ UNCHANGED <<created, doc, public, vetted>>

Rebuild(r) ==
    /\ req[r].pc = "rebuild"
    /\ Goto(r, IF doc.status = "ACTIVE" THEN "load" ELSE "remove")
    /\ OnlyReq

RemoveProjection(r) ==
    /\ req[r].pc = "remove"
    /\ proj' = IF proj = "live" THEN "deleted" ELSE proj
    /\ shown' = NoMenu
    /\ Goto(r, "invalidate")
    /\ UNCHANGED <<created, doc, menu, cache, vetted, disturbed>>

\* Faulty variant: the cache is left to its time to live.
InvalidateCache_leavesIt(r) ==
    /\ req[r].pc = "invalidate"
    /\ Finish(r)
    /\ OnlyReq

InvalidateCache(r) ==
    /\ req[r].pc = "invalidate"
    /\ cache' = NoMenu
    /\ Finish(r)
    /\ UNCHANGED <<created, doc, menu, proj, shown, vetted, disturbed>>

\* The menu is read by four queries.  What they return is one menu unless it
\* is edited in between, and then the last rebuild reads another.
LoadMenu(r) ==
    /\ req[r].pc = "load"
    /\ req' = [req EXCEPT ![r].pc = "upsert", ![r].content = menu]
    /\ OnlyReq

\* The filter of the upsert does not match a deleted projection, and the
\* insertion it then tries meets the unique index on restaurantId.
UpsertProjection(r) ==
    /\ req[r].pc = "upsert"
    /\ IF proj = "deleted"
       THEN /\ Finish(r)
            /\ UNCHANGED <<proj, shown>>
       ELSE /\ proj' = "live"
            /\ shown' = req[r].content
            /\ Goto(r, "cache")
    /\ UNCHANGED <<created, doc, menu, cache, vetted, disturbed>>

SetCache(r) ==
    /\ req[r].pc = "cache"
    /\ cache' = req[r].content
    /\ Finish(r)
    /\ UNCHANGED <<created, doc, menu, proj, shown, vetted, disturbed>>

-----------------------------------------------------------------------------
(* The public *)

\* getPublicRestaurantByCitySlug: open in every respect.
IsPublic(d) == ToVisibility(d) = "PUBLIC" /\ d.visibility = "PUBLIC"

GetRestaurantMenu(r) ==
    /\ Reads(r)
    /\ IsPublic(doc)
    /\ Goto(r, "get")
    /\ OnlyReq

\* getPublicMenu: a menu in the cache is the answer.
ReadCache(r) ==
    /\ req[r].pc = "get"
    /\ IF cache # NoMenu
       THEN Finish(r) /\ UNCHANGED disturbed
       ELSE Goto(r, "find") /\ Begins(r)
    /\ UNCHANGED <<created, doc, menu, public, vetted>>

ReadProjection(r) ==
    /\ req[r].pc = "find"
    /\ IF proj = "live"
       THEN req' = [req EXCEPT ![r].pc = "fill", ![r].content = shown]
       ELSE Finish(r)
    /\ OnlyReq

FillCache(r) ==
    /\ req[r].pc = "fill"
    /\ cache' = req[r].content
    /\ Finish(r)
    /\ UNCHANGED <<created, doc, menu, proj, shown, vetted, disturbed>>

\* PUBLIC_MENU_CACHE_TTL_SECONDS.
CacheExpires ==
    /\ cache # NoMenu
    /\ cache' = NoMenu
    /\ UNCHANGED <<created, doc, menu, proj, shown, req, vetted, disturbed>>

-----------------------------------------------------------------------------

\* An error or a restart ends a request at any await.
RequestFails(r) ==
    /\ req[r].pc # "idle"
    /\ Finish(r)
    /\ disturbed' = (disturbed \/ req[r].pc \in MenuPcs)
    /\ UNCHANGED <<created, doc, menu, public, vetted>>

RequestStep(r) ==
    \/ \E s \in Subscriptions :
          UpdateRestaurant(r, s) \/ UpdateSubscription(r, s)
    \/ RequestPublish(r) \/ ArchiveRestaurant(r)
    \/ VerifyRestaurant(r) \/ UnsuspendRestaurant(r) \/ SuspendRestaurant(r)
    \/ Stores(r) \/ StoresThenRebuilds(r)
    \/ \E m \in Menus : EditMenu(r, m)
    \/ Rebuild(r) \/ RemoveProjection(r) \/ InvalidateCache(r)
    \/ LoadMenu(r) \/ UpsertProjection(r) \/ SetCache(r)
    \/ GetRestaurantMenu(r) \/ ReadCache(r) \/ ReadProjection(r) \/ FillCache(r)
    \/ RequestFails(r)

Next ==
    \/ CreateRestaurant
    \/ \E r \in Requests : RequestStep(r)
    \/ UnverifyRestaurant \/ RejectVerification \/ PaymentSucceeds
    \/ CacheExpires

Spec == Init /\ [][Next]_vars

-----------------------------------------------------------------------------
(* Properties *)

\* Every variable keeps its type.
TypeOK ==
    /\ created \in BOOLEAN /\ vetted \in BOOLEAN /\ disturbed \in BOOLEAN
    /\ doc \in Doc
    /\ menu \in Menus
    /\ proj \in {"none", "live", "deleted"}
    /\ shown \in MaybeMenu /\ cache \in MaybeMenu
    /\ req \in [Requests -> [pc : Pcs, set : Update, content : MaybeMenu]]

\* A restaurant is active or marked public only if at some time its document
\* met the gate as a whole: requests that decide on documents read at different
\* times do not open one that was never subscribed and verified at once.
OpenIsVetted ==
    doc.status = "ACTIVE" \/ doc.visibility = "PUBLIC" => vetted

\* The status and what explains it agree, although seven handlers write
\* overlapping parts of them: what blocks a restaurant, whether it is suspended
\* and whether a fee is due for its return.
StatusIsCoherent ==
    CASE doc.status = "DRAFT"  -> doc.blockers = {}
      [] doc.status = "ACTIVE" -> doc.blockers = {} /\ doc.suspendedAt = "null"
      [] doc.status = "PENDING_SUBSCRIPTION" ->
            "SUBSCRIPTION_INACTIVE" \in doc.blockers
      [] doc.status = "PENDING_VERIFICATION" ->
            /\ doc.blockers # {}
            /\ "SUBSCRIPTION_INACTIVE" \notin doc.blockers
      [] doc.status = "SUSPENDED" -> doc.suspendedAt = "set"
      [] doc.status = "ARCHIVED"  -> doc.restoreFee = "required"

\* No menu is projected or cached before the restaurant has met the gate, also
\* when the rebuild that does it is overtaken by a suspension.
ShownIsVetted == proj # "none" \/ cache # NoMenu => vetted

\* The public meets no restaurant, and no menu, that was never vetted.
PublicIsVetted == OpenIsVetted /\ ShownIsVetted

\* As long as operations on the menu neither overlap nor fail, what the public
\* is shown when they are done is the menu as it is, whatever has happened to
\* the restaurant: suspended, archived, paid for, with edits in any status.
FreshUnlessOverlap ==
    ~disturbed /\ (\A r \in Requests : req[r].pc \notin MenuPcs) =>
        /\ proj = "live" => shown = menu
        /\ cache # NoMenu => cache = menu

(* The inductive invariant of the proofs *)

\* What an update may ask for: nothing that the status it asks for, or keeps,
\* would not explain.
UpdateIsSound(w) ==
    /\ w.status # "DRAFT"
    /\ w.status = Keep => w.blockers = {Keep} /\ w.suspendedAt = Keep
    /\ w.status = "ACTIVE" => w.blockers = {} /\ w.suspendedAt = "null"
    /\ w.status = "PENDING_SUBSCRIPTION" =>
          "SUBSCRIPTION_INACTIVE" \in w.blockers
    /\ w.status = "PENDING_VERIFICATION" =>
          /\ w.blockers \cap Blockers # {}
          /\ "SUBSCRIPTION_INACTIVE" \notin w.blockers
    /\ w.status = "SUSPENDED" => w.suspendedAt = "set"
    /\ w.status = "ARCHIVED" => w.restoreFee = "required"
    /\ w.restoreFee = "none" => w.status = "ACTIVE"

\* And it opens only what has met the gate.
UpdateIsEarned(w) == w.status = "ACTIVE" \/ w.visibility = "PUBLIC" => vetted

UpdatesInFlight ==
    \A r \in Requests : req[r].pc \in {"store", "storeRebuild"} =>
        UpdateIsSound(req[r].set) /\ UpdateIsEarned(req[r].set)

MenusInFlight ==
    \A r \in Requests :
        req[r].pc \in {"load", "upsert", "cache", "get", "find", "fill"}
            => vetted

IInv == /\ TypeOK /\ OpenIsVetted /\ StatusIsCoherent /\ ShownIsVetted
        /\ UpdatesInFlight /\ MenusInFlight
        /\ MeetsGate(doc) => vetted

\* One operation at a time: what each step of it has achieved.
OneAtATime ==
    ~disturbed =>
        /\ \A q, r \in Requests :
              req[q].pc \in MenuPcs /\ req[r].pc \in MenuPcs => q = r
        /\ \A r \in Requests :
              /\ req[r].pc \in {"upsert", "cache", "fill"} =>
                    req[r].content = menu
              /\ req[r].pc \in {"cache", "fill"} =>
                    proj = "live" /\ shown = menu
              /\ req[r].pc = "invalidate" => proj # "live"
        /\ \/ \E r \in Requests :
                 req[r].pc \in {"rebuild", "remove", "invalidate", "load",
                                "upsert", "cache"}
           \/ /\ proj = "live" => shown = menu
              /\ cache # NoMenu => cache = menu
        /\ \/ \E r \in Requests : req[r].pc = "invalidate"
           \/ proj # "live" => cache = NoMenu

=============================================================================
