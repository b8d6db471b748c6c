---------------------------- MODULE FaceWatchlist ----------------------------
(***************************************************************************)
(* The identities and face vectors of faceRecognitionService, and those    *)
(* who write them: activateAccount of userService, which asks whether a    *)
(* face is on a watchlist before it enrols it, the operator, who registers *)
(* faces and blacklists persons through the HTTP routes, and the expiry    *)
(* job of orderService, which blacklists the customers who owe something.  *)
(*                                                                         *)
(* A person is a reference, not a face: every activation presents a face   *)
(* (an identity card and the live picture that matches it), which nobody   *)
(* compares with the one enrolled before.  A person has one identity and   *)
(* any number of vectors, written one after the other; only the vectors    *)
(* are searched.  A caller that has waited too long gives up, and the      *)
(* handler it called goes on.                                              *)
(*                                                                         *)
(* No name of AccountActivation, whose last step enrols a face, is used    *)
(* again: the two are proved about in one module.                          *)
(***************************************************************************)
EXTENDS Naturals

CONSTANTS
    Persons,    \* personRef: the ids of accounts
    Faces,      \* faces that are presented
    Alike,      \* pairs of faces whose embeddings score above the threshold
    Calls,      \* calls that may be in flight at the same time
    Vectors,    \* bound: vector documents there may be
    Registered, \* bound: lists the operator registers faces on
    Nobody      \* the person and the face of a call that is not in flight

ASSUME NobodyAssumption == Nobody \notin Persons \cup Faces

VARIABLES
    identity,   \* listType of the identity of each person, or "none"
    vector,     \* the vector documents
    account,    \* the account of each person, which may become active again
    call,       \* the calls in flight
    debtors,    \* history: a blacklisting has reached the vectors
    strays,     \* history: debtors an enrolment may take off the list again
    torn        \* history: identity and vectors were not written together

faces       == <<identity, vector>>
faceHistory == <<debtors, strays, torn>>
faceVars    == <<faces, account, call, faceHistory>>

Lists == {"NORMAL", "BANNED", "DEBTOR"}

ASSUME RegisteredAssumption == Registered \subseteq Lists

\* "none": no document.
IdentityDoc == Lists \cup {"none"}

\* Neither personRef nor anything else of a vector is unique.
VectorDoc == [person : Persons, face : Faces, list : Lists]
NoVector  == [person |-> Nobody, face |-> Nobody, list |-> "NORMAL"]

VectorsOf(p) == {v \in Vectors : vector[v].person = p}

\* PENDING_FACE_ACTIVATION for the first time, or after a change of the phone.
Accounts == {"new", "active", "reopened"}

\* Whose account has been active: they may have orders.
customers == {p \in Persons : account[p] # "new"}

Ops == {"activate", "blacklist", "operator"}

\* What a call is about to do.  An activation goes through all the steps, a
\* registration by an operator from "identity" to "vector" or "insert", and a
\* blacklisting from "identity" to "vector".
CallPcs == {"idle", "search", "identity", "vector", "insert", "save"}

\* since: persons who became debtors after the search of this call.
Call == [op : Ops, person : Persons \cup {Nobody}, face : Faces \cup {Nobody},
         list : Lists, pc : CallPcs, since : SUBSET Persons]

NoCall == [op |-> "activate", person |-> Nobody, face |-> Nobody,
           list |-> "NORMAL", pc |-> "idle", since |-> {}]

Begin(c, op, p, f, list, pc) ==
    /\ call[c].pc = "idle"
    /\ call' = [call EXCEPT ![c] =
                  [op |-> op, person |-> p, face |-> f, list |-> list,
                   pc |-> pc, since |-> {}]]
    /\ UNCHANGED <<faces, account, faceHistory>>

Proceed(c, pc) == call' = [call EXCEPT ![c].pc = pc]

End(c) == call' = [call EXCEPT ![c] = NoCall]

FaceInit ==
    /\ identity = [p \in Persons |-> "none"]
    /\ vector = [v \in Vectors |-> NoVector]
    /\ account = [p \in Persons |-> "new"]
    /\ call = [c \in Calls |-> NoCall]
    /\ debtors = {}
    /\ strays = {}
    /\ torn = {}

-----------------------------------------------------------------------------
(* Those who call *)

\* The account was read: it is pending, and stays what it was read as while
\* CompareIdWithFace looks whether f is the living owner of the card.
StartActivation(c, p, f) ==
    /\ account[p] # "active"
    /\ Begin(c, "activate", p, f, "NORMAL", "search")

\* POST /v1/faces/activate, with any list, by whoever holds the service key.
StartOperator(c, p, f, list) == Begin(c, "operator", p, f, list, "identity")

\* POST /v1/faces/blacklist/debtor, and addDebtor for the owner of an order:
\* any person, enrolled or not.
StartBlacklist(c, p) == Begin(c, "blacklist", p, Nobody, "DEBTOR", "identity")

-----------------------------------------------------------------------------
(* The search of an activation *)

\* targetLists of SearchWatchlists.
Listed == {"BANNED", "DEBTOR"}

\* Faulty variant: only the list of banned persons is searched.
Hits_bannedOnly(f) ==
    {v \in Vectors : vector[v].list = "BANNED" /\ <<f, vector[v].face>> \in Alike}

\* What vectorSearch finds for the face f: vectors of whatever person.  A score
\* below the threshold, in the range for review or not, is no match.
Hits(f) ==
    {v \in Vectors :
        vector[v].list \in Listed /\ <<f, vector[v].face>> \in Alike}

\* No vector of p resembles f: p has none, or enrolled another face.
Unlike(p, f) == \A v \in VectorsOf(p) : <<f, vector[v].face>> \notin Alike

\* activateAccount goes on to the enrolment when nobody is found.
Search(c) ==
    LET p == call[c].person
        f == call[c].face
    IN  /\ call[c].pc = "search"
        /\ \/ Hits(f) # {} /\ End(c) /\ UNCHANGED strays
           \/ /\ Hits(f) = {}
              /\ Proceed(c, "identity")
              /\ strays' = IF p \in debtors /\ Unlike(p, f)
                           THEN strays \cup {p} ELSE strays
        /\ UNCHANGED <<faces, account, debtors, torn>>

-----------------------------------------------------------------------------
(* The handlers of faceRecognitionService *)

\* Handlers other than c between the documents of p.
Between(c, p) ==
    {d \in Calls \ {c} : /\ call[d].pc \in {"vector", "insert"}
                         /\ call[d].person = p}

\* What c is to write next brings every vector of p to one list: updateMany
\* does, and so does findOneAndUpdate if it finds one vector at most.
Uniform(c, p) ==
    \/ call[c].op = "blacklist"
    \/ \A v, w \in VectorsOf(p) : v = w

\* One findOneAndUpdate on the identity of p, which is unique.
SetIdentity(c, p, list) ==
    /\ identity' = [identity EXCEPT ![p] = list]
    /\ torn' = IF Between(c, p) = {} /\ Uniform(c, p) THEN torn \ {p}
                                                     ELSE torn \cup {p}
    /\ Proceed(c, "vector")
    /\ UNCHANGED <<vector, account, debtors, strays>>

\* Faulty variant: the list of an identity is set on insertion only.
UpsertIdentity_onInsert(c) ==
    LET p == call[c].person
    IN  /\ call[c].pc = "identity"
        /\ call[c].op # "blacklist"
        /\ SetIdentity(c, p, IF identity[p] = "none" THEN call[c].list
                                                     ELSE identity[p])

\* The face was embedded, with the dimension expected.
UpsertIdentity(c) ==
    /\ call[c].pc = "identity"
    /\ call[c].op # "blacklist"
    /\ SetIdentity(c, call[c].person, call[c].list)

\* What upsertVector writes; its list is the one of the identity that
\* upsertIdentity returned.  An operator overrules a blacklisting, and an
\* activation has its answer and its account ahead.
WriteVector(c, v) ==
    /\ vector' = [vector EXCEPT ![v] =
          [person |-> call[c].person, face |-> call[c].face,
           list |-> call[c].list]]
    /\ debtors' = IF call[c].op = "operator" THEN debtors \ {call[c].person}
                                             ELSE debtors
    /\ IF call[c].op = "operator" THEN End(c) ELSE Proceed(c, "save")
    /\ UNCHANGED <<identity, account, strays, torn>>

\* findOneAndUpdate: it changes one vector of the person.  There is none: it
\* will insert one, although another call may have done so by then.
UpsertVector(c) ==
    /\ call[c].pc = "vector"
    /\ call[c].op # "blacklist"
    /\ \/ \E v \in VectorsOf(call[c].person) : WriteVector(c, v)
       \/ /\ VectorsOf(call[c].person) = {}
          /\ Proceed(c, "insert")
          /\ UNCHANGED <<faces, account, faceHistory>>

InsertVector(c) ==
    /\ call[c].pc = "insert"
    /\ \E v \in Vectors : vector[v] = NoVector /\ WriteVector(c, v)

\* markPersonAsDebtor, the first update.
MarkIdentity(c) ==
    /\ call[c].pc = "identity"
    /\ call[c].op = "blacklist"
    /\ SetIdentity(c, call[c].person, "DEBTOR")

\* Enrolments of p that have passed their search and have still to write.
Enrolling(p) ==
    {c \in Calls : /\ call[c].op = "activate"
                   /\ call[c].person = p
                   /\ call[c].pc \in {"identity", "vector", "insert"}}

\* Calls of activateAccount after a search that found nothing.
Cleared(r) ==
    /\ r.op = "activate"
    /\ r.pc \in {"identity", "vector", "insert", "save"}

\* Faulty variant: the vector is left as it is.
Relisted_not(v, p) == vector[v]

\* updateMany with the list of debtors: it changes what is there.
Relisted(v, p) ==
    IF vector[v].person = p THEN [vector[v] EXCEPT !.list = "DEBTOR"]
                            ELSE vector[v]

\* markPersonAsDebtor, the second update.
MarkVector(c) ==
    LET p == call[c].person
    IN  /\ call[c].pc = "vector"
        /\ call[c].op = "blacklist"
        /\ vector' = [v \in Vectors |-> Relisted(v, p)]
        /\ debtors' = debtors \cup {p}
        /\ strays' = IF Enrolling(p) = {} THEN strays \ {p}
                                          ELSE strays \cup {p}
        /\ call' = [d \in Calls |->
              IF d = c THEN NoCall
              ELSE IF Cleared(call[d])
              THEN [call[d] EXCEPT !.since = @ \cup {p}]
              ELSE call[d]]
        /\ UNCHANGED <<identity, account, torn>>

Fails(c, pcs) ==
    /\ call[c].pc \in pcs
    /\ End(c)
    /\ torn' = IF call[c].pc \in {"vector", "insert"}
               THEN torn \cup {call[c].person} ELSE torn
    /\ UNCHANGED <<faces, account, debtors, strays>>

\* The embedder refuses the images, finds no match or does not answer in time,
\* or the database fails: userService ends its activation.
SearchFails(c) == Fails(c, {"search"})

\* Faulty variant: an error of the vector is swallowed.
ActivateFails_swallowed(c) ==
    /\ call[c].op # "blacklist"
    /\ \/ Fails(c, {"identity", "save"})
       \/ /\ call[c].pc \in {"vector", "insert"}
          /\ torn' = torn \cup {call[c].person}
          /\ Proceed(c, "save")
          /\ UNCHANGED <<faces, account, debtors, strays>>

\* The embedder or the database fails, or the process ends, in
\* ActivateIdentity: what was written before stays, also when createEvent
\* fails after both documents ...
ActivateFails(c) ==
    /\ call[c].op # "blacklist"
    /\ Fails(c, {"identity", "vector", "insert", "save"})

\* ... and in BlacklistDebtor.
BlacklistFails(c) ==
    /\ call[c].op = "blacklist"
    /\ Fails(c, {"identity", "vector"})

-----------------------------------------------------------------------------
(* The accounts *)

\* createEvent, the answer, and the account is saved.
SaveAccount(c) ==
    /\ call[c].pc = "save"
    /\ account' = [account EXCEPT ![call[c].person] = "active"]
    /\ End(c)
    /\ UNCHANGED <<faces, faceHistory>>

\* Nothing comes of an answer: the account was deleted, userService has ended,
\* or it has lost Promise.race against its timer and answered 503 (GiveUp).
SaveFails(c) == call[c].op = "activate" /\ Fails(c, {"identity", "save"})
GiveUp(c)    == Fails(c, {"search", "save"})

\* An active account changes its phone and verifies the new one: it waits for
\* its activation again.
Reopen(p) ==
    /\ account[p] = "active"
    /\ account' = [account EXCEPT ![p] = "reopened"]
    /\ UNCHANGED <<faces, call, faceHistory>>

FaceNext ==
    \/ \E p \in Persons : Reopen(p)
    \/ \E c \in Calls :
         \/ \E p \in Persons :
              \/ StartBlacklist(c, p)
              \/ \E f \in Faces :
                   \/ StartActivation(c, p, f)
                   \/ \E list \in Registered : StartOperator(c, p, f, list)
         \/ Search(c)
         \/ UpsertIdentity(c) \/ UpsertVector(c) \/ InsertVector(c)
         \/ MarkIdentity(c) \/ MarkVector(c)
         \/ SearchFails(c) \/ ActivateFails(c) \/ BlacklistFails(c)
         \/ SaveAccount(c) \/ SaveFails(c) \/ GiveUp(c)

FaceSpec == FaceInit /\ [][FaceNext]_faceVars

-----------------------------------------------------------------------------
(* Properties *)

FaceTypeOK ==
    /\ identity \in [Persons -> IdentityDoc]
    /\ vector \in [Vectors -> VectorDoc \cup {NoVector}]
    /\ account \in [Persons -> Accounts]
    /\ call \in [Calls -> Call]
    /\ debtors \subseteq Persons
    /\ strays \subseteq Persons
    /\ torn \subseteq Persons

\* The second update of markPersonAsDebtor finds a vector to change: whoever
\* can owe something was enrolled first, by activateAccount, which saves the
\* account only after faceRecognitionService has answered with success.
DebtorIsEnrolled == \A p \in customers : VectorsOf(p) # {}

\* The vectors of a debtor are found by the search until an operator says
\* otherwise.  Only an enrolment of the same person can take one off the list
\* of debtors or add one beside it (a stray): one that had passed its search
\* when the vectors were marked, or one with a face unlike those enrolled.
DebtorStaysListed ==
    \A p \in debtors \ strays, v \in Vectors :
        vector[v].person = p => vector[v].list = "DEBTOR"

\* No face that resembles a vector of a debtor is enrolled, under whatever
\* account, unless the debtor was marked between the search and the enrolment
\* or is a stray.
BlockedUnlessRaced ==
    \A c \in Calls, v \in Vectors :
        LET q == vector[v].person
        IN  /\ Cleared(call[c])
            /\ q \in debtors \ strays
            /\ <<call[c].face, vector[v].face>> \in Alike
            => q \in call[c].since

\* A vector is on the list of its person's identity, but for a handler between
\* the documents, and for a person torn: by an error there, by two handlers
\* that overlapped there, or by an upsert that met two vectors.
ListsAgree ==
    \A v \in Vectors :
        LET p == vector[v].person
        IN  \/ vector[v] = NoVector
            \/ vector[v].list = identity[p]
            \/ p \in torn
            \/ \E c \in Calls : /\ call[c].pc \in {"vector", "insert"}
                                /\ call[c].person = p
=============================================================================
