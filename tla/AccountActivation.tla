-------------------------- MODULE AccountActivation --------------------------
(***************************************************************************)
(* One account of userService, from its registration to its activation or  *)
(* deletion: the user document, the verification codes sent for it, the    *)
(* requests that carry it from one status to the next, and the cron job    *)
(* that deletes accounts whose activation is overdue.                      *)
(*                                                                         *)
(* Every request reads the document, awaits other things, changes its copy *)
(* and saves it.  save() sends the fields that differ from what was read,  *)
(* whatever the document has become, and throws if the document is gone.   *)
(***************************************************************************)
EXTENDS Naturals

CONSTANTS
    Phones,     \* phone numbers
    NoPhone,    \* null
    Email,      \* the address of the account, as the channel of a code
    Requests,   \* requests that may be in flight at the same time
    Jobs        \* runs of the cleanup job that may overlap

ASSUME PhonesAssumption == NoPhone \notin Phones /\ Email \notin Phones

VARIABLES
    life,       \* the document: not yet inserted, there, or deleted
    user,       \* its fields, while it is there
    oauth,      \* an OAuth sign-in before the address was verified
    codes,      \* channels with a code that was sent and not consumed
    enrolled,   \* the face service has the face of this account (external)
    req,        \* the requests, and the document each of them has read
    job,        \* the runs of the cleanup job
    confirmed,  \* history: channels whose code somebody has given
    announced   \* history: the deletion event was published

stored  == <<life, user, oauth>>
history == <<confirmed, announced>>
vars    == <<stored, codes, enrolled, req, job, history>>

Channels   == Phones \cup {Email}
MaybePhone == Phones \cup {NoPhone}
Statuses   == {"PENDING_EMAIL", "PENDING_PHONE", "PENDING_FACE", "ACTIVE"}

\* activationDeadline is null, in the future or in the past.
UserDoc == [status : Statuses, phone : MaybePhone,
            emailOk : BOOLEAN, phoneOk : BOOLEAN, faceOk : BOOLEAN,
            deadline : {"none", "ahead", "past"}]

NewUser(p) == [status |-> "PENDING_EMAIL", phone |-> p, emailOk |-> FALSE,
               phoneOk |-> FALSE, faceOk |-> FALSE, deadline |-> "none"]

Pcs  == {"idle", "emailStart", "emailCode", "phoneCode", "phoneChange",
         "find", "consume", "verified", "enroll", "activated"}
Idle == [pc |-> "idle", seen |-> NewUser(NoPhone), channel |-> Email]

Init ==
    /\ life = "none"
    /\ user = NewUser(NoPhone)
    /\ oauth = FALSE
    /\ codes = {}
    /\ enrolled = FALSE
    /\ req = [r \in Requests |-> Idle]
    /\ job = [j \in Jobs |-> "idle"]
    /\ confirmed = {}
    /\ announced = FALSE

Finish(r)   == req' = [req EXCEPT ![r] = Idle]
Goto(r, pc) == req' = [req EXCEPT ![r].pc = pc]

\* findById or findByEmail, for a request about the channel c.
Read(r, c, pc) ==
    /\ life = "there"
    /\ req' = [req EXCEPT ![r] = [pc |-> pc, seen |-> user, channel |-> c]]

\* A phone request needs a token: the login of an account with a password
\* refuses an unverified address, an OAuth sign-in does not.
HasToken == user.emailOk \/ oauth

-----------------------------------------------------------------------------
(* Creation *)

\* register, which goes on to send the code for the address.
Register(r, p) ==
    /\ life = "none"
    /\ req[r].pc = "idle"
    /\ life' = "there"
    /\ user' = NewUser(p)
    /\ Goto(r, "emailStart")
    /\ UNCHANGED <<oauth, codes, enrolled, job, history>>

\* loginOrRegister with an identity unknown so far.  When the provider vouches
\* for the address, the clock of the activation runs already.
RegisterOAuth ==
    /\ life = "none"
    /\ life' = "there"
    /\ \/ /\ user' = [NewUser(NoPhone) EXCEPT !.emailOk = TRUE,
                                              !.status = "PENDING_PHONE",
                                              !.deadline = "ahead"]
          /\ confirmed' = confirmed \cup {Email}
          /\ oauth' = FALSE
       \/ /\ user' = NewUser(NoPhone)
          /\ oauth' = TRUE
          /\ UNCHANGED confirmed
    /\ UNCHANGED <<codes, enrolled, req, job, announced>>

\* loginOrRegister with an identity that brings the address of the account,
\* and the provider vouches for it: the sign-in does not verify the account.
LinkOAuth ==
    /\ life = "there"
    /\ ~user.emailOk
    /\ oauth' = TRUE
    /\ UNCHANGED <<life, user, codes, enrolled, req, job, history>>

-----------------------------------------------------------------------------
(* What the requests write *)

\* One field: what was read, what it was set to, and what is stored now.
Sent(seen, want, now) == IF want = seen THEN now ELSE want

\* Faulty variant: the document is written whole, as the request knows it.
Save_wholeDocument(r, want) ==
    /\ life = "there"
    /\ user' = [want EXCEPT !.deadline = IF @ = "new" THEN "ahead" ELSE @]

\* user.save().  A new deadline differs from whatever was read.
Save(r, want) ==
    LET seen == req[r].seen
    IN  /\ life = "there"
        /\ user' =
            [status   |-> Sent(seen.status, want.status, user.status),
             phone    |-> Sent(seen.phone, want.phone, user.phone),
             emailOk  |-> Sent(seen.emailOk, want.emailOk, user.emailOk),
             phoneOk  |-> Sent(seen.phoneOk, want.phoneOk, user.phoneOk),
             faceOk   |-> Sent(seen.faceOk, want.faceOk, user.faceOk),
             deadline |-> IF want.deadline = "new" THEN "ahead"
                          ELSE Sent(seen.deadline, want.deadline,
                                    user.deadline)]

EmailVerified(d) ==
    IF d.status # "PENDING_EMAIL" THEN [d EXCEPT !.emailOk = TRUE]
    ELSE IF d.phoneOk
    THEN [d EXCEPT !.emailOk = TRUE, !.status = "PENDING_FACE",
                   !.deadline = "new"]
    ELSE [d EXCEPT !.emailOk = TRUE, !.status = "PENDING_PHONE"]

\* startVerification of a phone that is not the one stored.
PhoneChanged(d, p) ==
    [d EXCEPT !.phone = p, !.phoneOk = FALSE,
              !.status = IF d.emailOk /\ @ # "PENDING_FACE"
                         THEN "PENDING_PHONE" ELSE @]

\* Faulty variant: the status moves on whether or not the address is verified.
PhoneVerified_anyStatus(d, p) ==
    [d EXCEPT !.phone = p, !.phoneOk = TRUE,
              !.status = "PENDING_FACE", !.deadline = "new"]

PhoneVerified(d, p) ==
    IF d.emailOk /\ d.status = "PENDING_PHONE"
    THEN [d EXCEPT !.phone = p, !.phoneOk = TRUE,
                   !.status = "PENDING_FACE", !.deadline = "new"]
    ELSE [d EXCEPT !.phone = p, !.phoneOk = TRUE]

Activated(d) ==
    [d EXCEPT !.status = "ACTIVE", !.faceOk = TRUE, !.deadline = "none"]

-----------------------------------------------------------------------------
(* Sending a code *)

\* startVerification of the address: by a client, or at the end of register.
EmailStart(r) ==
    /\ req[r].pc \in {"idle", "emailStart"}
    /\ ~user.emailOk
    /\ Read(r, Email, "emailCode")
    /\ UNCHANGED <<stored, codes, enrolled, job, history>>

\* startVerification of a phone.
PhoneStart(r, p) ==
    /\ req[r].pc = "idle"
    /\ HasToken
    /\ Read(r, p, "phoneCode")
    /\ UNCHANGED <<stored, codes, enrolled, job, history>>

\* upsertActiveCode, and the message; a code that was active is replaced.
SendCode(r) ==
    LET c == req[r].channel
    IN  /\ req[r].pc \in {"emailCode", "phoneCode"}
        /\ codes' = codes \cup {c}
        /\ IF req[r].pc = "phoneCode" /\ req[r].seen.phone # c
           THEN Goto(r, "phoneChange")
           ELSE Finish(r)
        /\ UNCHANGED <<stored, enrolled, job, history>>

\* The new phone is stored, unverified.
PhoneChange(r) ==
    /\ req[r].pc = "phoneChange"
    /\ Save(r, PhoneChanged(req[r].seen, req[r].channel))
    /\ Finish(r)
    /\ UNCHANGED <<life, oauth, codes, enrolled, job, history>>

-----------------------------------------------------------------------------
(* Giving a code *)

\* verifyCode of the address or of a phone: the user is read.
Verify(r, c) ==
    /\ req[r].pc = "idle"
    /\ IF c = Email THEN ~user.emailOk ELSE HasToken
    /\ Read(r, c, "find")
    /\ UNCHANGED <<stored, codes, enrolled, job, history>>

\* An active code is found, and it is the one given.  (Another code, one that
\* has expired or is locked, ends the request: RequestFails.)
FindCode(r) ==
    /\ req[r].pc = "find"
    /\ req[r].channel \in codes
    /\ Goto(r, "consume")
    /\ UNCHANGED <<stored, codes, enrolled, job, history>>

\* markConsumed, by the id of what was found: it does not disturb a code that
\* was sent after another request had consumed the same one.
Consume(r) ==
    /\ req[r].pc = "consume"
    /\ codes' \in {codes, codes \ {req[r].channel}}
    /\ confirmed' = confirmed \cup {req[r].channel}
    /\ Goto(r, "verified")
    /\ UNCHANGED <<stored, enrolled, job, announced>>

\* The document is saved.
VerifySave(r) ==
    LET c    == req[r].channel
        seen == req[r].seen
    IN  /\ req[r].pc = "verified"
        /\ Save(r, IF c = Email THEN EmailVerified(seen)
                                ELSE PhoneVerified(seen, c))
        /\ Finish(r)
        /\ UNCHANGED <<life, oauth, codes, enrolled, job, history>>

-----------------------------------------------------------------------------
(* activateAccount *)

MayActivate(d) == d.emailOk /\ d.phoneOk /\ d.status = "PENDING_FACE"

\* The user is read and found eligible.
Activate(r) ==
    /\ req[r].pc = "idle"
    /\ MayActivate(user)
    /\ Read(r, Email, "enroll")
    /\ UNCHANGED <<stored, codes, enrolled, job, history>>

\* The three calls of the face service succeed; the last stores the face.
Enroll(r) ==
    /\ req[r].pc = "enroll"
    /\ enrolled' = TRUE
    /\ Goto(r, "activated")
    /\ UNCHANGED <<stored, codes, job, history>>

\* The document is saved.
ActivateSave(r) ==
    /\ req[r].pc = "activated"
    /\ Save(r, Activated(req[r].seen))
    /\ Finish(r)
    /\ UNCHANGED <<life, oauth, codes, enrolled, job, history>>

\* A refusal, an error (a save whose user is gone or whose phone is taken
\* throws) or a crash.
RequestFails(r) ==
    /\ req[r].pc # "idle"
    /\ Finish(r)
    /\ UNCHANGED <<stored, codes, enrolled, job, history>>

-----------------------------------------------------------------------------
(* PendingFaceActivationCleanupJob *)

\* Faulty variant: the status is not looked at.
Overdue_anyStatus(d) == d.deadline = "past"

\* The query of findExpiredPendingFaceActivation.
Overdue(d) == d.status = "PENDING_FACE" /\ d.deadline = "past"

\* The account is in the batch.
JobFind(j) ==
    /\ job[j] = "idle"
    /\ life = "there"
    /\ Overdue(user)
    /\ job' = [job EXCEPT ![j] = "delete"]
    /\ UNCHANGED <<stored, codes, enrolled, req, history>>

\* deleteMany, by the ids found.
JobDelete(j) ==
    /\ job[j] = "delete"
    /\ life' = "deleted"
    /\ user' = NewUser(NoPhone)
    /\ job' = [job EXCEPT ![j] = "publish"]
    /\ UNCHANGED <<oauth, codes, enrolled, req, history>>

\* The event, for every account that was in the batch.
JobPublish(j) ==
    /\ job[j] = "publish"
    /\ announced' = TRUE
    /\ job' = [job EXCEPT ![j] = "idle"]
    /\ UNCHANGED <<stored, codes, enrolled, req, confirmed>>

\* An error of the query, the deletion or the publication, or a crash.
JobFails(j) ==
    /\ job[j] # "idle"
    /\ job' = [job EXCEPT ![j] = "idle"]
    /\ UNCHANGED <<stored, codes, enrolled, req, history>>

-----------------------------------------------------------------------------
\* The activation deadline passes.
DeadlinePasses ==
    /\ life = "there"
    /\ user.deadline = "ahead"
    /\ user' = [user EXCEPT !.deadline = "past"]
    /\ UNCHANGED <<life, oauth, codes, enrolled, req, job, history>>

RequestStep(r) ==
    \/ EmailStart(r) \/ SendCode(r) \/ PhoneChange(r)
    \/ FindCode(r) \/ Consume(r) \/ VerifySave(r)
    \/ Activate(r) \/ Enroll(r) \/ ActivateSave(r)
    \/ RequestFails(r)
    \/ \E p \in Phones : Register(r, p)
    \/ \E p \in Phones : PhoneStart(r, p)
    \/ \E c \in Channels : Verify(r, c)

JobStep(j) == JobFind(j) \/ JobDelete(j) \/ JobPublish(j) \/ JobFails(j)

Next ==
    \/ \E r \in Requests : RequestStep(r)
    \/ \E j \in Jobs : JobStep(j)
    \/ RegisterOAuth \/ LinkOAuth
    \/ DeadlinePasses

Spec == Init /\ [][Next]_vars

-----------------------------------------------------------------------------
(* Properties *)

\* Every variable keeps its type.
TypeOK ==
    /\ life \in {"none", "there", "deleted"}
    /\ user \in UserDoc
    /\ oauth \in BOOLEAN
    /\ codes \in SUBSET Channels
    /\ enrolled \in BOOLEAN
    /\ req \in [Requests -> [pc : Pcs, seen : UserDoc, channel : Channels]]
    /\ job \in [Jobs -> {"idle", "delete", "publish"}]
    /\ confirmed \in SUBSET Channels
    /\ announced \in BOOLEAN

PhoneConfirmed == confirmed \cap Phones # {}

\* What the document d claims was earned.
Earned(d) ==
    /\ d.status # "PENDING_EMAIL" => d.emailOk
    /\ d.emailOk => Email \in confirmed
    /\ d.phoneOk => PhoneConfirmed
    /\ d.status \in {"PENDING_FACE", "ACTIVE"} => PhoneConfirmed
    /\ d.faceOk => enrolled
    /\ d.status = "ACTIVE" => d.faceOk

\* The cleanup job finds exactly the accounts it is meant for.
DeadlineFits(d) ==
    /\ d.status = "PENDING_FACE" => d.deadline # "none"
    /\ d.status = "ACTIVE" => d.deadline = "none"

\* The status of an account is never ahead of its verifications, although
\* requests that read the account at different times save their conclusions in
\* any order: beyond the first status the address is verified, by its code or
\* by the OAuth provider; beyond the second, some code sent to a phone was
\* given; an active account has its face on record.  (Which phone that code
\* was sent to is another matter: a phone that is changed while the account is
\* activated stays unverified.)
StatusIsEarned == Earned(user)

\* An account that waits for its activation always has a deadline, so that the
\* cleanup job can end the wait, and an active account never keeps one, in
\* spite of saves of status and deadline that are merged field by field.
DeadlineMatchesStatus == DeadlineFits(user)

\* Status and deadline, read and written by six handlers and a job, stay sound.
StatusIsSound == StatusIsEarned /\ DeadlineMatchesStatus

\* The cleanup job deletes only accounts that waited for their face: one that
\* still waits for a code is spared, also when it has a deadline (an OAuth
\* sign-in sets one at once).  And the event that the account was deleted is
\* only published once it is, however the runs of the job overlap and fail.
DeletionIsDue ==
    /\ life = "deleted" => Email \in confirmed /\ PhoneConfirmed
    /\ announced => life = "deleted"

\* No save of an older copy of the document takes back a verified address or
\* face, or sends the account back to its first status.
VerifiedIsFinal ==
    [][life' = "there" =>
          /\ user.emailOk => user'.emailOk
          /\ user.faceOk => user'.faceOk
          /\ user.status # "PENDING_EMAIL" => user'.status # "PENDING_EMAIL"]_vars

-----------------------------------------------------------------------------
(* The inductive invariant *)

\* Before it is inserted, the document claims nothing.
Unborn == life = "none" => user = NewUser(NoPhone)

\* What each request has read was earned, and has not been taken back since.
SeenSound(r) ==
    LET seen == req[r].seen
    IN  /\ Earned(seen) /\ DeadlineFits(seen)
        /\ life # "deleted" =>
              /\ seen.emailOk => user.emailOk
              /\ seen.faceOk => user.faceOk
              /\ seen.status # "PENDING_EMAIL" => user.status # "PENDING_EMAIL"

SeenIsSound == \A r \in Requests : SeenSound(r)

\* What each request has done by the time it saves.
RequestsInFlight == \A r \in Requests :
    /\ req[r].pc # "idle" => life # "none"
    /\ req[r].pc \in {"phoneCode", "phoneChange"} => req[r].channel \in Phones
    /\ req[r].pc = "verified" => req[r].channel \in confirmed
    /\ req[r].pc \in {"enroll", "activated"} => MayActivate(req[r].seen)
    /\ req[r].pc = "activated" => enrolled

\* What each run of the job holds was waiting for its face when it was found.
JobsInFlight == \A j \in Jobs :
    /\ job[j] # "idle" => /\ life # "none"
                         /\ Email \in confirmed /\ PhoneConfirmed
    /\ job[j] = "publish" => life = "deleted"

IInv ==
    /\ TypeOK
    /\ StatusIsEarned
    /\ DeadlineMatchesStatus
    /\ DeletionIsDue
    /\ Unborn
    /\ SeenIsSound
    /\ RequestsInFlight
    /\ JobsInFlight

=============================================================================
