----------------------- MODULE AccountActivation_proofs -----------------------
(***************************************************************************)
(* The safety properties of AccountActivation, for any number of phones,   *)
(* of requests in flight and of overlapping runs of the cleanup job, and   *)
(* those of FaceWatchlist, where an activation enrols its face, for any    *)
(* persons, faces and resemblances, and any number of vectors and calls.   *)
(*                                                                         *)
(* A save merges the conclusions of a request into a document that others  *)
(* have changed since it was read.  The merge is sound because every       *)
(* request concludes something Fit to be saved, and because what was       *)
(* verified when it read the document is verified still (SeenIsSound).     *)
(*                                                                         *)
(* A debtor stays listed because an enrolment of his that could undo it    *)
(* makes him a stray: one that has passed the search when the vectors are  *)
(* marked, and one that passes it later because the face is new.  The      *)
(* documents of a person who is not torn have at most one handler between  *)
(* them, and it brings them all to one list (FaceInv).                     *)
(***************************************************************************)
EXTENDS AccountActivation, FaceWatchlist, TLAPS

\* What may be saved in place of the document d: it takes back neither address
\* nor face, goes on only to statuses that were earned, and changes the
\* deadline only together with the status.
Fit(d, want) ==
    /\ want.status \in Statuses /\ want.phone \in MaybePhone
    /\ want.emailOk \in BOOLEAN /\ want.phoneOk \in BOOLEAN
    /\ want.faceOk \in BOOLEAN
    /\ want.deadline \in {"none", "ahead", "past", "new"}
    /\ d.emailOk => want.emailOk
    /\ d.faceOk => want.faceOk
    /\ want.status = "PENDING_EMAIL" => d.status = "PENDING_EMAIL"
    /\ want.status # "PENDING_EMAIL" => want.emailOk
    /\ want.emailOk => Email \in confirmed
    /\ want.phoneOk => PhoneConfirmed
    /\ want.status \in {"PENDING_FACE", "ACTIVE"} => PhoneConfirmed
    /\ want.faceOk => enrolled
    /\ want.status = "ACTIVE" => want.faceOk
    /\ IF want.status = d.status THEN want.deadline = d.deadline
       ELSE \/ want.status = "PENDING_PHONE" /\ want.deadline = d.deadline
            \/ want.status = "PENDING_FACE" /\ want.deadline = "new"
            \/ /\ want.status = "ACTIVE" /\ d.status = "PENDING_FACE"
               /\ want.deadline = "none"

\* What a save must keep, of the document and of what the requests have read.
DocSound == user \in UserDoc /\ StatusIsEarned /\ DeadlineMatchesStatus

\* No earlier verification is taken back.
Grows == /\ user.emailOk => user'.emailOk
         /\ user.faceOk => user'.faceOk
         /\ user.status # "PENDING_EMAIL" => user'.status # "PENDING_EMAIL"

-----------------------------------------------------------------------------
(* The merge *)

\* Saving something fit keeps the document sound, and takes nothing back.
LEMMA SaveSound ==
  ASSUME NEW r \in Requests, NEW want, IInv, life = "there",
         Fit(req[r].seen, want), Save(r, want),
         confirmed' = confirmed, enrolled' = enrolled
  PROVE  DocSound' /\ Grows
<1> DEFINE seen == req[r].seen
<1>1. seen \in UserDoc /\ user \in UserDoc
  BY DEF IInv, TypeOK
<1>2. /\ seen.emailOk => user.emailOk
      /\ seen.faceOk => user.faceOk
      /\ seen.status # "PENDING_EMAIL" => user.status # "PENDING_EMAIL"
      /\ Earned(seen) /\ DeadlineFits(seen) /\ Earned(user) /\ DeadlineFits(user)
  BY DEF IInv, SeenIsSound, SeenSound, StatusIsEarned, DeadlineMatchesStatus
<1>3. user' \in UserDoc
  BY <1>1 DEF Save, Sent, Fit, UserDoc
<1>4. /\ user'.status = Sent(seen.status, want.status, user.status)
      /\ user'.emailOk = Sent(seen.emailOk, want.emailOk, user.emailOk)
      /\ user'.phoneOk = Sent(seen.phoneOk, want.phoneOk, user.phoneOk)
      /\ user'.faceOk = Sent(seen.faceOk, want.faceOk, user.faceOk)
      /\ user'.deadline = IF want.deadline = "new" THEN "ahead"
                          ELSE Sent(seen.deadline, want.deadline, user.deadline)
  BY DEF Save
<1> HIDE DEF seen
<1>5. Fit(seen, want)
  BY DEF seen
<1>6. /\ user.emailOk => user'.emailOk
      /\ want.emailOk => user'.emailOk
      /\ user'.emailOk => Email \in confirmed
  BY <1>1, <1>2, <1>4, <1>5 DEF Sent, Fit, Earned, UserDoc
<1>7. /\ user.faceOk => user'.faceOk
      /\ want.faceOk => user'.faceOk
      /\ user'.faceOk => enrolled
  BY <1>1, <1>2, <1>4, <1>5 DEF Sent, Fit, Earned, UserDoc
<1>8. user'.phoneOk => PhoneConfirmed
  BY <1>1, <1>2, <1>4, <1>5 DEF Sent, Fit, Earned, UserDoc
<1>9. /\ user.status # "PENDING_EMAIL" => user'.status # "PENDING_EMAIL"
      /\ user'.status # "PENDING_EMAIL" => user'.emailOk
      /\ user'.status \in {"PENDING_FACE", "ACTIVE"} => PhoneConfirmed
      /\ user'.status = "ACTIVE" => user'.faceOk
  BY <1>1, <1>2, <1>4, <1>5, <1>6, <1>7 DEF Sent, Fit, Earned, UserDoc
<1>10. DeadlineFits(user')
  BY <1>1, <1>2, <1>4, <1>5 DEF Sent, Fit, DeadlineFits, UserDoc
<1>11. (Email \in confirmed)' = (Email \in confirmed)
       /\ PhoneConfirmed' = PhoneConfirmed /\ enrolled' = enrolled
  BY DEF PhoneConfirmed
<1>12. StatusIsEarned'
  BY <1>6, <1>7, <1>8, <1>9, <1>11 DEF StatusIsEarned, Earned
<1> QED
  BY <1>3, <1>6, <1>7, <1>9, <1>10, <1>12
     DEF DocSound, Grows, DeadlineMatchesStatus

\* The conclusions of the three kinds of request are fit to be saved.
LEMMA EmailFit ==
  ASSUME NEW d \in UserDoc, Earned(d), DeadlineFits(d), Email \in confirmed
  PROVE  Fit(d, EmailVerified(d))
BY DEF Fit, EmailVerified, Earned, UserDoc, Statuses

LEMMA PhoneChangeFit ==
  ASSUME NEW d \in UserDoc, NEW p \in Phones, Earned(d), DeadlineFits(d)
  PROVE  Fit(d, PhoneChanged(d, p))
BY DEF Fit, PhoneChanged, Earned, UserDoc, Statuses, MaybePhone

LEMMA PhoneFit ==
  ASSUME NEW d \in UserDoc, NEW p \in Phones, Earned(d), DeadlineFits(d),
         p \in confirmed
  PROVE  Fit(d, PhoneVerified(d, p))
BY DEF Fit, PhoneVerified, Earned, UserDoc, Statuses, MaybePhone,
       PhoneConfirmed

LEMMA ActivationFit ==
  ASSUME NEW d \in UserDoc, Earned(d), DeadlineFits(d), MayActivate(d), enrolled
  PROVE  Fit(d, Activated(d))
BY DEF Fit, Activated, MayActivate, Earned, UserDoc, Statuses

-----------------------------------------------------------------------------
(* The invariant *)

LEMMA Initially == Init => IInv
<1> SUFFICES ASSUME Init PROVE IInv
  OBVIOUS
<1> USE DEF Init, Idle, NewUser, UserDoc, Statuses, MaybePhone, Channels
<1>1. TypeOK
  BY DEF TypeOK, Pcs
<1>2. StatusIsEarned /\ DeadlineMatchesStatus /\ DeletionIsDue /\ Unborn
  BY DEF StatusIsEarned, Earned, DeadlineMatchesStatus, DeadlineFits,
         DeletionIsDue, Unborn
<1>3. SeenIsSound
  BY DEF SeenIsSound, SeenSound, Earned, DeadlineFits
<1>4. RequestsInFlight /\ JobsInFlight
  BY DEF RequestsInFlight, JobsInFlight
<1> QED
  BY <1>1, <1>2, <1>3, <1>4 DEF IInv

\* Where what a request has read comes from.
Origin(q) == \/ req'[q].seen = req[q].seen
             \/ req'[q].seen = NewUser(NoPhone)
             \/ req'[q].seen = user /\ life = "there" /\ user' = user

\* What was read stays sound while the document grows or is deleted.
LEMMA SeenStays ==
  ASSUME IInv, Grows \/ life' = "deleted", life = "deleted" => life' = "deleted",
         confirmed \subseteq confirmed', enrolled => enrolled',
         \A q \in Requests : Origin(q)
  PROVE  SeenIsSound'
<1> SUFFICES ASSUME NEW q \in Requests PROVE SeenSound(q)'
  BY DEF SeenIsSound
<1>1. PhoneConfirmed => PhoneConfirmed'
  BY DEF PhoneConfirmed
<1>2. CASE req'[q].seen = req[q].seen
  BY <1>1, <1>2 DEF IInv, SeenIsSound, SeenSound, Grows, Earned, DeadlineFits
<1>3. CASE req'[q].seen = NewUser(NoPhone)
  BY <1>3 DEF NewUser, SeenSound, Earned, DeadlineFits
<1>4. CASE req'[q].seen = user /\ life = "there" /\ user' = user
  BY <1>1, <1>4 DEF IInv, StatusIsEarned, DeadlineMatchesStatus, SeenSound,
                    Earned, DeadlineFits
<1> QED
  BY <1>2, <1>3, <1>4 DEF Origin

\* Steps of a request that leave the document alone.
LEMMA DocKept ==
  ASSUME IInv, UNCHANGED <<stored, job, announced>>,
         confirmed \subseteq confirmed', enrolled => enrolled'
  PROVE  /\ StatusIsEarned' /\ DeadlineMatchesStatus'
         /\ DeletionIsDue' /\ Unborn' /\ JobsInFlight' /\ Grows
<1> USE DEF IInv, stored
<1>1. PhoneConfirmed => PhoneConfirmed'
  BY DEF PhoneConfirmed
<1>2. StatusIsEarned' /\ DeadlineMatchesStatus'
  BY <1>1 DEF StatusIsEarned, DeadlineMatchesStatus, Earned, DeadlineFits
<1>3. DeletionIsDue' /\ Unborn' /\ JobsInFlight'
  BY <1>1 DEF DeletionIsDue, Unborn, JobsInFlight
<1> QED
  BY <1>2, <1>3 DEF Grows

\* A request that reads, sends or looks for a code, enrols a face or fails.
LEMMA QuietStep ==
  ASSUME IInv, NEW r \in Requests,
         \/ EmailStart(r) \/ SendCode(r) \/ FindCode(r) \/ Consume(r)
         \/ Activate(r) \/ Enroll(r) \/ RequestFails(r)
         \/ \E p \in Phones : PhoneStart(r, p)
         \/ \E c \in Channels : Verify(r, c)
  PROVE  IInv'
<1> USE DEF Finish, Goto, Read
<1>1. /\ UNCHANGED <<stored, job, announced>>
      /\ confirmed \subseteq confirmed'
      /\ enrolled => enrolled'
  BY DEF EmailStart, SendCode, FindCode, Consume, Activate, Enroll,
         RequestFails, PhoneStart, Verify, history, stored
<1>2. TypeOK'
  <2> USE DEF IInv, TypeOK, Channels, Pcs, Idle, stored, history
  <2>1. CASE EmailStart(r) \/ Activate(r)
    BY <2>1 DEF EmailStart, Activate
  <2>2. CASE \E p \in Phones : PhoneStart(r, p)
    BY <2>2 DEF PhoneStart
  <2>3. CASE \E c \in Channels : Verify(r, c)
    BY <2>3 DEF Verify
  <2>4. CASE SendCode(r)
    <3>1. codes' \in SUBSET Channels
      BY <2>4 DEF SendCode
    <3>2. Idle \in [pc : Pcs, seen : UserDoc, channel : Channels]
      BY DEF NewUser, UserDoc, Statuses, MaybePhone
    <3>3. req' \in [Requests -> [pc : Pcs, seen : UserDoc, channel : Channels]]
      <4> HIDE DEF Idle
      <4> QED
        BY <2>4, <3>2 DEF SendCode
    <3> QED
      BY <2>4, <3>1, <3>3 DEF SendCode
  <2>5. CASE FindCode(r) \/ Enroll(r)
    <3>1. CASE FindCode(r)
      BY <3>1 DEF FindCode
    <3>2. CASE Enroll(r)
      BY <3>2 DEF Enroll
    <3> QED
      BY <2>5, <3>1, <3>2
  <2>6. CASE Consume(r)
    BY <2>6 DEF Consume
  <2>7. CASE RequestFails(r)
    BY <2>7 DEF RequestFails, NewUser, UserDoc, Statuses, MaybePhone
  <2> QED
    BY <2>1, <2>2, <2>3, <2>4, <2>5, <2>6, <2>7
<1>3. \A q \in Requests : Origin(q)
  BY DEF IInv, TypeOK, Origin, stored, Idle, EmailStart, SendCode, FindCode,
         Consume, Activate, Enroll, RequestFails, PhoneStart, Verify
<1>4. RequestsInFlight'
  <2> USE DEF IInv, TypeOK, RequestsInFlight, Idle, stored, history
  <2>1. CASE EmailStart(r) \/ Activate(r)
    BY <2>1 DEF EmailStart, Activate
  <2>2. CASE \E p \in Phones : PhoneStart(r, p)
    BY <2>2 DEF PhoneStart
  <2>3. CASE \E c \in Channels : Verify(r, c)
    BY <2>3 DEF Verify
  <2>4. CASE SendCode(r) \/ RequestFails(r)
    BY <2>4 DEF SendCode, RequestFails
  <2>5. CASE FindCode(r) \/ Enroll(r)
    BY <2>5 DEF FindCode, Enroll
  <2>6. CASE Consume(r)
    BY <2>6 DEF Consume
  <2> QED
    BY <2>1, <2>2, <2>3, <2>4, <2>5, <2>6
<1>5. /\ StatusIsEarned' /\ DeadlineMatchesStatus'
      /\ DeletionIsDue' /\ Unborn' /\ JobsInFlight' /\ Grows
  BY <1>1, DocKept
<1>6. life' = life
  BY <1>1 DEF stored
<1>7. SeenIsSound'
  BY <1>1, <1>3, <1>5, <1>6, SeenStays
<1> QED
  BY <1>2, <1>4, <1>5, <1>7 DEF IInv

\* A request that saves.
LEMMA SaveStep ==
  ASSUME IInv, NEW r \in Requests,
         PhoneChange(r) \/ VerifySave(r) \/ ActivateSave(r)
  PROVE  IInv' /\ Grows
<1> DEFINE seen == req[r].seen
           c    == req[r].channel
<1>1. /\ seen \in UserDoc /\ c \in Channels
      /\ Earned(seen) /\ DeadlineFits(seen)
  BY DEF IInv, TypeOK, SeenIsSound, SeenSound
<1>2. PICK want : Fit(seen, want) /\ Save(r, want)
  <2>1. CASE PhoneChange(r)
    <3>1. c \in Phones /\ Save(r, PhoneChanged(seen, c))
      BY <2>1 DEF PhoneChange, IInv, RequestsInFlight
    <3> QED
      BY <1>1, <3>1, PhoneChangeFit
  <2>2. CASE VerifySave(r) /\ c = Email
    <3>1. Email \in confirmed /\ Save(r, EmailVerified(seen))
      BY <2>2 DEF VerifySave, IInv, RequestsInFlight
    <3> QED
      BY <1>1, <3>1, EmailFit
  <2>3. CASE VerifySave(r) /\ c # Email
    <3>1. c \in Phones /\ c \in confirmed /\ Save(r, PhoneVerified(seen, c))
      BY <1>1, <2>3 DEF VerifySave, IInv, RequestsInFlight, Channels
    <3> QED
      BY <1>1, <3>1, PhoneFit
  <2>4. CASE ActivateSave(r)
    <3>1. MayActivate(seen) /\ enrolled /\ Save(r, Activated(seen))
      BY <2>4 DEF ActivateSave, IInv, RequestsInFlight
    <3> QED
      BY <1>1, <3>1, ActivationFit
  <2> QED
    BY <2>1, <2>2, <2>3, <2>4
<1>3. /\ Finish(r) /\ life = "there"
      /\ UNCHANGED <<life, oauth, codes, enrolled, job, confirmed, announced>>
  BY DEF PhoneChange, VerifySave, ActivateSave, Save, history
<1>4. DocSound' /\ Grows
  BY <1>2, <1>3, SaveSound
<1>5. TypeOK'
  BY <1>3, <1>4 DEF IInv, TypeOK, DocSound, Finish, Idle, NewUser, UserDoc,
                    Statuses, MaybePhone, Pcs, Channels
<1>6. \A q \in Requests : Origin(q)
  BY <1>3 DEF IInv, TypeOK, Origin, Finish, Idle
<1>7. SeenIsSound'
  BY <1>3, <1>4, <1>6, SeenStays
<1>8. RequestsInFlight'
  BY <1>3 DEF IInv, TypeOK, RequestsInFlight, Finish, Idle
<1>9. DeletionIsDue' /\ Unborn' /\ JobsInFlight'
  BY <1>3 DEF IInv, DeletionIsDue, Unborn, JobsInFlight, PhoneConfirmed
<1> QED
  BY <1>4, <1>5, <1>7, <1>8, <1>9 DEF IInv, DocSound

\* The creation of the account, by a registration or by an OAuth sign-in.
LEMMA CreateStep ==
  ASSUME IInv, \/ \E r \in Requests, p \in Phones : Register(r, p)
               \/ RegisterOAuth
  PROVE  IInv' /\ Grows
<1>1. /\ life = "none" /\ life' = "there" /\ user = NewUser(NoPhone)
      /\ UNCHANGED <<codes, enrolled, job, announced>>
      /\ announced = FALSE /\ \A j \in Jobs : job[j] = "idle"
  BY DEF Register, RegisterOAuth, IInv, TypeOK, Unborn, DeletionIsDue,
         JobsInFlight, history
<1>2. CASE \E r \in Requests, p \in Phones : Register(r, p)
  <2>1. PICK r \in Requests, p \in Phones : Register(r, p)
    BY <1>2
  <2>2. /\ user' = NewUser(p) /\ oauth' = oauth /\ confirmed' = confirmed
        /\ req' = [req EXCEPT ![r].pc = "emailStart"]
    BY <2>1 DEF Register, Goto, history
  <2>3. TypeOK'
    BY <1>1, <2>2 DEF IInv, TypeOK, NewUser, UserDoc, Statuses, MaybePhone, Pcs
  <2>4. StatusIsEarned' /\ DeadlineMatchesStatus' /\ Grows
    BY <1>1, <2>2 DEF StatusIsEarned, DeadlineMatchesStatus, Earned,
                      DeadlineFits, Grows, NewUser
  <2>5. \A q \in Requests : Origin(q)
    BY <2>2 DEF IInv, TypeOK, Origin
  <2>6. SeenIsSound'
    BY <1>1, <2>2, <2>4, <2>5, SeenStays
  <2>7. RequestsInFlight'
    BY <1>1, <2>2 DEF IInv, TypeOK, RequestsInFlight
  <2>8. DeletionIsDue' /\ Unborn' /\ JobsInFlight'
    BY <1>1 DEF DeletionIsDue, Unborn, JobsInFlight
  <2> QED
    BY <2>3, <2>4, <2>6, <2>7, <2>8 DEF IInv
<1>3. CASE RegisterOAuth
  <2>1. PICK v \in BOOLEAN :
          /\ user' = [status |-> IF v THEN "PENDING_PHONE" ELSE "PENDING_EMAIL",
                      phone |-> NoPhone, emailOk |-> v, phoneOk |-> FALSE,
                      faceOk |-> FALSE,
                      deadline |-> IF v THEN "ahead" ELSE "none"]
          /\ oauth' \in BOOLEAN /\ req' = req
          /\ confirmed' = IF v THEN confirmed \cup {Email} ELSE confirmed
    BY <1>3 DEF RegisterOAuth, NewUser
  <2>2. confirmed \subseteq confirmed'
    BY <2>1
  <2>3. TypeOK'
    BY <1>1, <2>1 DEF IInv, TypeOK, UserDoc, Statuses, MaybePhone, Channels
  <2>4. StatusIsEarned' /\ DeadlineMatchesStatus' /\ Grows
    BY <1>1, <2>1 DEF StatusIsEarned, DeadlineMatchesStatus, Earned,
                      DeadlineFits, Grows, NewUser
  <2>5. \A q \in Requests : Origin(q)
    BY <2>1 DEF Origin
  <2>6. SeenIsSound'
    BY <1>1, <2>1, <2>2, <2>4, <2>5, SeenStays
  <2>7. RequestsInFlight'
    BY <1>1, <2>1 DEF IInv, RequestsInFlight
  <2>8. DeletionIsDue' /\ Unborn' /\ JobsInFlight'
    BY <1>1 DEF DeletionIsDue, Unborn, JobsInFlight
  <2> QED
    BY <2>3, <2>4, <2>6, <2>7, <2>8 DEF IInv
<1> QED
  BY <1>2, <1>3

\* The deadline passes.
LEMMA DeadlineStep ==
  ASSUME IInv, DeadlinePasses
  PROVE  IInv' /\ Grows
<1>1. /\ user' = [user EXCEPT !.deadline = "past"] /\ user.deadline = "ahead"
      /\ life = "there"
      /\ UNCHANGED <<life, oauth, codes, enrolled, req, job, confirmed, announced>>
  BY DEF DeadlinePasses, history
<1>2. TypeOK'
  BY <1>1 DEF IInv, TypeOK, UserDoc
<1>3. StatusIsEarned' /\ DeadlineMatchesStatus' /\ Grows
  BY <1>1 DEF IInv, TypeOK, UserDoc, StatusIsEarned, DeadlineMatchesStatus,
              Earned, DeadlineFits, Grows, PhoneConfirmed
<1>4. SeenIsSound'
  BY <1>1, <1>3, SeenStays DEF Origin
<1>5. RequestsInFlight' /\ DeletionIsDue' /\ Unborn' /\ JobsInFlight'
  BY <1>1 DEF IInv, RequestsInFlight, DeletionIsDue, Unborn, JobsInFlight,
              PhoneConfirmed
<1> QED
  BY <1>2, <1>3, <1>4, <1>5 DEF IInv

\* A step of the cleanup job.
LEMMA CleanupStep ==
  ASSUME IInv, NEW j \in Jobs, JobStep(j)
  PROVE  IInv' /\ (Grows \/ life' = "deleted")
<1>1. UNCHANGED <<oauth, codes, enrolled, req, confirmed>>
  BY DEF JobStep, JobFind, JobDelete, JobPublish, JobFails, stored, history
<1>2. TypeOK'
  <2> USE DEF IInv, TypeOK, stored, history
  <2>1. CASE JobDelete(j)
    BY <2>1 DEF JobDelete, NewUser, UserDoc, Statuses, MaybePhone
  <2>2. CASE JobFind(j) \/ JobPublish(j) \/ JobFails(j)
    BY <2>2 DEF JobFind, JobPublish, JobFails
  <2> QED
    BY <2>1, <2>2 DEF JobStep
<1>3. StatusIsEarned' /\ DeadlineMatchesStatus' /\ (Grows \/ life' = "deleted")
      /\ (life = "deleted" => life' = "deleted")
  BY DEF IInv, JobStep, JobFind, JobDelete, JobPublish, JobFails, stored,
         history, StatusIsEarned, DeadlineMatchesStatus, Earned, DeadlineFits,
         Grows, NewUser, PhoneConfirmed
<1>4. SeenIsSound'
  BY <1>1, <1>3, SeenStays DEF Origin
<1>5. RequestsInFlight' /\ Unborn'
  BY <1>1 DEF IInv, RequestsInFlight, Unborn, JobsInFlight, JobStep, JobFind,
              JobDelete, JobPublish, JobFails, stored
<1>6. DeletionIsDue' /\ JobsInFlight'
  <2> USE DEF IInv, TypeOK, DeletionIsDue, JobsInFlight, PhoneConfirmed,
              stored, history
  <2>1. CASE JobFind(j)
    BY <2>1 DEF JobFind, Overdue, StatusIsEarned, Earned
  <2>2. CASE JobDelete(j)
    BY <2>2 DEF JobDelete
  <2>3. CASE JobPublish(j)
    BY <2>3 DEF JobPublish
  <2>4. CASE JobFails(j)
    BY <2>4 DEF JobFails
  <2> QED
    BY <2>1, <2>2, <2>3, <2>4 DEF JobStep
<1> QED
  BY <1>2, <1>3, <1>4, <1>5, <1>6 DEF IInv

\* Every step keeps the invariant, and takes no verification back.
LEMMA Inductive ==
  ASSUME IInv, [Next]_vars
  PROVE  IInv' /\ (Grows \/ life' = "deleted")
<1>1. CASE UNCHANGED vars
  BY <1>1 DEF vars, stored, history, IInv, TypeOK, StatusIsEarned,
     DeadlineMatchesStatus, DeletionIsDue, Unborn, SeenIsSound, SeenSound,
     RequestsInFlight, JobsInFlight, Earned, DeadlineFits, PhoneConfirmed, Grows
<1>2. ASSUME NEW r \in Requests, RequestStep(r)
      PROVE  IInv' /\ Grows
  <2>1. CASE PhoneChange(r) \/ VerifySave(r) \/ ActivateSave(r)
    BY <2>1, SaveStep
  <2>2. CASE \E p \in Phones : Register(r, p)
    BY <2>2, CreateStep
  <2>3. CASE \/ EmailStart(r) \/ SendCode(r) \/ FindCode(r) \/ Consume(r)
             \/ Activate(r) \/ Enroll(r) \/ RequestFails(r)
             \/ \E p \in Phones : PhoneStart(r, p)
             \/ \E c \in Channels : Verify(r, c)
    <3>1. user' = user
      BY <2>3 DEF EmailStart, SendCode, FindCode, Consume, Activate, Enroll,
                  RequestFails, PhoneStart, Verify, stored
    <3> QED
      BY <2>3, <3>1, QuietStep DEF Grows
  <2> QED
    BY <1>2, <2>1, <2>2, <2>3 DEF RequestStep
<1>3. ASSUME NEW j \in Jobs, JobStep(j)
      PROVE  IInv' /\ (Grows \/ life' = "deleted")
  BY <1>3, CleanupStep
<1>4. CASE RegisterOAuth
  BY <1>4, CreateStep
<1>5. CASE DeadlinePasses
  BY <1>5, DeadlineStep
<1>6. CASE LinkOAuth
  BY <1>6 DEF LinkOAuth, history, IInv, TypeOK, StatusIsEarned,
     DeadlineMatchesStatus, DeletionIsDue, Unborn, SeenIsSound, SeenSound,
     RequestsInFlight, JobsInFlight, Earned, DeadlineFits, PhoneConfirmed, Grows
<1> QED
  BY <1>1, <1>2, <1>3, <1>4, <1>5, <1>6 DEF Next

\* The inductive invariant: what each request has read, and will save, is
\* sound, whatever the others have saved in between.
THEOREM Invariance == Spec => []IInv
  BY Initially, Inductive, PTL DEF Spec

-----------------------------------------------------------------------------
(* The properties *)

\* Every variable keeps its type.
THEOREM TypeCorrect == Spec => []TypeOK
<1>1. IInv => TypeOK
  BY DEF IInv
<1> QED
  BY <1>1, Invariance, PTL

\* The status is never ahead of the verifications, an account that waits for
\* its face has a deadline, an active one has none.
THEOREM StatusTheorem == Spec => []StatusIsSound
<1>1. IInv => StatusIsSound
  BY DEF IInv, StatusIsSound
<1> QED
  BY <1>1, Invariance, PTL

\* The cleanup job deletes only accounts that waited for their face, and
\* announces no other.
THEOREM DeletionTheorem == Spec => []DeletionIsDue
<1>1. IInv => DeletionIsDue
  BY DEF IInv
<1> QED
  BY <1>1, Invariance, PTL

\* No save takes back a verified address or face, or the progress from the
\* first status.
THEOREM FinalTheorem == Spec => VerifiedIsFinal
<1>1. IInv /\ [Next]_vars =>
        [life' = "there" =>
           /\ user.emailOk => user'.emailOk
           /\ user.faceOk => user'.faceOk
           /\ user.status # "PENDING_EMAIL" => user'.status # "PENDING_EMAIL"]_vars
  BY Inductive DEF Grows
<1> QED
  BY <1>1, Invariance, PTL DEF Spec, VerifiedIsFinal


-----------------------------------------------------------------------------
(* FaceWatchlist: the invariant *)

\* What a call in flight has come to, by what it is about to do.
CallFits(r) ==
    /\ r.pc # "idle" => r.person \in Persons
    /\ r.pc # "idle" /\ r.op # "blacklist" => r.face \in Faces
    /\ r.op = "activate" => r.list = "NORMAL"
    /\ r.op = "blacklist" => r.list = "DEBTOR" /\ r.pc # "insert"
    /\ r.pc = "save" => r.op = "activate" /\ VectorsOf(r.person) # {}

\* An enrolment that has passed its search and has still to write.
Passed(r) == r.op = "activate" /\ r.pc \in {"identity", "vector", "insert"}

\* A debtor whose vectors no enrolment was, or is, about to write.
Settled(p) == p \in debtors \ strays

\* Whose vectors a cleared face resembles has been listed since its search.
Excused(r) ==
    Cleared(r) =>
        \A v \in Vectors :
            Settled(vector[v].person) /\ <<r.face, vector[v].face>> \in Alike
            => vector[v].person \in r.since

\* The handler of c is between the documents of p.
Inside(c, p) == call[c].pc \in {"vector", "insert"} /\ call[c].person = p

\* The documents of a person who is not torn: one handler at most is between
\* them, which brings all the vectors to the list of the identity; without one
\* they are there.
Whole(p) ==
    p \notin torn =>
        /\ \A c, d \in Calls : Inside(c, p) /\ Inside(d, p) => c = d
        /\ \A c \in Calls : Inside(c, p) =>
              /\ identity[p] = call[c].list
              /\ Uniform(c, p)
              /\ call[c].pc = "insert" => VectorsOf(p) = {}
        /\ (\A c \in Calls : ~Inside(c, p)) =>
              \A v \in VectorsOf(p) : vector[v].list = identity[p]

FaceInv ==
    /\ FaceTypeOK
    /\ \A c \in Calls : /\ CallFits(call[c])
                        /\ Passed(call[c]) => ~Settled(call[c].person)
                        /\ Excused(call[c])
    /\ DebtorIsEnrolled
    /\ DebtorStaysListed
    /\ \A p \in Persons : Whole(p)

LEMMA FaceInitially == FaceInit => FaceInv
<1> SUFFICES ASSUME FaceInit PROVE FaceInv
  OBVIOUS
<1> USE DEF FaceInit, NoCall
<1>1. FaceTypeOK
  BY DEF FaceTypeOK, IdentityDoc, VectorDoc, Accounts, Call, Ops, Lists, CallPcs
<1>2. ASSUME NEW c \in Calls
      PROVE  /\ CallFits(call[c])
             /\ Passed(call[c]) => ~Settled(call[c].person)
             /\ Excused(call[c])
  BY DEF CallFits, Passed, Excused, Cleared
<1>3. DebtorIsEnrolled /\ DebtorStaysListed
  BY DEF DebtorIsEnrolled, customers, DebtorStaysListed
<1>4. ASSUME NEW p \in Persons
      PROVE  Whole(p)
  BY NobodyAssumption DEF Whole, Inside, VectorsOf, NoVector
<1> QED
  BY <1>1, <1>2, <1>3, <1>4 DEF FaceInv

\* What the lemmas below ask of the invariant.
LEMMA FaceFacts ==
  ASSUME FaceInv
  PROVE  /\ FaceTypeOK
         /\ \A d \in Calls : /\ call[d] \in Call
                             /\ CallFits(call[d])
                             /\ Passed(call[d]) => ~Settled(call[d].person)
                             /\ Excused(call[d])
         /\ DebtorIsEnrolled /\ DebtorStaysListed
         /\ \A p \in Persons : Whole(p)
BY DEF FaceInv, FaceTypeOK

\* A step that moves one call, writes no document, and settles nobody.  An
\* account becomes active only if its person is enrolled.
LEMMA OneCallMoves ==
  ASSUME FaceInv, NEW c \in Calls, NEW r \in Call,
         call' = [call EXCEPT ![c] = r],
         UNCHANGED <<identity, vector, debtors, torn>>,
         strays \subseteq strays', strays' \subseteq Persons,
         account' \in [Persons -> Accounts],
         \A p \in Persons : account'[p] # "new" =>
             account[p] # "new" \/ VectorsOf(p) # {},
         call[c].pc \notin {"vector", "insert"},
         r.pc \notin {"vector", "insert"},
         CallFits(r),
         Passed(r) => r.person \notin debtors \ strays',
         Excused(r)
  PROVE  FaceInv'
<1>1. /\ FaceTypeOK
      /\ \A d \in Calls : /\ call[d] \in Call
                          /\ CallFits(call[d])
                          /\ Passed(call[d]) => ~Settled(call[d].person)
                          /\ Excused(call[d])
      /\ DebtorIsEnrolled /\ DebtorStaysListed
      /\ \A p \in Persons : Whole(p)
  BY FaceFacts
<1>2. FaceTypeOK'
  BY <1>1 DEF FaceTypeOK
<1>3. /\ call'[c] = r
      /\ \A d \in Calls \ {c} : call'[d] = call[d]
      /\ \A p : Settled(p)' => Settled(p)
      /\ \A p : VectorsOf(p)' = VectorsOf(p)
  BY <1>1 DEF FaceTypeOK, Settled, VectorsOf
<1>4. ASSUME NEW d \in Calls
      PROVE  /\ CallFits(call[d])'
             /\ (Passed(call[d]) => ~Settled(call[d].person))'
             /\ Excused(call[d])'
  <2>1. CASE d = c
    BY <2>1, <1>3 DEF CallFits, Passed, Settled, Excused, Cleared
  <2>2. CASE d # c
    BY <2>2, <1>1, <1>3 DEF CallFits, Passed, Excused, Cleared
  <2> QED
    BY <2>1, <2>2
<1>5. DebtorIsEnrolled'
  BY <1>1, <1>3 DEF DebtorIsEnrolled, customers
<1>6. DebtorStaysListed'
  BY <1>1, <1>3 DEF DebtorStaysListed, Settled
<1>7. ASSUME NEW p \in Persons
      PROVE  Whole(p)'
  <2>1. \A d \in Calls : /\ Inside(d, p)' <=> Inside(d, p)
                         /\ Inside(d, p) => call'[d] = call[d]
    BY <1>3 DEF Inside
  <2>2. \A d \in Calls : Inside(d, p) => (Uniform(d, p)' <=> Uniform(d, p))
    BY <2>1, <1>3 DEF Uniform
  <2> QED
    BY <2>1, <2>2, <1>1, <1>3 DEF Whole
<1> QED
  BY <1>2, <1>4, <1>5, <1>6, <1>7 DEF FaceInv

\* A call that is over owes nothing to the invariant.
LEMMA OneCallEnds ==
  ASSUME FaceInv, NEW c \in Calls, End(c),
         call[c].pc \notin {"vector", "insert"},
         UNCHANGED <<identity, vector, debtors, strays, torn>>,
         account' \in [Persons -> Accounts],
         \A p \in Persons : account'[p] # "new" =>
             account[p] # "new" \/ VectorsOf(p) # {}
  PROVE  FaceInv'
<1>1. NoCall \in Call
  BY DEF NoCall, Call, Ops, Lists, CallPcs
<1>2. CallFits(NoCall) /\ ~Passed(NoCall) /\ Excused(NoCall)
  BY DEF CallFits, Passed, Excused, Cleared, NoCall
<1>3. call' = [call EXCEPT ![c] = NoCall] /\ NoCall.pc = "idle"
  BY DEF End, NoCall
<1>4. strays \subseteq strays' /\ strays' \subseteq Persons
  BY DEF FaceInv, FaceTypeOK
<1> QED
  BY <1>1, <1>2, <1>3, <1>4, OneCallMoves

-----------------------------------------------------------------------------
(* The steps that only move a call *)

\* Whoever begins has not searched.
LEMMA BeginKeeps ==
  ASSUME FaceInv, NEW c \in Calls, NEW op \in Ops, NEW p \in Persons,
         NEW f \in Faces \cup {Nobody}, NEW list \in Lists,
         NEW pc \in {"search", "identity"},
         Begin(c, op, p, f, list, pc),
         op = "activate" => list = "NORMAL" /\ pc = "search",
         op = "blacklist" => list = "DEBTOR",
         op # "blacklist" => f \in Faces
  PROVE  FaceInv'
<1> DEFINE r == [op |-> op, person |-> p, face |-> f, list |-> list,
                 pc |-> pc, since |-> {}]
<1>1. r \in Call
  BY DEF Call, CallPcs
<1>2. CallFits(r) /\ ~Passed(r) /\ Excused(r)
  BY DEF CallFits, Passed, Excused, Cleared
<1>3. call' = [call EXCEPT ![c] = r] /\ r.pc \notin {"vector", "insert"}
  BY DEF Begin
<1>4. /\ call[c].pc \notin {"vector", "insert"}
      /\ UNCHANGED <<identity, vector, account, debtors, strays, torn>>
  BY DEF Begin, faces, faceHistory
<1>5. account' \in [Persons -> Accounts] /\ strays' \subseteq Persons
  BY <1>4 DEF FaceInv, FaceTypeOK
<1> HIDE DEF r
<1> QED
  BY <1>1, <1>2, <1>3, <1>4, <1>5, OneCallMoves

\* A search that finds nobody passes for nobody who is settled: the vectors of
\* such a person are listed, so that the face is unlike them.
LEMMA SearchKeeps ==
  ASSUME FaceInv, NEW c \in Calls, Search(c)
  PROVE  FaceInv'
<1> DEFINE p == call[c].person
           f == call[c].face
<1>1. /\ FaceTypeOK /\ DebtorStaysListed
      /\ call[c] \in Call /\ CallFits(call[c])
      /\ account' \in [Persons -> Accounts]
  BY FaceFacts DEF Search, FaceTypeOK
<1>2. /\ call[c].pc = "search" /\ p \in Persons
      /\ UNCHANGED <<identity, vector, account, debtors, torn>>
  BY <1>1 DEF Search, faces, CallFits
<1>3. CASE Hits(f) # {} /\ End(c) /\ UNCHANGED strays
  BY <1>1, <1>2, <1>3, OneCallEnds
<1>4. CASE Hits(f) = {} /\ Proceed(c, "identity")
  <2> DEFINE r == [call[c] EXCEPT !.pc = "identity"]
  <2>1. /\ r \in Call
        /\ r.pc = "identity" /\ r.op = call[c].op /\ r.person = p
        /\ r.face = f /\ r.list = call[c].list
    BY <1>1 DEF Call, CallPcs
  <2>2. CallFits(r)
    BY <2>1, <1>1, <1>2 DEF CallFits
  <2>3. /\ strays' = IF p \in debtors /\ Unlike(p, f) THEN strays \cup {p}
                                                     ELSE strays
        /\ call' = [call EXCEPT ![c] = r]
    BY <1>4 DEF Search, Proceed
  <2> HIDE DEF r
  <2>4. ASSUME NEW v \in Vectors, Settled(vector[v].person)
        PROVE  <<f, vector[v].face>> \notin Alike
    <3>1. vector[v].list = "DEBTOR"
      BY <2>4, <1>1 DEF DebtorStaysListed, Settled
    <3> QED
      BY <3>1, <1>4 DEF Hits, Listed
  <2>5. Settled(p) => Unlike(p, f)
    BY <2>4 DEF Unlike, VectorsOf
  <2>6. /\ strays \subseteq strays' /\ strays' \subseteq Persons
        /\ p \notin debtors \ strays'
    BY <2>3, <2>5, <1>1, <1>2 DEF Settled, FaceTypeOK
  <2>7. Excused(r)
    BY <2>1, <2>4 DEF Excused
  <2>8. Passed(r) => r.person \notin debtors \ strays'
    BY <2>1, <2>6
  <2> HIDE DEF p, f
  <2> QED
    BY <2>1, <2>2, <2>3, <2>6, <2>7, <2>8, <1>1, <1>2, OneCallMoves
<1> QED
  BY <1>3, <1>4 DEF Search

\* An account is saved after its face was enrolled.
LEMMA SaveAccountKeeps ==
  ASSUME FaceInv, NEW c \in Calls, SaveAccount(c)
  PROVE  FaceInv'
<1>1. /\ account \in [Persons -> Accounts]
      /\ CallFits(call[c])
  BY FaceFacts DEF FaceTypeOK
<1>2. /\ account' \in [Persons -> Accounts]
      /\ \A p \in Persons : account'[p] # "new" =>
            account[p] # "new" \/ VectorsOf(p) # {}
  BY <1>1 DEF SaveAccount, CallFits, Accounts
<1>3. /\ call[c].pc \notin {"vector", "insert"} /\ End(c)
      /\ UNCHANGED <<identity, vector, debtors, strays, torn>>
  BY DEF SaveAccount, faces, faceHistory
<1> QED
  BY <1>2, <1>3, OneCallEnds

-----------------------------------------------------------------------------
(* The steps that write *)

\* The first document is written: a person who is not torn has no other handler
\* between the documents, and the vectors will follow.
LEMMA SetIdentityKeeps ==
  ASSUME FaceInv, NEW c \in Calls, call[c].pc = "identity",
         SetIdentity(c, call[c].person, call[c].list)
  PROVE  FaceInv'
<1>1. /\ FaceTypeOK
      /\ \A d \in Calls : /\ call[d] \in Call
                          /\ CallFits(call[d])
                          /\ Passed(call[d]) => ~Settled(call[d].person)
                          /\ Excused(call[d])
      /\ DebtorIsEnrolled /\ DebtorStaysListed
      /\ \A q \in Persons : Whole(q)
  BY FaceFacts
<1>2. PICK p \in Persons : p = call[c].person /\ call[c].list \in Lists
  BY <1>1 DEF CallFits, Call
<1>a. PICK r : r = [call[c] EXCEPT !.pc = "vector"]
  OBVIOUS
<1>3. /\ r \in Call
      /\ r.pc = "vector" /\ r.op = call[c].op /\ r.person = p
      /\ r.face = call[c].face /\ r.list = call[c].list
      /\ r.since = call[c].since
  BY <1>1, <1>2, <1>a DEF Call, CallPcs
<1>4. /\ call' = [call EXCEPT ![c] = r]
      /\ identity' = [identity EXCEPT ![p] = call[c].list]
      /\ torn' = IF Between(c, p) = {} /\ Uniform(c, p) THEN torn \ {p}
                                                       ELSE torn \cup {p}
      /\ UNCHANGED <<vector, account, debtors, strays>>
  BY <1>2, <1>a DEF SetIdentity, Proceed
<1>5. FaceTypeOK'
  BY <1>1, <1>2, <1>3, <1>4 DEF FaceTypeOK, IdentityDoc
<1>6. /\ call'[c] = r
      /\ \A d \in Calls \ {c} : call'[d] = call[d]
      /\ identity'[p] = call[c].list
      /\ \A q \in Persons \ {p} : identity'[q] = identity[q]
      /\ \A q \in Persons \ {p} : q \in torn' <=> q \in torn
      /\ \A q : VectorsOf(q)' = VectorsOf(q)
  BY <1>1, <1>2, <1>4 DEF FaceTypeOK, VectorsOf
<1>7. ASSUME NEW d \in Calls
      PROVE  /\ CallFits(call[d])'
             /\ (Passed(call[d]) => ~Settled(call[d].person))'
             /\ Excused(call[d])'
  <2>1. CASE d = c
    <3>1. call[c].pc = "identity" /\ CallFits(call[c])
      BY <1>1
    <3>2. CallFits(r)'
      BY <3>1, <1>3, <1>6 DEF CallFits
    <3>3. (Passed(r) => Passed(call[c])) /\ (Cleared(r) => Cleared(call[c]))
      BY <3>1, <1>3 DEF Passed, Cleared
    <3>4. (Passed(r) => ~Settled(r.person))'
      BY <3>3, <1>1, <1>2, <1>3, <1>4 DEF Passed, Settled
    <3>5. Excused(r)'
      BY <3>3, <1>1, <1>3, <1>4 DEF Excused, Cleared, Settled
    <3> QED
      BY <2>1, <3>2, <3>4, <3>5, <1>6 DEF CallFits, Passed, Settled, Excused, Cleared
  <2>2. CASE d # c
    BY <2>2, <1>1, <1>4, <1>6 DEF CallFits, Passed, Cleared, Settled, Excused
  <2> QED
    BY <2>1, <2>2
<1>8. DebtorIsEnrolled' /\ DebtorStaysListed'
  BY <1>1, <1>4, <1>6 DEF DebtorIsEnrolled, customers, DebtorStaysListed
<1>9. ASSUME NEW q \in Persons
      PROVE  Whole(q)'
  <2>1. \A d \in Calls \ {c} : Inside(d, q)' <=> Inside(d, q)
    BY <1>6 DEF Inside
  <2>2. \A d \in Calls : Uniform(d, q)' <=> Uniform(d, q)
    BY <1>1, <1>3, <1>6 DEF Uniform
  <2>3. CASE q = p
    <3> SUFFICES ASSUME p \notin torn'
                 PROVE  Whole(p)'
      BY <2>3 DEF Whole
    <3>1. Between(c, p) = {} /\ Uniform(c, p)
      BY <1>4
    <3>2. \A d \in Calls : Inside(d, p)' <=> d = c
      BY <2>1, <2>3, <3>1, <1>3, <1>6 DEF Inside, Between
    <3> QED
      BY <2>2, <2>3, <3>1, <3>2, <1>3, <1>6 DEF Whole
  <2>4. CASE q # p
    <3>1. ~Inside(c, q) /\ ~Inside(c, q)'
      BY <2>4, <1>2, <1>3, <1>6 DEF Inside
    <3>2. \A d \in Calls : /\ Inside(d, q)' <=> Inside(d, q)
                           /\ Inside(d, q) => call'[d] = call[d]
      BY <2>1, <3>1, <1>6
    <3> QED
      BY <2>2, <2>4, <3>2, <1>1, <1>4, <1>6 DEF Whole
  <2> QED
    BY <2>3, <2>4
<1> QED
  BY <1>5, <1>7, <1>8, <1>9 DEF FaceInv

\* The second document of an enrolment: one that passed its search writes over
\* nobody settled, an operator may write over anybody, and the vectors of a
\* person who is not torn are then the one that was written.
LEMMA WriteVectorKeeps ==
  ASSUME FaceInv, NEW c \in Calls, NEW v \in Vectors,
         call[c].pc \in {"vector", "insert"}, call[c].op # "blacklist",
         \/ call[c].pc = "vector" /\ v \in VectorsOf(call[c].person)
         \/ call[c].pc = "insert" /\ vector[v] = NoVector,
         WriteVector(c, v)
  PROVE  FaceInv'
<1>1. /\ FaceTypeOK
      /\ \A d \in Calls : /\ call[d] \in Call
                          /\ CallFits(call[d])
                          /\ Passed(call[d]) => ~Settled(call[d].person)
                          /\ Excused(call[d])
      /\ DebtorIsEnrolled /\ DebtorStaysListed
      /\ \A q \in Persons : Whole(q)
  BY FaceFacts
<1>2. PICK p \in Persons : /\ p = call[c].person
                            /\ call[c].face \in Faces /\ call[c].list \in Lists
  BY <1>1 DEF CallFits, Call
<1>a. PICK r : r = IF call[c].op = "operator"
                   THEN NoCall ELSE [call[c] EXCEPT !.pc = "save"]
  OBVIOUS
<1>b. PICK new : new = [person |-> p, face |-> call[c].face,
                        list |-> call[c].list]
  OBVIOUS
<1>3. /\ r \in Call
      /\ r.pc \in {"idle", "save"}
      /\ r.pc = "save" => /\ r.op = call[c].op /\ r.op = "activate"
                          /\ r.person = p /\ r.face = call[c].face
                          /\ r.list = call[c].list /\ r.since = call[c].since
      /\ r.pc = "idle" => r = NoCall
  BY <1>1, <1>2, <1>a DEF Call, CallPcs, NoCall, Ops, Lists
<1>4. /\ call' = [call EXCEPT ![c] = r]
      /\ vector' = [vector EXCEPT ![v] = new]
      /\ debtors' = IF call[c].op = "operator" THEN debtors \ {p} ELSE debtors
      /\ UNCHANGED <<identity, account, strays, torn>>
  BY <1>2, <1>a, <1>b DEF WriteVector, Proceed, End
<1>5. /\ new \in VectorDoc
      /\ new.person = p /\ new.list = call[c].list
  BY <1>2, <1>b DEF VectorDoc
<1>6. ~Settled(p)' /\ \A q : Settled(q)' => Settled(q)
  <2>1. CASE call[c].op = "operator"
    BY <2>1, <1>4 DEF Settled
  <2>2. CASE call[c].op # "operator"
    <3>1. Passed(call[c])
      BY <2>2, <1>1 DEF Passed, Call, Ops
    <3> QED
      BY <2>2, <3>1, <1>1, <1>2, <1>4 DEF Settled
  <2> QED
    BY <2>1, <2>2
<1>7. vector[v] = NoVector \/ vector[v].person = p
  BY <1>2 DEF VectorsOf
<1>8. FaceTypeOK'
  BY <1>1, <1>3, <1>4, <1>5 DEF FaceTypeOK
<1>9. /\ call'[c] = r
      /\ \A d \in Calls \ {c} : call'[d] = call[d]
      /\ vector'[v] = new
      /\ \A w \in Vectors \ {v} : vector'[w] = vector[w]
  BY <1>1, <1>4 DEF FaceTypeOK
<1>10. /\ VectorsOf(p)' = VectorsOf(p) \cup {v}
       /\ \A q \in Persons \ {p} : VectorsOf(q)' = VectorsOf(q) /\ v \notin VectorsOf(q)
  BY <1>5, <1>7, <1>9, NobodyAssumption DEF VectorsOf, NoVector
<1>11. \A q \in Persons : VectorsOf(q) # {} => VectorsOf(q)' # {}
  BY <1>10
<1>12. ASSUME NEW d \in Calls
       PROVE  /\ CallFits(call[d])'
              /\ (Passed(call[d]) => ~Settled(call[d].person))'
              /\ Excused(call[d])'
  <2>1. CASE d = c
    <3>1. CallFits(r)'
      <4>1. CallFits(call[c]) /\ call[c].op # "blacklist"
        BY <1>1
      <4> QED
        BY <4>1, <1>2, <1>3, <1>10 DEF CallFits, NoCall
    <3>2. ~Passed(r) /\ (Cleared(r) => Cleared(call[c]) /\ r.face = call[c].face
                                       /\ r.since = call[c].since)
      BY <1>3 DEF Passed, Cleared
    <3>3. Excused(r)'
      <4> SUFFICES ASSUME Cleared(r), NEW w \in Vectors,
                          Settled(vector[w].person)',
                          <<r.face, vector'[w].face>> \in Alike
                   PROVE  vector'[w].person \in r.since
        BY DEF Excused, Cleared
      <4>1. w # v
        BY <1>5, <1>6, <1>9
      <4> QED
        BY <4>1, <3>2, <1>1, <1>6, <1>9 DEF Excused
    <3> QED
      BY <2>1, <3>1, <3>2, <3>3, <1>9 DEF CallFits, Passed, Excused, Cleared
  <2>2. CASE d # c
    <3>1. call'[d] = call[d] /\ CallFits(call[d])
      BY <2>2, <1>1, <1>9
    <3>2. CallFits(call[d])'
      BY <3>1, <1>11 DEF CallFits
    <3>3. (Passed(call[d]) => ~Settled(call[d].person))'
      BY <3>1, <1>1, <1>6 DEF Passed
    <3>4. Excused(call[d])'
      <4> SUFFICES ASSUME Cleared(call[d]), NEW w \in Vectors,
                          Settled(vector[w].person)',
                          <<call[d].face, vector'[w].face>> \in Alike
                   PROVE  vector'[w].person \in call[d].since
        BY <3>1 DEF Excused, Cleared
      <4>1. w # v
        BY <1>5, <1>6, <1>9
      <4> QED
        BY <4>1, <1>1, <1>6, <1>9 DEF Excused
    <3> QED
      BY <3>2, <3>3, <3>4
  <2> QED
    BY <2>1, <2>2
<1>13. DebtorIsEnrolled'
  BY <1>1, <1>4, <1>11 DEF DebtorIsEnrolled, customers
<1>14. DebtorStaysListed'
  <2> SUFFICES ASSUME NEW q, Settled(q)', NEW w \in Vectors, vector'[w].person = q
               PROVE  vector'[w].list = "DEBTOR"
    BY DEF DebtorStaysListed, Settled
  <2>1. w # v
    BY <1>5, <1>6, <1>9
  <2> QED
    BY <2>1, <1>1, <1>6, <1>9 DEF DebtorStaysListed, Settled
<1>15. ASSUME NEW q \in Persons
       PROVE  Whole(q)'
  <2>1. \A d \in Calls \ {c} : Inside(d, q)' <=> Inside(d, q)
    BY <1>9 DEF Inside
  <2>2. ~Inside(c, q)'
    BY <1>3, <1>9 DEF Inside
  <2>3. CASE q = p
    <3> SUFFICES ASSUME p \notin torn'
                 PROVE  Whole(p)'
      BY <2>3 DEF Whole
    <3>1. Whole(p) /\ p \notin torn /\ Inside(c, p)
      BY <1>1, <1>2, <1>4 DEF Inside
    <3>2. /\ \A d \in Calls : Inside(d, p) => c = d
          /\ identity[p] = call[c].list
          /\ Uniform(c, p)
          /\ call[c].pc = "insert" => VectorsOf(p) = {}
      BY <3>1 DEF Whole
    <3>3. \A d \in Calls : ~Inside(d, p)'
      BY <2>1, <2>2, <2>3, <3>2
    <3>4. \A w \in VectorsOf(p) : w = v
      BY <3>2, <1>2 DEF Uniform, VectorsOf
    <3>5. \A w \in VectorsOf(p)' : vector'[w].list = identity'[p]
      BY <3>2, <3>4, <1>4, <1>5, <1>9, <1>10
    <3> QED
      BY <3>3, <3>5 DEF Whole
  <2>4. CASE q # p
    <3>1. ~Inside(c, q)
      BY <2>4, <1>2 DEF Inside
    <3>2. \A d \in Calls : /\ Inside(d, q)' <=> Inside(d, q)
                           /\ Inside(d, q) => call'[d] = call[d]
      BY <2>1, <2>2, <3>1, <1>9
    <3>3. /\ VectorsOf(q)' = VectorsOf(q)
          /\ \A w \in VectorsOf(q) : vector'[w] = vector[w]
      BY <2>4, <1>9, <1>10 DEF VectorsOf
    <3>4. \A d \in Calls : Inside(d, q) => (Uniform(d, q)' <=> Uniform(d, q))
      BY <3>2, <3>3 DEF Uniform
    <3> QED
      BY <3>2, <3>3, <3>4, <1>1, <1>4 DEF Whole
  <2> QED
    BY <2>3, <2>4
<1> QED
  BY <1>8, <1>12, <1>13, <1>14, <1>15 DEF FaceInv

\* An upsert that has found no vector goes on to insert one.
LEMMA UpsertVectorKeeps ==
  ASSUME FaceInv, NEW c \in Calls, UpsertVector(c)
  PROVE  FaceInv'
<1> DEFINE p == call[c].person
<1>1. ASSUME NEW v \in VectorsOf(p), WriteVector(c, v)
      PROVE  FaceInv'
  BY <1>1, WriteVectorKeeps DEF UpsertVector, VectorsOf
<1>2. CASE VectorsOf(p) = {} /\ Proceed(c, "insert")
           /\ UNCHANGED <<faces, account, faceHistory>>
  <2>a. PICK r : r = [call[c] EXCEPT !.pc = "insert"]
    OBVIOUS
  <2>1. /\ FaceTypeOK
        /\ \A d \in Calls : /\ call[d] \in Call
                            /\ CallFits(call[d])
                            /\ Passed(call[d]) => ~Settled(call[d].person)
                            /\ Excused(call[d])
        /\ DebtorIsEnrolled /\ DebtorStaysListed
        /\ \A q \in Persons : Whole(q)
    BY FaceFacts
  <2>2. /\ call[c].pc = "vector" /\ call[c].op # "blacklist"
        /\ call' = [call EXCEPT ![c] = r]
        /\ UNCHANGED <<identity, vector, account, debtors, strays, torn>>
    BY <1>2, <2>a DEF UpsertVector, Proceed, faces, faceHistory
  <2>3. /\ r \in Call
        /\ r.pc = "insert" /\ r.op = call[c].op /\ r.person = p
        /\ r.face = call[c].face /\ r.list = call[c].list
        /\ r.since = call[c].since
    BY <2>1, <2>a DEF Call, CallPcs
  <2>4. /\ call'[c] = r
        /\ \A d \in Calls \ {c} : call'[d] = call[d]
        /\ \A q : VectorsOf(q)' = VectorsOf(q)
    BY <2>1, <2>2 DEF FaceTypeOK, VectorsOf
  <2>5. FaceTypeOK'
    BY <2>1, <2>2, <2>3 DEF FaceTypeOK
  <2>6. ASSUME NEW d \in Calls
        PROVE  /\ CallFits(call[d])'
               /\ (Passed(call[d]) => ~Settled(call[d].person))'
               /\ Excused(call[d])'
    <3>1. CASE d = c
      <4>1. CallFits(r)'
        BY <2>1, <2>2, <2>3, <2>4 DEF CallFits
      <4>2. (Passed(r) => Passed(call[c])) /\ (Cleared(r) => Cleared(call[c]))
        BY <2>2, <2>3 DEF Passed, Cleared
      <4> QED
        BY <3>1, <4>1, <4>2, <2>1, <2>2, <2>3, <2>4
           DEF CallFits, Passed, Cleared, Settled, Excused
    <3>2. CASE d # c
      BY <3>2, <2>1, <2>2, <2>4 DEF CallFits, Passed, Cleared, Settled, Excused
    <3> QED
      BY <3>1, <3>2
  <2>7. DebtorIsEnrolled' /\ DebtorStaysListed'
    BY <2>1, <2>2, <2>4 DEF DebtorIsEnrolled, customers, DebtorStaysListed
  <2>8. ASSUME NEW q \in Persons
        PROVE  Whole(q)'
    <3>1. \A d \in Calls : /\ Inside(d, q)' <=> Inside(d, q)
                           /\ call'[d].list = call[d].list
                           /\ Uniform(d, q)' <=> Uniform(d, q)
      BY <2>2, <2>3, <2>4 DEF Inside, Uniform
    <3>2. \A d \in Calls : Inside(d, q)' /\ call'[d].pc = "insert" =>
                              call[d].pc = "insert" \/ VectorsOf(q) = {}
      BY <1>2, <2>3, <2>4 DEF Inside
    <3> QED
      BY <3>1, <3>2, <2>1, <2>2, <2>4 DEF Whole
  <2> QED
    BY <2>5, <2>6, <2>7, <2>8 DEF FaceInv
<1> QED
  BY <1>1, <1>2 DEF UpsertVector

\* Every vector of the person is listed, the calls that have passed their search
\* take note, and whoever has an enrolment under way is not settled.
LEMMA MarkVectorKeeps ==
  ASSUME FaceInv, NEW c \in Calls, MarkVector(c)
  PROVE  FaceInv'
<1>1. /\ FaceTypeOK
      /\ \A d \in Calls : /\ call[d] \in Call
                          /\ CallFits(call[d])
                          /\ Passed(call[d]) => ~Settled(call[d].person)
                          /\ Excused(call[d])
      /\ DebtorIsEnrolled /\ DebtorStaysListed
      /\ \A q \in Persons : Whole(q)
  BY FaceFacts
<1>2. PICK p \in Persons : p = call[c].person
  BY <1>1 DEF MarkVector, CallFits
<1>3. /\ call[c].pc = "vector" /\ call[c].op = "blacklist"
      /\ call[c].list = "DEBTOR"
      /\ vector' = [v \in Vectors |-> Relisted(v, p)]
      /\ debtors' = debtors \cup {p}
      /\ strays' = IF Enrolling(p) = {} THEN strays \ {p} ELSE strays \cup {p}
      /\ call' = [d \in Calls |->
            IF d = c THEN NoCall
            ELSE IF Cleared(call[d])
            THEN [call[d] EXCEPT !.since = @ \cup {p}]
            ELSE call[d]]
      /\ UNCHANGED <<identity, account, torn>>
  BY <1>1, <1>2 DEF MarkVector, CallFits
<1>4. /\ call'[c] = NoCall /\ NoCall \in Call
      /\ \A d \in Calls \ {c} :
            /\ call'[d] \in Call
            /\ call'[d].op = call[d].op /\ call'[d].person = call[d].person
            /\ call'[d].face = call[d].face /\ call'[d].list = call[d].list
            /\ call'[d].pc = call[d].pc
            /\ call[d].since \subseteq call'[d].since
            /\ Cleared(call[d]) => p \in call'[d].since
  <2>1. call'[c] = NoCall /\ NoCall \in Call
    BY <1>3 DEF NoCall, Call, Ops, Lists, CallPcs
  <2>2. ASSUME NEW d \in Calls \ {c}
        PROVE  /\ call'[d] \in Call
               /\ call'[d].op = call[d].op /\ call'[d].person = call[d].person
               /\ call'[d].face = call[d].face /\ call'[d].list = call[d].list
               /\ call'[d].pc = call[d].pc
               /\ call[d].since \subseteq call'[d].since
               /\ Cleared(call[d]) => p \in call'[d].since
    <3>1. call[d] \in Call
      BY <1>1
    <3> QED
      BY <3>1, <1>2, <1>3 DEF Call
  <2> QED
    BY <2>1, <2>2
<1>5. \A v \in Vectors :
         /\ vector'[v] \in VectorDoc \cup {NoVector}
         /\ vector'[v].person = vector[v].person
         /\ vector'[v].face = vector[v].face
         /\ vector[v].person = p => vector'[v].list = "DEBTOR"
         /\ vector[v].person # p => vector'[v] = vector[v]
  <2> SUFFICES ASSUME NEW v \in Vectors
               PROVE  /\ Relisted(v, p) \in VectorDoc \cup {NoVector}
                      /\ Relisted(v, p).person = vector[v].person
                      /\ Relisted(v, p).face = vector[v].face
                      /\ vector[v].person = p => Relisted(v, p).list = "DEBTOR"
                      /\ vector[v].person # p => Relisted(v, p) = vector[v]
    BY <1>3
  <2>1. vector[v] \in VectorDoc \cup {NoVector}
    BY <1>1 DEF FaceTypeOK
  <2>2. CASE vector[v].person = p
    <3>1. vector[v] \in VectorDoc
      BY <2>1, <2>2, <1>2, NobodyAssumption DEF NoVector
    <3> QED
      BY <2>2, <3>1 DEF Relisted, VectorDoc, Lists
  <2>3. CASE vector[v].person # p
    BY <2>1, <2>3 DEF Relisted
  <2> QED
    BY <2>2, <2>3
<1>6. FaceTypeOK'
  <2>1. call' \in [Calls -> Call]
    BY <1>3, <1>4
  <2>2. vector' \in [Vectors -> VectorDoc \cup {NoVector}]
    BY <1>3, <1>5
  <2> QED
    BY <2>1, <2>2, <1>1, <1>2, <1>3 DEF FaceTypeOK
<1>7. \A q : VectorsOf(q)' = VectorsOf(q)
  BY <1>5 DEF VectorsOf
<1>8. \A q : Settled(q)' => \/ Settled(q)
                           \/ (q = p /\ Enrolling(p) = {})
  BY <1>3 DEF Settled
<1>9. ASSUME NEW d \in Calls
      PROVE  /\ CallFits(call[d])'
             /\ (Passed(call[d]) => ~Settled(call[d].person))'
             /\ Excused(call[d])'
  <2>1. CASE d = c
    BY <2>1, <1>4 DEF NoCall, CallFits, Passed, Excused, Cleared
  <2>2. CASE d # c
    <3>1. CallFits(call[d])'
      BY <2>2, <1>1, <1>4, <1>7 DEF CallFits
    <3>2. (Passed(call[d]) => ~Settled(call[d].person))'
      <4>1. Passed(call[d]) /\ call[d].person = p => Enrolling(p) # {}
        BY DEF Passed, Enrolling
      <4> QED
        BY <2>2, <4>1, <1>1, <1>4, <1>8 DEF Passed
    <3>3. Excused(call[d])'
      <4> SUFFICES ASSUME Cleared(call[d]), NEW v \in Vectors,
                          Settled(vector[v].person)',
                          <<call[d].face, vector[v].face>> \in Alike
                   PROVE  vector[v].person \in call'[d].since
        BY <2>2, <1>4, <1>5 DEF Excused, Cleared
      <4>1. CASE vector[v].person = p
        BY <2>2, <4>1, <1>4
      <4>2. CASE vector[v].person # p
        BY <2>2, <4>2, <1>1, <1>4, <1>5, <1>8 DEF Excused
      <4> QED
        BY <4>1, <4>2
    <3> QED
      BY <3>1, <3>2, <3>3
  <2> QED
    BY <2>1, <2>2
<1>10. DebtorIsEnrolled'
  BY <1>1, <1>3, <1>7 DEF DebtorIsEnrolled, customers
<1>11. DebtorStaysListed'
  BY <1>1, <1>5, <1>8 DEF DebtorStaysListed, Settled
<1>12. ASSUME NEW q \in Persons
       PROVE  Whole(q)'
  <2>1. /\ ~Inside(c, q)'
        /\ \A d \in Calls \ {c} : Inside(d, q)' <=> Inside(d, q)
    BY <1>4 DEF Inside, NoCall
  <2>2. CASE q = p
    <3> SUFFICES ASSUME p \notin torn'
                 PROVE  Whole(p)'
      BY <2>2 DEF Whole
    <3>1. Whole(p) /\ p \notin torn /\ Inside(c, p)
      BY <1>1, <1>2, <1>3 DEF Inside
    <3>2. /\ \A d \in Calls : Inside(d, p) => c = d
          /\ identity[p] = "DEBTOR"
      BY <3>1, <1>3 DEF Whole
    <3>3. \A d \in Calls : ~Inside(d, p)'
      BY <2>1, <2>2, <3>2
    <3>4. \A v \in VectorsOf(p)' : vector'[v].list = identity'[p]
      BY <3>2, <1>3, <1>5, <1>7 DEF VectorsOf
    <3> QED
      BY <3>3, <3>4 DEF Whole
  <2>3. CASE q # p
    <3>1. ~Inside(c, q)
      BY <2>3, <1>2 DEF Inside
    <3>2. \A d \in Calls : /\ Inside(d, q)' <=> Inside(d, q)
                           /\ Inside(d, q) => d # c
      BY <2>1, <3>1
    <3>3. \A v \in VectorsOf(q) : vector'[v] = vector[v]
      BY <2>3, <1>5 DEF VectorsOf
    <3>4. \A d \in Calls : Inside(d, q) => (Uniform(d, q)' <=> Uniform(d, q))
      BY <3>2, <1>4, <1>7 DEF Uniform
    <3> QED
      BY <3>2, <3>3, <3>4, <1>1, <1>3, <1>4, <1>7 DEF Whole
  <2> QED
    BY <2>2, <2>3
<1> QED
  BY <1>6, <1>9, <1>10, <1>11, <1>12 DEF FaceInv

\* A handler that fails between the documents leaves the person torn.
LEMMA FailsKeeps ==
  ASSUME FaceInv, NEW c \in Calls, NEW pcs \in SUBSET (CallPcs \ {"idle"}),
         Fails(c, pcs)
  PROVE  FaceInv'
<1>1. /\ FaceTypeOK
      /\ \A d \in Calls : /\ call[d] \in Call
                          /\ CallFits(call[d])
                          /\ Passed(call[d]) => ~Settled(call[d].person)
                          /\ Excused(call[d])
      /\ DebtorIsEnrolled /\ DebtorStaysListed
      /\ \A q \in Persons : Whole(q)
  BY FaceFacts
<1>2. UNCHANGED <<identity, vector, account, debtors, strays>>
  BY DEF Fails, faces
<1>3. CASE call[c].pc \notin {"vector", "insert"}
  BY <1>1, <1>2, <1>3, OneCallEnds DEF Fails, FaceTypeOK
<1>4. CASE call[c].pc \in {"vector", "insert"}
  <2>1. PICK p \in Persons : p = call[c].person
    BY <1>1, <1>4 DEF CallFits
  <2>2. torn' = torn \cup {p} /\ call' = [call EXCEPT ![c] = NoCall]
    BY <1>4, <2>1 DEF Fails, End
  <2>3. /\ call'[c] = NoCall /\ NoCall \in Call
        /\ \A d \in Calls \ {c} : call'[d] = call[d]
        /\ \A q : VectorsOf(q)' = VectorsOf(q)
    BY <2>2, <1>1, <1>2
       DEF FaceTypeOK, NoCall, Call, Ops, Lists, CallPcs, VectorsOf
  <2>4. FaceTypeOK'
    BY <2>1, <2>2, <2>3, <1>1, <1>2 DEF FaceTypeOK
  <2>5. ASSUME NEW d \in Calls
        PROVE  /\ CallFits(call[d])'
               /\ (Passed(call[d]) => ~Settled(call[d].person))'
               /\ Excused(call[d])'
    <3>1. CASE d = c
      BY <3>1, <2>3 DEF NoCall, CallFits, Passed, Excused, Cleared
    <3>2. CASE d # c
      BY <3>2, <2>3, <1>1, <1>2 DEF CallFits, Passed, Settled, Excused, Cleared
    <3> QED
      BY <3>1, <3>2
  <2>6. DebtorIsEnrolled' /\ DebtorStaysListed'
    BY <2>3, <1>1, <1>2 DEF DebtorIsEnrolled, customers, DebtorStaysListed
  <2>7. ASSUME NEW q \in Persons
        PROVE  Whole(q)'
    <3>1. CASE q = p
      BY <3>1, <2>2 DEF Whole
    <3>2. CASE q # p
      <4>1. \A d \in Calls : /\ Inside(d, q)' <=> Inside(d, q)
                             /\ Inside(d, q) => call'[d] = call[d]
        BY <3>2, <2>1, <2>3 DEF Inside, NoCall
      <4>2. \A d \in Calls : Inside(d, q) => (Uniform(d, q)' <=> Uniform(d, q))
        BY <4>1, <2>3 DEF Uniform
      <4> QED
        BY <4>1, <4>2, <3>2, <2>2, <2>3, <1>1, <1>2 DEF Whole
    <3> QED
      BY <3>1, <3>2
  <2> QED
    BY <2>4, <2>5, <2>6, <2>7 DEF FaceInv
<1> QED
  BY <1>3, <1>4

\* What changes neither documents nor calls changes nothing, as long as nobody
\* becomes a customer.
LEMMA FaceStutters ==
  ASSUME FaceInv, UNCHANGED <<faces, call, faceHistory>>,
         account' \in [Persons -> Accounts],
         \A p \in Persons : account'[p] # "new" => account[p] # "new"
  PROVE  FaceInv'
<1>1. UNCHANGED <<identity, vector, call, debtors, strays, torn>>
  BY DEF faces, faceHistory
<1>2. FaceTypeOK' /\ DebtorStaysListed'
  BY <1>1 DEF FaceInv, FaceTypeOK, DebtorStaysListed
<1>3. DebtorIsEnrolled'
  BY <1>1 DEF FaceInv, DebtorIsEnrolled, customers, VectorsOf
<1>4. ASSUME NEW c \in Calls
      PROVE  (/\ CallFits(call[c])
              /\ Passed(call[c]) => ~Settled(call[c].person)
              /\ Excused(call[c]))'
  BY <1>1 DEF FaceInv, CallFits, VectorsOf, Passed, Settled, Excused, Cleared
<1>5. ASSUME NEW p \in Persons
      PROVE  Whole(p)'
  BY <1>1 DEF FaceInv, Whole, Inside, Uniform, VectorsOf
<1> QED
  BY <1>2, <1>3, <1>4, <1>5 DEF FaceInv

LEMMA FaceInduction == FaceInv /\ [FaceNext]_faceVars => FaceInv'
<1> SUFFICES ASSUME FaceInv, [FaceNext]_faceVars
             PROVE  FaceInv'
  OBVIOUS
<1>1. /\ account \in [Persons -> Accounts]
      /\ \A c \in Calls : call[c] \in Call /\ CallFits(call[c])
  BY FaceFacts DEF FaceTypeOK
<1>2. ASSUME NEW p \in Persons, Reopen(p)
      PROVE  FaceInv'
  <2>1. /\ account' \in [Persons -> Accounts]
        /\ \A q \in Persons : account'[q] # "new" => account[q] # "new"
    BY <1>1, <1>2 DEF Reopen, Accounts
  <2> QED
    BY <1>2, <2>1, FaceStutters DEF Reopen
<1>3. ASSUME NEW c \in Calls, NEW p \in Persons, NEW f \in Faces,
             StartActivation(c, p, f)
      PROVE  FaceInv'
  BY <1>3, BeginKeeps DEF StartActivation, Ops, Lists
<1>4. ASSUME NEW c \in Calls, NEW p \in Persons, StartBlacklist(c, p)
      PROVE  FaceInv'
  BY <1>4, BeginKeeps DEF StartBlacklist, Ops, Lists
<1>5. ASSUME NEW c \in Calls, NEW p \in Persons, NEW f \in Faces,
             NEW list \in Registered, StartOperator(c, p, f, list)
      PROVE  FaceInv'
  BY <1>5, BeginKeeps, RegisteredAssumption DEF StartOperator, Ops
<1>6. ASSUME NEW c \in Calls, Search(c)
      PROVE  FaceInv'
  BY <1>6, SearchKeeps
<1>7. ASSUME NEW c \in Calls, UpsertIdentity(c) \/ MarkIdentity(c)
      PROVE  FaceInv'
  <2>1. call[c].op = "blacklist" => call[c].list = "DEBTOR"
    BY <1>1 DEF CallFits
  <2> QED
    BY <1>7, <2>1, SetIdentityKeeps DEF UpsertIdentity, MarkIdentity
<1>8. ASSUME NEW c \in Calls, UpsertVector(c) \/ MarkVector(c)
      PROVE  FaceInv'
  BY <1>8, UpsertVectorKeeps, MarkVectorKeeps
<1>9. ASSUME NEW c \in Calls, InsertVector(c)
      PROVE  FaceInv'
  <2>1. call[c].pc = "insert" /\ call[c].op # "blacklist"
    BY <1>1, <1>9 DEF InsertVector, CallFits
  <2> QED
    BY <1>9, <2>1, WriteVectorKeeps DEF InsertVector
<1>10. ASSUME NEW c \in Calls,
              \/ SearchFails(c) \/ ActivateFails(c) \/ BlacklistFails(c)
              \/ SaveFails(c) \/ GiveUp(c)
       PROVE  FaceInv'
  BY <1>10, FailsKeeps
     DEF SearchFails, ActivateFails, BlacklistFails, SaveFails, GiveUp, CallPcs
<1>11. ASSUME NEW c \in Calls, SaveAccount(c)
       PROVE  FaceInv'
  BY <1>11, SaveAccountKeeps
<1>12. CASE UNCHANGED faceVars
  BY <1>1, <1>12, FaceStutters DEF faceVars
<1> QED
  BY <1>2, <1>3, <1>4, <1>5, <1>6, <1>7, <1>8, <1>9, <1>10, <1>11, <1>12
     DEF FaceNext

LEMMA FaceInvariance == FaceSpec => []FaceInv
<1>1. FaceInit => FaceInv
  BY FaceInitially
<1>2. FaceInv /\ [FaceNext]_faceVars => FaceInv'
  BY FaceInduction
<1> QED
  BY <1>1, <1>2, PTL DEF FaceSpec

\* Every identity, vector, account and call has its type in every state.
THEOREM FaceTypes == FaceSpec => []FaceTypeOK
<1>1. FaceInv => FaceTypeOK
  BY DEF FaceInv
<1> QED
  BY <1>1, FaceInvariance, PTL

\* markPersonAsDebtor finds a vector to change for whoever may owe something,
\* however many calls of activate and blacklistByRef are in flight.
THEOREM EnrolledTheorem == FaceSpec => []DebtorIsEnrolled
<1>1. FaceInv => DebtorIsEnrolled
  BY DEF FaceInv
<1> QED
  BY <1>1, FaceInvariance, PTL

\* The vectors of a debtor stay on the list of debtors until an operator says
\* otherwise, whatever faces are presented and whichever are alike; the debtors
\* this does not hold of are those an enrolment of their own was under way for
\* when they were marked, or who passed the search with a face unlike every
\* vector of theirs.
THEOREM ListedTheorem == FaceSpec => []DebtorStaysListed
<1>1. FaceInv => DebtorStaysListed
  BY DEF FaceInv
<1> QED
  BY <1>1, FaceInvariance, PTL

\* An activation that goes on after its search presents a face that resembles
\* no vector of a debtor, but for one marked since and for a stray:
\* SearchWatchlists sees every vector that was there.
THEOREM BlockedTheorem == FaceSpec => []BlockedUnlessRaced
<1>1. FaceInv => BlockedUnlessRaced
  <2> SUFFICES ASSUME FaceInv, NEW c \in Calls, NEW v \in Vectors,
                      Cleared(call[c]), vector[v].person \in debtors \ strays,
                      <<call[c].face, vector[v].face>> \in Alike
               PROVE  vector[v].person \in call[c].since
    BY DEF BlockedUnlessRaced
  <2> QED
    BY DEF FaceInv, Settled, Excused
<1> QED
  BY <1>1, FaceInvariance, PTL

\* Every vector of a person is on the list of the identity, however many there
\* are, but while a handler is between the documents and for persons torn by an
\* error or an overlap there, or by an upsert that met two vectors.
THEOREM ListsTheorem == FaceSpec => []ListsAgree
<1>1. FaceInv => ListsAgree
  <2> SUFFICES ASSUME FaceInv, NEW v \in Vectors, vector[v] # NoVector,
                      vector[v].person \notin torn,
                      \A c \in Calls : ~Inside(c, vector[v].person)
               PROVE  vector[v].list = identity[vector[v].person]
    BY DEF ListsAgree, Inside
  <2>1. vector[v].person \in Persons /\ v \in VectorsOf(vector[v].person)
    BY DEF FaceInv, FaceTypeOK, VectorDoc, VectorsOf
  <2> QED
    BY <2>1 DEF FaceInv, Whole
<1> QED
  BY <1>1, FaceInvariance, PTL
=============================================================================
