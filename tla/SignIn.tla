-------------------------------- MODULE SignIn --------------------------------
(***************************************************************************)
(* How userService signs an account in: with a password, behind a lock     *)
(* that failures earn, or through an OAuth provider, whose identities are  *)
(* linked to accounts.                                                     *)
(*                                                                         *)
(* A handler reads documents, awaits, and writes what it computed from     *)
(* them: a saved document sends the fields it changed, the indexes refuse  *)
(* a second account with an email and a second link of an identity or of   *)
(* an account.                                                             *)
(*                                                                         *)
(* No name of RefreshSession, the session a sign-in begins, is used again: *)
(* the two are proved about in one module.                                 *)
(***************************************************************************)
EXTENDS Naturals

CONSTANTS
    Accounts,       \* ids the database may give
    Identities,     \* accounts at the provider
    Emails,         \* addresses people have
    Attempts,
    MaxFailures,    \* failures that lock an account: ten
    AutoLink        \* ALLOW_AUTO_LINK_VERIFIED_OAUTH_EMAIL

ASSUME MaxFailuresAssumption == MaxFailures \in Nat \ {0}
ASSUME AutoLinkAssumption == AutoLink \in BOOLEAN
ASSUME IdsAssumption ==
    /\ {"none", "deleted", "password"} \cap Identities = {}
    /\ "none" \notin Accounts

VARIABLES
    profile,    \* what the provider says of each identity (external)
    account,    \* the users collection
    link,       \* the oauthaccounts collection: the account of each identity
    attempt,    \* sign-ins and linkings
    issued,     \* history: who has been given tokens for which account
    asked,      \* history: identities that came back to an account's linking
    unlinked,   \* history: accounts whose link was deleted
    failures    \* history: failed logins of an account, up to MaxFailures

documents     == <<account, link>>
signInHistory == <<issued, asked, unlinked, failures>>
signInVars    == <<profile, documents, attempt, signInHistory>>

Absent == "none"

\* An identity without an email gets an address made of its id.
NoEmail(i) == [email |-> i, verified |-> FALSE]

\* exchangeCodeForProfile: Google says whether it has verified the email, for
\* Facebook every email counts as verified.
GoogleProfile(i)   == [email : Emails, verified : BOOLEAN] \cup {NoEmail(i)}
FacebookProfile(i) == [email : Emails, verified : {TRUE}] \cup {NoEmail(i)}
Profile(i) == GoogleProfile(i) \cup FacebookProfile(i)

\* lockUntil: null, a date that is over, or one to come.
Locks == {"null", "past", "set"}

\* origin: the identity that created the account, or "password".
Account == [email : Emails \cup Identities,
            origin : Identities \cup {"password"},
            count : 0 .. MaxFailures - 1, lock : Locks]
Unused  == [origin |-> Absent]
Deleted == [origin |-> "deleted"]

\* kind "password": who has typed it is not known to be anybody.
\* found: a link was found.  count, lock: of the document that was read.
Attempt == [kind : {"password", "login", "link"},
            pc : {"redirected", "find", "user", "email", "own", "create",
                  "link", "verify", "tokens", "done", "cut"},
            id : Identities \cup {Absent}, acct : Accounts \cup {Absent},
            found : BOOLEAN, count : 0 .. MaxFailures - 1, lock : Locks]
Free == [kind |-> Absent]

Exists(a) == account[a] \notin {Unused, Deleted}

SignInInit ==
    /\ profile \in [Identities -> UNION {Profile(i) : i \in Identities}]
    /\ \A i \in Identities : profile[i] \in Profile(i)
    /\ account = [a \in Accounts |-> Unused]
    /\ link = [i \in Identities |-> Absent]
    /\ attempt = [q \in Attempts |-> Free]
    /\ issued = {}
    /\ asked = {}
    /\ unlinked = {}
    /\ failures = [a \in Accounts |-> 0]

-----------------------------------------------------------------------------

At(q, pc)       == attempt[q] # Free /\ attempt[q].pc = pc
Continue(q, pc) == attempt' = [attempt EXCEPT ![q].pc = pc]

\* The bound: a request asks for a password again and again, for OAuth once.
End(q) == IF attempt[q].kind = "password"
          THEN attempt' = [attempt EXCEPT ![q] = Free]
          ELSE Continue(q, "done")

WithEmail(e) == {a \in Accounts : Exists(a) /\ account[a].email = e}

NewAccount(e, o) == [email |-> e, origin |-> o, count |-> 0, lock |-> "null"]

\* The index on email refuses a second account.
Insert(a, e, o) ==
    /\ account[a] = Unused
    /\ WithEmail(e) = {}
    /\ account' = [account EXCEPT ![a] = NewAccount(e, o)]

-----------------------------------------------------------------------------
(* Passwords: register and login *)

Register(a, e) ==
    /\ Insert(a, e, "password")
    /\ UNCHANGED <<profile, link, attempt, signInHistory>>

Start(q, kind, pc, a, c, l) ==
    attempt' = [attempt EXCEPT ![q] =
        [kind |-> kind, pc |-> pc, id |-> Absent, acct |-> a, found |-> FALSE,
         count |-> c, lock |-> l]]

\* The document is read; a lock in force refuses before the password is seen.
ReadLogin(q, a) ==
    /\ attempt[q] = Free
    /\ Exists(a)
    /\ account[a].origin = "password"
    /\ account[a].lock # "set"
    /\ Start(q, "password", "verify", a, account[a].count, account[a].lock)
    /\ UNCHANGED <<profile, documents, signInHistory>>

Failed(a) ==
    failures' = [failures EXCEPT ![a] = IF @ < MaxFailures THEN @ + 1 ELSE @]

\* Faulty variant: the lock comes one failure early.
WrongPassword_early(q) ==
    LET a == attempt[q].acct IN
    /\ At(q, "verify")
    /\ Exists(a)
    /\ account' = [account EXCEPT
          ![a].count = IF attempt[q].count + 2 >= MaxFailures THEN 0
                       ELSE attempt[q].count + 1,
          ![a].lock = IF attempt[q].count + 2 >= MaxFailures THEN "set" ELSE @]
    /\ Failed(a)
    /\ End(q)
    /\ UNCHANGED <<profile, link, issued, asked, unlinked>>

\* The count that was read, and one more.
WrongPassword(q) ==
    LET a == attempt[q].acct IN
    /\ At(q, "verify")
    /\ Exists(a)
    /\ account' = [account EXCEPT
          ![a].count = IF attempt[q].count + 1 >= MaxFailures THEN 0
                       ELSE attempt[q].count + 1,
          ![a].lock = IF attempt[q].count + 1 >= MaxFailures THEN "set" ELSE @]
    /\ Failed(a)
    /\ End(q)
    /\ UNCHANGED <<profile, link, issued, asked, unlinked>>

\* Faulty variant: the update sends both fields, changed or not.
RightPassword_allFields(q) ==
    LET a == attempt[q].acct IN
    /\ At(q, "verify")
    /\ Exists(a)
    /\ account' = [account EXCEPT ![a].count = 0, ![a].lock = "null"]
    /\ Continue(q, "tokens")
    /\ UNCHANGED <<profile, link, signInHistory>>

\* Count and lock are reset where the document that was read says otherwise.
RightPassword(q) ==
    LET a == attempt[q].acct IN
    /\ At(q, "verify")
    /\ Exists(a)
    /\ account' = [account EXCEPT
          ![a].count = IF attempt[q].count # 0 THEN 0 ELSE @,
          ![a].lock = IF attempt[q].lock # "null" THEN "null" ELSE @]
    /\ Continue(q, "tokens")
    /\ UNCHANGED <<profile, link, signInHistory>>

\* Fifteen minutes
LockEnds(a) ==
    /\ Exists(a)
    /\ account[a].lock = "set"
    /\ account' = [account EXCEPT ![a].lock = "past"]
    /\ UNCHANGED <<profile, link, attempt, signInHistory>>

-----------------------------------------------------------------------------
(* OAuth: start and callback *)

\* A state is written to Redis; with mode link it holds the account.
StartOAuth(q) ==
    /\ attempt[q] = Free
    /\ \/ Start(q, "login", "redirected", Absent, 0, "null")
       \/ \E a \in Accounts :
            Exists(a) /\ Start(q, "link", "redirected", a, 0, "null")
    /\ UNCHANGED <<profile, documents, signInHistory>>

\* The state is read and deleted, and the provider tells whose code it is.  A
\* callback that comes twice has a code the provider has seen.
Callback(q, i) ==
    /\ At(q, "redirected")
    /\ attempt' = [attempt EXCEPT ![q].pc = "find", ![q].id = i]
    /\ asked' = IF attempt[q].kind = "link"
                THEN asked \cup {<<i, attempt[q].acct>>} ELSE asked
    /\ UNCHANGED <<profile, documents, issued, unlinked, failures>>

\* findByProviderAndProviderUserId in loginOrRegister
FindIdentity(q) ==
    /\ At(q, "find")
    /\ attempt[q].kind = "login"
    /\ attempt' = IF link[attempt[q].id] # Absent
                  THEN [attempt EXCEPT ![q].pc = "user", ![q].found = TRUE,
                                       ![q].acct = link[attempt[q].id]]
                  ELSE [attempt EXCEPT ![q].pc = "email"]
    /\ UNCHANGED <<profile, documents, signInHistory>>

\* findById: a link may outlive its account.
FindUser(q) ==
    /\ At(q, "user")
    /\ Continue(q, IF Exists(attempt[q].acct) THEN "tokens" ELSE "create")
    /\ UNCHANGED <<profile, documents, signInHistory>>

\* Faulty variant: any email of the provider will do.
MayLink_unverified(i) == TRUE

MayLink(i) == AutoLink /\ profile[i].verified

\* findByEmail; an identity without an email is not looked up.
FindEmail(q) ==
    LET i == attempt[q].id
        same == WithEmail(profile[i].email) IN
    /\ At(q, "email")
    /\ IF profile[i].email = i \/ same = {} THEN Continue(q, "create")
       ELSE IF MayLink(i)
       THEN attempt' = [attempt EXCEPT ![q].pc = "link",
                                       ![q].acct = CHOOSE a \in same : TRUE]
       ELSE End(q)
    /\ UNCHANGED <<profile, documents, signInHistory>>

\* Faulty variant: the new account is signed in at once.
CreateUser_unlinked(q) ==
    LET i == attempt[q].id IN
    /\ At(q, "create")
    /\ \E a \in Accounts :
         /\ Insert(a, profile[i].email, i)
         /\ attempt' = [attempt EXCEPT ![q].pc = "tokens", ![q].acct = a]
    /\ UNCHANGED <<profile, link, signInHistory>>

CreateUser(q) ==
    LET i == attempt[q].id IN
    /\ At(q, "create")
    /\ \E a \in Accounts :
         /\ Insert(a, profile[i].email, i)
         /\ attempt' = [attempt EXCEPT ![q].acct = a,
               ![q].pc = IF attempt[q].found THEN "tokens" ELSE "link"]
    /\ UNCHANGED <<profile, link, signInHistory>>

\* Somebody has the email by now.
CreateRefused(q) ==
    /\ At(q, "create")
    /\ WithEmail(profile[attempt[q].id].email) # {}
    /\ End(q)
    /\ UNCHANGED <<profile, documents, signInHistory>>

\* linkProviderAccount: the identity must not be somebody else's, and an
\* account that has a link keeps it.
FindConflict(q) ==
    /\ At(q, "find")
    /\ attempt[q].kind = "link"
    /\ IF link[attempt[q].id] \notin {Absent, attempt[q].acct}
       THEN End(q) ELSE Continue(q, "own")
    /\ UNCHANGED <<profile, documents, signInHistory>>

FindOwn(q) ==
    /\ At(q, "own")
    /\ IF \E i \in Identities : link[i] = attempt[q].acct
       THEN End(q) ELSE Continue(q, "link")
    /\ UNCHANGED <<profile, documents, signInHistory>>

\* oauthAccountRepository.create, and what the two indexes refuse.
Link(q) ==
    /\ At(q, "link")
    /\ IF \/ link[attempt[q].id] # Absent
          \/ \E i \in Identities : link[i] = attempt[q].acct
       THEN Continue(q, "cut") /\ UNCHANGED link
       ELSE /\ link' = [link EXCEPT ![attempt[q].id] = attempt[q].acct]
            /\ Continue(q, IF attempt[q].kind = "login" THEN "tokens"
                                                       ELSE "done")
    /\ UNCHANGED <<profile, account, signInHistory>>

-----------------------------------------------------------------------------

\* issueTokensForUser, in login and in loginOrRegister
Issue(q) ==
    /\ At(q, "tokens")
    /\ issued' = issued \cup {<<attempt[q].id, attempt[q].acct>>}
    /\ UNCHANGED <<profile, documents, asked, unlinked, failures>>

IssueLogin(q) == Issue(q) /\ attempt[q].kind = "password" /\ End(q)

IssueOAuth(q) == Issue(q) /\ attempt[q].kind = "login" /\ Continue(q, "done")

\* DELETE /oauth/unlink
Unlink(a) ==
    \E i \in Identities :
        /\ link[i] = a
        /\ Exists(a)
        /\ link' = [link EXCEPT ![i] = Absent]
        /\ unlinked' = unlinked \cup {a}
        /\ UNCHANGED <<profile, account, attempt, issued, asked, failures>>

\* The cleanup of accounts that were never activated leaves their links.
Delete(a) ==
    /\ Exists(a)
    /\ account' = [account EXCEPT ![a] = Deleted]
    /\ UNCHANGED <<profile, link, attempt, signInHistory>>

\* An error or a crash; a state that Redis has dropped; an account that is gone.
Cut(q) ==
    /\ attempt[q] # Free
    /\ attempt[q].pc \notin {"done", "cut"}
    /\ IF attempt[q].pc = "link" THEN Continue(q, "cut") ELSE End(q)
    /\ UNCHANGED <<profile, documents, signInHistory>>

-----------------------------------------------------------------------------

SignInNext ==
    \/ \E a \in Accounts : \/ \E e \in Emails : Register(a, e)
                           \/ LockEnds(a) \/ Unlink(a) \/ Delete(a)
    \/ \E q \in Attempts :
         \/ \E a \in Accounts : ReadLogin(q, a)
         \/ WrongPassword(q) \/ RightPassword(q)
         \/ StartOAuth(q) \/ (\E i \in Identities : Callback(q, i))
         \/ FindIdentity(q) \/ FindUser(q) \/ FindEmail(q)
         \/ CreateUser(q) \/ CreateRefused(q)
         \/ FindConflict(q) \/ FindOwn(q) \/ Link(q)
         \/ IssueLogin(q) \/ IssueOAuth(q) \/ Cut(q)

SignInSpec == SignInInit /\ [][SignInNext]_signInVars

-----------------------------------------------------------------------------
(* Properties *)

SignInTypeOK ==
    /\ \A i \in Identities : profile[i] \in Profile(i)
    /\ account \in [Accounts -> Account \cup {Unused, Deleted}]
    /\ link \in [Identities -> Accounts \cup {Absent}]
    /\ attempt \in [Attempts -> Attempt \cup {Free}]
    /\ issued \subseteq (Identities \cup {Absent}) \X Accounts
    /\ asked \subseteq Identities \X Accounts
    /\ unlinked \subseteq Accounts
    /\ failures \in [Accounts -> 0..MaxFailures]

SameEmail(i, a) == Exists(a) => account[a].email = profile[i].email
Origin(i, a)    == Exists(a) => account[a].origin = i

\* Tokens for an account go to an identity that created it, that came back to a
\* linking the account had begun, or whose provider vouches for the account's
\* email where that is allowed; none of it survives as a way into a second
\* account, whatever was deleted, unlinked or linked at the same time.
TokensGoToTheOwner ==
    \A i \in Identities, a \in Accounts : <<i, a>> \in issued =>
        \/ Origin(i, a)
        \/ <<i, a>> \in asked
        \/ AutoLink /\ profile[i].verified /\ SameEmail(i, a)

\* A sign-in of the identity that created a, about to link it or cut short there,
\* or begun from a link it had found.
Stranding(q, a) ==
    /\ attempt[q] # Free
    /\ attempt[q].acct = a
    /\ attempt[q].id = account[a].origin
    /\ attempt[q].pc \in {"link", "cut"} \/ attempt[q].found

\* An account that an identity created is linked to it, unless the sign-in of
\* that identity is about to link it or was cut short there, found a link that
\* had outlived another account, or the link was deleted.
StrandedOnlyByCut ==
    \A a \in Accounts :
        Exists(a) /\ account[a].origin # "password" =>
            \/ link[account[a].origin] = a
            \/ a \in unlinked
            \/ \E q \in Attempts : Stranding(q, a)

\* A lock was earned by as many failures, whatever the requests that read the
\* count at the same time have written.
LockIsEarned ==
    \A a \in Accounts : Exists(a) =>
        /\ account[a].count <= failures[a]
        /\ account[a].lock # "null" => failures[a] = MaxFailures

\* A lock lasts its time: no sign-in that was under way when it was set removes
\* it, but one that had read an older lock that was over.
LockLasts ==
    [][\A a \in Accounts :
         Exists(a) /\ account[a].lock = "set" /\ Exists(a)' =>
             \/ account'[a].lock \in {"set", "past"}
             \/ \E q \in Attempts : At(q, "verify") /\ attempt[q].acct = a
                                    /\ attempt[q].lock = "past"]_signInVars
=============================================================================
