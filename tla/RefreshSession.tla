--------------------------- MODULE RefreshSession ---------------------------
(***************************************************************************)
(* One refresh session of userService: the document in MongoDB, the marks  *)
(* of used tokens in Redis, and the concurrent requests that present a     *)
(* refresh token to rotate it.  A family has one session (every familyId   *)
(* is created with its sessionId), and sessions share nothing.             *)
(*                                                                         *)
(* A token stands for its hash.  save() sends only the fields a handler    *)
(* has changed, whatever the rest of the document has become.              *)
(***************************************************************************)
EXTENDS Naturals

CONSTANTS
    Tokens,     \* refresh tokens, each a fresh secret
    Requests,   \* refresh requests that may be in flight at the same time
    None        \* no token

ASSUME NoneAssumption == None \notin Tokens

VARIABLES
    session,      \* none, live, past its expiresAt, or deleted by the TTL index
    current,      \* refreshTokenHash
    previous,     \* previousRefreshTokenHash
    revoked,      \* revokedAt is set
    compromised,  \* compromisedAt is set: a reuse was detected
    used,         \* tokens with a mark rt:used: in Redis
    req,          \* the requests and what each of them has read
    held,         \* tokens a client has received
    spent,        \* history: tokens that were current and no longer are
    presented,    \* history: tokens that were presented to a valid session
    replayed,     \* history: some token was presented twice
    faded         \* history: tokens whose mark in Redis has expired

doc     == <<session, current, previous, revoked, compromised>>
history == <<spent, presented, replayed, faded>>
vars    == <<doc, used, req, held, history>>

MaybeToken == Tokens \cup {None}

Pcs  == {"idle", "marks", "revoke", "reload", "save", "mark", "reply"}
Idle == [pc |-> "idle", token |-> None, cur |-> None, prev |-> None]

Init ==
    /\ session = "none"
    /\ current = None /\ previous = None
    /\ revoked = FALSE /\ compromised = FALSE
    /\ used = {}
    /\ req = [r \in Requests |-> Idle]
    /\ held = {}
    /\ spent = {} /\ presented = {} /\ faded = {}
    /\ replayed = FALSE

Fresh(t)     == t \in Tokens /\ t \notin spent /\ t # current
Goto(r, pc)  == req' = [req EXCEPT ![r].pc = pc]
Finish(r)    == req' = [req EXCEPT ![r] = Idle]

-----------------------------------------------------------------------------

\* login, or the OAuth callback: the session is created with its first token.
Login(t) ==
    /\ session = "none"
    /\ Fresh(t)
    /\ session' = "live"
    /\ current' = t
    /\ held' = {t}
    /\ UNCHANGED <<previous, revoked, compromised, used, req, history>>

(* rotateRefreshToken *)

\* The session is found valid, and read.
Present(r, t) ==
    /\ req[r].pc = "idle"
    /\ t \in held
    /\ session = "live"
    /\ ~revoked
    /\ req' = [req EXCEPT ![r] = [pc |-> "marks", token |-> t,
                                  cur |-> current, prev |-> previous]]
    /\ replayed' = (replayed \/ t \in presented)
    /\ presented' = presented \cup {t}
    /\ UNCHANGED <<doc, used, held, spent, faded>>

\* usedFamily or isPrevious.
IsReused(r) == req[r].token \in used \/ req[r].token = req[r].prev

\* Redis answers, and what was read of the session is judged.
Judge(r) ==
    /\ req[r].pc = "marks"
    /\ \/ IsReused(r) /\ Goto(r, "revoke")
       \/ ~IsReused(r) /\ req[r].token = req[r].cur /\ Goto(r, "reload")
       \/ ~IsReused(r) /\ req[r].token # req[r].cur /\ Finish(r)
    /\ UNCHANGED <<doc, used, held, history>>

\* revokeFamily, which leaves a session revoked earlier as it is; then 409.
RevokeFamily(r) ==
    /\ req[r].pc = "revoke"
    /\ IF session \in {"live", "expired"} /\ ~revoked
       THEN revoked' = TRUE /\ compromised' = TRUE
       ELSE UNCHANGED <<revoked, compromised>>
    /\ Finish(r)
    /\ UNCHANGED <<session, current, previous, used, held, history>>

(* issueTokensForUser with an existing session *)

\* The session is read again.
Reload(r) ==
    /\ req[r].pc = "reload"
    /\ session \in {"live", "expired"}
    /\ req' = [req EXCEPT ![r].pc = "save", ![r].cur = current]
    /\ UNCHANGED <<doc, used, held, history>>

\* Faulty variant: the whole document is written, as it was read.
Save_wholeDocument(r) ==
    /\ req[r].pc = "save"
    /\ session \in {"live", "expired"}
    /\ \E t \in Tokens :
         /\ Fresh(t)
         /\ current' = t
         /\ req' = [req EXCEPT ![r].pc = "mark", ![r].prev = t]
    /\ previous' = req[r].cur
    /\ session' = "live"
    /\ revoked' = FALSE
    /\ spent' = spent \cup {current}
    /\ UNCHANGED <<compromised, used, held, presented, replayed, faded>>

\* save() of the tokens and the new expiry.  From here on prev is the token
\* of the answer.
Save(r) ==
    /\ req[r].pc = "save"
    /\ session \in {"live", "expired"}
    /\ \E t \in Tokens :
         /\ Fresh(t)
         /\ current' = t
         /\ req' = [req EXCEPT ![r].pc = "mark", ![r].prev = t]
    /\ previous' = req[r].cur
    /\ session' = "live"
    /\ spent' = spent \cup {current}
    /\ UNCHANGED <<revoked, compromised, used, held, presented, replayed, faded>>

\* Faulty variants: the new token is marked; nothing is.
Mark_newToken(r) ==
    /\ req[r].pc = "mark"
    /\ used' = used \cup {req[r].prev}
    /\ Goto(r, "reply")
    /\ UNCHANGED <<doc, held, history>>

Mark_forgotten(r) ==
    /\ req[r].pc = "mark"
    /\ Goto(r, "reply")
    /\ UNCHANGED <<doc, used, held, history>>

\* The token that was read as current is marked as used.
Mark(r) ==
    /\ req[r].pc = "mark"
    /\ used' = used \cup {req[r].cur}
    /\ Goto(r, "reply")
    /\ UNCHANGED <<doc, held, history>>

\* The access token is signed, and the client receives both.
Reply(r) ==
    /\ req[r].pc = "reply"
    /\ held' = held \cup {req[r].prev}
    /\ Finish(r)
    /\ UNCHANGED <<doc, used, history>>

\* An await rejects, the process stops, the session is gone, or the answer is
\* lost.
RequestFails(r) ==
    /\ req[r].pc # "idle"
    /\ Finish(r)
    /\ UNCHANGED <<doc, used, held, history>>

-----------------------------------------------------------------------------

\* revokeSession and revokeAllForUser
Logout ==
    /\ session \in {"live", "expired"}
    /\ ~revoked
    /\ revoked' = TRUE
    /\ UNCHANGED <<session, current, previous, compromised, used, req, held,
                   history>>

\* expiresAt passes; a rotation that is already under way may still extend it.
Expire ==
    /\ session = "live"
    /\ session' = "expired"
    /\ UNCHANGED <<current, previous, revoked, compromised, used, req, held,
                   history>>

\* The TTL index deletes the document.
Purge ==
    /\ session = "expired"
    /\ session' = "gone"
    /\ UNCHANGED <<current, previous, revoked, compromised, used, req, held,
                   history>>

\* A mark expires JWT_REFRESH_TTL_DAYS after the rotation, while the session
\* goes on being rotated.
Fade(t) ==
    /\ t \in used
    /\ used' = used \ {t}
    /\ faded' = faded \cup {t}
    /\ UNCHANGED <<doc, req, held, spent, presented, replayed>>

RotationStep(r) ==
    \/ \E t \in Tokens : Present(r, t)
    \/ Judge(r) \/ RevokeFamily(r)
    \/ Reload(r) \/ Save(r) \/ Mark(r) \/ Reply(r)
    \/ RequestFails(r)

Next ==
    \/ \E t \in Tokens : Login(t) \/ Fade(t)
    \/ \E r \in Requests : RotationStep(r)
    \/ Logout \/ Expire \/ Purge

Spec == Init /\ [][Next]_vars

-----------------------------------------------------------------------------
(* Safety *)

\* Every variable has its type.
TypeOK ==
    /\ session \in {"none", "live", "expired", "gone"}
    /\ current \in MaybeToken /\ previous \in MaybeToken
    /\ revoked \in BOOLEAN /\ compromised \in BOOLEAN /\ replayed \in BOOLEAN
    /\ req \in [Requests -> [pc : Pcs, token : MaybeToken,
                             cur : MaybeToken, prev : MaybeToken]]
    /\ used \in SUBSET Tokens /\ held \in SUBSET Tokens
    /\ spent \in SUBSET Tokens /\ presented \in SUBSET Tokens
    /\ faded \in SUBSET Tokens

\* The current token never looks used, however many rotations overlap and
\* overwrite each other's fields: whoever holds it can go on.
CurrentIsUnused ==
    session # "none" => current \notin used \cup spent /\ current # previous

\* No false alarm: a family is compromised only if one of its tokens really
\* was presented twice.  Lost answers, errors between the save and the mark
\* and logouts alone never look like a reuse.
AlarmMeansReplay == compromised => replayed

\* So whoever holds the current token is neither refused nor accused.
HolderIsSafe == CurrentIsUnused /\ AlarmMeansReplay

\* The first replay is always seen: as long as no token was presented twice,
\* every token that was given up is the previous one or has its mark, even
\* after an error between the save and the mark, until the mark expires.
FirstReplayIsSeen ==
    ~replayed => \A t \in spent : t \in used \/ t \in faded \/ t = previous

\* A revoked session stays revoked, whatever the rotations that read it
\* before the revocation save after it.
RevokedIsFinal == [][revoked => revoked']_vars

-----------------------------------------------------------------------------
(* The invariant that makes them inductive *)

Active(r) == req[r].pc # "idle"

\* Every token that is stored, held or carried by a request is the current one
\* or was current once, and nothing but a token that was gets marked.
TokensAccounted ==
    /\ session = "none" => /\ current = None /\ previous = None
                           /\ spent = {} /\ held = {} /\ ~compromised
    /\ session # "none" => current \in Tokens \ spent
    /\ used \subseteq spent
    /\ previous \in spent \cup {None}
    /\ held \subseteq spent \cup {current}
    /\ \A r \in Requests :
         /\ Active(r) => session # "none"
         /\ req[r].pc = "marks" => req[r].prev \in spent \cup {None}
         /\ req[r].pc = "save" => req[r].cur \in spent \cup {current}
         /\ req[r].pc = "mark" => req[r].cur \in spent
         /\ req[r].pc \in {"mark", "reply"} => req[r].prev \in spent \cup {current}

Marked(t) == t \in used \cup faded

\* As long as no token was presented twice the rotations are one at a time:
\* only the current token may still be presented, by nobody while a request is
\* active, and the previous one is marked unless the chain ends here.
OneAtATime ==
    ~replayed =>
        /\ ~compromised
        /\ \A t \in held : t \in presented \/ t = current
        /\ \A t \in spent : Marked(t) \/ t = previous
        /\ \A r, q \in Requests : Active(r) /\ Active(q) => r = q
        /\ \A r \in Requests :
             /\ Active(r) => held \subseteq presented
             /\ req[r].pc # "revoke"
             /\ req[r].pc = "marks" => req[r].token = current
             /\ req[r].pc = "save" => req[r].cur = current
             /\ req[r].pc = "mark" => req[r].cur = previous
             /\ req[r].pc \in {"mark", "reply"} => req[r].prev = current
        /\ previous # None /\ ~Marked(previous) =>
             /\ held \subseteq presented
             /\ \A r \in Requests : req[r].pc \in {"idle", "mark"}

IInv == TypeOK /\ TokensAccounted /\ OneAtATime

=============================================================================
