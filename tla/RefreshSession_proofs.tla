------------------------ MODULE RefreshSession_proofs ------------------------
(***************************************************************************)
(* The safety properties of RefreshSession, for any number of tokens and   *)
(* of requests in flight, and those of SignIn, which begins such sessions, *)
(* for any number of accounts, identities and attempts.                    *)
(*                                                                         *)
(* Two facts carry the first proof.  TokensAccounted: a token that was     *)
(* replaced is never current again, and only such tokens are marked,       *)
(* however the rotations overlap.  OneAtATime: they cannot overlap, and    *)
(* the chain of marks has no gap, until some token is presented twice.     *)
(*                                                                         *)
(* The second rests on what no step takes back (Ages): what entitled an    *)
(* identity to an account entitles it for good (Entitled), and what a      *)
(* handler concluded from a document it has read stays true of the         *)
(* document others have written since (AttemptFits).                       *)
(***************************************************************************)
EXTENDS RefreshSession, SignIn, TLAPS

LEMMA Initially == Init => IInv
<1> SUFFICES ASSUME Init PROVE IInv
  OBVIOUS
<1> USE NoneAssumption DEF Init, Idle, Active
<1>1. TypeOK
  BY DEF TypeOK, MaybeToken, Pcs
<1>2. TokensAccounted
  BY DEF TokensAccounted
<1>3. OneAtATime
  BY DEF OneAtATime, Marked
<1> QED
  BY <1>1, <1>2, <1>3 DEF IInv

-----------------------------------------------------------------------------
(* Types *)

\* Every step keeps the types.
LEMMA TypeStep == TypeOK /\ TokensAccounted /\ [Next]_vars => TypeOK'
<1> SUFFICES ASSUME TypeOK, TokensAccounted, [Next]_vars
             PROVE  TypeOK'
  OBVIOUS
<1> USE DEF TypeOK, MaybeToken, Pcs, Idle, doc, history
<1>1. ASSUME NEW t \in Tokens, Login(t) \/ Fade(t) PROVE TypeOK'
  BY <1>1 DEF Login, Fade
<1>2. ASSUME NEW r \in Requests, NEW t \in Tokens, Present(r, t) PROVE TypeOK'
  BY <1>2 DEF Present
<1>3. ASSUME NEW r \in Requests, Judge(r) PROVE TypeOK'
  BY <1>3 DEF Judge, Goto, Finish
<1>4. ASSUME NEW r \in Requests, RevokeFamily(r) PROVE TypeOK'
  BY <1>4 DEF RevokeFamily, Finish
<1>5. ASSUME NEW r \in Requests, Reload(r) PROVE TypeOK'
  <2> DEFINE R == [pc : Pcs, token : MaybeToken, cur : MaybeToken,
                   prev : MaybeToken]
  <2>1. req \in [Requests -> R] /\ req[r] \in R
    OBVIOUS
  <2>2. [req[r] EXCEPT !.pc = "save", !.cur = current] \in R
    BY <2>1
  <2>3. req' = [req EXCEPT ![r] = [req[r] EXCEPT !.pc = "save",
                                                 !.cur = current]]
    BY <1>5 DEF Reload
  <2>4. req' \in [Requests -> R]
    <3> HIDE DEF R
    <3> QED
      BY <2>1, <2>2, <2>3
  <2> QED
    BY <1>5, <2>4 DEF Reload
<1>6. ASSUME NEW r \in Requests, Save(r) PROVE TypeOK'
  <2>1. current \in Tokens
    BY <1>6 DEF Save, TokensAccounted
  <2>2. PICK t \in Tokens :
          current' = t /\ req' = [req EXCEPT ![r].pc = "mark", ![r].prev = t]
    BY <1>6 DEF Save
  <2> DEFINE R == [pc : Pcs, token : MaybeToken, cur : MaybeToken,
                   prev : MaybeToken]
  <2>3. req' \in [Requests -> R]
    <3>1. req \in [Requests -> R] /\ req[r] \in R
      OBVIOUS
    <3>2. [req[r] EXCEPT !.pc = "mark", !.prev = t] \in R
      BY <3>1
    <3>3. req' = [req EXCEPT ![r] = [req[r] EXCEPT !.pc = "mark",
                                                   !.prev = t]]
      BY <2>2
    <3> HIDE DEF R
    <3> QED
      BY <3>1, <3>2, <3>3
  <2>4. previous' \in MaybeToken /\ spent' \in SUBSET Tokens
    BY <1>6, <2>1 DEF Save
  <2> QED
    BY <1>6, <2>2, <2>3, <2>4 DEF Save
<1>7. ASSUME NEW r \in Requests, Mark(r) PROVE TypeOK'
  <2>1. req[r].cur \in Tokens
    BY <1>7 DEF Mark, TokensAccounted
  <2> QED
    BY <1>7, <2>1 DEF Mark, Goto
<1>8. ASSUME NEW r \in Requests, Reply(r) PROVE TypeOK'
  <2>1. req[r].prev \in Tokens
    BY <1>8 DEF Reply, TokensAccounted, Active
  <2> QED
    BY <1>8, <2>1 DEF Reply, Finish
<1>9. ASSUME NEW r \in Requests, RequestFails(r) PROVE TypeOK'
  BY <1>9 DEF RequestFails, Finish
<1>10. CASE Logout \/ Expire \/ Purge
  BY <1>10 DEF Logout, Expire, Purge
<1>11. CASE UNCHANGED vars
  BY <1>11 DEF vars
<1> QED
  BY <1>1, <1>2, <1>3, <1>4, <1>5, <1>6, <1>7, <1>8, <1>9, <1>10, <1>11
     DEF Next, RotationStep

-----------------------------------------------------------------------------
(* Where the tokens are *)

\* Every step keeps every token accounted for.
LEMMA AccountsStep ==
    TypeOK /\ TokensAccounted /\ [Next]_vars => TokensAccounted'
<1> SUFFICES ASSUME TypeOK, TokensAccounted, [Next]_vars
             PROVE  TokensAccounted'
  OBVIOUS
<1> USE NoneAssumption
        DEF TypeOK, TokensAccounted, MaybeToken, Idle, Active, doc, history
<1>1. ASSUME NEW t \in Tokens, Login(t) PROVE TokensAccounted'
  BY <1>1 DEF Login, Fresh
<1>2. ASSUME NEW r \in Requests, NEW t \in Tokens, Present(r, t)
      PROVE TokensAccounted'
  BY <1>2 DEF Present
<1>3. ASSUME NEW r \in Requests, Judge(r) PROVE TokensAccounted'
  BY <1>3 DEF Judge, Goto, Finish
<1>4. ASSUME NEW r \in Requests, RevokeFamily(r) PROVE TokensAccounted'
  BY <1>4 DEF RevokeFamily, Finish
<1>5. ASSUME NEW r \in Requests, Reload(r) PROVE TokensAccounted'
  BY <1>5 DEF Reload
<1>6. ASSUME NEW r \in Requests, Save(r) PROVE TokensAccounted'
  <2>1. PICK t \in Tokens :
          Fresh(t) /\ current' = t
          /\ req' = [req EXCEPT ![r].pc = "mark", ![r].prev = t]
    BY <1>6 DEF Save
  <2>2. spent' = spent \cup {current} /\ previous' = req[r].cur
        /\ used' = used /\ held' = held /\ session' = "live"
    BY <1>6 DEF Save
  <2>3. req[r].cur \in spent'
    BY <1>6, <2>2 DEF Save
  <2>4. current' \notin spent'
    BY <2>1, <2>2 DEF Fresh
  <2>5. current \in Tokens
    BY <1>6 DEF Save
  <2> QED
    BY <2>1, <2>2, <2>3, <2>4, <2>5
<1>7. ASSUME NEW r \in Requests, Mark(r) PROVE TokensAccounted'
  BY <1>7 DEF Mark, Goto
<1>8. ASSUME NEW r \in Requests, Reply(r) PROVE TokensAccounted'
  BY <1>8 DEF Reply, Finish
<1>9. ASSUME NEW r \in Requests, RequestFails(r) PROVE TokensAccounted'
  BY <1>9 DEF RequestFails, Finish
<1>10. CASE Logout \/ Expire \/ Purge
  BY <1>10 DEF Logout, Expire, Purge
<1>11. ASSUME NEW t \in Tokens, Fade(t) PROVE TokensAccounted'
  BY <1>11 DEF Fade
<1>12. CASE UNCHANGED vars
  BY <1>12 DEF vars
<1> QED
  BY <1>1, <1>2, <1>3, <1>4, <1>5, <1>6, <1>7, <1>8, <1>9, <1>10, <1>11, <1>12
     DEF Next, RotationStep

-----------------------------------------------------------------------------
(* One rotation at a time *)

\* Every step keeps the rotations one at a time, until a token is replayed.
LEMMA SequenceStep == IInv /\ [Next]_vars => OneAtATime'
<1> SUFFICES ASSUME IInv, [Next]_vars
             PROVE  OneAtATime'
  OBVIOUS
<1> USE NoneAssumption DEF IInv, TypeOK, TokensAccounted, OneAtATime, MaybeToken,
                           Idle, Active, Marked, doc, history
<1>1. ASSUME NEW t \in Tokens, Login(t) PROVE OneAtATime'
  BY <1>1 DEF Login
<1>2. ASSUME NEW r \in Requests, NEW t \in Tokens, Present(r, t)
      PROVE OneAtATime'
  <2> SUFFICES ASSUME ~replayed' PROVE OneAtATime'
    OBVIOUS
  <2>1. ~replayed /\ t \notin presented /\ t \in held /\ t = current
    BY <1>2 DEF Present
  <2>2. \A q \in Requests : ~Active(q)
    BY <2>1
  <2>3. previous = None \/ Marked(previous)
    BY <2>1
  <2> QED
    BY <1>2, <2>1, <2>2, <2>3 DEF Present
<1>3. ASSUME NEW r \in Requests, Judge(r) PROVE OneAtATime'
  <2> SUFFICES ASSUME ~replayed PROVE OneAtATime'
    BY <1>3 DEF Judge
  <2>1. ~IsReused(r)
    BY <1>3 DEF Judge, IsReused
  <2> QED
    BY <1>3, <2>1 DEF Judge, Goto, Finish
<1>4. ASSUME NEW r \in Requests, RevokeFamily(r) PROVE OneAtATime'
  BY <1>4 DEF RevokeFamily
<1>5. ASSUME NEW r \in Requests, Reload(r) PROVE OneAtATime'
  BY <1>5 DEF Reload
<1>6. ASSUME NEW r \in Requests, Save(r) PROVE OneAtATime'
  <2> SUFFICES ASSUME ~replayed PROVE OneAtATime'
    BY <1>6 DEF Save
  <2>1. PICK t \in Tokens :
          Fresh(t) /\ current' = t
          /\ req' = [req EXCEPT ![r].pc = "mark", ![r].prev = t]
    BY <1>6 DEF Save
  <2>2. /\ spent' = spent \cup {current} /\ previous' = req[r].cur
        /\ UNCHANGED <<used, held, presented, faded, compromised>>
    BY <1>6 DEF Save
  <2>3. Active(r) /\ req[r].cur = current /\ held \subseteq presented
    BY <1>6 DEF Save
  <2>4. \A q \in Requests \ {r} : req[q].pc = "idle"
    BY <2>3
  <2>5. previous = None \/ Marked(previous)
    BY <1>6 DEF Save
  <2>6. \A u \in spent : Marked(u)
    BY <2>5
  <2>7. req'[r].pc = "mark" /\ req'[r].cur = current /\ req'[r].prev = t
    BY <2>1, <2>3
  <2>8. \A q \in Requests \ {r} : req'[q].pc = "idle"
    BY <2>1, <2>4
  <2>9. \A u \in spent' : (u \in used' \cup faded') \/ u = previous'
    BY <2>2, <2>3, <2>6
  <2> QED
    BY <2>1, <2>2, <2>3, <2>7, <2>8, <2>9
<1>7. ASSUME NEW r \in Requests, Mark(r) PROVE OneAtATime'
  BY <1>7 DEF Mark, Goto
<1>8. ASSUME NEW r \in Requests, Reply(r) PROVE OneAtATime'
  BY <1>8 DEF Reply, Finish
<1>9. ASSUME NEW r \in Requests, RequestFails(r) PROVE OneAtATime'
  BY <1>9 DEF RequestFails, Finish
<1>10. CASE Logout \/ Expire \/ Purge
  BY <1>10 DEF Logout, Expire, Purge
<1>11. ASSUME NEW t \in Tokens, Fade(t) PROVE OneAtATime'
  BY <1>11 DEF Fade
<1>12. CASE UNCHANGED vars
  BY <1>12 DEF vars
<1> QED
  BY <1>1, <1>2, <1>3, <1>4, <1>5, <1>6, <1>7, <1>8, <1>9, <1>10, <1>11, <1>12
     DEF Next, RotationStep

-----------------------------------------------------------------------------

\* The inductive invariant holds in every reachable state.
THEOREM Invariance == Spec => []IInv
<1>1. IInv /\ [Next]_vars => IInv'
  BY TypeStep, AccountsStep, SequenceStep DEF IInv
<1> QED
  BY Initially, <1>1, PTL DEF Spec

\* Every variable keeps its type.
THEOREM TypeCorrect == Spec => []TypeOK
  BY Invariance, PTL DEF IInv

\* The current token never looks used, for any overlap of rotations, and a
\* family is compromised only if some token was presented twice: the holder of
\* the current token is never refused, and never raises an alarm, over it.
THEOREM HolderTheorem == Spec => []HolderIsSafe
<1>1. IInv => CurrentIsUnused
  BY NoneAssumption DEF IInv, TokensAccounted, CurrentIsUnused
<1>2. IInv => AlarmMeansReplay
  BY DEF IInv, OneAtATime, AlarmMeansReplay
<1>3. IInv => HolderIsSafe
  BY <1>1, <1>2 DEF HolderIsSafe
<1> QED
  BY Invariance, <1>3, PTL

\* The first replay of a token is seen, unless its mark has expired.
THEOREM ReplayTheorem == Spec => []FirstReplayIsSeen
<1>1. IInv => FirstReplayIsSeen
  BY DEF IInv, OneAtATime, FirstReplayIsSeen, Marked
<1> QED
  BY Invariance, <1>1, PTL

\* A revoked session stays revoked.
THEOREM RevokedTheorem == Spec => RevokedIsFinal
<1>1. [Next]_vars => (revoked => revoked')
  BY DEF Next, vars, doc, RotationStep, Login, Fade, Present, Judge, RevokeFamily,
         Reload, Save, Mark, Reply, RequestFails, Logout, Expire, Purge
<1>2. [Next]_vars => [revoked => revoked']_vars
  BY <1>1
<1> QED
  BY <1>2, PTL DEF Spec, RevokedIsFinal


-----------------------------------------------------------------------------
(* SignIn: the invariant *)

\* What entitles an identity to tokens for an account that is or was there.
Entitled(i, a) ==
    /\ account[a] # Unused
    /\ \/ Origin(i, a)
       \/ <<i, a>> \in asked
       \/ AutoLink /\ profile[i].verified /\ SameEmail(i, a)

\* What an attempt has come to, by what it is about to do.
AttemptFits(r) == r # Free =>
    /\ r.kind = "password" =>
          r.pc \in {"verify", "tokens"} /\ r.id = Absent /\ r.acct \in Accounts
    /\ r.pc = "verify" =>
          /\ r.kind = "password"
          /\ r.count <= failures[r.acct] /\ r.lock # "set"
    /\ r.kind # "password" /\ r.pc \notin {"redirected", "done", "cut"} =>
          r.id \in Identities
    /\ r.pc = "redirected" => r.id = Absent
    /\ r.kind = "link" =>
          /\ r.pc \in {"redirected", "find", "own", "link", "done", "cut"}
          /\ r.acct \in Accounts /\ account[r.acct] # Unused
          /\ r.pc # "redirected" /\ r.id # Absent => <<r.id, r.acct>> \in asked
    /\ r.pc = "own" => r.kind = "link"
    /\ r.kind = "login" /\ r.pc \in {"user", "tokens", "link"} =>
          r.acct \in Accounts /\ Entitled(r.id, r.acct)
    /\ r.found =>
          r.kind = "login" /\ r.pc \in {"user", "create", "tokens", "done", "cut"}
    /\ r.found /\ r.pc = "create" =>
          r.acct \in Accounts /\ account[r.acct] = Deleted

SignInInv ==
    /\ SignInTypeOK
    /\ LockIsEarned
    /\ StrandedOnlyByCut
    /\ \A q \in Attempts : AttemptFits(attempt[q])
    /\ \A i \in Identities : link[i] # Absent => Entitled(i, link[i])
    /\ \A i \in Identities, a \in Accounts :
         <<i, a>> \in issued => Entitled(i, a)

\* What no step takes back: an id is not given twice, an account keeps its
\* email and its origin, and what was asked for or has failed is remembered.
Ages ==
    /\ profile' = profile
    /\ asked \subseteq asked'
    /\ \A a \in Accounts :
         /\ failures[a] <= failures'[a]
         /\ account[a] # Unused => account'[a] # Unused
         /\ account[a] = Deleted => account'[a] = Deleted
         /\ account[a] \notin {Unused, Deleted}
                /\ account'[a] \notin {Unused, Deleted} =>
              /\ account'[a].email = account[a].email
              /\ account'[a].origin = account[a].origin

\* No account is taken for an unused or a deleted one, nor an attempt for none.
LEMMA Shapes ==
  /\ Unused # Deleted /\ Unused \notin Account /\ Deleted \notin Account
  /\ Free \notin Attempt
<1>1. Unused.origin = "none" /\ Deleted.origin = "deleted" /\ Free.kind = "none"
  BY DEF Unused, Deleted, Free, Absent
<1>2. \A d \in Account : d.origin \notin {"none", "deleted"}
  BY IdsAssumption DEF Account
<1>3. \A r \in Attempt : r.kind # "none"
  BY DEF Attempt
<1> QED
  BY <1>1, <1>2, <1>3

LEMMA EntitledStays ==
  ASSUME Ages, NEW i \in Identities, NEW a \in Accounts, Entitled(i, a)
  PROVE  Entitled(i, a)'
<1>1. /\ account'[a] # Unused
      /\ Exists(a)' => /\ Exists(a)
                       /\ account'[a].email = account[a].email
                       /\ account'[a].origin = account[a].origin
  BY DEF Ages, Entitled, Exists
<1>2. CASE Origin(i, a)
  BY <1>1, <1>2 DEF Origin, Entitled
<1>3. CASE <<i, a>> \in asked
  BY <1>1, <1>3 DEF Ages, Entitled
<1>4. CASE AutoLink /\ profile[i].verified /\ SameEmail(i, a)
  BY <1>1, <1>4 DEF Ages, SameEmail, Entitled
<1> QED
  BY <1>2, <1>3, <1>4 DEF Entitled

\* What an attempt has come to stays true while others go on.
LEMMA AttemptFitsStill ==
  ASSUME SignInInv, SignInTypeOK', Ages, NEW r \in Attempt \cup {Free},
         AttemptFits(r)
  PROVE  AttemptFits(r)'
<1> SUFFICES ASSUME r # Free PROVE AttemptFits(r)'
  BY DEF AttemptFits
<1>1. r \in Attempt
  OBVIOUS
<1>2. r.pc = "verify" => r.acct \in Accounts /\ r.count <= failures'[r.acct]
  <2> SUFFICES ASSUME r.pc = "verify"
               PROVE  r.acct \in Accounts /\ r.count <= failures'[r.acct]
    OBVIOUS
  <2>1. r.acct \in Accounts /\ r.count <= failures[r.acct]
    BY DEF AttemptFits
  <2>2. /\ r.count \in Nat /\ failures[r.acct] \in Nat
        /\ failures'[r.acct] \in Nat
    BY <1>1, <2>1, MaxFailuresAssumption DEF Attempt, SignInInv, SignInTypeOK
  <2> QED
    BY <2>1, <2>2 DEF Ages
<1>3. r.kind = "login" /\ r.pc \in {"user", "tokens", "link"} =>
          r.acct \in Accounts /\ Entitled(r.id, r.acct)'
  BY <1>1, EntitledStays DEF AttemptFits, Attempt
<1>4. asked \subseteq asked'
      /\ (r.acct \in Accounts /\ account[r.acct] # Unused =>
            account'[r.acct] # Unused)
      /\ (r.acct \in Accounts /\ account[r.acct] = Deleted =>
            account'[r.acct] = Deleted)
  BY DEF Ages
<1> QED
  BY <1>2, <1>3, <1>4 DEF AttemptFits

\* What a step must do to keep the invariant.
LEMMA StepKeeps ==
  ASSUME SignInInv, SignInTypeOK', LockIsEarned', StrandedOnlyByCut', Ages,
         \A q \in Attempts :
            attempt'[q] = attempt[q] \/ AttemptFits(attempt[q])',
         \A i \in Identities : \/ link'[i] = link[i]
                               \/ link'[i] # Absent => Entitled(i, link[i])',
         \A i \in Identities, a \in Accounts :
            <<i, a>> \in issued' => <<i, a>> \in issued \/ Entitled(i, a)'
  PROVE  SignInInv'
<1>1. ASSUME NEW q \in Attempts
      PROVE  AttemptFits(attempt[q])'
  <2>1. CASE attempt'[q] = attempt[q]
    <3>1. attempt[q] \in Attempt \cup {Free} /\ AttemptFits(attempt[q])
      BY DEF SignInInv, SignInTypeOK
    <3> DEFINE r == attempt[q]
    <3>2. ASSUME NEW s, s = r, s \in Attempt \cup {Free}, AttemptFits(s)
          PROVE  AttemptFits(s)'
      BY <3>2, AttemptFitsStill
    <3> QED
      BY <2>1, <3>1, <3>2 DEF AttemptFits
  <2> QED
    BY <2>1
<1>2. ASSUME NEW i \in Identities, link'[i] # Absent
      PROVE  Entitled(i, link[i])'
  <2>1. CASE link'[i] = link[i]
    <3>1. link[i] \in Accounts /\ Entitled(i, link[i])
      BY <1>2, <2>1 DEF SignInInv, SignInTypeOK
    <3>2. \A a \in Accounts : Entitled(i, a) => Entitled(i, a)'
      BY EntitledStays
    <3> QED
      BY <2>1, <3>1, <3>2 DEF Entitled
  <2> QED
    BY <1>2, <2>1
<1>3. ASSUME NEW i \in Identities, NEW a \in Accounts, <<i, a>> \in issued'
      PROVE  Entitled(i, a)'
  BY <1>3, EntitledStays DEF SignInInv
<1> QED
  BY <1>1, <1>2, <1>3 DEF SignInInv

-----------------------------------------------------------------------------
(* The steps that move an attempt *)

\* A step that changes one attempt and no document: it may remember who asked
\* and who was given tokens.
LEMMA AttemptMoves ==
  ASSUME SignInInv, NEW q \in Attempts, NEW r \in Attempt \cup {Free},
         attempt' = [attempt EXCEPT ![q] = r], AttemptFits(r)',
         UNCHANGED <<profile, documents, unlinked, failures>>,
         asked \subseteq asked', asked' \subseteq Identities \X Accounts,
         issued' \subseteq (Identities \cup {Absent}) \X Accounts,
         \A i \in Identities, a \in Accounts :
            <<i, a>> \in issued' => <<i, a>> \in issued \/ Entitled(i, a)',
         \A a \in Accounts : Exists(a) /\ Stranding(q, a) =>
            /\ r # Free /\ r.acct = attempt[q].acct /\ r.id = attempt[q].id
            /\ r.pc \in {"link", "cut"} \/ r.found
  PROVE  SignInInv'
<1>1. UNCHANGED <<profile, account, link, unlinked, failures>>
  BY DEF documents
<1>2. SignInTypeOK /\ LockIsEarned /\ StrandedOnlyByCut
  BY DEF SignInInv
<1>3. /\ attempt'[q] = r
      /\ \A p \in Attempts \ {q} : attempt'[p] = attempt[p]
  BY <1>2 DEF SignInTypeOK
<1>4. SignInTypeOK'
  BY <1>1, <1>2 DEF SignInTypeOK
<1>5. Ages
  <2>1. \A a \in Accounts : failures[a] \in Nat
    BY <1>2, MaxFailuresAssumption DEF SignInTypeOK
  <2> QED
    BY <1>1, <2>1 DEF Ages
<1>6. LockIsEarned'
  BY <1>1, <1>2 DEF LockIsEarned, Exists
<1>7. StrandedOnlyByCut'
  <2> SUFFICES ASSUME NEW a \in Accounts, Exists(a),
                      account[a].origin # "password",
                      link[account[a].origin] # a, a \notin unlinked
               PROVE  \E p \in Attempts : Stranding(p, a)'
    BY <1>1 DEF StrandedOnlyByCut, Exists
  <2>1. PICK p \in Attempts : Stranding(p, a)
    BY <1>2 DEF StrandedOnlyByCut
  <2>2. Stranding(p, a)'
    <3>1. CASE p = q
      BY <2>1, <3>1, <1>1, <1>3 DEF Stranding
    <3>2. CASE p # q
      BY <2>1, <3>2, <1>1, <1>3 DEF Stranding
    <3> QED
      BY <3>1, <3>2
  <2> QED
    BY <2>2
<1>8. \A p \in Attempts :
         attempt'[p] = attempt[p] \/ AttemptFits(attempt[p])'
  BY <1>3 DEF AttemptFits
<1> QED
  BY <1>1, <1>4, <1>5, <1>6, <1>7, <1>8, StepKeeps

\* A step that changes one attempt and nothing else.
LEMMA OnlyAttemptMoves ==
  ASSUME SignInInv, NEW q \in Attempts, NEW r \in Attempt \cup {Free},
         attempt' = [attempt EXCEPT ![q] = r], AttemptFits(r),
         UNCHANGED <<profile, documents, signInHistory>>,
         \A a \in Accounts : Exists(a) /\ Stranding(q, a) =>
            /\ r # Free /\ r.acct = attempt[q].acct /\ r.id = attempt[q].id
            /\ r.pc \in {"link", "cut"} \/ r.found
  PROVE  SignInInv'
<1>1. UNCHANGED <<profile, account, link, issued, asked, unlinked, failures>>
  BY DEF documents, signInHistory
<1>2. AttemptFits(r)'
  BY <1>1 DEF AttemptFits, Entitled, Origin, SameEmail, Exists
<1>3. /\ asked' \subseteq Identities \X Accounts
      /\ issued' \subseteq (Identities \cup {Absent}) \X Accounts
  BY <1>1 DEF SignInInv, SignInTypeOK
<1> QED
  BY <1>1, <1>2, <1>3, AttemptMoves DEF documents

\* What the invariant says of one attempt.
LEMMA AttemptFacts ==
  ASSUME SignInInv, NEW q \in Attempts
  PROVE  /\ attempt[q] \in Attempt \cup {Free} /\ AttemptFits(attempt[q])
         /\ attempt[q] # Free => attempt[q] \in Attempt
BY DEF SignInInv, SignInTypeOK

\* An attempt that is neither about to link nor cut short there may end.
LEMMA AttemptEnds ==
  ASSUME SignInInv, NEW q \in Attempts, attempt[q] # Free,
         attempt[q].pc \notin {"link", "cut"}, End(q),
         UNCHANGED <<profile, documents, signInHistory>>
  PROVE  SignInInv'
<1>1. attempt[q] \in Attempt /\ AttemptFits(attempt[q])
  BY AttemptFacts
<1>2. CASE attempt[q].kind = "password"
  <2>1. attempt' = [attempt EXCEPT ![q] = Free] /\ AttemptFits(Free)
    BY <1>2 DEF End, AttemptFits
  <2>2. \A a \in Accounts : ~Stranding(q, a)
    BY <1>1, <1>2 DEF Stranding, AttemptFits
  <2> QED
    BY <2>1, <2>2, OnlyAttemptMoves
<1>3. CASE attempt[q].kind # "password"
  <2> DEFINE r == [attempt[q] EXCEPT !.pc = "done"]
  <2>1. attempt' = [attempt EXCEPT ![q] = r]
    BY <1>3 DEF End, Continue
  <2>2. /\ r \in Attempt /\ r # Free
        /\ r.pc = "done" /\ r.kind = attempt[q].kind /\ r.id = attempt[q].id
        /\ r.acct = attempt[q].acct /\ r.found = attempt[q].found
    BY <1>1, Shapes DEF Attempt
  <2> HIDE DEF r
  <2>3. AttemptFits(r)
    BY <1>1, <1>3, <2>2 DEF AttemptFits
  <2>4. \A a \in Accounts : Stranding(q, a) => r.found
    BY <2>2 DEF Stranding
  <2> QED
    BY <2>1, <2>2, <2>3, <2>4, OnlyAttemptMoves
<1> QED
  BY <1>2, <1>3

\* An attempt goes on: what it has come to follows from what it had.
LEMMA AttemptContinues ==
  ASSUME SignInInv, NEW q \in Attempts, NEW pc, attempt[q] # Free,
         Continue(q, pc),
         [attempt[q] EXCEPT !.pc = pc] \in Attempt,
         AttemptFits([attempt[q] EXCEPT !.pc = pc]),
         attempt[q].pc \in {"link", "cut"} => pc = "cut",
         UNCHANGED <<profile, documents, signInHistory>>
  PROVE  SignInInv'
<1> DEFINE r == [attempt[q] EXCEPT !.pc = pc]
<1>1. attempt[q] \in Attempt
  BY AttemptFacts
<1>2. attempt' = [attempt EXCEPT ![q] = r]
  BY DEF Continue
<1>3. /\ r \in Attempt /\ r # Free /\ AttemptFits(r)
      /\ r.pc = pc /\ r.id = attempt[q].id
      /\ r.acct = attempt[q].acct /\ r.found = attempt[q].found
  BY <1>1, Shapes DEF Attempt
<1> HIDE DEF r
<1>4. \A a \in Accounts : Stranding(q, a) =>
         r.pc \in {"link", "cut"} \/ r.found
  BY <1>3 DEF Stranding
<1> QED
  BY <1>2, <1>3, <1>4, OnlyAttemptMoves

\* The shape of an attempt that goes on.
LEMMA Goes ==
  ASSUME NEW r \in Attempt, NEW pc
  PROVE  /\ [r EXCEPT !.pc = pc].pc = pc
         /\ [r EXCEPT !.pc = pc].kind = r.kind
         /\ [r EXCEPT !.pc = pc].id = r.id
         /\ [r EXCEPT !.pc = pc].acct = r.acct
         /\ [r EXCEPT !.pc = pc].found = r.found
         /\ [r EXCEPT !.pc = pc].count = r.count
         /\ [r EXCEPT !.pc = pc].lock = r.lock
         /\ pc \in {"redirected", "find", "user", "email", "own", "create",
                    "link", "verify", "tokens", "done", "cut"} =>
               [r EXCEPT !.pc = pc] \in Attempt
BY DEF Attempt

LEMMA StartKeeps ==
  ASSUME SignInInv, NEW q \in Attempts, attempt[q] = Free,
         NEW kind \in {"password", "login", "link"}, NEW pc,
         NEW a \in Accounts \cup {Absent}, NEW c \in 0 .. MaxFailures - 1,
         NEW l \in Locks, Start(q, kind, pc, a, c, l),
         IF kind = "password"
         THEN /\ pc = "verify" /\ a \in Accounts
              /\ c <= failures[a] /\ l # "set"
         ELSE pc = "redirected",
         kind = "link" => a \in Accounts /\ account[a] # Unused,
         UNCHANGED <<profile, documents, signInHistory>>
  PROVE  SignInInv'
<1> DEFINE r == [kind |-> kind, pc |-> pc, id |-> Absent, acct |-> a,
                 found |-> FALSE, count |-> c, lock |-> l]
<1>1. r \in Attempt
  BY DEF Attempt
<1>2. attempt' = [attempt EXCEPT ![q] = r]
  BY DEF Start
<1>3. AttemptFits(r)
  BY DEF AttemptFits
<1>4. \A b \in Accounts : ~Stranding(q, b)
  BY DEF Stranding
<1> HIDE DEF r
<1> QED
  BY <1>1, <1>2, <1>3, <1>4, OnlyAttemptMoves

\* The steps of attempts that write no document.

LEMMA ReadLoginKeeps ==
  ASSUME SignInInv, NEW q \in Attempts, NEW a \in Accounts, ReadLogin(q, a)
  PROVE  SignInInv'
<1>1. account[a] \in Account
  BY DEF SignInInv, SignInTypeOK, ReadLogin, Exists
<1>2. account[a].count \in 0 .. MaxFailures - 1 /\ account[a].lock \in Locks
  BY <1>1 DEF Account
<1>3. account[a].count <= failures[a]
  BY DEF SignInInv, LockIsEarned, ReadLogin
<1> QED
  BY <1>2, <1>3, StartKeeps DEF ReadLogin

LEMMA StartOAuthKeeps ==
  ASSUME SignInInv, NEW q \in Attempts, StartOAuth(q)
  PROVE  SignInInv'
<1>1. 0 \in 0 .. MaxFailures - 1 /\ "null" \in Locks
  BY MaxFailuresAssumption DEF Locks
<1>2. CASE Start(q, "login", "redirected", Absent, 0, "null")
  BY <1>1, <1>2, StartKeeps DEF StartOAuth
<1>3. CASE \E a \in Accounts :
              Exists(a) /\ Start(q, "link", "redirected", a, 0, "null")
  BY <1>1, <1>3, StartKeeps DEF StartOAuth, Exists
<1> QED
  BY <1>2, <1>3 DEF StartOAuth

LEMMA CallbackKeeps ==
  ASSUME SignInInv, NEW q \in Attempts, NEW i \in Identities, Callback(q, i)
  PROVE  SignInInv'
<1>1. /\ attempt[q] \in Attempt /\ AttemptFits(attempt[q]) /\ attempt[q] # Free
      /\ attempt[q].pc = "redirected"
      /\ attempt' = [attempt EXCEPT ![q].pc = "find", ![q].id = i]
      /\ UNCHANGED <<profile, documents, issued, unlinked, failures>>
  BY AttemptFacts DEF Callback, At
<1>2. PICK r \in Attempt :
      /\ attempt' = [attempt EXCEPT ![q] = r] /\ r # Free
      /\ r.pc = "find" /\ r.id = i /\ r.kind = attempt[q].kind
      /\ r.acct = attempt[q].acct /\ r.found = attempt[q].found
  <2> DEFINE s == [attempt[q] EXCEPT !.pc = "find", !.id = i]
  <2>1. attempt' = [attempt EXCEPT ![q] = s] /\ s \in Attempt
    BY <1>1 DEF Attempt
  <2> QED
    BY <1>1, <2>1, Shapes DEF Attempt
<1>3. /\ asked \subseteq Identities \X Accounts
      /\ issued \subseteq (Identities \cup {Absent}) \X Accounts
  BY DEF SignInInv, SignInTypeOK
<1>4. r.kind = "link" => r.acct \in Accounts /\ account[r.acct] # Unused
  BY <1>1, <1>2 DEF AttemptFits
<1>5. /\ asked \subseteq asked' /\ asked' \subseteq Identities \X Accounts
      /\ r.kind = "link" => <<i, r.acct>> \in asked'
  BY <1>2, <1>3, <1>4 DEF Callback
<1>6. ~attempt[q].found
  BY <1>1 DEF AttemptFits
<1>7. \A a \in Accounts : ~Stranding(q, a)
  BY <1>1, <1>6 DEF Stranding
<1>8. AttemptFits(r)'
  BY <1>1, <1>2, <1>4, <1>5, <1>6 DEF AttemptFits, documents
<1> QED
  BY <1>1, <1>2, <1>3, <1>5, <1>7, <1>8, AttemptMoves

LEMMA FindIdentityKeeps ==
  ASSUME SignInInv, NEW q \in Attempts, FindIdentity(q)
  PROVE  SignInInv'
<1>1. /\ attempt[q] \in Attempt /\ AttemptFits(attempt[q]) /\ attempt[q] # Free
      /\ attempt[q].pc = "find" /\ attempt[q].kind = "login"
      /\ attempt[q].id \in Identities /\ ~attempt[q].found
  BY AttemptFacts DEF FindIdentity, At, AttemptFits
<1>2. CASE link[attempt[q].id] # Absent
  <2> DEFINE a == link[attempt[q].id]
             r == [attempt[q] EXCEPT !.pc = "user", !.found = TRUE, !.acct = a]
  <2>1. a \in Accounts /\ Entitled(attempt[q].id, a)
    BY <1>1, <1>2 DEF SignInInv, SignInTypeOK
  <2>2. /\ r \in Attempt
        /\ r.pc = "user" /\ r.id = attempt[q].id /\ r.kind = "login"
        /\ r.acct = a
    BY <1>1, <2>1 DEF Attempt
  <2>3. attempt' = [attempt EXCEPT ![q] = r]
    BY <1>2 DEF FindIdentity
  <2>4. \A b \in Accounts : ~Stranding(q, b)
    BY <1>1 DEF Stranding
  <2> HIDE DEF a, r
  <2>5. AttemptFits(r)
    BY <1>1, <2>1, <2>2 DEF AttemptFits
  <2> QED
    BY <2>2, <2>3, <2>4, <2>5, OnlyAttemptMoves DEF FindIdentity
<1>3. CASE link[attempt[q].id] = Absent
  <2>1. /\ [attempt[q] EXCEPT !.pc = "email"] \in Attempt
        /\ AttemptFits([attempt[q] EXCEPT !.pc = "email"])
    BY <1>1, Goes DEF AttemptFits
  <2> QED
    BY <1>1, <1>3, <2>1, AttemptContinues DEF FindIdentity, Continue
<1> QED
  BY <1>2, <1>3

LEMMA FindUserKeeps ==
  ASSUME SignInInv, NEW q \in Attempts, FindUser(q)
  PROVE  SignInInv'
<1>1. /\ attempt[q] \in Attempt /\ AttemptFits(attempt[q]) /\ attempt[q] # Free
      /\ attempt[q].pc = "user"
  BY AttemptFacts DEF FindUser, At
<1>2. attempt[q].kind = "login"
  BY <1>1 DEF AttemptFits, Attempt
<1>3. /\ attempt[q].acct \in Accounts /\ attempt[q].id \in Identities
      /\ Entitled(attempt[q].id, attempt[q].acct)
  BY <1>1, <1>2 DEF AttemptFits
<1>4. CASE Exists(attempt[q].acct)
  <2>1. /\ [attempt[q] EXCEPT !.pc = "tokens"] \in Attempt
        /\ AttemptFits([attempt[q] EXCEPT !.pc = "tokens"])
    BY <1>1, <1>2, <1>3, Goes DEF AttemptFits
  <2> QED
    BY <1>1, <1>4, <2>1, AttemptContinues DEF FindUser
<1>5. CASE ~Exists(attempt[q].acct)
  <2>1. account[attempt[q].acct] = Deleted
    BY <1>3, <1>5 DEF Exists, Entitled
  <2>2. /\ [attempt[q] EXCEPT !.pc = "create"] \in Attempt
        /\ AttemptFits([attempt[q] EXCEPT !.pc = "create"])
    BY <1>1, <1>2, <1>3, <2>1, Goes DEF AttemptFits
  <2> QED
    BY <1>1, <1>5, <2>2, AttemptContinues DEF FindUser
<1> QED
  BY <1>4, <1>5

LEMMA FindEmailKeeps ==
  ASSUME SignInInv, NEW q \in Attempts, FindEmail(q)
  PROVE  SignInInv'
<1> DEFINE i == attempt[q].id
           same == WithEmail(profile[i].email)
<1>1. /\ attempt[q] \in Attempt /\ AttemptFits(attempt[q]) /\ attempt[q] # Free
      /\ attempt[q].pc = "email"
      /\ UNCHANGED <<profile, documents, signInHistory>>
  BY AttemptFacts DEF FindEmail, At
<1>2. attempt[q].kind = "login" /\ i \in Identities /\ ~attempt[q].found
  BY <1>1 DEF AttemptFits, Attempt
<1>3. CASE Continue(q, "create")
  <2>1. /\ [attempt[q] EXCEPT !.pc = "create"] \in Attempt
        /\ AttemptFits([attempt[q] EXCEPT !.pc = "create"])
    BY <1>1, <1>2, Goes DEF AttemptFits
  <2> QED
    BY <1>1, <1>3, <2>1, AttemptContinues
<1>4. CASE End(q)
  BY <1>1, <1>4, AttemptEnds
<1>5. ASSUME MayLink(i), same # {},
             attempt' = [attempt EXCEPT ![q].pc = "link",
                                        ![q].acct = CHOOSE a \in same : TRUE]
      PROVE  SignInInv'
  <2>1. PICK a \in same : a = CHOOSE b \in same : TRUE
    BY <1>5
  <2> DEFINE r == [attempt[q] EXCEPT !.pc = "link", !.acct = a]
  <2>2. a \in Accounts /\ Exists(a) /\ account[a].email = profile[i].email
    BY <2>1 DEF WithEmail
  <2>3. Entitled(i, a)
    BY <1>5, <2>2 DEF Entitled, Exists, SameEmail, MayLink
  <2>4. /\ r \in Attempt
        /\ r.pc = "link" /\ r.id = i /\ r.kind = "login" /\ r.acct = a
        /\ r.found = attempt[q].found
    BY <1>1, <1>2, <2>2 DEF Attempt
  <2>5. attempt' = [attempt EXCEPT ![q] = r]
    BY <1>5, <2>1
  <2>6. \A b \in Accounts : ~Stranding(q, b)
    BY <1>1, <1>2 DEF Stranding
  <2> HIDE DEF r, same, i
  <2>7. AttemptFits(r)
    BY <1>2, <2>2, <2>3, <2>4 DEF AttemptFits
  <2> QED
    BY <1>1, <2>4, <2>5, <2>6, <2>7, OnlyAttemptMoves
<1> QED
  BY <1>3, <1>4, <1>5 DEF FindEmail

LEMMA FindLinkKeeps ==
  ASSUME SignInInv, NEW q \in Attempts, FindConflict(q) \/ FindOwn(q)
  PROVE  SignInInv'
<1>1. /\ attempt[q] \in Attempt /\ AttemptFits(attempt[q]) /\ attempt[q] # Free
      /\ attempt[q].pc \in {"find", "own"} /\ attempt[q].kind = "link"
      /\ UNCHANGED <<profile, documents, signInHistory>>
  BY AttemptFacts DEF FindConflict, FindOwn, At, AttemptFits
<1>2. ASSUME NEW pc \in {"own", "link"}, Continue(q, pc)
      PROVE  SignInInv'
  <2>1. /\ [attempt[q] EXCEPT !.pc = pc] \in Attempt
        /\ AttemptFits([attempt[q] EXCEPT !.pc = pc])
    BY <1>1, Goes DEF AttemptFits
  <2> QED
    BY <1>1, <1>2, <2>1, AttemptContinues
<1>3. CASE End(q)
  BY <1>1, <1>3, AttemptEnds
<1> QED
  BY <1>2, <1>3 DEF FindConflict, FindOwn

LEMMA CutKeeps ==
  ASSUME SignInInv, NEW q \in Attempts, Cut(q) \/ CreateRefused(q)
  PROVE  SignInInv'
<1>1. /\ attempt[q] \in Attempt /\ AttemptFits(attempt[q]) /\ attempt[q] # Free
      /\ UNCHANGED <<profile, documents, signInHistory>>
  BY AttemptFacts DEF Cut, CreateRefused, At
<1>2. CASE attempt[q].pc = "link" /\ Continue(q, "cut")
  <2>1. /\ [attempt[q] EXCEPT !.pc = "cut"] \in Attempt
        /\ AttemptFits([attempt[q] EXCEPT !.pc = "cut"])
    BY <1>1, <1>2, Goes DEF AttemptFits
  <2> QED
    BY <1>1, <1>2, <2>1, AttemptContinues
<1>3. CASE attempt[q].pc \notin {"link", "cut"} /\ End(q)
  BY <1>1, <1>3, AttemptEnds
<1> QED
  BY <1>2, <1>3 DEF Cut, CreateRefused, At

\* Tokens go to nobody in particular, or to whom the attempt has entitled.

LEMMA IssueLoginKeeps ==
  ASSUME SignInInv, NEW q \in Attempts, IssueLogin(q)
  PROVE  SignInInv'
<1>1. /\ attempt[q] \in Attempt /\ AttemptFits(attempt[q]) /\ attempt[q] # Free
      /\ attempt[q].pc = "tokens" /\ attempt[q].kind = "password"
      /\ attempt' = [attempt EXCEPT ![q] = Free]
      /\ issued' = issued \cup {<<attempt[q].id, attempt[q].acct>>}
      /\ UNCHANGED <<profile, documents, asked, unlinked, failures>>
  BY AttemptFacts DEF IssueLogin, Issue, At, End
<1>2. attempt[q].id = Absent /\ attempt[q].acct \in Accounts
      /\ ~attempt[q].found
  BY <1>1 DEF AttemptFits
<1>3. /\ asked \subseteq Identities \X Accounts
      /\ issued \subseteq (Identities \cup {Absent}) \X Accounts
  BY DEF SignInInv, SignInTypeOK
<1>4. \A i \in Identities, a \in Accounts :
         <<i, a>> \in issued' => <<i, a>> \in issued
  BY <1>1, <1>2, IdsAssumption DEF Absent
<1>5. AttemptFits(Free)'
  BY DEF AttemptFits, Free
<1>6. \A a \in Accounts : ~Stranding(q, a)
  BY <1>1, <1>2 DEF Stranding
<1>7. /\ issued' \subseteq (Identities \cup {Absent}) \X Accounts
      /\ asked \subseteq asked' /\ asked' \subseteq Identities \X Accounts
  BY <1>1, <1>2, <1>3
<1> QED
  BY <1>1, <1>4, <1>5, <1>6, <1>7, AttemptMoves

LEMMA IssueOAuthKeeps ==
  ASSUME SignInInv, NEW q \in Attempts, IssueOAuth(q)
  PROVE  SignInInv'
<1>1. /\ attempt[q] \in Attempt /\ AttemptFits(attempt[q]) /\ attempt[q] # Free
      /\ attempt[q].pc = "tokens" /\ attempt[q].kind = "login"
      /\ attempt' = [attempt EXCEPT ![q].pc = "done"]
      /\ issued' = issued \cup {<<attempt[q].id, attempt[q].acct>>}
      /\ UNCHANGED <<profile, documents, asked, unlinked, failures>>
  BY AttemptFacts DEF IssueOAuth, Issue, At, Continue
<1>2. PICK i \in Identities, a \in Accounts :
         i = attempt[q].id /\ a = attempt[q].acct /\ Entitled(i, a)
  BY <1>1 DEF AttemptFits
<1>3. PICK r \in Attempt :
         /\ attempt' = [attempt EXCEPT ![q] = r]
         /\ r.pc = "done" /\ r.kind = "login"
         /\ r.id = i /\ r.acct = a /\ r.found = attempt[q].found
  <2> DEFINE s == [attempt[q] EXCEPT !.pc = "done"]
  <2>1. /\ attempt' = [attempt EXCEPT ![q] = s]
        /\ s \in Attempt /\ s.pc = "done" /\ s.kind = "login"
        /\ s.id = i /\ s.acct = a /\ s.found = attempt[q].found
    BY <1>1, <1>2, Goes
  <2> HIDE DEF s
  <2> QED
    BY <2>1
<1>4. /\ asked \subseteq Identities \X Accounts
      /\ issued \subseteq (Identities \cup {Absent}) \X Accounts
  BY DEF SignInInv, SignInTypeOK
<1>5. Entitled(i, a)'
  BY <1>1, <1>2 DEF Entitled, Origin, SameEmail, Exists, documents
<1>6. \A j \in Identities, b \in Accounts :
         <<j, b>> \in issued' => <<j, b>> \in issued \/ Entitled(j, b)'
  BY <1>1, <1>2, <1>5
<1>7. AttemptFits(r)'
  BY <1>3 DEF AttemptFits
<1>8. \A b \in Accounts : Stranding(q, b) => r.found
  BY <1>1, <1>3 DEF Stranding
<1>9. /\ issued' \subseteq (Identities \cup {Absent}) \X Accounts
      /\ asked \subseteq asked' /\ asked' \subseteq Identities \X Accounts
  BY <1>1, <1>2, <1>4
<1>10. r # Free
  BY Shapes
<1> QED
  BY <1>1, <1>2, <1>3, <1>6, <1>7, <1>8, <1>9, <1>10, AttemptMoves

-----------------------------------------------------------------------------
(* The steps that write an account *)

\* What a write to one account must do to keep the invariant.
LEMMA AccountMoves ==
  ASSUME SignInInv, NEW a \in Accounts,
         NEW d \in Account \cup {Unused, Deleted},
         account' = [account EXCEPT ![a] = d],
         UNCHANGED <<profile, link, issued, asked, unlinked>>,
         attempt' \in [Attempts -> Attempt \cup {Free}],
         failures' \in [Accounts -> 0 .. MaxFailures],
         \A b \in Accounts : failures[b] <= failures'[b],
         account[a] # Unused => d # Unused,
         account[a] = Deleted => d = Deleted,
         Exists(a) /\ d \in Account =>
             d.email = account[a].email /\ d.origin = account[a].origin,
         d \in Account =>
             /\ d.count <= failures'[a]
             /\ d.lock # "null" => failures'[a] = MaxFailures,
         \A q \in Attempts :
             \/ attempt'[q] = attempt[q]
             \/ /\ AttemptFits(attempt[q])'
                /\ \A b \in Accounts : Exists(b) => ~Stranding(q, b),
         account[a] = Unused /\ d \in Account /\ d.origin # "password" =>
             \E q \in Attempts : Stranding(q, a)'
  PROVE  SignInInv'
<1>1. SignInTypeOK /\ LockIsEarned /\ StrandedOnlyByCut
  BY DEF SignInInv
<1>2. SignInTypeOK'
  BY <1>1 DEF SignInTypeOK
<1>3. /\ account'[a] = d
      /\ \A b \in Accounts \ {a} : account'[b] = account[b]
      /\ d \in Account <=> d \notin {Unused, Deleted}
  BY <1>1, Shapes DEF SignInTypeOK
<1>4. Ages
  BY <1>3 DEF Ages, Exists
<1>5. LockIsEarned'
  <2> SUFFICES ASSUME NEW b \in Accounts, Exists(b)'
               PROVE  /\ account'[b].count <= failures'[b]
                      /\ account'[b].lock # "null" => failures'[b] = MaxFailures
    BY DEF LockIsEarned
  <2>1. CASE b = a
    BY <2>1, <1>3 DEF Exists
  <2>2. CASE b # a
    <3>1. account'[b] = account[b] /\ Exists(b) /\ account[b] \in Account
      BY <2>2, <1>1, <1>3 DEF Exists, SignInTypeOK
    <3>2. /\ account[b].count \in Nat
          /\ failures[b] \in Nat /\ failures[b] <= MaxFailures
          /\ failures'[b] \in Nat /\ failures'[b] <= MaxFailures
          /\ failures[b] <= failures'[b]
      BY <3>1, <1>1, MaxFailuresAssumption DEF SignInTypeOK, Account
    <3>3. /\ account[b].count <= failures[b]
          /\ account[b].lock # "null" => failures[b] = MaxFailures
      BY <3>1, <1>1 DEF LockIsEarned
    <3> QED
      BY <3>1, <3>2, <3>3, MaxFailuresAssumption
  <2> QED
    BY <2>1, <2>2
<1>6. StrandedOnlyByCut'
  <2> SUFFICES ASSUME NEW b \in Accounts, Exists(b)',
                      account'[b].origin # "password",
                      link[account'[b].origin] # b, b \notin unlinked
               PROVE  \E q \in Attempts : Stranding(q, b)'
    BY DEF StrandedOnlyByCut, Exists
  <2>1. CASE Exists(b)
    <3>1. account'[b].origin = account[b].origin
      BY <2>1, <1>3 DEF Exists
    <3>2. PICK q \in Attempts : Stranding(q, b)
      BY <2>1, <3>1, <1>1 DEF StrandedOnlyByCut
    <3>3. attempt'[q] = attempt[q]
      BY <2>1, <3>2
    <3> QED
      BY <3>1, <3>2, <3>3 DEF Stranding
  <2>2. CASE ~Exists(b)
    BY <2>2, <1>3 DEF Exists
  <2> QED
    BY <2>1, <2>2
<1> QED
  BY <1>2, <1>4, <1>5, <1>6, StepKeeps

\* The failures of an account whose attempts fail or do not.
LEMMA FailedFacts ==
  ASSUME SignInInv, NEW a \in Accounts
  PROVE  /\ \A b \in Accounts : failures[b] \in 0 .. MaxFailures
         /\ Failed(a) =>
              /\ failures' \in [Accounts -> 0 .. MaxFailures]
              /\ \A b \in Accounts : failures[b] <= failures'[b]
              /\ \A n \in 0 .. MaxFailures - 1 :
                    n <= failures[a] => n + 1 <= failures'[a]
         /\ UNCHANGED failures =>
              /\ failures' \in [Accounts -> 0 .. MaxFailures]
              /\ \A b \in Accounts : failures[b] <= failures'[b]
<1>1. /\ failures \in [Accounts -> 0 .. MaxFailures]
      /\ \A b \in Accounts : failures[b] \in Nat /\ failures[b] <= MaxFailures
  BY MaxFailuresAssumption DEF SignInInv, SignInTypeOK
<1>2. ASSUME Failed(a)
      PROVE  /\ failures' \in [Accounts -> 0 .. MaxFailures]
             /\ \A b \in Accounts : failures[b] <= failures'[b]
             /\ \A n \in 0 .. MaxFailures - 1 :
                   n <= failures[a] => n + 1 <= failures'[a]
  <2>1. failures' = [failures EXCEPT
                       ![a] = IF failures[a] < MaxFailures
                              THEN failures[a] + 1 ELSE failures[a]]
    BY <1>2 DEF Failed
  <2>2. failures'[a] = IF failures[a] < MaxFailures THEN failures[a] + 1
                                                    ELSE failures[a]
    BY <2>1, <1>1
  <2>3. \A b \in Accounts \ {a} : failures'[b] = failures[b]
    BY <2>1, <1>1
  <2> QED
    BY <2>1, <2>2, <2>3, <1>1, MaxFailuresAssumption
<1> QED
  BY <1>1, <1>2

\* The writes of login: the count that was read is behind the failures.
LEMMA WrongPasswordKeeps ==
  ASSUME SignInInv, NEW q \in Attempts, WrongPassword(q)
  PROVE  SignInInv'
<1> DEFINE a == attempt[q].acct
           n == attempt[q].count
<1>1. /\ attempt[q] \in Attempt /\ AttemptFits(attempt[q]) /\ attempt[q] # Free
      /\ attempt[q].pc = "verify" /\ Exists(a) /\ Failed(a)
      /\ UNCHANGED <<profile, link, issued, asked, unlinked>>
  BY AttemptFacts DEF WrongPassword, At
<1>2. /\ attempt[q].kind = "password" /\ a \in Accounts
      /\ n <= failures[a] /\ ~attempt[q].found
  BY <1>1 DEF AttemptFits
<1>3. attempt' = [attempt EXCEPT ![q] = Free]
  BY <1>2 DEF WrongPassword, End
<1>4. /\ account[a] \in Account
      /\ account[a].lock # "null" => failures[a] = MaxFailures
      /\ account \in [Accounts -> Account \cup {Unused, Deleted}]
      /\ attempt \in [Attempts -> Attempt \cup {Free}]
  BY <1>1, <1>2 DEF SignInInv, SignInTypeOK, LockIsEarned, Exists
<1>5. /\ n \in 0 .. MaxFailures - 1
      /\ failures[a] \in 0 .. MaxFailures /\ failures'[a] \in 0 .. MaxFailures
      /\ failures[a] <= failures'[a] /\ n + 1 <= failures'[a]
      /\ failures' \in [Accounts -> 0 .. MaxFailures]
      /\ \A b \in Accounts : failures[b] <= failures'[b]
  BY <1>1, <1>2, FailedFacts DEF Attempt
<1> DEFINE full == n + 1 >= MaxFailures
           e == [account[a] EXCEPT !.count = IF full THEN 0 ELSE n + 1,
                                   !.lock = IF full THEN "set" ELSE @]
<1>6. PICK d \in Account :
         /\ account' = [account EXCEPT ![a] = d]
         /\ d.email = account[a].email /\ d.origin = account[a].origin
         /\ d.count = IF full THEN 0 ELSE n + 1
         /\ d.lock = IF full THEN "set" ELSE account[a].lock
  <2>1. account' = [account EXCEPT ![a] = e]
    BY DEF WrongPassword
  <2>2. (IF full THEN 0 ELSE n + 1) \in 0 .. MaxFailures - 1
    BY <1>5, MaxFailuresAssumption
  <2>3. (IF full THEN "set" ELSE account[a].lock) \in Locks
    BY <1>4 DEF Account, Locks
  <2> HIDE DEF full, n, a
  <2>4. /\ e \in Account
        /\ e.email = account[a].email /\ e.origin = account[a].origin
        /\ e.count = IF full THEN 0 ELSE n + 1
        /\ e.lock = IF full THEN "set" ELSE account[a].lock
    BY <1>4, <2>2, <2>3 DEF Account
  <2> HIDE DEF e
  <2> QED
    BY <2>1, <2>4
<1> HIDE DEF e
<1>7. d.count <= failures'[a]
  BY <1>5, <1>6, MaxFailuresAssumption
<1>8. d.lock # "null" => failures'[a] = MaxFailures
  BY <1>4, <1>5, <1>6, MaxFailuresAssumption
<1>9. \A b \in Accounts : ~Stranding(q, b)
  BY <1>1, <1>2 DEF Stranding
<1>10. AttemptFits(Free)'
  BY DEF AttemptFits, Free
<1>11. \A p \in Attempts :
         \/ attempt'[p] = attempt[p]
         \/ /\ AttemptFits(attempt[p])'
            /\ \A b \in Accounts : Exists(b) => ~Stranding(p, b)
  <2>1. AttemptFits(attempt[q])'
    BY <1>3, <1>4, <1>10 DEF AttemptFits
  <2> QED
    BY <2>1, <1>3, <1>4, <1>9
<1>12. attempt' \in [Attempts -> Attempt \cup {Free}]
  BY <1>3, <1>4
<1>13. account[a] \notin {Unused, Deleted} /\ d \notin {Unused, Deleted}
  BY <1>4, Shapes
<1> HIDE DEF full, n, a
<1> QED
  BY <1>1, <1>2, <1>5, <1>6, <1>7, <1>8, <1>11, <1>12, <1>13, AccountMoves

LEMMA RightPasswordKeeps ==
  ASSUME SignInInv, NEW q \in Attempts, RightPassword(q)
  PROVE  SignInInv'
<1> DEFINE a == attempt[q].acct
<1>1. /\ attempt[q] \in Attempt /\ AttemptFits(attempt[q]) /\ attempt[q] # Free
      /\ attempt[q].pc = "verify" /\ Exists(a)
      /\ UNCHANGED <<profile, link, issued, asked, unlinked, failures>>
  BY AttemptFacts DEF RightPassword, At, signInHistory
<1>2. /\ attempt[q].kind = "password" /\ a \in Accounts
      /\ ~attempt[q].found /\ attempt[q].id = Absent
  BY <1>1 DEF AttemptFits
<1>3. PICK r \in Attempt :
         /\ attempt' = [attempt EXCEPT ![q] = r]
         /\ r.pc = "tokens" /\ r.kind = "password"
         /\ r.id = Absent /\ r.acct = a /\ r.found = attempt[q].found
  <2> DEFINE s == [attempt[q] EXCEPT !.pc = "tokens"]
  <2>1. /\ attempt' = [attempt EXCEPT ![q] = s]
        /\ s \in Attempt /\ s.pc = "tokens" /\ s.kind = "password"
        /\ s.id = Absent /\ s.acct = a /\ s.found = attempt[q].found
    BY <1>1, <1>2, Goes DEF RightPassword, Continue
  <2> HIDE DEF s
  <2> QED
    BY <2>1
<1>4. /\ account[a] \in Account
      /\ account[a].count <= failures[a]
      /\ account[a].lock # "null" => failures[a] = MaxFailures
      /\ account \in [Accounts -> Account \cup {Unused, Deleted}]
      /\ attempt \in [Attempts -> Attempt \cup {Free}]
  BY <1>1, <1>2 DEF SignInInv, SignInTypeOK, LockIsEarned, Exists
<1>5. /\ failures[a] \in 0 .. MaxFailures
      /\ failures' \in [Accounts -> 0 .. MaxFailures]
      /\ \A b \in Accounts : failures[b] <= failures'[b]
      /\ failures'[a] = failures[a]
  BY <1>1, <1>2, FailedFacts
<1>6. PICK d \in Account :
         /\ account' = [account EXCEPT ![a] = d]
         /\ d.email = account[a].email /\ d.origin = account[a].origin
         /\ d.count \in {0, account[a].count}
         /\ d.lock \in {"null", account[a].lock}
  <2> DEFINE e == [account[a] EXCEPT
                     !.count = IF attempt[q].count # 0 THEN 0 ELSE @,
                     !.lock = IF attempt[q].lock # "null" THEN "null" ELSE @]
  <2>1. account' = [account EXCEPT ![a] = e]
    BY DEF RightPassword
  <2>2. 0 \in 0 .. MaxFailures - 1 /\ "null" \in Locks
    BY MaxFailuresAssumption DEF Locks
  <2>3. /\ e \in Account
        /\ e.email = account[a].email /\ e.origin = account[a].origin
        /\ e.count \in {0, account[a].count}
        /\ e.lock \in {"null", account[a].lock}
    BY <1>4, <2>2 DEF Account
  <2> HIDE DEF e
  <2> QED
    BY <2>1, <2>3
<1>7. d.count <= failures'[a]
      /\ (d.lock # "null" => failures'[a] = MaxFailures)
  BY <1>4, <1>5, <1>6
<1>8. \A b \in Accounts : ~Stranding(q, b)
  BY <1>1, <1>2 DEF Stranding
<1>9. AttemptFits(r)'
  BY <1>1, <1>2, <1>3 DEF AttemptFits
<1>10. \A p \in Attempts :
         \/ attempt'[p] = attempt[p]
         \/ /\ AttemptFits(attempt[p])'
            /\ \A b \in Accounts : Exists(b) => ~Stranding(p, b)
  <2>1. AttemptFits(attempt[q])'
    BY <1>3, <1>4, <1>9 DEF AttemptFits
  <2> QED
    BY <2>1, <1>3, <1>4, <1>8
<1>11. attempt' \in [Attempts -> Attempt \cup {Free}]
  BY <1>3, <1>4
<1>12. account[a] \notin {Unused, Deleted} /\ d \notin {Unused, Deleted}
  BY <1>4, Shapes
<1> HIDE DEF a
<1> QED
  BY <1>1, <1>2, <1>5, <1>6, <1>7, <1>10, <1>11, <1>12, AccountMoves

\* An account that comes, goes, or whose lock runs out.
LEMMA AccountStepKeeps ==
  ASSUME SignInInv, NEW a \in Accounts,
         (\E e \in Emails : Register(a, e)) \/ LockEnds(a) \/ Delete(a)
  PROVE  SignInInv'
<1>1. /\ account[a] \in Account \cup {Unused, Deleted}
      /\ attempt \in [Attempts -> Attempt \cup {Free}]
      /\ failures[a] \in 0 .. MaxFailures
  BY DEF SignInInv, SignInTypeOK
<1>2. /\ UNCHANGED <<profile, link, attempt, issued, asked, unlinked, failures>>
  BY DEF Register, LockEnds, Delete, signInHistory
<1>3. /\ failures' \in [Accounts -> 0 .. MaxFailures]
      /\ \A b \in Accounts : failures[b] <= failures'[b]
  BY <1>2, FailedFacts
<1>4. ASSUME NEW e \in Emails, Register(a, e)
      PROVE  SignInInv'
  <2> DEFINE d == NewAccount(e, "password")
  <2>1. account' = [account EXCEPT ![a] = d] /\ account[a] = Unused
    BY <1>4 DEF Register, Insert
  <2>2. d \in Account /\ d.origin = "password" /\ d.count = 0
        /\ d.lock = "null"
    BY MaxFailuresAssumption DEF NewAccount, Account, Locks
  <2>3. ~Exists(a) /\ d \notin {Unused, Deleted} /\ d.count <= failures[a]
    BY <1>1, <2>1, <2>2, Shapes, MaxFailuresAssumption DEF Exists
  <2> HIDE DEF d
  <2> QED
    BY <1>1, <1>2, <1>3, <2>1, <2>2, <2>3, Shapes, AccountMoves
<1>5. CASE LockEnds(a)
  <2> DEFINE d == [account[a] EXCEPT !.lock = "past"]
  <2>1. /\ account' = [account EXCEPT ![a] = d]
        /\ Exists(a) /\ account[a].lock = "set"
    BY <1>5 DEF LockEnds
  <2>2. account[a] \in Account
    BY <1>1, <2>1 DEF Exists
  <2>3. /\ account[a].count <= failures[a] /\ failures[a] = MaxFailures
    BY <2>1 DEF SignInInv, LockIsEarned
  <2>4. /\ d \in Account /\ d.count = account[a].count
        /\ d.email = account[a].email /\ d.origin = account[a].origin
    BY <2>2 DEF Account, Locks
  <2>5. d \notin {Unused, Deleted} /\ account[a] \notin {Unused, Deleted}
    BY <2>2, <2>4, Shapes
  <2> HIDE DEF d
  <2> QED
    BY <1>1, <1>2, <1>3, <2>1, <2>3, <2>4, <2>5, AccountMoves
<1>6. CASE Delete(a)
  <2>1. account' = [account EXCEPT ![a] = Deleted] /\ Exists(a)
    BY <1>6 DEF Delete
  <2> QED
    BY <1>1, <1>2, <1>3, <2>1, Shapes, AccountMoves DEF Exists
<1> QED
  BY <1>4, <1>5, <1>6

\* An account that an identity creates: its sign-in is about to link it, or
\* had found the link of another account.
LEMMA CreateUserKeeps ==
  ASSUME SignInInv, NEW q \in Attempts, CreateUser(q)
  PROVE  SignInInv'
<1>1. /\ attempt[q] \in Attempt /\ AttemptFits(attempt[q]) /\ attempt[q] # Free
      /\ attempt[q].pc = "create"
      /\ UNCHANGED <<profile, link, issued, asked, unlinked, failures>>
  BY AttemptFacts DEF CreateUser, At, signInHistory
<1>2. /\ attempt[q].kind = "login" /\ attempt[q].id \in Identities
      /\ attempt[q].found =>
           attempt[q].acct \in Accounts /\ account[attempt[q].acct] = Deleted
  BY <1>1 DEF AttemptFits, Attempt
<1>3. PICK i \in Identities, a \in Accounts :
         /\ i = attempt[q].id
         /\ Insert(a, profile[i].email, i)
         /\ attempt' = [attempt EXCEPT ![q].acct = a,
               ![q].pc = IF attempt[q].found THEN "tokens" ELSE "link"]
  BY <1>2 DEF CreateUser
<1>4. PICK r \in Attempt :
         /\ attempt' = [attempt EXCEPT ![q] = r]
         /\ r.pc = IF attempt[q].found THEN "tokens" ELSE "link"
         /\ r.kind = "login" /\ r.id = i /\ r.acct = a
         /\ r.found = attempt[q].found
  <2> DEFINE s == [attempt[q] EXCEPT !.acct = a,
                     !.pc = IF attempt[q].found THEN "tokens" ELSE "link"]
  <2>1. attempt' = [attempt EXCEPT ![q] = s]
    BY <1>3
  <2>2. /\ s \in Attempt
        /\ s.pc = IF attempt[q].found THEN "tokens" ELSE "link"
        /\ s.kind = "login" /\ s.id = i /\ s.acct = a
        /\ s.found = attempt[q].found
    BY <1>1, <1>2, <1>3 DEF Attempt
  <2> HIDE DEF s
  <2> QED
    BY <2>1, <2>2
<1>5. PICK d \in Account :
         /\ account' = [account EXCEPT ![a] = d] /\ account[a] = Unused
         /\ d.origin = i /\ d.count = 0 /\ d.lock = "null"
  <2> DEFINE e == NewAccount(profile[i].email, i)
  <2>1. account' = [account EXCEPT ![a] = e] /\ account[a] = Unused
    BY <1>3 DEF Insert
  <2>2. profile[i].email \in Emails \cup Identities
    <3>1. profile[i] \in Profile(i)
      BY DEF SignInInv, SignInTypeOK
    <3>2. \A f \in Profile(i) : f.email \in Emails \cup {i}
      <4>1. /\ \A f \in [email : Emails, verified : BOOLEAN] : f.email \in Emails
            /\ \A f \in [email : Emails, verified : {TRUE}] : f.email \in Emails
        OBVIOUS
      <4>2. NoEmail(i).email = i
        BY DEF NoEmail
      <4> QED
        BY <4>1, <4>2 DEF Profile, GoogleProfile, FacebookProfile
    <3> QED
      BY <3>1, <3>2
  <2>3. e \in Account /\ e.origin = i /\ e.count = 0 /\ e.lock = "null"
    BY <2>2, MaxFailuresAssumption DEF NewAccount, Account, Locks
  <2> HIDE DEF e
  <2> QED
    BY <2>1, <2>3
<1>6. /\ account \in [Accounts -> Account \cup {Unused, Deleted}]
      /\ attempt \in [Attempts -> Attempt \cup {Free}]
      /\ failures[a] \in 0 .. MaxFailures
  BY DEF SignInInv, SignInTypeOK
<1>7. /\ failures' \in [Accounts -> 0 .. MaxFailures]
      /\ \A b \in Accounts : failures[b] <= failures'[b]
      /\ d.count <= failures'[a]
  BY <1>1, <1>5, <1>6, FailedFacts, MaxFailuresAssumption
<1>8. /\ account'[a] = d /\ attempt'[q] = r
      /\ \A p \in Attempts \ {q} : attempt'[p] = attempt[p]
      /\ attempt' \in [Attempts -> Attempt \cup {Free}]
  BY <1>4, <1>5, <1>6
<1>9. ~Exists(a) /\ d \notin {Unused, Deleted} /\ r # Free
  BY <1>5, Shapes DEF Exists
<1>10. Entitled(i, a)'
  BY <1>5, <1>8, <1>9 DEF Entitled, Origin
<1>11. AttemptFits(r)'
  <2>1. r.found = attempt[q].found /\ attempt[q].found \in BOOLEAN
    BY <1>1, <1>4 DEF Attempt
  <2>2. CASE attempt[q].found
    BY <2>1, <2>2, <1>4, <1>10 DEF AttemptFits
  <2>3. CASE ~attempt[q].found
    BY <2>1, <2>3, <1>4, <1>10 DEF AttemptFits
  <2> QED
    BY <2>1, <2>2, <2>3
<1>12. \A b \in Accounts : Exists(b) => ~Stranding(q, b)
  BY <1>1, <1>2 DEF Stranding, Exists
<1>13. Stranding(q, a)'
  <2>1. attempt'[q].acct = a /\ attempt'[q].id = account'[a].origin
        /\ attempt'[q] # Free
    BY <1>4, <1>5, <1>8, <1>9
  <2>2. attempt'[q].pc \in {"link", "cut"} \/ attempt'[q].found
    BY <1>4, <1>8
  <2> QED
    BY <2>1, <2>2 DEF Stranding
<1>14. \A p \in Attempts :
         \/ attempt'[p] = attempt[p]
         \/ /\ AttemptFits(attempt[p])'
            /\ \A b \in Accounts : Exists(b) => ~Stranding(p, b)
  <2>1. AttemptFits(attempt[q])'
    BY <1>8, <1>11 DEF AttemptFits
  <2> QED
    BY <2>1, <1>8, <1>12
<1> QED
  BY <1>1, <1>5, <1>7, <1>8, <1>9, <1>13, <1>14, Shapes, AccountMoves

-----------------------------------------------------------------------------
(* The steps that write a link *)

LEMMA LinkKeeps ==
  ASSUME SignInInv, NEW q \in Attempts, Link(q)
  PROVE  SignInInv'
<1>1. /\ attempt[q] \in Attempt /\ AttemptFits(attempt[q]) /\ attempt[q] # Free
      /\ attempt[q].pc = "link"
      /\ UNCHANGED <<profile, account, issued, asked, unlinked, failures>>
  BY AttemptFacts DEF Link, At, signInHistory
<1>2. attempt[q].kind \in {"login", "link"} /\ ~attempt[q].found
  BY <1>1 DEF AttemptFits, Attempt
<1>3. PICK i \in Identities, a \in Accounts :
         i = attempt[q].id /\ a = attempt[q].acct /\ Entitled(i, a)
  <2>1. attempt[q].id \in Identities /\ attempt[q].acct \in Accounts
    BY <1>1, <1>2 DEF AttemptFits
  <2>2. attempt[q].id # Absent
    BY <2>1, IdsAssumption DEF Absent
  <2>3. Entitled(attempt[q].id, attempt[q].acct)
    BY <1>1, <1>2, <2>2 DEF AttemptFits, Entitled
  <2> QED
    BY <2>1, <2>3
<1>4. CASE Continue(q, "cut") /\ UNCHANGED link
  <2>1. /\ [attempt[q] EXCEPT !.pc = "cut"] \in Attempt
        /\ AttemptFits([attempt[q] EXCEPT !.pc = "cut"])
    BY <1>1, <1>2, Goes DEF AttemptFits
  <2>2. UNCHANGED <<profile, documents, signInHistory>>
    BY <1>1, <1>4 DEF documents, signInHistory
  <2> QED
    BY <1>1, <1>4, <2>1, <2>2, AttemptContinues
<1>5. ASSUME NEW pc, pc = IF attempt[q].kind = "login" THEN "tokens" ELSE "done",
             link[i] = Absent, link' = [link EXCEPT ![i] = a],
             Continue(q, pc)
      PROVE  SignInInv'
  <2>1. SignInTypeOK /\ LockIsEarned /\ StrandedOnlyByCut
    BY DEF SignInInv
  <2>2. PICK r \in Attempt :
           /\ attempt' = [attempt EXCEPT ![q] = r]
           /\ r.pc = pc /\ r.kind = attempt[q].kind
           /\ r.id = i /\ r.acct = a /\ r.found = attempt[q].found
    <3> DEFINE s == [attempt[q] EXCEPT !.pc = pc]
    <3>1. /\ attempt' = [attempt EXCEPT ![q] = s]
          /\ s \in Attempt /\ s.pc = pc /\ s.kind = attempt[q].kind
          /\ s.id = i /\ s.acct = a /\ s.found = attempt[q].found
      BY <1>1, <1>3, <1>5, Goes DEF Continue
    <3> HIDE DEF s
    <3> QED
      BY <3>1
  <2>3. /\ attempt'[q] = r
        /\ \A p \in Attempts \ {q} : attempt'[p] = attempt[p]
        /\ link'[i] = a
        /\ \A j \in Identities \ {i} : link'[j] = link[j]
    BY <2>1, <2>2, <1>5 DEF SignInTypeOK
  <2>4. SignInTypeOK'
    BY <2>1, <2>2, <1>1, <1>5 DEF SignInTypeOK
  <2>5. Ages
    <3>1. \A b \in Accounts : failures[b] \in Nat
      BY <2>1, MaxFailuresAssumption DEF SignInTypeOK
    <3> QED
      BY <3>1, <1>1 DEF Ages
  <2>6. LockIsEarned'
    BY <2>1, <1>1 DEF LockIsEarned, Exists
  <2>7. Entitled(i, a)'
    BY <2>5, <1>3, EntitledStays
  <2>8. AttemptFits(r)'
    <3>1. r.kind = "link" => /\ a \in Accounts /\ account'[a] # Unused
                             /\ <<i, a>> \in asked'
      <4>1. attempt[q].kind = "link" => <<i, a>> \in asked
        BY <1>1, <1>3, IdsAssumption DEF AttemptFits, Absent
      <4> QED
        BY <4>1, <2>2, <2>7, <1>1 DEF Entitled
    <3> QED
      BY <3>1, <2>2, <2>7, <1>2, <1>5 DEF AttemptFits
  <2>9. StrandedOnlyByCut'
    <3> SUFFICES ASSUME NEW b \in Accounts, Exists(b),
                        account[b].origin # "password",
                        link'[account[b].origin] # b, b \notin unlinked
                 PROVE  \E p \in Attempts : Stranding(p, b)'
      BY <1>1 DEF StrandedOnlyByCut, Exists
    <3>1. account[b].origin \in Identities
      BY <2>1 DEF SignInTypeOK, Account, Exists
    <3>2. link[account[b].origin] # b
      BY <3>1, <2>3, <1>5, IdsAssumption DEF Absent
    <3>3. PICK p \in Attempts : Stranding(p, b)
      BY <3>2, <2>1 DEF StrandedOnlyByCut
    <3>4. p # q
      BY <3>3, <2>3, <1>3 DEF Stranding
    <3> QED
      BY <3>3, <3>4, <2>3, <1>1 DEF Stranding
  <2>10. \A p \in Attempts :
            attempt'[p] = attempt[p] \/ AttemptFits(attempt[p])'
    BY <2>3, <2>8 DEF AttemptFits
  <2>11. \A j \in Identities : link'[j] = link[j] \/ Entitled(j, link[j])'
    BY <2>3, <2>7 DEF Entitled
  <2> QED
    BY <2>4, <2>5, <2>6, <2>9, <2>10, <2>11, <1>1, StepKeeps
<1> QED
  BY <1>3, <1>4, <1>5 DEF Link

LEMMA UnlinkKeeps ==
  ASSUME SignInInv, NEW a \in Accounts, Unlink(a)
  PROVE  SignInInv'
<1>1. SignInTypeOK /\ LockIsEarned /\ StrandedOnlyByCut
  BY DEF SignInInv
<1>2. PICK i \in Identities :
        /\ link[i] = a
        /\ link' = [link EXCEPT ![i] = Absent]
        /\ unlinked' = unlinked \cup {a}
        /\ UNCHANGED <<profile, account, attempt, issued, asked, failures>>
  BY DEF Unlink
<1>3. SignInTypeOK'
  BY <1>1, <1>2 DEF SignInTypeOK
<1>4. Ages
  <2>1. \A b \in Accounts : failures[b] \in Nat
    BY <1>1, MaxFailuresAssumption DEF SignInTypeOK
  <2> QED
    BY <2>1, <1>2 DEF Ages
<1>5. LockIsEarned'
  BY <1>1, <1>2 DEF LockIsEarned, Exists
<1>6. /\ link'[i] = Absent
      /\ \A j \in Identities \ {i} : link'[j] = link[j]
  BY <1>1, <1>2 DEF SignInTypeOK
<1>7. StrandedOnlyByCut'
  <2> SUFFICES ASSUME NEW b \in Accounts, Exists(b),
                      account[b].origin # "password",
                      link'[account[b].origin] # b, b \notin unlinked'
               PROVE  \E p \in Attempts : Stranding(p, b)'
    BY <1>2 DEF StrandedOnlyByCut, Exists
  <2>1. account[b].origin \in Identities
    BY <1>1 DEF SignInTypeOK, Account, Exists
  <2>2. link[account[b].origin] # b /\ b \notin unlinked
    BY <2>1, <1>2, <1>6
  <2>3. PICK p \in Attempts : Stranding(p, b)
    BY <2>2, <1>1 DEF StrandedOnlyByCut
  <2> QED
    BY <2>3, <1>2 DEF Stranding
<1> QED
  BY <1>2, <1>3, <1>4, <1>5, <1>6, <1>7, StepKeeps

-----------------------------------------------------------------------------
(* SignIn: the theorems *)

LEMMA SignInInitially == SignInInit => SignInInv
<1> SUFFICES ASSUME SignInInit PROVE SignInInv
  OBVIOUS
<1> USE DEF SignInInit
<1>1. SignInTypeOK
  BY MaxFailuresAssumption DEF SignInTypeOK
<1>2. \A a \in Accounts : ~Exists(a)
  BY DEF Exists
<1>3. LockIsEarned /\ StrandedOnlyByCut
  BY <1>2 DEF LockIsEarned, StrandedOnlyByCut
<1>4. \A q \in Attempts : AttemptFits(attempt[q])
  BY DEF AttemptFits
<1> QED
  BY <1>1, <1>3, <1>4 DEF SignInInv

LEMMA SignInInduction == SignInInv /\ [SignInNext]_signInVars => SignInInv'
<1> SUFFICES ASSUME SignInInv, [SignInNext]_signInVars
             PROVE  SignInInv'
  OBVIOUS
<1>1. ASSUME NEW a \in Accounts,
             \/ \E e \in Emails : Register(a, e)
             \/ LockEnds(a) \/ Unlink(a) \/ Delete(a)
      PROVE  SignInInv'
  BY <1>1, AccountStepKeeps, UnlinkKeeps
<1>2. ASSUME NEW q \in Attempts, NEW a \in Accounts, ReadLogin(q, a)
      PROVE  SignInInv'
  BY <1>2, ReadLoginKeeps
<1>3. ASSUME NEW q \in Attempts, WrongPassword(q) \/ RightPassword(q)
      PROVE  SignInInv'
  BY <1>3, WrongPasswordKeeps, RightPasswordKeeps
<1>4. ASSUME NEW q \in Attempts, StartOAuth(q)
      PROVE  SignInInv'
  BY <1>4, StartOAuthKeeps
<1>5. ASSUME NEW q \in Attempts, NEW i \in Identities, Callback(q, i)
      PROVE  SignInInv'
  BY <1>5, CallbackKeeps
<1>6. ASSUME NEW q \in Attempts,
             FindIdentity(q) \/ FindUser(q) \/ FindEmail(q)
      PROVE  SignInInv'
  BY <1>6, FindIdentityKeeps, FindUserKeeps, FindEmailKeeps
<1>7. ASSUME NEW q \in Attempts, CreateUser(q)
      PROVE  SignInInv'
  BY <1>7, CreateUserKeeps
<1>8. ASSUME NEW q \in Attempts, FindConflict(q) \/ FindOwn(q)
      PROVE  SignInInv'
  BY <1>8, FindLinkKeeps
<1>9. ASSUME NEW q \in Attempts, Link(q)
      PROVE  SignInInv'
  BY <1>9, LinkKeeps
<1>10. ASSUME NEW q \in Attempts, IssueLogin(q) \/ IssueOAuth(q)
       PROVE  SignInInv'
  BY <1>10, IssueLoginKeeps, IssueOAuthKeeps
<1>11. ASSUME NEW q \in Attempts, CreateRefused(q) \/ Cut(q)
       PROVE  SignInInv'
  BY <1>11, CutKeeps
<1>12. CASE UNCHANGED signInVars
  <2>1. UNCHANGED <<profile, account, link, attempt, issued, asked, unlinked,
                    failures>>
    BY <1>12 DEF signInVars, documents, signInHistory
  <2> QED
    BY <2>1 DEF SignInInv, SignInTypeOK, LockIsEarned, StrandedOnlyByCut,
                Stranding, AttemptFits, Entitled, Origin, SameEmail, Exists
<1> QED
  BY <1>1, <1>2, <1>3, <1>4, <1>5, <1>6, <1>7, <1>8, <1>9, <1>10, <1>11,
     <1>12 DEF SignInNext

LEMMA SignInInvariance == SignInSpec => []SignInInv
<1>1. SignInInit => SignInInv
  BY SignInInitially
<1>2. SignInInv /\ [SignInNext]_signInVars => SignInInv'
  BY SignInInduction
<1> QED
  BY <1>1, <1>2, PTL DEF SignInSpec

\* Every account, link and attempt has its type in every state; the count of
\* failures that is saved never reaches the limit.
THEOREM SignInTypes == SignInSpec => []SignInTypeOK
<1>1. SignInInv => SignInTypeOK
  BY DEF SignInInv
<1> QED
  BY <1>1, SignInInvariance, PTL

\* loginOrRegister gives no identity tokens for an account it has no claim to,
\* however sign-ins, linkings, unlinkings and deletions interleave.
THEOREM TokensTheorem == SignInSpec => []TokensGoToTheOwner
<1>1. SignInInv => TokensGoToTheOwner
  BY DEF SignInInv, TokensGoToTheOwner, Entitled
<1> QED
  BY <1>1, SignInInvariance, PTL

\* An account that OAuth created has its link, but for the sign-in between the
\* two documents or cut short there, and for what was unlinked.
THEOREM StrandedTheorem == SignInSpec => []StrandedOnlyByCut
<1>1. SignInInv => StrandedOnlyByCut
  BY DEF SignInInv
<1> QED
  BY <1>1, SignInInvariance, PTL

\* No interleaving of logins locks an account before it has failed MaxFailures
\* times: the count that is written is never ahead of the failures.
THEOREM LockTheorem == SignInSpec => []LockIsEarned
<1>1. SignInInv => LockIsEarned
  BY DEF SignInInv
<1> QED
  BY <1>1, SignInInvariance, PTL

\* A successful login takes away only a lock it has read as over.
THEOREM LastsTheorem == SignInSpec => LockLasts
<1> DEFINE Kept(a) ==
      Exists(a) /\ account[a].lock = "set" /\ Exists(a)' =>
         \/ account'[a].lock \in {"set", "past"}
         \/ \E q \in Attempts : At(q, "verify") /\ attempt[q].acct = a
                                /\ attempt[q].lock = "past"
<1>1. SignInInv /\ [SignInNext]_signInVars => \A a \in Accounts : Kept(a)
  <2> SUFFICES ASSUME SignInInv, [SignInNext]_signInVars, NEW a \in Accounts,
                      Exists(a), account[a].lock = "set", Exists(a)'
               PROVE  \/ account'[a].lock \in {"set", "past"}
                      \/ \E q \in Attempts :
                            At(q, "verify") /\ attempt[q].acct = a
                            /\ attempt[q].lock = "past"
    OBVIOUS
  <2>1. account \in [Accounts -> Account \cup {Unused, Deleted}]
        /\ account[a] \in Account
    BY DEF SignInInv, SignInTypeOK, Exists
  <2>2. CASE UNCHANGED account
    BY <2>2
  <2>3. ASSUME NEW b \in Accounts, NEW e, NEW o, Insert(b, e, o)
        PROVE  account'[a].lock = "set"
    BY <2>1, <2>3 DEF Insert, Exists
  <2>4. ASSUME NEW b \in Accounts, LockEnds(b) \/ Delete(b)
        PROVE  account'[a].lock \in {"set", "past"}
    BY <2>1, <2>4, Shapes DEF LockEnds, Delete, Exists, Account
  <2>5. ASSUME NEW q \in Attempts, WrongPassword(q)
        PROVE  account'[a].lock = "set"
    BY <2>1, <2>5 DEF WrongPassword, Account
  <2>6. ASSUME NEW q \in Attempts, RightPassword(q),
               account'[a].lock \notin {"set", "past"}
        PROVE  At(q, "verify") /\ attempt[q].acct = a
               /\ attempt[q].lock = "past"
    <3>1. attempt[q] \in Attempt /\ AttemptFits(attempt[q])
          /\ attempt[q].pc = "verify" /\ attempt[q] # Free
      BY <2>6, AttemptFacts DEF RightPassword, At
    <3>2. attempt[q].lock \in {"null", "past"}
      BY <3>1 DEF AttemptFits, Attempt, Locks
    <3>3. attempt[q].acct = a /\ attempt[q].lock # "null"
      BY <2>1, <2>6 DEF RightPassword, Account
    <3> QED
      BY <3>1, <3>2, <3>3 DEF At
  <2> QED
    BY <2>2, <2>3, <2>4, <2>5, <2>6
       DEF SignInNext, signInVars, documents, Register, Unlink, ReadLogin,
           StartOAuth, Callback, FindIdentity, FindUser, FindEmail, CreateUser,
           CreateRefused, FindConflict, FindOwn, Link, IssueLogin, IssueOAuth,
           Issue, Cut
<1>2. SignInInv /\ [SignInNext]_signInVars =>
         [\A a \in Accounts : Kept(a)]_signInVars
  BY <1>1
<1> QED
  BY <1>2, SignInInvariance, PTL DEF SignInSpec, LockLasts
=============================================================================
