---------------------------- MODULE AccountsProofs ----------------------------
(***************************************************************************)
(* Proofs about Accounts, for any number of sign-ins, requests and resets  *)
(* in progress: a session that would be admitted knows the present         *)
(* password and the last change of access (SessionsCurrent), a reset link  *)
(* works once (LinksWorkOnce), and an ended session stays ended            *)
(* (EndedStaysEnded).                                                      *)
(***************************************************************************)
EXTENDS Accounts, FiniteSetTheorems, TLAPS

-----------------------------------------------------------------------------
(* The inductive invariant                                                 *)

\* What a sign-in has read of the row is the row, or has an older auth_version.
BehindRow(row, n, proof) ==
  /\ row # None
  /\ proof.auth_version <= row.auth_version
  /\ proof.auth_version = row.auth_version =>
       proof.password = row.password /\ proof.changes = n
Behind(proof) == BehindRow(user, changes, proof)

\* That holds of sessions in Redis and of those that are being opened or used.
ProofsBehind ==
  /\ \A s \in Ids : stored[s] # None => Behind(stored[s])
  /\ \A l \in Logins : logins[l] # None => Behind(logins[l].proof)
  /\ \A r \in Requests : requests[r] # None => Behind(requests[r].proof)

\* auth_version counts the changes of access and the links that were used.
Spent == {k \in Links : used[k] # 0}
VersionsCounted ==
  (IF user = None THEN 1 ELSE user.auth_version) = 1 + changes + Cardinality(Spent)

\* A link is mailed, consumed by one confirmation, and then used.
Consumed(c) == resets[c] # None /\ resets[c].consumed
LinkLedger ==
  /\ mailed > 0 \/ verifyLink => user # None
  /\ resetLink # None => resetLink <= mailed /\ used[resetLink] = 0
  /\ \A k \in Links : used[k] <= 1 /\ (used[k] # 0 => k <= mailed)
  /\ \A c \in Resets : resets[c] # None => resets[c].link <= mailed
  /\ \A c \in Resets : Consumed(c) => used[resets[c].link] = 0 /\ resets[c].link # resetLink
  /\ \A c, d \in Resets :
       Consumed(c) /\ Consumed(d) /\ resets[c].link = resets[d].link => c = d

AccountsInv == TypeOK /\ ProofsBehind /\ VersionsCounted /\ LinkLedger

Sessions == [Ids -> Proof \cup {None}]

LEMMA Types ==
  ASSUME TypeOK
  PROVE  /\ user \in User \cup {None} /\ stored \in Sessions
         /\ \A l \in Logins : logins[l] # None => logins[l] \in Login
         /\ \A r \in Requests : requests[r] # None => requests[r] \in Request
         /\ \A c \in Resets : resets[c] # None => resets[c] \in Reset
         /\ None \notin Ids \cup Links \cup User \cup Proof \cup Login \cup Request \cup Reset
         /\ MaxSession \in Nat /\ MaxLinks \in Nat /\ MaxChanges \in Nat
  BY ConstantsAssumption DEF TypeOK, Sessions

\* The links that were used are counted, and one more stays within the bound.
LEMMA SpentCount ==
  ASSUME TypeOK
  PROVE  /\ Cardinality(Spent) \in 0 .. MaxLinks
         /\ \A k \in Links \ Spent :
              /\ Cardinality(Spent \cup {k}) = Cardinality(Spent) + 1
              /\ Cardinality(Spent) + 1 <= MaxLinks
<1>1. IsFiniteSet(Links) /\ Cardinality(Links) = MaxLinks
  BY ConstantsAssumption, FS_Interval DEF Links
<1>2. Spent \in SUBSET Links
  BY DEF Spent
<1>3. IsFiniteSet(Spent) /\ Cardinality(Spent) <= MaxLinks
  BY <1>1, <1>2, FS_Subset
<1>4. Cardinality(Spent) \in Nat
  BY <1>3, FS_CardinalityType
<1>5. ASSUME NEW k \in Links \ Spent
      PROVE  /\ Cardinality(Spent \cup {k}) = Cardinality(Spent) + 1
             /\ Cardinality(Spent) + 1 <= MaxLinks
  <2>1. Cardinality(Spent \cup {k}) = Cardinality(Spent) + 1
    BY <1>3, <1>5, FS_AddElement
  <2>2. Spent \cup {k} \in SUBSET Links
    BY <1>2, <1>5
  <2>3. Cardinality(Spent \cup {k}) <= Cardinality(Links)
    BY <1>1, <2>2, FS_Subset
  <2> QED
    BY <1>1, <2>1, <2>3
<1> QED
  BY <1>3, <1>4, <1>5, ConstantsAssumption

\* The row as it is now is behind itself.
LEMMA ProofOfRow ==
  ASSUME TypeOK, user # None
  PROVE  ProofOf(user) \in Proof /\ Behind(ProofOf(user))
<1>1. user \in User /\ changes \in 0 .. MaxChanges
  BY DEF TypeOK
<1>2. ProofOf(user) \in Proof
  BY <1>1 DEF ProofOf, Proof, User
<1>3. user.auth_version \in Int
  BY <1>1 DEF User, Versions
<1> QED
  BY <1>2, <1>3 DEF ProofOf, Behind, BehindRow

LEMMA InitInv ==
  ASSUME Init
  PROVE  AccountsInv
<1>1. TypeOK
  <2>1. /\ opened \in 0 .. MaxSession /\ mailed \in 0 .. MaxLinks /\ changes \in 0 .. MaxChanges
        /\ used \in [Links -> Nat] /\ owed \in Nat
    BY ConstantsAssumption DEF Init
  <2> QED
    BY <2>1 DEF Init, TypeOK
<1>2. ProofsBehind
  BY DEF Init, ProofsBehind
<1>3. VersionsCounted
  <2>1. Spent = {}
    BY DEF Init, Spent
  <2>2. Cardinality(Spent) = 0
    BY <2>1, FS_EmptySet
  <2> QED
    BY <2>2 DEF Init, VersionsCounted
<1>4. LinkLedger
  BY DEF Init, LinkLedger, Consumed
<1> QED
  BY <1>1, <1>2, <1>3, <1>4 DEF AccountsInv

-----------------------------------------------------------------------------
(* Steps that leave the row and the resets alone                           *)

\* It is enough that every session kept, opened or used is behind the row.
LEMMA SessionStep ==
  ASSUME AccountsInv,
         UNCHANGED <<user, resets, links, used, changes>>,
         stored' \in Sessions, index' \subseteq Ids, opened' \in 0 .. MaxSession,
         logins' \in [Logins -> Login \cup {None}],
         requests' \in [Requests -> Request \cup {None}],
         owed' \in Nat, revoking' \subseteq SUBSET Ids,
         \A s \in Ids : stored'[s] # None => Behind(stored'[s]),
         \A l \in Logins : logins'[l] # None => Behind(logins'[l].proof),
         \A r \in Requests : requests'[r] # None => Behind(requests'[r].proof)
  PROVE  AccountsInv'
<1>1. TypeOK'
  BY DEF AccountsInv, TypeOK, Sessions, links
<1>2. ProofsBehind'
  BY DEF ProofsBehind, Behind
<1>3. VersionsCounted' /\ LinkLedger'
  BY DEF AccountsInv, VersionsCounted, Spent, LinkLedger, Consumed, links
<1> QED
  BY <1>1, <1>2, <1>3 DEF AccountsInv

\* What is deleted from Redis needs no proof.
LEMMA Deleting ==
  ASSUME AccountsInv, NEW ids
  PROVE  /\ Without(ids) \in Sessions
         /\ \A s \in Ids : Without(ids)[s] # None =>
              Without(ids)[s] = stored[s] /\ Behind(Without(ids)[s])
  BY DEF AccountsInv, TypeOK, ProofsBehind, Without, Sessions

\* A sign-in that has read the row, and has a cookie or none.
LEMMA VerifiedLogin ==
  ASSUME AccountsInv, user # None, NEW l \in Logins, NEW previous \in Ids \cup {None},
         Verified(l, user, previous)
  PROVE  /\ logins' \in [Logins -> Login \cup {None}]
         /\ \A k \in Logins : logins'[k] # None => Behind(logins'[k].proof)
<1> DEFINE login == [proof |-> ProofOf(user), previous |-> previous, id |-> None]
<1>1. TypeOK /\ ProofsBehind
  BY DEF AccountsInv
<1>2. ProofOf(user) \in Proof /\ Behind(ProofOf(user))
  BY <1>1, ProofOfRow
<1>3. login \in Login /\ login.proof = ProofOf(user)
  BY <1>2 DEF Login
<1>4. logins' = [logins EXCEPT ![l] = login]
  BY DEF Verified
<1> HIDE DEF login
<1> QED
  BY <1>1, <1>2, <1>3, <1>4 DEF TypeOK, ProofsBehind

LEMMA UserSigninInv ==
  ASSUME AccountsInv, NEW l \in Logins, NEW previous \in Cookie, UserSignin(l, previous)
  PROVE  AccountsInv'
<1>1. /\ user # None /\ Verified(l, user, previous)
      /\ UNCHANGED <<user, session, requests, resets, cleanup, links, used, changes>>
  BY DEF UserSignin
<1>2. previous \in Ids \cup {None}
  BY DEF Cookie, Live
<1>3. /\ logins' \in [Logins -> Login \cup {None}]
      /\ \A k \in Logins : logins'[k] # None => Behind(logins'[k].proof)
  BY <1>1, <1>2, VerifiedLogin
<1>4. /\ stored' \in Sessions /\ index' \subseteq Ids /\ opened' \in 0 .. MaxSession
      /\ requests' \in [Requests -> Request \cup {None}]
      /\ owed' \in Nat /\ revoking' \subseteq SUBSET Ids
      /\ \A s \in Ids : stored'[s] # None => Behind(stored'[s])
      /\ \A r \in Requests : requests'[r] # None => Behind(requests'[r].proof)
      /\ UNCHANGED <<user, resets, links, used, changes>>
  BY <1>1 DEF AccountsInv, TypeOK, ProofsBehind, Sessions, session, cleanup
<1> QED
  BY <1>3, <1>4, SessionStep

LEMMA SaveSessionInv ==
  ASSUME AccountsInv, NEW l \in Logins, SaveSession(l)
  PROVE  AccountsInv'
<1>1. TypeOK /\ ProofsBehind /\ logins[l] \in Login /\ NewId(l) \in Ids
  BY Types DEF AccountsInv, SaveSession, NewId, Ids, TypeOK
<1>2. logins[l].proof \in Proof /\ Behind(logins[l].proof)
  BY <1>1 DEF Login, SaveSession, ProofsBehind
<1>3. /\ stored' \in Sessions
      /\ \A s \in Ids : stored'[s] # None => Behind(stored'[s])
  <2>1. stored' = [Without({logins[l].previous}) EXCEPT ![NewId(l)] = logins[l].proof]
    BY DEF SaveSession, Kept
  <2> QED
    BY <1>1, <1>2, <2>1, Deleting DEF Sessions
<1>4. /\ logins' \in [Logins -> Login \cup {None}]
      /\ \A k \in Logins : logins'[k] # None => Behind(logins'[k].proof)
  <2>1. [logins[l] EXCEPT !.id = NewId(l)] \in Login
    BY <1>1 DEF Login
  <2>2. [logins[l] EXCEPT !.id = NewId(l)].proof = logins[l].proof
    BY <1>1 DEF Login
  <2>3. logins' = [logins EXCEPT ![l] = [logins[l] EXCEPT !.id = NewId(l)]]
    BY DEF SaveSession
  <2> QED
    BY <1>1, <1>2, <2>1, <2>2, <2>3 DEF TypeOK, ProofsBehind
<1>5. opened' \in 0 .. MaxSession
  BY <1>1, ConstantsAssumption DEF SaveSession, TypeOK
<1>6. /\ index' \subseteq Ids /\ requests' \in [Requests -> Request \cup {None}]
      /\ owed' \in Nat /\ revoking' \subseteq SUBSET Ids
      /\ \A r \in Requests : requests'[r] # None => Behind(requests'[r].proof)
      /\ UNCHANGED <<user, resets, links, used, changes>>
  BY <1>1 DEF SaveSession, TypeOK, ProofsBehind, cleanup
<1> QED
  BY <1>3, <1>4, <1>5, <1>6, SessionStep

\* A sign-in that ends, indexed or not.
LEMMA EndSigninInv ==
  ASSUME AccountsInv, NEW l \in Logins, IndexSession(l) \/ AbortSignin(l)
  PROVE  AccountsInv'
<1>1. TypeOK /\ ProofsBehind /\ logins[l] \in Login
  BY Types DEF AccountsInv, IndexSession, AbortSignin
<1>2. index' \subseteq Ids
  BY <1>1 DEF IndexSession, AbortSignin, TypeOK, Login, session
<1>3. /\ logins' \in [Logins -> Login \cup {None}]
      /\ \A k \in Logins : logins'[k] # None => Behind(logins'[k].proof)
  BY <1>1 DEF IndexSession, AbortSignin, TypeOK, ProofsBehind
<1>4. /\ stored' \in Sessions /\ opened' \in 0 .. MaxSession
      /\ requests' \in [Requests -> Request \cup {None}]
      /\ owed' \in Nat /\ revoking' \subseteq SUBSET Ids
      /\ \A s \in Ids : stored'[s] # None => Behind(stored'[s])
      /\ \A r \in Requests : requests'[r] # None => Behind(requests'[r].proof)
      /\ UNCHANGED <<user, resets, links, used, changes>>
  BY <1>1 DEF IndexSession, AbortSignin, TypeOK, ProofsBehind, Sessions, session, cleanup
<1> QED
  BY <1>2, <1>3, <1>4, SessionStep

\* A request that reads its session, or is admitted.
LEMMA RequestInv ==
  ASSUME AccountsInv, NEW r \in Requests, NEW s \in Ids, Receive(r, s) \/ Admit(r)
  PROVE  AccountsInv'
<1>1. TypeOK /\ ProofsBehind
  BY DEF AccountsInv
<1>2. /\ requests' \in [Requests -> Request \cup {None}]
      /\ \A q \in Requests : requests'[q] # None => Behind(requests'[q].proof)
  <2>1. CASE Receive(r, s)
    <3> DEFINE new == [id |-> s, proof |-> stored[s], admitted |-> FALSE]
    <3>1. new \in Request /\ new.proof = stored[s] /\ Behind(stored[s])
      BY <1>1, <2>1 DEF Receive, Request, TypeOK, ProofsBehind
    <3>2. requests' = [requests EXCEPT ![r] = new]
      BY <2>1 DEF Receive
    <3> HIDE DEF new
    <3> QED
      BY <1>1, <3>1, <3>2 DEF TypeOK, ProofsBehind
  <2>2. CASE Admit(r)
    <3> DEFINE new == [requests[r] EXCEPT !.admitted = TRUE]
    <3>1. requests[r] \in Request /\ Behind(requests[r].proof)
      BY <1>1, <2>2, Types DEF Admit, ProofsBehind
    <3>2. new \in Request /\ new.proof = requests[r].proof
      BY <3>1 DEF Request
    <3>3. requests' = [requests EXCEPT ![r] = new]
      BY <2>2 DEF Admit
    <3> HIDE DEF new
    <3> QED
      BY <1>1, <3>1, <3>2, <3>3 DEF TypeOK, ProofsBehind
  <2> QED
    BY <2>1, <2>2
<1>3. /\ stored' \in Sessions /\ index' \subseteq Ids /\ opened' \in 0 .. MaxSession
      /\ logins' \in [Logins -> Login \cup {None}]
      /\ owed' \in Nat /\ revoking' \subseteq SUBSET Ids
      /\ \A t \in Ids : stored'[t] # None => Behind(stored'[t])
      /\ \A l \in Logins : logins'[l] # None => Behind(logins'[l].proof)
      /\ UNCHANGED <<user, resets, links, used, changes>>
  BY <1>1 DEF Receive, Admit, TypeOK, ProofsBehind, Sessions, session, cleanup
<1> QED
  BY <1>2, <1>3, SessionStep

\* A request that ends, whatever it does to the sessions.
LEMMA EndRequestInv ==
  ASSUME AccountsInv, NEW r \in Requests,
         \/ RejectStale(r) \/ Respond(r) \/ SaveBack(r) \/ SignOut(r) \/ GetUserSessions(r)
         \/ \E s \in Ids : RevokeUserSession(r, s)
  PROVE  AccountsInv'
<1>1. TypeOK /\ ProofsBehind
  BY DEF AccountsInv
<1>2. requests' = [requests EXCEPT ![r] = None]
  BY DEF RejectStale, Respond, SaveBack, SignOut, GetUserSessions, RevokeUserSession
<1>3. /\ requests' \in [Requests -> Request \cup {None}]
      /\ \A q \in Requests : requests'[q] # None => Behind(requests'[q].proof)
  BY <1>1, <1>2 DEF TypeOK, ProofsBehind
<1>4. \/ stored' = stored
      \/ \E ids \in SUBSET Ids : stored' = Without(ids)
      \/ requests[r] # None /\ stored' = [stored EXCEPT ![requests[r].id] = requests[r].proof]
  <2>1. SignOut(r) => {requests[r].id} \in SUBSET Ids
    BY <1>1 DEF SignOut, TypeOK, Request
  <2> QED
    BY <2>1 DEF RejectStale, Respond, SaveBack, SignOut, GetUserSessions, RevokeUserSession, session
<1>5. stored' \in Sessions /\ \A s \in Ids : stored'[s] # None => Behind(stored'[s])
  <2>1. CASE requests[r] # None /\ stored' = [stored EXCEPT ![requests[r].id] = requests[r].proof]
    <3>1. requests[r] \in Request /\ Behind(requests[r].proof)
      BY <1>1, <2>1, Types DEF ProofsBehind
    <3>2. requests[r].id \in Ids /\ requests[r].proof \in Proof
      BY <3>1 DEF Request
    <3> QED
      BY <1>1, <2>1, <3>1, <3>2 DEF TypeOK, ProofsBehind, Sessions
  <2>2. CASE stored' = stored \/ \E ids \in SUBSET Ids : stored' = Without(ids)
    BY <1>1, <2>2, Deleting DEF TypeOK, ProofsBehind, Sessions
  <2> QED
    BY <1>4, <2>1, <2>2
<1>6. revoking' \subseteq SUBSET Ids /\ index' \subseteq Ids
  BY <1>1 DEF RejectStale, ReadIndex, Respond, SaveBack, SignOut, GetUserSessions,
              RevokeUserSession, TypeOK, session, cleanup
<1>7. /\ opened' \in 0 .. MaxSession /\ owed' \in Nat
      /\ logins' \in [Logins -> Login \cup {None}]
      /\ \A l \in Logins : logins'[l] # None => Behind(logins'[l].proof)
      /\ UNCHANGED <<user, resets, links, used, changes>>
  BY <1>1 DEF RejectStale, Respond, SaveBack, SignOut, GetUserSessions,
              RevokeUserSession, TypeOK, ProofsBehind, session, cleanup
<1> QED
  BY <1>3, <1>5, <1>6, <1>7, SessionStep

LEMMA ReauthenticateInv ==
  ASSUME AccountsInv, NEW r \in Requests, NEW l \in Logins, Reauthenticate(r, l)
  PROVE  AccountsInv'
<1>1. TypeOK /\ ProofsBehind /\ requests[r] \in Request /\ Behind(requests[r].proof)
  BY Types DEF AccountsInv, Reauthenticate, ProofsBehind
<1>2. /\ user # None /\ requests[r].id \in Ids /\ Verified(l, user, requests[r].id)
      /\ requests' = [requests EXCEPT ![r] = None]
      /\ UNCHANGED <<user, session, resets, cleanup, links, used, changes>>
  BY <1>1 DEF Reauthenticate, Behind, BehindRow, Request
<1>3. /\ logins' \in [Logins -> Login \cup {None}]
      /\ \A k \in Logins : logins'[k] # None => Behind(logins'[k].proof)
  BY <1>2, VerifiedLogin
<1>4. /\ stored' \in Sessions /\ index' \subseteq Ids /\ opened' \in 0 .. MaxSession
      /\ requests' \in [Requests -> Request \cup {None}]
      /\ owed' \in Nat /\ revoking' \subseteq SUBSET Ids
      /\ \A s \in Ids : stored'[s] # None => Behind(stored'[s])
      /\ \A q \in Requests : requests'[q] # None => Behind(requests'[q].proof)
      /\ UNCHANGED <<user, resets, links, used, changes>>
  BY <1>1, <1>2 DEF TypeOK, ProofsBehind, Sessions, session, cleanup
<1> QED
  BY <1>3, <1>4, SessionStep

\* Sessions that are revoked, one by one or all together.
LEMMA RevokeInv ==
  ASSUME AccountsInv,
         \/ \E s \in Ids : RevokeSession(s)
         \/ ListSessions \/ FailCleanup \/ \E ids \in revoking : DeleteSessions(ids)
  PROVE  AccountsInv'
<1>1. TypeOK /\ ProofsBehind
  BY DEF AccountsInv
<1>2. stored' = stored \/ \E ids \in SUBSET Ids : stored' = Without(ids)
  <2>1. \A s \in Ids : {s} \in SUBSET Ids
    OBVIOUS
  <2> QED
    BY <1>1, <2>1 DEF RevokeSession, ListSessions, FailCleanup, DeleteSessions, TypeOK, session
<1>3. stored' \in Sessions /\ \A s \in Ids : stored'[s] # None => Behind(stored'[s])
  BY <1>1, <1>2, Deleting DEF TypeOK, ProofsBehind, Sessions
<1>4. revoking' \subseteq SUBSET Ids /\ index' \subseteq Ids /\ owed' \in Nat
  <2>1. revoking' \subseteq revoking \cup {index}
    BY DEF RevokeSession, ListSessions, ReadIndex, FailCleanup, DeleteSessions, cleanup
  <2>2. index' \subseteq index
    BY DEF RevokeSession, ListSessions, FailCleanup, DeleteSessions, session
  <2>3. owed' = owed \/ (owed > 0 /\ owed' = owed - 1)
    BY DEF RevokeSession, ListSessions, FailCleanup, DeleteSessions, cleanup
  <2> QED
    BY <1>1, <2>1, <2>2, <2>3 DEF TypeOK
<1>5. /\ opened' \in 0 .. MaxSession
      /\ logins' \in [Logins -> Login \cup {None}]
      /\ requests' \in [Requests -> Request \cup {None}]
      /\ \A l \in Logins : logins'[l] # None => Behind(logins'[l].proof)
      /\ \A r \in Requests : requests'[r] # None => Behind(requests'[r].proof)
      /\ UNCHANGED <<user, resets, links, used, changes>>
  BY <1>1 DEF RevokeSession, ListSessions, FailCleanup, DeleteSessions, TypeOK, ProofsBehind,
              session, cleanup
<1> QED
  BY <1>3, <1>4, <1>5, SessionStep

-----------------------------------------------------------------------------
(* Steps that leave auth_version alone                                     *)

\* A sign-up, a verified address or a linked account, and the sign-in with it.
LEMMA UserStep ==
  ASSUME AccountsInv, user' \in User,
         user # None => user'.auth_version = user.auth_version /\ user'.password = user.password,
         user = None => user'.auth_version = 1,
         verifyLink' \in BOOLEAN,
         logins' \in [Logins -> Login \cup {None}],
         \A l \in Logins : logins'[l] # None =>
           logins'[l] = logins[l] \/ logins'[l].proof = ProofOf(user'),
         UNCHANGED <<session, requests, resets, cleanup, resetLink, mailed, used, changes>>
  PROVE  AccountsInv'
<1>1. TypeOK /\ ProofsBehind /\ VersionsCounted /\ LinkLedger /\ user' # None
  BY ConstantsAssumption DEF AccountsInv
<1>2. TypeOK'
  BY <1>1 DEF TypeOK, session, cleanup
<1>3. \A proof : Behind(proof) => BehindRow(user', changes', proof)
  BY <1>1 DEF Behind, BehindRow
<1>4. BehindRow(user', changes', ProofOf(user'))
  <2>1. user'.auth_version \in Int
    BY DEF User, Versions
  <2> QED
    BY <1>1, <2>1 DEF BehindRow, ProofOf
<1>5. ProofsBehind'
  <2>1. \A s \in Ids : stored'[s] # None => BehindRow(user', changes', stored'[s])
    BY <1>1, <1>3 DEF ProofsBehind, session
  <2>2. \A r \in Requests : requests'[r] # None =>
          BehindRow(user', changes', requests'[r].proof)
    BY <1>1, <1>3 DEF ProofsBehind
  <2>3. \A l \in Logins : logins'[l] # None => BehindRow(user', changes', logins'[l].proof)
    BY <1>1, <1>3, <1>4 DEF ProofsBehind
  <2> QED
    BY <2>1, <2>2, <2>3 DEF ProofsBehind, Behind
<1>6. VersionsCounted'
  BY <1>1 DEF VersionsCounted, Spent
<1>7. LinkLedger'
  BY <1>1 DEF LinkLedger, Consumed
<1> QED
  BY <1>2, <1>5, <1>6, <1>7 DEF AccountsInv

LEMMA NewUserType ==
  ASSUME NEW p \in Passwords, NEW verified \in BOOLEAN
  PROVE  NewUser(p, verified) \in User /\ NewUser(p, verified).auth_version = 1
<1>1. 1 \in Versions
  BY ConstantsAssumption DEF Versions
<1> QED
  BY <1>1 DEF NewUser, User

LEMMA SignupInv ==
  ASSUME AccountsInv,
         (\E p \in Passwords : UserSignup(p)) \/ ResendVerification \/ VerifyEmail
  PROVE  AccountsInv'
<1>1. TypeOK /\ LinkLedger
  BY DEF AccountsInv
<1>2. /\ user' \in User
      /\ user # None => user'.auth_version = user.auth_version /\ user'.password = user.password
      /\ user = None => user'.auth_version = 1
  <2>1. CASE \E p \in Passwords : UserSignup(p)
    <3>1. PICK p \in Passwords : user = None /\ user' = NewUser(p, FALSE)
      BY <2>1 DEF UserSignup
    <3> QED
      BY <3>1, NewUserType
  <2>2. CASE ResendVerification
    BY <1>1, <2>2 DEF ResendVerification, TypeOK
  <2>3. CASE VerifyEmail
    <3>1. user \in User /\ user # None
      BY <1>1, <2>3 DEF VerifyEmail, LinkLedger, TypeOK
    <3>2. user' = user \/ user' = [user EXCEPT !.email_verified = TRUE, !.active = TRUE]
      BY <2>3 DEF VerifyEmail
    <3>3. CASE user' = [user EXCEPT !.email_verified = TRUE, !.active = TRUE]
      BY <3>1, <3>3 DEF User
    <3> QED
      BY <3>1, <3>2, <3>3
  <2> QED
    BY <2>1, <2>2, <2>3
<1>3. /\ UNCHANGED <<session, requests, resets, cleanup, resetLink, mailed, used, changes>>
      /\ UNCHANGED logins /\ verifyLink' \in BOOLEAN
  BY DEF UserSignup, ResendVerification, VerifyEmail
<1>4. /\ logins' \in [Logins -> Login \cup {None}]
      /\ \A l \in Logins : logins'[l] # None => logins'[l] = logins[l]
  BY <1>1, <1>3 DEF TypeOK
<1> QED
  BY <1>2, <1>3, <1>4, UserStep

LEMMA GoogleSigninInv ==
  ASSUME AccountsInv, NEW l \in Logins, NEW previous \in Cookie, NEW p \in Passwords,
         GoogleSignin(l, previous, p)
  PROVE  AccountsInv'
<1>1. TypeOK /\ previous \in Ids \cup {None}
  BY DEF AccountsInv, Cookie, Live
<1>2. /\ user' \in User
      /\ user # None => user'.auth_version = user.auth_version /\ user'.password = user.password
      /\ user = None => user'.auth_version = 1
  <2>1. CASE user = None
    BY <2>1, NewUserType DEF GoogleSignin
  <2>2. CASE user # None
    BY <1>1, <2>2 DEF GoogleSignin, TypeOK, User
  <2> QED
    BY <2>1, <2>2
<1> DEFINE login == [proof |-> ProofOf(user'), previous |-> previous, id |-> None]
<1>3. ProofOf(user') \in Proof
  BY <1>1, <1>2 DEF ProofOf, Proof, User, TypeOK
<1>4. login \in Login /\ login.proof = ProofOf(user')
  BY <1>1, <1>3 DEF Login
<1>5. logins' = [logins EXCEPT ![l] = login]
  BY DEF GoogleSignin, Verified
<1>6. /\ logins' \in [Logins -> Login \cup {None}]
      /\ \A k \in Logins : logins'[k] # None =>
           logins'[k] = logins[k] \/ logins'[k].proof = ProofOf(user')
  <2> HIDE DEF login
  <2> QED
    BY <1>1, <1>4, <1>5 DEF TypeOK
<1>7. /\ UNCHANGED <<session, requests, resets, cleanup, resetLink, mailed, used, changes>>
      /\ verifyLink' \in BOOLEAN
  BY <1>1 DEF GoogleSignin, links, TypeOK
<1> QED
  BY <1>2, <1>6, <1>7, UserStep

-----------------------------------------------------------------------------
(* Links and resets                                                        *)

\* Steps that leave the row and the sessions alone keep what is about them.
LEMMA ResetStep ==
  ASSUME AccountsInv, UNCHANGED <<user, session, logins, requests, cleanup, used, changes>>,
         resets' \in [Resets -> Reset \cup {None}],
         resetLink' \in Links \cup {None}, verifyLink' \in BOOLEAN, mailed' \in 0 .. MaxLinks,
         LinkLedger'
  PROVE  AccountsInv'
<1>1. TypeOK'
  BY DEF AccountsInv, TypeOK, session, cleanup
<1>2. ProofsBehind' /\ VersionsCounted'
  BY DEF AccountsInv, ProofsBehind, Behind, BehindRow, VersionsCounted, Spent, session
<1> QED
  BY <1>1, <1>2 DEF AccountsInv

LEMMA LoseLinkInv ==
  ASSUME AccountsInv, LoseLink
  PROVE  AccountsInv'
<1>1. TypeOK /\ LinkLedger
  BY DEF AccountsInv
<1>2. /\ UNCHANGED <<user, session, logins, requests, resets, cleanup, mailed, used, changes>>
      /\ resetLink' \in {resetLink, None} /\ verifyLink' \in {verifyLink, FALSE}
  BY DEF LoseLink
<1>3. \A c \in Resets : resets[c] # None => resets[c].link # None
  BY <1>1, Types DEF Reset
<1>4. LinkLedger'
  <2>1. mailed' > 0 \/ verifyLink' => user' # None
    BY <1>1, <1>2 DEF LinkLedger
  <2> QED
    BY <1>1, <1>2, <1>3, <2>1 DEF LinkLedger, Consumed
<1> QED
  BY <1>1, <1>2, <1>4, ResetStep DEF TypeOK

LEMMA ForgotPasswordInv ==
  ASSUME AccountsInv, ForgotPassword
  PROVE  AccountsInv'
<1>1. TypeOK /\ LinkLedger
  BY DEF AccountsInv
<1>2. /\ user # None /\ mailed < MaxLinks /\ mailed' = mailed + 1 /\ resetLink' = mailed + 1
      /\ UNCHANGED <<user, session, logins, requests, resets, cleanup, verifyLink, used, changes>>
  BY DEF ForgotPassword
<1>3. /\ mailed + 1 \in Links /\ mailed \in Nat /\ mailed + 1 \in 0 .. MaxLinks
      /\ mailed + 1 # None
  BY <1>1, <1>2, ConstantsAssumption DEF TypeOK, Links
<1>4. /\ \A k \in Links : k \in Nat
      /\ \A c \in Resets : resets[c] # None => resets[c].link \in Nat
      /\ used \in [Links -> Nat]
  BY <1>1, Types DEF Links, Reset, TypeOK
<1>5. LinkLedger'
  <2>1. used[mailed + 1] = 0
    BY <1>1, <1>3, <1>4 DEF LinkLedger
  <2>2. \A c \in Resets : resets[c] # None => resets[c].link # mailed + 1
    BY <1>1, <1>3, <1>4 DEF LinkLedger
  <2> QED
    BY <1>1, <1>2, <1>3, <1>4, <2>1, <2>2 DEF LinkLedger, Consumed
<1> QED
  BY <1>1, <1>2, <1>3, <1>5, ResetStep DEF TypeOK

LEMMA CheckPasswordInv ==
  ASSUME AccountsInv, NEW c \in Resets, NEW k \in Links, NEW p \in Passwords,
         CheckPassword(c, k, p)
  PROVE  AccountsInv'
<1> DEFINE new == [link |-> k, password |-> p, consumed |-> FALSE]
<1>1. TypeOK /\ LinkLedger /\ k <= mailed
  BY DEF AccountsInv, CheckPassword
<1>2. new \in Reset /\ new.link = k /\ ~new.consumed
  BY DEF Reset
<1>3. /\ resets' = [resets EXCEPT ![c] = new]
      /\ UNCHANGED <<user, session, logins, requests, cleanup, links, used, changes>>
  BY DEF CheckPassword
<1> HIDE DEF new
<1>4. /\ resets' \in [Resets -> Reset \cup {None}]
      /\ resets'[c] = new /\ \A d \in Resets : d # c => resets'[d] = resets[d]
  BY <1>1, <1>2, <1>3 DEF TypeOK
<1>5. LinkLedger'
  BY <1>1, <1>2, <1>3, <1>4 DEF LinkLedger, Consumed, links
<1> QED
  BY <1>1, <1>3, <1>4, <1>5, ResetStep DEF TypeOK, links

LEMMA ConsumeLinkInv ==
  ASSUME AccountsInv, NEW c \in Resets, ConsumeLink(c)
  PROVE  AccountsInv'
<1> DEFINE new == [resets[c] EXCEPT !.consumed = TRUE]
<1>1. TypeOK /\ LinkLedger /\ resets[c] \in Reset
  BY Types DEF AccountsInv, ConsumeLink
<1>2. /\ resets' = [resets EXCEPT ![c] = new]
      /\ resetLink = resets[c].link /\ resetLink' = None
      /\ UNCHANGED <<user, session, logins, requests, cleanup, verifyLink, mailed, used, changes>>
  BY DEF ConsumeLink, ConsumeAuthToken
<1>3. new \in Reset /\ new.link = resets[c].link
  BY <1>1 DEF Reset
<1> HIDE DEF new
<1>4. /\ resets' \in [Resets -> Reset \cup {None}]
      /\ resets'[c] = new /\ \A d \in Resets : d # c => resets'[d] = resets[d]
  BY <1>1, <1>2, <1>3 DEF TypeOK
<1>5. \A d \in Resets : resets'[d] # None => resets'[d].link # None
  BY <1>4, ConstantsAssumption DEF Reset
<1>6. resetLink # None /\ resets[c] # None
  BY <1>1, <1>2, ConstantsAssumption DEF Reset
<1>7. LinkLedger'
  <2>1. \A d \in Resets : d # c /\ Consumed(d) => resets[d].link # resets[c].link
    BY <1>1, <1>2 DEF LinkLedger
  <2>2. used[resets[c].link] = 0 /\ resets[c].link <= mailed
    BY <1>1, <1>2, <1>6 DEF LinkLedger
  <2> QED
    BY <1>1, <1>2, <1>3, <1>4, <1>5, <2>1, <2>2 DEF LinkLedger, Consumed
<1> QED
  BY <1>1, <1>2, <1>4, <1>7, ResetStep DEF TypeOK

LEMMA FailResetInv ==
  ASSUME AccountsInv, NEW c \in Resets, FailReset(c)
  PROVE  AccountsInv'
<1>1. TypeOK /\ LinkLedger
  BY DEF AccountsInv
<1>2. /\ resets' = [resets EXCEPT ![c] = None]
      /\ UNCHANGED <<user, session, logins, requests, cleanup, links, used, changes>>
  BY DEF FailReset
<1>3. LinkLedger' /\ resets' \in [Resets -> Reset \cup {None}]
  BY <1>1, <1>2 DEF LinkLedger, Consumed, TypeOK, links
<1> QED
  BY <1>1, <1>2, <1>3, ResetStep DEF TypeOK, links

-----------------------------------------------------------------------------
(* Steps that raise auth_version                                           *)

\* Whatever was read of the row before is behind it now.
LEMMA RaiseVersion ==
  ASSUME AccountsInv, user # None, user' # None,
         user'.auth_version = user.auth_version + 1,
         UNCHANGED <<stored, logins, requests>>
  PROVE  ProofsBehind'
<1>1. user.auth_version \in Int
  BY DEF AccountsInv, TypeOK, User, Versions
<1>2. ASSUME NEW proof \in Proof, Behind(proof)
      PROVE  BehindRow(user', changes', proof)
  <2>1. proof.auth_version \in Int
    BY <1>2 DEF Proof, Versions
  <2> QED
    BY <1>1, <1>2, <2>1 DEF Behind, BehindRow
<1>3. /\ \A s \in Ids : stored[s] # None => stored[s] \in Proof
      /\ \A l \in Logins : logins[l] # None => logins[l].proof \in Proof
      /\ \A r \in Requests : requests[r] # None => requests[r].proof \in Proof
  BY DEF AccountsInv, TypeOK, Login, Request
<1> QED
  BY <1>2, <1>3 DEF AccountsInv, ProofsBehind, Behind

LEMMA ChangePasswordInv ==
  ASSUME AccountsInv, NEW c \in Resets, ChangePassword(c)
  PROVE  AccountsInv'
<1> DEFINE k == resets[c].link
<1>1. /\ TypeOK /\ VersionsCounted /\ LinkLedger
      /\ resets[c] \in Reset /\ resets[c] # None /\ Consumed(c)
  BY Types DEF AccountsInv, ChangePassword, Consumed
<1>2. k \in Links /\ used[k] = 0 /\ k <= mailed /\ k # resetLink /\ k >= 1
  BY <1>1 DEF LinkLedger, Reset, Links
<1>3. user \in User /\ user # None
  <2>1. mailed > 0
    BY <1>1, <1>2 DEF TypeOK, Links
  <2> QED
    BY <1>1, <2>1 DEF LinkLedger, TypeOK
<1>4. /\ used' = [used EXCEPT ![k] = @ + 1] /\ owed' = owed + 1
      /\ resets' = [resets EXCEPT ![c] = None]
      /\ user' = [user EXCEPT !.password = resets[c].password, !.auth_version = @ + 1]
      /\ UNCHANGED <<session, logins, requests, revoking, links, changes>>
  BY DEF ChangePassword
<1>5. /\ user.auth_version = 1 + changes + Cardinality(Spent)
      /\ k \in Links \ Spent
  BY <1>1, <1>2, <1>3 DEF VersionsCounted, Spent
<1>6. user.auth_version + 1 \in Versions
  <2>1. Cardinality(Spent) + 1 <= MaxLinks /\ Cardinality(Spent) \in 0 .. MaxLinks
    <3> HIDE DEF k
    <3> QED
      BY <1>1, <1>5, SpentCount
  <2>2. changes \in 0 .. MaxChanges /\ MaxChanges \in Nat /\ MaxLinks \in Nat
    BY <1>1, ConstantsAssumption DEF TypeOK
  <2> QED
    BY <1>5, <2>1, <2>2 DEF Versions
<1>7. /\ user' \in User /\ user' # None
      /\ user'.auth_version = user.auth_version + 1
  <2>1. resets[c].password \in Passwords
    BY <1>1 DEF Reset
  <2>2. user' \in User /\ user'.auth_version = user.auth_version + 1
    BY <1>3, <1>4, <1>6, <2>1 DEF User
  <2> QED
    BY <2>2, ConstantsAssumption
<1>8. used' \in [Links -> Nat] /\ used'[k] = 1 /\ \A j \in Links : j # k => used'[j] = used[j]
  BY <1>1, <1>2, <1>4 DEF TypeOK
<1>9. TypeOK'
  BY <1>1, <1>4, <1>7, <1>8 DEF TypeOK, session, links
<1>10. ProofsBehind'
  BY <1>3, <1>4, <1>7, RaiseVersion DEF session
<1>11. VersionsCounted'
  <2>1. Spent' = Spent \cup {k}
    BY <1>2, <1>8 DEF Spent
  <2>2. Cardinality(Spent') = Cardinality(Spent) + 1 /\ Cardinality(Spent) \in Int
    BY <1>1, <1>5, <2>1, SpentCount
  <2>3. changes \in Int
    BY <1>1 DEF TypeOK
  <2> QED
    BY <1>4, <1>5, <1>7, <2>2, <2>3 DEF VersionsCounted
<1>12. LinkLedger'
  <2>1. \A d \in Resets : d # c => resets'[d] = resets[d]
    BY <1>1, <1>4 DEF TypeOK
  <2>2. resets'[c] = None
    BY <1>1, <1>4 DEF TypeOK
  <2>3. \A d \in Resets : d # c /\ Consumed(d) => resets[d].link # k
    BY <1>1 DEF LinkLedger
  <2>4. \A d \in Resets : resets[d] # None => resets[d].link \in Links
    BY <1>1, Types DEF Reset
  <2>5. resetLink \in Links \cup {None} /\ None \notin Links
    BY <1>1, Types DEF TypeOK
  <2> HIDE DEF k
  <2> QED
    BY <1>1, <1>2, <1>3, <1>4, <1>7, <1>8, <2>1, <2>2, <2>3, <2>4, <2>5
       DEF LinkLedger, Consumed, links
<1> QED
  BY <1>9, <1>10, <1>11, <1>12 DEF AccountsInv

LEMMA ChangeAccessInv ==
  ASSUME AccountsInv, NEW active \in BOOLEAN, ChangeAccess(active)
  PROVE  AccountsInv'
<1>1. /\ TypeOK /\ VersionsCounted /\ LinkLedger /\ user \in User /\ user # None
      /\ changes \in Nat /\ changes < MaxChanges
  BY DEF AccountsInv, ChangeAccess, TypeOK
<1>2. /\ changes' = changes + 1 /\ owed' = owed + 1
      /\ user' = [user EXCEPT !.active = active, !.auth_version = @ + 1]
      /\ UNCHANGED <<session, logins, requests, resets, revoking, links, used>>
  BY DEF ChangeAccess, SetStatus
<1>3. /\ user.auth_version = 1 + changes + Cardinality(Spent)
      /\ Cardinality(Spent) \in 0 .. MaxLinks
  BY <1>1, SpentCount DEF VersionsCounted
<1>4. user.auth_version + 1 \in Versions
  BY <1>1, <1>3, ConstantsAssumption DEF Versions
<1>5. /\ user' \in User /\ user' # None
      /\ user'.auth_version = user.auth_version + 1
  <2>1. user' \in User /\ user'.auth_version = user.auth_version + 1
    BY <1>1, <1>2, <1>4 DEF User
  <2> QED
    BY <2>1, ConstantsAssumption
<1>6. TypeOK'
  BY <1>1, <1>2, <1>5, ConstantsAssumption DEF TypeOK, session, links
<1>7. ProofsBehind'
  BY <1>1, <1>2, <1>5, RaiseVersion DEF session
<1>8. VersionsCounted'
  <2>1. Spent' = Spent
    BY <1>2 DEF Spent
  <2> QED
    BY <1>1, <1>2, <1>3, <1>5, <2>1 DEF VersionsCounted
<1>9. LinkLedger'
  BY <1>1, <1>2, <1>5 DEF LinkLedger, Consumed, links
<1> QED
  BY <1>6, <1>7, <1>8, <1>9 DEF AccountsInv

LEMMA NextInv ==
  ASSUME AccountsInv, [Next]_vars
  PROVE  AccountsInv'
<1>1. CASE \E l \in Logins :
             \/ \E previous \in Cookie :
                  UserSignin(l, previous) \/ \E p \in Passwords : GoogleSignin(l, previous, p)
             \/ SaveSession(l) \/ IndexSession(l) \/ AbortSignin(l)
  BY <1>1, UserSigninInv, GoogleSigninInv, SaveSessionInv, EndSigninInv
<1>2. CASE \E r \in Requests :
             \/ Admit(r) \/ RejectStale(r) \/ Respond(r)
             \/ SaveBack(r) \/ SignOut(r) \/ GetUserSessions(r)
             \/ \E s \in Ids : Receive(r, s) \/ RevokeUserSession(r, s)
             \/ \E l \in Logins : Reauthenticate(r, l)
  <2>1. PICK r \in Requests :
          \/ Admit(r) \/ RejectStale(r) \/ Respond(r)
          \/ SaveBack(r) \/ SignOut(r) \/ GetUserSessions(r)
          \/ \E s \in Ids : Receive(r, s) \/ RevokeUserSession(r, s)
          \/ \E l \in Logins : Reauthenticate(r, l)
    BY <1>2
  <2>2. CASE Admit(r)
    <3>1. requests[r].id \in Ids
      BY <2>2, Types DEF AccountsInv, Admit, Request
    <3> QED
      BY <2>2, <3>1, RequestInv
  <2>3. CASE \E s \in Ids : Receive(r, s)
    BY <2>3, RequestInv
  <2>4. CASE \/ RejectStale(r) \/ Respond(r) \/ SaveBack(r) \/ SignOut(r) \/ GetUserSessions(r)
             \/ \E s \in Ids : RevokeUserSession(r, s)
    BY <2>4, EndRequestInv
  <2>5. CASE \E l \in Logins : Reauthenticate(r, l)
    BY <2>5, ReauthenticateInv
  <2> QED
    BY <2>1, <2>2, <2>3, <2>4, <2>5
<1>3. CASE \E c \in Resets :
             \/ \E k \in Links, p \in Passwords : CheckPassword(c, k, p)
             \/ ConsumeLink(c) \/ ChangePassword(c) \/ FailReset(c)
  BY <1>3, CheckPasswordInv, ConsumeLinkInv, ChangePasswordInv, FailResetInv
<1>4. CASE \/ \E p \in Passwords : UserSignup(p)
           \/ ResendVerification \/ VerifyEmail \/ LoseLink \/ ForgotPassword
           \/ \E active \in BOOLEAN : ChangeAccess(active)
  BY <1>4, SignupInv, LoseLinkInv, ForgotPasswordInv, ChangeAccessInv
<1>5. CASE \/ \E s \in Ids : RevokeSession(s)
           \/ ListSessions \/ FailCleanup \/ \E ids \in revoking : DeleteSessions(ids)
  BY <1>5, RevokeInv
<1>6. CASE UNCHANGED vars
  <2>1. /\ UNCHANGED <<user, session, logins, requests, resets, cleanup, links, used, changes>>
    BY <1>6 DEF vars
  <2> QED
    BY <2>1 DEF AccountsInv, TypeOK, ProofsBehind, Behind, BehindRow, VersionsCounted, Spent,
                LinkLedger, Consumed, session, cleanup, links
<1> QED
  BY <1>1, <1>2, <1>3, <1>4, <1>5, <1>6 DEF Next

\* The inductive invariant holds of every reachable state.
THEOREM Invariant == Spec => []AccountsInv
<1>1. Init => AccountsInv
  BY InitInv
<1>2. AccountsInv /\ [Next]_vars => AccountsInv'
  BY NextInv
<1> QED
  BY <1>1, <1>2, PTL DEF Spec

\* No session that hydrateAuthContext would admit was opened with an older
\* password or before the last change of access, whatever sign-ins, resets and
\* changes interleave, and whichever clean-ups of sessions fail.
THEOREM SessionsAreCurrent == Spec => []SessionsCurrent
<1>1. AccountsInv => SessionsCurrent
  BY DEF AccountsInv, ProofsBehind, Behind, BehindRow, SessionsCurrent, Live, Current
<1> QED
  BY <1>1, Invariant, PTL

\* A reset link changes the password once at most, however many confirmations of
\* it are under way (consumeAuthToken deletes it in one script).
THEOREM ResetsOnce == Spec => []LinksWorkOnce
<1>1. ASSUME AccountsInv, NEW k \in Links
      PROVE  used[k] + Cardinality({c \in Resets :
               resets[c] # None /\ resets[c].link = k /\ resets[c].consumed}) <= 1
  <2> DEFINE S == {c \in Resets : resets[c] # None /\ resets[c].link = k /\ resets[c].consumed}
  <2>1. used[k] \in 0 .. 1
    BY <1>1 DEF AccountsInv, TypeOK, LinkLedger
  <2>2. CASE S = {}
    BY <2>1, <2>2, FS_EmptySet
  <2>3. CASE S # {}
    <3>1. PICK c \in S : TRUE
      BY <2>3
    <3>2. S = {c} /\ used[k] = 0
      BY <1>1, <3>1 DEF AccountsInv, LinkLedger, Consumed
    <3>3. Cardinality(S) = 1
      BY <3>2, FS_Singleton
    <3> QED
      BY <3>2, <3>3
  <2> QED
    BY <2>2, <2>3
<1>2. AccountsInv => LinksWorkOnce
  BY <1>1 DEF LinksWorkOnce
<1> QED
  BY <1>2, Invariant, PTL

-----------------------------------------------------------------------------
(* The ids of sessions                                                     *)

\* An entry of Redis that is None stays None, unless a sign-in takes a new id for
\* it or a request writes back what it has read of it.
LEMMA OnlySaved ==
  ASSUME AccountsInv, NEW s \in Ids, stored[s] = None, stored'[s] # None, [Next]_vars
  PROVE  s > opened \/ \E r \in Requests : requests[r] # None /\ requests[r].id = s
<1>1. TypeOK /\ opened \in Nat /\ s \in Nat
  BY DEF AccountsInv, TypeOK, Ids
<1>2. \A ids : Without(ids)[s] = None
  BY DEF Without
<1>3. ASSUME NEW l \in Logins, SaveSession(l)
      PROVE  s > opened
  <2>1. /\ Without({logins[l].previous}) \in Sessions
        /\ stored' = [Without({logins[l].previous}) EXCEPT ![opened + 1] = logins[l].proof]
    BY <1>3, Deleting DEF SaveSession, NewId, Kept
  <2>2. s = opened + 1
    BY <1>2, <2>1 DEF Sessions
  <2> QED
    BY <1>1, <2>2
<1>4. ASSUME NEW r \in Requests, SaveBack(r)
      PROVE  requests[r] # None /\ requests[r].id = s
  BY <1>1, <1>4 DEF SaveBack, TypeOK
<1>5. ASSUME \/ \E l \in Logins :
                  \/ \E previous \in Cookie :
                       UserSignin(l, previous) \/ \E p \in Passwords : GoogleSignin(l, previous, p)
                  \/ IndexSession(l) \/ AbortSignin(l)
             \/ \E r \in Requests :
                  \/ Admit(r) \/ RejectStale(r) \/ Respond(r) \/ GetUserSessions(r)
                  \/ \E t \in Ids : Receive(r, t)
                  \/ \E l \in Logins : Reauthenticate(r, l)
             \/ ListSessions \/ FailCleanup
             \/ UNCHANGED vars
      PROVE  FALSE
  <2>1. stored' = stored
    BY <1>5 DEF UserSignin, GoogleSignin, IndexSession, AbortSignin, Admit, RejectStale, Respond,
                GetUserSessions, Receive, Reauthenticate, ListSessions, FailCleanup, vars, session
  <2> QED
    BY <2>1
<1>6. ASSUME \/ \E p \in Passwords : UserSignup(p)
             \/ ResendVerification \/ VerifyEmail \/ LoseLink \/ ForgotPassword
             \/ \E c \in Resets :
                  \/ \E k \in Links, p \in Passwords : CheckPassword(c, k, p)
                  \/ ConsumeLink(c) \/ ChangePassword(c) \/ FailReset(c)
             \/ \E active \in BOOLEAN : ChangeAccess(active)
      PROVE  FALSE
  <2>1. stored' = stored
    BY <1>6 DEF UserSignup, ResendVerification, VerifyEmail, LoseLink, ForgotPassword,
                CheckPassword, ConsumeLink, ChangePassword, FailReset, ChangeAccess, session
  <2> QED
    BY <2>1
<1>7. ASSUME \/ \E r \in Requests : SignOut(r) \/ \E t \in Ids : RevokeUserSession(r, t)
             \/ \E t \in Ids : RevokeSession(t)
             \/ \E ids \in revoking : DeleteSessions(ids)
      PROVE  FALSE
  <2>1. \E ids : stored' = Without(ids)
    BY <1>7 DEF SignOut, RevokeUserSession, RevokeSession, DeleteSessions
  <2> QED
    BY <1>2, <2>1
<1> QED
  BY <1>3, <1>4, <1>5, <1>6, <1>7 DEF Next

\* A session that was ended never continues under its id, except by a request that
\* had read it before.
THEOREM SessionsEnd == Spec => EndedStaysEnded
<1>1. ASSUME AccountsInv, [Next]_vars, NEW s \in Ids, s <= opened, s \notin Live,
             \A r \in Requests : requests[r] = None \/ requests[r].id # s
      PROVE  stored'[s] = None
  <2>1. stored[s] = None /\ opened \in Nat /\ s \in Nat
    BY <1>1 DEF Live, AccountsInv, TypeOK, Ids
  <2>2. SUFFICES ASSUME stored'[s] # None PROVE FALSE
    OBVIOUS
  <2>3. ~(s > opened)
    BY <1>1, <2>1
  <2> QED
    BY <1>1, <2>1, <2>2, <2>3, OnlySaved
<1>2. AccountsInv /\ [Next]_vars =>
        [ \A s \in Ids :
            s <= opened /\ s \notin Live /\ (\A r \in Requests : requests[r] = None \/ requests[r].id # s)
              => stored'[s] = None ]_vars
  BY <1>1
<1> QED
  BY <1>2, Invariant, PTL DEF Spec, EndedStaysEnded
===============================================================================
