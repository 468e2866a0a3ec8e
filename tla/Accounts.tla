------------------------------- MODULE Accounts -------------------------------
(***************************************************************************)
(* One account, its sessions and its links by mail: sign-up, verification, *)
(* sign-in with a password or with Google, requests in progress, sign-out, *)
(* revocation and password reset (auth.controller.js, auth.model.js,       *)
(* session.service.js, auth.middleware.js, utils/auth-token.js,            *)
(* config/passport.js, config/session.js).                                 *)
(*                                                                         *)
(* The account is a row in PostgreSQL; sessions, their index and the links *)
(* are keys in Redis.  Every step is one access to one of them, so that a  *)
(* sign-in, a request and a reset interleave where they wait.              *)
(***************************************************************************)
EXTENDS Integers, FiniteSets

CONSTANTS
  Passwords,
  Logins,       \* sign-ins in progress
  Requests,     \* authenticated requests in progress
  Resets,       \* confirmations of a reset in progress
  None,
  MaxSession,   \* session ids handed out
  MaxLinks,     \* reset links mailed
  MaxChanges,   \* changes of access by an administrator
  MaxCleanups   \* revocations of all sessions in progress at one time

Ids == 1..MaxSession
Links == 1..MaxLinks
Versions == 1..(1 + MaxLinks + MaxChanges)

VARIABLES
  user,        \* the row of users, None before the sign-up
  stored,      \* sess:<id>
  index,       \* user_sessions:<user>
  opened,      \* number of session ids handed out
  logins, requests, resets,
  owed,        \* calls of revokeUserSessions still to come
  revoking,    \* sets of ids that such a call has read
  resetLink,   \* otp:<email>:password_reset
  verifyLink,  \* otp:<email>:email_verification
  mailed,      \* number of reset links mailed
  used,        \* history: password changes by each link
  changes      \* history: changes of access so far

session == <<stored, index, opened>>
cleanup == <<owed, revoking>>
links == <<resetLink, verifyLink, mailed>>
vars == <<user, session, logins, requests, resets, cleanup, links, used, changes>>

User == [password : Passwords, auth_version : Versions, active : BOOLEAN,
         email_verified : BOOLEAN]

\* What a session keeps of the row that was read when it was opened; password
\* and changes are history, auth_version is stored.
Proof == [auth_version : Versions, password : Passwords, changes : 0..MaxChanges]

Login == [proof : Proof, previous : Ids \cup {None}, id : Ids \cup {None}]
Request == [id : Ids, proof : Proof, admitted : BOOLEAN]
Reset == [link : Links, password : Passwords, consumed : BOOLEAN]

ASSUME ConstantsAssumption ==
  /\ MaxSession \in Nat /\ MaxLinks \in Nat /\ MaxChanges \in Nat
  /\ MaxCleanups \in Nat
  /\ None \notin Ids \cup Links \cup User \cup Proof \cup Login \cup Request \cup Reset

TypeOK ==
  /\ user \in User \cup {None}
  /\ stored \in [Ids -> Proof \cup {None}]
  /\ index \subseteq Ids /\ opened \in 0..MaxSession
  /\ logins \in [Logins -> Login \cup {None}]
  /\ requests \in [Requests -> Request \cup {None}]
  /\ resets \in [Resets -> Reset \cup {None}]
  /\ owed \in Nat /\ revoking \subseteq SUBSET Ids
  /\ resetLink \in Links \cup {None} /\ verifyLink \in BOOLEAN
  /\ mailed \in 0..MaxLinks
  /\ used \in [Links -> Nat] /\ changes \in 0..MaxChanges

Init ==
  /\ user = None
  /\ stored = [s \in Ids |-> None] /\ index = {} /\ opened = 0
  /\ logins = [l \in Logins |-> None]
  /\ requests = [r \in Requests |-> None]
  /\ resets = [c \in Resets |-> None]
  /\ owed = 0 /\ revoking = {}
  /\ resetLink = None /\ verifyLink = FALSE /\ mailed = 0
  /\ used = [k \in Links |-> 0] /\ changes = 0

Live == {s \in Ids : stored[s] # None}
Without(ids) == [s \in Ids |-> IF s \in ids THEN None ELSE stored[s]]

-----------------------------------------------------------------------------
(* Sign-up and verification                                                *)

NewUser(p, verified) ==
  [password |-> p, auth_version |-> 1, active |-> TRUE, email_verified |-> verified]

\* userSignup mails a first link; resendVerification mails another.
UserSignup(p) ==
  /\ user = None
  /\ user' = NewUser(p, FALSE)
  /\ verifyLink' = TRUE
  /\ UNCHANGED <<session, logins, requests, resets, cleanup, resetLink, mailed, used, changes>>

ResendVerification ==
  /\ user # None /\ ~user.email_verified /\ ~verifyLink
  /\ verifyLink' = TRUE
  /\ UNCHANGED <<user, session, logins, requests, resets, cleanup, resetLink, mailed,
                 used, changes>>

VerifyEmail ==
  /\ verifyLink
  /\ verifyLink' = FALSE
  /\ user' = IF user.email_verified THEN user
             ELSE [user EXCEPT !.email_verified = TRUE, !.active = TRUE]
  /\ UNCHANGED <<session, logins, requests, resets, cleanup, resetLink, mailed, used, changes>>

\* A link passes its time, or the change after its consumption fails.
LoseLink ==
  /\ \/ verifyLink /\ verifyLink' = FALSE /\ UNCHANGED resetLink
     \/ resetLink # None /\ resetLink' = None /\ UNCHANGED verifyLink
  /\ UNCHANGED <<user, session, logins, requests, resets, cleanup, mailed, used, changes>>

-----------------------------------------------------------------------------
(* Sign-in                                                                 *)

ProofOf(row) ==
  [auth_version |-> row.auth_version, password |-> row.password, changes |-> changes]

Verified(l, row, previous) ==
  logins' = [logins EXCEPT ![l] =
    [proof |-> ProofOf(row), previous |-> previous, id |-> None]]

\* The browser sends the cookie of the session it has, if any.
Cookie == Live \cup {None}

\* userSignin reads the row and compares the password with it.
UserSignin(l, previous) ==
  /\ user # None /\ logins[l] = None
  /\ user.email_verified /\ user.active
  /\ Verified(l, user, previous)
  /\ UNCHANGED <<user, session, requests, resets, cleanup, links, used, changes>>

\* Google vouches for the address: an account is made with a random password, or
\* linked, and the one that is linked may be inactive.
GoogleSignin(l, previous, p) ==
  /\ logins[l] = None
  /\ user' = IF user = None THEN NewUser(p, TRUE) ELSE [user EXCEPT !.email_verified = TRUE]
  /\ Verified(l, user', previous)
  /\ UNCHANGED <<session, requests, resets, cleanup, links, used, changes>>

Reread(l) == [logins[l].proof EXCEPT !.auth_version = user.auth_version]  \* a mutant
Kept(l) == logins[l].proof

SameId(l) == IF logins[l].previous = None THEN opened + 1 ELSE logins[l].previous \* a mutant
NewId(l) == opened + 1

\* establishAuthenticatedSession: regenerate and save, then the index.
SaveSession(l) ==
  /\ logins[l] # None /\ logins[l].id = None
  /\ opened < MaxSession
  /\ opened' = opened + 1
  /\ stored' = [Without({logins[l].previous}) EXCEPT ![NewId(l)] = Kept(l)]
  /\ logins' = [logins EXCEPT ![l].id = NewId(l)]
  /\ UNCHANGED <<user, index, requests, resets, cleanup, links, used, changes>>

IndexSession(l) ==
  /\ logins[l] # None /\ logins[l].id # None
  /\ index' = (index \ {logins[l].previous}) \cup {logins[l].id}
  /\ logins' = [logins EXCEPT ![l] = None]
  /\ UNCHANGED <<user, stored, opened, requests, resets, cleanup, links, used, changes>>

\* Redis fails or the server stops between two steps.
AbortSignin(l) ==
  /\ logins[l] # None
  /\ logins' = [logins EXCEPT ![l] = None]
  /\ UNCHANGED <<user, session, requests, resets, cleanup, links, used, changes>>

-----------------------------------------------------------------------------
(* Requests                                                                *)

\* The session middleware reads the session.
Receive(r, s) ==
  /\ requests[r] = None /\ stored[s] # None
  /\ requests' = [requests EXCEPT ![r] = [id |-> s, proof |-> stored[s], admitted |-> FALSE]]
  /\ UNCHANGED <<user, session, logins, resets, cleanup, links, used, changes>>

\* hydrateAuthContext compares it with the row.
Current(proof) == proof.auth_version = user.auth_version /\ user.active

Admit(r) ==
  /\ requests[r] # None /\ ~requests[r].admitted
  /\ Current(requests[r].proof)
  /\ requests' = [requests EXCEPT ![r].admitted = TRUE]
  /\ UNCHANGED <<user, session, logins, resets, cleanup, links, used, changes>>

\* The first step of revokeUserSessions.
ReadIndex ==
  /\ Cardinality(revoking) < MaxCleanups
  /\ revoking' = revoking \cup {index}

\* A stale session makes it revoke all sessions of the account.
RejectStale(r) ==
  /\ requests[r] # None /\ ~requests[r].admitted
  /\ requests[r].proof.auth_version # user.auth_version
  /\ ReadIndex
  /\ requests' = [requests EXCEPT ![r] = None]
  /\ UNCHANGED <<user, session, logins, resets, owed, links, used, changes>>

\* The end of any other request only touches its session.
Respond(r) ==
  /\ requests[r] # None
  /\ requests' = [requests EXCEPT ![r] = None]
  /\ UNCHANGED <<user, session, logins, resets, cleanup, links, used, changes>>

\* refreshSession, and the first request after a sign-in, write what they read:
\* a session that was deleted meanwhile is there again.
SaveBack(r) ==
  /\ requests[r] # None /\ requests[r].admitted
  /\ stored' = [stored EXCEPT ![requests[r].id] = requests[r].proof]
  /\ requests' = [requests EXCEPT ![r] = None]
  /\ UNCHANGED <<user, index, opened, logins, resets, cleanup, links, used, changes>>

\* Reauthentication reads the row by the id of the session and rotates it.
Reauthenticate(r, l) ==
  /\ requests[r] # None /\ requests[r].admitted
  /\ logins[l] = None
  /\ Verified(l, user, requests[r].id)
  /\ requests' = [requests EXCEPT ![r] = None]
  /\ UNCHANGED <<user, session, resets, cleanup, links, used, changes>>

SignOut(r) ==
  /\ requests[r] # None /\ requests[r].admitted
  /\ stored' = Without({requests[r].id})
  /\ requests' = [requests EXCEPT ![r] = None]
  /\ UNCHANGED <<user, index, opened, logins, resets, cleanup, links, used, changes>>

RevokeUserSession(r, s) ==
  /\ requests[r] # None /\ requests[r].admitted
  /\ s \in index
  /\ stored' = Without({s}) /\ index' = index \ {s}
  /\ requests' = [requests EXCEPT ![r] = None]
  /\ UNCHANGED <<user, opened, logins, resets, cleanup, links, used, changes>>

\* By a super administrator.
RevokeSession(s) ==
  /\ stored[s] # None
  /\ stored' = Without({s}) /\ index' = index \ {s}
  /\ UNCHANGED <<user, opened, logins, requests, resets, cleanup, links, used, changes>>

\* getUserSessions removes what the index has in excess.
GetUserSessions(r) ==
  /\ requests[r] # None /\ requests[r].admitted
  /\ index \ Live # {}
  /\ index' = index \cap Live
  /\ requests' = [requests EXCEPT ![r] = None]
  /\ UNCHANGED <<user, stored, opened, logins, resets, cleanup, links, used, changes>>

-----------------------------------------------------------------------------
(* revokeUserSessions                                                      *)

ListSessions ==
  /\ owed > 0
  /\ owed' = owed - 1
  /\ ReadIndex
  /\ UNCHANGED <<user, session, logins, requests, resets, links, used, changes>>

DeleteSessions(ids) ==
  /\ ids \in revoking
  /\ stored' = Without(ids) /\ index' = {}
  /\ revoking' = revoking \ {ids}
  /\ UNCHANGED <<user, opened, logins, requests, resets, owed, links, used, changes>>

\* Redis fails, or the server stops.
FailCleanup ==
  /\ \/ owed > 0 /\ owed' = owed - 1 /\ UNCHANGED revoking
     \/ \E ids \in revoking : revoking' = revoking \ {ids} /\ UNCHANGED owed
  /\ UNCHANGED <<user, session, logins, requests, resets, links, used, changes>>

-----------------------------------------------------------------------------
(* Password reset and changes of access                                    *)

ForgotPassword ==
  /\ user # None
  /\ mailed < MaxLinks
  /\ mailed' = mailed + 1
  /\ resetLink' = mailed + 1
  /\ UNCHANGED <<user, session, logins, requests, resets, cleanup, verifyLink, used, changes>>

\* confirmPasswordReset compares the new password with the row, consumes the
\* link in one script, and writes the row.
CheckPassword(c, k, p) ==
  /\ resets[c] = None
  /\ k <= mailed /\ p # user.password
  /\ resets' = [resets EXCEPT ![c] = [link |-> k, password |-> p, consumed |-> FALSE]]
  /\ UNCHANGED <<user, session, logins, requests, cleanup, links, used, changes>>

ReadToken(k) == resetLink = k /\ UNCHANGED resetLink             \* a mutant
ConsumeAuthToken(k) == resetLink = k /\ resetLink' = None

ConsumeLink(c) ==
  /\ resets[c] # None /\ ~resets[c].consumed
  /\ ConsumeAuthToken(resets[c].link)
  /\ resets' = [resets EXCEPT ![c].consumed = TRUE]
  /\ UNCHANGED <<user, session, logins, requests, cleanup, verifyLink, mailed, used, changes>>

ChangePassword(c) ==
  /\ resets[c] # None /\ resets[c].consumed
  /\ user' = [user EXCEPT !.password = resets[c].password, !.auth_version = @ + 1]
  /\ used' = [used EXCEPT ![resets[c].link] = @ + 1]
  /\ owed' = owed + 1
  /\ resets' = [resets EXCEPT ![c] = None]
  /\ UNCHANGED <<session, logins, requests, revoking, links, changes>>

\* A refused link, an error, or the end of the server.
FailReset(c) ==
  /\ resets[c] # None
  /\ resets' = [resets EXCEPT ![c] = None]
  /\ UNCHANGED <<user, session, logins, requests, cleanup, links, used, changes>>

SetStatus(active) ==
  user' = [user EXCEPT !.active = active, !.auth_version = @ + 1]

\* updateAdmin, revokeAdmin and replaceAdminPermissions.
ChangeAccess(active) ==
  /\ user # None /\ user.email_verified
  /\ changes < MaxChanges
  /\ changes' = changes + 1
  /\ SetStatus(active)
  /\ owed' = owed + 1
  /\ UNCHANGED <<session, logins, requests, resets, revoking, links, used>>

-----------------------------------------------------------------------------

Next ==
  \/ \E p \in Passwords : UserSignup(p)
  \/ ResendVerification \/ VerifyEmail \/ LoseLink
  \/ \E l \in Logins :
       \/ \E previous \in Cookie :
            UserSignin(l, previous) \/ \E p \in Passwords : GoogleSignin(l, previous, p)
       \/ SaveSession(l) \/ IndexSession(l) \/ AbortSignin(l)
  \/ \E r \in Requests :
       \/ Admit(r) \/ RejectStale(r) \/ Respond(r)
       \/ SaveBack(r) \/ SignOut(r) \/ GetUserSessions(r)
       \/ \E s \in Ids : Receive(r, s) \/ RevokeUserSession(r, s)
       \/ \E l \in Logins : Reauthenticate(r, l)
  \/ \E s \in Ids : RevokeSession(s)
  \/ ListSessions \/ FailCleanup \/ \E ids \in revoking : DeleteSessions(ids)
  \/ ForgotPassword
  \/ \E c \in Resets :
       \/ \E k \in Links, p \in Passwords : CheckPassword(c, k, p)
       \/ ConsumeLink(c) \/ ChangePassword(c) \/ FailReset(c)
  \/ \E active \in BOOLEAN : ChangeAccess(active)

Spec == Init /\ [][Next]_vars

-----------------------------------------------------------------------------
(* Properties                                                              *)

\* A session that would be admitted was opened with the present password and
\* after the last change of access, also when the sign-in was under way while
\* either changed, and whether or not the clean-up of sessions succeeded; every
\* variable has its type.
SessionsCurrent ==
  /\ TypeOK
  /\ \A s \in Live : Current(stored[s]) =>
       stored[s].password = user.password /\ stored[s].changes = changes

\* A reset link changes the password once at most, also when it is submitted
\* twice at the same time.
LinksWorkOnce ==
  \A k \in Links :
    used[k] + Cardinality({c \in Resets :
      resets[c] # None /\ resets[c].link = k /\ resets[c].consumed}) <= 1

\* The id of a session that was ended is not used again, except by a request
\* that had read the session before: a sign-in never continues an old id.
EndedStaysEnded ==
  [][ \A s \in Ids :
        s <= opened /\ s \notin Live /\ (\A r \in Requests : requests[r] = None \/ requests[r].id # s)
          => stored'[s] = None ]_vars

=============================================================================
