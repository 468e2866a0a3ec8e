---------------------------- MODULE Administration ----------------------------
(***************************************************************************)
(* Administrators of one scope, the platform's or a vendor's: invitation,  *)
(* activation, suspension, revocation and the replacement of permissions   *)
(* (models/admins.model.js, admin.controller.js, permission.controller.js, *)
(* utils/access-control.js, auth.middleware.js).                           *)
(*                                                                         *)
(* A request passes its middleware first, which reads the grants of the    *)
(* actor, and runs its transaction later.  A replacement takes two steps   *)
(* in its transaction: it checks under the lock of its target, with an     *)
(* unlocked read of the actor's grants, and it writes.  The other          *)
(* transactions are one action each.                                       *)
(***************************************************************************)
EXTENDS Integers, FiniteSets

CONSTANTS
  Owner,        \* the super administrator, or the vendor
  Admins,       \* accounts that the owner's staff may have
  Rights,       \* pairs of a resource and an action
  Manage,       \* the right to read, update and delete admins
  Invite,       \* the right to create admins, of a vendor's staff only
  Limited,      \* rights that are granted with an expires_at
  Scope,        \* of the administrators: "platform" or "vendor"
  None,
  MaxVersion,   \* bound on authz_version
  MaxWorking    \* actors with a page or a request at one time

Actors == Admins \cup {Owner}
AdminStatus == {"none", "invited", "active", "suspended", "revoked"}

ASSUME ConstantsAssumption ==
  /\ Owner \notin Admins /\ None \notin Actors \cup Rights
  /\ {Manage} \cup Limited \subseteq Rights
  /\ Scope \in {"platform", "vendor"}
  /\ MaxVersion \in Nat \ {0} /\ MaxWorking \in Nat

VARIABLES
  admins,     \* rows of admins and of users
  grants,     \* rows of admin_permissions
  lapsed,     \* rights whose expires_at has passed
  current,    \* administrators with a session of the current auth_version
  admitted,   \* per actor: the right its request in progress has shown
  page,       \* per actor: the permissions it has loaded to edit
  staged      \* per actor: the replacement its transaction is writing

vars == <<admins, grants, lapsed, current, admitted, page, staged>>

\* A row of admins, with status and email_verified of its user.  A token is
\* there until it is used, replaced, cleared or expired; activated stands for
\* an activated_at, which is never cleared.
Row == [status : AdminStatus, token : BOOLEAN, activated : BOOLEAN,
        version : 0..MaxVersion,
        user : {"inactive", "active", "suspended"}, verified : BOOLEAN]

\* The rows of an administrator share their status: a revocation clears it on
\* all of them, a replacement sets it on those it keeps.
Grants == [rights : SUBSET Rights, status : BOOLEAN]

Page == [target : Admins, version : 0..MaxVersion, seen : Grants \cup {None}]
Change == [target : Admins, rights : SUBSET Rights, seen : Grants]

TypeOK ==
  /\ admins \in [Admins -> Row]
  /\ grants \in [Admins -> Grants]
  /\ lapsed \in [Admins -> SUBSET Rights]
  /\ current \subseteq Admins
  /\ admitted \in [Actors -> {None, Manage, Invite}]
  /\ page \in [Actors -> Page \cup {None}]
  /\ staged \in [Actors -> Change \cup {None}]

Init ==
  /\ admins = [a \in Admins |-> [status |-> "none", token |-> FALSE, activated |-> FALSE,
                                 version |-> 0, user |-> "inactive",
                                 verified |-> FALSE]]
  /\ grants = [a \in Admins |-> [rights |-> {}, status |-> TRUE]]
  /\ lapsed = [a \in Admins |-> {}]
  /\ current = {}
  /\ admitted = [x \in Actors |-> None]
  /\ page = [x \in Actors |-> None]
  /\ staged = [x \in Actors |-> None]

Exists(a) == admins[a].status # "none"

-----------------------------------------------------------------------------
(* Access                                                                  *)

\* The grants that the checks read: rows of status true that have not expired.
Effective(a) == IF grants[a].status THEN grants[a].rights \ lapsed[a] ELSE {}

\* hydrateAuthContext.
HasAccess(a) ==
  a \in current /\ admins[a].user = "active" /\ admins[a].status = "active"

\* checkPermission; on the platform only the super administrator invites.
Permitted(x, right) ==
  \/ x = Owner
  \/ /\ x \in Admins /\ HasAccess(x)
     /\ right \in Effective(x)
     /\ right = Invite => Scope = "vendor"

Working == {x \in Actors : admitted[x] # None \/ staged[x] # None \/ page[x] # None}
MayWork(x) == x \in Working \/ Cardinality(Working) < MaxWorking

\* The middleware of a request.
Authorize(x, right) ==
  /\ admitted[x] = None /\ staged[x] = None /\ MayWork(x)
  /\ Permitted(x, right)
  /\ admitted' = [admitted EXCEPT ![x] = right]
  /\ UNCHANGED <<admins, grants, lapsed, current, page, staged>>

\* A request that its transaction refuses, or that ends with its process.
Refuse(x) ==
  /\ x \in Working /\ staged[x] = None
  /\ admitted' = [admitted EXCEPT ![x] = None]
  /\ page' = [page EXCEPT ![x] = None]
  /\ UNCHANGED <<admins, grants, lapsed, current, staged>>

\* lockAdmin takes the rows of the target; the audit record of a transaction
\* refers to the actor's user and waits while someone has locked that row.
Unlocked(a) == ~\E x \in Actors : staged[x] # None /\ staged[x].target = a

\* canManageAdminTarget: everyone of the scope but oneself and its owner.
Manageable(x, a) ==
  /\ x # a /\ Exists(a) /\ Unlocked(a)
  /\ x \in Admins => Unlocked(x)

\* The transaction of an admitted request.
Execute(x, right) ==
  /\ admitted[x] = right
  /\ admitted' = [admitted EXCEPT ![x] = None]

Bumped(a, row) == [row EXCEPT !.version = admins[a].version + 1]
SetRow(a, row) ==
  /\ row.version <= MaxVersion
  /\ admins' = [admins EXCEPT ![a] = row]

\* A change of users.auth_version ends the sessions of the account.
EndSessions(a) == current' = current \ {a}

-----------------------------------------------------------------------------
(* Invitation                                                              *)

CreateAdmin(x, a) ==
  /\ Execute(x, Invite)
  /\ x \in Admins => Unlocked(x)
  /\ ~Exists(a)
  /\ admins' = [admins EXCEPT ![a].status = "invited", ![a].token = TRUE, ![a].version = 1]
  /\ UNCHANGED <<grants, lapsed, current, page, staged>>

RotateInvitation(x, a) ==
  /\ Execute(x, Invite) /\ Manageable(x, a)
  /\ admins[a].status = "invited"
  /\ SetRow(a, [Bumped(a, admins[a]) EXCEPT !.token = TRUE])
  /\ UNCHANGED <<grants, lapsed, current, page, staged>>

AcceptInvitation(a) ==
  /\ admins[a].token /\ admins[a].status = "invited" /\ Unlocked(a)
  /\ SetRow(a, [Bumped(a, admins[a]) EXCEPT !.status = "active", !.token = FALSE,
                                            !.activated = TRUE,
                                            !.user = "active", !.verified = TRUE])
  /\ EndSessions(a)
  /\ UNCHANGED <<grants, lapsed, admitted, page, staged>>

\* invitation_expires_at passes.
ExpireInvitation(a) ==
  /\ admins[a].token
  /\ admins' = [admins EXCEPT ![a].token = FALSE]
  /\ UNCHANGED <<grants, lapsed, current, admitted, page, staged>>

\* The link of verifyEmail, which an invited address may ask for as well.
AwaitsVerification(a) == ~admins[a].verified
VerifyEmail(a) ==
  /\ Exists(a) /\ Unlocked(a)
  /\ AwaitsVerification(a)
  /\ admins' = [admins EXCEPT ![a].verified = TRUE, ![a].user = "active"]
  /\ UNCHANGED <<grants, lapsed, current, admitted, page, staged>>

\* userSignin.
SignIn(a) ==
  /\ admins[a].user = "active" /\ admins[a].verified
  /\ a \notin current
  /\ current' = current \cup {a}
  /\ UNCHANGED <<admins, grants, lapsed, admitted, page, staged>>

-----------------------------------------------------------------------------
(* Suspension and revocation                                               *)

UpdateAdmin(x, a, status) ==
  /\ Execute(x, Manage) /\ Manageable(x, a)
  /\ admins[a].status \notin {"invited", "revoked", status}
  /\ SetRow(a, [Bumped(a, admins[a]) EXCEPT
                  !.status = status, !.user = status,
                  !.activated = @ \/ status = "active",
                  !.token = IF status = "suspended" THEN FALSE ELSE @])
  /\ EndSessions(a)
  /\ UNCHANGED <<grants, lapsed, page, staged>>

RevokeGrantsOnly(x, a) ==                                        \* a mutant
  /\ Execute(x, Manage) /\ Manageable(x, a)
  /\ SetRow(a, [Bumped(a, admins[a]) EXCEPT !.status = "revoked", !.token = FALSE])
  /\ grants' = [grants EXCEPT ![a].status = FALSE]
  /\ EndSessions(a)
  /\ UNCHANGED <<lapsed, page, staged>>

RevokeAdmin(x, a) ==
  /\ Execute(x, Manage) /\ Manageable(x, a)
  /\ SetRow(a, [Bumped(a, admins[a]) EXCEPT
                  !.status = "revoked", !.user = "inactive", !.token = FALSE])
  /\ grants' = [grants EXCEPT ![a].status = FALSE]
  /\ EndSessions(a)
  /\ UNCHANGED <<lapsed, page, staged>>

\* expires_at of a grant passes.
LapseGrant(a, right) ==
  /\ right \in Effective(a)
  /\ lapsed' = [lapsed EXCEPT ![a] = @ \cup {right}]
  /\ UNCHANGED <<admins, grants, current, admitted, page, staged>>

-----------------------------------------------------------------------------
(* Replacement of permissions                                              *)

\* fetchPermissionsWithClient: first the version, then the rows.
LoadVersion(x, a) ==
  /\ Permitted(x, Manage) /\ MayWork(x) /\ Exists(a)
  /\ page' = [page EXCEPT ![x] =
                [target |-> a, version |-> admins[a].version, seen |-> None]]
  /\ UNCHANGED <<admins, grants, lapsed, current, admitted, staged>>

LoadGrants(x) ==
  /\ page[x] # None /\ page[x].seen = None
  /\ page' = [page EXCEPT ![x].seen = grants[page[x].target]]
  /\ UNCHANGED <<admins, grants, lapsed, current, admitted, staged>>

AnyVersion(x) == TRUE                                            \* a mutant
VersionMatches(x) == page[x].version = admins[page[x].target].version

NotRevoked(a) == admins[a].status # "revoked"

DelegableRevoked(x, rights) ==                                   \* a mutant
  x \in Admins => rights \subseteq grants[x].rights \ lapsed[x]
\* canDelegateGrant: administrators grant only what they hold.
Delegable(x, rights) == x \in Admins => rights \subseteq Effective(x)

CheckReplacement(x, rights) ==
  /\ Execute(x, Manage)
  /\ page[x] # None /\ page[x].seen # None
  /\ Manageable(x, page[x].target)
  /\ VersionMatches(x)
  /\ NotRevoked(page[x].target)
  /\ Delegable(x, rights)
  /\ staged' = [staged EXCEPT ![x] = [target |-> page[x].target, rights |-> rights,
                                      seen |-> page[x].seen]]
  /\ page' = [page EXCEPT ![x] = None]
  /\ UNCHANGED <<admins, grants, lapsed, current>>

ReplacePermissions(x) ==
  /\ staged[x] # None
  /\ x \in Admins => Unlocked(x)
  /\ LET a == staged[x].target
     IN /\ SetRow(a, Bumped(a, admins[a]))
        /\ grants' = [grants EXCEPT ![a] = [rights |-> staged[x].rights, status |-> TRUE]]
        /\ lapsed' = [lapsed EXCEPT ![a] = {}]
        /\ EndSessions(a)
  /\ staged' = [staged EXCEPT ![x] = None]
  /\ UNCHANGED <<admitted, page>>

\* An error or a deadlock: two administrators who replace each other's
\* permissions wait for each other's rows until the database stops one.
Rollback(x) ==
  /\ staged[x] # None
  /\ staged' = [staged EXCEPT ![x] = None]
  /\ UNCHANGED <<admins, grants, lapsed, current, admitted, page>>

-----------------------------------------------------------------------------

Next ==
  \/ \E x \in Actors :
       \/ \E right \in {Manage, Invite} : Authorize(x, right)
       \/ Refuse(x)
       \/ LoadGrants(x) \/ ReplacePermissions(x) \/ Rollback(x)
       \/ \E rights \in SUBSET Rights : CheckReplacement(x, rights)
  \/ \E x \in Actors, a \in Admins :
       \/ CreateAdmin(x, a) \/ RotateInvitation(x, a) \/ RevokeAdmin(x, a)
       \/ LoadVersion(x, a)
       \/ \E status \in {"active", "suspended"} : UpdateAdmin(x, a, status)
  \/ \E a \in Admins :
       \/ AcceptInvitation(a) \/ ExpireInvitation(a) \/ VerifyEmail(a) \/ SignIn(a)
       \/ \E right \in Limited : LapseGrant(a, right)

Spec == Init /\ [][Next]_vars

-----------------------------------------------------------------------------
(* Properties                                                              *)

\* The administrator and its user tell the same story, whatever of the admin
\* routes, the invitation and the verification link came last: an active one
\* can sign in and a suspended one cannot.  One who was ever activated and is
\* revoked has an inactive user and no session, and the verification link,
\* which makes any unverified user active, is of no use to it.  (It does serve
\* one who was revoked while invited: such a user can sign in, without access.)
StatusesAgree ==
  /\ TypeOK
  /\ \A a \in Admins :
     /\ admins[a].status = "active" => admins[a].user = "active" /\ admins[a].verified
     /\ admins[a].status = "suspended" => admins[a].user = "suspended"
     /\ admins[a].status \in {"active", "suspended"} => admins[a].activated
     /\ admins[a].status = "revoked" /\ admins[a].activated =>
          admins[a].user = "inactive" /\ a \notin current
     /\ admins[a].activated => admins[a].verified
     /\ admins[a].user # "inactive" => admins[a].verified
     /\ admins[a].token => admins[a].status = "invited"

\* Nothing is left to a revoked administrator, also when a replacement of its
\* permissions or a renewal of its invitation was under way: no grant that a
\* check would read, and no invitation to come back by.
RevokedHoldsNothing ==
  \A a \in Admins : admins[a].status = "revoked" => Effective(a) = {} /\ ~admins[a].token

\* Rows, users, sessions and rights agree at every moment.
AdministrationSound == StatusesAgree /\ RevokedHoldsNothing

\* A replacement overwrites exactly the permissions its author saw: of two who
\* edit at the same time one is told to reload.
NoLostUpdate ==
  [][ \A x \in Actors :
        ReplacePermissions(x) => grants[staged[x].target] = staged[x].seen ]_vars

\* Administrators pass on rights and never raise them: a right that nobody
\* holds, and nobody is granting, returns through the owner only.
Circulating == UNION ({Effective(a) : a \in Admins}
                      \cup {staged[x].rights : x \in {y \in Admins : staged[y] # None}})
NoEscalation ==
  [][ ReplacePermissions(Owner) \/ Circulating' \subseteq Circulating ]_vars

=============================================================================
