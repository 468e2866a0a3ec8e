------------------------- MODULE AdministrationProofs -------------------------
(***************************************************************************)
(* Proofs about Administration for every set of administrators and rights, *)
(* in either scope.                                                        *)
(***************************************************************************)
EXTENDS Administration, TLAPS

USE ConstantsAssumption

\* A replacement is written under the lock of its target, which was checked to
\* be there and not revoked, and one transaction at a time has that lock.
LocksHeld ==
  /\ \A x \in Actors : staged[x] # None =>
       admins[staged[x].target].status \notin {"none", "revoked"}
  /\ \A x, y \in Actors :
       staged[x] # None /\ staged[y] # None /\ staged[x].target = staged[y].target => x = y

\* Every change of the rights of an administrator raises its version, so that
\* a page of the present version shows the present rights; a transaction that
\* has checked the version knows them.
PagesBehind ==
  /\ \A x \in Actors : page[x] # None =>
       LET row == admins[page[x].target]
       IN /\ row.status # "none"
          /\ page[x].version <= row.version
          /\ page[x].seen # None /\ page[x].version = row.version =>
               grants[page[x].target] = page[x].seen
  /\ \A x \in Actors : staged[x] # None =>
       grants[staged[x].target] = staged[x].seen

RevokedCleared ==
  \A a \in Admins : admins[a].status = "revoked" => ~grants[a].status /\ ~admins[a].token

AdministrationInv == StatusesAgree /\ RevokedCleared /\ LocksHeld /\ PagesBehind

-----------------------------------------------------------------------------
(* Steps by the part of the state they change                              *)

LEMMA Types ==
  ASSUME TypeOK
  PROVE  /\ \A a \in Admins : admins[a] \in Row /\ grants[a] \in Grants
         /\ \A x \in Actors : page[x] # None => page[x] \in Page
         /\ \A x \in Actors : staged[x] # None => staged[x] \in Change
  BY DEF TypeOK

LEMMA InitInv == Init => AdministrationInv
<1> SUFFICES ASSUME Init PROVE AdministrationInv
  OBVIOUS
<1>1. TypeOK
  BY DEF Init, TypeOK, Row, Grants, AdminStatus
<1>2. StatusesAgree
  BY <1>1 DEF Init, StatusesAgree
<1>3. RevokedCleared
  BY DEF Init, RevokedCleared
<1>4. LocksHeld /\ PagesBehind
  BY DEF Init, LocksHeld, PagesBehind
<1> QED
  BY <1>2, <1>3, <1>4 DEF AdministrationInv

\* Actions on the row of one administrator that leave its rights alone.
LEMMA RowStep ==
  ASSUME AdministrationInv, NEW a \in Admins, NEW row \in Row,
         admins' = [admins EXCEPT ![a] = row],
         current' \subseteq current, admitted' \in [Actors -> {None, Manage, Invite}],
         UNCHANGED <<grants, lapsed, page, staged>>,
         row.status = "active" => row.user = "active" /\ row.verified,
         row.status = "suspended" => row.user = "suspended",
         row.status \in {"active", "suspended"} => row.activated,
         row.activated => row.verified,
         row.status = "revoked" /\ row.activated => row.user = "inactive" /\ a \notin current',
         row.user # "inactive" => row.verified,
         row.token => row.status = "invited",
         row.status # "none",
         row.status = "revoked" => admins[a].status = "revoked",
         row.version >= admins[a].version \/ admins[a].status = "none"
  PROVE  AdministrationInv'
<1> USE DEF AdministrationInv
<1>1. TypeOK
  BY DEF StatusesAgree
<1>2. /\ admins'[a] = row
      /\ \A b \in Admins : b # a => admins'[b] = admins[b]
  BY <1>1 DEF TypeOK
<1>3. TypeOK'
  BY <1>1 DEF TypeOK
<1>4. StatusesAgree'
  BY <1>2, <1>3 DEF StatusesAgree
<1>5. RevokedCleared'
  BY <1>2 DEF RevokedCleared
<1>6. LocksHeld'
  BY <1>1, <1>2, Types DEF LocksHeld, Change
<1>7. PagesBehind'
  <2>1. ASSUME NEW x \in Actors, page[x] # None
        PROVE  LET r == admins'[page[x].target]
               IN /\ r.status # "none"
                  /\ page[x].version <= r.version
                  /\ page[x].seen # None /\ page[x].version = r.version =>
                       grants[page[x].target] = page[x].seen
    <3>1. page[x].target \in Admins /\ page[x].version \in Nat
      BY <1>1, <2>1, Types DEF Page
    <3>2. /\ admins[page[x].target].status # "none"
          /\ page[x].version <= admins[page[x].target].version
          /\ page[x].seen # None /\ page[x].version = admins[page[x].target].version =>
               grants[page[x].target] = page[x].seen
      BY <2>1 DEF PagesBehind
    <3>3. admins[a].version \in Nat /\ row.version \in Nat
      BY <1>1, Types DEF Row
    <3>4. CASE page[x].target = a
      BY <1>2, <3>1, <3>2, <3>3, <3>4
    <3>5. CASE page[x].target # a
      BY <1>2, <3>1, <3>2, <3>5
    <3> QED
      BY <3>4, <3>5
  <2> QED
    BY <2>1 DEF PagesBehind
<1> QED
  BY <1>4, <1>5, <1>6, <1>7

\* Actions on what requests have shown or loaded.
LEMMA RequestStep ==
  ASSUME AdministrationInv, UNCHANGED <<admins, grants, staged>>,
         lapsed' \in [Admins -> SUBSET Rights], current' \subseteq Admins,
         \A a \in current' : a \in current \/ admins[a].user = "active",
         admitted' \in [Actors -> {None, Manage, Invite}],
         page' \in [Actors -> Page \cup {None}],
         \A x \in Actors : page'[x] # None => \/ page'[x] = page[x]
           \/ /\ admins[page'[x].target].status # "none"
              /\ page'[x].version <= admins[page'[x].target].version
              /\ page'[x].seen \in {None, grants[page'[x].target]}
  PROVE  AdministrationInv'
<1> USE DEF AdministrationInv
<1>1. TypeOK'
  BY DEF StatusesAgree, TypeOK
<1>2. StatusesAgree' /\ RevokedCleared' /\ LocksHeld'
  BY <1>1 DEF StatusesAgree, RevokedCleared, LocksHeld
<1>3. PagesBehind'
  BY DEF PagesBehind
<1> QED
  BY <1>2, <1>3

-----------------------------------------------------------------------------
(* Each action                                                             *)

LEMMA AuthorizeInv ==
  ASSUME AdministrationInv, NEW x \in Actors, NEW right \in {Manage, Invite},
         Authorize(x, right)
  PROVE  AdministrationInv'
  BY RequestStep DEF Authorize, AdministrationInv, StatusesAgree, TypeOK

LEMMA RefuseInv ==
  ASSUME AdministrationInv, NEW x \in Actors, Refuse(x)
  PROVE  AdministrationInv'
  BY RequestStep DEF Refuse, AdministrationInv, StatusesAgree, TypeOK

LEMMA LapseGrantInv ==
  ASSUME AdministrationInv, NEW a \in Admins, NEW right \in Limited, LapseGrant(a, right)
  PROVE  AdministrationInv'
  BY RequestStep DEF LapseGrant, AdministrationInv, StatusesAgree, TypeOK

LEMMA SignInInv ==
  ASSUME AdministrationInv, NEW a \in Admins, SignIn(a)
  PROVE  AdministrationInv'
  BY RequestStep DEF SignIn, AdministrationInv, StatusesAgree, TypeOK

LEMMA LoadVersionInv ==
  ASSUME AdministrationInv, NEW x \in Actors, NEW a \in Admins, LoadVersion(x, a)
  PROVE  AdministrationInv'
<1>1. TypeOK /\ admins[a] \in Row
  BY Types DEF AdministrationInv, StatusesAgree
<1>2. [target |-> a, version |-> admins[a].version, seen |-> None] \in Page
  BY <1>1 DEF Page, Row
<1>3. page' \in [Actors -> Page \cup {None}]
  BY <1>1, <1>2 DEF LoadVersion, TypeOK
<1>4. admins[a].version <= admins[a].version
  BY <1>1 DEF Row
<1>5. \A y \in Actors : page'[y] # None =>
        \/ page'[y] = page[y]
        \/ /\ admins[page'[y].target].status # "none"
           /\ page'[y].version <= admins[page'[y].target].version
           /\ page'[y].seen \in {None, grants[page'[y].target]}
  BY <1>1, <1>4 DEF LoadVersion, Exists, TypeOK
<1> QED
  BY <1>1, <1>3, <1>5, RequestStep DEF LoadVersion, TypeOK

LEMMA LoadGrantsInv ==
  ASSUME AdministrationInv, NEW x \in Actors, LoadGrants(x)
  PROVE  AdministrationInv'
<1>1. TypeOK /\ page[x] \in Page /\ page[x].target \in Admins /\ page[x] # None
  BY Types DEF AdministrationInv, StatusesAgree, LoadGrants, Page
<1>2. grants[page[x].target] \in Grants
  BY <1>1, Types
<1>3. page' \in [Actors -> Page \cup {None}]
  BY <1>1, <1>2 DEF LoadGrants, TypeOK, Page
<1>4. /\ page'[x].target = page[x].target /\ page'[x].version = page[x].version
      /\ page'[x].seen = grants[page[x].target]
      /\ \A y \in Actors : y # x => page'[y] = page[y]
  BY <1>1 DEF LoadGrants, TypeOK, Page
<1>5. /\ admins[page[x].target].status # "none"
      /\ page[x].version <= admins[page[x].target].version
  BY <1>1 DEF AdministrationInv, PagesBehind
<1> QED
  BY <1>1, <1>3, <1>4, <1>5, RequestStep DEF LoadGrants, TypeOK

LEMMA CreateAdminInv ==
  ASSUME AdministrationInv, NEW x \in Actors, NEW a \in Admins, CreateAdmin(x, a)
  PROVE  AdministrationInv'
<1> DEFINE row == [admins[a] EXCEPT !.status = "invited", !.token = TRUE, !.version = 1]
<1>1. TypeOK /\ admins[a] \in Row
  BY Types DEF AdministrationInv, StatusesAgree
<1>2. row \in Row
  <2>1. "invited" \in AdminStatus /\ 1 \in 0..MaxVersion
    BY DEF AdminStatus
  <2> QED
    BY <1>1, <2>1 DEF Row
<1>3. admins' = [admins EXCEPT ![a] = row]
  BY <1>1 DEF CreateAdmin, TypeOK, Row
<1>4. /\ row.user # "inactive" => row.verified
      /\ row.activated => row.verified
  BY <1>1 DEF AdministrationInv, StatusesAgree, Row
<1>5. /\ row.status = "invited" /\ admins[a].status = "none"
      /\ UNCHANGED <<grants, lapsed, current, page, staged>>
  BY <1>1 DEF CreateAdmin, Exists, Row
<1>6. current' \subseteq current /\ admitted' \in [Actors -> {None, Manage, Invite}]
  BY <1>1, <1>5 DEF CreateAdmin, Execute, TypeOK
<1> QED
  BY <1>2, <1>3, <1>4, <1>5, <1>6, RowStep

\* A row that SetRow accepts, with the version raised.
LEMMA BumpedRow ==
  ASSUME TypeOK, NEW a \in Admins, Bumped(a, admins[a]).version <= MaxVersion
  PROVE  /\ Bumped(a, admins[a]) \in Row
         /\ Bumped(a, admins[a]).version >= admins[a].version
<1>1. admins[a] \in Row /\ admins[a].version \in Nat
  BY Types DEF Row
<1>2. Bumped(a, admins[a]).version = admins[a].version + 1
  BY <1>1 DEF Bumped, Row
<1>3. admins[a].version + 1 \in 0..MaxVersion
  BY <1>1, <1>2
<1>4. Bumped(a, admins[a]) \in Row
  BY <1>1, <1>3 DEF Bumped, Row
<1> QED
  BY <1>1, <1>2, <1>4

LEMMA RotateInvitationInv ==
  ASSUME AdministrationInv, NEW x \in Actors, NEW a \in Admins, RotateInvitation(x, a)
  PROVE  AdministrationInv'
<1> DEFINE row == [Bumped(a, admins[a]) EXCEPT !.token = TRUE]
<1>1. TypeOK /\ admins[a] \in Row
  BY Types DEF AdministrationInv, StatusesAgree
<1>2. row.version <= MaxVersion /\ admins' = [admins EXCEPT ![a] = row]
  BY DEF RotateInvitation, SetRow
<1>3. Bumped(a, admins[a]).version <= MaxVersion
  BY <1>1, <1>2 DEF Bumped, Row
<1>4. row \in Row /\ row.version >= admins[a].version
  <2>1. /\ Bumped(a, admins[a]) \in Row
        /\ Bumped(a, admins[a]).version >= admins[a].version
    BY <1>1, <1>3, BumpedRow
  <2> QED
    BY <2>1 DEF Row
<1>5. /\ row.user # "inactive" => row.verified
      /\ row.activated => row.verified
  BY <1>1 DEF AdministrationInv, StatusesAgree, Bumped, Row
<1>6. row.status = "invited"
  BY <1>1 DEF RotateInvitation, Bumped, Row
<1> QED
  BY <1>1, <1>2, <1>4, <1>5, <1>6, RowStep DEF RotateInvitation, Execute, TypeOK

LEMMA AcceptInvitationInv ==
  ASSUME AdministrationInv, NEW a \in Admins, AcceptInvitation(a)
  PROVE  AdministrationInv'
<1> DEFINE row == [Bumped(a, admins[a]) EXCEPT !.status = "active", !.token = FALSE,
                                               !.activated = TRUE,
                                               !.user = "active", !.verified = TRUE]
<1>1. TypeOK /\ admins[a] \in Row
  BY Types DEF AdministrationInv, StatusesAgree
<1>2. row.version <= MaxVersion /\ admins' = [admins EXCEPT ![a] = row]
  BY DEF AcceptInvitation, SetRow
<1>3. Bumped(a, admins[a]).version <= MaxVersion
  BY <1>1, <1>2 DEF Bumped, Row
<1>4. row \in Row /\ row.version >= admins[a].version
  <2>1. /\ Bumped(a, admins[a]) \in Row
        /\ Bumped(a, admins[a]).version >= admins[a].version
    BY <1>1, <1>3, BumpedRow
  <2> QED
    BY <2>1 DEF Row, AdminStatus
<1>5. /\ row.status = "active" /\ row.user = "active" /\ row.verified /\ ~row.token
      /\ row.activated
  BY <1>1 DEF Bumped, Row
<1> QED
  BY <1>1, <1>2, <1>4, <1>5, RowStep DEF AcceptInvitation, EndSessions, TypeOK

LEMMA ExpireInvitationInv ==
  ASSUME AdministrationInv, NEW a \in Admins, ExpireInvitation(a)
  PROVE  AdministrationInv'
<1> DEFINE row == [admins[a] EXCEPT !.token = FALSE]
<1>1. TypeOK /\ admins[a] \in Row
  BY Types DEF AdministrationInv, StatusesAgree
<1>2. admins' = [admins EXCEPT ![a] = row] /\ row \in Row
  BY <1>1 DEF ExpireInvitation, TypeOK, Row
<1>3. admins[a].status = "invited"
  BY DEF ExpireInvitation, AdministrationInv, StatusesAgree
<1>4. /\ row.status = "invited" /\ ~row.token /\ row.version >= admins[a].version
      /\ row.user # "inactive" => row.verified
      /\ row.activated => row.verified
  BY <1>1, <1>3 DEF AdministrationInv, StatusesAgree, Row
<1> QED
  BY <1>1, <1>2, <1>4, RowStep DEF ExpireInvitation, TypeOK

LEMMA VerifyEmailInv ==
  ASSUME AdministrationInv, NEW a \in Admins, VerifyEmail(a)
  PROVE  AdministrationInv'
<1> DEFINE row == [admins[a] EXCEPT !.verified = TRUE, !.user = "active"]
<1>1. TypeOK /\ admins[a] \in Row
  BY Types DEF AdministrationInv, StatusesAgree
<1>2. admins' = [admins EXCEPT ![a] = row] /\ row \in Row
  BY <1>1 DEF VerifyEmail, TypeOK, Row
<1>3. admins[a].status \notin {"none", "active", "suspended"} /\ ~admins[a].activated
  BY DEF VerifyEmail, AwaitsVerification, Exists, AdministrationInv, StatusesAgree
<1>4. /\ row.status = admins[a].status /\ row.user = "active" /\ row.verified
      /\ row.activated = admins[a].activated
      /\ row.token => row.status = "invited"
      /\ row.version >= admins[a].version
  BY <1>1 DEF AdministrationInv, StatusesAgree, Row
<1>5. UNCHANGED <<grants, lapsed, current, admitted, page, staged>>
  BY DEF VerifyEmail
<1>6. current' \subseteq current /\ admitted' \in [Actors -> {None, Manage, Invite}]
  BY <1>1, <1>5 DEF TypeOK
<1> QED
  BY <1>2, <1>3, <1>4, <1>5, <1>6, RowStep

LEMMA UpdateAdminInv ==
  ASSUME AdministrationInv, NEW x \in Actors, NEW a \in Admins,
         NEW status \in {"active", "suspended"}, UpdateAdmin(x, a, status)
  PROVE  AdministrationInv'
<1> DEFINE row == [Bumped(a, admins[a]) EXCEPT
                     !.status = status, !.user = status,
                     !.activated = @ \/ status = "active",
                     !.token = IF status = "suspended" THEN FALSE ELSE @]
<1>1. TypeOK /\ admins[a] \in Row
  BY Types DEF AdministrationInv, StatusesAgree
<1>2. row.version <= MaxVersion /\ admins' = [admins EXCEPT ![a] = row]
  BY DEF UpdateAdmin, SetRow
<1>3. Bumped(a, admins[a]).version <= MaxVersion
  BY <1>1, <1>2 DEF Bumped, Row
<1>4. row \in Row /\ row.version >= admins[a].version
  <2>1. /\ Bumped(a, admins[a]) \in Row
        /\ Bumped(a, admins[a]).version >= admins[a].version
    BY <1>1, <1>3, BumpedRow
  <2> QED
    BY <2>1 DEF Row, AdminStatus
<1>5. admins[a].status \in {"active", "suspended"}
  BY <1>1 DEF UpdateAdmin, Manageable, Exists, Row, AdminStatus
<1>6. admins[a].verified /\ ~admins[a].token /\ admins[a].activated
  BY <1>5 DEF AdministrationInv, StatusesAgree
<1>7. /\ row.status = status /\ row.user = status /\ row.verified /\ ~row.token
      /\ row.activated
  BY <1>1, <1>6 DEF Bumped, Row
<1> QED
  BY <1>1, <1>2, <1>4, <1>7, RowStep DEF UpdateAdmin, Execute, EndSessions, TypeOK

\* A revocation waits for the transactions that write the same administrator.
LEMMA RevokeAdminInv ==
  ASSUME AdministrationInv, NEW x \in Actors, NEW a \in Admins, RevokeAdmin(x, a)
  PROVE  AdministrationInv'
<1> DEFINE row == [Bumped(a, admins[a]) EXCEPT
                     !.status = "revoked", !.user = "inactive", !.token = FALSE]
<1>1. TypeOK /\ admins[a] \in Row /\ grants[a] \in Grants
  BY Types DEF AdministrationInv, StatusesAgree
<1>2. row.version <= MaxVersion /\ admins' = [admins EXCEPT ![a] = row]
  BY DEF RevokeAdmin, SetRow
<1>3. Bumped(a, admins[a]).version <= MaxVersion
  BY <1>1, <1>2 DEF Bumped, Row
<1>4. row \in Row /\ row.version = admins[a].version + 1
  <2>1. Bumped(a, admins[a]) \in Row
    BY <1>1, <1>3, BumpedRow
  <2>2. Bumped(a, admins[a]).version = admins[a].version + 1
    BY <1>1 DEF Bumped, Row
  <2> QED
    BY <2>1, <2>2 DEF Row, AdminStatus
<1>5. row.status = "revoked" /\ row.user = "inactive" /\ ~row.token
  BY <1>1 DEF Bumped, Row
<1>6. /\ admins'[a] = row
      /\ \A b \in Admins : b # a => admins'[b] = admins[b] /\ grants'[b] = grants[b]
      /\ ~grants'[a].status
  BY <1>1, <1>2 DEF RevokeAdmin, TypeOK, Grants
<1>7. TypeOK'
  <2>1. admins' \in [Admins -> Row]
    BY <1>1, <1>2, <1>4 DEF TypeOK
  <2>2. grants' \in [Admins -> Grants]
    BY <1>1 DEF RevokeAdmin, TypeOK, Grants
  <2> QED
    BY <1>1, <2>1, <2>2 DEF RevokeAdmin, Execute, EndSessions, TypeOK
<1>8. StatusesAgree' /\ RevokedCleared'
  <2>1. /\ current' = current \ {a}
        /\ row.activated <=> admins[a].activated
        /\ row.verified <=> admins[a].verified
    BY <1>1 DEF RevokeAdmin, EndSessions, Bumped, Row
  <2> HIDE DEF row
  <2>2. admins[a].activated => admins[a].verified
    BY DEF AdministrationInv, StatusesAgree
  <2>3. /\ admins'[a].status = "revoked" /\ admins'[a].user = "inactive"
        /\ ~admins'[a].token /\ a \notin current'
        /\ admins'[a].activated => admins'[a].verified
    BY <1>5, <1>6, <2>1, <2>2
  <2>4. ASSUME NEW b \in Admins, b # a
        PROVE  admins'[b] = admins[b] /\ (b \in current' <=> b \in current)
    BY <1>6, <2>1, <2>4
  <2> QED
    BY <1>6, <1>7, <2>3, <2>4 DEF AdministrationInv, StatusesAgree, RevokedCleared
<1>9. \A y \in Actors : staged[y] # None => staged[y].target # a
  BY DEF RevokeAdmin, Manageable, Unlocked
<1>10. UNCHANGED <<page, staged>>
  BY DEF RevokeAdmin
<1>11. LocksHeld'
  BY <1>1, <1>6, <1>9, <1>10, Types DEF AdministrationInv, LocksHeld, Change
<1>12. ASSUME NEW y \in Actors, page[y] # None
       PROVE  LET r == admins'[page[y].target]
              IN /\ r.status # "none"
                 /\ page[y].version <= r.version
                 /\ page[y].seen # None /\ page[y].version = r.version =>
                      grants'[page[y].target] = page[y].seen
  <2>1. page[y].target \in Admins /\ page[y].version \in Nat
    BY <1>1, <1>12, Types DEF Page
  <2>2. /\ admins[page[y].target].status # "none"
        /\ page[y].version <= admins[page[y].target].version
        /\ page[y].seen # None /\ page[y].version = admins[page[y].target].version =>
             grants[page[y].target] = page[y].seen
    BY <1>12 DEF AdministrationInv, PagesBehind
  <2>3. admins[a].version \in Nat
    BY <1>1 DEF Row
  <2>4. admins'[a].status = "revoked" /\ admins'[a].version = admins[a].version + 1
    BY <1>4, <1>5, <1>6
  <2>5. CASE page[y].target = a
    BY <2>1, <2>2, <2>3, <2>4, <2>5
  <2>6. CASE page[y].target # a
    BY <1>6, <2>1, <2>2, <2>6
  <2> QED
    BY <2>5, <2>6
<1>13. \A y \in Actors : staged[y] # None => grants'[staged[y].target] = staged[y].seen
  BY <1>1, <1>6, <1>9, Types DEF AdministrationInv, PagesBehind, Change
<1>14. PagesBehind'
  BY <1>10, <1>12, <1>13 DEF PagesBehind
<1> QED
  BY <1>8, <1>11, <1>14 DEF AdministrationInv

\* A check takes the lock of its target and knows its present rights.
LEMMA CheckReplacementInv ==
  ASSUME AdministrationInv, NEW x \in Actors, NEW rights \in SUBSET Rights,
         CheckReplacement(x, rights)
  PROVE  AdministrationInv'
<1> DEFINE change == [target |-> page[x].target, rights |-> rights, seen |-> page[x].seen]
<1>1. /\ TypeOK /\ page[x] \in Page /\ page[x].target \in Admins /\ page[x] # None
      /\ page[x].seen \in Grants
  BY Types DEF AdministrationInv, StatusesAgree, CheckReplacement, Page
<1>2. change \in Change
  BY <1>1 DEF Change
<1>3. /\ staged'[x] = change
      /\ \A y \in Actors : y # x => staged'[y] = staged[y] /\ page'[y] = page[y]
      /\ page'[x] = None
      /\ UNCHANGED <<admins, grants, lapsed, current>>
  BY <1>1 DEF CheckReplacement, TypeOK
<1>4. TypeOK'
  BY <1>1, <1>2 DEF CheckReplacement, Execute, TypeOK
<1>5. StatusesAgree' /\ RevokedCleared'
  BY <1>3, <1>4 DEF AdministrationInv, StatusesAgree, RevokedCleared
<1>6. /\ admins[page[x].target].status \notin {"none", "revoked"}
      /\ \A y \in Actors : staged[y] # None => staged[y].target # page[x].target
  BY DEF CheckReplacement, Manageable, Exists, Unlocked, NotRevoked
<1>7. grants[page[x].target] = page[x].seen
  BY <1>1 DEF CheckReplacement, VersionMatches, AdministrationInv, PagesBehind
<1>8. LocksHeld'
  BY <1>1, <1>3, <1>6 DEF AdministrationInv, LocksHeld
<1>9. PagesBehind'
  BY <1>1, <1>3, <1>7 DEF AdministrationInv, PagesBehind
<1> QED
  BY <1>5, <1>8, <1>9 DEF AdministrationInv

LEMMA ReplacePermissionsInv ==
  ASSUME AdministrationInv, NEW x \in Actors, ReplacePermissions(x)
  PROVE  AdministrationInv'
<1> DEFINE a == staged[x].target
           granted == [rights |-> staged[x].rights, status |-> TRUE]
<1>1. TypeOK /\ staged[x] # None /\ staged[x] \in Change /\ a \in Admins
  BY Types DEF AdministrationInv, StatusesAgree, ReplacePermissions, Change
<1>2. admins[a] \in Row /\ granted \in Grants
  BY <1>1, Types DEF Change, Grants
<1>3. Bumped(a, admins[a]).version <= MaxVersion /\ admins' = [admins EXCEPT ![a] = Bumped(a, admins[a])]
  BY DEF ReplacePermissions, SetRow
<1>4. /\ admins'[a] = Bumped(a, admins[a])
      /\ \A b \in Admins : b # a => admins'[b] = admins[b] /\ grants'[b] = grants[b]
      /\ grants'[a] = granted
      /\ staged'[x] = None
      /\ \A y \in Actors : y # x => staged'[y] = staged[y]
      /\ UNCHANGED <<admitted, page>>
  BY <1>1, <1>3 DEF ReplacePermissions, TypeOK
<1>5. TypeOK'
  <2>1. admins' \in [Admins -> Row]
    BY <1>1, <1>3, BumpedRow DEF TypeOK
  <2>2. grants' \in [Admins -> Grants]
    BY <1>1, <1>2 DEF ReplacePermissions, TypeOK
  <2>3. lapsed' \in [Admins -> SUBSET Rights] /\ current' \subseteq Admins
    BY <1>1 DEF ReplacePermissions, EndSessions, TypeOK
  <2>4. staged' \in [Actors -> Change \cup {None}]
    BY <1>1 DEF ReplacePermissions, TypeOK
  <2> QED
    BY <1>1, <1>4, <2>1, <2>2, <2>3, <2>4 DEF TypeOK
<1>6. /\ Bumped(a, admins[a]).status = admins[a].status
      /\ Bumped(a, admins[a]).token = admins[a].token
      /\ Bumped(a, admins[a]).user = admins[a].user
      /\ Bumped(a, admins[a]).verified = admins[a].verified
      /\ Bumped(a, admins[a]).activated = admins[a].activated
      /\ Bumped(a, admins[a]).version = admins[a].version + 1
      /\ current' \subseteq current
  BY <1>2 DEF Bumped, Row, ReplacePermissions, EndSessions
<1>7. StatusesAgree'
  BY <1>4, <1>5, <1>6 DEF AdministrationInv, StatusesAgree
<1>8. admins[a].status \notin {"none", "revoked"}
  BY <1>1 DEF AdministrationInv, LocksHeld
<1>9. RevokedCleared'
  BY <1>4, <1>6, <1>8 DEF AdministrationInv, RevokedCleared
<1>10. \A y \in Actors : staged'[y] # None => y # x /\ staged[y] # None /\ staged[y].target # a
  BY <1>1, <1>4 DEF AdministrationInv, LocksHeld
<1>11. \A y \in Actors : staged[y] # None => staged[y].target \in Admins
  BY <1>1, Types DEF Change
<1>12. LocksHeld'
  BY <1>4, <1>10, <1>11 DEF AdministrationInv, LocksHeld
<1>13. ASSUME NEW y \in Actors, page[y] # None
       PROVE  LET r == admins'[page[y].target]
              IN /\ r.status # "none"
                 /\ page[y].version <= r.version
                 /\ page[y].seen # None /\ page[y].version = r.version =>
                      grants'[page[y].target] = page[y].seen
  <2>1. page[y].target \in Admins /\ page[y].version \in Nat
    BY <1>1, <1>13, Types DEF Page
  <2>2. /\ admins[page[y].target].status # "none"
        /\ page[y].version <= admins[page[y].target].version
        /\ page[y].seen # None /\ page[y].version = admins[page[y].target].version =>
             grants[page[y].target] = page[y].seen
    BY <1>13 DEF AdministrationInv, PagesBehind
  <2>3. admins[a].version \in Nat
    BY <1>2 DEF Row
  <2>4. CASE page[y].target = a
    BY <1>4, <1>6, <1>8, <2>1, <2>2, <2>3, <2>4
  <2>5. CASE page[y].target # a
    BY <1>4, <2>1, <2>2, <2>5
  <2> QED
    BY <2>4, <2>5
<1>14. \A y \in Actors : staged'[y] # None => grants'[staged'[y].target] = staged'[y].seen
  BY <1>4, <1>10, <1>11 DEF AdministrationInv, PagesBehind
<1>15. PagesBehind'
  BY <1>4, <1>13, <1>14 DEF PagesBehind
<1> QED
  BY <1>7, <1>9, <1>12, <1>15 DEF AdministrationInv

LEMMA RollbackInv ==
  ASSUME AdministrationInv, NEW x \in Actors, Rollback(x)
  PROVE  AdministrationInv'
<1>1. TypeOK
  BY DEF AdministrationInv, StatusesAgree
<1>2. /\ UNCHANGED <<admins, grants, lapsed, current, admitted, page>>
      /\ \A y \in Actors : staged'[y] # None => staged'[y] = staged[y]
  BY <1>1 DEF Rollback, TypeOK
<1>3. TypeOK'
  BY <1>1 DEF Rollback, TypeOK
<1>4. StatusesAgree' /\ RevokedCleared' /\ LocksHeld'
  BY <1>2, <1>3 DEF AdministrationInv, StatusesAgree, RevokedCleared, LocksHeld
<1>5. PagesBehind'
  BY <1>2 DEF AdministrationInv, PagesBehind
<1> QED
  BY <1>4, <1>5 DEF AdministrationInv

-----------------------------------------------------------------------------
(* Theorems                                                                *)

LEMMA NextInv == AdministrationInv /\ [Next]_vars => AdministrationInv'
<1> SUFFICES ASSUME AdministrationInv, [Next]_vars PROVE AdministrationInv'
  OBVIOUS
<1>1. CASE UNCHANGED vars
  BY <1>1, RequestStep DEF vars, AdministrationInv, StatusesAgree, TypeOK
<1>2. ASSUME NEW x \in Actors,
             \/ \E right \in {Manage, Invite} : Authorize(x, right)
             \/ Refuse(x) \/ LoadGrants(x)
      PROVE  AdministrationInv'
  BY <1>2, AuthorizeInv, RefuseInv, LoadGrantsInv
<1>3. ASSUME NEW x \in Actors,
             \/ ReplacePermissions(x) \/ Rollback(x)
             \/ \E rights \in SUBSET Rights : CheckReplacement(x, rights)
      PROVE  AdministrationInv'
  BY <1>3, ReplacePermissionsInv, RollbackInv, CheckReplacementInv
<1>4. ASSUME NEW x \in Actors, NEW a \in Admins,
             CreateAdmin(x, a) \/ RotateInvitation(x, a) \/ LoadVersion(x, a)
      PROVE  AdministrationInv'
  BY <1>4, CreateAdminInv, RotateInvitationInv, LoadVersionInv
<1>5. ASSUME NEW x \in Actors, NEW a \in Admins,
             \/ RevokeAdmin(x, a)
             \/ \E status \in {"active", "suspended"} : UpdateAdmin(x, a, status)
      PROVE  AdministrationInv'
  BY <1>5, RevokeAdminInv, UpdateAdminInv
<1>6. ASSUME NEW a \in Admins,
             \/ AcceptInvitation(a) \/ ExpireInvitation(a) \/ VerifyEmail(a) \/ SignIn(a)
             \/ \E right \in Limited : LapseGrant(a, right)
      PROVE  AdministrationInv'
  BY <1>6, AcceptInvitationInv, ExpireInvitationInv, VerifyEmailInv, SignInInv, LapseGrantInv
<1> QED
  BY <1>1, <1>2, <1>3, <1>4, <1>5, <1>6 DEF Next

\* The inductive invariant holds of every reachable state (admins.model.js).
THEOREM Invariant == Spec => []AdministrationInv
<1>1. Init => AdministrationInv
  BY InitInv
<1>2. AdministrationInv /\ [Next]_vars => AdministrationInv'
  BY NextInv
<1> QED
  BY <1>1, <1>2, PTL DEF Spec

\* Whatever invitations, verification links, suspensions, revocations and
\* replacements interleave, the rows of an administrator and of its user agree,
\* and a revoked administrator has neither a right nor a token nor access.
THEOREM AccountsAgree == Spec => []AdministrationSound
<1>1. AdministrationInv => AdministrationSound
  BY DEF AdministrationInv, RevokedCleared, AdministrationSound, RevokedHoldsNothing,
         Effective
<1> QED
  BY <1>1, Invariant, PTL

\* No replacement overwrites permissions that its author has not seen, for any
\* number of authors (replaceAdminPermissions compares authz_version).
THEOREM UpdatesSeen == Spec => NoLostUpdate
<1>1. AdministrationInv /\ [Next]_vars =>
        [ \A x \in Actors :
            ReplacePermissions(x) => grants[staged[x].target] = staged[x].seen ]_vars
  BY DEF AdministrationInv, PagesBehind, ReplacePermissions
<1> QED
  BY <1>1, Invariant, PTL DEF Spec, NoLostUpdate

-----------------------------------------------------------------------------
(* Rights that circulate                                                   *)

LEMMA CirculatingIn ==
  /\ \A a \in Admins : Effective(a) \subseteq Circulating
  /\ \A x \in Admins : staged[x] # None => staged[x].rights \subseteq Circulating
<1> DEFINE E == {Effective(a) : a \in Admins}
           S == {staged[x].rights : x \in {y \in Admins : staged[y] # None}}
<1>1. Circulating = UNION (E \cup S)
  BY DEF Circulating
<1>2. \A a \in Admins : Effective(a) \in E
  OBVIOUS
<1>3. \A x \in Admins : staged[x] # None => staged[x].rights \in S
  OBVIOUS
<1> HIDE DEF E, S
<1> QED
  BY <1>1, <1>2, <1>3

\* It is enough that what anyone holds or is granting was held before.
LEMMA CirculatingFrom ==
  ASSUME \A a \in Admins : Effective(a)' \subseteq Circulating,
         \A x \in Admins : staged'[x] # None => staged'[x].rights \subseteq Circulating
  PROVE  Circulating' \subseteq Circulating
<1>1. SUFFICES ASSUME NEW right \in Circulating' PROVE right \in Circulating
  OBVIOUS
<1>2. \/ \E a \in Admins : right \in Effective(a)'
      \/ \E x \in Admins : staged'[x] # None /\ right \in staged'[x].rights
  BY <1>1 DEF Circulating
<1> QED
  BY <1>2

LEMMA StepRaisesNothing ==
  ASSUME AdministrationInv, [Next]_vars
  PROVE  [ReplacePermissions(Owner) \/ Circulating' \subseteq Circulating]_vars
<1> SUFFICES ASSUME ~ReplacePermissions(Owner) PROVE Circulating' \subseteq Circulating
  OBVIOUS
<1>1. TypeOK
  BY DEF AdministrationInv, StatusesAgree
<1>2. CASE UNCHANGED <<grants, lapsed, staged>>
  BY <1>2, CirculatingIn, CirculatingFrom DEF Effective
<1>3. ASSUME NEW x \in Actors, ReplacePermissions(x) PROVE Circulating' \subseteq Circulating
  <2>1. x \in Admins /\ staged[x] # None /\ staged[x] \in Change
    BY <1>1, <1>3, Types DEF Actors, ReplacePermissions
  <2>2. staged[x].target \in Admins /\ staged[x].rights \subseteq Rights
    BY <2>1 DEF Change
  <2>3. \A a \in Admins : Effective(a)' \subseteq Effective(a) \cup staged[x].rights
    BY <1>1, <1>3, <2>1, <2>2 DEF ReplacePermissions, Effective, TypeOK
  <2>4. \A y \in Admins : staged'[y] # None => staged'[y] = staged[y]
    BY <1>1, <1>3 DEF ReplacePermissions, TypeOK, Actors
  <2> QED
    BY <2>1, <2>3, <2>4, CirculatingIn, CirculatingFrom
<1>4. ASSUME NEW x \in Actors, NEW rights \in SUBSET Rights, CheckReplacement(x, rights)
      PROVE  Circulating' \subseteq Circulating
  <2>1. \A a \in Admins : Effective(a)' = Effective(a)
    BY <1>4 DEF CheckReplacement, Effective
  <2>2. \A y \in Admins : staged'[y] # None =>
          staged'[y] = staged[y] \/ staged'[y].rights \subseteq Effective(y)
    BY <1>1, <1>4 DEF CheckReplacement, Delegable, TypeOK, Actors
  <2> QED
    BY <2>1, <2>2, CirculatingIn, CirculatingFrom
<1>5. ASSUME NEW x \in Actors, Rollback(x) PROVE Circulating' \subseteq Circulating
  <2>1. \A a \in Admins : Effective(a)' = Effective(a)
    BY <1>5 DEF Rollback, Effective
  <2>2. \A y \in Admins : staged'[y] # None => staged'[y] = staged[y]
    BY <1>1, <1>5 DEF Rollback, TypeOK, Actors
  <2> QED
    BY <2>1, <2>2, CirculatingIn, CirculatingFrom
<1>6. ASSUME NEW x \in Actors, NEW a \in Admins, RevokeAdmin(x, a)
      PROVE  Circulating' \subseteq Circulating
  <2>1. \A b \in Admins : Effective(b)' \subseteq Effective(b)
    BY <1>1, <1>6 DEF RevokeAdmin, Effective, TypeOK, Grants
  <2>2. UNCHANGED staged
    BY <1>6 DEF RevokeAdmin
  <2> QED
    BY <2>1, <2>2, CirculatingIn, CirculatingFrom
<1>7. ASSUME NEW a \in Admins, NEW right \in Limited, LapseGrant(a, right)
      PROVE  Circulating' \subseteq Circulating
  <2>1. \A b \in Admins : Effective(b)' \subseteq Effective(b)
    BY <1>1, <1>7 DEF LapseGrant, Effective, TypeOK
  <2>2. UNCHANGED staged
    BY <1>7 DEF LapseGrant
  <2> QED
    BY <2>1, <2>2, CirculatingIn, CirculatingFrom
<1>8. CASE UNCHANGED vars
  BY <1>2, <1>8 DEF vars
<1> QED
  BY <1>2, <1>3, <1>4, <1>5, <1>6, <1>7, <1>8
     DEF Next, Authorize, Refuse, LoadGrants, CreateAdmin, RotateInvitation, LoadVersion,
         UpdateAdmin, AcceptInvitation, ExpireInvitation, VerifyEmail, SignIn

\* Administrators, however many, cannot raise a right among themselves: one that
\* nobody holds and nobody is granting comes back through the owner only.
THEOREM RightsNotRaised == Spec => NoEscalation
<1>1. AdministrationInv /\ [Next]_vars =>
        [ReplacePermissions(Owner) \/ Circulating' \subseteq Circulating]_vars
  BY StepRaisesNothing
<1> QED
  BY <1>1, Invariant, PTL DEF Spec, NoEscalation
===============================================================================
