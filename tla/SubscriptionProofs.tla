-------------------------- MODULE SubscriptionProofs --------------------------
(***************************************************************************)
(* Proofs about Subscription, for any offers, limits, lengths of trial,    *)
(* month and grace period, and any number of checkouts, charges and        *)
(* renewals in any order: status, period, grace and scheduled change agree *)
(* (PlanAsPaid), whoever fell back to FREE has no more services than FREE  *)
(* admits (FreeWithinLimit), terms change by what was paid for             *)
(* (PaidTermsOnly), and paid time is never shortened (PaidTimeKept).       *)
(***************************************************************************)
EXTENDS Subscription, TLAPS

-----------------------------------------------------------------------------
(* The inductive invariant                                                 *)

\* What a row may say under the versions "versions" of the plans: the invariants
\* of PlanAsPaid, a period for every plan and a grace period for what is past due.
RowGood(s, versions) ==
  /\ s.grace # 0 => s.grace = s.end + Grace
  /\ s.status = "past_due" => s.grace # 0
  /\ s.plan # "FREE" => s.end # 0 /\ s.status # "absent" /\ s.version \in 1..versions[s.plan]
  /\ s.plan = "FREE" => s.code = None /\ s.end = 0
  /\ s.pending # None => s.cancelled /\ s.pendingVersion \in 1..versions[s.pending] /\ s.plan # "FREE"

\* A checkout is about published terms of a paid plan.
CheckoutsPublished ==
  \A r \in References : checkouts[r].state # "unused" =>
    checkouts[r].plan \in PaidPlans /\ checkouts[r].version \in 1..current[checkouts[r].plan]

\* A renewal names the subscription at Paystack that it belongs to.
RenewalsNamed == \A e \in charges : e.number # 0 => e.code = e.of

SubscriptionInv ==
  TypeOK /\ RowGood(sub, current) /\ CheckoutsPublished /\ RenewalsNamed /\ FreeWithinLimit

LEMMA Types ==
  ASSUME TypeOK
  PROVE  /\ now \in Nat /\ active \in Nat /\ sub \in Row
         /\ sub.end \in Nat /\ sub.grace \in Nat /\ sub.plan \in Plans
         /\ sub.pending \in Plans \cup {None}
         /\ \A p \in Plans : current[p] \in Nat /\ current[p] >= 1 /\ current[p] <= MaxVersion
         /\ \A r \in References : checkouts[r] \in Checkout /\ recurring[r] \in Recurring
         /\ \A e \in charges : e \in Charge /\ e.of \in References /\ e.number \in Nat /\ e.at \in Nat
<1>1. now \in Nat /\ active \in Nat /\ sub \in Row
  BY ConstantsAssumption DEF TypeOK
<1>2. /\ sub.end \in Nat /\ sub.grace \in Nat /\ sub.plan \in Plans
      /\ sub.pending \in Plans \cup {None}
  BY <1>1 DEF Row
<1>3. \A p \in Plans : current[p] \in 1 .. MaxVersion
  BY DEF TypeOK
<1>4. \A r \in References : checkouts[r] \in Checkout /\ recurring[r] \in Recurring
  BY DEF TypeOK, Codes
<1>5. \A e \in charges : e \in Charge
  BY DEF TypeOK
<1> QED
  BY <1>1, <1>2, <1>3, <1>4, <1>5, ConstantsAssumption DEF Charge

LEMMA InitInv == Init => SubscriptionInv
<1>1. SUFFICES ASSUME Init PROVE SubscriptionInv
  OBVIOUS
<1>2. NoRow \in Row
  BY ConstantsAssumption DEF NoRow, Row, Plans
<1>3. TypeOK
  <2>1. /\ now \in 0 .. Horizon /\ current \in [Plans -> 1 .. MaxVersion] /\ sub \in Row
        /\ charges \subseteq Charge /\ failures \subseteq Codes \X Nat
        /\ applied \subseteq Key /\ active \in Nat
    BY <1>1, <1>2, ConstantsAssumption DEF Init
  <2>2. [state |-> "unused", plan |-> None, version |-> 0, mode |-> "manual"] \in Checkout
    BY ConstantsAssumption DEF Checkout
  <2>3. [state |-> "unused", plan |-> None, next |-> 0, number |-> 0] \in Recurring
    BY DEF Recurring
  <2>4. checkouts \in [References -> Checkout] /\ recurring \in [Codes -> Recurring]
    BY <1>1, <2>2, <2>3 DEF Init
  <2>5. cancelling \in BOOLEAN
    BY <1>1 DEF Init
  <2> QED
    BY <2>1, <2>4, <2>5 DEF TypeOK
<1>4. RowGood(sub, current)
  BY <1>1 DEF Init, RowGood, NoRow
<1>5. CheckoutsPublished /\ RenewalsNamed
  BY <1>1 DEF Init, CheckoutsPublished, RenewalsNamed
<1>6. FreeWithinLimit
  BY <1>1, ConstantsAssumption DEF Init, FreeWithinLimit, Plans
<1> QED
  BY <1>3, <1>4, <1>5, <1>6 DEF SubscriptionInv

-----------------------------------------------------------------------------
(* Checkouts, Paystack and time: the row stays                             *)

LEMMA StartCheckoutInv ==
  ASSUME SubscriptionInv, NEW r \in References, NEW o \in Offers[r], StartCheckout(r, o[1], o[2])
  PROVE  SubscriptionInv'
<1> DEFINE checkout == [state |-> "initialized", plan |-> o[1], version |-> current[o[1]], mode |-> o[2]]
<1>1. /\ TypeOK /\ RowGood(sub, current) /\ CheckoutsPublished /\ RenewalsNamed /\ FreeWithinLimit
      /\ checkouts' = [checkouts EXCEPT ![r] = checkout]
      /\ UNCHANGED <<now, current, sub, charges, failures, recurring, applied, cancelling, active>>
  BY DEF SubscriptionInv, StartCheckout, paystack
<1>2. o[1] \in PaidPlans /\ o[2] \in {"automatic", "manual"} /\ o[1] \in Plans
  BY ConstantsAssumption DEF PaidPlans
<1>3. current[o[1]] \in 1 .. MaxVersion
  BY <1>1, <1>2 DEF TypeOK
<1>4. /\ checkout \in Checkout /\ checkout.plan = o[1] /\ checkout.version = current[o[1]]
  BY <1>2, <1>3, ConstantsAssumption DEF Checkout
<1> HIDE DEF checkout
<1>5. /\ checkouts' \in [References -> Checkout] /\ checkouts'[r] = checkout
      /\ \A q \in References \ {r} : checkouts'[q] = checkouts[q]
  BY <1>1, <1>4 DEF TypeOK
<1>6. TypeOK'
  BY <1>1, <1>5 DEF TypeOK
<1>7. current[o[1]] \in 1 .. current[o[1]]
  BY <1>3, ConstantsAssumption
<1>8. CheckoutsPublished'
  <2>1. ASSUME NEW q \in References, checkouts'[q].state # "unused"
        PROVE  checkouts'[q].plan \in PaidPlans /\ checkouts'[q].version \in 1 .. current[checkouts'[q].plan]
    BY <1>1, <1>2, <1>4, <1>5, <1>7, <2>1 DEF CheckoutsPublished
  <2> QED
    BY <1>1, <2>1 DEF CheckoutsPublished
<1> QED
  BY <1>1, <1>6, <1>8 DEF SubscriptionInv, RenewalsNamed, FreeWithinLimit

LEMMA PayInv ==
  ASSUME SubscriptionInv, NEW r \in References, Pay(r)
  PROVE  SubscriptionInv'
<1>1. /\ TypeOK /\ RowGood(sub, current) /\ CheckoutsPublished /\ RenewalsNamed /\ FreeWithinLimit
      /\ checkouts[r].state = "initialized" /\ checkouts[r] \in Checkout
      /\ checkouts' = [checkouts EXCEPT ![r].state = "paid"]
      /\ UNCHANGED <<now, current, sub, failures, applied, cancelling, active>>
  BY Types DEF SubscriptionInv, Pay
<1> DEFINE checkout == [checkouts[r] EXCEPT !.state = "paid"]
<1>2. /\ checkout \in Checkout /\ checkout.plan = checkouts[r].plan
      /\ checkout.version = checkouts[r].version
  BY <1>1 DEF Checkout
<1>3. checkouts' = [checkouts EXCEPT ![r] = checkout]
  BY <1>1
<1> HIDE DEF checkout
<1>4. /\ checkouts' \in [References -> Checkout]
      /\ \A q \in References : /\ checkouts'[q].plan = checkouts[q].plan
                               /\ checkouts'[q].version = checkouts[q].version
                               /\ checkouts'[q].state # "unused" => checkouts[q].state # "unused"
  BY <1>1, <1>2, <1>3 DEF TypeOK
<1>5. PICK code \in Codes \cup {None} :
        charges' = charges \cup {[of |-> r, number |-> 0, code |-> code, at |-> now]}
  BY <1>1 DEF Pay, PayOnce, PayAndSubscribe, Codes
<1>6. [of |-> r, number |-> 0, code |-> code, at |-> now] \in Charge
  BY <1>1, Types DEF Charge
<1>7. recurring' \in [Codes -> Recurring]
  <2>1. CASE PayOnce(r)
    BY <1>1, <2>1 DEF PayOnce, TypeOK
  <2>2. CASE PayAndSubscribe(r)
    <3> DEFINE sold == [state |-> "active", plan |-> checkouts[r].plan, next |-> now + Month, number |-> 1]
    <3>1. recurring' = [recurring EXCEPT ![r] = sold]
      BY <2>2 DEF PayAndSubscribe
    <3>2. checkouts[r].plan \in PaidPlans \cup {None} /\ now + Month \in Nat
      BY <1>1, Types, ConstantsAssumption DEF Checkout
    <3>3. sold \in Recurring
      BY <3>2 DEF Recurring
    <3> QED
      BY <1>1, <3>1, <3>3 DEF TypeOK
  <2> QED
    BY <2>1, <2>2 DEF Pay
<1>8. TypeOK' /\ RenewalsNamed'
  BY <1>1, <1>4, <1>5, <1>6, <1>7 DEF TypeOK, RenewalsNamed
<1>9. CheckoutsPublished'
  BY <1>1, <1>4 DEF CheckoutsPublished
<1> QED
  BY <1>1, <1>8, <1>9 DEF SubscriptionInv, FreeWithinLimit

\* A step at Paystack, of a cancellation or of time, which leaves the row, the
\* versions, the checkouts and the services.
LEMMA OutsideInv ==
  ASSUME SubscriptionInv, TypeOK', RenewalsNamed',
         UNCHANGED <<current, sub, checkouts, active>>
  PROVE  SubscriptionInv'
BY DEF SubscriptionInv, CheckoutsPublished, FreeWithinLimit

LEMMA DisabledType ==
  ASSUME TypeOK, NEW c \in Codes \cup {None}
  PROVE  Disabled(c) \in [Codes -> Recurring]
<1>1. CASE c = None
  BY <1>1 DEF Disabled, TypeOK
<1>2. CASE c # None
  <2> DEFINE row == [recurring[c] EXCEPT !.state = "disabled"]
  <2>1. c \in Codes /\ recurring \in [Codes -> Recurring]
    BY <1>2 DEF TypeOK
  <2>2. row \in Recurring
    BY <2>1 DEF Recurring
  <2>3. Disabled(c) = [recurring EXCEPT ![c] = row]
    BY <1>2 DEF Disabled
  <2> HIDE DEF row
  <2> QED
    BY <2>1, <2>2, <2>3
<1> QED
  BY <1>1, <1>2

LEMMA RenewInv ==
  ASSUME SubscriptionInv, NEW c \in Codes, Renew(c)
  PROVE  SubscriptionInv'
<1>1. /\ TypeOK /\ RenewalsNamed /\ recurring[c] \in Recurring
      /\ recurring' = Billed(c)
      /\ UNCHANGED <<now, current, sub, checkouts, applied, cancelling, active>>
  BY Types DEF SubscriptionInv, Renew, Codes
<1> DEFINE n == recurring[c].number
           row == [recurring[c] EXCEPT !.next = @ + Month, !.number = @ + 1]
<1>2. n \in Nat
  BY <1>1 DEF Recurring
<1>3. row \in Recurring
  <2>1. /\ recurring[c].next + Month \in Nat /\ n + 1 \in Nat
        /\ recurring[c].state \in {"unused", "active", "disabled"}
        /\ recurring[c].plan \in PaidPlans \cup {None}
    BY <1>1, <1>2, ConstantsAssumption DEF Recurring
  <2> QED
    BY <1>1, <2>1 DEF Recurring
<1>4. recurring' = [recurring EXCEPT ![c] = row]
  BY <1>1 DEF Billed
<1> HIDE DEF row
<1>5. recurring' \in [Codes -> Recurring]
  BY <1>1, <1>3, <1>4 DEF TypeOK
<1>6. \/ /\ charges' = charges \cup {[of |-> c, number |-> n, code |-> c, at |-> now]}
         /\ UNCHANGED failures
      \/ /\ failures' = failures \cup {<<c, n>>}
         /\ UNCHANGED charges
  BY DEF Renew
<1> HIDE DEF n
<1>7. [of |-> c, number |-> n, code |-> c, at |-> now] \in Charge /\ <<c, n>> \in Codes \X Nat
  BY <1>1, <1>2, Types DEF Charge, Codes
<1>8. TypeOK' /\ RenewalsNamed'
  BY <1>1, <1>5, <1>6, <1>7 DEF TypeOK, RenewalsNamed
<1> QED
  BY <1>1, <1>8, OutsideInv

LEMMA DisablingInv ==
  ASSUME SubscriptionInv,
         DisablePendingRenewal \/ BeginCancel \/ CancelDies \/ \E c \in Codes : StopAtPaystack(c)
  PROVE  SubscriptionInv'
<1>1. /\ TypeOK /\ RenewalsNamed /\ sub.code \in Codes \cup {None}
      /\ UNCHANGED <<now, current, sub, checkouts, charges, failures, applied, active>>
  BY Types DEF SubscriptionInv, Row, DisablePendingRenewal, BeginCancel, CancelDies, StopAtPaystack,
               paystack
<1>2. \E c \in Codes \cup {None} : recurring' = Disabled(c)
  <2>1. CASE \E c \in Codes : StopAtPaystack(c)
    BY <2>1, ConstantsAssumption DEF StopAtPaystack, Disabled, Codes
  <2>2. CASE DisablePendingRenewal \/ BeginCancel
    BY <1>1, <2>2 DEF DisablePendingRenewal, BeginCancel
  <2>3. CASE CancelDies
    <3>1. recurring' = Disabled(None)
      BY <2>3 DEF CancelDies, paystack, Disabled
    <3> QED
      BY <3>1
  <2> QED
    BY <2>1, <2>2, <2>3
<1>3. recurring' \in [Codes -> Recurring]
  BY <1>1, <1>2, DisabledType
<1>4. cancelling' \in BOOLEAN
  BY <1>1 DEF DisablePendingRenewal, BeginCancel, CancelDies, StopAtPaystack, TypeOK
<1>5. TypeOK' /\ RenewalsNamed'
  BY <1>1, <1>3, <1>4 DEF TypeOK, RenewalsNamed
<1> QED
  BY <1>1, <1>5, OutsideInv

LEMMA TimeInv ==
  ASSUME SubscriptionInv, Tick \/ UNCHANGED vars
  PROVE  SubscriptionInv'
<1>1. /\ TypeOK /\ RenewalsNamed
      /\ UNCHANGED <<current, sub, checkouts, charges, failures, recurring, applied, cancelling, active>>
  BY DEF SubscriptionInv, Tick, vars, paystack
<1>2. now' \in 0 .. Horizon
  BY <1>1, ConstantsAssumption DEF Tick, vars, TypeOK
<1>3. TypeOK' /\ RenewalsNamed'
  BY <1>1, <1>2 DEF TypeOK, RenewalsNamed
<1> QED
  BY <1>1, <1>3, OutsideInv

-----------------------------------------------------------------------------
(* The row of the provider                                                 *)

\* A step that changes the row and keeps its plan, or gives it one.
LEMMA RowInv ==
  ASSUME SubscriptionInv,
         NEW row \in Row, RowGood(row, current), row.plan = "FREE" => sub.plan = "FREE", sub' = row,
         UNCHANGED <<now, current, charges, failures, active>>,
         checkouts' \in [References -> Checkout], CheckoutsPublished',
         recurring' \in [Codes -> Recurring], applied' \subseteq Key, cancelling' \in BOOLEAN
  PROVE  SubscriptionInv'
<1>1. TypeOK'
  BY DEF SubscriptionInv, TypeOK
<1>2. RowGood(sub', current')
  <2>1. current' = current
    OBVIOUS
  <2> QED
    BY <2>1
<1>3. RenewalsNamed' /\ FreeWithinLimit'
  BY DEF SubscriptionInv, RenewalsNamed, FreeWithinLimit
<1> QED
  BY <1>1, <1>2, <1>3 DEF SubscriptionInv, RowGood

\* The same of a step that leaves the checkouts and Paystack.
LEMMA RowOnlyInv ==
  ASSUME SubscriptionInv,
         NEW row \in Row, RowGood(row, current), row.plan = "FREE" => sub.plan = "FREE", sub' = row,
         UNCHANGED <<now, current, checkouts, paystack, active>>,
         applied' \subseteq Key, cancelling' \in BOOLEAN
  PROVE  SubscriptionInv'
<1>1. /\ UNCHANGED <<now, current, charges, failures, active>>
      /\ checkouts' \in [References -> Checkout] /\ CheckoutsPublished'
      /\ recurring' \in [Codes -> Recurring]
  BY DEF SubscriptionInv, TypeOK, CheckoutsPublished, paystack
<1> QED
  BY <1>1, RowInv

LEMMA KeyType ==
  ASSUME NEW type \in {"charge", "failed", "not_renew", "disable"}, NEW of \in References,
         NEW number \in Nat
  PROVE  /\ KeyOf(type, of, number) \in Key
         /\ KeyOf(type, of, number).type = type
         /\ KeyOf(type, of, number).of = of
         /\ KeyOf(type, of, number).number = number
BY DEF KeyOf, Key

\* What a row holds.
LEMMA RowFields ==
  ASSUME NEW s \in Row
  PROVE  /\ s.plan \in Plans /\ s.version \in 0 .. MaxVersion /\ s.end \in Nat /\ s.grace \in Nat
         /\ s.status \in {"absent", "trialing", "active", "past_due", "cancelled"}
         /\ s.cancelled \in BOOLEAN /\ s.pending \in Plans \cup {None}
         /\ s.pendingVersion \in 0 .. MaxVersion /\ s.trialUsed \in BOOLEAN
         /\ s.code \in Codes \cup {None}
BY DEF Row

\* A row with the code of a subscription at Paystack has a plan.
LEMMA CodeHasPlan ==
  ASSUME SubscriptionInv, sub.code \in References
  PROVE  sub.plan # "FREE"
BY ConstantsAssumption DEF SubscriptionInv, RowGood

\* A trial follows a row without a plan, and the period it starts is the first.
LEMMA StartTrialInv ==
  ASSUME SubscriptionInv, StartTrial
  PROVE  SubscriptionInv' /\ sub.end = 0
<1> DEFINE row == [sub EXCEPT !.plan = "PRO", !.version = current["PRO"],
                             !.status = "trialing", !.end = now + Trial, !.grace = 0,
                             !.cancelled = FALSE, !.pending = None,
                             !.pendingVersion = 0, !.trialUsed = TRUE]
<1>1. /\ TypeOK /\ sub \in Row /\ sub.plan = "FREE" /\ sub.end = 0 /\ sub' = row
      /\ UNCHANGED <<now, current, checkouts, paystack, applied, cancelling, active>>
  BY Types DEF SubscriptionInv, RowGood, StartTrial
<1>2. /\ current["PRO"] \in 1 .. MaxVersion /\ now + Trial \in Nat /\ now + Trial # 0
  BY <1>1, Types, ConstantsAssumption DEF TypeOK, Plans
<1>3. /\ current["PRO"] \in 0 .. MaxVersion /\ current["PRO"] \in 1 .. current["PRO"]
      /\ 0 \in 0 .. MaxVersion
  BY <1>2, ConstantsAssumption
<1>4. row \in Row
  BY <1>1, <1>2, <1>3 DEF Row, Plans
<1>5. /\ row.plan = "PRO" /\ row.version = current["PRO"] /\ row.status = "trialing"
      /\ row.end = now + Trial /\ row.grace = 0 /\ row.pending = None
  BY <1>1 DEF Row
<1> HIDE DEF row
<1>6. RowGood(row, current)
  BY <1>2, <1>3, <1>5 DEF RowGood
<1>7. applied' \subseteq Key /\ cancelling' \in BOOLEAN
  BY <1>1 DEF TypeOK
<1> QED
  BY <1>1, <1>4, <1>5, <1>6, <1>7, RowOnlyInv

\* A charge of a checkout gives its plan, with the terms it was sold at, for a
\* month that begins with the charge or where the paid period ends.
LEMMA CreditCheckoutInv ==
  ASSUME SubscriptionInv, NEW e \in charges, HandleChargeSuccess(e), e.number = 0
  PROVE  /\ SubscriptionInv'
         /\ checkouts[e.of].state = "paid" /\ checkouts'[e.of].state = "completed"
         /\ checkouts[e.of].mode = "manual" => sub'.end >= sub.end
         /\ KeyOf("charge", e.of, e.number) \in applied' \ applied
<1> DEFINE r == e.of
           k == KeyOf("charge", r, 0)
           manual == checkouts[r].mode = "manual"
           start == IF manual THEN Latest(sub.end, e.at) ELSE e.at
           code == CASE e.code # None -> e.code [] manual -> None [] OTHER -> sub.code
           row == [sub EXCEPT !.plan = checkouts[r].plan, !.version = checkouts[r].version,
                              !.status = "active", !.end = start + Month,
                              !.grace = 0, !.cancelled = FALSE,
                              !.pending = None, !.pendingVersion = 0, !.code = code]
           done == [checkouts[r] EXCEPT !.state = "completed"]
<1>1. /\ TypeOK /\ CheckoutsPublished /\ sub \in Row
      /\ r \in References /\ e.at \in Nat /\ e.code \in Codes \cup {None} /\ checkouts[r] \in Checkout
      /\ sub.end \in Nat /\ sub.code \in Codes \cup {None}
  BY Types DEF SubscriptionInv, Row, Charge
<1>2. /\ checkouts[r].state = "paid" /\ k \notin applied /\ applied' = applied \cup {k}
      /\ checkouts' = [checkouts EXCEPT ![r].state = "completed"]
      /\ \E c \in Codes \cup {None} : recurring' = Disabled(c)
      /\ UNCHANGED <<now, current, charges, failures, cancelling, active>>
  BY <1>1 DEF HandleChargeSuccess, CreditCheckout
<1>3. sub' = row
  BY <1>1 DEF HandleChargeSuccess, CreditCheckout
<1>4. k \in Key /\ k = KeyOf("charge", e.of, e.number)
  BY <1>1, KeyType
<1> HIDE DEF k
<1>5. /\ checkouts[r].plan \in PaidPlans /\ checkouts[r].plan \in Plans /\ checkouts[r].plan # "FREE"
      /\ checkouts[r].version \in 1 .. current[checkouts[r].plan]
  BY <1>1, <1>2 DEF CheckoutsPublished, PaidPlans
<1>6. checkouts[r].version \in 0 .. MaxVersion /\ 0 \in 0 .. MaxVersion
  BY <1>1, ConstantsAssumption DEF Checkout
<1>7. /\ start \in Nat /\ start + Month \in Nat /\ start + Month # 0
      /\ manual => start + Month >= sub.end
  BY <1>1, ConstantsAssumption DEF Latest
<1> HIDE DEF start
<1>8. code \in Codes \cup {None}
  BY <1>1
<1> HIDE DEF code
<1>9. row \in Row
  BY <1>1, <1>5, <1>6, <1>7, <1>8 DEF Row
<1>10. /\ row.plan = checkouts[r].plan /\ row.version = checkouts[r].version /\ row.status = "active"
       /\ row.end = start + Month /\ row.grace = 0 /\ row.pending = None
  BY <1>1 DEF Row
<1> HIDE DEF row
<1>11. RowGood(row, current)
  BY <1>5, <1>7, <1>10 DEF RowGood
<1>12. /\ done \in Checkout /\ done.plan = checkouts[r].plan /\ done.version = checkouts[r].version
       /\ done.state = "completed"
  BY <1>1 DEF Checkout
<1>13. checkouts' = [checkouts EXCEPT ![r] = done]
  BY <1>2
<1> HIDE DEF done
<1>14. /\ checkouts' \in [References -> Checkout] /\ checkouts'[r].state = "completed"
       /\ \A q \in References : /\ checkouts'[q].plan = checkouts[q].plan
                                /\ checkouts'[q].version = checkouts[q].version
                                /\ checkouts'[q].state # "unused" => checkouts[q].state # "unused"
  BY <1>1, <1>2, <1>12, <1>13 DEF TypeOK
<1>15. CheckoutsPublished'
  BY <1>1, <1>2, <1>14 DEF CheckoutsPublished
<1>16. recurring' \in [Codes -> Recurring]
  BY <1>1, <1>2, DisabledType
<1>17. applied' \subseteq Key /\ cancelling' \in BOOLEAN
  BY <1>1, <1>2, <1>4 DEF TypeOK
<1>18. SubscriptionInv'
  BY <1>2, <1>3, <1>5, <1>9, <1>10, <1>11, <1>14, <1>15, <1>16, <1>17, RowInv
<1>19. manual => sub'.end >= sub.end
  BY <1>3, <1>7, <1>10
<1> QED
  BY <1>2, <1>4, <1>14, <1>18, <1>19

\* A renewal prolongs the period of a row that has the plan it is billed for.
LEMMA CreditRenewalInv ==
  ASSUME SubscriptionInv, NEW e \in charges, HandleChargeSuccess(e), e.number # 0
  PROVE  /\ SubscriptionInv'
         /\ sub'.end >= sub.end
         /\ KeyOf("charge", e.of, e.number) \in applied' \ applied
<1> DEFINE k == KeyOf("charge", e.of, e.number)
           row == [sub EXCEPT !.status = "active", !.end = Latest(sub.end, e.at) + Month, !.grace = 0]
<1>1. /\ TypeOK /\ CheckoutsPublished /\ RowGood(sub, current) /\ sub \in Row
      /\ e.of \in References /\ e.at \in Nat /\ e.number \in Nat /\ e.code = e.of /\ sub.end \in Nat
  BY Types DEF SubscriptionInv, RenewalsNamed
<1>2. /\ sub.code = e.code /\ k \notin applied /\ applied' = applied \cup {k}
      /\ sub' = row
      /\ UNCHANGED <<now, current, checkouts, charges, failures, recurring, cancelling, active>>
  BY DEF HandleChargeSuccess, CreditRenewal
<1>3. k \in Key /\ KeyOf("charge", e.of, e.number) \in applied' \ applied
  BY <1>1, <1>2, KeyType
<1> HIDE DEF k
<1>4. sub.plan # "FREE"
  BY <1>1, <1>2, CodeHasPlan
<1>5. /\ Latest(sub.end, e.at) + Month \in Nat /\ Latest(sub.end, e.at) + Month # 0
      /\ Latest(sub.end, e.at) + Month >= sub.end
  BY <1>1, ConstantsAssumption DEF Latest
<1>6. row \in Row
  BY <1>1, <1>5 DEF Row
<1>7. /\ row.plan = sub.plan /\ row.version = sub.version /\ row.status = "active"
      /\ row.end = Latest(sub.end, e.at) + Month /\ row.grace = 0
      /\ row.pending = sub.pending /\ row.pendingVersion = sub.pendingVersion
      /\ row.cancelled = sub.cancelled
  BY <1>1 DEF Row
<1> HIDE DEF row
<1>8. RowGood(row, current)
  BY <1>1, <1>4, <1>5, <1>7 DEF RowGood
<1>9. applied' \subseteq Key /\ cancelling' \in BOOLEAN
  BY <1>1, <1>2, <1>3 DEF TypeOK
<1>10. SubscriptionInv'
  BY <1>2, <1>4, <1>6, <1>7, <1>8, <1>9, RowOnlyInv DEF paystack
<1>11. sub'.end >= sub.end
  BY <1>2, <1>5, <1>7
<1> QED
  BY <1>3, <1>10, <1>11

\* A step that leaves the plan, its terms and its period.
TermsKept == sub'.plan = sub.plan /\ sub'.version = sub.version /\ sub'.end = sub.end

LEMMA ChargeFailedInv ==
  ASSUME SubscriptionInv, NEW f \in failures, HandleChargeFailed(f)
  PROVE  SubscriptionInv' /\ TermsKept
<1> DEFINE k == KeyOf("failed", f[1], f[2])
           grace == IF sub.grace = 0 THEN GraceAfter(sub.end) ELSE sub.grace
           row == [sub EXCEPT !.status = "past_due", !.grace = grace]
<1>1. /\ TypeOK /\ RowGood(sub, current) /\ sub \in Row
      /\ f[1] \in References /\ f[2] \in Nat /\ sub.end \in Nat /\ sub.grace \in Nat
  BY Types DEF SubscriptionInv, TypeOK, Codes
<1>2. /\ sub.code = f[1] /\ applied' = applied \cup {k} /\ sub' = row
      /\ UNCHANGED <<now, current, checkouts, paystack, cancelling, active>>
  BY DEF HandleChargeFailed
<1>3. k \in Key
  BY <1>1, KeyType
<1> HIDE DEF k
<1>4. sub.plan # "FREE" /\ sub.end # 0
  BY <1>1, <1>2, CodeHasPlan DEF RowGood
<1>5. grace \in Nat /\ grace # 0 /\ grace = sub.end + Grace
  BY <1>1, <1>4, ConstantsAssumption DEF GraceAfter, RowGood
<1> HIDE DEF grace
<1>6. row \in Row
  BY <1>1, <1>5 DEF Row
<1>7. /\ row.plan = sub.plan /\ row.version = sub.version /\ row.status = "past_due"
      /\ row.end = sub.end /\ row.grace = grace
      /\ row.pending = sub.pending /\ row.pendingVersion = sub.pendingVersion
      /\ row.cancelled = sub.cancelled
  BY <1>1 DEF Row
<1> HIDE DEF row
<1>8. RowGood(row, current)
  BY <1>1, <1>4, <1>5, <1>7 DEF RowGood
<1>9. applied' \subseteq Key /\ cancelling' \in BOOLEAN
  BY <1>1, <1>2, <1>3 DEF TypeOK
<1>10. SubscriptionInv'
  BY <1>2, <1>4, <1>6, <1>7, <1>8, <1>9, RowOnlyInv
<1>11. TermsKept
  BY <1>2, <1>7 DEF TermsKept
<1> QED
  BY <1>10, <1>11

LEMMA EventInv ==
  ASSUME SubscriptionInv, NEW c \in Codes, NEW type \in {"not_renew", "disable"},
         HandleSubscriptionEvent(c, type)
  PROVE  SubscriptionInv' /\ TermsKept
<1> DEFINE k == KeyOf(type, c, 0)
           status == IF type = "disable" THEN "cancelled" ELSE sub.status
           row == [sub EXCEPT !.cancelled = TRUE, !.status = status]
<1>1. /\ TypeOK /\ RowGood(sub, current) /\ sub \in Row /\ c \in References
  BY Types DEF SubscriptionInv, Codes
<1>2. /\ sub.code = c /\ applied' = applied \cup {k} /\ sub' = row
      /\ UNCHANGED <<now, current, checkouts, paystack, cancelling, active>>
  BY DEF HandleSubscriptionEvent
<1>3. k \in Key
  BY <1>1, KeyType
<1> HIDE DEF k
<1>4. sub.plan # "FREE" /\ sub.status # "absent"
  BY <1>1, <1>2, CodeHasPlan DEF RowGood
<1>5. /\ status \in {"absent", "trialing", "active", "past_due", "cancelled"}
      /\ status # "absent" /\ (status = "past_due" => sub.status = "past_due")
  BY <1>1, <1>4 DEF Row
<1> HIDE DEF status
<1>6. row \in Row
  BY <1>1, <1>5 DEF Row
<1>7. /\ row.plan = sub.plan /\ row.version = sub.version /\ row.status = status
      /\ row.end = sub.end /\ row.grace = sub.grace
      /\ row.pending = sub.pending /\ row.pendingVersion = sub.pendingVersion
  BY <1>1 DEF Row
<1>8. row.cancelled
  BY <1>1 DEF Row
<1> HIDE DEF row
<1>9. RowGood(row, current)
  BY <1>1, <1>4, <1>5, <1>7, <1>8 DEF RowGood
<1>10. applied' \subseteq Key /\ cancelling' \in BOOLEAN
  BY <1>1, <1>2, <1>3 DEF TypeOK
<1>11. SubscriptionInv'
  BY <1>2, <1>4, <1>6, <1>7, <1>9, <1>10, RowOnlyInv
<1>12. TermsKept
  BY <1>2, <1>7 DEF TermsKept
<1> QED
  BY <1>11, <1>12

LEMMA DowngradeInv ==
  ASSUME SubscriptionInv, NEW p \in Plans, ScheduleDowngrade(p)
  PROVE  SubscriptionInv' /\ TermsKept
<1> DEFINE row == [sub EXCEPT !.pending = p, !.pendingVersion = current[p], !.cancelled = TRUE]
<1>1. /\ TypeOK /\ RowGood(sub, current) /\ sub \in Row
      /\ current[p] \in Nat /\ current[p] >= 1 /\ current[p] <= MaxVersion
  BY Types DEF SubscriptionInv
<1>2. /\ sub.end # 0 /\ sub' = row
      /\ UNCHANGED <<now, current, checkouts, paystack, applied, cancelling, active>>
  BY DEF ScheduleDowngrade
<1>3. sub.plan # "FREE"
  BY <1>1, <1>2 DEF RowGood
<1>4. current[p] \in 0 .. MaxVersion /\ current[p] \in 1 .. current[p]
  BY <1>1, ConstantsAssumption
<1>5. row \in Row
  BY <1>1, <1>4 DEF Row
<1>6. /\ row.plan = sub.plan /\ row.version = sub.version /\ row.status = sub.status
      /\ row.end = sub.end /\ row.grace = sub.grace
      /\ row.pending = p /\ row.pendingVersion = current[p]
  BY <1>1 DEF Row
<1>7. row.cancelled
  BY <1>1 DEF Row
<1> HIDE DEF row
<1>8. RowGood(row, current)
  BY <1>1, <1>3, <1>4, <1>6, <1>7 DEF RowGood
<1>9. applied' \subseteq Key /\ cancelling' \in BOOLEAN
  BY <1>1, <1>2 DEF TypeOK
<1>10. SubscriptionInv'
  BY <1>2, <1>3, <1>5, <1>6, <1>8, <1>9, RowOnlyInv
<1>11. TermsKept
  BY <1>2, <1>6 DEF TermsKept
<1> QED
  BY <1>10, <1>11

LEMMA FinishCancelInv ==
  ASSUME SubscriptionInv, FinishCancel
  PROVE  SubscriptionInv' /\ TermsKept
<1> DEFINE row == [sub EXCEPT !.cancelled = TRUE, !.pending = None, !.pendingVersion = 0]
<1>1. /\ TypeOK /\ RowGood(sub, current) /\ sub \in Row
  BY Types DEF SubscriptionInv
<1>2. /\ applied' \subseteq Key /\ cancelling' \in BOOLEAN
      /\ UNCHANGED <<now, current, checkouts, paystack, applied, active>>
  BY <1>1 DEF FinishCancel, TypeOK
<1>3. CASE sub' = sub
  <2>1. TermsKept
    BY <1>3 DEF TermsKept
  <2> QED
    BY <1>1, <1>2, <1>3, <2>1, RowOnlyInv
<1>4. CASE sub' = row
  <2>1. 0 \in 0 .. MaxVersion
    BY ConstantsAssumption
  <2>2. row \in Row
    BY <1>1, <2>1 DEF Row
  <2>3. /\ row.plan = sub.plan /\ row.version = sub.version /\ row.status = sub.status
        /\ row.end = sub.end /\ row.grace = sub.grace /\ row.code = sub.code /\ row.pending = None
    BY <1>1 DEF Row
  <2> HIDE DEF row
  <2>4. RowGood(row, current)
    BY <1>1, <2>3 DEF RowGood
  <2>5. SubscriptionInv'
    BY <1>2, <1>4, <2>2, <2>3, <2>4, RowOnlyInv
  <2>6. TermsKept
    BY <1>4, <2>3 DEF TermsKept
  <2> QED
    BY <2>5, <2>6
<1> QED
  BY <1>3, <1>4 DEF FinishCancel

-----------------------------------------------------------------------------
(* Publication of a version                                                *)

\* The two UPDATEs, one after the other, under the versions after it.
LEMMA RescheduledGood ==
  ASSUME NEW s \in Row, NEW versions \in [Plans -> 1 .. MaxVersion], RowGood(s, versions), NEW p \in Plans
  PROVE  LET t == Rescheduled(s, p, versions[p])
         IN /\ t \in Row /\ RowGood(t, versions)
            /\ t.plan = s.plan /\ t.version = s.version /\ t.end = s.end
<1> DEFINE v == versions[p]
           row == [s EXCEPT !.pendingVersion = v, !.cancelled = TRUE]
<1>1. v \in 0 .. MaxVersion /\ v \in 1 .. v
  BY ConstantsAssumption
<1>2. CASE s.pending = p
  <2>1. row \in Row
    BY <1>1 DEF Row
  <2>2. /\ row.plan = s.plan /\ row.version = s.version /\ row.status = s.status
        /\ row.end = s.end /\ row.grace = s.grace /\ row.code = s.code
        /\ row.pending = p /\ row.pendingVersion = v
    BY <1>2 DEF Row
  <2>3. row.cancelled
    BY DEF Row
  <2>4. s.plan # "FREE"
    BY <1>2, ConstantsAssumption DEF RowGood
  <2> HIDE DEF row
  <2>5. RowGood(row, versions)
    BY <1>1, <2>2, <2>3, <2>4 DEF RowGood
  <2>6. Rescheduled(s, p, v) = row \/ Rescheduled(s, p, v) = s
    BY DEF Rescheduled, row
  <2> QED
    BY <2>1, <2>2, <2>5, <2>6
<1>3. CASE s.pending # p
  BY <1>3 DEF Rescheduled
<1> QED
  BY <1>2, <1>3

LEMMA ScheduledGood ==
  ASSUME TypeOK, NEW s \in Row, NEW versions \in [Plans -> 1 .. MaxVersion], RowGood(s, versions),
         NEW p \in Plans
  PROVE  LET t == Scheduled(s, p, versions[p])
         IN /\ t \in Row /\ RowGood(t, versions)
            /\ t.plan = s.plan /\ t.version = s.version /\ t.end = s.end
<1> DEFINE v == versions[p]
           row == [s EXCEPT !.pending = p, !.pendingVersion = v, !.cancelled = TRUE]
<1>1. v \in 0 .. MaxVersion /\ v \in 1 .. v
  BY ConstantsAssumption
<1>2. CASE s.end > now
  <2>1. row \in Row
    BY <1>1 DEF Row
  <2>2. /\ row.plan = s.plan /\ row.version = s.version /\ row.status = s.status
        /\ row.end = s.end /\ row.grace = s.grace /\ row.code = s.code
        /\ row.pending = p /\ row.pendingVersion = v
    BY DEF Row
  <2>3. row.cancelled
    BY DEF Row
  <2>4. s.plan # "FREE"
    BY <1>2, Types, RowFields DEF RowGood
  <2> HIDE DEF row
  <2>5. RowGood(row, versions)
    BY <1>1, <2>2, <2>3, <2>4 DEF RowGood
  <2>6. Scheduled(s, p, v) = row \/ Scheduled(s, p, v) = s
    BY DEF Scheduled, row
  <2> QED
    BY <2>1, <2>2, <2>5, <2>6
<1>3. CASE ~(s.end > now)
  BY <1>3 DEF Scheduled
<1> QED
  BY <1>2, <1>3

\* A row keeps its terms published while versions are only added.
LEMMA RowGoodMonotone ==
  ASSUME NEW s \in Row, NEW old \in [Plans -> 1 .. MaxVersion], NEW new \in [Plans -> 1 .. MaxVersion],
         \A p \in Plans : old[p] <= new[p], RowGood(s, old)
  PROVE  RowGood(s, new)
<1>1. \A p \in Plans : old[p] \in Nat /\ new[p] \in Nat
  BY ConstantsAssumption
<1>2. \A p \in Plans : \A v \in 1 .. old[p] : v \in 1 .. new[p]
  BY <1>1
<1>3. s.plan \in Plans /\ s.pending \in Plans \cup {None}
  BY DEF Row
<1> QED
  BY <1>2, <1>3 DEF RowGood

LEMMA PublishInv ==
  ASSUME SubscriptionInv, NEW p \in Plans, PublishPlanVersion(p)
  PROVE  SubscriptionInv' /\ TermsKept
<1> DEFINE v == current[p] + 1
           versions == [current EXCEPT ![p] = v]
           first == Rescheduled(sub, p, v)
           row == Scheduled(first, p, v)
<1>1. /\ TypeOK /\ RowGood(sub, current) /\ CheckoutsPublished /\ RenewalsNamed /\ FreeWithinLimit
      /\ sub \in Row /\ current \in [Plans -> 1 .. MaxVersion]
      /\ v <= MaxVersion /\ current' = versions /\ sub' = row
      /\ UNCHANGED <<now, checkouts, charges, failures, recurring, applied, cancelling, active>>
  BY DEF SubscriptionInv, TypeOK, PublishPlanVersion, paystack
<1>2. \A q \in Plans : current[q] \in Nat /\ current[q] >= 1 /\ current[q] <= MaxVersion
  BY <1>1, Types
<1>3. v \in 1 .. MaxVersion
  BY <1>1, <1>2, ConstantsAssumption
<1>4. /\ versions \in [Plans -> 1 .. MaxVersion] /\ versions[p] = v
      /\ \A q \in Plans : current[q] <= versions[q]
  BY <1>1, <1>2, <1>3
<1> HIDE DEF versions
<1>5. RowGood(sub, versions)
  BY <1>1, <1>4, RowGoodMonotone
<1>6. /\ first \in Row /\ RowGood(first, versions)
      /\ first.plan = sub.plan /\ first.version = sub.version /\ first.end = sub.end
  BY <1>1, <1>4, <1>5, RescheduledGood
<1> HIDE DEF first
<1>7. /\ row \in Row /\ RowGood(row, versions)
      /\ row.plan = first.plan /\ row.version = first.version /\ row.end = first.end
  BY <1>1, <1>4, <1>6, ScheduledGood
<1> HIDE DEF row, v
<1>8. TypeOK'
  BY <1>1, <1>4, <1>7 DEF TypeOK
<1>9. CheckoutsPublished'
  <2>1. ASSUME NEW r \in References, checkouts[r].state # "unused"
        PROVE  /\ checkouts[r].plan \in PaidPlans
               /\ checkouts[r].version \in 1 .. versions[checkouts[r].plan]
    <3>1. /\ checkouts[r].plan \in PaidPlans /\ checkouts[r].plan \in Plans
          /\ checkouts[r].version \in 1 .. current[checkouts[r].plan]
      BY <1>1, <2>1 DEF CheckoutsPublished, PaidPlans
    <3>2. /\ current[checkouts[r].plan] <= versions[checkouts[r].plan]
          /\ current[checkouts[r].plan] \in Nat /\ versions[checkouts[r].plan] \in Nat
      BY <1>2, <1>4, <3>1, ConstantsAssumption
    <3> QED
      BY <3>1, <3>2
  <2> QED
    BY <1>1, <2>1 DEF CheckoutsPublished
<1>10. RowGood(row, versions) /\ sub' = row /\ current' = versions
  BY <1>1, <1>7
<1>11. FreeWithinLimit' /\ RenewalsNamed'
  BY <1>1, <1>6, <1>7 DEF FreeWithinLimit, RenewalsNamed
<1>12. TermsKept
  BY <1>1, <1>6, <1>7 DEF TermsKept
<1> QED
  BY <1>8, <1>9, <1>10, <1>11, <1>12 DEF SubscriptionInv, RowGood

-----------------------------------------------------------------------------
(* The lifecycle job                                                       *)

\* What the job may make of a row: one with the same terms, or FREE when its
\* period ended.
Aged(s, t) ==
  /\ t \in Row /\ RowGood(t, current)
  /\ \/ t.plan = s.plan /\ t.version = s.version /\ t.end = s.end
     \/ t.plan = "FREE" /\ s.plan # "FREE" /\ Ended(s)

LEMMA MovedGood ==
  ASSUME TypeOK, NEW s \in Row
  PROVE  Moved(s) \in Row /\ Moved(s).plan = "FREE" /\ RowGood(Moved(s), current)
<1>1. /\ current["FREE"] \in Nat /\ current["FREE"] >= 1 /\ current["FREE"] <= MaxVersion
  BY Types DEF Plans
<1>2. current["FREE"] \in 0 .. MaxVersion /\ 0 \in 0 .. MaxVersion
  BY <1>1, ConstantsAssumption
<1>3. Moved(s) \in Row
  BY <1>2 DEF Moved, Row, Plans
<1>4. /\ Moved(s).plan = "FREE" /\ Moved(s).status = "cancelled" /\ Moved(s).end = 0
      /\ Moved(s).grace = 0 /\ Moved(s).pending = None /\ Moved(s).code = None
  BY DEF Moved, Row
<1>5. RowGood(Moved(s), current)
  BY <1>4 DEF RowGood
<1> QED
  BY <1>3, <1>4, <1>5

LEMMA MoveEndedAges ==
  ASSUME TypeOK, NEW s \in Row, RowGood(s, current)
  PROVE  Aged(s, MoveEnded(s))
<1>1. CASE MoveEnded(s) = s
  BY <1>1 DEF Aged
<1>2. CASE MoveEnded(s) = Moved(s) /\ Ended(s)
  <2>1. s.plan # "FREE"
    BY <1>2 DEF Ended, RowGood
  <2> QED
    BY <1>2, <2>1, MovedGood DEF Aged
<1> QED
  BY <1>1, <1>2 DEF MoveEnded

LEMMA MarkPastDueAges ==
  ASSUME TypeOK, NEW s \in Row, RowGood(s, current)
  PROVE  Aged(s, MarkPastDue(s))
<1> DEFINE row == [s EXCEPT !.status = "past_due", !.grace = s.end + Grace]
<1>1. CASE MarkPastDue(s) = s
  BY <1>1 DEF Aged
<1>2. CASE MarkPastDue(s) = row /\ s.plan # "FREE"
  <2>1. s.end + Grace \in Nat /\ s.end + Grace # 0
    BY RowFields, ConstantsAssumption
  <2>2. row \in Row
    BY <2>1 DEF Row
  <2>3. /\ row.plan = s.plan /\ row.version = s.version /\ row.status = "past_due"
        /\ row.end = s.end /\ row.grace = s.end + Grace
        /\ row.pending = s.pending /\ row.pendingVersion = s.pendingVersion
        /\ row.cancelled = s.cancelled
    BY DEF Row
  <2> HIDE DEF row
  <2>4. RowGood(row, current)
    BY <1>2, <2>1, <2>3 DEF RowGood
  <2>5. row.plan = s.plan /\ row.version = s.version /\ row.end = s.end
    BY <2>3
  <2> QED
    BY <1>2, <2>2, <2>4, <2>5 DEF Aged
<1> QED
  BY <1>1, <1>2 DEF MarkPastDue

\* A grace period that is over began when the period ended.
LEMMA MoveLapsedAges ==
  ASSUME TypeOK, NEW s \in Row, RowGood(s, current)
  PROVE  Aged(s, MoveLapsed(s))
<1>1. CASE MoveLapsed(s) = s
  BY <1>1 DEF Aged
<1>2. CASE MoveLapsed(s) = Moved(s) /\ s.plan # "FREE" /\ s.grace # 0 /\ s.grace <= now
  <2>1. s.end # 0 /\ s.grace = s.end + Grace
    BY <1>2 DEF RowGood
  <2>2. s.end \in Nat /\ now \in Nat /\ Grace \in Nat
    BY Types, RowFields, ConstantsAssumption
  <2>3. Ended(s)
    BY <1>2, <2>1, <2>2 DEF Ended
  <2> QED
    BY <1>2, <2>3, MovedGood DEF Aged
<1> QED
  BY <1>1, <1>2 DEF MoveLapsed

LEMMA AgedTransitive ==
  ASSUME NEW s \in Row, NEW t, NEW u, Aged(s, t), Aged(t, u)
  PROVE  Aged(s, u)
<1>1. CASE t.plan = "FREE"
  BY <1>1 DEF Aged, RowGood, Ended
<1>2. CASE t.plan # "FREE"
  BY <1>2 DEF Aged, Ended
<1> QED
  BY <1>1, <1>2

LEMMA LifecycleInv ==
  ASSUME SubscriptionInv, RunSubscriptionLifecycle
  PROVE  SubscriptionInv' /\ (TermsKept \/ (sub'.plan = "FREE" /\ Ended(sub)))
<1> DEFINE first == MoveEnded(sub)
           second == MarkPastDue(first)
           row == MoveLapsed(second)
<1>1. /\ TypeOK /\ RowGood(sub, current) /\ CheckoutsPublished /\ RenewalsNamed /\ FreeWithinLimit
      /\ sub \in Row /\ active \in Nat /\ sub' = row
      /\ active' = IF row.plan = "FREE" /\ sub.plan # "FREE" THEN KeepNewest(active) ELSE active
      /\ UNCHANGED <<now, current, checkouts, charges, failures, recurring, applied, cancelling>>
  BY Types DEF SubscriptionInv, RunSubscriptionLifecycle, paystack
<1>2. Aged(sub, first)
  BY <1>1, MoveEndedAges
<1> HIDE DEF first
<1>3. Aged(first, second)
  BY <1>1, <1>2, MarkPastDueAges DEF Aged
<1> HIDE DEF second
<1>4. Aged(second, row)
  BY <1>1, <1>3, MoveLapsedAges DEF Aged
<1> HIDE DEF row
<1>5. Aged(sub, row)
  <2>1. Aged(sub, second)
    BY <1>1, <1>2, <1>3, AgedTransitive
  <2> QED
    BY <1>1, <1>4, <2>1, AgedTransitive
<1>6. row \in Row /\ RowGood(row, current)
  BY <1>5 DEF Aged
<1>7. /\ ActiveServices["FREE"] \in Nat
      /\ KeepNewest(active) \in Nat /\ KeepNewest(active) <= ActiveServices["FREE"]
  BY <1>1, ConstantsAssumption DEF KeepNewest, Plans
<1>8. active' \in Nat /\ (row.plan = "FREE" => active' <= ActiveServices["FREE"])
  BY <1>1, <1>7 DEF FreeWithinLimit
<1>9. TypeOK'
  BY <1>1, <1>6, <1>8 DEF TypeOK
<1>10. CheckoutsPublished' /\ RenewalsNamed' /\ FreeWithinLimit'
  BY <1>1, <1>8 DEF CheckoutsPublished, RenewalsNamed, FreeWithinLimit
<1>11. RowGood(row, current) /\ sub' = row /\ current' = current
  BY <1>1, <1>6
<1>12. SubscriptionInv'
  BY <1>9, <1>10, <1>11 DEF SubscriptionInv, RowGood
<1>13. TermsKept \/ (sub'.plan = "FREE" /\ Ended(sub))
  BY <1>1, <1>5 DEF Aged, TermsKept
<1> QED
  BY <1>12, <1>13

-----------------------------------------------------------------------------
(* Services                                                                *)

\* A service becomes active under the limit of the plan in force, which for a
\* row without a plan is that of FREE.
LEMMA ServicesInv ==
  ASSUME SubscriptionInv, ActivateService \/ DeactivateService
  PROVE  SubscriptionInv'
<1>1. /\ TypeOK /\ RowGood(sub, current) /\ CheckoutsPublished /\ RenewalsNamed /\ FreeWithinLimit
      /\ active \in Nat
      /\ UNCHANGED <<now, current, sub, checkouts, charges, failures, recurring, applied, cancelling>>
  BY Types DEF SubscriptionInv, ActivateService, DeactivateService, paystack
<1>2. active' \in Nat
  BY <1>1 DEF ActivateService, DeactivateService
<1>3. FreeWithinLimit'
  <2>1. ASSUME sub.plan = "FREE" PROVE active' <= ActiveServices["FREE"]
    <3>1. EffectivePlan = "FREE" /\ active <= ActiveServices["FREE"] /\ ActiveServices["FREE"] \in Nat
      BY <1>1, <2>1, ConstantsAssumption DEF EffectivePlan, FreeWithinLimit, Plans
    <3> QED
      BY <1>1, <3>1 DEF ActivateService, DeactivateService, Admits
  <2> QED
    BY <1>1, <2>1 DEF FreeWithinLimit
<1>4. TypeOK' /\ CheckoutsPublished' /\ RenewalsNamed'
  BY <1>1, <1>2 DEF TypeOK, CheckoutsPublished, RenewalsNamed
<1>5. RowGood(sub, current) /\ sub' = sub /\ current' = current
  BY <1>1
<1> QED
  BY <1>3, <1>4, <1>5 DEF SubscriptionInv, RowGood

-----------------------------------------------------------------------------
(* The steps together                                                      *)

\* The steps that leave the plan, its terms and its period.
TermsKeptNext ==
  \/ \E r \in References :
       \/ \E o \in Offers[r] : StartCheckout(r, o[1], o[2])
       \/ Pay(r)
  \/ \E c \in Codes : Renew(c) \/ StopAtPaystack(c)
  \/ \E f \in failures : HandleChargeFailed(f)
  \/ \E c \in Codes, type \in {"not_renew", "disable"} : HandleSubscriptionEvent(c, type)
  \/ \E p \in Plans : ScheduleDowngrade(p)
  \/ DisablePendingRenewal
  \/ BeginCancel \/ FinishCancel \/ CancelDies
  \/ \E p \in Edited : PublishPlanVersion(p)
  \/ ActivateService \/ DeactivateService
  \/ Tick
  \/ UNCHANGED vars

LEMMA TermsKeptInv ==
  ASSUME SubscriptionInv, TermsKeptNext
  PROVE  SubscriptionInv' /\ TermsKept
<1>1. CASE \E r \in References : \E o \in Offers[r] : StartCheckout(r, o[1], o[2])
  <2>1. PICK r \in References : \E o \in Offers[r] : StartCheckout(r, o[1], o[2])
    BY <1>1
  <2>2. TermsKept
    BY <2>1 DEF StartCheckout, TermsKept
  <2> QED
    BY <2>1, <2>2, StartCheckoutInv
<1>2. CASE \E r \in References : Pay(r)
  <2>1. TermsKept
    BY <1>2 DEF Pay, TermsKept
  <2> QED
    BY <1>2, <2>1, PayInv
<1>3. CASE \E c \in Codes : Renew(c)
  <2>1. TermsKept
    BY <1>3 DEF Renew, TermsKept
  <2> QED
    BY <1>3, <2>1, RenewInv
<1>4. CASE DisablePendingRenewal \/ BeginCancel \/ CancelDies \/ \E c \in Codes : StopAtPaystack(c)
  <2>1. TermsKept
    BY <1>4 DEF DisablePendingRenewal, BeginCancel, CancelDies, StopAtPaystack, TermsKept
  <2> QED
    BY <1>4, <2>1, DisablingInv
<1>5. CASE \E f \in failures : HandleChargeFailed(f)
  BY <1>5, ChargeFailedInv
<1>6. CASE \E c \in Codes, type \in {"not_renew", "disable"} : HandleSubscriptionEvent(c, type)
  <2>1. PICK c \in Codes, type \in {"not_renew", "disable"} : HandleSubscriptionEvent(c, type)
    BY <1>6
  <2> QED
    BY <2>1, EventInv
<1>7. CASE \E p \in Plans : ScheduleDowngrade(p)
  BY <1>7, DowngradeInv
<1>8. CASE FinishCancel
  BY <1>8, FinishCancelInv
<1>9. CASE \E p \in Edited : PublishPlanVersion(p)
  BY <1>9, PublishInv, ConstantsAssumption
<1>10. CASE ActivateService \/ DeactivateService
  <2>1. TermsKept
    BY <1>10 DEF ActivateService, DeactivateService, TermsKept
  <2> QED
    BY <1>10, <2>1, ServicesInv
<1>11. CASE Tick \/ UNCHANGED vars
  <2>1. TermsKept
    BY <1>11 DEF Tick, vars, TermsKept
  <2> QED
    BY <1>11, <2>1, TimeInv
<1> QED
  BY <1>1, <1>2, <1>3, <1>4, <1>5, <1>6, <1>7, <1>8, <1>9, <1>10, <1>11 DEF TermsKeptNext

LEMMA NextCases ==
  ASSUME [Next]_vars
  PROVE  \/ TermsKeptNext
         \/ StartTrial
         \/ \E e \in charges : HandleChargeSuccess(e)
         \/ RunSubscriptionLifecycle
<1>1. CASE Handle
  BY <1>1 DEF Handle, TermsKeptNext
<1>2. CASE ~Handle
  BY <1>2 DEF Next, TermsKeptNext
<1> QED
  BY <1>1, <1>2

LEMMA NextInv == SubscriptionInv /\ [Next]_vars => SubscriptionInv'
<1>1. SUFFICES ASSUME SubscriptionInv, [Next]_vars PROVE SubscriptionInv'
  OBVIOUS
<1>2. CASE \E e \in charges : HandleChargeSuccess(e)
  BY <1>1, <1>2, CreditCheckoutInv, CreditRenewalInv
<1> QED
  BY <1>1, <1>2, NextCases, TermsKeptInv, StartTrialInv, LifecycleInv

\* The row is one the provider may have at every moment, whatever Paystack
\* reports and when.
THEOREM Invariant == Spec => []SubscriptionInv
BY InitInv, NextInv, PTL DEF Spec

-----------------------------------------------------------------------------
(* What the invariant gives                                                *)

\* Status, period, grace and scheduled change agree at every moment.
THEOREM PlanAlwaysAsPaid == Spec => []PlanAsPaid
<1>1. ASSUME SubscriptionInv PROVE PlanAsPaid
  <2>1. /\ TypeOK /\ RowGood(sub, current) /\ sub \in Row
        /\ sub.end \in Nat /\ sub.grace \in Nat /\ now \in Nat
    BY <1>1, Types DEF SubscriptionInv
  <2>2. GraceFollowsPeriod /\ PendingIsPublished
    BY <2>1 DEF RowGood, GraceFollowsPeriod, PendingIsPublished
  <2>3. ASSUME sub.plan # "FREE", sub.end > now PROVE Entitled
    <3>1. sub.status \in {"trialing", "active", "past_due", "cancelled"}
      BY <2>1, <2>3 DEF RowGood, Row
    <3>2. CASE sub.status = "past_due"
      <4>1. sub.grace = sub.end + Grace
        BY <2>1, <3>2 DEF RowGood
      <4>2. sub.grace > now
        BY <2>1, <2>3, <4>1, ConstantsAssumption
      <4> QED
        BY <3>2, <4>2 DEF Entitled
    <3>3. CASE sub.status # "past_due"
      BY <2>3, <3>1, <3>3 DEF Entitled, PeriodIsCurrent
    <3> QED
      BY <3>2, <3>3
  <2>4. EntitledThroughPeriod
    BY <2>3 DEF EntitledThroughPeriod, PeriodIsCurrent
  <2> QED
    BY <2>1, <2>2, <2>4 DEF PlanAsPaid
<1> QED
  BY <1>1, Invariant, PTL

\* Nobody keeps more services than FREE admits beyond the plan that paid for
\* them.
THEOREM FreeAlwaysWithinLimit == Spec => []FreeWithinLimit
<1>1. SubscriptionInv => FreeWithinLimit
  BY DEF SubscriptionInv
<1> QED
  BY <1>1, Invariant, PTL

\* Terms change by a charge that is recorded with the change, by the trial, or
\* by the end of the period; no event, cancellation or edit changes them.
THEOREM TermsArePaid == Spec => PaidTermsOnly
<1> DEFINE Justified ==
             \/ sub'.plan = sub.plan /\ sub'.version = sub.version /\ sub'.end = sub.end
             \/ \E k \in applied' \ applied :
                  /\ k.type = "charge"
                  /\ \E e \in charges : e.of = k.of /\ e.number = k.number
             \/ sub'.status = "trialing" /\ ~sub.trialUsed /\ ~Paid
             \/ sub'.plan = "FREE" /\ Ended(sub)
<1>1. ASSUME SubscriptionInv, [Next]_vars PROVE [Justified]_vars
  <2>1. CASE TermsKeptNext
    BY <1>1, <2>1, TermsKeptInv DEF TermsKept
  <2>2. CASE StartTrial
    <3>1. sub \in Row
      BY <1>1, Types DEF SubscriptionInv
    <3>2. sub'.status = "trialing"
      BY <2>2, <3>1 DEF StartTrial, Row
    <3> QED
      BY <2>2, <3>2 DEF StartTrial
  <2>3. CASE \E e \in charges : HandleChargeSuccess(e)
    <3>1. PICK e \in charges : HandleChargeSuccess(e)
      BY <2>3
    <3>2. KeyOf("charge", e.of, e.number) \in applied' \ applied
      BY <1>1, <3>1, CreditCheckoutInv, CreditRenewalInv
    <3>3. e.of \in References /\ e.number \in Nat
      BY <1>1, Types DEF SubscriptionInv
    <3>4. /\ KeyOf("charge", e.of, e.number).type = "charge"
          /\ KeyOf("charge", e.of, e.number).of = e.of
          /\ KeyOf("charge", e.of, e.number).number = e.number
      BY DEF KeyOf
    <3> QED
      BY <3>2, <3>4
  <2>4. CASE RunSubscriptionLifecycle
    BY <1>1, <2>4, LifecycleInv DEF TermsKept
  <2> QED
    BY <1>1, <2>1, <2>2, <2>3, <2>4, NextCases
<1> QED
  BY <1>1, Invariant, PTL DEF Spec, PaidTermsOnly

\* Time that is paid for is only shortened by the end of the period itself, or
\* by a checkout for automatic renewal, which starts its own.
THEOREM PaidTimeIsKept == Spec => PaidTimeKept
<1> DEFINE Kept ==
             sub'.end < sub.end =>
               \/ sub'.plan = "FREE" /\ Ended(sub)
               \/ \E r \in References : checkouts[r].mode = "automatic"
                                       /\ checkouts[r].state = "paid"
                                       /\ checkouts'[r].state = "completed"
<1>1. ASSUME SubscriptionInv, [Next]_vars PROVE [Kept]_vars
  <2>1. SubscriptionInv' /\ sub.end \in Nat /\ sub'.end \in Nat
    <3>1. SubscriptionInv' /\ sub \in Row /\ sub' \in Row
      BY <1>1, NextInv DEF SubscriptionInv, TypeOK
    <3> QED
      BY <3>1, RowFields
  <2>2. CASE TermsKeptNext
    <3>1. sub'.end = sub.end
      BY <1>1, <2>2, TermsKeptInv DEF TermsKept
    <3> QED
      BY <2>1, <3>1
  <2>3. CASE StartTrial
    <3>1. sub.end = 0
      BY <1>1, <2>3, StartTrialInv
    <3> QED
      BY <2>1, <3>1
  <2>4. CASE \E e \in charges : HandleChargeSuccess(e)
    <3>1. PICK e \in charges : HandleChargeSuccess(e)
      BY <2>4
    <3>2. e.of \in References /\ checkouts[e.of] \in Checkout
      BY <1>1, Types DEF SubscriptionInv
    <3>3. CASE e.number = 0 /\ checkouts[e.of].mode = "automatic"
      BY <1>1, <3>1, <3>2, <3>3, CreditCheckoutInv
    <3>4. CASE e.number = 0 /\ checkouts[e.of].mode = "manual"
      <4>1. sub'.end >= sub.end
        BY <1>1, <3>1, <3>4, CreditCheckoutInv
      <4> QED
        BY <2>1, <4>1
    <3>5. CASE e.number # 0
      <4>1. sub'.end >= sub.end
        BY <1>1, <3>1, <3>5, CreditRenewalInv
      <4> QED
        BY <2>1, <4>1
    <3>6. checkouts[e.of].mode \in {"automatic", "manual"}
      BY <3>2 DEF Checkout
    <3> QED
      BY <3>3, <3>4, <3>5, <3>6
  <2>5. CASE RunSubscriptionLifecycle
    <3>1. TermsKept \/ (sub'.plan = "FREE" /\ Ended(sub))
      BY <1>1, <2>5, LifecycleInv
    <3> QED
      BY <2>1, <3>1 DEF TermsKept
  <2> QED
    BY <1>1, <2>2, <2>3, <2>4, <2>5, NextCases
<1> QED
  BY <1>1, Invariant, PTL DEF Spec, PaidTimeKept
===============================================================================
