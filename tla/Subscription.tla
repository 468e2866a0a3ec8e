----------------------------- MODULE Subscription -----------------------------
(***************************************************************************)
(* The subscription of one provider: its trial, checkouts, renewals,       *)
(* scheduled changes and cancellation, the versions of the plans, the      *)
(* hourly lifecycle job, and the active services the plan admits           *)
(* (subscription.service.js, subscription-plans.service.js,                *)
(* subscription-lifecycle.service.js, entitlements.js, services.model.js). *)
(*                                                                         *)
(* Every transaction takes the advisory lock of the provider or locks its  *)
(* row, and the row is the only one it changes, so a transaction is one    *)
(* action and one instance is one provider.  Calls to Paystack are made    *)
(* outside of it: startCheckout and cancelAtPeriodEnd take several steps.  *)
(* Paystack reports charges and events at any later time, in any order and *)
(* more than once, or never.                                               *)
(*                                                                         *)
(* Time is a clock; 0 stands for NULL in a timestamp.                      *)
(***************************************************************************)
EXTENDS Integers, FiniteSets, FiniteSetsExt

CONSTANTS
  References,      \* checkout references: bounds the number of checkouts
  None,
  Offers,          \* of each reference, the pairs of a paid plan and a renewal mode
  Edited,          \* plans whose definition the administrator publishes
  MaxVersion,      \* last version of a plan
  Trial,           \* 14 days
  Month,           \* MONTHLY_PERIOD
  Grace,           \* 5 days
  MaxRenewals,     \* renewals Paystack bills for one code
  Horizon,         \* last instant of the model's clock
  ActiveServices   \* limit of each plan

\* The subscription that Paystack starts for an automatic checkout has a code
\* of its own, for which the model takes the reference of the checkout.
Codes == References

Plans == {"FREE", "PRO", "BUSINESS"}
PaidPlans == Plans \ {"FREE"}

ASSUME ConstantsAssumption ==
  /\ Trial \in Nat \ {0} /\ Month \in Nat \ {0} /\ Grace \in Nat \ {0}
  /\ Horizon \in Nat /\ MaxRenewals \in Nat /\ MaxVersion \in Nat \ {0}
  /\ Edited \subseteq Plans
  /\ Offers \in [References -> SUBSET (PaidPlans \X {"automatic", "manual"})]
  /\ ActiveServices \in [Plans -> Nat]
  /\ ActiveServices["FREE"] <= ActiveServices["PRO"]
  /\ ActiveServices["PRO"] <= ActiveServices["BUSINESS"]
  /\ None \notin Plans \cup References
  /\ IsFiniteSet(References)

VARIABLES
  now,
  current,     \* version of each plan that is_current
  sub,         \* the provider's row of subscriptions
  checkouts,   \* subscription_events of type checkout.*, by reference
  charges,     \* successful charges Paystack made
  failures,    \* invoices whose charge failed
  recurring,   \* Paystack's subscriptions of this provider
  applied,     \* event keys recorded in subscription_events
  cancelling,  \* a cancelAtPeriodEnd between Paystack's answer and its UPDATE
  active       \* number of active services

paystack == <<charges, failures, recurring>>
vars == <<now, current, sub, checkouts, paystack, applied, cancelling, active>>

Row == [plan : Plans,
        version : 0..MaxVersion,
        status : {"absent", "trialing", "active", "past_due", "cancelled"},
        end : Nat,                                  \* current_period_end
        grace : Nat,                                \* grace_ends_at
        cancelled : BOOLEAN,                        \* cancel_at_period_end
        pending : Plans \cup {None},                \* pending_plan
        pendingVersion : 0..MaxVersion,
        trialUsed : BOOLEAN,
        code : Codes \cup {None}]                   \* paystack_subscription_code

Checkout == [state : {"unused", "initialized", "paid", "completed"},
             plan : PaidPlans \cup {None},
             version : 0..MaxVersion,
             mode : {"automatic", "manual"}]

\* A charge is that of a checkout (number 0) or the n-th renewal of its code.
Charge == [of : References, number : Nat,
           code : Codes \cup {None}, at : Nat]

Recurring == [state : {"unused", "active", "disabled"},
              plan : PaidPlans \cup {None}, next : Nat, number : Nat]

Key == [type : {"charge", "failed", "not_renew", "disable"},
        of : References, number : Nat]

TypeOK ==
  /\ now \in 0..Horizon
  /\ current \in [Plans -> 1..MaxVersion]
  /\ sub \in Row
  /\ checkouts \in [References -> Checkout]
  /\ charges \subseteq Charge
  /\ failures \subseteq Codes \X Nat
  /\ recurring \in [Codes -> Recurring]
  /\ applied \subseteq Key
  /\ cancelling \in BOOLEAN
  /\ active \in Nat

NoRow == [plan |-> "FREE", version |-> 0, status |-> "absent", end |-> 0,
          grace |-> 0, cancelled |-> FALSE, pending |-> None,
          pendingVersion |-> 0, trialUsed |-> FALSE, code |-> None]

Init ==
  /\ now = 0
  /\ current = [p \in Plans |-> 1]
  /\ sub = NoRow
  /\ checkouts = [r \in References |->
       [state |-> "unused", plan |-> None, version |-> 0, mode |-> "manual"]]
  /\ charges = {} /\ failures = {}
  /\ recurring = [c \in Codes |->
       [state |-> "unused", plan |-> None, next |-> 0, number |-> 0]]
  /\ applied = {}
  /\ cancelling = FALSE
  /\ active = 0

-----------------------------------------------------------------------------
(* The plan in force                                                       *)

Rank(p) == CASE p = "FREE" -> 0 [] p = "PRO" -> 1 [] p = "BUSINESS" -> 2

PeriodIsCurrent == sub.end > now
Live == sub.status \in {"trialing", "active", "past_due"}

\* isEntitled of getEffectivePlan.
Entitled ==
  \/ sub.status \in {"trialing", "active", "cancelled"} /\ PeriodIsCurrent
  \/ sub.status = "past_due" /\ sub.grace > now

EffectivePlan == IF Entitled THEN sub.plan ELSE "FREE"

\* assertPlanLimit for activeServices.
Admits(n) == n <= ActiveServices[EffectivePlan]

-----------------------------------------------------------------------------
(* Trial and checkout                                                      *)

Paid == \E k \in applied : k.type = "charge"

StartTrial ==
  /\ ~sub.trialUsed
  /\ sub.plan = "FREE"
  /\ ~Paid
  /\ sub' = [sub EXCEPT !.plan = "PRO", !.version = current["PRO"],
                        !.status = "trialing", !.end = now + Trial, !.grace = 0,
                        !.cancelled = FALSE, !.pending = None,
                        !.pendingVersion = 0, !.trialUsed = TRUE]
  /\ UNCHANGED <<now, current, checkouts, paystack, applied, cancelling, active>>

\* The conditions of startCheckout on the plan asked for.
MayCheckout(p, mode) ==
  /\ sub.pending # None => ~PeriodIsCurrent /\ p = sub.pending
  /\ PeriodIsCurrent =>
       /\ Rank(p) >= Rank(sub.plan)
       /\ \/ p # sub.plan
          \/ mode = "manual"
          \/ sub.status = "trialing"
          \/ sub.cancelled

\* When a call to Paystack fails or its answer is lost, the event stays behind
\* like that of a page nobody pays on.  (The code marks it, if its process lives
\* on: a charge would no longer be matched.  Nobody has that page to pay on.)
StartCheckout(r, p, mode) ==
  /\ checkouts[r].state = "unused"
  /\ MayCheckout(p, mode)
  /\ checkouts' = [checkouts EXCEPT ![r] =
       [state |-> "initialized", plan |-> p, version |-> current[p], mode |-> mode]]
  /\ UNCHANGED <<now, current, sub, paystack, applied, cancelling, active>>

-----------------------------------------------------------------------------
(* Paystack                                                                *)

\* The provider pays.  An automatic checkout also starts a subscription at
\* Paystack, which the verified transaction may name or not.
PayOnce(r) ==
  /\ checkouts[r].mode = "manual"
  /\ charges' = charges \cup {[of |-> r, number |-> 0, code |-> None, at |-> now]}
  /\ UNCHANGED recurring

PayAndSubscribe(r) ==
  /\ checkouts[r].mode = "automatic"
  /\ \E named \in {r, None} :
       charges' = charges \cup {[of |-> r, number |-> 0, code |-> named, at |-> now]}
  /\ recurring' = [recurring EXCEPT ![r] =
       [state |-> "active", plan |-> checkouts[r].plan, next |-> now + Month, number |-> 1]]

Pay(r) ==
  /\ checkouts[r].state = "initialized"
  /\ PayOnce(r) \/ PayAndSubscribe(r)
  /\ checkouts' = [checkouts EXCEPT ![r].state = "paid"]
  /\ UNCHANGED <<now, current, sub, failures, applied, cancelling, active>>

Billed(c) == [recurring EXCEPT ![c].next = @ + Month, ![c].number = @ + 1]

Renew(c) ==
  /\ recurring[c].state = "active" /\ recurring[c].next <= now
  /\ recurring[c].number <= MaxRenewals
  /\ recurring' = Billed(c)
  /\ \/ /\ charges' = charges \cup
             {[of |-> c, number |-> recurring[c].number, code |-> c, at |-> now]}
        /\ UNCHANGED failures
     \/ /\ failures' = failures \cup {<<c, recurring[c].number>>}
        /\ UNCHANGED charges
  /\ UNCHANGED <<now, current, sub, checkouts, applied, cancelling, active>>

\* The provider stops the renewals on Paystack's own page.
StopAtPaystack(c) ==
  /\ recurring[c].state = "active"
  /\ recurring' = [recurring EXCEPT ![c].state = "disabled"]
  /\ UNCHANGED <<now, current, sub, checkouts, charges, failures, applied,
                 cancelling, active>>

\* disablePaystackSubscription; disabling twice changes nothing.
Disabled(c) ==
  IF c = None THEN recurring ELSE [recurring EXCEPT ![c].state = "disabled"]

-----------------------------------------------------------------------------
(* Events of Paystack                                                      *)

KeyOf(type, of, number) == [type |-> type, of |-> of, number |-> number]

Second(t1, t2) == t2                                             \* a mutant
Latest(t1, t2) == IF t1 > t2 THEN t1 ELSE t2

\* handleChargeSuccess for the reference of a checkout.
CreditCheckout(e) ==
  LET r == e.of
      k == KeyOf("charge", r, 0)
      manual == checkouts[r].mode = "manual"
      replaced == IF manual \/ (e.code # None /\ e.code # sub.code)
                    THEN sub.code ELSE None
      start == IF manual THEN Latest(sub.end, e.at) ELSE e.at
  IN /\ checkouts[r].state = "paid"
     /\ k \notin applied
     /\ applied' = applied \cup {k}
     /\ checkouts' = [checkouts EXCEPT ![r].state = "completed"]
     /\ recurring' = Disabled(replaced)
     /\ sub' = [sub EXCEPT !.plan = checkouts[r].plan,
                           !.version = checkouts[r].version,
                           !.status = "active", !.end = start + Month,
                           !.grace = 0, !.cancelled = FALSE,
                           !.pending = None, !.pendingVersion = 0,
                           !.code = CASE e.code # None -> e.code
                                      [] manual -> None
                                      [] OTHER -> @]

\* handleChargeSuccess for a renewal: without a row of that code, or with one
\* of another price, the event is not this subscription's and is retried.
CreditRenewal(e) ==
  LET k == KeyOf("charge", e.of, e.number)
  IN /\ sub.code = e.code
     /\ recurring[e.of].plan = sub.plan
     /\ k \notin applied
     /\ applied' = applied \cup {k}
     /\ sub' = [sub EXCEPT !.status = "active",
                           !.end = Latest(@, e.at) + Month, !.grace = 0]
     /\ UNCHANGED <<checkouts, recurring>>

HandleNamedCharge(e) ==                                          \* a mutant
  /\ e \in charges /\ e.code # None
  /\ IF e.number = 0 THEN CreditCheckout(e) ELSE CreditRenewal(e)
  /\ UNCHANGED <<now, current, charges, failures, cancelling, active>>
HandleChargeSuccess(e) ==
  /\ e \in charges
  /\ IF e.number = 0 THEN CreditCheckout(e) ELSE CreditRenewal(e)
  /\ UNCHANGED <<now, current, charges, failures, cancelling, active>>

GraceFromNow(end) == now + Grace                                 \* a mutant
GraceAfter(end) == (IF end = 0 THEN now ELSE end) + Grace

HandleChargeFailed(f) ==
  LET k == KeyOf("failed", f[1], f[2])
  IN /\ f \in failures
     /\ sub.code = f[1]
     /\ k \notin applied
     /\ applied' = applied \cup {k}
     /\ sub' = [sub EXCEPT !.status = "past_due",
                           !.grace = IF @ = 0 THEN GraceAfter(sub.end) ELSE @]
     /\ UNCHANGED <<now, current, checkouts, paystack, cancelling, active>>

\* handleSubscriptionEvent.  An event of an unknown code changes nothing: the
\* branch that would link a subscription.create to the row of its customer
\* assigns to a constant and throws.
HandleSubscriptionEvent(c, type) ==
  LET k == KeyOf(type, c, 0)
  IN /\ recurring[c].state = "disabled"
     /\ sub.code = c
     /\ k \notin applied
     /\ applied' = applied \cup {k}
     /\ sub' = [sub EXCEPT !.cancelled = TRUE,
                           !.status = IF type = "disable" THEN "cancelled" ELSE @]
     /\ UNCHANGED <<now, current, checkouts, paystack, cancelling, active>>

-----------------------------------------------------------------------------
(* Scheduled changes                                                       *)

ScheduleDowngrade(p) ==
  /\ sub.end # 0
  /\ Rank(p) < Rank(sub.plan)
  /\ sub' = [sub EXCEPT !.pending = p, !.pendingVersion = current[p],
                        !.cancelled = TRUE]
  /\ UNCHANGED <<now, current, checkouts, paystack, applied, cancelling, active>>

\* disablePendingPlanRenewals, after a downgrade or a publication and in every
\* run of the job until it succeeded once.
DisablePendingRenewal ==
  /\ sub.pending # None /\ sub.cancelled /\ PeriodIsCurrent
  /\ sub.code # None
  /\ recurring[sub.code].state # "disabled"
  /\ recurring' = Disabled(sub.code)
  /\ UNCHANGED <<now, current, sub, checkouts, charges, failures, applied,
                 cancelling, active>>

BeginCancel ==
  /\ ~cancelling
  /\ sub.plan # "FREE" /\ Live
  /\ recurring' = Disabled(sub.code)
  /\ cancelling' = TRUE
  /\ UNCHANGED <<now, current, sub, checkouts, charges, failures, applied, active>>

FinishCancel ==
  /\ cancelling /\ cancelling' = FALSE
  /\ sub' = IF sub.plan # "FREE" /\ Live
              THEN [sub EXCEPT !.cancelled = TRUE, !.pending = None,
                               !.pendingVersion = 0]
              ELSE sub
  /\ UNCHANGED <<now, current, checkouts, paystack, applied, active>>

\* The process stops, or the transaction fails, after Paystack's answer.
CancelDies ==
  /\ cancelling /\ cancelling' = FALSE
  /\ UNCHANGED <<now, current, sub, checkouts, paystack, applied, active>>

\* The two UPDATEs of publishPlanVersion on this row, in their order.
Rescheduled(s, p, v) ==
  IF s.pending = p /\ s.status \in {"trialing", "active", "past_due"}
    THEN [s EXCEPT !.pendingVersion = v, !.cancelled = TRUE] ELSE s
Applied(s, p, v) ==                                              \* a mutant
  IF s.plan = p /\ s.pending = None THEN [s EXCEPT !.version = v] ELSE s
Scheduled(s, p, v) ==
  IF /\ s.plan = p /\ s.pending = None /\ s.end > now
     /\ s.status \in {"trialing", "active", "past_due"}
    THEN [s EXCEPT !.pending = p, !.pendingVersion = v, !.cancelled = TRUE] ELSE s

PublishPlanVersion(p) ==
  LET v == current[p] + 1
  IN /\ v <= MaxVersion
     /\ current' = [current EXCEPT ![p] = v]
     /\ sub' = Scheduled(Rescheduled(sub, p, v), p, v)
     /\ UNCHANGED <<now, checkouts, paystack, applied, cancelling, active>>

-----------------------------------------------------------------------------
(* The lifecycle job                                                       *)

Moved(s) ==
  [s EXCEPT !.plan = "FREE", !.version = current["FREE"], !.status = "cancelled",
            !.end = 0, !.grace = 0, !.cancelled = FALSE, !.pending = None,
            !.pendingVersion = 0, !.code = None]

Ended(s) == s.end # 0 /\ s.end <= now

TrialOrFree(s) ==
  \/ s.status = "trialing" /\ s.pending = None
  \/ s.pending = "FREE"

MoveEnded(s) ==
  IF Ended(s) /\ TrialOrFree(s)
    THEN Moved(s) ELSE s

MarkActiveOnly(s) ==                                             \* a mutant
  IF s.plan # "FREE" /\ s.status = "active" /\ Ended(s)
    THEN [s EXCEPT !.status = "past_due", !.grace = s.end + Grace] ELSE s
MarkPastDue(s) ==
  IF s.plan # "FREE" /\ s.status \in {"active", "cancelled"} /\ Ended(s)
    THEN [s EXCEPT !.status = "past_due", !.grace = s.end + Grace] ELSE s

MoveLapsed(s) ==
  IF /\ s.plan # "FREE" /\ s.status = "past_due"
     /\ s.grace # 0 /\ s.grace <= now
    THEN Moved(s) ELSE s

\* deactivateExcessServices: of the newest services, as many as FREE admits.
KeepAll(n) == n                                                  \* a mutant
KeepNewest(n) == IF n > ActiveServices["FREE"] THEN ActiveServices["FREE"] ELSE n

RunSubscriptionLifecycle ==
  LET s == MoveLapsed(MarkPastDue(MoveEnded(sub)))
  IN /\ s # sub
     /\ sub' = s
     /\ active' = IF s.plan = "FREE" /\ sub.plan # "FREE"
                    THEN KeepNewest(active) ELSE active
     /\ UNCHANGED <<now, current, checkouts, paystack, applied, cancelling>>

-----------------------------------------------------------------------------
(* Services, under lockProviderEntitlements                                *)

\* Services.create of an active service, Services.update that activates one.
ActivateService ==
  /\ Admits(active + 1)
  /\ active' = active + 1
  /\ UNCHANGED <<now, current, sub, checkouts, paystack, applied, cancelling>>

\* Services.update that pauses a service, Services.delete.
DeactivateService ==
  /\ active > 0
  /\ active' = active - 1
  /\ UNCHANGED <<now, current, sub, checkouts, paystack, applied, cancelling>>

-----------------------------------------------------------------------------

Tick ==
  /\ now < Horizon
  /\ now' = now + 1
  /\ UNCHANGED <<current, sub, checkouts, paystack, applied, cancelling, active>>

Handle ==
  \/ \E e \in charges : HandleChargeSuccess(e)
  \/ \E f \in failures : HandleChargeFailed(f)
  \/ \E c \in Codes, type \in {"not_renew", "disable"} : HandleSubscriptionEvent(c, type)

Next ==
  \/ StartTrial
  \/ \E r \in References :
       \/ \E o \in Offers[r] : StartCheckout(r, o[1], o[2])
       \/ Pay(r)
  \/ \E c \in Codes : Renew(c) \/ StopAtPaystack(c)
  \/ Handle
  \/ \E p \in Plans : ScheduleDowngrade(p)
  \/ DisablePendingRenewal
  \/ BeginCancel \/ FinishCancel \/ CancelDies
  \/ \E p \in Edited : PublishPlanVersion(p)
  \/ RunSubscriptionLifecycle
  \/ ActivateService \/ DeactivateService
  \/ Tick

Spec == Init /\ [][Next]_vars

\* Time passes, the hourly job runs, the worker handles the event of a charge,
\* and a request to cancel ends one way or the other.
FairSpec ==
  /\ Spec
  /\ WF_vars(Tick)
  /\ WF_vars(RunSubscriptionLifecycle)
  /\ WF_vars(DisablePendingRenewal)
  /\ WF_vars(FinishCancel \/ CancelDies)
  /\ \A r \in References :
       WF_vars(\E e \in charges : e.of = r /\ e.number = 0 /\ HandleChargeSuccess(e))

-----------------------------------------------------------------------------
(* Properties                                                              *)

\* A grace period starts where the period it follows ended, whichever of the
\* job, a failed charge or a late event started it.
GraceFollowsPeriod ==
  sub.grace # 0 => sub.grace = sub.end + Grace

\* No order of events, cancellations and edits takes a plan away before the
\* end of its period.
EntitledThroughPeriod ==
  sub.plan # "FREE" /\ PeriodIsCurrent => Entitled

\* Whoever was moved to FREE has no more services active than FREE admits.
FreeWithinLimit ==
  sub.plan = "FREE" => active <= ActiveServices["FREE"]

\* A change that waits for its payment has its terms in the catalogue, and
\* a row without a plan waits for nothing.
PendingIsPublished ==
  /\ sub.pending # None =>
       /\ sub.cancelled
       /\ sub.pendingVersion \in 1..current[sub.pending]
       /\ sub.plan # "FREE"
  /\ sub.plan # "FREE" => sub.version \in 1..current[sub.plan]
  /\ sub.plan = "FREE" => sub.code = None /\ sub.end = 0

\* Status, period, grace and scheduled change of the plan agree at every moment.
PlanAsPaid ==
  TypeOK /\ GraceFollowsPeriod /\ EntitledThroughPeriod /\ PendingIsPublished

\* Terms and period change by a charge recorded with the change, by the one
\* trial before any charge, or by the end of the entitlement.
PaidTermsOnly ==
  [][ \/ sub'.plan = sub.plan /\ sub'.version = sub.version /\ sub'.end = sub.end
      \/ \E k \in applied' \ applied :
           /\ k.type = "charge"
           /\ \E e \in charges : e.of = k.of /\ e.number = k.number
      \/ sub'.status = "trialing" /\ ~sub.trialUsed /\ ~Paid
      \/ sub'.plan = "FREE" /\ Ended(sub) ]_vars

\* A manual payment or a renewal prolongs what is paid already, whatever the
\* order in which the charges are handled; an automatic checkout starts anew.
PaidTimeKept ==
  [][ sub'.end < sub.end =>
        \/ sub'.plan = "FREE" /\ Ended(sub)
        \/ \E r \in References : checkouts[r].mode = "automatic"
                                /\ checkouts[r].state = "paid"
                                /\ checkouts'[r].state = "completed" ]_vars

\* A charge of a checkout ends in a period of its plan.
CheckoutCredited ==
  \A r \in References :
    checkouts[r].state = "paid" ~> checkouts[r].state = "completed"

\* Whoever is past the grace period gets FREE or pays again.
LapsedIsMoved ==
  (sub.plan # "FREE" /\ sub.status \in {"active", "cancelled", "past_due"}
     /\ sub.end + Grace <= now) ~>
  (sub.plan = "FREE" \/ sub.end + Grace > now)

\* The job moves an expired trial to FREE.
TrialEnds ==
  (sub.status = "trialing" /\ Ended(sub)) ~> sub.status # "trialing"

=============================================================================
