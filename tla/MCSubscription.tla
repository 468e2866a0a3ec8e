---------------------------- MODULE MCSubscription ----------------------------
(* Limits of the plans and offers for the runs of Subscription.            *)
EXTENDS Subscription, TLC

SmallLimits == [FREE |-> 0, PRO |-> 1, BUSINESS |-> 1]

CONSTANTS r1, r2

\* One checkout of a plan that Paystack renews, one of a higher plan that is
\* paid by hand.
TwoOffers == (r1 :> {<<"PRO", "automatic">>}) @@
             (r2 :> {<<"BUSINESS", "manual">>})
=============================================================================
