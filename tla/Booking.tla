------------------------------- MODULE Booking -------------------------------
(***************************************************************************)
(* Service bookings: requests, the vendor's decision, the payment window,  *)
(* rescheduling, sessions and cancellation (booking.model.js,              *)
(* booking-payment.model.js, utils/booking.js).  One instance is one       *)
(* service; rows of two services never meet in a query.                    *)
(*                                                                         *)
(* Transactions that take capacity lock the service row first, and all of  *)
(* them lock the booking row, so each is one action -- except decide(),    *)
(* which locks only the booking: the guard it checks and the row it writes *)
(* are two steps, and transactions that hold the service lock run between. *)
(* A decision may so commit after the reservation it has checked lapsed    *)
(* and its slot was sold; overbooked remembers the bookings it puts there. *)
(*                                                                         *)
(* Time is a clock; 0 stands for SQL NULL in a timestamp.  Rejections that *)
(* depend on data left out (price, location, plan) change nothing.         *)
(***************************************************************************)
EXTENDS Integers, FiniteSets, FiniteSetsExt

CONSTANTS
  Users, Keys,
  Bookings,        \* booking ids: bounds the number of requests
  Requests,        \* payment initiations that can be in progress at once
  None,
  Starts,          \* times a client may ask for
  Horizon,         \* last instant of the model's clock
  Duration, Buffer, Capacity,
  DecisionWindow,  \* 24 hours for the vendor to decide
  PaymentWindow,   \* 15 minutes for the customer to pay
  CancelWindow     \* cancellation_window_hours

ASSUME ConstantsAssumption ==
  /\ Starts \subseteq Nat \ {0}
  /\ Horizon \in Nat
  /\ Duration \in Nat \ {0} /\ Buffer \in Nat /\ Capacity \in Nat \ {0}
  /\ DecisionWindow \in Nat \ {0} /\ PaymentWindow \in Nat \ {0}
  /\ CancelWindow \in Nat
  /\ IsFiniteSet(Bookings)
  /\ None \notin Users \cup Keys \cup Bookings

VARIABLES
  now,
  bookings,   \* service_bookings
  deciding,   \* payment deadline computed by an open decide() transaction; 0: none
  payments,   \* payments of the bookings, one stable reference each
  events,     \* payment_events: bookings whose charge event is recorded
  requests,   \* initiate() calls between their transaction and their end
  provider,   \* the provider's view of each booking's reference
  overbooked  \* history: bookings accepted into a slot that was sold after the
              \* reservation which decide() had checked lapsed, and not moved since

vars == <<now, bookings, deciding, payments, events, requests, provider, overbooked>>

Statuses == {"absent", "pending", "accepted", "declined", "confirmed", "active",
             "completed", "cancelled", "expired", "payment_review"}

BookingRow == [status : Statuses,
               paid : BOOLEAN,
               refund : {"none", "partial", "full"},   \* refund_due
               expires : Nat,                          \* reservation_expires_at
               start : Nat,                            \* scheduled_for
               proposed : Nat,                         \* proposed_scheduled_for
               user : Users \cup {None},
               key : Keys \cup {None}]

PaymentRow == [status : {"none", "pending", "success"},
               checkout_data : BOOLEAN,
               initializing : BOOLEAN]

Idle == [step |-> "idle", booking |-> None]

TypeOK ==
  /\ now \in 0..Horizon
  /\ bookings \in [Bookings -> BookingRow]
  /\ deciding \in [Bookings -> Nat]
  /\ payments \in [Bookings -> PaymentRow]
  /\ events \subseteq Bookings
  /\ requests \in [Requests -> {Idle} \cup
       [step : {"calling", "accepted", "failed"}, booking : Bookings]]
  /\ provider \in [Bookings -> {"none", "open", "paid"}]
  /\ overbooked \subseteq Bookings

NoBooking == [status |-> "absent", paid |-> FALSE, refund |-> "none",
              expires |-> 0, start |-> 0, proposed |-> 0,
              user |-> None, key |-> None]
NoPayment == [status |-> "none", checkout_data |-> FALSE, initializing |-> FALSE]

Init ==
  /\ now = 0
  /\ bookings = [b \in Bookings |-> NoBooking]
  /\ deciding = [b \in Bookings |-> 0]
  /\ payments = [b \in Bookings |-> NoPayment]
  /\ events = {}
  /\ requests = [r \in Requests |-> Idle]
  /\ provider = [b \in Bookings |-> "none"]
  /\ overbooked = {}

-----------------------------------------------------------------------------
(* Capacity                                                                *)

Earlier(t1, t2) == IF t1 < t2 THEN t1 ELSE t2

Session(s) == s..(s + Duration + Buffer - 1)

HoldsPaidOnly(b) ==                                              \* a mutant
  bookings[b].status \in {"confirmed", "active", "completed"}
Holds(b) ==
  \/ bookings[b].status \in {"confirmed", "active", "completed"}
  \/ bookings[b].status \in {"pending", "accepted"} /\ bookings[b].expires > now

Occupying(t) == {b \in Bookings : Holds(b) /\ t \in Session(bookings[b].start)}

\* remainingCapacity() sweeps the overlapping sessions for their peak; it is
\* at least one exactly when no instant of the session is full.
HasRoom(s, self) ==
  \A t \in Session(s) : Cardinality(Occupying(t) \ {self}) < Capacity

-----------------------------------------------------------------------------
(* Time                                                                    *)

Tick ==
  /\ now < Horizon
  /\ now' = now + 1
  /\ UNCHANGED <<bookings, deciding, payments, events, requests, provider, overbooked>>

-----------------------------------------------------------------------------
(* Requests and decisions                                                  *)

paying == <<payments, events, requests, provider>>

Unlocked(b) == deciding[b] = 0

UpdateRow(b, row) ==
  /\ bookings' = [bookings EXCEPT ![b] = row]

KeyUsed(u, k) == \E b \in Bookings : bookings[b].user = u /\ bookings[b].key = k

\* Booking.create; a used key returns its booking (or 409) unchanged.
Create(b, u, k, s) ==
  /\ bookings[b].status = "absent"
  /\ ~KeyUsed(u, k)
  /\ s > now
  /\ HasRoom(s, b)
  /\ bookings' = [bookings EXCEPT ![b] =
       [NoBooking EXCEPT !.status = "pending", !.start = s, !.user = u, !.key = k,
                         !.expires = Earlier(now + DecisionWindow, s)]]
  /\ UNCHANGED <<now, deciding, paying, overbooked>>

\* decide() locks the booking, checks it and computes the payment deadline.
BeginDecide(b) ==
  /\ bookings[b].status = "pending"
  /\ ~bookings[b].paid
  /\ bookings[b].expires > now
  /\ Unlocked(b)
  /\ deciding' = [deciding EXCEPT ![b] =
                    Earlier(now + PaymentWindow, bookings[b].start)]
  /\ UNCHANGED <<now, bookings, paying, overbooked>>

\* The decision's transaction commits, whatever has become of the reservation and
\* of its slot.
Accept(b) ==
  /\ deciding[b] # 0
  /\ UpdateRow(b, [bookings[b] EXCEPT !.status = "accepted", !.expires = deciding[b]])
  /\ deciding' = [deciding EXCEPT ![b] = 0]
  /\ overbooked' = IF bookings[b].expires > now \/ HasRoom(bookings[b].start, b)
                     THEN overbooked ELSE overbooked \cup {b}
  /\ UNCHANGED <<now, paying>>

Decline(b) ==
  /\ deciding[b] # 0
  /\ UpdateRow(b, [bookings[b] EXCEPT !.status = "declined", !.expires = 0])
  /\ deciding' = [deciding EXCEPT ![b] = 0]
  /\ UNCHANGED <<now, paying, overbooked>>

\* The decision's transaction is rolled back (its UPDATE fails, the server stops).
AbortDecision(b) ==
  /\ deciding[b] # 0
  /\ deciding' = [deciding EXCEPT ![b] = 0]
  /\ UNCHANGED <<now, bookings, paying, overbooked>>

\* expireBookings: one UPDATE of every due row; it waits for locked rows.
Due == {b \in Bookings : /\ bookings[b].status \in {"pending", "accepted"}
                         /\ ~bookings[b].paid
                         /\ bookings[b].expires <= now}
PendingDue == {b \in Due : bookings[b].status = "pending"}       \* a mutant
ExpiringRows == Due

ExpireBookings ==
  /\ ExpiringRows # {}
  /\ \A b \in ExpiringRows : Unlocked(b)
  /\ bookings' = [b \in Bookings |->
       IF b \in ExpiringRows THEN [bookings[b] EXCEPT !.status = "expired"]
                             ELSE bookings[b]]
  /\ UNCHANGED <<now, deciding, paying, overbooked>>

-----------------------------------------------------------------------------
(* Sessions, cancellation and rescheduling                                 *)

CancellationRefund(b, byVendor) ==
  IF ~bookings[b].paid THEN "none"
  ELSE IF ~byVendor /\ bookings[b].start - now < CancelWindow THEN "partial"
  ELSE "full"

\* Booking.change writes refund_due and clears deadline and proposal always.
Change(b, status, refund) ==
  /\ UpdateRow(b, [bookings[b] EXCEPT !.status = status, !.refund = refund,
                                      !.expires = 0, !.proposed = 0])
  /\ UNCHANGED <<now, deciding, paying, overbooked>>

Cancel(b, byVendor) ==
  /\ Unlocked(b)
  /\ bookings[b].status \in {"pending", "accepted", "confirmed"}
  /\ byVendor \/ bookings[b].start > now
  /\ Change(b, "cancelled", CancellationRefund(b, byVendor))

StartSession(b) ==
  /\ bookings[b].status = "confirmed" /\ bookings[b].paid
  /\ bookings[b].start <= now
  /\ Change(b, "active", "none")

CompleteSession(b) ==
  /\ bookings[b].status = "active" /\ bookings[b].paid
  /\ bookings[b].start + Duration <= now
  /\ Change(b, "completed", "none")

Propose(b, s) ==
  /\ bookings[b].status = "confirmed" /\ bookings[b].paid
  /\ bookings[b].start > now
  /\ bookings[b].proposed = 0
  /\ s > now /\ s # bookings[b].start
  /\ HasRoom(s, b)
  /\ UpdateRow(b, [bookings[b] EXCEPT !.proposed = s])
  /\ UNCHANGED <<now, deciding, paying, overbooked>>

AwaitsResponse(b) ==
  /\ bookings[b].status = "confirmed" /\ bookings[b].paid
  /\ bookings[b].proposed > now
  /\ bookings[b].start > now

AcceptUnchecked(b) ==                                            \* a mutant
  /\ AwaitsResponse(b)
  /\ UpdateRow(b, [bookings[b] EXCEPT !.start = bookings[b].proposed, !.proposed = 0])
  /\ overbooked' = overbooked \ {b}
  /\ UNCHANGED <<now, deciding, paying>>
AcceptProposal(b) ==
  /\ AwaitsResponse(b)
  /\ HasRoom(bookings[b].proposed, b)
  /\ UpdateRow(b, [bookings[b] EXCEPT !.start = bookings[b].proposed, !.proposed = 0])
  /\ overbooked' = overbooked \ {b}
  /\ UNCHANGED <<now, deciding, paying>>

RejectProposal(b) ==
  /\ AwaitsResponse(b)
  /\ UpdateRow(b, [bookings[b] EXCEPT !.proposed = 0])
  /\ UNCHANGED <<now, deciding, paying, overbooked>>

-----------------------------------------------------------------------------
(* Payment                                                                 *)

PayableUntilStart(b) == ~bookings[b].paid /\ bookings[b].start > now  \* a mutant
Payable(b) ==
  /\ bookings[b].status = "accepted" /\ ~bookings[b].paid
  /\ bookings[b].expires > now
  /\ bookings[b].start > now

Calling(r) == requests[r].step \in {"calling", "accepted"}

\* The transaction of BookingPayment.initiate: payment row and lease.
InitiatePayment(r, b) ==
  /\ requests[r] = Idle
  /\ Payable(b)
  /\ ~payments[b].checkout_data
  /\ ~payments[b].initializing
  /\ payments' = [payments EXCEPT ![b].status = "pending", ![b].initializing = TRUE]
  /\ requests' = [requests EXCEPT ![r] = [step |-> "calling", booking |-> b]]
  /\ UNCHANGED <<now, bookings, deciding, events, provider, overbooked>>

ProviderAccepts(r) ==
  /\ requests[r].step = "calling"
  /\ provider[requests[r].booking] = "none"
  /\ provider' = [provider EXCEPT ![requests[r].booking] = "open"]
  /\ requests' = [requests EXCEPT ![r].step = "accepted"]
  /\ UNCHANGED <<now, bookings, deciding, payments, events, overbooked>>

InitSucceeds(r) ==
  /\ requests[r].step = "accepted"
  /\ payments' = [payments EXCEPT ![requests[r].booking].checkout_data = TRUE,
                                  ![requests[r].booking].initializing = FALSE]
  /\ requests' = [requests EXCEPT ![r] = Idle]
  /\ UNCHANGED <<now, bookings, deciding, events, provider, overbooked>>

InitFails(r) ==
  /\ Calling(r)
  /\ payments' = [payments EXCEPT ![requests[r].booking].initializing = FALSE]
  /\ requests' = [requests EXCEPT ![r].step = "failed"]
  /\ UNCHANGED <<now, bookings, deciding, events, provider, overbooked>>

RequestDies(r) ==
  /\ requests[r].step # "idle"
  /\ requests' = [requests EXCEPT ![r] = Idle]
  /\ UNCHANGED <<now, bookings, deciding, payments, events, provider, overbooked>>

LeaseLapses(b) ==
  /\ payments[b].initializing
  /\ \A r \in Requests : Calling(r) => requests[r].booking # b
  /\ payments' = [payments EXCEPT ![b].initializing = FALSE]
  /\ UNCHANGED <<now, bookings, deciding, events, requests, provider, overbooked>>

CustomerPays(b) ==
  /\ provider[b] = "open"
  /\ provider' = [provider EXCEPT ![b] = "paid"]
  /\ UNCHANGED <<now, bookings, deciding, payments, events, requests, overbooked>>

\* A charge in the window confirms; any other charge must be paid back.
Settled(b) == payments[b].status = "success" \/ bookings[b].paid

NothingOwed(b) ==                                                \* a mutant
  [bookings[b] EXCEPT !.status = IF Payable(b) THEN "confirmed" ELSE "payment_review",
                      !.paid = TRUE, !.expires = 0]
ChargedRow(b) ==
  IF Payable(b)
    THEN [bookings[b] EXCEPT !.status = "confirmed", !.paid = TRUE,
                             !.refund = "none", !.expires = 0]
    ELSE [bookings[b] EXCEPT !.status = "payment_review", !.paid = TRUE,
                             !.refund = "full", !.expires = 0]

\* BookingPayment.settle for a reference the provider reports as charged.
Settle(b, webhook) ==
  /\ payments[b].status # "none"
  /\ provider[b] = "paid"
  /\ Unlocked(b)
  /\ IF webhook THEN b \notin events /\ events' = events \cup {b}
                ELSE UNCHANGED events
  /\ IF Settled(b)
       THEN UNCHANGED <<payments, bookings>>
       ELSE /\ UpdateRow(b, ChargedRow(b))
            /\ payments' = [payments EXCEPT ![b].status = "success",
                                            ![b].initializing = FALSE]
  /\ UNCHANGED <<now, deciding, provider, overbooked>>

LateChargeRejected(b) ==                                         \* a mutant
  Payable(b) /\ Settle(b, TRUE) /\ UNCHANGED requests
SettleByWebhook(b) == Settle(b, TRUE) /\ UNCHANGED requests
VerifyPayment(b) == Settle(b, FALSE) /\ UNCHANGED requests

\* After a failed call: verify and settle; a second failure is swallowed.
RecoverByVerify(r) ==
  /\ requests[r].step = "failed"
  /\ requests' = [requests EXCEPT ![r] = Idle]
  /\ \/ Settle(requests[r].booking, FALSE)
     \/ UNCHANGED <<now, bookings, deciding, payments, events, provider, overbooked>>

-----------------------------------------------------------------------------
RequestStep == \E b \in Bookings, u \in Users, k \in Keys, s \in Starts : Create(b, u, k, s)

VendorStep ==
  \E b \in Bookings :
    \/ BeginDecide(b) \/ Accept(b) \/ Decline(b) \/ AbortDecision(b)
    \/ StartSession(b) \/ CompleteSession(b)
    \/ \E s \in Starts : Propose(b, s)

CustomerStep == \E b \in Bookings : AcceptProposal(b) \/ RejectProposal(b)

CancelStep == \E b \in Bookings, byVendor \in BOOLEAN : Cancel(b, byVendor)

PaymentStep ==
  \/ \E r \in Requests, b \in Bookings : InitiatePayment(r, b)
  \/ \E r \in Requests : \/ ProviderAccepts(r) \/ InitSucceeds(r) \/ InitFails(r)
                         \/ RecoverByVerify(r) \/ RequestDies(r)
  \/ \E b \in Bookings : \/ LeaseLapses(b) \/ CustomerPays(b)
                         \/ SettleByWebhook(b) \/ VerifyPayment(b)

Next == \/ Tick \/ ExpireBookings \/ RequestStep \/ VendorStep
        \/ CustomerStep \/ CancelStep \/ PaymentStep

Spec == Init /\ [][Next]_vars

\* Time passes, open transactions end, the maintenance worker runs, and the
\* provider redelivers a success until it is acknowledged.
Fairness ==
  /\ WF_vars(Tick)
  /\ WF_vars(ExpireBookings)
  /\ \A b \in Bookings : /\ WF_vars(Accept(b) \/ Decline(b) \/ AbortDecision(b))
                         /\ WF_vars(SettleByWebhook(b))
FairSpec == Spec /\ Fairness

-----------------------------------------------------------------------------
(* Properties                                                              *)

\* "Service-row locks serialize overlapping reservations": at no instant do more
\* sessions than max_bookings_per_slot overlap.  A late acceptance breaks it.
NeverOverbooked ==
  \A b \in Bookings : Holds(b) =>
    \A t \in Session(bookings[b].start) : Cardinality(Occupying(t)) <= Capacity

\* What is left of it: the bookings that late acceptances put into a slot sold
\* meanwhile come on top, and no others do.  Requests under decision, payment
\* windows, paid bookings, buffers and proposals keep within max_bookings_per_slot.
SlotsWithinCapacity ==
  \A b \in Bookings \ overbooked : Holds(b) =>
    \A t \in Session(bookings[b].start) : Cardinality(Occupying(t) \ overbooked) <= Capacity

Charged(b) == payments[b].status = "success"

\* Every charge is either earned or owed back: a settled charge belongs to a
\* booking whose session takes place, or refund_due is recorded, in full when
\* the booking could no longer be confirmed; nothing else is ever refunded.
MoneyAccounted ==
  \A b \in Bookings :
    /\ Charged(b) <=> bookings[b].paid
    /\ Charged(b) => provider[b] = "paid"
    /\ bookings[b].status \in {"confirmed", "active", "completed"} =>
         bookings[b].paid /\ bookings[b].refund = "none"
    /\ bookings[b].paid =>
         \/ bookings[b].status \in {"confirmed", "active", "completed"}
         \/ bookings[b].status = "cancelled" /\ bookings[b].refund # "none"
         \/ bookings[b].status = "payment_review" /\ bookings[b].refund = "full"
    /\ ~bookings[b].paid => bookings[b].refund = "none"

\* Deadlines never outlive the session: a held request or payment window ends
\* at its start, a started session began on time, a finished one lasted.
OnTime ==
  \A b \in Bookings :
    LET row == bookings[b]
    IN /\ row.status \in {"pending", "accepted"} => row.expires \in 1..row.start
       /\ deciding[b] <= row.start
       /\ row.status = "active" => row.start <= now
       /\ row.status = "completed" => row.start + Duration <= now
       /\ row.proposed # 0 => row.status = "confirmed" /\ row.proposed # row.start

\* A retried request never creates a second booking.
OneBookingPerKey ==
  \A b1, b2 \in Bookings :
    /\ bookings[b1].status # "absent"
    /\ bookings[b1].user = bookings[b2].user
    /\ bookings[b1].key = bookings[b2].key
    => b1 = b2

\* Capacity, deadlines and keys hold of every reachable set of bookings, however
\* long the vendors' decisions take to commit.
BookingsSound == TypeOK /\ SlotsWithinCapacity /\ OnTime /\ OneBookingPerKey

\* "never reclaim an expired slot": a closed booking stays closed; a charge for
\* it leads to review, and what it owes is never reduced.
ClosedStaysClosed(b) ==
  bookings[b].status \in {"declined", "cancelled", "expired", "payment_review"} =>
    /\ bookings'[b].status \in {bookings[b].status, "payment_review"}
    /\ bookings[b].refund = "full" => bookings'[b].refund = "full"

\* "The existing time remains in force until the customer accepts", and what
\* the customer accepts is what the vendor proposed.  A paid session leaves
\* the calendar only by cancellation, for which the vendor owes everything.
PaidSessionKept(b) ==
  bookings[b].status = "confirmed" =>
    LET new == bookings'[b]
        late == now < bookings[b].start /\ bookings[b].start - now < CancelWindow
    IN \/ /\ new.status \in {"confirmed", "active"}
          /\ new.start \in {bookings[b].start, bookings[b].proposed}
       \/ /\ new.status = "cancelled"
          /\ new.refund = "full" \/ (new.refund = "partial" /\ late)

\* No step takes back what a closed or a paid booking stands for.
ClosedAndPaidKept ==
  [][\A b \in Bookings : ClosedStaysClosed(b) /\ PaidSessionKept(b)]_vars

\* No request waits for ever, decided or not, paid or not.
RequestsResolved ==
  \A b \in Bookings :
    bookings[b].status \in {"pending", "accepted"} ~>
      bookings[b].status \notin {"absent", "pending", "accepted"}

\* A charge taken by the provider is eventually known: confirmed or owed back.
ChargeReconciled == \A b \in Bookings : provider[b] = "paid" ~> Charged(b)

-----------------------------------------------------------------------------
(* Refinement                                                              *)

\* The calendar has the bookings whose slot had room for them.
slotBar ==
  [b \in Bookings |-> IF Holds(b) /\ b \notin overbooked THEN bookings[b].start ELSE 0]
firmBar ==
  {b \in Bookings \ overbooked : bookings[b].status \in {"confirmed", "active", "completed"}}

Calendar == INSTANCE ServiceCalendar WITH
  Length <- Duration + Buffer, slot <- slotBar, firm <- firmBar

\* Those bookings of a service keep the promise of its calendar; one that was put on
\* top of others enters it when it is moved to a slot with room.
KeepsCalendar == Calendar!CalendarSpec
=============================================================================
