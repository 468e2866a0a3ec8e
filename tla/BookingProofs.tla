---------------------------- MODULE BookingProofs ----------------------------
(***************************************************************************)
(* Proofs about Booking, for any number of bookings, users, payment        *)
(* requests and places of a slot, and however long the vendor's decisions  *)
(* take: the money is accounted for (MoneyAccounted), and no step takes    *)
(* back what a closed or a paid booking stands for (ClosedAndPaidKept).    *)
(* No step overbooks a slot but the acceptance that commits after its      *)
(* reservation has lapsed and its slot was sold: the other bookings are    *)
(* within the capacity (BookingsSound) and keep the promise of the         *)
(* abstract calendar (KeepsCalendar).                                      *)
(***************************************************************************)
EXTENDS Booking, FiniteSetTheorems, TLAPS

-----------------------------------------------------------------------------
(* The inductive invariant                                                 *)

\* What one booking is at time n, with its decision, payment and charge: the
\* part of OnTime and MoneyAccounted about it, and what these rest on.
RowGood(row, decision, payment, charge, n) ==
  /\ row.status = "absent" <=> row.user = None
  /\ decision # 0 => row.status = "pending" /\ decision <= row.start
  /\ payment.status # "none" => row.status # "absent"
  /\ charge # "none" => payment.status # "none"
  /\ row.status \in {"pending", "accepted"} => row.expires # 0 /\ row.expires <= row.start
  /\ row.status = "active" => row.start <= n
  /\ row.status = "completed" => row.start + Duration <= n
  /\ row.status \in {"confirmed", "active", "completed"} => row.start # 0
  /\ row.proposed # 0 => row.status = "confirmed" /\ row.proposed # row.start
  /\ payment.status = "success" <=> row.paid
  /\ payment.status = "success" => charge = "paid"
  /\ row.status \in {"confirmed", "active", "completed"} => row.paid /\ row.refund = "none"
  /\ row.paid =>
       \/ row.status \in {"confirmed", "active", "completed"}
       \/ row.status = "cancelled" /\ row.refund # "none"
       \/ row.status = "payment_review" /\ row.refund = "full"
  /\ ~row.paid => row.refund = "none"

RowsGood ==
  \A b \in Bookings : RowGood(bookings[b], deciding[b], payments[b], provider[b], now)

\* A call to the provider follows the transaction that wrote its payment.
RequestsKnown ==
  \A r \in Requests : requests[r] # Idle => payments[requests[r].booking].status # "none"

BookingInv == TypeOK /\ RowsGood /\ RequestsKnown /\ OneBookingPerKey

LEMMA Types ==
  ASSUME TypeOK
  PROVE  /\ now \in Nat
         /\ \A b \in Bookings : /\ bookings[b] \in BookingRow /\ deciding[b] \in Nat
                                /\ payments[b] \in PaymentRow
                                /\ provider[b] \in {"none", "open", "paid"}
                                /\ bookings[b].start \in Nat /\ bookings[b].expires \in Nat
                                /\ bookings[b].proposed \in Nat /\ bookings[b].status \in Statuses
         /\ \A r \in Requests : requests[r] # Idle =>
              requests[r].booking \in Bookings /\ requests[r].step \in {"calling", "accepted", "failed"}
<1>1. now \in Nat
  BY ConstantsAssumption DEF TypeOK
<1>2. ASSUME NEW b \in Bookings
      PROVE  /\ bookings[b] \in BookingRow /\ deciding[b] \in Nat
             /\ payments[b] \in PaymentRow /\ provider[b] \in {"none", "open", "paid"}
  BY DEF TypeOK
<1>3. \A row \in BookingRow : /\ row.start \in Nat /\ row.expires \in Nat /\ row.proposed \in Nat
                              /\ row.status \in Statuses
  BY DEF BookingRow
<1>4. \A r \in Requests : requests[r] # Idle =>
        requests[r].booking \in Bookings /\ requests[r].step \in {"calling", "accepted", "failed"}
  BY DEF TypeOK
<1> QED
  BY <1>1, <1>2, <1>3, <1>4

LEMMA InitInv == Init => BookingInv
<1>1. SUFFICES ASSUME Init PROVE BookingInv
  OBVIOUS
<1>2. \A b \in Bookings : /\ bookings[b] = NoBooking /\ deciding[b] = 0
                          /\ payments[b] = NoPayment /\ provider[b] = "none"
  BY <1>1 DEF Init
<1>3. NoBooking \in BookingRow /\ NoPayment \in PaymentRow
  BY DEF NoBooking, BookingRow, Statuses, NoPayment, PaymentRow
<1>4. TypeOK
  BY <1>1, <1>3, ConstantsAssumption DEF Init, TypeOK
<1>5. RowGood(NoBooking, 0, NoPayment, "none", now)
  BY DEF RowGood, NoBooking, NoPayment
<1>6. RowsGood
  BY <1>2, <1>5 DEF RowsGood
<1>7. RequestsKnown
  BY <1>1 DEF Init, RequestsKnown
<1>8. OneBookingPerKey
  BY <1>2 DEF OneBookingPerKey, NoBooking
<1> QED
  BY <1>4, <1>6, <1>7, <1>8 DEF BookingInv

-----------------------------------------------------------------------------
(* Steps of one booking                                                    *)

\* A step that changes one booking, its decision, its payment or its charge, and
\* keeps whose booking it is.
LEMMA OneBooking ==
  ASSUME BookingInv, TypeOK', RequestsKnown', now' = now, NEW b \in Bookings,
         \A c \in Bookings \ {b} : /\ bookings'[c] = bookings[c] /\ deciding'[c] = deciding[c]
                                   /\ payments'[c] = payments[c] /\ provider'[c] = provider[c],
         RowGood(bookings'[b], deciding'[b], payments'[b], provider'[b], now),
         bookings'[b].user = bookings[b].user, bookings'[b].key = bookings[b].key
  PROVE  BookingInv'
<1>1. RowsGood'
  <2>1. ASSUME NEW c \in Bookings
        PROVE  RowGood(bookings'[c], deciding'[c], payments'[c], provider'[c], now)
    <3>1. CASE c = b
      BY <3>1
    <3>2. CASE c # b
      BY <3>2 DEF BookingInv, RowsGood
    <3> QED
      BY <3>1, <3>2
  <2> QED
    BY <2>1 DEF RowsGood
<1>2. \A c \in Bookings : /\ bookings'[c].user = bookings[c].user
                          /\ bookings'[c].key = bookings[c].key
                          /\ bookings'[c].status = "absent" <=> bookings[c].status = "absent"
  <2>1. \A c \in Bookings : bookings'[c].user = bookings[c].user /\ bookings'[c].key = bookings[c].key
    OBVIOUS
  <2>2. \A c \in Bookings : /\ bookings[c].status = "absent" <=> bookings[c].user = None
                            /\ bookings'[c].status = "absent" <=> bookings'[c].user = None
    BY <1>1 DEF BookingInv, RowsGood, RowGood
  <2> QED
    BY <2>1, <2>2
<1>3. OneBookingPerKey'
  BY <1>2 DEF BookingInv, OneBookingPerKey
<1> QED
  BY <1>1, <1>3 DEF BookingInv

\* A step that writes the row of one booking and may end its decision.
LEMMA RowWritten ==
  ASSUME BookingInv, NEW b \in Bookings, NEW row \in BookingRow, UpdateRow(b, row),
         deciding' \in {deciding, [deciding EXCEPT ![b] = 0]},
         UNCHANGED <<now, payments, events, requests, provider>>,
         overbooked' \subseteq overbooked \cup {b},
         RowGood(row, deciding'[b], payments[b], provider[b], now),
         row.user = bookings[b].user, row.key = bookings[b].key
  PROVE  BookingInv'
<1>1. TypeOK /\ RequestsKnown /\ bookings' = [bookings EXCEPT ![b] = row]
  BY DEF BookingInv, UpdateRow
<1>2. /\ bookings \in [Bookings -> BookingRow] /\ deciding \in [Bookings -> Nat]
  BY <1>1 DEF TypeOK
<1>3. /\ bookings' \in [Bookings -> BookingRow] /\ bookings'[b] = row
      /\ \A c \in Bookings \ {b} : bookings'[c] = bookings[c]
  BY <1>1, <1>2
<1>4. /\ deciding' \in [Bookings -> Nat]
      /\ \A c \in Bookings \ {b} : deciding'[c] = deciding[c]
  BY <1>2
<1>5. TypeOK' /\ RequestsKnown'
  BY <1>1, <1>3, <1>4 DEF TypeOK, RequestsKnown
<1> QED
  BY <1>3, <1>4, <1>5, OneBooking

\* A step of the payments, which leaves the bookings as they are.
LEMMA PaymentWritten ==
  ASSUME BookingInv, UNCHANGED <<now, bookings, deciding>>, TypeOK', RequestsKnown',
         \A b \in Bookings : RowGood(bookings[b], deciding[b], payments'[b], provider'[b], now)
  PROVE  BookingInv'
<1>1. RowsGood'
  BY DEF RowsGood
<1>2. OneBookingPerKey'
  BY DEF BookingInv, OneBookingPerKey
<1> QED
  BY <1>1, <1>2 DEF BookingInv

-----------------------------------------------------------------------------
(* Time, requests and decisions                                            *)

LEMMA TickInv ==
  ASSUME BookingInv, Tick
  PROVE  BookingInv'
<1>1. /\ TypeOK /\ RowsGood /\ now' = now + 1 /\ now' \in 0 .. Horizon /\ now \in Nat
      /\ UNCHANGED <<bookings, deciding, payments, events, requests, provider, overbooked>>
  BY Types, ConstantsAssumption DEF BookingInv, Tick, TypeOK
<1>2. TypeOK'
  BY <1>1 DEF TypeOK
<1>3. ASSUME NEW b \in Bookings
      PROVE  RowGood(bookings[b], deciding[b], payments[b], provider[b], now')
  <2>1. RowGood(bookings[b], deciding[b], payments[b], provider[b], now)
    BY <1>1 DEF RowsGood
  <2>2. /\ bookings[b].status = "active" => bookings[b].start <= now + 1
        /\ bookings[b].status = "completed" => bookings[b].start + Duration <= now + 1
    BY <1>1, <2>1, Types, ConstantsAssumption DEF RowGood
  <2> QED
    BY <1>1, <2>1, <2>2 DEF RowGood
<1>4. RowsGood' /\ RequestsKnown' /\ OneBookingPerKey'
  BY <1>1, <1>3 DEF RowsGood, RequestsKnown, OneBookingPerKey, BookingInv
<1> QED
  BY <1>2, <1>4 DEF BookingInv

LEMMA CreateInv ==
  ASSUME BookingInv, NEW b \in Bookings, NEW u \in Users, NEW k \in Keys, NEW s \in Starts,
         Create(b, u, k, s)
  PROVE  BookingInv'
<1> DEFINE row == [NoBooking EXCEPT !.status = "pending", !.start = s, !.user = u, !.key = k,
                                    !.expires = Earlier(now + DecisionWindow, s)]
<1>1. /\ TypeOK /\ RowsGood /\ RequestsKnown /\ OneBookingPerKey
      /\ bookings[b].status = "absent" /\ ~KeyUsed(u, k) /\ s > now
      /\ bookings' = [bookings EXCEPT ![b] = row]
      /\ UNCHANGED <<now, deciding, payments, events, requests, provider, overbooked>>
  BY DEF BookingInv, Create, paying
<1>2. /\ Earlier(now + DecisionWindow, s) \in Nat /\ Earlier(now + DecisionWindow, s) # 0
      /\ Earlier(now + DecisionWindow, s) <= s /\ s \in Nat
  BY <1>1, Types, ConstantsAssumption DEF Earlier
<1>3. /\ row.status = "pending" /\ row.start = s /\ row.user = u /\ row.key = k
      /\ row.expires = Earlier(now + DecisionWindow, s) /\ row.paid = FALSE
      /\ row.refund = "none" /\ row.proposed = 0
  BY DEF NoBooking
<1>4. row \in BookingRow
  BY <1>2 DEF NoBooking, BookingRow, Statuses
<1> HIDE DEF row
<1>5. /\ bookings \in [Bookings -> BookingRow] /\ bookings' \in [Bookings -> BookingRow]
      /\ bookings'[b] = row /\ \A c \in Bookings \ {b} : bookings'[c] = bookings[c]
  BY <1>1, <1>4 DEF TypeOK
<1>6. TypeOK' /\ RequestsKnown'
  BY <1>1, <1>5 DEF TypeOK, RequestsKnown
<1>7. RowGood(bookings[b], deciding[b], payments[b], provider[b], now)
  BY <1>1 DEF RowsGood
<1>8. /\ deciding[b] = 0 /\ payments[b].status = "none" /\ provider[b] = "none"
  BY <1>1, <1>7 DEF RowGood
<1>9. u # None
  BY ConstantsAssumption
<1>10. RowGood(row, deciding[b], payments[b], provider[b], now)
  BY <1>2, <1>3, <1>8, <1>9 DEF RowGood
<1>11. RowsGood'
  <2>1. ASSUME NEW c \in Bookings
        PROVE  RowGood(bookings'[c], deciding[c], payments[c], provider[c], now)
    BY <1>1, <1>5, <1>10 DEF RowsGood
  <2> QED
    BY <1>1, <2>1 DEF RowsGood
<1>12. OneBookingPerKey'
  <2>1. \A c \in Bookings : ~(bookings[c].user = u /\ bookings[c].key = k)
    BY <1>1 DEF KeyUsed
  <2> QED
    BY <1>1, <1>3, <1>5, <2>1 DEF OneBookingPerKey
<1> QED
  BY <1>6, <1>11, <1>12 DEF BookingInv

LEMMA BeginDecideInv ==
  ASSUME BookingInv, NEW b \in Bookings, BeginDecide(b)
  PROVE  BookingInv'
<1> DEFINE d == Earlier(now + PaymentWindow, bookings[b].start)
<1>1. /\ TypeOK /\ RowsGood /\ RequestsKnown
      /\ bookings[b].status = "pending" /\ bookings[b].expires > now
      /\ deciding' = [deciding EXCEPT ![b] = d]
      /\ UNCHANGED <<now, bookings, payments, events, requests, provider, overbooked>>
  BY DEF BookingInv, BeginDecide, paying
<1>2. RowGood(bookings[b], deciding[b], payments[b], provider[b], now)
  BY <1>1 DEF RowsGood
<1>3. d \in Nat /\ d <= bookings[b].start
  BY <1>1, Types, ConstantsAssumption DEF Earlier
<1> HIDE DEF d
<1>4. /\ deciding' \in [Bookings -> Nat] /\ deciding'[b] = d
      /\ \A c \in Bookings \ {b} : deciding'[c] = deciding[c]
  BY <1>1, <1>3 DEF TypeOK
<1>5. TypeOK' /\ RequestsKnown'
  BY <1>1, <1>4 DEF TypeOK, RequestsKnown
<1>6. RowGood(bookings[b], d, payments[b], provider[b], now)
  BY <1>1, <1>2, <1>3 DEF RowGood
<1> QED
  BY <1>1, <1>4, <1>5, <1>6, OneBooking

LEMMA DecideInv ==
  ASSUME BookingInv, NEW b \in Bookings, Accept(b) \/ Decline(b) \/ AbortDecision(b)
  PROVE  BookingInv'
<1>1. /\ TypeOK /\ RowsGood /\ deciding[b] # 0 /\ deciding' = [deciding EXCEPT ![b] = 0]
      /\ UNCHANGED <<now, payments, events, requests, provider>>
      /\ overbooked' \subseteq overbooked \cup {b}
  BY DEF BookingInv, Accept, Decline, AbortDecision, paying
<1>2. deciding'[b] = 0
  BY <1>1 DEF TypeOK
<1>3. /\ RowGood(bookings[b], deciding[b], payments[b], provider[b], now)
      /\ bookings[b] \in BookingRow /\ deciding[b] \in Nat
      /\ bookings[b].status = "pending" /\ deciding[b] <= bookings[b].start
  BY <1>1, Types DEF RowsGood, RowGood
<1>4. CASE Accept(b)
  <2> DEFINE row == [bookings[b] EXCEPT !.status = "accepted", !.expires = deciding[b]]
  <2>1. UpdateRow(b, row)
    BY <1>4 DEF Accept
  <2>2. /\ row \in BookingRow /\ row.status = "accepted" /\ row.expires = deciding[b]
        /\ row.start = bookings[b].start /\ row.proposed = bookings[b].proposed
        /\ row.refund = bookings[b].refund /\ row.user = bookings[b].user
        /\ row.key = bookings[b].key
    BY <1>3 DEF BookingRow, Statuses
  <2>3. row.paid = bookings[b].paid
    BY <1>3 DEF BookingRow
  <2> HIDE DEF row
  <2>4. RowGood(row, 0, payments[b], provider[b], now)
    BY <1>1, <1>3, <2>2, <2>3 DEF RowGood
  <2> QED
    BY <1>1, <1>2, <2>1, <2>2, <2>4, RowWritten
<1>5. CASE Decline(b)
  <2> DEFINE row == [bookings[b] EXCEPT !.status = "declined", !.expires = 0]
  <2>1. UpdateRow(b, row)
    BY <1>5 DEF Decline
  <2>2. /\ row \in BookingRow /\ row.status = "declined"
        /\ row.start = bookings[b].start /\ row.proposed = bookings[b].proposed
        /\ row.refund = bookings[b].refund /\ row.user = bookings[b].user
        /\ row.key = bookings[b].key
    BY <1>3 DEF BookingRow, Statuses
  <2>3. row.paid = bookings[b].paid
    BY <1>3 DEF BookingRow
  <2> HIDE DEF row
  <2>4. RowGood(row, 0, payments[b], provider[b], now)
    BY <1>1, <1>3, <2>2, <2>3 DEF RowGood
  <2> QED
    BY <1>1, <1>2, <2>1, <2>2, <2>4, RowWritten
<1>6. CASE AbortDecision(b)
  <2>1. bookings' = bookings
    BY <1>6 DEF AbortDecision
  <2>2. UpdateRow(b, bookings[b])
    BY <1>1, <2>1 DEF UpdateRow, TypeOK
  <2>3. RowGood(bookings[b], 0, payments[b], provider[b], now)
    BY <1>3 DEF RowGood
  <2> QED
    BY <1>1, <1>2, <1>3, <2>2, <2>3, RowWritten
<1> QED
  BY <1>4, <1>5, <1>6

LEMMA ExpireInv ==
  ASSUME BookingInv, ExpireBookings
  PROVE  BookingInv'
<1>1. /\ TypeOK /\ RowsGood /\ RequestsKnown /\ OneBookingPerKey
      /\ \A b \in Due : Unlocked(b)
      /\ bookings' = [b \in Bookings |->
           IF b \in Due THEN [bookings[b] EXCEPT !.status = "expired"] ELSE bookings[b]]
      /\ UNCHANGED <<now, deciding, payments, events, requests, provider, overbooked>>
  BY DEF BookingInv, ExpireBookings, ExpiringRows, paying
<1>2. ASSUME NEW b \in Bookings
      PROVE  /\ bookings'[b] \in BookingRow
             /\ bookings'[b].user = bookings[b].user /\ bookings'[b].key = bookings[b].key
             /\ bookings'[b].status = "absent" <=> bookings[b].status = "absent"
             /\ RowGood(bookings'[b], deciding[b], payments[b], provider[b], now)
  <2>1. RowGood(bookings[b], deciding[b], payments[b], provider[b], now) /\ bookings[b] \in BookingRow
    BY <1>1, Types DEF RowsGood
  <2>2. CASE b \in Due
    <3> DEFINE row == [bookings[b] EXCEPT !.status = "expired"]
    <3>1. bookings'[b] = row
      BY <1>1, <2>2
    <3>2. /\ bookings[b].status \in {"pending", "accepted"} /\ deciding[b] = 0
      BY <1>1, <2>2 DEF Due, Unlocked
    <3>3. /\ row \in BookingRow /\ row.status = "expired"
          /\ row.start = bookings[b].start /\ row.proposed = bookings[b].proposed
          /\ row.refund = bookings[b].refund /\ row.user = bookings[b].user
          /\ row.key = bookings[b].key
      BY <2>1 DEF BookingRow, Statuses
    <3>4. row.paid = bookings[b].paid
      BY <2>1 DEF BookingRow
    <3> HIDE DEF row
    <3>5. RowGood(row, deciding[b], payments[b], provider[b], now)
      BY <2>1, <3>2, <3>3, <3>4 DEF RowGood
    <3> QED
      BY <3>1, <3>2, <3>3, <3>5
  <2>3. CASE b \notin Due
    BY <1>1, <2>1, <2>3
  <2> QED
    BY <2>2, <2>3
<1>3. bookings' \in [Bookings -> BookingRow]
  BY <1>1, <1>2
<1>4. TypeOK' /\ RequestsKnown' /\ RowsGood'
  BY <1>1, <1>2, <1>3 DEF TypeOK, RequestsKnown, RowsGood
<1>5. OneBookingPerKey'
  BY <1>1, <1>2 DEF OneBookingPerKey
<1> QED
  BY <1>4, <1>5 DEF BookingInv

-----------------------------------------------------------------------------
(* Sessions, cancellation and rescheduling                                 *)

\* What Booking.change writes.
LEMMA Changed ==
  ASSUME BookingInv, NEW b \in Bookings, NEW status \in Statuses,
         NEW refund \in {"none", "partial", "full"}, Change(b, status, refund)
  PROVE  \E row \in BookingRow :
           /\ UpdateRow(b, row) /\ bookings'[b] = row
           /\ row.status = status /\ row.refund = refund /\ row.expires = 0 /\ row.proposed = 0
           /\ row.start = bookings[b].start /\ row.user = bookings[b].user
           /\ row.key = bookings[b].key /\ row.paid = bookings[b].paid
           /\ UNCHANGED <<now, deciding, payments, events, requests, provider, overbooked>>
<1> DEFINE row == [bookings[b] EXCEPT !.status = status, !.refund = refund,
                                      !.expires = 0, !.proposed = 0]
<1>1. bookings[b] \in BookingRow /\ bookings \in [Bookings -> BookingRow]
  BY Types DEF BookingInv, TypeOK
<1>2. UpdateRow(b, row) /\ UNCHANGED <<now, deciding, payments, events, requests, provider, overbooked>>
  BY DEF Change, paying
<1>3. /\ row \in BookingRow /\ row.status = status /\ row.refund = refund
      /\ row.expires = 0 /\ row.proposed = 0 /\ row.start = bookings[b].start
      /\ row.user = bookings[b].user /\ row.key = bookings[b].key
  BY <1>1 DEF BookingRow
<1>4. row.paid = bookings[b].paid
  BY <1>1 DEF BookingRow
<1> HIDE DEF row
<1>5. bookings'[b] = row
  BY <1>1, <1>2 DEF UpdateRow
<1> QED
  BY <1>2, <1>3, <1>4, <1>5

LEMMA SessionInv ==
  ASSUME BookingInv, NEW b \in Bookings, StartSession(b) \/ CompleteSession(b)
  PROVE  BookingInv'
<1>1. RowGood(bookings[b], deciding[b], payments[b], provider[b], now)
  BY DEF BookingInv, RowsGood
<1>2. ASSUME NEW status \in Statuses, NEW refund \in {"none", "partial", "full"}, refund = "none",
             bookings[b].status \in {"confirmed", "active"}, bookings[b].paid,
             \/ status = "active" /\ bookings[b].start <= now
             \/ status = "completed" /\ bookings[b].start + Duration <= now,
             Change(b, status, refund)
      PROVE  BookingInv'
  <2>1. Change(b, status, refund)
    BY <1>2
  <2>2. PICK row \in BookingRow :
           /\ UpdateRow(b, row) /\ bookings'[b] = row
           /\ row.status = status /\ row.refund = refund /\ row.expires = 0 /\ row.proposed = 0
           /\ row.start = bookings[b].start /\ row.user = bookings[b].user
           /\ row.key = bookings[b].key /\ row.paid = bookings[b].paid
           /\ UNCHANGED <<now, deciding, payments, events, requests, provider, overbooked>>
    BY <2>1, Changed
  <2>3. RowGood(row, deciding[b], payments[b], provider[b], now)
    BY <1>1, <1>2, <2>2 DEF RowGood
  <2> QED
    BY <2>2, <2>3, RowWritten
<1>3. {"active", "completed"} \subseteq Statuses
  BY DEF Statuses
<1>4. CASE StartSession(b)
  BY <1>2, <1>3, <1>4 DEF StartSession
<1>5. CASE CompleteSession(b)
  BY <1>2, <1>3, <1>5 DEF CompleteSession
<1> QED
  BY <1>4, <1>5

LEMMA CancelInv ==
  ASSUME BookingInv, NEW b \in Bookings, NEW byVendor \in BOOLEAN, Cancel(b, byVendor)
  PROVE  BookingInv'
<1> DEFINE refund == CancellationRefund(b, byVendor)
<1>1. /\ RowGood(bookings[b], deciding[b], payments[b], provider[b], now)
      /\ deciding[b] = 0 /\ bookings[b].status \in {"pending", "accepted", "confirmed"}
      /\ Change(b, "cancelled", refund)
  BY DEF BookingInv, RowsGood, Cancel, Unlocked
<1>2. /\ refund \in {"none", "partial", "full"}
      /\ bookings[b].paid <=> refund # "none"
  BY DEF CancellationRefund
<1> HIDE DEF refund
<1>3. PICK row \in BookingRow :
         /\ UpdateRow(b, row) /\ bookings'[b] = row
         /\ row.status = "cancelled" /\ row.refund = refund /\ row.expires = 0 /\ row.proposed = 0
         /\ row.start = bookings[b].start /\ row.user = bookings[b].user
         /\ row.key = bookings[b].key /\ row.paid = bookings[b].paid
         /\ UNCHANGED <<now, deciding, payments, events, requests, provider, overbooked>>
  BY <1>1, <1>2, Changed DEF Statuses
<1>4. RowGood(row, deciding[b], payments[b], provider[b], now)
  BY <1>1, <1>2, <1>3 DEF RowGood
<1> QED
  BY <1>3, <1>4, RowWritten

LEMMA ProposalInv ==
  ASSUME BookingInv, NEW b \in Bookings,
         (\E s \in Starts : Propose(b, s)) \/ AcceptProposal(b) \/ RejectProposal(b)
  PROVE  BookingInv'
<1>1. /\ RowGood(bookings[b], deciding[b], payments[b], provider[b], now)
      /\ bookings[b] \in BookingRow /\ bookings[b].proposed \in Nat
  BY Types DEF BookingInv, RowsGood
<1>2. ASSUME NEW s \in Nat, NEW start \in Nat, start # 0,
             bookings[b].status = "confirmed", s # start,
             UpdateRow(b, [bookings[b] EXCEPT !.start = start, !.proposed = s]),
             UNCHANGED <<now, deciding, payments, events, requests, provider>>,
             overbooked' \subseteq overbooked \cup {b}
      PROVE  BookingInv'
  <2> DEFINE row == [bookings[b] EXCEPT !.start = start, !.proposed = s]
  <2>1. /\ row \in BookingRow /\ row.status = "confirmed" /\ row.start = start
        /\ row.proposed = s /\ row.refund = bookings[b].refund
        /\ row.user = bookings[b].user /\ row.key = bookings[b].key
    BY <1>1, <1>2 DEF BookingRow
  <2>2. row.paid = bookings[b].paid
    BY <1>1 DEF BookingRow
  <2>3. UpdateRow(b, row)
    BY <1>2
  <2> HIDE DEF row
  <2>4. RowGood(row, deciding[b], payments[b], provider[b], now)
    BY <1>1, <1>2, <2>1, <2>2 DEF RowGood
  <2> QED
    BY <1>2, <2>1, <2>3, <2>4, RowWritten
<1>3. ASSUME NEW s \in Starts, Propose(b, s)
      PROVE  BookingInv'
  <2>1. [bookings[b] EXCEPT !.proposed = s] =
          [bookings[b] EXCEPT !.start = bookings[b].start, !.proposed = s]
    BY <1>1 DEF BookingRow
  <2>2. /\ bookings[b].status = "confirmed" /\ s # bookings[b].start
        /\ UpdateRow(b, [bookings[b] EXCEPT !.proposed = s])
        /\ UNCHANGED <<now, deciding, payments, events, requests, provider>>
        /\ overbooked' \subseteq overbooked \cup {b}
    BY <1>3 DEF Propose, paying
  <2>3. bookings[b].start \in Nat /\ bookings[b].start # 0 /\ s \in Nat
    BY <1>1, <2>2, Types, ConstantsAssumption DEF RowGood, BookingInv
  <2> QED
    BY <1>2, <2>1, <2>2, <2>3
<1>4. CASE AcceptProposal(b)
  <2>1. /\ bookings[b].status = "confirmed" /\ bookings[b].proposed > now
        /\ UpdateRow(b, [bookings[b] EXCEPT !.start = bookings[b].proposed, !.proposed = 0])
        /\ UNCHANGED <<now, deciding, payments, events, requests, provider>>
        /\ overbooked' \subseteq overbooked \cup {b}
    BY <1>4 DEF AcceptProposal, AwaitsResponse, paying
  <2>2. bookings[b].proposed # 0
    BY <1>1, <2>1, Types DEF BookingInv
  <2> QED
    BY <1>1, <1>2, <2>1, <2>2
<1>5. CASE RejectProposal(b)
  <2>1. /\ bookings[b].status = "confirmed"
        /\ UpdateRow(b, [bookings[b] EXCEPT !.proposed = 0])
        /\ UNCHANGED <<now, deciding, payments, events, requests, provider>>
        /\ overbooked' \subseteq overbooked \cup {b}
    BY <1>5 DEF RejectProposal, AwaitsResponse, paying
  <2>2. [bookings[b] EXCEPT !.proposed = 0] =
          [bookings[b] EXCEPT !.start = bookings[b].start, !.proposed = 0]
    BY <1>1 DEF BookingRow
  <2>3. bookings[b].start \in Nat /\ bookings[b].start # 0
    BY <1>1, <2>1, Types DEF RowGood, BookingInv
  <2> QED
    BY <1>2, <2>1, <2>2, <2>3
<1> QED
  BY <1>3, <1>4, <1>5

-----------------------------------------------------------------------------
(* Payment                                                                 *)

\* The calls in progress, of which one may have ended.
LEMMA CallsEnd ==
  ASSUME TypeOK, RequestsKnown,
         \/ UNCHANGED requests
         \/ \E r \in Requests : requests' = [requests EXCEPT ![r] = Idle],
         \A b \in Bookings : payments[b].status # "none" => payments'[b].status # "none"
  PROVE  /\ requests' \in [Requests -> {Idle} \cup
                [step : {"calling", "accepted", "failed"}, booking : Bookings]]
         /\ RequestsKnown'
<1>1. requests' \in [Requests -> {Idle} \cup
        [step : {"calling", "accepted", "failed"}, booking : Bookings]]
  BY DEF TypeOK
<1>2. \A r \in Requests : requests'[r] # Idle => requests[r] # Idle /\ requests'[r] = requests[r]
  BY DEF TypeOK
<1>3. \A r \in Requests : requests[r] # Idle => requests[r].booking \in Bookings
  BY Types
<1> QED
  BY <1>1, <1>2, <1>3 DEF RequestsKnown

\* The lease on a payment is given back: its status stays.
LEMMA LeaseEnds ==
  ASSUME TypeOK, NEW b \in Bookings, NEW done \in BOOLEAN,
         payments' = [payments EXCEPT ![b].checkout_data = done, ![b].initializing = FALSE]
  PROVE  /\ payments' \in [Bookings -> PaymentRow]
         /\ \A c \in Bookings : payments'[c].status = payments[c].status
<1> DEFINE row == [payments[b] EXCEPT !.checkout_data = done, !.initializing = FALSE]
<1>1. payments \in [Bookings -> PaymentRow] /\ payments[b] \in PaymentRow
  BY DEF TypeOK
<1>2. row \in PaymentRow /\ row.status = payments[b].status
  BY <1>1 DEF PaymentRow
<1>3. payments' = [payments EXCEPT ![b] = row]
  BY <1>1
<1> HIDE DEF row
<1> QED
  BY <1>1, <1>2, <1>3

LEMMA InitiateInv ==
  ASSUME BookingInv, NEW r \in Requests, NEW b \in Bookings, InitiatePayment(r, b)
  PROVE  BookingInv'
<1> DEFINE row == [payments[b] EXCEPT !.status = "pending", !.initializing = TRUE]
           call == [step |-> "calling", booking |-> b]
<1>1. /\ TypeOK /\ RowsGood /\ RequestsKnown /\ Payable(b)
      /\ payments' = [payments EXCEPT ![b].status = "pending", ![b].initializing = TRUE]
      /\ requests' = [requests EXCEPT ![r] = call]
      /\ UNCHANGED <<now, bookings, deciding, events, provider, overbooked>>
  BY DEF BookingInv, InitiatePayment
<1>2. payments \in [Bookings -> PaymentRow] /\ payments[b] \in PaymentRow
  BY <1>1 DEF TypeOK
<1>3. row \in PaymentRow /\ row.status = "pending"
  BY <1>2 DEF PaymentRow
<1>4. payments' = [payments EXCEPT ![b] = row]
  BY <1>1, <1>2
<1> HIDE DEF row
<1>5. /\ payments' \in [Bookings -> PaymentRow] /\ payments'[b].status = "pending"
      /\ \A c \in Bookings \ {b} : payments'[c] = payments[c]
  BY <1>2, <1>3, <1>4
<1>6. /\ TypeOK' /\ requests'[r].booking = b
      /\ \A q \in Requests \ {r} : requests'[q] = requests[q]
  BY <1>1, <1>5 DEF TypeOK
<1>7. RequestsKnown'
  BY <1>1, <1>5, <1>6, Types DEF RequestsKnown
<1>8. ASSUME NEW c \in Bookings
      PROVE  RowGood(bookings[c], deciding[c], payments'[c], provider'[c], now)
  <2>1. RowGood(bookings[c], deciding[c], payments[c], provider[c], now)
    BY <1>1 DEF RowsGood
  <2>2. CASE c = b
    <3>1. bookings[b].status = "accepted" /\ ~bookings[b].paid
      BY <1>1 DEF Payable
    <3> QED
      BY <1>1, <1>5, <2>1, <2>2, <3>1 DEF RowGood
  <2>3. CASE c # b
    BY <1>1, <1>5, <2>1, <2>3
  <2> QED
    BY <2>2, <2>3
<1> QED
  BY <1>1, <1>6, <1>7, <1>8, PaymentWritten

LEMMA CallInv ==
  ASSUME BookingInv, NEW r \in Requests,
         ProviderAccepts(r) \/ InitSucceeds(r) \/ InitFails(r) \/ RequestDies(r)
  PROVE  BookingInv'
<1> DEFINE b == requests[r].booking
<1>1. /\ TypeOK /\ RowsGood /\ RequestsKnown /\ requests[r] # Idle
      /\ UNCHANGED <<now, bookings, deciding, events, overbooked>>
  BY DEF BookingInv, ProviderAccepts, InitSucceeds, InitFails, Calling, RequestDies, Idle
<1>2. /\ b \in Bookings /\ payments[b].status # "none" /\ payments[b] \in PaymentRow
      /\ requests[r].step \in {"calling", "accepted", "failed"}
      /\ requests[r] \in [step : {"calling", "accepted", "failed"}, booking : Bookings]
  BY <1>1, Types DEF RequestsKnown, TypeOK
<1> HIDE DEF b
<1>3. \A c \in Bookings : RowGood(bookings[c], deciding[c], payments[c], provider[c], now)
  BY <1>1 DEF RowsGood
<1>4. CASE ProviderAccepts(r)
  <2>1. /\ provider[b] = "none" /\ provider' = [provider EXCEPT ![b] = "open"]
        /\ requests' = [requests EXCEPT ![r].step = "accepted"] /\ payments' = payments
    BY <1>4 DEF ProviderAccepts, b
  <2> DEFINE call == [requests[r] EXCEPT !.step = "accepted"]
  <2>2. /\ call \in [step : {"calling", "accepted", "failed"}, booking : Bookings]
        /\ call.booking = b
    BY <1>2 DEF b
  <2>3. requests' = [requests EXCEPT ![r] = call]
    BY <2>1
  <2> HIDE DEF call
  <2>4. TypeOK' /\ RequestsKnown'
    <3>1. provider' \in [Bookings -> {"none", "open", "paid"}]
      BY <1>1, <1>2, <2>1 DEF TypeOK
    <3>2. requests' \in [Requests -> {Idle} \cup
            [step : {"calling", "accepted", "failed"}, booking : Bookings]]
      BY <1>1, <2>2, <2>3 DEF TypeOK
    <3>3. TypeOK'
      BY <1>1, <2>1, <3>1, <3>2 DEF TypeOK
    <3>4. \A q \in Requests : requests'[q].booking = requests[q].booking
      BY <1>1, <2>2, <2>3 DEF TypeOK, b
    <3>5. \A q \in Requests \ {r} : requests'[q] = requests[q]
      BY <1>1, <2>3 DEF TypeOK
    <3> QED
      BY <1>1, <1>2, <2>1, <3>3, <3>4, <3>5 DEF RequestsKnown
  <2>5. \A c \in Bookings : provider'[c] = (IF c = b THEN "open" ELSE provider[c])
    BY <1>1, <2>1 DEF TypeOK
  <2>6. \A c \in Bookings : RowGood(bookings[c], deciding[c], payments[c], provider'[c], now)
    BY <1>2, <1>3, <2>1, <2>5 DEF RowGood
  <2> QED
    BY <1>1, <2>1, <2>4, <2>6, PaymentWritten
<1>5. ASSUME NEW done \in BOOLEAN,
             payments' = [payments EXCEPT ![b].checkout_data = done, ![b].initializing = FALSE],
             provider' = provider,
             \/ requests' = [requests EXCEPT ![r] = Idle]
             \/ requests' = [requests EXCEPT ![r].step = "failed"]
      PROVE  BookingInv'
  <2>1. /\ payments' \in [Bookings -> PaymentRow]
        /\ \A c \in Bookings : payments'[c].status = payments[c].status
    BY <1>1, <1>2, <1>5, LeaseEnds
  <2>2. TypeOK' /\ RequestsKnown'
    <3>1. CASE requests' = [requests EXCEPT ![r] = Idle]
      BY <1>1, <1>5, <2>1, <3>1, CallsEnd DEF TypeOK
    <3>2. CASE requests' = [requests EXCEPT ![r].step = "failed"]
      <4> DEFINE call == [requests[r] EXCEPT !.step = "failed"]
      <4>1. /\ call \in [step : {"calling", "accepted", "failed"}, booking : Bookings]
            /\ call.booking = b
        BY <1>2 DEF b
      <4>2. requests' = [requests EXCEPT ![r] = call]
        BY <3>2
      <4> HIDE DEF call
      <4>3. /\ requests' \in [Requests -> {Idle} \cup
                 [step : {"calling", "accepted", "failed"}, booking : Bookings]]
            /\ \A q \in Requests \ {r} : requests'[q] = requests[q]
            /\ requests'[r].booking = b
        BY <1>1, <4>1, <4>2 DEF TypeOK
      <4>4. TypeOK'
        BY <1>1, <1>5, <2>1, <4>3 DEF TypeOK
      <4>5. \A q \in Requests : requests[q] # Idle => requests[q].booking \in Bookings
        BY <1>1, Types
      <4> QED
        BY <1>1, <1>2, <2>1, <4>3, <4>4, <4>5 DEF RequestsKnown
    <3> QED
      BY <1>5, <3>1, <3>2
  <2>3. \A c \in Bookings : RowGood(bookings[c], deciding[c], payments'[c], provider'[c], now)
    BY <1>3, <1>5, <2>1 DEF RowGood
  <2> QED
    BY <1>1, <2>2, <2>3, PaymentWritten
<1>6. CASE InitSucceeds(r)
  BY <1>5, <1>6 DEF InitSucceeds, b
<1>7. CASE InitFails(r)
  <2>1. payments' = [payments EXCEPT ![b].initializing = FALSE]
    BY <1>7 DEF InitFails, b
  <2>2. payments[b].checkout_data \in BOOLEAN
    BY <1>2 DEF PaymentRow
  <2>3. payments' = [payments EXCEPT ![b].checkout_data = payments[b].checkout_data,
                                     ![b].initializing = FALSE]
    BY <1>1, <1>2, <2>1 DEF TypeOK, PaymentRow
  <2> QED
    BY <1>5, <1>7, <2>2, <2>3 DEF InitFails
<1>8. CASE RequestDies(r)
  <2>1. requests' = [requests EXCEPT ![r] = Idle] /\ UNCHANGED <<payments, provider>>
    BY <1>8 DEF RequestDies
  <2>2. TypeOK' /\ RequestsKnown'
    BY <1>1, <2>1, CallsEnd DEF TypeOK
  <2> QED
    BY <1>1, <1>3, <2>1, <2>2, PaymentWritten
<1> QED
  BY <1>4, <1>6, <1>7, <1>8

LEMMA LeaseAndChargeInv ==
  ASSUME BookingInv, NEW b \in Bookings, LeaseLapses(b) \/ CustomerPays(b)
  PROVE  BookingInv'
<1>1. /\ TypeOK /\ RowsGood /\ RequestsKnown /\ payments[b] \in PaymentRow
      /\ UNCHANGED <<now, bookings, deciding, events, requests, overbooked>>
  BY Types DEF BookingInv, LeaseLapses, CustomerPays
<1>2. \A c \in Bookings : RowGood(bookings[c], deciding[c], payments[c], provider[c], now)
  BY <1>1 DEF RowsGood
<1>3. CASE LeaseLapses(b)
  <2>1. payments' = [payments EXCEPT ![b].initializing = FALSE] /\ provider' = provider
    BY <1>3 DEF LeaseLapses
  <2>2. payments[b].checkout_data \in BOOLEAN
    BY <1>1 DEF PaymentRow
  <2>3. payments' = [payments EXCEPT ![b].checkout_data = payments[b].checkout_data,
                                     ![b].initializing = FALSE]
    BY <1>1, <2>1 DEF TypeOK, PaymentRow
  <2>4. /\ payments' \in [Bookings -> PaymentRow]
        /\ \A c \in Bookings : payments'[c].status = payments[c].status
    BY <1>1, <2>2, <2>3, LeaseEnds
  <2>5. TypeOK' /\ RequestsKnown'
    BY <1>1, <2>1, <2>4, CallsEnd DEF TypeOK
  <2>6. \A c \in Bookings : RowGood(bookings[c], deciding[c], payments'[c], provider'[c], now)
    BY <1>2, <2>1, <2>4 DEF RowGood
  <2> QED
    BY <1>1, <2>5, <2>6, PaymentWritten
<1>4. CASE CustomerPays(b)
  <2>1. provider[b] = "open" /\ provider' = [provider EXCEPT ![b] = "paid"] /\ payments' = payments
    BY <1>4 DEF CustomerPays
  <2>2. \A c \in Bookings : provider'[c] = (IF c = b THEN "paid" ELSE provider[c])
    BY <1>1, <2>1 DEF TypeOK
  <2>3. provider' \in [Bookings -> {"none", "open", "paid"}]
    BY <1>1, <2>1 DEF TypeOK
  <2>4. TypeOK' /\ RequestsKnown'
    BY <1>1, <2>1, <2>3 DEF TypeOK, RequestsKnown
  <2>5. \A c \in Bookings : RowGood(bookings[c], deciding[c], payments[c], provider'[c], now)
    BY <1>2, <2>1, <2>2 DEF RowGood
  <2> QED
    BY <1>1, <2>1, <2>4, <2>5, PaymentWritten
<1> QED
  BY <1>3, <1>4

\* What a first charge makes of its booking: confirmed, or owed back in full.
LEMMA ChargedRowIs ==
  ASSUME BookingInv, NEW b \in Bookings
  PROVE  LET row == ChargedRow(b)
         IN /\ row \in BookingRow /\ row.paid /\ row.expires = 0
            /\ row.start = bookings[b].start /\ row.proposed = bookings[b].proposed
            /\ row.user = bookings[b].user /\ row.key = bookings[b].key
            /\ IF Payable(b) THEN row.status = "confirmed" /\ row.refund = "none"
               ELSE row.status = "payment_review" /\ row.refund = "full"
<1> DEFINE row(status, refund) ==
             [bookings[b] EXCEPT !.status = status, !.paid = TRUE, !.refund = refund, !.expires = 0]
<1>1. bookings[b] \in BookingRow
  BY Types DEF BookingInv
<1>2. ASSUME NEW status \in Statuses, NEW refund \in {"none", "partial", "full"}
      PROVE  /\ row(status, refund) \in BookingRow
             /\ row(status, refund).expires = 0
             /\ row(status, refund).start = bookings[b].start
             /\ row(status, refund).proposed = bookings[b].proposed
             /\ row(status, refund).user = bookings[b].user
             /\ row(status, refund).key = bookings[b].key
             /\ row(status, refund).status = status
             /\ row(status, refund).refund = refund
  BY <1>1 DEF BookingRow
<1>3. \A status, refund : row(status, refund).paid = TRUE
  BY <1>1 DEF BookingRow
<1>4. ChargedRow(b) = IF Payable(b) THEN row("confirmed", "none") ELSE row("payment_review", "full")
  BY DEF ChargedRow
<1>5. {"confirmed", "payment_review"} \subseteq Statuses
  BY DEF Statuses
<1> HIDE DEF row
<1>6. CASE Payable(b)
  BY <1>2, <1>3, <1>4, <1>5, <1>6
<1>7. CASE ~Payable(b)
  BY <1>2, <1>3, <1>4, <1>5, <1>7
<1> QED
  BY <1>6, <1>7

LEMMA SettleInv ==
  ASSUME BookingInv, NEW b \in Bookings, NEW webhook \in BOOLEAN, Settle(b, webhook),
         \/ UNCHANGED requests
         \/ \E r \in Requests : requests' = [requests EXCEPT ![r] = Idle]
  PROVE  BookingInv'
<1>1. /\ TypeOK /\ RowsGood /\ RequestsKnown /\ events' \subseteq Bookings
      /\ payments[b].status # "none" /\ provider[b] = "paid" /\ deciding[b] = 0
      /\ UNCHANGED <<now, deciding, provider, overbooked>> /\ payments[b] \in PaymentRow
      /\ payments \in [Bookings -> PaymentRow] /\ bookings \in [Bookings -> BookingRow]
  BY Types DEF BookingInv, Settle, Unlocked, TypeOK
<1>2. RowGood(bookings[b], deciding[b], payments[b], provider[b], now)
  BY <1>1 DEF RowsGood
<1>3. CASE Settled(b)
  <2>1. UNCHANGED <<payments, bookings>>
    BY <1>3 DEF Settle
  <2>2. TypeOK' /\ RequestsKnown'
    BY <1>1, <2>1, CallsEnd DEF TypeOK
  <2> QED
    BY <1>1, <2>1, <2>2, PaymentWritten DEF RowsGood
<1>4. CASE ~Settled(b)
  <2> DEFINE row == ChargedRow(b)
             payment == [payments[b] EXCEPT !.status = "success", !.initializing = FALSE]
  <2>1. /\ bookings' = [bookings EXCEPT ![b] = row]
        /\ payments' = [payments EXCEPT ![b].status = "success", ![b].initializing = FALSE]
    BY <1>4 DEF Settle, UpdateRow
  <2>2. /\ row \in BookingRow /\ row.paid /\ row.expires = 0
        /\ row.start = bookings[b].start /\ row.proposed = bookings[b].proposed
        /\ row.user = bookings[b].user /\ row.key = bookings[b].key
        /\ IF Payable(b) THEN row.status = "confirmed" /\ row.refund = "none"
           ELSE row.status = "payment_review" /\ row.refund = "full"
    BY ChargedRowIs
  <2>3. payment \in PaymentRow /\ payment.status = "success"
    BY <1>1 DEF PaymentRow
  <2>4. payments' = [payments EXCEPT ![b] = payment]
    BY <1>1, <2>1
  <2> HIDE DEF row, payment
  <2>5. /\ bookings' \in [Bookings -> BookingRow] /\ bookings'[b] = row
        /\ payments' \in [Bookings -> PaymentRow] /\ payments'[b] = payment
        /\ \A c \in Bookings \ {b} : bookings'[c] = bookings[c] /\ payments'[c] = payments[c]
    BY <1>1, <2>1, <2>2, <2>3, <2>4
  <2>6. TypeOK' /\ RequestsKnown'
    <3>1. \A c \in Bookings : payments[c].status # "none" => payments'[c].status # "none"
      BY <2>3, <2>5
    <3> QED
      BY <1>1, <2>5, <3>1, CallsEnd DEF TypeOK
  <2>7. ~bookings[b].paid /\ bookings[b].status \notin {"confirmed", "active", "completed"}
    BY <1>2, <1>4 DEF Settled, RowGood
  <2>8. Payable(b) => bookings[b].status = "accepted"
    BY DEF Payable
  <2>9. RowGood(row, deciding[b], payment, provider[b], now)
    <3>1. /\ bookings[b].proposed = 0 /\ row.status \notin {"absent", "pending", "accepted"}
          /\ Payable(b) => row.start # 0
      BY <1>1, <1>2, <2>2, <2>7, <2>8, Types DEF RowGood
    <3>2. row.user # None
      BY <1>1, <1>2, <2>2 DEF RowGood
    <3>3. CASE Payable(b)
      BY <1>1, <2>2, <2>3, <3>1, <3>2, <3>3 DEF RowGood
    <3>4. CASE ~Payable(b)
      BY <1>1, <2>2, <2>3, <3>1, <3>2, <3>4 DEF RowGood
    <3> QED
      BY <3>3, <3>4
  <2> QED
    BY <1>1, <2>2, <2>5, <2>6, <2>9, OneBooking
<1> QED
  BY <1>3, <1>4

LEMMA SettlementInv ==
  ASSUME BookingInv,
         \/ \E b \in Bookings : SettleByWebhook(b) \/ VerifyPayment(b)
         \/ \E r \in Requests : RecoverByVerify(r)
  PROVE  BookingInv'
<1>1. ASSUME NEW b \in Bookings, SettleByWebhook(b) \/ VerifyPayment(b)
      PROVE  BookingInv'
  BY <1>1, SettleInv DEF SettleByWebhook, VerifyPayment
<1>2. ASSUME NEW r \in Requests, RecoverByVerify(r)
      PROVE  BookingInv'
  <2>1. /\ requests[r] # Idle /\ TypeOK /\ RowsGood /\ RequestsKnown
        /\ requests' = [requests EXCEPT ![r] = Idle]
    BY <1>2 DEF RecoverByVerify, Idle, BookingInv
  <2>2. requests[r].booking \in Bookings
    BY <2>1, Types
  <2>3. CASE Settle(requests[r].booking, FALSE)
    BY <2>1, <2>2, <2>3, SettleInv
  <2>4. CASE UNCHANGED <<now, bookings, deciding, payments, events, provider, overbooked>>
    <3>1. TypeOK' /\ RequestsKnown'
      BY <2>1, <2>4, CallsEnd DEF TypeOK
    <3> QED
      BY <2>1, <2>4, <3>1, PaymentWritten DEF RowsGood
  <2> QED
    BY <1>2, <2>3, <2>4 DEF RecoverByVerify
<1> QED
  BY <1>1, <1>2

-----------------------------------------------------------------------------
(* The invariant, money, closed and paid bookings                          *)

LEMMA NextInv ==
  ASSUME BookingInv, [Next]_vars
  PROVE  BookingInv'
<1>1. CASE Tick
  BY <1>1, TickInv
<1>2. CASE ExpireBookings
  BY <1>2, ExpireInv
<1>3. CASE RequestStep
  BY <1>3, CreateInv DEF RequestStep
<1>4. CASE VendorStep
  BY <1>4, BeginDecideInv, DecideInv, SessionInv, ProposalInv DEF VendorStep
<1>5. CASE CustomerStep
  BY <1>5, ProposalInv DEF CustomerStep
<1>6. CASE CancelStep
  BY <1>6, CancelInv DEF CancelStep
<1>7. CASE PaymentStep
  BY <1>7, InitiateInv, CallInv, LeaseAndChargeInv, SettlementInv DEF PaymentStep
<1>8. CASE UNCHANGED vars
  <2>1. UNCHANGED <<now, bookings, deciding, payments, events, requests, provider, overbooked>>
    BY <1>8 DEF vars
  <2>2. TypeOK' /\ RequestsKnown'
    BY <2>1 DEF BookingInv, TypeOK, RequestsKnown
  <2> QED
    BY <2>1, <2>2, PaymentWritten DEF BookingInv, RowsGood
<1> QED
  BY <1>1, <1>2, <1>3, <1>4, <1>5, <1>6, <1>7, <1>8 DEF Next

\* The inductive invariant holds in every reachable state.
THEOREM Invariant == Spec => []BookingInv
<1>1. Init => BookingInv
  BY InitInv
<1>2. BookingInv /\ [Next]_vars => BookingInv'
  BY NextInv
<1> QED
  BY <1>1, <1>2, PTL DEF Spec

\* Every settled charge is earned by a session or owed back, whatever the order of
\* charges, decisions, cancellations and expiries.
THEOREM MoneyAlwaysAccounted == Spec => []MoneyAccounted
<1>1. BookingInv => MoneyAccounted
  BY DEF BookingInv, RowsGood, RowGood, MoneyAccounted, Charged
<1> QED
  BY <1>1, Invariant, PTL

\* The rows a step may write: how each action changes the row of a booking.
LEMMA RowSteps ==
  ASSUME BookingInv, Next, NEW b \in Bookings
  PROVE  \/ bookings'[b] = bookings[b]
         \/ bookings[b].status \in {"absent", "pending", "active"}
         \/ /\ bookings[b].status = "accepted" /\ bookings'[b].status \in {"expired", "cancelled"}
         \/ \E byVendor \in BOOLEAN :
              /\ Cancel(b, byVendor)
              /\ bookings'[b].status = "cancelled"
              /\ bookings'[b].refund = CancellationRefund(b, byVendor)
         \/ /\ bookings[b].status = "confirmed" /\ bookings'[b].status \in {"confirmed", "active"}
            /\ bookings'[b].start \in {bookings[b].start, bookings[b].proposed}
         \/ ~bookings[b].paid /\ bookings'[b] = ChargedRow(b)
<1>1. /\ TypeOK /\ RowGood(bookings[b], deciding[b], payments[b], provider[b], now)
      /\ bookings \in [Bookings -> BookingRow] /\ bookings[b] \in BookingRow
  BY DEF BookingInv, RowsGood, TypeOK
<1>2. CASE Tick
  BY <1>2 DEF Tick
<1>3. CASE ExpireBookings
  BY <1>1, <1>3 DEF ExpireBookings, ExpiringRows, Due
<1>4. CASE RequestStep
  BY <1>1, <1>4 DEF RequestStep, Create
<1>5. CASE VendorStep
  <2>1. PICK c \in Bookings :
          \/ BeginDecide(c) \/ Accept(c) \/ Decline(c) \/ AbortDecision(c)
          \/ StartSession(c) \/ CompleteSession(c)
          \/ \E s \in Starts : Propose(c, s)
    BY <1>5 DEF VendorStep
  <2>2. CASE BeginDecide(c) \/ AbortDecision(c)
    BY <2>2 DEF BeginDecide, AbortDecision
  <2>3. CASE Accept(c) \/ Decline(c)
    BY <1>1, <2>3 DEF Accept, Decline, UpdateRow, RowGood
  <2>4. CASE StartSession(c) \/ CompleteSession(c)
    <3>1. CASE CompleteSession(c)
      <4>1. bookings'[b] = bookings[b] \/ bookings[b].status = "active"
        BY <1>1, <3>1 DEF CompleteSession, Change, UpdateRow
      <4> QED
        BY <4>1
    <3>2. CASE StartSession(c)
      <4>1. \/ bookings'[b] = bookings[b]
            \/ /\ bookings[b].status = "confirmed" /\ bookings'[b].status = "active"
               /\ bookings'[b].start = bookings[b].start
        BY <1>1, <3>2 DEF StartSession, Change, UpdateRow, BookingRow
      <4> QED
        BY <4>1
    <3> QED
      BY <2>4, <3>1, <3>2
  <2>5. CASE \E s \in Starts : Propose(c, s)
    BY <1>1, <2>5 DEF Propose, UpdateRow, BookingRow
  <2> QED
    BY <2>1, <2>2, <2>3, <2>4, <2>5
<1>6. CASE CustomerStep
  <2>1. \/ bookings'[b] = bookings[b]
        \/ /\ bookings[b].status = "confirmed" /\ bookings'[b].status = "confirmed"
           /\ bookings'[b].start \in {bookings[b].start, bookings[b].proposed}
    <3>1. PICK c \in Bookings : AcceptProposal(c) \/ RejectProposal(c)
      BY <1>6 DEF CustomerStep
    <3>2. bookings[c].status = "confirmed" /\ bookings[c] \in BookingRow
      BY <1>1, <3>1 DEF AcceptProposal, RejectProposal, AwaitsResponse
    <3>3. CASE AcceptProposal(c)
      <4> DEFINE row == [bookings[c] EXCEPT !.start = bookings[c].proposed, !.proposed = 0]
      <4>1. row.status = bookings[c].status /\ row.start = bookings[c].proposed
        BY <3>2 DEF BookingRow
      <4>2. bookings' = [bookings EXCEPT ![c] = row]
        BY <3>3 DEF AcceptProposal, UpdateRow
      <4> HIDE DEF row
      <4> QED
        BY <1>1, <3>2, <4>1, <4>2
    <3>4. CASE RejectProposal(c)
      <4> DEFINE row == [bookings[c] EXCEPT !.proposed = 0]
      <4>1. row.status = bookings[c].status /\ row.start = bookings[c].start
        BY <3>2 DEF BookingRow
      <4>2. bookings' = [bookings EXCEPT ![c] = row]
        BY <3>4 DEF RejectProposal, UpdateRow
      <4> HIDE DEF row
      <4> QED
        BY <1>1, <3>2, <4>1, <4>2
    <3> QED
      BY <3>1, <3>3, <3>4
  <2> QED
    BY <2>1
<1>7. CASE CancelStep
  <2>1. PICK c \in Bookings, byVendor \in BOOLEAN : Cancel(c, byVendor)
    BY <1>7 DEF CancelStep
  <2> QED
    BY <1>1, <2>1 DEF Cancel, Change, UpdateRow, BookingRow
<1>8. CASE PaymentStep
  <2>1. ASSUME NEW c \in Bookings, NEW webhook \in BOOLEAN, Settle(c, webhook)
        PROVE  bookings'[b] = bookings[b] \/ (~bookings[b].paid /\ bookings'[b] = ChargedRow(b))
    BY <1>1, <2>1 DEF Settle, UpdateRow, Settled
  <2>2. CASE \/ \E r \in Requests, c \in Bookings : InitiatePayment(r, c)
             \/ \E r \in Requests : ProviderAccepts(r) \/ InitSucceeds(r) \/ InitFails(r) \/ RequestDies(r)
             \/ \E c \in Bookings : LeaseLapses(c) \/ CustomerPays(c)
    BY <2>2 DEF InitiatePayment, ProviderAccepts, InitSucceeds, InitFails, RequestDies,
                LeaseLapses, CustomerPays
  <2>3. CASE \E c \in Bookings : SettleByWebhook(c) \/ VerifyPayment(c)
    BY <2>1, <2>3 DEF SettleByWebhook, VerifyPayment
  <2>4. ASSUME NEW r \in Requests, RecoverByVerify(r)
        PROVE  bookings'[b] = bookings[b] \/ (~bookings[b].paid /\ bookings'[b] = ChargedRow(b))
    <3>1. requests[r].booking \in Bookings
      BY <1>1, <2>4, Types DEF RecoverByVerify, Idle
    <3> QED
      BY <2>1, <2>4, <3>1 DEF RecoverByVerify
  <2> QED
    BY <1>8, <2>2, <2>3, <2>4 DEF PaymentStep
<1> QED
  BY <1>2, <1>3, <1>4, <1>5, <1>6, <1>7, <1>8 DEF Next

\* A declined, expired or cancelled booking never comes back, what it owes is never
\* reduced, and a paid session leaves the calendar only by a cancellation.
THEOREM ClosedAndPaidStay == Spec => ClosedAndPaidKept
<1>1. ASSUME BookingInv, Next, NEW b \in Bookings
      PROVE  ClosedStaysClosed(b) /\ PaidSessionKept(b)
  <2> DEFINE closed == bookings[b].status \in {"declined", "cancelled", "expired", "payment_review"}
             firm == bookings[b].status = "confirmed"
  <2>1. /\ RowGood(bookings[b], deciding[b], payments[b], provider[b], now)
        /\ now \in Nat /\ bookings[b].start \in Nat
    BY <1>1, Types DEF BookingInv, RowsGood
  <2>2. firm => bookings[b].paid
    BY <2>1 DEF RowGood
  <2>3. CASE bookings'[b] = bookings[b]
    BY <2>3 DEF ClosedStaysClosed, PaidSessionKept
  <2>4. CASE bookings[b].status \in {"absent", "pending", "active", "accepted"}
    BY <2>4 DEF ClosedStaysClosed, PaidSessionKept
  <2>5. ASSUME NEW byVendor \in BOOLEAN, Cancel(b, byVendor),
               bookings'[b].status = "cancelled",
               bookings'[b].refund = CancellationRefund(b, byVendor)
        PROVE  ClosedStaysClosed(b) /\ PaidSessionKept(b)
    <3>1. /\ bookings[b].status \in {"pending", "accepted", "confirmed"}
          /\ byVendor \/ bookings[b].start > now
      BY <2>5 DEF Cancel
    <3>2. bookings[b].paid =>
            \/ bookings'[b].refund = "full"
            \/ bookings'[b].refund = "partial" /\ ~byVendor /\ bookings[b].start - now < CancelWindow
      BY <2>5 DEF CancellationRefund
    <3> QED
      BY <2>1, <2>2, <2>5, <3>1, <3>2 DEF ClosedStaysClosed, PaidSessionKept
  <2>6. CASE /\ bookings[b].status = "confirmed" /\ bookings'[b].status \in {"confirmed", "active"}
             /\ bookings'[b].start \in {bookings[b].start, bookings[b].proposed}
    BY <2>6 DEF ClosedStaysClosed, PaidSessionKept
  <2>7. CASE ~bookings[b].paid /\ bookings'[b] = ChargedRow(b)
    <3>1. IF Payable(b) THEN bookings[b].status = "accepted"
          ELSE bookings'[b].status = "payment_review" /\ bookings'[b].refund = "full"
      BY <1>1, <2>7, ChargedRowIs DEF Payable
    <3> QED
      BY <2>2, <2>7, <3>1 DEF ClosedStaysClosed, PaidSessionKept
  <2> QED
    BY <1>1, <2>3, <2>4, <2>5, <2>6, <2>7, RowSteps
<1>2. BookingInv /\ [Next]_vars =>
        [\A b \in Bookings : ClosedStaysClosed(b) /\ PaidSessionKept(b)]_vars
  BY <1>1
<1> QED
  BY <1>2, Invariant, PTL DEF Spec, ClosedAndPaidKept

-----------------------------------------------------------------------------
(* The calendar                                                            *)

Firm == {"confirmed", "active", "completed"}

\* The calendar lists what holds a slot that had room for it.
Listed(b) == Holds(b) /\ b \notin overbooked

\* What a step may do to the calendar: slots are left, a paid booking gives its
\* slot up, a held slot is paid for, or one booking takes or changes its slot when
\* there is room for it, be it paid for and not listed until now.
Leaves ==
  /\ firmBar' = firmBar
  /\ \A c \in Bookings : slotBar'[c] \in {0, slotBar[c]}
GivesUp(b) ==
  /\ b \in firmBar /\ firmBar' = firmBar \ {b}
  /\ slotBar' = [slotBar EXCEPT ![b] = 0]
GetsPaid(b) ==
  /\ slotBar[b] # 0 /\ firmBar' = firmBar \cup {b}
  /\ slotBar' = slotBar
Takes(b, s) ==
  /\ s \in Nat /\ s # 0 /\ HasRoom(s, b)
  /\ slotBar[b] = 0 \/ b \in firmBar
  /\ firmBar' = firmBar
  /\ slotBar' = [slotBar EXCEPT ![b] = s]
Returns(b, s) ==
  /\ s \in Nat /\ s # 0 /\ HasRoom(s, b)
  /\ slotBar[b] = 0 /\ b \notin firmBar
  /\ firmBar' = firmBar \cup {b}
  /\ slotBar' = [slotBar EXCEPT ![b] = s]

CalendarStep ==
  \/ Leaves
  \/ \E b \in Bookings : \/ GivesUp(b) \/ GetsPaid(b)
                         \/ \E s \in Nat : Takes(b, s) \/ Returns(b, s)

LEMMA Bars ==
  ASSUME BookingInv
  PROVE  /\ slotBar \in [Bookings -> Nat] /\ firmBar \subseteq Bookings
         /\ \A b \in Bookings :
              /\ slotBar[b] = IF Listed(b) THEN bookings[b].start ELSE 0
              /\ Listed(b) => slotBar[b] # 0
              /\ b \in firmBar <=> bookings[b].status \in Firm /\ b \notin overbooked
              /\ b \in firmBar => Listed(b)
<1>1. ASSUME NEW b \in Bookings
      PROVE  /\ bookings[b].start \in Nat
             /\ Holds(b) => bookings[b].start # 0
             /\ bookings[b].status \in Firm => Holds(b)
  <2>1. /\ RowGood(bookings[b], deciding[b], payments[b], provider[b], now)
        /\ bookings[b].start \in Nat /\ bookings[b].expires \in Nat
    BY Types DEF BookingInv, RowsGood
  <2> QED
    BY <2>1 DEF RowGood, Holds, Firm
<1>2. \A b \in Bookings : b \in firmBar <=> bookings[b].status \in Firm /\ b \notin overbooked
  BY DEF firmBar, Firm
<1>3. slotBar = [b \in Bookings |-> IF Listed(b) THEN bookings[b].start ELSE 0]
  BY DEF slotBar, Listed, Holds
<1>4. firmBar \subseteq Bookings
  BY DEF firmBar
<1> QED
  BY <1>1, <1>2, <1>3, <1>4 DEF Listed

\* A step that changes the row of one booking changes its entry in the calendar only.
LEMMA OneEntry ==
  ASSUME BookingInv, BookingInv', now' = now, NEW b \in Bookings,
         \A c \in Bookings \ {b} : bookings'[c] = bookings[c],
         \A c \in Bookings \ {b} : c \in overbooked' <=> c \in overbooked
  PROVE  /\ slotBar' = [slotBar EXCEPT ![b] = slotBar'[b]]
         /\ \A c \in Bookings \ {b} : c \in firmBar' <=> c \in firmBar
         /\ slotBar'[b] = IF Listed(b)' THEN bookings'[b].start ELSE 0
         /\ slotBar'[b] # 0 <=> Listed(b)'
         /\ b \in firmBar' <=> bookings'[b].status \in Firm /\ b \notin overbooked'
         /\ b \in firmBar <=> bookings[b].status \in Firm /\ b \notin overbooked
         /\ firmBar \subseteq Bookings /\ firmBar' \subseteq Bookings
         /\ slotBar \in [Bookings -> Nat] /\ slotBar' \in [Bookings -> Nat]
<1>1. /\ firmBar' \subseteq Bookings /\ slotBar' = [c \in Bookings |-> slotBar'[c]]
      /\ \A c \in Bookings : slotBar'[c] = IF Listed(c)' THEN bookings'[c].start ELSE 0
  <2>1. firmBar' \subseteq Bookings
    BY DEF firmBar
  <2>2. slotBar' = [c \in Bookings |-> IF Listed(c)' THEN bookings'[c].start ELSE 0]
    BY DEF slotBar, Listed, Holds
  <2> QED
    BY <2>1, <2>2
<1>2. \A c \in Bookings \ {b} : (Listed(c)' <=> Listed(c)) /\ (c \in firmBar' <=> c \in firmBar)
  BY DEF Listed, Holds, firmBar
<1>3. ASSUME NEW c \in Bookings
      PROVE  /\ bookings'[c].start \in Nat
             /\ Listed(c)' => bookings'[c].start # 0
  <2>1. /\ RowGood(bookings'[c], deciding'[c], payments'[c], provider'[c], now')
        /\ bookings'[c].start \in Nat /\ bookings'[c].expires \in Nat
    <3>1. bookings' \in [Bookings -> BookingRow]
      BY DEF BookingInv, TypeOK
    <3> QED
      BY <3>1 DEF BookingInv, RowsGood, BookingRow
  <2> QED
    BY <2>1 DEF RowGood, Listed, Holds
<1>4. slotBar \in [Bookings -> Nat] /\ firmBar \subseteq Bookings
      /\ \A c \in Bookings : slotBar[c] = IF Listed(c) THEN bookings[c].start ELSE 0
  BY Bars
<1>5. \A c \in Bookings \ {b} : slotBar'[c] = slotBar[c]
  BY <1>1, <1>2, <1>4
<1>6. slotBar' \in [Bookings -> Nat] /\ slotBar' = [slotBar EXCEPT ![b] = slotBar'[b]]
  BY <1>1, <1>3, <1>4, <1>5
<1>7. /\ b \in firmBar' <=> bookings'[b].status \in Firm /\ b \notin overbooked'
      /\ b \in firmBar <=> bookings[b].status \in Firm /\ b \notin overbooked
  BY DEF firmBar, Firm
<1> QED
  BY <1>1, <1>2, <1>3, <1>4, <1>6, <1>7

\* A booking that is neither paid before nor after the step, or both, and whose slot
\* stays or is left, leaves the calendar.
LEMMA EntryLeaves ==
  ASSUME BookingInv, BookingInv', now' = now, NEW b \in Bookings,
         \A c \in Bookings \ {b} : bookings'[c] = bookings[c],
         overbooked' = overbooked,
         bookings'[b].status \in Firm <=> bookings[b].status \in Firm,
         Holds(b)' => Holds(b) /\ bookings'[b].start = bookings[b].start
  PROVE  Leaves
<1>1. /\ slotBar' = [slotBar EXCEPT ![b] = slotBar'[b]]
      /\ firmBar' = firmBar /\ slotBar \in [Bookings -> Nat]
      /\ slotBar'[b] = IF Listed(b)' THEN bookings'[b].start ELSE 0
  BY OneEntry
<1>2. Listed(b) => slotBar[b] = bookings[b].start
  BY Bars
<1>3. Listed(b)' => Listed(b) /\ bookings'[b].start = bookings[b].start
  BY DEF Listed
<1>4. slotBar'[b] \in {0, slotBar[b]}
  BY <1>1, <1>2, <1>3
<1> QED
  BY <1>1, <1>4 DEF Leaves

LEMMA SameRowsLeave ==
  ASSUME UNCHANGED <<now, bookings, overbooked>>, BookingInv
  PROVE  Leaves
<1>1. slotBar' = slotBar /\ firmBar' = firmBar
  BY DEF slotBar, firmBar, Holds
<1> QED
  BY <1>1 DEF Leaves

LEMMA TimeLeaves ==
  ASSUME BookingInv, BookingInv', Tick \/ ExpireBookings
  PROVE  Leaves
<1>1. ASSUME NEW c \in Bookings
      PROVE  /\ Listed(c)' => Listed(c) /\ bookings'[c].start = bookings[c].start
             /\ c \in firmBar' <=> c \in firmBar
  <2>1. /\ now \in Nat /\ bookings[c].expires \in Nat /\ bookings[c] \in BookingRow
        /\ bookings \in [Bookings -> BookingRow]
    BY Types DEF BookingInv, TypeOK
  <2>2. CASE Tick
    BY <2>1, <2>2 DEF Tick, Listed, Holds, firmBar
  <2>3. CASE ExpireBookings
    <3>1. /\ now' = now /\ overbooked' = overbooked
          /\ bookings'[c] = IF c \in Due THEN [bookings[c] EXCEPT !.status = "expired"]
                            ELSE bookings[c]
      BY <2>3 DEF ExpireBookings, ExpiringRows
    <3>2. CASE c \notin Due
      BY <3>1, <3>2 DEF Listed, Holds, firmBar
    <3>3. CASE c \in Due
      <4>1. bookings'[c].status = "expired"
        BY <2>1, <3>1, <3>3 DEF BookingRow
      <4>2. bookings[c].status \in {"pending", "accepted"}
        BY <3>3 DEF Due
      <4> QED
        BY <4>1, <4>2 DEF Listed, Holds, firmBar
    <3> QED
      BY <3>2, <3>3
  <2> QED
    BY <2>2, <2>3
<1>2. \A c \in Bookings : slotBar[c] = IF Listed(c) THEN bookings[c].start ELSE 0
  BY Bars
<1>3. \A c \in Bookings : slotBar'[c] = IF Listed(c)' THEN bookings'[c].start ELSE 0
  BY DEF slotBar, Listed, Holds
<1>4. \A c \in Bookings : slotBar'[c] \in {0, slotBar[c]}
  BY <1>1, <1>2, <1>3
<1>5. firmBar' = firmBar
  BY <1>1 DEF firmBar
<1> QED
  BY <1>4, <1>5 DEF Leaves

LEMMA CreateTakes ==
  ASSUME BookingInv, BookingInv', NEW b \in Bookings, NEW u \in Users, NEW k \in Keys,
         NEW s \in Starts, Create(b, u, k, s)
  PROVE  Leaves \/ Takes(b, s)
<1> DEFINE row == [NoBooking EXCEPT !.status = "pending", !.start = s, !.user = u, !.key = k,
                                    !.expires = Earlier(now + DecisionWindow, s)]
<1>1. /\ now' = now /\ overbooked' = overbooked
      /\ bookings[b].status = "absent" /\ s > now /\ HasRoom(s, b)
      /\ bookings' = [bookings EXCEPT ![b] = row] /\ bookings \in [Bookings -> BookingRow]
  BY DEF Create, BookingInv, TypeOK
<1>2. row.status = "pending" /\ row.start = s /\ row.expires = Earlier(now + DecisionWindow, s)
  BY DEF NoBooking
<1>3. Earlier(now + DecisionWindow, s) > now /\ s \in Nat /\ s # 0
  BY <1>1, Types, ConstantsAssumption DEF Earlier, BookingInv
<1> HIDE DEF row
<1>4. bookings'[b] = row /\ \A c \in Bookings \ {b} : bookings'[c] = bookings[c]
  BY <1>1
<1>5. Holds(b)' /\ ~Holds(b)
  BY <1>1, <1>2, <1>3, <1>4 DEF Holds
<1>6. bookings[b].status \notin Firm /\ bookings'[b].status \notin Firm
  BY <1>1, <1>2, <1>4 DEF Firm
<1>7. /\ slotBar' = [slotBar EXCEPT ![b] = slotBar'[b]] /\ slotBar \in [Bookings -> Nat]
      /\ slotBar'[b] = IF Listed(b)' THEN bookings'[b].start ELSE 0
      /\ firmBar' = firmBar
  BY <1>1, <1>4, <1>6, OneEntry
<1>8. slotBar[b] = 0
  BY <1>5, Bars DEF Listed
<1>9. CASE b \in overbooked
  <2>1. slotBar'[b] = 0
    BY <1>1, <1>7, <1>9 DEF Listed
  <2> QED
    BY <1>7, <1>8, <2>1 DEF Leaves
<1>10. CASE b \notin overbooked
  <2>1. slotBar'[b] = s
    BY <1>1, <1>2, <1>4, <1>5, <1>7, <1>10 DEF Listed
  <2> QED
    BY <1>1, <1>3, <1>7, <1>8, <2>1 DEF Takes
<1> QED
  BY <1>9, <1>10

LEMMA DecisionTakes ==
  ASSUME BookingInv, BookingInv', NEW b \in Bookings, Accept(b) \/ Decline(b)
  PROVE  Leaves \/ \E s \in Nat : Takes(b, s)
<1>1. /\ bookings \in [Bookings -> BookingRow] /\ bookings[b] \in BookingRow
      /\ deciding[b] # 0 /\ now' = now /\ bookings[b].status = "pending"
      /\ bookings[b].start \in Nat /\ bookings[b].start # 0
      /\ bookings[b].expires \in Nat /\ now \in Nat
  <2>1. /\ RowGood(bookings[b], deciding[b], payments[b], provider[b], now)
        /\ bookings[b].start \in Nat /\ bookings[b].expires \in Nat /\ now \in Nat
    BY Types DEF BookingInv, RowsGood
  <2> QED
    BY <2>1 DEF Accept, Decline, BookingInv, TypeOK, RowGood
<1>2. CASE Accept(b)
  <2> DEFINE row == [bookings[b] EXCEPT !.status = "accepted", !.expires = deciding[b]]
             s == bookings[b].start
  <2>1. row.status = "accepted" /\ row.start = s
    BY <1>1 DEF BookingRow
  <2>2. /\ bookings' = [bookings EXCEPT ![b] = row]
        /\ overbooked' = IF bookings[b].expires > now \/ HasRoom(s, b)
                           THEN overbooked ELSE overbooked \cup {b}
    BY <1>2 DEF Accept, UpdateRow
  <2> HIDE DEF row
  <2>3. bookings'[b] = row /\ \A c \in Bookings \ {b} : bookings'[c] = bookings[c]
    BY <1>1, <2>2
  <2>4. bookings[b].status \notin Firm /\ bookings'[b].status \notin Firm
    BY <1>1, <2>1, <2>3 DEF Firm
  <2>5. CASE bookings[b].expires > now
    <3>1. Holds(b) /\ overbooked' = overbooked
      BY <1>1, <2>2, <2>5 DEF Holds
    <3> QED
      BY <1>1, <2>1, <2>3, <2>4, <3>1, EntryLeaves
  <2>6. CASE ~(bookings[b].expires > now)
    <3>1. /\ slotBar' = [slotBar EXCEPT ![b] = slotBar'[b]] /\ slotBar \in [Bookings -> Nat]
          /\ slotBar'[b] = IF Listed(b)' THEN s ELSE 0
          /\ firmBar' = firmBar
      BY <1>1, <2>1, <2>2, <2>3, <2>4, OneEntry
    <3>2. slotBar[b] = 0
      BY <1>1, <2>6, Bars DEF Listed, Holds
    <3>3. CASE Listed(b)'
      <4>1. HasRoom(s, b)
        BY <2>2, <2>6, <3>3 DEF Listed
      <4>2. slotBar' = [slotBar EXCEPT ![b] = s]
        BY <3>1, <3>3
      <4> QED
        BY <1>1, <3>1, <3>2, <4>1, <4>2 DEF Takes
    <3>4. CASE ~Listed(b)'
      BY <3>1, <3>2, <3>4 DEF Leaves
    <3> QED
      BY <3>3, <3>4
  <2> QED
    BY <2>5, <2>6
<1>3. CASE Decline(b)
  <2> DEFINE row == [bookings[b] EXCEPT !.status = "declined", !.expires = 0]
  <2>1. row.status = "declined"
    BY <1>1 DEF BookingRow
  <2>2. bookings' = [bookings EXCEPT ![b] = row] /\ overbooked' = overbooked
    BY <1>3 DEF Decline, UpdateRow
  <2> HIDE DEF row
  <2>3. bookings'[b] = row /\ \A c \in Bookings \ {b} : bookings'[c] = bookings[c]
    BY <1>1, <2>2
  <2>4. ~Holds(b)'
    BY <2>1, <2>3 DEF Holds
  <2> QED
    BY <1>1, <2>1, <2>2, <2>3, <2>4, EntryLeaves DEF Firm
<1> QED
  BY <1>2, <1>3

LEMMA SessionLeaves ==
  ASSUME BookingInv, BookingInv', NEW b \in Bookings, StartSession(b) \/ CompleteSession(b)
  PROVE  Leaves
<1>1. /\ bookings \in [Bookings -> BookingRow] /\ bookings[b] \in BookingRow
      /\ bookings[b].status \in {"confirmed", "active"}
      /\ now' = now /\ overbooked' = overbooked
  BY DEF BookingInv, TypeOK, StartSession, CompleteSession, Change
<1>2. /\ bookings'[b].status \in {"active", "completed"}
      /\ bookings'[b].start = bookings[b].start
      /\ \A c \in Bookings \ {b} : bookings'[c] = bookings[c]
  <2>1. PICK status \in {"active", "completed"} :
          bookings' = [bookings EXCEPT ![b] = [bookings[b] EXCEPT !.status = status,
                         !.refund = "none", !.expires = 0, !.proposed = 0]]
    BY DEF StartSession, CompleteSession, Change, UpdateRow
  <2> QED
    BY <1>1, <2>1 DEF BookingRow
<1>3. Holds(b)
  BY <1>1 DEF Holds
<1>4. bookings[b].status \in Firm /\ bookings'[b].status \in Firm
  BY <1>1, <1>2 DEF Firm
<1> QED
  BY <1>1, <1>2, <1>3, <1>4, EntryLeaves

LEMMA CancelGivesUp ==
  ASSUME BookingInv, BookingInv', NEW b \in Bookings, NEW byVendor \in BOOLEAN, Cancel(b, byVendor)
  PROVE  Leaves \/ GivesUp(b)
<1>1. /\ bookings \in [Bookings -> BookingRow] /\ bookings[b] \in BookingRow
      /\ bookings[b].status \in {"pending", "accepted", "confirmed"}
      /\ now' = now /\ overbooked' = overbooked
  BY DEF BookingInv, TypeOK, Cancel, Change
<1>2. /\ bookings'[b].status = "cancelled"
      /\ \A c \in Bookings \ {b} : bookings'[c] = bookings[c]
  BY <1>1 DEF Cancel, Change, UpdateRow, BookingRow
<1>3. ~Holds(b)' /\ bookings'[b].status \notin Firm
  BY <1>2 DEF Holds, Firm
<1>4. CASE bookings[b].status = "confirmed"
  <2>1. bookings[b].status \in Firm
    BY <1>4 DEF Firm
  <2>2. /\ slotBar' = [slotBar EXCEPT ![b] = slotBar'[b]] /\ slotBar \in [Bookings -> Nat]
        /\ slotBar'[b] = 0
        /\ b \in firmBar <=> b \notin overbooked
        /\ firmBar' = firmBar \ {b}
    BY <1>1, <1>2, <1>3, <2>1, OneEntry DEF Listed
  <2>3. CASE b \in overbooked
    <3>1. slotBar[b] = 0
      BY <2>3, Bars DEF Listed
    <3> QED
      BY <2>2, <2>3, <3>1 DEF Leaves
  <2>4. CASE b \notin overbooked
    BY <2>2, <2>4 DEF GivesUp
  <2> QED
    BY <2>3, <2>4
<1>5. CASE bookings[b].status # "confirmed"
  <2>1. bookings[b].status \notin Firm
    BY <1>1, <1>5 DEF Firm
  <2> QED
    BY <1>1, <1>2, <1>3, <2>1, EntryLeaves
<1> QED
  BY <1>4, <1>5

LEMMA ProposalTakes ==
  ASSUME BookingInv, BookingInv', NEW b \in Bookings,
         (\E s \in Starts : Propose(b, s)) \/ AcceptProposal(b) \/ RejectProposal(b)
  PROVE  Leaves \/ \E s \in Nat : Takes(b, s) \/ Returns(b, s)
<1>1. /\ bookings \in [Bookings -> BookingRow] /\ bookings[b] \in BookingRow
      /\ bookings[b].status = "confirmed" /\ now' = now /\ now \in Nat
      /\ bookings[b].proposed \in Nat
  BY Types DEF BookingInv, TypeOK, Propose, AcceptProposal, RejectProposal, AwaitsResponse
<1>2. Holds(b) /\ bookings[b].status \in Firm
  BY <1>1 DEF Holds, Firm
<1>3. CASE (\E s \in Starts : Propose(b, s)) \/ RejectProposal(b)
  <2>1. PICK s \in Nat : /\ overbooked' = overbooked
                          /\ bookings' = [bookings EXCEPT ![b] = [bookings[b] EXCEPT !.proposed = s]]
    BY <1>3, ConstantsAssumption DEF Propose, RejectProposal, UpdateRow
  <2>2. /\ bookings'[b].status = "confirmed" /\ bookings'[b].start = bookings[b].start
        /\ \A c \in Bookings \ {b} : bookings'[c] = bookings[c]
    BY <1>1, <2>1 DEF BookingRow
  <2>3. bookings'[b].status \in Firm
    BY <2>2 DEF Firm
  <2> QED
    BY <1>1, <1>2, <2>1, <2>2, <2>3, EntryLeaves
<1>4. CASE AcceptProposal(b)
  <2> DEFINE s == bookings[b].proposed
             row == [bookings[b] EXCEPT !.start = s, !.proposed = 0]
  <2>1. /\ HasRoom(s, b) /\ s > now /\ s \in Nat /\ s # 0
        /\ bookings' = [bookings EXCEPT ![b] = row] /\ overbooked' = overbooked \ {b}
    BY <1>1, <1>4 DEF AcceptProposal, AwaitsResponse, UpdateRow
  <2>2. row.status = "confirmed" /\ row.start = s
    BY <1>1 DEF BookingRow
  <2> HIDE DEF row, s
  <2>3. bookings'[b] = row /\ \A c \in Bookings \ {b} : bookings'[c] = bookings[c]
    BY <1>1, <2>1
  <2>4. bookings'[b].status \in Firm
    BY <2>2, <2>3 DEF Firm
  <2>5. Listed(b)'
    BY <2>1, <2>4 DEF Listed, Holds, Firm
  <2>6. slotBar' = [slotBar EXCEPT ![b] = s] /\ firmBar' = firmBar \cup {b}
    BY <1>1, <2>1, <2>2, <2>3, <2>4, <2>5, OneEntry
  <2>7. CASE b \in firmBar
    <3>1. firmBar' = firmBar
      BY <2>6, <2>7
    <3> QED
      BY <2>1, <2>6, <2>7, <3>1 DEF Takes
  <2>8. CASE b \notin firmBar
    <3>1. slotBar[b] = 0
      BY <1>2, <2>8, Bars DEF Listed
    <3> QED
      BY <2>1, <2>6, <2>8, <3>1 DEF Returns
  <2> QED
    BY <2>7, <2>8
<1> QED
  BY <1>3, <1>4

LEMMA SettleGetsPaid ==
  ASSUME BookingInv, BookingInv', NEW b \in Bookings, NEW webhook \in BOOLEAN, Settle(b, webhook)
  PROVE  Leaves \/ GetsPaid(b)
<1>1. /\ bookings \in [Bookings -> BookingRow] /\ now' = now /\ overbooked' = overbooked
      /\ RowGood(bookings[b], deciding[b], payments[b], provider[b], now)
  BY DEF BookingInv, TypeOK, RowsGood, Settle
<1>2. CASE Settled(b)
  BY <1>1, <1>2, SameRowsLeave DEF Settle
<1>3. CASE ~Settled(b)
  <2>1. bookings' = [bookings EXCEPT ![b] = ChargedRow(b)]
    BY <1>3 DEF Settle, UpdateRow
  <2>2. /\ bookings'[b] = ChargedRow(b)
        /\ \A c \in Bookings \ {b} : bookings'[c] = bookings[c]
    BY <1>1, <2>1
  <2>3. bookings[b].status \notin Firm
    BY <1>1, <1>3 DEF Settled, RowGood, Firm
  <2>4. CASE Payable(b)
    <3>1. Holds(b)
      BY <2>4 DEF Payable, Holds
    <3>2. bookings'[b].status = "confirmed" /\ bookings'[b].start = bookings[b].start
      BY <2>2, <2>4, ChargedRowIs
    <3>3. bookings'[b].status \in Firm /\ Holds(b)'
      BY <3>2 DEF Firm, Holds
    <3>4. /\ slotBar' = [slotBar EXCEPT ![b] = slotBar'[b]] /\ slotBar \in [Bookings -> Nat]
          /\ slotBar'[b] = IF Listed(b)' THEN bookings[b].start ELSE 0
          /\ b \in firmBar' <=> b \notin overbooked
          /\ firmBar \subseteq firmBar' /\ firmBar' \subseteq firmBar \cup {b}
          /\ b \notin firmBar
      BY <1>1, <2>2, <2>3, <3>2, <3>3, OneEntry
    <3>5. /\ Listed(b)' <=> Listed(b)
          /\ slotBar[b] = IF Listed(b) THEN bookings[b].start ELSE 0
          /\ Listed(b) <=> b \notin overbooked
          /\ Listed(b) => slotBar[b] # 0
      BY <1>1, <3>1, <3>3, Bars DEF Listed
    <3>6. slotBar' = slotBar
      BY <3>4, <3>5
    <3>7. CASE b \in overbooked
      <4>1. firmBar' = firmBar
        BY <3>4, <3>7
      <4> QED
        BY <3>6, <4>1 DEF Leaves
    <3>8. CASE b \notin overbooked
      BY <3>4, <3>5, <3>6, <3>8 DEF GetsPaid
    <3> QED
      BY <3>7, <3>8
  <2>5. CASE ~Payable(b)
    <3>1. bookings'[b].status = "payment_review"
      BY <2>2, <2>5, ChargedRowIs
    <3>2. bookings'[b].status \notin Firm /\ ~Holds(b)'
      BY <3>1 DEF Firm, Holds
    <3> QED
      BY <1>1, <2>2, <2>3, <3>2, EntryLeaves
  <2> QED
    BY <2>4, <2>5
<1> QED
  BY <1>2, <1>3

\* Every step is a step of the calendar.
LEMMA CalendarSteps ==
  ASSUME BookingInv, BookingInv', [Next]_vars
  PROVE  CalendarStep
<1> USE DEF CalendarStep
<1>1. CASE Tick \/ ExpireBookings
  BY <1>1, TimeLeaves
<1>2. CASE RequestStep
  <2>1. PICK b \in Bookings, u \in Users, k \in Keys, s \in Starts : Create(b, u, k, s)
    BY <1>2 DEF RequestStep
  <2>2. (Leaves \/ Takes(b, s)) /\ s \in Nat
    BY <2>1, CreateTakes, ConstantsAssumption
  <2> QED
    BY <2>2
<1>3. CASE VendorStep
  <2>1. PICK b \in Bookings :
          \/ BeginDecide(b) \/ Accept(b) \/ Decline(b) \/ AbortDecision(b)
          \/ StartSession(b) \/ CompleteSession(b)
          \/ \E s \in Starts : Propose(b, s)
    BY <1>3 DEF VendorStep
  <2>2. CASE BeginDecide(b) \/ AbortDecision(b)
    BY <2>2, SameRowsLeave DEF BeginDecide, AbortDecision
  <2> QED
    BY <2>1, <2>2, DecisionTakes, SessionLeaves, ProposalTakes
<1>4. CASE CustomerStep
  BY <1>4, ProposalTakes DEF CustomerStep
<1>5. CASE CancelStep
  BY <1>5, CancelGivesUp DEF CancelStep
<1>6. CASE PaymentStep
  <2>1. CASE \/ \E r \in Requests, c \in Bookings : InitiatePayment(r, c)
             \/ \E r \in Requests : ProviderAccepts(r) \/ InitSucceeds(r) \/ InitFails(r) \/ RequestDies(r)
             \/ \E c \in Bookings : LeaseLapses(c) \/ CustomerPays(c)
    <3>1. UNCHANGED <<now, bookings, overbooked>>
      BY <2>1 DEF InitiatePayment, ProviderAccepts, InitSucceeds, InitFails, RequestDies,
                  LeaseLapses, CustomerPays
    <3> QED
      BY <3>1, SameRowsLeave
  <2>2. ASSUME NEW b \in Bookings, SettleByWebhook(b) \/ VerifyPayment(b)
        PROVE  CalendarStep
    BY <2>2, SettleGetsPaid DEF SettleByWebhook, VerifyPayment
  <2>3. ASSUME NEW r \in Requests, RecoverByVerify(r)
        PROVE  CalendarStep
    <3>1. requests[r].booking \in Bookings
      BY <2>3, Types DEF RecoverByVerify, Idle, BookingInv
    <3>2. CASE Settle(requests[r].booking, FALSE)
      BY <3>1, <3>2, SettleGetsPaid
    <3>3. CASE UNCHANGED <<now, bookings, deciding, payments, events, provider, overbooked>>
      BY <3>3, SameRowsLeave
    <3> QED
      BY <2>3, <3>2, <3>3 DEF RecoverByVerify
  <2> QED
    BY <1>6, <2>1, <2>2, <2>3 DEF PaymentStep
<1>7. CASE UNCHANGED vars
  BY <1>7, SameRowsLeave DEF vars
<1> QED
  BY <1>1, <1>2, <1>3, <1>4, <1>5, <1>6, <1>7 DEF Next

-----------------------------------------------------------------------------
(* Capacity                                                                *)

OccupiedIn(slot, t) == {b \in Bookings : slot[b] # 0 /\ t \in Session(slot[b])}

CapacityKept == \A t \in Nat : Cardinality(OccupiedIn(slotBar, t)) <= Capacity

LEMMA OccupyingBar ==
  ASSUME BookingInv, NEW t
  PROVE  /\ OccupiedIn(slotBar, t) = Occupying(t) \ overbooked
         /\ IsFiniteSet(OccupiedIn(slotBar, t)) /\ IsFiniteSet(Occupying(t))
<1>1. OccupiedIn(slotBar, t) = Occupying(t) \ overbooked
  <2>1. ASSUME NEW b \in Bookings
        PROVE  slotBar[b] # 0 /\ t \in Session(slotBar[b]) <=>
                 Holds(b) /\ t \in Session(bookings[b].start) /\ b \notin overbooked
    BY <2>1, Bars DEF Listed
  <2> QED
    BY <2>1 DEF Occupying, OccupiedIn
<1>2. Occupying(t) \in SUBSET Bookings /\ OccupiedIn(slotBar, t) \in SUBSET Bookings
  BY DEF OccupiedIn, Occupying
<1> QED
  BY <1>1, <1>2, FS_Subset, ConstantsAssumption

\* Where there is room for b, fewer than Capacity others are in the calendar.
LEMMA RoomInCalendar ==
  ASSUME BookingInv, NEW s, NEW b \in Bookings, HasRoom(s, b), NEW t \in Session(s)
  PROVE  Cardinality(OccupiedIn(slotBar, t) \ {b}) < Capacity
<1>1. /\ OccupiedIn(slotBar, t) \ {b} \subseteq Occupying(t) \ {b}
      /\ IsFiniteSet(Occupying(t))
  BY OccupyingBar
<1>2. Cardinality(Occupying(t) \ {b}) < Capacity
  BY DEF HasRoom
<1>3. IsFiniteSet(Occupying(t) \ {b})
  BY <1>1, FS_RemoveElement
<1>4. /\ IsFiniteSet(OccupiedIn(slotBar, t) \ {b})
      /\ Cardinality(OccupiedIn(slotBar, t) \ {b}) <= Cardinality(Occupying(t) \ {b})
  BY <1>1, <1>3, FS_Subset
<1>5. /\ Cardinality(OccupiedIn(slotBar, t) \ {b}) \in Nat
      /\ Cardinality(Occupying(t) \ {b}) \in Nat
  BY <1>3, <1>4, FS_CardinalityType
<1> QED
  BY <1>2, <1>4, <1>5, ConstantsAssumption

LEMMA CapacityInit ==
  ASSUME Init
  PROVE  CapacityKept
<1>1. \A t \in Nat : OccupiedIn(slotBar, t) = {}
  <2>1. \A b \in Bookings : ~Holds(b)
    BY DEF Init, Holds, NoBooking
  <2>2. \A b \in Bookings : slotBar[b] = 0
    BY <2>1 DEF slotBar, Holds
  <2> QED
    BY <2>2 DEF OccupiedIn
<1> QED
  BY <1>1, FS_EmptySet, ConstantsAssumption DEF CapacityKept

\* A slot is taken only while fewer than Capacity others hold it.
LEMMA CapacityStep ==
  ASSUME BookingInv, CapacityKept, CalendarStep
  PROVE  CapacityKept'
<1>1. ASSUME NEW t \in Nat
      PROVE  Cardinality(OccupiedIn(slotBar', t)) <= Capacity
  <2> DEFINE old == OccupiedIn(slotBar, t)
             new == OccupiedIn(slotBar', t)
  <2>1. /\ IsFiniteSet(old) /\ Cardinality(old) <= Capacity
        /\ slotBar \in [Bookings -> Nat]
    BY OccupyingBar, Bars DEF CapacityKept
  <2>2. ASSUME new \subseteq old
        PROVE  Cardinality(new) <= Capacity
    <3>1. IsFiniteSet(new) /\ Cardinality(new) <= Cardinality(old)
      BY <2>1, <2>2, FS_Subset
    <3>2. Cardinality(new) \in Nat /\ Cardinality(old) \in Nat
      BY <2>1, <3>1, FS_CardinalityType
    <3> QED
      BY <2>1, <3>1, <3>2, ConstantsAssumption
  <2>3. CASE Leaves
    <3>1. new \subseteq old
      BY <2>3 DEF Leaves, OccupiedIn
    <3> QED
      BY <2>2, <3>1
  <2>4. ASSUME NEW b \in Bookings, GivesUp(b) \/ GetsPaid(b)
        PROVE  Cardinality(new) <= Capacity
    <3>1. new \subseteq old
      BY <2>1, <2>4 DEF GivesUp, GetsPaid, OccupiedIn
    <3> QED
      BY <2>2, <3>1
  <2>5. ASSUME NEW b \in Bookings, NEW s \in Nat, Takes(b, s) \/ Returns(b, s)
        PROVE  Cardinality(new) <= Capacity
    <3>1. slotBar' = [slotBar EXCEPT ![b] = s] /\ HasRoom(s, b)
      BY <2>5 DEF Takes, Returns
    <3>2. CASE t \in Session(s)
      <4>1. Cardinality(old \ {b}) < Capacity
        BY <3>1, <3>2, RoomInCalendar
      <4>2. new \subseteq (old \ {b}) \cup {b}
        BY <2>1, <3>1 DEF OccupiedIn
      <4>3. IsFiniteSet(old \ {b}) /\ b \notin old \ {b}
        BY <2>1, FS_RemoveElement
      <4>4. /\ IsFiniteSet((old \ {b}) \cup {b})
            /\ Cardinality((old \ {b}) \cup {b}) = Cardinality(old \ {b}) + 1
        BY <4>3, FS_AddElement
      <4>5. IsFiniteSet(new) /\ Cardinality(new) <= Cardinality((old \ {b}) \cup {b})
        BY <4>2, <4>4, FS_Subset
      <4>6. Cardinality(new) \in Nat /\ Cardinality(old \ {b}) \in Nat
        BY <4>3, <4>5, FS_CardinalityType
      <4> QED
        BY <4>1, <4>4, <4>5, <4>6, ConstantsAssumption
    <3>3. CASE t \notin Session(s)
      <4>1. new \subseteq old
        BY <2>1, <3>1, <3>3 DEF OccupiedIn
      <4> QED
        BY <2>2, <4>1
    <3> QED
      BY <3>2, <3>3
  <2> QED
    BY <2>3, <2>4, <2>5 DEF CalendarStep
<1> QED
  BY <1>1 DEF CapacityKept, OccupiedIn, Session

\* The calendar within its capacity: SlotsWithinCapacity.
LEMMA CapacityOfBookings ==
  ASSUME BookingInv, CapacityKept
  PROVE  SlotsWithinCapacity
<1>1. ASSUME NEW b \in Bookings, NEW t \in Session(bookings[b].start)
      PROVE  Cardinality(Occupying(t) \ overbooked) <= Capacity
  <2>1. t \in Nat
    BY <1>1, Types, ConstantsAssumption DEF Session, BookingInv
  <2> QED
    BY <2>1, OccupyingBar DEF CapacityKept
<1> QED
  BY <1>1 DEF SlotsWithinCapacity

\* No deadline outlives its session, and no request, however often it is repeated, is
\* booked twice.
THEOREM DeadlinesAndKeysKept == Spec => [](OnTime /\ OneBookingPerKey)
<1>1. ASSUME BookingInv
      PROVE  OnTime
  <2>1. \A b \in Bookings : /\ bookings[b].expires \in Nat /\ bookings[b].start \in Nat
                            /\ RowGood(bookings[b], deciding[b], payments[b], provider[b], now)
                            /\ deciding[b] \in Nat
    BY <1>1, Types DEF BookingInv, RowsGood
  <2>2. ASSUME NEW b \in Bookings
        PROVE  /\ bookings[b].status \in {"pending", "accepted"} =>
                    bookings[b].expires \in 1 .. bookings[b].start
               /\ deciding[b] <= bookings[b].start
    BY <2>1 DEF RowGood
  <2>3. ASSUME NEW b \in Bookings
        PROVE  /\ bookings[b].status = "active" => bookings[b].start <= now
               /\ bookings[b].status = "completed" => bookings[b].start + Duration <= now
               /\ bookings[b].proposed # 0 =>
                    bookings[b].status = "confirmed" /\ bookings[b].proposed # bookings[b].start
    BY <2>1 DEF RowGood
  <2> QED
    BY <2>2, <2>3 DEF OnTime
<1> QED
  BY <1>1, Invariant, PTL DEF BookingInv

\* However long the vendors' decisions take, no deadline outlives its session, no
\* request is booked twice, and the slots hold no more than max_bookings_per_slot
\* sessions beside those that decide() accepted after their reservation had lapsed
\* and their slot was sold (it holds the booking's lock only, booking.model.js:
\* requests, proposals, payments and deadlines never add another).
THEOREM BookingsAlwaysSound == Spec => []BookingsSound
<1>1. Init => CapacityKept
  BY CapacityInit
<1>2. BookingInv /\ BookingInv' /\ CapacityKept /\ [Next]_vars => CapacityKept'
  BY CalendarSteps, CapacityStep
<1>3. BookingInv /\ CapacityKept => TypeOK /\ SlotsWithinCapacity
  BY CapacityOfBookings DEF BookingInv
<1> QED
  BY <1>1, <1>2, <1>3, Invariant, DeadlinesAndKeysKept, PTL DEF Spec, BookingsSound

-----------------------------------------------------------------------------
(* Booking implements ServiceCalendar                                      *)

\* The room that ServiceCalendar asks for is the room HasRoom finds.  (The
\* instance counts with a Cardinality of its own.)
LEMMA RoomIs ==
  ASSUME BookingInv, NEW s \in Nat, NEW b \in Bookings, HasRoom(s, b)
  PROVE  Calendar!Room(s, {b})
<1>1. \A n \in Nat : Calendar!At(n) = Session(n)
  BY ConstantsAssumption DEF Calendar!At, Session
<1>2. ASSUME NEW t
      PROVE  Calendar!Occupying(t) = OccupiedIn(slotBar, t)
  <2>1. \A c \in Bookings : Calendar!At(slotBar[c]) = Session(slotBar[c])
    BY <1>1, Bars
  <2> QED
    BY <2>1 DEF Calendar!Occupying, OccupiedIn
<1>3. ASSUME NEW t \in Calendar!At(s)
      PROVE  Cardinality(Calendar!Occupying(t) \ {b}) < Capacity
  BY <1>1, <1>2, <1>3, RoomInCalendar
<1> QED
  BY <1>3 DEF Calendar!Room, Calendar!Cardinality, Cardinality

LEMMA StepIsCalendars ==
  ASSUME BookingInv, BookingInv', CalendarStep
  PROVE  Calendar!CalendarNext
<1>1. /\ slotBar \in [Bookings -> Nat] /\ firmBar \subseteq Bookings
      /\ \A b \in firmBar : slotBar[b] # 0
  BY Bars
<1>2. CASE Leaves
  <2> DEFINE left == {b \in Bookings : slotBar'[b] = 0 /\ b \notin firmBar}
  <2>1. /\ firmBar' = firmBar
        /\ \A c \in Bookings : slotBar'[c] \in {0, slotBar[c]}
    BY <1>2 DEF Leaves
  <2>2. /\ slotBar' = [b \in Bookings |-> slotBar'[b]]
        /\ \A b \in firmBar' : slotBar'[b] # 0
    <3>1. \A b \in Bookings : bookings'[b].status \in Firm => bookings'[b].start # 0
      BY DEF BookingInv, RowsGood, RowGood, Firm
    <3>2. \A b \in firmBar' : bookings'[b].status \in Firm /\ b \in Bookings \ overbooked'
      BY DEF firmBar, Firm
    <3> QED
      BY <3>1, <3>2 DEF slotBar, Holds, Firm
  <2>3. slotBar' = [b \in Bookings |-> IF b \in left THEN 0 ELSE slotBar[b]]
    BY <1>1, <2>1, <2>2
  <2>4. left \in SUBSET Bookings /\ left \cap firmBar = {}
    OBVIOUS
  <2> HIDE DEF left
  <2>5. Calendar!Free(left)
    BY <2>1, <2>3, <2>4 DEF Calendar!Free
  <2> QED
    BY <2>4, <2>5 DEF Calendar!CalendarNext
<1>3. ASSUME NEW b \in Bookings, GivesUp(b)
      PROVE  Calendar!CalendarNext
  BY <1>3 DEF GivesUp, Calendar!Cancel, Calendar!CalendarNext
<1>4. ASSUME NEW b \in Bookings, GetsPaid(b)
      PROVE  Calendar!CalendarNext
  BY <1>4 DEF GetsPaid, Calendar!Pay, Calendar!CalendarNext
<1>5. ASSUME NEW b \in Bookings, NEW s \in Nat, Takes(b, s)
      PROVE  Calendar!CalendarNext
  <2>1. /\ HasRoom(s, b) /\ (slotBar[b] = 0 \/ b \in firmBar) /\ firmBar' = firmBar
        /\ slotBar' = [slotBar EXCEPT ![b] = s]
    BY <1>5 DEF Takes
  <2>2. slotBar'[b] = s
    BY <1>1, <2>1
  <2>3. Calendar!Room(s, {b})
    BY <2>1, RoomIs
  <2>4. Calendar!Take(b, slotBar'[b]) \/ Calendar!Shift(b, slotBar'[b])
    BY <2>1, <2>2, <2>3 DEF Calendar!Take, Calendar!Shift
  <2> QED
    BY <2>4 DEF Calendar!CalendarNext
<1>6. ASSUME NEW b \in Bookings, NEW s \in Nat, Returns(b, s)
      PROVE  Calendar!CalendarNext
  <2>1. /\ HasRoom(s, b) /\ slotBar[b] = 0 /\ b \notin firmBar
        /\ firmBar' = firmBar \cup {b} /\ slotBar' = [slotBar EXCEPT ![b] = s]
    BY <1>6 DEF Returns
  <2>2. slotBar'[b] = s
    BY <1>1, <2>1
  <2>3. Calendar!Room(s, {b})
    BY <2>1, RoomIs
  <2>4. Calendar!Readmit(b, slotBar'[b])
    BY <2>1, <2>2, <2>3 DEF Calendar!Readmit
  <2> QED
    BY <2>4 DEF Calendar!CalendarNext
<1> QED
  BY <1>2, <1>3, <1>4, <1>5, <1>6 DEF CalendarStep

LEMMA CalendarInitially ==
  ASSUME Init
  PROVE  Calendar!CalendarInit
<1>1. \A b \in Bookings : bookings[b].status = "absent"
  BY DEF Init, NoBooking
<1>2. slotBar = [b \in Bookings |-> 0] /\ firmBar = {}
  BY <1>1 DEF slotBar, firmBar, Holds
<1> QED
  BY <1>2 DEF Calendar!CalendarInit

\* Requests, decisions, payments, rescheduling and expiry together keep the promise
\* of the service's calendar: every step of the system is one of its steps.
THEOREM BookingImplementsCalendar == Spec => KeepsCalendar
<1>1. Init => Calendar!CalendarInit
  BY CalendarInitially
<1>2. BookingInv /\ BookingInv' /\ [Next]_vars => [Calendar!CalendarNext]_(Calendar!calendar)
  BY CalendarSteps, StepIsCalendars
<1> QED
  BY <1>1, <1>2, Invariant, PTL DEF Spec, KeepsCalendar, Calendar!CalendarSpec
===============================================================================
