--------------------------- MODULE ServiceCalendar ---------------------------
(***************************************************************************)
(* What the booking system promises about one service's calendar, without  *)
(* requests, decisions, deadlines or payments: at most Capacity sessions   *)
(* overlap; a slot is taken only while there is room for it; a customer    *)
(* who has paid keeps a slot until the booking is cancelled, and moves to  *)
(* another one only when there is room (docs/bookings.md, "Capacity").     *)
(***************************************************************************)
EXTENDS Integers, FiniteSets

CONSTANTS Bookings, Capacity, Length   \* Length of a session with its buffer

VARIABLES
  slot,  \* start of the session a booking holds; 0 for none
  firm   \* bookings that are paid for

calendar == <<slot, firm>>

At(s) == s..(s + Length - 1)

Occupying(t) == {b \in Bookings : slot[b] # 0 /\ t \in At(slot[b])}

\* Is there room at s, the sessions of the bookings in "leaving" aside?
Room(s, leaving) == \A t \in At(s) : Cardinality(Occupying(t) \ leaving) < Capacity

CalendarInit ==
  /\ slot = [b \in Bookings |-> 0]
  /\ firm = {}

Take(b, s) ==
  /\ slot[b] = 0
  /\ Room(s, {b})
  /\ slot' = [slot EXCEPT ![b] = s]
  /\ UNCHANGED firm

\* Deadlines pass for several unpaid bookings at once.
Free(B) ==
  /\ B \cap firm = {}
  /\ slot' = [b \in Bookings |-> IF b \in B THEN 0 ELSE slot[b]]
  /\ UNCHANGED firm

Pay(b) ==
  /\ slot[b] # 0
  /\ firm' = firm \cup {b}
  /\ UNCHANGED slot

Shift(b, s) ==
  /\ b \in firm
  /\ Room(s, {b})
  /\ slot' = [slot EXCEPT ![b] = s]
  /\ UNCHANGED firm

\* A paid booking that has no slot, as there was no room for it, gets one.
Readmit(b, s) ==
  /\ slot[b] = 0 /\ b \notin firm
  /\ Room(s, {b})
  /\ slot' = [slot EXCEPT ![b] = s]
  /\ firm' = firm \cup {b}

Cancel(b) ==
  /\ b \in firm
  /\ firm' = firm \ {b}
  /\ slot' = [slot EXCEPT ![b] = 0]

CalendarNext ==
  \/ \E B \in SUBSET Bookings : Free(B)
  \/ \E b \in Bookings :
       \/ Pay(b)
       \/ Cancel(b)
       \/ Take(b, slot'[b])
       \/ Shift(b, slot'[b])
       \/ Readmit(b, slot'[b])

CalendarSpec == CalendarInit /\ [][CalendarNext]_calendar
=============================================================================
