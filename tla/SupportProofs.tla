---------------------------- MODULE SupportProofs ----------------------------
(***************************************************************************)
(* Proofs about Support, for any number of tickets, staff, readers and     *)
(* requests in progress: no message is committed behind a cursor           *)
(* (CursorComplete), transfers, loads and attachments agree with tickets   *)
(* and messages (TicketsAgree), and an agent answers in a ticket only as   *)
(* long as it has it (AnswersByAssignee).                                  *)
(***************************************************************************)
EXTENDS Support, FiniteSetTheorems, WellFoundedInduction, TLAPS

-----------------------------------------------------------------------------
(* The inductive invariant                                                 *)

Busy(r) == requests[r] # NoRequest
Creating(r) == Busy(r) /\ requests[r].message.creates

RequestsTyped == requests \in [Requests -> Request \cup {NoRequest}]

\* A ticket is created by one request, and every other one is about a ticket that
\* exists.
TicketsClaimed ==
  /\ \A r \in Requests : Busy(r) =>
       /\ requests[r].message.creates <=> ~Exists(requests[r].message.ticket)
       /\ requests[r].message.creates => requests[r].message.author \in Owners
  /\ \A r, s \in Requests : Creating(r) /\ Creating(s) /\
       requests[r].message.ticket = requests[s].message.ticket => r = s
  /\ \A i \in Committed : i <= lastId /\ Exists(messages[i].ticket)

\* The locks: one creation writes, and one reply in each ticket, as its assignee.
LocksHeld ==
  /\ \A r, s \in Requests : Writing(r) /\ Writing(s) /\ Creating(r) /\ Creating(s) => r = s
  /\ \A r, s \in Requests :
       Writing(r) /\ Writing(s) /\ ~Creating(r) /\ ~Creating(s) /\
       requests[r].message.ticket = requests[s].message.ticket => r = s
  /\ \A r \in Requests : Writing(r) /\ ~Creating(r) =>
       MayReply(requests[r].message.author, requests[r].message.ticket)

\* The id that a transaction has drawn is behind every id of its ticket that is
\* committed, so behind every cursor.
IdsInOrder ==
  /\ \A r \in Requests : Writing(r) =>
       /\ requests[r].id \in Ids /\ requests[r].id <= lastId
       /\ requests[r].id \notin Committed
       /\ \A i \in Committed :
            messages[i].ticket = requests[r].message.ticket => i < requests[r].id
  /\ \A r, s \in Requests : Writing(r) /\ Writing(s) /\ requests[r].id = requests[s].id => r = s
  /\ \A x \in Readers, t \in Polled :
       cursor[x][t] # 0 => cursor[x][t] \in Committed /\ messages[cursor[x][t]].ticket = t

\* Every stored attachment belongs to a message, to one request, or was leaked.
AttachmentsOwned ==
  /\ objects \subseteq 1..uploads
  /\ \A i \in Committed : messages[i].attachment # None => messages[i].attachment \in objects
  /\ \A r \in Requests : Busy(r) /\ requests[r].message.attachment # None =>
       /\ requests[r].message.attachment \in objects
       /\ \A i \in Committed : messages[i].attachment # requests[r].message.attachment
  /\ \A r, s \in Requests : Busy(r) /\ Busy(s) /\ requests[r].message.attachment # None /\
       requests[r].message.attachment = requests[s].message.attachment => r = s
  /\ \A k \in objects :
       \/ k \in leaked
       \/ \E i \in Committed : messages[i].attachment = k
       \/ \E r \in Requests : Busy(r) /\ requests[r].message.attachment = k

\* As long as no one interferes, a creation assigns to a least loaded agent.
CreationsAssign ==
  changes = 0 =>
    /\ eligible = Staff
    /\ \A t \in Tickets : tickets[t].status \in Unresolved
    /\ \A r \in Requests : Writing(r) /\ Creating(r) =>
         IF Assignable = {} THEN requests[r].assignee = None
         ELSE /\ requests[r].assignee \in Assignable
              /\ \A b \in Assignable : Load(requests[r].assignee) <= Load(b)

SupportInv ==
  /\ TypeOK /\ RequestsTyped /\ TicketsClaimed /\ LocksHeld /\ IdsInOrder
  /\ AttachmentsOwned /\ CursorComplete /\ TransferIsCurrent
  /\ CreationsAssign /\ LoadsBalanced

-----------------------------------------------------------------------------
(* Numbers, loads and types                                                *)

\* A set of natural numbers that is not empty has a least element.
LEMMA Least ==
  ASSUME NEW T \in SUBSET Nat, T # {}
  PROVE  \E n \in T : \A m \in T : n <= m
<1>1. IsWellFoundedOn(OpToRel(<, Nat), Nat)
  BY NatLessThanWellFounded
<1>2. PICK n \in T : \A m \in T : ~ (<<m, n>> \in OpToRel(<, Nat))
  BY <1>1, WFMin
<1>3. \A m \in T : m \in Nat
  OBVIOUS
<1>4. \A m \in T : ~(m < n)
  BY <1>2, <1>3 DEF OpToRel
<1>5. \A m \in T : n <= m
  BY <1>3, <1>4
<1> QED
  BY <1>5

\* A page has a last message.
LEMMA MaxIn ==
  ASSUME NEW S \in SUBSET Ids, S # {}
  PROVE  Max(S) \in S /\ \A i \in S : i <= Max(S)
<1> DEFINE T == {MaxMessage - i : i \in S}
<1>1. \A i \in S : i \in 1 .. MaxMessage
  BY DEF Ids
<1>2. T \in SUBSET Nat /\ T # {}
  BY <1>1, ConstantsAssumption
<1> HIDE DEF T
<1>3. PICK n \in T : \A m \in T : n <= m
  BY <1>2, Least
<1>4. PICK k \in S : n = MaxMessage - k
  BY <1>3 DEF T
<1>5. \A i \in S : MaxMessage - k <= MaxMessage - i
  BY <1>3, <1>4 DEF T
<1>6. \A i \in S : k >= i
  BY <1>1, <1>4, <1>5, ConstantsAssumption
<1>7. Max(S) \in S /\ \A i \in S : Max(S) >= i
  BY <1>4, <1>6 DEF Max
<1> QED
  BY <1>1, <1>7

Held(a) == {t \in Tickets : Exists(t) /\ tickets[t].assigned = a /\ tickets[t].status \in Unresolved}

\* The load of an agent under any state of the tickets.
LoadIn(rows, a) == Cardinality({t \in Tickets :
  rows[t].owner # None /\ rows[t].assigned = a /\ rows[t].status \in Unresolved})

LEMMA LoadInTickets ==
  ASSUME NEW a
  PROVE  Load(a) = LoadIn(tickets, a) /\ Load(a)' = LoadIn(tickets', a)
BY DEF Load, LoadIn, Exists

LEMMA LoadIsCardinality ==
  ASSUME NEW a
  PROVE  /\ IsFiniteSet(Tickets) /\ IsFiniteSet(Held(a))
         /\ Load(a) = Cardinality(Held(a)) /\ Load(a) \in Nat
<1>1. IsFiniteSet(Tickets)
  BY ConstantsAssumption, FS_Interval DEF Tickets
<1>2. Held(a) \in SUBSET Tickets
  BY DEF Held
<1>3. IsFiniteSet(Held(a))
  BY <1>1, <1>2, FS_Subset
<1>4. Load(a) = Cardinality(Held(a))
  BY DEF Load, Held
<1> QED
  BY <1>1, <1>3, <1>4, FS_CardinalityType

\* leastLoadedStaffQuery returns an agent with the least load, if there is one.
LEMMA LeastLoadedIn ==
  ASSUME Assignable # {}
  PROVE  /\ LeastLoaded \in Assignable
         /\ \A b \in Assignable : Load(LeastLoaded) <= Load(b)
<1> DEFINE T == {Load(b) : b \in Assignable}
<1>1. T \in SUBSET Nat /\ T # {}
  BY LoadIsCardinality
<1> HIDE DEF T
<1>2. PICK n \in T : \A m \in T : n <= m
  BY <1>1, Least
<1>3. \E a \in Assignable : \A b \in Assignable : Load(a) <= Load(b)
  BY <1>2 DEF T
<1> QED
  BY <1>3 DEF LeastLoaded

LEMMA Types ==
  ASSUME TypeOK, RequestsTyped
  PROVE  /\ \A r \in Requests : /\ Idle(r) <=> ~Busy(r)
                                /\ Busy(r) => requests[r] \in Request
                                /\ Busy(r) => requests[r].message \in Post
                                /\ Busy(r) => requests[r].message.ticket \in Tickets
                                /\ Writing(r) => Busy(r)
         /\ NoRequest \notin Request
         /\ lastId \in Nat /\ changes \in Nat /\ uploads \in Nat
         /\ \A i \in Committed : i \in Ids /\ i \in Nat /\ messages[i] \in Message
         /\ \A t \in Tickets : tickets[t] \in Ticket
<1>1. NoRequest \notin Request
  BY DEF NoRequest, Request
<1>2. ASSUME NEW r \in Requests
      PROVE  /\ Idle(r) <=> ~Busy(r)
             /\ Busy(r) => requests[r] \in Request
             /\ Busy(r) => requests[r].message \in Post
             /\ Busy(r) => requests[r].message.ticket \in Tickets
             /\ Writing(r) => Busy(r)
  <2>1. CASE requests[r] = NoRequest
    BY <2>1 DEF Idle, Busy, Writing, NoRequest
  <2>2. CASE requests[r] \in Request
    <3>1. /\ requests[r].step \in {"uploaded", "writing"} /\ requests[r].message \in Post
      BY <2>2 DEF Request
    <3>2. requests[r].message.ticket \in Tickets
      BY <3>1 DEF Post
    <3> QED
      BY <1>1, <2>2, <3>1, <3>2 DEF Idle, Busy
  <2> QED
    BY <2>1, <2>2 DEF RequestsTyped
<1>3. lastId \in Nat /\ changes \in Nat /\ uploads \in Nat
  BY DEF TypeOK
<1>4. \A i \in Committed : i \in Ids /\ messages[i] \in Message
  BY DEF TypeOK, Committed
<1>5. \A i \in Ids : i \in Nat
  BY DEF Ids
<1>6. \A t \in Tickets : tickets[t] \in Ticket
  BY DEF TypeOK
<1> QED
  BY <1>1, <1>2, <1>3, <1>4, <1>5, <1>6

LEMMA InitInv ==
  ASSUME Init
  PROVE  SupportInv
<1>1. /\ NoTicket \in Ticket /\ NoTicket.owner = None /\ NoTicket.status = "open"
      /\ NoTicket.pending = None /\ NoTicket.requestedBy = None /\ NoRequest.step = "idle"
  BY DEF NoTicket, Ticket, Status, NoRequest
<1>2. TypeOK
  <2>1. /\ 0 \in 0 .. MaxMessage /\ 0 \in 0 .. MaxUploads /\ 0 \in 0 .. MaxChanges
    BY ConstantsAssumption
  <2>2. \A r \in Requests : Idle(r)
    BY <1>1 DEF Init, Idle
  <2> QED
    BY <1>1, <2>1, <2>2 DEF Init, TypeOK, NoMessage
<1>3. /\ \A r \in Requests : ~Busy(r) /\ ~Writing(r)
      /\ Committed = {} /\ \A t \in Tickets : ~Exists(t) /\ tickets[t] = NoTicket
      /\ \A x \in Readers, t \in Polled : cursor[x][t] = 0
  BY <1>1 DEF Init, Busy, Writing, Committed, Exists
<1>4. RequestsTyped /\ TicketsClaimed /\ LocksHeld /\ IdsInOrder
  BY <1>3 DEF Init, RequestsTyped, TicketsClaimed, LocksHeld, IdsInOrder, Creating
<1>5. AttachmentsOwned
  BY <1>3 DEF Init, AttachmentsOwned
<1>6. CursorComplete
  BY <1>3 DEF CursorComplete, Shown
<1>7. TransferIsCurrent
  BY <1>1, <1>3 DEF TransferIsCurrent
<1>8. CreationsAssign
  BY <1>1, <1>3 DEF Init, CreationsAssign, Unresolved, Status
<1>9. LoadsBalanced
  <2>1. \A a : Held(a) = {}
    BY <1>3 DEF Held
  <2>2. \A a : Load(a) = 0
    BY <2>1, LoadIsCardinality, FS_EmptySet
  <2> QED
    BY <2>2 DEF LoadsBalanced
<1> QED
  BY <1>2, <1>4, <1>5, <1>6, <1>7, <1>8, <1>9 DEF SupportInv

-----------------------------------------------------------------------------
(* Requests that start, and transactions that write                        *)

\* A request as it is after a step that changes only it.
LEMMA RequestChanged ==
  ASSUME TypeOK, RequestsTyped, NEW r \in Requests, NEW q \in Request,
         requests' = [requests EXCEPT ![r] = q]
  PROVE  /\ RequestsTyped'
         /\ \A s \in Requests : Idle(s)' \/ requests'[s] \in Request
         /\ requests'[r] = q
         /\ \A s \in Requests : s # r => requests'[s] = requests[s]
         /\ Busy(r)'
         /\ Writing(r)' <=> q.step = "writing"
         /\ Creating(r)' <=> q.message.creates
         /\ \A s \in Requests : s # r => /\ Busy(s)' <=> Busy(s)
                                         /\ Writing(s)' <=> Writing(s)
                                         /\ Creating(s)' <=> Creating(s)
<1>1. /\ requests'[r] = q /\ \A s \in Requests : s # r => requests'[s] = requests[s]
      /\ RequestsTyped'
  BY DEF RequestsTyped
<1>2. NoRequest \notin Request
  BY Types
<1>3. \A s \in Requests : requests'[s] \in Request \cup {NoRequest}
  BY <1>1 DEF RequestsTyped
<1>4. \A s \in Requests : Idle(s)' \/ requests'[s] \in Request
  BY <1>3 DEF Idle, NoRequest
<1>5. Busy(r)' /\ (Writing(r)' <=> q.step = "writing") /\ (Creating(r)' <=> q.message.creates)
  BY <1>1, <1>2 DEF Busy, Writing, Creating
<1>6. \A s \in Requests : s # r => /\ Busy(s)' <=> Busy(s)
                                   /\ Writing(s)' <=> Writing(s)
                                   /\ Creating(s)' <=> Creating(s)
  BY <1>1 DEF Busy, Writing, Creating
<1> QED
  BY <1>1, <1>4, <1>5, <1>6

\* What Askable means for the tickets that requests are about.
LEMMA AskableClaim ==
  ASSUME SupportInv, NEW m \in Post, Askable(m)
  PROVE  /\ m.creates <=> ~Exists(m.ticket)
         /\ m.creates => m.author \in Owners
         /\ m.creates => \A s \in Requests : Busy(s) => requests[s].message.ticket # m.ticket
  BY Types DEF SupportInv, Askable, Taken, Visible, Post

\* A request whose transaction starts: uploaded before, or new.
LEMMA ReadyClaim ==
  ASSUME SupportInv, NEW r \in Requests, NEW m \in Post, Ready(r, m)
  PROVE  /\ ~Writing(r)
         /\ m.creates <=> ~Exists(m.ticket)
         /\ m.creates => m.author \in Owners
         /\ m.creates => \A s \in Requests : s # r /\ Creating(s) =>
              requests[s].message.ticket # m.ticket
         /\ m.attachment # None =>
              /\ m.attachment \in objects
              /\ \A i \in Committed : messages[i].attachment # m.attachment
              /\ \A s \in Requests : s # r /\ Busy(s) =>
                   requests[s].message.attachment # m.attachment
         /\ Busy(r) => requests[r].message = m
<1>1. TypeOK /\ RequestsTyped /\ TicketsClaimed /\ AttachmentsOwned
  BY DEF SupportInv
<1>2. CASE requests[r].step = "uploaded" /\ requests[r].message = m
  <2>1. Busy(r) /\ ~Writing(r)
    BY <1>2 DEF Busy, Writing, NoRequest
  <2>2. /\ m.creates <=> ~Exists(m.ticket)
        /\ m.creates => m.author \in Owners
    BY <1>1, <1>2, <2>1 DEF TicketsClaimed
  <2>3. m.creates => \A s \in Requests : s # r /\ Creating(s) =>
          requests[s].message.ticket # m.ticket
    BY <1>1, <1>2, <2>1 DEF TicketsClaimed, Creating
  <2>4. m.attachment # None =>
          /\ m.attachment \in objects
          /\ \A i \in Committed : messages[i].attachment # m.attachment
          /\ \A s \in Requests : s # r /\ Busy(s) =>
               requests[s].message.attachment # m.attachment
    BY <1>1, <1>2, <2>1 DEF AttachmentsOwned
  <2> QED
    BY <1>2, <2>1, <2>2, <2>3, <2>4
<1>3. CASE Free(r) /\ Askable(m) /\ m.attachment = None
  <2>1. ~Busy(r) /\ ~Writing(r)
    BY <1>1, <1>3, Types DEF Free
  <2> QED
    BY <1>3, <2>1, AskableClaim DEF Creating
<1> QED
  BY <1>2, <1>3 DEF Ready

\* A request takes a ticket that no other one has taken.
LEMMA ClaimStep ==
  ASSUME SupportInv, NEW r \in Requests, NEW q \in Request,
         requests' = [requests EXCEPT ![r] = q],
         UNCHANGED <<tickets, messages>>, lastId' \in Nat, lastId <= lastId',
         q.message.creates <=> ~Exists(q.message.ticket),
         q.message.creates => q.message.author \in Owners,
         q.message.creates => \A s \in Requests : s # r /\ Creating(s) =>
           requests[s].message.ticket # q.message.ticket
  PROVE  TicketsClaimed'
<1>1. TypeOK /\ RequestsTyped /\ TicketsClaimed
  BY DEF SupportInv
<1>2. Committed' = Committed
  BY DEF Committed
<1>3. \A s \in Requests : Busy(s)' =>
        /\ requests'[s].message.creates <=> tickets'[requests'[s].message.ticket].owner = None
        /\ requests'[s].message.creates => requests'[s].message.author \in Owners
  <2>1. /\ requests'[r].message.creates <=> tickets'[requests'[r].message.ticket].owner = None
        /\ requests'[r].message.creates => requests'[r].message.author \in Owners
    BY <1>1, RequestChanged DEF Exists
  <2>2. ASSUME NEW s \in Requests, s # r, Busy(s)'
        PROVE  /\ requests'[s].message.creates <=>
                    tickets'[requests'[s].message.ticket].owner = None
               /\ requests'[s].message.creates => requests'[s].message.author \in Owners
    <3>1. requests'[s] = requests[s] /\ Busy(s)
      BY <1>1, <2>2, RequestChanged
    <3>2. /\ requests[s].message.creates <=> ~Exists(requests[s].message.ticket)
          /\ requests[s].message.creates => requests[s].message.author \in Owners
      BY <1>1, <3>1 DEF TicketsClaimed
    <3> QED
      BY <3>1, <3>2 DEF Exists
  <2> QED
    BY <2>1, <2>2
<1>4. \A s, t \in Requests : Creating(s)' /\ Creating(t)' /\
        requests'[s].message.ticket = requests'[t].message.ticket => s = t
  <2>1. \A s \in Requests : s # r /\ Creating(s)' =>
          Creating(s) /\ requests'[s] = requests[s]
    BY <1>1, RequestChanged
  <2>2. Creating(r)' => q.message.creates /\ requests'[r] = q
    BY <1>1, RequestChanged
  <2>3. \A s, t \in Requests : Creating(s) /\ Creating(t) /\
          requests[s].message.ticket = requests[t].message.ticket => s = t
    BY <1>1 DEF TicketsClaimed
  <2> QED
    BY <2>1, <2>2, <2>3
<1>5. \A i \in Committed' : i <= lastId' /\ tickets'[messages'[i].ticket].owner # None
  <2>1. \A i \in Committed : i <= lastId /\ tickets[messages[i].ticket].owner # None
    BY <1>1 DEF TicketsClaimed, Exists
  <2>2. lastId \in Nat /\ \A i \in Committed : i \in Nat
    BY <1>1, Types
  <2> QED
    BY <1>2, <2>1, <2>2
<1> QED
  BY <1>3, <1>4, <1>5 DEF TicketsClaimed, Exists

\* What depends on tickets and messages only, where these stay.
LEMMA TicketsStay ==
  ASSUME SupportInv, UNCHANGED <<tickets, messages, eligible, cursor, received, changes>>
  PROVE  /\ CursorComplete' /\ TransferIsCurrent' /\ LoadsBalanced'
         /\ Committed' = Committed /\ Assignable' = Assignable
         /\ \A a : Load(a)' = Load(a)
<1>1. /\ Committed' = Committed /\ Assignable' = Assignable
      /\ \A a : Load(a)' = Load(a)
  BY DEF Committed, Assignable, Load, Exists
<1>2. \A x, t : Shown(x, t)' = Shown(x, t)
  BY <1>1 DEF Shown
<1>3. CursorComplete'
  BY <1>2 DEF SupportInv, CursorComplete
<1>4. TransferIsCurrent'
  BY DEF SupportInv, TransferIsCurrent
<1>5. LoadsBalanced'
  BY <1>1 DEF SupportInv, LoadsBalanced
<1> QED
  BY <1>1, <1>3, <1>4, <1>5

LEMMA UploadInv ==
  ASSUME SupportInv, NEW r \in Requests, NEW m \in Post, Upload(r, m)
  PROVE  SupportInv'
<1> DEFINE q == [step |-> "uploaded", message |-> m, id |-> None, assignee |-> None]
<1>1. /\ TypeOK /\ RequestsTyped /\ ~Busy(r) /\ ~Writing(r)
      /\ UNCHANGED <<tickets, messages, lastId, eligible, cursor, received, leaked, changes>>
      /\ uploads' = uploads + 1 /\ m.attachment = uploads + 1
      /\ objects' = objects \cup {m.attachment}
      /\ requests' = [requests EXCEPT ![r] = q]
  BY Types DEF SupportInv, Upload, Free, reading, history
<1>2. q \in Request /\ q.step = "uploaded" /\ q.message = m
  BY DEF Request
<1>3. /\ m.attachment \in Uploads /\ m.attachment # None /\ m.attachment \notin objects
      /\ uploads' \in 0 .. MaxUploads
  <2>1. uploads \in 0 .. MaxUploads /\ uploads < MaxUploads
    BY <1>1 DEF TypeOK, Upload
  <2>2. objects \subseteq 1 .. uploads
    BY DEF SupportInv, AttachmentsOwned
  <2>3. m.attachment \in Uploads /\ m.attachment \notin objects
    BY <1>1, <2>1, <2>2, ConstantsAssumption DEF Uploads
  <2> QED
    BY <1>1, <2>1, <2>3, ConstantsAssumption
<1> HIDE DEF q
<1>4. /\ m.creates <=> ~Exists(m.ticket)
      /\ m.creates => m.author \in Owners
      /\ m.creates => \A s \in Requests : Busy(s) => requests[s].message.ticket # m.ticket
  BY AskableClaim DEF Upload
<1>5. /\ RequestsTyped' /\ requests'[r] = q /\ ~Writing(r)'
      /\ \A s \in Requests : Idle(s)' \/ requests'[s] \in Request
      /\ \A s \in Requests : s # r => /\ requests'[s] = requests[s]
                                      /\ Busy(s)' <=> Busy(s)
                                      /\ Writing(s)' <=> Writing(s)
                                      /\ Creating(s)' <=> Creating(s)
  BY <1>1, <1>2, RequestChanged
<1>6. TypeOK'
  BY <1>1, <1>3, <1>5 DEF TypeOK
<1>7. TicketsClaimed'
  <2>1. lastId' \in Nat /\ lastId <= lastId'
    BY <1>1, Types
  <2> QED
    BY <1>1, <1>2, <1>4, <2>1, ClaimStep DEF Creating
<1>8. /\ CursorComplete' /\ TransferIsCurrent' /\ LoadsBalanced'
      /\ Committed' = Committed /\ Assignable' = Assignable
      /\ \A a : Load(a)' = Load(a)
  BY <1>1, TicketsStay
<1>9. LocksHeld'
  <2>1. \A s \in Requests : Writing(s)' => s # r
    BY <1>5
  <2>2. LocksHeld
    BY DEF SupportInv
  <2> QED
    BY <1>1, <1>5, <2>1, <2>2 DEF LocksHeld, MayReply
<1>10. IdsInOrder'
  BY <1>1, <1>5, <1>8 DEF SupportInv, IdsInOrder
<1>11. AttachmentsOwned'
  <2>1. AttachmentsOwned
    BY DEF SupportInv
  <2>2. objects' \subseteq 1 .. uploads'
    <3>1. uploads \in Nat /\ objects \subseteq 1 .. uploads
      BY <1>1, <2>1, Types DEF AttachmentsOwned
    <3>2. uploads + 1 \in 1 .. (uploads + 1) /\ 1 .. uploads \subseteq 1 .. (uploads + 1)
      BY <3>1
    <3> QED
      BY <1>1, <3>1, <3>2
  <2>3. \A i \in Committed : messages[i].attachment # m.attachment
    BY <1>3, <2>1 DEF AttachmentsOwned
  <2>4. \A s \in Requests : Busy(s) => requests[s].message.attachment # m.attachment
    BY <1>3, <2>1 DEF AttachmentsOwned
  <2>5. \A s \in Requests : s # r /\ Busy(s)' => Busy(s) /\ requests'[s] = requests[s]
    BY <1>5
  <2>6. \A k \in objects' :
          \/ k \in leaked'
          \/ \E i \in Committed' : messages'[i].attachment = k
          \/ \E s \in Requests : Busy(s)' /\ requests'[s].message.attachment = k
    <3>1. Busy(r)' /\ requests'[r].message.attachment = m.attachment
      BY <1>1, <1>2, RequestChanged
    <3>2. \A s \in Requests : Busy(s) => Busy(s)' /\ requests'[s] = requests[s]
      BY <1>1, <1>5
    <3>3. \A k \in objects :
            \/ k \in leaked
            \/ \E i \in Committed : messages[i].attachment = k
            \/ \E s \in Requests : Busy(s)' /\ requests'[s].message.attachment = k
      BY <2>1, <3>2 DEF AttachmentsOwned
    <3> QED
      BY <1>1, <1>8, <3>1, <3>3
  <2> QED
    BY <1>1, <1>2, <1>5, <1>8, <2>1, <2>2, <2>3, <2>4, <2>5, <2>6 DEF AttachmentsOwned
<1>12. CreationsAssign'
  BY <1>1, <1>5, <1>8 DEF SupportInv, CreationsAssign
<1> QED
  BY <1>5, <1>6, <1>7, <1>8, <1>9, <1>10, <1>11, <1>12 DEF SupportInv

\* Under its lock, a transaction draws an id and finds assignee or author in order.
LEMMA WriteInv ==
  ASSUME SupportInv, NEW r \in Requests, NEW m \in Post, NEW assignee \in Staff \cup {None},
         Ready(r, m), Write(r, m, assignee),
         m.creates => CreationUnlocked /\ assignee = LeastLoaded,
         ~m.creates => Unlocked(m.ticket) /\ MayReply(m.author, m.ticket)
  PROVE  SupportInv'
<1> DEFINE q == [step |-> "writing", message |-> m, id |-> lastId + 1, assignee |-> assignee]
<1>1. /\ TypeOK /\ RequestsTyped /\ TicketsClaimed /\ LocksHeld /\ IdsInOrder
      /\ AttachmentsOwned /\ CreationsAssign
      /\ lastId \in Nat /\ lastId < MaxMessage /\ lastId' = lastId + 1
      /\ UNCHANGED <<tickets, messages, objects, uploads, eligible, cursor, received,
                     leaked, changes>>
      /\ requests' = [requests EXCEPT ![r] = q]
  BY Types DEF SupportInv, Write, reading, history
<1>2. lastId + 1 \in Ids /\ lastId + 1 \in 0 .. MaxMessage
  BY <1>1, ConstantsAssumption DEF Ids
<1>3. /\ q \in Request /\ q.step = "writing" /\ q.message = m
      /\ q.id = lastId + 1 /\ q.assignee = assignee
  BY <1>2 DEF Request
<1> HIDE DEF q
<1>4. /\ ~Writing(r)
      /\ m.creates <=> ~Exists(m.ticket)
      /\ m.creates => m.author \in Owners
      /\ m.creates => \A s \in Requests : s # r /\ Creating(s) =>
           requests[s].message.ticket # m.ticket
      /\ m.attachment # None =>
           /\ m.attachment \in objects
           /\ \A i \in Committed : messages[i].attachment # m.attachment
           /\ \A s \in Requests : s # r /\ Busy(s) =>
                requests[s].message.attachment # m.attachment
      /\ Busy(r) => requests[r].message = m
  BY ReadyClaim
<1>5. /\ RequestsTyped' /\ requests'[r] = q /\ Busy(r)' /\ Writing(r)'
      /\ Creating(r)' <=> m.creates
      /\ \A s \in Requests : Idle(s)' \/ requests'[s] \in Request
      /\ \A s \in Requests : s # r => /\ requests'[s] = requests[s]
                                      /\ Busy(s)' <=> Busy(s)
                                      /\ Writing(s)' <=> Writing(s)
                                      /\ Creating(s)' <=> Creating(s)
  BY <1>1, <1>3, RequestChanged
<1>6. TypeOK'
  BY <1>1, <1>2, <1>5 DEF TypeOK
<1>7. TicketsClaimed'
  <2>1. lastId' \in Nat /\ lastId <= lastId'
    BY <1>1
  <2> QED
    BY <1>1, <1>3, <1>4, <2>1, ClaimStep
<1>8. /\ CursorComplete' /\ TransferIsCurrent' /\ LoadsBalanced'
      /\ Committed' = Committed /\ Assignable' = Assignable
      /\ \A a : Load(a)' = Load(a)
  BY <1>1, TicketsStay
<1>9. LocksHeld'
  <2>1. m.creates => \A s \in Requests : s # r /\ Writing(s) => ~Creating(s)
    BY DEF CreationUnlocked, Creating
  <2>2. ~m.creates => \A s \in Requests : s # r /\ Writing(s) /\ ~Creating(s) =>
          requests[s].message.ticket # m.ticket
    BY <1>1, Types DEF Unlocked, Creating
  <2>3. \A s, t \in Requests : Writing(s)' /\ Writing(t)' /\ Creating(s)' /\ Creating(t)' => s = t
    BY <1>1, <1>5, <2>1 DEF LocksHeld
  <2>4. \A s, t \in Requests :
          Writing(s)' /\ Writing(t)' /\ ~Creating(s)' /\ ~Creating(t)' /\
          requests'[s].message.ticket = requests'[t].message.ticket => s = t
    BY <1>1, <1>3, <1>5, <2>2 DEF LocksHeld
  <2>5. ASSUME NEW s \in Requests, Writing(s)', ~Creating(s)'
        PROVE  LET msg == requests'[s].message
               IN msg.author \in Staff => msg.author \in SuperAdmins \/
                    tickets'[msg.ticket].assigned = msg.author
    <3>1. CASE s = r
      BY <1>1, <1>3, <1>5, <2>5, <3>1 DEF MayReply
    <3>2. CASE s # r
      BY <1>1, <1>5, <2>5, <3>2 DEF LocksHeld, MayReply
    <3> QED
      BY <3>1, <3>2
  <2> QED
    BY <2>3, <2>4, <2>5 DEF LocksHeld, MayReply
<1>10. IdsInOrder'
  <2>1. \A i \in Committed : i <= lastId /\ i \in Nat
    BY <1>1, Types DEF TicketsClaimed
  <2>2. \A s \in Requests : Writing(s) => requests[s].id <= lastId /\ requests[s].id \in Nat
    BY <1>1 DEF IdsInOrder, Ids
  <2>3. ASSUME NEW s \in Requests, Writing(s)'
        PROVE  /\ requests'[s].id \in Ids /\ requests'[s].id <= lastId'
               /\ requests'[s].id \notin Committed
               /\ \A i \in Committed :
                    messages[i].ticket = requests'[s].message.ticket => i < requests'[s].id
    <3>1. CASE s = r
      BY <1>1, <1>2, <1>3, <1>5, <2>1, <3>1
    <3>2. CASE s # r
      BY <1>1, <1>5, <2>2, <2>3, <3>2 DEF IdsInOrder
    <3> QED
      BY <3>1, <3>2
  <2>4. \A s \in Requests : s # r /\ Writing(s)' => requests'[s].id # lastId + 1
    BY <1>1, <1>5, <2>2
  <2>5. \A s, t \in Requests : Writing(s)' /\ Writing(t)' /\ requests'[s].id = requests'[t].id => s = t
    BY <1>1, <1>3, <1>5, <2>4 DEF IdsInOrder
  <2>6. \A x \in Readers, t \in Polled :
          cursor[x][t] # 0 => cursor[x][t] \in Committed /\ messages[cursor[x][t]].ticket = t
    BY <1>1 DEF IdsInOrder
  <2> QED
    BY <1>1, <1>8, <2>3, <2>5, <2>6 DEF IdsInOrder
<1>11. AttachmentsOwned'
  <2>1. \A s \in Requests : Busy(s)' /\ requests'[s].message.attachment # None =>
          /\ requests'[s].message.attachment \in objects
          /\ \A i \in Committed : messages[i].attachment # requests'[s].message.attachment
    BY <1>1, <1>3, <1>4, <1>5 DEF AttachmentsOwned
  <2>2. \A s, t \in Requests : Busy(s)' /\ Busy(t)' /\ requests'[s].message.attachment # None /\
          requests'[s].message.attachment = requests'[t].message.attachment => s = t
    BY <1>1, <1>3, <1>4, <1>5 DEF AttachmentsOwned
  <2>3. \A k \in objects :
          \/ k \in leaked
          \/ \E i \in Committed : messages[i].attachment = k
          \/ \E s \in Requests : Busy(s)' /\ requests'[s].message.attachment = k
    <3>1. \A s \in Requests : Busy(s) =>
            Busy(s)' /\ requests'[s].message.attachment = requests[s].message.attachment
      BY <1>3, <1>4, <1>5
    <3> QED
      BY <1>1, <3>1 DEF AttachmentsOwned
  <2> QED
    BY <1>1, <1>8, <2>1, <2>2, <2>3 DEF AttachmentsOwned
<1>12. CreationsAssign'
  <2>1. SUFFICES ASSUME changes = 0
                 PROVE  CreationsAssign'
    BY <1>1 DEF CreationsAssign
  <2>2. ASSUME NEW s \in Requests, Writing(s)', Creating(s)'
        PROVE  IF Assignable = {} THEN requests'[s].assignee = None
               ELSE /\ requests'[s].assignee \in Assignable
                    /\ \A b \in Assignable : Load(requests'[s].assignee) <= Load(b)
    <3>1. CASE s = r
      <4>1. requests'[s].assignee = LeastLoaded
        BY <1>3, <1>5, <2>2, <3>1
      <4>2. Assignable = {} => LeastLoaded = None
        BY DEF LeastLoaded
      <4> QED
        BY <4>1, <4>2, LeastLoadedIn
    <3>2. CASE s # r
      BY <1>1, <1>5, <2>1, <2>2, <3>2 DEF CreationsAssign
    <3> QED
      BY <3>1, <3>2
  <2> QED
    BY <1>1, <1>8, <2>1, <2>2 DEF CreationsAssign, Load, Exists
<1> QED
  BY <1>5, <1>6, <1>7, <1>8, <1>9, <1>10, <1>11, <1>12 DEF SupportInv

LEMMA WriteCreateInv ==
  ASSUME SupportInv, NEW r \in Requests, NEW m \in Post, WriteCreate(r, m)
  PROVE  SupportInv'
<1>1. LeastLoaded \in Staff \cup {None}
  <2>1. Assignable \subseteq Staff
    BY DEF Assignable, Staff
  <2>2. Assignable = {} => LeastLoaded = None
    BY DEF LeastLoaded
  <2> QED
    BY <2>1, <2>2, LeastLoadedIn
<1> QED
  BY <1>1, WriteInv DEF WriteCreate

LEMMA WriteReplyInv ==
  ASSUME SupportInv, NEW r \in Requests, NEW m \in Post, WriteReply(r, m)
  PROVE  SupportInv'
  BY WriteInv DEF WriteReply

-----------------------------------------------------------------------------
(* Requests that end                                                       *)

\* The requests without one that has ended.
LEMMA RequestDropped ==
  ASSUME TypeOK, RequestsTyped, NEW r \in Requests,
         requests' = [requests EXCEPT ![r] = NoRequest]
  PROVE  /\ RequestsTyped'
         /\ \A s \in Requests : Idle(s)' \/ requests'[s] \in Request
         /\ ~Busy(r)' /\ ~Writing(r)'
         /\ \A s \in Requests : s # r => /\ requests'[s] = requests[s]
                                         /\ Busy(s)' <=> Busy(s)
                                         /\ Writing(s)' <=> Writing(s)
                                         /\ Creating(s)' <=> Creating(s)
<1>1. /\ requests'[r] = NoRequest /\ \A s \in Requests : s # r => requests'[s] = requests[s]
      /\ RequestsTyped'
  BY DEF RequestsTyped
<1>2. \A s \in Requests : requests'[s] \in Request \cup {NoRequest}
  BY <1>1 DEF RequestsTyped
<1>3. \A s \in Requests : Idle(s)' \/ requests'[s] \in Request
  BY <1>2 DEF Idle, NoRequest
<1>4. ~Busy(r)' /\ ~Writing(r)'
  BY <1>1 DEF Busy, Writing, NoRequest
<1>5. \A s \in Requests : s # r => /\ Busy(s)' <=> Busy(s)
                                   /\ Writing(s)' <=> Writing(s)
                                   /\ Creating(s)' <=> Creating(s)
  BY <1>1 DEF Busy, Writing, Creating
<1> QED
  BY <1>1, <1>3, <1>4, <1>5

\* An error or the end of the server: the attachment of no one else is deleted.
LEMMA GiveUpInv ==
  ASSUME SupportInv, NEW r \in Requests, Fail(r) \/ Die(r)
  PROVE  SupportInv'
<1> DEFINE key == requests[r].message.attachment
<1>1. /\ TypeOK /\ RequestsTyped /\ TicketsClaimed /\ LocksHeld /\ IdsInOrder
      /\ AttachmentsOwned /\ CreationsAssign /\ Busy(r)
      /\ requests' = [requests EXCEPT ![r] = NoRequest]
      /\ UNCHANGED <<tickets, messages, lastId, uploads, eligible, cursor, received, changes>>
  BY Types DEF SupportInv, Fail, Die, reading
<1>2. \/ objects' = objects \ {key} /\ leaked' = leaked
      \/ key # None /\ leaked' = leaked \cup {key} /\ objects' = objects
  BY DEF Fail, Die, Cleanup
<1>3. key \in Uploads \cup {None}
  BY <1>1, Types DEF Post
<1> HIDE DEF key
<1>4. /\ RequestsTyped' /\ ~Busy(r)' /\ ~Writing(r)'
      /\ \A s \in Requests : Idle(s)' \/ requests'[s] \in Request
      /\ \A s \in Requests : s # r => /\ requests'[s] = requests[s]
                                      /\ Busy(s)' <=> Busy(s)
                                      /\ Writing(s)' <=> Writing(s)
                                      /\ Creating(s)' <=> Creating(s)
  BY <1>1, RequestDropped
<1>5. \A s \in Requests : /\ Busy(s)' => s # r /\ Busy(s) /\ requests'[s] = requests[s]
                          /\ Writing(s)' => s # r /\ Writing(s) /\ requests'[s] = requests[s]
                          /\ Creating(s)' => s # r /\ Creating(s) /\ requests'[s] = requests[s]
  BY <1>4 DEF Creating
<1>6. TypeOK'
  BY <1>1, <1>2, <1>3, <1>4 DEF TypeOK
<1>7. /\ CursorComplete' /\ TransferIsCurrent' /\ LoadsBalanced'
      /\ Committed' = Committed /\ Assignable' = Assignable
      /\ \A a : Load(a)' = Load(a)
  BY <1>1, TicketsStay
<1>8. TicketsClaimed'
  BY <1>1, <1>5, <1>7 DEF TicketsClaimed, Exists
<1>9. LocksHeld'
  <2>1. \A s \in Requests : Writing(s)' => (Creating(s)' <=> Creating(s))
    BY <1>4, <1>5
  <2> QED
    BY <1>1, <1>5, <2>1 DEF LocksHeld, MayReply
<1>10. IdsInOrder'
  BY <1>1, <1>5, <1>7 DEF IdsInOrder
<1>11. AttachmentsOwned'
  <2>1. \A i \in Committed : messages[i].attachment # None => messages[i].attachment # key
    BY <1>1 DEF AttachmentsOwned, key
  <2>2. \A s \in Requests : s # r /\ Busy(s) /\ requests[s].message.attachment # None =>
          requests[s].message.attachment # key
    BY <1>1 DEF AttachmentsOwned, key
  <2>3. objects' \subseteq objects /\ \A k \in objects : k # key => k \in objects'
    BY <1>2
  <2>4. \A k \in objects' :
          \/ k \in leaked'
          \/ \E i \in Committed : messages[i].attachment = k
          \/ \E s \in Requests : Busy(s)' /\ requests'[s].message.attachment = k
    <3>1. ASSUME NEW k \in objects', k \notin leaked'
          PROVE  k \in objects /\ k \notin leaked /\ k # key
      BY <1>2, <3>1
    <3>2. ASSUME NEW k \in objects, k \notin leaked, k # key,
                 \A i \in Committed : messages[i].attachment # k
          PROVE  \E s \in Requests : Busy(s)' /\ requests'[s].message.attachment = k
      <4>1. PICK s \in Requests : Busy(s) /\ requests[s].message.attachment = k
        BY <1>1, <3>2 DEF AttachmentsOwned
      <4>2. s # r
        BY <3>2, <4>1 DEF key
      <4> QED
        BY <1>4, <4>1, <4>2
    <3> QED
      BY <3>1, <3>2
  <2>5. /\ objects' \subseteq 1 .. uploads'
        /\ \A i \in Committed : messages[i].attachment # None => messages[i].attachment \in objects'
    BY <1>1, <2>1, <2>3 DEF AttachmentsOwned
  <2>6. \A s \in Requests : Busy(s)' /\ requests'[s].message.attachment # None =>
          /\ requests'[s].message.attachment \in objects'
          /\ \A i \in Committed : messages[i].attachment # requests'[s].message.attachment
    BY <1>1, <1>5, <2>2, <2>3 DEF AttachmentsOwned
  <2>7. \A s, t \in Requests : Busy(s)' /\ Busy(t)' /\ requests'[s].message.attachment # None /\
          requests'[s].message.attachment = requests'[t].message.attachment => s = t
    BY <1>1, <1>5 DEF AttachmentsOwned
  <2> QED
    BY <1>1, <1>7, <2>4, <2>5, <2>6, <2>7 DEF AttachmentsOwned
<1>12. CreationsAssign'
  BY <1>1, <1>5, <1>7 DEF CreationsAssign, Load, Exists
<1> QED
  BY <1>4, <1>6, <1>7, <1>8, <1>9, <1>10, <1>11, <1>12 DEF SupportInv

\* What a commit makes of the tickets: one of them is opened or answered.
LEMMA CommitTickets ==
  ASSUME SupportInv, NEW r \in Requests, Commit(r)
  PROVE  LET q == requests[r]
             m == q.message
         IN /\ tickets' \in [Tickets -> Ticket]
            /\ \A t \in Tickets : t # m.ticket => tickets'[t] = tickets[t]
            /\ tickets'[m.ticket].owner # None
            /\ m.creates => /\ tickets[m.ticket].owner = None
                            /\ tickets'[m.ticket].assigned = q.assignee
                            /\ tickets'[m.ticket].pending = None
                            /\ tickets'[m.ticket].requestedBy = None
            /\ ~m.creates => /\ tickets'[m.ticket].owner = tickets[m.ticket].owner
                             /\ tickets'[m.ticket].assigned = tickets[m.ticket].assigned
                             /\ tickets'[m.ticket].pending = tickets[m.ticket].pending
                             /\ tickets'[m.ticket].requestedBy = tickets[m.ticket].requestedBy
            /\ \/ tickets'[m.ticket].status \in Unresolved
               \/ ~m.creates /\ tickets'[m.ticket].status = tickets[m.ticket].status
<1> DEFINE q == requests[r]
           m == q.message
<1>1. /\ TypeOK /\ RequestsTyped /\ TicketsClaimed /\ Busy(r) /\ q \in Request /\ m \in Post
      /\ m.ticket \in Tickets /\ q.assignee \in Staff \cup {None}
      /\ tickets \in [Tickets -> Ticket] /\ tickets[m.ticket] \in Ticket
  BY Types DEF SupportInv, Commit, Request, TypeOK
<1>2. tickets' = IF m.creates
                   THEN [tickets EXCEPT ![m.ticket] =
                          [NoTicket EXCEPT !.owner = m.author, !.assigned = q.assignee]]
                   ELSE Answered(m)
  BY DEF Commit
<1>3. m.creates => m.author \in Owners /\ ~Exists(m.ticket)
  BY <1>1 DEF TicketsClaimed
<1>4. ~m.creates => Exists(m.ticket)
  BY <1>1 DEF TicketsClaimed
<1> HIDE DEF m, q
<1>5. CASE m.creates
  <2> DEFINE new == [NoTicket EXCEPT !.owner = m.author, !.assigned = q.assignee]
  <2>1. new \in Ticket
    BY <1>1, <1>3, <1>5 DEF NoTicket, Ticket, Status
  <2>2. /\ new.owner = m.author /\ new.assigned = q.assignee /\ new.status = "open"
        /\ new.pending = None /\ new.requestedBy = None
    BY DEF NoTicket
  <2>3. tickets' = [tickets EXCEPT ![m.ticket] = new]
    BY <1>2, <1>5
  <2> HIDE DEF new
  <2>4. m.author # None
    BY <1>3, <1>5, ConstantsAssumption
  <2> QED
    BY <1>1, <1>3, <1>5, <2>1, <2>2, <2>3, <2>4 DEF Exists, Unresolved, Status, m, q
<1>6. CASE ~m.creates
  <2>1. \/ tickets' = tickets
        \/ \E status \in {"waiting_on_user", "open"} :
             tickets' = [tickets EXCEPT ![m.ticket].status = status]
    BY <1>2, <1>6 DEF Answered
  <2>2. tickets[m.ticket].owner # None
    BY <1>4, <1>6 DEF Exists
  <2>3. CASE tickets' = tickets
    BY <1>1, <1>6, <2>2, <2>3 DEF m, q
  <2>4. ASSUME NEW status \in {"waiting_on_user", "open"},
               tickets' = [tickets EXCEPT ![m.ticket].status = status]
        PROVE  /\ tickets' \in [Tickets -> Ticket]
               /\ \A t \in Tickets : t # m.ticket => tickets'[t] = tickets[t]
               /\ tickets'[m.ticket].status \in Unresolved
               /\ tickets'[m.ticket].owner = tickets[m.ticket].owner
               /\ tickets'[m.ticket].assigned = tickets[m.ticket].assigned
               /\ tickets'[m.ticket].pending = tickets[m.ticket].pending
               /\ tickets'[m.ticket].requestedBy = tickets[m.ticket].requestedBy
    <3> DEFINE new == [tickets[m.ticket] EXCEPT !.status = status]
    <3>1. /\ new \in Ticket /\ new.status \in Unresolved
          /\ new.owner = tickets[m.ticket].owner /\ new.assigned = tickets[m.ticket].assigned
          /\ new.pending = tickets[m.ticket].pending
          /\ new.requestedBy = tickets[m.ticket].requestedBy
      BY <1>1 DEF Ticket, Status, Unresolved
    <3>2. tickets' = [tickets EXCEPT ![m.ticket] = new]
      BY <2>4
    <3> HIDE DEF new
    <3> QED
      BY <1>1, <3>1, <3>2
  <2> QED
    BY <1>6, <2>1, <2>2, <2>3, <2>4 DEF m, q
<1> QED
  BY <1>5, <1>6

\* A creation by commit adds one ticket to the load of its assignee.
LEMMA CommitLoads ==
  ASSUME SupportInv, NEW r \in Requests, Commit(r), changes = 0
  PROVE  LET q == requests[r]
         IN /\ \A t \in Tickets : tickets'[t].status \in Unresolved
            /\ \A a \in Staff :
                 Load(a)' = IF q.message.creates /\ q.assignee = a THEN Load(a) + 1 ELSE Load(a)
<1> DEFINE q == requests[r]
           m == q.message
<1>1. /\ TypeOK /\ RequestsTyped /\ CreationsAssign /\ m.ticket \in Tickets
  BY Types DEF SupportInv, Commit
<1>2. /\ \A t \in Tickets : t # m.ticket => tickets'[t] = tickets[t]
      /\ tickets'[m.ticket].owner # None
      /\ m.creates => /\ tickets[m.ticket].owner = None
                      /\ tickets'[m.ticket].assigned = q.assignee
      /\ ~m.creates => /\ tickets'[m.ticket].owner = tickets[m.ticket].owner
                       /\ tickets'[m.ticket].assigned = tickets[m.ticket].assigned
      /\ \/ tickets'[m.ticket].status \in Unresolved
         \/ ~m.creates /\ tickets'[m.ticket].status = tickets[m.ticket].status
  BY CommitTickets
<1> HIDE DEF m, q
<1>3. \A t \in Tickets : tickets[t].status \in Unresolved
  BY <1>1 DEF CreationsAssign
<1>4. \A t \in Tickets : tickets'[t].status \in Unresolved
  BY <1>2, <1>3
<1>5. ASSUME NEW a \in Staff
      PROVE  Load(a)' = IF m.creates /\ q.assignee = a THEN Load(a) + 1 ELSE Load(a)
  <2>1. Load(a)' = Cardinality(Held(a)')
    BY DEF Load, Held, Exists
  <2>2. CASE m.creates /\ q.assignee = a
    <3>1. Held(a)' = Held(a) \cup {m.ticket} /\ m.ticket \notin Held(a)
      BY <1>1, <1>2, <1>3, <1>4, <2>2 DEF Held, Exists
    <3>2. Cardinality(Held(a)') = Cardinality(Held(a)) + 1
      BY <3>1, LoadIsCardinality, FS_AddElement
    <3> QED
      BY <2>1, <2>2, <3>2, LoadIsCardinality
  <2>3. CASE ~(m.creates /\ q.assignee = a)
    <3>1. Held(a)' = Held(a)
      BY <1>1, <1>2, <1>3, <1>4, <2>3 DEF Held, Exists
    <3> QED
      BY <2>1, <2>3, <3>1, LoadIsCardinality
  <2> QED
    BY <2>2, <2>3
<1> QED
  BY <1>4, <1>5 DEF m, q

LEMMA CommitInv ==
  ASSUME SupportInv, NEW r \in Requests, Commit(r)
  PROVE  SupportInv'
<1> DEFINE q == requests[r]
           m == q.message
           row == [ticket |-> m.ticket, internal |-> m.internal, attachment |-> m.attachment]
<1>1. /\ TypeOK /\ RequestsTyped /\ TicketsClaimed /\ LocksHeld /\ IdsInOrder
      /\ AttachmentsOwned /\ CreationsAssign /\ CursorComplete /\ TransferIsCurrent
      /\ LoadsBalanced
      /\ Busy(r) /\ Writing(r) /\ q \in Request /\ m \in Post /\ m.ticket \in Tickets
      /\ requests' = [requests EXCEPT ![r] = NoRequest]
      /\ messages' = [messages EXCEPT ![q.id] = row]
      /\ UNCHANGED <<lastId, objects, uploads, eligible, cursor, received, leaked, changes>>
  BY Types DEF SupportInv, Commit, reading, history
<1>2. /\ tickets' \in [Tickets -> Ticket]
      /\ \A t \in Tickets : t # m.ticket => tickets'[t] = tickets[t]
      /\ tickets'[m.ticket].owner # None
      /\ m.creates => /\ tickets[m.ticket].owner = None
                      /\ tickets'[m.ticket].assigned = q.assignee
                      /\ tickets'[m.ticket].pending = None
                      /\ tickets'[m.ticket].requestedBy = None
      /\ ~m.creates => /\ tickets'[m.ticket].owner = tickets[m.ticket].owner
                       /\ tickets'[m.ticket].assigned = tickets[m.ticket].assigned
                       /\ tickets'[m.ticket].pending = tickets[m.ticket].pending
                       /\ tickets'[m.ticket].requestedBy = tickets[m.ticket].requestedBy
      /\ \/ tickets'[m.ticket].status \in Unresolved
         \/ ~m.creates /\ tickets'[m.ticket].status = tickets[m.ticket].status
  BY CommitTickets
<1>3. row \in Message /\ row.ticket = m.ticket /\ row.attachment = m.attachment
  BY <1>1 DEF Post, Message
<1>4. /\ q.id \in Ids /\ q.id <= lastId /\ q.id \notin Committed /\ q.id # 0
      /\ \A i \in Committed : messages[i].ticket = m.ticket => i < q.id
  BY <1>1 DEF IdsInOrder, Ids
<1>5. /\ RequestsTyped' /\ ~Busy(r)' /\ ~Writing(r)'
      /\ \A s \in Requests : Idle(s)' \/ requests'[s] \in Request
      /\ \A s \in Requests : s # r => /\ requests'[s] = requests[s]
                                      /\ Busy(s)' <=> Busy(s)
                                      /\ Writing(s)' <=> Writing(s)
                                      /\ Creating(s)' <=> Creating(s)
  BY <1>1, RequestDropped
<1>6. \A s \in Requests : /\ Busy(s)' => s # r /\ Busy(s) /\ requests'[s] = requests[s]
                          /\ Writing(s)' => s # r /\ Writing(s) /\ requests'[s] = requests[s]
                          /\ Writing(s)' => (Creating(s)' <=> Creating(s))
                          /\ Creating(s)' => s # r /\ Creating(s) /\ requests'[s] = requests[s]
  BY <1>5 DEF Creating
<1>7. Creating(r) <=> m.creates
  BY <1>1 DEF Creating
<1>8. \A s \in Requests : Busy(s) => requests[s].message.ticket \in Tickets
  BY <1>1, Types
<1>9. \A i \in Committed : messages[i].ticket \in Tickets /\ tickets[messages[i].ticket].owner # None
  <2>1. \A i \in Committed : messages[i] \in Message
    BY <1>1, Types
  <2> QED
    BY <1>1, <2>1 DEF TicketsClaimed, Exists, Message
<1> HIDE DEF q, m, row
<1>10. /\ Committed' = Committed \cup {q.id}
       /\ messages'[q.id] = row
       /\ \A i \in Committed : messages'[i] = messages[i] /\ i # q.id
       /\ messages' \in [Ids -> Message \cup {NoMessage}]
  <2>1. row # NoMessage
    BY <1>3, ConstantsAssumption DEF NoMessage
  <2>2. messages \in [Ids -> Message \cup {NoMessage}]
    BY <1>1 DEF TypeOK
  <2> QED
    BY <1>1, <1>3, <1>4, <2>1, <2>2 DEF Committed
<1>11. \A t \in Tickets : tickets[t].owner # None => tickets'[t].owner = tickets[t].owner
                                                   /\ tickets'[t].assigned = tickets[t].assigned
  BY <1>2
<1>12. TypeOK'
  BY <1>1, <1>2, <1>5, <1>10 DEF TypeOK
<1>13. TicketsClaimed'
  <2>1. ASSUME NEW s \in Requests, Busy(s)'
        PROVE  /\ requests'[s].message.creates <=> tickets'[requests'[s].message.ticket].owner = None
               /\ requests'[s].message.creates => requests'[s].message.author \in Owners
    <3>1. s # r /\ Busy(s) /\ requests'[s] = requests[s]
      BY <1>6, <2>1
    <3>2. /\ requests[s].message.creates <=> tickets[requests[s].message.ticket].owner = None
          /\ requests[s].message.creates => requests[s].message.author \in Owners
      BY <1>1, <3>1 DEF TicketsClaimed, Exists
    <3>3. requests[s].message.creates /\ m.creates => requests[s].message.ticket # m.ticket
      BY <1>1, <1>7, <3>1 DEF TicketsClaimed, Creating, m, q
    <3>4. tickets'[requests[s].message.ticket].owner = None <=>
            tickets[requests[s].message.ticket].owner = None
      BY <1>2, <1>8, <1>11, <3>1, <3>2, <3>3
    <3> QED
      BY <3>1, <3>2, <3>4
  <2>2. \A s, t \in Requests : Creating(s)' /\ Creating(t)' /\
          requests'[s].message.ticket = requests'[t].message.ticket => s = t
    BY <1>1, <1>6 DEF TicketsClaimed
  <2>3. \A i \in Committed' : i <= lastId' /\ tickets'[messages'[i].ticket].owner # None
    BY <1>1, <1>2, <1>3, <1>4, <1>9, <1>10, <1>11 DEF TicketsClaimed
  <2> QED
    BY <2>1, <2>2, <2>3 DEF TicketsClaimed, Exists
<1>14. LocksHeld'
  <2>1. /\ \A s, t \in Requests : Writing(s)' /\ Writing(t)' /\ Creating(s)' /\ Creating(t)' => s = t
        /\ \A s, t \in Requests :
             Writing(s)' /\ Writing(t)' /\ ~Creating(s)' /\ ~Creating(t)' /\
             requests'[s].message.ticket = requests'[t].message.ticket => s = t
    BY <1>1, <1>6 DEF LocksHeld
  <2>2. ASSUME NEW s \in Requests, Writing(s)', ~Creating(s)'
        PROVE  LET msg == requests'[s].message
               IN msg.author \in Staff => msg.author \in SuperAdmins \/
                    tickets'[msg.ticket].assigned = msg.author
    <3>1. s # r /\ Writing(s) /\ ~Creating(s) /\ requests'[s] = requests[s]
      BY <1>6, <2>2
    <3>2. Busy(s) /\ tickets[requests[s].message.ticket].owner # None
      BY <1>1, <3>1, Types DEF TicketsClaimed, Creating, Exists
    <3>3. tickets'[requests[s].message.ticket].assigned = tickets[requests[s].message.ticket].assigned
      BY <1>8, <1>11, <3>2
    <3>4. MayReply(requests[s].message.author, requests[s].message.ticket)
      BY <1>1, <3>1 DEF LocksHeld
    <3> QED
      BY <3>1, <3>3, <3>4 DEF MayReply
  <2> QED
    BY <2>1, <2>2 DEF LocksHeld, MayReply
<1>15. \A s \in Requests : Writing(s) /\ s # r => requests[s].message.ticket # m.ticket
  <2>1. ASSUME NEW s \in Requests, Writing(s), s # r, requests[s].message.ticket = m.ticket
        PROVE  FALSE
    <3>1. Busy(s) /\ (Creating(s) <=> tickets[m.ticket].owner = None)
      BY <1>1, <2>1, Types DEF TicketsClaimed, Creating, Exists
    <3>2. Creating(r) <=> tickets[m.ticket].owner = None
      BY <1>1 DEF TicketsClaimed, Creating, Exists, m, q
    <3> QED
      BY <1>1, <2>1, <3>1, <3>2 DEF LocksHeld, m, q
  <2> QED
    BY <2>1
<1>16. IdsInOrder'
  <2>1. ASSUME NEW s \in Requests, Writing(s)'
        PROVE  /\ requests'[s].id \in Ids /\ requests'[s].id <= lastId'
               /\ requests'[s].id \notin Committed'
               /\ \A i \in Committed' :
                    messages'[i].ticket = requests'[s].message.ticket => i < requests'[s].id
    <3>1. s # r /\ Writing(s) /\ requests'[s] = requests[s]
      BY <1>6, <2>1
    <3>2. /\ requests[s].id \in Ids /\ requests[s].id <= lastId
          /\ requests[s].id \notin Committed
          /\ \A i \in Committed :
               messages[i].ticket = requests[s].message.ticket => i < requests[s].id
      BY <1>1, <3>1 DEF IdsInOrder
    <3>3. requests[s].id # q.id
      BY <1>1, <3>1 DEF IdsInOrder, q
    <3> QED
      BY <1>1, <1>3, <1>10, <1>15, <3>1, <3>2, <3>3
  <2>2. \A s, t \in Requests : Writing(s)' /\ Writing(t)' /\ requests'[s].id = requests'[t].id => s = t
    BY <1>1, <1>6 DEF IdsInOrder
  <2>3. \A x \in Readers, t \in Polled : cursor'[x][t] # 0 =>
          cursor'[x][t] \in Committed' /\ messages'[cursor'[x][t]].ticket = t
    BY <1>1, <1>10 DEF IdsInOrder
  <2> QED
    BY <2>1, <2>2, <2>3 DEF IdsInOrder
<1>17. AttachmentsOwned'
  <2>1. m.attachment # None =>
          /\ m.attachment \in objects
          /\ \A s \in Requests : s # r /\ Busy(s) => requests[s].message.attachment # m.attachment
    BY <1>1 DEF AttachmentsOwned, m, q
  <2>2. \A i \in Committed' : messages'[i].attachment # None => messages'[i].attachment \in objects'
    BY <1>1, <1>3, <1>10, <2>1 DEF AttachmentsOwned
  <2>3. \A s \in Requests : Busy(s)' /\ requests'[s].message.attachment # None =>
          /\ requests'[s].message.attachment \in objects'
          /\ \A i \in Committed' : messages'[i].attachment # requests'[s].message.attachment
    BY <1>1, <1>3, <1>6, <1>10, <2>1 DEF AttachmentsOwned
  <2>4. \A s, t \in Requests : Busy(s)' /\ Busy(t)' /\ requests'[s].message.attachment # None /\
          requests'[s].message.attachment = requests'[t].message.attachment => s = t
    BY <1>1, <1>6 DEF AttachmentsOwned
  <2>5. ASSUME NEW k \in objects
        PROVE  \/ k \in leaked
               \/ \E i \in Committed' : messages'[i].attachment = k
               \/ \E s \in Requests : Busy(s)' /\ requests'[s].message.attachment = k
    <3>1. CASE k \in leaked
      BY <3>1
    <3>2. CASE \E i \in Committed : messages[i].attachment = k
      BY <1>10, <3>2
    <3>3. CASE \E s \in Requests : Busy(s) /\ requests[s].message.attachment = k
      <4>1. PICK s \in Requests : Busy(s) /\ requests[s].message.attachment = k
        BY <3>3
      <4>2. CASE s = r
        BY <1>3, <1>10, <4>1, <4>2 DEF m, q
      <4>3. CASE s # r
        BY <1>5, <4>1, <4>3
      <4> QED
        BY <4>2, <4>3
    <3> QED
      BY <1>1, <3>1, <3>2, <3>3 DEF AttachmentsOwned
  <2>6. objects' \subseteq 1 .. uploads'
    BY <1>1 DEF AttachmentsOwned
  <2> QED
    BY <1>1, <2>2, <2>3, <2>4, <2>5, <2>6 DEF AttachmentsOwned
<1>18. CursorComplete'
  <2>1. ASSUME NEW x \in Readers, NEW t \in Polled, NEW i \in Committed',
               messages'[i].ticket = t,
               x \in Staff \/ (tickets'[t].owner = x /\ ~messages'[i].internal),
               i <= cursor[x][t]
        PROVE  i \in received[x]
    <3>1. CASE i = q.id
      <4>1. t = m.ticket
        BY <1>3, <1>10, <2>1, <3>1
      <4>2. cursor[x][t] \in Nat /\ q.id \in Nat /\ q.id >= 1
        BY <1>1, <1>4 DEF TypeOK, Ids
      <4>3. cursor[x][t] # 0
        BY <2>1, <3>1, <4>2
      <4>4. cursor[x][t] < q.id
        BY <1>1, <1>4, <4>1, <4>3 DEF IdsInOrder
      <4> QED
        BY <2>1, <3>1, <4>2, <4>4
    <3>2. CASE i # q.id
      <4>1. i \in Committed /\ messages'[i] = messages[i]
        BY <1>10, <2>1, <3>2
      <4>2. t \in Tickets /\ tickets'[t].owner = tickets[t].owner
        BY <1>9, <1>11, <2>1, <4>1
      <4>3. i \in Shown(x, t)
        BY <2>1, <4>1, <4>2 DEF Shown
      <4> QED
        BY <1>1, <2>1, <4>3 DEF CursorComplete
    <3> QED
      BY <3>1, <3>2
  <2> QED
    BY <1>1, <2>1 DEF CursorComplete, Shown
<1>19. TransferIsCurrent'
  <2>1. ASSUME NEW t \in Tickets
        PROVE  IF tickets'[t].pending = None THEN tickets'[t].requestedBy = None
               ELSE /\ tickets'[t].requestedBy = tickets'[t].assigned
                    /\ tickets'[t].assigned \notin {None, tickets'[t].pending}
                    /\ tickets'[t].status \in Unresolved
    BY <1>1, <1>2 DEF TransferIsCurrent
  <2> QED
    BY <2>1 DEF TransferIsCurrent
<1>20. CreationsAssign' /\ LoadsBalanced'
  <2>1. SUFFICES ASSUME changes = 0
                 PROVE  CreationsAssign' /\ LoadsBalanced'
    BY <1>1 DEF CreationsAssign, LoadsBalanced
  <2>2. /\ \A t \in Tickets : tickets'[t].status \in Unresolved
        /\ \A a \in Staff :
             Load(a)' = IF m.creates /\ q.assignee = a THEN Load(a) + 1 ELSE Load(a)
    BY <2>1, CommitLoads DEF m, q
  <2>3. Assignable' = Assignable /\ Assignable \subseteq Staff
    BY <1>1 DEF Assignable, Staff
  <2>4. m.creates /\ Assignable # {} =>
          q.assignee \in Assignable /\ \A b \in Assignable : Load(q.assignee) <= Load(b)
    BY <1>1, <1>7, <2>1 DEF CreationsAssign, q
  <2>5. LoadsBalanced'
    <3>1. \A a, b \in Assignable : Load(a) <= Load(b) + 1
      BY <1>1, <2>1 DEF LoadsBalanced
    <3>2. \A a \in Assignable : Load(a) \in Nat
      BY LoadIsCardinality
    <3>3. ASSUME NEW a \in Assignable, NEW b \in Assignable
          PROVE  Load(a)' <= Load(b)' + 1
      <4>1. Load(a) \in Nat /\ Load(b) \in Nat /\ Load(a) <= Load(b) + 1
        BY <3>1, <3>2
      <4>2. Load(a)' = (IF m.creates /\ q.assignee = a THEN Load(a) + 1 ELSE Load(a))
            /\ Load(b)' = (IF m.creates /\ q.assignee = b THEN Load(b) + 1 ELSE Load(b))
        BY <2>2, <2>3
      <4>3. m.creates /\ q.assignee = a => Load(a) <= Load(b)
        BY <2>4
      <4> QED
        BY <4>1, <4>2, <4>3
    <3> QED
      BY <2>3, <3>3 DEF LoadsBalanced
  <2>6. CreationsAssign'
    <3>1. ASSUME NEW s \in Requests, Writing(s)', Creating(s)'
          PROVE  /\ ~m.creates
                 /\ IF Assignable = {} THEN requests'[s].assignee = None
                    ELSE /\ requests'[s].assignee \in Assignable
                         /\ \A b \in Assignable : Load(requests[s].assignee) <= Load(b)
                 /\ requests'[s].assignee = requests[s].assignee
      <4>1. s # r /\ Writing(s) /\ Creating(s) /\ requests'[s] = requests[s]
        BY <1>6, <3>1
      <4>2. ~m.creates
        BY <1>1, <1>7, <4>1 DEF LocksHeld
      <4> QED
        BY <1>1, <2>1, <4>1, <4>2 DEF CreationsAssign
    <3>2. (\E s \in Requests : Writing(s)' /\ Creating(s)') =>
            \A a \in Staff : Load(a)' = Load(a)
      BY <2>2, <3>1
    <3>3. \A a \in Staff : LoadIn(tickets', a) = LoadIn(tickets, a)
               \/ ~\E s \in Requests : Writing(s)' /\ Creating(s)'
      BY <3>2, LoadInTickets
    <3>4. \A s \in Requests : Writing(s)' /\ Creating(s)' =>
            IF Assignable' = {} THEN requests'[s].assignee = None
            ELSE /\ requests'[s].assignee \in Assignable'
                 /\ \A b \in Assignable' :
                      LoadIn(tickets', requests'[s].assignee) <= LoadIn(tickets', b)
      BY <2>3, <3>1, <3>3, LoadInTickets
    <3>5. eligible' = Staff
      BY <1>1, <2>1 DEF CreationsAssign
    <3>6. \A s \in Requests : Writing(s)' /\ Creating(s)' =>
            IF Assignable' = {} THEN requests'[s].assignee = None
            ELSE /\ requests'[s].assignee \in Assignable'
                 /\ \A b \in Assignable' : Load(requests[s].assignee)' <= Load(b)'
      BY <3>4 DEF LoadIn, Load, Exists
    <3> QED
      BY <2>2, <3>5, <3>6 DEF CreationsAssign
  <2> QED
    BY <2>5, <2>6
<1> QED
  BY <1>5, <1>12, <1>13, <1>14, <1>16, <1>17, <1>18, <1>19, <1>20 DEF SupportInv

-----------------------------------------------------------------------------
(* Transfers, updates and permissions                                      *)

\* What TransferIsCurrent asks of one row.
TransferOf(row) ==
  IF row.pending = None THEN row.requestedBy = None
  ELSE /\ row.requestedBy = row.assigned
       /\ row.assigned \notin {None, row.pending}
       /\ row.status \in Unresolved

\* The part of the invariant that looks at the tickets only through their owners.
LEMMA OwnersKept ==
  ASSUME SupportInv, tickets' \in [Tickets -> Ticket],
         \A t \in Tickets : tickets'[t].owner = tickets[t].owner,
         UNCHANGED <<messages, lastId, requests, objects, uploads, cursor, received, leaked>>
  PROVE  /\ TicketsClaimed' /\ IdsInOrder' /\ AttachmentsOwned' /\ CursorComplete' /\ RequestsTyped'
         /\ \A r \in Requests : Writing(r)' = Writing(r) /\ Creating(r)' = Creating(r)
<1>1. /\ Committed' = Committed
      /\ \A r \in Requests : /\ Busy(r)' = Busy(r) /\ Writing(r)' = Writing(r)
                             /\ Creating(r)' = Creating(r)
  BY DEF Committed, Busy, Writing, Creating
<1>2. TypeOK /\ RequestsTyped /\ TicketsClaimed /\ IdsInOrder /\ AttachmentsOwned /\ CursorComplete
  BY DEF SupportInv
<1>3. \A r \in Requests : Busy(r) => requests[r].message.ticket \in Tickets
  BY <1>2, Types
<1>4. \A i \in Committed : messages[i].ticket \in Tickets
  BY <1>2, Types DEF Message
<1>5. TicketsClaimed'
  BY <1>1, <1>2, <1>3, <1>4 DEF TicketsClaimed, Exists
<1>6. IdsInOrder'
  BY <1>1, <1>2 DEF IdsInOrder
<1>7. AttachmentsOwned'
  BY <1>1, <1>2 DEF AttachmentsOwned
<1>8. CursorComplete'
  <2>1. \A x \in Readers, t \in Polled : Shown(x, t)' = Shown(x, t)
    BY <1>1, ConstantsAssumption DEF Shown
  <2> QED
    BY <1>2, <2>1 DEF CursorComplete
<1> QED
  BY <1>1, <1>2, <1>5, <1>6, <1>7, <1>8 DEF RequestsTyped

\* A ticket whose lock is free takes a new row: its owner stays, its assignee may
\* change, for no reply is being written in it.
LEMMA SetTicketInv ==
  ASSUME SupportInv, NEW t \in Tickets, NEW row \in Ticket,
         Unlocked(t), SetTicket(t, row), row.owner = tickets[t].owner, TransferOf(row)
  PROVE  SupportInv'
<1>1. /\ TypeOK /\ RequestsTyped /\ LocksHeld /\ TransferIsCurrent
      /\ tickets' = [tickets EXCEPT ![t] = row]
      /\ changes' = changes + 1 /\ changes < MaxChanges /\ changes \in Nat
      /\ UNCHANGED <<messages, lastId, requests, objects, uploads, eligible, cursor, received, leaked>>
  BY DEF SupportInv, SetTicket, Counted, reading, TypeOK
<1>2. /\ tickets' \in [Tickets -> Ticket] /\ tickets'[t] = row
      /\ \A u \in Tickets : u # t => tickets'[u] = tickets[u]
      /\ \A u \in Tickets : tickets'[u].owner = tickets[u].owner
  BY <1>1 DEF TypeOK
<1>3. /\ TicketsClaimed' /\ IdsInOrder' /\ AttachmentsOwned' /\ CursorComplete' /\ RequestsTyped'
      /\ \A r \in Requests : Writing(r)' = Writing(r) /\ Creating(r)' = Creating(r)
  BY <1>1, <1>2, OwnersKept
<1>4. changes' \in 0 .. MaxChanges /\ changes' # 0
  BY <1>1, ConstantsAssumption
<1>5. TypeOK'
  BY <1>1, <1>2, <1>4 DEF TypeOK, Idle
<1>6. LocksHeld'
  <2>1. ASSUME NEW r \in Requests, Writing(r)', ~Creating(r)'
        PROVE  MayReply(requests[r].message.author, requests[r].message.ticket)'
    <3>1. Writing(r) /\ ~Creating(r) /\ Busy(r) /\ requests[r].message.ticket \in Tickets
      BY <1>1, <1>3, <2>1, Types
    <3>2. requests[r].message.ticket # t
      BY <3>1 DEF Unlocked, Creating
    <3>3. MayReply(requests[r].message.author, requests[r].message.ticket)
      BY <1>1, <3>1 DEF LocksHeld
    <3> QED
      BY <1>1, <1>2, <3>1, <3>2, <3>3 DEF MayReply
  <2> QED
    BY <1>1, <1>3, <2>1 DEF LocksHeld, MayReply
<1>7. TransferIsCurrent'
  BY <1>1, <1>2 DEF TransferIsCurrent, TransferOf
<1>8. CreationsAssign' /\ LoadsBalanced'
  BY <1>4 DEF CreationsAssign, LoadsBalanced
<1> QED
  BY <1>3, <1>5, <1>6, <1>7, <1>8 DEF SupportInv

\* The rows that transfers and updates write have a transfer that is current.
LEMMA TransferInv ==
  ASSUME SupportInv, NEW t \in Tickets, Transfer(t)
  PROVE  SupportInv'
<1>1. /\ tickets[t] \in Ticket /\ TransferOf(tickets[t]) /\ eligible \subseteq Staff
      /\ None \notin Staff
  BY Types, ConstantsAssumption DEF SupportInv, TransferIsCurrent, TransferOf, TypeOK
<1>2. PICK x \in Staff, y \in Staff : \/ RequestTicketTransfer(t, x, y)
                                      \/ AcceptTicketTransfer(t, x)
                                      \/ DeclineTicketTransfer(t, x)
  BY DEF Transfer
<1>3. CASE RequestTicketTransfer(t, x, y)
  <2> DEFINE new == [tickets[t] EXCEPT !.pending = y, !.requestedBy = x]
  <2>1. /\ Unlocked(t) /\ SetTicket(t, new) /\ tickets[t].assigned = x /\ y # x
        /\ tickets[t].status \in Unresolved
    BY <1>3 DEF RequestTicketTransfer
  <2>2. /\ new \in Ticket /\ new.owner = tickets[t].owner /\ new.status = tickets[t].status
        /\ new.assigned = tickets[t].assigned /\ new.pending = y /\ new.requestedBy = x
    BY <1>1 DEF Ticket
  <2> HIDE DEF new
  <2>3. TransferOf(new)
    BY <1>1, <2>1, <2>2 DEF TransferOf
  <2> QED
    BY <2>1, <2>2, <2>3, SetTicketInv
<1>4. CASE AcceptTicketTransfer(t, x)
  <2> DEFINE new == [NoTransfer(tickets[t]) EXCEPT !.assigned = x]
  <2>1. Unlocked(t) /\ SetTicket(t, new)
    BY <1>4 DEF AcceptTicketTransfer
  <2>2. /\ new \in Ticket /\ new.owner = tickets[t].owner
        /\ new.pending = None /\ new.requestedBy = None
    BY <1>1 DEF Ticket, NoTransfer
  <2> HIDE DEF new
  <2> QED
    BY <2>1, <2>2, SetTicketInv DEF TransferOf
<1>5. CASE DeclineTicketTransfer(t, x)
  <2> DEFINE new == NoTransfer(tickets[t])
  <2>1. Unlocked(t) /\ SetTicket(t, new)
    BY <1>5 DEF DeclineTicketTransfer
  <2>2. /\ new \in Ticket /\ new.owner = tickets[t].owner
        /\ new.pending = None /\ new.requestedBy = None
    BY <1>1 DEF Ticket, NoTransfer
  <2> HIDE DEF new
  <2> QED
    BY <2>1, <2>2, SetTicketInv DEF TransferOf
<1> QED
  BY <1>2, <1>3, <1>4, <1>5

LEMMA UpdateInv ==
  ASSUME SupportInv, NEW t \in Tickets, Update(t)
  PROVE  SupportInv'
<1>1. /\ tickets[t] \in Ticket /\ TransferOf(tickets[t]) /\ eligible \subseteq Staff
  BY Types DEF SupportInv, TransferIsCurrent, TransferOf, TypeOK
<1>2. PICK x \in Owners \cup Staff, s \in Status \cup {Unset}, a \in Staff \cup {None, Unset} :
        UpdateTicket(t, x, s, a)
  BY DEF Update
<1> DEFINE row == Changed(tickets[t], s, a)
           new == IF CancelsTransfer(tickets[t], s, a) THEN NoTransfer(row) ELSE row
<1>3. Unlocked(t) /\ SetTicket(t, new)
  BY <1>2 DEF UpdateTicket
<1>4. /\ row \in Ticket /\ row.owner = tickets[t].owner /\ row.pending = tickets[t].pending
      /\ row.requestedBy = tickets[t].requestedBy
      /\ row.status = IF s = Unset THEN tickets[t].status ELSE s
      /\ row.assigned = IF a = Unset THEN tickets[t].assigned ELSE a
  BY <1>1 DEF Changed, Ticket
<1> HIDE DEF row
<1>5. CASE CancelsTransfer(tickets[t], s, a)
  <2> DEFINE cancelled == NoTransfer(row)
  <2>1. /\ cancelled \in Ticket /\ cancelled.owner = tickets[t].owner
        /\ cancelled.pending = None /\ cancelled.requestedBy = None
    BY <1>4 DEF NoTransfer, Ticket
  <2>2. SetTicket(t, cancelled)
    BY <1>3, <1>5
  <2> HIDE DEF cancelled
  <2> QED
    BY <1>3, <2>1, <2>2, SetTicketInv DEF TransferOf
<1>6. CASE ~CancelsTransfer(tickets[t], s, a)
  <2>1. a = Unset /\ (s = "resolved" => tickets[t].pending = None)
    BY <1>6 DEF CancelsTransfer
  <2>2. TransferOf(row)
    BY <1>1, <1>4, <2>1 DEF TransferOf, Unresolved
  <2>3. SetTicket(t, row)
    BY <1>3, <1>6
  <2> QED
    BY <1>3, <1>4, <2>2, <2>3, SetTicketInv
<1> QED
  BY <1>5, <1>6

LEMMA ChangeEligibilityInv ==
  ASSUME SupportInv, NEW a \in Revocable, ChangeEligibility(a)
  PROVE  SupportInv'
<1>1. /\ TypeOK /\ LocksHeld /\ TransferIsCurrent
      /\ changes' = changes + 1 /\ changes < MaxChanges /\ changes \in Nat
      /\ UNCHANGED <<tickets, messages, lastId, requests, objects, uploads, cursor, received, leaked>>
      /\ eligible' \subseteq Staff
  BY ConstantsAssumption DEF SupportInv, ChangeEligibility, Counted, reading, TypeOK
<1>2. changes' \in 0 .. MaxChanges /\ changes' # 0
  BY <1>1, ConstantsAssumption
<1>3. TypeOK'
  BY <1>1, <1>2 DEF TypeOK, Idle
<1>4. /\ TicketsClaimed' /\ IdsInOrder' /\ AttachmentsOwned' /\ CursorComplete' /\ RequestsTyped'
      /\ \A r \in Requests : Writing(r)' = Writing(r) /\ Creating(r)' = Creating(r)
  BY <1>1, OwnersKept DEF TypeOK
<1>5. LocksHeld' /\ TransferIsCurrent'
  BY <1>1, <1>4 DEF LocksHeld, MayReply, TransferIsCurrent
<1>6. CreationsAssign' /\ LoadsBalanced'
  BY <1>2 DEF CreationsAssign, LoadsBalanced
<1> QED
  BY <1>3, <1>4, <1>5, <1>6 DEF SupportInv

-----------------------------------------------------------------------------
(* Polling                                                                 *)

\* A page has no gap: whatever a reader may see between its cursor and the last
\* message of the page is in the page.
LEMMA PageWhole ==
  ASSUME TypeOK, RequestsTyped, NEW x \in Readers, NEW t \in Polled, Page(x, t) # {}
  PROVE  LET last == NextCursor(x, t, Page(x, t))
         IN /\ Page(x, t) \subseteq Ids
            /\ last \in Shown(x, t)
            /\ \A i \in Shown(x, t) : i <= last => i <= cursor[x][t] \/ i \in Page(x, t)
<1> DEFINE later == {i \in Shown(x, t) : i > cursor[x][t]}
           before(i) == {j \in later : j < i}
           last == Max(Page(x, t))
<1>1. Shown(x, t) \subseteq Ids /\ later \subseteq Ids /\ cursor[x][t] \in Nat
  BY Types DEF Shown, Committed, TypeOK
<1>2. Page(x, t) = {i \in later : Cardinality(before(i)) < Limit}
  BY DEF Page
<1>3. Page(x, t) \subseteq later
  BY <1>2
<1>4. last \in Page(x, t)
  BY <1>1, <1>3, MaxIn
<1>5. \A i \in Ids : i \in Nat
  BY DEF Ids
<1>6. ASSUME NEW i \in Shown(x, t), i <= last, ~(i <= cursor[x][t])
      PROVE  i \in Page(x, t)
  <2>1. i \in later /\ i \in Nat /\ last \in Nat
    BY <1>1, <1>3, <1>4, <1>5, <1>6
  <2>2. before(i) \subseteq before(last)
    BY <1>1, <1>5, <1>6, <2>1
  <2>3. IsFiniteSet(Ids)
    BY ConstantsAssumption, FS_Interval DEF Ids
  <2>4. before(last) \subseteq Ids
    BY <1>1
  <2>5. IsFiniteSet(before(last))
    BY <2>3, <2>4, FS_Subset
  <2>6. /\ IsFiniteSet(before(i)) /\ Cardinality(before(i)) <= Cardinality(before(last))
    BY <2>2, <2>5, FS_Subset
  <2>7. Cardinality(before(i)) \in Nat /\ Cardinality(before(last)) \in Nat
    BY <2>5, <2>6, FS_CardinalityType
  <2>8. Cardinality(before(last)) < Limit
    BY <1>2, <1>4
  <2>9. Cardinality(before(i)) < Limit
    BY <2>6, <2>7, <2>8, ConstantsAssumption
  <2> QED
    BY <1>2, <2>1, <2>9
<1>7. last \in Shown(x, t) /\ Page(x, t) \subseteq Ids
  BY <1>1, <1>3, <1>4
<1> QED
  BY <1>6, <1>7 DEF NextCursor

LEMMA PollInv ==
  ASSUME SupportInv, NEW x \in Readers, NEW t \in Polled, Poll(x, t)
  PROVE  SupportInv'
<1> DEFINE page == Page(x, t)
           last == NextCursor(x, t, page)
<1>1. /\ TypeOK /\ RequestsTyped /\ TicketsClaimed /\ LocksHeld /\ IdsInOrder /\ AttachmentsOwned
      /\ CursorComplete /\ TransferIsCurrent /\ CreationsAssign /\ LoadsBalanced
      /\ page # {}
      /\ received' = [received EXCEPT ![x] = @ \cup page]
      /\ cursor' = [cursor EXCEPT ![x][t] = last]
      /\ UNCHANGED <<tickets, messages, lastId, requests, objects, uploads, eligible, leaked, changes>>
  BY DEF SupportInv, Poll, history
<1>2. /\ page \subseteq Ids /\ last \in Shown(x, t)
      /\ \A i \in Shown(x, t) : i <= last => i <= cursor[x][t] \/ i \in page
  BY <1>1, PageWhole
<1>3. last \in Committed /\ messages[last].ticket = t
  BY <1>2 DEF Shown
<1> HIDE DEF page, last
<1>4. /\ cursor \in [Readers -> [Polled -> 0 .. MaxMessage]]
      /\ received \in [Readers -> SUBSET Ids]
      /\ last \in 0 .. MaxMessage
  BY <1>1, <1>3, ConstantsAssumption DEF TypeOK, Committed, Ids
<1>5. /\ cursor' \in [Readers -> [Polled -> 0 .. MaxMessage]]
      /\ cursor'[x][t] = last
      /\ \A y \in Readers, u \in Polled : <<y, u>> # <<x, t>> => cursor'[y][u] = cursor[y][u]
  BY <1>1, <1>4
<1>6. /\ received' \in [Readers -> SUBSET Ids]
      /\ \A y \in Readers : received[y] \subseteq received'[y]
      /\ page \subseteq received'[x]
  BY <1>1, <1>2, <1>4
<1>7. TypeOK'
  BY <1>1, <1>5, <1>6 DEF TypeOK, Idle
<1>8. /\ Committed' = Committed /\ Assignable' = Assignable
      /\ \A y, u : Shown(y, u)' = Shown(y, u)
      /\ \A r \in Requests : Busy(r)' = Busy(r) /\ Writing(r)' = Writing(r) /\ Creating(r)' = Creating(r)
  BY <1>1 DEF Committed, Assignable, Shown, Busy, Writing, Creating
<1>9. CursorComplete'
  <2>1. ASSUME NEW y \in Readers, NEW u \in Polled, NEW i \in Shown(y, u), i <= cursor'[y][u]
        PROVE  i \in received'[y]
    <3>1. CASE <<y, u>> = <<x, t>>
      <4>1. i <= cursor[x][t] \/ i \in page
        BY <1>2, <1>5, <2>1, <3>1
      <4> QED
        BY <1>1, <1>6, <2>1, <3>1, <4>1 DEF CursorComplete
    <3>2. CASE <<y, u>> # <<x, t>>
      BY <1>1, <1>5, <1>6, <2>1, <3>2 DEF CursorComplete
    <3> QED
      BY <3>1, <3>2
  <2> QED
    BY <1>8, <2>1 DEF CursorComplete
<1>10. IdsInOrder'
  <2>1. \A y \in Readers, u \in Polled : cursor'[y][u] # 0 =>
          cursor'[y][u] \in Committed /\ messages[cursor'[y][u]].ticket = u
    BY <1>1, <1>3, <1>5 DEF IdsInOrder
  <2> QED
    BY <1>1, <1>8, <2>1 DEF IdsInOrder
<1>11. RequestsTyped' /\ TicketsClaimed' /\ LocksHeld' /\ AttachmentsOwned' /\ TransferIsCurrent'
  BY <1>1, <1>8 DEF RequestsTyped, TicketsClaimed, LocksHeld, AttachmentsOwned, TransferIsCurrent,
                    MayReply, Exists
<1>12. CreationsAssign' /\ LoadsBalanced'
  <2>1. \A a : Load(a)' = Load(a)
    BY <1>1 DEF Load, Exists
  <2>2. LoadsBalanced'
    BY <1>1, <1>8, <2>1 DEF LoadsBalanced
  <2> QED
    BY <1>1, <1>8, <2>2 DEF CreationsAssign, Load, Exists
<1> QED
  BY <1>7, <1>9, <1>10, <1>11, <1>12 DEF SupportInv

-----------------------------------------------------------------------------
(* Theorems                                                                *)

LEMMA NextInv ==
  ASSUME SupportInv, Next
  PROVE  SupportInv'
<1>1. ASSUME NEW r \in Requests, NEW m \in Post, Upload(r, m) \/ WriteCreate(r, m) \/ WriteReply(r, m)
      PROVE  SupportInv'
  BY <1>1, UploadInv, WriteCreateInv, WriteReplyInv
<1>2. ASSUME NEW r \in Requests, Commit(r) \/ Fail(r) \/ Die(r)
      PROVE  SupportInv'
  BY <1>2, CommitInv, GiveUpInv
<1>3. ASSUME NEW t \in Tickets, Transfer(t) \/ Update(t)
      PROVE  SupportInv'
  BY <1>3, TransferInv, UpdateInv
<1>4. ASSUME NEW x \in Readers, NEW t \in Polled, Poll(x, t)
      PROVE  SupportInv'
  BY <1>4, PollInv
<1>5. ASSUME NEW a \in Revocable, ChangeEligibility(a)
      PROVE  SupportInv'
  BY <1>5, ChangeEligibilityInv
<1> QED
  BY <1>1, <1>2, <1>3, <1>4, <1>5 DEF Next

LEMMA StutterInv ==
  ASSUME SupportInv, UNCHANGED vars
  PROVE  SupportInv'
<1>1. UNCHANGED <<tickets, messages, lastId, requests, objects, uploads, eligible, cursor, received,
                  leaked, changes>>
  BY DEF vars, reading, history
<1>2. /\ CursorComplete' /\ TransferIsCurrent' /\ LoadsBalanced'
      /\ Committed' = Committed /\ Assignable' = Assignable
  BY <1>1, TicketsStay
<1>3. /\ TicketsClaimed' /\ IdsInOrder' /\ AttachmentsOwned' /\ RequestsTyped'
      /\ \A r \in Requests : Writing(r)' = Writing(r) /\ Creating(r)' = Creating(r)
  BY <1>1, OwnersKept DEF SupportInv, TypeOK
<1>4. TypeOK' /\ LocksHeld'
  BY <1>1, <1>3 DEF SupportInv, TypeOK, LocksHeld, MayReply, Idle
<1>5. CreationsAssign'
  BY <1>1, <1>2, <1>3 DEF SupportInv, CreationsAssign, Load, Exists
<1> QED
  BY <1>2, <1>3, <1>4, <1>5 DEF SupportInv

\* The inductive invariant holds in every reachable state.
THEOREM Invariant == Spec => []SupportInv
<1>1. Init => SupportInv
  BY InitInv
<1>2. SupportInv /\ [Next]_vars => SupportInv'
  BY NextInv, StutterInv
<1> QED
  BY <1>1, <1>2, PTL DEF Spec

\* findByTicket and its cursor: a reader that follows next_cursor misses no
\* message, for every length of page and any number of writers and readers.
THEOREM CursorsComplete == Spec => []CursorComplete
<1>1. SupportInv => CursorComplete
  BY DEF SupportInv
<1> QED
  BY <1>1, Invariant, PTL

\* Tickets, transfers, loads and attachments agree in every reachable state.
THEOREM TicketsAlwaysAgree == Spec => []TicketsAgree
<1>1. ASSUME SupportInv
      PROVE  TicketsAgree
  <2>1. TypeOK /\ RequestsTyped /\ TransferIsCurrent /\ LoadsBalanced /\ AttachmentsOwned
    BY <1>1 DEF SupportInv
  <2>2. \A r \in Requests : Busy(r) <=> ~Idle(r)
    BY <2>1, Types
  <2>3. AttachmentsMatch
    BY <2>1, <2>2 DEF AttachmentsOwned, AttachmentsMatch
  <2> QED
    BY <2>1, <2>3 DEF TicketsAgree
<1> QED
  BY <1>1, Invariant, PTL

\* assertReplyPermission and the row lock of the ticket: an agent's reply commits
\* only while the ticket is still assigned to it.
THEOREM AssigneeAnswers == Spec => AnswersByAssignee
<1>1. ASSUME SupportInv, NEW r \in Requests, Commit(r), ~requests[r].message.creates,
             requests[r].message.author \in Agents
      PROVE  tickets[requests[r].message.ticket].assigned = requests[r].message.author
  <2>1. Writing(r) /\ ~Creating(r)
    BY <1>1 DEF Commit, Creating
  <2>2. MayReply(requests[r].message.author, requests[r].message.ticket)
    BY <1>1, <2>1 DEF SupportInv, LocksHeld
  <2> QED
    BY <1>1, <2>2, ConstantsAssumption DEF MayReply, Staff
<1>2. SupportInv /\ [Next]_vars =>
        [ \A r \in Requests :
            LET m == requests[r].message
            IN Commit(r) /\ ~m.creates /\ m.author \in Agents =>
                 tickets[m.ticket].assigned = m.author ]_vars
  BY <1>1
<1> QED
  BY <1>2, Invariant, PTL DEF Spec, AnswersByAssignee
===============================================================================
