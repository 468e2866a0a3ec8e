-------------------------------- MODULE Support --------------------------------
(***************************************************************************)
(* Support tickets: creation with automatic assignment, replies with       *)
(* attachments, transfers between agents, updates, and the polling of      *)
(* messages by a cursor (services/support.js,                              *)
(* support.ticket.controller.js, models/support.tickets.model.js,          *)
(* models/support.ticket.replies.model.js).                                *)
(*                                                                         *)
(* A request that creates or replies takes several steps: it uploads its   *)
(* attachment, writes inside a transaction, and commits.  The id of a      *)
(* message comes from a sequence when the row is written, its visibility   *)
(* from the commit.  The other operations hold the lock of one ticket from *)
(* its check to their commit and are one action.                           *)
(***************************************************************************)
EXTENDS Integers, FiniteSets, FiniteSetsExt

CONSTANTS
  MaxTicket,      \* tickets are numbered from 1
  Owners,         \* users who open tickets
  Agents,         \* platform staff of role admin
  SuperAdmins,
  Revocable,      \* staff whose permissions change meanwhile
  StaffSets,      \* statuses that staff choose in a PATCH
  MaxRequests,    \* creations and replies in progress at one time
  Readers,        \* those who poll: owners, agents, super administrators
  Polled,         \* the tickets they poll
  None,
  Unset,          \* a field that a PATCH leaves out
  Limit,          \* messages of a page
  MaxMessage,     \* last id the sequence hands out
  MaxUploads,
  MaxChanges      \* transfers, updates and changes of permissions together

Staff == Agents \cup SuperAdmins
Status == {"open", "in_progress", "waiting_on_user", "resolved"}
Unresolved == Status \ {"resolved"}
Ids == 1..MaxMessage
Uploads == 1..MaxUploads
Tickets == 1..MaxTicket
Requests == 1..MaxRequests

VARIABLES
  tickets,     \* support_tickets
  messages,    \* committed support_ticket_replies, by id
  lastId,      \* of the sequence of support_ticket_replies
  requests,
  objects,     \* attachments in object storage
  uploads,     \* number of attachments ever uploaded
  eligible,    \* staff that staffQuery returns
  cursor,      \* next_cursor of each reader and ticket
  received,    \* ids each reader was shown
  leaked,      \* history: attachments whose cleanup a fault prevented
  changes      \* history: number of transfers, updates and the like

vars == <<tickets, messages, lastId, requests, objects, uploads, eligible,
          cursor, received, leaked, changes>>
reading == <<cursor, received>>
history == <<leaked, changes>>

Ticket == [owner : Owners \cup {None},         \* None: not created yet
           status : Status,
           assigned : Staff \cup {None},
           pending : Staff \cup {None},         \* pending_assigned_to
           requestedBy : Staff \cup {None}]     \* transfer_requested_by

\* A row of support_ticket_replies, without its author and text.
Message == [ticket : Tickets, internal : BOOLEAN, attachment : Uploads \cup {None}]

\* What is asked for: an opening message or a reply.
Post == [creates : BOOLEAN, author : Owners \cup Staff, ticket : Tickets,
         internal : BOOLEAN, attachment : Uploads \cup {None}]

\* What a request is about, how far it is, and what its transaction wrote.
Request == [step : {"uploaded", "writing"},
            message : Post,
            id : Ids \cup {None},
            assignee : Staff \cup {None}]

ASSUME ConstantsAssumption ==
  /\ Limit \in Nat \ {0} /\ MaxMessage \in Nat /\ MaxUploads \in Nat
  /\ MaxTicket \in Nat /\ MaxRequests \in Nat /\ MaxChanges \in Nat
  /\ Polled \subseteq Tickets /\ Revocable \subseteq Staff /\ StaffSets \subseteq Status
  /\ IsFiniteSet(Staff) /\ Agents \cap SuperAdmins = {} /\ Owners \cap Staff = {}
  /\ Readers \subseteq Owners \cup Staff
  /\ {None, Unset} \cap (Owners \cup Staff) = {}
  /\ None \notin Ids \cup Uploads \cup Message

NoMessage == None
Idle(r) == requests[r].step = "idle"

TypeOK ==
  /\ tickets \in [Tickets -> Ticket]
  /\ messages \in [Ids -> Message \cup {NoMessage}]
  /\ lastId \in 0..MaxMessage
  /\ \A r \in Requests : Idle(r) \/ requests[r] \in Request
  /\ objects \subseteq Uploads /\ uploads \in 0..MaxUploads
  /\ eligible \subseteq Staff
  /\ cursor \in [Readers -> [Polled -> 0..MaxMessage]]
  /\ received \in [Readers -> SUBSET Ids]
  /\ leaked \subseteq Uploads /\ changes \in 0..MaxChanges

NoTicket == [owner |-> None, status |-> "open", assigned |-> None,
             pending |-> None, requestedBy |-> None]
NoRequest == [step |-> "idle"]

Init ==
  /\ tickets = [t \in Tickets |-> NoTicket]
  /\ messages = [i \in Ids |-> NoMessage]
  /\ lastId = 0
  /\ requests = [r \in Requests |-> NoRequest]
  /\ objects = {} /\ uploads = 0
  /\ eligible = Staff
  /\ cursor = [x \in Readers |-> [t \in Polled |-> 0]]
  /\ received = [x \in Readers |-> {}]
  /\ leaked = {} /\ changes = 0

Exists(t) == tickets[t].owner # None
Committed == {i \in Ids : messages[i] # NoMessage}

-----------------------------------------------------------------------------
(* Locks and assignment                                                    *)

Writing(r) == requests[r].step = "writing"

\* The row lock of a ticket, the advisory lock of creations.
Unlocked(t) ==
  ~\E r \in Requests : Writing(r) /\ ~requests[r].message.creates /\ requests[r].message.ticket = t
CreationUnlocked ==
  ~\E r \in Requests : Writing(r) /\ requests[r].message.creates

Load(a) == Cardinality({t \in Tickets :
  Exists(t) /\ tickets[t].assigned = a /\ tickets[t].status \in Unresolved})

\* leastLoadedStaffQuery; the tie by user id is a fixed choice.
Assignable == eligible \cap Agents
LeastLoaded ==
  IF Assignable = {} THEN None
  ELSE CHOOSE a \in Assignable : \A b \in Assignable : Load(a) <= Load(b)

-----------------------------------------------------------------------------
(* Creation and reply                                                      *)

Visible(t, x) == Exists(t) /\ (x \in Staff \/ tickets[t].owner = x)

\* The next number; that of a failed creation is taken by the next one.
Taken(t) ==
  Exists(t) \/ \E s \in Requests : ~Idle(s) /\ requests[s].message.ticket = t

\* What a request may ask for before its transaction: any user opens tickets,
\* checkReplyAccess and getTicketById admit a reply.
Askable(m) ==
  IF m.creates
    THEN /\ m.author \in Owners /\ ~m.internal
         /\ ~Taken(m.ticket) /\ \A n \in 1..(m.ticket - 1) : Taken(n)
    ELSE Visible(m.ticket, m.author) /\ (m.internal => m.author \in Staff)

\* A request takes the first free place; the places mean nothing.
Free(r) == Idle(r) /\ \A s \in 1..(r - 1) : ~Idle(s)

\* withAttachment.
Upload(r, m) ==
  /\ Free(r) /\ Askable(m)
  /\ uploads < MaxUploads
  /\ m.attachment = uploads + 1
  /\ uploads' = uploads + 1
  /\ objects' = objects \cup {m.attachment}
  /\ requests' = [requests EXCEPT ![r] =
       [step |-> "uploaded", message |-> m, id |-> None, assignee |-> None]]
  /\ UNCHANGED <<tickets, messages, lastId, eligible, reading, history>>

\* A request without an attachment starts with its transaction.
Ready(r, m) ==
  \/ requests[r].step = "uploaded" /\ requests[r].message = m
  \/ Free(r) /\ Askable(m) /\ m.attachment = None

\* The writes of a transaction, which no one sees before its commit.
Write(r, m, assignee) ==
  /\ lastId < MaxMessage
  /\ lastId' = lastId + 1
  /\ requests' = [requests EXCEPT ![r] =
       [step |-> "writing", message |-> m, id |-> lastId + 1, assignee |-> assignee]]
  /\ UNCHANGED <<tickets, messages, objects, uploads, eligible, reading, history>>

\* assertReplyPermission.
MayReply(x, t) ==
  x \in Staff => x \in SuperAdmins \/ tickets[t].assigned = x

WriteCreate(r, m) ==
  /\ m.creates /\ Ready(r, m)
  /\ CreationUnlocked
  /\ Write(r, m, LeastLoaded)

WriteReplyUnlocked(r, m) ==                                      \* a mutant
  /\ ~m.creates /\ Ready(r, m)
  /\ MayReply(m.author, m.ticket)
  /\ Write(r, m, None)
WriteReply(r, m) ==
  /\ ~m.creates /\ Ready(r, m)
  /\ Unlocked(m.ticket)
  /\ MayReply(m.author, m.ticket)
  /\ Write(r, m, None)

\* A note leaves the ticket as it is.
Answered(m) ==
  CASE m.internal -> tickets
    [] m.author \in Staff -> [tickets EXCEPT ![m.ticket].status = "waiting_on_user"]
    [] OTHER -> [tickets EXCEPT ![m.ticket].status = "open"]

Commit(r) ==
  LET q == requests[r]
      m == q.message
  IN /\ Writing(r)
     /\ messages' = [messages EXCEPT ![q.id] =
          [ticket |-> m.ticket, internal |-> m.internal, attachment |-> m.attachment]]
     /\ tickets' = IF m.creates
                     THEN [tickets EXCEPT ![m.ticket] =
                            [NoTicket EXCEPT !.owner = m.author, !.assigned = q.assignee]]
                     ELSE Answered(m)
     /\ requests' = [requests EXCEPT ![r] = NoRequest]
     /\ UNCHANGED <<lastId, objects, uploads, eligible, reading, history>>

\* An error of the upload, the check or the transaction, after which the
\* attachment is deleted, if the storage answers.
Cleanup(r) ==
  LET key == requests[r].message.attachment
  IN \/ objects' = objects \ {key} /\ UNCHANGED leaked
     \/ key # None /\ leaked' = leaked \cup {key} /\ UNCHANGED objects

Fail(r) ==
  /\ ~Idle(r)
  /\ Cleanup(r)
  /\ requests' = [requests EXCEPT ![r] = NoRequest]
  /\ UNCHANGED <<tickets, messages, lastId, uploads, eligible, reading, changes>>

\* The server stops; the database rolls back, the attachment stays.
Die(r) ==
  LET key == requests[r].message.attachment
  IN /\ ~Idle(r)
     /\ key # None
     /\ leaked' = leaked \cup {key}
     /\ requests' = [requests EXCEPT ![r] = NoRequest]
     /\ UNCHANGED <<tickets, messages, lastId, objects, uploads, eligible,
                    reading, changes>>

-----------------------------------------------------------------------------
(* Transfers and updates                                                   *)

Counted == changes < MaxChanges /\ changes' = changes + 1

\* SupportTicket.update of one ticket.
SetTicket(t, row) ==
  /\ Counted
  /\ tickets' = [tickets EXCEPT ![t] = row]
  /\ UNCHANGED <<messages, lastId, requests, objects, uploads, eligible,
                 reading, leaked>>

NoTransfer(row) == [row EXCEPT !.pending = None, !.requestedBy = None]

RequestTicketTransfer(t, from, to) ==
  /\ Exists(t) /\ Unlocked(t)
  /\ tickets[t].assigned = from
  /\ tickets[t].status \in Unresolved
  /\ tickets[t].pending = None
  /\ to # from /\ to \in eligible
  /\ SetTicket(t, [tickets[t] EXCEPT !.pending = to, !.requestedBy = from])

AcceptUnlocked(t, to) ==                                         \* a mutant
  /\ Exists(t) /\ tickets[t].pending = to /\ to \in eligible
  /\ SetTicket(t, [NoTransfer(tickets[t]) EXCEPT !.assigned = to])
AcceptTicketTransfer(t, to) ==
  /\ Exists(t) /\ Unlocked(t)
  /\ tickets[t].pending = to
  /\ to \in eligible
  /\ SetTicket(t, [NoTransfer(tickets[t]) EXCEPT !.assigned = to])

DeclineTicketTransfer(t, to) ==
  /\ Exists(t) /\ Unlocked(t)
  /\ tickets[t].pending = to
  /\ SetTicket(t, NoTransfer(tickets[t]))

Changed(row, status, assigned) ==
  [row EXCEPT !.status = IF status = Unset THEN @ ELSE status,
              !.assigned = IF assigned = Unset THEN @ ELSE assigned]

CancelsReassigned(row, status, assigned) == assigned # Unset     \* a mutant
CancelsTransfer(row, status, assigned) ==
  assigned # Unset \/ (status = "resolved" /\ row.pending # None)

UpdateTicket(t, x, status, assigned) ==
  LET row == Changed(tickets[t], status, assigned)
      new == IF CancelsTransfer(tickets[t], status, assigned) THEN NoTransfer(row) ELSE row
  IN /\ Visible(t, x) /\ Unlocked(t)
     /\ x \in Staff => status \in StaffSets \cup {Unset}
     /\ x \in Owners => status \in {"open", "resolved"} /\ assigned = Unset
     /\ assigned # Unset => x \in SuperAdmins /\ assigned \in eligible \cup {None}
     /\ new # tickets[t]
     /\ SetTicket(t, new)

\* The administrators grant or revoke the permissions of an agent.
ChangeEligibility(a) ==
  /\ Counted
  /\ eligible' = IF a \in eligible THEN eligible \ {a} ELSE eligible \cup {a}
  /\ UNCHANGED <<tickets, messages, lastId, requests, objects, uploads,
                 reading, leaked>>

-----------------------------------------------------------------------------
(* Polling                                                                 *)

Shown(x, t) == {i \in Committed :
  /\ messages[i].ticket = t
  /\ x \in Staff \/ (tickets[t].owner = x /\ ~messages[i].internal)}

\* findByTicket: the first messages after the cursor, and the cursor after them.
Page(x, t) ==
  LET later == {i \in Shown(x, t) : i > cursor[x][t]}
  IN {i \in later : Cardinality({j \in later : j < i}) < Limit}

AfterAll(x, t, page) == Max(Shown(x, t))                         \* a mutant
NextCursor(x, t, page) == Max(page)

Poll(x, t) ==
  LET page == Page(x, t)
  IN /\ page # {}
     /\ received' = [received EXCEPT ![x] = @ \cup page]
     /\ cursor' = [cursor EXCEPT ![x][t] = NextCursor(x, t, page)]
     /\ UNCHANGED <<tickets, messages, lastId, requests, objects, uploads,
                    eligible, history>>

-----------------------------------------------------------------------------

Transfer(t) ==
  \E x, y \in Staff : \/ RequestTicketTransfer(t, x, y)
                      \/ AcceptTicketTransfer(t, x)
                      \/ DeclineTicketTransfer(t, x)

Update(t) ==
  \E x \in Owners \cup Staff, s \in Status \cup {Unset}, a \in Staff \cup {None, Unset} :
    UpdateTicket(t, x, s, a)

Next ==
  \/ \E r \in Requests :
       \/ \E m \in Post : Upload(r, m) \/ WriteCreate(r, m) \/ WriteReply(r, m)
       \/ Commit(r) \/ Fail(r) \/ Die(r)
  \/ \E t \in Tickets :
       Transfer(t) \/ Update(t)
  \/ \E x \in Readers, t \in Polled : Poll(x, t)
  \/ \E a \in Revocable : ChangeEligibility(a)

Spec == Init /\ [][Next]_vars

\* Readers keep polling, as docs/support.md asks them to.
FairSpec == Spec /\ \A x \in Readers, t \in Polled : WF_vars(Poll(x, t))

-----------------------------------------------------------------------------
(* Properties                                                              *)

\* A reader that follows next_cursor has seen every message it may see up to
\* its cursor: no message is committed behind a cursor.
CursorComplete ==
  \A x \in Readers, t \in Polled :
    \A i \in Shown(x, t) : i <= cursor[x][t] => i \in received[x]

\* Every message reaches those who poll its ticket.
MessagesArrive ==
  \A x \in Readers, i \in Ids :
    (\E t \in Polled : i \in Shown(x, t)) ~> i \in received[x]

\* A transfer waits only on an unresolved ticket, of its present assignee, for
\* someone else: none survives a resolution or a reassignment.
TransferIsCurrent ==
  \A t \in Tickets :
    IF tickets[t].pending = None THEN tickets[t].requestedBy = None
    ELSE /\ tickets[t].requestedBy = tickets[t].assigned
         /\ tickets[t].assigned \notin {None, tickets[t].pending}
         /\ tickets[t].status \in Unresolved

\* Creations alone keep the loads of the agents within one ticket of each
\* other, also when they run at the same time.
LoadsBalanced ==
  changes = 0 => \A a, b \in Assignable : Load(a) <= Load(b) + 1

\* Every message has its attachment, and every stored attachment its message,
\* unless it belongs to a request in progress or a fault kept it.
AttachmentsMatch ==
  LET sent == {messages[i].attachment : i \in Committed}
      held == {requests[r].message.attachment : r \in {s \in Requests : ~Idle(s)}}
  IN /\ sent \ {None} \subseteq objects
     /\ objects \subseteq sent \cup held \cup leaked

\* Tickets, loads and attachments agree at every moment.
TicketsAgree == TypeOK /\ TransferIsCurrent /\ LoadsBalanced /\ AttachmentsMatch

\* Whoever loses a ticket loses the right to answer in it at once: an agent's
\* message that commits is that of the assignee of the moment.
AnswersByAssignee ==
  [][ \A r \in Requests :
        LET m == requests[r].message
        IN Commit(r) /\ ~m.creates /\ m.author \in Agents =>
             tickets[m.ticket].assigned = m.author ]_vars

=============================================================================
