---------------------------- MODULE DurableQueue ----------------------------
(* The three work queues the server keeps in its database, and the workers *)
(* that drain them:                                                        *)
(*   "event"    paystack_webhook_events, filled by Paystack's webhooks     *)
(*              (services/webhook.js);                                     *)
(*   "renewal"  subscription_renewal_emails, filled by the lifecycle job   *)
(*              (services/subscription-lifecycle.service.js);              *)
(*   "order"    checkout_notifications, filled when an order is paid       *)
(*              (services/checkout.worker.js).                             *)
(* An instance of the server claims a batch of ready rows under a lease,   *)
(* handles them one after the other, and writes each outcome in a          *)
(* statement of its own: it can crash, or its database connection can      *)
(* fail, between any two of these steps.  Deadlines are kept as the time   *)
(* that is left; one Tick is the unit of them all.                         *)
EXTENDS Integers, FiniteSets, Functions

CONSTANTS
  Items,         \* the ids of the rows, in the order they are inserted
  Workers,       \* instances of the server, one run at a time in each
  BatchSize,     \* LIMIT of the claim: 20 events, 10 mails
  MaxAttempts,   \* 10 in the code
  Lease,         \* 2 minutes for events, 5 for mails
  Backoff,       \* the least delay before a retry
  Poison,        \* rows whose handling always throws
  Moot,          \* confirmations of orders that are no longer paid
  Paced,         \* does every worker run once in each unit of time?
  MaxFaults      \* bound on crashes, failed statements and late workers

ASSUME QueueAssumption ==
  /\ Items \subseteq Nat /\ IsFiniteSet(Items) /\ IsFiniteSet(Workers)
  /\ {BatchSize, MaxAttempts, Lease, Backoff} \subseteq Nat \ {0}
  /\ Poison \subseteq Items /\ Moot \subseteq Items
  /\ MaxFaults \in Nat /\ Paced \in BOOLEAN

VARIABLES
  kind,      \* which of the three queues this is
  row,       \* the table: status, attempts, time until available, lease left
  job,       \* what is left of the batch each worker claimed: attempts by id
  called,    \* the row of each worker that took effect and is not marked yet
  effects,   \* how often a row took effect: settled, or mailed
  faults,
  overran,   \* has a lease ended under its worker?
  ran        \* if Paced, the workers whose timer fired in this unit of time
queueVars == <<kind, row, job, called, effects, faults, overran, ran>>
history == <<kind, faults, overran>>

Open == {"none", "pending", "processing"}
Settled == {"processed", "failed"}
Fresh == [status |-> "pending", attempts |-> 0, wait |-> 0, lease |-> 0]
NoJob == [i \in {} |-> 0]

QueueInit ==
  /\ kind \in {"event", "renewal", "order"}
  /\ row = [i \in Items |-> [Fresh EXCEPT !.status = "none"]]
  /\ job = [w \in Workers |-> NoJob]
  /\ called = [w \in Workers |-> {}]
  /\ effects = [i \in Items |-> 0]
  /\ faults = 0
  /\ overran = FALSE
  /\ ran = {}

Ids(w) == DOMAIN job[w]
Held == UNION {Ids(w) : w \in Workers}

(* The row a worker is at: RETURNING promises no order, and a row that took *)
(* effect is marked before the next.                                       *)
Turn(w, i) == i \in Ids(w) /\ called[w] \subseteq {i}

-----------------------------------------------------------------------------

(* Insertion: the key of the row is unique and a conflict does nothing.    *)
Insert(i) ==
  /\ row' = IF row[i].status = "none" THEN [row EXCEPT ![i] = Fresh] ELSE row
  /\ UNCHANGED <<job, called, effects, history, ran>>

(* A webhook, also one that is delivered again.                            *)
EnqueueEvent(i) == kind = "event" /\ Insert(i)

(* sendRenewalReminders: a period that ends within 71 to 72 hours, once.   *)
EnqueueReminder(i) == kind = "renewal" /\ Insert(i)

(* The settlement of an order, or a checkout with nothing to pay.          *)
EnqueueConfirmation(i) == kind = "order" /\ Insert(i)

(* Mutant: rows under a live lease are claimed too. *)
ReadyLeased(i) == row[i].status \in {"pending", "processing"} /\ row[i].wait = 0

(* Mutant: a row that a dead worker left processing is not taken over. *)
ReadyPending(i) == row[i].status = "pending" /\ row[i].wait = 0

Ready(i) ==
  \/ row[i].status = "pending" /\ row[i].wait = 0
  \/ row[i].status = "processing" /\ row[i].lease = 0

(* ORDER BY id LIMIT, locked and updated in one transaction; confirmations *)
(* are claimed one at a time.                                              *)
Batch ==
  LET limit == IF kind = "order" THEN 1 ELSE BatchSize
  IN  {i \in Items : Ready(i) /\ Cardinality({j \in Items : Ready(j) /\ j < i}) < limit}

(* Attempts are counted up to a bound above all that are compared. *)
Counted(n) == IF n <= MaxAttempts + MaxFaults THEN n + 1 ELSE n

(* A claimed event or renewal mail is "processing" until its lease lapses. *)
Leased(r) == [r EXCEPT !.status = "processing", !.attempts = Counted(@), !.lease = Lease]

(* A claimed confirmation merely becomes available again after the lease. *)
Postponed(r) == [r EXCEPT !.attempts = Counted(@), !.wait = Lease]

Claim(w) ==
  /\ job[w] = NoJob /\ Batch # {} /\ w \notin ran
  /\ ran' = IF Paced THEN ran \cup {w} ELSE ran
  /\ row' = [i \in Items |->
       IF i \in Batch
         THEN IF kind = "order" THEN Postponed(row[i]) ELSE Leased(row[i])
         ELSE row[i]]
  /\ job' = [job EXCEPT ![w] = [i \in Batch |-> Counted(row[i].attempts)]]
  /\ UNCHANGED <<called, effects, history>>

-----------------------------------------------------------------------------
(* Handling the current row.  An event is settled under its key, at most   *)
(* once; a mail goes out on every call; a moot confirmation sends nothing. *)
Effect(i) ==
  CASE kind = "event" -> 1
    [] kind = "order" /\ i \in Moot -> effects[i]
    [] OTHER -> effects[i] + 1

Handle(w, i) ==
  /\ Turn(w, i) /\ called[w] = {}
  /\ i \notin Poison
  /\ effects' = [effects EXCEPT ![i] = Effect(i)]
  /\ called' = [called EXCEPT ![w] = {i}]
  /\ UNCHANGED <<row, job, history, ran>>

NextRow(w, i) ==
  /\ job' = [job EXCEPT ![w] = Restrict(@, Ids(w) \ {i})]
  /\ called' = [called EXCEPT ![w] = {}]

(* The row is marked processed, sent or delivered, whatever it is by now. *)
MarkDone(w, i) ==
  /\ Turn(w, i) /\ called[w] = {i}
  /\ row' = [row EXCEPT ![i] =
               [@ EXCEPT !.status = "processed", !.wait = 0, !.lease = 0]]
  /\ NextRow(w, i)
  /\ UNCHANGED <<effects, history, ran>>

(* Mutant: the first failure is final. *)
NeverRetry(r, attempts) == [r EXCEPT !.status = "failed", !.wait = Backoff, !.lease = 0]

GiveUpOrRetry(r, attempts) ==
  [r EXCEPT !.status = IF attempts >= MaxAttempts THEN "failed" ELSE "pending",
            !.wait = Backoff, !.lease = 0]

(* The webhook worker counts the attempts as they were when it claimed. *)
FailEvent(w, i) == row' = [row EXCEPT ![i] = GiveUpOrRetry(@, job[w][i])]

(* The mail worker counts them as they are in the row. *)
FailRenewal(i) == row' = [row EXCEPT ![i] = GiveUpOrRetry(@, @.attempts)]

(* A confirmation that fails is left to its lease, without a limit. *)
FailOrder == row' = row

(* The catch block of a row, after its handling or its update has thrown. *)
Fail(w, i) ==
  /\ Turn(w, i)
  /\ CASE kind = "event"   -> FailEvent(w, i)
       [] kind = "renewal" -> FailRenewal(i)
       [] kind = "order"   -> FailOrder
  /\ NextRow(w, i)
  /\ UNCHANGED <<kind, effects, overran, ran>>

Reject(w, i) == i \in Poison /\ Fail(w, i) /\ UNCHANGED faults

Falter(w, i) == faults < MaxFaults /\ faults' = faults + 1 /\ Fail(w, i)

(* The process dies, or the update of the catch block fails: the rest of   *)
(* the batch is abandoned and waits for its lease to lapse.                *)
Crash(w) ==
  /\ job[w] # NoJob /\ faults < MaxFaults
  /\ faults' = faults + 1
  /\ job' = [job EXCEPT ![w] = NoJob]
  /\ called' = [called EXCEPT ![w] = {}]
  /\ UNCHANGED <<kind, row, effects, overran, ran>>

LeaseLeft(i) == IF kind = "order" THEN row[i].wait ELSE row[i].lease

Elapse(t) == IF t = 0 THEN 0 ELSE t - 1

(* A unit of time.  A lease that ends under a worker is a fault of its own. *)
Tick ==
  /\ \E i \in Items : row[i].wait + row[i].lease > 0
  /\ Paced => Held = {} /\ (ran = Workers \/ Batch = {})
  /\ ran' = {}
  /\ IF \E i \in Held : LeaseLeft(i) = 1
       THEN faults < MaxFaults /\ faults' = faults + 1 /\ overran' = TRUE
       ELSE UNCHANGED <<faults, overran>>
  /\ row' = [i \in Items |->
       [row[i] EXCEPT !.wait = Elapse(@),
                      !.lease = Elapse(@)]]
  /\ UNCHANGED <<kind, job, called, effects>>

Work(w) ==
  \/ Claim(w)
  \/ \E i \in Items : Handle(w, i) \/ MarkDone(w, i) \/ Reject(w, i)

QueueNext ==
  \/ \E i \in Items : EnqueueEvent(i) \/ EnqueueReminder(i) \/ EnqueueConfirmation(i)
  \/ \E w \in Workers :
       \/ Claim(w) \/ Crash(w)
       \/ \E i \in Items :
            Handle(w, i) \/ MarkDone(w, i) \/ Reject(w, i) \/ Falter(w, i)
  \/ Tick

QueueSpec == QueueInit /\ [][QueueNext]_queueVars

(* Timers call the workers again and again, and time passes. *)
QueueFairSpec ==
  QueueSpec /\ (\A w \in Workers : WF_queueVars(Work(w))) /\ WF_queueVars(Tick)

-----------------------------------------------------------------------------
Row == [status : Open \cup Settled,
        attempts : 0..(MaxAttempts + MaxFaults + 1),
        wait : 0..(Lease + Backoff),
        lease : 0..Lease]

QueueTypeOK ==
  /\ kind \in {"event", "renewal", "order"}
  /\ row \in [Items -> Row]
  /\ job = [w \in Workers |-> job[w]]
  /\ \A w \in Workers :
       /\ Ids(w) \subseteq Items /\ Cardinality(Ids(w)) <= BatchSize
       /\ job[w] \in [Ids(w) -> Nat]
  /\ called \in [Workers -> SUBSET Items]
  /\ \A w \in Workers : called[w] # {} => \E i \in Ids(w) : called[w] = {i}
  /\ effects \in [Items -> Nat]
  /\ faults \in 0..MaxFaults /\ overran \in BOOLEAN /\ ran \subseteq Workers

(* As long as batches end within their lease no row is in two hands: a       *)
(* worker's claim excludes the others until it has written the outcome     *)
(* (FOR UPDATE SKIP LOCKED with processing_until or available_at).         *)
OneOwner ==
  ~overran => \A v, w \in Workers : v # w => Ids(v) \cap Ids(w) = {}

(* A row is marked processed, sent or delivered only after it took effect: *)
(* no crash and no failed statement lets a worker lose a payment event or  *)
(* a mail and call it done.                                                *)
DoneMeansDelivered ==
  \A i \in Items :
    row[i].status = "processed" => effects[i] > 0 \/ (kind = "order" /\ i \in Moot)

(* Delivery is at least once, and a second mail about the same thing takes *)
(* a fault each: a crash after SMTP acceptance, a failed update, or a      *)
(* worker that outlives its lease.                                         *)
DuplicatesNeedFaults == \A i \in Items : effects[i] <= 1 + faults

(* No event and no mail is given up before all of its attempts, although   *)
(* one worker counts them as they were at its claim and another as they    *)
(* are; a confirmation never is.                                           *)
GivenUpAfterAll ==
  \A i \in Items :
    row[i].status = "failed" => kind # "order" /\ row[i].attempts >= MaxAttempts

(* At every moment the rows, the workers and what took effect agree.       *)
RowsSafe ==
  QueueTypeOK /\ OneOwner /\ DoneMeansDelivered /\ DuplicatesNeedFaults /\ GivenUpAfterAll

(* What is processed or given up stays so: neither a repeated webhook nor  *)
(* another worker opens it again.  (A worker that outlived its lease does: *)
(* it writes the outcome of its row by id alone.)                          *)
SettledIsFinal ==
  [][~overran => \A i \in Items :
       row[i].status \in Settled => row'[i].status = row[i].status]_queueVars

(* Every event and renewal mail comes to an end, also behind rows that     *)
(* always throw and after the crash of the worker that held it.  (A        *)
(* confirmation that always throws is tried for ever.)                     *)
Resolved ==
  kind # "order" =>
    \A i \in Items : row[i].status = "pending" ~> row[i].status \in Settled

(* Faults that are fewer than the attempts lose nothing: an event or mail  *)
(* that can be handled is handled in the end, and so is a confirmation     *)
(* with none before it that always throws.                                 *)
TransientFaultsRecover ==
  \A i \in Items \ Poison :
    (kind = "order" => \A p \in Poison : i < p) =>
      (row[i].status = "pending" ~> row[i].status = "processed")

(* "Email failures retry independently" (docs/checkout.md): a confirmation *)
(* that can be delivered is, whatever happens to the others.               *)
FailuresIndependent ==
  \A i \in Items \ Poison : row[i].status = "pending" ~> row[i].status = "processed"
=============================================================================
