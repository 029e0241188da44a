------------------------------ MODULE AlertDelivery ------------------------------
(***************************************************************************)
(* Delivery of alerts to the notification integrations: the outbox kept in *)
(* the alerts rows (claimNextDelivery, completeDelivery, nextDeliveryAt of *)
(* alert-repository.ts) and its worker, alert-delivery-service.ts.         *)
(*                                                                         *)
(* Time is relative: a wait is the number of ticks until the stored time   *)
(* (nextAttemptAt of a pending target, the end of the 30 s lease of a      *)
(* sending one, deliveryNextAttemptAt of an alert), 0 once it is past.     *)
(***************************************************************************)
EXTENDS Naturals, FiniteSets

CONSTANTS
  Alerts,       \* the alerts that may be raised
  TargetsOf,    \* per alert: the positions of its delivery targets
  MaxAttempts,  \* MAX_ATTEMPTS
  MaxBatch,     \* jobs of one drain
  Lease,        \* ticks until a sending target may be claimed again
  Backoff,      \* per number of attempts: ticks until the next one
  RetryAfters,  \* ticks a provider may ask to wait
  LegacyDue,    \* alerts whose index migration 0010 set too early
  MaxDisruptions, \* bound on faults (crashes, failed writes, lost answers),
                \* orderly stops and changes of the integrations, together
  None

ASSUME DeliveryBounds ==
  /\ {MaxAttempts, MaxBatch, Lease, MaxDisruptions} \subseteq Nat
  /\ MaxAttempts > 0 /\ MaxBatch > 0 /\ Lease > 0
  /\ RetryAfters \subseteq Nat
ASSUME TargetsArePositions ==
  TargetsOf \in [Alerts -> SUBSET Nat] /\ \A a \in Alerts : IsFiniteSet(TargetsOf[a])
ASSUME BackoffIsPositive == Backoff \in [1..MaxAttempts -> Nat \ {0}]

Deliveries == UNION {{a} \X TargetsOf[a] : a \in Alerts}
Integrations == UNION {TargetsOf[a] : a \in Alerts}

ASSUME NoneIsNoDelivery ==
  /\ None \notin Nat
  /\ None \notin [delivery : Deliveries, attempts : Nat, resolved : BOOLEAN, sent : BOOLEAN]

VARIABLES
  \* in SQLite
  status,       \* per alert: "absent", "open" (or acknowledged), "resolved"
  target,       \* per delivery: status, attempts, wait
  due,          \* per alert: wait of deliveryNextAttemptAt, None for null
  usable,       \* per integration: enabled, with a valid configuration
  \* the worker, in memory
  phase,        \* "up", "closing" or "down"
  timer,        \* a timer is armed and held in this.timer
  orphans,      \* armed timers that this.timer no longer refers to
  waiters,      \* timer callbacks waiting for the running drain
  batch,        \* jobs claimed by the running drain, None when none runs
  job,          \* the claimed delivery in hand, None when none is
  \* history, and counters of the bounds
  accepted,     \* per delivery: requests the provider accepted
  faults, stops, changes

stored == <<status, target, due, usable>>
worker == <<phase, timer, orphans, waiters, batch, job>>
counters == <<faults, stops, changes>>
vars == <<status, target, due, usable, phase, timer, orphans, waiters, batch, job,
          accepted, faults, stops, changes>>

Unfinished == {"pending", "sending"}
Terminal == {"sent", "failed", "skipped"}

DeliveriesOf(a) == {a} \X TargetsOf[a]

---------------------------------------------------------------------------
(* nextDeliveryAt *)

MinOf(S) == CHOOSE n \in S : \A m \in S : n <= m

PendingWaits(a, targets) ==
  {targets[d].wait : d \in {x \in DeliveriesOf(a) : targets[x].status = "pending"}}

\* A target being sent counts as well, at the end of its lease.
Waits(a, targets) ==
  {targets[d].wait : d \in {x \in DeliveriesOf(a) : targets[x].status \in Unfinished}}

NextDue(a, targets) ==
  LET waits == Waits(a, targets) IN IF waits = {} THEN None ELSE MinOf(waits)

---------------------------------------------------------------------------

Fresh == [status |-> "pending", attempts |-> 0, wait |-> 0]
Unraised == [status |-> "unraised", attempts |-> 0, wait |-> 0]

\* Alerts of an older version may wait for a retry although migration 0010 has
\* just made them due.
Init ==
  /\ status = [a \in Alerts |-> IF a \in LegacyDue THEN "open" ELSE "absent"]
  /\ target = [d \in Deliveries |->
                 IF d[1] \in LegacyDue
                 THEN [status |-> "pending", attempts |-> 1, wait |-> Backoff[1]]
                 ELSE Unraised]
  /\ due = [a \in Alerts |-> IF a \in LegacyDue THEN 0 ELSE None]
  /\ usable = [i \in Integrations |-> TRUE]
  /\ phase = "down"
  /\ timer = FALSE /\ orphans = 0 /\ waiters = 0
  /\ batch = None /\ job = None
  /\ accepted = [d \in Deliveries |-> 0]
  /\ faults = 0 /\ stops = 0 /\ changes = 0

---------------------------------------------------------------------------
(* The rule engine, the users and time *)

\* commitEvaluation inserts the alert with pending targets that are due at once;
\* onAlertCommitted wakes the worker, which replaces the timer it knows of.
Raise(a) ==
  /\ phase = "up" /\ status[a] = "absent"
  /\ status' = [status EXCEPT ![a] = "open"]
  /\ target' = [d \in Deliveries |-> IF d[1] = a THEN Fresh ELSE target[d]]
  /\ due' = [due EXCEPT ![a] = IF TargetsOf[a] = {} THEN None ELSE 0]
  /\ timer' = TRUE
  /\ UNCHANGED <<usable, phase, orphans, waiters, batch, job, accepted, counters>>

\* A user resolves the alert, or its rule recovers.
Resolve(a) ==
  /\ status[a] = "open"
  /\ status' = [status EXCEPT ![a] = "resolved"]
  /\ UNCHANGED <<target, due, usable, worker, accepted, counters>>

Disrupt == faults + stops + changes < MaxDisruptions

ChangeIntegration(i) ==
  /\ Disrupt
  /\ usable' = [usable EXCEPT ![i] = ~usable[i]]
  /\ changes' = changes + 1
  /\ UNCHANGED <<status, target, due, worker, accepted, faults, stops>>

Elapsed(n) == IF n \in Nat \ {0} THEN n - 1 ELSE n

Tick ==
  /\ \/ \E d \in Deliveries : target[d].wait > 0
     \/ \E a \in Alerts : due[a] # Elapsed(due[a])
  /\ target' = [d \in Deliveries |-> [target[d] EXCEPT !.wait = Elapsed(@)]]
  /\ due' = [a \in Alerts |-> Elapsed(due[a])]
  /\ UNCHANGED <<status, usable, worker, accepted, counters>>

---------------------------------------------------------------------------
(* The polling chain: schedule, processDue *)

\* The callback joins the drain that runs, or starts one.
Callback ==
  /\ batch' = IF batch = None THEN 0 ELSE batch
  /\ waiters' = waiters + 1

TimerFires ==
  /\ phase = "up" /\ timer
  /\ timer' = FALSE
  /\ Callback
  /\ UNCHANGED <<stored, phase, orphans, job, accepted, counters>>

\* An overwritten timer fires too, and forgets whichever one is held by then.
OrphanFires ==
  /\ phase # "down" /\ orphans > 0
  /\ timer' = FALSE
  /\ orphans' = IF timer THEN orphans ELSE orphans - 1
  /\ Callback
  /\ UNCHANGED <<stored, phase, job, accepted, counters>>

NoMoreTimers == UNCHANGED <<timer, orphans>>

\* Every callback that waited schedules the next poll; this.timer keeps the last.
Reschedule ==
  IF phase # "up" THEN UNCHANGED <<timer, orphans>>
  ELSE /\ timer' = TRUE
       /\ orphans' = orphans + (IF timer THEN waiters ELSE waiters - 1)

EndOfDrain == batch' = None /\ waiters' = 0 /\ Reschedule

---------------------------------------------------------------------------
(* claimNextDelivery *)

DueWhateverStatus(d) == target[d].status # "unraised" /\ target[d].wait = 0
IsDue(d) == target[d].status \in Unfinished /\ target[d].wait = 0

DueRows == {a \in Alerts : due[a] = 0}
DueTargets(a) == {d \in DeliveriesOf(a) : IsDue(d)}
\* Rows that are due by their index alone: reading them corrects it.
EarlyRows == {a \in DueRows : DueTargets(a) = {}}

\* findIndex takes the first target that is due.
FirstDue(a) == CHOOSE d \in DueTargets(a) : \A e \in DueTargets(a) : d[2] <= e[2]

Claimed(d) == [status |-> "sending", attempts |-> target[d].attempts + 1, wait |-> Lease]

MayClaim == phase = "up" /\ batch # None /\ batch < MaxBatch /\ job = None

\* One transaction; the early rows read before the claimed one are corrected.
Claim(a, early) ==
  /\ MayClaim
  /\ a \in DueRows \ EarlyRows /\ early \subseteq EarlyRows
  /\ LET d == FirstDue(a)
     IN /\ target' = [target EXCEPT ![d] = Claimed(d)]
        /\ due' = [b \in Alerts |-> IF b \in early \cup {a} THEN NextDue(b, target')
                                    ELSE due[b]]
        /\ job' = [delivery |-> d, attempts |-> Claimed(d).attempts,
                   resolved |-> status[a] = "resolved", sent |-> FALSE]
  /\ batch' = batch + 1
  /\ UNCHANGED <<status, usable, phase, timer, orphans, waiters, accepted, counters>>

\* Nothing is due, the batch is full or the worker is closing: the drain ends.
ClaimNothing ==
  /\ batch # None /\ job = None
  /\ ~MayClaim \/ DueRows \ EarlyRows = {}
  /\ due' = [a \in Alerts |-> IF MayClaim /\ a \in EarlyRows THEN NextDue(a, target)
                              ELSE due[a]]
  /\ EndOfDrain
  /\ UNCHANGED <<status, target, usable, phase, job, accepted, counters>>

---------------------------------------------------------------------------
(* deliver and completeDelivery *)

\* The target is still the one this job claimed.
StillOurs(t) == t.status = "sending" /\ t.attempts = job.attempts

Complete(outcome, wait) ==
  LET d == job.delivery
  IN /\ IF StillOurs(target[d])
        THEN /\ target' = [target EXCEPT ![d].status = outcome, ![d].wait = wait]
             /\ due' = [due EXCEPT ![d[1]] = NextDue(d[1], target')]
        ELSE UNCHANGED <<target, due>>
     /\ job' = None
     /\ UNCHANGED <<status, usable, phase, timer, orphans, waiters, batch>>

Exhausted == job.attempts > MaxAttempts
Sendable == ~Exhausted /\ ~job.resolved /\ usable[job.delivery[2]]

\* Attempts used up, alert resolved when it was claimed, or no integration to
\* send to.
GiveUp ==
  /\ job # None /\ ~job.sent /\ ~Sendable
  /\ Complete(IF Exhausted THEN "failed" ELSE "skipped", 0)
  /\ UNCHANGED <<accepted, counters>>

Send ==
  /\ job # None /\ ~job.sent /\ Sendable
  /\ job' = [job EXCEPT !.sent = TRUE]
  /\ UNCHANGED <<stored, phase, timer, orphans, waiters, batch, accepted, counters>>

Accept == accepted' = [accepted EXCEPT ![job.delivery] = @ + 1]

Succeed ==
  /\ job # None /\ job.sent
  /\ Complete("sent", 0)
  /\ Accept
  /\ UNCHANGED counters

RefusePermanently ==
  /\ job # None /\ job.sent
  /\ Complete("failed", 0)
  /\ UNCHANGED <<accepted, counters>>

LargerOf(m, n) == IF m > n THEN m ELSE n

\* max(retryAfter, min(300, 5 * 2^(attempts - 1))), unless attempts are used up.
RetryLater(retryAfter) ==
  IF job.attempts >= MaxAttempts THEN Complete("failed", 0)
  ELSE Complete("pending", LargerOf(retryAfter, Backoff[job.attempts]))

RefuseForNow(retryAfter) ==
  /\ job # None /\ job.sent
  /\ RetryLater(retryAfter)
  /\ UNCHANGED <<accepted, counters>>

\* The provider accepted, but its answer timed out.
LoseAnswer ==
  /\ job # None /\ job.sent
  /\ Disrupt /\ faults' = faults + 1
  /\ RetryLater(0)
  /\ Accept
  /\ UNCHANGED <<stops, changes>>

\* completeDelivery throws after the answer: the drain ends, the row still says
\* sending.
CompleteThrows ==
  /\ job # None
  /\ Disrupt /\ faults' = faults + 1
  /\ job' = None
  /\ EndOfDrain
  /\ IF job.sent THEN Accept ELSE UNCHANGED accepted
  /\ UNCHANGED <<stored, phase, stops, changes>>

---------------------------------------------------------------------------
(* start, close and crashes *)

Start ==
  /\ phase = "down"
  /\ phase' = "up" /\ timer' = TRUE
  /\ UNCHANGED <<stored, orphans, waiters, batch, job, accepted, counters>>

Close ==
  /\ phase = "up" /\ Disrupt
  /\ phase' = "closing" /\ timer' = FALSE
  /\ stops' = stops + 1
  /\ UNCHANGED <<stored, orphans, waiters, batch, job, accepted, faults, changes>>

ForgetWorker ==
  /\ phase' = "down" /\ timer' = FALSE /\ orphans' = 0 /\ waiters' = 0
  /\ batch' = None /\ job' = None

NotAwaited == TRUE
DrainAwaited == batch = None

\* close has awaited the running drain; the database closes and the process ends.
Closed ==
  /\ phase = "closing" /\ DrainAwaited
  /\ ForgetWorker
  /\ UNCHANGED <<stored, accepted, counters>>

\* A request under way may still reach the provider.
Crash ==
  /\ phase # "down"
  /\ Disrupt /\ faults' = faults + 1
  /\ ForgetWorker
  /\ IF job # None /\ job.sent
     THEN Accept \/ UNCHANGED accepted
     ELSE UNCHANGED accepted
  /\ UNCHANGED <<stored, stops, changes>>

---------------------------------------------------------------------------

Deliver ==
  \/ GiveUp
  \/ Send
  \/ Succeed
  \/ RefusePermanently
  \/ \E r \in RetryAfters : RefuseForNow(r)
  \/ LoseAnswer
  \/ CompleteThrows

Next ==
  \/ \E a \in Alerts : Raise(a)
  \/ \E a \in Alerts : Resolve(a)
  \/ \E i \in Integrations : ChangeIntegration(i)
  \/ Tick
  \/ TimerFires
  \/ OrphanFires
  \/ \E a \in Alerts, early \in SUBSET EarlyRows : Claim(a, early)
  \/ ClaimNothing
  \/ Deliver
  \/ Start
  \/ Close
  \/ Closed
  \/ Crash

Spec == Init /\ [][Next]_vars

\* Time passes, armed timers fire, the event loop continues the drain, a request
\* is answered or times out (10 s), and the service is started again.  Faults,
\* stops and users are under no obligation.
Fairness ==
  /\ WF_vars(Tick)
  /\ WF_vars(TimerFires)
  /\ WF_vars(\E a \in Alerts : Claim(a, {}))
  /\ WF_vars(ClaimNothing)
  /\ WF_vars(Deliver)
  /\ WF_vars(Closed)
  /\ WF_vars(Start)

FairSpec == Spec /\ Fairness

---------------------------------------------------------------------------
(* Properties *)

TargetStatuses == Unfinished \cup Terminal \cup {"unraised"}

TypeOK ==
  /\ status \in [Alerts -> {"absent", "open", "resolved"}]
  /\ target \in [Deliveries -> [status : TargetStatuses, attempts : Nat, wait : Nat]]
  /\ due \in [Alerts -> Nat \cup {None}]
  /\ usable \in [Integrations -> BOOLEAN]
  /\ phase \in {"up", "closing", "down"}
  /\ timer \in BOOLEAN /\ orphans \in Nat /\ waiters \in Nat
  /\ batch \in 0..MaxBatch \cup {None}
  /\ job \in [delivery : Deliveries, attempts : Nat, resolved : BOOLEAN, sent : BOOLEAN]
             \cup {None}
  /\ accepted \in [Deliveries -> Nat]
  /\ {faults, stops, changes} \subseteq 0..MaxDisruptions

\* No delivery is forgotten: an alert with an unfinished target is indexed, and
\* for a time no later than the one at which that target is due.
IndexCoversTargets ==
  \A d \in Deliveries : target[d].status \in Unfinished =>
    due[d[1]] # None /\ due[d[1]] <= target[d].wait

\* A message reaches the provider twice only after a crash, a failed write or a
\* lost answer: each of these explains one repetition.
DuplicatesNeedAFault == \A d \in Deliveries : accepted[d] <= 1 + faults

\* An orderly stop cuts no request off: unless something failed, the service is
\* never down with a target still claimed, which would be sent to twice.
StopsBetweenRequests ==
  phase = "down" /\ faults = 0 => \A d \in Deliveries : target[d].status # "sending"

\* While the service runs the worker has a timer armed or a drain under way: it
\* never stops polling, whatever throws.
PollingContinues == phase = "up" => timer \/ orphans > 0 \/ waiters > 0

\* Every target of a raised alert gets to an end, through retries, failed
\* writes, crashes, restarts and stops.
EveryTargetFinishes ==
  \A d \in Deliveries : target[d].status \in Unfinished ~> target[d].status \in Terminal
=============================================================================
