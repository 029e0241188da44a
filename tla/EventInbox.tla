------------------------------- MODULE EventInbox -------------------------------
(***************************************************************************)
(* The life of on-chain event metrics: MetricPipeline.ingest and process   *)
(* over MetricEventRepository (the processed_metric_events rows) and the   *)
(* per-rule commit of RuleExecutionRepository, for one monitor.            *)
(*                                                                         *)
(* The pipeline works through a monitor's metrics one at a time.  Each     *)
(* SQLite transaction is one step, because the process can be killed       *)
(* between two of them; nothing else interleaves inside process, whose     *)
(* only consumer is synchronous.                                           *)
(***************************************************************************)
EXTENDS Naturals, Sequences

CONSTANTS
  Events,       \* the <<eventId, metric name>> keys of the monitor's events
  Rules,        \* the enabled rules that select them
  Timeout,      \* ticks until a reservation left behind may be reclaimed
  MaxQueue,     \* bound on the metrics waiting
  MaxFailures,  \* bound on the operations that throw
  MaxCrashes,   \* bound on the crashes
  None

ASSUME InboxBounds == {Timeout, MaxQueue, MaxFailures, MaxCrashes} \subseteq Nat
ASSUME NoneIsNoJob ==
  None \notin [event : Events, todo : SUBSET Rules, failed : BOOLEAN]

VARIABLES
  \* in SQLite
  monitor,   \* "enabled", "disabled" or "deleted"
  inbox,     \* per event: status, and the age of the reservation up to Timeout
  commits,   \* rule_event_commits: <<rule, event>>
  raised,    \* alerts rows per <<rule, event>>
  \* in memory
  queue,     \* the promise chain of the monitor
  job,       \* the event in process, None between two of them
  \* counters of the bounds
  failures, crashes

persistent == <<monitor, inbox, commits, raised>>
counters == <<failures, crashes>>
vars == <<monitor, inbox, commits, raised, queue, job, failures, crashes>>

Statuses == {"absent", "processing", "processed"}
Jobs == [event : Events, todo : SUBSET Rules, failed : BOOLEAN]

Absent == [status |-> "absent", age |-> 0]

Init ==
  /\ monitor = "enabled"
  /\ inbox = [e \in Events |-> Absent]
  /\ commits = {}
  /\ raised = [pair \in Rules \X Events |-> 0]
  /\ queue = <<>>
  /\ job = None
  /\ failures = 0 /\ crashes = 0

---------------------------------------------------------------------------
(* MetricPipeline.ingest and the start of process *)

\* A coordinator delivers, or delivers again, an event.
Ingest(e) ==
  /\ Len(queue) < MaxQueue
  /\ queue' = Append(queue, e)
  /\ UNCHANGED <<persistent, job, counters>>

NeverReclaimable(e) == inbox[e].status = "absent"

\* The reservation is free: no row, or one its owner has left for too long.
Reservable(e) ==
  \/ inbox[e].status = "absent"
  \/ inbox[e].status = "processing" /\ inbox[e].age = Timeout

Dequeue == job = None /\ queue # <<>> /\ queue' = Tail(queue)

Reservation == [status |-> "processing", age |-> 0]

Reserve ==
  /\ Dequeue
  /\ LET e == Head(queue)
     IN /\ monitor = "enabled" /\ Reservable(e)
        /\ inbox' = [inbox EXCEPT ![e] = Reservation]
        /\ job' = [event |-> e, todo |-> Rules, failed |-> FALSE]
  /\ UNCHANGED <<monitor, commits, raised, counters>>

\* monitor_not_found, monitor_disabled, duplicate_event or event_processing: the
\* metric is dropped.
Reject ==
  /\ Dequeue
  /\ ~(monitor = "enabled" /\ Reservable(Head(queue)))
  /\ UNCHANGED <<persistent, job, counters>>

---------------------------------------------------------------------------
(* RuleExecutionService.consume on the event, rule by rule *)

AlwaysClaims(r, e) == TRUE

\* The commit row of the rule and the event is new.
Claims(r, e) == <<r, e>> \notin commits

\* The commit row, the rule state and the alert are one transaction; an event
\* whose row exists changes nothing.
EvaluateRule(r) ==
  /\ job # None /\ r \in job.todo
  /\ job' = [job EXCEPT !.todo = @ \ {r}]
  /\ commits' = commits \cup {<<r, job.event>>}
  /\ \E alert \in {0, 1} :
       raised' = IF Claims(r, job.event)
                 THEN [raised EXCEPT ![<<r, job.event>>] = @ + alert]
                 ELSE raised
  /\ UNCHANGED <<monitor, inbox, queue, counters>>

\* The rule throws and rolls back; the other rules still run.
RuleFails(r) ==
  /\ job # None /\ r \in job.todo
  /\ failures < MaxFailures
  /\ job' = [job EXCEPT !.todo = @ \ {r}, !.failed = TRUE]
  /\ failures' = failures + 1
  /\ UNCHANGED <<persistent, queue, crashes>>

\* commit on success; release otherwise, so that the event can be retried.
Settled(e) ==
  IF job.failed THEN Absent ELSE [status |-> "processed", age |-> 0]

Finish ==
  /\ job # None /\ job.todo = {}
  /\ inbox' = [inbox EXCEPT ![job.event] = Settled(job.event)]
  /\ job' = None
  /\ UNCHANGED <<monitor, commits, raised, queue, counters>>

\* A write of process itself throws, before the rules or after them: the
\* reservation stays behind.
ProcessThrows ==
  /\ job # None /\ job.todo \in {Rules, {}}
  /\ failures < MaxFailures
  /\ job' = None
  /\ failures' = failures + 1
  /\ UNCHANGED <<persistent, queue, crashes>>

---------------------------------------------------------------------------
(* The environment *)

Crash ==
  /\ crashes < MaxCrashes
  /\ queue' = <<>> /\ job' = None
  /\ crashes' = crashes + 1
  /\ UNCHANGED <<persistent, failures>>

Reserved(e) == inbox[e].status = "processing" /\ inbox[e].age < Timeout

Tick ==
  /\ \E e \in Events : Reserved(e)
  /\ inbox' = [e \in Events |-> IF Reserved(e) THEN [inbox[e] EXCEPT !.age = @ + 1]
                                ELSE inbox[e]]
  /\ UNCHANGED <<monitor, commits, raised, queue, job, counters>>

\* A route handler does not run in the middle of process, which is synchronous.
SetEnabled(status) ==
  /\ job = None
  /\ monitor # "deleted" /\ monitor # status
  /\ monitor' = status
  /\ UNCHANGED <<inbox, commits, raised, queue, job, counters>>

\* removeMonitor clears the events, the rules cascade.
DeleteMonitor ==
  /\ monitor # "deleted" /\ job = None
  /\ monitor' = "deleted"
  /\ inbox' = [e \in Events |-> Absent]
  /\ commits' = {}
  /\ UNCHANGED <<raised, queue, job, counters>>

Next ==
  \/ \E e \in Events : Ingest(e)
  \/ Reserve
  \/ Reject
  \/ \E r \in Rules : EvaluateRule(r)
  \/ \E r \in Rules : RuleFails(r)
  \/ Finish
  \/ ProcessThrows
  \/ Crash
  \/ Tick
  \/ \E status \in {"enabled", "disabled"} : SetEnabled(status)
  \/ DeleteMonitor

Spec == Init /\ [][Next]_vars

\* The event loop works off the queue and a job, and time passes.  Nothing makes
\* a source deliver, a rule fail, a process crash or a user act.
Fairness ==
  /\ WF_vars(Reserve) /\ WF_vars(Reject)
  /\ WF_vars(\E r \in Rules : EvaluateRule(r))
  /\ WF_vars(Finish)
  /\ WF_vars(Tick)

FairSpec == Spec /\ Fairness

---------------------------------------------------------------------------
(* Properties *)

TypeOK ==
  /\ monitor \in {"enabled", "disabled", "deleted"}
  /\ inbox \in [Events -> [status : Statuses, age : 0..Timeout]]
  /\ commits \subseteq Rules \X Events
  /\ raised \in [Rules \X Events -> Nat]
  /\ queue \in Seq(Events)
  /\ job \in Jobs \cup {None}
  /\ failures \in 0..MaxFailures /\ crashes \in 0..MaxCrashes

\* An event raises at most one alert of a rule, over all redeliveries, retries
\* after failed rules, and restarts.
OneAlertPerEvent == \A pair \in Rules \X Events : raised[pair] <= 1

\* An event is processed, and so never evaluated again, only when every rule has
\* committed it.
ProcessedMeansCommitted ==
  \A e \in Events : inbox[e].status = "processed" => Rules \X {e} \subseteq commits

\* The event in process holds its reservation to the end, even when the rules
\* take longer than the time after which a reservation may be reclaimed.
ReservationHeld == job # None => inbox[job.event].status = "processing"

\* The inbox implements its promise.
Effects == INSTANCE EventEffects WITH
  applied <- commits,
  done <- {e \in Events : inbox[e].status = "processed"},
  deleted <- monitor = "deleted"

EffectsOnce == Effects!Spec

\* A source that keeps delivering an event to a monitor that stays enabled gets
\* it processed: no failure, crash or forgotten reservation blocks it for good.
RedeliveryIsProcessed ==
  \A e \in Events :
    ([]<><<Ingest(e)>>_vars /\ <>[](monitor = "enabled"))
      => <>(inbox[e].status = "processed")
=============================================================================
