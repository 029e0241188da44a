---------------------------- MODULE PollingScheduler ----------------------------
(***************************************************************************)
(* core/scheduling/polling-scheduler.ts: every coordinator polls its       *)
(* sources through it.  A registration is one TaskState object: it lives   *)
(* on in the closures of its timer and of its run after the task has been  *)
(* removed.  The time between polls is left out: an armed timer may fire   *)
(* at any moment.                                                          *)
(***************************************************************************)
EXTENDS Naturals, Sequences

CONSTANTS
  Ids,               \* the task ids
  MaxRegistrations   \* bound on the TaskState objects

ASSUME RegistrationBound == MaxRegistrations \in Nat

VARIABLES
  states,         \* per id: the position in registrations of its state, or 0
  registrations,  \* the TaskState objects, oldest first
  closed,
  awaited         \* the registrations whose runs close() awaits

vars == <<states, registrations, closed, awaited>>

\* scheduled is the generation that the timer and the run in flight captured.
\* runs counts the runs in flight; aborted is the signal of the controller.
TaskState == [id : Ids, generation : {1, 2}, scheduled : {1, 2}, timer : BOOLEAN,
              runs : Nat, aborted : BOOLEAN]

Init ==
  /\ states = [id \in Ids |-> 0]
  /\ registrations = <<>>
  /\ closed = FALSE
  /\ awaited = {}

InFlight == {i \in DOMAIN registrations : registrations[i].runs > 0}

RegisteredInFlight == {i \in InFlight : states[registrations[i].id] = i}

\* What close() awaits: inFlight holds the runs of removed tasks too.
ToAwait == InFlight

Schedule(s) == [s EXCEPT !.timer = TRUE, !.scheduled = s.generation]

\* A new id gets a state and a timer; a known one only has its task replaced,
\* which the next run picks up.
Upsert(id) ==
  /\ ~closed /\ states[id] = 0
  /\ Len(registrations) < MaxRegistrations
  /\ registrations' =
       Append(registrations,
              Schedule([id |-> id, generation |-> 1, scheduled |-> 1, timer |-> FALSE,
                        runs |-> 0, aborted |-> FALSE]))
  /\ states' = [states EXCEPT ![id] = Len(registrations')]
  /\ UNCHANGED <<closed, awaited>>

\* Timer and run belong to the past: the one is cleared, the other aborted.
Retire(s) == [s EXCEPT !.generation = @ + 1, !.timer = FALSE, !.aborted = s.runs > 0]

Unregistered(id) == [states EXCEPT ![id] = 0]

Remove(id) ==
  /\ states[id] # 0
  /\ states' = Unregistered(id)
  /\ registrations' = [registrations EXCEPT ![states[id]] = Retire(@)]
  /\ UNCHANGED <<closed, awaited>>

Close ==
  /\ ~closed
  /\ closed' = TRUE
  /\ states' = [id \in Ids |-> 0]
  /\ registrations' =
       [i \in DOMAIN registrations |->
          IF states[registrations[i].id] = i THEN Retire(registrations[i])
          ELSE registrations[i]]
  /\ awaited' = ToAwait

\* The state is still the registered one, in the generation that scheduled it.
Current(i) ==
  /\ ~closed
  /\ states[registrations[i].id] = i
  /\ registrations[i].generation = registrations[i].scheduled

StopTimer(s) == [s EXCEPT !.timer = FALSE]
StartRun(s) == [s EXCEPT !.runs = s.runs + 1, !.aborted = FALSE]
EndRun(s) == [s EXCEPT !.runs = s.runs - 1, !.aborted = FALSE]

\* The callback starts a run with a controller of its own.
TimerFires(i) ==
  /\ registrations[i].timer
  /\ registrations' =
       [registrations EXCEPT ![i] =
          IF Current(i) THEN StartRun(StopTimer(@)) ELSE StopTimer(@)]
  /\ UNCHANGED <<states, closed, awaited>>

NeverReschedules(i, s) == s

Rescheduled(i, s) == IF Current(i) THEN Schedule(s) ELSE s

\* The run ends, well or with an error, aborted or not: only now is the next
\* poll scheduled.
RunEnds(i) ==
  /\ registrations[i].runs > 0
  /\ registrations' =
       [registrations EXCEPT ![i] = Rescheduled(i, EndRun(@))]
  /\ UNCHANGED <<states, closed, awaited>>

Next ==
  \/ \E id \in Ids : Upsert(id)
  \/ \E id \in Ids : Remove(id)
  \/ Close
  \/ \E i \in DOMAIN registrations : TimerFires(i)
  \/ \E i \in DOMAIN registrations : RunEnds(i)

Spec == Init /\ [][Next]_vars

\* Timers fire and runs end: every read a task makes is bounded by a timeout of
\* its client.  No one is obliged to register, remove or close.
Fairness ==
  \A i \in 1..MaxRegistrations :
    /\ WF_vars(i \in DOMAIN registrations /\ TimerFires(i))
    /\ WF_vars(i \in DOMAIN registrations /\ RunEnds(i))
FairSpec == Spec /\ Fairness

---------------------------------------------------------------------------
(* Properties *)

TypeOK ==
  /\ states \in [Ids -> 0..MaxRegistrations]
  /\ registrations \in Seq(TaskState)
  /\ closed \in BOOLEAN
  /\ awaited \subseteq DOMAIN registrations

\* A registration never has two runs in flight, nor a timer armed beside a run:
\* the next poll is scheduled when the previous one is over.
SequentialRuns ==
  \A i \in DOMAIN registrations :
    registrations[i].runs + (IF registrations[i].timer THEN 1 ELSE 0) <= 1

\* A run that outlives its registration has been told to abort.
StaleRunsAborted ==
  \A i \in InFlight : states[registrations[i].id] # i => registrations[i].aborted

\* Once the promise of close() resolves nothing is in flight, tasks removed
\* before included: the database may be closed under them.
CloseWaitsForAll ==
  closed /\ awaited \cap InFlight = {} => InFlight = {}

\* No poll starts for a task that has been removed, or removed and registered
\* anew, or after the scheduler was closed.
RemovedNeverPolls ==
  [][\A i \in DOMAIN registrations :
       registrations'[i].runs > registrations[i].runs =>
         ~closed /\ states[registrations[i].id] = i]_vars

\* A task that stays registered is polled again and again, and close() ends.
PollsForever ==
  /\ \A i \in 1..MaxRegistrations :
       <>[](\E id \in Ids : states[id] = i) => []<>(i \in InFlight)
  /\ closed ~> InFlight = {}

\* README.md: the scheduler keeps a task from overlapping itself.  Runs of one id
\* may belong to different registrations.
NoOverlapPerTask ==
  \A i, j \in InFlight : registrations[i].id = registrations[j].id => i = j
=============================================================================
