---------------------------- MODULE EventInboxProofs ----------------------------
(***************************************************************************)
(* Theorems about EventInbox, for every set of events and rules and every  *)
(* bound: its safety properties and its refinement of EventEffects.        *)
(***************************************************************************)
EXTENDS EventInbox, TLAPS

\* What a job has left to do, and what the alerts raised so far rest on, is
\* recorded in the commits.
JobProgress ==
  job # None /\ ~job.failed => (Rules \ job.todo) \X {job.event} \subseteq commits

RaisedAreCommitted ==
  monitor # "deleted" => \A pair \in Rules \X Events : raised[pair] > 0 => pair \in commits

DeletedIsIdle == monitor = "deleted" => job = None

\* The inductive invariant.
Inv ==
  /\ TypeOK
  /\ ReservationHeld
  /\ JobProgress
  /\ ProcessedMeansCommitted
  /\ RaisedAreCommitted
  /\ OneAlertPerEvent
  /\ DeletedIsIdle

LEMMA InitInv == Init => Inv
  BY InboxBounds
  DEF Init, Inv, TypeOK, ReservationHeld, JobProgress, ProcessedMeansCommitted,
      RaisedAreCommitted, OneAlertPerEvent, DeletedIsIdle, Absent, Statuses

\* Types, one step per action.
LEMMA TypeStep == TypeOK /\ [Next]_vars => TypeOK'
<1> USE InboxBounds, NoneIsNoJob DEF TypeOK, Jobs, Statuses, persistent, counters
<1> SUFFICES ASSUME TypeOK, [Next]_vars PROVE TypeOK'
  OBVIOUS
<1>1. ASSUME NEW e \in Events, Ingest(e) PROVE TypeOK'
  BY <1>1 DEF Ingest
<1>2. CASE Reserve
  <2>1. Head(queue) \in Events /\ queue' \in Seq(Events)
    BY <1>2 DEF Reserve, Dequeue
  <2> QED BY <1>2, <2>1 DEF Reserve, Reservation
<1>3. CASE Reject
  BY <1>3 DEF Reject, Dequeue
<1>4. ASSUME NEW r \in Rules, EvaluateRule(r) PROVE TypeOK'
  <2>1. job \in Jobs
    BY <1>4 DEF EvaluateRule
  <2>2. PICK alert \in {0, 1} :
          raised' = IF Claims(r, job.event)
                    THEN [raised EXCEPT ![<<r, job.event>>] = @ + alert] ELSE raised
    BY <1>4 DEF EvaluateRule
  <2>3. raised' \in [Rules \X Events -> Nat]
    BY <2>1, <2>2
  <2>4. job' \in Jobs /\ commits' \subseteq Rules \X Events
    BY <1>4, <2>1 DEF EvaluateRule
  <2> QED BY <1>4, <2>3, <2>4 DEF EvaluateRule
<1>5. ASSUME NEW r \in Rules, RuleFails(r) PROVE TypeOK'
  <2>1. job' \in Jobs
    BY <1>5 DEF RuleFails
  <2> QED BY <1>5, <2>1 DEF RuleFails
<1>6. CASE Finish
  BY <1>6 DEF Finish, Settled, Absent
<1>7. CASE ProcessThrows
  BY <1>7 DEF ProcessThrows
<1>8. CASE Crash
  BY <1>8 DEF Crash
<1>9. CASE Tick
  BY <1>9 DEF Tick, Reserved
<1>10. ASSUME NEW status \in {"enabled", "disabled"}, SetEnabled(status) PROVE TypeOK'
  BY <1>10 DEF SetEnabled
<1>11. CASE DeleteMonitor
  BY <1>11 DEF DeleteMonitor, Absent
<1>12. CASE UNCHANGED vars
  BY <1>12 DEF vars
<1> QED
  BY <1>1, <1>2, <1>3, <1>4, <1>5, <1>6, <1>7, <1>8, <1>9, <1>10, <1>11, <1>12 DEF Next

\* Every value the variables can take has its type: the inbox rows, the commits
\* and alerts, and the job that MetricPipeline.process has in hand.
THEOREM TypeCorrect == Spec => []TypeOK
<1>1. Init => TypeOK
  BY InitInv DEF Inv
<1> QED
  BY <1>1, TypeStep, PTL DEF Spec

---------------------------------------------------------------------------

\* The event that a reservation is made for.
LEMMA ReserveTakesEvent ==
  ASSUME TypeOK, Reserve
  PROVE  \E e \in Events :
           /\ monitor = "enabled" /\ inbox[e].status # "processed"
           /\ inbox' = [inbox EXCEPT ![e] = Reservation]
           /\ job' = [event |-> e, todo |-> Rules, failed |-> FALSE]
<1>1. Head(queue) \in Events
  BY DEF TypeOK, Reserve, Dequeue
<1>2. inbox[Head(queue)].status # "processed"
  BY DEF Reserve, Reservable
<1> QED
  BY <1>1, <1>2 DEF Reserve

\* The invariant, one step per action.
LEMMA InvStep == Inv /\ [Next]_vars => Inv'
<1> SUFFICES ASSUME Inv, [Next]_vars PROVE Inv'
  OBVIOUS
<1> USE NoneIsNoJob
    DEF ReservationHeld, JobProgress, ProcessedMeansCommitted, RaisedAreCommitted,
        OneAlertPerEvent, DeletedIsIdle, persistent, counters
<1>1. TypeOK /\ TypeOK'
  BY TypeStep DEF Inv
<1>2. job # None => job \in Jobs
  BY <1>1 DEF TypeOK
<1>3. ASSUME NEW e \in Events, Ingest(e) PROVE Inv'
  BY <1>1, <1>3 DEF Inv, Ingest
<1>4. CASE Reserve
  <2>1. PICK e \in Events :
          /\ monitor = "enabled" /\ inbox[e].status # "processed"
          /\ inbox' = [inbox EXCEPT ![e] = Reservation]
          /\ job' = [event |-> e, todo |-> Rules, failed |-> FALSE]
    BY <1>1, <1>4, ReserveTakesEvent
  <2>2. ReservationHeld' /\ JobProgress'
    BY <1>1, <2>1 DEF Reservation, TypeOK
  <2>3. ProcessedMeansCommitted'
    BY <1>1, <1>4, <2>1 DEF Inv, Reserve, Reservation, TypeOK
  <2> QED BY <1>1, <1>4, <2>1, <2>2, <2>3 DEF Inv, Reserve
<1>5. CASE Reject
  BY <1>1, <1>5 DEF Inv, Reject, Dequeue
<1>6. ASSUME NEW r \in Rules, EvaluateRule(r) PROVE Inv'
  <2>1. job \in Jobs /\ job' \in Jobs /\ r \in job.todo
    BY <1>2, <1>6 DEF EvaluateRule, Jobs
  <2>2. /\ job'.event = job.event /\ job'.failed = job.failed
        /\ job'.todo = job.todo \ {r}
        /\ commits' = commits \cup {<<r, job.event>>}
        /\ UNCHANGED <<monitor, inbox>>
    BY <2>1, <1>6 DEF EvaluateRule, Jobs
  <2>3. ReservationHeld' /\ JobProgress' /\ ProcessedMeansCommitted'
    BY <1>6, <2>1, <2>2 DEF Inv, EvaluateRule, Jobs
  <2>4. PICK alert \in {0, 1} :
          raised' = IF Claims(r, job.event)
                    THEN [raised EXCEPT ![<<r, job.event>>] = @ + alert] ELSE raised
    BY <1>6 DEF EvaluateRule
  <2>5. monitor # "deleted"
    BY <1>6 DEF Inv, EvaluateRule
  <2>6. RaisedAreCommitted'
    BY <1>1, <2>1, <2>2, <2>4, <2>5 DEF Inv, TypeOK, Jobs
  <2>7. Claims(r, job.event) => raised[<<r, job.event>>] = 0
    BY <1>1, <2>1, <2>5 DEF Inv, Claims, TypeOK, Jobs
  <2>8. OneAlertPerEvent'
    BY <1>1, <2>1, <2>4, <2>7 DEF Inv, TypeOK, Jobs
  <2> QED BY <1>1, <2>2, <2>3, <2>5, <2>6, <2>8 DEF Inv
<1>7. ASSUME NEW r \in Rules, RuleFails(r) PROVE Inv'
  <2>1. job \in Jobs /\ job'.event = job.event /\ job'.failed
    BY <1>2, <1>7 DEF RuleFails, Jobs
  <2> QED BY <1>1, <1>7, <2>1 DEF Inv, RuleFails
<1>8. CASE Finish
  <2>1. job \in Jobs /\ job.event \in Events /\ job.todo = {}
    BY <1>2, <1>8 DEF Finish, Jobs
  <2>2. ~job.failed => Rules \X {job.event} \subseteq commits
    BY <1>8, <2>1 DEF Inv, Finish
  <2>3. ProcessedMeansCommitted'
    BY <1>1, <1>8, <2>1, <2>2 DEF Inv, Finish, Settled, Absent, TypeOK
  <2> QED BY <1>1, <1>8, <2>3 DEF Inv, Finish
<1>9. CASE ProcessThrows
  BY <1>1, <1>9 DEF Inv, ProcessThrows
<1>10. CASE Crash
  BY <1>1, <1>10 DEF Inv, Crash
<1>11. CASE Tick
  <2>1. \A e \in Events : inbox'[e].status = inbox[e].status
    BY <1>1, <1>11 DEF Tick, TypeOK
  <2>2. job # None => job.event \in Events
    BY <1>2 DEF Jobs
  <2> QED BY <1>1, <1>11, <2>1, <2>2 DEF Inv, Tick
<1>12. ASSUME NEW status \in {"enabled", "disabled"}, SetEnabled(status) PROVE Inv'
  BY <1>1, <1>12 DEF Inv, SetEnabled
<1>13. CASE DeleteMonitor
  BY <1>1, <1>13 DEF Inv, DeleteMonitor, Absent
<1>14. CASE UNCHANGED vars
  BY <1>1, <1>14 DEF Inv, vars
<1> QED
  BY <1>3, <1>4, <1>5, <1>6, <1>7, <1>8, <1>9, <1>10, <1>11, <1>12, <1>13, <1>14 DEF Next

LEMMA InvAlways == Spec => []Inv
  BY InitInv, InvStep, PTL DEF Spec

\* An event raises at most one alert of a rule, whatever is redelivered, fails or
\* crashes: an alert and its commit row are one transaction, and the row bars the
\* next one (RuleExecutionRepository.commitEvaluation).
THEOREM OneAlertPerEventAlways == Spec => []OneAlertPerEvent
<1>1. Inv => OneAlertPerEvent
  BY DEF Inv
<1> QED
  BY <1>1, InvAlways, PTL

\* An event is marked processed only after every rule has committed it
\* (MetricPipeline.process).
THEOREM ProcessedMeansCommittedAlways == Spec => []ProcessedMeansCommitted
<1>1. Inv => ProcessedMeansCommitted
  BY DEF Inv
<1> QED
  BY <1>1, InvAlways, PTL

\* The event in process keeps its reservation, however long its rules take
\* (MetricEventRepository.reserve).
THEOREM ReservationHeldAlways == Spec => []ReservationHeld
<1>1. Inv => ReservationHeld
  BY DEF Inv
<1> QED
  BY <1>1, InvAlways, PTL

---------------------------------------------------------------------------
(* Refinement: every step of the inbox is a step of EventEffects or leaves *)
(* its variables alone.                                                    *)

Done == {e \in Events : inbox[e].status = "processed"}
Deleted == monitor = "deleted"

LEMMA EffectsInit == Init => Effects!Init
  BY DEF Init, Effects!Init, Absent

LEMMA EffectsStep == Inv /\ [Next]_vars => [Effects!Next]_(Effects!effectVars)
<1> SUFFICES ASSUME Inv, [Next]_vars PROVE Effects!Next \/ UNCHANGED Effects!effectVars
  OBVIOUS
<1> USE NoneIsNoJob DEF persistent, counters
<1>1. TypeOK
  BY DEF Inv
<1>2. job # None => job \in Jobs
  BY <1>1 DEF TypeOK
<1>3. ASSUME UNCHANGED <<commits, raised, monitor, Done>> PROVE UNCHANGED Effects!effectVars
  BY <1>3 DEF Effects!effectVars, Done
<1>4. ASSUME NEW e \in Events, Ingest(e) PROVE UNCHANGED Effects!effectVars
  BY <1>4 DEF Ingest, Effects!effectVars
<1>5. CASE Reserve
  <2>1. PICK e \in Events : /\ inbox[e].status # "processed"
                            /\ inbox' = [inbox EXCEPT ![e] = Reservation]
    BY <1>1, <1>5, ReserveTakesEvent
  <2>2. Done' = Done
    BY <1>1, <2>1 DEF Done, Reservation, TypeOK
  <2> QED BY <1>3, <1>5, <2>2 DEF Reserve
<1>6. CASE Reject
  BY <1>6 DEF Reject, Effects!effectVars
<1>7. ASSUME NEW r \in Rules, EvaluateRule(r)
      PROVE Effects!Next \/ UNCHANGED Effects!effectVars
  <2>1. job \in Jobs /\ job.event \in Events
    BY <1>2, <1>7 DEF EvaluateRule, Jobs
  <2>2. ~Deleted /\ job.event \notin Done
    BY <1>7, <2>1 DEF Inv, DeletedIsIdle, ReservationHeld, EvaluateRule, Deleted, Done
  <2>3. PICK alert \in {0, 1} :
          raised' = IF Claims(r, job.event)
                    THEN [raised EXCEPT ![<<r, job.event>>] = @ + alert] ELSE raised
    BY <1>7 DEF EvaluateRule
  <2>4. CASE Claims(r, job.event)
    <3>1. raised[<<r, job.event>>] = 0
      BY <1>1, <2>1, <2>2, <2>4 DEF Inv, RaisedAreCommitted, Claims, TypeOK, Deleted
    <3>2. raised' = [raised EXCEPT ![<<r, job.event>>] = alert]
      BY <2>3, <2>4, <3>1
    <3>3. Effects!Apply(r, job.event)
      BY <1>7, <2>2, <2>4, <3>2 DEF EvaluateRule, Claims, Effects!Apply, Deleted, Done
    <3> QED BY <2>1, <3>3 DEF Effects!Next
  <2>5. CASE ~Claims(r, job.event)
    <3>1. commits' = commits /\ raised' = raised /\ inbox' = inbox /\ monitor' = monitor
      BY <1>7, <2>3, <2>5 DEF EvaluateRule, Claims
    <3> QED BY <3>1, <1>3 DEF Done
  <2> QED BY <2>4, <2>5
<1>8. ASSUME NEW r \in Rules, RuleFails(r) PROVE UNCHANGED Effects!effectVars
  BY <1>8 DEF RuleFails, Effects!effectVars
<1>9. CASE Finish
  <2>1. job \in Jobs /\ job.event \in Events /\ job.todo = {}
    BY <1>2, <1>9 DEF Finish, Jobs
  <2>2. ~Deleted /\ job.event \notin Done
    BY <1>9, <2>1 DEF Inv, DeletedIsIdle, ReservationHeld, Finish, Deleted, Done
  <2>3. CASE job.failed
    <3>1. Done' = Done
      BY <1>1, <1>9, <2>1, <2>2, <2>3 DEF Finish, Settled, Absent, Done, TypeOK
    <3> QED BY <1>3, <1>9, <3>1 DEF Finish
  <2>4. CASE ~job.failed
    <3>1. Done' = Done \cup {job.event}
      BY <1>1, <1>9, <2>1, <2>4 DEF Finish, Settled, Done, TypeOK
    <3>2. Rules \X {job.event} \subseteq commits
      BY <1>9, <2>1, <2>4 DEF Inv, JobProgress, Finish
    <3>3. PICK e \in Events : e = job.event
      BY <2>1
    <3>4. Effects!Complete(e)
      BY <1>9, <2>2, <3>1, <3>2, <3>3 DEF Finish, Effects!Complete, Done, Deleted
    <3> QED BY <3>4 DEF Effects!Next
  <2> QED BY <2>3, <2>4
<1>10. CASE ProcessThrows
  BY <1>10 DEF ProcessThrows, Effects!effectVars
<1>11. CASE Crash
  BY <1>11 DEF Crash, Effects!effectVars
<1>12. CASE Tick
  <2>1. Done' = Done
    BY <1>1, <1>12 DEF Tick, Done, TypeOK
  <2> QED BY <1>3, <1>12, <2>1 DEF Tick
<1>13. ASSUME NEW status \in {"enabled", "disabled"}, SetEnabled(status)
       PROVE UNCHANGED Effects!effectVars
  BY <1>13 DEF SetEnabled, Effects!effectVars
<1>14. CASE DeleteMonitor
  <2>1. Done' = {}
    BY <1>14 DEF DeleteMonitor, Absent, Done
  <2>2. Effects!Forget
    BY <1>14, <2>1 DEF DeleteMonitor, Effects!Forget, Done
  <2> QED BY <2>2 DEF Effects!Next
<1>15. CASE UNCHANGED vars
  BY <1>15 DEF vars, Effects!effectVars
<1> QED
  BY <1>4, <1>5, <1>6, <1>7, <1>8, <1>9, <1>10, <1>11, <1>12, <1>13, <1>14, <1>15 DEF Next

\* The inbox, with its reservations, retries and restarts, implements the
\* at-most-one-effect promise of EventEffects.
THEOREM ImplementsEffects == Spec => EffectsOnce
  BY EffectsInit, EffectsStep, InvAlways, PTL DEF Spec, EffectsOnce, Effects!Spec
=============================================================================
