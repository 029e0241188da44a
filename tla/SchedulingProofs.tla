---------------------------- MODULE SchedulingProofs ----------------------------
(***************************************************************************)
(* Theorems about PollingScheduler, for every set of task ids and any      *)
(* number of registrations, and about EventScanner, for every chain, every *)
(* configuration of the scan and any number of reorganisations, faults,    *)
(* restarts and reconciliations.                                           *)
(***************************************************************************)
EXTENDS Scheduling, SequenceTheorems, TLAPS

---------------------------------------------------------------------------
(* The scheduler *)

\* A registered state belongs to its id and has not been retired.
RegisteredIsCurrent ==
  \A id \in Ids : states[id] # 0 =>
    /\ states[id] \in DOMAIN registrations
    /\ registrations[states[id]].id = id
    /\ registrations[states[id]].generation = 1

\* Only registered states have a timer: remove() and close() clear it.
TimersAreRegistered ==
  \A i \in DOMAIN registrations : registrations[i].timer => states[registrations[i].id] = i

\* A generation captured at scheduling time is the first: retired states are not
\* scheduled again.
ScheduledFirst == \A i \in DOMAIN registrations : registrations[i].scheduled = 1

ClosedIsEmpty == closed => \A id \in Ids : states[id] = 0

AwaitsEveryRun == closed => InFlight \subseteq awaited

\* The inductive invariant.
Inv ==
  /\ TypeOK
  /\ RegisteredIsCurrent
  /\ TimersAreRegistered
  /\ ScheduledFirst
  /\ SequentialRuns
  /\ StaleRunsAborted
  /\ ClosedIsEmpty
  /\ AwaitsEveryRun

LEMMA InitInv == Init => Inv
<1> SUFFICES ASSUME Init PROVE Inv
  OBVIOUS
<1>1. registrations = <<>> /\ DOMAIN registrations = {}
  BY DEF Init
<1>2. registrations \in Seq(TaskState)
  BY <1>1, EmptySeq
<1>3. TypeOK
  <2>1. states \in [Ids -> 0..MaxRegistrations] /\ closed = FALSE /\ awaited = {}
    BY RegistrationBound DEF Init
  <2> QED BY <1>2, <2>1 DEF TypeOK
<1>4. InFlight = {}
  BY <1>1 DEF InFlight
<1> QED
  BY <1>1, <1>3, <1>4
  DEF Init, Inv, RegisteredIsCurrent, TimersAreRegistered, ScheduledFirst, SequentialRuns,
      StaleRunsAborted, ClosedIsEmpty, AwaitsEveryRun

LEMMA States ==
  ASSUME TypeOK
  PROVE  /\ Len(registrations) \in Nat
         /\ DOMAIN registrations = 1..Len(registrations)
         /\ \A i \in DOMAIN registrations :
              /\ registrations[i] \in TaskState
              /\ registrations[i].id \in Ids
              /\ registrations[i].runs \in Nat
              /\ registrations[i].timer \in BOOLEAN
<1>1. registrations \in Seq(TaskState)
  BY DEF TypeOK
<1>2. Len(registrations) \in Nat /\ DOMAIN registrations = 1..Len(registrations)
  BY <1>1, LenProperties
<1>3. \A i \in 1..Len(registrations) : registrations[i] \in TaskState
  BY <1>1, ElementOfSeq
<1> QED
  BY <1>2, <1>3 DEF TaskState

\* What an action on the registration at position i leaves.
LEMMA Replaced ==
  ASSUME TypeOK, NEW i \in DOMAIN registrations, NEW s \in TaskState,
         registrations' = [registrations EXCEPT ![i] = s]
  PROVE  /\ registrations' \in Seq(TaskState)
         /\ DOMAIN registrations' = DOMAIN registrations
         /\ \A j \in DOMAIN registrations :
              registrations'[j] = IF j = i THEN s ELSE registrations[j]
<1>1. i \in 1..Len(registrations) /\ registrations \in Seq(TaskState)
  BY States DEF TypeOK
<1> QED
  BY <1>1, ExceptSeq, LenProperties, States DEF TypeOK

LEMMA UpsertStep == ASSUME Inv, NEW id \in Ids, Upsert(id) PROVE Inv'
<1> DEFINE n == Len(registrations)
           new == Schedule([id |-> id, generation |-> 1, scheduled |-> 1,
                            timer |-> FALSE, runs |-> 0, aborted |-> FALSE])
<1> HIDE DEF new
<1>1. /\ new \in TaskState /\ new.id = id /\ new.generation = 1 /\ new.scheduled = 1
      /\ new.runs = 0 /\ new.timer = TRUE
  BY DEF new, Schedule, TaskState
<1>2. TypeOK /\ registrations \in Seq(TaskState)
  BY DEF Inv, TypeOK
<1>3. registrations' = Append(registrations, new)
  BY DEF Upsert, new
<1>4. /\ registrations' \in Seq(TaskState)
      /\ Len(registrations') = n + 1
      /\ \A i \in 1..n : registrations'[i] = registrations[i]
      /\ registrations'[n + 1] = new
  BY <1>1, <1>2, <1>3, AppendProperties
<1>5. DOMAIN registrations = 1..n /\ DOMAIN registrations' = 1..(n + 1) /\ n \in Nat
  BY <1>2, <1>4, States, LenProperties DEF n
<1>6. /\ states[id] = 0 /\ ~closed /\ closed' = closed /\ awaited' = awaited
      /\ states' = [states EXCEPT ![id] = n + 1]
      /\ n + 1 <= MaxRegistrations
  <2>1. /\ states[id] = 0 /\ ~closed /\ closed' = closed /\ awaited' = awaited
        /\ states' = [states EXCEPT ![id] = Len(registrations')]
        /\ n < MaxRegistrations
    BY Zenon DEF Upsert, n
  <2> QED BY <1>4, <1>5, <2>1, RegistrationBound
<1> HIDE DEF n
<1>7. TypeOK'
  BY <1>2, <1>4, <1>5, <1>6, RegistrationBound DEF TypeOK
<1>8. RegisteredIsCurrent' /\ ScheduledFirst'
  BY <1>1, <1>2, <1>4, <1>5, <1>6 DEF Inv, RegisteredIsCurrent, ScheduledFirst, TypeOK
<1>9. TimersAreRegistered'
  BY <1>1, <1>2, <1>4, <1>5, <1>6, States DEF Inv, TimersAreRegistered, TypeOK
<1>10. SequentialRuns' /\ InFlight' = InFlight
  BY <1>1, <1>4, <1>5 DEF Inv, SequentialRuns, InFlight
<1>11. StaleRunsAborted'
  BY <1>1, <1>2, <1>4, <1>5, <1>6, <1>10, States DEF Inv, StaleRunsAborted, InFlight, TypeOK
<1> QED
  BY <1>6, <1>7, <1>8, <1>9, <1>10, <1>11 DEF Inv, ClosedIsEmpty, AwaitsEveryRun

\* Retiring a state, which happens once, keeps its id and its run.
LEMMA Retired ==
  ASSUME NEW s \in TaskState, s.generation = 1
  PROVE  /\ Retire(s) \in TaskState
         /\ Retire(s).id = s.id
         /\ Retire(s).scheduled = s.scheduled
         /\ Retire(s).runs = s.runs
         /\ Retire(s).timer = FALSE
         /\ s.runs > 0 => Retire(s).aborted
<1> DEFINE busy == s.runs > 0
<1>1. s.generation + 1 = 2
  OBVIOUS
<1>2. busy \in BOOLEAN
  OBVIOUS
<1>3. Retire(s) = [s EXCEPT !.generation = 2, !.timer = FALSE, !.aborted = busy]
  BY <1>1 DEF Retire
<1> HIDE DEF busy
<1>4. Retire(s) \in TaskState
  BY <1>2, <1>3 DEF TaskState
<1>5. Retire(s).id = s.id /\ Retire(s).runs = s.runs /\ Retire(s).scheduled = s.scheduled
  BY <1>3 DEF TaskState
<1>6. Retire(s).timer = FALSE
  BY <1>3 DEF TaskState
<1>7. Retire(s).aborted = busy
  BY <1>2, <1>3 DEF TaskState
<1> QED BY <1>4, <1>5, <1>6, <1>7 DEF busy

\* Remove: the state leaves the map, its timer is cleared, its run is aborted.
LEMMA RemoveStep == ASSUME Inv, NEW id \in Ids, Remove(id) PROVE Inv'
<1> DEFINE i == states[id]
           s == Retire(registrations[i])
<1>1. /\ TypeOK /\ i = states[id] /\ i # 0 /\ i \in DOMAIN registrations
      /\ registrations[i].id = id /\ registrations[i].generation = 1
      /\ registrations[i] \in TaskState
  BY States DEF Inv, RegisteredIsCurrent, Remove
<1>2. /\ s \in TaskState /\ s.id = id /\ s.timer = FALSE
      /\ s.scheduled = registrations[i].scheduled
      /\ s.runs = registrations[i].runs /\ (s.runs > 0 => s.aborted)
  BY <1>1, Retired
<1>3. /\ registrations' = [registrations EXCEPT ![i] = s]
      /\ states' = [states EXCEPT ![id] = 0]
      /\ closed' = closed /\ awaited' = awaited
  BY DEF Remove, Unregistered
<1> HIDE DEF s, i
<1>4. /\ registrations' \in Seq(TaskState)
      /\ DOMAIN registrations' = DOMAIN registrations
      /\ \A j \in DOMAIN registrations :
           registrations'[j] = IF j = i THEN s ELSE registrations[j]
  BY <1>1, <1>2, <1>3, Replaced
<1>5. TypeOK'
  BY <1>1, <1>3, <1>4, RegistrationBound DEF TypeOK
<1>6. InFlight' = InFlight
  BY <1>2, <1>4 DEF InFlight
<1>7. RegisteredIsCurrent' /\ ScheduledFirst'
  BY <1>1, <1>2, <1>3, <1>4 DEF Inv, RegisteredIsCurrent, ScheduledFirst, TypeOK
<1>8. TimersAreRegistered'
  BY <1>1, <1>2, <1>3, <1>4, States DEF Inv, TimersAreRegistered, TypeOK
<1>9. SequentialRuns'
  BY <1>1, <1>2, <1>4, States DEF Inv, SequentialRuns
<1>10. StaleRunsAborted'
  BY <1>1, <1>2, <1>3, <1>4, <1>6, States DEF Inv, StaleRunsAborted, InFlight, TypeOK
<1>11. ClosedIsEmpty' /\ AwaitsEveryRun'
  BY <1>1, <1>3, <1>6 DEF Inv, ClosedIsEmpty, AwaitsEveryRun, TypeOK
<1> QED
  BY <1>5, <1>7, <1>8, <1>9, <1>10, <1>11 DEF Inv

\* Close: every registered state is retired, and every run in flight is awaited.
LEMMA CloseStep == ASSUME Inv, Close PROVE Inv'
<1>1. TypeOK
  BY DEF Inv
<1>2. /\ ~closed /\ closed' = TRUE
      /\ states' = [id \in Ids |-> 0]
      /\ awaited' = InFlight
      /\ registrations' = [i \in DOMAIN registrations |->
                            IF states[registrations[i].id] = i THEN Retire(registrations[i])
                            ELSE registrations[i]]
  BY DEF Close, ToAwait
<1>3. \A i \in DOMAIN registrations :
        /\ registrations'[i] \in TaskState
        /\ registrations'[i].id = registrations[i].id
        /\ registrations'[i].runs = registrations[i].runs
        /\ registrations'[i].scheduled = registrations[i].scheduled
        /\ registrations'[i].timer = FALSE
        /\ registrations[i].runs > 0
           /\ (states[registrations[i].id] = i \/ registrations[i].aborted)
             => registrations'[i].aborted
  <2> SUFFICES ASSUME NEW i \in DOMAIN registrations
               PROVE  /\ registrations'[i] \in TaskState
                      /\ registrations'[i].id = registrations[i].id
                      /\ registrations'[i].runs = registrations[i].runs
                      /\ registrations'[i].scheduled = registrations[i].scheduled
                      /\ registrations'[i].timer = FALSE
                      /\ registrations[i].runs > 0
                         /\ (states[registrations[i].id] = i \/ registrations[i].aborted)
                           => registrations'[i].aborted
    OBVIOUS
  <2>1. registrations[i] \in TaskState
    BY <1>1, States
  <2>2. CASE states[registrations[i].id] = i
    <3>1. registrations'[i] = Retire(registrations[i])
      BY <1>2, <2>2
    <3>2. registrations[i].generation = 1
      BY <2>1, <2>2, <1>1, States DEF Inv, RegisteredIsCurrent, TaskState
    <3> QED BY <2>1, <3>1, <3>2, Retired
  <2>3. CASE states[registrations[i].id] # i
    <3>1. registrations'[i] = registrations[i]
      BY <1>2, <2>3
    <3> QED BY <2>1, <2>3, <3>1 DEF Inv, TimersAreRegistered, TaskState
  <2> QED BY <2>2, <2>3
<1>4. DOMAIN registrations' = DOMAIN registrations /\ registrations' \in Seq(TaskState)
  <2>1. registrations' \in [1..Len(registrations) -> TaskState] /\ Len(registrations) \in Nat
    BY <1>1, <1>2, <1>3, States
  <2> QED BY <1>1, <1>2, <2>1, States, SeqDef
<1>5. InFlight' = InFlight
  BY <1>3, <1>4 DEF InFlight
<1>6. TypeOK'
  BY <1>1, <1>2, <1>4, <1>5, RegistrationBound DEF TypeOK, InFlight
<1>7. RegisteredIsCurrent' /\ ClosedIsEmpty'
  BY <1>2 DEF RegisteredIsCurrent, ClosedIsEmpty
<1>8. TimersAreRegistered' /\ ScheduledFirst' /\ SequentialRuns'
  BY <1>1, <1>3, <1>4, States DEF Inv, TimersAreRegistered, ScheduledFirst, SequentialRuns
<1>9. StaleRunsAborted'
  BY <1>1, <1>3, <1>4, <1>5, States DEF Inv, StaleRunsAborted, InFlight
<1> QED
  BY <1>2, <1>5, <1>6, <1>7, <1>8, <1>9 DEF Inv, AwaitsEveryRun

\* The timer fires: a current state starts its only run.
LEMMA TimerStep == ASSUME Inv, NEW i \in DOMAIN registrations, TimerFires(i) PROVE Inv'
<1> DEFINE old == registrations[i]
           s == IF Current(i) THEN StartRun(StopTimer(old)) ELSE StopTimer(old)
<1>1. TypeOK /\ old \in TaskState /\ old.timer /\ old.runs = 0
  BY States DEF Inv, SequentialRuns, TimerFires
<1>2. Current(i)
  <2>1. states[old.id] = i /\ i # 0 /\ old.id \in Ids
    BY <1>1, States DEF Inv, TimersAreRegistered
  <2>2. ~closed
    BY <2>1 DEF Inv, ClosedIsEmpty
  <2>3. old.generation = 1
    BY <2>1 DEF Inv, RegisteredIsCurrent
  <2>4. old.scheduled = 1
    BY <2>1 DEF Inv, ScheduledFirst
  <2> QED BY <2>1, <2>2, <2>3, <2>4 DEF Current
<1>3. /\ s \in TaskState /\ s.id = old.id /\ s.generation = old.generation
      /\ s.scheduled = old.scheduled /\ s.timer = FALSE /\ s.runs = 1
  <2> DEFINE stopped == StopTimer(old)
  <2>1. /\ stopped \in TaskState /\ stopped.id = old.id /\ stopped.runs = 0
        /\ stopped.generation = old.generation /\ stopped.scheduled = old.scheduled
        /\ stopped.timer = FALSE
    BY <1>1 DEF StopTimer, TaskState
  <2>2. s = [stopped EXCEPT !.runs = stopped.runs + 1, !.aborted = FALSE]
    BY <1>2 DEF StartRun
  <2> HIDE DEF s, stopped
  <2>3. s = [stopped EXCEPT !.runs = 1, !.aborted = FALSE]
    BY <2>1, <2>2
  <2> QED BY <2>1, <2>3 DEF TaskState
<1>4. /\ registrations' = [registrations EXCEPT ![i] = s]
      /\ states' = states /\ closed' = closed /\ awaited' = awaited
  BY Zenon DEF TimerFires
<1> HIDE DEF s
<1>5. /\ registrations' \in Seq(TaskState)
      /\ DOMAIN registrations' = DOMAIN registrations
      /\ \A j \in DOMAIN registrations :
           registrations'[j] = IF j = i THEN s ELSE registrations[j]
  BY <1>1, <1>3, <1>4, Replaced
<1>6. TypeOK'
  BY <1>1, <1>4, <1>5 DEF TypeOK
<1>7. RegisteredIsCurrent' /\ TimersAreRegistered' /\ ScheduledFirst'
  BY <1>3, <1>4, <1>5 DEF Inv, RegisteredIsCurrent, TimersAreRegistered, ScheduledFirst
<1>8. SequentialRuns'
  BY <1>3, <1>5 DEF Inv, SequentialRuns
<1>9. StaleRunsAborted'
  BY <1>2, <1>3, <1>4, <1>5 DEF Inv, StaleRunsAborted, InFlight, Current
<1>10. ~closed
  BY <1>2 DEF Current
<1> QED
  BY <1>4, <1>6, <1>7, <1>8, <1>9, <1>10 DEF Inv, ClosedIsEmpty, AwaitsEveryRun

\* The run ends: nothing is in flight any more, and a current state is scheduled.
LEMMA RunStep == ASSUME Inv, NEW i \in DOMAIN registrations, RunEnds(i) PROVE Inv'
<1> DEFINE ended == EndRun(registrations[i])
           s == Rescheduled(i, ended)
<1>1. /\ TypeOK /\ registrations[i] \in TaskState
      /\ registrations[i].runs = 1 /\ registrations[i].timer = FALSE
  BY States DEF Inv, SequentialRuns, RunEnds
<1>2. /\ ended \in TaskState /\ ended.id = registrations[i].id
      /\ ended.generation = registrations[i].generation
      /\ ended.scheduled = registrations[i].scheduled
      /\ ended.timer = FALSE /\ ended.runs = 0
  <2>1. ended = [registrations[i] EXCEPT !.runs = 0, !.aborted = FALSE]
    BY <1>1 DEF EndRun
  <2> HIDE DEF ended
  <2> QED BY <1>1, <2>1 DEF TaskState
<1>3. /\ registrations' = [registrations EXCEPT ![i] = s]
      /\ states' = states /\ closed' = closed /\ awaited' = awaited
  BY Zenon DEF RunEnds
<1> HIDE DEF ended
<1>4. /\ s \in TaskState /\ s.id = registrations[i].id /\ s.runs = 0
      /\ s.generation = registrations[i].generation
      /\ s.scheduled = registrations[i].scheduled
      /\ s.timer => states[registrations[i].id] = i
  BY <1>1, <1>2 DEF Rescheduled, Schedule, Current, TaskState
<1> HIDE DEF s
<1>5. /\ registrations' \in Seq(TaskState)
      /\ DOMAIN registrations' = DOMAIN registrations
      /\ \A j \in DOMAIN registrations :
           registrations'[j] = IF j = i THEN s ELSE registrations[j]
  BY <1>1, <1>3, <1>4, Replaced
<1>6. TypeOK'
  BY <1>1, <1>3, <1>5 DEF TypeOK
<1>7. RegisteredIsCurrent' /\ TimersAreRegistered' /\ ScheduledFirst'
  BY <1>3, <1>4, <1>5 DEF Inv, RegisteredIsCurrent, TimersAreRegistered, ScheduledFirst
<1>8. InFlight' = InFlight \ {i}
  BY <1>4, <1>5 DEF InFlight
<1>9. SequentialRuns'
  BY <1>4, <1>5 DEF Inv, SequentialRuns
<1>10. StaleRunsAborted'
  BY <1>3, <1>5, <1>8 DEF Inv, StaleRunsAborted
<1> QED
  BY <1>3, <1>6, <1>7, <1>8, <1>9, <1>10 DEF Inv, ClosedIsEmpty, AwaitsEveryRun

LEMMA InvStep == Inv /\ [Next]_vars => Inv'
<1>1. ASSUME Inv, UNCHANGED vars PROVE Inv'
  BY <1>1
  DEF vars, Inv, TypeOK, RegisteredIsCurrent, TimersAreRegistered, ScheduledFirst,
      SequentialRuns, StaleRunsAborted, ClosedIsEmpty, AwaitsEveryRun, InFlight
<1> QED
  BY <1>1, UpsertStep, RemoveStep, CloseStep, TimerStep, RunStep DEF Next

LEMMA InvAlways == Spec => []Inv
  BY InitInv, InvStep, PTL DEF Spec

\* Every state, timer, run and awaited set stays within its type; in particular a
\* TaskState is retired at most once (generation, polling-scheduler.ts).
THEOREM TypeCorrect == Spec => []TypeOK
<1>1. Inv => TypeOK
  BY DEF Inv
<1> QED
  BY <1>1, InvAlways, PTL

\* The next poll of a registration is scheduled only after the previous run
\* ended, so its runs never overlap (schedule).
THEOREM SequentialRunsAlways == Spec => []SequentialRuns
<1>1. Inv => SequentialRuns
  BY DEF Inv
<1> QED
  BY <1>1, InvAlways, PTL

\* A run that outlives its registration has been told to abort (remove, close).
THEOREM StaleRunsAbortedAlways == Spec => []StaleRunsAborted
<1>1. Inv => StaleRunsAborted
  BY DEF Inv
<1> QED
  BY <1>1, InvAlways, PTL

\* When the promise of close() resolves no run of any task is in flight, the
\* removed ones included (close, inFlight).
THEOREM CloseWaitsForAllAlways == Spec => []CloseWaitsForAll
<1>1. Inv => CloseWaitsForAll
  BY DEF Inv, AwaitsEveryRun, CloseWaitsForAll
<1> QED
  BY <1>1, InvAlways, PTL

\* No poll starts for a registration that is no longer the current one of its id
\* (the checks of the timer callback).
THEOREM RemovedNeverPollsAlways == Spec => RemovedNeverPolls
<1> DEFINE Polls == \A i \in DOMAIN registrations :
                      registrations'[i].runs > registrations[i].runs =>
                        ~closed /\ states[registrations[i].id] = i
<1>1. Inv /\ [Next]_vars => [Polls]_vars
  <2> SUFFICES ASSUME Inv, Next PROVE Polls
    OBVIOUS
  <2>1. TypeOK
    BY DEF Inv
  <2>2. ASSUME NEW id \in Ids, Upsert(id) PROVE Polls
    <3>1. \A i \in DOMAIN registrations : registrations'[i] = registrations[i]
      BY <2>1, <2>2, States DEF Upsert
    <3> QED BY <2>1, <3>1, States
  <2>3. ASSUME NEW id \in Ids, Remove(id) PROVE Polls
    <3>1. PICK j \in DOMAIN registrations :
            registrations[j].generation = 1
            /\ registrations' = [registrations EXCEPT ![j] = Retire(@)]
      BY <2>3 DEF Inv, RegisteredIsCurrent, Remove
    <3>2. Retire(registrations[j]).runs = registrations[j].runs
      BY <2>1, <3>1, States, Retired
    <3> QED BY <2>1, <3>1, <3>2, States
  <2>4. CASE Close
    <3>1. ASSUME NEW i \in DOMAIN registrations
          PROVE registrations'[i].runs = registrations[i].runs
      <4>1. CASE states[registrations[i].id] = i
        <5>1. registrations[i].generation = 1
          BY <2>1, <4>1, States DEF Inv, RegisteredIsCurrent
        <5> QED BY <2>1, <2>4, <4>1, <5>1, States, Retired DEF Close
      <4>2. CASE states[registrations[i].id] # i
        BY <2>4, <4>2 DEF Close
      <4> QED BY <4>1, <4>2
    <3> QED BY <2>1, <3>1, States
  <2>5. ASSUME NEW i \in DOMAIN registrations, TimerFires(i) PROVE Polls
    <3>1. \A j \in DOMAIN registrations : j # i => registrations'[j] = registrations[j]
      BY <2>1, <2>5, States DEF TimerFires
    <3>2. CASE Current(i)
      BY <2>1, <3>1, <3>2, States DEF Current
    <3>3. CASE ~Current(i)
      <4>1. registrations'[i].runs = registrations[i].runs
        BY <2>1, <2>5, <3>3, States DEF TimerFires, StopTimer, TaskState
      <4> QED BY <2>1, <3>1, <4>1, States
    <3> QED BY <3>2, <3>3
  <2>6. ASSUME NEW i \in DOMAIN registrations, RunEnds(i) PROVE Polls
    <3>1. \A j \in DOMAIN registrations : j # i => registrations'[j] = registrations[j]
      BY <2>1, <2>6, States DEF RunEnds
    <3> DEFINE ended == EndRun(registrations[i])
    <3>2. registrations[i] \in TaskState /\ registrations[i].runs = 1
      BY <2>1, <2>6, States DEF Inv, SequentialRuns, RunEnds
    <3>3. ended \in TaskState /\ ended.runs = 0
      <4>1. ended = [registrations[i] EXCEPT !.runs = 0, !.aborted = FALSE]
        BY <3>2 DEF EndRun
      <4> HIDE DEF ended
      <4> QED BY <3>2, <4>1 DEF TaskState
    <3>4. registrations' = [registrations EXCEPT ![i] = Rescheduled(i, ended)]
      BY Zenon, <2>6 DEF RunEnds
    <3> HIDE DEF ended
    <3>5. Rescheduled(i, ended).runs = 0
      BY <3>3 DEF Rescheduled, Schedule, TaskState
    <3>6. registrations'[i].runs = 0
      BY <3>4, <3>5
    <3> QED BY <2>1, <3>1, <3>2, <3>6, States
  <2> QED BY <2>2, <2>3, <2>4, <2>5, <2>6 DEF Next
<1> QED
  BY <1>1, InvAlways, PTL DEF Spec, RemovedNeverPolls

---------------------------------------------------------------------------
(* The scan for the events *)

LEMMA ScanAssumptions ==
  /\ ConfirmationBlocks \in Nat /\ ReorgRewindBlocks \in Nat /\ InitialLookbackBlocks \in Nat
  /\ BlockChunkSize \in Nat \ {0}
  /\ MaxTip \in Nat /\ MaxLag \in Nat /\ MaxReorgs \in Nat
  BY ScannerParameters DEF Scanner!ScanParameters

\* What is confirmed stays confirmed, and no reorganisation reaches it.
LEMMA ConfirmedGrows ==
  ASSUME NEW t \in Nat
  PROVE  /\ Scanner!Confirmed(t) \in Nat /\ Scanner!Confirmed(t) <= t
         /\ \A u \in Nat : u <= t => Scanner!Confirmed(u) <= Scanner!Confirmed(t)
         /\ \A b \in 1..t : b > t - ConfirmationBlocks => b > Scanner!Confirmed(t)
  BY ScanAssumptions DEF Scanner!Confirmed

LEMMA MaxOfFour ==
  ASSUME NEW a \in Int, NEW b \in Int, NEW c \in Int, NEW d \in Int, NEW S, S = {a, b, c, d}
  PROVE  /\ Scanner!Max(S) \in Int
         /\ Scanner!Max(S) >= a /\ Scanner!Max(S) >= b /\ Scanner!Max(S) >= c /\ Scanner!Max(S) >= d
<1>1. \E x \in S : \A y \in S : x >= y
  <2>1. CASE a >= b /\ a >= c /\ a >= d
    BY <2>1
  <2>2. CASE b >= a /\ b >= c /\ b >= d
    BY <2>2
  <2>3. CASE c >= a /\ c >= b /\ c >= d
    BY <2>3
  <2>4. CASE d >= a /\ d >= b /\ d >= c
    BY <2>4
  <2> QED BY <2>1, <2>2, <2>3, <2>4
<1>2. Scanner!Max(S) \in S /\ \A y \in S : Scanner!Max(S) >= y
  BY <1>1 DEF Scanner!Max
<1> QED BY <1>2

LEMMA MinOfTwo ==
  ASSUME NEW a \in Int, NEW b \in Int
  PROVE  /\ Scanner!Min({a, b}) \in {a, b}
         /\ Scanner!Min({a, b}) <= a /\ Scanner!Min({a, b}) <= b
<1>1. \E x \in {a, b} : \A y \in {a, b} : x =< y
  <2>1. CASE a <= b
    BY <2>1
  <2>2. CASE b <= a
    BY <2>2
  <2> QED BY <2>1, <2>2
<1> QED
  BY <1>1 DEF Scanner!Min

\* A run either ends or goes on with a chunk of confirmed blocks.
LEMMA NextChunkIs ==
  ASSUME NEW s \in Scanner!Run, NEW next, next = Scanner!NextChunk(s)
  PROVE  /\ next \in Scanner!Run /\ next.phase \in {"idle", "logs"}
         /\ next.phase = "logs" =>
              /\ next.confirmed = s.confirmed /\ next.from = s.from
              /\ next.from <= next.to /\ next.to <= next.confirmed
<1>1. CASE s.from > s.confirmed \/ s.aborted
  <2>1. next = Scanner!Idle
    BY <1>1 DEF Scanner!NextChunk
  <2>2. Scanner!Idle \in Scanner!Run /\ Scanner!Idle.phase = "idle"
    BY ScanAssumptions DEF Scanner!Idle, Scanner!Run, Scanner!Phases
  <2> QED BY <2>1, <2>2
<1>2. CASE ~(s.from > s.confirmed \/ s.aborted)
  <2> DEFINE to == Scanner!Min({s.from + BlockChunkSize - 1, s.confirmed})
  <2>1. s.from \in Nat /\ s.confirmed \in Nat /\ s.from <= s.confirmed
    BY <1>2 DEF Scanner!Run
  <2>2. to \in Nat /\ s.from <= to /\ to <= s.confirmed
    <3>1. s.from + BlockChunkSize - 1 \in Int /\ s.confirmed \in Int
      BY <2>1, ScanAssumptions
    <3>2. to \in {s.from + BlockChunkSize - 1, s.confirmed} /\ to <= s.confirmed
      BY <3>1, MinOfTwo
    <3> HIDE DEF to
    <3> QED BY <2>1, <3>2, ScanAssumptions
  <2>3. next = [s EXCEPT !.phase = "logs", !.to = to]
    BY <1>2 DEF Scanner!NextChunk
  <2> HIDE DEF to
  <2>4. /\ next \in Scanner!Run /\ next.phase = "logs" /\ next.to = to
        /\ next.confirmed = s.confirmed /\ next.from = s.from
    BY <2>2, <2>3 DEF Scanner!Run, Scanner!Phases
  <2> QED BY <2>2, <2>4
<1> QED BY <1>1, <1>2

ScanTypes ==
  /\ tip \in Nat /\ tip <= MaxTip
  /\ reorgs \in Nat /\ reorgs <= MaxReorgs /\ chain \in [Scanner!Blocks -> 0..MaxReorgs]
  /\ enabled \subseteq Monitors
  /\ cursor \in Int /\ cursor >= Scanner!NoCursor /\ cursor <= Scanner!Confirmed(tip)
  /\ run \in [Scanner!Runs -> Scanner!Run]
  /\ since \in [Monitors -> Int]

\* A run reads chunks of blocks that are confirmed.
RunsInOrder ==
  \A r \in Scanner!Runs : run[r].phase \in {"logs", "distribute"} =>
    /\ run[r].confirmed <= Scanner!Confirmed(tip)
    /\ run[r].from <= run[r].to /\ run[r].to <= run[r].confirmed
    /\ run[r].phase = "distribute" => run[r].next <= run[r].to + 1

\* Every enabled monitor was given what it is owed of the blocks before this one.
Covers(n) ==
  \A m \in enabled, b \in Scanner!Blocks : b < n /\ Scanner!Owed(m, b) => Scanner!Handled(m, b)

\* Nothing is missing before the chunk that a run has in hand, and what it has in hand is
\* what the chain still says.
RunsCover ==
  \A r \in Scanner!Runs :
    /\ run[r].phase = "logs" => Covers(run[r].from)
    /\ run[r].phase = "distribute" =>
         /\ Covers(run[r].next)
         /\ \A b \in Scanner!Blocks :
              run[r].next <= b /\ b <= run[r].to => run[r].forks[b] = chain[b]

ScanInv == ScanTypes /\ RunsInOrder /\ Covers(cursor + 1) /\ RunsCover

LEMMA ScanInit == Scanner!Init => ScanInv
<1> SUFFICES ASSUME Scanner!Init PROVE ScanInv
  OBVIOUS
<1>1. Scanner!Idle \in Scanner!Run /\ Scanner!Idle.phase = "idle"
  BY ScanAssumptions DEF Scanner!Idle, Scanner!Run, Scanner!Phases
<1>2. ScanTypes
  BY <1>1, ScanAssumptions, ConfirmedGrows DEF Scanner!Init, ScanTypes, Scanner!NoCursor
<1>3. RunsInOrder /\ RunsCover
  BY <1>1 DEF Scanner!Init, RunsInOrder, RunsCover
<1>4. Covers(cursor + 1)
  BY ScanAssumptions DEF Scanner!Init, Covers, Scanner!NoCursor, Scanner!Blocks
<1> QED
  BY <1>2, <1>3, <1>4 DEF ScanInv

LEMMA ScanStep == ScanInv /\ [Scanner!Next]_(Scanner!vars) => ScanInv'
<1> SUFFICES ASSUME ScanInv, [Scanner!Next]_(Scanner!vars) PROVE ScanInv'
  OBVIOUS
<1>1. /\ tip \in Nat /\ tip <= MaxTip
      /\ reorgs \in Nat /\ reorgs <= MaxReorgs /\ chain \in [Scanner!Blocks -> 0..MaxReorgs]
      /\ enabled \subseteq Monitors
      /\ cursor \in Int /\ cursor >= -1 /\ cursor <= Scanner!Confirmed(tip)
      /\ run \in [Scanner!Runs -> Scanner!Run]
      /\ since \in [Monitors -> Int]
      /\ Scanner!Blocks = {b \in Nat : b <= MaxTip} /\ Scanner!Runs = {1, 2}
  BY ScanAssumptions DEF ScanInv, ScanTypes, Scanner!NoCursor, Scanner!Blocks, Scanner!Runs
<1>2. Scanner!Confirmed(tip) \in Nat /\ Scanner!Confirmed(tip) <= tip
  BY <1>1, ConfirmedGrows
<1>3. \A r \in Scanner!Runs :
        /\ run[r] \in Scanner!Run /\ run[r].from \in Nat /\ run[r].to \in Nat
        /\ run[r].next \in Nat /\ run[r].confirmed \in Nat /\ run[r].aborted \in BOOLEAN
  BY <1>1 DEF Scanner!Run
\* What is handled stays handled, and monitors are owed less.
<1>4. ASSUME UNCHANGED <<enabled, chain>>, since' \in [Monitors -> Int],
             \A m \in Monitors : since'[m] >= since[m],
             done \cup failed \subseteq done' \cup failed'
      PROVE  \A n \in Int : Covers(n) => Covers(n)'
  BY <1>1, <1>4 DEF Covers, Scanner!Owed, Scanner!Handled
\* One run goes on.
<1>5. ASSUME NEW r \in Scanner!Runs, NEW next \in Scanner!Run, run' = [run EXCEPT ![r] = next],
             UNCHANGED <<tip, reorgs, enabled, chain>>, since' \in [Monitors -> Int],
             \A m \in Monitors : since'[m] >= since[m],
             done \cup failed \subseteq done' \cup failed',
             cursor' \in Int, cursor' >= -1, cursor' <= Scanner!Confirmed(tip),
             Covers(cursor + 1)' \/ cursor' = cursor,
             next.phase \in {"logs", "distribute"} =>
               /\ next.confirmed <= Scanner!Confirmed(tip)
               /\ next.from <= next.to /\ next.to <= next.confirmed
               /\ next.phase = "distribute" => next.next <= next.to + 1,
             next.phase = "logs" => Covers(next.from)',
             next.phase = "distribute" =>
               /\ Covers(next.next)'
               /\ \A b \in Scanner!Blocks :
                    next.next <= b /\ b <= next.to => next.forks[b] = chain[b]
      PROVE  ScanInv'
  <2>1. /\ run' \in [Scanner!Runs -> Scanner!Run] /\ run'[r] = next
        /\ \A q \in Scanner!Runs : q # r => run'[q] = run[q]
    BY <1>1, <1>5
  <2>2. \A n \in Int : Covers(n) => Covers(n)'
    BY <1>4, <1>5
  <2>3. ScanTypes'
    BY <1>1, <1>5, <2>1 DEF ScanTypes, Scanner!NoCursor
  <2>4. RunsInOrder'
    BY <1>5, <2>1 DEF ScanInv, RunsInOrder
  <2>5. Covers(cursor + 1)'
    BY <1>1, <1>5, <2>2 DEF ScanInv
  <2>6. RunsCover'
    <3> SUFFICES ASSUME NEW q \in Scanner!Runs
                 PROVE  /\ run'[q].phase = "logs" => Covers(run[q].from)'
                        /\ run'[q].phase = "distribute" =>
                             /\ Covers(run[q].next)'
                             /\ \A b \in Scanner!Blocks :
                                  run'[q].next <= b /\ b <= run'[q].to =>
                                    run'[q].forks[b] = chain'[b]
      BY DEF RunsCover
    <3>1. CASE q = r
      BY <1>5, <2>1, <3>1
    <3>2. CASE q # r
      BY <1>3, <1>5, <2>1, <2>2, <3>2 DEF ScanInv, RunsCover
    <3> QED BY <3>1, <3>2
  <2> QED BY <2>3, <2>4, <2>5, <2>6 DEF ScanInv
<1>6. Scanner!Idle \in Scanner!Run /\ Scanner!Idle.phase = "idle"
  BY ScanAssumptions DEF Scanner!Idle, Scanner!Run, Scanner!Phases
<1>7. ASSUME NEW r \in Scanner!Runs, Scanner!Start(r) PROVE ScanInv'
  <2>1. PICK next \in Scanner!Run : next = [run[r] EXCEPT !.phase = "tip"]
    BY <1>3 DEF Scanner!Run, Scanner!Phases
  <2>2. next.phase = "tip"
    BY <1>3, <2>1 DEF Scanner!Run
  <2>3. /\ run' = [run EXCEPT ![r] = next]
        /\ UNCHANGED <<tip, reorgs, enabled, chain, since, done, failed, cursor>>
    BY <1>1, <1>7, <2>1 DEF Scanner!Start, Scanner!chainVars, Scanner!inbox
  <2>4. /\ since' \in [Monitors -> Int] /\ \A m \in Monitors : since'[m] >= since[m]
        /\ done \cup failed \subseteq done' \cup failed'
        /\ cursor' \in Int /\ cursor' >= -1 /\ cursor' <= Scanner!Confirmed(tip)
    BY <1>1, <2>3
  <2> QED BY <1>5, <2>2, <2>3, <2>4
<1>8. ASSUME NEW r \in Scanner!Runs, Scanner!LatestBlock(r) PROVE ScanInv'
  <2>1. PICK t \in Scanner!Max({0, tip - MaxLag})..tip :
          /\ run' = [run EXCEPT ![r] = Scanner!NextChunk([run[r] EXCEPT
               !.confirmed = Scanner!Confirmed(t),
               !.from = Scanner!FirstBlock(Scanner!Confirmed(t))])]
          /\ since' = IF cursor = Scanner!NoCursor
                      THEN [m \in Monitors |->
                              Scanner!Max({since[m],
                                           Scanner!FirstBlock(Scanner!Confirmed(t)) - 1})]
                      ELSE since
    BY <1>8 DEF Scanner!LatestBlock
  <2>2. UNCHANGED <<tip, reorgs, enabled, chain, done, failed, cursor>>
    BY <1>8 DEF Scanner!LatestBlock, Scanner!chainVars, Scanner!inbox
  <2>3. t \in Nat /\ t <= tip
    <3>1. 0 \in Int /\ tip - MaxLag \in Int /\ {0, tip - MaxLag} = {0, tip - MaxLag, 0, 0}
      BY <1>1, ScanAssumptions
    <3>2. Scanner!Max({0, tip - MaxLag}) \in Int /\ Scanner!Max({0, tip - MaxLag}) >= 0
      BY <3>1, MaxOfFour
    <3> QED BY <1>1, <2>1, <3>2
  <2>4. PICK confirmed \in Nat : /\ confirmed = Scanner!Confirmed(t)
                                 /\ confirmed <= Scanner!Confirmed(tip)
    BY <1>1, <2>3, ConfirmedGrows
  <2>5. PICK first \in Nat : /\ first = Scanner!FirstBlock(confirmed)
                             /\ cursor # -1 => first <= cursor + 1
    <3>1. ASSUME cursor = -1 PROVE Scanner!FirstBlock(confirmed) \in Nat
      BY <3>1, ScanAssumptions DEF Scanner!FirstBlock, Scanner!NoCursor
    <3>2. ASSUME cursor # -1
          PROVE  Scanner!FirstBlock(confirmed) \in Nat
                 /\ Scanner!FirstBlock(confirmed) <= cursor + 1
      BY <1>1, <3>2, ScanAssumptions DEF Scanner!FirstBlock, Scanner!NoCursor
    <3> QED BY <3>1, <3>2
  <2>6a. PICK s \in Scanner!Run : s = [run[r] EXCEPT !.confirmed = confirmed, !.from = first]
    BY <1>3 DEF Scanner!Run
  <2>6. s.confirmed = confirmed /\ s.from = first
    BY <1>3, <2>6a DEF Scanner!Run
  <2>7. PICK next \in Scanner!Run :
          /\ next = Scanner!NextChunk(s) /\ next.phase \in {"idle", "logs"}
          /\ next.phase = "logs" =>
               /\ next.confirmed = confirmed /\ next.from = first
               /\ next.from <= next.to /\ next.to <= next.confirmed
    <3>1. PICK x : x = Scanner!NextChunk(s)
      OBVIOUS
    <3> QED BY <2>6, <3>1, NextChunkIs
  <2>8. run' = [run EXCEPT ![r] = next]
    BY <2>1, <2>4, <2>5, <2>6a, <2>7
  <2>9. /\ since' \in [Monitors -> Int] /\ \A m \in Monitors : since'[m] >= since[m]
        /\ cursor = -1 => \A m \in Monitors : since'[m] >= first - 1
    <3>1. CASE cursor = -1
      <4>1. since' = [m \in Monitors |-> Scanner!Max({since[m], first - 1})]
        BY <2>1, <2>4, <2>5, <3>1 DEF Scanner!NoCursor
      <4>2. ASSUME NEW m \in Monitors
            PROVE  /\ Scanner!Max({since[m], first - 1}) \in Int
                   /\ Scanner!Max({since[m], first - 1}) >= since[m]
                   /\ Scanner!Max({since[m], first - 1}) >= first - 1
        <5>1. since[m] \in Int /\ first - 1 \in Int
              /\ {since[m], first - 1} = {since[m], first - 1, first - 1, first - 1}
          BY <1>1
        <5> QED BY <5>1, MaxOfFour
      <4> QED BY <4>1, <4>2
    <3>2. CASE cursor # -1
      BY <1>1, <2>1, <3>2 DEF Scanner!NoCursor
    <3> QED BY <3>1, <3>2
  <2>10. Covers(first)'
    <3>1. CASE cursor = -1
      <4>1. \A m \in enabled', b \in Scanner!Blocks : b < first => ~Scanner!Owed(m, b)'
        BY <1>1, <2>2, <2>9, <3>1 DEF Scanner!Owed
      <4> QED BY <4>1 DEF Covers
    <3>2. CASE cursor # -1
      <4>1. Covers(cursor + 1)
        BY DEF ScanInv
      <4>2. Covers(first)
        BY <1>1, <2>5, <3>2, <4>1 DEF Covers
      <4> QED BY <1>4, <2>2, <2>9, <4>2
    <3> QED BY <3>1, <3>2
  <2>11. /\ done \cup failed \subseteq done' \cup failed' /\ cursor' = cursor
         /\ cursor' \in Int /\ cursor' >= -1 /\ cursor' <= Scanner!Confirmed(tip)
    BY <1>1, <2>2
  <2>12. next.phase \in {"logs", "distribute"} =>
           /\ next.confirmed <= Scanner!Confirmed(tip)
           /\ next.from <= next.to /\ next.to <= next.confirmed
           /\ next.phase = "distribute" => next.next <= next.to + 1
    BY <2>4, <2>7
  <2>13. next.phase = "logs" => Covers(next.from)'
    BY <2>7, <2>10
  <2>14. next.phase # "distribute"
    BY <2>7
  <2> QED BY <1>5, <2>2, <2>8, <2>9, <2>11, <2>12, <2>13, <2>14
<1>9. ASSUME NEW r \in Scanner!Runs, Scanner!ReadLogs(r) PROVE ScanInv'
  <2>1. PICK next \in Scanner!Run :
          next = [run[r] EXCEPT !.phase = "distribute", !.next = run[r].from, !.forks = chain]
    BY <1>1, <1>3 DEF Scanner!Run, Scanner!Phases
  <2>2. /\ next.phase = "distribute" /\ next.next = run[r].from /\ next.forks = chain
        /\ next.from = run[r].from /\ next.to = run[r].to /\ next.confirmed = run[r].confirmed
    BY <1>3, <2>1 DEF Scanner!Run
  <2>3. /\ run[r].phase = "logs"
        /\ run' = [run EXCEPT ![r] = next]
        /\ UNCHANGED <<tip, reorgs, enabled, chain, since, done, failed, cursor>>
    BY <1>1, <1>9, <2>1 DEF Scanner!ReadLogs, Scanner!chainVars, Scanner!inbox
  <2>4. /\ run[r].confirmed <= Scanner!Confirmed(tip)
        /\ run[r].from <= run[r].to /\ run[r].to <= run[r].confirmed
        /\ Covers(run[r].from)
    BY <2>3 DEF ScanInv, RunsInOrder, RunsCover
  <2>6. /\ since' \in [Monitors -> Int] /\ \A m \in Monitors : since'[m] >= since[m]
        /\ done \cup failed \subseteq done' \cup failed'
        /\ cursor' \in Int /\ cursor' >= -1 /\ cursor' <= Scanner!Confirmed(tip)
    BY <1>1, <2>3
  <2>7. PICK from \in Nat : from = run[r].from
    BY <1>3
  <2>5. Covers(from)'
    <3>1. from \in Int /\ Covers(from)
      BY <2>4, <2>7
    <3> QED BY <1>4, <2>3, <2>6, <3>1
  <2>8. Covers(next.next)'
    BY <2>2, <2>5, <2>7
  <2>9. next.confirmed <= Scanner!Confirmed(tip) /\ next.from <= next.to
        /\ next.to <= next.confirmed /\ next.next <= next.to + 1
    BY <1>3, <2>2, <2>4
  <2> QED BY <1>5, <2>2, <2>3, <2>6, <2>8, <2>9
<1>10. ASSUME NEW r \in Scanner!Runs, Scanner!Distribute(r) PROVE ScanInv'
  <2>1. PICK b \in Nat : b = run[r].next
    BY <1>3
  <2>2. PICK next \in Scanner!Run : next = [run[r] EXCEPT !.next = b + 1]
    <3>1. b + 1 \in Nat
      OBVIOUS
    <3>2. [run[r] EXCEPT !.next = b + 1] \in Scanner!Run
      BY <1>3, <3>1 DEF Scanner!Run
    <3> QED BY <3>2
  <2>3. /\ next.phase = run[r].phase /\ next.next = b + 1 /\ next.forks = run[r].forks
        /\ next.from = run[r].from /\ next.to = run[r].to /\ next.confirmed = run[r].confirmed
    BY <1>3, <2>2 DEF Scanner!Run
  <2>4. /\ run[r].phase = "distribute" /\ b <= run[r].to
        /\ run' = [run EXCEPT ![r] = next]
        /\ UNCHANGED <<tip, reorgs, enabled, chain, since, cursor>>
    BY <1>1, <1>10, <2>1, <2>2 DEF Scanner!Distribute, Scanner!chainVars
  <2>5. /\ done \cup failed \subseteq done' \cup failed'
        /\ Scanner!Due(b, run[r].forks[b]) \subseteq done' \cup failed'
    BY <1>10, <2>1 DEF Scanner!Distribute
  <2>6. /\ run[r].confirmed <= Scanner!Confirmed(tip)
        /\ run[r].from <= run[r].to /\ run[r].to <= run[r].confirmed
        /\ Covers(run[r].next)
        /\ \A x \in Scanner!Blocks : run[r].next <= x /\ x <= run[r].to => run[r].forks[x] = chain[x]
    BY <2>4 DEF ScanInv, RunsInOrder, RunsCover
  <2>7. b \in Scanner!Blocks
    <3>1. PICK to \in Nat, confirmed \in Nat : to = run[r].to /\ confirmed = run[r].confirmed
      BY <1>3
    <3>2. b <= to /\ to <= confirmed /\ confirmed <= Scanner!Confirmed(tip)
      BY <2>4, <2>6, <3>1
    <3>3. b <= MaxTip
      BY <1>1, <1>2, <3>2, ScanAssumptions
    <3> QED BY <1>1, <3>3
  <2>8. \A m \in enabled' : Scanner!Handled(m, b)'
    <3>1. run[r].forks[b] = chain'[b]
      <4>1. b <= b /\ run[r].next <= b
        BY <2>1
      <4> QED BY <2>4, <2>6, <2>7, <4>1
    <3> QED BY <2>4, <2>5, <3>1 DEF Scanner!Handled, Scanner!Due
  <2>11. /\ since' \in [Monitors -> Int] /\ \A m \in Monitors : since'[m] >= since[m]
         /\ cursor' = cursor
         /\ cursor' \in Int /\ cursor' >= -1 /\ cursor' <= Scanner!Confirmed(tip)
    BY <1>1, <2>4
  <2>9. Covers(b)'
    <3>1. b \in Int /\ Covers(b)
      BY <2>1, <2>6
    <3> QED BY <1>4, <2>4, <2>5, <2>11, <3>1
  <2>10. Covers(b + 1)'
    BY <1>1, <2>8, <2>9 DEF Covers
  <2>12. Covers(next.next)'
    BY <2>3, <2>10
  <2>13. next.confirmed <= Scanner!Confirmed(tip) /\ next.from <= next.to
         /\ next.to <= next.confirmed /\ next.next <= next.to + 1
    BY <1>3, <2>3, <2>4, <2>6
  <2>14. ASSUME NEW x \in Scanner!Blocks, next.next <= x, x <= next.to
         PROVE  next.forks[x] = chain[x]
    <3>1. run[r].next <= x /\ x <= run[r].to
      BY <1>1, <2>1, <2>3, <2>14
    <3> QED BY <2>3, <2>6, <3>1
  <2> QED BY <1>5, <2>3, <2>4, <2>5, <2>11, <2>12, <2>13, <2>14
<1>11. ASSUME NEW r \in Scanner!Runs, Scanner!SaveCursor(r) PROVE ScanInv'
  <2>1. PICK to \in Nat : to = run[r].to
    BY <1>3
  <2>2a. PICK s \in Scanner!Run :
           s = [Scanner!Idle EXCEPT !.aborted = run[r].aborted, !.confirmed = run[r].confirmed,
                                    !.from = to + 1]
    <3>1. to + 1 \in Nat
      OBVIOUS
    <3> QED BY <1>3, <1>6, <3>1 DEF Scanner!Run
  <2>2. s.confirmed = run[r].confirmed /\ s.from = to + 1
    BY <1>6, <2>2a DEF Scanner!Run
  <2>3. PICK next \in Scanner!Run :
          /\ next = Scanner!NextChunk(s) /\ next.phase \in {"idle", "logs"}
          /\ next.phase = "logs" =>
               /\ next.confirmed = run[r].confirmed /\ next.from = to + 1
               /\ next.from <= next.to /\ next.to <= next.confirmed
    <3>1. PICK x : x = Scanner!NextChunk(s)
      OBVIOUS
    <3> QED BY <2>2, <3>1, NextChunkIs
  <2>4. /\ run[r].phase = "distribute" /\ run[r].next > to /\ cursor' = to
        /\ run' = [run EXCEPT ![r] = next]
        /\ UNCHANGED <<tip, reorgs, enabled, chain, since, done, failed>>
    BY <1>11, <2>1, <2>2a, <2>3 DEF Scanner!SaveCursor, Scanner!chainVars, Scanner!inbox
  <2>5. /\ run[r].confirmed <= Scanner!Confirmed(tip)
        /\ to <= run[r].confirmed /\ Covers(run[r].next)
    BY <2>1, <2>4 DEF ScanInv, RunsInOrder, RunsCover
  <2>6. to + 1 \in Int /\ Covers(to + 1)
    BY <1>1, <1>3, <2>4, <2>5 DEF Covers
  <2>10. /\ since' \in [Monitors -> Int] /\ \A m \in Monitors : since'[m] >= since[m]
         /\ done \cup failed \subseteq done' \cup failed'
    BY <1>1, <2>4
  <2>7. Covers(to + 1)'
    BY <1>4, <2>4, <2>6, <2>10
  <2>8. Covers(cursor + 1)'
    BY <2>4, <2>7 DEF Covers
  <2>9. cursor' \in Int /\ cursor' >= -1 /\ cursor' <= Scanner!Confirmed(tip)
    BY <1>2, <1>3, <2>4, <2>5
  <2>11. next.phase = "logs" => Covers(next.from)'
    BY <2>3, <2>7
  <2>12. next.phase \in {"logs", "distribute"} =>
           /\ next.confirmed <= Scanner!Confirmed(tip)
           /\ next.from <= next.to /\ next.to <= next.confirmed
           /\ next.phase = "distribute" => next.next <= next.to + 1
    BY <2>3, <2>5
  <2>13. next.phase # "distribute"
    BY <2>3
  <2> QED BY <1>5, <2>4, <2>8, <2>9, <2>10, <2>11, <2>12, <2>13
<1>12. ASSUME NEW r \in Scanner!Runs, Scanner!ScanFails(r) PROVE ScanInv'
  <2>1. PICK next \in Scanner!Run : next = Scanner!Idle
    BY <1>6
  <2>2. /\ run' = [run EXCEPT ![r] = next]
        /\ UNCHANGED <<tip, reorgs, enabled, chain, since, done, failed, cursor>>
    BY <1>12, <2>1 DEF Scanner!ScanFails, Scanner!chainVars, Scanner!inbox
  <2>3. /\ since' \in [Monitors -> Int] /\ \A m \in Monitors : since'[m] >= since[m]
        /\ done \cup failed \subseteq done' \cup failed'
        /\ cursor' \in Int /\ cursor' >= -1 /\ cursor' <= Scanner!Confirmed(tip)
    BY <1>1, <2>2
  <2> QED BY <1>5, <1>6, <2>1, <2>2, <2>3
\* The chain grows, or is reorganised where nothing is confirmed.
<1>13. ASSUME tip' \in Nat, tip <= tip', tip' <= MaxTip,
              reorgs' \in Nat, reorgs' <= MaxReorgs, chain' \in [Scanner!Blocks -> 0..MaxReorgs],
              \A b \in Scanner!Blocks : b <= Scanner!Confirmed(tip) => chain'[b] = chain[b],
              UNCHANGED <<enabled, since, done, failed, cursor, run>>
       PROVE  ScanInv'
  <2>1. Scanner!Confirmed(tip) <= Scanner!Confirmed(tip') /\ Scanner!Confirmed(tip') \in Nat
    BY <1>1, <1>13, ConfirmedGrows
  <2>2. ScanTypes'
    BY <1>1, <1>2, <1>13, <2>1 DEF ScanTypes, Scanner!NoCursor
  <2>3. RunsInOrder'
    BY <1>2, <1>3, <1>13, <2>1 DEF ScanInv, RunsInOrder
  <2>4. ASSUME NEW n \in Int, n <= Scanner!Confirmed(tip) + 1, Covers(n) PROVE Covers(n)'
    <3> SUFFICES ASSUME NEW m \in enabled, NEW b \in Scanner!Blocks, b < n, Scanner!Owed(m, b)'
                 PROVE  Scanner!Handled(m, b)'
      BY <1>13 DEF Covers
    <3>1. chain'[b] = chain[b]
      BY <1>1, <1>2, <1>13, <2>4
    <3>2. Scanner!Owed(m, b)
      BY <1>13 DEF Scanner!Owed
    <3>3. Scanner!Handled(m, b)
      BY <2>4, <3>2 DEF Covers
    <3> QED BY <1>13, <3>1, <3>3 DEF Scanner!Handled
  <2>5. Covers(cursor + 1)'
    <3>1. Covers(cursor + 1)
      BY DEF ScanInv
    <3>2. cursor + 1 \in Int /\ cursor + 1 <= Scanner!Confirmed(tip) + 1
      BY <1>1, <1>2
    <3>3. PICK n \in Int : n = cursor + 1
      BY <3>2
    <3>4. Covers(n)'
      BY <2>4, <3>1, <3>2, <3>3
    <3> QED BY <1>13, <3>3, <3>4
  <2>6. RunsCover'
    <3> SUFFICES ASSUME NEW q \in Scanner!Runs
                 PROVE  /\ run[q].phase = "logs" => Covers(run[q].from)'
                        /\ run[q].phase = "distribute" =>
                             /\ Covers(run[q].next)'
                             /\ \A b \in Scanner!Blocks :
                                  run[q].next <= b /\ b <= run[q].to =>
                                    run[q].forks[b] = chain'[b]
      BY <1>13 DEF RunsCover
    <3>1. PICK from \in Nat, to \in Nat, next \in Nat, confirmed \in Nat :
            from = run[q].from /\ to = run[q].to /\ next = run[q].next
            /\ confirmed = run[q].confirmed
      BY <1>3
    <3>2. run[q].phase \in {"logs", "distribute"} =>
            /\ from <= to /\ to <= Scanner!Confirmed(tip)
            /\ run[q].phase = "distribute" => next <= to + 1
      <4>1. run[q].phase \in {"logs", "distribute"} =>
              /\ confirmed <= Scanner!Confirmed(tip) /\ from <= to /\ to <= confirmed
              /\ run[q].phase = "distribute" => next <= to + 1
        BY <3>1 DEF ScanInv, RunsInOrder
      <4> QED BY <1>2, <4>1
    <3>3. ASSUME run[q].phase = "logs" PROVE Covers(run[q].from)'
      <4>1. Covers(from) /\ from \in Int /\ from <= Scanner!Confirmed(tip) + 1
        BY <1>2, <3>1, <3>2, <3>3 DEF ScanInv, RunsCover
      <4>2. Covers(from)'
        BY <2>4, <4>1
      <4> QED BY <1>13, <3>1, <4>2
    <3>4. ASSUME run[q].phase = "distribute" PROVE Covers(run[q].next)'
      <4>1. Covers(next) /\ next \in Int /\ next <= Scanner!Confirmed(tip) + 1
        BY <1>2, <3>1, <3>2, <3>4 DEF ScanInv, RunsCover
      <4>2. Covers(next)'
        BY <2>4, <4>1
      <4> QED BY <1>13, <3>1, <4>2
    <3>5. ASSUME run[q].phase = "distribute", NEW b \in Scanner!Blocks, run[q].next <= b,
                 b <= run[q].to
          PROVE  run[q].forks[b] = chain'[b]
      <4>1. run[q].forks[b] = chain[b]
        BY <3>5 DEF ScanInv, RunsCover
      <4>2. b <= Scanner!Confirmed(tip)
        BY <1>1, <1>2, <3>1, <3>2, <3>5
      <4> QED BY <1>13, <4>1, <4>2
    <3> QED BY <3>3, <3>4, <3>5
  <2> QED BY <2>2, <2>3, <2>5, <2>6 DEF ScanInv
<1>14. ASSUME Scanner!NewBlock PROVE ScanInv'
  <2>1. /\ tip' = tip + 1 /\ tip < MaxTip
        /\ UNCHANGED <<chain, reorgs, enabled, since, done, failed, cursor, run>>
    BY <1>14 DEF Scanner!NewBlock, Scanner!inbox
  <2>2. tip' \in Nat /\ tip <= tip' /\ tip' <= MaxTip
    BY <1>1, <2>1, ScanAssumptions
  <2> QED BY <1>1, <1>13, <2>1, <2>2
<1>15. ASSUME Scanner!Reorg PROVE ScanInv'
  <2>1. /\ reorgs < MaxReorgs /\ reorgs' = reorgs + 1
        /\ UNCHANGED <<tip, enabled, since, done, failed, cursor, run>>
    BY <1>15 DEF Scanner!Reorg, Scanner!inbox
  <2>2. PICK b \in 1..tip :
          /\ b > tip - ConfirmationBlocks
          /\ chain' = [x \in Scanner!Blocks |-> IF x >= b THEN reorgs + 1 ELSE chain[x]]
    BY <1>15 DEF Scanner!Reorg
  <2>3. b > Scanner!Confirmed(tip) /\ b \in Nat
    BY <1>1, <2>2, ConfirmedGrows
  <2>4. reorgs + 1 \in 0..MaxReorgs
    BY <1>1, <2>1, ScanAssumptions
  <2>5. chain' \in [Scanner!Blocks -> 0..MaxReorgs]
    BY <1>1, <2>2, <2>4
  <2>6. \A x \in Scanner!Blocks : x <= Scanner!Confirmed(tip) => chain'[x] = chain[x]
    BY <1>1, <1>2, <2>2, <2>3
  <2>7. tip' \in Nat /\ tip <= tip' /\ tip' <= MaxTip /\ reorgs' \in Nat /\ reorgs' <= MaxReorgs
    BY <1>1, <2>1, <2>4
  <2> QED BY <1>13, <2>1, <2>5, <2>6, <2>7
<1>16. ASSUME Scanner!Restart PROVE ScanInv'
  <2>1. /\ run' = [r \in Scanner!Runs |-> Scanner!Idle]
        /\ UNCHANGED <<tip, reorgs, chain, enabled, since, done, failed, cursor>>
    BY <1>16 DEF Scanner!Restart, Scanner!chainVars, Scanner!inbox
  <2>2. ScanTypes'
    BY <1>1, <1>6, <2>1 DEF ScanTypes, Scanner!NoCursor
  <2>3. RunsInOrder' /\ RunsCover'
    BY <1>6, <2>1 DEF RunsInOrder, RunsCover
  <2>4. Covers(cursor + 1)'
    BY <2>1 DEF ScanInv, Covers, Scanner!Owed, Scanner!Handled
  <2> QED BY <2>2, <2>3, <2>4 DEF ScanInv
\* A monitor that is enabled now is owed nothing that a run has behind it or in hand.
<1>17. ASSUME Scanner!Reconcile PROVE ScanInv'
  <2>1. /\ \A r \in Scanner!Runs :
              run'[r] = run[r] \/ run'[r] = [run[r] EXCEPT !.aborted = TRUE]
        /\ run' \in [Scanner!Runs -> Scanner!Run]
        /\ UNCHANGED <<tip, reorgs, chain, done, failed, cursor>>
    <3>1. ASSUME NEW r \in Scanner!Runs
          PROVE  /\ Scanner!Aborted(run[r]) \in {run[r], [run[r] EXCEPT !.aborted = TRUE]}
                 /\ Scanner!Aborted(run[r]) \in Scanner!Run
      BY <1>3 DEF Scanner!Aborted, Scanner!Run
    <3>2. CASE run' = run
      BY <1>1, <1>17, <3>2 DEF Scanner!Reconcile, Scanner!chainVars, Scanner!inbox
    <3>3. CASE run' = [r \in Scanner!Runs |-> Scanner!Aborted(run[r])]
      BY <1>17, <3>1, <3>3 DEF Scanner!Reconcile, Scanner!chainVars, Scanner!inbox
    <3> QED BY <1>17, <3>2, <3>3 DEF Scanner!Reconcile
  <2>2. /\ enabled' \subseteq Monitors
        /\ \A m \in Monitors : m \notin enabled' \ enabled => since'[m] = since[m]
        /\ \A m \in enabled' \ enabled :
             since'[m] = Scanner!Max({since[m], cursor}
                                     \cup {Scanner!Reached(run[r]) : r \in Scanner!Runs})
        /\ since' = [m \in Monitors |-> since'[m]]
    <3>1. CASE UNCHANGED <<enabled, since>>
      BY <1>1, <3>1
    <3>2. ASSUME NEW n \in Monitors, enabled' = Scanner!Toggled(enabled, n),
                 since' = IF n \in enabled THEN since
                          ELSE [since EXCEPT ![n] =
                                  Scanner!Max({@, cursor}
                                    \cup {Scanner!Reached(run[r]) : r \in Scanner!Runs})]
          PROVE  /\ enabled' \subseteq Monitors
                 /\ \A m \in Monitors : m \notin enabled' \ enabled => since'[m] = since[m]
                 /\ \A m \in enabled' \ enabled :
                      since'[m] = Scanner!Max({since[m], cursor}
                                    \cup {Scanner!Reached(run[r]) : r \in Scanner!Runs})
                 /\ since' = [m \in Monitors |-> since'[m]]
      <4>1. CASE n \in enabled
        BY <1>1, <3>2, <4>1 DEF Scanner!Toggled
      <4>2. CASE n \notin enabled
        BY <1>1, <3>2, <4>2 DEF Scanner!Toggled
      <4> QED BY <4>1, <4>2
    <3> QED BY <1>17, <3>1, <3>2 DEF Scanner!Reconcile
  <2>3. \A r \in Scanner!Runs :
          /\ run'[r] \in Scanner!Run /\ run'[r].phase = run[r].phase
          /\ run'[r].confirmed = run[r].confirmed /\ run'[r].from = run[r].from
          /\ run'[r].to = run[r].to /\ run'[r].next = run[r].next
          /\ run'[r].forks = run[r].forks
    BY <1>3, <2>1 DEF Scanner!Run
  <2>4. \A r \in Scanner!Runs : Scanner!Reached(run[r]) \in Int
    BY <1>3 DEF Scanner!Reached
  <2>5. ASSUME NEW m \in enabled' \ enabled
        PROVE  /\ since'[m] \in Int /\ since'[m] >= cursor
               /\ \A r \in Scanner!Runs : since'[m] >= Scanner!Reached(run[r])
    <3>1. {since[m], cursor} \cup {Scanner!Reached(run[r]) : r \in Scanner!Runs}
            = {since[m], cursor, Scanner!Reached(run[1]), Scanner!Reached(run[2])}
      BY <1>1
    <3>2. PICK a \in Int, c \in Int, d \in Int :
            a = since[m] /\ c = Scanner!Reached(run[1]) /\ d = Scanner!Reached(run[2])
      BY <1>1, <2>2, <2>4
    <3>3. PICK S : S = {a, cursor, c, d}
      OBVIOUS
    <3>4. since'[m] = Scanner!Max(S)
      BY <2>2, <2>5, <3>1, <3>2, <3>3
    <3>5. /\ Scanner!Max(S) \in Int /\ Scanner!Max(S) >= cursor
          /\ Scanner!Max(S) >= c /\ Scanner!Max(S) >= d
      BY <1>1, <3>2, <3>3, MaxOfFour
    <3>6. since'[m] \in Int /\ since'[m] >= cursor /\ since'[m] >= c /\ since'[m] >= d
      BY <3>4, <3>5
    <3> QED BY <1>1, <3>2, <3>6
  <2>6. since' \in [Monitors -> Int]
    BY <1>1, <2>2, <2>5
  <2>7. ASSUME NEW n \in Int, Covers(n), \A m \in enabled' \ enabled : since'[m] >= n - 1
        PROVE  Covers(n)'
    <3> SUFFICES ASSUME NEW m \in enabled', NEW b \in Scanner!Blocks, b < n,
                        Scanner!Owed(m, b)'
                 PROVE  Scanner!Handled(m, b)'
      BY DEF Covers
    <3>1. m \in enabled
      <4>1. b > since'[m] /\ b \in Nat /\ since'[m] \in Int
        BY <1>1, <2>2, <2>6 DEF Scanner!Owed
      <4> QED BY <2>7, <4>1
    <3>2. Scanner!Owed(m, b)
      BY <1>1, <2>2, <3>1 DEF Scanner!Owed
    <3>3. Scanner!Handled(m, b)
      BY <2>7, <3>1, <3>2 DEF Covers
    <3> QED BY <2>1, <3>3 DEF Scanner!Handled
  <2>8. ScanTypes'
    BY <1>1, <2>1, <2>2, <2>6 DEF ScanTypes, Scanner!NoCursor
  <2>9. RunsInOrder'
    BY <2>1, <2>3 DEF ScanInv, RunsInOrder
  <2>10. Covers(cursor + 1)'
    <3>1. PICK n \in Int : n = cursor + 1
      BY <1>1
    <3>2. Covers(n) /\ \A m \in enabled' \ enabled : since'[m] >= n - 1
      BY <1>1, <2>5, <3>1 DEF ScanInv
    <3>3. Covers(n)'
      BY <2>7, <3>2
    <3> QED BY <2>1, <3>1, <3>3
  <2>11. RunsCover'
    <3> SUFFICES ASSUME NEW q \in Scanner!Runs
                 PROVE  /\ run[q].phase = "logs" => Covers(run[q].from)'
                        /\ run[q].phase = "distribute" =>
                             /\ Covers(run[q].next)'
                             /\ \A b \in Scanner!Blocks :
                                  run[q].next <= b /\ b <= run[q].to =>
                                    run[q].forks[b] = chain[b]
      <4>1. chain' = chain
        BY <2>1
      <4> QED BY <2>3, <4>1 DEF RunsCover, Covers
    <3>1. PICK from \in Nat, to \in Nat, next \in Nat :
            from = run[q].from /\ to = run[q].to /\ next = run[q].next
      BY <1>3
    <3>2. ASSUME run[q].phase = "logs" PROVE Covers(run[q].from)'
      <4>1. Covers(from)
        BY <3>1, <3>2 DEF ScanInv, RunsCover
      <4>2. Scanner!Reached(run[q]) = from - 1
        BY <3>1, <3>2 DEF Scanner!Reached
      <4>3. from \in Int /\ \A m \in enabled' \ enabled : since'[m] >= from - 1
        BY <2>5, <4>2
      <4>4. Covers(from)'
        BY <2>7, <4>1, <4>3
      <4>5. run'[q].from = from
        BY <2>3, <3>1
      <4> QED BY <4>4, <4>5
    <3>3. ASSUME run[q].phase = "distribute" PROVE Covers(run[q].next)'
      <4>1. Covers(next) /\ next <= to + 1
        BY <3>1, <3>3 DEF ScanInv, RunsCover, RunsInOrder
      <4>2. Scanner!Reached(run[q]) = next - 1
        BY <3>1, <3>3 DEF Scanner!Reached
      <4>3. next \in Int /\ \A m \in enabled' \ enabled : since'[m] >= next - 1
        BY <2>5, <4>2
      <4>4. Covers(next)'
        BY <2>7, <4>1, <4>3
      <4>5. run'[q].next = next
        BY <2>3, <3>1
      <4> QED BY <4>4, <4>5
    <3>4. run[q].phase = "distribute" =>
            \A b \in Scanner!Blocks :
              run[q].next <= b /\ b <= run[q].to => run[q].forks[b] = chain[b]
      BY DEF ScanInv, RunsCover
    <3> QED BY <3>2, <3>3, <3>4
  <2> QED BY <2>8, <2>9, <2>10, <2>11 DEF ScanInv
<1>18. ASSUME UNCHANGED Scanner!vars PROVE ScanInv'
  <2>1. UNCHANGED <<tip, reorgs, chain, enabled, cursor, run, since, done, failed>>
    BY <1>18 DEF Scanner!vars, Scanner!chainVars, Scanner!inbox
  <2> QED BY <2>1 DEF ScanInv, ScanTypes, RunsInOrder, Covers, RunsCover, Scanner!Owed,
                      Scanner!Handled
<1> QED
  BY <1>7, <1>8, <1>9, <1>10, <1>11, <1>12, <1>14, <1>15, <1>16, <1>17, <1>18 DEF Scanner!Next

LEMMA ScanInvAlways == PartsSpec => []ScanInv
<1>1. PartsInit => ScanInv
  BY ScanInit DEF PartsInit
<1>2. ScanInv /\ [PartsNext]_partVars => ScanInv'
  <2> SUFFICES ASSUME ScanInv, [PartsNext]_partVars PROVE ScanInv'
    OBVIOUS
  <2>1. [Scanner!Next]_(Scanner!vars)
    BY DEF PartsNext, partVars, scannerVars, Scanner!vars, Scanner!chainVars, Scanner!inbox
  <2> QED BY <2>1, ScanStep
<1> QED BY <1>1, <1>2, PTL DEF PartsSpec

\* The saved cursor never stands past an event of the chain that an enabled monitor was not
\* given, whatever monitors came and went while a run distributed, whatever crash came between an
\* ingest and the save (aave-v3-event-coordinator.ts, scan).
THEOREM CursorCoversAlways == PartsSpec => []CursorCovers
<1>1. ScanInv => CursorCovers
  <2> SUFFICES ASSUME ScanInv, NEW m \in enabled, NEW b \in Scanner!Blocks, b <= cursor,
                      Scanner!Owed(m, b)
               PROVE  Scanner!Handled(m, b)
    BY DEF CursorCovers, Scanner!CursorCovers
  <2>1. b < cursor + 1
    BY ScanAssumptions DEF ScanInv, ScanTypes, Scanner!Blocks
  <2> QED BY <2>1 DEF ScanInv, Covers
<1> QED BY <1>1, ScanInvAlways, PTL
=============================================================================
