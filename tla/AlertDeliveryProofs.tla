---------------------------- MODULE AlertDeliveryProofs ----------------------------
(***************************************************************************)
(* Theorems about AlertDelivery, for every set of alerts and targets, every *)
(* backoff and every bound: its safety properties.                          *)
(***************************************************************************)
EXTENDS AlertDelivery, WellFoundedInduction, TLAPS

\* The job in hand is the claim that its row records: nobody claims a target
\* twice, so that StillOurs never rejects the answer.
JobIsCurrent ==
  job # None =>
    /\ phase # "down" /\ batch # None /\ job.attempts > 0
    /\ target[job.delivery].status = "sending"
    /\ target[job.delivery].attempts = job.attempts

DrainIsAwaited == batch # None => waiters > 0

AbsentIsUnraised ==
  \A d \in Deliveries : status[d[1]] = "absent" => target[d].status = "unraised"

\* Without a fault, a claimed target is the one in hand.
SendingIsInHand ==
  faults = 0 =>
    \A d \in Deliveries : target[d].status = "sending" => job # None /\ job.delivery = d

\* Only a sent target may have been accepted once more than there were faults.
AcceptedOnce ==
  \A d \in Deliveries :
    accepted[d] <= IF target[d].status = "sent" THEN faults + 1 ELSE faults

\* The inductive invariant.
Inv ==
  /\ TypeOK
  /\ JobIsCurrent
  /\ DrainIsAwaited
  /\ AbsentIsUnraised
  /\ SendingIsInHand
  /\ AcceptedOnce
  /\ IndexCoversTargets
  /\ PollingContinues
Jobs == [delivery : Deliveries, attempts : Nat, resolved : BOOLEAN, sent : BOOLEAN]
Targets == [Deliveries -> [status : TargetStatuses, attempts : Nat, wait : Nat]]

---------------------------------------------------------------------------
(* The operators of the model *)

\* A nonempty set of numbers has a least element.
LEMMA LeastOfNats ==
  ASSUME NEW S, S \subseteq Nat, S # {}
  PROVE  \E n \in S : \A m \in S : n <= m
<1>1. PICK n \in S : \A m \in S : <<m, n>> \notin OpToRel(<, Nat)
  BY WFMin, NatLessThanWellFounded, Zenon
<1>2. \A m \in S : ~(m < n)
  BY <1>1, Zenon DEF OpToRel
<1> QED
  BY <1>2

LEMMA MinOfIsLeast ==
  ASSUME NEW S, S \subseteq Nat, S # {}
  PROVE  MinOf(S) \in S /\ \A m \in S : MinOf(S) <= m
<1>1. \E n \in S : \A m \in S : n <= m
  BY LeastOfNats
<1> QED
  BY <1>1 DEF MinOf

\* A delivery is an alert and the position of one of its targets.
LEMMA DeliveryParts ==
  ASSUME NEW d \in Deliveries
  PROVE  /\ d[1] \in Alerts /\ d[2] \in Nat /\ d[2] \in Integrations
         /\ d = <<d[1], d[2]>> /\ d \in DeliveriesOf(d[1])
<1>1. PICK a \in Alerts : d \in {a} \X TargetsOf[a]
  BY DEF Deliveries
<1>2. TargetsOf[a] \subseteq Nat
  BY TargetsArePositions
<1> QED
  BY <1>1, <1>2 DEF DeliveriesOf, Integrations

LEMMA DeliveriesOfAlert ==
  ASSUME NEW a \in Alerts
  PROVE  DeliveriesOf(a) \subseteq Deliveries /\ \A d \in DeliveriesOf(a) : d[1] = a
  BY DEF DeliveriesOf, Deliveries

\* nextDeliveryAt is no later than the wait of any unfinished target of the alert.
LEMMA NextDueCovers ==
  ASSUME NEW a \in Alerts, NEW targets \in Targets
  PROVE  /\ NextDue(a, targets) \in Nat \cup {None}
         /\ \A d \in DeliveriesOf(a) : targets[d].status \in Unfinished =>
              NextDue(a, targets) # None /\ NextDue(a, targets) <= targets[d].wait
<1> DEFINE W == Waits(a, targets)
<1>1. W \subseteq Nat
  BY DeliveriesOfAlert DEF Waits, Targets
<1>2. \A d \in DeliveriesOf(a) : targets[d].status \in Unfinished => targets[d].wait \in W
  BY DEF Waits
<1>3. CASE W = {}
  BY <1>2, <1>3 DEF NextDue
<1>4. CASE W # {}
  <2>1. MinOf(W) \in W /\ \A m \in W : MinOf(W) <= m
    BY <1>1, <1>4, MinOfIsLeast
  <2>2. NextDue(a, targets) = MinOf(W)
    BY <1>4 DEF NextDue
  <2> HIDE DEF W
  <2> QED BY <1>1, <1>2, <2>1, <2>2, NoneIsNoDelivery
<1> QED BY <1>3, <1>4

\* findIndex finds a target that is due in a row that has one.
LEMMA FirstDueIsDue ==
  ASSUME NEW a \in Alerts, DueTargets(a) # {}
  PROVE  FirstDue(a) \in DueTargets(a)
<1> DEFINE P == {d[2] : d \in DueTargets(a)}
<1>1. P \subseteq Nat /\ P # {}
  BY DeliveriesOfAlert, DeliveryParts DEF DueTargets
<1>2. \E p \in P : \A q \in P : p <= q
  BY <1>1, LeastOfNats
<1>3. \E d \in DueTargets(a) : \A e \in DueTargets(a) : d[2] <= e[2]
  BY <1>2
<1> QED
  BY <1>3 DEF FirstDue
---------------------------------------------------------------------------
(* The initial states *)

LEMMA InitInv == Init => Inv
<1> SUFFICES ASSUME Init PROVE Inv
  OBVIOUS
<1> USE DEF Init
<1>1. Backoff[1] \in Nat
  BY DeliveryBounds, BackoffIsPositive
<1>2. target \in Targets
  BY <1>1 DEF Targets, TargetStatuses, Unfinished, Unraised
<1>3. TypeOK
  <2>1. MaxDisruptions \in Nat
    BY DeliveryBounds
  <2>2. {faults, stops, changes} \subseteq 0..MaxDisruptions
    BY <2>1
  <2> QED BY <1>2, <2>2 DEF TypeOK, Targets
<1>4. JobIsCurrent /\ DrainIsAwaited /\ PollingContinues
  BY DEF JobIsCurrent, DrainIsAwaited, PollingContinues
<1>5. AbsentIsUnraised
  BY DeliveryParts DEF AbsentIsUnraised, Unraised
<1>6. SendingIsInHand /\ AcceptedOnce
  BY DEF SendingIsInHand, AcceptedOnce, Unraised
<1>7. IndexCoversTargets
  <2> SUFFICES ASSUME NEW d \in Deliveries, target[d].status \in Unfinished
               PROVE  due[d[1]] # None /\ due[d[1]] <= target[d].wait
    BY DEF IndexCoversTargets
  <2>1. d[1] \in LegacyDue /\ target[d].wait \in Nat
    BY <1>1 DEF Unfinished, Unraised
  <2> QED BY <2>1, DeliveryParts, NoneIsNoDelivery
<1> QED
  BY <1>3, <1>4, <1>5, <1>6, <1>7 DEF Inv

---------------------------------------------------------------------------
(* The steps of the worker *)

LEMMA JobTyped == Inv /\ job # None => job \in Jobs
  BY DEF Inv, TypeOK, Jobs

\* The end of a drain: the callbacks that waited for it leave a timer behind.
LEMMA EndOfDrainStep ==
  ASSUME Inv, EndOfDrain
  PROVE  /\ batch' = None /\ waiters' = 0
         /\ timer' \in BOOLEAN
         /\ batch # None => orphans' \in Nat
         /\ phase = "up" => timer'
<1>1. waiters \in Nat /\ orphans \in Nat /\ timer \in BOOLEAN
  BY DEF Inv, TypeOK
<1>2. batch # None => waiters > 0
  BY DEF Inv, DrainIsAwaited
<1>3. timer' \in BOOLEAN /\ (phase = "up" => timer')
  BY <1>1, Zenon DEF EndOfDrain, Reschedule
<1>4. CASE phase = "up"
  <2>1. orphans' = orphans + (IF timer THEN waiters ELSE waiters - 1)
    BY <1>4 DEF EndOfDrain, Reschedule
  <2> QED BY <1>1, <1>2, <1>3, <2>1 DEF EndOfDrain
<1>5. CASE phase # "up"
  BY <1>1, <1>3, <1>5 DEF EndOfDrain, Reschedule
<1> QED
  BY <1>4, <1>5

\* completeDelivery finds the row as claimed: the outcome is written, the index
\* follows, and every other target stays as it is.
LEMMA CompleteStep ==
  ASSUME Inv, job # None, NEW outcome \in {"pending", "sent", "failed", "skipped"},
         NEW wait \in Nat, Complete(outcome, wait)
  PROVE  /\ target'[job.delivery].status = outcome
         /\ \A e \in Deliveries : e # job.delivery => target'[e] = target[e]
         /\ target' \in Targets
         /\ due' \in [Alerts -> Nat \cup {None}]
         /\ job' = None
         /\ UNCHANGED <<status, usable, phase, timer, orphans, waiters, batch>>
         /\ AbsentIsUnraised' /\ IndexCoversTargets'
<1> DEFINE d == job.delivery
<1>1. job \in Jobs /\ d \in Deliveries /\ d[1] \in Alerts
  BY JobTyped, DeliveryParts DEF Jobs
<1>2. target \in Targets /\ due \in [Alerts -> Nat \cup {None}]
  BY DEF Inv, TypeOK, Targets
<1>3. StillOurs(target[d]) /\ target[d].attempts = job.attempts
  BY DEF Inv, JobIsCurrent, StillOurs
<1>4. /\ target' = [target EXCEPT ![d].status = outcome, ![d].wait = wait]
      /\ due' = [due EXCEPT ![d[1]] = NextDue(d[1], target')]
      /\ job' = None
      /\ UNCHANGED <<status, usable, phase, timer, orphans, waiters, batch>>
  BY <1>3 DEF Complete
<1>5. /\ target'[d].status = outcome /\ target'[d].wait = wait
      /\ \A e \in Deliveries : e # d => target'[e] = target[e]
  BY <1>1, <1>2, <1>4 DEF Targets
<1>6. target' \in Targets
  BY <1>1, <1>2, <1>4 DEF Targets, TargetStatuses, Unfinished, Terminal
<1>7. /\ NextDue(d[1], target') \in Nat \cup {None}
      /\ \A e \in DeliveriesOf(d[1]) : target'[e].status \in Unfinished =>
           NextDue(d[1], target') # None /\ NextDue(d[1], target') <= target'[e].wait
  BY <1>1, <1>6, NextDueCovers
<1>8. due' \in [Alerts -> Nat \cup {None}]
  BY <1>1, <1>2, <1>4, <1>7
<1>9. IndexCoversTargets'
  <2> SUFFICES ASSUME NEW e \in Deliveries, target'[e].status \in Unfinished
               PROVE  due'[e[1]] # None /\ due'[e[1]] <= target'[e].wait
    BY DEF IndexCoversTargets
  <2>1. e[1] \in Alerts /\ e \in DeliveriesOf(e[1])
    BY DeliveryParts
  <2>2. CASE e[1] = d[1]
    BY <1>1, <1>2, <1>4, <1>7, <2>1, <2>2
  <2>3. CASE e[1] # d[1]
    <3>1. target'[e] = target[e] /\ due'[e[1]] = due[e[1]]
      BY <1>1, <1>2, <1>4, <1>5, <2>1, <2>3 DEF Targets
    <3> QED BY <3>1 DEF Inv, IndexCoversTargets
  <2> QED BY <2>2, <2>3
<1>10. AbsentIsUnraised'
  <2>1. target[d].status # "unraised"
    BY DEF Inv, JobIsCurrent
  <2>2. status[d[1]] # "absent"
    BY <1>1, <2>1 DEF Inv, AbsentIsUnraised
  <2> QED BY <1>1, <1>2, <1>4, <1>5, <2>2 DEF Inv, AbsentIsUnraised, Targets
<1> QED
  BY <1>4, <1>5, <1>6, <1>8, <1>9, <1>10
---------------------------------------------------------------------------
(* The invariant, one lemma per kind of step *)

LEMMA RaiseStep ==
  ASSUME Inv, NEW a \in Alerts, Raise(a)
  PROVE  Inv'
<1> USE DEF counters
<1>1. target \in Targets /\ target' \in Targets
  BY DEF Inv, TypeOK, Raise, Targets, Fresh, TargetStatuses, Unfinished
<1>2. TypeOK'
  BY <1>1 DEF Inv, TypeOK, Raise, Targets
<1>3. \A d \in Deliveries : d[1] = a => target[d].status = "unraised"
  BY DEF Inv, AbsentIsUnraised, Raise
<1>4. \A d \in Deliveries : d[1] # a => target'[d] = target[d]
  BY DEF Raise
<1>5. job # None => job \in Jobs /\ job.delivery[1] # a
  BY <1>3, JobTyped DEF Inv, JobIsCurrent, Jobs
<1>6. JobIsCurrent'
  BY <1>4, <1>5 DEF Inv, JobIsCurrent, Raise, Jobs
<1>7. DrainIsAwaited' /\ PollingContinues'
  BY DEF Inv, DrainIsAwaited, PollingContinues, Raise
<1>8. AbsentIsUnraised'
  BY <1>4, DeliveryParts DEF Inv, TypeOK, AbsentIsUnraised, Raise
<1>9. SendingIsInHand'
  BY <1>4 DEF Inv, SendingIsInHand, Raise, Fresh
<1>10. AcceptedOnce'
  BY <1>3, <1>4 DEF Inv, AcceptedOnce, Raise, Fresh
<1>11. IndexCoversTargets'
  <2> SUFFICES ASSUME NEW d \in Deliveries, target'[d].status \in Unfinished
               PROVE  due'[d[1]] # None /\ due'[d[1]] <= target'[d].wait
    BY DEF IndexCoversTargets
  <2>1. d[1] \in Alerts /\ d \in DeliveriesOf(d[1]) /\ due \in [Alerts -> Nat \cup {None}]
    BY DeliveryParts DEF Inv, TypeOK
  <2>2. CASE d[1] = a
    <3>1. TargetsOf[a] # {}
      BY <2>1, <2>2 DEF DeliveriesOf
    <3>2. due'[a] = 0 /\ target'[d].wait = 0
      BY <2>1, <2>2, <3>1 DEF Raise, Fresh
    <3> QED BY <2>2, <3>2, NoneIsNoDelivery
  <2>3. CASE d[1] # a
    BY <1>4, <2>1, <2>3 DEF Inv, IndexCoversTargets, Raise
  <2> QED BY <2>2, <2>3
<1> QED
  BY <1>2, <1>6, <1>7, <1>8, <1>9, <1>10, <1>11 DEF Inv

LEMMA TickStep ==
  ASSUME Inv, Tick
  PROVE  Inv'
<1> USE DEF counters, worker
<1>1. target \in Targets /\ due \in [Alerts -> Nat \cup {None}]
  BY DEF Inv, TypeOK, Targets
<1>2. \A n \in Nat : Elapsed(n) \in Nat
  BY DEF Elapsed
<1>3. Elapsed(None) = None
  BY NoneIsNoDelivery DEF Elapsed
<1>4. \A d \in Deliveries : /\ target'[d].status = target[d].status
                            /\ target'[d].attempts = target[d].attempts
                            /\ target'[d].wait = Elapsed(target[d].wait)
  BY <1>1 DEF Tick, Targets
<1>5. target' \in Targets
  BY <1>1, <1>2 DEF Tick, Targets
<1>6. TypeOK'
  BY <1>1, <1>2, <1>3, <1>5 DEF Inv, TypeOK, Tick, Targets
<1>7. job # None => job \in Jobs
  BY JobTyped
<1>8. JobIsCurrent' /\ DrainIsAwaited' /\ PollingContinues'
  BY <1>4, <1>7 DEF Inv, JobIsCurrent, DrainIsAwaited, PollingContinues, Tick, Jobs
<1>9. AbsentIsUnraised' /\ SendingIsInHand' /\ AcceptedOnce'
  BY <1>4 DEF Inv, AbsentIsUnraised, SendingIsInHand, AcceptedOnce, Tick
<1>10. IndexCoversTargets'
  <2> SUFFICES ASSUME NEW d \in Deliveries, target'[d].status \in Unfinished
               PROVE  due'[d[1]] # None /\ due'[d[1]] <= target'[d].wait
    BY DEF IndexCoversTargets
  <2>1. d[1] \in Alerts /\ due'[d[1]] = Elapsed(due[d[1]])
    BY DeliveryParts DEF Tick
  <2>2. due[d[1]] \in Nat /\ due[d[1]] <= target[d].wait /\ target[d].wait \in Nat
    BY <1>1, <1>4, <2>1 DEF Inv, IndexCoversTargets, Targets
  <2>3. Elapsed(due[d[1]]) \in Nat /\ Elapsed(due[d[1]]) <= Elapsed(target[d].wait)
    BY <2>2 DEF Elapsed
  <2> QED BY <1>4, <2>1, <2>3, NoneIsNoDelivery
<1> QED
  BY <1>6, <1>8, <1>9, <1>10 DEF Inv

\* claimNextDelivery leaves the rows it does not read as they are, and gives each
\* one it reads the index of its targets as they are then.
LEMMA ClaimStep ==
  ASSUME Inv, NEW a \in Alerts, NEW early \in SUBSET EarlyRows, Claim(a, early)
  PROVE  Inv'
<1> DEFINE d == FirstDue(a)
<1> USE DEF counters
<1>1. target \in Targets /\ due \in [Alerts -> Nat \cup {None}]
  BY DEF Inv, TypeOK, Targets
<1>2. d \in DueTargets(a)
  BY FirstDueIsDue DEF Claim, EarlyRows
<1>3. d \in Deliveries /\ d[1] = a /\ target[d].status \in Unfinished
  BY <1>2, DeliveriesOfAlert DEF DueTargets, IsDue
<1>4. /\ target' = [target EXCEPT ![d] = Claimed(d)]
      /\ due' = [b \in Alerts |-> IF b \in early \cup {a} THEN NextDue(b, target')
                                  ELSE due[b]]
      /\ job' = [delivery |-> d, attempts |-> Claimed(d).attempts,
                 resolved |-> status[a] = "resolved", sent |-> FALSE]
  BY DEF Claim
<1>5. /\ MayClaim /\ batch' = batch + 1
      /\ UNCHANGED <<status, usable, phase, timer, orphans, waiters, accepted,
                     faults, stops, changes>>
  BY DEF Claim
<1> HIDE DEF d
<1>6. Claimed(d) = [status |-> "sending", attempts |-> target[d].attempts + 1, wait |-> Lease]
  BY DEF Claimed
<1>7. target' \in Targets
  BY <1>1, <1>3, <1>4, <1>6, DeliveryBounds DEF Targets, TargetStatuses, Unfinished
<1>8. /\ target'[d] = Claimed(d)
      /\ \A e \in Deliveries : e # d => target'[e] = target[e]
  BY <1>1, <1>3, <1>4 DEF Targets
<1>9. \A b \in Alerts :
        /\ NextDue(b, target') \in Nat \cup {None}
        /\ \A e \in DeliveriesOf(b) : target'[e].status \in Unfinished =>
             NextDue(b, target') # None /\ NextDue(b, target') <= target'[e].wait
  BY <1>7, NextDueCovers
<1>10. due' \in [Alerts -> Nat \cup {None}]
  BY <1>1, <1>4, <1>9
<1>11. job' \in Jobs /\ job'.delivery = d /\ job'.attempts = target[d].attempts + 1
       /\ target[d].attempts \in Nat
  BY <1>1, <1>3, <1>4, <1>6 DEF Targets, Jobs
<1>12. job' # None
  BY <1>11, NoneIsNoDelivery DEF Jobs
<1>13. batch \in 0..MaxBatch /\ batch' \in 0..MaxBatch /\ batch' # None
  BY <1>5, DeliveryBounds, NoneIsNoDelivery DEF Inv, TypeOK, MayClaim
<1>14. TypeOK'
  BY <1>5, <1>7, <1>10, <1>11, <1>13 DEF Inv, TypeOK, Targets, Jobs
<1>15. JobIsCurrent'
  BY <1>5, <1>6, <1>8, <1>11, <1>13 DEF JobIsCurrent, MayClaim
<1>16. DrainIsAwaited' /\ PollingContinues'
  BY <1>5, <1>13 DEF Inv, DrainIsAwaited, PollingContinues, MayClaim
<1>17. AbsentIsUnraised'
  BY <1>3, <1>5, <1>8 DEF Inv, AbsentIsUnraised, Unfinished
<1>18. SendingIsInHand'
  BY <1>5, <1>8, <1>11, <1>12 DEF Inv, SendingIsInHand, MayClaim
<1>19. AcceptedOnce'
  BY <1>3, <1>5, <1>6, <1>8 DEF Inv, AcceptedOnce, Unfinished
<1>20. IndexCoversTargets'
  <2> SUFFICES ASSUME NEW e \in Deliveries, target'[e].status \in Unfinished
               PROVE  due'[e[1]] # None /\ due'[e[1]] <= target'[e].wait
    BY DEF IndexCoversTargets
  <2>1. e[1] \in Alerts /\ e \in DeliveriesOf(e[1])
    BY DeliveryParts
  <2>2. CASE e[1] \in early \cup {a}
    BY <1>4, <1>9, <2>1, <2>2
  <2>3. CASE e[1] \notin early \cup {a}
    <3>1. target'[e] = target[e] /\ due'[e[1]] = due[e[1]]
      BY <1>3, <1>4, <1>8, <2>1, <2>3
    <3> QED BY <3>1 DEF Inv, IndexCoversTargets
  <2> QED BY <2>2, <2>3
<1> QED
  BY <1>14, <1>15, <1>16, <1>17, <1>18, <1>19, <1>20 DEF Inv
LEMMA ClaimNothingStep ==
  ASSUME Inv, ClaimNothing
  PROVE  Inv'
<1> USE DEF counters
<1>1. target \in Targets /\ due \in [Alerts -> Nat \cup {None}]
  BY DEF Inv, TypeOK, Targets
<1>2. /\ batch # None /\ job = None /\ EndOfDrain
      /\ UNCHANGED <<status, target, usable, phase, job, accepted, faults, stops, changes>>
  BY DEF ClaimNothing
<1>3. /\ batch' = None /\ waiters' = 0 /\ timer' \in BOOLEAN /\ orphans' \in Nat
      /\ phase = "up" => timer'
  BY <1>2, EndOfDrainStep
<1>4. \A a \in Alerts : due'[a] = due[a] \/ due'[a] = NextDue(a, target)
  BY DEF ClaimNothing
<1>5. \A a \in Alerts :
        /\ NextDue(a, target) \in Nat \cup {None}
        /\ \A d \in DeliveriesOf(a) : target[d].status \in Unfinished =>
             NextDue(a, target) # None /\ NextDue(a, target) <= target[d].wait
  BY <1>1, NextDueCovers
<1>6. due' \in [Alerts -> Nat \cup {None}]
  BY <1>1, <1>5 DEF ClaimNothing
<1>7. TypeOK'
  BY <1>2, <1>3, <1>6 DEF Inv, TypeOK
<1>8. JobIsCurrent' /\ DrainIsAwaited' /\ AbsentIsUnraised' /\ SendingIsInHand' /\ AcceptedOnce'
  BY <1>2, <1>3 DEF Inv, JobIsCurrent, DrainIsAwaited, AbsentIsUnraised, SendingIsInHand,
                    AcceptedOnce
<1>9. PollingContinues'
  BY <1>2, <1>3 DEF PollingContinues
<1>10. IndexCoversTargets'
  <2> SUFFICES ASSUME NEW d \in Deliveries, target'[d].status \in Unfinished
               PROVE  due'[d[1]] # None /\ due'[d[1]] <= target'[d].wait
    BY DEF IndexCoversTargets
  <2>1. d[1] \in Alerts /\ d \in DeliveriesOf(d[1]) /\ target[d].status \in Unfinished
    BY <1>2, DeliveryParts
  <2> QED BY <1>2, <1>4, <1>5, <2>1 DEF Inv, IndexCoversTargets
<1> QED
  BY <1>7, <1>8, <1>9, <1>10 DEF Inv

LEMMA AcceptCounts ==
  ASSUME Inv, job # None, Accept
  PROVE  /\ accepted' \in [Deliveries -> Nat]
         /\ accepted'[job.delivery] = accepted[job.delivery] + 1
         /\ \A d \in Deliveries : d # job.delivery => accepted'[d] = accepted[d]
<1>1. accepted \in [Deliveries -> Nat] /\ job.delivery \in Deliveries
  BY JobTyped DEF Inv, TypeOK, Jobs
<1>2. accepted' = [accepted EXCEPT ![job.delivery] = accepted[job.delivery] + 1]
  BY DEF Accept
<1> QED
  BY <1>1, <1>2

\* What is left to show of a step that completes the job: whether the provider
\* accepted, and which counter of faults rose.
LEMMA AnswerStep ==
  ASSUME Inv, job # None, NEW outcome \in {"pending", "sent", "failed", "skipped"},
         NEW wait \in Nat, Complete(outcome, wait),
         faults' \in 0..MaxDisruptions, faults <= faults', UNCHANGED <<stops, changes>>,
         \/ UNCHANGED accepted
         \/ Accept /\ (outcome = "sent" \/ faults' = faults + 1)
  PROVE  Inv'
<1> DEFINE d == job.delivery
<1>1. /\ target'[d].status = outcome
      /\ \A e \in Deliveries : e # d => target'[e] = target[e]
      /\ target' \in Targets /\ due' \in [Alerts -> Nat \cup {None}]
      /\ job' = None
      /\ UNCHANGED <<status, usable, phase, timer, orphans, waiters, batch>>
      /\ AbsentIsUnraised' /\ IndexCoversTargets'
  BY CompleteStep
<1>2. d \in Deliveries /\ target[d].status = "sending"
  BY JobTyped DEF Jobs, Inv, JobIsCurrent
<1> HIDE DEF d
<1>3. accepted \in [Deliveries -> Nat] /\ faults \in Nat /\ faults' \in Nat
  BY DeliveryBounds DEF Inv, TypeOK
<1>4. /\ accepted' \in [Deliveries -> Nat]
      /\ \A e \in Deliveries : e # d => accepted'[e] = accepted[e]
      /\ accepted'[d] = accepted[d]
         \/ (accepted'[d] = accepted[d] + 1 /\ (outcome = "sent" \/ faults' = faults + 1))
  <2>1. CASE UNCHANGED accepted
    BY <1>3, <2>1
  <2>2. CASE Accept /\ (outcome = "sent" \/ faults' = faults + 1)
    BY <1>3, <2>2, AcceptCounts DEF d
  <2> QED BY <2>1, <2>2
<1>5. TypeOK'
  BY <1>1, <1>4 DEF Inv, TypeOK, Targets
<1>6. JobIsCurrent' /\ DrainIsAwaited' /\ PollingContinues'
  BY <1>1 DEF Inv, JobIsCurrent, DrainIsAwaited, PollingContinues
<1>7. SendingIsInHand'
  BY <1>1, <1>3 DEF Inv, SendingIsInHand, d
<1>8. AcceptedOnce'
  <2> SUFFICES ASSUME NEW e \in Deliveries
               PROVE  accepted'[e] <= IF target'[e].status = "sent" THEN faults' + 1 ELSE faults'
    BY DEF AcceptedOnce
  <2>1. accepted[e] <= IF target[e].status = "sent" THEN faults + 1 ELSE faults
    BY DEF Inv, AcceptedOnce
  <2>2. CASE e = d
    BY <1>1, <1>2, <1>3, <1>4, <2>1, <2>2
  <2>3. CASE e # d
    BY <1>1, <1>3, <1>4, <2>1, <2>3
  <2> QED BY <2>2, <2>3
<1> QED
  BY <1>1, <1>5, <1>6, <1>7, <1>8 DEF Inv

LEMMA RetryLaterStep ==
  ASSUME Inv, job # None, NEW retryAfter \in Nat, RetryLater(retryAfter)
  PROVE  \E outcome \in {"pending", "failed"}, wait \in Nat : Complete(outcome, wait)
<1>1. job.attempts \in Nat /\ job.attempts > 0
  BY JobTyped DEF Inv, JobIsCurrent, Jobs
<1>2. CASE job.attempts >= MaxAttempts
  BY <1>2 DEF RetryLater
<1>3. CASE ~(job.attempts >= MaxAttempts)
  <2>1. Backoff[job.attempts] \in Nat
    BY <1>1, <1>3, DeliveryBounds, BackoffIsPositive
  <2>2. LargerOf(retryAfter, Backoff[job.attempts]) \in Nat
    BY <2>1 DEF LargerOf
  <2> QED BY <1>3, <2>2 DEF RetryLater
<1> QED BY <1>2, <1>3

LEMMA FaultsStayBounded ==
  ASSUME Inv, Disrupt, faults' = faults + 1
  PROVE  faults' \in 0..MaxDisruptions /\ faults <= faults'
<1>1. {faults, stops, changes} \subseteq Nat /\ MaxDisruptions \in Nat
  BY DeliveryBounds DEF Inv, TypeOK
<1> QED
  BY <1>1 DEF Disrupt

\* The worker forgets its job: an accepted request is explained by the fault.
LEMMA LostJobStep ==
  ASSUME Inv, Disrupt, faults' = faults + 1, batch' = None, job' = None, waiters' = 0,
         timer' \in BOOLEAN, orphans' \in Nat, phase' \in {phase, "down"},
         phase' = "up" => timer', UNCHANGED <<status, target, due, usable, stops, changes>>,
         UNCHANGED accepted \/ (job # None /\ Accept)
  PROVE  Inv'
<1>1. faults' \in 0..MaxDisruptions /\ faults \in Nat
  BY FaultsStayBounded, DeliveryBounds DEF Inv, TypeOK
<1>2. accepted \in [Deliveries -> Nat]
  BY DEF Inv, TypeOK
<1>3. job # None => job.delivery \in Deliveries /\ target[job.delivery].status = "sending"
  BY JobTyped DEF Jobs, Inv, JobIsCurrent
<1>4. /\ accepted' \in [Deliveries -> Nat]
      /\ \A d \in Deliveries :
           \/ accepted'[d] = accepted[d]
           \/ (accepted'[d] = accepted[d] + 1 /\ target[d].status = "sending")
  BY <1>2, <1>3, AcceptCounts
<1>5. TypeOK'
  BY <1>1, <1>4 DEF Inv, TypeOK
<1>6. AcceptedOnce'
  BY <1>1, <1>2, <1>4 DEF Inv, AcceptedOnce
<1>7. JobIsCurrent' /\ DrainIsAwaited' /\ PollingContinues' /\ SendingIsInHand'
  BY <1>1 DEF JobIsCurrent, DrainIsAwaited, PollingContinues, SendingIsInHand
<1>8. AbsentIsUnraised' /\ IndexCoversTargets'
  BY DEF Inv, AbsentIsUnraised, IndexCoversTargets
<1> QED
  BY <1>5, <1>6, <1>7, <1>8 DEF Inv

LEMMA DeliverStep ==
  ASSUME Inv, Deliver
  PROVE  Inv'
<1> USE DEF counters, stored
<1>1. faults \in 0..MaxDisruptions /\ faults \in Nat
  BY DeliveryBounds DEF Inv, TypeOK
<1>2. CASE GiveUp
  BY <1>1, <1>2, AnswerStep DEF GiveUp
<1>3. CASE Send
  <2>1. job \in Jobs /\ job' = [job EXCEPT !.sent = TRUE]
    BY <1>3, JobTyped DEF Send
  <2>2. /\ job' \in Jobs /\ job'.delivery = job.delivery /\ job'.attempts = job.attempts
        /\ job' # None
    BY <2>1, NoneIsNoDelivery DEF Jobs
  <2>3. UNCHANGED <<status, target, due, usable, phase, timer, orphans, waiters, batch,
                    accepted, faults, stops, changes>>
    BY <1>3 DEF Send
  <2>4. TypeOK'
    BY <2>2, <2>3 DEF Inv, TypeOK, Jobs
  <2>5. JobIsCurrent'
    BY <1>3, <2>2, <2>3 DEF Inv, JobIsCurrent, Send
  <2>6. SendingIsInHand'
    BY <2>2, <2>3 DEF Inv, SendingIsInHand
  <2>7. /\ DrainIsAwaited' /\ AbsentIsUnraised' /\ AcceptedOnce' /\ IndexCoversTargets'
        /\ PollingContinues'
    BY <2>3 DEF Inv, DrainIsAwaited, AbsentIsUnraised, AcceptedOnce, IndexCoversTargets,
                PollingContinues
  <2> QED BY <2>4, <2>5, <2>6, <2>7 DEF Inv
<1>4. CASE Succeed
  BY <1>1, <1>4, AnswerStep DEF Succeed
<1>5. CASE RefusePermanently
  BY <1>1, <1>5, AnswerStep DEF RefusePermanently
<1>6. ASSUME NEW r \in RetryAfters, RefuseForNow(r) PROVE Inv'
  <2>1. r \in Nat
    BY DeliveryBounds
  <2>2. PICK outcome \in {"pending", "failed"}, wait \in Nat : Complete(outcome, wait)
    BY <1>6, <2>1, RetryLaterStep DEF RefuseForNow
  <2> QED BY <1>1, <1>6, <2>2, AnswerStep DEF RefuseForNow
<1>7. CASE LoseAnswer
  <2>1. PICK outcome \in {"pending", "failed"}, wait \in Nat : Complete(outcome, wait)
    BY <1>7, RetryLaterStep DEF LoseAnswer
  <2>2. faults' \in 0..MaxDisruptions /\ faults <= faults'
    BY <1>7, FaultsStayBounded DEF LoseAnswer
  <2> QED BY <1>7, <2>1, <2>2, AnswerStep DEF LoseAnswer
<1>8. CASE CompleteThrows
  <2>1. /\ Disrupt /\ faults' = faults + 1 /\ job' = None /\ EndOfDrain
        /\ UNCHANGED <<status, target, due, usable, phase, stops, changes>>
        /\ batch # None
    BY <1>8 DEF CompleteThrows, Inv, JobIsCurrent
  <2>2. /\ batch' = None /\ waiters' = 0 /\ timer' \in BOOLEAN /\ orphans' \in Nat
        /\ phase = "up" => timer'
    BY <2>1, EndOfDrainStep
  <2>3. UNCHANGED accepted \/ (job # None /\ Accept)
    <3>1. CASE job # None /\ job.sent
      BY <1>8, <3>1 DEF CompleteThrows
    <3>2. CASE ~(job # None /\ job.sent)
      BY <1>8, <3>2 DEF CompleteThrows
    <3> QED BY <3>1, <3>2
  <2> QED BY <2>1, <2>2, <2>3, LostJobStep
<1> QED
  BY <1>2, <1>3, <1>4, <1>5, <1>6, <1>7, <1>8 DEF Deliver

LEMMA InvStep == Inv /\ [Next]_vars => Inv'
<1> SUFFICES ASSUME Inv, [Next]_vars PROVE Inv'
  OBVIOUS
<1> USE DEF counters, stored, worker
<1>1. ASSUME NEW a \in Alerts, Resolve(a) PROVE Inv'
  <2>1. /\ status[a] = "open" /\ status' = [status EXCEPT ![a] = "resolved"]
        /\ UNCHANGED <<target, due, usable, phase, timer, orphans, waiters, batch, job,
                       accepted, faults, stops, changes>>
    BY <1>1 DEF Resolve
  <2>2. TypeOK'
    BY <2>1 DEF Inv, TypeOK
  <2>3. AbsentIsUnraised'
    BY <2>1, DeliveryParts DEF Inv, TypeOK, AbsentIsUnraised
  <2> QED BY <2>1, <2>2, <2>3
          DEF Inv, JobIsCurrent, DrainIsAwaited, SendingIsInHand, AcceptedOnce,
              IndexCoversTargets, PollingContinues
<1>2. ASSUME NEW i \in Integrations, ChangeIntegration(i) PROVE Inv'
  <2>1. UNCHANGED <<status, target, due, phase, timer, orphans, waiters, batch, job,
                    accepted, faults, stops>>
    BY <1>2 DEF ChangeIntegration
  <2>2. {faults, stops, changes} \subseteq Nat /\ MaxDisruptions \in Nat
    BY DeliveryBounds DEF Inv, TypeOK
  <2>3. changes' \in 0..MaxDisruptions /\ usable' \in [Integrations -> BOOLEAN]
    BY <1>2, <2>2 DEF ChangeIntegration, Disrupt, Inv, TypeOK
  <2>4. TypeOK'
    BY <2>1, <2>3 DEF Inv, TypeOK
  <2> QED BY <2>1, <2>4
          DEF Inv, JobIsCurrent, DrainIsAwaited, AbsentIsUnraised, SendingIsInHand,
              AcceptedOnce, IndexCoversTargets, PollingContinues
<1>3. ASSUME TimerFires \/ OrphanFires PROVE Inv'
  <2>1. /\ UNCHANGED <<status, target, due, usable, phase, job, accepted, faults, stops, changes>>
        /\ waiters' = waiters + 1 /\ batch' = (IF batch = None THEN 0 ELSE batch)
    BY <1>3 DEF TimerFires, OrphanFires, Callback
  <2>2. waiters \in Nat /\ waiters' \in Nat /\ waiters' > 0
    BY <2>1 DEF Inv, TypeOK
  <2>3. batch' \in 0..MaxBatch /\ batch' # None
    BY <2>1, DeliveryBounds, NoneIsNoDelivery DEF Inv, TypeOK
  <2>4. timer' \in BOOLEAN /\ orphans' \in Nat
    <3>1. CASE TimerFires
      BY <3>1 DEF TimerFires, Inv, TypeOK
    <3>2. CASE OrphanFires
      <4>1. timer' = FALSE
        BY <3>2 DEF OrphanFires
      <4>2. orphans > 0 /\ (orphans' = orphans \/ orphans' = orphans - 1)
        BY <3>2 DEF OrphanFires
      <4>3. orphans \in Nat
        BY DEF Inv, TypeOK
      <4>4. orphans' \in Nat
        BY <4>2, <4>3
      <4> QED BY <4>1, <4>4
    <3> QED BY <1>3, <3>1, <3>2
  <2>5. TypeOK'
    BY <2>1, <2>2, <2>3, <2>4 DEF Inv, TypeOK
  <2>6. JobIsCurrent' /\ DrainIsAwaited' /\ PollingContinues'
    BY <2>1, <2>2, <2>3 DEF Inv, JobIsCurrent, DrainIsAwaited, PollingContinues
  <2> QED BY <2>1, <2>5, <2>6
          DEF Inv, AbsentIsUnraised, SendingIsInHand, AcceptedOnce, IndexCoversTargets
<1>4. CASE Start
  <2>1. /\ timer' = TRUE /\ phase' = "up"
        /\ UNCHANGED <<status, target, due, usable, orphans, waiters, batch, job, accepted,
                       faults, stops, changes>>
    BY <1>4 DEF Start
  <2>2. TypeOK'
    BY <2>1 DEF Inv, TypeOK
  <2> QED BY <2>1, <2>2
          DEF Inv, JobIsCurrent, DrainIsAwaited, AbsentIsUnraised, SendingIsInHand,
              AcceptedOnce, IndexCoversTargets, PollingContinues
<1>5. CASE Close
  <2>1. /\ phase' = "closing" /\ timer' = FALSE
        /\ UNCHANGED <<status, target, due, usable, orphans, waiters, batch, job, accepted,
                       faults, changes>>
    BY <1>5 DEF Close
  <2>2. {faults, stops, changes} \subseteq Nat /\ MaxDisruptions \in Nat
    BY DeliveryBounds DEF Inv, TypeOK
  <2>3. stops' \in 0..MaxDisruptions
    BY <1>5, <2>2 DEF Close, Disrupt
  <2>4. TypeOK'
    BY <2>1, <2>3 DEF Inv, TypeOK
  <2> QED BY <2>1, <2>4
          DEF Inv, JobIsCurrent, DrainIsAwaited, AbsentIsUnraised, SendingIsInHand,
              AcceptedOnce, IndexCoversTargets, PollingContinues
<1>6. CASE Closed
  <2>1. job = None
    BY <1>6 DEF Closed, DrainAwaited, Inv, JobIsCurrent
  <2>2. /\ phase' = "down" /\ timer' = FALSE /\ orphans' = 0 /\ waiters' = 0
        /\ batch' = None /\ job' = None
        /\ UNCHANGED <<status, target, due, usable, accepted, faults, stops, changes>>
    BY <1>6 DEF Closed, ForgetWorker
  <2>3. TypeOK'
    BY <2>2 DEF Inv, TypeOK
  <2> QED BY <2>1, <2>2, <2>3
          DEF Inv, JobIsCurrent, DrainIsAwaited, AbsentIsUnraised, SendingIsInHand,
              AcceptedOnce, IndexCoversTargets, PollingContinues
<1>7. CASE Crash
  <2>1. /\ Disrupt /\ faults' = faults + 1
        /\ phase' = "down" /\ timer' = FALSE /\ orphans' = 0 /\ waiters' = 0
        /\ batch' = None /\ job' = None
        /\ UNCHANGED <<status, target, due, usable, stops, changes>>
    BY <1>7 DEF Crash, ForgetWorker
  <2>2. UNCHANGED accepted \/ (job # None /\ Accept)
    <3>1. CASE job # None /\ job.sent
      BY <1>7, <3>1 DEF Crash
    <3>2. CASE ~(job # None /\ job.sent)
      BY <1>7, <3>2 DEF Crash
    <3> QED BY <3>1, <3>2
  <2> QED BY <2>1, <2>2, LostJobStep
<1>8. CASE UNCHANGED vars
  BY <1>8 DEF vars, Inv, TypeOK, JobIsCurrent, DrainIsAwaited, AbsentIsUnraised,
              SendingIsInHand, AcceptedOnce, IndexCoversTargets, PollingContinues
<1> QED
  BY <1>1, <1>2, <1>3, <1>4, <1>5, <1>6, <1>7, <1>8,
     RaiseStep, TickStep, ClaimStep, ClaimNothingStep, DeliverStep DEF Next

LEMMA InvAlways == Spec => []Inv
  BY InitInv, InvStep, PTL DEF Spec

---------------------------------------------------------------------------

\* Every value the variables can take has its type: the rows, the timers of the
\* worker and the job in hand.
THEOREM TypeCorrect == Spec => []TypeOK
<1>1. Inv => TypeOK
  BY DEF Inv
<1> QED
  BY <1>1, InvAlways, PTL

\* No delivery is forgotten: deliveryNextAttemptAt of an alert with an unfinished
\* target is set, and no later than that target is due (nextDeliveryAt,
\* claimNextDelivery, completeDelivery).
THEOREM IndexCoversTargetsAlways == Spec => []IndexCoversTargets
<1>1. Inv => IndexCoversTargets
  BY DEF Inv
<1> QED
  BY <1>1, InvAlways, PTL

\* The provider accepts a message at most once more than there were crashes,
\* failed writes and lost answers.
THEOREM DuplicatesNeedAFaultAlways == Spec => []DuplicatesNeedAFault
<1>1. Inv => DuplicatesNeedAFault
  <2> SUFFICES ASSUME Inv, NEW d \in Deliveries PROVE accepted[d] <= 1 + faults
    BY DEF DuplicatesNeedAFault
  <2>1. accepted[d] \in Nat /\ faults \in Nat
    BY DeliveryBounds DEF Inv, TypeOK
  <2> QED BY <2>1 DEF Inv, AcceptedOnce
<1> QED
  BY <1>1, InvAlways, PTL

\* An orderly stop (close awaits the drain) leaves no target claimed, whatever the
\* order of timers, drains and answers.
THEOREM StopsBetweenRequestsAlways == Spec => []StopsBetweenRequests
<1>1. Inv => StopsBetweenRequests
  BY DEF Inv, JobIsCurrent, SendingIsInHand, StopsBetweenRequests
<1> QED
  BY <1>1, InvAlways, PTL

\* While the service runs, a timer is armed or a drain is under way, whatever
\* throws (processDue schedules the next poll in its finally).
THEOREM PollingContinuesAlways == Spec => []PollingContinues
<1>1. Inv => PollingContinues
  BY DEF Inv
<1> QED
  BY <1>1, InvAlways, PTL
=============================================================================
