--------------------------- MODULE PositionCoordinator ---------------------------
(***************************************************************************)
(* The reads that the position scans of one wallet's monitors share:        *)
(* core/integrations/uniswap-v3-position-coordinator.ts, for one chain and  *)
(* version.                                                                *)
(*                                                                         *)
(* The monitors share one read of the wallet, which the first of them       *)
(* starts and whose signal governs it; each emits the result on its own     *)
(* (PositionSnapshot).  reconcile removes the tasks of the monitors that    *)
(* are gone and tells their runs to abort, and with them the reads these    *)
(* runs started, whoever joined them; the runs of the others go on.  What   *)
(* the wallet holds and which positions are closed is up to the chain.      *)
(***************************************************************************)
EXTENDS Integers, FiniteSets, FiniteSetsExt

CONSTANTS
  Monitors, IntervalOf,     \* the monitors of the wallet, and how often each is scanned
  Tokens,
  ClosedRefresh,
  MaxClock, MaxFaults, MaxReconciles

CoordinatorParameters ==
  /\ IntervalOf \in [Monitors -> Nat \ {0}]
  /\ ClosedRefresh \in Nat
  /\ MaxClock \in Nat /\ MaxFaults \in Nat /\ MaxReconciles \in Nat

Runs == {1, 2}        \* bound: a monitor's run, and one of a registration before
ReadIds == 1..3       \* bound: reads that someone still refers to
NoRead == 0

VARIABLES
  clock,
  enabled,
  shared,           \* sharedVariantReads: the read and when it expires
  read,             \* the reads under way or referred to
  closed,           \* closedPositions: when each is to be read again, 0 if not known as closed
  scan,             \* the scans of each monitor: what each waits for
  faults, reconciles

vars == <<clock, enabled, shared, read, closed, scan, faults, reconciles>>

Scans == Monitors \X Runs
Read == [phase : {"free", "discover", "tokens", "resolved", "rejected", "aborted"}, aborted : BOOLEAN,
         left : SUBSET Tokens, failures : SUBSET Tokens, observedAt : 0..MaxClock]
Free == [phase |-> "free", aborted |-> FALSE, left |-> {}, failures |-> {}, observedAt |-> 0]
\* starts: its signal governs the read.  at, epoch are history: when the scan began, after how
\* many reconciles.
Scan == [read : ReadIds \cup {NoRead}, starts : BOOLEAN, aborted : BOOLEAN, at : 0..MaxClock,
         epoch : 0..MaxReconciles]
NoScan == [read |-> NoRead, starts |-> FALSE, aborted |-> FALSE, at |-> 0, epoch |-> 0]
NotShared == [read |-> NoRead, expiresAt |-> 0]

TypeOK ==
  /\ clock \in 0..MaxClock /\ enabled \subseteq Monitors
  /\ shared \in [read : ReadIds \cup {NoRead}, expiresAt : Nat]
  /\ read \in [ReadIds -> Read] /\ closed \in [Tokens -> Nat] /\ scan \in [Scans -> Scan]
  /\ faults \in 0..MaxFaults /\ reconciles \in 0..MaxReconciles

Init ==
  /\ clock = 0 /\ enabled = Monitors
  /\ shared = NotShared /\ read = [r \in ReadIds |-> Free]
  /\ closed = [t \in Tokens |-> 0]
  /\ scan = [s \in Scans |-> NoScan]
  /\ faults = 0 /\ reconciles = 0

---------------------------------------------------------------------------
(* A scan and the read it waits for *)

ResourceInterval == Min({IntervalOf[m] : m \in enabled})

Unused == {r \in ReadIds : shared.read # r /\ \A s \in Scans : scan[s].read # r}

\* A read that nobody refers to any longer is gone.
Reads(new) == read' = [r \in ReadIds |->
  IF shared'.read = r \/ \E s \in Scans : scan'[s].read = r THEN new[r] ELSE Free]

FreeRuns(m) == {k \in Runs : scan[<<m, k>>].read = NoRead}

MayScan(m, k) ==
  /\ m \in enabled /\ k \in FreeRuns(m) /\ \A j \in FreeRuns(m) : k <= j
  /\ \A j \in Runs : scan[<<m, j>>].read = NoRead \/ scan[<<m, j>>].aborted

WaitFor(m, k, r, starts) ==
  scan' = [scan EXCEPT ![<<m, k>>] =
    [read |-> r, starts |-> starts, aborted |-> FALSE, at |-> clock, epoch |-> reconciles]]

IsCached == shared.read # NoRead /\ shared.expiresAt > clock

\* A read that is used stays shared for another interval.
JoinReadSliding(m, k) ==
  /\ MayScan(m, k) /\ IsCached
  /\ WaitFor(m, k, shared.read, FALSE)
  /\ shared' = [shared EXCEPT !.expiresAt = clock + ResourceInterval]
  /\ UNCHANGED <<clock, enabled, read, closed, faults, reconciles>>

\* readShared: the read of the wallet, if it is not too old.
JoinRead(m, k) ==
  /\ MayScan(m, k) /\ IsCached
  /\ WaitFor(m, k, shared.read, FALSE)
  /\ UNCHANGED <<clock, enabled, shared, read, closed, faults, reconciles>>

\* Otherwise a new one, which the next scans join.
StartRead(m, k) ==
  /\ MayScan(m, k) /\ ~IsCached /\ Unused # {}
  /\ WaitFor(m, k, Min(Unused), TRUE)
  /\ shared' = [read |-> Min(Unused), expiresAt |-> clock + ResourceInterval]
  /\ Reads([read EXCEPT ![Min(Unused)] = [Free EXCEPT !.phase = "discover"]])
  /\ UNCHANGED <<clock, enabled, closed, faults, reconciles>>

\* A rejected read is not shared any longer, unless another one has taken its place.
Reject(r, how) ==
  /\ read' = [read EXCEPT ![r] = [Free EXCEPT !.phase = how]]
  /\ shared' = IF shared.read = r THEN NotShared ELSE shared

\* The signal is looked at before each token and after the last one.
AfterTokens(r) == IF r.left # {} THEN r ELSE [r EXCEPT !.phase = "resolved", !.observedAt = clock]

\* The wallet's tokens are found.
Discover(r) ==
  /\ read[r].phase = "discover"
  /\ IF read[r].aborted THEN Reject(r, "aborted")
     ELSE /\ \E held \in SUBSET Tokens :
               read' = [read EXCEPT ![r] = AfterTokens([read[r] EXCEPT !.phase = "tokens", !.left = held])]
          /\ UNCHANGED shared
  /\ UNCHANGED <<clock, enabled, closed, scan, faults, reconciles>>

DiscoverFails(r) ==
  /\ read[r].phase = "discover" /\ faults < MaxFaults
  /\ faults' = faults + 1
  /\ Reject(r, IF read[r].aborted THEN "aborted" ELSE "rejected")
  /\ UNCHANGED <<clock, enabled, closed, scan, reconciles>>

KnownAsClosed(t) == closed[t] > clock

Done(r, t) == read' = [read EXCEPT ![r] = AfterTokens([read[r] EXCEPT !.left = read[r].left \ {t}])]

Reading(r, t) == read[r].phase = "tokens" /\ ~read[r].aborted /\ t \in read[r].left

\* A closed position is not read again until its time; that it is used moves that time.
UseClosed(r, t) ==
  /\ Reading(r, t) /\ KnownAsClosed(t)
  /\ closed' = [closed EXCEPT ![t] = clock + ClosedRefresh]
  /\ Done(r, t)
  /\ UNCHANGED <<clock, enabled, shared, scan, faults, reconciles>>

ReadToken(r, t) ==
  /\ Reading(r, t) /\ ~KnownAsClosed(t)
  /\ closed' \in {[closed EXCEPT ![t] = 0], [closed EXCEPT ![t] = clock + ClosedRefresh]}
  /\ Done(r, t)
  /\ UNCHANGED <<clock, enabled, shared, scan, faults, reconciles>>

ReadTokenFails(r, t) ==
  /\ Reading(r, t) /\ ~KnownAsClosed(t)
  /\ faults < MaxFaults /\ faults' = faults + 1
  /\ read' = [read EXCEPT ![r] = AfterTokens([read[r] EXCEPT
       !.left = read[r].left \ {t}, !.failures = read[r].failures \cup {t}])]
  /\ UNCHANGED <<clock, enabled, shared, closed, scan, reconciles>>

\* The position that was being read may still be put among the closed ones.
AbortedReadEnds(r) ==
  /\ read[r].phase = "tokens" /\ read[r].aborted
  /\ Reject(r, "aborted")
  /\ closed' \in {closed} \cup {[closed EXCEPT ![t] = u] : t \in read[r].left, u \in {0, clock + ClosedRefresh}}
  /\ UNCHANGED <<clock, enabled, scan, faults, reconciles>>

\* The read is over: the scan emits what it found, or that it failed.
EndScan(m, k) ==
  /\ scan[<<m, k>>].read # NoRead
  /\ read[scan[<<m, k>>].read].phase \in {"resolved", "rejected", "aborted"}
  /\ scan' = [scan EXCEPT ![<<m, k>>] = NoScan]
  /\ UNCHANGED <<clock, enabled, shared, closed, faults, reconciles>>
  /\ Reads(read)

---------------------------------------------------------------------------
(* Configuration and time *)

\* One monitor is enabled, is removed or moves to another wallet, or something else changes.
AfterChange ==
  {enabled} \cup {enabled \cup {m} : m \in Monitors} \cup {enabled \ {m} : m \in Monitors}

\* The runs of these monitors are told to abort, and so are the reads they started.
Abort(dropped) ==
  /\ scan' = [s \in Scans |->
       IF s[1] \in dropped /\ scan[s].read # NoRead THEN [scan[s] EXCEPT !.aborted = TRUE] ELSE scan[s]]
  /\ LET governed == {scan[s].read : s \in {x \in Scans : x[1] \in dropped /\ scan[x].starts}} IN
     Reads([r \in ReadIds |-> IF r \in governed /\ read[r].phase \in {"discover", "tokens"}
                              THEN [read[r] EXCEPT !.aborted = TRUE] ELSE read[r]])

\* The reads under way stay shared.
ReconcileShared ==
  /\ reconciles < MaxReconciles /\ reconciles' = reconciles + 1
  /\ enabled' \in AfterChange
  /\ closed' = [t \in Tokens |-> 0] /\ UNCHANGED <<clock, shared, faults>>
  /\ \E dropped \in SUBSET (enabled \ enabled') : Abort(dropped)

\* The task of a monitor that is gone is removed; that of one that stays, or has moved, is
\* replaced, and its run goes on.  What was shared is not used any longer.
Reconcile ==
  /\ reconciles < MaxReconciles /\ reconciles' = reconciles + 1
  /\ enabled' \in AfterChange
  /\ shared' = NotShared /\ closed' = [t \in Tokens |-> 0]
  /\ \E dropped \in SUBSET (enabled \ enabled') : Abort(dropped)
  /\ UNCHANGED <<clock, faults>>

TimePasses ==
  /\ clock < MaxClock /\ clock' = clock + 1
  /\ UNCHANGED <<enabled, shared, read, closed, scan, faults, reconciles>>

Next ==
  \/ \E m \in Monitors, k \in Runs : JoinRead(m, k)
  \/ \E m \in Monitors, k \in Runs : StartRead(m, k)
  \/ \E r \in ReadIds : Discover(r)
  \/ \E r \in ReadIds : DiscoverFails(r)
  \/ \E r \in ReadIds, t \in Tokens : UseClosed(r, t)
  \/ \E r \in ReadIds, t \in Tokens : ReadToken(r, t)
  \/ \E r \in ReadIds, t \in Tokens : ReadTokenFails(r, t)
  \/ \E r \in ReadIds : AbortedReadEnds(r)
  \/ \E m \in Monitors, k \in Runs : EndScan(m, k)
  \/ Reconcile
  \/ TimePasses

Spec == Init /\ [][Next]_vars

---------------------------------------------------------------------------
(* Properties *)

Waits(s) == scan[s].read # NoRead

\* The scan began since the last reconcile.
Current(s) == Waits(s) /\ scan[s].epoch = reconciles

IsAborted(r) == read[r].aborted \/ read[r].phase = "aborted"

\* A removed monitor takes the read of its scan with it, and the scans of other monitors that
\* had joined the read fail with an error (uniswap-v3-position-coordinator.ts:378).  It ends
\* there: a scan that was not told to abort never fails so if it started its read itself, or
\* began after the removal.
AbortFailsOnlyJoiners ==
  \A s \in Scans :
    Waits(s) /\ ~scan[s].aborted /\ IsAborted(scan[s].read) => ~scan[s].starts /\ ~Current(s)

\* The comment at uniswap-v3-position-coordinator.ts:395 shares a read for the shortest
\* interval: no scan is served one that was over before that interval, counted back from
\* the scan, began, however many monitors share it and however long they go on doing so.
ServedRecent ==
  \A s \in Scans :
    Current(s) /\ read[scan[s].read].phase = "resolved" =>
      read[scan[s].read].observedAt > scan[s].at - ResourceInterval
=============================================================================
