------------------------------ MODULE EventScanner ------------------------------
(***************************************************************************)
(* The scan of one chain for Aave events:                                  *)
(* core/integrations/aave-v3-event-coordinator.ts with its reader           *)
(* (adapters/aave/aave-v3-event-reader.ts) and its persisted cursor         *)
(* (db/repositories/chain-scan-cursor-repository.ts).                      *)
(*                                                                         *)
(* A run reads the tip, then chunk after chunk of confirmed blocks, hands   *)
(* the events of a chunk to the pipeline and saves the cursor.  reconcile   *)
(* leaves the run of a task that is still needed alone; that of a task no   *)
(* monitor needs any more is told to abort, which it looks at before a      *)
(* chunk only, so that the run of a later registration may start beside it. *)
(*                                                                         *)
(* The chain is external: it grows, its unconfirmed blocks are replaced,    *)
(* a node may lag, a request may fail.  Each block has one log.             *)
(***************************************************************************)
EXTENDS Integers, FiniteSets, FiniteSetsExt

CONSTANTS
  Monitors,
  Profile,       \* what each monitor watches
  Logs,          \* the log in each block: its reserve, addresses, and if the oracle prices it
  ConfirmationBlocks, ReorgRewindBlocks, InitialLookbackBlocks, BlockChunkSize,
  MaxTip,        \* bound on the height of the chain
  MaxLag,        \* blocks a node may be behind
  MaxReorgs,
  MaxDisturbances  \* bound on the faults, restarts, reconciles and reorganisations, together

ScanParameters ==
  /\ ConfirmationBlocks \in Nat /\ ReorgRewindBlocks \in Nat /\ InitialLookbackBlocks \in Nat
  /\ BlockChunkSize \in Nat \ {0}
  /\ MaxTip \in Nat /\ MaxLag \in Nat /\ MaxReorgs \in Nat
  /\ MaxDisturbances \in Nat

Blocks == 0..MaxTip
NoCursor == -1
Runs == {1, 2}   \* bound: one run and one that was told to abort

VARIABLES
  tip, chain,     \* the height, and the fork each block is of
  enabled,        \* the enabled monitors of this integration and chain
  usable,         \* the integration is an enabled RPC that serves the chain
  cursor,         \* the persisted last scanned block
  run,            \* the scans under way
  done, failed,   \* the events ingested: <<monitor, event, metric>>
  scanStatus,     \* the last event_scan_status emitted
  since,          \* history: the block after which a monitor is owed the events
  reorgs, disturbances   \* what the bounds limit

chainVars == <<tip, chain, reorgs>>
inbox == <<done, failed>>
vars == <<chainVars, enabled, usable, cursor, run, inbox, scanStatus, since, disturbances>>

Phases == {"idle", "tip", "logs", "distribute"}
Run == [phase : Phases, aborted : BOOLEAN, confirmed : Nat, from : Nat, to : Nat,
        next : Nat, forks : [Blocks -> 0..MaxReorgs]]
Idle == [phase |-> "idle", aborted |-> FALSE, confirmed |-> 0, from |-> 0, to |-> 0,
         next |-> 0, forks |-> [b \in Blocks |-> 0]]

Events == Blocks \X (0..MaxReorgs)
Deliveries == Monitors \X Events \X {"token", "usd", "account"}

TypeOK ==
  /\ tip \in Blocks /\ chain \in [Blocks -> 0..MaxReorgs]
  /\ enabled \subseteq Monitors /\ usable \in BOOLEAN
  /\ cursor \in Blocks \cup {NoCursor}
  /\ run \in [Runs -> Run]
  /\ done \subseteq Deliveries /\ failed \subseteq Deliveries
  /\ scanStatus \in {"none", "ok", "error"}
  /\ since \in [Monitors -> Int]
  /\ reorgs \in 0..MaxReorgs /\ disturbances \in 0..MaxDisturbances

Init ==
  /\ tip = 0 /\ chain = [b \in Blocks |-> 0] /\ reorgs = 0
  /\ enabled \in SUBSET Monitors /\ usable = TRUE
  /\ cursor = NoCursor /\ run = [r \in Runs |-> Idle]
  /\ done = {} /\ failed = {} /\ scanStatus = "none"
  /\ since = [m \in Monitors |-> NoCursor]
  /\ disturbances = 0

\* Something goes wrong or is changed, as often as the bound allows.
Disturbs == disturbances < MaxDisturbances /\ disturbances' = disturbances + 1

---------------------------------------------------------------------------
(* What a log means to a monitor *)

Participates(wallet, log) == wallet \in log.addresses

\* The metrics an event is ingested as for a monitor.  An event without a price has
\* no amount in USD.
Metrics(m, log) ==
  IF Profile[m].type = "pool"
  THEN IF Profile[m].reserves = {} \/ log.reserve \in Profile[m].reserves
       THEN {"token"} \cup (IF log.priced THEN {"usd"} ELSE {}) ELSE {}
  ELSE IF Participates(Profile[m].wallet, log) THEN {"account"} ELSE {}

Due(b, fork) == UNION {{<<m, <<b, fork>>, name>> : name \in Metrics(m, Logs[b])} : m \in enabled}

---------------------------------------------------------------------------
(* A run *)

Confirmed(t) == IF t > ConfirmationBlocks THEN t - ConfirmationBlocks ELSE 0

\* A scan that goes on where the last one ended.
FirstUnscanned(confirmed) ==
  IF cursor = NoCursor
  THEN IF confirmed > InitialLookbackBlocks THEN confirmed - InitialLookbackBlocks ELSE 0
  ELSE cursor + 1

FirstBlock(confirmed) ==
  IF cursor = NoCursor
  THEN IF confirmed > InitialLookbackBlocks THEN confirmed - InitialLookbackBlocks ELSE 0
  ELSE IF cursor > ReorgRewindBlocks THEN cursor - ReorgRewindBlocks + 1 ELSE 0

\* The last confirmed block waits for the next one.
NextChunkShort(s) ==
  IF s.from >= s.confirmed \/ s.aborted THEN Idle
  ELSE [s EXCEPT !.phase = "logs", !.to = Min({s.from + BlockChunkSize - 1, s.confirmed})]

\* The loop's condition and the abort check before a chunk.
NextChunk(s) ==
  IF s.from > s.confirmed \/ s.aborted THEN Idle
  ELSE [s EXCEPT !.phase = "logs", !.to = Min({s.from + BlockChunkSize - 1, s.confirmed})]

\* The scheduler starts the task's run when none is under way.
Start(r) ==
  /\ enabled # {} /\ usable
  /\ run[r].phase = "idle"
  /\ \A other \in Runs : run[other].phase = "idle" \/ run[other].aborted
  /\ run' = [run EXCEPT ![r].phase = "tip"]
  /\ UNCHANGED <<chainVars, enabled, usable, cursor, inbox, scanStatus, since, disturbances>>

\* latestBlock answers, from a node that may lag.  A first scan skips what is older
\* than its lookback.
LatestBlock(r) ==
  /\ run[r].phase = "tip"
  /\ \E t \in Max({0, tip - MaxLag})..tip :
       LET confirmed == Confirmed(t)
           first == FirstBlock(confirmed) IN
       /\ run' = [run EXCEPT ![r] = NextChunk([@ EXCEPT !.confirmed = confirmed, !.from = first])]
       /\ since' = IF cursor = NoCursor
                   THEN [m \in Monitors |-> Max({since[m], first - 1})] ELSE since
  /\ UNCHANGED <<chainVars, enabled, usable, cursor, inbox, scanStatus, disturbances>>

\* reader.scan answers with the logs of the chunk.
ReadLogs(r) ==
  /\ run[r].phase = "logs"
  /\ run' = [run EXCEPT ![r].phase = "distribute", ![r].next = run[r].from, ![r].forks = chain]
  /\ UNCHANGED <<chainVars, enabled, usable, cursor, inbox, scanStatus, since, disturbances>>

\* One event goes to every monitor it concerns.  An ingest whose rules fail leaves the
\* event to be ingested again; what ingest answers is not looked at.
Distribute(r) ==
  /\ run[r].phase = "distribute" /\ run[r].next <= run[r].to
  /\ LET new == Due(run[r].next, run[r].forks[run[r].next]) \ done IN
       \E bad \in {{}} \cup ({new}) :
         /\ failed' = (failed \ new) \cup bad
         /\ done' = done \cup (new \ bad)
         /\ IF bad = {} THEN UNCHANGED disturbances ELSE Disturbs
  /\ run' = [run EXCEPT ![r].next = @ + 1]
  /\ UNCHANGED <<chainVars, enabled, usable, cursor, scanStatus, since>>

\* The pool monitors are told how the scan goes.
EmitProgress == scanStatus' = "ok"
EmitFailure == scanStatus' = "error"

\* The cursor is saved with the logs still to be handed on.
SaveCursorEarly(r) ==
  /\ run[r].phase = "distribute"
  /\ cursor' = run[r].to
  /\ EmitProgress
  /\ run' = [run EXCEPT ![r] = NextChunk([Idle EXCEPT
       !.aborted = run[r].aborted, !.confirmed = run[r].confirmed, !.from = run[r].to + 1])]
  /\ UNCHANGED <<chainVars, enabled, usable, inbox, since, disturbances>>

SaveCursor(r) ==
  /\ run[r].phase = "distribute" /\ run[r].next > run[r].to
  /\ cursor' = run[r].to
  /\ EmitProgress
  /\ run' = [run EXCEPT ![r] = NextChunk([Idle EXCEPT
       !.aborted = run[r].aborted, !.confirmed = run[r].confirmed, !.from = run[r].to + 1])]
  /\ UNCHANGED <<chainVars, enabled, usable, inbox, since, disturbances>>

\* A request fails: the run ends, and says so unless it was told to abort.
ScanFails(r) ==
  /\ run[r].phase \in {"tip", "logs"} /\ Disturbs
  /\ IF run[r].aborted THEN UNCHANGED scanStatus ELSE EmitFailure
  /\ run' = [run EXCEPT ![r] = Idle]
  /\ UNCHANGED <<chainVars, enabled, usable, cursor, inbox, since>>

---------------------------------------------------------------------------
(* Configuration, crash and chain *)

\* What a run has behind it: the cursor may be further back, while the events of a chunk are
\* still being handed on.
Reached(s) == IF s.phase = "distribute" THEN s.next - 1 ELSE s.from - 1

Aborted(s) == IF s.phase = "idle" THEN s ELSE [s EXCEPT !.aborted = TRUE]

Toggled(S, m) == IF m \in S THEN S \ {m} ELSE S \cup {m}

\* One monitor is enabled or disabled for this target, or the integration changes.  The task is
\* registered as long as some enabled monitor needs it: the run under way goes on, and hands the
\* events it has left to the monitors enabled by then.  When none needs it the task is removed
\* and the run told to abort; the run of a later registration may start beside it.  A monitor
\* enabled now is owed what no run has behind it.
Reconcile ==
  /\ Disturbs
  /\ \/ \E m \in Monitors :
          /\ enabled' = Toggled(enabled, m)
          /\ since' = IF m \in enabled THEN since
                      ELSE [since EXCEPT ![m] =
                              Max({@, cursor} \cup {Reached(run[r]) : r \in Runs})]
          /\ run' = IF enabled' = {} THEN [r \in Runs |-> Aborted(run[r])] ELSE run
          /\ UNCHANGED usable
     \/ usable' = ~usable /\ UNCHANGED <<enabled, since, run>>
  /\ UNCHANGED <<chainVars, cursor, inbox, scanStatus>>

\* The process ends; the cursor and the inbox are on disk.
Restart ==
  /\ Disturbs
  /\ run' = [r \in Runs |-> Idle]
  /\ UNCHANGED <<chainVars, enabled, usable, cursor, inbox, scanStatus, since>>

NewBlock ==
  /\ tip < MaxTip /\ tip' = tip + 1
  /\ UNCHANGED <<chain, reorgs, enabled, usable, cursor, run, inbox, scanStatus, since, disturbances>>

\* The last blocks are replaced; no reorganisation is deeper than ConfirmationBlocks, or takes
\* the first block.
Reorg ==
  /\ reorgs < MaxReorgs /\ reorgs' = reorgs + 1 /\ Disturbs
  /\ \E b \in {x \in 1..tip : x > tip - ConfirmationBlocks} :
       chain' = [x \in Blocks |-> IF x >= b THEN reorgs + 1 ELSE chain[x]]
  /\ UNCHANGED <<tip, enabled, usable, cursor, run, inbox, scanStatus, since>>

RunStep(r) == Start(r) \/ LatestBlock(r) \/ ReadLogs(r) \/ Distribute(r) \/ SaveCursor(r) \/ ScanFails(r)

Next ==
  \/ \E r \in Runs : Start(r)
  \/ \E r \in Runs : LatestBlock(r)
  \/ \E r \in Runs : ReadLogs(r)
  \/ \E r \in Runs : Distribute(r)
  \/ \E r \in Runs : SaveCursor(r)
  \/ \E r \in Runs : ScanFails(r)
  \/ Reconcile
  \/ Restart
  \/ NewBlock
  \/ Reorg

Spec == Init /\ [][Next]_vars

---------------------------------------------------------------------------
(* Properties *)

Owed(m, b) == b > since[m] /\ Metrics(m, Logs[b]) # {}
Handled(m, b) ==
  \A name \in Metrics(m, Logs[b]) : <<m, <<b, chain[b]>>, name>> \in done \cup failed

\* The cursor never stands past an event of the chain that an enabled monitor was not
\* given: whatever monitors came and went while a run distributed, whatever crash came
\* between an ingest and the save, whichever way the cursor moved.
CursorCovers == \A m \in enabled, b \in Blocks : b <= cursor /\ Owed(m, b) => Handled(m, b)

\* An event that every node shows as confirmed reaches each monitor it concerns, while
\* the monitor stays enabled and the RPC usable.
Awaited ==
  usable /\ \E m \in enabled, b \in Blocks :
              b <= Confirmed(tip - MaxLag) /\ Owed(m, b) /\ ~Handled(m, b)
EventsArrive == []<>~Awaited

\* Since ingest's answer is not looked at, only the rewind brings an event back whose
\* rules failed: for as long as its block is within the rewind of the cursor, it does.
FailedStays ==
  \E d \in failed :
    /\ d[1] \in enabled /\ usable
    /\ d[2][1] > cursor - ReorgRewindBlocks /\ d[2][1] <= Confirmed(tip - MaxLag)
FailedIsRetried == []<>~FailedStays
=============================================================================
