------------------------------- MODULE Scheduling -------------------------------
(***************************************************************************)
(* The scheduler, and the scan it runs for the Aave events of a chain.      *)
(* The two share no state: one part moves, the other rests.                 *)
(***************************************************************************)
EXTENDS PollingScheduler, Integers

CONSTANTS
  Monitors, Profile, Logs,
  ConfirmationBlocks, ReorgRewindBlocks, InitialLookbackBlocks, BlockChunkSize,
  MaxTip, MaxLag, MaxReorgs, MaxDisturbances

VARIABLES
  part,        \* the part that moves
  tip, chain, enabled, usable, cursor, run, done, failed, scanStatus, since,
  reorgs, disturbances

scannerVars ==
  <<tip, chain, enabled, usable, cursor, run, done, failed, scanStatus, since,
    reorgs, disturbances>>
partVars == <<part, vars, scannerVars>>

Scanner == INSTANCE EventScanner

ASSUME ScannerParameters == Scanner!ScanParameters

\* The part that rests stays as it begins.
PartsInit == part \in {"polling", "scanner"} /\ Init /\ Scanner!Init

PartsNext ==
  \/ part = "polling" /\ Next /\ UNCHANGED <<part, scannerVars>>
  \/ part = "scanner" /\ Scanner!Next /\ UNCHANGED <<part, vars>>

\* The scheduler starts the scan again and again, and a request ends: by an answer or by its
\* timeout, which is a disturbance.
ScannerRuns(r) == part = "scanner" /\ Scanner!RunStep(r) /\ UNCHANGED <<part, vars>>

PartsSpec ==
  /\ PartsInit /\ [][PartsNext]_partVars
  /\ Fairness
  /\ \A r \in Scanner!Runs : WF_partVars(ScannerRuns(r))

---------------------------------------------------------------------------

\* The cursor never stands past an event that a monitor was not given.
CursorCovers == Scanner!CursorCovers

\* An event that every node shows as confirmed reaches each monitor it concerns.
EventsArrive == []<>~(part = "scanner" /\ Scanner!Awaited)

\* The rewind brings an event back whose rules failed.
FailedIsRetried == []<>~(part = "scanner" /\ Scanner!FailedStays)
=============================================================================
