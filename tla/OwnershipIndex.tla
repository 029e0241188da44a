------------------------------ MODULE OwnershipIndex ------------------------------
(***************************************************************************)
(* The index of the v4 positions of one wallet:                             *)
(* adapters/uniswap/uniswap-v4-ownership-indexer.ts and its persisted       *)
(* ownership and checkpoint                                                 *)
(* (db/repositories/uniswap-v4-ownership-repository.ts).                   *)
(*                                                                         *)
(* A sync reads the confirmed Transfer logs after the checkpoint in chunks, *)
(* which it halves when the node refuses them, and then asks the chain      *)
(* whether the wallet still has what the logs say.  Two syncs of a wallet   *)
(* may run at a time: that of a scan and that of a request, or that of a    *)
(* scan which was told to abort.  The index is shown for one token.         *)
(***************************************************************************)
EXTENDS Integers, FiniteSets, FiniteSetsExt

CONSTANTS
  Syncs,                             \* bound: the syncs at one time
  Confirmations, ChunkSize, MinimumChunkSize, MaximumChunksPerSync,
  MaxTip, MaxLag, MaxFaults

IndexParameters ==
  /\ Confirmations \in Nat /\ ChunkSize \in Nat \ {0} /\ MinimumChunkSize \in 1..ChunkSize
  /\ MaximumChunksPerSync \in Nat \ {0}
  /\ MaxTip \in Nat /\ MaxLag \in Nat /\ MaxFaults \in Nat

Blocks == 0..MaxTip    \* block 0 is the one before the deployment

VARIABLES
  holds,        \* the chain: the wallet holds the token after the block
  tip,
  checkpoint,   \* persisted: the last scanned block
  owned,        \* persisted: what the index says of the token
  chunkSize,    \* currentChunkSize of each indexer
  sync,
  overlapped,   \* history: two syncs were under way at a time
  faults

repository == <<checkpoint, owned>>
vars == <<holds, tip, repository, chunkSize, sync, overlapped, faults>>

Sync == [phase : {"idle", "tip", "logs", "list", "owner"}, aborted : BOOLEAN, chainTip : Nat, scanned : Nat, chunks : Nat]
Idle == [phase |-> "idle", aborted |-> FALSE, chainTip |-> 0, scanned |-> 0, chunks |-> 0]

TypeOK ==
  /\ holds \in [Blocks -> BOOLEAN] /\ tip \in Blocks
  /\ checkpoint \in Blocks /\ owned \in BOOLEAN
  /\ chunkSize \in [Syncs -> MinimumChunkSize..ChunkSize]
  /\ sync \in [Syncs -> Sync] /\ overlapped \in BOOLEAN /\ faults \in 0..MaxFaults

Init ==
  /\ holds \in {h \in [Blocks -> BOOLEAN] : ~h[0]} /\ tip = 0
  /\ checkpoint = 0 /\ owned = FALSE
  /\ chunkSize = [s \in Syncs |-> ChunkSize]
  /\ sync = [s \in Syncs |-> Idle] /\ overlapped = FALSE /\ faults = 0

---------------------------------------------------------------------------

StartSync(s) ==
  /\ sync[s].phase = "idle"
  /\ sync' = [sync EXCEPT ![s].phase = "tip"]
  /\ overlapped' = (overlapped \/ \E o \in Syncs : sync[o].phase # "idle")
  /\ UNCHANGED <<holds, tip, repository, chunkSize, faults>>

\* The loop over the chunks: on to the next one, if there is one and the sync may go on.
NextChunk(work) ==
  IF work.scanned >= work.chainTip \/ work.chunks >= MaximumChunksPerSync
  THEN [work EXCEPT !.phase = "list"]
  ELSE IF work.aborted THEN Idle ELSE [work EXCEPT !.phase = "logs"]

Confirmed(t) == IF t > Confirmations THEN t - Confirmations ELSE 0

\* The tip, of a node that may lag; then the checkpoint.
ReadTip(s) ==
  /\ sync[s].phase = "tip"
  /\ \E t \in Max({0, tip - MaxLag})..tip :
       sync' = [sync EXCEPT ![s] = NextChunk([@ EXCEPT !.chainTip = Confirmed(t), !.scanned = checkpoint])]
  /\ UNCHANGED <<holds, tip, repository, chunkSize, overlapped, faults>>

ChunkEnd(s) == Min({sync[s].scanned + chunkSize[s], sync[s].chainTip})

\* readWalletTransfers: the transfers to and from the wallet.
Transfers(from, to) == {b \in from..to : holds[b] # holds[b - 1]}

\* The transfers are applied in their order and the checkpoint is moved with them.
ApplyTransfers(from, to) ==
  /\ owned' = IF Transfers(from, to) = {} THEN owned ELSE holds[Max(Transfers(from, to))]
  /\ checkpoint' = to

ReadChunk(s) ==
  /\ sync[s].phase = "logs"
  /\ IF sync[s].aborted THEN sync' = [sync EXCEPT ![s] = Idle] /\ UNCHANGED repository
     ELSE /\ ApplyTransfers(sync[s].scanned + 1, ChunkEnd(s))
          /\ sync' = [sync EXCEPT ![s] = NextChunk([@ EXCEPT !.scanned = ChunkEnd(s), !.chunks = sync[s].chunks + 1])]
  /\ UNCHANGED <<holds, tip, chunkSize, overlapped, faults>>

\* The node refuses: a smaller chunk is tried, unless it is the smallest already.
ChunkFails(s) ==
  /\ sync[s].phase = "logs" /\ faults < MaxFaults
  /\ faults' = faults + 1
  /\ IF sync[s].aborted \/ chunkSize[s] <= MinimumChunkSize
     THEN sync' = [sync EXCEPT ![s] = Idle] /\ UNCHANGED chunkSize
     ELSE /\ chunkSize' = [chunkSize EXCEPT ![s] = Max({@ \div 2, MinimumChunkSize})]
          /\ UNCHANGED sync
  /\ UNCHANGED <<holds, tip, repository, overlapped>>

\* What the logs say the wallet owns is asked for at the scanned block; the sync is over
\* when there is nothing to ask.
ListOwned(s) ==
  /\ sync[s].phase = "list"
  /\ sync' = [sync EXCEPT ![s] = IF owned /\ ~@.aborted THEN [@ EXCEPT !.phase = "owner"] ELSE Idle]
  /\ UNCHANGED <<holds, tip, repository, chunkSize, overlapped, faults>>

\* The owner of the newest block is asked for.
OwnerAnswersAtTip(s) ==
  /\ sync[s].phase = "owner"
  /\ owned' = (owned /\ holds[tip])
  /\ sync' = [sync EXCEPT ![s] = Idle]
  /\ UNCHANGED <<holds, tip, checkpoint, chunkSize, overlapped, faults>>

\* What the wallet does not own is taken out of the index, which nobody looked at since
\* the question was asked.
OwnerAnswers(s) ==
  /\ sync[s].phase = "owner"
  /\ owned' = (owned /\ holds[sync[s].scanned])
  /\ sync' = [sync EXCEPT ![s] = Idle]
  /\ UNCHANGED <<holds, tip, checkpoint, chunkSize, overlapped, faults>>

\* A failed question changes nothing.
OwnerFails(s) ==
  /\ sync[s].phase = "owner" /\ faults < MaxFaults
  /\ faults' = faults + 1
  /\ sync' = [sync EXCEPT ![s] = Idle]
  /\ UNCHANGED <<holds, tip, repository, chunkSize, overlapped>>

\* The caller gives up: the loops look at the signal.
Abort(s) ==
  /\ sync[s].phase # "idle" /\ ~sync[s].aborted
  /\ sync' = [sync EXCEPT ![s].aborted = TRUE]
  /\ UNCHANGED <<holds, tip, repository, chunkSize, overlapped, faults>>

\* The process starts anew, with new indexers.
Restart ==
  /\ faults < MaxFaults /\ faults' = faults + 1
  /\ sync' = [s \in Syncs |-> Idle] /\ chunkSize' = [s \in Syncs |-> ChunkSize]
  /\ UNCHANGED <<holds, tip, repository, overlapped>>

NewBlock ==
  /\ tip < MaxTip /\ tip' = tip + 1
  /\ UNCHANGED <<holds, repository, chunkSize, sync, overlapped, faults>>

Next ==
  \/ \E s \in Syncs : StartSync(s)
  \/ \E s \in Syncs : ReadTip(s)
  \/ \E s \in Syncs : ReadChunk(s)
  \/ \E s \in Syncs : ChunkFails(s)
  \/ \E s \in Syncs : ListOwned(s)
  \/ \E s \in Syncs : OwnerAnswers(s)
  \/ \E s \in Syncs : OwnerFails(s)
  \/ \E s \in Syncs : Abort(s)
  \/ Restart
  \/ NewBlock

Spec == Init /\ [][Next]_vars

---------------------------------------------------------------------------
(* Properties *)

\* While no two syncs overlap, the index says of the token what the chain said at the
\* checkpoint, whatever chunks were refused, whichever sync was given up or cut short by
\* the end of the process, and however far a node lags.
IndexIsExact == ~overlapped => (owned <=> holds[checkpoint])
=============================================================================
