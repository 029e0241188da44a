----------------------------- MODULE PositionReader -----------------------------
(***************************************************************************)
(* A reader of liquidity positions, shared by the monitors of one RPC and   *)
(* chain: adapters/uniswap/uniswap-v3-position-reader.ts and                *)
(* uniswap-v4-position-reader.ts.                                          *)
(*                                                                         *)
(* What is read is a function of the block it is read at, so a value is     *)
(* kept as that block, with the time it has left to be used.  A read under   *)
(* way is shared by those who ask the same: its first caller leads, and its *)
(* signal governs the read.  One wallet holds one token, of one pool.       *)
(* The token's owner is kept whatever block it was read at, longer than the *)
(* rest, and used in the positions of other blocks.                        *)
(***************************************************************************)
EXTENDS Integers

CONSTANTS
  Calls,                  \* those who read at the same time
  SharedTtl, OwnerTtl,    \* how long a read, an owner and a wallet's tokens are kept
  MaxHead, MaxFaults

ReaderParameters ==
  /\ SharedTtl \in Nat /\ OwnerTtl \in Nat /\ MaxHead \in Nat /\ MaxFaults \in Nat
  /\ "none" \notin Calls

NoCall == "none"

VARIABLES
  head,
  version,                \* "v3" or "v4": the reader's class
  deployment,             \* deploymentPromise: the chain ID of the RPC is checked once
  latestBlock, latestBlockRequest,
  tokenIds, discoveries,  \* the wallet's tokens, and who reads them
  owner,                  \* the token's owner, whatever block it was read at
  slots,                  \* the pool's slot0 of each block
  positions, positionReads,
  call, faults

vars == <<head, version, deployment, latestBlock, latestBlockRequest, tokenIds, discoveries,
          owner, slots, positions, positionReads, call, faults>>
caches == <<latestBlock, tokenIds, owner, slots, positions>>
requests == <<latestBlockRequest, discoveries, positionReads>>
world == <<head, version>>

Blocks == 0..MaxHead
Kept == [block : Blocks, left : Nat]      \* a cached value
Nothing == [block |-> 0, left |-> 0]
Unknown == -1                             \* an owner that is still to be asked for
Position == [block : Blocks, owner : Blocks, left : Nat]
NoPosition == [block |-> 0, owner |-> 0, left |-> 0]
Fresh(kept) == kept.left > 0
OlderPosition(kept) == IF kept.left > 1 THEN [kept EXCEPT !.left = @ - 1] ELSE NoPosition
Older(kept) == IF kept.left > 1 THEN [kept EXCEPT !.left = @ - 1] ELSE Nothing

Phases == {"idle", "deploy", "block", "look", "details", "pool", "slot", "follow", "ids", "followIds"}
Call == [phase : Phases, wallet : BOOLEAN, aborted : BOOLEAN, block : Blocks, requested : BOOLEAN,
         owner : Blocks \cup {Unknown}]
Idle == [phase |-> "idle", wallet |-> FALSE, aborted |-> FALSE, block |-> 0, requested |-> FALSE,
         owner |-> Unknown]
Callers(phase) == {c \in Calls : call[c].phase = phase}

TypeOK ==
  /\ head \in Blocks /\ version \in {"v3", "v4"}
  /\ deployment \in {"none", "pending", "known"}
  /\ latestBlock \in Kept /\ latestBlockRequest \in BOOLEAN
  /\ tokenIds \in Kept /\ discoveries \in Calls \cup {NoCall}
  /\ owner \in Kept /\ slots \in [Blocks -> Kept]
  /\ positions \in [Blocks -> Position] /\ positionReads \in [Blocks -> Calls \cup {NoCall}]
  /\ call \in [Calls -> Call] /\ faults \in 0..MaxFaults

Init ==
  /\ head = 0 /\ version \in {"v3", "v4"}
  /\ deployment = "none"
  /\ latestBlock = Nothing /\ latestBlockRequest = FALSE
  /\ tokenIds = Nothing /\ discoveries = NoCall
  /\ owner = Nothing /\ slots = [b \in Blocks |-> Nothing]
  /\ positions = [b \in Blocks |-> NoPosition] /\ positionReads = [b \in Blocks |-> NoCall]
  /\ call = [c \in Calls |-> Idle] /\ faults = 0

Keep(block, ttl) == IF ttl = 0 THEN Nothing ELSE [block |-> block, left |-> ttl]

---------------------------------------------------------------------------
(* A call *)

\* A position is read, at the newest block or at the one the v4 index has reached; of a
\* v3 wallet the tokens are read first.
StartCall(c) ==
  /\ call[c].phase = "idle"
  /\ \E wallet \in BOOLEAN, b \in 0..head :
       /\ ~wallet \/ version = "v3" => b = head
       /\ call' = [call EXCEPT ![c] = [Idle EXCEPT !.phase = "deploy", !.wallet = wallet,
                    !.requested = wallet /\ version = "v4",
                    !.block = IF wallet /\ version = "v4" THEN b ELSE 0]]
  /\ deployment' = IF deployment = "none" THEN "pending" ELSE deployment
  /\ UNCHANGED <<world, caches, requests, faults>>

DeploymentAnswers ==
  /\ deployment = "pending" /\ deployment' = "known"
  /\ UNCHANGED <<world, caches, requests, call, faults>>

\* A check that fails is forgotten, so that the next call makes it again.
DeploymentFails ==
  /\ deployment = "pending" /\ faults < MaxFaults
  /\ deployment' = "none" /\ faults' = faults + 1
  /\ call' = [c \in Calls |-> IF call[c].phase = "deploy" THEN Idle ELSE call[c]]
  /\ UNCHANGED <<world, caches, requests>>

\* readLatestBlock: of the cache, of the request under way or of a new one.
AskBlock(c) ==
  /\ call[c].phase = "deploy" /\ deployment = "known"
  /\ IF call[c].requested
     THEN call' = [call EXCEPT ![c].phase = "look"] /\ UNCHANGED latestBlockRequest
     ELSE IF call[c].aborted
     THEN call' = [call EXCEPT ![c] = Idle] /\ UNCHANGED latestBlockRequest
     ELSE IF Fresh(latestBlock)
     THEN /\ call' = [call EXCEPT ![c].phase = "look", ![c].block = latestBlock.block]
          /\ UNCHANGED latestBlockRequest
     ELSE /\ call' = [call EXCEPT ![c].phase = "block"]
          /\ latestBlockRequest' = TRUE
  /\ UNCHANGED <<world, deployment, caches, discoveries, positionReads, faults>>

BlockAnswers ==
  /\ latestBlockRequest /\ latestBlockRequest' = FALSE
  /\ latestBlock' = Keep(head, SharedTtl)
  /\ call' = [c \in Calls |-> IF call[c].phase = "block"
                              THEN [call[c] EXCEPT !.phase = "look", !.block = head] ELSE call[c]]
  /\ UNCHANGED <<world, deployment, tokenIds, owner, slots, positions, discoveries, positionReads, faults>>

BlockFails ==
  /\ latestBlockRequest /\ faults < MaxFaults
  /\ latestBlockRequest' = FALSE /\ faults' = faults + 1
  /\ call' = [c \in Calls |-> IF call[c].phase = "block" THEN Idle ELSE call[c]]
  /\ UNCHANGED <<world, deployment, caches, discoveries, positionReads>>

---------------------------------------------------------------------------
(* The tokens of a v3 wallet *)

Discovers(c) == call[c].phase = "look" /\ call[c].wallet /\ ~call[c].requested

\* discover: a call that joins a read answers for the block of that read.
LookForTokens(c) ==
  /\ Discovers(c)
  /\ IF Fresh(tokenIds)
     THEN call' = [call EXCEPT ![c].requested = TRUE] /\ UNCHANGED discoveries
     ELSE IF discoveries # NoCall
     THEN call' = [call EXCEPT ![c].phase = "followIds"] /\ UNCHANGED discoveries
     ELSE call' = [call EXCEPT ![c].phase = "ids"] /\ discoveries' = c
  /\ UNCHANGED <<world, deployment, caches, latestBlockRequest, positionReads, faults>>

\* The balance and the tokens are read at one block.
ReadTokenIds(c) ==
  /\ call[c].phase = "ids" /\ ~call[c].aborted
  /\ tokenIds' = Keep(call[c].block, OwnerTtl)
  /\ discoveries' = NoCall
  /\ call' = [d \in Calls |->
       IF d = c \/ call[d].phase = "followIds"
       THEN [call[d] EXCEPT !.phase = "look", !.block = call[c].block, !.requested = TRUE] ELSE call[d]]
  /\ UNCHANGED <<world, deployment, latestBlock, owner, slots, positions, latestBlockRequest, positionReads, faults>>

\* A request fails, or the leader's signal was aborted: those who joined fail with it.
TokenIdsFail(c) ==
  /\ call[c].phase = "ids"
  /\ \/ call[c].aborted /\ UNCHANGED faults
     \/ faults < MaxFaults /\ faults' = faults + 1
  /\ discoveries' = NoCall
  /\ call' = [d \in Calls |-> IF d = c \/ call[d].phase = "followIds" THEN Idle ELSE call[d]]
  /\ UNCHANGED <<world, deployment, caches, latestBlockRequest, positionReads>>

---------------------------------------------------------------------------
(* A position at a block *)

\* A read that starts takes the owner that is kept, of whatever block: readOwner.
LookForPosition(c) ==
  /\ call[c].phase = "look" /\ ~Discovers(c)
  /\ IF Fresh(positions[call[c].block])
     THEN call' = [call EXCEPT ![c] = Idle] /\ UNCHANGED positionReads
     ELSE IF positionReads[call[c].block] # NoCall
     THEN call' = [call EXCEPT ![c].phase = "follow"] /\ UNCHANGED positionReads
     ELSE /\ call' = [call EXCEPT ![c].phase = "details",
                                   ![c].owner = IF Fresh(owner) THEN owner.block ELSE Unknown]
          /\ positionReads' = [positionReads EXCEPT ![call[c].block] = c]
  /\ UNCHANGED <<world, deployment, caches, latestBlockRequest, discoveries, faults>>

\* The owner asked for at the call's own block, which is kept from then on.
OwnerAt(c) == IF call[c].owner = Unknown THEN call[c].block ELSE call[c].owner
OwnerKept(c) == IF call[c].owner = Unknown THEN Keep(call[c].block, OwnerTtl) ELSE owner

\* The owner and the position; then v3 asks for the pool and v4 computes its ID.
ReadDetails(c) ==
  /\ version = "v3" /\ call[c].phase = "details" /\ ~call[c].aborted
  /\ owner' = OwnerKept(c)
  /\ call' = [call EXCEPT ![c].phase = "pool", ![c].owner = OwnerAt(c)]
  /\ UNCHANGED <<world, deployment, latestBlock, tokenIds, slots, positions, requests, faults>>

ReadDetailsV4(c) ==
  /\ version = "v4" /\ call[c].phase = "details" /\ ~call[c].aborted
  /\ owner' = OwnerKept(c)
  /\ call' = [call EXCEPT ![c].phase = "slot", ![c].owner = OwnerAt(c)]
  /\ UNCHANGED <<world, deployment, latestBlock, tokenIds, slots, positions, requests, faults>>

\* The factory's answer, which is kept for good.
ReadPool(c) ==
  /\ call[c].phase = "pool" /\ ~call[c].aborted
  /\ call' = [call EXCEPT ![c].phase = "slot"]
  /\ UNCHANGED <<world, deployment, caches, requests, faults>>

\* The slot of the pool is kept whatever its block.
SlotOfPool(block) ==
  IF \E b \in Blocks : Fresh(slots[b]) THEN CHOOSE s \in {slots[b] : b \in Blocks} : Fresh(s)
  ELSE Keep(block, SharedTtl)

\* readPoolSlot0: of the cache, if the slot of that block is in it.
SlotAt(block) == IF Fresh(slots[block]) THEN slots[block] ELSE Keep(block, SharedTtl)

\* Those who read a position of a block, when its read ends.
WithLeader(c) == {d \in Calls : d = c \/ (call[d].phase = "follow" /\ call[d].block = call[c].block)}

\* The last answers: the leader and those who joined have their position.
ReadSlot(c) ==
  /\ call[c].phase = "slot" /\ ~call[c].aborted
  /\ LET b == call[c].block
         slot == SlotAt(b) IN
       /\ slots' = [slots EXCEPT ![b] = slot]
       /\ positions' = [positions EXCEPT ![b] =
            IF SharedTtl = 0 THEN NoPosition
            ELSE [block |-> slot.block, owner |-> call[c].owner, left |-> SharedTtl]]
       /\ positionReads' = [positionReads EXCEPT ![b] = NoCall]
       /\ call' = [d \in Calls |-> IF d \in WithLeader(c) THEN Idle ELSE call[d]]
  /\ UNCHANGED <<world, deployment, latestBlock, tokenIds, owner, latestBlockRequest, discoveries, faults>>

\* What was answered before the failure is kept.
Remember(c) ==
  /\ owner' \in IF call[c].phase = "details" THEN {owner, OwnerKept(c)} ELSE {owner}
  /\ slots' \in IF call[c].phase = "slot"
               THEN {slots, [slots EXCEPT ![call[c].block] = SlotAt(call[c].block)]} ELSE {slots}

\* The read under way is forgotten only when it succeeds.
PositionFailsKept(c) ==
  /\ call[c].phase \in {"details", "pool", "slot"}
  /\ \/ call[c].aborted /\ UNCHANGED faults
     \/ faults < MaxFaults /\ faults' = faults + 1
  /\ UNCHANGED positionReads
  /\ call' = [d \in Calls |-> IF d \in WithLeader(c) THEN Idle ELSE call[d]]
  /\ Remember(c)
  /\ UNCHANGED <<world, deployment, latestBlock, tokenIds, positions, latestBlockRequest, discoveries>>

PositionFails(c) ==
  /\ call[c].phase \in {"details", "pool", "slot"}
  /\ \/ call[c].aborted /\ UNCHANGED faults
     \/ faults < MaxFaults /\ faults' = faults + 1
  /\ positionReads' = [positionReads EXCEPT ![call[c].block] = NoCall]
  /\ call' = [d \in Calls |-> IF d \in WithLeader(c) THEN Idle ELSE call[d]]
  /\ Remember(c)
  /\ UNCHANGED <<world, deployment, latestBlock, tokenIds, positions, latestBlockRequest, discoveries>>

---------------------------------------------------------------------------

\* The caller's signal is aborted: the read looks at it at its next step.
Abort(c) ==
  /\ call[c].phase # "idle" /\ ~call[c].aborted
  /\ call' = [call EXCEPT ![c].aborted = TRUE]
  /\ UNCHANGED <<world, deployment, caches, requests, faults>>

\* The chain grows; what is kept expires, and is then as good as gone: pruneSharedReads.
TimePasses ==
  /\ head' \in {head, head + 1} \cap Blocks
  /\ latestBlock' = Older(latestBlock) /\ tokenIds' = Older(tokenIds) /\ owner' = Older(owner)
  /\ slots' = [b \in Blocks |-> Older(slots[b])]
  /\ positions' = [b \in Blocks |-> OlderPosition(positions[b])]
  /\ UNCHANGED <<version, deployment, requests, call, faults>>

Next ==
  \/ \E c \in Calls : StartCall(c)
  \/ DeploymentAnswers
  \/ DeploymentFails
  \/ \E c \in Calls : AskBlock(c)
  \/ BlockAnswers
  \/ BlockFails
  \/ \E c \in Calls : LookForTokens(c)
  \/ \E c \in Calls : ReadTokenIds(c)
  \/ \E c \in Calls : TokenIdsFail(c)
  \/ \E c \in Calls : LookForPosition(c)
  \/ \E c \in Calls : ReadDetails(c)
  \/ \E c \in Calls : ReadDetailsV4(c)
  \/ \E c \in Calls : ReadPool(c)
  \/ \E c \in Calls : ReadSlot(c)
  \/ \E c \in Calls : PositionFails(c)
  \/ \E c \in Calls : Abort(c)
  \/ TimePasses

Spec == Init /\ [][Next]_vars

---------------------------------------------------------------------------
(* Properties *)

\* The price in the position of a block is of that block, whatever other blocks are being
\* read at the same time and kept.  Its owner may be of another one, while owners are kept.
PositionOfOneBlock ==
  \A b \in Blocks : Fresh(positions[b]) =>
    /\ positions[b].block = b
    /\ OwnerTtl = 0 => positions[b].owner = b

\* Who waits for a read waits for one that is under way: whether it got an answer, failed
\* or was aborted, no read leaves a call behind or stays shared when it is over.
SharedReadsGoOn ==
  /\ \A c \in Calls :
       /\ call[c].phase = "deploy" => deployment # "none"
       /\ call[c].phase = "block" => latestBlockRequest
       /\ call[c].phase = "followIds" => discoveries # NoCall
       /\ call[c].phase = "follow" => positionReads[call[c].block] # NoCall
  /\ discoveries # NoCall => call[discoveries].phase = "ids"
  /\ \A b \in Blocks : positionReads[b] # NoCall =>
       call[positionReads[b]].block = b /\ call[positionReads[b]].phase \in {"details", "pool", "slot"}
=============================================================================
