------------------------------ MODULE CollectorsProofs ------------------------------
(***************************************************************************)
(* Theorems about the collectors, for every value of their constants: one  *)
(* section per part.                                                       *)
(***************************************************************************)
EXTENDS Collectors, WellFoundedInduction, FiniteSetTheorems, TLAPS

---------------------------------------------------------------------------
(* Numbers *)

\* A nonempty set of numbers has a least element.
LEMMA LeastOfNats ==
  ASSUME NEW S, S \subseteq Nat, S # {}
  PROVE  \E n \in S : \A m \in S : n <= m
<1>1. PICK n \in S : \A m \in S : <<m, n>> \notin OpToRel(<, Nat)
  BY WFMin, NatLessThanWellFounded, Zenon
<1>2. \A m \in S : ~(m < n)
  BY <1>1, Zenon DEF OpToRel
<1> QED
  BY <1>2

\* One that is bounded has a greatest element.
LEMMA GreatestUpTo ==
  ASSUME NEW bound \in Nat, NEW S, S \subseteq 0..bound, S # {}
  PROVE  \E n \in S : \A m \in S : n >= m
<1> DEFINE D == {bound - m : m \in S}
<1>1. D \subseteq Nat /\ D # {}
  <2>1. \A m \in S : bound - m \in Nat
    OBVIOUS
  <2> QED BY <2>1
<1>2. PICK d \in D : \A e \in D : d <= e
  BY <1>1, LeastOfNats
<1>3. PICK n \in S : d = bound - n
  OBVIOUS
<1>4. \A m \in S : bound - n <= bound - m
  BY <1>2, <1>3
<1> QED
  BY <1>4

\* A finite set of numbers has a greatest element.
LEMMA GreatestOfNats ==
  ASSUME NEW S, S \subseteq Nat, S # {}, IsFiniteSet(S)
  PROVE  \E n \in S : \A m \in S : n >= m
<1>0. PICK n \in Nat : ExistsSurjection(1..n, S)
  BY FS_NatSurjection
<1>1. PICK Q \in [1..n -> S] : \A s \in S : \E i \in 1..n : Q[i] = s
  BY <1>0 DEF ExistsSurjection, Surjection
<1>2. \A i \in 1..n : Q[i] \in Nat
  BY <1>1
\* The first elements have a bound, however many they are.
<1> DEFINE Bounded(k) == \E c \in Nat : \A i \in 1..k : Q[i] <= c
           Worst == {k \in Nat : k <= n /\ ~Bounded(k)}
<1> HIDE DEF Bounded, Worst
<1>3. Worst = {}
  <2> SUFFICES ASSUME Worst # {} PROVE FALSE
    OBVIOUS
  <2>1. PICK k \in Worst : \A l \in Worst : k <= l
    <3>1. Worst \subseteq Nat
      BY DEF Worst
    <3> QED BY <3>1, LeastOfNats
  <2>2. k # 0
    <3>1. \A i \in 1..0 : Q[i] <= 0
      OBVIOUS
    <3>2. Bounded(0)
      BY <3>1 DEF Bounded
    <3> QED BY <2>1, <3>2 DEF Worst
  <2>3. k \in Nat /\ k <= n
    BY <2>1 DEF Worst
  <2>4. k - 1 \in Nat /\ k - 1 <= n /\ k - 1 \notin Worst
    <3> QED BY <2>1, <2>2, <2>3
  <2>5. Bounded(k - 1)
    BY <2>4 DEF Worst
  <2>6. PICK c \in Nat : \A i \in 1..(k - 1) : Q[i] <= c
    BY <2>5 DEF Bounded
  <2>7. Q[k] \in Nat
    <3>1. k \in 1..n
      BY <1>0, <2>2, <2>3
    <3> QED BY <1>2, <3>1
  <2>8. PICK d \in Nat : d >= c /\ d >= Q[k]
    <3>1. PICK q \in Nat : q = Q[k]
      BY <2>7
    <3>2. c + q \in Nat /\ c + q >= c /\ c + q >= q
      BY <2>6, <3>1
    <3> QED BY <3>1, <3>2
  <2>9. \A i \in 1..k : Q[i] <= d
    <3> TAKE i \in 1..k
    <3>1. i \in 1..n
      BY <1>0, <2>3
    <3>2. Q[i] \in Nat
      BY <1>2, <3>1
    <3>3. i = k \/ i \in 1..(k - 1)
      <4>1. i \in Int /\ 1 <= i /\ i <= k
        BY <2>3
      <4> QED BY <2>3, <4>1
    <3> QED BY <2>6, <2>8, <3>2, <3>3
  <2>10. Bounded(k)
    BY <2>8, <2>9 DEF Bounded
  <2> QED BY <2>1, <2>10 DEF Worst
<1>4. PICK c \in Nat : \A i \in 1..n : Q[i] <= c
  <2>1. Bounded(n)
    BY <1>0, <1>3 DEF Worst
  <2> QED BY <2>1 DEF Bounded
<1> DEFINE Bounds == {d \in Nat : \A s \in S : s <= d}
<1>5. c \in Bounds
  BY <1>1, <1>4
<1>6. PICK d \in Bounds : \A e \in Bounds : d <= e
  BY <1>5, LeastOfNats
<1>7. d \in S
  <2> SUFFICES ASSUME d \notin S PROVE FALSE
    OBVIOUS
  <2>1. d \in Nat /\ \A s \in S : s \in Nat /\ s < d
    <3>1. d \in Nat /\ \A s \in S : s \in Nat /\ s <= d /\ s # d
      BY <1>6
    <3> QED BY <3>1
  <2>2. d - 1 \in Nat /\ \A s \in S : s <= d - 1
    <3>1. PICK s \in S : s \in Nat /\ s < d
      BY <2>1
    <3> QED BY <2>1, <3>1
  <2>3. d - 1 \in Bounds
    BY <2>2
  <2> HIDE DEF Bounds
  <2> QED BY <1>6, <2>1, <2>3
<1> QED BY <1>6, <1>7

\* So has one of numbers and of the number before them all.
LEMMA GreatestFromNone ==
  ASSUME NEW S, S \subseteq Nat \cup {-1}, S # {}, IsFiniteSet(S)
  PROVE  \E n \in S : \A m \in S : n >= m
<1>1. CASE S \subseteq {-1}
  <2>1. -1 \in S /\ \A m \in S : m = -1
    BY <1>1
  <2> QED BY <2>1
<1>2. CASE ~(S \subseteq {-1})
  <2>1. S \cap Nat # {} /\ S \cap Nat \subseteq Nat /\ IsFiniteSet(S \cap Nat)
    BY <1>2, FS_Subset
  <2>2. PICK n \in S \cap Nat : \A m \in S \cap Nat : n >= m
    BY <2>1, GreatestOfNats
  <2> QED BY <2>2
<1> QED BY <1>1, <1>2

---------------------------------------------------------------------------
(* The index of the v4 positions *)

LEMMA IndexAssumptions ==
  /\ Confirmations \in Nat /\ ChunkSize \in Nat \ {0} /\ MinimumChunkSize \in 1..ChunkSize
  /\ MaximumChunksPerSync \in Nat \ {0}
  /\ MaxTip \in Nat /\ MaxLag \in Nat /\ MaxFaults \in Nat
  BY PartsParameters DEF Index!IndexParameters

\* What does not change from one block to the next does not change at all.
LEMMA NoTransfersNoChange ==
  ASSUME NEW from \in Nat, NEW to \in Nat, from <= to, NEW h,
         \A b \in (from + 1)..to : h[b] = h[b - 1]
  PROVE  h[to] = h[from]
<1> DEFINE D == {b \in from..to : h[b] # h[from]}
<1> SUFFICES ASSUME D # {} PROVE FALSE
  OBVIOUS
<1>1. PICK n \in D : \A m \in D : n <= m
  <2>1. D \subseteq Nat
    OBVIOUS
  <2> QED BY <2>1, LeastOfNats
<1>2. n \in (from + 1)..to
  OBVIOUS
<1>3. n - 1 \in from..to /\ n - 1 \notin D
  BY <1>1, <1>2
<1> QED
  BY <1>2, <1>3

\* The last transfer of a range says what the chain says at its end.
LEMMA LastTransferHolds ==
  ASSUME NEW from \in Nat \ {0}, NEW to \in Nat, from <= to
  PROVE  IF Index!Transfers(from, to) = {} THEN holds[to] = holds[from - 1]
         ELSE /\ Index!Max(Index!Transfers(from, to)) \in from..to
              /\ holds[to] = holds[Index!Max(Index!Transfers(from, to))]
<1> DEFINE T == Index!Transfers(from, to)
<1>1. T = {b \in from..to : holds[b] # holds[b - 1]}
  BY DEF Index!Transfers
<1> HIDE DEF T
<1>2. CASE T = {}
  <2>1. \A b \in ((from - 1) + 1)..to : holds[b] = holds[b - 1]
    BY <1>1, <1>2
  <2>2. from - 1 \in Nat /\ from - 1 <= to
    OBVIOUS
  <2>3. holds[to] = holds[from - 1]
    BY <2>1, <2>2, NoTransfersNoChange
  <2> QED BY <1>2, <2>3 DEF T
<1>3. CASE T # {}
  <2>1. \E n \in T : \A m \in T : n >= m
    <3>1. T \subseteq 0..to
      BY <1>1
    <3> QED BY <1>3, <3>1, GreatestUpTo
  <2>2. Index!Max(T) \in T /\ \A m \in T : Index!Max(T) >= m
    BY <2>1 DEF Index!Max
  <2>3. Index!Max(T) \in Nat /\ Index!Max(T) <= to
    BY <1>1, <2>2
  <2>4. \A b \in (Index!Max(T) + 1)..to : holds[b] = holds[b - 1]
    BY <1>1, <2>2, <2>3
  <2>5. holds[to] = holds[Index!Max(T)]
    BY <2>3, <2>4, NoTransfersNoChange
  <2>6. Index!Max(T) \in from..to
    BY <1>1, <2>2
  <2> QED BY <1>3, <2>5, <2>6 DEF T
<1> QED BY <1>2, <1>3
IndexPhases == {"idle", "tip", "logs", "list", "owner"}

\* What a sync knows of its chunks: it is never past the tip it read, nor that past the
\* chain.
ChunksWithinTip ==
  \A s \in Syncs :
    /\ sync[s].chainTip <= tip
    /\ sync[s].phase = "logs" => sync[s].scanned < sync[s].chainTip

LoneSync ==
  ~overlapped => \A s, t \in Syncs : sync[s].phase # "idle" /\ sync[t].phase # "idle" => s = t

\* A sync that nobody overlapped is the one that moved the checkpoint last.
ScannedIsCheckpoint ==
  ~overlapped => \A s \in Syncs :
    sync[s].phase \in {"logs", "list", "owner"} => sync[s].scanned = checkpoint

IndexInv ==
  /\ Index!TypeOK
  /\ ChunksWithinTip
  /\ LoneSync
  /\ ScannedIsCheckpoint
  /\ Index!IndexIsExact

LEMMA IndexInit == Index!Init => IndexInv
<1> SUFFICES ASSUME Index!Init PROVE IndexInv
  OBVIOUS
<1>1. 0 \in Index!Blocks /\ ChunkSize \in MinimumChunkSize..ChunkSize /\ 0 \in 0..MaxFaults
  BY IndexAssumptions DEF Index!Blocks
<1>2. Index!Idle \in Index!Sync
  BY DEF Index!Idle, Index!Sync
<1>3. Index!TypeOK
  BY <1>1, <1>2 DEF Index!Init, Index!TypeOK
<1>4. ChunksWithinTip /\ LoneSync /\ ScannedIsCheckpoint /\ Index!IndexIsExact
  BY DEF Index!Init, Index!Idle, ChunksWithinTip, LoneSync, ScannedIsCheckpoint,
         Index!IndexIsExact
<1> QED
  BY <1>3, <1>4 DEF IndexInv

\* The loop over the chunks goes on only where there is one to read.
LEMMA NextChunkIs ==
  ASSUME NEW work \in Index!Sync
  PROVE  LET next == Index!NextChunk(work)
         IN /\ next \in Index!Sync
            /\ next.chainTip = work.chainTip \/ next = Index!Idle
            /\ next.phase # "idle" => next.scanned = work.scanned
            /\ next.phase = "logs" => next.scanned < next.chainTip
  BY DEF Index!NextChunk, Index!Sync, Index!Idle

\* A step of one sync that leaves the index as it is.
LEMMA SyncStep ==
  ASSUME IndexInv, NEW s \in Syncs, NEW next \in Index!Sync,
         sync' = [sync EXCEPT ![s] = next],
         chunkSize' \in [Syncs -> MinimumChunkSize..ChunkSize], indexFaults' \in 0..MaxFaults,
         UNCHANGED <<holds, tip, checkpoint, owned>>,
         next.chainTip <= tip, next.phase = "logs" => next.scanned < next.chainTip,
         \/ overlapped' = overlapped /\ sync[s].phase # "idle"
         \/ overlapped' = (overlapped \/ \E o \in Syncs : sync[o].phase # "idle"),
         ~overlapped' /\ next.phase \in {"logs", "list", "owner"} => next.scanned = checkpoint
  PROVE  IndexInv'
<1>1. /\ sync \in [Syncs -> Index!Sync] /\ overlapped \in BOOLEAN
  BY DEF IndexInv, Index!TypeOK
<1>2. overlapped' \in BOOLEAN /\ (overlapped => overlapped')
  BY <1>1
<1>3. sync'[s] = next /\ \A t \in Syncs : t # s => sync'[t] = sync[t]
  BY <1>1
<1>4. Index!TypeOK'
  BY <1>1, <1>2 DEF IndexInv, Index!TypeOK
<1>5. ChunksWithinTip'
  BY <1>3 DEF IndexInv, ChunksWithinTip
<1>6. LoneSync'
  BY <1>1, <1>2, <1>3 DEF IndexInv, LoneSync
<1>7. ScannedIsCheckpoint'
  BY <1>2, <1>3 DEF IndexInv, ScannedIsCheckpoint
<1>8. Index!IndexIsExact'
  BY <1>2 DEF IndexInv, Index!IndexIsExact
<1> QED
  BY <1>4, <1>5, <1>6, <1>7, <1>8 DEF IndexInv
\* A sync ends without a trace.
LEMMA SyncEnds ==
  ASSUME IndexInv, NEW s \in Syncs, sync[s].phase # "idle",
         sync' = [sync EXCEPT ![s] = Index!Idle],
         chunkSize' \in [Syncs -> MinimumChunkSize..ChunkSize], indexFaults' \in 0..MaxFaults,
         UNCHANGED <<holds, tip, checkpoint, owned, overlapped>>
  PROVE  IndexInv'
<1>1. /\ Index!Idle \in Index!Sync /\ Index!Idle.phase = "idle" /\ Index!Idle.chainTip = 0
  BY DEF Index!Idle, Index!Sync
<1>2. Index!Idle.chainTip <= tip
  BY <1>1, IndexAssumptions DEF IndexInv, Index!TypeOK, Index!Blocks
<1> QED
  BY <1>1, <1>2, SyncStep

\* The chunk that is read ends past its start, and not past the chain.
LEMMA ReadChunkStep ==
  ASSUME IndexInv, NEW s \in Syncs, Index!ReadChunk(s)
  PROVE  IndexInv'
<1> DEFINE work == sync[s]
           to == Index!ChunkEnd(s)
           T == Index!Transfers(work.scanned + 1, to)
           read == [work EXCEPT !.scanned = to, !.chunks = work.chunks + 1]
<1>1. /\ work \in Index!Sync /\ chunkSize[s] \in Nat \ {0} /\ checkpoint \in Nat
      /\ overlapped \in BOOLEAN /\ tip \in 0..MaxTip /\ tip \in Nat
  BY IndexAssumptions DEF IndexInv, Index!TypeOK, Index!Blocks
<1>2. /\ work.scanned \in Nat /\ work.chainTip \in Nat /\ work.chunks \in Nat
      /\ work.phase = "logs" /\ work.scanned < work.chainTip /\ work.chainTip <= tip
  BY <1>1 DEF Index!ReadChunk, Index!Sync, IndexInv, ChunksWithinTip
<1>3. UNCHANGED <<holds, tip, chunkSize, overlapped, indexFaults>>
  BY DEF Index!ReadChunk
<1>4. CASE work.aborted
  <2>1. sync' = [sync EXCEPT ![s] = Index!Idle] /\ UNCHANGED <<checkpoint, owned>>
    BY <1>4 DEF Index!ReadChunk, Index!repository
  <2>2. /\ chunkSize' \in [Syncs -> MinimumChunkSize..ChunkSize]
        /\ indexFaults' \in 0..MaxFaults
    BY <1>3 DEF IndexInv, Index!TypeOK
  <2> QED BY <1>2, <1>3, <2>1, <2>2, SyncEnds
<1>5. CASE ~work.aborted
  <2>1. Index!ApplyTransfers(work.scanned + 1, to)
    BY <1>5 DEF Index!ReadChunk
  <2>2. sync \in [Syncs -> Index!Sync] /\ sync' = [sync EXCEPT ![s] = Index!NextChunk(read)]
    BY <1>5 DEF Index!ReadChunk, IndexInv, Index!TypeOK
  <2>3. to \in Nat /\ work.scanned < to /\ to <= tip
    <3> DEFINE ends == {work.scanned + chunkSize[s], work.chainTip}
    <3>1. \E n \in ends : \A m \in ends : n <= m
      BY <1>1, <1>2
    <3>2. Index!Min(ends) \in ends /\ \A m \in ends : Index!Min(ends) <= m
      BY <3>1 DEF Index!Min
    <3>3. to = Index!Min(ends)
      BY DEF Index!ChunkEnd
    <3> QED BY <1>1, <1>2, <3>2, <3>3
  <2> HIDE DEF to
  <2>4. read \in Index!Sync /\ read.chainTip = work.chainTip /\ read.scanned = to
    <3> HIDE DEF work
    <3> DEFINE chunks == work.chunks + 1
    <3>1. chunks \in Nat
      BY <1>2
    <3>2. read = [work EXCEPT !.scanned = to, !.chunks = chunks]
      OBVIOUS
    <3> HIDE DEF chunks, read
    <3> QED BY <1>1, <2>3, <3>1, <3>2 DEF Index!Sync
  <2> DEFINE next == Index!NextChunk(read)
  <2> HIDE DEF read
  <2>5. /\ next \in Index!Sync
        /\ next.chainTip = read.chainTip \/ next = Index!Idle
        /\ next.phase # "idle" => next.scanned = read.scanned
        /\ next.phase = "logs" => next.scanned < next.chainTip
    BY <2>4, NextChunkIs
  <2>6. /\ sync' \in [Syncs -> Index!Sync] /\ sync'[s] = next
        /\ \A t \in Syncs : t # s => sync'[t] = sync[t]
    BY <2>2, <2>5
  <2> HIDE DEF next
  <2>7. next.chainTip <= tip
    BY <1>1, <1>2, <2>4, <2>5 DEF Index!Idle
  <2>8. checkpoint' = to /\ owned' = (IF T = {} THEN owned ELSE holds[Index!Max(T)])
    BY <2>1 DEF Index!ApplyTransfers
  <2>9. IF T = {} THEN holds[to] = holds[work.scanned]
        ELSE Index!Max(T) \in (work.scanned + 1)..to /\ holds[to] = holds[Index!Max(T)]
    <3> DEFINE from == work.scanned + 1
    <3>1. from \in Nat \ {0} /\ from <= to /\ from - 1 = work.scanned
      BY <1>2, <2>3
    <3> HIDE DEF from
    <3>2. IF Index!Transfers(from, to) = {} THEN holds[to] = holds[from - 1]
          ELSE /\ Index!Max(Index!Transfers(from, to)) \in from..to
               /\ holds[to] = holds[Index!Max(Index!Transfers(from, to))]
      BY <2>3, <3>1, LastTransferHolds
    <3> QED BY <3>1, <3>2 DEF from
  <2> HIDE DEF T, work
  <2>10. Index!TypeOK'
    <3>1. checkpoint' \in Index!Blocks
      BY <1>1, <2>3, <2>8, IndexAssumptions DEF Index!Blocks
    <3>2. T # {} => Index!Max(T) \in Index!Blocks
      BY <1>1, <1>2, <2>3, <2>9, IndexAssumptions DEF Index!Blocks
    <3>3. owned' \in BOOLEAN
      BY <2>8, <3>2 DEF IndexInv, Index!TypeOK
    <3> QED BY <1>3, <2>6, <3>1, <3>3 DEF IndexInv, Index!TypeOK, Index!Blocks
  <2>11. ChunksWithinTip'
    BY <1>3, <2>5, <2>6, <2>7 DEF IndexInv, ChunksWithinTip
  <2>12. \A t \in Syncs : ~overlapped /\ sync[t].phase # "idle" => t = s
    BY <1>2 DEF IndexInv, LoneSync, work
  <2>13. LoneSync' /\ ScannedIsCheckpoint'
    BY <1>3, <2>4, <2>5, <2>6, <2>8, <2>12 DEF LoneSync, ScannedIsCheckpoint
  <2>14. ~overlapped => work.scanned = checkpoint
    BY <1>2 DEF IndexInv, ScannedIsCheckpoint, work
  <2>15. ~overlapped => owned' = holds[to]
    <3> SUFFICES ASSUME ~overlapped PROVE owned' = holds[to]
      OBVIOUS
    <3>1. CASE T = {}
      <4>1. checkpoint \in Index!Blocks /\ holds[checkpoint] \in BOOLEAN /\ owned \in BOOLEAN
        BY DEF IndexInv, Index!TypeOK
      <4>2. owned = holds[checkpoint]
        BY <4>1 DEF IndexInv, Index!IndexIsExact
      <4>3. owned' = owned /\ holds[to] = holds[checkpoint]
        BY <2>8, <2>9, <2>14, <3>1
      <4> QED BY <4>2, <4>3
    <3>2. CASE T # {}
      BY <2>8, <2>9, <3>2
    <3> QED BY <3>1, <3>2
  <2>16. Index!IndexIsExact'
    BY <1>3, <2>8, <2>15 DEF Index!IndexIsExact
  <2> QED BY <2>10, <2>11, <2>13, <2>16 DEF IndexInv
<1> QED BY <1>4, <1>5

LEMMA IndexStep == IndexInv /\ [Index!Next]_(Index!vars) => IndexInv'
<1> SUFFICES ASSUME IndexInv, [Index!Next]_(Index!vars) PROVE IndexInv'
  OBVIOUS
<1>1. /\ sync \in [Syncs -> Index!Sync] /\ overlapped \in BOOLEAN /\ tip \in 0..MaxTip
      /\ chunkSize \in [Syncs -> MinimumChunkSize..ChunkSize] /\ indexFaults \in 0..MaxFaults
      /\ holds \in [Index!Blocks -> BOOLEAN] /\ checkpoint \in 0..MaxTip /\ owned \in BOOLEAN
      /\ MaxTip \in Nat /\ MaxFaults \in Nat /\ tip \in Nat
  BY IndexAssumptions DEF IndexInv, Index!TypeOK, Index!Blocks
<1>2. /\ Index!Idle \in Index!Sync /\ Index!Idle.phase = "idle" /\ Index!Idle.chainTip = 0
  BY DEF Index!Idle, Index!Sync
<1>3. \A s \in Syncs : /\ sync[s] \in Index!Sync /\ sync[s].chainTip <= tip
                       /\ sync[s].phase = "logs" => sync[s].scanned < sync[s].chainTip
  BY <1>1 DEF IndexInv, ChunksWithinTip
<1>4. ASSUME NEW s \in Syncs, Index!StartSync(s) PROVE IndexInv'
  <2> DEFINE next == [sync[s] EXCEPT !.phase = "tip"]
  <2>1. /\ next \in Index!Sync /\ next.phase = "tip" /\ next.chainTip = sync[s].chainTip
    BY <1>3 DEF Index!Sync
  <2>2. sync' = [sync EXCEPT ![s] = next]
    BY <1>1, <1>4 DEF Index!StartSync
  <2> HIDE DEF next
  <2>3. /\ UNCHANGED <<holds, tip, checkpoint, owned, chunkSize, indexFaults>>
        /\ overlapped' = (overlapped \/ \E o \in Syncs : sync[o].phase # "idle")
    BY <1>4 DEF Index!StartSync, Index!repository
  <2> QED BY <1>1, <1>3, <2>1, <2>2, <2>3, SyncStep
<1>5. ASSUME NEW s \in Syncs, Index!ReadTip(s) PROVE IndexInv'
  <2>1. PICK t \in Index!Max({0, tip - MaxLag})..tip :
          sync' = [sync EXCEPT ![s] = Index!NextChunk(
                    [@ EXCEPT !.chainTip = Index!Confirmed(t), !.scanned = checkpoint])]
    BY <1>5 DEF Index!ReadTip
  <2> DEFINE work == [sync[s] EXCEPT !.chainTip = Index!Confirmed(t), !.scanned = checkpoint]
             next == Index!NextChunk(work)
  <2>2. Index!Max({0, tip - MaxLag}) \in Nat
    <3> DEFINE T == {0, tip - MaxLag}
    <3>1. \E n \in T : \A m \in T : n >= m
      BY <1>1, IndexAssumptions
    <3>2. Index!Max(T) \in T /\ Index!Max(T) >= 0
      BY <3>1 DEF Index!Max
    <3> QED BY <1>1, <3>2, IndexAssumptions
  <2>3. Index!Confirmed(t) \in Nat /\ Index!Confirmed(t) <= tip
    BY <1>1, <2>2, IndexAssumptions DEF Index!Confirmed
  <2>4. /\ work \in Index!Sync /\ work.chainTip <= tip /\ work.scanned = checkpoint
    <3> DEFINE old == sync[s]
    <3>1. work = [old EXCEPT !.chainTip = Index!Confirmed(t), !.scanned = checkpoint]
      OBVIOUS
    <3>2. old \in Index!Sync /\ checkpoint \in Nat
      BY <1>1, <1>3
    <3> HIDE DEF old, work
    <3> QED BY <2>3, <3>1, <3>2 DEF Index!Sync
  <2>5. sync' = [sync EXCEPT ![s] = next]
    BY <1>1, <2>1
  <2> HIDE DEF work
  <2>6. /\ next \in Index!Sync
        /\ next.chainTip = work.chainTip \/ next = Index!Idle
        /\ next.phase # "idle" => next.scanned = work.scanned
        /\ next.phase = "logs" => next.scanned < next.chainTip
    BY <2>4, NextChunkIs
  <2> HIDE DEF next
  <2>7. /\ UNCHANGED <<holds, tip, checkpoint, owned, chunkSize, overlapped, indexFaults>>
        /\ sync[s].phase # "idle"
    BY <1>5 DEF Index!ReadTip, Index!repository
  <2>8. next.chainTip <= tip
    BY <1>1, <1>2, <2>4, <2>6
  <2>9. next.phase \in {"logs", "list", "owner"} => next.scanned = checkpoint
    BY <2>4, <2>6
  <2> QED BY <1>1, <2>5, <2>6, <2>7, <2>8, <2>9, SyncStep
<1>6. ASSUME NEW s \in Syncs, Index!ReadChunk(s) PROVE IndexInv'
  BY <1>6, ReadChunkStep
<1>7. ASSUME NEW s \in Syncs, Index!ChunkFails(s) PROVE IndexInv'
  <2>1. /\ sync[s].phase = "logs" /\ indexFaults' \in 0..MaxFaults
        /\ UNCHANGED <<holds, tip, checkpoint, owned, overlapped>>
    BY <1>1, <1>7 DEF Index!ChunkFails, Index!repository
  <2>2. CASE sync[s].aborted \/ chunkSize[s] <= MinimumChunkSize
    <3>1. sync' = [sync EXCEPT ![s] = Index!Idle] /\ UNCHANGED chunkSize
      BY <1>7, <2>2 DEF Index!ChunkFails
    <3> QED BY <1>1, <2>1, <3>1, SyncEnds
  <2>3. CASE ~(sync[s].aborted \/ chunkSize[s] <= MinimumChunkSize)
    <3> DEFINE sizes == {chunkSize[s] \div 2, MinimumChunkSize}
    <3>1. /\ chunkSize' = [chunkSize EXCEPT ![s] = Index!Max(sizes)]
          /\ UNCHANGED sync
      BY <1>1, <1>7, <2>3 DEF Index!ChunkFails
    <3>2. \A n \in sizes : n \in Nat /\ n <= ChunkSize
      BY <1>1, IndexAssumptions
    <3>3. \E n \in sizes : \A m \in sizes : n >= m
      BY <3>2
    <3>4. Index!Max(sizes) \in sizes /\ Index!Max(sizes) >= MinimumChunkSize
      BY <3>3 DEF Index!Max
    <3>5. Index!Max(sizes) \in MinimumChunkSize..ChunkSize
      BY <3>2, <3>4, IndexAssumptions
    <3>6. chunkSize' \in [Syncs -> MinimumChunkSize..ChunkSize]
      BY <1>1, <3>1, <3>5
    <3> QED BY <2>1, <3>1, <3>6
            DEF IndexInv, Index!TypeOK, ChunksWithinTip, LoneSync, ScannedIsCheckpoint,
                Index!IndexIsExact
  <2> QED BY <2>2, <2>3
<1>8. ASSUME NEW s \in Syncs, Index!ListOwned(s) PROVE IndexInv'
  <2> DEFINE next == IF owned /\ ~sync[s].aborted THEN [sync[s] EXCEPT !.phase = "owner"]
                     ELSE Index!Idle
  <2>1. /\ sync[s].phase = "list"
        /\ UNCHANGED <<holds, tip, checkpoint, owned, chunkSize, overlapped, indexFaults>>
    BY <1>8 DEF Index!ListOwned, Index!repository
  <2>2. sync' = [sync EXCEPT ![s] = next]
    BY <1>1, <1>8 DEF Index!ListOwned
  <2>3. /\ next \in Index!Sync /\ next.phase \in {"owner", "idle"} /\ next.chainTip <= tip
        /\ next.phase = "owner" => next.scanned = sync[s].scanned
    BY <1>1, <1>2, <1>3 DEF Index!Sync
  <2> HIDE DEF next
  <2>4. ~overlapped => sync[s].scanned = checkpoint
    BY <2>1 DEF IndexInv, ScannedIsCheckpoint
  <2> QED BY <1>1, <2>1, <2>2, <2>3, <2>4, SyncStep
<1>9. ASSUME NEW s \in Syncs, Index!OwnerAnswers(s) PROVE IndexInv'
  <2>1. /\ sync[s].phase = "owner" /\ sync' = [sync EXCEPT ![s] = Index!Idle]
        /\ owned' = (owned /\ holds[sync[s].scanned])
        /\ UNCHANGED <<holds, tip, checkpoint, chunkSize, overlapped, indexFaults>>
    BY <1>9 DEF Index!OwnerAnswers
  <2>2. sync'[s] = Index!Idle /\ \A t \in Syncs : t # s => sync'[t] = sync[t]
    BY <1>1, <2>1
  <2>3. ~overlapped => sync[s].scanned = checkpoint
    BY <2>1 DEF IndexInv, ScannedIsCheckpoint
  <2>4. owned' \in BOOLEAN
    BY <2>1
  <2>5. Index!TypeOK' /\ ChunksWithinTip' /\ LoneSync' /\ ScannedIsCheckpoint'
    <3>1. sync' \in [Syncs -> Index!Sync]
      BY <1>1, <1>2, <2>1
    <3>2. Index!TypeOK'
      BY <2>1, <2>4, <3>1 DEF IndexInv, Index!TypeOK
    <3> QED BY <1>2, <1>1, <2>1, <2>2, <3>2
            DEF IndexInv, ChunksWithinTip, LoneSync, ScannedIsCheckpoint
  <2>6. Index!IndexIsExact'
    BY <2>1, <2>3 DEF IndexInv, Index!IndexIsExact
  <2> QED BY <2>5, <2>6 DEF IndexInv
<1>10. ASSUME NEW s \in Syncs, Index!OwnerFails(s) PROVE IndexInv'
  <2>1. /\ sync[s].phase = "owner" /\ indexFaults' \in 0..MaxFaults
        /\ sync' = [sync EXCEPT ![s] = Index!Idle]
        /\ UNCHANGED <<holds, tip, checkpoint, owned, chunkSize, overlapped>>
    BY <1>1, <1>10 DEF Index!OwnerFails, Index!repository
  <2> QED BY <1>1, <2>1, SyncEnds
<1>11. ASSUME NEW s \in Syncs, Index!Abort(s) PROVE IndexInv'
  <2> DEFINE next == [sync[s] EXCEPT !.aborted = TRUE]
  <2>1. /\ next \in Index!Sync /\ next.phase = sync[s].phase /\ next.scanned = sync[s].scanned
        /\ next.chainTip = sync[s].chainTip
    BY <1>3 DEF Index!Sync
  <2>2. sync' = [sync EXCEPT ![s] = next]
    BY <1>1, <1>11 DEF Index!Abort
  <2> HIDE DEF next
  <2>3. /\ sync[s].phase # "idle"
        /\ UNCHANGED <<holds, tip, checkpoint, owned, chunkSize, overlapped, indexFaults>>
    BY <1>11 DEF Index!Abort, Index!repository
  <2>4. ~overlapped /\ next.phase \in {"logs", "list", "owner"} => next.scanned = checkpoint
    BY <2>1 DEF IndexInv, ScannedIsCheckpoint
  <2> QED BY <1>1, <1>3, <2>1, <2>2, <2>3, <2>4, SyncStep
<1>12. CASE Index!Restart
  <2>1. /\ indexFaults' \in 0..MaxFaults
        /\ sync' = [s \in Syncs |-> Index!Idle] /\ chunkSize' = [s \in Syncs |-> ChunkSize]
        /\ UNCHANGED <<holds, tip, checkpoint, owned, overlapped>>
    BY <1>1, <1>12 DEF Index!Restart, Index!repository
  <2>2. chunkSize' \in [Syncs -> MinimumChunkSize..ChunkSize]
    BY <2>1, IndexAssumptions
  <2> QED BY <1>1, <1>2, <2>1, <2>2
          DEF IndexInv, Index!TypeOK, ChunksWithinTip, LoneSync, ScannedIsCheckpoint,
              Index!IndexIsExact
<1>13. CASE Index!NewBlock
  <2>1. /\ tip' \in 0..MaxTip /\ tip <= tip' /\ tip' \in Nat
        /\ UNCHANGED <<holds, checkpoint, owned, chunkSize, sync, overlapped, indexFaults>>
    BY <1>1, <1>13 DEF Index!NewBlock, Index!repository
  <2>2. ChunksWithinTip'
    BY <1>1, <1>3, <2>1 DEF ChunksWithinTip, Index!Sync
  <2> QED BY <2>1, <2>2
          DEF IndexInv, Index!TypeOK, Index!Blocks, LoneSync, ScannedIsCheckpoint,
              Index!IndexIsExact
<1>14. CASE UNCHANGED Index!vars
  BY <1>14 DEF Index!vars, Index!repository, IndexInv, Index!TypeOK, ChunksWithinTip, LoneSync,
               ScannedIsCheckpoint, Index!IndexIsExact
<1> QED
  BY <1>4, <1>5, <1>6, <1>7, <1>8, <1>9, <1>10, <1>11, <1>12, <1>13, <1>14 DEF Index!Next
\* While no two syncs of a wallet overlap, the index says of a token what the chain said
\* at the checkpoint, whatever chunks are refused and whichever sync is given up or cut
\* short (UniswapV4OwnershipIndexer.sync, commitChunk).
THEOREM IndexIsExactAlways == PartsSpec => []IndexIsExact
<1> DEFINE Inv == part = "index" => IndexInv
<1>1. PartsInit => Inv
  BY IndexInit DEF PartsInit
<1>2. Inv /\ [PartsNext]_partVars => Inv'
  <2> SUFFICES ASSUME Inv, [PartsNext]_partVars, part' = "index" PROVE IndexInv'
    OBVIOUS
  <2>1. part = "index" /\ [Index!Next]_(Index!vars)
    BY DEF PartsNext, partVars, indexVars, Index!vars, Index!repository
  <2> QED BY <2>1, IndexStep
<1>3. Inv => IndexIsExact
  BY DEF IndexInv, IndexIsExact
<1> QED
  BY <1>1, <1>2, <1>3, PTL DEF PartsSpec
---------------------------------------------------------------------------
(* The snapshot of the wallet's positions *)

LEMMA SnapshotAssumptions ==
  /\ Valued \subseteq Tokens
  /\ MaxStale \in Nat /\ MaxDelay \in Nat /\ MaxReadClock \in Nat /\ MaxForgets \in Nat
  BY PartsParameters DEF Snapshot!SnapshotParameters

\* The newest scan status of a version is as new as all that its scans put.
NothingIsNewer ==
  \A v \in Versions, t \in Tokens :
    /\ readErrors[v][t].at <= snapshotScanStatus[v].at
    /\ \A b \in snapshotPositions[v][t] : b <= snapshotScanStatus[v].at

\* A version whose newest scan did not fail has all that this scan found.
ScanIsComplete ==
  \A v \in Versions, t \in Tokens :
    t \in found[v] /\ snapshotScanStatus[v].status # "error" =>
      /\ readErrors[v][t].at = snapshotScanStatus[v].at
      /\ snapshotScanStatus[v].at \in snapshotPositions[v][t]

SnapshotInv == Snapshot!TypeOK /\ NothingIsNewer /\ ScanIsComplete

LEMMA SnapshotInit == Snapshot!Init => SnapshotInv
<1> SUFFICES ASSUME Snapshot!Init PROVE SnapshotInv
  OBVIOUS
<1>1. Snapshot!NoGauge \in Snapshot!Gauge /\ 0 \in Snapshot!Times
  BY SnapshotAssumptions DEF Snapshot!NoGauge, Snapshot!Gauge, Snapshot!Times, Snapshot!Never
<1>2. Snapshot!TypeOK
  BY <1>1, SnapshotAssumptions DEF Snapshot!Init, Snapshot!TypeOK
<1>3. NothingIsNewer /\ ScanIsComplete
  BY DEF Snapshot!Init, Snapshot!NoGauge, Snapshot!Never, NothingIsNewer, ScanIsComplete
<1> QED
  BY <1>2, <1>3 DEF SnapshotInv

\* The greater of two numbers, and the newest of the times kept.
LEMMA SnapshotMaxOfTwo ==
  ASSUME NEW a \in Int, NEW b \in Int
  PROVE  Snapshot!Max({a, b}) \in {a, b} /\ Snapshot!Max({a, b}) >= a /\ Snapshot!Max({a, b}) >= b
<1>1. \E x \in {a, b} : \A y \in {a, b} : x >= y
  <2>1. CASE a >= b
    BY <2>1
  <2>2. CASE b >= a
    BY <2>2
  <2> QED BY <2>1, <2>2
<1> QED
  BY <1>1 DEF Snapshot!Max

LEMMA SnapshotMaxOfTimes ==
  ASSUME NEW S, S \subseteq Snapshot!Times, S # {}
  PROVE  Snapshot!Max(S) \in S /\ \A y \in S : Snapshot!Max(S) >= y
<1>1. \E x \in S : \A y \in S : x >= y
  BY SnapshotAssumptions, GreatestUpTo DEF Snapshot!Times
<1> QED
  BY <1>1 DEF Snapshot!Max

\* A scan emits at a time that has been.
LEMMA EmitTimes ==
  ASSUME Snapshot!TypeOK, NEW at \in Snapshot!Max({0, snapshotClock - MaxDelay})..snapshotClock
  PROVE  at \in Snapshot!Times /\ at \in Nat
<1>1. snapshotClock \in 0..MaxReadClock /\ MaxReadClock \in Nat /\ MaxDelay \in Nat
  BY SnapshotAssumptions DEF Snapshot!TypeOK, Snapshot!Times
<1>2. Snapshot!Max({0, snapshotClock - MaxDelay}) \in Int /\ Snapshot!Max({0, snapshotClock - MaxDelay}) >= 0
  BY <1>1, SnapshotMaxOfTwo
<1> QED
  BY <1>1, <1>2 DEF Snapshot!Times

LEMMA PutGauge ==
  ASSUME NEW old \in Snapshot!Gauge, NEW at \in Snapshot!Times,
         NEW status \in {"none", "ok", "error", "warming_up", "stale"}
  PROVE  /\ Snapshot!Put(old, at, status) \in Snapshot!Gauge
         /\ at <= old.at => Snapshot!Put(old, at, status) = old
         /\ at > old.at => /\ Snapshot!Put(old, at, status).at = at
                           /\ Snapshot!Put(old, at, status).status = status
         /\ at <= Snapshot!Put(old, at, status).at
         /\ old.at <= Snapshot!Put(old, at, status).at
<1>1. old.at \in Int /\ at \in Int
  BY SnapshotAssumptions DEF Snapshot!Gauge, Snapshot!Times, Snapshot!Never
<1>2. CASE at <= old.at
  BY <1>1, <1>2 DEF Snapshot!Put
<1>3. CASE at > old.at
  <2>1. Snapshot!Put(old, at, status) = [at |-> at, status |-> status]
    BY <1>1, <1>3 DEF Snapshot!Put
  <2>2. [at |-> at, status |-> status] \in Snapshot!Gauge
    BY DEF Snapshot!Gauge
  <2> QED BY <1>1, <1>3, <2>1, <2>2
<1> QED
  BY <1>1, <1>2, <1>3

\* Of a position the newest time stays, and the time of a valuation is added.
LEMMA PutPositionTimes ==
  ASSUME NEW kept \in SUBSET Snapshot!Times, NEW t \in Tokens, NEW at \in Snapshot!Times
  PROVE  /\ Snapshot!PutPosition(kept, t, at) \subseteq kept \cup {at}
         /\ \A x \in kept \cup {at} :
              (\A y \in kept \cup {at} : y <= x) => x \in Snapshot!PutPosition(kept, t, at)
<1>1. CASE t \in Valued
  BY <1>1 DEF Snapshot!PutPosition
<1>2. CASE t \notin Valued
  <2> DEFINE newest == Snapshot!Max(kept \cup {at})
  <2>1. newest \in kept \cup {at} /\ \A y \in kept \cup {at} : newest >= y
    BY SnapshotMaxOfTimes
  <2>2. Snapshot!PutPosition(kept, t, at) = {newest}
    BY <1>2 DEF Snapshot!PutPosition
  <2>3. \A x \in kept \cup {at} : x \in Int
    BY SnapshotAssumptions DEF Snapshot!Times
  <2> HIDE DEF newest
  <2> QED BY <2>1, <2>2, <2>3
<1> QED
  BY <1>1, <1>2

\* Every step keeps the invariant.
LEMMA SnapshotStep == SnapshotInv /\ [Snapshot!Next]_(Snapshot!vars) => SnapshotInv'
<1> SUFFICES ASSUME SnapshotInv, [Snapshot!Next]_(Snapshot!vars) PROVE SnapshotInv'
  OBVIOUS
<1>1. /\ snapshotClock \in Snapshot!Times
      /\ snapshotScanStatus \in [Versions -> Snapshot!Gauge]
      /\ caughtUp \in [Versions -> Snapshot!Gauge]
      /\ readErrors \in [Versions -> [Tokens -> Snapshot!Gauge]]
      /\ snapshotDataAge \in Snapshot!Gauge
      /\ snapshotPositions \in [Versions -> [Tokens -> SUBSET Snapshot!Times]]
      /\ found \in [Versions -> SUBSET Tokens]
      /\ latestGood \in Snapshot!Times \cup {Snapshot!Never} /\ forgets \in 0..MaxForgets
  BY DEF SnapshotInv, Snapshot!TypeOK
<1>2. \A g \in Snapshot!Gauge : g.at \in Int
  BY SnapshotAssumptions DEF Snapshot!Gauge, Snapshot!Times, Snapshot!Never
<1>3. NothingIsNewer /\ ScanIsComplete
  BY DEF SnapshotInv
<1>4. ASSUME NEW v \in Versions, Snapshot!ScanEmits(v) PROVE SnapshotInv'
  <2>1. PICK at \in Snapshot!Max({0, snapshotClock - MaxDelay})..snapshotClock,
             read \in SUBSET Tokens, indexed \in BOOLEAN :
          \E failures \in SUBSET read : Snapshot!EmitScan(v, at, read, failures, indexed)
    BY <1>4 DEF Snapshot!ScanEmits
  <2>2. PICK failures \in SUBSET read : Snapshot!EmitScan(v, at, read, failures, indexed)
    BY <2>1
  <2>3. at \in Snapshot!Times /\ at \in Nat
    BY EmitTimes DEF SnapshotInv
  <2> DEFINE status == IF failures # {} THEN "error" ELSE IF indexed THEN "ok" ELSE "warming_up"
             scanned == Snapshot!Put(snapshotScanStatus[v], at, status)
             errors == [t \in Tokens |->
               IF t \in failures THEN Snapshot!Put(readErrors[v][t], at, "error")
               ELSE IF t \in read THEN Snapshot!Put(readErrors[v][t], at, "ok")
               ELSE readErrors[v][t]]
             times == [t \in Tokens |->
               IF t \in read \ failures
               THEN Snapshot!PutPosition(snapshotPositions[v][t], t, at)
               ELSE snapshotPositions[v][t]]
  <2>4. /\ snapshotScanStatus' = [snapshotScanStatus EXCEPT ![v] = scanned]
        /\ readErrors' = [readErrors EXCEPT ![v] = errors]
        /\ snapshotPositions' = [snapshotPositions EXCEPT ![v] = times]
        /\ found' = IF at > snapshotScanStatus[v].at THEN [found EXCEPT ![v] = read] ELSE found
    BY <1>1, <2>2 DEF Snapshot!EmitScan
  <2>5. /\ scanned \in Snapshot!Gauge
        /\ at <= snapshotScanStatus[v].at => scanned = snapshotScanStatus[v]
        /\ at > snapshotScanStatus[v].at => scanned.at = at /\ scanned.status = status
        /\ at <= scanned.at /\ snapshotScanStatus[v].at <= scanned.at
    <3>1. status \in {"none", "ok", "error", "warming_up", "stale"}
      OBVIOUS
    <3>2. snapshotScanStatus[v] \in Snapshot!Gauge
      BY <1>1
    <3> HIDE DEF status
    <3> QED BY <2>3, <3>1, <3>2, PutGauge
  <2>6. \A t \in Tokens :
          /\ errors[t] \in Snapshot!Gauge
          /\ errors[t].at <= scanned.at
          /\ t \in read /\ at > readErrors[v][t].at => errors[t].at = at
          /\ at <= readErrors[v][t].at => errors[t] = readErrors[v][t]
    <3> SUFFICES ASSUME NEW t \in Tokens
                 PROVE  /\ errors[t] \in Snapshot!Gauge
                        /\ errors[t].at <= scanned.at
                        /\ t \in read /\ at > readErrors[v][t].at => errors[t].at = at
                        /\ at <= readErrors[v][t].at => errors[t] = readErrors[v][t]
      OBVIOUS
    <3>1. readErrors[v][t] \in Snapshot!Gauge /\ readErrors[v][t].at <= scanned.at
      BY <1>1, <1>2, <1>3, <2>5 DEF NothingIsNewer
    <3>2. CASE t \in read
      <4>1. PICK how \in {"ok", "error"} : errors[t] = Snapshot!Put(readErrors[v][t], at, how)
        BY <3>2
      <4>2. /\ errors[t] \in Snapshot!Gauge
            /\ at <= readErrors[v][t].at => errors[t] = readErrors[v][t]
            /\ at > readErrors[v][t].at => errors[t].at = at
        BY <2>3, <3>1, <4>1, PutGauge
      <4>3. readErrors[v][t].at \in Int
        BY <1>2, <3>1
      <4> HIDE DEF errors, scanned
      <4> QED BY <2>3, <2>5, <3>1, <4>2, <4>3
    <3>3. CASE t \notin read
      <4>1. errors[t] = readErrors[v][t]
        BY <3>3
      <4> HIDE DEF errors, scanned
      <4> QED BY <3>1, <3>3, <4>1
    <3> QED BY <3>2, <3>3
  <2>7. \A t \in Tokens :
          /\ times[t] \subseteq snapshotPositions[v][t] \cup {at}
          /\ times[t] \in SUBSET Snapshot!Times
          /\ t \notin read \ failures => times[t] = snapshotPositions[v][t]
          /\ t \in read \ failures =>
               \A x \in snapshotPositions[v][t] \cup {at} :
                 (\A y \in snapshotPositions[v][t] \cup {at} : y <= x) => x \in times[t]
    <3> SUFFICES ASSUME NEW t \in Tokens
                 PROVE  /\ times[t] \subseteq snapshotPositions[v][t] \cup {at}
                        /\ times[t] \in SUBSET Snapshot!Times
                        /\ t \notin read \ failures => times[t] = snapshotPositions[v][t]
                        /\ t \in read \ failures =>
                             \A x \in snapshotPositions[v][t] \cup {at} :
                               (\A y \in snapshotPositions[v][t] \cup {at} : y <= x) => x \in times[t]
      OBVIOUS
    <3>1. snapshotPositions[v][t] \in SUBSET Snapshot!Times
      BY <1>1
    <3>2. CASE t \in read \ failures
      <4>1. times[t] = Snapshot!PutPosition(snapshotPositions[v][t], t, at)
        BY <3>2
      <4> HIDE DEF times
      <4> DEFINE kept == snapshotPositions[v][t]
      <4>2. /\ Snapshot!PutPosition(kept, t, at) \subseteq kept \cup {at}
            /\ \A x \in kept \cup {at} :
                 (\A y \in kept \cup {at} : y <= x) => x \in Snapshot!PutPosition(kept, t, at)
        <5> HIDE DEF kept
        <5> QED BY <2>3, <3>1, PutPositionTimes DEF kept
      <4> QED BY <2>3, <3>1, <3>2, <4>1, <4>2
    <3>3. CASE t \notin read \ failures
      <4>1. times[t] = snapshotPositions[v][t]
        BY <3>3
      <4> HIDE DEF times
      <4> QED BY <3>1, <3>3, <4>1
    <3> QED BY <3>2, <3>3
  <2>8. Snapshot!TypeOK'
    <3>1. errors \in [Tokens -> Snapshot!Gauge]
      <4>1. \A t \in Tokens : errors[t] \in Snapshot!Gauge
        BY <2>6
      <4> QED BY <4>1
    <3>2. times \in [Tokens -> SUBSET Snapshot!Times]
      <4>1. \A t \in Tokens : times[t] \in SUBSET Snapshot!Times
        BY <2>7
      <4> QED BY <4>1
    <3>3. snapshotDataAge' \in Snapshot!Gauge
      <4>1. Snapshot!Put(snapshotDataAge, at, "ok") \in Snapshot!Gauge
        BY <1>1, <2>3, PutGauge
      <4> QED BY <1>1, <2>2, <4>1 DEF Snapshot!EmitScan
    <3>4. caughtUp' \in [Versions -> Snapshot!Gauge]
      <4> DEFINE gauge == Snapshot!Put(caughtUp[v], at, IF indexed THEN "ok" ELSE "warming_up")
      <4>1. gauge \in Snapshot!Gauge
        <5> DEFINE how == IF indexed THEN "ok" ELSE "warming_up"
        <5>1. how \in {"none", "ok", "error", "warming_up", "stale"}
          OBVIOUS
        <5>2. caughtUp[v] \in Snapshot!Gauge
          BY <1>1
        <5> HIDE DEF how
        <5> QED BY <2>3, <5>1, <5>2, PutGauge DEF how
      <4>2. caughtUp' = [caughtUp EXCEPT ![v] = gauge]
        BY <2>2 DEF Snapshot!EmitScan
      <4> HIDE DEF gauge
      <4> QED BY <1>1, <4>1, <4>2
    <3>5. latestGood' \in Snapshot!Times \cup {Snapshot!Never}
      <4>1. latestGood \in Int
        BY <1>1, SnapshotAssumptions DEF Snapshot!Times, Snapshot!Never
      <4>2. Snapshot!Max({latestGood, at}) \in {latestGood, at}
        <5>1. at \in Int
          BY <2>3
        <5> QED BY <4>1, <5>1, SnapshotMaxOfTwo
      <4> QED BY <1>1, <2>2, <2>3, <4>2 DEF Snapshot!EmitScan
    <3>6. snapshotClock' = snapshotClock /\ forgets' = forgets
      BY <1>4 DEF Snapshot!ScanEmits
    <3>7. found' \in [Versions -> SUBSET Tokens]
      BY <1>1, <2>4
    <3> HIDE DEF errors, times, scanned
    <3> QED BY <1>1, <2>4, <2>5, <3>1, <3>2, <3>3, <3>4, <3>5, <3>6, <3>7 DEF Snapshot!TypeOK
  <2> HIDE DEF errors, times, scanned
  <2>9. NothingIsNewer'
    <3> SUFFICES ASSUME NEW u \in Versions, NEW t \in Tokens
                 PROVE  /\ readErrors'[u][t].at <= snapshotScanStatus'[u].at
                        /\ \A b \in snapshotPositions'[u][t] : b <= snapshotScanStatus'[u].at
      BY DEF NothingIsNewer
    <3>1. CASE u = v
      <4>1. readErrors'[u][t] = errors[t] /\ snapshotScanStatus'[u] = scanned
            /\ snapshotPositions'[u][t] = times[t]
        BY <1>1, <2>4, <3>1
      <4>2. \A b \in snapshotPositions[v][t] : b <= scanned.at
        <5>1. \A b \in snapshotPositions[v][t] : b \in Int
          BY <1>1, SnapshotAssumptions DEF Snapshot!Times
        <5>2. \A b \in snapshotPositions[v][t] : b <= snapshotScanStatus[v].at
          BY <1>3 DEF NothingIsNewer
        <5>3. snapshotScanStatus[v].at \in Int /\ scanned.at \in Int
          BY <1>1, <1>2, <2>5
        <5> QED BY <2>5, <5>1, <5>2, <5>3
      <4> QED BY <2>5, <2>6, <2>7, <4>1, <4>2
    <3>2. CASE u # v
      BY <1>1, <1>3, <2>4, <3>2 DEF NothingIsNewer
    <3> QED BY <3>1, <3>2
  <2>10. ScanIsComplete'
    <3> SUFFICES ASSUME NEW u \in Versions, NEW t \in Tokens,
                        t \in found'[u], snapshotScanStatus'[u].status # "error"
                 PROVE  /\ readErrors'[u][t].at = snapshotScanStatus'[u].at
                        /\ snapshotScanStatus'[u].at \in snapshotPositions'[u][t]
      BY DEF ScanIsComplete
    <3>1. CASE u # v
      BY <1>1, <1>3, <2>4, <3>1 DEF ScanIsComplete
    <3>2. CASE u = v
      <4>1. readErrors'[u][t] = errors[t] /\ snapshotScanStatus'[u] = scanned
            /\ snapshotPositions'[u][t] = times[t]
        BY <1>1, <2>4, <3>2
      <4>2. /\ snapshotScanStatus[v].at \in Int /\ readErrors[v][t].at \in Int
            /\ readErrors[v][t].at <= snapshotScanStatus[v].at
            /\ \A b \in snapshotPositions[v][t] : b \in Int /\ b <= snapshotScanStatus[v].at
        BY <1>1, <1>2, <1>3, SnapshotAssumptions DEF NothingIsNewer, Snapshot!Times
      <4>3. CASE at > snapshotScanStatus[v].at
        <5>1. scanned.at = at /\ status # "error"
          BY <2>5, <3>2, <4>1, <4>3
        <5>2. failures = {} /\ t \in read
          <6>1. failures = {}
            BY <5>1
          <6> HIDE DEF status
          <6> QED BY <1>1, <2>4, <3>2, <4>3, <6>1
        <5> HIDE DEF status
        <5>3. \A y \in snapshotPositions[v][t] \cup {at} : y <= at
          BY <2>3, <4>2, <4>3
        <5>4. at \in times[t]
          BY <2>7, <5>2, <5>3
        <5>5. errors[t].at = at
          BY <2>3, <2>6, <4>2, <4>3, <5>2
        <5> QED BY <4>1, <5>1, <5>4, <5>5
      <4>4. CASE at <= snapshotScanStatus[v].at
        <5> HIDE DEF status
        <5>1. scanned = snapshotScanStatus[v] /\ found'[v] = found[v]
          BY <2>3, <2>4, <2>5, <4>2, <4>4
        <5>2. /\ readErrors[v][t].at = snapshotScanStatus[v].at
              /\ snapshotScanStatus[v].at \in snapshotPositions[v][t]
          BY <1>3, <3>2, <4>1, <5>1 DEF ScanIsComplete
        <5>3. errors[t].at = snapshotScanStatus[v].at
          BY <2>6, <4>4, <5>2
        <5>4. snapshotScanStatus[v].at \in times[t]
          BY <2>7, <4>2, <4>4, <5>2
        <5> QED BY <4>1, <5>1, <5>3, <5>4
      <4> QED BY <2>3, <4>2, <4>3, <4>4
    <3> QED BY <3>1, <3>2
  <2> QED BY <2>8, <2>9, <2>10 DEF SnapshotInv
<1>5. ASSUME NEW v \in Versions, Snapshot!ScanFails(v) PROVE SnapshotInv'
  <2>1. PICK at \in Snapshot!Max({0, snapshotClock - MaxDelay})..snapshotClock :
          snapshotScanStatus' =
            [snapshotScanStatus EXCEPT ![v] = Snapshot!Put(snapshotScanStatus[v], at, "error")]
    BY <1>5 DEF Snapshot!ScanFails
  <2>2. at \in Snapshot!Times /\ at \in Nat
    BY EmitTimes DEF SnapshotInv
  <2> DEFINE scanned == Snapshot!Put(snapshotScanStatus[v], at, "error")
  <2>3. /\ scanned \in Snapshot!Gauge
        /\ at <= snapshotScanStatus[v].at => scanned = snapshotScanStatus[v]
        /\ at > snapshotScanStatus[v].at => scanned.at = at /\ scanned.status = "error"
        /\ snapshotScanStatus[v].at <= scanned.at
    BY <1>1, <2>2, PutGauge
  <2> HIDE DEF scanned
  <2>4. /\ snapshotScanStatus' = [snapshotScanStatus EXCEPT ![v] = scanned]
        /\ UNCHANGED <<snapshotClock, caughtUp, readErrors, snapshotDataAge, snapshotPositions,
                       found, latestGood, forgets>>
    BY <1>5, <2>1 DEF Snapshot!ScanFails, scanned
  <2>5. Snapshot!TypeOK'
    BY <1>1, <2>3, <2>4 DEF Snapshot!TypeOK
  <2>6. snapshotScanStatus[v].at \in Int /\ scanned.at \in Int /\ at \in Int
    BY <1>1, <1>2, <2>2, <2>3
  <2>7. NothingIsNewer'
    <3> SUFFICES ASSUME NEW u \in Versions, NEW t \in Tokens
                 PROVE  /\ readErrors[u][t].at <= snapshotScanStatus'[u].at
                        /\ \A b \in snapshotPositions[u][t] : b <= snapshotScanStatus'[u].at
      BY <2>4 DEF NothingIsNewer
    <3>1. readErrors[u][t].at \in Int /\ \A b \in snapshotPositions[u][t] : b \in Int
      BY <1>1, <1>2, SnapshotAssumptions DEF Snapshot!Times
    <3> QED BY <1>1, <1>3, <2>3, <2>4, <2>6, <3>1 DEF NothingIsNewer
  <2>8. ScanIsComplete'
    <3> SUFFICES ASSUME NEW u \in Versions, NEW t \in Tokens,
                        t \in found[u], snapshotScanStatus'[u].status # "error"
                 PROVE  /\ readErrors[u][t].at = snapshotScanStatus'[u].at
                        /\ snapshotScanStatus'[u].at \in snapshotPositions[u][t]
      BY <2>4 DEF ScanIsComplete
    <3>1. snapshotScanStatus'[u] = snapshotScanStatus[u]
      BY <1>1, <2>3, <2>4, <2>6
    <3> QED BY <1>3, <3>1 DEF ScanIsComplete
  <2> QED BY <2>5, <2>7, <2>8 DEF SnapshotInv
<1>6. CASE Snapshot!CheckStale
  <2>1. snapshotDataAge' \in Snapshot!Gauge
    BY <1>1, <1>6, PutGauge DEF Snapshot!CheckStale
  <2> QED BY <1>1, <1>3, <1>6, <2>1 DEF Snapshot!CheckStale, SnapshotInv, Snapshot!TypeOK,
             NothingIsNewer, ScanIsComplete
<1>7. CASE Snapshot!ForgetMonitor
  <2>1. Snapshot!NoGauge \in Snapshot!Gauge
    BY DEF Snapshot!NoGauge, Snapshot!Gauge
  <2>2. Snapshot!TypeOK'
    BY <1>1, <1>7, <2>1, SnapshotAssumptions DEF Snapshot!ForgetMonitor, Snapshot!TypeOK
  <2>3. NothingIsNewer' /\ ScanIsComplete'
    BY <1>7 DEF Snapshot!ForgetMonitor, NothingIsNewer, ScanIsComplete, Snapshot!NoGauge,
                Snapshot!Never
  <2> QED BY <2>2, <2>3 DEF SnapshotInv
<1>8. CASE Snapshot!TimePasses
  BY <1>1, <1>3, <1>8, SnapshotAssumptions DEF Snapshot!TimePasses, SnapshotInv,
     Snapshot!TypeOK, Snapshot!Times, NothingIsNewer, ScanIsComplete
<1>9. CASE UNCHANGED Snapshot!vars
  BY <1>9 DEF Snapshot!vars, SnapshotInv, Snapshot!TypeOK, NothingIsNewer, ScanIsComplete
<1> QED
  BY <1>4, <1>5, <1>6, <1>7, <1>8, <1>9 DEF Snapshot!Next

\* What a good or an empty snapshot says of itself is true: it shows every position that
\* the newest scans found, as they read it, however late or out of order the shared reads
\* come in (scanVersion and emitPosition; getSnapshot).
THEOREM GoodIsCompleteAlways == PartsSpec => []GoodIsComplete
<1> DEFINE Inv == part = "snapshot" => SnapshotInv
<1>1. PartsInit => Inv
  BY SnapshotInit DEF PartsInit
<1>2. Inv /\ [PartsNext]_partVars => Inv'
  <2> SUFFICES ASSUME Inv, [PartsNext]_partVars, part' = "snapshot" PROVE SnapshotInv'
    OBVIOUS
  <2>1. part = "snapshot" /\ [Snapshot!Next]_(Snapshot!vars)
    BY DEF PartsNext, partVars, snapshotVars, Snapshot!vars
  <2> QED BY <2>1, SnapshotStep
<1>3. Inv => GoodIsComplete
  <2> SUFFICES ASSUME SnapshotInv, Snapshot!SnapshotStatus \in {"ok", "empty"}
               PROVE  \A v \in Versions, t \in Tokens : t \in found[v] =>
                        /\ readErrors[v][t].at = snapshotScanStatus[v].at
                        /\ snapshotScanStatus[v].at \in snapshotPositions[v][t]
    BY DEF GoodIsComplete, Snapshot!GoodIsComplete
  <2>1. ~Snapshot!ScanFailed
    BY DEF Snapshot!SnapshotStatus
  <2> QED BY <2>1 DEF SnapshotInv, ScanIsComplete, Snapshot!ScanFailed
<1> QED
  BY <1>1, <1>2, <1>3, PTL DEF PartsSpec
---------------------------------------------------------------------------
(* The reader of positions *)

LEMMA ReaderAssumptions ==
  /\ SharedTtl \in Nat /\ OwnerTtl \in Nat /\ MaxHead \in Nat /\ MaxFaults \in Nat
  /\ Reader!NoCall \notin Calls
  BY PartsParameters DEF Reader!ReaderParameters, Reader!NoCall

\* A slot that is kept is of the block it is kept for.
SlotsOfTheirBlock ==
  \A b \in Reader!Blocks : Reader!Fresh(slots[b]) => slots[b].block = b

ReaderInv ==
  /\ Reader!TypeOK
  /\ Reader!SharedReadsGoOn
  /\ SlotsOfTheirBlock
  /\ Reader!PositionOfOneBlock

LEMMA NothingKept ==
  /\ Reader!Nothing \in Reader!Kept /\ ~Reader!Fresh(Reader!Nothing)
  /\ Reader!NoPosition \in Reader!Position /\ ~Reader!Fresh(Reader!NoPosition)
  BY ReaderAssumptions DEF Reader!Nothing, Reader!Kept, Reader!NoPosition, Reader!Position,
    Reader!Blocks, Reader!Fresh

LEMMA IdleCall == Reader!Idle \in Reader!Call /\ Reader!Idle.phase = "idle"
  BY ReaderAssumptions DEF Reader!Idle, Reader!Call, Reader!Phases, Reader!Blocks

LEMMA KeepOfBlock ==
  ASSUME NEW block \in Reader!Blocks, NEW ttl \in Nat
  PROVE  /\ Reader!Keep(block, ttl) \in Reader!Kept
         /\ Reader!Fresh(Reader!Keep(block, ttl)) => ttl # 0 /\ Reader!Keep(block, ttl).block = block
         /\ ttl # 0 => Reader!Keep(block, ttl).block = block
<1>1. CASE ttl = 0
  BY <1>1, NothingKept DEF Reader!Keep
<1>2. CASE ttl # 0
  BY <1>2 DEF Reader!Keep, Reader!Kept
<1> QED
  BY <1>1, <1>2

\* Time only takes from what is kept.
LEMMA OlderIsKept ==
  ASSUME NEW kept \in Reader!Kept
  PROVE  /\ Reader!Older(kept) \in Reader!Kept
         /\ Reader!Fresh(Reader!Older(kept)) =>
              Reader!Fresh(kept) /\ Reader!Older(kept).block = kept.block
<1>1. CASE kept.left > 1
  <2>1. [kept EXCEPT !.left = kept.left - 1] \in Reader!Kept
    BY <1>1 DEF Reader!Kept
  <2> QED BY <1>1, <2>1 DEF Reader!Older, Reader!Kept, Reader!Fresh
<1>2. CASE ~(kept.left > 1)
  BY <1>2, NothingKept DEF Reader!Older
<1> QED
  BY <1>1, <1>2

LEMMA OlderIsPosition ==
  ASSUME NEW kept \in Reader!Position
  PROVE  /\ Reader!OlderPosition(kept) \in Reader!Position
         /\ Reader!Fresh(Reader!OlderPosition(kept)) =>
              /\ Reader!Fresh(kept) /\ Reader!OlderPosition(kept).block = kept.block
              /\ Reader!OlderPosition(kept).owner = kept.owner
<1>1. CASE kept.left > 1
  <2>1. [kept EXCEPT !.left = kept.left - 1] \in Reader!Position
    BY <1>1 DEF Reader!Position
  <2> QED BY <1>1, <2>1 DEF Reader!OlderPosition, Reader!Position, Reader!Fresh
<1>2. CASE ~(kept.left > 1)
  BY <1>2, NothingKept DEF Reader!OlderPosition
<1> QED
  BY <1>1, <1>2

\* A read that has its details has an owner, of its own block where owners are not kept.
OwnersFit ==
  /\ OwnerTtl = 0 => ~Reader!Fresh(owner)
  /\ \A c \in Calls :
       /\ call[c].phase \in {"pool", "slot"} =>
            call[c].owner \in Reader!Blocks /\ (OwnerTtl = 0 => call[c].owner = call[c].block)
       /\ call[c].phase = "details" /\ OwnerTtl = 0 => call[c].owner = Reader!Unknown

LEMMA OwnersInit == Reader!Init => OwnersFit
  BY NothingKept, IdleCall DEF Reader!Init, OwnersFit

LEMMA OwnersStep == Reader!TypeOK /\ OwnersFit /\ [Reader!Next]_(Reader!vars) => OwnersFit'
<1> SUFFICES ASSUME Reader!TypeOK, OwnersFit, [Reader!Next]_(Reader!vars) PROVE OwnersFit'
  OBVIOUS
<1>1. /\ call \in [Calls -> Reader!Call] /\ owner \in Reader!Kept
      /\ \A c \in Calls : /\ call[c] \in Reader!Call /\ call[c].block \in Reader!Blocks
                           /\ call[c].owner \in Reader!Blocks \cup {Reader!Unknown}
  BY DEF Reader!TypeOK, Reader!Call
<1> DEFINE Reading == {"details", "pool", "slot"}
\* Most steps begin no read of a position, and take no owner.
<1>2. ASSUME OwnerTtl = 0 => ~Reader!Fresh(owner'),
             \A d \in Calls : \/ call'[d].phase \notin Reading
                             \/ /\ call'[d].phase = call[d].phase
                                /\ call'[d].owner = call[d].owner
                                /\ call'[d].block = call[d].block
      PROVE  OwnersFit'
  BY <1>2 DEF OwnersFit
<1>3. ASSUME UNCHANGED owner,
             \A d \in Calls : call'[d] = call[d] \/ call'[d].phase \notin Reading
      PROVE  OwnersFit'
  BY <1>2, <1>3 DEF OwnersFit
<1>4. ASSUME NEW c \in Calls, Reader!StartCall(c) PROVE OwnersFit'
  <2>1. PICK wallet \in BOOLEAN, b \in 0..head :
          call' = [call EXCEPT ![c] = [Reader!Idle EXCEPT !.phase = "deploy", !.wallet = wallet,
                    !.requested = wallet /\ version = "v4",
                    !.block = IF wallet /\ version = "v4" THEN b ELSE 0]]
    BY <1>4 DEF Reader!StartCall
  <2>2. call'[c].phase = "deploy" /\ \A d \in Calls : d # c => call'[d] = call[d]
    BY <1>1, <2>1 DEF Reader!Idle
  <2> QED BY <1>3, <1>4, <2>2 DEF Reader!StartCall, Reader!caches
<1>5. CASE Reader!DeploymentAnswers \/ UNCHANGED Reader!vars
  BY <1>3, <1>5 DEF Reader!DeploymentAnswers, Reader!caches, Reader!vars
<1>6. CASE Reader!DeploymentFails
  BY <1>3, <1>6, IdleCall DEF Reader!DeploymentFails, Reader!caches
<1>7. ASSUME NEW c \in Calls, Reader!AskBlock(c) PROVE OwnersFit'
  <2>1. \/ call' = [call EXCEPT ![c].phase = "look"]
        \/ call' = [call EXCEPT ![c] = Reader!Idle]
        \/ call' = [call EXCEPT ![c].phase = "look", ![c].block = latestBlock.block]
        \/ call' = [call EXCEPT ![c].phase = "block"]
    BY <1>7 DEF Reader!AskBlock
  <2>2. \A d \in Calls : call'[d] = call[d] \/ call'[d].phase \notin Reading
    BY <1>1, <2>1, IdleCall DEF Reader!Call
  <2> QED BY <1>3, <1>7, <2>2 DEF Reader!AskBlock, Reader!caches
<1>8. CASE Reader!BlockAnswers
  <2>1. \A d \in Calls : call'[d] = call[d] \/ call'[d].phase \notin Reading
    BY <1>1, <1>8 DEF Reader!BlockAnswers, Reader!Call
  <2> QED BY <1>3, <1>8, <2>1 DEF Reader!BlockAnswers
<1>9. CASE Reader!BlockFails
  BY <1>3, <1>9, IdleCall DEF Reader!BlockFails, Reader!caches
<1>10. ASSUME NEW c \in Calls, Reader!LookForTokens(c) PROVE OwnersFit'
  <2>1. \/ call' = [call EXCEPT ![c].requested = TRUE]
        \/ call' = [call EXCEPT ![c].phase = "followIds"]
        \/ call' = [call EXCEPT ![c].phase = "ids"]
    BY <1>10 DEF Reader!LookForTokens
  <2>2. call[c].phase = "look"
    BY <1>10 DEF Reader!LookForTokens, Reader!Discovers
  <2>3. \A d \in Calls : call'[d] = call[d] \/ call'[d].phase \notin Reading
    BY <1>1, <2>1, <2>2 DEF Reader!Call
  <2> QED BY <1>3, <1>10, <2>3 DEF Reader!LookForTokens, Reader!caches
<1>11. ASSUME NEW c \in Calls, Reader!ReadTokenIds(c) PROVE OwnersFit'
  <2>1. \A d \in Calls : call'[d] = call[d] \/ call'[d].phase \notin Reading
    BY <1>1, <1>11 DEF Reader!ReadTokenIds, Reader!Call
  <2> QED BY <1>3, <1>11, <2>1 DEF Reader!ReadTokenIds
<1>12. ASSUME NEW c \in Calls, Reader!TokenIdsFail(c) PROVE OwnersFit'
  BY <1>3, <1>12, IdleCall DEF Reader!TokenIdsFail, Reader!caches
\* Where owners are not kept, a read that begins has none.
<1>13. ASSUME NEW c \in Calls, Reader!LookForPosition(c) PROVE OwnersFit'
  <2>1. UNCHANGED owner
    BY <1>13 DEF Reader!LookForPosition, Reader!caches
  <2>2. \/ call' = [call EXCEPT ![c] = Reader!Idle]
        \/ call' = [call EXCEPT ![c].phase = "follow"]
        \/ call' = [call EXCEPT ![c].phase = "details",
                    ![c].owner = IF Reader!Fresh(owner) THEN owner.block ELSE Reader!Unknown]
    BY <1>13 DEF Reader!LookForPosition
  <2>3. \A d \in Calls : \/ call'[d] = call[d] \/ call'[d].phase \notin Reading
                         \/ /\ call'[d].phase = "details"
                            /\ OwnerTtl = 0 => call'[d].owner = Reader!Unknown
    BY <1>1, <2>2, IdleCall DEF Reader!Call, OwnersFit
  <2> QED BY <2>1, <2>3 DEF OwnersFit
\* It asks for one, at its own block.
<1>14. ASSUME NEW c \in Calls
       PROVE  /\ Reader!OwnerAt(c) \in Reader!Blocks
              /\ OwnerTtl = 0 /\ call[c].phase = "details" => Reader!OwnerAt(c) = call[c].block
              /\ OwnerTtl = 0 => ~Reader!Fresh(Reader!OwnerKept(c))
  <2>1. Reader!OwnerAt(c) \in Reader!Blocks
    BY <1>1 DEF Reader!OwnerAt
  <2>2. OwnerTtl = 0 /\ call[c].phase = "details" => Reader!OwnerAt(c) = call[c].block
    BY DEF Reader!OwnerAt, OwnersFit
  <2>3. OwnerTtl = 0 => ~Reader!Fresh(Reader!OwnerKept(c))
    BY NothingKept DEF Reader!OwnerKept, Reader!Keep, OwnersFit
  <2> QED BY <2>1, <2>2, <2>3
<1>15. ASSUME NEW c \in Calls, Reader!ReadDetails(c) \/ Reader!ReadDetailsV4(c) PROVE OwnersFit'
  <2>1. PICK phase, taken :
          /\ phase \in {"pool", "slot"} /\ taken = Reader!OwnerAt(c)
          /\ call' = [call EXCEPT ![c].phase = phase, ![c].owner = taken]
    BY <1>15 DEF Reader!ReadDetails, Reader!ReadDetailsV4
  <2>2. call[c].phase = "details" /\ owner' = Reader!OwnerKept(c)
    BY <1>15 DEF Reader!ReadDetails, Reader!ReadDetailsV4
  <2>3. /\ \A d \in Calls : d # c => call'[d] = call[d]
        /\ call'[c].phase = phase /\ call'[c].owner = taken /\ call'[c].block = call[c].block
    BY <1>1, <2>1 DEF Reader!Call
  <2> QED BY <1>14, <2>1, <2>2, <2>3 DEF OwnersFit
<1>16. ASSUME NEW c \in Calls, Reader!ReadPool(c) PROVE OwnersFit'
  <2>1. /\ call[c].phase = "pool" /\ UNCHANGED owner
        /\ call' = [call EXCEPT ![c].phase = "slot"]
    BY <1>16 DEF Reader!ReadPool, Reader!caches
  <2>2. /\ \A d \in Calls : d # c => call'[d] = call[d]
        /\ call'[c].phase = "slot" /\ call'[c].owner = call[c].owner
        /\ call'[c].block = call[c].block
    BY <1>1, <2>1 DEF Reader!Call
  <2> QED BY <2>1, <2>2 DEF OwnersFit
<1>17. ASSUME NEW c \in Calls, Reader!ReadSlot(c) PROVE OwnersFit'
  <2>1. \A d \in Calls : call'[d] = call[d] \/ call'[d].phase \notin Reading
    BY <1>17, IdleCall DEF Reader!ReadSlot
  <2> QED BY <1>3, <1>17, <2>1 DEF Reader!ReadSlot
<1>18. ASSUME NEW c \in Calls, Reader!PositionFails(c) PROVE OwnersFit'
  <2>1. \A d \in Calls : call'[d] = call[d] \/ call'[d].phase \notin Reading
    BY <1>18, IdleCall DEF Reader!PositionFails
  <2>2. owner' \in {owner, Reader!OwnerKept(c)}
    BY <1>18 DEF Reader!PositionFails, Reader!Remember
  <2>3. OwnerTtl = 0 => ~Reader!Fresh(owner')
    BY <1>14, <2>2 DEF OwnersFit
  <2> QED BY <1>2, <2>1, <2>3
<1>19. ASSUME NEW c \in Calls, Reader!Abort(c) PROVE OwnersFit'
  <2>1. /\ UNCHANGED owner /\ call' = [call EXCEPT ![c].aborted = TRUE]
    BY <1>19 DEF Reader!Abort, Reader!caches
  <2>2. \A d \in Calls : /\ call'[d].phase = call[d].phase /\ call'[d].owner = call[d].owner
                         /\ call'[d].block = call[d].block
    BY <1>1, <2>1 DEF Reader!Call
  <2> QED BY <2>1, <2>2 DEF OwnersFit
<1>20. CASE Reader!TimePasses
  <2>1. owner' = Reader!Older(owner) /\ UNCHANGED call
    BY <1>20 DEF Reader!TimePasses
  <2>2. Reader!Fresh(Reader!Older(owner)) => Reader!Fresh(owner)
    BY <1>1, OlderIsKept
  <2> QED BY <2>1, <2>2 DEF OwnersFit
<1> QED
  BY <1>4, <1>5, <1>6, <1>7, <1>8, <1>9, <1>10, <1>11, <1>12, <1>13, <1>15, <1>16, <1>17, <1>18,
     <1>19, <1>20 DEF Reader!Next

LEMMA ReaderInit == Reader!Init => ReaderInv
<1> SUFFICES ASSUME Reader!Init PROVE ReaderInv
  OBVIOUS
<1>1. 0 \in Reader!Blocks /\ 0 \in 0..MaxFaults
  BY ReaderAssumptions DEF Reader!Blocks
<1>2. Reader!TypeOK
  BY <1>1, NothingKept, IdleCall DEF Reader!Init, Reader!TypeOK
<1>3. Reader!SharedReadsGoOn
  BY IdleCall DEF Reader!Init, Reader!SharedReadsGoOn
<1>4. SlotsOfTheirBlock /\ Reader!PositionOfOneBlock
  BY NothingKept DEF Reader!Init, SlotsOfTheirBlock, Reader!PositionOfOneBlock
<1> QED
  BY <1>2, <1>3, <1>4 DEF ReaderInv

\* Every step keeps the invariant.
LEMMA ReaderStep == ReaderInv /\ OwnersFit /\ [Reader!Next]_(Reader!vars) => ReaderInv'
<1> SUFFICES ASSUME ReaderInv, OwnersFit, [Reader!Next]_(Reader!vars) PROVE ReaderInv'
  OBVIOUS
<1>1. Reader!TypeOK /\ Reader!SharedReadsGoOn /\ SlotsOfTheirBlock /\ Reader!PositionOfOneBlock
  BY DEF ReaderInv
<1>2. /\ head \in Reader!Blocks /\ version \in {"v3", "v4"}
      /\ deployment \in {"none", "pending", "known"}
      /\ latestBlock \in Reader!Kept /\ latestBlockRequest \in BOOLEAN
      /\ tokenIds \in Reader!Kept /\ discoveries \in Calls \cup {Reader!NoCall}
      /\ owner \in Reader!Kept /\ slots \in [Reader!Blocks -> Reader!Kept]
      /\ readerPositions \in [Reader!Blocks -> Reader!Position]
      /\ positionReads \in [Reader!Blocks -> Calls \cup {Reader!NoCall}]
      /\ call \in [Calls -> Reader!Call] /\ readerFaults \in 0..MaxFaults
  BY <1>1 DEF Reader!TypeOK
<1>0. call \in [Calls -> Reader!Call]
  BY <1>2
<1>3. \A c \in Calls : /\ call[c] \in Reader!Call /\ call[c].block \in Reader!Blocks
                       /\ call[c].phase \in Reader!Phases
  BY <1>2 DEF Reader!Call
<1>4. Reader!Blocks = 0..MaxHead /\ MaxHead \in Nat
  BY ReaderAssumptions DEF Reader!Blocks
\* What is kept goes on being of its block.
<1>5. UNCHANGED <<slots, readerPositions>> => (SlotsOfTheirBlock /\ Reader!PositionOfOneBlock)'
  BY <1>1 DEF SlotsOfTheirBlock, Reader!PositionOfOneBlock
<1>6. ASSUME NEW c \in Calls, Reader!StartCall(c) PROVE ReaderInv'
  <2>1. PICK wallet \in BOOLEAN, b \in 0..head :
          call' = [call EXCEPT ![c] = [Reader!Idle EXCEPT !.phase = "deploy", !.wallet = wallet,
                    !.requested = wallet /\ version = "v4",
                    !.block = IF wallet /\ version = "v4" THEN b ELSE 0]]
    BY <1>6 DEF Reader!StartCall
  <2> DEFINE next == [Reader!Idle EXCEPT !.phase = "deploy", !.wallet = wallet,
                       !.requested = wallet /\ version = "v4",
                       !.block = IF wallet /\ version = "v4" THEN b ELSE 0]
  <2>2. next \in Reader!Call /\ next.phase = "deploy"
    <3>1. (IF wallet /\ version = "v4" THEN b ELSE 0) \in Reader!Blocks
      BY <1>2, <1>4
    <3> QED BY <3>1, IdleCall DEF Reader!Call, Reader!Phases
  <2>3. call' = [call EXCEPT ![c] = next]
    BY <2>1
  <2> HIDE DEF next
  <2>4. /\ call[c].phase = "idle"
        /\ deployment' = IF deployment = "none" THEN "pending" ELSE deployment
        /\ UNCHANGED <<head, version, latestBlock, tokenIds, owner, slots, readerPositions,
                       latestBlockRequest, discoveries, positionReads, readerFaults>>
    BY <1>6 DEF Reader!StartCall, Reader!world, Reader!caches, Reader!requests
  <2>5. Reader!TypeOK'
    BY <1>2, <2>2, <2>3, <2>4 DEF Reader!TypeOK
  <2>6. Reader!SharedReadsGoOn'
    BY <1>1, <1>2, <2>2, <2>3, <2>4, ReaderAssumptions DEF Reader!SharedReadsGoOn
  <2> QED BY <1>5, <2>4, <2>5, <2>6 DEF ReaderInv
<1>7. CASE Reader!DeploymentAnswers
  <2>1. /\ deployment = "pending" /\ deployment' = "known"
        /\ UNCHANGED <<head, version, latestBlock, tokenIds, owner, slots, readerPositions,
                       latestBlockRequest, discoveries, positionReads, call, readerFaults>>
    BY <1>7 DEF Reader!DeploymentAnswers, Reader!world, Reader!caches, Reader!requests
  <2>2. Reader!TypeOK'
    BY <1>2, <2>1 DEF Reader!TypeOK
  <2>3. Reader!SharedReadsGoOn'
    BY <1>1, <2>1 DEF Reader!SharedReadsGoOn
  <2> QED BY <1>5, <2>1, <2>2, <2>3 DEF ReaderInv
<1>8. CASE Reader!DeploymentFails
  <2>1. /\ deployment' = "none" /\ readerFaults' \in 0..MaxFaults
        /\ call' = [c \in Calls |-> IF call[c].phase = "deploy" THEN Reader!Idle ELSE call[c]]
        /\ UNCHANGED <<head, version, latestBlock, tokenIds, owner, slots, readerPositions,
                       latestBlockRequest, discoveries, positionReads>>
    BY <1>2, <1>8, ReaderAssumptions
       DEF Reader!DeploymentFails, Reader!world, Reader!caches, Reader!requests
  <2>2. Reader!TypeOK'
    BY <1>2, <2>1, IdleCall DEF Reader!TypeOK
  <2>3. Reader!SharedReadsGoOn'
    BY <1>1, <1>2, <2>1, IdleCall, ReaderAssumptions DEF Reader!SharedReadsGoOn
  <2> QED BY <1>5, <2>1, <2>2, <2>3 DEF ReaderInv
<1>9. ASSUME NEW c \in Calls, Reader!AskBlock(c) PROVE ReaderInv'
  <2>1. /\ call[c].phase = "deploy"
        /\ UNCHANGED <<head, version, deployment, latestBlock, tokenIds, owner, slots,
                       readerPositions, discoveries, positionReads, readerFaults>>
    BY <1>9 DEF Reader!AskBlock, Reader!world, Reader!caches
  <2> DEFINE asks == ~call[c].requested /\ ~call[c].aborted /\ ~Reader!Fresh(latestBlock)
  <2>2. PICK next \in Reader!Call :
          /\ call' = [call EXCEPT ![c] = next]
          /\ next.phase \in {"idle", "look"} \/ (next.phase = "block" /\ asks)
    <3>1. CASE call[c].requested
      <4> DEFINE next == [call[c] EXCEPT !.phase = "look"]
      <4>1. next \in Reader!Call /\ next.phase = "look"
        BY <1>3 DEF Reader!Call, Reader!Phases
      <4>2. call' = [call EXCEPT ![c] = next]
        BY <1>0, <1>9, <3>1 DEF Reader!AskBlock
      <4> QED BY <4>1, <4>2
    <3>2. CASE ~call[c].requested /\ call[c].aborted
      <4>1. call' = [call EXCEPT ![c] = Reader!Idle]
        BY <1>9, <3>2 DEF Reader!AskBlock
      <4> QED BY <4>1, IdleCall
    <3>3. CASE ~call[c].requested /\ ~call[c].aborted /\ Reader!Fresh(latestBlock)
      <4> DEFINE next == [call[c] EXCEPT !.phase = "look", !.block = latestBlock.block]
      <4>1. next \in Reader!Call /\ next.phase = "look"
        BY <1>2, <1>3 DEF Reader!Call, Reader!Phases, Reader!Kept
      <4>2. call' = [call EXCEPT ![c] = next]
        BY <1>0, <1>9, <3>3 DEF Reader!AskBlock
      <4> QED BY <4>1, <4>2
    <3>4. CASE asks
      <4> DEFINE next == [call[c] EXCEPT !.phase = "block"]
      <4>1. next \in Reader!Call /\ next.phase = "block"
        BY <1>3 DEF Reader!Call, Reader!Phases
      <4>2. call' = [call EXCEPT ![c] = next]
        BY <1>0, <1>9, <3>4 DEF Reader!AskBlock
      <4> QED BY <3>4, <4>1, <4>2
    <3> QED BY <3>1, <3>2, <3>3, <3>4
  <2>3. /\ latestBlockRequest' \in BOOLEAN /\ (latestBlockRequest => latestBlockRequest')
        /\ asks => latestBlockRequest'
    <3>1. CASE asks
      <4>1. latestBlockRequest' = TRUE
        BY <1>9, <3>1 DEF Reader!AskBlock
      <4> QED BY <4>1
    <3>2. CASE ~asks
      <4>1. UNCHANGED latestBlockRequest
        BY <1>9, <3>2, ZenonT(60) DEF Reader!AskBlock
      <4> QED BY <1>2, <3>2, <4>1
    <3> QED BY <3>1, <3>2
  <2> HIDE DEF asks
  <2>4. Reader!TypeOK'
    BY <1>2, <2>1, <2>2, <2>3 DEF Reader!TypeOK
  <2>5. Reader!SharedReadsGoOn'
    BY <1>1, <1>2, <2>1, <2>2, <2>3, ReaderAssumptions DEF Reader!SharedReadsGoOn
  <2> QED BY <1>5, <2>1, <2>4, <2>5 DEF ReaderInv
<1>10. CASE Reader!BlockAnswers
  <2>1. /\ latestBlockRequest' = FALSE /\ latestBlock' = Reader!Keep(head, SharedTtl)
        /\ call' = [c \in Calls |-> IF call[c].phase = "block"
                      THEN [call[c] EXCEPT !.phase = "look", !.block = head] ELSE call[c]]
        /\ UNCHANGED <<head, version, deployment, tokenIds, owner, slots, readerPositions,
                       discoveries, positionReads, readerFaults>>
    BY <1>10 DEF Reader!BlockAnswers, Reader!world
  <2>2. \A c \in Calls : /\ call'[c] \in Reader!Call
                         /\ call[c].phase = "block" => call'[c].phase = "look"
                         /\ call[c].phase # "block" => call'[c] = call[c]
    BY <1>2, <1>3, <2>1 DEF Reader!Call, Reader!Phases
  <2>3. Reader!TypeOK'
    <3>1. latestBlock' \in Reader!Kept
      BY <1>2, <2>1, KeepOfBlock, ReaderAssumptions
    <3>2. call' \in [Calls -> Reader!Call]
      BY <2>1, <2>2
    <3> QED BY <1>2, <2>1, <3>1, <3>2 DEF Reader!TypeOK
  <2>4. Reader!SharedReadsGoOn'
    <3>1. \A d \in Calls :
            call'[d].phase \notin {"idle", "look"} => call'[d] = call[d]
      BY <2>2
    <3>2. \A d \in Calls :
            call[d].phase \in {"details", "pool", "slot"} => call'[d] = call[d]
      BY <1>3, <2>1, <2>2
    <3>3. \A b \in Reader!Blocks : positionReads'[b] # Reader!NoCall =>
            /\ call'[positionReads'[b]].block = b
            /\ call'[positionReads'[b]].phase \in {"details", "pool", "slot"}
      <4>1. \A b \in Reader!Blocks : positionReads[b] \in Calls \cup {Reader!NoCall}
        BY <1>2
      <4> QED BY <1>1, <2>1, <3>2, <4>1 DEF Reader!SharedReadsGoOn
    <3>4. \A d \in Calls :
            /\ call'[d].phase = "deploy" => deployment' # "none"
            /\ call'[d].phase = "block" => latestBlockRequest'
            /\ call'[d].phase = "followIds" => discoveries' # Reader!NoCall
            /\ call'[d].phase = "follow" => positionReads'[call'[d].block] # Reader!NoCall
      <4> SUFFICES ASSUME NEW d \in Calls, call'[d].phase \notin {"idle", "look"}
                   PROVE  /\ call'[d].phase = "deploy" => deployment # "none"
                          /\ call'[d].phase = "block" => latestBlockRequest'
                          /\ call'[d].phase = "followIds" => discoveries' # Reader!NoCall
                          /\ call'[d].phase = "follow" =>
                               positionReads[call'[d].block] # Reader!NoCall
        BY <2>1
      <4>1. call'[d] = call[d]
        BY <3>1
      <4>2. call[d].phase # "idle" /\ call[d].phase # "look"
        BY <4>1
      <4>3. call[d].phase # "block"
        BY <2>2, <4>2
      <4>4. /\ call[d].phase = "deploy" => deployment # "none"
            /\ call[d].phase = "followIds" => discoveries # Reader!NoCall
            /\ call[d].phase = "follow" => positionReads[call[d].block] # Reader!NoCall
        BY <1>1 DEF Reader!SharedReadsGoOn
      <4>5. discoveries' = discoveries
        BY <2>1
      <4> QED BY <4>1, <4>3, <4>4, <4>5
    <3>5. discoveries' # Reader!NoCall => call'[discoveries'].phase = "ids"
      <4>1. discoveries # Reader!NoCall => discoveries \in Calls /\ call[discoveries].phase = "ids"
        BY <1>1, <1>2 DEF Reader!SharedReadsGoOn
      <4>2. discoveries # Reader!NoCall => call'[discoveries] = call[discoveries]
        BY <2>2, <4>1
      <4>3. discoveries' = discoveries
        BY <2>1
      <4> QED BY <4>1, <4>2, <4>3
    <3> QED BY <3>3, <3>4, <3>5 DEF Reader!SharedReadsGoOn
  <2> QED BY <1>5, <2>1, <2>3, <2>4 DEF ReaderInv
<1>11. CASE Reader!BlockFails
  <2>1. /\ latestBlockRequest' = FALSE /\ readerFaults' \in 0..MaxFaults
        /\ call' = [c \in Calls |-> IF call[c].phase = "block" THEN Reader!Idle ELSE call[c]]
        /\ UNCHANGED <<head, version, deployment, latestBlock, tokenIds, owner, slots,
                       readerPositions, discoveries, positionReads>>
    BY <1>2, <1>11, ReaderAssumptions DEF Reader!BlockFails, Reader!world, Reader!caches
  <2>2. Reader!TypeOK'
    BY <1>2, <2>1, IdleCall DEF Reader!TypeOK
  <2>3. Reader!SharedReadsGoOn'
    BY <1>1, <1>2, <2>1, IdleCall, ReaderAssumptions DEF Reader!SharedReadsGoOn
  <2> QED BY <1>5, <2>1, <2>2, <2>3 DEF ReaderInv
<1>12. ASSUME NEW c \in Calls, Reader!LookForTokens(c) PROVE ReaderInv'
  <2>1. /\ call[c].phase = "look"
        /\ UNCHANGED <<head, version, deployment, latestBlock, tokenIds, owner, slots,
                       readerPositions, latestBlockRequest, positionReads, readerFaults>>
    BY <1>12 DEF Reader!LookForTokens, Reader!Discovers, Reader!world, Reader!caches
  <2>2. PICK next \in Reader!Call :
          /\ call' = [call EXCEPT ![c] = next]
          /\ \/ next.phase = "look" /\ discoveries' = discoveries
             \/ next.phase = "followIds" /\ discoveries # Reader!NoCall
                /\ discoveries' = discoveries
             \/ next.phase = "ids" /\ discoveries' = c
    <3>1. CASE Reader!Fresh(tokenIds)
      <4> DEFINE next == [call[c] EXCEPT !.requested = TRUE]
      <4>1. next \in Reader!Call /\ next.phase = "look"
        BY <1>3, <2>1 DEF Reader!Call
      <4>2. call' = [call EXCEPT ![c] = next] /\ discoveries' = discoveries
        BY <1>2, <1>12, <3>1 DEF Reader!LookForTokens
      <4> QED BY <4>1, <4>2
    <3>2. CASE ~Reader!Fresh(tokenIds) /\ discoveries # Reader!NoCall
      <4> DEFINE next == [call[c] EXCEPT !.phase = "followIds"]
      <4>1. next \in Reader!Call /\ next.phase = "followIds"
        BY <1>3 DEF Reader!Call, Reader!Phases
      <4>2. call' = [call EXCEPT ![c] = next] /\ discoveries' = discoveries
        BY <1>2, <1>12, <3>2 DEF Reader!LookForTokens
      <4> QED BY <3>2, <4>1, <4>2
    <3>3. CASE ~Reader!Fresh(tokenIds) /\ discoveries = Reader!NoCall
      <4> DEFINE next == [call[c] EXCEPT !.phase = "ids"]
      <4>1. next \in Reader!Call /\ next.phase = "ids"
        BY <1>3 DEF Reader!Call, Reader!Phases
      <4>2. call' = [call EXCEPT ![c] = next] /\ discoveries' = c
        BY <1>2, <1>12, <3>3 DEF Reader!LookForTokens
      <4> QED BY <4>1, <4>2
    <3> QED BY <3>1, <3>2, <3>3
  <2>3. Reader!TypeOK'
    BY <1>2, <2>1, <2>2 DEF Reader!TypeOK
  <2>4. Reader!SharedReadsGoOn'
    BY <1>1, <1>2, <2>1, <2>2, ReaderAssumptions DEF Reader!SharedReadsGoOn
  <2> QED BY <1>5, <2>1, <2>3, <2>4 DEF ReaderInv
<1>13. ASSUME NEW c \in Calls, Reader!ReadTokenIds(c) PROVE ReaderInv'
  <2>1. /\ call[c].phase = "ids" /\ discoveries' = Reader!NoCall
        /\ tokenIds' = Reader!Keep(call[c].block, OwnerTtl)
        /\ call' = [d \in Calls |-> IF d = c \/ call[d].phase = "followIds"
                      THEN [call[d] EXCEPT !.phase = "look", !.block = call[c].block,
                                           !.requested = TRUE] ELSE call[d]]
        /\ UNCHANGED <<head, version, deployment, latestBlock, owner, slots, readerPositions,
                       latestBlockRequest, positionReads, readerFaults>>
    BY <1>13 DEF Reader!ReadTokenIds, Reader!world
  <2>2. \A d \in Calls :
          /\ call'[d] \in Reader!Call
          /\ d = c \/ call[d].phase = "followIds" => call'[d].phase = "look"
          /\ ~(d = c \/ call[d].phase = "followIds") => call'[d] = call[d]
    BY <1>2, <1>3, <2>1 DEF Reader!Call, Reader!Phases
  <2>3. Reader!TypeOK'
    <3>1. tokenIds' \in Reader!Kept
      BY <1>3, <2>1, KeepOfBlock, ReaderAssumptions
    <3>2. call' \in [Calls -> Reader!Call]
      BY <2>1, <2>2
    <3> QED BY <1>2, <2>1, <3>1, <3>2 DEF Reader!TypeOK
  <2>4. Reader!SharedReadsGoOn'
    <3>1. \A d \in Calls :
            call'[d].phase \notin {"idle", "look"} => call'[d] = call[d]
      BY <2>2
    <3>2. \A d \in Calls :
            call[d].phase \in {"details", "pool", "slot"} => call'[d] = call[d]
      BY <1>3, <2>1, <2>2
    <3>3. \A b \in Reader!Blocks : positionReads'[b] # Reader!NoCall =>
            /\ call'[positionReads'[b]].block = b
            /\ call'[positionReads'[b]].phase \in {"details", "pool", "slot"}
      <4>1. \A b \in Reader!Blocks : positionReads[b] \in Calls \cup {Reader!NoCall}
        BY <1>2
      <4> QED BY <1>1, <2>1, <3>2, <4>1 DEF Reader!SharedReadsGoOn
    <3>4. \A d \in Calls :
            /\ call'[d].phase = "deploy" => deployment' # "none"
            /\ call'[d].phase = "block" => latestBlockRequest'
            /\ call'[d].phase = "followIds" => discoveries' # Reader!NoCall
            /\ call'[d].phase = "follow" => positionReads'[call'[d].block] # Reader!NoCall
      <4> SUFFICES ASSUME NEW d \in Calls, call'[d].phase \notin {"idle", "look"}
                   PROVE  /\ call'[d].phase = "deploy" => deployment # "none"
                          /\ call'[d].phase = "block" => latestBlockRequest'
                          /\ call'[d].phase = "followIds" => discoveries' # Reader!NoCall
                          /\ call'[d].phase = "follow" =>
                               positionReads[call'[d].block] # Reader!NoCall
        BY <2>1
      <4>1. call'[d] = call[d]
        BY <3>1
      <4>2. call[d].phase # "idle" /\ call[d].phase # "look"
        BY <4>1
      <4> QED BY <1>1, <2>1, <2>2, <4>1, <4>2 DEF Reader!SharedReadsGoOn
    <3>5. discoveries' # Reader!NoCall => call'[discoveries'].phase = "ids"
      BY <1>1, <1>2, <2>1, <2>2 DEF Reader!SharedReadsGoOn
    <3> QED BY <3>3, <3>4, <3>5 DEF Reader!SharedReadsGoOn
  <2> QED BY <1>5, <2>1, <2>3, <2>4 DEF ReaderInv
<1>14. ASSUME NEW c \in Calls, Reader!TokenIdsFail(c) PROVE ReaderInv'
  <2>1. /\ call[c].phase = "ids" /\ discoveries' = Reader!NoCall
        /\ readerFaults' \in 0..MaxFaults
        /\ call' = [d \in Calls |-> IF d = c \/ call[d].phase = "followIds"
                                    THEN Reader!Idle ELSE call[d]]
        /\ UNCHANGED <<head, version, deployment, latestBlock, tokenIds, owner, slots,
                       readerPositions, latestBlockRequest, positionReads>>
    BY <1>2, <1>14, ReaderAssumptions DEF Reader!TokenIdsFail, Reader!world, Reader!caches
  <2>2. Reader!TypeOK'
    BY <1>2, <2>1, IdleCall DEF Reader!TypeOK
  <2>3. Reader!SharedReadsGoOn'
    BY <1>1, <1>2, <2>1, IdleCall, ReaderAssumptions DEF Reader!SharedReadsGoOn
  <2> QED BY <1>5, <2>1, <2>2, <2>3 DEF ReaderInv
<1>15. ASSUME NEW c \in Calls, Reader!LookForPosition(c) PROVE ReaderInv'
  <2>1. /\ call[c].phase = "look"
        /\ UNCHANGED <<head, version, deployment, latestBlock, tokenIds, owner, slots,
                       readerPositions, latestBlockRequest, discoveries, readerFaults>>
    BY <1>15 DEF Reader!LookForPosition, Reader!world, Reader!caches
  <2>2. PICK next \in Reader!Call :
          /\ call' = [call EXCEPT ![c] = next]
          /\ \/ next.phase = "idle" /\ positionReads' = positionReads
             \/ /\ next.phase = "follow" /\ next.block = call[c].block
                /\ positionReads[call[c].block] # Reader!NoCall
                /\ positionReads' = positionReads
             \/ /\ next.phase = "details" /\ next.block = call[c].block
                /\ positionReads' = [positionReads EXCEPT ![call[c].block] = c]
    <3>1. CASE Reader!Fresh(readerPositions[call[c].block])
      BY <1>15, <3>1, IdleCall DEF Reader!LookForPosition
    <3>2. CASE ~Reader!Fresh(readerPositions[call[c].block])
               /\ positionReads[call[c].block] # Reader!NoCall
      <4> DEFINE next == [call[c] EXCEPT !.phase = "follow"]
      <4>1. next \in Reader!Call /\ next.phase = "follow" /\ next.block = call[c].block
        BY <1>3 DEF Reader!Call, Reader!Phases
      <4>2. call' = [call EXCEPT ![c] = next] /\ positionReads' = positionReads
        BY <1>2, <1>15, <3>2 DEF Reader!LookForPosition
      <4> QED BY <3>2, <4>1, <4>2
    <3>3. CASE ~Reader!Fresh(readerPositions[call[c].block])
               /\ positionReads[call[c].block] = Reader!NoCall
      <4> DEFINE of == IF Reader!Fresh(owner) THEN owner.block ELSE Reader!Unknown
                 next == [call[c] EXCEPT !.phase = "details", !.owner = of]
      <4>0. of \in Reader!Blocks \cup {Reader!Unknown}
        BY <1>2 DEF Reader!Kept
      <4>1. next \in Reader!Call /\ next.phase = "details" /\ next.block = call[c].block
        BY <1>3, <4>0 DEF Reader!Call, Reader!Phases
      <4>2. /\ call' = [call EXCEPT ![c] = next]
            /\ positionReads' = [positionReads EXCEPT ![call[c].block] = c]
        BY <1>2, <1>15, <3>3 DEF Reader!LookForPosition
      <4> QED BY <4>1, <4>2
    <3> QED BY <3>1, <3>2, <3>3
  <2>3. Reader!TypeOK'
    BY <1>2, <1>3, <2>1, <2>2 DEF Reader!TypeOK
  <2>4. Reader!SharedReadsGoOn'
    BY <1>1, <1>2, <1>3, <2>1, <2>2, ReaderAssumptions DEF Reader!SharedReadsGoOn
  <2> QED BY <1>5, <2>1, <2>3, <2>4 DEF ReaderInv
\* A read that goes from one of its requests to the next.
<1>16. ASSUME NEW c \in Calls, NEW phase \in {"pool", "slot"},
              NEW of \in Reader!Blocks \cup {Reader!Unknown},
              call[c].phase \in {"details", "pool"},
              call' = [call EXCEPT ![c].phase = phase, ![c].owner = of],
              owner' \in Reader!Kept,
              UNCHANGED <<head, version, deployment, latestBlock, tokenIds, slots,
                          readerPositions, latestBlockRequest, discoveries, positionReads,
                          readerFaults>>
       PROVE  ReaderInv'
  <2> DEFINE next == [call[c] EXCEPT !.phase = phase, !.owner = of]
  <2>1. next \in Reader!Call /\ next.phase = phase /\ next.block = call[c].block
    BY <1>3 DEF Reader!Call, Reader!Phases
  <2>2. call' = [call EXCEPT ![c] = next]
    BY <1>2, <1>16
  <2> HIDE DEF next
  <2>3. Reader!TypeOK'
    BY <1>2, <1>16, <2>1, <2>2 DEF Reader!TypeOK
  <2>4. Reader!SharedReadsGoOn'
    BY <1>1, <1>2, <1>3, <1>16, <2>1, <2>2, ReaderAssumptions DEF Reader!SharedReadsGoOn
  <2> QED BY <1>5, <1>16, <2>3, <2>4 DEF ReaderInv
<1>17. ASSUME NEW c \in Calls
       PROVE  Reader!OwnerKept(c) \in Reader!Kept /\ Reader!OwnerAt(c) \in Reader!Blocks
  <2>1. call[c].owner \in Reader!Blocks \cup {Reader!Unknown}
    BY <1>3 DEF Reader!Call
  <2> QED BY <1>2, <1>3, <2>1, KeepOfBlock, ReaderAssumptions DEF Reader!OwnerKept, Reader!OwnerAt
<1>18. ASSUME NEW c \in Calls, Reader!ReadDetails(c) PROVE ReaderInv'
  <2>1. PICK of \in Reader!Blocks : of = Reader!OwnerAt(c)
    BY <1>17
  <2>2. call' = [call EXCEPT ![c].phase = "pool", ![c].owner = of]
    BY <1>18, <2>1 DEF Reader!ReadDetails
  <2> QED BY <1>16, <1>17, <1>18, <2>2 DEF Reader!ReadDetails, Reader!world, Reader!requests
<1>19. ASSUME NEW c \in Calls, Reader!ReadDetailsV4(c) PROVE ReaderInv'
  <2>1. PICK of \in Reader!Blocks : of = Reader!OwnerAt(c)
    BY <1>17
  <2>2. call' = [call EXCEPT ![c].phase = "slot", ![c].owner = of]
    BY <1>19, <2>1 DEF Reader!ReadDetailsV4
  <2> QED BY <1>16, <1>17, <1>19, <2>2 DEF Reader!ReadDetailsV4, Reader!world, Reader!requests
<1>20. ASSUME NEW c \in Calls, Reader!ReadPool(c) PROVE ReaderInv'
  <2>1. PICK of \in Reader!Blocks \cup {Reader!Unknown} : of = call[c].owner
    BY <1>3 DEF Reader!Call
  <2>2. call' = [call EXCEPT ![c].phase = "slot", ![c].owner = of]
    BY <1>3, <1>20, <2>1 DEF Reader!ReadPool, Reader!Call
  <2> QED BY <1>2, <1>16, <1>20, <2>2 DEF Reader!ReadPool, Reader!world, Reader!caches, Reader!requests
\* The slot at a block: one that is kept, or one that is read there.
<1>21. ASSUME NEW b \in Reader!Blocks
       PROVE  /\ Reader!SlotAt(b) \in Reader!Kept
              /\ Reader!Fresh(Reader!SlotAt(b)) \/ SharedTtl # 0 => Reader!SlotAt(b).block = b
  <2>1. CASE Reader!Fresh(slots[b])
    BY <1>1, <1>2, <2>1 DEF Reader!SlotAt, SlotsOfTheirBlock
  <2>2. CASE ~Reader!Fresh(slots[b])
    <3>1. Reader!SlotAt(b) = Reader!Keep(b, SharedTtl)
      BY <2>2 DEF Reader!SlotAt
    <3> QED BY <3>1, KeepOfBlock, ReaderAssumptions
  <2> QED BY <2>1, <2>2
\* A read that ends, with those who joined it.
<1>22. ASSUME NEW c \in Calls,
              call[c].phase \in {"details", "pool", "slot"},
              call' = [d \in Calls |-> IF d \in Reader!WithLeader(c) THEN Reader!Idle ELSE call[d]],
              positionReads' = [positionReads EXCEPT ![call[c].block] = Reader!NoCall],
              UNCHANGED <<deployment, latestBlockRequest, discoveries>>
       PROVE  /\ call' \in [Calls -> Reader!Call]
              /\ positionReads' \in [Reader!Blocks -> Calls \cup {Reader!NoCall}]
              /\ Reader!SharedReadsGoOn'
  <2>1. \A d \in Calls : d \in Reader!WithLeader(c) <=>
          d = c \/ (call[d].phase = "follow" /\ call[d].block = call[c].block)
    BY DEF Reader!WithLeader
  <2>2. call' \in [Calls -> Reader!Call]
    BY <1>2, <1>22, IdleCall
  <2>3. positionReads' \in [Reader!Blocks -> Calls \cup {Reader!NoCall}]
    BY <1>2, <1>22
  <2>4. Reader!SharedReadsGoOn'
    BY <1>1, <1>2, <1>3, <1>22, <2>1, IdleCall, ReaderAssumptions DEF Reader!SharedReadsGoOn
  <2> QED BY <2>2, <2>3, <2>4
<1>23. ASSUME NEW c \in Calls, Reader!ReadSlot(c) PROVE ReaderInv'
  <2> DEFINE b == call[c].block
             slot == Reader!SlotAt(b)
             kept == IF SharedTtl = 0 THEN Reader!NoPosition
                     ELSE [block |-> slot.block, owner |-> call[c].owner, left |-> SharedTtl]
  <2>1. /\ call[c].phase = "slot"
        /\ slots' = [slots EXCEPT ![b] = slot]
        /\ readerPositions' = [readerPositions EXCEPT ![b] = kept]
        /\ positionReads' = [positionReads EXCEPT ![call[c].block] = Reader!NoCall]
        /\ call' = [d \in Calls |-> IF d \in Reader!WithLeader(c) THEN Reader!Idle ELSE call[d]]
        /\ UNCHANGED <<head, version, deployment, latestBlock, tokenIds, owner,
                       latestBlockRequest, discoveries, readerFaults>>
    BY <1>23 DEF Reader!ReadSlot, Reader!world
  <2>2. b \in Reader!Blocks
    BY <1>3
  <2>3. slot \in Reader!Kept /\ (Reader!Fresh(slot) \/ SharedTtl # 0 => slot.block = b)
    BY <1>21, <2>2
  <2> HIDE DEF b, slot
  <2>4. /\ kept \in Reader!Position
        /\ Reader!Fresh(kept) => kept.block = b /\ (OwnerTtl = 0 => kept.owner = b)
    <3>1. slot.block \in Reader!Blocks
      BY <2>3 DEF Reader!Kept
    <3>2. call[c].owner \in Reader!Blocks /\ (OwnerTtl = 0 => call[c].owner = b)
      BY <2>1 DEF OwnersFit, b
    <3>3. CASE SharedTtl = 0
      BY <3>3, NothingKept
    <3>4. CASE SharedTtl # 0
      BY <2>3, <3>1, <3>2, <3>4, ReaderAssumptions DEF Reader!Position
    <3> QED BY <3>3, <3>4
  <2> HIDE DEF kept
  <2>5. /\ call' \in [Calls -> Reader!Call]
        /\ positionReads' \in [Reader!Blocks -> Calls \cup {Reader!NoCall}]
        /\ Reader!SharedReadsGoOn'
    BY <1>22, <2>1
  <2>6. Reader!TypeOK'
    BY <1>2, <2>1, <2>2, <2>3, <2>4, <2>5 DEF Reader!TypeOK
  <2>7. SlotsOfTheirBlock'
    BY <1>1, <1>2, <2>1, <2>2, <2>3 DEF SlotsOfTheirBlock, Reader!Fresh
  <2>8. Reader!PositionOfOneBlock'
    BY <1>1, <1>2, <2>1, <2>2, <2>4 DEF Reader!PositionOfOneBlock, Reader!Fresh
  <2> QED BY <2>5, <2>6, <2>7, <2>8 DEF ReaderInv
<1>24. ASSUME NEW c \in Calls, Reader!PositionFails(c) PROVE ReaderInv'
  <2> DEFINE b == call[c].block
  <2>1. /\ call[c].phase \in {"details", "pool", "slot"}
        /\ positionReads' = [positionReads EXCEPT ![call[c].block] = Reader!NoCall]
        /\ call' = [d \in Calls |-> IF d \in Reader!WithLeader(c) THEN Reader!Idle ELSE call[d]]
        /\ owner' \in {owner, Reader!OwnerKept(c)}
        /\ slots' \in {slots, [slots EXCEPT ![b] = Reader!SlotAt(b)]}
        /\ UNCHANGED <<head, version, deployment, latestBlock, tokenIds, readerPositions,
                       latestBlockRequest, discoveries>>
    BY <1>24 DEF Reader!PositionFails, Reader!Remember, Reader!world
  <2>2. readerFaults' \in 0..MaxFaults
    BY <1>2, <1>24, ReaderAssumptions DEF Reader!PositionFails
  <2>3. /\ call' \in [Calls -> Reader!Call]
        /\ positionReads' \in [Reader!Blocks -> Calls \cup {Reader!NoCall}]
        /\ Reader!SharedReadsGoOn'
    BY <1>22, <2>1
  <2>4. /\ b \in Reader!Blocks /\ Reader!OwnerKept(c) \in Reader!Kept
        /\ Reader!SlotAt(b) \in Reader!Kept
        /\ Reader!Fresh(Reader!SlotAt(b)) => Reader!SlotAt(b).block = b
    BY <1>3, <1>17, <1>21
  <2> HIDE DEF b
  <2>5. Reader!TypeOK'
    BY <1>2, <2>1, <2>2, <2>3, <2>4 DEF Reader!TypeOK
  <2>6. SlotsOfTheirBlock'
    BY <1>1, <1>2, <2>1, <2>4 DEF SlotsOfTheirBlock, Reader!Fresh
  <2>7. Reader!PositionOfOneBlock'
    BY <1>1, <2>1 DEF Reader!PositionOfOneBlock
  <2> QED BY <2>3, <2>5, <2>6, <2>7 DEF ReaderInv
<1>25. ASSUME NEW c \in Calls, Reader!Abort(c) PROVE ReaderInv'
  <2> DEFINE next == [call[c] EXCEPT !.aborted = TRUE]
  <2>1. next \in Reader!Call /\ next.phase = call[c].phase /\ next.block = call[c].block
    BY <1>3 DEF Reader!Call
  <2>2. call' = [call EXCEPT ![c] = next]
    BY <1>2, <1>25 DEF Reader!Abort
  <2> HIDE DEF next
  <2>3. UNCHANGED <<head, version, deployment, latestBlock, tokenIds, owner, slots,
                    readerPositions, latestBlockRequest, discoveries, positionReads,
                    readerFaults>>
    BY <1>25 DEF Reader!Abort, Reader!world, Reader!caches, Reader!requests
  <2>4. Reader!TypeOK'
    BY <1>2, <2>1, <2>2, <2>3 DEF Reader!TypeOK
  <2>5. Reader!SharedReadsGoOn'
    BY <1>1, <1>2, <1>3, <2>1, <2>2, <2>3, ReaderAssumptions DEF Reader!SharedReadsGoOn
  <2> QED BY <1>5, <2>3, <2>4, <2>5 DEF ReaderInv
<1>26. CASE Reader!TimePasses
  <2>1. /\ head' \in Reader!Blocks
        /\ latestBlock' = Reader!Older(latestBlock) /\ tokenIds' = Reader!Older(tokenIds)
        /\ owner' = Reader!Older(owner)
        /\ slots' = [b \in Reader!Blocks |-> Reader!Older(slots[b])]
        /\ readerPositions' = [b \in Reader!Blocks |-> Reader!OlderPosition(readerPositions[b])]
        /\ UNCHANGED <<version, deployment, latestBlockRequest, discoveries, positionReads, call,
                       readerFaults>>
    BY <1>26 DEF Reader!TimePasses, Reader!requests
  <2>2. Reader!TypeOK'
    BY <1>2, <2>1, OlderIsKept, OlderIsPosition DEF Reader!TypeOK
  <2>3. Reader!SharedReadsGoOn'
    BY <1>1, <2>1 DEF Reader!SharedReadsGoOn
  <2>4. SlotsOfTheirBlock'
    BY <1>1, <1>2, <2>1, OlderIsKept DEF SlotsOfTheirBlock, Reader!Fresh
  <2>5. Reader!PositionOfOneBlock'
    BY <1>1, <1>2, <2>1, OlderIsPosition DEF Reader!PositionOfOneBlock, Reader!Fresh
  <2> QED BY <2>2, <2>3, <2>4, <2>5 DEF ReaderInv
<1>27. CASE UNCHANGED Reader!vars
  BY <1>1, <1>27 DEF Reader!vars, ReaderInv, Reader!TypeOK, Reader!SharedReadsGoOn,
     SlotsOfTheirBlock, Reader!PositionOfOneBlock
<1> QED
  BY <1>6, <1>7, <1>8, <1>9, <1>10, <1>11, <1>12, <1>13, <1>14, <1>15, <1>18, <1>19, <1>20,
     <1>23, <1>24, <1>25, <1>26, <1>27 DEF Reader!Next

\* What the reader keeps is true of every part of the composition.
LEMMA ReaderInvAlways == PartsSpec => [](part = "reader" => ReaderInv /\ OwnersFit)
<1> DEFINE Inv == part = "reader" => ReaderInv /\ OwnersFit
<1>1. PartsInit => Inv
  BY ReaderInit, OwnersInit DEF PartsInit
<1>2. Inv /\ [PartsNext]_partVars => Inv'
  <2> SUFFICES ASSUME Inv, [PartsNext]_partVars, part' = "reader"
               PROVE  ReaderInv' /\ OwnersFit'
    OBVIOUS
  <2>1. part = "reader" /\ [Reader!Next]_(Reader!vars)
    BY DEF PartsNext, partVars, readerVars, Reader!vars
  <2>2. ReaderInv /\ OwnersFit /\ Reader!TypeOK
    BY <2>1 DEF ReaderInv
  <2> QED BY <2>1, <2>2, ReaderStep, OwnersStep
<1> QED
  BY <1>1, <1>2, PTL DEF PartsSpec

\* The price in the position of a block is of that block, also when slots of other blocks
\* are kept or read beside it (readPoolSlot0, readPosition); and so is its owner where owners
\* are not kept longer than a read takes (readOwner).
THEOREM PositionOfOneBlockAlways == PartsSpec => []PositionOfOneBlock
<1>1. (part = "reader" => ReaderInv) => PositionOfOneBlock
  BY DEF ReaderInv, PositionOfOneBlock
<1> QED
  BY <1>1, ReaderInvAlways, PTL

\* Whoever joined a read waits for one that goes on: no answer, failure or abort leaves
\* a caller behind, or a read shared that is over (discover, readPosition, readLatestBlock).
THEOREM SharedReadsGoOnAlways == PartsSpec => []SharedReadsGoOn
<1>1. (part = "reader" => ReaderInv) => SharedReadsGoOn
  BY DEF ReaderInv, SharedReadsGoOn
<1> QED
  BY <1>1, ReaderInvAlways, PTL
---------------------------------------------------------------------------
(* The Aave account *)

LEMMA AccountAssumptions ==
  /\ Market \in Chains /\ MaximumAttempts \in Nat \ {0}
  /\ MaxReadClock \in Nat
  BY PartsParameters DEF Account!AccountParameters

\* The types of what the counts come from.
CountTypes ==
  /\ accountClock \in Nat /\ legacy \in BOOLEAN
  /\ accountScan \in [Account!Runs -> Account!Scan]
  /\ rpc \in [Chains -> Account!Gauge]

\* No two runs have one timestamp, nor one that is still to come.
TimesAreApart ==
  \A r \in Account!Runs : accountScan[r].phase # "idle" =>
    /\ accountScan[r].at \in 1..accountClock
    /\ \A s \in Account!Runs :
         s # r /\ accountScan[s].phase # "idle" => accountScan[s].at # accountScan[r].at

\* What a run that goes on has emitted is what it has read, and it has counted nothing yet.
EmitsWhatItRead ==
  \A r \in Account!Runs : accountScan[r].phase # "idle" =>
    /\ accountScan[r].left \subseteq Account!MonitorChains
    /\ count.at # accountScan[r].at
    /\ \A c \in Chains : rpc[c].at = accountScan[r].at =>
         /\ accountScan[r].phase = "emit"
         /\ rpc[c].status = "error" =>
              c \in Account!MonitorChains /\ accountScan[r].work[c].outcome = "error"

AccountInv == CountTypes /\ TimesAreApart /\ EmitsWhatItRead /\ Account!CountsAreHonest

LEMMA IdleScan == Account!Idle \in Account!Scan /\ Account!Idle.phase = "idle"
<1>1. Account!NoWork \in Account!Work
  BY DEF Account!NoWork, Account!Work, Account!Outcomes
<1> QED
  BY <1>1 DEF Account!Idle, Account!Scan

LEMMA NoGaugeYet ==
  Account!NoGauge \in Account!Gauge /\ Account!NoGauge.at = 0 /\ Account!NoGauge.status = "none"
  BY DEF Account!NoGauge, Account!Gauge

\* The loop over the endpoints leaves a chain to be read, or failed.
LEMMA GoOnWorks ==
  ASSUME NEW work \in Account!Work, NEW c, NEW i \in Nat
  PROVE  Account!GoOn(work, c, i) \in Account!Work
<1> DEFINE S == Account!Skipping(c, i)
<1>1. S \subseteq Nat
  BY DEF Account!Skipping
<1>2. CASE S = {}
  BY <1>2 DEF Account!GoOn, Account!Work, Account!Outcomes
<1>3. CASE S # {}
  <2>1. \E n \in S : \A m \in S : n <= m
    BY <1>1, <1>3, LeastOfNats
  <2>2. Account!Min(S) \in S
    BY <2>1 DEF Account!Min
  <2>3. Account!Min(S) \in Nat
    BY <1>1, <2>2
  <2> HIDE DEF S
  <2>4. [work EXCEPT !.endpoint = Account!Min(S), !.attempt = 1, !.outcome = "reading"]
          \in Account!Work
    BY <2>3 DEF Account!Work, Account!Outcomes
  <2> QED BY <1>3, <2>4 DEF Account!GoOn, S
<1> QED
  BY <1>2, <1>3

\* A gauge stays or is of the time and status that are put.
LEMMA PutAccountGauge ==
  ASSUME NEW old, NEW at, NEW status, NEW value
  PROVE  \/ Account!Put(old, at, status, value) = old
         \/ /\ Account!Put(old, at, status, value).at = at
            /\ Account!Put(old, at, status, value).status = status
  BY DEF Account!Put

LEMMA AccountInit == Account!Init => AccountInv
<1> SUFFICES ASSUME Account!Init PROVE AccountInv
  OBVIOUS
<1>1. CountTypes
  BY IdleScan, NoGaugeYet DEF Account!Init, CountTypes
<1>2. TimesAreApart /\ EmitsWhatItRead
  BY IdleScan DEF Account!Init, TimesAreApart, EmitsWhatItRead
<1>3. Account!CountsAreHonest
  BY NoGaugeYet DEF Account!Init, Account!CountsAreHonest
<1> QED
  BY <1>1, <1>2, <1>3 DEF AccountInv

\* A step in which nothing is emitted or counted, and each run goes on as it was, goes from
\* reading to emitting, or ends, keeps the invariant.
LEMMA NothingEmitted ==
  ASSUME AccountInv,
         accountClock' \in Nat, accountClock <= accountClock',
         UNCHANGED <<legacy, rpc, count>>,
         accountScan' \in [Account!Runs -> Account!Scan],
         \A r \in Account!Runs : accountScan'[r].phase # "idle" =>
           /\ accountScan[r].phase # "idle" /\ accountScan'[r].at = accountScan[r].at
           /\ accountScan'[r].left = accountScan[r].left
           /\ accountScan[r].phase = "emit" =>
                /\ accountScan'[r].phase = "emit"
                /\ accountScan'[r].work = accountScan[r].work
  PROVE  AccountInv'
<1>1. CountTypes' /\ Account!CountsAreHonest'
  BY DEF AccountInv, CountTypes, Account!CountsAreHonest
<1>2. TimesAreApart'
  BY DEF AccountInv, CountTypes, TimesAreApart
<1>3. EmitsWhatItRead'
  <2> SUFFICES ASSUME NEW r \in Account!Runs, accountScan'[r].phase # "idle"
               PROVE  /\ accountScan'[r].left \subseteq Account!MonitorChains
                      /\ count.at # accountScan'[r].at
                      /\ \A c \in Chains : rpc[c].at = accountScan'[r].at =>
                           /\ accountScan'[r].phase = "emit"
                           /\ rpc[c].status = "error" => /\ c \in Account!MonitorChains
                                                         /\ accountScan'[r].work[c].outcome = "error"
    BY DEF EmitsWhatItRead, Account!MonitorChains
  <2>1. /\ accountScan[r].phase # "idle" /\ accountScan'[r].at = accountScan[r].at
        /\ accountScan'[r].left = accountScan[r].left
    OBVIOUS
  <2>2. \A c \in Chains : rpc[c].at = accountScan[r].at => accountScan[r].phase = "emit"
    BY <2>1 DEF AccountInv, EmitsWhatItRead
  <2> QED BY <2>1, <2>2 DEF AccountInv, EmitsWhatItRead
<1> QED
  BY <1>1, <1>2, <1>3 DEF AccountInv

\* Every step keeps the invariant.
LEMMA AccountStep == AccountInv /\ [Account!Next]_(Account!vars) => AccountInv'
<1> SUFFICES ASSUME AccountInv, [Account!Next]_(Account!vars) PROVE AccountInv'
  OBVIOUS
<1>1. /\ accountClock \in Nat /\ accountScan \in [Account!Runs -> Account!Scan]
      /\ rpc \in [Chains -> Account!Gauge]
  BY DEF AccountInv, CountTypes
<1>2. legacy \in BOOLEAN
  BY DEF AccountInv, CountTypes
<1>3. \A r \in Account!Runs :
        /\ accountScan[r].phase \in {"idle", "read", "emit"} /\ accountScan[r].at \in Nat
        /\ accountScan[r].work \in [Chains -> Account!Work]
  BY <1>1 DEF Account!Scan
<1>4. Account!MonitorChains \subseteq Chains
  BY AccountAssumptions DEF Account!MonitorChains
<1>5. ASSUME NEW r \in Account!Runs, Account!StartScan(r) PROVE AccountInv'
  <2>1. /\ accountClock' = accountClock + 1 /\ legacy' = legacy
        /\ accountScan[r].phase = "idle"
        /\ rpc' = [c \in Chains |-> Account!NoGauge] /\ count' = Account!NoGauge
    BY <1>5 DEF Account!StartScan, Account!EmptyStore
  <2> DEFINE work == [c \in Chains |-> IF c \in Account!MonitorChains
                       THEN Account!GoOn(Account!NoWork, c, 1) ELSE Account!NoWork]
             next == [phase |-> "read", aborted |-> FALSE, at |-> accountClock + 1,
                      left |-> Account!MonitorChains, work |-> work]
  <2>2. work \in [Chains -> Account!Work]
    <3>1. Account!NoWork \in Account!Work
      BY DEF Account!NoWork, Account!Work, Account!Outcomes
    <3>2. \A c \in Chains : Account!GoOn(Account!NoWork, c, 1) \in Account!Work
      BY <3>1, GoOnWorks
    <3> QED BY <3>1, <3>2
  <2> HIDE DEF work
  <2>3. /\ next \in Account!Scan /\ next.phase = "read" /\ next.at = accountClock + 1
        /\ next.left = Account!MonitorChains
    BY <1>1, <1>4, <2>2 DEF Account!Scan
  <2>4. accountScan' = [accountScan EXCEPT ![r] = next] \/ accountScan' = accountScan
    BY <1>5 DEF Account!StartScan, work
  <2> HIDE DEF next
  <2>5. CountTypes'
    BY <1>1, <1>2, <2>1, <2>3, <2>4, NoGaugeYet DEF CountTypes
  <2>6. TimesAreApart'
    BY <1>1, <1>3, <2>1, <2>3, <2>4 DEF AccountInv, TimesAreApart
  <2>7. EmitsWhatItRead'
    <3>1. Account!MonitorChains' = Account!MonitorChains
      BY <2>1 DEF Account!MonitorChains
    <3>2. \A s \in Account!Runs : accountScan'[s].phase # "idle" =>
            accountScan'[s].at # 0 /\ accountScan'[s].left \subseteq Account!MonitorChains
      BY <1>1, <1>3, <2>3, <2>4 DEF AccountInv, TimesAreApart, EmitsWhatItRead
    <3>3. count'.at = 0 /\ \A c \in Chains : rpc'[c].at = 0
      BY <2>1, NoGaugeYet
    <3> QED BY <3>1, <3>2, <3>3 DEF EmitsWhatItRead
  <2>8. Account!CountsAreHonest'
    BY <2>1, NoGaugeYet DEF Account!CountsAreHonest
  <2> QED BY <2>5, <2>6, <2>7, <2>8 DEF AccountInv
<1>6. ASSUME NEW r \in Account!Runs, NEW c \in Chains, Account!ReadPosition(r, c) PROVE AccountInv'
  <2>1. /\ accountScan[r].phase = "read"
        /\ UNCHANGED <<accountClock, legacy, rpc, count>>
    BY <1>6 DEF Account!ReadPosition, Account!Reading, Account!store
  <2>2. PICK outcome \in {"position", "nothing"} :
          accountScan' = [accountScan EXCEPT ![r].work[c].outcome = outcome]
    BY <1>6 DEF Account!ReadPosition
  <2> DEFINE next == [accountScan[r] EXCEPT !.work[c].outcome = outcome]
  <2>3. accountScan' = [accountScan EXCEPT ![r] = next]
    BY <1>1, <2>2
  <2>4. /\ next \in Account!Scan /\ next.phase = accountScan[r].phase
        /\ next.at = accountScan[r].at /\ next.left = accountScan[r].left
    <3>1. [accountScan[r].work EXCEPT ![c].outcome = outcome] \in [Chains -> Account!Work]
      BY <1>3 DEF Account!Work, Account!Outcomes
    <3> QED BY <1>1, <3>1 DEF Account!Scan
  <2> HIDE DEF next
  <2> QED BY <1>1, <1>3, <2>1, <2>3, <2>4, NothingEmitted
<1>7. ASSUME NEW r \in Account!Runs, NEW c \in Chains, Account!ReadFails(r, c) PROVE AccountInv'
  <2>1. /\ accountScan[r].phase = "read"
        /\ UNCHANGED <<accountClock, legacy, rpc, count>>
    BY <1>7 DEF Account!ReadFails, Account!Reading, Account!store
  <2> DEFINE work == accountScan[r].work[c]
  <2>2. work \in Account!Work
    BY <1>3
  <2>3. PICK done \in Account!Work : accountScan' = [accountScan EXCEPT ![r].work[c] = done]
    <3>1. CASE work.attempt < MaximumAttempts
      <4> DEFINE done == [work EXCEPT !.attempt = work.attempt + 1]
      <4>1. done \in Account!Work
        BY <2>2 DEF Account!Work
      <4>2. accountScan' = [accountScan EXCEPT ![r].work[c] = done]
        BY <1>1, <1>7, <3>1 DEF Account!ReadFails
      <4> QED BY <4>1, <4>2
    <3>2. CASE ~(work.attempt < MaximumAttempts)
      <4> DEFINE done == Account!GoOn(work, c, work.endpoint + 1)
      <4>1. done \in Account!Work
        <5>1. work.endpoint + 1 \in Nat
          BY <2>2 DEF Account!Work
        <5> HIDE DEF work
        <5> QED BY <2>2, <5>1, GoOnWorks
      <4>2. accountScan' = [accountScan EXCEPT ![r].work[c] = done]
        BY <1>7, <3>2 DEF Account!ReadFails
      <4> QED BY <4>1, <4>2
    <3> QED BY <3>1, <3>2
  <2> DEFINE next == [accountScan[r] EXCEPT !.work[c] = done]
  <2>4. accountScan' = [accountScan EXCEPT ![r] = next]
    BY <1>1, <2>3
  <2>5. /\ next \in Account!Scan /\ next.phase = accountScan[r].phase
        /\ next.at = accountScan[r].at /\ next.left = accountScan[r].left
    <3>1. [accountScan[r].work EXCEPT ![c] = done] \in [Chains -> Account!Work]
      BY <1>3
    <3> QED BY <1>1, <3>1 DEF Account!Scan
  <2> HIDE DEF next
  <2> QED BY <1>1, <1>3, <2>1, <2>4, <2>5, NothingEmitted
<1>8. ASSUME NEW r \in Account!Runs, Account!AbortedRunEnds(r) PROVE AccountInv'
  <2>1. /\ accountScan' = [accountScan EXCEPT ![r] = Account!Idle]
        /\ UNCHANGED <<accountClock, legacy, rpc, count>>
    BY <1>8 DEF Account!AbortedRunEnds, Account!store
  <2> QED BY <1>1, <2>1, IdleScan, NothingEmitted
<1>9. ASSUME NEW r \in Account!Runs, Account!ChainsAreIn(r) PROVE AccountInv'
  <2>1. /\ accountScan[r].phase = "read"
        /\ UNCHANGED <<accountClock, legacy, rpc, count>>
    BY <1>9 DEF Account!ChainsAreIn, Account!store
  <2> DEFINE next == [accountScan[r] EXCEPT !.phase = "emit"]
  <2>2. accountScan' = [accountScan EXCEPT ![r] = next]
    BY <1>1, <1>9 DEF Account!ChainsAreIn
  <2>3. /\ next \in Account!Scan /\ next.phase = "emit"
        /\ next.at = accountScan[r].at /\ next.left = accountScan[r].left
    BY <1>1 DEF Account!Scan
  <2> HIDE DEF next
  <2> QED BY <1>1, <1>3, <2>1, <2>2, <2>3, NothingEmitted
<1>10. ASSUME NEW r \in Account!Runs, NEW c \in Chains, Account!EmitChain(r, c) PROVE AccountInv'
  <2> DEFINE at == accountScan[r].at
             how == IF accountScan[r].work[c].outcome = "error" THEN "error" ELSE "ok"
             gauge == Account!Put(rpc[c], at, how, 0)
             next == [accountScan[r] EXCEPT !.left = accountScan[r].left \ {c}]
  <2>1. /\ accountScan[r].phase = "emit" /\ c \in accountScan[r].left
        /\ rpc' = [rpc EXCEPT ![c] = gauge]
        /\ UNCHANGED <<accountClock, legacy, count>>
    BY <1>10 DEF Account!EmitChain
  <2>2. accountScan' = [accountScan EXCEPT ![r] = next]
    BY <1>1, <1>10 DEF Account!EmitChain
  <2>3. /\ next \in Account!Scan /\ next.phase = "emit" /\ next.at = accountScan[r].at
        /\ next.left \subseteq accountScan[r].left /\ next.work = accountScan[r].work
    BY <1>1, <2>1 DEF Account!Scan
  <2>4. gauge \in Account!Gauge /\ (gauge = rpc[c] \/ (gauge.at = at /\ gauge.status = how))
    <3>1. how \in {"ok", "error"} /\ at \in Nat /\ 0 \in Nat /\ rpc[c] \in Account!Gauge
      BY <1>1, <1>3
    <3> HIDE DEF how, at
    <3>2. gauge \in Account!Gauge
      BY <3>1 DEF Account!Put, Account!Gauge
    <3> QED BY <3>2, PutAccountGauge
  <2> HIDE DEF next, gauge
  <2>5. CountTypes'
    BY <1>1, <1>2, <2>1, <2>2, <2>3, <2>4 DEF CountTypes
  <2>6. \A s \in Account!Runs :
          /\ accountScan'[s].phase = accountScan[s].phase
          /\ accountScan'[s].at = accountScan[s].at
          /\ accountScan'[s].left \subseteq accountScan[s].left
          /\ accountScan'[s].work = accountScan[s].work
    BY <1>1, <2>1, <2>2, <2>3
  <2>7. TimesAreApart'
    BY <2>1, <2>6 DEF AccountInv, TimesAreApart
  <2>8. EmitsWhatItRead'
    <3> SUFFICES ASSUME NEW s \in Account!Runs, accountScan[s].phase # "idle"
                 PROVE  /\ accountScan[s].left \subseteq Account!MonitorChains
                        /\ count.at # accountScan[s].at
                        /\ \A d \in Chains : rpc'[d].at = accountScan[s].at =>
                             /\ accountScan[s].phase = "emit"
                             /\ rpc'[d].status = "error" =>
                                  /\ d \in Account!MonitorChains
                                  /\ accountScan[s].work[d].outcome = "error"
      BY <2>1, <2>6 DEF EmitsWhatItRead, Account!MonitorChains
    <3>1. /\ accountScan[s].left \subseteq Account!MonitorChains
          /\ count.at # accountScan[s].at
          /\ \A d \in Chains : rpc[d].at = accountScan[s].at =>
               /\ accountScan[s].phase = "emit"
               /\ rpc[d].status = "error" =>
                    /\ d \in Account!MonitorChains
                    /\ accountScan[s].work[d].outcome = "error"
      BY DEF AccountInv, EmitsWhatItRead
    <3> SUFFICES ASSUME NEW d \in Chains, rpc'[d].at = accountScan[s].at
                 PROVE  /\ accountScan[s].phase = "emit"
                        /\ rpc'[d].status = "error" =>
                             /\ d \in Account!MonitorChains
                             /\ accountScan[s].work[d].outcome = "error"
      BY <3>1
    <3>2. CASE d # c \/ gauge = rpc[c]
      BY <1>1, <2>1, <3>1, <3>2
    <3>3. CASE d = c /\ gauge.at = at /\ gauge.status = how
      <4>1. rpc'[d] = gauge
        BY <1>1, <2>1, <3>3
      <4>2. s = r
        BY <2>1, <3>3, <4>1 DEF AccountInv, TimesAreApart
      <4>3. c \in Account!MonitorChains
        BY <2>1, <3>1, <4>2
      <4> QED BY <2>1, <3>3, <4>1, <4>2, <4>3
    <3> QED BY <2>4, <3>2, <3>3
  <2>9. Account!CountsAreHonest'
    <3> SUFFICES ASSUME NEW d \in Chains, rpc'[d].status = "error", rpc'[d].at = count.at
                 PROVE  count.status = "error"
      BY <2>1 DEF Account!CountsAreHonest
    <3>1. count.at # at
      BY <2>1 DEF AccountInv, EmitsWhatItRead
    <3> HIDE DEF at, how
    <3>2. rpc'[d] = rpc[d]
      BY <1>1, <2>1, <2>4, <3>1
    <3> QED BY <3>2 DEF AccountInv, Account!CountsAreHonest
  <2> QED BY <2>5, <2>7, <2>8, <2>9 DEF AccountInv
<1>11. ASSUME NEW r \in Account!Runs, Account!EmitCounts(r) PROVE AccountInv'
  <2> DEFINE at == accountScan[r].at
             how == IF Account!ScanFailed(accountScan[r]) THEN "error" ELSE "ok"
             number == Account!Cardinality(Account!Found(accountScan[r]))
             gauge == Account!Put(count, at, how, number)
  <2>1. /\ accountScan[r].phase = "emit"
        /\ count' = gauge /\ accountScan' = [accountScan EXCEPT ![r] = Account!Idle]
        /\ UNCHANGED <<accountClock, legacy, rpc>>
    <3>1. count' = gauge
      BY <1>11 DEF Account!EmitCounts
    <3> HIDE DEF gauge
    <3> QED BY <1>11, <3>1 DEF Account!EmitCounts
  <2>2. gauge = count \/ (gauge.at = at /\ gauge.status = how)
    <3> HIDE DEF how, at, number
    <3> QED BY PutAccountGauge
  <2> HIDE DEF gauge
  <2>3. CountTypes'
    BY <1>1, <1>2, <2>1, <2>2, IdleScan DEF CountTypes
  <2>4. TimesAreApart'
    BY <1>1, <2>1, IdleScan DEF AccountInv, TimesAreApart
  <2>5. EmitsWhatItRead'
    <3>1. \A s \in Account!Runs : accountScan'[s].phase # "idle" =>
            /\ s # r /\ accountScan'[s] = accountScan[s]
            /\ accountScan[s].at # at
      BY <1>1, <2>1, IdleScan DEF AccountInv, TimesAreApart
    <3>2. count'.at = count.at \/ count'.at = at
      BY <2>1, <2>2
    <3> HIDE DEF at
    <3> QED BY <2>1, <3>1, <3>2 DEF AccountInv, EmitsWhatItRead, Account!MonitorChains
  <2>6. Account!CountsAreHonest'
    <3>1. CASE gauge = count
      BY <2>1, <3>1 DEF AccountInv, Account!CountsAreHonest
    <3>2. CASE gauge.at = at /\ gauge.status = how
      <4> SUFFICES ASSUME NEW c \in Chains, rpc[c].status = "error", rpc[c].at = at
                   PROVE  how = "error"
        BY <2>1, <3>2 DEF Account!CountsAreHonest
      <4>1. c \in Account!MonitorChains /\ accountScan[r].work[c].outcome = "error"
        BY <2>1 DEF AccountInv, EmitsWhatItRead
      <4> QED BY <4>1 DEF Account!ScanFailed
    <3> QED BY <2>2, <3>1, <3>2
  <2> QED BY <2>3, <2>4, <2>5, <2>6 DEF AccountInv
<1>12. CASE Account!CheckStale
  <2>1. UNCHANGED <<accountClock, legacy, accountScan, rpc, count>>
    BY <1>12 DEF Account!CheckStale
  <2> QED BY <1>1, <2>1, NothingEmitted
<1>13. CASE Account!Reconcile
  <2>1. /\ \/ accountScan' = accountScan
           \/ accountScan' = [r \in Account!Runs |-> IF accountScan[r].phase = "idle"
                THEN accountScan[r] ELSE [accountScan[r] EXCEPT !.aborted = TRUE]]
        /\ UNCHANGED <<accountClock, legacy, rpc, count>>
    BY <1>13 DEF Account!Reconcile, Account!store
  <2>2. CASE accountScan' = accountScan
    BY <1>1, <2>1, <2>2, NothingEmitted
  <2>3. CASE accountScan' = [r \in Account!Runs |-> IF accountScan[r].phase = "idle"
               THEN accountScan[r] ELSE [accountScan[r] EXCEPT !.aborted = TRUE]]
    <3>1. \A r \in Account!Runs :
            /\ accountScan'[r] \in Account!Scan /\ accountScan'[r].phase = accountScan[r].phase
            /\ accountScan'[r].at = accountScan[r].at
            /\ accountScan'[r].left = accountScan[r].left
            /\ accountScan'[r].work = accountScan[r].work
      BY <1>1, <2>3 DEF Account!Scan
    <3>2. accountScan' \in [Account!Runs -> Account!Scan]
      BY <2>3, <3>1
    <3>3. UNCHANGED <<accountClock, legacy, rpc, count>>
      BY <2>1
    <3> QED BY <1>1, <3>1, <3>2, <3>3, NothingEmitted
  <2> QED BY <2>1, <2>2, <2>3
<1>14. CASE Account!Restart
  <2>1. /\ accountScan' = [r \in Account!Runs |-> Account!Idle]
        /\ rpc' = [c \in Chains |-> Account!NoGauge] /\ count' = Account!NoGauge
        /\ UNCHANGED <<accountClock, legacy>>
    BY <1>14 DEF Account!Restart, Account!EmptyStore
  <2> QED BY <1>1, <1>2, <2>1, IdleScan, NoGaugeYet
          DEF AccountInv, CountTypes, TimesAreApart, EmitsWhatItRead, Account!CountsAreHonest
<1>15. CASE Account!AccountChanges
  <2>1. /\ accountClock' = accountClock + 1
        /\ UNCHANGED <<legacy, accountScan, rpc, count>>
    BY <1>15 DEF Account!AccountChanges, Account!store
  <2> QED BY <1>1, <2>1, NothingEmitted
<1>16. CASE Account!TimePasses
  <2>1. /\ accountClock' = accountClock + 1
        /\ UNCHANGED <<legacy, accountScan, rpc, count>>
    BY <1>16 DEF Account!TimePasses, Account!store
  <2> QED BY <1>1, <2>1, NothingEmitted
<1>17. CASE UNCHANGED Account!vars
  <2>1. UNCHANGED <<accountClock, legacy, accountScan, rpc, count>>
    BY <1>17 DEF Account!vars, Account!store
  <2> QED BY <1>1, <2>1, NothingEmitted
<1> QED
  BY <1>5, <1>6, <1>7, <1>8, <1>9, <1>10, <1>11, <1>12, <1>13, <1>14, <1>15, <1>16, <1>17
     DEF Account!Next

\* A failed read never passes for an empty account: while one chain of a scan is reported
\* as failed, the count of that scan is, whatever run emits beside it (emitChain, scan).
THEOREM CountsAreHonestAlways == PartsSpec => []CountsAreHonest
<1> DEFINE Inv == part = "account" => AccountInv
<1>1. PartsInit => Inv
  BY AccountInit DEF PartsInit
<1>2. Inv /\ [PartsNext]_partVars => Inv'
  <2> SUFFICES ASSUME Inv, [PartsNext]_partVars, part' = "account" PROVE AccountInv'
    OBVIOUS
  <2>1. part = "account" /\ [Account!Next]_(Account!vars)
    BY DEF PartsNext, partVars, accountVars, Account!vars, Account!store, Account!persisted
  <2> QED BY <2>1, AccountStep
<1>3. Inv => CountsAreHonest
  BY DEF AccountInv, CountsAreHonest
<1> QED
  BY <1>1, <1>2, <1>3, PTL DEF PartsSpec
---------------------------------------------------------------------------
(* The coordinator of a wallet's positions *)

LEMMA WalletAssumptions ==
  /\ WalletIntervalOf \in [WalletMonitors -> Nat \ {0}] /\ ClosedRefresh \in Nat
  /\ MaxReadClock \in Nat /\ MaxFaults \in Nat /\ MaxReconciles \in Nat
  BY PartsParameters DEF Wallet!CoordinatorParameters

WalletTypes ==
  /\ walletClock \in 0..MaxReadClock /\ walletReconciles \in 0..MaxReconciles
  /\ walletEnabled \subseteq WalletMonitors
  /\ walletShared \in [read : Wallet!ReadIds \cup {Wallet!NoRead}, expiresAt : Nat]
  /\ walletRead \in [Wallet!ReadIds -> Wallet!Read]
  /\ walletScan \in [Wallet!Scans -> Wallet!Scan]
  /\ \A s \in Wallet!Scans : walletScan[s].epoch <= walletReconciles

\* The read that the next scans join was not aborted, and began within the shortest interval
\* of when it stops being joined.
SharedCanBeJoined ==
  walletShared.read # Wallet!NoRead =>
    /\ walletEnabled # {}
    /\ ~walletRead[walletShared.read].aborted /\ walletRead[walletShared.read].phase # "aborted"
    /\ walletShared.expiresAt <= walletClock + Wallet!ResourceInterval
    /\ walletRead[walletShared.read].phase = "resolved" =>
         walletRead[walletShared.read].observedAt
           >= walletShared.expiresAt - Wallet!ResourceInterval

\* A read was started by one scan, which governs it.
OneStarter ==
  \A s, u \in Wallet!Scans :
    walletScan[s].read # Wallet!NoRead /\ walletScan[s].read = walletScan[u].read
      /\ walletScan[s].starts /\ walletScan[u].starts => s = u

StarterGoverns(s) ==
  Wallet!Waits(s) /\ walletScan[s].starts /\ ~walletScan[s].aborted =>
    ~Wallet!IsAborted(walletScan[s].read)

CurrentIsServed(s) ==
  Wallet!Current(s) =>
    /\ walletEnabled # {} /\ walletScan[s].at <= walletClock
    /\ ~Wallet!IsAborted(walletScan[s].read)
    /\ walletRead[walletScan[s].read].phase = "resolved" =>
         walletRead[walletScan[s].read].observedAt > walletScan[s].at - Wallet!ResourceInterval

ScanInv(s) == StarterGoverns(s) /\ CurrentIsServed(s)

WalletInv ==
  /\ WalletTypes /\ SharedCanBeJoined /\ OneStarter
  /\ \A s \in Wallet!Scans : ScanInv(s)

\* The shortest interval is one of the intervals.
LEMMA ShortestInterval ==
  ASSUME NEW S, S \subseteq WalletMonitors, S # {}
  PROVE  Wallet!Min({WalletIntervalOf[m] : m \in S}) \in Nat \ {0}
<1> DEFINE I == {WalletIntervalOf[m] : m \in S}
<1>1. I \subseteq Nat \ {0} /\ I # {}
  BY WalletAssumptions
<1> HIDE DEF I
<1>2. I \subseteq Nat
  BY <1>1
<1>3. \E n \in I : \A m \in I : n <= m
  BY <1>1, <1>2, LeastOfNats
<1>4. Wallet!Min(I) \in I
  BY <1>3 DEF Wallet!Min
<1> QED
  BY <1>1, <1>4 DEF I

LEMMA IntervalIsPositive ==
  ASSUME WalletTypes, walletEnabled # {}
  PROVE  Wallet!ResourceInterval \in Nat \ {0}
  BY ShortestInterval DEF WalletTypes, Wallet!ResourceInterval

LEMMA FreeRead ==
  /\ Wallet!Free \in Wallet!Read /\ ~Wallet!Free.aborted /\ Wallet!Free.phase = "free"
  /\ \A how \in {"discover", "rejected", "aborted"} :
       /\ [Wallet!Free EXCEPT !.phase = how] \in Wallet!Read
       /\ ~[Wallet!Free EXCEPT !.phase = how].aborted
       /\ [Wallet!Free EXCEPT !.phase = how].phase = how
<1>1. Wallet!Free \in Wallet!Read /\ ~Wallet!Free.aborted /\ Wallet!Free.phase = "free"
  BY WalletAssumptions DEF Wallet!Free, Wallet!Read
<1> QED
  BY <1>1 DEF Wallet!Read

LEMMA WalletInit == Wallet!Init => WalletInv
<1> SUFFICES ASSUME Wallet!Init PROVE WalletInv
  OBVIOUS
<1>1. /\ Wallet!NoScan \in Wallet!Scan /\ Wallet!NoScan.read = Wallet!NoRead
      /\ Wallet!NoScan.epoch = 0
  BY WalletAssumptions DEF Wallet!NoScan, Wallet!Scan
<1>2. /\ Wallet!NotShared \in [read : Wallet!ReadIds \cup {Wallet!NoRead}, expiresAt : Nat]
      /\ Wallet!NotShared.read = Wallet!NoRead
  BY DEF Wallet!NotShared
<1>3. WalletTypes
  BY <1>1, <1>2, FreeRead, WalletAssumptions DEF Wallet!Init, WalletTypes
<1>4. SharedCanBeJoined
  BY <1>2 DEF Wallet!Init, SharedCanBeJoined
<1>5. \A s \in Wallet!Scans : walletScan[s].read = Wallet!NoRead
  BY <1>1 DEF Wallet!Init
<1>6. OneStarter
  BY <1>5 DEF OneStarter
<1>7. \A s \in Wallet!Scans : ScanInv(s)
  BY <1>5 DEF ScanInv, StarterGoverns, CurrentIsServed, Wallet!Current, Wallet!Waits
<1> QED
  BY <1>3, <1>4, <1>6, <1>7 DEF WalletInv

\* A step of one read under way.
LEMMA ReadGoesOn ==
  ASSUME WalletInv, NEW r \in Wallet!ReadIds, NEW next \in Wallet!Read,
         walletRead[r].phase \in {"discover", "tokens"},
         walletRead' = [walletRead EXCEPT ![r] = next],
         next.aborted \/ next.phase = "aborted" => walletRead[r].aborted,
         next.phase = "resolved" => next.observedAt = walletClock,
         walletShared' \in {walletShared, Wallet!NotShared},
         UNCHANGED <<walletClock, walletEnabled, walletScan, walletReconciles>>
  PROVE  WalletInv'
<1>1. /\ walletClock \in Nat /\ walletRead \in [Wallet!ReadIds -> Wallet!Read]
      /\ walletScan \in [Wallet!Scans -> Wallet!Scan]
      /\ walletShared \in [read : Wallet!ReadIds \cup {Wallet!NoRead}, expiresAt : Nat]
  BY DEF WalletInv, WalletTypes
<1>2. /\ Wallet!NotShared \in [read : Wallet!ReadIds \cup {Wallet!NoRead}, expiresAt : Nat]
      /\ Wallet!NotShared.read = Wallet!NoRead
  BY DEF Wallet!NotShared
<1>3. WalletTypes'
  BY <1>1, <1>2 DEF WalletInv, WalletTypes
<1>4. Wallet!ResourceInterval' = Wallet!ResourceInterval
  BY DEF Wallet!ResourceInterval
<1>5. OneStarter'
  BY DEF WalletInv, OneStarter
<1>6. SharedCanBeJoined'
  <2> SUFFICES ASSUME walletShared' = walletShared, walletShared.read # Wallet!NoRead
               PROVE  SharedCanBeJoined'
    BY <1>2 DEF SharedCanBeJoined
  <2>1. walletShared.read \in Wallet!ReadIds
    BY <1>1
  <2>2. /\ walletEnabled # {} /\ ~walletRead[walletShared.read].aborted
        /\ walletRead[walletShared.read].phase # "aborted"
        /\ walletShared.expiresAt <= walletClock + Wallet!ResourceInterval
        /\ walletRead[walletShared.read].phase = "resolved" =>
             walletRead[walletShared.read].observedAt
               >= walletShared.expiresAt - Wallet!ResourceInterval
    BY DEF WalletInv, SharedCanBeJoined
  <2>3. CASE walletShared.read # r
    BY <1>1, <1>4, <2>1, <2>2, <2>3 DEF SharedCanBeJoined
  <2>4. CASE walletShared.read = r
    <3>1. walletRead'[walletShared.read] = next
      BY <1>1, <2>4
    <3>2. Wallet!ResourceInterval \in Nat
      <4>1. WalletTypes
        BY DEF WalletInv
      <4> QED BY <2>2, <4>1, IntervalIsPositive
    <3> QED BY <1>1, <1>4, <2>2, <2>4, <3>1, <3>2 DEF SharedCanBeJoined
  <2> QED BY <2>3, <2>4
<1>7. ASSUME NEW s \in Wallet!Scans, walletScan[s].read # Wallet!NoRead
      PROVE  /\ walletScan[s].read \in Wallet!ReadIds
             /\ ~Wallet!IsAborted(walletScan[s].read) => ~Wallet!IsAborted(walletScan[s].read)'
  <2>1. walletScan[s].read \in Wallet!ReadIds
    BY <1>1, <1>7 DEF Wallet!Scan
  <2>2. CASE walletScan[s].read # r
    BY <1>1, <2>1, <2>2 DEF Wallet!IsAborted
  <2>3. CASE walletScan[s].read = r
    <3>1. walletRead'[walletScan[s].read] = next
      BY <1>1, <2>3
    <3> QED BY <2>1, <2>3, <3>1 DEF Wallet!IsAborted
  <2> QED BY <2>2, <2>3
<1>8. ASSUME NEW s \in Wallet!Scans PROVE ScanInv(s)'
  <2>1. ScanInv(s)
    BY DEF WalletInv
  <2>2. StarterGoverns(s)'
    BY <1>7, <2>1 DEF ScanInv, StarterGoverns, Wallet!Waits
  <2>3. ASSUME Wallet!Current(s)'
        PROVE  walletRead'[walletScan[s].read].phase = "resolved" =>
                 walletRead'[walletScan[s].read].observedAt
                   > walletScan[s].at - Wallet!ResourceInterval
    <3>1. /\ walletScan[s].read \in Wallet!ReadIds /\ Wallet!Current(s)
          /\ walletScan[s].at \in Nat
      BY <1>1, <1>7, <2>3 DEF Wallet!Current, Wallet!Waits, Wallet!Scan
    <3>2. /\ walletEnabled # {} /\ walletScan[s].at <= walletClock
          /\ walletRead[walletScan[s].read].phase = "resolved" =>
               walletRead[walletScan[s].read].observedAt
                 > walletScan[s].at - Wallet!ResourceInterval
      BY <2>1, <3>1 DEF ScanInv, CurrentIsServed
    <3>3. Wallet!ResourceInterval \in Nat \ {0}
      BY <3>2, IntervalIsPositive DEF WalletInv
    <3>4. CASE walletScan[s].read # r
      BY <1>1, <3>1, <3>2, <3>4
    <3>5. CASE walletScan[s].read = r
      <4>1. walletRead'[walletScan[s].read] = next
        BY <1>1, <3>5
      <4> QED BY <1>1, <3>1, <3>2, <3>3, <4>1
    <3> QED BY <3>4, <3>5
  <2>4. CurrentIsServed(s)'
    <3>1. Wallet!Current(s)' => Wallet!Current(s) /\ walletScan[s].read # Wallet!NoRead
      BY DEF Wallet!Current, Wallet!Waits
    <3> QED BY <1>4, <1>7, <2>1, <2>3, <3>1 DEF ScanInv, CurrentIsServed
  <2> QED BY <2>2, <2>4 DEF ScanInv
<1> QED
  BY <1>3, <1>5, <1>6, <1>8 DEF WalletInv

\* A scan whose record and read are as before is as before, in a step that changes neither
\* the monitors nor how often they were changed.
LEMMA ScanStays ==
  ASSUME NEW s \in Wallet!Scans, ScanInv(s), WalletTypes,
         walletScan'[s] = walletScan[s],
         walletScan[s].read # Wallet!NoRead =>
           walletRead'[walletScan[s].read] = walletRead[walletScan[s].read],
         walletClock' \in Nat, walletClock <= walletClock',
         UNCHANGED <<walletEnabled, walletReconciles>>
  PROVE  ScanInv(s)'
<1>1. Wallet!ResourceInterval' = Wallet!ResourceInterval
  BY DEF Wallet!ResourceInterval
<1>2. walletClock \in Nat /\ walletScan[s].at \in Nat
  BY DEF WalletTypes, Wallet!Scan
<1>3. CASE walletScan[s].read = Wallet!NoRead
  BY <1>3 DEF ScanInv, StarterGoverns, CurrentIsServed, Wallet!Current, Wallet!Waits
<1>4. CASE walletScan[s].read # Wallet!NoRead
  <2>1. Wallet!IsAborted(walletScan[s].read)' = Wallet!IsAborted(walletScan[s].read)
    BY <1>4 DEF Wallet!IsAborted
  <2>2. Wallet!Current(s)' = Wallet!Current(s) /\ Wallet!Waits(s)' = Wallet!Waits(s)
    BY DEF Wallet!Current, Wallet!Waits
  <2>3. StarterGoverns(s)'
    BY <2>1, <2>2 DEF ScanInv, StarterGoverns
  <2>4. CurrentIsServed(s)'
    <3> SUFFICES ASSUME Wallet!Current(s)
                 PROVE  /\ walletEnabled # {} /\ walletScan[s].at <= walletClock'
                        /\ ~Wallet!IsAborted(walletScan[s].read)
                        /\ walletRead[walletScan[s].read].phase = "resolved" =>
                             walletRead[walletScan[s].read].observedAt
                               > walletScan[s].at - Wallet!ResourceInterval
      BY <1>1, <1>4, <2>1, <2>2 DEF CurrentIsServed
    <3>1. /\ walletEnabled # {} /\ walletScan[s].at <= walletClock
          /\ ~Wallet!IsAborted(walletScan[s].read)
          /\ walletRead[walletScan[s].read].phase = "resolved" =>
               walletRead[walletScan[s].read].observedAt
                 > walletScan[s].at - Wallet!ResourceInterval
      BY DEF ScanInv, CurrentIsServed
    <3> QED BY <1>2, <3>1
  <2> QED BY <2>3, <2>4 DEF ScanInv
<1> QED
  BY <1>3, <1>4

\* A record that is left to be read, or is over now.
LEMMA AfterTokensOfRead ==
  ASSUME NEW r \in Wallet!Read, walletClock \in 0..MaxReadClock
  PROVE  /\ Wallet!AfterTokens(r) \in Wallet!Read
         /\ Wallet!AfterTokens(r).aborted = r.aborted
         /\ Wallet!AfterTokens(r).phase \in {r.phase, "resolved"}
         /\ r.phase # "resolved" /\ Wallet!AfterTokens(r).phase = "resolved" =>
              Wallet!AfterTokens(r).observedAt = walletClock
<1>1. CASE r.left # {}
  BY <1>1 DEF Wallet!AfterTokens
<1>2. CASE r.left = {}
  BY <1>2 DEF Wallet!AfterTokens, Wallet!Read
<1> QED
  BY <1>1, <1>2

\* Every step keeps the invariant.
LEMMA WalletStep == WalletInv /\ [Wallet!Next]_(Wallet!vars) => WalletInv'
<1> SUFFICES ASSUME WalletInv, [Wallet!Next]_(Wallet!vars) PROVE WalletInv'
  OBVIOUS
<1>1. /\ walletClock \in 0..MaxReadClock /\ walletClock \in Nat /\ MaxReadClock \in Nat
      /\ walletRead \in [Wallet!ReadIds -> Wallet!Read]
      /\ walletScan \in [Wallet!Scans -> Wallet!Scan]
      /\ walletShared \in [read : Wallet!ReadIds \cup {Wallet!NoRead}, expiresAt : Nat]
      /\ walletReconciles \in 0..MaxReconciles /\ MaxReconciles \in Nat /\ WalletTypes
  BY WalletAssumptions DEF WalletInv, WalletTypes
<1>2. /\ Wallet!NotShared \in [read : Wallet!ReadIds \cup {Wallet!NoRead}, expiresAt : Nat]
      /\ Wallet!NotShared.read = Wallet!NoRead
  BY DEF Wallet!NotShared
<1>3. /\ Wallet!NoScan \in Wallet!Scan /\ Wallet!NoScan.read = Wallet!NoRead
      /\ Wallet!NoScan.epoch = 0
  BY WalletAssumptions DEF Wallet!NoScan, Wallet!Scan
<1>4. Wallet!NoRead \notin Wallet!ReadIds
  BY DEF Wallet!NoRead, Wallet!ReadIds
<1>5. /\ SharedCanBeJoined /\ OneStarter
      /\ \A s \in Wallet!Scans : /\ ScanInv(s) /\ walletScan[s] \in Wallet!Scan
                                 /\ walletScan[s].epoch \in Nat
                                 /\ walletScan[s].epoch <= walletReconciles
                                 /\ walletScan[s].read # Wallet!NoRead =>
                                      walletScan[s].read \in Wallet!ReadIds
  BY <1>1 DEF WalletInv, WalletTypes, Wallet!Scan
\* What a scan that waits from now on for a read that goes on is told.
<1>6. ASSUME NEW m \in WalletMonitors, NEW k \in Wallet!Runs, Wallet!JoinRead(m, k)
      PROVE  WalletInv'
  <2> DEFINE next == [read |-> walletShared.read, starts |-> FALSE, aborted |-> FALSE,
                      at |-> walletClock, epoch |-> walletReconciles]
  <2>1. /\ walletShared.read \in Wallet!ReadIds /\ walletShared.expiresAt > walletClock
        /\ walletScan' = [walletScan EXCEPT ![<<m, k>>] = next]
        /\ UNCHANGED <<walletClock, walletEnabled, walletShared, walletRead, walletReconciles>>
    BY <1>1, <1>6 DEF Wallet!JoinRead, Wallet!IsCached, Wallet!WaitFor
  <2>2. /\ next \in Wallet!Scan /\ next.read = walletShared.read /\ next.at = walletClock
        /\ next.epoch = walletReconciles /\ ~next.starts
    BY <1>1, <2>1 DEF Wallet!Scan
  <2> HIDE DEF next
  <2>3. WalletTypes'
    <3>1. \A s \in Wallet!Scans : walletScan'[s].epoch <= walletReconciles
      BY <1>1, <1>5, <2>1, <2>2
    <3> QED BY <1>1, <2>1, <2>2, <3>1 DEF WalletTypes
  <2>4. SharedCanBeJoined' /\ Wallet!ResourceInterval' = Wallet!ResourceInterval
    BY <1>5, <2>1 DEF SharedCanBeJoined, Wallet!ResourceInterval
  <2>5. OneStarter'
    <3>1. \A s \in Wallet!Scans : walletScan'[s].starts => walletScan'[s] = walletScan[s]
      BY <1>1, <2>1, <2>2
    <3> QED BY <1>5, <3>1 DEF OneStarter
  <2>6. ASSUME NEW s \in Wallet!Scans PROVE ScanInv(s)'
    <3>1. CASE s # <<m, k>>
      <4>1. walletScan'[s] = walletScan[s]
        BY <1>1, <2>1, <3>1
      <4> QED BY <1>1, <1>5, <2>1, <4>1, ScanStays
    <3>2. CASE s = <<m, k>>
      <4>1. walletScan'[s] = next
        BY <1>1, <2>1, <3>2
      <4>2. /\ walletEnabled # {} /\ ~walletRead[walletShared.read].aborted
            /\ walletRead[walletShared.read].phase # "aborted"
            /\ walletRead[walletShared.read].phase = "resolved" =>
                 walletRead[walletShared.read].observedAt
                   >= walletShared.expiresAt - Wallet!ResourceInterval
        BY <1>4, <1>5, <2>1 DEF SharedCanBeJoined
      <4>3. Wallet!ResourceInterval \in Nat
        BY <1>1, <4>2, IntervalIsPositive
      <4>4. walletRead[walletShared.read].observedAt \in Nat /\ walletShared.expiresAt \in Nat
        BY <1>1, <2>1 DEF Wallet!Read
      <4>5. StarterGoverns(s)'
        BY <2>2, <4>1 DEF StarterGoverns
      <4>6. CurrentIsServed(s)'
        BY <1>1, <2>1, <2>2, <2>4, <4>1, <4>2, <4>3, <4>4
           DEF CurrentIsServed, Wallet!IsAborted
      <4> QED BY <4>5, <4>6 DEF ScanInv
    <3> QED BY <3>1, <3>2
  <2> QED BY <2>3, <2>4, <2>5, <2>6 DEF WalletInv
<1>7. ASSUME NEW m \in WalletMonitors, NEW k \in Wallet!Runs, Wallet!StartRead(m, k)
      PROVE  WalletInv'
  <2>1. PICK r \in Wallet!Unused : r = Wallet!Min(Wallet!Unused)
    <3>1. Wallet!Unused # {} /\ Wallet!Unused \subseteq Nat
      BY <1>7 DEF Wallet!StartRead, Wallet!Unused, Wallet!ReadIds
    <3>2. \E n \in Wallet!Unused : \A i \in Wallet!Unused : n <= i
      BY <3>1, LeastOfNats
    <3>3. Wallet!Min(Wallet!Unused) \in Wallet!Unused
      BY <3>2 DEF Wallet!Min
    <3> QED BY <3>3
  <2> DEFINE next == [read |-> r, starts |-> TRUE, aborted |-> FALSE, at |-> walletClock,
                      epoch |-> walletReconciles]
             begun == [Wallet!Free EXCEPT !.phase = "discover"]
             expires == walletClock + Wallet!ResourceInterval
  <2>2. /\ r \in Wallet!ReadIds /\ walletShared.read # r
        /\ \A s \in Wallet!Scans : walletScan[s].read # r
    BY <2>1 DEF Wallet!Unused
  <2>3. begun \in Wallet!Read /\ ~begun.aborted /\ begun.phase = "discover"
    BY FreeRead
  <2>4. /\ next \in Wallet!Scan /\ next.read = r /\ next.at = walletClock
        /\ next.epoch = walletReconciles
    BY <1>1, <2>2 DEF Wallet!Scan
  <2>5. walletEnabled # {} /\ Wallet!ResourceInterval \in Nat \ {0}
    <3>1. walletEnabled # {}
      BY <1>7 DEF Wallet!StartRead, Wallet!MayScan
    <3> QED BY <1>1, <3>1, IntervalIsPositive
  <2>6. /\ walletScan' = [walletScan EXCEPT ![<<m, k>>] = next]
        /\ walletShared' = [read |-> r, expiresAt |-> expires]
        /\ UNCHANGED <<walletClock, walletEnabled, walletReconciles>>
    BY <1>7, <2>1 DEF Wallet!StartRead, Wallet!WaitFor
  <2>7. walletRead' = [i \in Wallet!ReadIds |->
          IF walletShared'.read = i \/ \E s \in Wallet!Scans : walletScan'[s].read = i
          THEN [walletRead EXCEPT ![r] = begun][i] ELSE Wallet!Free]
    BY <1>7, <2>1 DEF Wallet!StartRead, Wallet!Reads
  <2> HIDE DEF next, begun
  <2>8. /\ walletRead' \in [Wallet!ReadIds -> Wallet!Read]
        /\ walletRead'[r] = begun
        /\ \A s \in Wallet!Scans : walletScan'[s].read \in Wallet!ReadIds =>
             walletRead'[walletScan'[s].read] =
               [walletRead EXCEPT ![r] = begun][walletScan'[s].read]
    BY <1>1, <2>2, <2>3, <2>6, <2>7, FreeRead
  <2>9. WalletTypes'
    <3>1. walletShared' \in [read : Wallet!ReadIds \cup {Wallet!NoRead}, expiresAt : Nat]
      BY <1>1, <2>2, <2>5, <2>6
    <3>2. \A s \in Wallet!Scans : walletScan'[s].epoch <= walletReconciles
      BY <1>1, <1>5, <2>4, <2>6
    <3> QED BY <1>1, <2>4, <2>6, <2>8, <3>1, <3>2 DEF WalletTypes
  <2>10. Wallet!ResourceInterval' = Wallet!ResourceInterval
    BY <2>6 DEF Wallet!ResourceInterval
  <2>11. SharedCanBeJoined'
    <3>1. walletShared'.read = r /\ walletShared'.expiresAt = expires
      BY <2>6
    <3> QED BY <1>1, <2>3, <2>5, <2>6, <2>8, <2>10, <3>1 DEF SharedCanBeJoined
  <2>12. OneStarter'
    <3>1. \A s \in Wallet!Scans :
            IF s = <<m, k>> THEN walletScan'[s].read = r
            ELSE walletScan'[s] = walletScan[s] /\ walletScan'[s].read # r
      BY <1>1, <2>2, <2>4, <2>6
    <3> QED BY <1>5, <3>1 DEF OneStarter
  <2>13. ASSUME NEW s \in Wallet!Scans PROVE ScanInv(s)'
    <3>1. CASE s # <<m, k>>
      <4>1. walletScan'[s] = walletScan[s]
        BY <1>1, <2>6, <3>1
      <4>2. walletScan[s].read # Wallet!NoRead =>
              walletRead'[walletScan[s].read] = walletRead[walletScan[s].read]
        BY <1>1, <1>5, <2>2, <2>8, <4>1
      <4> QED BY <1>1, <1>5, <2>6, <4>1, <4>2, ScanStays
    <3>2. CASE s = <<m, k>>
      <4>1. walletScan'[s] = next
        BY <1>1, <2>6, <3>2
      <4>2. ~Wallet!IsAborted(r)'
        BY <2>3, <2>8 DEF Wallet!IsAborted
      <4>3. StarterGoverns(s)'
        BY <2>4, <4>1, <4>2 DEF StarterGoverns
      <4>4. CurrentIsServed(s)'
        BY <1>1, <2>3, <2>4, <2>5, <2>6, <2>8, <4>1, <4>2 DEF CurrentIsServed
      <4> QED BY <4>3, <4>4 DEF ScanInv
    <3> QED BY <3>1, <3>2
  <2> QED BY <2>9, <2>11, <2>12, <2>13 DEF WalletInv
\* A read that is rejected.
<1>8. ASSUME NEW r \in Wallet!ReadIds, NEW how \in {"rejected", "aborted"},
             walletRead[r].phase \in {"discover", "tokens"},
             how = "aborted" => walletRead[r].aborted,
             Wallet!Reject(r, how),
             UNCHANGED <<walletClock, walletEnabled, walletScan, walletReconciles>>
      PROVE  WalletInv'
  <2> DEFINE next == [Wallet!Free EXCEPT !.phase = how]
  <2>1. next \in Wallet!Read /\ ~next.aborted /\ next.phase = how
    BY FreeRead
  <2>2. /\ walletRead' = [walletRead EXCEPT ![r] = next]
        /\ walletShared' \in {walletShared, Wallet!NotShared}
    BY <1>8 DEF Wallet!Reject
  <2> HIDE DEF next
  <2> QED BY <1>8, <2>1, <2>2, ReadGoesOn
\* A read that goes on with the tokens that are left to it.
<1>9. ASSUME NEW r \in Wallet!ReadIds, NEW next \in Wallet!Read,
             walletRead[r].phase \in {"discover", "tokens"}, ~walletRead[r].aborted,
             next.phase = "tokens", ~next.aborted,
             walletRead' = [walletRead EXCEPT ![r] = Wallet!AfterTokens(next)],
             UNCHANGED <<walletClock, walletEnabled, walletShared, walletScan, walletReconciles>>
      PROVE  WalletInv'
  <2> DEFINE after == Wallet!AfterTokens(next)
  <2>1. /\ after \in Wallet!Read /\ ~after.aborted /\ after.phase \in {"tokens", "resolved"}
        /\ after.phase = "resolved" => after.observedAt = walletClock
    BY <1>1, <1>9, AfterTokensOfRead
  <2>2. walletRead' = [walletRead EXCEPT ![r] = after]
    BY <1>9
  <2> HIDE DEF after
  <2> QED BY <1>9, <2>1, <2>2, ReadGoesOn
<1>10. ASSUME NEW r \in Wallet!ReadIds, Wallet!Discover(r) PROVE WalletInv'
  <2>1. walletRead[r].phase = "discover" /\ UNCHANGED <<walletClock, walletEnabled, walletScan, walletReconciles>>
    BY <1>10 DEF Wallet!Discover
  <2>2. CASE walletRead[r].aborted
    BY <1>8, <1>10, <2>1, <2>2 DEF Wallet!Discover
  <2>3. CASE ~walletRead[r].aborted
    <3>1. PICK held_ \in SUBSET Tokens :
            /\ walletRead' = [walletRead EXCEPT ![r] = Wallet!AfterTokens(
                 [walletRead[r] EXCEPT !.phase = "tokens", !.left = held_])]
            /\ walletShared' = walletShared
      BY <1>10, <2>3 DEF Wallet!Discover
    <3> DEFINE next == [walletRead[r] EXCEPT !.phase = "tokens", !.left = held_]
    <3>2. next \in Wallet!Read /\ next.phase = "tokens" /\ ~next.aborted
      BY <1>1, <2>3 DEF Wallet!Read
    <3>3. walletRead' = [walletRead EXCEPT ![r] = Wallet!AfterTokens(next)]
      BY <3>1
    <3> HIDE DEF next
    <3> QED BY <1>9, <2>1, <2>3, <3>1, <3>2, <3>3
  <2> QED BY <2>2, <2>3
<1>11. ASSUME NEW r \in Wallet!ReadIds, Wallet!DiscoverFails(r) PROVE WalletInv'
  BY <1>8, <1>11 DEF Wallet!DiscoverFails
<1>12. ASSUME NEW r \in Wallet!ReadIds, NEW t \in Tokens,
              Wallet!UseClosed(r, t) \/ Wallet!ReadToken(r, t) \/ Wallet!ReadTokenFails(r, t)
       PROVE  WalletInv'
  <2>1. /\ walletRead[r].phase = "tokens" /\ ~walletRead[r].aborted
        /\ UNCHANGED <<walletClock, walletEnabled, walletShared, walletScan, walletReconciles>>
    BY <1>12 DEF Wallet!UseClosed, Wallet!ReadToken, Wallet!ReadTokenFails, Wallet!Reading
  <2>2. PICK next \in Wallet!Read :
          /\ walletRead' = [walletRead EXCEPT ![r] = Wallet!AfterTokens(next)]
          /\ next.phase = "tokens" /\ ~next.aborted
    <3>1. CASE Wallet!UseClosed(r, t) \/ Wallet!ReadToken(r, t)
      <4> DEFINE next == [walletRead[r] EXCEPT !.left = walletRead[r].left \ {t}]
      <4>1. next \in Wallet!Read /\ next.phase = "tokens" /\ ~next.aborted
        BY <1>1, <2>1 DEF Wallet!Read
      <4>2. walletRead' = [walletRead EXCEPT ![r] = Wallet!AfterTokens(next)]
        BY <3>1 DEF Wallet!UseClosed, Wallet!ReadToken, Wallet!Done
      <4> HIDE DEF next
      <4> QED BY <4>1, <4>2
    <3>2. CASE Wallet!ReadTokenFails(r, t)
      <4> DEFINE next == [walletRead[r] EXCEPT !.left = walletRead[r].left \ {t},
                                               !.failures = walletRead[r].failures \cup {t}]
      <4>1. next \in Wallet!Read /\ next.phase = "tokens" /\ ~next.aborted
        BY <1>1, <2>1 DEF Wallet!Read
      <4>2. walletRead' = [walletRead EXCEPT ![r] = Wallet!AfterTokens(next)]
        BY <3>2 DEF Wallet!ReadTokenFails
      <4> HIDE DEF next
      <4> QED BY <4>1, <4>2
    <3> QED BY <1>12, <3>1, <3>2
  <2> QED BY <1>9, <2>1, <2>2
<1>13. ASSUME NEW r \in Wallet!ReadIds, Wallet!AbortedReadEnds(r) PROVE WalletInv'
  BY <1>8, <1>13 DEF Wallet!AbortedReadEnds
<1>14. ASSUME NEW m \in WalletMonitors, NEW k \in Wallet!Runs, Wallet!EndScan(m, k)
       PROVE  WalletInv'
  <2>1. /\ walletScan' = [walletScan EXCEPT ![<<m, k>>] = Wallet!NoScan]
        /\ UNCHANGED <<walletClock, walletEnabled, walletShared, walletReconciles>>
        /\ walletRead' = [i \in Wallet!ReadIds |->
             IF walletShared'.read = i \/ \E s \in Wallet!Scans : walletScan'[s].read = i
             THEN walletRead[i] ELSE Wallet!Free]
    BY <1>14 DEF Wallet!EndScan, Wallet!Reads
  <2>2. \A s \in Wallet!Scans : walletScan'[s] = walletScan[s] \/ walletScan'[s] = Wallet!NoScan
    BY <1>1, <2>1
  <2>3. WalletTypes'
    <3>1. \A s \in Wallet!Scans : walletScan'[s].epoch <= walletReconciles
      BY <1>1, <1>3, <1>5, <2>2
    <3> QED BY <1>1, <1>3, <2>1, <3>1, FreeRead DEF WalletTypes
  <2>4. Wallet!ResourceInterval' = Wallet!ResourceInterval
    BY <2>1 DEF Wallet!ResourceInterval
  <2>5. SharedCanBeJoined'
    <3>1. walletShared.read # Wallet!NoRead =>
            walletRead'[walletShared.read] = walletRead[walletShared.read]
      BY <1>1, <2>1
    <3> QED BY <1>5, <2>1, <2>4, <3>1 DEF SharedCanBeJoined
  <2>6. OneStarter'
    BY <1>3, <1>5, <2>2 DEF OneStarter
  <2>7. ASSUME NEW s \in Wallet!Scans PROVE ScanInv(s)'
    <3>1. CASE walletScan'[s] = walletScan[s]
      <4>1. walletScan[s].read # Wallet!NoRead =>
              walletRead'[walletScan[s].read] = walletRead[walletScan[s].read]
        BY <1>1, <1>5, <2>1, <3>1
      <4> QED BY <1>1, <1>5, <2>1, <3>1, <4>1, ScanStays
    <3>2. CASE walletScan'[s] = Wallet!NoScan
      BY <1>3, <3>2
         DEF ScanInv, StarterGoverns, CurrentIsServed, Wallet!Current, Wallet!Waits
    <3> QED BY <2>2, <3>1, <3>2
  <2> QED BY <2>3, <2>5, <2>6, <2>7 DEF WalletInv
\* After a reconcile no scan is current, and of those that go on none governs a read that was
\* aborted: a removed monitor's scan was the one that started it.
<1>15. CASE Wallet!Reconcile
  <2>1. PICK dropped \in SUBSET (walletEnabled \ walletEnabled') : Wallet!Abort(dropped)
    BY <1>15 DEF Wallet!Reconcile
  <2>2. /\ walletEnabled' \subseteq WalletMonitors /\ walletShared' = Wallet!NotShared
        /\ walletReconciles' = walletReconciles + 1 /\ walletReconciles < MaxReconciles
        /\ walletClock' = walletClock
    BY <1>1, <1>15 DEF Wallet!Reconcile, Wallet!AfterChange, WalletTypes
  <2>3. walletScan' = [s \in Wallet!Scans |->
          IF s[1] \in dropped /\ walletScan[s].read # Wallet!NoRead
          THEN [walletScan[s] EXCEPT !.aborted = TRUE] ELSE walletScan[s]]
    BY <2>1 DEF Wallet!Abort
  <2> DEFINE governed == {walletScan[s].read :
                s \in {x \in Wallet!Scans : x[1] \in dropped /\ walletScan[x].starts}}
             new == [r \in Wallet!ReadIds |->
                IF r \in governed /\ walletRead[r].phase \in {"discover", "tokens"}
                THEN [walletRead[r] EXCEPT !.aborted = TRUE] ELSE walletRead[r]]
  <2>4. /\ \A r \in Wallet!ReadIds \ governed : new[r] = walletRead[r]
        /\ new \in [Wallet!ReadIds -> Wallet!Read]
    BY <1>1 DEF Wallet!Read
  <2>5. \A x \in Wallet!Scans : walletScan[x].read \in governed =>
          \E y \in Wallet!Scans : /\ y[1] \in dropped /\ walletScan[y].starts
                                  /\ walletScan[y].read = walletScan[x].read
    OBVIOUS
  <2>6. walletRead' = [i \in Wallet!ReadIds |->
           IF walletShared'.read = i \/ \E s \in Wallet!Scans : walletScan'[s].read = i
           THEN new[i] ELSE Wallet!Free]
    BY <2>1 DEF Wallet!Abort, Wallet!Reads
  <2> HIDE DEF governed, new
  <2>7. walletRead' \in [Wallet!ReadIds -> Wallet!Read]
    BY <2>4, <2>6, FreeRead
  <2>8. \A s \in Wallet!Scans :
          /\ walletScan'[s] \in Wallet!Scan
          /\ walletScan'[s].read = walletScan[s].read
          /\ walletScan'[s].starts = walletScan[s].starts
          /\ walletScan'[s].epoch = walletScan[s].epoch
          /\ walletScan[s].read # Wallet!NoRead /\ ~walletScan'[s].aborted =>
               s[1] \notin dropped /\ ~walletScan[s].aborted
    BY <1>5, <2>3 DEF Wallet!Scan
  <2>9. WalletTypes'
    <3>1. walletScan' \in [Wallet!Scans -> Wallet!Scan]
      BY <2>3, <2>8
    <3>2. \A s \in Wallet!Scans : walletScan'[s].epoch <= walletReconciles + 1
      BY <1>1, <1>5, <2>8
    <3> QED BY <1>1, <1>2, <2>2, <2>7, <3>1, <3>2 DEF WalletTypes
  <2>10. SharedCanBeJoined'
    BY <1>2, <2>2 DEF SharedCanBeJoined
  <2>11. OneStarter'
    BY <1>5, <2>8 DEF OneStarter
  <2>12. ASSUME NEW s \in Wallet!Scans PROVE ScanInv(s)'
    <3>1. ~Wallet!Current(s)'
      BY <1>1, <1>5, <2>2, <2>8 DEF Wallet!Current
    <3>2. StarterGoverns(s)'
      <4> SUFFICES ASSUME walletScan[s].read # Wallet!NoRead, walletScan[s].starts,
                          ~walletScan'[s].aborted
                   PROVE  ~Wallet!IsAborted(walletScan[s].read)'
        BY <2>8 DEF StarterGoverns, Wallet!Waits
      <4>1. s[1] \notin dropped /\ ~walletScan[s].aborted
        BY <2>8
      <4>2. walletScan[s].read \notin governed
        BY <1>5, <2>5, <4>1 DEF OneStarter
      <4>3. walletScan[s].read \in Wallet!ReadIds
        BY <1>5
      <4>4. walletRead'[walletScan[s].read] = walletRead[walletScan[s].read]
        BY <2>4, <2>6, <2>8, <4>2, <4>3
      <4>5. ~Wallet!IsAborted(walletScan[s].read)
        BY <1>5, <4>1 DEF ScanInv, StarterGoverns, Wallet!Waits
      <4> QED BY <2>8, <4>4, <4>5 DEF Wallet!IsAborted
    <3> QED BY <3>1, <3>2 DEF ScanInv, CurrentIsServed
  <2> QED BY <2>9, <2>10, <2>11, <2>12 DEF WalletInv
<1>16. CASE Wallet!TimePasses
  <2>1. /\ walletClock' \in 0..MaxReadClock /\ walletClock' = walletClock + 1
        /\ UNCHANGED <<walletEnabled, walletShared, walletRead, walletScan, walletReconciles>>
    BY <1>1, <1>16 DEF Wallet!TimePasses
  <2>2. Wallet!ResourceInterval' = Wallet!ResourceInterval
    BY <2>1 DEF Wallet!ResourceInterval
  <2>3. WalletTypes'
    BY <1>1, <2>1 DEF WalletTypes
  <2>4. SharedCanBeJoined'
    <3>1. walletEnabled # {} => Wallet!ResourceInterval \in Nat
      BY <1>1, IntervalIsPositive
    <3>2. walletShared.expiresAt \in Nat
      BY <1>1
    <3> QED BY <1>1, <1>5, <2>1, <2>2, <3>1, <3>2 DEF SharedCanBeJoined
  <2>5. OneStarter'
    BY <1>5, <2>1 DEF OneStarter
  <2>6. \A s \in Wallet!Scans : ScanInv(s)'
    BY <1>1, <1>5, <2>1, ScanStays
  <2> QED BY <2>3, <2>4, <2>5, <2>6 DEF WalletInv
<1>17. CASE UNCHANGED Wallet!vars
  BY <1>17 DEF Wallet!vars, WalletInv, WalletTypes, SharedCanBeJoined, OneStarter, ScanInv,
     StarterGoverns, CurrentIsServed, Wallet!Current, Wallet!Waits, Wallet!IsAborted,
     Wallet!ResourceInterval
<1> QED
  BY <1>6, <1>7, <1>10, <1>11, <1>12, <1>13, <1>14, <1>15, <1>16, <1>17 DEF Wallet!Next

LEMMA WalletInvAlways == PartsSpec => [](part = "wallet" => WalletInv)
<1> DEFINE Inv == part = "wallet" => WalletInv
<1>1. PartsInit => Inv
  BY WalletInit DEF PartsInit
<1>2. Inv /\ [PartsNext]_partVars => Inv'
  <2> SUFFICES ASSUME Inv, [PartsNext]_partVars, part' = "wallet" PROVE WalletInv'
    OBVIOUS
  <2>1. part = "wallet" /\ [Wallet!Next]_(Wallet!vars)
    BY DEF PartsNext, partVars, walletVars, Wallet!vars
  <2> QED BY <2>1, WalletStep
<1> QED
  BY <1>1, <1>2, PTL DEF PartsSpec

\* The abort of a removed monitor ends at the scans that had joined its read: of those that
\* were not told to abort, the one that governs a read, and every one that began since the
\* last reconcile, waits for a read that goes on (readShared, reconcile).
THEOREM AbortFailsOnlyJoinersAlways == PartsSpec => []AbortFailsOnlyJoiners
<1>1. (part = "wallet" => WalletInv) => AbortFailsOnlyJoiners
  BY DEF WalletInv, ScanInv, StarterGoverns, CurrentIsServed, AbortFailsOnlyJoiners,
     Wallet!AbortFailsOnlyJoiners
<1> QED
  BY <1>1, WalletInvAlways, PTL

\* No scan that began since the last reconcile is served a read that was over before the
\* shortest interval, counted back from its own beginning (readShared).
THEOREM ServedRecentAlways == PartsSpec => []ServedRecent
<1>1. (part = "wallet" => WalletInv) => ServedRecent
  BY DEF WalletInv, ScanInv, CurrentIsServed, ServedRecent, Wallet!ServedRecent
<1> QED
  BY <1>1, WalletInvAlways, PTL
---------------------------------------------------------------------------
(* The pool *)

LEMMA PoolAssumptions ==
  /\ PoolIntervalOf \in [PoolMonitors -> Nat \ {0}]
  /\ WindowsOf \in [PoolMonitors -> SUBSET (Nat \ {0})]
  /\ ConfirmationBlocks \in Nat /\ LookbackBlocks \in Nat /\ PoolReadIds \subseteq Nat \ {0}
  /\ MaxClock \in Nat /\ MaxLag \in Nat /\ MaxDisturbances \in Nat
  BY PartsParameters DEF Pool!PoolParameters

PoolTypes ==
  /\ poolClock \in Pool!Blocks /\ named \in BOOLEAN
  /\ poolEnabled \subseteq PoolMonitors
  /\ poolShared \in [read : PoolReadIds \cup {Pool!NoRead}, expiresAt : Nat]
  /\ poolRead \in [PoolReadIds -> Pool!Read] /\ poolScan \in [Pool!Scans -> Pool!Scan]
  /\ cursor \in Pool!Blocks \cup {Pool!NoCursor}
  /\ poolSamples \in [PoolMonitors -> SUBSET Pool!Blocks]
  /\ given \in [PoolMonitors -> SUBSET Pool!Blocks]
  /\ synced \in [PoolMonitors -> Pool!Blocks \cup {Pool!NoCursor}]
  /\ since \in [PoolMonitors -> Nat \cup {Pool!NoCursor}]

\* What any of the monitors is owed, up to a block, was given to one of them.
GivenUpTo(block) ==
  \A b \in Pool!Blocks : (\E m \in PoolMonitors : since[m] < b) /\ b <= block =>
    \E m \in PoolMonitors : b \in given[m]

\* A read that knows its blocks begins after what was given, and ends at a block there is.
ReadsFollow ==
  \A r \in PoolReadIds : poolRead[r].phase \in {"logs", "resolved"} =>
    poolRead[r].confirmed <= poolClock /\ GivenUpTo(poolRead[r].from - 1)

\* A scan hands on one event after the other of a read that is over.
ScansFollow ==
  \A m \in PoolMonitors, k \in PoolRuns : poolScan[<<m, k>>].next # Pool!NotYet =>
    /\ poolScan[<<m, k>>].read \in PoolReadIds
    /\ poolRead[poolScan[<<m, k>>].read].phase = "resolved"
    /\ GivenUpTo(poolScan[<<m, k>>].next - 1)

SavedIsGiven == GivenUpTo(cursor) /\ \A m \in PoolMonitors : GivenUpTo(synced[m])

PoolInv == PoolTypes /\ ReadsFollow /\ ScansFollow /\ SavedIsGiven

LEMMA PoolFree ==
  /\ Pool!Free \in Pool!Read /\ Pool!Free.phase = "free"
  /\ Pool!NoScan \in Pool!Scan /\ Pool!NoScan.read = Pool!NoRead /\ Pool!NoScan.next = Pool!NotYet
  /\ Pool!NotShared \in [read : PoolReadIds \cup {Pool!NoRead}, expiresAt : Nat]
  /\ Pool!NotShared.read = Pool!NoRead
  BY DEF Pool!Free, Pool!Read, Pool!NoScan, Pool!Scan, Pool!NotShared

LEMMA PoolInit == Pool!Init => PoolInv
<1> SUFFICES ASSUME Pool!Init PROVE PoolInv
  OBVIOUS
<1>1. 0 \in Pool!Blocks /\ Pool!NoCursor \in Int
  BY PoolAssumptions DEF Pool!Blocks, Pool!NoCursor
<1>2. PoolTypes
  BY <1>1, PoolFree, PoolAssumptions DEF Pool!Init, PoolTypes
<1>3. ReadsFollow /\ ScansFollow
  BY PoolFree DEF Pool!Init, ReadsFollow, ScansFollow, Pool!Scans
<1>4. SavedIsGiven
  BY PoolAssumptions
     DEF Pool!Init, SavedIsGiven, GivenUpTo, Pool!Blocks, Pool!NoCursor
<1> QED
  BY <1>2, <1>3, <1>4 DEF PoolInv

LEMMA PoolMaxOfTwo ==
  ASSUME NEW a \in Int, NEW b \in Int
  PROVE  Pool!Max({a, b}) \in {a, b} /\ Pool!Max({a, b}) >= a /\ Pool!Max({a, b}) >= b
<1>1. \E x \in {a, b} : \A y \in {a, b} : x >= y
  <2>1. CASE a >= b
    BY <2>1
  <2>2. CASE b >= a
    BY <2>2
  <2> QED BY <2>1, <2>2
<1> QED
  BY <1>1 DEF Pool!Max

\* The blocks of a read begin where the cursor stands, or where the lookback does, before
\* which nothing is owed.
LEMMA PoolLatestBlock ==
  ASSUME PoolInv, NEW r \in PoolReadIds, Pool!LatestBlock(r), ~poolRead[r].aborted
  PROVE  \E next \in Pool!Read :
           /\ next.phase = "logs" /\ next.confirmed <= poolClock
           /\ poolRead' = [poolRead EXCEPT ![r] = next] /\ UNCHANGED poolShared
           /\ since' \in [PoolMonitors -> Nat \cup {Pool!NoCursor}]
           /\ \A m \in PoolMonitors : since[m] <= since'[m]
           /\ cursor = Pool!NoCursor => \A m \in PoolMonitors : next.from - 1 <= since'[m]
           /\ cursor # Pool!NoCursor => next.from - 1 <= cursor
<1>1. PICK height \in Pool!Max({0, poolClock - MaxLag})..poolClock :
        LET first == Pool!FirstBlock(Pool!Confirmed(height)) IN
        /\ poolRead' = [poolRead EXCEPT ![r].phase = "logs",
                                        ![r].confirmed = Pool!Confirmed(height),
                                        ![r].from = first]
        /\ since' = IF cursor = Pool!NoCursor
                    THEN [m \in PoolMonitors |-> Pool!Max({since[m], first - 1})] ELSE since
        /\ UNCHANGED poolShared
  BY DEF Pool!LatestBlock
<1> DEFINE block == Pool!Confirmed(height)
           first == Pool!FirstBlock(block)
           next == [poolRead[r] EXCEPT !.phase = "logs", !.confirmed = block, !.from = first]
<1>2. /\ poolClock \in Nat /\ poolRead \in [PoolReadIds -> Pool!Read]
      /\ cursor \in Int /\ (cursor # Pool!NoCursor => cursor >= 0)
      /\ since \in [PoolMonitors -> Nat \cup {Pool!NoCursor}] /\ Pool!NoCursor = -1
  BY PoolAssumptions DEF PoolInv, PoolTypes, Pool!Blocks, Pool!NoCursor
<1>3. height \in Nat /\ height <= poolClock
  <2>1. PICK oldest \in Int : oldest = poolClock - MaxLag
    BY <1>2, PoolAssumptions
  <2>2. PICK low \in Int : low = Pool!Max({0, oldest}) /\ low >= 0
    <3>1. /\ Pool!Max({0, oldest}) \in {0, oldest}
          /\ Pool!Max({0, oldest}) >= 0 /\ Pool!Max({0, oldest}) >= oldest
      BY PoolMaxOfTwo
    <3>2. Pool!Max({0, oldest}) \in Int
      BY <3>1
    <3> QED BY <3>1, <3>2
  <2>3. height \in low..poolClock
    BY <1>1, <2>1, <2>2
  <2> QED BY <1>2, <2>2, <2>3
<1>4. block \in Nat /\ block <= poolClock
  BY <1>2, <1>3, PoolAssumptions DEF Pool!Confirmed
<1>5. first \in Nat /\ (cursor # Pool!NoCursor => first - 1 <= cursor)
  <2> HIDE DEF block
  <2>1. block - LookbackBlocks \in Int /\ 0 \in Int
    BY <1>4, PoolAssumptions
  <2>2. /\ Pool!Max({0, block - LookbackBlocks}) \in Int
        /\ Pool!Max({0, block - LookbackBlocks}) >= 0
    BY <2>1, PoolMaxOfTwo
  <2> QED BY <1>2, <1>4, <2>2, PoolAssumptions DEF Pool!FirstBlock
<1> HIDE DEF block, first
<1>6. /\ next \in Pool!Read /\ next.phase = "logs" /\ next.confirmed = block
      /\ next.from = first
  BY <1>2, <1>4, <1>5 DEF Pool!Read
<1>7. poolRead' = [poolRead EXCEPT ![r] = next] /\ UNCHANGED poolShared
  BY <1>1, <1>2 DEF block, first
<1>8. /\ since' \in [PoolMonitors -> Nat \cup {Pool!NoCursor}]
      /\ \A m \in PoolMonitors : since[m] <= since'[m]
      /\ cursor = Pool!NoCursor => \A m \in PoolMonitors : first - 1 <= since'[m]
  <2>1. \A m \in PoolMonitors :
          /\ Pool!Max({since[m], first - 1}) \in Nat \cup {Pool!NoCursor}
          /\ Pool!Max({since[m], first - 1}) >= since[m]
          /\ Pool!Max({since[m], first - 1}) >= first - 1
    <3> TAKE m \in PoolMonitors
    <3>1. PICK before \in Nat \cup {Pool!NoCursor} : before = first - 1
      BY <1>2, <1>5
    <3>2. PICK old \in Nat \cup {Pool!NoCursor} : old = since[m]
      BY <1>2
    <3>3. before \in Int /\ old \in Int
      BY <1>2
    <3>4. /\ Pool!Max({old, before}) \in {old, before}
          /\ Pool!Max({old, before}) >= old /\ Pool!Max({old, before}) >= before
      BY <3>3, PoolMaxOfTwo
    <3> QED BY <3>1, <3>2, <3>4
  <2>2. since' = IF cursor = Pool!NoCursor
                 THEN [m \in PoolMonitors |-> Pool!Max({since[m], first - 1})] ELSE since
    BY <1>1 DEF block, first
  <2> QED BY <1>2, <1>5, <2>1, <2>2
<1> HIDE DEF next
<1> QED BY <1>4, <1>5, <1>6, <1>7, <1>8

\* What was given stays given, and a monitor that is owed less is owed no more.
LEMMA GivenGrows ==
  ASSUME NEW block, since \in [PoolMonitors -> Int], since' \in [PoolMonitors -> Int],
         \A m \in PoolMonitors : since[m] <= since'[m] /\ given[m] \subseteq given'[m],
         GivenUpTo(block)
  PROVE  GivenUpTo(block)'
<1> SUFFICES ASSUME NEW b \in Pool!Blocks, \E m \in PoolMonitors : since'[m] < b, b <= block
             PROVE  \E m \in PoolMonitors : b \in given'[m]
  BY DEF GivenUpTo
<1>1. Pool!Blocks \subseteq Int
  BY PoolAssumptions DEF Pool!Blocks
<1>2. \E m \in PoolMonitors : since[m] < b
  BY <1>1
<1> QED BY <1>2 DEF GivenUpTo

\* Steps that give nothing, and leave the reads as they are or end them.
LEMMA PoolRests ==
  ASSUME PoolInv,
         poolClock' \in Pool!Blocks, poolClock <= poolClock',
         poolEnabled' \subseteq PoolMonitors,
         poolShared' \in [read : PoolReadIds \cup {Pool!NoRead}, expiresAt : Nat],
         poolRead' \in [PoolReadIds -> Pool!Read], poolScan' \in [Pool!Scans -> Pool!Scan],
         poolSamples' \in [PoolMonitors -> SUBSET Pool!Blocks],
         synced' \in [PoolMonitors -> Pool!Blocks \cup {Pool!NoCursor}],
         \A m \in PoolMonitors : synced'[m] \in {synced[m], Pool!NoCursor},
         since' \in [PoolMonitors -> Nat \cup {Pool!NoCursor}],
         \A m \in PoolMonitors : since[m] <= since'[m],
         UNCHANGED <<named, cursor, given>>,
         \A r \in PoolReadIds : poolRead'[r].phase \in {"logs", "resolved"} =>
           /\ poolRead[r].phase \in {"logs", "resolved"}
           /\ poolRead'[r].from = poolRead[r].from
           /\ poolRead'[r].confirmed = poolRead[r].confirmed,
         \A s \in Pool!Scans : poolScan'[s].next # Pool!NotYet =>
           /\ poolScan'[s].read \in PoolReadIds
           /\ poolRead'[poolScan'[s].read].phase = "resolved"
           /\ \/ poolScan'[s].next = poolScan[s].next
              \/ poolScan'[s].next = poolRead'[poolScan'[s].read].from
  PROVE  PoolInv'
<1>1. PoolTypes'
  BY DEF PoolInv, PoolTypes
<1>2. /\ poolClock \in Int /\ poolClock' \in Int
      /\ poolRead \in [PoolReadIds -> Pool!Read] /\ poolScan \in [Pool!Scans -> Pool!Scan]
  BY PoolAssumptions DEF PoolInv, PoolTypes, Pool!Blocks
<1>3. \A n : GivenUpTo(n) => GivenUpTo(n)'
  <2>1. since \in [PoolMonitors -> Int] /\ since' \in [PoolMonitors -> Int]
    BY DEF PoolInv, PoolTypes, Pool!NoCursor
  <2> QED BY <2>1, GivenGrows
<1>4. ReadsFollow'
  <2> SUFFICES ASSUME NEW r \in PoolReadIds,
                      poolRead'[r].phase \in {"logs", "resolved"}
               PROVE  /\ poolRead'[r].confirmed <= poolClock'
                      /\ GivenUpTo(poolRead[r].from - 1)'
    BY DEF ReadsFollow
  <2>1. PICK n : n = poolRead[r].from - 1
    OBVIOUS
  <2>2. poolRead[r].confirmed <= poolClock /\ GivenUpTo(n)
    BY <2>1 DEF PoolInv, ReadsFollow
  <2>3. poolRead'[r].confirmed \in Int
    BY DEF Pool!Read
  <2> QED BY <1>2, <1>3, <2>1, <2>2, <2>3
<1>5. ScansFollow'
  <2> SUFFICES ASSUME NEW m \in PoolMonitors, NEW k \in PoolRuns,
                      poolScan'[<<m, k>>].next # Pool!NotYet
               PROVE  GivenUpTo(poolScan[<<m, k>>].next - 1)'
    BY DEF ScansFollow, Pool!Scans
  <2>1. <<m, k>> \in Pool!Scans
    BY DEF Pool!Scans
  <2>2. PICK n : n = poolScan'[<<m, k>>].next - 1
    OBVIOUS
  <2>3. CASE poolScan'[<<m, k>>].next = poolScan[<<m, k>>].next
    <3>1. GivenUpTo(n)
      BY <2>2, <2>3 DEF PoolInv, ScansFollow
    <3> QED BY <1>3, <2>2, <3>1
  <2>4. CASE poolScan'[<<m, k>>].next = poolRead'[poolScan'[<<m, k>>].read].from
    <3>1. PICK r \in PoolReadIds : r = poolScan'[<<m, k>>].read /\ poolRead'[r].phase = "resolved"
      BY <2>1
    <3>2. GivenUpTo(n)
      BY <2>2, <2>4, <3>1 DEF PoolInv, ReadsFollow
    <3> QED BY <1>3, <2>2, <3>2
  <2> QED BY <2>1, <2>3, <2>4
<1>6. SavedIsGiven'
  <2>1. GivenUpTo(cursor)'
    <3>1. PICK n : n = cursor
      OBVIOUS
    <3>2. GivenUpTo(n)'
      BY <1>3, <3>1 DEF PoolInv, SavedIsGiven
    <3> QED BY <3>1, <3>2
  <2>2. ASSUME NEW m \in PoolMonitors PROVE GivenUpTo(synced[m])'
    <3>1. PICK n : n = synced'[m]
      OBVIOUS
    <3>2. GivenUpTo(n)
      <4>1. \A b \in Pool!Blocks : ~(b <= Pool!NoCursor)
        BY PoolAssumptions DEF Pool!Blocks, Pool!NoCursor
      <4>2. CASE n = Pool!NoCursor
        BY <4>1, <4>2 DEF GivenUpTo
      <4>3. CASE n = synced[m]
        BY <4>3 DEF PoolInv, SavedIsGiven
      <4> QED BY <3>1, <4>2, <4>3
    <3> QED BY <1>3, <3>1, <3>2
  <2> QED BY <2>1, <2>2 DEF SavedIsGiven
<1> QED
  BY <1>1, <1>4, <1>5, <1>6 DEF PoolInv

\* Every step keeps the invariant.
LEMMA PoolStep == PoolInv /\ [Pool!Next]_(Pool!vars) => PoolInv'
<1> SUFFICES ASSUME PoolInv, [Pool!Next]_(Pool!vars) PROVE PoolInv'
  OBVIOUS
<1>1. /\ poolClock \in Pool!Blocks /\ poolClock \in Nat /\ Pool!Blocks = 0..MaxClock
      /\ MaxClock \in Nat
      /\ poolShared \in [read : PoolReadIds \cup {Pool!NoRead}, expiresAt : Nat]
      /\ poolRead \in [PoolReadIds -> Pool!Read] /\ poolScan \in [Pool!Scans -> Pool!Scan]
  BY PoolAssumptions DEF PoolInv, PoolTypes, Pool!Blocks
<1>2. /\ cursor \in Pool!Blocks \cup {Pool!NoCursor}
      /\ since \in [PoolMonitors -> Nat \cup {Pool!NoCursor}]
      /\ \A m \in PoolMonitors : since[m] <= since[m]
      /\ poolSamples \in [PoolMonitors -> SUBSET Pool!Blocks]
      /\ given \in [PoolMonitors -> SUBSET Pool!Blocks]
      /\ synced \in [PoolMonitors -> Pool!Blocks \cup {Pool!NoCursor}]
      /\ poolEnabled \subseteq PoolMonitors
  BY DEF PoolInv, PoolTypes, Pool!NoCursor
<1>3. \A m \in PoolMonitors, k \in PoolRuns : <<m, k>> \in Pool!Scans
  BY DEF Pool!Scans
<1>4. \A s \in Pool!Scans : poolScan[s].next # Pool!NotYet =>
        /\ poolScan[s].read \in PoolReadIds
        /\ poolRead[poolScan[s].read].phase = "resolved"
  BY DEF PoolInv, ScansFollow, Pool!Scans
<1>5. Pool!NoRead \notin PoolReadIds
  BY PoolAssumptions DEF Pool!NoRead
\* Nothing but what is referred to goes on.
<1>6. ASSUME NEW new \in [PoolReadIds -> Pool!Read],
             poolScan' \in [Pool!Scans -> Pool!Scan], Pool!Reads(new)
      PROVE  /\ poolRead' \in [PoolReadIds -> Pool!Read]
             /\ \A r \in PoolReadIds : poolRead'[r] \in {new[r], Pool!Free}
             /\ \A s \in Pool!Scans : poolScan'[s].read \in PoolReadIds =>
                  poolRead'[poolScan'[s].read] = new[poolScan'[s].read]
  <2>1. poolRead' = [r \in PoolReadIds |->
          IF poolShared'.read = r \/ \E s \in Pool!Scans : poolScan'[s].read = r
          THEN new[r] ELSE Pool!Free]
    BY <1>6 DEF Pool!Reads
  <2> QED BY <2>1, PoolFree
<1>7. ASSUME NEW m \in PoolMonitors, NEW k \in PoolRuns, Pool!JoinRead(m, k) PROVE PoolInv'
  <2> DEFINE s == <<m, k>>
             next == [Pool!NoScan EXCEPT !.read = poolShared.read, !.starts = FALSE]
  <2>1. /\ poolScan[s].read = Pool!NoRead
        /\ UNCHANGED <<poolClock, named, poolEnabled, poolShared, poolRead, cursor, poolSamples,
                       given, synced, since>>
    BY <1>7 DEF Pool!JoinRead, Pool!MayScan, Pool!results
  <2>2. poolScan' = [poolScan EXCEPT ![s] = next]
    BY <1>1, <1>3, <1>7 DEF Pool!JoinRead, Pool!WaitFor
  <2>3. next \in Pool!Scan /\ next.next = Pool!NotYet
    BY <1>1, PoolFree DEF Pool!Scan, Pool!NoScan
  <2>4. poolScan[s].next = Pool!NotYet
    BY <1>3, <1>4, <1>5, <2>1
  <2> HIDE DEF next
  <2>5. poolScan' \in [Pool!Scans -> Pool!Scan]
    BY <1>1, <2>2, <2>3
  <2>6. \A u \in Pool!Scans : poolScan'[u].next # Pool!NotYet =>
          /\ poolScan'[u] = poolScan[u] /\ poolScan[u].next # Pool!NotYet
    BY <1>1, <1>3, <2>2, <2>3, <2>4
  <2> QED BY <1>1, <1>2, <1>4, <2>1, <2>5, <2>6, PoolRests
<1>8. ASSUME NEW m \in PoolMonitors, NEW k \in PoolRuns, Pool!StartRead(m, k) PROVE PoolInv'
  <2> DEFINE s == <<m, k>>
             i == Pool!Min(Pool!Unused)
             next == [Pool!NoScan EXCEPT !.read = i, !.starts = TRUE]
             begun == [poolRead[i] EXCEPT !.phase = "tip"]
             new == [poolRead EXCEPT ![i] = begun]
  <2>1. /\ poolScan[s].read = Pool!NoRead
        /\ poolShared' = [read |-> i, expiresAt |-> poolClock + Pool!ResourceInterval]
        /\ UNCHANGED <<poolClock, named, poolEnabled, cursor, poolSamples, given, synced, since>>
    BY <1>8 DEF Pool!StartRead, Pool!MayScan, Pool!results
  <2>2. i \in Pool!Unused
    <3>1. Pool!Unused # {} /\ Pool!Unused \subseteq Nat
      BY <1>8, PoolAssumptions DEF Pool!StartRead, Pool!Unused
    <3>2. \E n \in Pool!Unused : \A j \in Pool!Unused : n <= j
      BY <3>1, LeastOfNats
    <3> QED BY <3>2 DEF Pool!Min
  <2>3. i \in PoolReadIds /\ \A u \in Pool!Scans : poolScan[u].read # i
    BY <2>2 DEF Pool!Unused
  <2>4. Pool!ResourceInterval \in Nat
    <3> DEFINE I == {PoolIntervalOf[j] : j \in poolEnabled}
    <3>1. I \subseteq Nat /\ I # {}
      <4>1. m \in poolEnabled
        BY <1>8 DEF Pool!StartRead, Pool!MayScan
      <4> QED BY <1>2, <4>1, PoolAssumptions
    <3>2. \E n \in I : \A j \in I : n <= j
      BY <3>1, LeastOfNats
    <3>3. Pool!Min(I) \in I
      BY <3>2 DEF Pool!Min
    <3> HIDE DEF I
    <3> QED BY <1>2, <3>1, <3>3 DEF Pool!ResourceInterval, I
  <2>5. poolScan' = [poolScan EXCEPT ![s] = next]
    BY <1>1, <1>3, <1>8 DEF Pool!StartRead, Pool!WaitFor
  <2>6. Pool!Reads(new)
    <3>1. new = [poolRead EXCEPT ![i].phase = "tip"]
      BY <1>1, <2>3
    <3> HIDE DEF new, i
    <3> QED BY <1>8, <3>1 DEF Pool!StartRead, i
  <2> HIDE DEF i
  <2>7. next \in Pool!Scan /\ next.next = Pool!NotYet
    BY <2>3, PoolFree DEF Pool!Scan, Pool!NoScan
  <2>8. begun \in Pool!Read /\ begun.phase = "tip"
    BY <1>1, <2>3 DEF Pool!Read
  <2>9. poolScan[s].next = Pool!NotYet
    BY <1>3, <1>4, <1>5, <2>1
  <2> HIDE DEF next, begun
  <2>10. poolScan' \in [Pool!Scans -> Pool!Scan] /\ new \in [PoolReadIds -> Pool!Read]
    BY <1>1, <2>5, <2>7, <2>8
  <2>11. \A u \in Pool!Scans : poolScan'[u].next # Pool!NotYet =>
          /\ poolScan'[u] = poolScan[u] /\ poolScan[u].next # Pool!NotYet
    BY <1>1, <1>3, <2>5, <2>7, <2>9
  <2>12. \A r \in PoolReadIds : new[r] = poolRead[r] \/ (r = i /\ new[r].phase = "tip")
    BY <1>1, <2>8
  <2> HIDE DEF new
  <2>13. /\ poolRead' \in [PoolReadIds -> Pool!Read]
         /\ \A r \in PoolReadIds : poolRead'[r] \in {new[r], Pool!Free}
         /\ \A u \in Pool!Scans : poolScan'[u].read \in PoolReadIds =>
              poolRead'[poolScan'[u].read] = new[poolScan'[u].read]
    BY <1>6, <2>6, <2>10
  <2>14. \A r \in PoolReadIds : poolRead'[r].phase \in {"logs", "resolved"} =>
           poolRead'[r] = poolRead[r]
    BY <2>12, <2>13, PoolFree
  <2>15. \A u \in Pool!Scans : poolScan'[u].next # Pool!NotYet =>
           /\ poolScan'[u].read \in PoolReadIds
           /\ poolRead'[poolScan'[u].read].phase = "resolved"
           /\ poolScan'[u].next = poolScan[u].next
    BY <1>4, <2>3, <2>11, <2>12, <2>13
  <2>16. poolShared' \in [read : PoolReadIds \cup {Pool!NoRead}, expiresAt : Nat]
    BY <1>1, <2>1, <2>3, <2>4
  <2> QED BY <1>1, <1>2, <2>1, <2>10, <2>13, <2>14, <2>15, <2>16, PoolRests
\* A read under way goes on without a word of its blocks, or is rejected.
<1>9. ASSUME NEW r \in PoolReadIds, NEW next \in Pool!Read,
             poolRead[r].phase \in {"tip", "logs"},
             poolRead' = [poolRead EXCEPT ![r] = next],
             next.phase \in {"logs", "resolved"} =>
               /\ poolRead[r].phase = "logs"
               /\ next.from = poolRead[r].from /\ next.confirmed = poolRead[r].confirmed,
             poolShared' \in {poolShared, Pool!NotShared},
             UNCHANGED <<poolClock, named, poolEnabled, poolScan, cursor, poolSamples, given,
                         synced, since>>
      PROVE  PoolInv'
  <2>1. \A u \in Pool!Scans : poolScan[u].next # Pool!NotYet =>
          poolRead'[poolScan[u].read] = poolRead[poolScan[u].read]
    BY <1>1, <1>4, <1>9
  <2>2. poolRead' \in [PoolReadIds -> Pool!Read]
    BY <1>1, <1>9
  <2>3. poolShared' \in [read : PoolReadIds \cup {Pool!NoRead}, expiresAt : Nat]
    BY <1>1, <1>9, PoolFree
  <2>4. \A i \in PoolReadIds : poolRead'[i].phase \in {"logs", "resolved"} =>
           /\ poolRead[i].phase \in {"logs", "resolved"}
           /\ poolRead'[i].from = poolRead[i].from
           /\ poolRead'[i].confirmed = poolRead[i].confirmed
    BY <1>1, <1>9
  <2> QED BY <1>1, <1>2, <1>4, <1>9, <2>1, <2>2, <2>3, <2>4, PoolRests
<1>10. ASSUME NEW r \in PoolReadIds, Pool!Reject(r),
              poolRead[r].phase \in {"tip", "logs"},
              UNCHANGED <<poolClock, named, poolEnabled, poolScan, cursor, poolSamples, given,
                          synced, since>>
       PROVE  PoolInv'
  <2> DEFINE next == [poolRead[r] EXCEPT !.phase = "rejected"]
  <2>1. next \in Pool!Read /\ next.phase = "rejected"
    BY <1>1 DEF Pool!Read
  <2>2. /\ poolRead' = [poolRead EXCEPT ![r] = next]
        /\ poolShared' \in {poolShared, Pool!NotShared}
    BY <1>1, <1>10 DEF Pool!Reject
  <2> HIDE DEF next
  <2> QED BY <1>9, <1>10, <2>1, <2>2
<1>12. ASSUME NEW r \in PoolReadIds, Pool!ReadLogs(r) PROVE PoolInv'
  <2>1. /\ poolRead[r].phase = "logs"
        /\ UNCHANGED <<poolClock, named, poolEnabled, poolScan, cursor, poolSamples, given,
                       synced, since>>
    BY <1>12 DEF Pool!ReadLogs, Pool!results
  <2>2. CASE Pool!Reject(r)
    BY <1>10, <2>1, <2>2
  <2>3. CASE /\ poolRead' = [poolRead EXCEPT ![r].phase = "resolved", ![r].observedAt = poolClock]
             /\ UNCHANGED poolShared
    <3> DEFINE next == [poolRead[r] EXCEPT !.phase = "resolved", !.observedAt = poolClock]
    <3>1. /\ next \in Pool!Read /\ next.from = poolRead[r].from
          /\ next.confirmed = poolRead[r].confirmed
      BY <1>1 DEF Pool!Read
    <3>2. poolRead' = [poolRead EXCEPT ![r] = next]
      BY <1>1, <2>3
    <3> HIDE DEF next
    <3> QED BY <1>9, <2>1, <2>3, <3>1, <3>2
  <2> QED BY <1>12, <2>2, <2>3 DEF Pool!ReadLogs
<1>14. ASSUME NEW r \in PoolReadIds, Pool!ReadFails(r) PROVE PoolInv'
  BY <1>10, <1>14 DEF Pool!ReadFails, Pool!results
<1>15. ASSUME NEW r \in PoolReadIds, Pool!LatestBlock(r) PROVE PoolInv'
  <2>1. /\ poolRead[r].phase = "tip"
        /\ UNCHANGED <<poolClock, named, poolEnabled, poolScan, cursor, poolSamples, given, synced>>
    BY <1>15 DEF Pool!LatestBlock, Pool!results
  <2>2. CASE poolRead[r].aborted
    BY <1>10, <1>15, <2>1, <2>2 DEF Pool!LatestBlock
  <2>3. CASE ~poolRead[r].aborted
    <3>1. PICK next \in Pool!Read :
            /\ next.phase = "logs" /\ next.confirmed <= poolClock
            /\ poolRead' = [poolRead EXCEPT ![r] = next] /\ UNCHANGED poolShared
            /\ since' \in [PoolMonitors -> Nat \cup {Pool!NoCursor}]
            /\ \A m \in PoolMonitors : since[m] <= since'[m]
            /\ cursor = Pool!NoCursor => \A m \in PoolMonitors : next.from - 1 <= since'[m]
            /\ cursor # Pool!NoCursor => next.from - 1 <= cursor
      BY <1>15, <2>3, PoolLatestBlock
    <3>2. PICK before \in Int : before = next.from - 1
      BY <3>1 DEF Pool!Read
    <3>3. /\ cursor \in Int /\ since \in [PoolMonitors -> Int] /\ since' \in [PoolMonitors -> Int]
      BY <1>1, <1>2, <3>1 DEF Pool!NoCursor
    <3>4. \A n : GivenUpTo(n) => GivenUpTo(n)'
      BY <2>1, <3>1, <3>3, GivenGrows
    <3>5. GivenUpTo(before)'
      <4>1. CASE cursor = Pool!NoCursor
        <5>1. \A m \in PoolMonitors : before <= since'[m]
          BY <3>1, <3>2, <4>1
        <5> SUFFICES ASSUME NEW b \in Pool!Blocks, b <= before,
                            NEW m \in PoolMonitors, since'[m] < b
                     PROVE  FALSE
          BY DEF GivenUpTo
        <5>2. b \in Int /\ since'[m] \in Int /\ before <= since'[m]
          BY <1>1, <3>3, <5>1
        <5> QED BY <5>2
      <4>2. CASE cursor # Pool!NoCursor
        <5>1. before <= cursor
          BY <3>1, <3>2, <4>2
        <5>2. GivenUpTo(cursor)
          BY DEF PoolInv, SavedIsGiven
        <5>3. \A b \in Pool!Blocks : b <= before => b <= cursor
          BY <1>1, <3>2, <3>3, <5>1
        <5>4. GivenUpTo(before)
          BY <5>2, <5>3 DEF GivenUpTo
        <5> QED BY <3>4, <5>4
      <4> QED BY <4>1, <4>2
    <3>6. \A i \in PoolReadIds : i # r => poolRead'[i] = poolRead[i]
      BY <1>1, <3>1
    <3>7. poolRead'[r] = next /\ poolRead' \in [PoolReadIds -> Pool!Read]
      BY <1>1, <3>1
    <3>8. PoolTypes'
      BY <2>1, <3>1, <3>7 DEF PoolInv, PoolTypes
    <3>9. ReadsFollow'
      <4> SUFFICES ASSUME NEW i \in PoolReadIds,
                          poolRead'[i].phase \in {"logs", "resolved"}
                   PROVE  /\ poolRead'[i].confirmed <= poolClock
                          /\ GivenUpTo(poolRead[i].from - 1)'
        BY <2>1 DEF ReadsFollow
      <4>1. PICK n : n = poolRead'[i].from - 1
        OBVIOUS
      <4>2. CASE i = r
        BY <3>1, <3>2, <3>5, <3>7, <4>1, <4>2
      <4>3. CASE i # r
        <5>1. poolRead[i].confirmed <= poolClock /\ GivenUpTo(n)
          BY <3>6, <4>1, <4>3 DEF PoolInv, ReadsFollow
        <5> QED BY <3>4, <3>6, <4>1, <4>3, <5>1
      <4> QED BY <4>2, <4>3
    <3>10. ScansFollow'
      <4> SUFFICES ASSUME NEW m \in PoolMonitors, NEW k \in PoolRuns,
                          poolScan[<<m, k>>].next # Pool!NotYet
                   PROVE  /\ poolScan[<<m, k>>].read \in PoolReadIds
                          /\ poolRead'[poolScan[<<m, k>>].read].phase = "resolved"
                          /\ GivenUpTo(poolScan[<<m, k>>].next - 1)'
        BY <2>1 DEF ScansFollow
      <4>1. PICK n : n = poolScan[<<m, k>>].next - 1
        OBVIOUS
      <4>2. /\ poolScan[<<m, k>>].read \in PoolReadIds
            /\ poolRead[poolScan[<<m, k>>].read].phase = "resolved" /\ GivenUpTo(n)
        BY <4>1 DEF PoolInv, ScansFollow
      <4>3. poolScan[<<m, k>>].read # r
        BY <2>1, <4>2
      <4>4. GivenUpTo(n)' /\ n = poolScan'[<<m, k>>].next - 1
        BY <2>1, <3>4, <4>1, <4>2
      <4> QED BY <3>6, <4>2, <4>3, <4>4
    <3>11. SavedIsGiven'
      <4>1. PICK n : n = cursor
        OBVIOUS
      <4>2. GivenUpTo(n)' /\ cursor' = n
        BY <2>1, <3>4, <4>1 DEF PoolInv, SavedIsGiven
      <4>3. ASSUME NEW m \in PoolMonitors PROVE GivenUpTo(synced[m])'
        <5>1. PICK j : j = synced[m]
          OBVIOUS
        <5>2. GivenUpTo(j)' /\ synced'[m] = j
          BY <2>1, <3>4, <5>1 DEF PoolInv, SavedIsGiven
        <5> QED BY <5>2
      <4> QED BY <4>2, <4>3 DEF SavedIsGiven
    <3> QED BY <3>8, <3>9, <3>10, <3>11 DEF PoolInv
  <2> QED BY <2>2, <2>3
<1>16. ASSUME NEW m \in PoolMonitors, NEW k \in PoolRuns, Pool!TakeRead(m, k) PROVE PoolInv'
  <2> DEFINE s == <<m, k>>
             done == poolRead[poolScan[s].read]
             next == [poolScan[s] EXCEPT !.next = done.from]
  <2>1. /\ poolScan[s].read # Pool!NoRead /\ done.phase = "resolved"
        /\ synced' = [synced EXCEPT ![m] = Pool!NoCursor]
        /\ UNCHANGED <<poolClock, named, poolEnabled, poolShared, poolRead, cursor, poolSamples,
                       given, since>>
    BY <1>16 DEF Pool!TakeRead
  <2>2. poolScan[s].read \in PoolReadIds
    BY <1>1, <1>3, <2>1 DEF Pool!Scan
  <2>3. poolScan' = [poolScan EXCEPT ![s] = next]
    BY <1>1, <1>3, <1>16 DEF Pool!TakeRead
  <2>4. next \in Pool!Scan /\ next.read = poolScan[s].read /\ next.next = done.from
    <3>1. done \in Pool!Read /\ poolScan[s] \in Pool!Scan
      BY <1>1, <1>3, <2>2
    <3>2. done.from \in Nat
      BY <3>1 DEF Pool!Read
    <3> HIDE DEF done
    <3> QED BY <3>1, <3>2 DEF Pool!Scan
  <2> HIDE DEF next
  <2>5. poolScan' \in [Pool!Scans -> Pool!Scan]
    BY <1>1, <2>3, <2>4
  <2>6. \A u \in Pool!Scans : poolScan'[u].next # Pool!NotYet =>
           /\ poolScan'[u].read \in PoolReadIds
           /\ poolRead'[poolScan'[u].read].phase = "resolved"
           /\ \/ poolScan'[u].next = poolScan[u].next
              \/ poolScan'[u].next = poolRead'[poolScan'[u].read].from
    <3> SUFFICES ASSUME NEW u \in Pool!Scans, poolScan'[u].next # Pool!NotYet
                 PROVE  /\ poolScan'[u].read \in PoolReadIds
                        /\ poolRead[poolScan'[u].read].phase = "resolved"
                        /\ \/ poolScan'[u].next = poolScan[u].next
                           \/ poolScan'[u].next = poolRead[poolScan'[u].read].from
      BY <2>1
    <3>1. CASE u = s
      BY <1>1, <1>3, <2>1, <2>2, <2>3, <2>4, <3>1
    <3>2. CASE u # s
      BY <1>1, <1>4, <2>3, <3>2
    <3> QED BY <3>1, <3>2
  <2>7. /\ synced' \in [PoolMonitors -> Pool!Blocks \cup {Pool!NoCursor}]
        /\ \A n \in PoolMonitors : synced'[n] \in {synced[n], Pool!NoCursor}
    BY <1>2, <2>1
  <2> QED BY <1>1, <1>2, <2>1, <2>5, <2>6, <2>7, PoolRests
<1>17. ASSUME NEW m \in PoolMonitors, NEW k \in PoolRuns, Pool!Distribute(m, k) PROVE PoolInv'
  <2> DEFINE s == <<m, k>>
             b == poolScan[s].next
             done == poolRead[poolScan[s].read]
             next == [poolScan[s] EXCEPT !.next = b + 1]
  <2>1. /\ b # Pool!NotYet /\ b <= done.confirmed
        /\ given' = [given EXCEPT ![m] = @ \cup {b}]
        /\ poolSamples' = IF WindowsOf[m] # {} /\ Pool!AmountsKnown
                          THEN [poolSamples EXCEPT ![m] = @ \cup {b}] ELSE poolSamples
        /\ UNCHANGED <<poolClock, named, poolEnabled, poolShared, poolRead, cursor, synced, since>>
    BY <1>17 DEF Pool!Distribute
  <2>2. /\ poolScan[s].read \in PoolReadIds /\ done.phase = "resolved"
        /\ done.confirmed <= poolClock /\ done.confirmed \in Nat
    <3>1. poolScan[s].read \in PoolReadIds /\ done.phase = "resolved"
      BY <1>3, <1>4, <2>1
    <3>2. done \in Pool!Read
      BY <1>1, <3>1
    <3>3. done.confirmed <= poolClock
      BY <3>1 DEF PoolInv, ReadsFollow
    <3> QED BY <3>1, <3>2, <3>3 DEF Pool!Read
  <2>3. b \in Nat /\ b \in Pool!Blocks
    <3>1. b \in Nat \cup {Pool!NotYet}
      BY <1>1, <1>3 DEF Pool!Scan
    <3> QED BY <1>1, <2>1, <2>2, <3>1
  <2>4. poolScan' = [poolScan EXCEPT ![s] = next]
    BY <1>1, <1>3, <1>17 DEF Pool!Distribute
  <2>5. next \in Pool!Scan /\ next.read = poolScan[s].read /\ next.next = b + 1
    BY <1>1, <1>3, <2>3 DEF Pool!Scan
  <2> HIDE DEF next, b
  <2>6. /\ poolScan' \in [Pool!Scans -> Pool!Scan] /\ poolScan'[s] = next
        /\ \A u \in Pool!Scans : u # s => poolScan'[u] = poolScan[u]
    BY <1>1, <1>3, <2>4, <2>5
  <2>7. given' \in [PoolMonitors -> SUBSET Pool!Blocks] /\ given'[m] = given[m] \cup {b}
    BY <1>2, <2>1, <2>3
  <2>8. poolSamples' \in [PoolMonitors -> SUBSET Pool!Blocks]
    BY <1>2, <2>1, <2>3
  <2>9. PoolTypes'
    BY <2>1, <2>6, <2>7, <2>8 DEF PoolInv, PoolTypes
  <2>10. \A n : GivenUpTo(n) => GivenUpTo(n)'
    <3>1. since \in [PoolMonitors -> Int] /\ since' \in [PoolMonitors -> Int]
      BY <1>2, <2>1 DEF Pool!NoCursor
    <3>2. \A j \in PoolMonitors : since[j] <= since'[j] /\ given[j] \subseteq given'[j]
      BY <1>2, <2>1
    <3> QED BY <3>1, <3>2, GivenGrows
  <2>11. ReadsFollow'
    <3> SUFFICES ASSUME NEW i \in PoolReadIds,
                        poolRead[i].phase \in {"logs", "resolved"}
                 PROVE  /\ poolRead[i].confirmed <= poolClock
                        /\ GivenUpTo(poolRead[i].from - 1)'
      BY <2>1 DEF ReadsFollow
    <3>1. PICK n : n = poolRead[i].from - 1
      OBVIOUS
    <3>2. poolRead[i].confirmed <= poolClock /\ GivenUpTo(n)
      BY <3>1 DEF PoolInv, ReadsFollow
    <3> QED BY <2>1, <2>10, <3>1, <3>2
  <2>12. PICK this \in Nat : this = b /\ this \in Pool!Blocks
    BY <2>3
  <2>13. GivenUpTo(this)'
    <3>1. PICK n \in Int : n = this - 1
      OBVIOUS
    <3>2. GivenUpTo(n)
      BY <2>1, <2>12, <3>1 DEF PoolInv, ScansFollow, b
    <3>3. GivenUpTo(n)'
      BY <2>10, <3>2
    <3>4. this \in given'[m]
      BY <2>7, <2>12
    <3>5. \A x \in Pool!Blocks : x <= this => x <= n \/ x = this
      BY <1>1, <2>12, <3>1
    <3> QED BY <3>3, <3>4, <3>5 DEF GivenUpTo
  <2>14. ScansFollow'
    <3> SUFFICES ASSUME NEW n \in PoolMonitors, NEW j \in PoolRuns,
                        poolScan'[<<n, j>>].next # Pool!NotYet
                 PROVE  /\ poolScan'[<<n, j>>].read \in PoolReadIds
                        /\ poolRead[poolScan'[<<n, j>>].read].phase = "resolved"
                        /\ GivenUpTo(poolScan[<<n, j>>].next - 1)'
      BY <2>1 DEF ScansFollow
    <3>1. CASE <<n, j>> = s
      <4>1. poolScan'[<<n, j>>].next - 1 = this
        BY <2>5, <2>6, <2>12, <3>1
      <4> QED BY <2>2, <2>5, <2>6, <2>13, <3>1, <4>1
    <3>2. CASE <<n, j>> # s
      <4>1. poolScan'[<<n, j>>] = poolScan[<<n, j>>]
        BY <1>3, <2>6, <3>2
      <4>2. PICK x : x = poolScan[<<n, j>>].next - 1
        OBVIOUS
      <4>3. /\ poolScan[<<n, j>>].read \in PoolReadIds
            /\ poolRead[poolScan[<<n, j>>].read].phase = "resolved" /\ GivenUpTo(x)
        BY <4>1, <4>2 DEF PoolInv, ScansFollow
      <4>4. GivenUpTo(x)'
        BY <2>10, <4>3
      <4> QED BY <4>1, <4>2, <4>3, <4>4
    <3> QED BY <3>1, <3>2
  <2>15. SavedIsGiven'
    <3>1. PICK n : n = cursor
      OBVIOUS
    <3>2. GivenUpTo(n)' /\ cursor' = n
      BY <2>1, <2>10, <3>1 DEF PoolInv, SavedIsGiven
    <3>3. ASSUME NEW j \in PoolMonitors PROVE GivenUpTo(synced[j])'
      <4>1. PICK x : x = synced[j]
        OBVIOUS
      <4>2. GivenUpTo(x)' /\ synced'[j] = x
        BY <2>1, <2>10, <4>1 DEF PoolInv, SavedIsGiven
      <4> QED BY <4>2
    <3> QED BY <3>2, <3>3 DEF SavedIsGiven
  <2> QED BY <2>9, <2>11, <2>14, <2>15 DEF PoolInv
\* The scans that go on, when one is over.
<1>18. ASSUME NEW s \in Pool!Scans, poolScan' = [poolScan EXCEPT ![s] = Pool!NoScan],
              Pool!Reads(poolRead)
       PROVE  /\ poolScan' \in [Pool!Scans -> Pool!Scan]
              /\ poolRead' \in [PoolReadIds -> Pool!Read]
              /\ \A r \in PoolReadIds : poolRead'[r] \in {poolRead[r], Pool!Free}
              /\ \A u \in Pool!Scans : poolScan'[u].next # Pool!NotYet =>
                   /\ poolScan'[u] = poolScan[u]
                   /\ poolScan'[u].read \in PoolReadIds
                   /\ poolRead'[poolScan'[u].read] = poolRead[poolScan'[u].read]
                   /\ poolRead'[poolScan'[u].read].phase = "resolved"
  <2>1. poolScan' \in [Pool!Scans -> Pool!Scan]
    BY <1>1, <1>18, PoolFree
  <2>2. /\ poolRead' \in [PoolReadIds -> Pool!Read]
        /\ \A r \in PoolReadIds : poolRead'[r] \in {poolRead[r], Pool!Free}
        /\ \A u \in Pool!Scans : poolScan'[u].read \in PoolReadIds =>
             poolRead'[poolScan'[u].read] = poolRead[poolScan'[u].read]
    BY <1>1, <1>6, <1>18, <2>1
  <2>3. \A u \in Pool!Scans : poolScan'[u].next # Pool!NotYet => poolScan'[u] = poolScan[u]
    BY <1>1, <1>18, PoolFree
  <2> QED BY <1>4, <2>1, <2>2, <2>3
<1>19. ASSUME NEW m \in PoolMonitors, NEW k \in PoolRuns, Pool!EndScan(m, k) PROVE PoolInv'
  <2> DEFINE s == <<m, k>>
             done == poolRead[poolScan[s].read]
  <2>1. /\ poolScan[s].next # Pool!NotYet /\ poolScan[s].next > done.confirmed
        /\ poolSamples' = [poolSamples EXCEPT ![m] =
             IF WindowsOf[m] = {} THEN {} ELSE Pool!Kept(m, done.observedAt)]
        /\ cursor' = done.confirmed
        /\ synced' = [synced EXCEPT ![m] = done.confirmed]
        /\ poolScan' = [poolScan EXCEPT ![s] = Pool!NoScan]
        /\ UNCHANGED <<poolClock, named, poolEnabled, poolShared, given, since>>
        /\ Pool!Reads(poolRead)
    BY <1>19 DEF Pool!EndScan
  <2>2. s \in Pool!Scans /\ poolScan[s].read \in PoolReadIds /\ done.phase = "resolved"
    BY <1>3, <1>4, <2>1
  <2>3. done.confirmed \in Pool!Blocks
    <3>1. done.confirmed <= poolClock
      BY <2>2 DEF PoolInv, ReadsFollow
    <3>2. done.confirmed \in Nat
      BY <1>1, <2>2 DEF Pool!Read
    <3> QED BY <1>1, <3>1, <3>2
  <2>4. GivenUpTo(done.confirmed)
    <3>1. poolScan[s].next \in Int /\ done.confirmed \in Int
      BY <1>1, <2>2, <2>3 DEF Pool!Scan, Pool!NotYet
    <3>2. GivenUpTo(poolScan[s].next - 1)
      BY <2>1 DEF PoolInv, ScansFollow
    <3> QED BY <1>1, <2>1, <3>1, <3>2 DEF GivenUpTo
  <2> HIDE DEF done
  <2>5. /\ synced' \in [PoolMonitors -> Pool!Blocks \cup {Pool!NoCursor}]
        /\ synced'[m] = done.confirmed
        /\ \A n \in PoolMonitors : n # m => synced'[n] = synced[n]
    BY <1>2, <2>1, <2>3
  <2>6. poolSamples' \in [PoolMonitors -> SUBSET Pool!Blocks]
    <3>1. Pool!Kept(m, done.observedAt) \subseteq Pool!Blocks
      BY <1>2 DEF Pool!Kept
    <3> QED BY <1>2, <2>1, <3>1
  <2>7. /\ poolScan' \in [Pool!Scans -> Pool!Scan]
        /\ poolRead' \in [PoolReadIds -> Pool!Read]
        /\ \A r \in PoolReadIds : poolRead'[r] \in {poolRead[r], Pool!Free}
        /\ \A u \in Pool!Scans : poolScan'[u].next # Pool!NotYet =>
             /\ poolScan'[u] = poolScan[u]
             /\ poolScan'[u].read \in PoolReadIds
             /\ poolRead'[poolScan'[u].read] = poolRead[poolScan'[u].read]
             /\ poolRead'[poolScan'[u].read].phase = "resolved"
    BY <1>18, <2>1, <2>2
  <2>8. PoolTypes'
    BY <2>1, <2>3, <2>5, <2>6, <2>7 DEF PoolInv, PoolTypes
  <2>9. ReadsFollow'
    BY <2>1, <2>7, PoolFree DEF PoolInv, ReadsFollow, GivenUpTo
  <2>10. ScansFollow'
    <3> SUFFICES ASSUME NEW n \in PoolMonitors, NEW j \in PoolRuns,
                        poolScan'[<<n, j>>].next # Pool!NotYet
                 PROVE  GivenUpTo(poolScan[<<n, j>>].next - 1)'
      BY <1>3, <2>7 DEF ScansFollow
    <3>1. PICK x : x = poolScan[<<n, j>>].next - 1
      OBVIOUS
    <3>2. poolScan'[<<n, j>>] = poolScan[<<n, j>>] /\ GivenUpTo(x)
      BY <1>3, <2>7, <3>1 DEF PoolInv, ScansFollow
    <3>3. GivenUpTo(x)'
      BY <2>1, <3>2 DEF GivenUpTo
    <3> QED BY <3>1, <3>2, <3>3
  <2>11. SavedIsGiven'
    <3>1. PICK n : n = done.confirmed
      OBVIOUS
    <3>2. GivenUpTo(n)' /\ \A x : GivenUpTo(x) => GivenUpTo(x)'
      BY <2>1, <2>4, <3>1 DEF GivenUpTo
    <3>3. ASSUME NEW j \in PoolMonitors PROVE GivenUpTo(synced[j])'
      <4>1. PICK x : x = synced'[j]
        OBVIOUS
      <4>2. GivenUpTo(x)'
        BY <2>5, <3>1, <3>2, <4>1 DEF PoolInv, SavedIsGiven
      <4> QED BY <4>1, <4>2
    <3> QED BY <2>1, <3>1, <3>2, <3>3 DEF SavedIsGiven
  <2> QED BY <2>8, <2>9, <2>10, <2>11 DEF PoolInv
<1>20. ASSUME NEW m \in PoolMonitors, NEW k \in PoolRuns, Pool!ScanFails(m, k) PROVE PoolInv'
  <2> DEFINE s == <<m, k>>
  <2>1. /\ s \in Pool!Scans /\ poolScan' = [poolScan EXCEPT ![s] = Pool!NoScan]
        /\ UNCHANGED <<poolClock, named, poolEnabled, poolShared, cursor, poolSamples, given,
                       synced, since>>
        /\ Pool!Reads(poolRead)
    BY <1>3, <1>20 DEF Pool!ScanFails, Pool!results
  <2>2. /\ poolScan' \in [Pool!Scans -> Pool!Scan]
        /\ poolRead' \in [PoolReadIds -> Pool!Read]
        /\ \A r \in PoolReadIds : poolRead'[r] \in {poolRead[r], Pool!Free}
        /\ \A u \in Pool!Scans : poolScan'[u].next # Pool!NotYet =>
             /\ poolScan'[u] = poolScan[u]
             /\ poolScan'[u].read \in PoolReadIds
             /\ poolRead'[poolScan'[u].read] = poolRead[poolScan'[u].read]
             /\ poolRead'[poolScan'[u].read].phase = "resolved"
    BY <1>18, <2>1
  <2>3. \A r \in PoolReadIds : poolRead'[r].phase \in {"logs", "resolved"} =>
          poolRead'[r] = poolRead[r]
    BY <2>2, PoolFree
  <2> QED BY <1>1, <1>2, <2>1, <2>2, <2>3, PoolRests
<1>21. ASSUME Pool!Reconcile PROVE PoolInv'
  <2>0. PICK dropped \in SUBSET (poolEnabled \ poolEnabled') : Pool!Abort(dropped)
    BY <1>21 DEF Pool!Reconcile
  <2> DEFINE told(s) == [poolScan[s] EXCEPT !.aborted = TRUE]
             toldRead(r) == [poolRead[r] EXCEPT !.aborted = TRUE]
             governed == {poolScan[s].read : s \in {x \in Pool!Scans : x[1] \in dropped /\ poolScan[x].starts}}
             new == [r \in PoolReadIds |-> IF r \in governed THEN toldRead(r) ELSE poolRead[r]]
  <2>1. /\ poolEnabled' \subseteq PoolMonitors
        /\ since' = [m \in PoolMonitors |->
             IF m \in poolEnabled' \ poolEnabled
             THEN Pool!Max({since[m], cursor} \cup {poolRead[r].confirmed : r \in PoolReadIds})
             ELSE since[m]]
        /\ poolShared' = Pool!NotShared
        /\ poolScan' = [s \in Pool!Scans |->
             IF s[1] \in dropped /\ poolScan[s].read # Pool!NoRead THEN told(s) ELSE poolScan[s]]
        /\ UNCHANGED <<poolClock, named, cursor, poolSamples, given, synced>>
        /\ Pool!Reads(new)
    <3>1. poolEnabled' \subseteq PoolMonitors
      BY <1>2, <1>21 DEF Pool!Reconcile, Pool!AfterChange
    <3> QED BY <1>21, <2>0, <3>1 DEF Pool!Reconcile, Pool!results, Pool!Abort
  <2>2. ASSUME NEW m \in PoolMonitors
        PROVE  since'[m] \in Nat \cup {Pool!NoCursor} /\ since[m] <= since'[m]
    <3> DEFINE C == {poolRead[r].confirmed : r \in PoolReadIds}
               S == {since[m], cursor} \cup C
    <3>1. IsFiniteSet(S)
      <4>1. Pool!IsFiniteSet(PoolReadIds)
        BY PartsParameters DEF Pool!PoolParameters
      <4>2. IsFiniteSet(PoolReadIds)
        BY <4>1 DEF Pool!IsFiniteSet, IsFiniteSet
      <4>3. IsFiniteSet(C)
        <5> DEFINE f == [r \in PoolReadIds |-> poolRead[r].confirmed]
        <5>1. f \in Surjection(PoolReadIds, C)
          BY DEF Surjection
        <5> HIDE DEF f, C
        <5> QED BY <4>2, <5>1, FS_Surjection
      <4>4. IsFiniteSet({since[m], cursor})
        <5>1. IsFiniteSet({since[m]}) /\ IsFiniteSet({cursor})
          BY FS_Singleton
        <5>2. {since[m], cursor} = {since[m]} \cup {cursor}
          OBVIOUS
        <5>3. IsFiniteSet({since[m]} \cup {cursor})
          BY <5>1, FS_Union
        <5> QED BY <5>2, <5>3
      <4> QED BY <4>3, <4>4, FS_Union
    <3>2. S \subseteq Nat \cup {-1} /\ since[m] \in S /\ Pool!NoCursor = -1
      <4>1. C \subseteq Nat
        BY <1>1 DEF Pool!Read
      <4> QED BY <1>1, <1>2, <4>1 DEF Pool!NoCursor
    <3>3. since'[m] = since[m] \/ since'[m] = Pool!Max(S)
      BY <2>1
    <3> HIDE DEF S
    <3>4. \E n \in S : \A j \in S : n >= j
      BY <3>1, <3>2, GreatestFromNone
    <3>5. Pool!Max(S) \in S /\ \A j \in S : Pool!Max(S) >= j
      BY <3>4 DEF Pool!Max
    <3>6. Pool!Max(S) \in Nat \cup {Pool!NoCursor} /\ since[m] <= Pool!Max(S)
      BY <3>2, <3>5
    <3> QED BY <1>2, <3>3, <3>6
  <2>3. since' \in [PoolMonitors -> Nat \cup {Pool!NoCursor}]
    BY <2>1, <2>2
  <2>4. \A s \in Pool!Scans : /\ told(s) \in Pool!Scan /\ told(s).next = poolScan[s].next
                              /\ told(s).read = poolScan[s].read
    BY <1>1 DEF Pool!Scan
  <2>5. \A r \in PoolReadIds : /\ toldRead(r) \in Pool!Read /\ toldRead(r).phase = poolRead[r].phase
                               /\ toldRead(r).from = poolRead[r].from
                               /\ toldRead(r).confirmed = poolRead[r].confirmed
    BY <1>1 DEF Pool!Read
  <2> HIDE DEF told, toldRead, governed
  <2>6. /\ poolScan' \in [Pool!Scans -> Pool!Scan]
        /\ \A s \in Pool!Scans : poolScan'[s].next # Pool!NotYet =>
             poolScan'[s].next = poolScan[s].next /\ poolScan'[s].read = poolScan[s].read
    BY <1>1, <2>1, <2>4
  <2>7. /\ new \in [PoolReadIds -> Pool!Read]
        /\ \A r \in PoolReadIds :
             /\ new[r].phase = poolRead[r].phase /\ new[r].from = poolRead[r].from
             /\ new[r].confirmed = poolRead[r].confirmed
    BY <1>1, <2>5
  <2> HIDE DEF new
  <2>8. /\ poolRead' \in [PoolReadIds -> Pool!Read]
        /\ \A r \in PoolReadIds : poolRead'[r] \in {new[r], Pool!Free}
        /\ \A s \in Pool!Scans : poolScan'[s].read \in PoolReadIds =>
             poolRead'[poolScan'[s].read] = new[poolScan'[s].read]
    BY <1>6, <2>1, <2>6, <2>7
  <2>9. \A r \in PoolReadIds : poolRead'[r].phase \in {"logs", "resolved"} =>
          /\ poolRead[r].phase \in {"logs", "resolved"}
          /\ poolRead'[r].from = poolRead[r].from
          /\ poolRead'[r].confirmed = poolRead[r].confirmed
    BY <2>7, <2>8, PoolFree
  <2>10. \A s \in Pool!Scans : poolScan'[s].next # Pool!NotYet =>
           /\ poolScan'[s].read \in PoolReadIds
           /\ poolRead'[poolScan'[s].read].phase = "resolved"
           /\ poolScan'[s].next = poolScan[s].next
    BY <1>4, <2>6, <2>7, <2>8
  <2>11. poolShared' \in [read : PoolReadIds \cup {Pool!NoRead}, expiresAt : Nat]
    BY <2>1, PoolFree
  <2>12. poolEnabled' \subseteq PoolMonitors
         /\ UNCHANGED <<poolClock, named, cursor, poolSamples, given, synced>>
    BY <2>1
  <2> QED BY <1>1, <1>2, <2>2, <2>3, <2>6, <2>8, <2>9, <2>10, <2>11, <2>12, PoolRests
<1>22. ASSUME Pool!Restart PROVE PoolInv'
  <2>1. /\ poolShared' = Pool!NotShared
        /\ poolRead' = [r \in PoolReadIds |-> Pool!Free]
        /\ poolScan' = [s \in Pool!Scans |-> Pool!NoScan]
        /\ synced' = [m \in PoolMonitors |-> Pool!NoCursor]
        /\ UNCHANGED <<poolClock, named, poolEnabled, cursor, poolSamples, given, since>>
    BY <1>22 DEF Pool!Restart
  <2> QED BY <1>1, <1>2, <2>1, PoolFree, PoolRests
<1>23. ASSUME Pool!TimePasses PROVE PoolInv'
  <2>1. /\ poolClock < MaxClock /\ poolClock' = poolClock + 1
        /\ UNCHANGED <<named, poolEnabled, poolShared, poolRead, poolScan, cursor, poolSamples,
                       given, synced, since>>
    BY <1>23 DEF Pool!TimePasses, Pool!results
  <2>2. poolClock' \in Pool!Blocks /\ poolClock <= poolClock'
    BY <1>1, <2>1
  <2> QED BY <1>1, <1>2, <1>4, <2>1, <2>2, PoolRests
<1>24. ASSUME UNCHANGED Pool!vars PROVE PoolInv'
  BY <1>24 DEF Pool!vars, Pool!results, PoolInv, PoolTypes, ReadsFollow, ScansFollow, SavedIsGiven,
    GivenUpTo
<1> QED
  BY <1>7, <1>8, <1>12, <1>14, <1>15, <1>16, <1>17, <1>19, <1>20, <1>21, <1>22,
     <1>23, <1>24 DEF Pool!Next

LEMMA PoolInvAlways == PartsSpec => [](part = "pool" => PoolInv)
<1> DEFINE Inv == part = "pool" => PoolInv
<1>1. PartsInit => Inv
  BY PoolInit DEF PartsInit
<1>2. Inv /\ [PartsNext]_partVars => Inv'
  <2> SUFFICES ASSUME Inv, [PartsNext]_partVars, part' = "pool" PROVE PoolInv'
    OBVIOUS
  <2>1. part = "pool" /\ [Pool!Next]_(Pool!vars)
    BY DEF PartsNext, partVars, poolVars, Pool!vars, Pool!results
  <2> QED BY <2>1, PoolStep
<1> QED BY <1>1, <1>2, PTL DEF PartsSpec

\* However many monitors share the cursor of a pool, no event is passed over by all of them:
\* whatever scan saves it, early or late, after whatever failure or reconfiguration.
THEOREM NonePassedOverAlways == PartsSpec => []NonePassedOver
<1>1. (part = "pool" => PoolInv) => NonePassedOver
  BY DEF PoolInv, SavedIsGiven, GivenUpTo, NonePassedOver, Pool!NonePassedOver
<1> QED
  BY <1>1, PoolInvAlways, PTL

---------------------------------------------------------------------------
(* The volumes of the pool *)

LEMMA CountedOfPool == ASSUME NEW S PROVE Pool!Cardinality(S) = Cardinality(S)
  BY Zenon DEF Pool!Cardinality, Cardinality

\* What has more blocks counts more.
LEMMA MoreBlocksCountMore ==
  ASSUME NEW S \in SUBSET Pool!Blocks, NEW T \in SUBSET S
  PROVE  Pool!Cardinality(S) \in Nat /\ Pool!Cardinality(T) <= Pool!Cardinality(S)
<1>1. IsFiniteSet(Pool!Blocks)
  BY PoolAssumptions, FS_Interval DEF Pool!Blocks
<1>2. IsFiniteSet(S)
  BY <1>1, FS_Subset
<1> QED
  BY <1>2, FS_Subset, FS_CardinalityType, CountedOfPool

\* The samples that are kept reach back to the window before the longest, and a later time
\* keeps no more.
LEMMA CutoffGrows ==
  ASSUME NEW m \in PoolMonitors, WindowsOf[m] # {}
  PROVE  \A at \in Int :
           /\ Pool!Cutoff(m, at) \in Int
           /\ \A w \in WindowsOf[m] : Pool!Cutoff(m, at) <= at - 2 * w
           /\ \A later \in Int : at <= later => Pool!Cutoff(m, at) <= Pool!Cutoff(m, later)
<1>1. WindowsOf[m] \subseteq Nat
  BY PoolAssumptions
<1>2. IsFiniteSet(WindowsOf[m])
  <2>1. Pool!IsFiniteSet(WindowsOf[m])
    BY PartsParameters DEF Pool!PoolParameters
  <2> QED BY <2>1 DEF Pool!IsFiniteSet, IsFiniteSet
<1>3. \E n \in WindowsOf[m] : \A k \in WindowsOf[m] : n >= k
  BY <1>1, <1>2, GreatestOfNats
<1>4. PICK longest \in Nat : /\ longest = Pool!Max(WindowsOf[m])
                             /\ \A w \in WindowsOf[m] : w \in Nat /\ longest >= w
  BY <1>1, <1>3 DEF Pool!Max
<1>5. \A at : Pool!Cutoff(m, at) = at - 2 * longest
  BY <1>4 DEF Pool!Cutoff
<1> QED BY <1>4, <1>5

\* The swaps of the blocks after since, up to a block, that a volume at a time may count.
Sampled(m, n, at) ==
  \A b \in Pool!Blocks :
    since[m] < b /\ b <= n /\ b >= Pool!Cutoff(m, at) => b \in poolSamples[m]

\* While nobody has been told to abort, there is one read.
OneRead ==
  /\ \A s \in Pool!Scans : ~poolScan[s].aborted
  /\ \A r, q \in PoolReadIds : poolRead[r].phase # "free" /\ poolRead[q].phase # "free" => r = q

\* The scans are of monitors that are enabled.
OwnScans == \A s \in Pool!Scans : poolScan[s].read # Pool!NoRead => s[1] \in poolEnabled

\* What a read or a scan goes on from is sampled.
SamplesFollow ==
  \A m \in poolEnabled : named /\ WindowsOf[m] # {} =>
    /\ Sampled(m, cursor, poolClock)
    /\ \A r \in PoolReadIds :
         /\ poolRead[r].phase = "logs" => Sampled(m, poolRead[r].from - 1, poolClock)
         /\ poolRead[r].phase = "resolved" =>
              /\ poolRead[r].observedAt <= poolClock
              /\ Sampled(m, poolRead[r].from - 1, poolRead[r].observedAt)
    /\ \A k \in PoolRuns : poolScan[<<m, k>>].next # Pool!NotYet =>
         Sampled(m, poolScan[<<m, k>>].next - 1, poolRead[poolScan[<<m, k>>].read].observedAt)

\* The swaps there are between two blocks, as far as they are confirmed.
SwapsThere(from, to, confirmed) ==
  Pool!Cardinality({b \in Pool!Blocks : b > from /\ b <= Pool!Min({to, confirmed})})

\* A volume counts them.
Counts(m, w, v) ==
  v.current # Pool!Unavailable /\ since[m] <= v.at - 2 * w =>
    /\ v.current >= SwapsThere(v.at - w, v.at, v.confirmed)
    /\ v.previous >= SwapsThere(v.at - 2 * w, v.at - w, v.confirmed)

VolumesCount ==
  /\ volume = [m \in PoolMonitors |-> volume[m]]
  /\ \A m \in poolEnabled : \A w \in WindowsOf[m] :
       volume[m][w].at \in Int /\ Counts(m, w, volume[m][w])

Alone == poolReconciles = 0 /\ \E m \in PoolMonitors : poolEnabled = {m}

VolumesInv ==
  /\ poolReconciles \in Nat
  /\ Alone => OneRead /\ OwnScans /\ SamplesFollow /\ VolumesCount

PoolFacts ==
  /\ poolClock \in Nat /\ cursor \in Int /\ since \in [PoolMonitors -> Int]
  /\ poolRead \in [PoolReadIds -> Pool!Read] /\ poolScan \in [Pool!Scans -> Pool!Scan]
  /\ poolSamples \in [PoolMonitors -> SUBSET Pool!Blocks]
  /\ \A r \in PoolReadIds : /\ poolRead[r] \in Pool!Read /\ poolRead[r].from \in Nat
                            /\ poolRead[r].confirmed \in Nat /\ poolRead[r].observedAt \in Nat
  /\ \A m \in PoolMonitors, k \in PoolRuns :
       /\ <<m, k>> \in Pool!Scans /\ poolScan[<<m, k>>] \in Pool!Scan
       /\ poolScan[<<m, k>>].next \in Nat \cup {Pool!NotYet}
       /\ poolScan[<<m, k>>].read \in PoolReadIds \cup {Pool!NoRead}
       /\ poolScan[<<m, k>>].next # Pool!NotYet =>
            /\ poolScan[<<m, k>>].read \in PoolReadIds
            /\ poolRead[poolScan[<<m, k>>].read].phase = "resolved"

LEMMA PoolTyped == PoolInv => PoolFacts
<1> SUFFICES ASSUME PoolInv PROVE PoolFacts
  OBVIOUS
<1>1. /\ poolClock \in Nat /\ cursor \in Int /\ since \in [PoolMonitors -> Int]
      /\ poolRead \in [PoolReadIds -> Pool!Read] /\ poolScan \in [Pool!Scans -> Pool!Scan]
      /\ poolSamples \in [PoolMonitors -> SUBSET Pool!Blocks]
  <2>1. since \in [PoolMonitors -> Nat \cup {-1}]
    BY DEF PoolInv, PoolTypes, Pool!NoCursor
  <2> QED BY <2>1, PoolAssumptions DEF PoolInv, PoolTypes, Pool!Blocks, Pool!NoCursor
<1>2. \A r \in PoolReadIds : /\ poolRead[r] \in Pool!Read /\ poolRead[r].from \in Nat
                             /\ poolRead[r].confirmed \in Nat /\ poolRead[r].observedAt \in Nat
  BY <1>1 DEF Pool!Read
<1>3. \A m \in PoolMonitors, k \in PoolRuns :
        /\ <<m, k>> \in Pool!Scans /\ poolScan[<<m, k>>] \in Pool!Scan
        /\ poolScan[<<m, k>>].next \in Nat \cup {Pool!NotYet}
        /\ poolScan[<<m, k>>].read \in PoolReadIds \cup {Pool!NoRead}
  BY <1>1 DEF Pool!Scan, Pool!Scans
<1>4. \A m \in PoolMonitors, k \in PoolRuns : poolScan[<<m, k>>].next # Pool!NotYet =>
        /\ poolScan[<<m, k>>].read \in PoolReadIds
        /\ poolRead[poolScan[<<m, k>>].read].phase = "resolved"
  BY DEF PoolInv, ScansFollow
<1> QED BY <1>1, <1>2, <1>3, <1>4 DEF PoolFacts

LEMMA PoolTypedNext == PoolInv' => PoolFacts'
  BY PoolTyped, PTL

\* Later less is counted, and more is not owed.
LEMMA SampledLater ==
  ASSUME NEW m \in PoolMonitors, WindowsOf[m] # {}, since \in [PoolMonitors -> Int],
         since' \in [PoolMonitors -> Int], since[m] <= since'[m],
         poolSamples[m] \subseteq poolSamples'[m],
         NEW n \in Int, NEW at \in Int, NEW later \in Int, at <= later, Sampled(m, n, at)
  PROVE  Sampled(m, n, later)'
<1>1. /\ Pool!Cutoff(m, at) \in Int /\ Pool!Cutoff(m, later) \in Int
      /\ Pool!Cutoff(m, at) <= Pool!Cutoff(m, later)
  BY CutoffGrows
<1>2. Pool!Blocks \subseteq Int
  BY PoolAssumptions DEF Pool!Blocks
<1>3. Pool!Cutoff(m, later)' = Pool!Cutoff(m, later)
  BY DEF Pool!Cutoff
<1> SUFFICES ASSUME NEW b \in Pool!Blocks, since'[m] < b, b <= n, b >= Pool!Cutoff(m, later)
             PROVE  b \in poolSamples'[m]
  BY <1>3 DEF Sampled
<1>4. since[m] < b /\ b >= Pool!Cutoff(m, at)
  BY <1>1, <1>2
<1> QED BY <1>4 DEF Sampled

\* Steps that take no sample away.
LEMMA SamplesRest ==
  ASSUME PoolInv, PoolInv', SamplesFollow, poolClock <= poolClock',
         \A m \in PoolMonitors :
           since[m] <= since'[m] /\ poolSamples[m] \subseteq poolSamples'[m],
         UNCHANGED <<named, poolEnabled, cursor>>,
         \A r \in PoolReadIds : poolRead'[r].phase = "logs" =>
           \/ poolRead[r].phase = "logs" /\ poolRead'[r].from = poolRead[r].from
           \/ /\ cursor = Pool!NoCursor =>
                   \A m \in PoolMonitors : poolRead'[r].from - 1 <= since'[m]
              /\ cursor # Pool!NoCursor => poolRead'[r].from - 1 <= cursor,
         \A r \in PoolReadIds : poolRead'[r].phase = "resolved" =>
           /\ poolRead'[r].from = poolRead[r].from
           /\ \/ /\ poolRead[r].phase = "resolved"
                 /\ poolRead'[r].observedAt = poolRead[r].observedAt
              \/ poolRead[r].phase = "logs" /\ poolRead'[r].observedAt = poolClock,
         \A m \in PoolMonitors, k \in PoolRuns : poolScan'[<<m, k>>].next # Pool!NotYet =>
           \/ /\ poolScan'[<<m, k>>].next = poolScan[<<m, k>>].next
              /\ poolRead'[poolScan'[<<m, k>>].read].observedAt
                   = poolRead[poolScan[<<m, k>>].read].observedAt
           \/ poolScan'[<<m, k>>].next = poolRead'[poolScan'[<<m, k>>].read].from
           \/ (named /\ WindowsOf[m] # {} =>
                Sampled(m, poolScan[<<m, k>>].next - 1,
                        poolRead[poolScan[<<m, k>>].read].observedAt)')
  PROVE  SamplesFollow'
<1> SUFFICES ASSUME NEW m \in poolEnabled, named, WindowsOf[m] # {}
             PROVE  /\ Sampled(m, cursor, poolClock)'
                    /\ \A r \in PoolReadIds :
                         /\ poolRead'[r].phase = "logs" =>
                              Sampled(m, poolRead[r].from - 1, poolClock)'
                         /\ poolRead'[r].phase = "resolved" =>
                              /\ poolRead'[r].observedAt <= poolClock'
                              /\ Sampled(m, poolRead[r].from - 1, poolRead[r].observedAt)'
                    /\ \A k \in PoolRuns : poolScan'[<<m, k>>].next # Pool!NotYet =>
                         Sampled(m, poolScan[<<m, k>>].next - 1,
                                 poolRead[poolScan[<<m, k>>].read].observedAt)'
  BY DEF SamplesFollow
<1>0. m \in PoolMonitors
  BY DEF PoolInv, PoolTypes
<1>1. PoolFacts /\ PoolFacts'
  BY PoolTyped, PoolTypedNext
<1>2. /\ since \in [PoolMonitors -> Int] /\ since' \in [PoolMonitors -> Int]
      /\ since[m] <= since'[m] /\ poolSamples[m] \subseteq poolSamples'[m]
  BY <1>0, <1>1 DEF PoolFacts
<1>3. PICK now \in Nat, later \in Nat, at \in Int :
        now = poolClock /\ later = poolClock' /\ at = cursor
  BY <1>0, <1>1 DEF PoolFacts
<1>4. now <= later /\ cursor' = at /\ Sampled(m, at, now)
  BY <1>3 DEF SamplesFollow
<1>5. Sampled(m, at, later)'
  BY <1>0, <1>2, <1>3, <1>4, SampledLater
<1>6. Sampled(m, cursor, poolClock)'
  BY <1>3, <1>4, <1>5
<1>7. ASSUME NEW r \in PoolReadIds, poolRead'[r].phase = "logs"
      PROVE  Sampled(m, poolRead[r].from - 1, poolClock)'
  <2>1. PICK n \in Int : n = poolRead'[r].from - 1
    BY <1>0, <1>1 DEF PoolFacts
  <2>2. Sampled(m, n, later)'
    <3>1. CASE poolRead[r].phase = "logs" /\ poolRead'[r].from = poolRead[r].from
      <4>1. Sampled(m, n, now)
        BY <1>3, <2>1, <3>1 DEF SamplesFollow
      <4> QED BY <1>0, <1>2, <1>3, <1>4, <2>1, <4>1, SampledLater
    <3>2. CASE cursor = Pool!NoCursor /\ n <= since'[m]
      BY <1>0, <1>2, <2>1, <3>2, PoolAssumptions DEF Sampled, Pool!Blocks
    <3>3. CASE cursor # Pool!NoCursor /\ n <= cursor
      BY <1>3, <1>5, <2>1, <3>3, PoolAssumptions DEF Sampled, Pool!Blocks
    <3> QED BY <1>0, <1>7, <2>1, <3>1, <3>2, <3>3
  <2> QED BY <1>3, <2>1, <2>2
<1>8. ASSUME NEW r \in PoolReadIds, poolRead'[r].phase = "resolved"
      PROVE  /\ poolRead'[r].observedAt <= poolClock'
             /\ Sampled(m, poolRead[r].from - 1, poolRead[r].observedAt)'
  <2>1. PICK n \in Int, seen \in Nat :
          /\ n = poolRead'[r].from - 1 /\ n = poolRead[r].from - 1
          /\ seen = poolRead'[r].observedAt
    BY <1>0, <1>1, <1>8 DEF PoolFacts
  <2>2. Sampled(m, n, seen) /\ seen <= now
    <3>1. CASE poolRead[r].phase = "resolved" /\ poolRead'[r].observedAt = poolRead[r].observedAt
      BY <1>3, <2>1, <3>1 DEF SamplesFollow
    <3>2. CASE poolRead[r].phase = "logs" /\ poolRead'[r].observedAt = poolClock
      BY <1>3, <2>1, <3>2 DEF SamplesFollow
    <3> QED BY <1>8, <3>1, <3>2
  <2>3. Sampled(m, n, seen)'
    <3>1. n \in Int /\ seen \in Int /\ seen <= seen
      BY <2>1
    <3> QED BY <1>0, <1>2, <2>2, <3>1, SampledLater
  <2>4. seen <= later
    BY <1>3, <1>4, <2>1, <2>2
  <2> QED BY <1>3, <2>1, <2>3, <2>4
<1>9. ASSUME NEW k \in PoolRuns, poolScan'[<<m, k>>].next # Pool!NotYet
      PROVE  Sampled(m, poolScan[<<m, k>>].next - 1,
                     poolRead[poolScan[<<m, k>>].read].observedAt)'
  <2>1. PICK r \in PoolReadIds : r = poolScan'[<<m, k>>].read /\ poolRead'[r].phase = "resolved"
    BY <1>0, <1>1, <1>9 DEF PoolFacts
  <2>2. PICK n \in Int, seen \in Nat :
          n = poolScan'[<<m, k>>].next - 1 /\ seen = poolRead'[r].observedAt
    BY <1>0, <1>1, <1>9, <2>1 DEF PoolFacts
  <2>3. CASE /\ poolScan'[<<m, k>>].next = poolScan[<<m, k>>].next
             /\ poolRead'[r].observedAt = poolRead[poolScan[<<m, k>>].read].observedAt
    <3>1. Sampled(m, n, seen)
      BY <1>9, <2>2, <2>3 DEF SamplesFollow
    <3>2. Sampled(m, n, seen)'
      BY <1>0, <1>2, <2>2, <3>1, SampledLater
    <3> QED BY <2>1, <2>2, <3>2
  <2>4. CASE poolScan'[<<m, k>>].next = poolRead'[r].from
    <3>1. Sampled(m, n, seen)'
      BY <1>8, <2>1, <2>2, <2>4
    <3> QED BY <2>1, <2>2, <3>1
  <2> QED BY <1>0, <1>9, <2>1, <2>3, <2>4
<1> QED BY <1>6, <1>7, <1>8, <1>9

LEMMA PoolMinOfTwo ==
  ASSUME NEW a \in Int, NEW b \in Int
  PROVE  Pool!Min({a, b}) \in Int /\ Pool!Min({a, b}) <= a /\ Pool!Min({a, b}) <= b
<1>1. \E x \in {a, b} : \A y \in {a, b} : x =< y
  <2>1. CASE a <= b
    BY <2>1
  <2>2. CASE b <= a
    BY <2>2
  <2> QED BY <2>1, <2>2
<1>2. Pool!Min({a, b}) \in {a, b} /\ \A y \in {a, b} : Pool!Min({a, b}) =< y
  BY <1>1 DEF Pool!Min
<1> QED BY <1>2

\* What is kept of the samples holds each swap of both windows that is confirmed.
LEMMA SwapsAreCounted ==
  ASSUME PoolInv, NEW m \in PoolMonitors, NEW w \in WindowsOf[m], NEW at \in Int,
         NEW confirmed \in Int, Sampled(m, confirmed, at), since[m] <= at - 2 * w,
         NEW from \in Int, NEW to \in Int, at - 2 * w <= from
  PROVE  Pool!Swaps(m, at, from, to) >= SwapsThere(from, to, confirmed)
<1> DEFINE S == {b \in Pool!Kept(m, at) : b > from /\ b <= to}
           T == {b \in Pool!Blocks : b > from /\ b <= Pool!Min({to, confirmed})}
<1>1. /\ w \in Nat /\ since[m] \in Int /\ poolSamples[m] \subseteq Pool!Blocks
      /\ Pool!Blocks \subseteq Nat
  BY PoolTyped, PoolAssumptions DEF PoolFacts, Pool!Blocks
<1>2. Pool!Cutoff(m, at) \in Int /\ Pool!Cutoff(m, at) <= at - 2 * w
  BY CutoffGrows
<1>3. S \in SUBSET Pool!Blocks
  BY <1>1 DEF Pool!Kept
<1>4. T \in SUBSET S
  <2> SUFFICES ASSUME NEW b \in Pool!Blocks, b > from, b <= Pool!Min({to, confirmed})
               PROVE  b \in Pool!Kept(m, at) /\ b <= to
    OBVIOUS
  <2>0. PICK least \in Int : least = Pool!Min({to, confirmed}) /\ least <= to /\ least <= confirmed
    BY PoolMinOfTwo
  <2>1. b \in Nat /\ b <= to /\ b <= confirmed
    BY <1>1, <2>0
  <2>2. since[m] < b /\ b >= Pool!Cutoff(m, at)
    BY <1>1, <1>2, <2>1
  <2> QED BY <2>1, <2>2 DEF Sampled, Pool!Kept
<1> HIDE DEF S, T
<1>5. Pool!Cardinality(S) \in Nat /\ Pool!Cardinality(T) <= Pool!Cardinality(S)
  BY <1>3, <1>4, MoreBlocksCountMore
<1>6. Pool!Cardinality(T) \in Nat
  <2>1. T \in SUBSET Pool!Blocks /\ T \in SUBSET T
    BY <1>3, <1>4
  <2> QED BY <2>1, MoreBlocksCountMore
<1> QED BY <1>5, <1>6 DEF Pool!Swaps, SwapsThere, S, T

\* While the configuration stays, it is those of enabled monitors that scan.
LEMMA OwnScansStay ==
  ASSUME PoolInv, OwnScans, UNCHANGED poolEnabled, [Pool!Next]_(Pool!vars), ~Pool!Reconcile
  PROVE  OwnScans'
<1>1. /\ poolScan \in [Pool!Scans -> Pool!Scan] /\ Pool!NoScan.read = Pool!NoRead
      /\ \A m \in PoolMonitors, k \in PoolRuns : <<m, k>> \in Pool!Scans
  BY PoolFree DEF PoolInv, PoolTypes, Pool!Scans
<1>2. ASSUME NEW m \in PoolMonitors, NEW k \in PoolRuns, NEW next,
             poolScan' = [poolScan EXCEPT ![<<m, k>>] = next],
             next.read # Pool!NoRead => m \in poolEnabled
      PROVE  OwnScans'
  BY <1>1, <1>2 DEF OwnScans
<1>3. ASSUME NEW m \in PoolMonitors, NEW k \in PoolRuns,
             Pool!JoinRead(m, k) \/ Pool!StartRead(m, k)
      PROVE  OwnScans'
  <2>1. m \in poolEnabled
    BY <1>3 DEF Pool!JoinRead, Pool!StartRead, Pool!MayScan
  <2> QED BY <1>2, <1>3, <2>1 DEF Pool!JoinRead, Pool!StartRead, Pool!WaitFor
<1>4. ASSUME NEW m \in PoolMonitors, NEW k \in PoolRuns,
             Pool!TakeRead(m, k) \/ Pool!Distribute(m, k)
      PROVE  OwnScans'
  <2>1. \E next \in Int \cup {poolRead[poolScan[<<m, k>>].read].from} :
          poolScan' = [poolScan EXCEPT ![<<m, k>>] = [poolScan[<<m, k>>] EXCEPT !.next = next]]
    <3>1. CASE Pool!TakeRead(m, k)
      BY <1>1, <3>1 DEF Pool!TakeRead
    <3>2. CASE Pool!Distribute(m, k)
      <4>1. poolScan[<<m, k>>].next + 1 \in Int
        BY <1>1 DEF Pool!Scan, Pool!NotYet
      <4> QED BY <1>1, <3>2, <4>1 DEF Pool!Distribute
    <3> QED BY <1>4, <3>1, <3>2
  <2>2. PICK next : poolScan' = [poolScan EXCEPT ![<<m, k>>] = [poolScan[<<m, k>>] EXCEPT !.next = next]]
    BY <2>1
  <2>3. poolScan[<<m, k>>].read # Pool!NoRead => m \in poolEnabled
    BY <1>1 DEF OwnScans
  <2>4. [poolScan[<<m, k>>] EXCEPT !.next = next].read = poolScan[<<m, k>>].read
    BY <1>1 DEF Pool!Scan
  <2> QED BY <1>2, <2>2, <2>3, <2>4
<1>5. ASSUME NEW m \in PoolMonitors, NEW k \in PoolRuns,
             Pool!EndScan(m, k) \/ Pool!ScanFails(m, k)
      PROVE  OwnScans'
  BY <1>1, <1>2, <1>5 DEF Pool!EndScan, Pool!ScanFails
<1>6. ASSUME UNCHANGED poolScan PROVE OwnScans'
  BY <1>6 DEF OwnScans
<1>7. CASE Pool!Restart
  BY <1>1, <1>7 DEF Pool!Restart, OwnScans
<1>8. CASE \/ \E r \in PoolReadIds :
                Pool!LatestBlock(r) \/ Pool!ReadLogs(r) \/ Pool!ReadFails(r)
           \/ Pool!TimePasses \/ UNCHANGED Pool!vars
  BY <1>6, <1>8 DEF Pool!LatestBlock, Pool!ReadLogs, Pool!ReadFails, Pool!TimePasses, Pool!vars
<1> QED BY <1>3, <1>4, <1>5, <1>7, <1>8 DEF Pool!Next

\* Every step but a reconfiguration keeps what the volumes of a lone monitor rest on.
LEMMA VolumesGoOn ==
  ASSUME NEW only \in PoolMonitors, poolEnabled = {only}, UNCHANGED poolEnabled,
         PoolInv, PoolInv', OneRead, OwnScans, SamplesFollow, VolumesCount,
         [Pool!Next]_(Pool!vars), ~Pool!Reconcile
  PROVE  OneRead' /\ SamplesFollow' /\ VolumesCount'
<1>1. /\ poolClock \in Nat /\ cursor \in Int /\ since \in [PoolMonitors -> Int]
      /\ poolRead \in [PoolReadIds -> Pool!Read] /\ poolScan \in [Pool!Scans -> Pool!Scan]
      /\ poolSamples \in [PoolMonitors -> SUBSET Pool!Blocks]
      /\ since' \in [PoolMonitors -> Int]
      /\ poolRead' \in [PoolReadIds -> Pool!Read] /\ poolScan' \in [Pool!Scans -> Pool!Scan]
  BY PoolTyped, PoolTypedNext DEF PoolFacts
<1>2. \A m \in PoolMonitors, k \in PoolRuns : <<m, k>> \in Pool!Scans
  BY DEF Pool!Scans
<1>3. \A u \in Pool!Scans :
        /\ poolScan[u].read \in PoolReadIds \cup {Pool!NoRead}
        /\ poolScan[u].next # Pool!NotYet =>
             /\ poolScan[u].read \in PoolReadIds
             /\ poolRead[poolScan[u].read].phase = "resolved"
  BY PoolTyped DEF PoolFacts, Pool!Scans
<1>4. Pool!NoRead \notin PoolReadIds
  BY PoolAssumptions DEF Pool!NoRead
<1>5. ASSUME \A m \in PoolMonitors : since[m] <= since'[m],
             volume' = [m \in PoolMonitors |-> volume'[m]],
             \A m \in PoolMonitors : \A w \in WindowsOf[m] :
               volume'[m][w] \in {volume[m][w], Pool!NoVolume}
      PROVE  VolumesCount'
  <2> SUFFICES ASSUME NEW m \in poolEnabled, NEW w \in WindowsOf[m]
               PROVE  volume'[m][w].at \in Int /\ Counts(m, w, volume[m][w])'
    BY <1>5 DEF VolumesCount
  <2>1. PICK v : v = volume'[m][w]
    OBVIOUS
  <2>2. CASE v = volume[m][w]
    <3>1. v.at \in Int /\ Counts(m, w, v)
      BY <2>2 DEF VolumesCount
    <3>2. w \in Nat /\ since[m] \in Int /\ since'[m] \in Int /\ since[m] <= since'[m]
      BY <1>1, <1>5, PoolAssumptions
    <3>3. Counts(m, w, v)'
      BY <3>1, <3>2 DEF Counts, SwapsThere
    <3> QED BY <2>1, <3>1, <3>3
  <2>3. CASE v = Pool!NoVolume
    <3>1. v.at \in Int /\ v.current = Pool!Unavailable
      BY <2>3 DEF Pool!NoVolume
    <3> QED BY <2>1, <3>1 DEF Counts
  <2> QED BY <1>5, <2>1, <2>2, <2>3
<1>6. ASSUME UNCHANGED <<since, volume>> PROVE VolumesCount'
  BY <1>1, <1>5, <1>6 DEF VolumesCount
<1>7. ASSUME NEW m \in PoolMonitors, NEW k \in PoolRuns, Pool!JoinRead(m, k)
      PROVE  OneRead' /\ SamplesFollow' /\ VolumesCount'
  <2> DEFINE s == <<m, k>>
  <2>1. /\ poolScan[s].read = Pool!NoRead
        /\ UNCHANGED <<poolClock, named, poolRead, cursor, poolSamples, volume, since>>
        /\ poolScan' = [poolScan EXCEPT
             ![s] = [Pool!NoScan EXCEPT !.read = poolShared.read, !.starts = FALSE]]
    BY <1>7 DEF Pool!JoinRead, Pool!MayScan, Pool!results, Pool!WaitFor
  <2>2. poolScan[s].next = Pool!NotYet
    BY <1>2, <1>3, <1>4, <2>1
  <2>3. \A u \in Pool!Scans : /\ ~poolScan'[u].aborted
                              /\ poolScan'[u].next = poolScan[u].next
                              /\ u # s => poolScan'[u] = poolScan[u]
    BY <1>1, <1>2, <2>1, <2>2 DEF Pool!NoScan, OneRead
  <2> HIDE DEF s
  <2>4. OneRead'
    BY <2>1, <2>3 DEF OneRead
  <2>5. SamplesFollow'
    BY <1>1, <1>2, <2>1, <2>2, <2>3, SamplesRest
  <2> QED BY <1>6, <2>1, <2>4, <2>5
<1>8. ASSUME NEW m \in PoolMonitors, NEW k \in PoolRuns, Pool!StartRead(m, k)
      PROVE  OneRead' /\ SamplesFollow' /\ VolumesCount'
  <2> DEFINE s == <<m, k>>
             i == Pool!Min(Pool!Unused)
  <2>1. /\ \A j \in PoolRuns : poolScan[<<m, j>>].read = Pool!NoRead \/ poolScan[<<m, j>>].aborted
        /\ poolScan' = [poolScan EXCEPT ![s] = [Pool!NoScan EXCEPT !.read = i, !.starts = TRUE]]
        /\ poolShared'.read = i
        /\ Pool!Reads([poolRead EXCEPT ![i].phase = "tip"])
        /\ UNCHANGED <<poolClock, named, cursor, poolSamples, volume, since>>
    BY <1>8 DEF Pool!StartRead, Pool!MayScan, Pool!results, Pool!WaitFor
  <2> HIDE DEF i
  <2>2. \A u \in Pool!Scans : poolScan[u].read = Pool!NoRead /\ poolScan[u].next = Pool!NotYet
    <3>0. m = only
      BY <1>8 DEF Pool!StartRead, Pool!MayScan
    <3>1. \A u \in Pool!Scans : poolScan[u].read # Pool!NoRead => \E j \in PoolRuns : u = <<m, j>>
      BY <3>0 DEF Pool!Scans, OwnScans
    <3>2. \A u \in Pool!Scans : poolScan[u].read = Pool!NoRead
      BY <2>1, <3>1 DEF OneRead
    <3> QED BY <1>3, <1>4, <3>2
  <2>3. \A u \in Pool!Scans : /\ ~poolScan'[u].aborted
                              /\ poolScan'[u].next = Pool!NotYet
                              /\ poolScan'[u].read \in {Pool!NoRead, i}
    BY <1>1, <1>2, <2>1, <2>2 DEF Pool!NoScan, OneRead
  <2>4. \A r \in PoolReadIds :
          poolRead'[r] \in {[poolRead EXCEPT ![i].phase = "tip"][r], Pool!Free}
          /\ (r # i => poolRead'[r] = Pool!Free)
    BY <1>4, <2>1, <2>3 DEF Pool!Reads
  <2>5. \A r \in PoolReadIds : /\ poolRead'[r].phase \in {"free", "tip"}
                               /\ poolRead'[r].phase # "free" => r = i
    <3>1. i \in PoolReadIds => [poolRead EXCEPT ![i].phase = "tip"][i].phase = "tip"
      BY <1>1 DEF Pool!Read
    <3> QED BY <2>4, <3>1, PoolFree
  <2>6. OneRead'
    BY <2>3, <2>5 DEF OneRead
  <2>7. SamplesFollow'
    BY <1>1, <1>2, <2>1, <2>3, <2>5, SamplesRest
  <2> QED BY <1>6, <2>1, <2>6, <2>7
\* A read under way goes on.
<1>9. ASSUME NEW r \in PoolReadIds, NEW next \in Pool!Read,
             poolRead[r].phase \in {"tip", "logs"},
             poolRead' = [poolRead EXCEPT ![r] = next],
             next.phase = "logs" =>
               \/ poolRead[r].phase = "logs" /\ next.from = poolRead[r].from
               \/ /\ cursor = Pool!NoCursor => \A m \in PoolMonitors : next.from - 1 <= since'[m]
                  /\ cursor # Pool!NoCursor => next.from - 1 <= cursor,
             next.phase = "resolved" =>
               /\ poolRead[r].phase = "logs" /\ next.from = poolRead[r].from
               /\ next.observedAt = poolClock,
             \A m \in PoolMonitors : since[m] <= since'[m],
             UNCHANGED <<poolClock, named, poolScan, cursor, poolSamples, volume>>
      PROVE  OneRead' /\ SamplesFollow' /\ VolumesCount'
  <2>1. poolRead'[r] = next /\ \A q \in PoolReadIds : q # r => poolRead'[q] = poolRead[q]
    BY <1>1, <1>9
  <2>2. OneRead'
    BY <1>9, <2>1 DEF OneRead
  <2>3. \A m \in PoolMonitors, j \in PoolRuns : poolScan'[<<m, j>>].next # Pool!NotYet =>
          /\ poolScan'[<<m, j>>].next = poolScan[<<m, j>>].next
          /\ poolRead'[poolScan'[<<m, j>>].read].observedAt
               = poolRead[poolScan[<<m, j>>].read].observedAt
    BY <1>2, <1>3, <1>9, <2>1
  <2>4. \A q \in PoolReadIds : poolRead'[q].phase = "logs" =>
          \/ poolRead[q].phase = "logs" /\ poolRead'[q].from = poolRead[q].from
          \/ /\ cursor = Pool!NoCursor =>
                  \A m \in PoolMonitors : poolRead'[q].from - 1 <= since'[m]
             /\ cursor # Pool!NoCursor => poolRead'[q].from - 1 <= cursor
    BY <1>9, <2>1
  <2>5. \A q \in PoolReadIds : poolRead'[q].phase = "resolved" =>
          /\ poolRead'[q].from = poolRead[q].from
          /\ \/ /\ poolRead[q].phase = "resolved"
                /\ poolRead'[q].observedAt = poolRead[q].observedAt
             \/ poolRead[q].phase = "logs" /\ poolRead'[q].observedAt = poolClock
    BY <1>9, <2>1
  <2>6. /\ poolClock <= poolClock' /\ UNCHANGED <<named, cursor>>
        /\ \A m \in PoolMonitors :
             since[m] <= since'[m] /\ poolSamples[m] \subseteq poolSamples'[m]
    BY <1>1, <1>9
  <2>7. SamplesFollow'
    BY <2>3, <2>4, <2>5, <2>6, SamplesRest
  <2>8. VolumesCount'
    BY <1>5, <1>9 DEF VolumesCount
  <2> QED BY <2>2, <2>7, <2>8
<1>10. ASSUME NEW r \in PoolReadIds, Pool!Reject(r),
              poolRead[r].phase \in {"tip", "logs"},
              UNCHANGED <<poolClock, named, poolScan, cursor, poolSamples, volume, since>>
       PROVE  OneRead' /\ SamplesFollow' /\ VolumesCount'
  <2> DEFINE next == [poolRead[r] EXCEPT !.phase = "rejected"]
  <2>1. next \in Pool!Read /\ next.phase = "rejected"
    BY <1>1 DEF Pool!Read
  <2>2. poolRead' = [poolRead EXCEPT ![r] = next]
    BY <1>1, <1>10 DEF Pool!Reject
  <2> HIDE DEF next
  <2>3. \A m \in PoolMonitors : since[m] <= since'[m]
    BY <1>1, <1>10
  <2> QED BY <1>9, <1>10, <2>1, <2>2, <2>3
<1>12. ASSUME NEW r \in PoolReadIds, Pool!ReadLogs(r)
       PROVE  OneRead' /\ SamplesFollow' /\ VolumesCount'
  <2>1. /\ poolRead[r].phase = "logs"
        /\ UNCHANGED <<poolClock, named, poolScan, cursor, poolSamples, volume, since>>
    BY <1>12 DEF Pool!ReadLogs, Pool!results
  <2>2. CASE Pool!Reject(r)
    BY <1>10, <2>1, <2>2
  <2>3. CASE poolRead' = [poolRead EXCEPT ![r].phase = "resolved", ![r].observedAt = poolClock]
    <3> DEFINE next == [poolRead[r] EXCEPT !.phase = "resolved", !.observedAt = poolClock]
    <3>1. /\ next \in Pool!Read /\ next.phase = "resolved" /\ next.from = poolRead[r].from
          /\ next.observedAt = poolClock
      BY <1>1 DEF Pool!Read
    <3>2. poolRead' = [poolRead EXCEPT ![r] = next]
      BY <1>1, <2>3
    <3> HIDE DEF next
    <3>3. \A m \in PoolMonitors : since[m] <= since'[m]
      BY <1>1, <2>1
    <3> QED BY <1>9, <2>1, <3>1, <3>2, <3>3
  <2> QED BY <1>12, <2>2, <2>3 DEF Pool!ReadLogs
<1>14. ASSUME NEW r \in PoolReadIds, Pool!ReadFails(r)
       PROVE  OneRead' /\ SamplesFollow' /\ VolumesCount'
  BY <1>10, <1>14 DEF Pool!ReadFails, Pool!results
<1>15. ASSUME NEW r \in PoolReadIds, Pool!LatestBlock(r)
       PROVE  OneRead' /\ SamplesFollow' /\ VolumesCount'
  <2>1. /\ poolRead[r].phase = "tip"
        /\ UNCHANGED <<poolClock, named, poolScan, cursor, poolSamples, volume>>
    BY <1>15 DEF Pool!LatestBlock, Pool!results
  <2>2. CASE poolRead[r].aborted
    BY <1>10, <1>15, <2>1, <2>2 DEF Pool!LatestBlock
  <2>3. CASE ~poolRead[r].aborted
    <3>1. PICK next \in Pool!Read :
            /\ next.phase = "logs" /\ next.confirmed <= poolClock
            /\ poolRead' = [poolRead EXCEPT ![r] = next] /\ UNCHANGED poolShared
            /\ since' \in [PoolMonitors -> Nat \cup {Pool!NoCursor}]
            /\ \A m \in PoolMonitors : since[m] <= since'[m]
            /\ cursor = Pool!NoCursor => \A m \in PoolMonitors : next.from - 1 <= since'[m]
            /\ cursor # Pool!NoCursor => next.from - 1 <= cursor
      BY <1>15, <2>3, PoolLatestBlock
    <3> QED BY <1>9, <2>1, <3>1
  <2> QED BY <2>2, <2>3
<1>16. ASSUME NEW m \in PoolMonitors, NEW k \in PoolRuns, Pool!TakeRead(m, k)
       PROVE  OneRead' /\ SamplesFollow' /\ VolumesCount'
  <2> DEFINE s == <<m, k>>
  <2>1. /\ volume' = [volume EXCEPT ![m] = Pool!NoVolumes(m)]
        /\ UNCHANGED <<poolClock, named, poolRead, cursor, poolSamples, since>>
        /\ poolScan' = [poolScan EXCEPT ![s].next = poolRead[poolScan[s].read].from]
    BY <1>16 DEF Pool!TakeRead
  <2>2. \A u \in Pool!Scans : /\ poolScan'[u].aborted = poolScan[u].aborted
                              /\ poolScan'[u].read = poolScan[u].read
                              /\ u # s => poolScan'[u].next = poolScan[u].next
    BY <1>1, <1>2, <2>1 DEF Pool!Scan
  <2>3. poolScan'[s].next = poolRead'[poolScan'[s].read].from
    BY <1>1, <1>2, <2>1, <2>2 DEF Pool!Scan
  <2>4. OneRead'
    BY <2>1, <2>2 DEF OneRead
  <2>5. \A n \in PoolMonitors, j \in PoolRuns : poolScan'[<<n, j>>].next # Pool!NotYet =>
          \/ /\ poolScan'[<<n, j>>].next = poolScan[<<n, j>>].next
             /\ poolRead'[poolScan'[<<n, j>>].read].observedAt
                  = poolRead[poolScan[<<n, j>>].read].observedAt
          \/ poolScan'[<<n, j>>].next = poolRead'[poolScan'[<<n, j>>].read].from
    BY <1>2, <2>1, <2>2, <2>3
  <2>6. SamplesFollow'
    BY <1>1, <2>1, <2>5, SamplesRest
  <2>7. VolumesCount'
    <3>1. volume' = [j \in PoolMonitors |-> volume'[j]]
      BY <2>1 DEF VolumesCount
    <3>2. \A j \in PoolMonitors : volume'[j] \in {volume[j], Pool!NoVolumes(j)}
      BY <2>1 DEF VolumesCount
    <3>3. \A j \in PoolMonitors : \A w \in WindowsOf[j] :
            volume'[j][w] \in {volume[j][w], Pool!NoVolume}
      BY <3>2 DEF Pool!NoVolumes
    <3>4. \A j \in PoolMonitors : since[j] <= since'[j]
      BY <1>1, <2>1
    <3> QED BY <1>5, <3>1, <3>3, <3>4
  <2> QED BY <2>4, <2>6, <2>7
<1>17. ASSUME NEW m \in PoolMonitors, NEW k \in PoolRuns, Pool!Distribute(m, k)
       PROVE  OneRead' /\ SamplesFollow' /\ VolumesCount'
  <2> DEFINE s == <<m, k>>
  <2>1. /\ poolScan[s].next # Pool!NotYet
        /\ poolSamples' = IF WindowsOf[m] # {} /\ named
                          THEN [poolSamples EXCEPT ![m] = @ \cup {poolScan[s].next}]
                          ELSE poolSamples
        /\ poolScan' = [poolScan EXCEPT ![s].next = @ + 1]
        /\ UNCHANGED <<poolClock, named, poolRead, cursor, volume, since>>
    BY <1>17 DEF Pool!Distribute, Pool!AmountsKnown
  <2>2. PICK b \in Nat : b = poolScan[s].next
    BY <1>1, <1>2, <2>1 DEF Pool!Scan
  <2>3. \A u \in Pool!Scans : /\ poolScan'[u].aborted = poolScan[u].aborted
                              /\ poolScan'[u].read = poolScan[u].read
                              /\ u # s => poolScan'[u].next = poolScan[u].next
    BY <1>1, <1>2, <2>1 DEF Pool!Scan
  <2>4. poolScan'[s].next = b + 1
    BY <1>1, <1>2, <2>1, <2>2 DEF Pool!Scan
  <2>5. OneRead'
    BY <2>1, <2>3 DEF OneRead
  <2>6. \A n \in PoolMonitors : poolSamples[n] \subseteq poolSamples'[n]
    BY <1>1, <2>1
  <2>11. m \in poolEnabled
    BY <1>2, <1>3, <1>4, <2>1 DEF OwnScans
  <2>7. ASSUME named, WindowsOf[m] # {}
        PROVE  Sampled(m, poolScan[s].next - 1, poolRead[poolScan[s].read].observedAt)'
    <3>1. PICK seen \in Nat : seen = poolRead[poolScan[s].read].observedAt
      BY <1>1, <1>2, <1>3, <2>1 DEF Pool!Read
    <3>2. Sampled(m, b - 1, seen)
      BY <2>1, <2>2, <2>7, <2>11, <3>1 DEF SamplesFollow
    <3>3. b \in poolSamples'[m] /\ poolSamples[m] \subseteq poolSamples'[m]
      BY <1>1, <2>1, <2>2, <2>7
    <3>4. Pool!Cutoff(m, seen)' = Pool!Cutoff(m, seen)
      BY DEF Pool!Cutoff
    <3>5. Pool!Blocks \subseteq Nat
      BY PoolAssumptions DEF Pool!Blocks
    <3>6. Sampled(m, b, seen)'
      BY <2>1, <3>2, <3>3, <3>4, <3>5 DEF Sampled
    <3>7. poolScan'[s].next - 1 = b /\ poolRead'[poolScan'[s].read].observedAt = seen
      BY <1>2, <2>1, <2>3, <2>4, <3>1
    <3> QED BY <3>6, <3>7
  <2>8. ASSUME NEW n \in PoolMonitors, NEW j \in PoolRuns, poolScan'[<<n, j>>].next # Pool!NotYet
        PROVE  \/ /\ poolScan'[<<n, j>>].next = poolScan[<<n, j>>].next
                  /\ poolRead'[poolScan'[<<n, j>>].read].observedAt
                       = poolRead[poolScan[<<n, j>>].read].observedAt
               \/ (named /\ WindowsOf[n] # {} =>
                    Sampled(n, poolScan[<<n, j>>].next - 1,
                            poolRead[poolScan[<<n, j>>].read].observedAt)')
    <3>1. CASE <<n, j>> = s
      <4>1. n = m /\ j = k
        BY <3>1
      <4> QED BY <2>7, <4>1
    <3>2. CASE <<n, j>> # s
      BY <1>2, <2>1, <2>3, <3>2
    <3> QED BY <3>1, <3>2
  <2> HIDE DEF s
  <2>9. poolClock <= poolClock' /\ \A n \in PoolMonitors : since[n] <= since'[n]
    BY <1>1, <2>1
  <2>10. SamplesFollow'
    BY <1>1, <2>1, <2>6, <2>8, <2>9, SamplesRest
  <2> QED BY <1>6, <2>1, <2>5, <2>10
\* Of the reads, those go on that a scan refers to.
<1>18. ASSUME NEW s \in Pool!Scans, poolScan' = [poolScan EXCEPT ![s] = Pool!NoScan],
              Pool!Reads(poolRead)
       PROVE  /\ OneRead'
              /\ \A r \in PoolReadIds : poolRead'[r] \in {poolRead[r], Pool!Free}
              /\ \A u \in Pool!Scans : poolScan'[u].next # Pool!NotYet =>
                   /\ poolScan'[u] = poolScan[u] /\ poolScan[u].read \in PoolReadIds
                   /\ poolRead'[poolScan[u].read] = poolRead[poolScan[u].read]
                   /\ poolRead[poolScan[u].read].phase = "resolved"
  <2>1. \A u \in Pool!Scans : /\ ~poolScan'[u].aborted
                              /\ poolScan'[u].next # Pool!NotYet => poolScan'[u] = poolScan[u]
    <3>1. ~Pool!NoScan.aborted /\ Pool!NoScan.next = Pool!NotYet
      BY DEF Pool!NoScan
    <3> QED BY <1>1, <1>18, <3>1 DEF OneRead
  <2>2. \A r \in PoolReadIds : poolRead'[r] \in {poolRead[r], Pool!Free}
    BY <1>18 DEF Pool!Reads
  <2>3. \A u \in Pool!Scans : poolScan'[u].read \in PoolReadIds =>
          poolRead'[poolScan'[u].read] = poolRead[poolScan'[u].read]
    BY <1>18 DEF Pool!Reads
  <2>4. OneRead'
    BY <2>1, <2>2, PoolFree DEF OneRead
  <2>5. ASSUME NEW u \in Pool!Scans, poolScan'[u].next # Pool!NotYet
        PROVE  /\ poolScan'[u] = poolScan[u] /\ poolScan[u].read \in PoolReadIds
               /\ poolRead'[poolScan[u].read] = poolRead[poolScan[u].read]
               /\ poolRead[poolScan[u].read].phase = "resolved"
    <3>1. poolScan'[u] = poolScan[u] /\ poolScan[u].next # Pool!NotYet
      BY <2>1, <2>5
    <3>2. poolScan[u].read \in PoolReadIds /\ poolRead[poolScan[u].read].phase = "resolved"
      BY <1>3, <3>1
    <3> QED BY <2>3, <3>1, <3>2
  <2> QED BY <2>2, <2>4, <2>5
<1>20. ASSUME NEW m \in PoolMonitors, NEW k \in PoolRuns, Pool!ScanFails(m, k)
       PROVE  OneRead' /\ SamplesFollow' /\ VolumesCount'
  <2> DEFINE s == <<m, k>>
  <2>1. /\ s \in Pool!Scans /\ poolScan' = [poolScan EXCEPT ![s] = Pool!NoScan]
        /\ UNCHANGED <<poolClock, named, cursor, poolSamples, volume, since>>
        /\ Pool!Reads(poolRead)
    BY <1>2, <1>20 DEF Pool!ScanFails, Pool!results
  <2> HIDE DEF s
  <2>2. /\ OneRead'
        /\ \A r \in PoolReadIds : poolRead'[r] \in {poolRead[r], Pool!Free}
        /\ \A u \in Pool!Scans : poolScan'[u].next # Pool!NotYet =>
             /\ poolScan'[u] = poolScan[u] /\ poolScan[u].read \in PoolReadIds
             /\ poolRead'[poolScan[u].read] = poolRead[poolScan[u].read]
             /\ poolRead[poolScan[u].read].phase = "resolved"
    BY <1>18, <2>1
  <2>3. \A n \in PoolMonitors, j \in PoolRuns : poolScan'[<<n, j>>].next # Pool!NotYet =>
          /\ poolScan'[<<n, j>>].next = poolScan[<<n, j>>].next
          /\ poolRead'[poolScan'[<<n, j>>].read].observedAt
               = poolRead[poolScan[<<n, j>>].read].observedAt
    BY <1>2, <2>2
  <2>4. \A r \in PoolReadIds : poolRead'[r].phase \in {"logs", "resolved"} =>
          poolRead'[r] = poolRead[r]
    BY <2>2, PoolFree
  <2>5. SamplesFollow'
    BY <1>1, <2>1, <2>3, <2>4, SamplesRest
  <2> QED BY <1>6, <2>1, <2>2, <2>5
<1>22. ASSUME Pool!Restart PROVE OneRead' /\ SamplesFollow' /\ VolumesCount'
  <2>1. /\ poolRead' = [r \in PoolReadIds |-> Pool!Free]
        /\ poolScan' = [s \in Pool!Scans |-> Pool!NoScan]
        /\ volume' = [m \in PoolMonitors |-> Pool!NoVolumes(m)]
        /\ UNCHANGED <<poolClock, named, cursor, poolSamples, since>>
    BY <1>22 DEF Pool!Restart
  <2>2. /\ \A r \in PoolReadIds : poolRead'[r].phase = "free"
        /\ \A u \in Pool!Scans : ~poolScan'[u].aborted /\ poolScan'[u].next = Pool!NotYet
    BY <2>1, PoolFree DEF Pool!NoScan
  <2>3. OneRead'
    BY <2>2 DEF OneRead
  <2>4. SamplesFollow'
    BY <1>1, <1>2, <2>1, <2>2, SamplesRest
  <2>5. /\ volume' = [j \in PoolMonitors |-> volume'[j]]
        /\ \A j \in PoolMonitors : \A w \in WindowsOf[j] : volume'[j][w] = Pool!NoVolume
        /\ \A j \in PoolMonitors : since[j] <= since'[j]
    BY <1>1, <2>1 DEF Pool!NoVolumes
  <2> QED BY <1>5, <2>3, <2>4, <2>5
<1>23. ASSUME Pool!TimePasses PROVE OneRead' /\ SamplesFollow' /\ VolumesCount'
  <2>1. /\ poolClock' = poolClock + 1
        /\ UNCHANGED <<named, poolRead, poolScan, cursor, poolSamples, volume, since>>
    BY <1>23 DEF Pool!TimePasses, Pool!results
  <2>2. poolClock <= poolClock'
    BY <1>1, <2>1
  <2>3. OneRead'
    BY <2>1 DEF OneRead
  <2>4. SamplesFollow'
    BY <1>1, <2>1, <2>2, SamplesRest
  <2> QED BY <1>6, <2>1, <2>3, <2>4
<1>24. ASSUME UNCHANGED Pool!vars PROVE OneRead' /\ SamplesFollow' /\ VolumesCount'
  <2>1. UNCHANGED <<poolClock, named, poolRead, poolScan, cursor, poolSamples, volume, since>>
    BY <1>24 DEF Pool!vars, Pool!results
  <2>2. OneRead'
    BY <2>1 DEF OneRead
  <2>3. SamplesFollow'
    BY <1>1, <2>1, SamplesRest
  <2> QED BY <1>6, <2>1, <2>2, <2>3
<1>19. ASSUME NEW m \in PoolMonitors, NEW k \in PoolRuns, Pool!EndScan(m, k)
       PROVE  OneRead' /\ SamplesFollow' /\ VolumesCount'
  <2>0. PICK s \in Pool!Scans : s = <<m, k>>
    BY <1>2
  <2>1. PICK r \in PoolReadIds, at \in Nat, upto \in Nat, n \in Int :
          /\ r = poolScan[s].read /\ poolRead[r].phase = "resolved"
          /\ at = poolRead[r].observedAt /\ upto = poolRead[r].confirmed
          /\ n = poolScan[s].next - 1 /\ upto <= n /\ poolScan[s].next # Pool!NotYet
    <3>1. poolScan[s].next # Pool!NotYet /\ poolScan[s].next > poolRead[poolScan[s].read].confirmed
      BY <1>19, <2>0 DEF Pool!EndScan
    <3>2. PICK r \in PoolReadIds : r = poolScan[s].read /\ poolRead[r].phase = "resolved"
      BY <1>3, <3>1
    <3>3. poolRead[r].observedAt \in Nat /\ poolRead[r].confirmed \in Nat
      BY <1>1 DEF Pool!Read
    <3>4. poolScan[s].next \in Nat
      BY <1>1, <3>1 DEF Pool!Scan
    <3>5. poolScan[s].next - 1 \in Int /\ poolRead[r].confirmed <= poolScan[s].next - 1
      BY <3>1, <3>2, <3>3, <3>4
    <3> QED BY <3>1, <3>2, <3>3, <3>5
  <2> DEFINE new == Pool!WindowVolumes(m, at, upto)
  <2>2. /\ volume' = [volume EXCEPT ![m] = [w \in WindowsOf[m] |->
             IF volume[m][w].at > new[w].at THEN volume[m][w] ELSE new[w]]]
        /\ poolSamples' = [poolSamples EXCEPT ![m] =
             IF WindowsOf[m] = {} THEN {} ELSE Pool!Kept(m, at)]
        /\ cursor' = upto /\ poolScan' = [poolScan EXCEPT ![s] = Pool!NoScan]
        /\ UNCHANGED <<poolClock, named, since>>
        /\ Pool!Reads(poolRead)
    BY <1>19, <2>0, <2>1 DEF Pool!EndScan
  <2> HIDE DEF new
  <2>3. /\ OneRead'
        /\ \A q \in PoolReadIds : poolRead'[q] \in {poolRead[q], Pool!Free}
        /\ \A u \in Pool!Scans : poolScan'[u].next # Pool!NotYet =>
             /\ poolScan'[u] = poolScan[u] /\ poolScan[u].read \in PoolReadIds
             /\ poolRead'[poolScan[u].read] = poolRead[poolScan[u].read]
             /\ poolRead[poolScan[u].read].phase = "resolved"
    BY <1>18, <2>0, <2>2
  <2>4. \A q \in PoolReadIds : poolRead[q].phase # "free" => q = r
    BY <2>1 DEF OneRead
  <2>5. m \in poolEnabled /\ poolEnabled' = {m}
    <3>1. s[1] = only /\ s[1] = m
      BY <1>4, <2>0, <2>1 DEF OwnScans
    <3> QED BY <3>1
  <2>6. Pool!Blocks \subseteq Int
    BY PoolAssumptions DEF Pool!Blocks
  <2>7. ASSUME named, WindowsOf[m] # {} PROVE Sampled(m, upto, at) /\ at <= poolClock
    <3>1. Sampled(m, n, at)
      BY <2>0, <2>1, <2>5, <2>7 DEF SamplesFollow
    <3>2. at <= poolClock
      BY <2>1, <2>5, <2>7 DEF SamplesFollow
    <3> QED BY <2>1, <2>6, <3>1, <3>2 DEF Sampled
  <2>8. SamplesFollow'
    <3> SUFFICES ASSUME named, WindowsOf[m] # {}
                 PROVE  /\ Sampled(m, cursor, poolClock)'
                        /\ \A q \in PoolReadIds :
                             /\ poolRead'[q].phase # "logs"
                             /\ poolRead'[q].phase = "resolved" =>
                                  /\ poolRead'[q].observedAt <= poolClock'
                                  /\ Sampled(m, poolRead[q].from - 1, poolRead[q].observedAt)'
                        /\ \A j \in PoolRuns : poolScan'[<<m, j>>].next # Pool!NotYet =>
                             Sampled(m, poolScan[<<m, j>>].next - 1,
                                     poolRead[poolScan[<<m, j>>].read].observedAt)'
      BY <2>2, <2>5 DEF SamplesFollow
    <3>1. poolSamples'[m] = {b \in poolSamples[m] : b >= Pool!Cutoff(m, at)}
      BY <1>1, <2>2 DEF Pool!Kept
    <3>2. ASSUME NEW x \in Int, NEW later \in Int, at <= later, Sampled(m, x, at)
          PROVE  Sampled(m, x, later)'
      <4>1. /\ Pool!Cutoff(m, at) \in Int /\ Pool!Cutoff(m, later) \in Int
            /\ Pool!Cutoff(m, at) <= Pool!Cutoff(m, later)
        BY <2>1, <3>2, CutoffGrows
      <4>2. Pool!Cutoff(m, later)' = Pool!Cutoff(m, later)
        BY DEF Pool!Cutoff
      <4> SUFFICES ASSUME NEW b \in Pool!Blocks, since[m] < b, b <= x, b >= Pool!Cutoff(m, later)
                   PROVE  b \in poolSamples'[m]
        BY <2>2, <4>2 DEF Sampled
      <4>3. b >= Pool!Cutoff(m, at)
        BY <2>6, <4>1
      <4> QED BY <3>1, <3>2, <4>3 DEF Sampled
    <3>3. PICK now \in Nat : now = poolClock
      BY <1>1
    <3>4. Sampled(m, upto, at) /\ at <= now
      BY <2>7, <3>3
    <3>5. Sampled(m, cursor, poolClock)'
      <4>1. Sampled(m, upto, now)'
        BY <2>1, <3>2, <3>3, <3>4
      <4>2. cursor' = upto /\ poolClock' = now
        BY <2>2, <3>3
      <4> QED BY <4>1, <4>2
    <3>6. ASSUME NEW q \in PoolReadIds, poolRead'[q].phase # "free"
          PROVE  q = r /\ poolRead'[q] = poolRead[r]
      <4>1. poolRead'[q] = poolRead[q]
        BY <2>3, <3>6, PoolFree
      <4> QED BY <2>4, <3>6, <4>1
    <3>7. ASSUME NEW q \in PoolReadIds, poolRead'[q].phase = "resolved"
          PROVE  /\ poolRead'[q].observedAt <= poolClock'
                 /\ Sampled(m, poolRead[q].from - 1, poolRead[q].observedAt)'
      <4>1. poolRead'[q] = poolRead[r]
        BY <3>6, <3>7
      <4>2. PICK x \in Int : x = poolRead[r].from - 1
        BY <1>1, <2>1 DEF Pool!Read
      <4>3. Sampled(m, x, at)
        BY <2>1, <2>5, <4>2 DEF SamplesFollow
      <4>4. Sampled(m, x, at)'
        BY <2>1, <3>2, <4>3
      <4>5. poolRead'[q].from - 1 = x /\ poolRead'[q].observedAt = at
        BY <2>1, <4>1, <4>2
      <4> QED BY <2>2, <3>3, <3>4, <4>4, <4>5
    <3>8. ASSUME NEW j \in PoolRuns, poolScan'[<<m, j>>].next # Pool!NotYet
          PROVE  Sampled(m, poolScan[<<m, j>>].next - 1,
                         poolRead[poolScan[<<m, j>>].read].observedAt)'
      <4>1. PICK u \in Pool!Scans : u = <<m, j>>
        BY <1>2
      <4>2. /\ poolScan'[u] = poolScan[u] /\ poolScan[u].next # Pool!NotYet
            /\ poolScan[u].read = r /\ poolRead'[r] = poolRead[r]
        BY <2>3, <2>4, <3>8, <4>1
      <4>3. PICK x \in Int : x = poolScan[u].next - 1
        <5>1. poolScan[u].next \in Nat
          BY <1>1, <4>2 DEF Pool!Scan
        <5> QED BY <5>1
      <4>4. Sampled(m, x, at)
        BY <2>1, <2>5, <4>1, <4>2, <4>3 DEF SamplesFollow
      <4>5. Sampled(m, x, at)'
        BY <2>1, <3>2, <4>4
      <4>6. x = poolScan'[<<m, j>>].next - 1
            /\ at = poolRead'[poolScan'[<<m, j>>].read].observedAt
        BY <2>1, <4>1, <4>2, <4>3
      <4> QED BY <4>5, <4>6
    <3>9. \A q \in PoolReadIds : poolRead'[q].phase # "logs"
      BY <2>1, <3>6
    <3> QED BY <3>5, <3>7, <3>8, <3>9
  <2>9. ASSUME NEW w \in WindowsOf[m], NEW v, v = new[w] PROVE v.at \in Int /\ Counts(m, w, v)
    <3>1. CASE named
      <4>1. v = [at |-> at, confirmed |-> upto, current |-> Pool!Swaps(m, at, at - w, at),
                 previous |-> Pool!Swaps(m, at, at - 2 * w, at - w)]
        BY <2>9, <3>1 DEF new, Pool!WindowVolumes, Pool!AmountsKnown
      <4>2. /\ v.at = at /\ v.confirmed = upto
            /\ v.current = Pool!Swaps(m, at, at - w, at)
            /\ v.previous = Pool!Swaps(m, at, at - 2 * w, at - w)
        BY <4>1
      <4>3. ASSUME since[m] <= at - 2 * w
            PROVE  /\ Pool!Swaps(m, at, at - w, at) >= SwapsThere(at - w, at, upto)
                   /\ Pool!Swaps(m, at, at - 2 * w, at - w)
                        >= SwapsThere(at - 2 * w, at - w, upto)
        <5>1. PICK x \in Nat : x = w
          BY PoolAssumptions
        <5>2. /\ at - x \in Int /\ at - 2 * x \in Int /\ at \in Int /\ upto \in Int
              /\ at - 2 * x <= at - x /\ at - 2 * x <= at - 2 * x
          BY <2>1, <5>1
        <5>3. Sampled(m, upto, at)
          BY <2>7, <3>1
        <5> QED BY <4>3, <5>1, <5>2, <5>3, SwapsAreCounted
      <4> QED BY <2>1, <4>2, <4>3 DEF Counts
    <3>2. CASE ~named
      <4>1. v = [Pool!NoVolume EXCEPT !.at = at, !.confirmed = upto]
        BY <2>9, <3>2 DEF new, Pool!WindowVolumes, Pool!AmountsKnown
      <4>2. v.at = at /\ v.current = Pool!Unavailable
        BY <4>1 DEF Pool!NoVolume
      <4> QED BY <2>1, <4>2 DEF Counts
    <3> QED BY <3>1, <3>2
  <2>10. VolumesCount'
    <3>1. volume' = [l \in PoolMonitors |-> volume'[l]]
      BY <2>2 DEF VolumesCount
    <3> SUFFICES ASSUME NEW w \in WindowsOf[m]
                 PROVE  volume'[m][w].at \in Int /\ Counts(m, w, volume[m][w])'
      BY <2>5, <3>1 DEF VolumesCount
    <3>2. PICK v : v = volume'[m][w]
      OBVIOUS
    <3>3. PICK fresh : fresh = new[w]
      OBVIOUS
    <3>4. v \in {volume[m][w], fresh}
      BY <2>2, <2>5, <3>2, <3>3 DEF VolumesCount
    <3>5. v.at \in Int /\ Counts(m, w, v)
      BY <2>5, <2>9, <3>3, <3>4 DEF VolumesCount
    <3>6. Counts(m, w, v)'
      BY <2>2, <3>5 DEF Counts, SwapsThere
    <3> QED BY <3>2, <3>5, <3>6
  <2> QED BY <2>3, <2>8, <2>10
<1>25. CASE UNCHANGED Pool!vars
  BY <1>24, <1>25
<1>26. CASE Pool!Next
  BY <1>7, <1>8, <1>12, <1>14, <1>15, <1>16, <1>17, <1>19, <1>20, <1>22, <1>23, <1>26
  DEF Pool!Next
<1> QED BY <1>25, <1>26

LEMMA VolumesInit == Pool!Init => VolumesInv
<1> SUFFICES ASSUME Pool!Init PROVE VolumesInv
  OBVIOUS
<1>1. /\ poolClock = 0 /\ cursor = Pool!NoCursor /\ poolReconciles = 0
      /\ poolRead = [r \in PoolReadIds |-> Pool!Free]
      /\ poolScan = [s \in Pool!Scans |-> Pool!NoScan]
      /\ volume = [m \in PoolMonitors |-> [w \in WindowsOf[m] |-> Pool!NoVolume]]
  BY DEF Pool!Init
<1>2. ~Pool!NoScan.aborted /\ Pool!NoScan.next = Pool!NotYet /\ Pool!Free.phase = "free"
  BY DEF Pool!NoScan, Pool!Free
<1>3. OneRead
  BY <1>1, <1>2 DEF OneRead
<1>4. SamplesFollow
  <2>0. poolEnabled \subseteq PoolMonitors
    BY DEF Pool!Init
  <2>1. \A m \in PoolMonitors : Sampled(m, cursor, poolClock)
    BY <1>1, PoolAssumptions DEF Sampled, Pool!Blocks, Pool!NoCursor
  <2>2. \A m \in PoolMonitors, k \in PoolRuns : poolScan[<<m, k>>].next = Pool!NotYet
    BY <1>1, <1>2 DEF Pool!Scans
  <2> QED BY <1>1, <1>2, <2>0, <2>1, <2>2 DEF SamplesFollow
<1>5. VolumesCount
  <2>1. Pool!NoVolume.at \in Int /\ Pool!NoVolume.current = Pool!Unavailable
    BY DEF Pool!NoVolume
  <2>2. \A m \in poolEnabled : \A w \in WindowsOf[m] : volume[m][w] = Pool!NoVolume
    BY <1>1 DEF Pool!Init
  <2> QED BY <1>1, <2>1, <2>2 DEF VolumesCount, Counts
<1>6. OwnScans
  BY <1>1, PoolFree DEF OwnScans
<1> QED BY <1>1, <1>3, <1>4, <1>5, <1>6 DEF VolumesInv

LEMMA VolumesStep ==
  PoolInv /\ VolumesInv /\ [Pool!Next]_(Pool!vars) => VolumesInv'
<1> SUFFICES ASSUME PoolInv, VolumesInv, [Pool!Next]_(Pool!vars)
             PROVE  VolumesInv'
  OBVIOUS
<1>1. PoolInv'
  BY PoolStep
<1>2. CASE Pool!Reconcile
  <2>1. poolReconciles \in Nat /\ poolReconciles' = poolReconciles + 1
    BY <1>2 DEF Pool!Reconcile, VolumesInv
  <2>2. poolReconciles' \in Nat /\ poolReconciles' # 0
    BY <2>1
  <2> QED BY <2>2 DEF VolumesInv, Alone
<1>3. CASE ~Pool!Reconcile
  <2>1. UNCHANGED <<poolReconciles, poolEnabled>>
    BY <1>3 DEF Pool!Next, Pool!vars, Pool!JoinRead, Pool!StartRead, Pool!LatestBlock,
      Pool!ReadLogs, Pool!ReadFails, Pool!TakeRead, Pool!Distribute, Pool!EndScan,
      Pool!ScanFails, Pool!Restart, Pool!TimePasses
  <2>2. ASSUME Alone PROVE OneRead' /\ OwnScans' /\ SamplesFollow' /\ VolumesCount'
    <3>1. OneRead /\ OwnScans /\ SamplesFollow /\ VolumesCount
      BY <2>2 DEF VolumesInv
    <3>2. PICK only \in PoolMonitors : poolEnabled = {only}
      BY <2>2 DEF Alone
    <3>3. OwnScans'
      BY <1>3, <2>1, <3>1, OwnScansStay
    <3> QED BY <1>1, <1>3, <2>1, <3>1, <3>2, <3>3, VolumesGoOn
  <2>3. Alone' => Alone
    BY <2>1 DEF Alone
  <2> QED BY <2>1, <2>2, <2>3 DEF VolumesInv
<1> QED BY <1>2, <1>3

\* The volumes of a monitor that is alone at its pool count each confirmed swap of their
\* windows while the configuration stays (EndScan with the samples that upsert and cleanup
\* keep), however many windows it has and however often a scan failed or the process ended.
THEOREM VolumesAreCompleteAlways == PartsSpec => []VolumesAreComplete
<1> DEFINE Inv == part = "pool" => PoolInv /\ VolumesInv
<1>1. PartsInit => Inv
  BY PoolInit, VolumesInit DEF PartsInit
<1>2. Inv /\ [PartsNext]_partVars => Inv'
  <2> SUFFICES ASSUME Inv, [PartsNext]_partVars, part' = "pool" PROVE PoolInv' /\ VolumesInv'
    OBVIOUS
  <2>1. part = "pool" /\ [Pool!Next]_(Pool!vars)
    BY DEF PartsNext, partVars, poolVars, Pool!vars, Pool!results
  <2> QED BY <2>1, PoolStep, VolumesStep
<1>3. Inv => VolumesAreComplete
  <2> SUFFICES ASSUME PoolInv, VolumesInv PROVE Pool!VolumesAreComplete
    BY DEF VolumesAreComplete
  <2> SUFFICES ASSUME NEW m \in PoolMonitors, NEW w \in WindowsOf[m], poolEnabled = {m},
                      poolReconciles = 0,
                      volume[m][w].current # Pool!Unavailable,
                      since[m] <= volume[m][w].at - 2 * w
               PROVE  /\ volume[m][w].current
                           >= SwapsThere(volume[m][w].at - w, volume[m][w].at, volume[m][w].confirmed)
                      /\ volume[m][w].previous
                           >= SwapsThere(volume[m][w].at - 2 * w, volume[m][w].at - w,
                                         volume[m][w].confirmed)
    BY DEF Pool!VolumesAreComplete, SwapsThere
  <2>1. m \in poolEnabled /\ VolumesCount
    BY DEF VolumesInv, Alone
  <2> QED BY <2>1 DEF VolumesCount, Counts
<1> QED BY <1>1, <1>2, <1>3, PTL DEF PartsSpec
=============================================================================
