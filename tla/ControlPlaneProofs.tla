--------------------------- MODULE ControlPlaneProofs ---------------------------
(***************************************************************************)
(* What holds of the calls on an integration, of the monitors and of the    *)
(* quotes, for every value of the constants.  Each part has its inductive   *)
(* invariant, which holds while it is the part that moves.                  *)
(***************************************************************************)
EXTENDS ControlPlane, FiniteSetTheorems, SequenceTheorems, TLAPS

---------------------------------------------------------------------------
(* The quotes of stocks *)

LEMMA QuotesAssumptions ==
  /\ MaxLoads \in Nat \ {0} /\ MaxAge \in Nat /\ MaxBackoff \in Nat
  /\ MaxClock \in Nat /\ MaxFaults \in Nat /\ MaxChanges \in Nat
  BY PartsParameters DEF Quotes!StockParameters

\* When the next attempt may be.
Attempts == Nat \cup {c + Quotes!RetryAfter(n) : c \in Quotes!Times, n \in Nat}

QuoteState == [known : BOOLEAN, quotes : Quotes!Quotes, lastAttempt : Quotes!Times \cup {Quotes!Never},
               failures : Nat, nextAttempt : Attempts, pending : Quotes!Loads \cup {Quotes!NoLoad},
               error : BOOLEAN]

QuoteTypes ==
  /\ quotesClock \in Quotes!Times
  /\ quotesMonitor.symbol \in Symbols
  /\ state \in [Symbols -> QuoteState] /\ stored \in [Symbols -> Quotes!Quotes]
  /\ load \in [Quotes!Loads -> Quotes!Load]
  /\ activeLoads \in Int /\ waitingLoads \in Seq(Quotes!Loads)

\* The loads let out of the line that have not looked for their place yet.
Woken(loads) == {l \in Quotes!Loads : loads[l].phase = "woken"}

\* Who stands in line waits, and once; the places that are taken and those that somebody
\* was told of are as many as there are.
LineHolds(loads, line, active) ==
  /\ \A i \in 1..Len(line) : loads[line[i]].phase = "waiting"
  /\ \A i, j \in 1..Len(line) : line[i] = line[j] => i = j
  /\ IsFiniteSet(Woken(loads))
  /\ line # <<>> => active + Cardinality(Woken(loads)) >= MaxLoads

\* A load under way is one of a state that was read from what is stored.
PendingIsKnown == \A s \in Symbols : state[s].pending # Quotes!NoLoad => state[s].known

QuotesInv ==
  /\ QuoteTypes /\ LineHolds(load, waitingLoads, activeLoads) /\ PendingIsKnown
  /\ Quotes!KnownIsStored /\ Quotes!ShownIsConfigured

LEMMA UnknownIsTyped ==
  /\ Quotes!Unknown \in QuoteState
  /\ Quotes!Unknown.known = FALSE /\ Quotes!Unknown.pending = Quotes!NoLoad
  BY DEF Quotes!Unknown, QuoteState, Quotes!Quotes, Quotes!NoQuotes, Attempts

LEMMA LoadsAreLoads == \A l \in Quotes!Loads : l # Quotes!NoLoad /\ l[1] \in Symbols
  BY DEF Quotes!Loads, Quotes!NoLoad

LEMMA QuotesInit == Quotes!Init => QuotesInv
<1> SUFFICES ASSUME Quotes!Init PROVE QuotesInv
  OBVIOUS
<1>1. QuoteTypes
  <2>1. quotesClock \in Quotes!Times /\ Quotes!NoQuotes \in Quotes!Quotes
    BY QuotesAssumptions DEF Quotes!Init, Quotes!Times, Quotes!NoQuotes, Quotes!Quotes
  <2>2. load \in [Quotes!Loads -> Quotes!Load]
    BY DEF Quotes!Init, Quotes!Load
  <2>3. quotesMonitor.symbol \in Symbols
    BY DEF Quotes!Init
  <2>4. state \in [Symbols -> QuoteState] /\ stored \in [Symbols -> Quotes!Quotes]
    BY <2>1, UnknownIsTyped DEF Quotes!Init
  <2>5. activeLoads \in Int /\ waitingLoads \in Seq(Quotes!Loads)
    BY DEF Quotes!Init
  <2> QED BY <2>1, <2>2, <2>3, <2>4, <2>5 DEF QuoteTypes
<1>2. LineHolds(load, waitingLoads, activeLoads)
  <2>1. Woken(load) = {} /\ waitingLoads = <<>>
    BY DEF Quotes!Init, Woken
  <2> QED BY <2>1, FS_EmptySet DEF LineHolds
<1>3. PendingIsKnown /\ Quotes!KnownIsStored
  BY UnknownIsTyped DEF Quotes!Init, PendingIsKnown, Quotes!KnownIsStored
<1>4. Quotes!ShownIsConfigured
  BY DEF Quotes!Init, Quotes!ShownIsConfigured
<1> QED
  BY <1>1, <1>2, <1>3, <1>4 DEF QuotesInv

LEMMA MaxOfTwo ==
  ASSUME NEW a \in Int, NEW b \in Int
  PROVE  Quotes!Max({a, b}) \in {a, b}
<1>1. \E x \in {a, b} : \A y \in {a, b} : x >= y
  <2>1. CASE a >= b
    BY <2>1
  <2>2. CASE b >= a
    BY <2>2
  <2> QED BY <2>1, <2>2
<1> QED
  BY <1>1 DEF Quotes!Max

\* Whoever wakes or ends, the line holds.
LEMMA LineKeepsPhases ==
  ASSUME NEW loads \in [Quotes!Loads -> Quotes!Load], NEW new \in [Quotes!Loads -> Quotes!Load],
         \A l \in Quotes!Loads : new[l].phase = loads[l].phase,
         NEW line \in Seq(Quotes!Loads), NEW active, LineHolds(loads, line, active)
  PROVE  LineHolds(new, line, active)
<1>1. Woken(new) = Woken(loads)
  BY DEF Woken
<1>2. \A i \in 1..Len(line) : line[i] \in Quotes!Loads
  OBVIOUS
<1> QED
  BY <1>1, <1>2 DEF LineHolds

\* A load that is not in line begins to read or gets in line.
LEMMA LineTakesLoad ==
  ASSUME NEW loads \in [Quotes!Loads -> Quotes!Load], NEW line \in Seq(Quotes!Loads),
         NEW active \in Int, LineHolds(loads, line, active),
         NEW l \in Quotes!Loads, loads[l].phase \in {"idle", "woken"},
         NEW it \in Quotes!Load,
         it.phase = IF active < MaxLoads THEN "reading" ELSE "waiting"
  PROVE  LineHolds([loads EXCEPT ![l] = it],
                   IF active < MaxLoads THEN line ELSE Append(line, l),
                   IF active < MaxLoads THEN active + 1 ELSE active)
<1> DEFINE new == [loads EXCEPT ![l] = it]
<1>1. \A i \in 1..Len(line) : line[i] \in Quotes!Loads /\ line[i] # l
  BY DEF LineHolds
<1>2. new[l] = it /\ \A o \in Quotes!Loads : o # l => new[o] = loads[o]
  OBVIOUS
<1>3. Woken(new) = Woken(loads) \ {l}
  BY <1>2 DEF Woken
<1>4. /\ IsFiniteSet(Woken(loads)) /\ Cardinality(Woken(loads)) \in Nat
      /\ IsFiniteSet(Woken(new)) /\ Cardinality(Woken(new)) \in Nat
      /\ Cardinality(Woken(new)) >= Cardinality(Woken(loads)) - 1
  <2>1. IsFiniteSet(Woken(loads))
    BY DEF LineHolds
  <2>2. Cardinality(Woken(loads)) \in Nat
    BY <2>1, FS_CardinalityType
  <2> DEFINE W == Woken(loads)
  <2> HIDE DEF new, W
  <2>3. /\ IsFiniteSet(W \ {l})
        /\ Cardinality(W \ {l}) = Cardinality(W) - 1 \/ Cardinality(W \ {l}) = Cardinality(W)
    <3>1. IsFiniteSet(W)
      BY <2>1 DEF W
    <3> QED BY <3>1, FS_RemoveElement
  <2>4. Cardinality(W \ {l}) \in Nat
    BY <2>3, FS_CardinalityType
  <2> QED BY <1>3, <2>1, <2>2, <2>3, <2>4 DEF W
<1> HIDE DEF new
<1>5. MaxLoads \in Nat
  BY QuotesAssumptions
<1>6. CASE active < MaxLoads
  <2>1. line # <<>> => active + 1 + Cardinality(Woken(new)) >= MaxLoads
    BY <1>4, <1>5 DEF LineHolds
  <2>2. LineHolds(new, line, active + 1)
    BY <1>1, <1>2, <1>4, <2>1 DEF LineHolds
  <2> QED BY <1>6, <2>2 DEF new
<1>7. CASE ~(active < MaxLoads)
  <2> DEFINE longer == Append(line, l)
  <2>1. /\ longer \in Seq(Quotes!Loads) /\ Len(longer) = Len(line) + 1 /\ Len(line) \in Nat
        /\ \A i \in 1..Len(line) : longer[i] = line[i]
        /\ longer[Len(line) + 1] = l
    BY AppendProperties
  <2> HIDE DEF longer
  <2>2. \A i \in 1..Len(longer) : i \in 1..Len(line) \/ i = Len(line) + 1
    BY <2>1
  <2>3. \A i \in 1..Len(longer) : new[longer[i]].phase = "waiting"
    BY <1>1, <1>2, <1>7, <2>1, <2>2 DEF LineHolds
  <2>4. \A i, j \in 1..Len(longer) : longer[i] = longer[j] => i = j
    BY <1>1, <2>1, <2>2 DEF LineHolds
  <2>5. active + Cardinality(Woken(new)) >= MaxLoads
    BY <1>4, <1>5, <1>7
  <2>6. LineHolds(new, longer, active)
    BY <1>4, <2>3, <2>4, <2>5 DEF LineHolds
  <2> QED BY <1>7, <2>6 DEF new, longer
<1> QED
  BY <1>6, <1>7

\* A load ends, and who is first in line may look for its place.
LEMMA LineMovesOn ==
  ASSUME NEW loads \in [Quotes!Loads -> Quotes!Load], NEW line \in Seq(Quotes!Loads),
         NEW active \in Int, LineHolds(loads, line, active),
         NEW l \in Quotes!Loads, loads[l].phase \in {"reading", "woken"},
         NEW new \in [Quotes!Loads -> Quotes!Load], new[l].phase = "idle",
         \A o \in Quotes!Loads : o # l =>
           new[o].phase = IF line # <<>> /\ o = Head(line) THEN "woken" ELSE loads[o].phase,
         NEW left \in Int, left = IF loads[l].phase = "reading" THEN active - 1 ELSE active
  PROVE  LineHolds(new, IF line = <<>> THEN <<>> ELSE Tail(line), left)
<1>1. IsFiniteSet(Woken(loads)) /\ Cardinality(Woken(loads)) \in Nat
  <2>1. IsFiniteSet(Woken(loads))
    BY DEF LineHolds
  <2> QED BY <2>1, FS_CardinalityType
<1>2. CASE line = <<>>
  <2>1. Woken(new) = Woken(loads) \ {l}
    BY <1>2 DEF Woken
  <2>2. IsFiniteSet(Woken(new))
    BY <1>1, <2>1, FS_RemoveElement
  <2> QED BY <1>2, <2>2 DEF LineHolds
<1>3. CASE line # <<>>
  <2> DEFINE h == Head(line)
             rest == Tail(line)
  <2>1. /\ h = line[1] /\ h \in Quotes!Loads /\ rest \in Seq(Quotes!Loads)
        /\ Len(line) \in Nat /\ Len(rest) = Len(line) - 1
        /\ \A i \in 1..Len(rest) : rest[i] = line[i + 1] /\ i + 1 \in 1..Len(line)
        /\ 1 \in 1..Len(line)
    BY <1>3, HeadTailProperties
  <2>2. loads[h].phase = "waiting" /\ h # l
    BY <2>1 DEF LineHolds
  <2>3. Woken(new) = (Woken(loads) \ {l}) \cup {h}
    <3>1. \A o \in Quotes!Loads : new[o].phase = "woken" <=> o = h \/ (o # l /\ loads[o].phase = "woken")
      BY <1>3, <2>1, <2>2
    <3> QED BY <2>1, <3>1 DEF Woken
  <2> HIDE DEF h, rest
  <2>4. \A i \in 1..Len(rest) : rest[i] # h /\ rest[i] # l /\ rest[i] \in Quotes!Loads
                                /\ loads[rest[i]].phase = "waiting"
    <3> SUFFICES ASSUME NEW i \in 1..Len(rest)
                 PROVE  rest[i] # h /\ rest[i] # l /\ rest[i] \in Quotes!Loads
                        /\ loads[rest[i]].phase = "waiting"
      OBVIOUS
    <3>1. rest[i] = line[i + 1] /\ i + 1 \in 1..Len(line) /\ i + 1 # 1
      BY <2>1
    <3>2. loads[line[i + 1]].phase = "waiting" /\ line[i + 1] # line[1]
      BY <2>1, <3>1 DEF LineHolds
    <3> QED BY <2>1, <3>1, <3>2
  <2>5. \A i \in 1..Len(rest) : new[rest[i]].phase = "waiting"
    BY <2>4 DEF h
  <2>6. \A i, j \in 1..Len(rest) : rest[i] = rest[j] => i = j
    <3> SUFFICES ASSUME NEW i \in 1..Len(rest), NEW j \in 1..Len(rest), rest[i] = rest[j] PROVE i = j
      OBVIOUS
    <3>1. line[i + 1] = line[j + 1] /\ i + 1 \in 1..Len(line) /\ j + 1 \in 1..Len(line)
      BY <2>1
    <3>2. i + 1 = j + 1
      BY <3>1 DEF LineHolds
    <3> QED BY <2>1, <3>2
  <2> DEFINE W == Woken(loads)
  <2> HIDE DEF W
  <2>7. IsFiniteSet(W) /\ Cardinality(W) \in Nat
    BY <1>1 DEF W
  <2>8. /\ IsFiniteSet(W \ {l})
        /\ Cardinality(W \ {l}) = IF l \in W THEN Cardinality(W) - 1 ELSE Cardinality(W)
    BY <2>7, FS_RemoveElement
  <2>9. h \notin W \ {l}
    BY <2>2 DEF W, Woken
  <2>10. /\ IsFiniteSet((W \ {l}) \cup {h})
         /\ Cardinality((W \ {l}) \cup {h}) = Cardinality(W \ {l}) + 1
    BY <2>8, <2>9, FS_AddElement
  <2>11. l \in W <=> loads[l].phase = "woken"
    BY DEF W, Woken
  <2>12. active + Cardinality(W) >= MaxLoads
    BY <1>3 DEF LineHolds, W
  <2>13. left + Cardinality((W \ {l}) \cup {h}) >= MaxLoads
    BY <2>7, <2>8, <2>10, <2>11, <2>12, QuotesAssumptions
  <2>14. IsFiniteSet(Woken(new)) /\ left + Cardinality(Woken(new)) >= MaxLoads
    BY <2>3, <2>10, <2>13 DEF W
  <2>15. LineHolds(new, rest, left)
    BY <2>5, <2>6, <2>14 DEF LineHolds
  <2> QED BY <1>3, <2>15 DEF rest
<1> QED
  BY <1>2, <1>3

LEMMA QuotesGoOn ==
  ASSUME quotesClock' \in Quotes!Times, quotesMonitor'.symbol \in Symbols,
         state' \in [Symbols -> QuoteState], stored' \in [Symbols -> Quotes!Quotes],
         load' \in [Quotes!Loads -> Quotes!Load],
         activeLoads' \in Int, waitingLoads' \in Seq(Quotes!Loads),
         LineHolds(load', waitingLoads', activeLoads'),
         \A s \in Symbols : state'[s].pending # Quotes!NoLoad => state'[s].known,
         \A s \in Symbols : state'[s].known => state'[s].quotes = stored'[s],
         Quotes!ShownIsConfigured'
  PROVE  QuotesInv'
<1>1. QuoteTypes'
  BY DEF QuoteTypes
<1>2. PendingIsKnown' /\ Quotes!KnownIsStored'
  BY DEF PendingIsKnown, Quotes!KnownIsStored
<1>3. LineHolds(load, waitingLoads, activeLoads)'
  BY DEF LineHolds, Woken
<1> QED
  BY <1>1, <1>2, <1>3 DEF QuotesInv

\* Steps that leave the monitor and what it shows as they are, and the time.
LEMMA QuotesRest ==
  ASSUME QuotesInv,
         UNCHANGED <<quotesClock, quotesMonitor, shown>>,
         state' \in [Symbols -> QuoteState], stored' \in [Symbols -> Quotes!Quotes],
         load' \in [Quotes!Loads -> Quotes!Load],
         activeLoads' \in Int, waitingLoads' \in Seq(Quotes!Loads),
         LineHolds(load', waitingLoads', activeLoads'),
         \A s \in Symbols : state'[s].pending # Quotes!NoLoad => state'[s].known,
         \A s \in Symbols : state'[s].known => state'[s].quotes = stored'[s]
  PROVE  QuotesInv'
<1>1. quotesClock' \in Quotes!Times /\ quotesMonitor'.symbol \in Symbols
  BY DEF QuotesInv, QuoteTypes
<1>2. Quotes!ShownIsConfigured'
  BY DEF QuotesInv, Quotes!ShownIsConfigured, Quotes!NothingShown, Quotes!Generation
<1> QED
  BY <1>1, <1>2, QuotesGoOn

LEMMA KnownIsTyped ==
  ASSUME QuotesInv, NEW s \in Symbols
  PROVE  /\ Quotes!Known(s) \in QuoteState /\ Quotes!Known(s).known
         /\ Quotes!Known(s).quotes = stored[s]
<1>1. state[s] \in QuoteState /\ stored[s] \in Quotes!Quotes
  BY DEF QuotesInv, QuoteTypes
<1>2. CASE state[s].known
  BY <1>1, <1>2 DEF Quotes!Known, QuotesInv, Quotes!KnownIsStored
<1>3. CASE ~state[s].known
  <2> DEFINE now == [Quotes!Unknown EXCEPT !.known = TRUE, !.quotes = stored[s]]
  <2>1. now \in QuoteState /\ now.known /\ now.quotes = stored[s]
    BY <1>1, UnknownIsTyped DEF QuoteState
  <2> QED BY <1>3, <2>1 DEF Quotes!Known
<1> QED
  BY <1>2, <1>3

\* A load is begun or not: the state of the symbol is known then.
LEMMA RefreshStep ==
  ASSUME QuotesInv, NEW s \in Symbols, Quotes!Refresh(s),
         UNCHANGED <<quotesClock, quotesMonitor, stored, shown>>
  PROVE  QuotesInv'
<1>1. /\ state \in [Symbols -> QuoteState] /\ stored \in [Symbols -> Quotes!Quotes]
      /\ load \in [Quotes!Loads -> Quotes!Load] /\ activeLoads \in Int
      /\ waitingLoads \in Seq(Quotes!Loads) /\ quotesClock \in Quotes!Times
      /\ LineHolds(load, waitingLoads, activeLoads)
  BY DEF QuotesInv, QuoteTypes
<1>2. /\ \A t \in Symbols : state[t].pending # Quotes!NoLoad => state[t].known
      /\ \A t \in Symbols : state[t].known => state[t].quotes = stored[t]
  BY DEF QuotesInv, PendingIsKnown, Quotes!KnownIsStored
\* Whatever the state of the symbol becomes.
<1>3. ASSUME NEW now \in QuoteState, now.known, now.quotes = stored[s],
             state' = [state EXCEPT ![s] = now],
             load' \in [Quotes!Loads -> Quotes!Load],
             activeLoads' \in Int, waitingLoads' \in Seq(Quotes!Loads),
             LineHolds(load', waitingLoads', activeLoads')
      PROVE  QuotesInv'
  <2>1. state' \in [Symbols -> QuoteState]
    BY <1>1, <1>3
  <2>2. /\ \A t \in Symbols : state'[t].pending # Quotes!NoLoad => state'[t].known
        /\ \A t \in Symbols : state'[t].known => state'[t].quotes = stored'[t]
    BY <1>1, <1>2, <1>3
  <2> QED BY <1>1, <1>3, <2>1, <2>2, QuotesRest
<1>4. CASE ~closed /\ Quotes!MayLoad(s)
  <2>1. PICK l \in Quotes!FreeLoads(s) :
          /\ state' = [state EXCEPT ![s] = [Quotes!Known(s) EXCEPT !.lastAttempt = quotesClock,
                                                                  !.pending = l]]
          /\ IF activeLoads < MaxLoads
             THEN /\ load' = [load EXCEPT ![l] = [phase |-> "reading", aborted |-> FALSE]]
                  /\ activeLoads' = activeLoads + 1 /\ UNCHANGED waitingLoads
             ELSE /\ load' = [load EXCEPT ![l] = [phase |-> "waiting", aborted |-> FALSE]]
                  /\ waitingLoads' = Append(waitingLoads, l) /\ UNCHANGED activeLoads
    BY <1>4 DEF Quotes!Refresh
  <2> DEFINE now == [Quotes!Known(s) EXCEPT !.lastAttempt = quotesClock, !.pending = l]
             it == [phase |-> IF activeLoads < MaxLoads THEN "reading" ELSE "waiting",
                    aborted |-> FALSE]
  <2>2. l \in Quotes!Loads /\ load[l].phase = "idle"
    BY <2>1 DEF Quotes!FreeLoads
  <2>3. now \in QuoteState /\ now.known /\ now.quotes = stored[s]
    BY <1>1, <2>2, KnownIsTyped DEF QuoteState
  <2>4. it \in Quotes!Load /\ it.phase = IF activeLoads < MaxLoads THEN "reading" ELSE "waiting"
    BY DEF Quotes!Load
  <2>5. /\ load' = [load EXCEPT ![l] = it]
        /\ waitingLoads' = IF activeLoads < MaxLoads THEN waitingLoads ELSE Append(waitingLoads, l)
        /\ activeLoads' = IF activeLoads < MaxLoads THEN activeLoads + 1 ELSE activeLoads
    BY <2>1
  <2>6. state' = [state EXCEPT ![s] = now]
    BY <2>1
  <2> HIDE DEF now, it
  <2>7. LineHolds(load', waitingLoads', activeLoads')
    BY <1>1, <2>2, <2>4, <2>5, LineTakesLoad
  <2>8. load' \in [Quotes!Loads -> Quotes!Load] /\ activeLoads' \in Int
    <3>1. load' \in [Quotes!Loads -> Quotes!Load]
      BY <1>1, <2>2, <2>4, <2>5
    <3>2. activeLoads' \in {activeLoads, activeLoads + 1}
      BY <2>5
    <3> QED BY <1>1, <3>1, <3>2
  <2>9. waitingLoads' \in Seq(Quotes!Loads)
    BY <1>1, <2>2, <2>5, AppendProperties
  <2> QED BY <1>3, <2>3, <2>6, <2>7, <2>8, <2>9
<1>5. CASE ~(~closed /\ Quotes!MayLoad(s))
  <2>1. state' = [state EXCEPT ![s] = Quotes!Known(s)] /\ UNCHANGED <<load, activeLoads, waitingLoads>>
    BY <1>5 DEF Quotes!Refresh, Quotes!pool
  <2> QED BY <1>1, <1>3, <2>1, KnownIsTyped
<1> QED
  BY <1>4, <1>5

LEMMA FinishedStates ==
  ASSUME QuotesInv, NEW l \in Quotes!Loads
  PROVE  /\ Quotes!Finished(l) \in [Symbols -> QuoteState]
         /\ \A s \in Symbols : Quotes!Finished(l)[s].known = state[s].known
         /\ \A s \in Symbols : Quotes!Finished(l)[s].quotes = stored[s] \/ ~state[s].known
         /\ \A s \in Symbols : Quotes!Finished(l)[s].pending # Quotes!NoLoad => state[s].known
<1>1. state \in [Symbols -> QuoteState] /\ l[1] \in Symbols
  BY LoadsAreLoads DEF QuotesInv, QuoteTypes
<1>2. \A s \in Symbols : /\ state[s].known => state[s].quotes = stored[s]
                         /\ state[s].pending # Quotes!NoLoad => state[s].known
  BY DEF QuotesInv, PendingIsKnown, Quotes!KnownIsStored
<1>3. CASE state[l[1]].pending = l
  <2> DEFINE now == [state[l[1]] EXCEPT !.pending = Quotes!NoLoad]
  <2>1. /\ now \in QuoteState /\ now.known = state[l[1]].known
        /\ now.quotes = state[l[1]].quotes /\ now.pending = Quotes!NoLoad
    BY <1>1 DEF QuoteState
  <2>2. Quotes!Finished(l) = [state EXCEPT ![l[1]] = now]
    BY <1>1, <1>3 DEF Quotes!Finished
  <2> HIDE DEF now
  <2> QED BY <1>1, <1>2, <2>1, <2>2
<1>4. CASE state[l[1]].pending # l
  BY <1>1, <1>2, <1>4 DEF Quotes!Finished
<1> QED
  BY <1>3, <1>4

\* A load that is over leaves its place or the line to the next one.
LEMMA WakeStep ==
  ASSUME QuotesInv, NEW l \in Quotes!Loads, Quotes!Wake(Quotes!Idle(l)),
         load[l].phase \in {"reading", "woken"},
         activeLoads' = IF load[l].phase = "reading" THEN activeLoads - 1 ELSE activeLoads
  PROVE  /\ load' \in [Quotes!Loads -> Quotes!Load]
         /\ activeLoads' \in Int /\ waitingLoads' \in Seq(Quotes!Loads)
         /\ LineHolds(load', waitingLoads', activeLoads')
<1>1. /\ load \in [Quotes!Loads -> Quotes!Load] /\ activeLoads \in Int
      /\ waitingLoads \in Seq(Quotes!Loads) /\ LineHolds(load, waitingLoads, activeLoads)
  BY DEF QuotesInv, QuoteTypes
<1> DEFINE h == Head(waitingLoads)
           idle == [phase |-> "idle", aborted |-> FALSE]
           new == Quotes!Idle(l)
           woken == [new[h] EXCEPT !.phase = "woken"]
<1>2. idle \in Quotes!Load /\ idle.phase = "idle"
  BY DEF Quotes!Load
<1>3. /\ new \in [Quotes!Loads -> Quotes!Load] /\ new[l].phase = "idle"
      /\ \A o \in Quotes!Loads : o # l => new[o] = load[o]
  <2>1. new = [load EXCEPT ![l] = idle]
    BY DEF Quotes!Idle
  <2> HIDE DEF idle, new
  <2> QED BY <1>1, <1>2, <2>1
<1>4. /\ load' = IF waitingLoads = <<>> THEN new ELSE [new EXCEPT ![h].phase = "woken"]
      /\ waitingLoads' = IF waitingLoads = <<>> THEN <<>> ELSE Tail(waitingLoads)
  BY DEF Quotes!Wake
<1>5. waitingLoads # <<>> => h \in Quotes!Loads /\ Tail(waitingLoads) \in Seq(Quotes!Loads) /\ h # l
  <2>1. waitingLoads # <<>> => /\ h = waitingLoads[1] /\ h \in Quotes!Loads
                               /\ Tail(waitingLoads) \in Seq(Quotes!Loads)
                               /\ 1 \in 1..Len(waitingLoads)
    BY <1>1, HeadTailProperties
  <2>2. waitingLoads # <<>> => load[waitingLoads[1]].phase = "waiting"
    BY <1>1, <2>1 DEF LineHolds
  <2> QED BY <2>1, <2>2
<1> HIDE DEF h, idle, new
<1>6. waitingLoads # <<>> => /\ woken \in Quotes!Load /\ woken.phase = "woken"
                             /\ load' = [new EXCEPT ![h] = woken]
  BY <1>3, <1>4, <1>5 DEF Quotes!Load
<1> HIDE DEF woken
<1>7. /\ load' \in [Quotes!Loads -> Quotes!Load] /\ load'[l].phase = "idle"
      /\ \A o \in Quotes!Loads : o # l =>
           load'[o].phase = IF waitingLoads # <<>> /\ o = Head(waitingLoads) THEN "woken"
                            ELSE load[o].phase
  <2>1. CASE waitingLoads = <<>>
    BY <1>3, <1>4, <2>1
  <2>2. CASE waitingLoads # <<>>
    BY <1>3, <1>5, <1>6, <2>2 DEF h
  <2> QED BY <2>1, <2>2
<1>8. activeLoads' \in Int
  BY <1>1
<1>9. waitingLoads' \in Seq(Quotes!Loads)
  BY <1>4, <1>5
<1>10. LineHolds(load', waitingLoads', activeLoads')
  <2>1. LineHolds(load', IF waitingLoads = <<>> THEN <<>> ELSE Tail(waitingLoads), activeLoads')
    BY <1>1, <1>7, <1>8, LineMovesOn
  <2> QED BY <1>4, <2>1
<1> QED
  BY <1>7, <1>8, <1>9, <1>10

LEMMA NewerIsTyped ==
  ASSUME NEW old \in Quotes!Quotes, NEW new \in Quotes!Quotes
  PROVE  Quotes!Newer(old, new) \in Quotes!Quotes
<1>1. ASSUME NEW b \in Bases
      PROVE  Quotes!Max({old[b], new[b]}) \in Quotes!Times \cup {Quotes!Never}
  <2>1. old[b] \in Int /\ new[b] \in Int
    BY QuotesAssumptions DEF Quotes!Quotes, Quotes!Times, Quotes!Never
  <2>2. Quotes!Max({old[b], new[b]}) \in {old[b], new[b]}
    BY <2>1, MaxOfTwo
  <2> QED BY <2>2 DEF Quotes!Quotes
<1> QED
  BY <1>1 DEF Quotes!Newer, Quotes!Quotes

\* A subscription ends or begins: what is dropped is not known any longer.
LEMMA DropStep ==
  ASSUME QuotesInv, NEW gone, Quotes!Drop(gone), UNCHANGED stored
  PROVE  /\ state' \in [Symbols -> QuoteState]
         /\ load' \in [Quotes!Loads -> Quotes!Load]
         /\ LineHolds(load', waitingLoads, activeLoads)
         /\ \A s \in Symbols : state'[s].pending # Quotes!NoLoad => state'[s].known
         /\ \A s \in Symbols : state'[s].known => state'[s].quotes = stored'[s]
<1>1. /\ state \in [Symbols -> QuoteState] /\ stored \in [Symbols -> Quotes!Quotes]
      /\ load \in [Quotes!Loads -> Quotes!Load] /\ waitingLoads \in Seq(Quotes!Loads)
      /\ LineHolds(load, waitingLoads, activeLoads)
  BY DEF QuotesInv, QuoteTypes
<1>2. \A s \in Symbols : /\ state[s].known => state[s].quotes = stored[s]
                         /\ state[s].pending # Quotes!NoLoad => state[s].known
  BY DEF QuotesInv, PendingIsKnown, Quotes!KnownIsStored
<1>3. state' = [s \in Symbols |-> IF s \in gone THEN Quotes!Unknown
                                  ELSE IF s \in Quotes!Desired' THEN Quotes!Known(s) ELSE state[s]]
  BY DEF Quotes!Drop
<1>4. \A s \in Symbols : /\ Quotes!Known(s) \in QuoteState /\ Quotes!Known(s).known
                         /\ Quotes!Known(s).quotes = stored[s]
  BY KnownIsTyped
<1>5. state' \in [Symbols -> QuoteState]
  BY <1>1, <1>3, <1>4, UnknownIsTyped
<1>6. \A s \in Symbols : /\ state'[s].pending # Quotes!NoLoad => state'[s].known
                         /\ state'[s].known => state'[s].quotes = stored'[s]
  BY <1>2, <1>3, <1>4, UnknownIsTyped
<1> DEFINE told(l) == [load[l] EXCEPT !.aborted = TRUE]
<1>7. \A l \in Quotes!Loads : told(l) \in Quotes!Load /\ told(l).phase = load[l].phase
  BY <1>1 DEF Quotes!Load
<1>8. load' = [l \in Quotes!Loads |-> IF l[1] \in gone /\ state[l[1]].pending = l THEN told(l)
                                      ELSE load[l]]
  BY DEF Quotes!Drop
<1> HIDE DEF told
<1>9. load' \in [Quotes!Loads -> Quotes!Load] /\ \A l \in Quotes!Loads : load'[l].phase = load[l].phase
  BY <1>1, <1>7, <1>8
<1>10. LineHolds(load', waitingLoads, activeLoads)
  BY <1>1, <1>9, LineKeepsPhases
<1> QED
  BY <1>5, <1>6, <1>9, <1>10

LEMMA QuotesStep == QuotesInv /\ [Quotes!Next]_(Quotes!vars) => QuotesInv'
<1> SUFFICES ASSUME QuotesInv, [Quotes!Next]_(Quotes!vars) PROVE QuotesInv'
  OBVIOUS
<1>1. /\ state \in [Symbols -> QuoteState] /\ stored \in [Symbols -> Quotes!Quotes]
      /\ load \in [Quotes!Loads -> Quotes!Load] /\ activeLoads \in Int
      /\ waitingLoads \in Seq(Quotes!Loads) /\ quotesClock \in Quotes!Times
      /\ quotesMonitor.symbol \in Symbols
      /\ LineHolds(load, waitingLoads, activeLoads)
  BY DEF QuotesInv, QuoteTypes
<1>2. \A s \in Symbols : /\ state[s].known => state[s].quotes = stored[s]
                         /\ state[s].pending # Quotes!NoLoad => state[s].known
  BY DEF QuotesInv, PendingIsKnown, Quotes!KnownIsStored
<1>3. ASSUME NEW s \in Symbols, Quotes!Ask(s) PROVE QuotesInv'
  <2>1. Quotes!Refresh(s) /\ UNCHANGED <<quotesClock, quotesMonitor, stored, shown>>
    BY <1>3 DEF Quotes!Ask
  <2> QED BY <2>1, RefreshStep
<1>4. ASSUME NEW l \in Quotes!Loads, Quotes!CancelledInLine(l) PROVE QuotesInv'
  <2>1. /\ load[l].phase = "woken" /\ Quotes!Wake(Quotes!Idle(l)) /\ state' = Quotes!Finished(l)
        /\ UNCHANGED <<quotesClock, quotesMonitor, stored, activeLoads, shown>>
    BY <1>4 DEF Quotes!CancelledInLine
  <2>2. /\ load' \in [Quotes!Loads -> Quotes!Load]
        /\ activeLoads' \in Int /\ waitingLoads' \in Seq(Quotes!Loads)
        /\ LineHolds(load', waitingLoads', activeLoads')
    BY <2>1, WakeStep
  <2>3. /\ state' \in [Symbols -> QuoteState]
        /\ \A s \in Symbols : state'[s].pending # Quotes!NoLoad => state'[s].known
        /\ \A s \in Symbols : state'[s].known => state'[s].quotes = stored'[s]
    BY <2>1, FinishedStates
  <2> QED BY <1>1, <2>1, <2>2, <2>3, QuotesRest
<1>5. ASSUME NEW l \in Quotes!Loads, Quotes!TakePlace(l) PROVE QuotesInv'
  <2> DEFINE it == [load[l] EXCEPT !.phase = IF activeLoads < MaxLoads THEN "reading" ELSE "waiting"]
  <2>1. /\ load[l].phase = "woken"
        /\ UNCHANGED <<quotesClock, quotesMonitor, state, stored, shown>>
    BY <1>5 DEF Quotes!TakePlace
  <2>2. it \in Quotes!Load /\ it.phase = IF activeLoads < MaxLoads THEN "reading" ELSE "waiting"
    BY <1>1 DEF Quotes!Load
  <2>3. /\ load' = [load EXCEPT ![l] = it]
        /\ waitingLoads' = IF activeLoads < MaxLoads THEN waitingLoads ELSE Append(waitingLoads, l)
        /\ activeLoads' = IF activeLoads < MaxLoads THEN activeLoads + 1 ELSE activeLoads
    BY <1>1, <1>5 DEF Quotes!TakePlace
  <2> HIDE DEF it
  <2>4. LineHolds(load', waitingLoads', activeLoads')
    BY <1>1, <2>1, <2>2, <2>3, LineTakesLoad
  <2>5. load' \in [Quotes!Loads -> Quotes!Load] /\ activeLoads' \in Int
    <3>1. load' \in [Quotes!Loads -> Quotes!Load]
      BY <1>1, <2>2, <2>3
    <3>2. activeLoads' \in {activeLoads, activeLoads + 1}
      BY <2>3
    <3> QED BY <1>1, <3>1, <3>2
  <2>6. waitingLoads' \in Seq(Quotes!Loads)
    BY <1>1, <2>3, AppendProperties
  <2> QED BY <1>1, <1>2, <2>1, <2>4, <2>5, <2>6, QuotesRest
<1>6. ASSUME NEW l \in Quotes!Loads, load[l].phase = "reading", Quotes!Wake(Quotes!Idle(l)),
             activeLoads' = activeLoads - 1,
             UNCHANGED <<quotesClock, quotesMonitor, shown>>,
             state' \in [Symbols -> QuoteState], stored' \in [Symbols -> Quotes!Quotes],
             \A s \in Symbols : state'[s].pending # Quotes!NoLoad => state'[s].known,
             \A s \in Symbols : state'[s].known => state'[s].quotes = stored'[s]
      PROVE  QuotesInv'
  <2>1. /\ load' \in [Quotes!Loads -> Quotes!Load]
        /\ activeLoads' \in Int /\ waitingLoads' \in Seq(Quotes!Loads)
        /\ LineHolds(load', waitingLoads', activeLoads')
    BY <1>6, WakeStep
  <2> QED BY <1>6, <2>1, QuotesRest
\* What becomes of the states when the load of a known symbol ends.
<1>7. ASSUME NEW l \in Quotes!Loads, NEW now \in QuoteState, NEW new \in Quotes!Quotes,
             state[l[1]].pending = l, now.quotes = new, now.pending = Quotes!NoLoad,
             state' = [Quotes!Finished(l) EXCEPT ![l[1]] = now],
             stored' = [stored EXCEPT ![l[1]] = new]
      PROVE  /\ state' \in [Symbols -> QuoteState] /\ stored' \in [Symbols -> Quotes!Quotes]
             /\ \A s \in Symbols : state'[s].pending # Quotes!NoLoad => state'[s].known
             /\ \A s \in Symbols : state'[s].known => state'[s].quotes = stored'[s]
  <2>1. l[1] \in Symbols
    BY LoadsAreLoads
  <2>2. /\ Quotes!Finished(l) \in [Symbols -> QuoteState]
        /\ \A s \in Symbols : Quotes!Finished(l)[s].known = state[s].known
        /\ \A s \in Symbols : Quotes!Finished(l)[s].quotes = stored[s] \/ ~state[s].known
        /\ \A s \in Symbols : Quotes!Finished(l)[s].pending # Quotes!NoLoad => state[s].known
    BY FinishedStates
  <2>3. /\ state' \in [Symbols -> QuoteState] /\ stored' \in [Symbols -> Quotes!Quotes]
        /\ state'[l[1]] = now /\ stored'[l[1]] = new
        /\ \A s \in Symbols : s # l[1] => state'[s] = Quotes!Finished(l)[s] /\ stored'[s] = stored[s]
    BY <1>1, <1>7, <2>1, <2>2
  <2> QED BY <1>7, <2>2, <2>3
<1>8. ASSUME NEW l \in Quotes!Loads, Quotes!StillWanted(l)
      PROVE  /\ state[l[1]].pending = l /\ l[1] \in Symbols /\ state[l[1]].known
             /\ Quotes!Finished(l)[l[1]] \in QuoteState
             /\ Quotes!Finished(l)[l[1]].pending = Quotes!NoLoad
             /\ Quotes!Finished(l)[l[1]].quotes = stored[l[1]]
             /\ Quotes!Finished(l) \in [Symbols -> QuoteState]
  <2>1. state[l[1]].pending = l /\ l[1] \in Symbols /\ l # Quotes!NoLoad
    BY <1>8, LoadsAreLoads DEF Quotes!StillWanted
  <2>2. state[l[1]].known
    BY <1>2, <2>1
  <2>3. Quotes!Finished(l)[l[1]].pending = Quotes!NoLoad
    BY <1>1, <2>1 DEF Quotes!Finished, QuoteState
  <2> QED BY <2>1, <2>2, <2>3, FinishedStates
<1>9. ASSUME NEW l \in Quotes!Loads, Quotes!ReadAnswers(l) PROVE QuotesInv'
  <2>1. /\ load[l].phase = "reading" /\ activeLoads' = activeLoads - 1
        /\ Quotes!Wake(Quotes!Idle(l)) /\ UNCHANGED <<quotesClock, quotesMonitor, shown>>
    BY <1>9 DEF Quotes!ReadAnswers
  <2>2. CASE Quotes!StillWanted(l)
    <3>1. PICK q \in Quotes!Answers :
            /\ stored' = [stored EXCEPT ![l[1]] = Quotes!Newer(@, q)]
            /\ state' = IF state[l[1]].pending = l
                        THEN [Quotes!Finished(l) EXCEPT ![l[1]].quotes = Quotes!Newer(@, q),
                              ![l[1]].failures = 0, ![l[1]].nextAttempt = 0, ![l[1]].error = FALSE]
                        ELSE state
      BY <1>9, <2>2 DEF Quotes!ReadAnswers
    <3> DEFINE before == Quotes!Finished(l)[l[1]]
               new == Quotes!Newer(stored[l[1]], q)
               now == [before EXCEPT !.quotes = new, !.failures = 0, !.nextAttempt = 0, !.error = FALSE]
    <3>2. /\ state[l[1]].pending = l /\ l[1] \in Symbols
          /\ before \in QuoteState /\ before.pending = Quotes!NoLoad /\ before.quotes = stored[l[1]]
          /\ Quotes!Finished(l) \in [Symbols -> QuoteState]
      BY <1>8, <2>2
    <3>3. q \in Quotes!Quotes
      BY <1>1, QuotesAssumptions DEF Quotes!Answers, Quotes!Quotes, Quotes!Times
    <3>4. new \in Quotes!Quotes
      BY <1>1, <3>2, <3>3, NewerIsTyped
    <3>5. stored' = [stored EXCEPT ![l[1]] = new]
      BY <1>1, <3>1, <3>2
    <3>6. state' = [Quotes!Finished(l) EXCEPT ![l[1]] = now]
      BY <3>1, <3>2
    <3> HIDE DEF new, before
    <3>7. now \in QuoteState /\ now.quotes = new /\ now.pending = Quotes!NoLoad
      <4>1. 0 \in Attempts
        BY DEF Attempts
      <4> QED BY <3>2, <3>4, <4>1 DEF QuoteState
    <3> HIDE DEF now
    <3>8. /\ state' \in [Symbols -> QuoteState] /\ stored' \in [Symbols -> Quotes!Quotes]
          /\ \A s \in Symbols : state'[s].pending # Quotes!NoLoad => state'[s].known
          /\ \A s \in Symbols : state'[s].known => state'[s].quotes = stored'[s]
      BY <1>7, <3>2, <3>4, <3>5, <3>6, <3>7
    <3> QED BY <1>6, <2>1, <3>8
  <2>3. CASE ~Quotes!StillWanted(l)
    <3>1. state' = Quotes!Finished(l) /\ UNCHANGED stored
      BY <1>9, <2>3 DEF Quotes!ReadAnswers
    <3>2. /\ state' \in [Symbols -> QuoteState] /\ stored' \in [Symbols -> Quotes!Quotes]
          /\ \A s \in Symbols : state'[s].pending # Quotes!NoLoad => state'[s].known
          /\ \A s \in Symbols : state'[s].known => state'[s].quotes = stored'[s]
      BY <1>1, <3>1, FinishedStates
    <3> QED BY <1>6, <2>1, <3>2
  <2> QED BY <2>2, <2>3
<1>10. ASSUME NEW l \in Quotes!Loads, Quotes!ReadFails(l) PROVE QuotesInv'
  <2> DEFINE failures == state[l[1]].failures + 1
  <2>1. /\ load[l].phase = "reading" /\ activeLoads' = activeLoads - 1
        /\ Quotes!Wake(Quotes!Idle(l)) /\ UNCHANGED <<quotesClock, quotesMonitor, stored, shown>>
        /\ state' = IF Quotes!StillWanted(l)
                    THEN [Quotes!Finished(l) EXCEPT ![l[1]].failures = failures, ![l[1]].error = TRUE,
                          ![l[1]].nextAttempt = quotesClock + Quotes!RetryAfter(failures)]
                    ELSE Quotes!Finished(l)
    BY <1>10 DEF Quotes!ReadFails
  <2>2. CASE Quotes!StillWanted(l)
    <3> DEFINE before == Quotes!Finished(l)[l[1]]
               next == quotesClock + Quotes!RetryAfter(failures)
               now == [before EXCEPT !.failures = failures, !.error = TRUE, !.nextAttempt = next]
    <3>1. /\ state[l[1]].pending = l /\ l[1] \in Symbols
          /\ before \in QuoteState /\ before.pending = Quotes!NoLoad /\ before.quotes = stored[l[1]]
          /\ Quotes!Finished(l) \in [Symbols -> QuoteState]
      BY <1>8, <2>2
    <3>2. failures \in Nat
      BY <1>1, <3>1 DEF QuoteState
    <3>3. next \in Attempts
      BY <1>1, <3>2 DEF Attempts
    <3>4. state' = [Quotes!Finished(l) EXCEPT ![l[1]] = now]
      BY <2>1, <2>2, <3>1
    <3> HIDE DEF next, before
    <3>5. now \in QuoteState /\ now.quotes = stored[l[1]] /\ now.pending = Quotes!NoLoad
      BY <3>1, <3>2, <3>3 DEF QuoteState
    <3> HIDE DEF now
    <3>6. stored' = [stored EXCEPT ![l[1]] = stored[l[1]]] /\ stored[l[1]] \in Quotes!Quotes
      BY <1>1, <2>1, <3>1
    <3>7. /\ state' \in [Symbols -> QuoteState] /\ stored' \in [Symbols -> Quotes!Quotes]
          /\ \A s \in Symbols : state'[s].pending # Quotes!NoLoad => state'[s].known
          /\ \A s \in Symbols : state'[s].known => state'[s].quotes = stored'[s]
      BY <1>7, <3>1, <3>4, <3>5, <3>6
    <3> QED BY <1>6, <2>1, <3>7
  <2>3. CASE ~Quotes!StillWanted(l)
    <3>1. /\ state' \in [Symbols -> QuoteState] /\ stored' \in [Symbols -> Quotes!Quotes]
          /\ \A s \in Symbols : state'[s].pending # Quotes!NoLoad => state'[s].known
          /\ \A s \in Symbols : state'[s].known => state'[s].quotes = stored'[s]
      BY <1>1, <2>1, <2>3, FinishedStates
    <3> QED BY <1>6, <2>1, <3>1
  <2> QED BY <2>2, <2>3
<1>11. ASSUME NEW r \in Quotes!Scans, Quotes!StartScan(r) PROVE QuotesInv'
  <2>1. /\ Quotes!Refresh(quotesMonitor.symbol)
        /\ UNCHANGED <<quotesClock, quotesMonitor, stored, shown>>
    BY <1>11 DEF Quotes!StartScan
  <2> QED BY <1>1, <2>1, RefreshStep
<1>12. ASSUME NEW r \in Quotes!Scans, Quotes!EndScan(r) PROVE QuotesInv'
  <2>1. /\ UNCHANGED <<quotesClock, quotesMonitor, state, stored, load, activeLoads, waitingLoads>>
        /\ shown' = IF Quotes!IsCurrent(r) THEN Quotes!Shows(r) ELSE shown
    BY <1>12 DEF Quotes!EndScan, Quotes!pool
  <2>2. Quotes!IsCurrent(r) => /\ quotesMonitor.enabled
                               /\ Quotes!Shows(r).generation = Quotes!Generation
    BY DEF Quotes!IsCurrent, Quotes!Shows
  <2>3. Quotes!Generation' = Quotes!Generation
    BY <2>1 DEF Quotes!Generation
  <2>4. Quotes!ShownIsConfigured'
    BY <2>1, <2>2, <2>3 DEF QuotesInv, Quotes!ShownIsConfigured
  <2> QED BY <1>1, <1>2, <2>1, <2>4, QuotesGoOn
<1>13. ASSUME Quotes!Subscribe PROVE QuotesInv'
  <2>1. /\ UNCHANGED <<quotesClock, quotesMonitor, stored, activeLoads, waitingLoads, shown>>
        /\ Quotes!Drop(Quotes!Desired \ Quotes!Desired')
    BY <1>13 DEF Quotes!Subscribe
  <2>2. /\ state' \in [Symbols -> QuoteState]
        /\ load' \in [Quotes!Loads -> Quotes!Load]
        /\ LineHolds(load', waitingLoads, activeLoads)
        /\ \A s \in Symbols : state'[s].pending # Quotes!NoLoad => state'[s].known
        /\ \A s \in Symbols : state'[s].known => state'[s].quotes = stored'[s]
    BY <2>1, DropStep
  <2> QED BY <1>1, <2>1, <2>2, QuotesRest
<1>14. ASSUME Quotes!ChangeMonitor PROVE QuotesInv'
  <2>1. /\ UNCHANGED <<quotesClock, stored, activeLoads, waitingLoads>>
        /\ Quotes!Drop(Quotes!Desired \ Quotes!Desired')
        /\ quotesMonitor'.symbol \in Symbols /\ shown' = Quotes!NothingShown
    BY <1>14 DEF Quotes!ChangeMonitor
  <2>2. /\ state' \in [Symbols -> QuoteState]
        /\ load' \in [Quotes!Loads -> Quotes!Load]
        /\ LineHolds(load', waitingLoads, activeLoads)
        /\ \A s \in Symbols : state'[s].pending # Quotes!NoLoad => state'[s].known
        /\ \A s \in Symbols : state'[s].known => state'[s].quotes = stored'[s]
    BY <2>1, DropStep
  <2>3. Quotes!ShownIsConfigured'
    BY <2>1 DEF Quotes!ShownIsConfigured, Quotes!NothingShown
  <2> QED BY <1>1, <2>1, <2>2, <2>3, QuotesGoOn
<1>15. ASSUME Quotes!Close PROVE QuotesInv'
  <2> DEFINE told(l) == [load[l] EXCEPT !.aborted = TRUE]
  <2>1. \A l \in Quotes!Loads : told(l) \in Quotes!Load /\ told(l).phase = load[l].phase
    BY <1>1 DEF Quotes!Load
  <2>2. /\ load' = [l \in Quotes!Loads |-> IF state[l[1]].pending = l THEN told(l) ELSE load[l]]
        /\ UNCHANGED <<quotesClock, quotesMonitor, state, stored, activeLoads, waitingLoads, shown>>
    BY <1>15 DEF Quotes!Close
  <2> HIDE DEF told
  <2>3. load' \in [Quotes!Loads -> Quotes!Load] /\ \A l \in Quotes!Loads : load'[l].phase = load[l].phase
    BY <1>1, <2>1, <2>2
  <2>4. LineHolds(load', waitingLoads, activeLoads)
    BY <1>1, <2>3, LineKeepsPhases
  <2> QED BY <1>1, <1>2, <2>2, <2>3, <2>4, QuotesRest
<1>16. ASSUME Quotes!TimePasses PROVE QuotesInv'
  <2>1. /\ quotesClock < MaxClock /\ quotesClock' = quotesClock + 1
        /\ UNCHANGED <<quotesMonitor, state, stored, load, activeLoads, waitingLoads, shown>>
    BY <1>16 DEF Quotes!TimePasses, Quotes!pool
  <2>2. quotesClock' \in Quotes!Times
    BY <1>1, <2>1, QuotesAssumptions DEF Quotes!Times
  <2>3. Quotes!ShownIsConfigured'
    BY <2>1 DEF QuotesInv, Quotes!ShownIsConfigured, Quotes!NothingShown, Quotes!Generation
  <2> QED BY <1>1, <1>2, <2>1, <2>2, <2>3, QuotesGoOn
<1>17. ASSUME UNCHANGED Quotes!vars PROVE QuotesInv'
  <2>1. UNCHANGED <<quotesClock, quotesMonitor, state, stored, load, activeLoads, waitingLoads, shown>>
    BY <1>17 DEF Quotes!vars, Quotes!pool
  <2> QED BY <1>1, <1>2, <2>1, QuotesRest
<1> QED
  BY <1>3, <1>4, <1>5, <1>9, <1>10, <1>11, <1>12, <1>13, <1>14, <1>15, <1>16, <1>17 DEF Quotes!Next

LEMMA QuotesInvAlways == PartsSpec => [](part = "quotes" => QuotesInv)
<1> DEFINE Inv == part = "quotes" => QuotesInv
<1>1. PartsInit => Inv
  BY QuotesInit DEF PartsInit
<1>2. Inv /\ [PartsNext]_partVars => Inv'
  <2> SUFFICES ASSUME Inv, [PartsNext]_partVars, part' = "quotes" PROVE QuotesInv'
    OBVIOUS
  <2>1. part = "quotes" /\ [Quotes!Next]_(Quotes!vars)
    BY DEF PartsNext, partVars, quotesVars, Quotes!vars, Quotes!pool
  <2> QED BY <2>1, QuotesStep
<1> QED
  BY <1>1, <1>2, PTL DEF PartsSpec

\* A load that waits in line waits for a load that reads or for one that was let out of the
\* line, whatever is cancelled (StockQuoteService, acquireLoad and releaseLoad).
THEOREM NoPlaceIsLostAlways == PartsSpec => []NoPlaceIsLost
<1>1. (part = "quotes" => QuotesInv) => NoPlaceIsLost
  <2> SUFFICES ASSUME QuotesInv, waitingLoads # <<>>, activeLoads < MaxLoads
               PROVE  \E l \in Quotes!Loads : load[l].phase = "woken"
    BY DEF NoPlaceIsLost, Quotes!NoPlaceIsLost
  <2>1. /\ IsFiniteSet(Woken(load)) /\ activeLoads + Cardinality(Woken(load)) >= MaxLoads
        /\ activeLoads \in Int /\ MaxLoads \in Int
    BY QuotesAssumptions DEF QuotesInv, LineHolds, QuoteTypes
  <2>2. Woken(load) # {}
    BY <2>1, FS_EmptySet
  <2> QED BY <2>2 DEF Woken
<1> QED
  BY <1>1, QuotesInvAlways, PTL

\* What the process knows of a symbol is what is stored of it, whichever load answers late
\* and whichever subscription ends (StockQuoteService).
THEOREM KnownIsStoredAlways == PartsSpec => []KnownIsStored
<1>1. (part = "quotes" => QuotesInv) => KnownIsStored
  BY DEF QuotesInv, KnownIsStored
<1> QED
  BY <1>1, QuotesInvAlways, PTL

\* The price shown is one of the monitor as it is configured now (UsStockCoordinator).
THEOREM ShownIsConfiguredAlways == PartsSpec => []ShownIsConfigured
<1>1. (part = "quotes" => QuotesInv) => ShownIsConfigured
  BY DEF QuotesInv, ShownIsConfigured
<1> QED
  BY <1>1, QuotesInvAlways, PTL

---------------------------------------------------------------------------
(* The calls on an integration *)

LEMMA CallsAssumptions ==
  /\ CapabilitiesOf \in [CallChains -> SUBSET {"reserves", "v3", "v4", "pancake"}]
  /\ Kinds \subseteq {"v3", "v4", "pancake"} /\ ChainOf \in [Kinds -> CallChains]
  /\ ResponseTtl \in Nat /\ CatalogTtl \in Nat
  /\ MaxClock \in Nat /\ MaxCallChanges \in Nat /\ MaxFaults \in Nat
  BY PartsParameters DEF Served!OperationsParameters

KeptRecord == [config : Nat, until : Nat]
ResponseRecord == [config : Nat, until : Nat, tokens : SUBSET Nat]
TestRecord == [config : Nat, good : SUBSET {"rpc", "reserves", "v3", "v4", "pancake"}]
CallRecord ==
  [phase : Served!Phases, config : Nat, kind : Kinds \cup {"none"}, chains : SUBSET CallChains,
   reader : Nat, tokens : SUBSET Nat, leader : Calls \cup {Served!NoCall}]

JobRecord == [running : BOOLEAN, aborted : BOOLEAN, config : Nat]

CallTypes ==
  /\ callsClock \in Nat
  /\ callsIntegration \in [config : Nat, enabled : BOOLEAN, chains : SUBSET CallChains,
                           present : BOOLEAN]
  /\ inflight \in [Kinds -> Calls \cup {Served!NoCall}]
  /\ positionInflight \in [Kinds -> Calls \cup {Served!NoCall}]
  /\ callsHealth \in [CallChains -> TestRecord] /\ catalog \in [CallChains -> KeptRecord]
  /\ responses \in [Kinds -> ResponseRecord] /\ positions \in [Kinds -> KeptRecord]
  /\ readers \in [Kinds -> Nat]
  /\ index \subseteq Nat /\ job \in JobRecord
  /\ call \in [Calls -> CallRecord]

Loading == {"discover", "look", "read", "joinRead", "end"}

\* A call that is over remembers nothing; one that loads is of some kind.
InOrder(c) ==
  /\ c.phase = "idle" => /\ c.config = Served!NoConfig /\ c.reader = Served!NoConfig
                         /\ c.tokens = {} /\ c.kind = "none"
  /\ c.phase \in Loading => c.kind \in Kinds
CallsInOrder == \A a \in Calls : InOrder(call[a])

CallsInv == CallTypes /\ CallsInOrder /\ Served!SharedIsUnderWay

LEMMA CallConstants ==
  /\ Served!Idle \in CallRecord /\ InOrder(Served!Idle) /\ Served!Idle.phase = "idle"
  /\ Served!Idle.config = Served!NoConfig /\ Served!Idle.reader = Served!NoConfig
  /\ Served!Idle.tokens = {} /\ Served!Idle.kind = "none"
  /\ Served!Nothing \in KeptRecord /\ Served!Nothing.config = Served!NoConfig
  /\ Served!NoResponse \in ResponseRecord /\ Served!NoResponse.config = Served!NoConfig
  /\ Served!NoResponse.tokens = {}
  /\ Served!NotTested \in TestRecord /\ Served!NotTested.config = Served!NoConfig
  /\ Served!NoConfig \in Nat /\ Served!NoJob \in JobRecord /\ ~Served!NoJob.running
  BY DEF Served!Idle, CallRecord, Served!Phases, Served!Nothing, KeptRecord, Served!NotTested,
         TestRecord, Served!NoResponse, ResponseRecord, Served!NoConfig, Served!NoJob, JobRecord, InOrder, Loading

LEMMA CallsInit == Served!Init => CallsInv
<1> SUFFICES ASSUME Served!Init PROVE CallsInv
  OBVIOUS
<1>1. CallTypes
  BY CallConstants DEF Served!Init, CallTypes, Served!NoCall
<1>2. CallsInOrder /\ Served!SharedIsUnderWay
  BY CallConstants DEF Served!Init, CallsInOrder, Served!SharedIsUnderWay
<1> QED
  BY <1>1, <1>2 DEF CallsInv

\* Steps that leave the integration as it is.
LEMMA CallsRest ==
  ASSUME CallsInv, UNCHANGED callsIntegration, callsClock' \in Nat,
         inflight' \in [Kinds -> Calls \cup {Served!NoCall}],
         positionInflight' \in [Kinds -> Calls \cup {Served!NoCall}],
         callsHealth' \in [CallChains -> TestRecord], catalog' \in [CallChains -> KeptRecord],
         responses' \in [Kinds -> ResponseRecord], positions' \in [Kinds -> KeptRecord],
         readers' \in [Kinds -> Nat], index' \subseteq Nat, job' \in JobRecord,
         call' \in [Calls -> CallRecord],
         CallsInOrder', Served!SharedIsUnderWay'
  PROVE  CallsInv'
<1>1. CallTypes'
  BY DEF CallsInv, CallTypes
<1> QED
  BY <1>1 DEF CallsInv

LEMMA CallsStep == CallsInv /\ [Served!Next]_(Served!vars) => CallsInv'
<1> SUFFICES ASSUME CallsInv, [Served!Next]_(Served!vars) PROVE CallsInv'
  OBVIOUS
<1>1. /\ callsClock \in Nat
      /\ callsIntegration \in [config : Nat, enabled : BOOLEAN, chains : SUBSET CallChains,
                               present : BOOLEAN]
      /\ inflight \in [Kinds -> Calls \cup {Served!NoCall}]
      /\ positionInflight \in [Kinds -> Calls \cup {Served!NoCall}]
      /\ callsIntegration.config \in Nat /\ index \subseteq Nat /\ job \in JobRecord
  BY DEF CallsInv, CallTypes
<1>2. /\ callsHealth \in [CallChains -> TestRecord] /\ catalog \in [CallChains -> KeptRecord]
      /\ responses \in [Kinds -> ResponseRecord] /\ positions \in [Kinds -> KeptRecord]
      /\ readers \in [Kinds -> Nat]
      /\ call \in [Calls -> CallRecord]
  BY DEF CallsInv, CallTypes
<1>3. /\ \A a \in Calls : InOrder(call[a])
      /\ \A k \in Kinds : inflight[k] # Served!NoCall =>
           /\ inflight[k] \in Calls /\ call[inflight[k]].kind = k
           /\ call[inflight[k]].phase \in Loading
      /\ \A k \in Kinds : positionInflight[k] # Served!NoCall =>
           /\ positionInflight[k] \in Calls /\ call[positionInflight[k]].kind = k
           /\ call[positionInflight[k]].phase = "read"
  BY <1>1 DEF CallsInv, CallsInOrder, Served!SharedIsUnderWay, Loading
\* One call goes on, and others do not notice.
<1>4. ASSUME NEW a \in Calls, NEW next \in CallRecord, call' = [call EXCEPT ![a] = next],
             InOrder(next)
      PROVE  /\ call' \in [Calls -> CallRecord] /\ call'[a] = next
             /\ \A b \in Calls : b # a => call'[b] = call[b]
             /\ CallsInOrder'
  <2>1. /\ call' \in [Calls -> CallRecord] /\ call'[a] = next
        /\ \A b \in Calls : b # a => call'[b] = call[b]
    BY <1>2, <1>4
  <2> QED BY <1>3, <1>4, <2>1 DEF CallsInOrder
\* A call that nobody waits for begins or ends.
<1>5. ASSUME NEW a \in Calls, call[a].phase \in {"idle", "test", "reserves"},
             \A b \in Calls : b # a => call'[b] = call[b],
             UNCHANGED <<inflight, positionInflight>>
      PROVE  Served!SharedIsUnderWay'
  <2>1. \A k \in Kinds : /\ inflight[k] # Served!NoCall => inflight[k] # a
                         /\ positionInflight[k] # Served!NoCall => positionInflight[k] # a
    BY <1>3, <1>5 DEF Loading
  <2> QED BY <1>3, <1>5, <2>1 DEF Served!SharedIsUnderWay, Loading
<1>6. ASSUME NEW a \in Calls, Served!StartTest(a) PROVE CallsInv'
  <2> DEFINE next == [Served!Idle EXCEPT !.phase = "test", !.config = callsIntegration.config,
                                         !.chains = callsIntegration.chains]
  <2>1. /\ call[a].phase = "idle" /\ call' = [call EXCEPT ![a] = next]
        /\ UNCHANGED <<callsClock, callsIntegration, callsHealth, catalog, responses, inflight,
                       readers, positions, positionInflight, index, job>>
    BY <1>6 DEF Served!StartTest, Served!MayStart, Served!caches, Served!scans
  <2>2. next \in CallRecord /\ InOrder(next)
    BY <1>1, <1>2, CallConstants DEF CallRecord, Served!Phases, InOrder, Loading, Served!Idle
  <2> HIDE DEF next
  <2>3. /\ call' \in [Calls -> CallRecord] /\ CallsInOrder'
        /\ \A b \in Calls : b # a => call'[b] = call[b]
    BY <1>4, <2>1, <2>2
  <2>4. Served!SharedIsUnderWay'
    BY <1>5, <2>1, <2>3
  <2> QED BY <1>1, <1>2, <2>1, <2>3, <2>4, CallsRest
<1>7. ASSUME NEW a \in Calls, NEW c \in CallChains, Served!TestNetwork(a, c) PROVE CallsInv'
  <2> DEFINE left == [call[a] EXCEPT !.chains = call[a].chains \ {c}]
             next == IF call[a].chains = {c} THEN Served!Idle ELSE left
             All == {"rpc", "reserves", "v3", "v4", "pancake"}
  <2>1. /\ call[a].phase = "test"
        /\ UNCHANGED <<callsClock, callsIntegration, catalog, responses, inflight, readers,
                       positions, positionInflight, index, job>>
    BY <1>7 DEF Served!TestNetwork, Served!caches, Served!scans
  <2>2. PICK good \in SUBSET All : Served!Tested(a, c, good)
    <3>1. CASE Served!Tested(a, c, {})
      BY <3>1
    <3>2. CASE \E failed \in {{}} \cup (IF callsFaults < MaxFaults
                                       THEN {{p} : p \in CapabilitiesOf[c]} ELSE {}) :
                 Served!Tested(a, c, {"rpc"} \cup (CapabilitiesOf[c] \ failed))
      <4>1. CapabilitiesOf[c] \subseteq All
        BY CallsAssumptions
      <4> QED BY <3>2, <4>1
    <3> QED BY <1>7, <3>1, <3>2 DEF Served!TestNetwork
  <2>3. next \in CallRecord /\ InOrder(next)
    <3>1. left \in CallRecord /\ left.phase = "test"
      BY <1>2, <2>1 DEF CallRecord
    <3> HIDE DEF left
    <3> QED BY CallConstants, <3>1 DEF InOrder, Loading
  <2>4. call' = [call EXCEPT ![a] = next]
    BY <1>2, <2>2 DEF Served!Tested
  <2>5. callsHealth' \in [CallChains -> TestRecord]
    <3>1. [config |-> call[a].config, good |-> good] \in TestRecord
      BY <1>2, <2>2 DEF CallRecord, TestRecord
    <3>2. callsHealth' \in {callsHealth,
            [callsHealth EXCEPT ![c] = [config |-> call[a].config, good |-> good]]}
      BY <2>2 DEF Served!Tested, Served!Replace
    <3> QED BY <1>2, <3>1, <3>2
  <2> HIDE DEF next
  <2>6. /\ call' \in [Calls -> CallRecord] /\ CallsInOrder'
        /\ \A b \in Calls : b # a => call'[b] = call[b]
    BY <1>4, <2>3, <2>4
  <2>7. Served!SharedIsUnderWay'
    BY <1>5, <2>1, <2>6
  <2> QED BY <1>1, <1>2, <2>1, <2>5, <2>6, <2>7, CallsRest
<1>8. ASSUME NEW a \in Calls, NEW c \in CallChains, Served!AskReserves(a, c) PROVE CallsInv'
  <2> DEFINE next == [Served!Idle EXCEPT !.phase = "reserves", !.config = callsIntegration.config,
                                         !.chains = {c}]
  <2>1. /\ call[a].phase = "idle" /\ call' = [call EXCEPT ![a] = next]
        /\ UNCHANGED <<callsClock, callsIntegration, callsHealth, catalog, responses, inflight,
                       readers, positions, positionInflight, index, job>>
    BY <1>8 DEF Served!AskReserves, Served!MayStart, Served!caches, Served!scans
  <2>2. next \in CallRecord /\ InOrder(next)
    BY <1>1, CallConstants DEF CallRecord, Served!Phases, InOrder, Loading, Served!Idle
  <2> HIDE DEF next
  <2>3. /\ call' \in [Calls -> CallRecord] /\ CallsInOrder'
        /\ \A b \in Calls : b # a => call'[b] = call[b]
    BY <1>4, <2>1, <2>2
  <2>4. Served!SharedIsUnderWay'
    BY <1>5, <2>1, <2>3
  <2> QED BY <1>1, <1>2, <2>1, <2>3, <2>4, CallsRest
\* A read of the catalogue is over.
<1>9. ASSUME NEW a \in Calls, call[a].phase = "reserves", call' = [call EXCEPT ![a] = Served!Idle],
              catalog' \in [CallChains -> KeptRecord],
              UNCHANGED <<callsClock, callsIntegration, callsHealth, responses, inflight, readers,
                          positions, positionInflight, index, job>>
       PROVE  CallsInv'
  <2>1. InOrder(Served!Idle)
    BY CallConstants DEF InOrder, Loading
  <2>2. /\ call' \in [Calls -> CallRecord] /\ CallsInOrder'
        /\ \A b \in Calls : b # a => call'[b] = call[b]
    BY CallConstants, <1>4, <1>9, <2>1
  <2>3. Served!SharedIsUnderWay'
    BY <1>5, <1>9, <2>2
  <2> QED BY <1>1, <1>2, <1>9, <2>2, <2>3, CallsRest
<1>10. ASSUME NEW a \in Calls, NEW c \in CallChains, Served!ReservesAnswer(a, c) PROVE CallsInv'
  <2> DEFINE kept == [config |-> call[a].config, until |-> callsClock + CatalogTtl]
  <2>1. /\ call[a].phase = "reserves" /\ call' = [call EXCEPT ![a] = Served!Idle]
        /\ catalog' = [catalog EXCEPT ![c] = kept]
        /\ UNCHANGED <<callsClock, callsIntegration, callsHealth, responses, inflight, readers,
                       positions, positionInflight, index, job>>
    BY <1>10 DEF Served!ReservesAnswer, Served!scans
  <2>2. kept \in KeptRecord
    BY <1>1, <1>2, CallsAssumptions DEF KeptRecord, CallRecord
  <2> HIDE DEF kept
  <2>3. catalog' \in [CallChains -> KeptRecord]
    BY <1>2, <2>1, <2>2
  <2> QED BY <1>9, <2>1, <2>3
<1>11. ASSUME NEW a \in Calls, Served!ReservesFail(a) PROVE CallsInv'
  <2>1. /\ call[a].phase = "reserves" /\ call' = [call EXCEPT ![a] = Served!Idle]
        /\ UNCHANGED <<callsClock, callsIntegration, callsHealth, catalog, responses, inflight,
                       readers, positions, positionInflight, index, job>>
    BY <1>11 DEF Served!ReservesFail, Served!caches, Served!scans
  <2> QED BY <1>2, <1>9, <2>1
<1>12. ASSUME NEW a \in Calls, NEW k \in Kinds, Served!AskPositions(a, k) PROVE CallsInv'
  <2>1. /\ call[a].phase = "idle"
        /\ UNCHANGED <<callsClock, callsIntegration, callsHealth, catalog, responses,
                       positions, positionInflight, index>>
    BY <1>12 DEF Served!AskPositions, Served!MayStart
  <2>2. CASE inflight[k] # Served!NoCall
    <3> DEFINE next == [Served!Idle EXCEPT !.phase = "join", !.kind = k, !.leader = inflight[k]]
    <3>1. call' = [call EXCEPT ![a] = next] /\ UNCHANGED <<inflight, readers, job>>
      BY <1>12, <2>2 DEF Served!AskPositions
    <3>2. next \in CallRecord /\ InOrder(next)
      BY <1>1, CallConstants DEF CallRecord, Served!Phases, InOrder, Loading, Served!Idle
    <3> HIDE DEF next
    <3>3. /\ call' \in [Calls -> CallRecord] /\ CallsInOrder'
          /\ \A b \in Calls : b # a => call'[b] = call[b]
      BY <1>4, <3>1, <3>2
    <3>4. Served!SharedIsUnderWay'
      BY <1>5, <2>1, <3>1, <3>3
    <3> QED BY <1>1, <1>2, <2>1, <3>1, <3>3, <3>4, CallsRest
  <2>3. CASE inflight[k] = Served!NoCall
    <3> DEFINE reader == Served!ReaderOf(k, callsIntegration.config)
               phase == IF k = "v4" THEN "look" ELSE "discover"
               tokens == IF k = "v4" THEN index ELSE {}
               next == [Served!Idle EXCEPT !.phase = phase, !.kind = k,
                          !.config = callsIntegration.config, !.reader = reader, !.tokens = tokens]
    <3>1. /\ call' = [call EXCEPT ![a] = next]
          /\ inflight' = [inflight EXCEPT ![k] = a]
          /\ readers' = [readers EXCEPT ![k] = reader]
      BY <1>12, <2>3 DEF Served!AskPositions, Served!GetReader
    <3>2. reader \in Nat /\ tokens \subseteq Nat /\ job' \in JobRecord
      <4>1. reader \in Nat /\ tokens \subseteq Nat
        BY <1>1, <1>2 DEF Served!ReaderOf
      <4>2. Served!StartJob(k)
        BY <1>12, <2>3 DEF Served!AskPositions
      <4>3. job' = job \/ job' = [running |-> TRUE, aborted |-> FALSE, config |-> callsIntegration.config]
        BY <4>2 DEF Served!StartJob
      <4>4. \A n \in Nat : [running |-> TRUE, aborted |-> FALSE, config |-> n] \in JobRecord
        BY DEF JobRecord
      <4>5. job' \in JobRecord
        BY <1>1, <4>3, <4>4
      <4> QED BY <4>1, <4>5
    <3>3. phase \in {"look", "discover"}
      OBVIOUS
    <3> HIDE DEF reader, phase, tokens
    <3>4. /\ next \in CallRecord /\ InOrder(next) /\ next.kind = k
          /\ next.phase \in {"look", "discover"}
      BY <1>1, CallConstants, <3>2, <3>3 DEF CallRecord, Served!Phases, InOrder, Loading, Served!Idle
    <3> HIDE DEF next
    <3>5. /\ call' \in [Calls -> CallRecord] /\ CallsInOrder' /\ call'[a] = next
          /\ \A b \in Calls : b # a => call'[b] = call[b]
      BY <1>4, <3>1, <3>4
    <3>6. /\ inflight' \in [Kinds -> Calls \cup {Served!NoCall}] /\ readers' \in [Kinds -> Nat]
          /\ inflight'[k] = a /\ \A o \in Kinds : o # k => inflight'[o] = inflight[o]
      BY <1>1, <1>2, <3>1, <3>2
    <3>7. \A o \in Kinds : /\ inflight[o] # Served!NoCall => inflight[o] # a
                           /\ positionInflight[o] # Served!NoCall => positionInflight[o] # a
      BY <1>3, <2>1 DEF Loading
    <3>8. Served!SharedIsUnderWay'
      BY <1>3, <2>1, <3>4, <3>5, <3>6, <3>7 DEF Served!SharedIsUnderWay, Loading
    <3> QED BY <1>1, <1>2, <2>1, <3>2, <3>5, <3>6, <3>8, CallsRest
  <2> QED BY <2>2, <2>3
<1>13. ASSUME NEW a \in Calls, Served!Discovered(a) PROVE CallsInv'
  <2> DEFINE k == call[a].kind
             reader == IF k = "v3" THEN Served!ReaderOf(k, call[a].config) ELSE call[a].reader
             next == [call[a] EXCEPT !.phase = "look", !.reader = reader]
  <2>1. /\ call[a].phase = "discover"
        /\ call' = [call EXCEPT ![a] = next]
        /\ UNCHANGED <<callsClock, callsIntegration, callsHealth, catalog, responses, inflight,
                       positions, positionInflight, index, job>>
    BY <1>2, <1>13 DEF Served!Discovered, Served!AsksAgain, Served!scans
  <2>2. k \in Kinds /\ call[a] \in CallRecord
    BY <1>2, <1>3, <2>1 DEF InOrder, Loading
  <2>3. reader \in Nat
    BY <1>2, <2>2 DEF Served!ReaderOf, CallRecord
  <2>4. readers' \in [Kinds -> Nat]
    <3>1. CASE k = "v3"
      BY <1>2, <1>13, <2>2, <2>3, <3>1 DEF Served!Discovered, Served!AsksAgain, Served!GetReader
    <3>2. CASE k # "v3"
      BY <1>2, <1>13, <3>2 DEF Served!Discovered, Served!AsksAgain
    <3> QED BY <3>1, <3>2
  <2> HIDE DEF reader
  <2>5. next \in CallRecord /\ InOrder(next) /\ next.kind = k /\ next.phase = "look"
    BY <2>2, <2>3 DEF CallRecord, Served!Phases, InOrder, Loading, Served!Idle
  <2> HIDE DEF next
  <2>6. /\ call' \in [Calls -> CallRecord] /\ CallsInOrder' /\ call'[a] = next
        /\ \A b \in Calls : b # a => call'[b] = call[b]
    BY <1>4, <2>1, <2>5
  <2>7. Served!SharedIsUnderWay'
    BY <1>3, <2>1, <2>5, <2>6 DEF Served!SharedIsUnderWay, Loading
  <2> QED BY <1>1, <1>2, <2>1, <2>4, <2>6, <2>7, CallsRest
\* A load ends, and with it the calls that joined it.
<1>14. ASSUME NEW a \in Calls, call[a].phase \in {"discover", "end"},
              inflight' = [inflight EXCEPT ![call[a].kind] = Served!NoCall],
              call' = [b \in Calls |-> IF b \in Served!With(a, "join") THEN Served!Idle ELSE call[b]],
              responses' \in [Kinds -> ResponseRecord],
              UNCHANGED <<callsClock, callsIntegration, callsHealth, catalog, readers,
                          positions, positionInflight, index, job>>
       PROVE  CallsInv'
  <2>1. \A b \in Calls : b \in Served!With(a, "join") => b = a \/ call[b].phase = "join"
    BY DEF Served!With
  <2>2. call' \in [Calls -> CallRecord] /\ CallsInOrder'
    <3>1. InOrder(Served!Idle)
      BY CallConstants DEF InOrder, Loading
    <3> QED BY <1>2, CallConstants, <1>3, <1>14, <3>1 DEF CallsInOrder
  <2>3. inflight' \in [Kinds -> Calls \cup {Served!NoCall}]
        /\ \A k \in Kinds : inflight'[k] # Served!NoCall =>
             inflight'[k] = inflight[k] /\ k # call[a].kind
    BY <1>1, <1>14
  <2>4. \A k \in Kinds : inflight'[k] # Served!NoCall =>
          inflight[k] # a /\ call'[inflight[k]] = call[inflight[k]]
    BY <1>3, <1>14, <2>1, <2>3 DEF Loading
  <2>5. \A k \in Kinds : positionInflight[k] # Served!NoCall =>
          call'[positionInflight[k]] = call[positionInflight[k]]
    BY <1>3, <1>14, <2>1
  <2>6. Served!SharedIsUnderWay'
    <3>1. \A k \in Kinds : inflight'[k] # Served!NoCall =>
            call'[inflight'[k]].kind = k /\ call'[inflight'[k]].phase \in Loading
      BY <1>3, <2>3, <2>4
    <3>2. \A k \in Kinds : positionInflight'[k] # Served!NoCall =>
            call'[positionInflight'[k]].kind = k /\ call'[positionInflight'[k]].phase = "read"
      BY <1>3, <1>14, <2>5
    <3> QED BY <3>1, <3>2 DEF Served!SharedIsUnderWay, Loading
  <2> QED BY <1>1, <1>2, <1>14, <2>2, <2>3, <2>6, CallsRest
<1>15. ASSUME NEW a \in Calls, Served!DiscoveryFails(a) PROVE CallsInv'
  <2>1. /\ call[a].phase = "discover"
        /\ inflight' = [inflight EXCEPT ![call[a].kind] = Served!NoCall]
        /\ call' = [b \in Calls |-> IF b \in Served!With(a, "join") THEN Served!Idle ELSE call[b]]
        /\ UNCHANGED <<callsClock, callsIntegration, callsHealth, catalog, responses, readers,
                       positions, positionInflight, index, job>>
    BY <1>15 DEF Served!DiscoveryFails, Served!scans
  <2> QED BY <1>2, <1>14, <2>1
<1>16. ASSUME NEW a \in Calls, Served!LookForPosition(a) PROVE CallsInv'
  <2> DEFINE k == call[a].kind
  <2>1. /\ call[a].phase = "look"
        /\ UNCHANGED <<callsClock, callsIntegration, callsHealth, catalog, responses, inflight,
                       readers, positions, index, job>>
    BY <1>16 DEF Served!LookForPosition, Served!scans
  <2>2. k \in Kinds /\ call[a] \in CallRecord
    BY <1>2, <1>3, <2>1 DEF InOrder, Loading
  <2>3. \A o \in Kinds : /\ positionInflight[o] # Served!NoCall => positionInflight[o] # a
                         /\ inflight[o] # Served!NoCall /\ inflight[o] = a => o = k
    BY <1>3, <2>1, <2>2 DEF Loading
  \* Whatever is found, the load goes on.
  <2>4. ASSUME NEW next \in CallRecord, next.phase \in {"end", "joinRead", "read"}, next.kind = k,
               call' = [call EXCEPT ![a] = next],
               positionInflight' \in [Kinds -> Calls \cup {Served!NoCall}],
               \A o \in Kinds : positionInflight'[o] # Served!NoCall =>
                 \/ positionInflight'[o] = positionInflight[o]
                 \/ positionInflight'[o] = a /\ o = k /\ next.phase = "read"
        PROVE  CallsInv'
    <3>1. InOrder(next)
      BY <2>2, <2>4 DEF InOrder, Loading
    <3>2. /\ call' \in [Calls -> CallRecord] /\ CallsInOrder' /\ call'[a] = next
          /\ \A b \in Calls : b # a => call'[b] = call[b]
      BY <1>4, <2>4, <3>1
    <3>3. \A o \in Kinds : inflight[o] # Served!NoCall =>
            call'[inflight[o]].kind = o /\ call'[inflight[o]].phase \in Loading
      BY <1>3, <2>3, <2>4, <3>2 DEF Loading
    <3>4. \A o \in Kinds : positionInflight'[o] # Served!NoCall =>
            call'[positionInflight'[o]].kind = o /\ call'[positionInflight'[o]].phase = "read"
      BY <1>3, <2>3, <2>4, <3>2
    <3>5. Served!SharedIsUnderWay'
      BY <2>1, <3>3, <3>4 DEF Served!SharedIsUnderWay, Loading
    <3> QED BY <1>1, <1>2, <2>1, <2>4, <3>2, <3>5, CallsRest
  <2>5. CASE call' = [call EXCEPT ![a].phase = "end"] /\ UNCHANGED positionInflight
    <3> DEFINE next == [call[a] EXCEPT !.phase = "end"]
    <3>1. next \in CallRecord /\ next.phase = "end" /\ next.kind = k
      BY <2>2 DEF CallRecord, Served!Phases
    <3>2. call' = [call EXCEPT ![a] = next]
      BY <1>2, <2>5
    <3> HIDE DEF next
    <3> QED BY <1>1, <2>4, <2>5, <3>1, <3>2
  <2>6. CASE /\ positionInflight[k] # Served!NoCall
             /\ call' = [call EXCEPT ![a].phase = "joinRead", ![a].leader = positionInflight[k]]
             /\ UNCHANGED positionInflight
    <3> DEFINE next == [call[a] EXCEPT !.phase = "joinRead", !.leader = positionInflight[k]]
    <3>1. next \in CallRecord /\ next.phase = "joinRead" /\ next.kind = k
      BY <1>1, <2>2 DEF CallRecord, Served!Phases
    <3>2. call' = [call EXCEPT ![a] = next]
      BY <1>2, <2>6
    <3> HIDE DEF next
    <3> QED BY <1>1, <2>4, <2>6, <3>1, <3>2
  <2>7. CASE /\ call' = [call EXCEPT ![a].phase = "read"]
             /\ positionInflight' = [positionInflight EXCEPT ![k] = a]
    <3> DEFINE next == [call[a] EXCEPT !.phase = "read"]
    <3>1. next \in CallRecord /\ next.phase = "read" /\ next.kind = k
      BY <2>2 DEF CallRecord, Served!Phases
    <3>2. call' = [call EXCEPT ![a] = next]
      BY <1>2, <2>7
    <3> HIDE DEF next
    <3>3. /\ positionInflight' \in [Kinds -> Calls \cup {Served!NoCall}]
          /\ \A o \in Kinds : positionInflight'[o] = IF o = k THEN a ELSE positionInflight[o]
      BY <1>1, <2>7
    <3> QED BY <2>4, <3>1, <3>2, <3>3
  <2> QED BY <1>16, <2>5, <2>6, <2>7 DEF Served!LookForPosition
<1>17. ASSUME NEW a \in Calls, Served!PositionRead(a) PROVE CallsInv'
  <2> DEFINE k == call[a].kind
             kept == [config |-> call[a].reader, until |-> callsClock + ResponseTtl]
             ended(b) == [call[b] EXCEPT !.phase = "end", !.leader = Served!NoCall]
  <2>1. /\ call[a].phase = "read"
        /\ positions' \in {positions, [positions EXCEPT ![k] = kept]}
        /\ positionInflight' = [positionInflight EXCEPT ![k] = Served!NoCall]
        /\ call' = [b \in Calls |-> IF b \in Served!With(a, "joinRead") THEN ended(b) ELSE call[b]]
        /\ UNCHANGED <<callsClock, callsIntegration, callsHealth, catalog, responses, inflight,
                       readers, index, job>>
    BY <1>17 DEF Served!PositionRead, Served!scans
  <2>2. kept \in KeptRecord
    BY <1>1, <1>2, CallsAssumptions DEF KeptRecord, CallRecord
  <2>3. \A b \in Calls : ended(b) \in CallRecord /\ ended(b).phase = "end" /\ ended(b).kind = call[b].kind
    BY <1>2 DEF CallRecord, Served!Phases
  <2>4. \A b \in Calls : b \in Served!With(a, "joinRead") => call[b].phase \in {"read", "joinRead"}
    BY <2>1 DEF Served!With
  <2> HIDE DEF kept, ended
  <2>5. positions' \in [Kinds -> KeptRecord]
    BY <1>2, <2>1, <2>2
  <2>6. /\ call' \in [Calls -> CallRecord]
        /\ \A b \in Calls : call'[b].kind = call[b].kind
        /\ \A b \in Calls : \/ call'[b] = call[b]
                            \/ call'[b].phase = "end" /\ call[b].phase \in {"read", "joinRead"}
        /\ \A b \in Calls : b \notin Served!With(a, "joinRead") => call'[b] = call[b]
    BY <1>2, <2>1, <2>3, <2>4
  <2>7. CallsInOrder'
    BY <1>3, <2>6 DEF CallsInOrder, InOrder, Loading
  <2>8. /\ positionInflight' \in [Kinds -> Calls \cup {Served!NoCall}]
        /\ \A o \in Kinds : positionInflight'[o] # Served!NoCall =>
             positionInflight'[o] = positionInflight[o] /\ o # k
    BY <1>1, <2>1
  <2>9. \A o \in Kinds : positionInflight'[o] # Served!NoCall =>
          positionInflight[o] \notin Served!With(a, "joinRead")
    BY <1>3, <2>8 DEF Served!With
  <2>10. \A o \in Kinds : inflight[o] # Served!NoCall => call'[inflight[o]].phase \in Loading
    BY <1>3, <2>6 DEF Loading
  <2>11. Served!SharedIsUnderWay'
    BY <1>3, <2>1, <2>6, <2>8, <2>9, <2>10 DEF Served!SharedIsUnderWay, Loading
  <2> QED BY <1>1, <1>2, <2>1, <2>5, <2>6, <2>7, <2>8, <2>11, CallsRest
<1>18. ASSUME NEW a \in Calls, Served!EndLoad(a) PROVE CallsInv'
  <2> DEFINE kept == [config |-> call[a].reader, until |-> callsClock + ResponseTtl,
                      tokens |-> call[a].tokens]
  <2>1. /\ call[a].phase = "end"
        /\ responses' = [responses EXCEPT ![call[a].kind] = kept]
        /\ inflight' = [inflight EXCEPT ![call[a].kind] = Served!NoCall]
        /\ call' = [b \in Calls |-> IF b \in Served!With(a, "join") THEN Served!Idle ELSE call[b]]
        /\ UNCHANGED <<callsClock, callsIntegration, callsHealth, catalog, readers,
                       positions, positionInflight, index, job>>
    BY <1>18 DEF Served!EndLoad, Served!scans
  <2>2. kept \in ResponseRecord
    BY <1>1, <1>2, CallsAssumptions DEF ResponseRecord, CallRecord
  <2> HIDE DEF kept
  <2>3. responses' \in [Kinds -> ResponseRecord]
    BY <1>2, <2>1, <2>2
  <2> QED BY <1>14, <2>1, <2>3
\* The call is not heard of.
<1>19. ASSUME UNCHANGED <<callsClock, callsIntegration, callsHealth, catalog, responses, inflight,
                         readers, positions, positionInflight, call>>,
              index' \subseteq Nat, job' \in JobRecord
       PROVE  CallsInv'
  <2>1. CallsInOrder' /\ Served!SharedIsUnderWay'
    BY <1>19 DEF CallsInv, CallsInOrder, Served!SharedIsUnderWay
  <2> QED BY <1>1, <1>2, <1>19, <2>1, CallsRest
\* The integration is changed: all that was kept is forgotten, but the index.
<1>20. ASSUME callsIntegration' \in [config : Nat, enabled : BOOLEAN, chains : SUBSET CallChains,
                                     present : BOOLEAN],
              Served!Invalidate, UNCHANGED <<callsClock, call, job>>, index' \in {index, {}}
       PROVE  CallsInv'
  <2>1. CallTypes'
    BY <1>1, <1>2, <1>20, CallConstants DEF CallTypes, Served!Invalidate, Served!ClearWallets
  <2>2. CallsInOrder'
    BY <1>3, <1>20 DEF CallsInOrder
  <2>3. Served!SharedIsUnderWay'
    BY <1>20 DEF Served!SharedIsUnderWay, Served!Invalidate, Served!ClearWallets
  <2> QED BY <2>1, <2>2, <2>3 DEF CallsInv
<1>21. ASSUME Served!Patch PROVE CallsInv'
  <2>1. PICK enabled \in BOOLEAN, chains \in (SUBSET CallChains) \ {{}} :
          callsIntegration' = [callsIntegration EXCEPT !.config = callsIntegration.config + 1,
                                                       !.enabled = enabled, !.chains = chains]
    BY <1>21 DEF Served!Patch
  <2>2. callsIntegration' \in [config : Nat, enabled : BOOLEAN, chains : SUBSET CallChains,
                               present : BOOLEAN]
    <3>1. callsIntegration.config + 1 \in Nat
      BY <1>1
    <3> QED BY <1>1, <2>1, <3>1
  <2> QED BY <1>20, <1>21, <2>2 DEF Served!Patch, Served!scans
<1>22. ASSUME Served!Delete PROVE CallsInv'
  <2>1. callsIntegration' = [callsIntegration EXCEPT !.config = callsIntegration.config + 1,
                                                     !.present = FALSE]
    BY <1>22 DEF Served!Delete
  <2>2. callsIntegration' \in [config : Nat, enabled : BOOLEAN, chains : SUBSET CallChains,
                               present : BOOLEAN]
    <3>1. callsIntegration.config + 1 \in Nat
      BY <1>1
    <3> QED BY <1>1, <2>1, <3>1
  <2> QED BY <1>20, <1>22, <2>2 DEF Served!Delete
<1>23. ASSUME Served!Closed PROVE CallsInv'
  <2>1. /\ Served!ClearWallets
        /\ UNCHANGED <<callsClock, callsIntegration, callsHealth, catalog, call, index, job>>
    BY <1>23 DEF Served!Closed, Served!scans
  <2>2. /\ responses' \in [Kinds -> ResponseRecord] /\ positions' \in [Kinds -> KeptRecord]
        /\ readers' \in [Kinds -> Nat]
        /\ inflight' \in [Kinds -> Calls \cup {Served!NoCall}]
        /\ positionInflight' \in [Kinds -> Calls \cup {Served!NoCall}]
        /\ Served!SharedIsUnderWay'
    BY <1>2, CallConstants, <2>1 DEF Served!ClearWallets, Served!SharedIsUnderWay
  <2>3. CallsInOrder'
    BY <1>3, <2>1 DEF CallsInOrder
  <2> QED BY <1>1, <1>2, <2>1, <2>2, <2>3, CallsRest
<1>24. ASSUME Served!TimePasses PROVE CallsInv'
  <2>1. /\ callsClock' = callsClock + 1
        /\ UNCHANGED <<callsIntegration, callsHealth, catalog, responses, inflight,
                       readers, positions, positionInflight, call, index, job>>
    BY <1>24 DEF Served!TimePasses, Served!caches, Served!scans
  <2>2. CallsInOrder' /\ Served!SharedIsUnderWay'
    BY <2>1 DEF CallsInv, CallsInOrder, Served!SharedIsUnderWay
  <2>3. callsClock' \in Nat
    BY <1>1, <2>1
  <2> QED BY <1>1, <1>2, <2>1, <2>2, <2>3, CallsRest
<1>25. ASSUME Served!JobWrites \/ Served!JobEnds \/ Served!Close \/ UNCHANGED (Served!vars)
       PROVE  CallsInv'
  <2>1. /\ UNCHANGED <<callsClock, callsIntegration, callsHealth, catalog, responses, inflight,
                       readers, positions, positionInflight, call>>
        /\ index' \in {index, index \cup {job.config}}
        /\ \/ job' \in {job, Served!NoJob}
           \/ job' = [job EXCEPT !.aborted = job.aborted \/ job.running]
    BY <1>25 DEF Served!JobWrites, Served!JobEnds, Served!Close, Served!vars, Served!caches, Served!scans
  <2>2. index' \subseteq Nat
    BY <1>1, <2>1 DEF JobRecord
  <2>3. job' \in JobRecord
    BY <1>1, <2>1, CallConstants DEF JobRecord
  <2> QED BY <1>19, <2>1, <2>2, <2>3
<1> QED
  BY <1>6, <1>7, <1>8, <1>10, <1>11, <1>12, <1>13, <1>15, <1>16, <1>17, <1>18, <1>21, <1>22,
     <1>23, <1>24, <1>25 DEF Served!Next

---------------------------------------------------------------------------
(* What is kept of an integration, and with which configuration *)

\* A configuration that calls of a sort may have and leave behind.
FitsSort(sort, config) == sort \in late \/ Served!IsOfNow(config)

Provenance ==
  /\ \A c \in CallChains : /\ FitsSort("test", callsHealth[c].config)
                           /\ FitsSort("reserves", catalog[c].config)
  /\ \A k \in Kinds : /\ FitsSort(k, responses[k].config) /\ FitsSort(k, positions[k].config)
                      /\ (k = "v3" /\ k \in late) \/ Served!IsOfNow(readers[k])
  /\ \A a \in Calls : /\ FitsSort(Served!SortOf(call[a]), call[a].config)
                      /\ FitsSort(Served!SortOf(call[a]), call[a].reader)

\* The tokens of v4, while no index and no job of one has outlived a change.
Scanned ==
  /\ \A config \in index : Served!IsOfNow(config)
  /\ \A k \in Kinds : responses[k].tokens \subseteq index
  /\ \A a \in Calls : call[a].tokens \subseteq index
  /\ job.running => Served!IsOfNow(job.config)

KeptInv == Provenance /\ (carried \/ Scanned)

LEMMA KeptInit == Served!Init => KeptInv
<1> SUFFICES ASSUME Served!Init PROVE KeptInv
  OBVIOUS
<1>1. Served!IsOfNow(Served!NoConfig)
  BY DEF Served!IsOfNow
<1>2. Provenance
  BY <1>1, CallConstants DEF Served!Init, Provenance, FitsSort
<1>3. Scanned
  BY CallConstants DEF Served!Init, Scanned
<1> QED
  BY <1>2, <1>3 DEF KeptInv

\* Steps that leave the integration as it is.
LEMMA ProvenanceRest ==
  ASSUME UNCHANGED <<callsIntegration, late>>,
         \A c \in CallChains : /\ FitsSort("test", callsHealth'[c].config)
                               /\ FitsSort("reserves", catalog'[c].config),
         \A k \in Kinds : /\ FitsSort(k, responses'[k].config) /\ FitsSort(k, positions'[k].config)
                          /\ (k = "v3" /\ k \in late) \/ Served!IsOfNow(readers'[k]),
         \A a \in Calls : /\ FitsSort(Served!SortOf(call'[a]), call'[a].config)
                          /\ FitsSort(Served!SortOf(call'[a]), call'[a].reader)
  PROVE  Provenance'
<1>1. \A sort, config : (sort \in late' \/ config \in {Served!NoConfig, callsIntegration'.config})
                        <=> FitsSort(sort, config)
  BY DEF FitsSort, Served!IsOfNow
<1>2. \A config : config \in {Served!NoConfig, callsIntegration'.config} <=> Served!IsOfNow(config)
  BY DEF Served!IsOfNow
<1> QED
  BY <1>1, <1>2 DEF Provenance, FitsSort, Served!IsOfNow

\* A call goes on as it is, is over, or is another step of the same load.
Continues(old, new) ==
  \/ new = old
  \/ new = Served!Idle
  \/ /\ Served!SortOf(new) = Served!SortOf(old) /\ new.config = old.config
     /\ new.reader = old.reader /\ new.tokens = old.tokens

LEMMA ContinuingFits ==
  ASSUME Provenance, NEW a \in Calls, NEW new, Continues(call[a], new)
  PROVE  /\ FitsSort(Served!SortOf(new), new.config) /\ FitsSort(Served!SortOf(new), new.reader)
         /\ new.tokens \subseteq call[a].tokens
  BY CallConstants DEF Continues, Provenance, FitsSort, Served!IsOfNow

LEMMA ProvenanceStep == CallsInv /\ Provenance /\ [Served!Next]_(Served!vars) => Provenance'
<1> SUFFICES ASSUME CallsInv, Provenance, [Served!Next]_(Served!vars) PROVE Provenance'
  OBVIOUS
<1>1. /\ callsHealth \in [CallChains -> TestRecord] /\ catalog \in [CallChains -> KeptRecord]
      /\ responses \in [Kinds -> ResponseRecord] /\ positions \in [Kinds -> KeptRecord]
      /\ readers \in [Kinds -> Nat] /\ call \in [Calls -> CallRecord]
      /\ \A a \in Calls : InOrder(call[a])
  BY DEF CallsInv, CallTypes, CallsInOrder
<1>2. /\ \A c \in CallChains : /\ FitsSort("test", callsHealth[c].config)
                               /\ FitsSort("reserves", catalog[c].config)
      /\ \A k \in Kinds : /\ FitsSort(k, responses[k].config) /\ FitsSort(k, positions[k].config)
                          /\ (k = "v3" /\ k \in late) \/ Served!IsOfNow(readers[k])
      /\ \A a \in Calls : /\ FitsSort(Served!SortOf(call[a]), call[a].config)
                          /\ FitsSort(Served!SortOf(call[a]), call[a].reader)
  BY DEF Provenance
<1>3. \A sort : FitsSort(sort, Served!NoConfig) /\ FitsSort(sort, callsIntegration.config)
  BY DEF FitsSort, Served!IsOfNow
\* Steps that write nothing and begin nothing.
<1>4. ASSUME UNCHANGED <<callsIntegration, late, callsHealth, catalog, responses, positions, readers>>,
             \A a \in Calls : Continues(call[a], call'[a])
      PROVE  Provenance'
  <2>1. \A a \in Calls : /\ FitsSort(Served!SortOf(call'[a]), call'[a].config)
                         /\ FitsSort(Served!SortOf(call'[a]), call'[a].reader)
    BY <1>4, ContinuingFits
  <2> QED BY <1>2, <1>4, <2>1, ProvenanceRest
\* A call begins that has the configuration of now, and what it does not have.
<1>5. ASSUME NEW a \in Calls, NEW next, call' = [call EXCEPT ![a] = next],
             next.config \in {Served!NoConfig, callsIntegration.config},
             FitsSort(Served!SortOf(next), next.reader)
      PROVE  \A b \in Calls : /\ FitsSort(Served!SortOf(call'[b]), call'[b].config)
                              /\ FitsSort(Served!SortOf(call'[b]), call'[b].reader)
  <2>1. call'[a] = next /\ \A b \in Calls : b # a => call'[b] = call[b]
    BY <1>1, <1>5
  <2> QED BY <1>2, <1>3, <1>5, <2>1
<1>6. ASSUME NEW a \in Calls, Served!StartTest(a) PROVE Provenance'
  <2> DEFINE next == [Served!Idle EXCEPT !.phase = "test", !.config = callsIntegration.config,
                                         !.chains = callsIntegration.chains]
  <2>1. /\ call' = [call EXCEPT ![a] = next]
        /\ UNCHANGED <<callsIntegration, late, callsHealth, catalog, responses, positions, readers>>
    BY <1>6 DEF Served!StartTest, Served!caches, Served!history
  <2>2. next.config = callsIntegration.config /\ next.reader = Served!NoConfig
    BY DEF Served!Idle
  <2> HIDE DEF next
  <2> QED BY <1>2, <1>3, <1>5, <2>1, <2>2, ProvenanceRest
<1>7. ASSUME NEW a \in Calls, NEW c \in CallChains, Served!TestNetwork(a, c) PROVE Provenance'
  <2>1. /\ call[a].phase = "test"
        /\ UNCHANGED <<callsIntegration, late, catalog, responses, positions, readers>>
    BY <1>7 DEF Served!TestNetwork, Served!caches, Served!history
  <2>2. PICK good : Served!Tested(a, c, good)
    BY <1>7 DEF Served!TestNetwork
  <2>3. \A b \in Calls : Continues(call[b], call'[b])
    <3> DEFINE left == [call[a] EXCEPT !.chains = call[a].chains \ {c}]
               next == IF call[a].chains = {c} THEN Served!Idle ELSE left
    <3>1. call' = [call EXCEPT ![a] = next]
      BY <1>1, <2>2 DEF Served!Tested
    <3>2. Continues(call[a], left)
      BY <1>1, <2>1 DEF Continues, Served!SortOf, CallRecord
    <3>3. Continues(call[a], next)
      BY <3>2 DEF Continues
    <3> HIDE DEF next, left
    <3> QED BY <1>1, <3>1, <3>3 DEF Continues
  <2>4. \A b \in Calls : /\ FitsSort(Served!SortOf(call'[b]), call'[b].config)
                         /\ FitsSort(Served!SortOf(call'[b]), call'[b].reader)
    BY <2>3, ContinuingFits
  <2>5. FitsSort("test", call[a].config)
    BY <1>2, <2>1 DEF Served!SortOf
  <2>6. callsHealth' \in {callsHealth,
          [callsHealth EXCEPT ![c] = [config |-> call[a].config, good |-> good]]}
    BY <2>2 DEF Served!Tested, Served!Replace
  <2>7. \A o \in CallChains : FitsSort("test", callsHealth'[o].config)
    BY <1>1, <1>2, <2>5, <2>6
  <2> QED BY <1>2, <2>1, <2>4, <2>7, ProvenanceRest
<1>8. ASSUME NEW a \in Calls, NEW c \in CallChains, Served!AskReserves(a, c) PROVE Provenance'
  <2> DEFINE next == [Served!Idle EXCEPT !.phase = "reserves", !.config = callsIntegration.config,
                                         !.chains = {c}]
  <2>1. /\ call' = [call EXCEPT ![a] = next]
        /\ UNCHANGED <<callsIntegration, late, callsHealth, catalog, responses, positions, readers>>
    BY <1>8 DEF Served!AskReserves, Served!caches, Served!history
  <2>2. next.config = callsIntegration.config /\ next.reader = Served!NoConfig
    BY DEF Served!Idle
  <2> HIDE DEF next
  <2> QED BY <1>2, <1>3, <1>5, <2>1, <2>2, ProvenanceRest
\* A call that ends alone.
<1>9. ASSUME NEW a \in Calls, call' = [call EXCEPT ![a] = Served!Idle]
      PROVE  \A b \in Calls : Continues(call[b], call'[b])
  BY <1>1, <1>9 DEF Continues
<1>10. ASSUME NEW a \in Calls, NEW c \in CallChains, Served!ReservesAnswer(a, c) PROVE Provenance'
  <2> DEFINE kept == [config |-> call[a].config, until |-> callsClock + CatalogTtl]
  <2>1. /\ call[a].phase = "reserves" /\ call' = [call EXCEPT ![a] = Served!Idle]
        /\ catalog' = [catalog EXCEPT ![c] = kept]
        /\ UNCHANGED <<callsIntegration, late, callsHealth, responses, positions, readers>>
    BY <1>10 DEF Served!ReservesAnswer, Served!history
  <2>2. FitsSort("reserves", kept.config)
    BY <1>2, <2>1 DEF Served!SortOf
  <2> HIDE DEF kept
  <2>3. \A o \in CallChains : FitsSort("reserves", catalog'[o].config)
    BY <1>1, <1>2, <2>1, <2>2
  <2>4. \A b \in Calls : /\ FitsSort(Served!SortOf(call'[b]), call'[b].config)
                         /\ FitsSort(Served!SortOf(call'[b]), call'[b].reader)
    BY <1>9, <2>1, ContinuingFits
  <2> QED BY <1>2, <2>1, <2>3, <2>4, ProvenanceRest
<1>11. ASSUME NEW a \in Calls, Served!ReservesFail(a) PROVE Provenance'
  <2>1. /\ call' = [call EXCEPT ![a] = Served!Idle]
        /\ UNCHANGED <<callsIntegration, late, callsHealth, catalog, responses, positions, readers>>
    BY <1>11 DEF Served!ReservesFail, Served!caches, Served!history
  <2> QED BY <1>4, <1>9, <2>1
<1>12. ASSUME NEW a \in Calls, NEW k \in Kinds, Served!AskPositions(a, k) PROVE Provenance'
  <2>1. UNCHANGED <<callsIntegration, late, callsHealth, catalog, responses, positions>>
    BY <1>12 DEF Served!AskPositions, Served!history
  <2>2. CASE inflight[k] # Served!NoCall
    <3> DEFINE next == [Served!Idle EXCEPT !.phase = "join", !.kind = k, !.leader = inflight[k]]
    <3>1. call' = [call EXCEPT ![a] = next] /\ UNCHANGED readers
      BY <1>12, <2>2 DEF Served!AskPositions
    <3>2. next.config = Served!NoConfig /\ next.reader = Served!NoConfig
      BY DEF Served!Idle
    <3> HIDE DEF next
    <3> QED BY <1>2, <1>3, <1>5, <2>1, <3>1, <3>2, ProvenanceRest
  <2>3. CASE inflight[k] = Served!NoCall
    <3> DEFINE reader == Served!ReaderOf(k, callsIntegration.config)
               phase == IF k = "v4" THEN "look" ELSE "discover"
               tokens == IF k = "v4" THEN index ELSE {}
               next == [Served!Idle EXCEPT !.phase = phase, !.kind = k,
                          !.config = callsIntegration.config, !.reader = reader, !.tokens = tokens]
    <3>1. /\ call' = [call EXCEPT ![a] = next]
          /\ readers' = [readers EXCEPT ![k] = reader]
      BY <1>12, <2>3 DEF Served!AskPositions, Served!GetReader
    <3>2. ((k = "v3" /\ k \in late) \/ Served!IsOfNow(reader)) /\ FitsSort(k, reader)
      BY <1>2 DEF Served!ReaderOf, Served!IsOfNow, FitsSort
    <3>3. phase \in {"look", "discover"}
      OBVIOUS
    <3> HIDE DEF reader, phase, tokens
    <3>4. next.config = callsIntegration.config /\ next.reader = reader /\ Served!SortOf(next) = k
      BY <3>3 DEF Served!Idle, Served!SortOf
    <3> HIDE DEF next
    <3>5. \A o \in Kinds : (o = "v3" /\ o \in late) \/ Served!IsOfNow(readers'[o])
      BY <1>1, <1>2, <3>1, <3>2
    <3>6. \A b \in Calls : /\ FitsSort(Served!SortOf(call'[b]), call'[b].config)
                           /\ FitsSort(Served!SortOf(call'[b]), call'[b].reader)
      BY <1>5, <3>1, <3>2, <3>4
    <3> QED BY <1>2, <2>1, <3>5, <3>6, ProvenanceRest
  <2> QED BY <2>2, <2>3
\* What a load has is of its kind.
<1>13. \A a \in Calls : call[a].phase \in Loading =>
         /\ call[a].kind \in Kinds /\ Served!SortOf(call[a]) = call[a].kind
         /\ FitsSort(call[a].kind, call[a].config) /\ FitsSort(call[a].kind, call[a].reader)
  BY <1>1, <1>2 DEF InOrder, Loading, Served!SortOf
<1>14. ASSUME NEW a \in Calls, Served!Discovered(a) PROVE Provenance'
  <2> DEFINE k == call[a].kind
             reader == IF k = "v3" THEN Served!ReaderOf(k, call[a].config) ELSE call[a].reader
             next == [call[a] EXCEPT !.phase = "look", !.reader = reader]
  <2>1. /\ call[a].phase = "discover"
        /\ call' = [call EXCEPT ![a] = next]
        /\ UNCHANGED <<callsIntegration, late, callsHealth, catalog, responses, positions>>
        /\ readers' = IF k = "v3" THEN [readers EXCEPT ![k] = reader] ELSE readers
    BY <1>1, <1>14 DEF Served!Discovered, Served!AsksAgain, Served!GetReader, Served!history
  <2>2. k \in Kinds /\ FitsSort(k, call[a].config) /\ FitsSort(k, call[a].reader)
    BY <1>13, <2>1 DEF Loading
  <2>3. FitsSort(k, reader) /\ (k = "v3" => "v3" \in late \/ Served!IsOfNow(reader))
    BY <1>2, <2>2 DEF Served!ReaderOf, FitsSort, Served!IsOfNow
  <2>4. next.config = call[a].config /\ next.reader = reader /\ Served!SortOf(next) = k
    BY <1>1 DEF CallRecord, Served!SortOf
  <2> HIDE DEF next, reader
  <2>5. \A o \in Kinds : (o = "v3" /\ o \in late) \/ Served!IsOfNow(readers'[o])
    BY <1>1, <1>2, <2>1, <2>2, <2>3
  <2>6. call'[a] = next /\ \A b \in Calls : b # a => call'[b] = call[b]
    BY <1>1, <2>1
  <2>7. \A b \in Calls : /\ FitsSort(Served!SortOf(call'[b]), call'[b].config)
                         /\ FitsSort(Served!SortOf(call'[b]), call'[b].reader)
    BY <1>2, <2>2, <2>3, <2>4, <2>6
  <2> QED BY <1>2, <2>1, <2>5, <2>7, ProvenanceRest
\* A load and the calls that joined it are over.
<1>15. ASSUME NEW ended, call' = [b \in Calls |-> IF b \in ended THEN Served!Idle ELSE call[b]]
       PROVE  \A b \in Calls : Continues(call[b], call'[b])
  BY <1>15 DEF Continues
<1>16. ASSUME NEW a \in Calls, Served!DiscoveryFails(a) PROVE Provenance'
  <2>1. /\ call' = [b \in Calls |-> IF b \in Served!With(a, "join") THEN Served!Idle ELSE call[b]]
        /\ UNCHANGED <<callsIntegration, late, callsHealth, catalog, responses, positions, readers>>
    BY <1>16 DEF Served!DiscoveryFails, Served!history
  <2> QED BY <1>4, <1>15, <2>1
<1>17. ASSUME NEW a \in Calls, Served!LookForPosition(a) PROVE Provenance'
  <2>1. /\ call[a].phase = "look"
        /\ UNCHANGED <<callsIntegration, late, callsHealth, catalog, responses, positions, readers>>
    BY <1>17 DEF Served!LookForPosition, Served!history
  <2>2. PICK phase, leader :
          /\ phase \in {"end", "joinRead", "read"}
          /\ \/ call' = [call EXCEPT ![a].phase = phase]
             \/ call' = [call EXCEPT ![a].phase = phase, ![a].leader = leader]
    BY <1>17 DEF Served!LookForPosition
  <2> DEFINE steps == {[call[a] EXCEPT !.phase = phase],
                       [call[a] EXCEPT !.phase = phase, !.leader = leader]}
  <2>3. phase \notin {"test", "reserves"}
    BY <2>2
  <2>4. \A next \in steps : Continues(call[a], next)
    BY <1>1, <2>1, <2>3 DEF Continues, Served!SortOf, CallRecord
  <2>5. \E next \in steps : call' = [call EXCEPT ![a] = next]
    BY <1>1, <2>2
  <2> HIDE DEF steps
  <2>6. \A b \in Calls : Continues(call[b], call'[b])
    BY <1>1, <2>4, <2>5 DEF Continues
  <2> QED BY <1>4, <2>1, <2>6
<1>18. ASSUME NEW a \in Calls, Served!PositionRead(a) PROVE Provenance'
  <2> DEFINE k == call[a].kind
             kept == [config |-> call[a].reader, until |-> callsClock + ResponseTtl]
             ended(b) == [call[b] EXCEPT !.phase = "end", !.leader = Served!NoCall]
  <2>1. /\ call[a].phase = "read"
        /\ positions' \in {positions, [positions EXCEPT ![k] = kept]}
        /\ call' = [b \in Calls |-> IF b \in Served!With(a, "joinRead") THEN ended(b) ELSE call[b]]
        /\ UNCHANGED <<callsIntegration, late, callsHealth, catalog, responses, readers>>
    BY <1>18 DEF Served!PositionRead, Served!history
  <2>2. k \in Kinds /\ FitsSort(k, kept.config)
    BY <1>13, <2>1 DEF Loading
  <2>3. \A b \in Served!With(a, "joinRead") : call[b].phase \in {"read", "joinRead"} /\ b \in Calls
    BY <2>1 DEF Served!With
  <2>4. \A b \in Served!With(a, "joinRead") : Continues(call[b], ended(b))
    BY <1>1, <2>3 DEF Continues, Served!SortOf, CallRecord
  <2> HIDE DEF kept, ended
  <2>5. \A o \in Kinds : FitsSort(o, positions'[o].config)
    BY <1>1, <1>2, <2>1, <2>2
  <2>6. \A b \in Calls : Continues(call[b], call'[b])
    BY <2>1, <2>4 DEF Continues
  <2>7. \A b \in Calls : /\ FitsSort(Served!SortOf(call'[b]), call'[b].config)
                         /\ FitsSort(Served!SortOf(call'[b]), call'[b].reader)
    BY <2>6, ContinuingFits
  <2> QED BY <1>2, <2>1, <2>5, <2>7, ProvenanceRest
<1>19. ASSUME NEW a \in Calls, Served!EndLoad(a) PROVE Provenance'
  <2> DEFINE k == call[a].kind
             kept == [config |-> call[a].reader, until |-> callsClock + ResponseTtl,
                      tokens |-> call[a].tokens]
  <2>1. /\ call[a].phase = "end"
        /\ responses' = [responses EXCEPT ![k] = kept]
        /\ call' = [b \in Calls |-> IF b \in Served!With(a, "join") THEN Served!Idle ELSE call[b]]
        /\ UNCHANGED <<callsIntegration, late, callsHealth, catalog, positions, readers>>
    BY <1>19 DEF Served!EndLoad, Served!history
  <2>2. k \in Kinds /\ FitsSort(k, kept.config)
    BY <1>13, <2>1 DEF Loading
  <2> HIDE DEF kept
  <2>3. \A o \in Kinds : FitsSort(o, responses'[o].config)
    BY <1>1, <1>2, <2>1, <2>2
  <2>4. \A b \in Calls : /\ FitsSort(Served!SortOf(call'[b]), call'[b].config)
                         /\ FitsSort(Served!SortOf(call'[b]), call'[b].reader)
    BY <1>15, <2>1, ContinuingFits
  <2> QED BY <1>2, <2>1, <2>3, <2>4, ProvenanceRest
\* The integration is changed: whoever is under way is late from now on.
<1>20. ASSUME Served!Patch \/ Served!Delete PROVE Provenance'
  <2>1. /\ Served!Invalidate /\ UNCHANGED call
        /\ late' = late \cup {Served!SortOf(call[a]) : a \in {b \in Calls : call[b].phase # "idle"}}
    BY <1>20 DEF Served!Patch, Served!Delete, Served!Remember
  <2>2. ASSUME NEW a \in Calls
        PROVE  \/ Served!SortOf(call[a]) \in late'
               \/ call[a].config = Served!NoConfig /\ call[a].reader = Served!NoConfig
    BY <1>1, <2>1 DEF InOrder
  <2>3. /\ \A c \in CallChains : /\ callsHealth'[c].config = Served!NoConfig
                                 /\ catalog'[c].config = Served!NoConfig
        /\ \A k \in Kinds : /\ responses'[k].config = Served!NoConfig
                            /\ positions'[k].config = Served!NoConfig /\ readers'[k] = Served!NoConfig
    BY <2>1, CallConstants DEF Served!Invalidate, Served!ClearWallets
  <2> QED BY <2>1, <2>2, <2>3 DEF Provenance, FitsSort, Served!IsOfNow
<1>21. ASSUME Served!Closed PROVE Provenance'
  <2>1. /\ Served!ClearWallets
        /\ UNCHANGED <<callsIntegration, callsHealth, catalog, call, late>>
    BY <1>21 DEF Served!Closed, Served!history
  <2>2. \A k \in Kinds : /\ responses'[k].config = Served!NoConfig
                         /\ positions'[k].config = Served!NoConfig /\ readers'[k] = Served!NoConfig
    BY <2>1, CallConstants DEF Served!ClearWallets
  <2>3. Served!IsOfNow(Served!NoConfig)
    BY DEF Served!IsOfNow
  <2> QED BY <1>2, <1>3, <2>1, <2>2, <2>3, ProvenanceRest
<1>22. ASSUME \/ Served!JobWrites \/ Served!JobEnds \/ Served!Close \/ Served!TimePasses
              \/ UNCHANGED (Served!vars)
       PROVE  Provenance'
  <2>1. UNCHANGED <<callsIntegration, late, callsHealth, catalog, responses, positions, readers, call>>
    BY <1>22 DEF Served!JobWrites, Served!JobEnds, Served!Close, Served!TimePasses, Served!vars,
                 Served!caches, Served!history
  <2>2. \A a \in Calls : Continues(call[a], call'[a])
    BY <2>1 DEF Continues
  <2> QED BY <1>4, <2>1, <2>2
<1> QED
  BY <1>6, <1>7, <1>8, <1>10, <1>11, <1>12, <1>14, <1>16, <1>17, <1>18, <1>19, <1>20, <1>21, <1>22
     DEF Served!Next

\* What was carried over a change stays so.
LEMMA CarriedStays == [Served!Next]_(Served!vars) /\ carried => carried'
<1> SUFFICES ASSUME [Served!Next]_(Served!vars), carried PROVE carried'
  OBVIOUS
<1>1. ASSUME NEW a \in Calls,
             \/ Served!StartTest(a) \/ Served!ReservesFail(a) \/ Served!Discovered(a)
             \/ Served!DiscoveryFails(a) \/ Served!LookForPosition(a) \/ Served!PositionRead(a)
             \/ Served!EndLoad(a)
      PROVE  carried'
  BY <1>1 DEF Served!StartTest, Served!ReservesFail, Served!Discovered, Served!DiscoveryFails,
              Served!LookForPosition, Served!PositionRead, Served!EndLoad, Served!history
<1>2. ASSUME NEW a \in Calls, NEW c \in CallChains,
             Served!TestNetwork(a, c) \/ Served!AskReserves(a, c) \/ Served!ReservesAnswer(a, c)
      PROVE  carried'
  BY <1>2 DEF Served!TestNetwork, Served!AskReserves, Served!ReservesAnswer, Served!history
<1>3. ASSUME NEW a \in Calls, NEW k \in Kinds, Served!AskPositions(a, k) PROVE carried'
  BY <1>3 DEF Served!AskPositions, Served!history
<1>4. ASSUME \/ Served!JobWrites \/ Served!JobEnds \/ Served!Close \/ Served!Closed
             \/ Served!TimePasses \/ UNCHANGED (Served!vars)
      PROVE  carried'
  BY <1>4 DEF Served!JobWrites, Served!JobEnds, Served!Close, Served!Closed, Served!TimePasses,
              Served!vars, Served!history
<1>5. ASSUME Served!Patch \/ Served!Delete PROVE carried'
  BY <1>5 DEF Served!Patch, Served!Delete, Served!Remember
<1> QED
  BY <1>1, <1>2, <1>3, <1>4, <1>5 DEF Served!Next

\* The tokens of v4: an index or a job of one that outlives a change is remembered.
LEMMA ScannedStep ==
  CallsInv /\ (carried \/ Scanned) /\ [Served!Next]_(Served!vars) => (carried \/ Scanned)'
<1> SUFFICES ASSUME CallsInv, carried \/ Scanned, [Served!Next]_(Served!vars), ~carried'
             PROVE  Scanned'
  OBVIOUS
<1>1. /\ responses \in [Kinds -> ResponseRecord] /\ call \in [Calls -> CallRecord]
      /\ job \in JobRecord /\ \A a \in Calls : InOrder(call[a])
  BY DEF CallsInv, CallTypes, CallsInOrder
<1>2. ~carried /\ Scanned
  BY CarriedStays
\* Steps that leave the integration as it is: the index only grows.
<1>3. ASSUME UNCHANGED callsIntegration, index \subseteq index',
             \A config \in index' : Served!IsOfNow(config),
             \A k \in Kinds : responses'[k].tokens \subseteq index',
             \A a \in Calls : call'[a].tokens \subseteq index',
             job'.running => Served!IsOfNow(job'.config)
      PROVE  Scanned'
  BY <1>3 DEF Scanned, Served!IsOfNow
<1>4. /\ \A config \in index : Served!IsOfNow(config)
      /\ \A k \in Kinds : responses[k].tokens \subseteq index
      /\ \A a \in Calls : call[a].tokens \subseteq index
      /\ job.running => Served!IsOfNow(job.config)
  BY <1>2 DEF Scanned
\* Steps of calls, which keep to the tokens they have.
<1>5. ASSUME UNCHANGED <<callsIntegration, index, job, responses>>,
             \A a \in Calls : call'[a].tokens \subseteq call[a].tokens
      PROVE  Scanned'
  BY <1>3, <1>4, <1>5
<1>6. ASSUME NEW a \in Calls, NEW next, next.tokens \subseteq call[a].tokens,
             call' = [call EXCEPT ![a] = next]
      PROVE  \A b \in Calls : call'[b].tokens \subseteq call[b].tokens
  BY <1>1, <1>6
<1>7. ASSUME NEW a \in Calls, Served!StartTest(a) PROVE Scanned'
  <2> DEFINE next == [Served!Idle EXCEPT !.phase = "test", !.config = callsIntegration.config,
                                         !.chains = callsIntegration.chains]
  <2>1. call' = [call EXCEPT ![a] = next] /\ UNCHANGED <<callsIntegration, index, job, responses>>
    BY <1>7 DEF Served!StartTest, Served!caches, Served!scans
  <2>2. next.tokens = {}
    BY DEF Served!Idle
  <2> HIDE DEF next
  <2> QED BY <1>5, <1>6, <2>1, <2>2
<1>8. ASSUME NEW a \in Calls, NEW c \in CallChains, Served!TestNetwork(a, c) PROVE Scanned'
  <2>1. UNCHANGED <<callsIntegration, index, job, responses>>
    BY <1>8 DEF Served!TestNetwork, Served!caches, Served!scans
  <2>2. PICK good : Served!Tested(a, c, good)
    BY <1>8 DEF Served!TestNetwork
  <2> DEFINE left == [call[a] EXCEPT !.chains = call[a].chains \ {c}]
             next == IF call[a].chains = {c} THEN Served!Idle ELSE left
  <2>3. call' = [call EXCEPT ![a] = next]
    BY <1>1, <2>2 DEF Served!Tested
  <2>4. left.tokens = call[a].tokens
    BY <1>1 DEF CallRecord
  <2>5. next.tokens \subseteq call[a].tokens
    BY <2>4, CallConstants
  <2> HIDE DEF next
  <2> QED BY <1>5, <1>6, <2>1, <2>3, <2>5
<1>9. ASSUME NEW a \in Calls, NEW c \in CallChains, Served!AskReserves(a, c) PROVE Scanned'
  <2> DEFINE next == [Served!Idle EXCEPT !.phase = "reserves", !.config = callsIntegration.config,
                                         !.chains = {c}]
  <2>1. call' = [call EXCEPT ![a] = next] /\ UNCHANGED <<callsIntegration, index, job, responses>>
    BY <1>9 DEF Served!AskReserves, Served!caches, Served!scans
  <2>2. next.tokens = {}
    BY DEF Served!Idle
  <2> HIDE DEF next
  <2> QED BY <1>5, <1>6, <2>1, <2>2
<1>10. ASSUME NEW a \in Calls,
              Served!ReservesFail(a) \/ \E c \in CallChains : Served!ReservesAnswer(a, c)
       PROVE  Scanned'
  <2>1. /\ call' = [call EXCEPT ![a] = Served!Idle]
        /\ UNCHANGED <<callsIntegration, index, job, responses>>
    BY <1>10 DEF Served!ReservesFail, Served!ReservesAnswer, Served!caches, Served!scans
  <2> QED BY <1>5, <1>6, <2>1, CallConstants
<1>11. ASSUME NEW a \in Calls, NEW k \in Kinds, Served!AskPositions(a, k) PROVE Scanned'
  <2>1. UNCHANGED <<callsIntegration, index, responses>>
    BY <1>11 DEF Served!AskPositions
  <2>2. CASE inflight[k] # Served!NoCall
    <3> DEFINE next == [Served!Idle EXCEPT !.phase = "join", !.kind = k, !.leader = inflight[k]]
    <3>1. call' = [call EXCEPT ![a] = next] /\ UNCHANGED job
      BY <1>11, <2>2 DEF Served!AskPositions
    <3>2. next.tokens = {}
      BY DEF Served!Idle
    <3> HIDE DEF next
    <3> QED BY <1>5, <1>6, <2>1, <3>1, <3>2
  <2>3. CASE inflight[k] = Served!NoCall
    <3> DEFINE reader == Served!ReaderOf(k, callsIntegration.config)
               phase == IF k = "v4" THEN "look" ELSE "discover"
               tokens == IF k = "v4" THEN index ELSE {}
               next == [Served!Idle EXCEPT !.phase = phase, !.kind = k,
                          !.config = callsIntegration.config, !.reader = reader, !.tokens = tokens]
    <3>1. call' = [call EXCEPT ![a] = next] /\ Served!StartJob(k)
      BY <1>11, <2>3 DEF Served!AskPositions
    <3>2. tokens \subseteq index
      OBVIOUS
    <3> HIDE DEF reader, phase, tokens
    <3>3. next.tokens = tokens
      BY DEF Served!Idle
    <3> HIDE DEF next
    <3>4. \A b \in Calls : call'[b].tokens \subseteq index
      BY <1>1, <1>4, <3>1, <3>2, <3>3
    <3>5. job'.running => Served!IsOfNow(job'.config)
      BY <1>4, <3>1 DEF Served!StartJob, Served!IsOfNow
    <3> QED BY <1>3, <1>4, <2>1, <3>4, <3>5
  <2> QED BY <2>2, <2>3
<1>12. ASSUME NEW a \in Calls, Served!Discovered(a) PROVE Scanned'
  <2> DEFINE k == call[a].kind
             reader == IF k = "v3" THEN Served!ReaderOf(k, call[a].config) ELSE call[a].reader
             next == [call[a] EXCEPT !.phase = "look", !.reader = reader]
  <2>1. call' = [call EXCEPT ![a] = next] /\ UNCHANGED <<callsIntegration, index, job, responses>>
    BY <1>1, <1>12 DEF Served!Discovered, Served!AsksAgain, Served!scans
  <2>2. next.tokens = call[a].tokens
    BY <1>1 DEF CallRecord
  <2> HIDE DEF next
  <2> QED BY <1>5, <1>6, <2>1, <2>2
<1>13. ASSUME NEW a \in Calls, Served!DiscoveryFails(a) PROVE Scanned'
  <2>1. /\ call' = [b \in Calls |-> IF b \in Served!With(a, "join") THEN Served!Idle ELSE call[b]]
        /\ UNCHANGED <<callsIntegration, index, job, responses>>
    BY <1>13 DEF Served!DiscoveryFails, Served!scans
  <2> QED BY <1>5, <2>1, CallConstants
<1>14. ASSUME NEW a \in Calls, Served!LookForPosition(a) PROVE Scanned'
  <2>1. UNCHANGED <<callsIntegration, index, job, responses>>
    BY <1>14 DEF Served!LookForPosition, Served!scans
  <2>2. PICK phase, leader :
          \/ call' = [call EXCEPT ![a].phase = phase]
          \/ call' = [call EXCEPT ![a].phase = phase, ![a].leader = leader]
    BY <1>14 DEF Served!LookForPosition
  <2> DEFINE steps == {[call[a] EXCEPT !.phase = phase],
                       [call[a] EXCEPT !.phase = phase, !.leader = leader]}
  <2>3. \A next \in steps : next.tokens = call[a].tokens
    BY <1>1 DEF CallRecord
  <2>4. \E next \in steps : call' = [call EXCEPT ![a] = next]
    BY <1>1, <2>2
  <2> HIDE DEF steps
  <2> QED BY <1>5, <1>6, <2>1, <2>3, <2>4
<1>15. ASSUME NEW a \in Calls, Served!PositionRead(a) PROVE Scanned'
  <2> DEFINE ended(b) == [call[b] EXCEPT !.phase = "end", !.leader = Served!NoCall]
  <2>1. /\ call' = [b \in Calls |-> IF b \in Served!With(a, "joinRead") THEN ended(b) ELSE call[b]]
        /\ UNCHANGED <<callsIntegration, index, job, responses>>
    BY <1>15 DEF Served!PositionRead, Served!scans
  <2>2. \A b \in Calls : ended(b).tokens = call[b].tokens
    BY <1>1 DEF CallRecord
  <2> HIDE DEF ended
  <2> QED BY <1>5, <2>1, <2>2
<1>16. ASSUME NEW a \in Calls, Served!EndLoad(a) PROVE Scanned'
  <2> DEFINE k == call[a].kind
             kept == [config |-> call[a].reader, until |-> callsClock + ResponseTtl,
                      tokens |-> call[a].tokens]
  <2>1. /\ responses' = [responses EXCEPT ![k] = kept]
        /\ call' = [b \in Calls |-> IF b \in Served!With(a, "join") THEN Served!Idle ELSE call[b]]
        /\ UNCHANGED <<callsIntegration, index, job>>
    BY <1>16 DEF Served!EndLoad, Served!scans
  <2>2. kept.tokens \subseteq index
    BY <1>4
  <2> HIDE DEF kept, k
  <2>3. \A o \in Kinds : responses'[o].tokens \subseteq index
    BY <1>1, <1>4, <2>1, <2>2
  <2>4. \A b \in Calls : call'[b].tokens \subseteq index
    BY <1>4, <2>1, CallConstants
  <2> QED BY <1>3, <1>4, <2>1, <2>3, <2>4
<1>17. ASSUME Served!JobWrites PROVE Scanned'
  <2>1. /\ index' = index \cup {job.config} /\ job.running
        /\ UNCHANGED <<callsIntegration, job, responses, call>>
    BY <1>17 DEF Served!JobWrites, Served!caches
  <2> QED BY <1>3, <1>4, <2>1
<1>18. ASSUME Served!JobEnds \/ Served!Close PROVE Scanned'
  <2>1. /\ UNCHANGED <<callsIntegration, index, responses, call>>
        /\ job' = Served!NoJob \/ job' = [job EXCEPT !.aborted = job.aborted \/ job.running]
    BY <1>18 DEF Served!JobEnds, Served!Close, Served!caches
  <2>2. job'.running => job.running /\ job'.config = job.config
    BY <1>1, <2>1, CallConstants DEF JobRecord
  <2> QED BY <1>3, <1>4, <2>1, <2>2
<1>19. ASSUME Served!Patch \/ Served!Delete PROVE Scanned'
  <2>1. /\ index = {} /\ ~job.running /\ index' = {} /\ UNCHANGED <<call, job>>
        /\ Served!Invalidate
    BY <1>19 DEF Served!Patch, Served!Delete, Served!Remember, Served!scans
  <2>2. \A k \in Kinds : responses'[k].tokens = {}
    BY <2>1, CallConstants DEF Served!Invalidate, Served!ClearWallets
  <2> QED BY <1>4, <2>1, <2>2 DEF Scanned
<1>20. ASSUME Served!Closed PROVE Scanned'
  <2>1. Served!ClearWallets /\ UNCHANGED <<callsIntegration, index, job, call>>
    BY <1>20 DEF Served!Closed, Served!scans
  <2>2. \A k \in Kinds : responses'[k].tokens = {}
    BY <2>1, CallConstants DEF Served!ClearWallets
  <2> QED BY <1>3, <1>4, <2>1, <2>2
<1>21. ASSUME Served!TimePasses \/ UNCHANGED (Served!vars) PROVE Scanned'
  <2>1. UNCHANGED <<callsIntegration, index, job, responses, call>>
    BY <1>21 DEF Served!TimePasses, Served!vars, Served!caches, Served!scans
  <2> QED BY <1>3, <1>4, <2>1
<1> QED
  BY <1>7, <1>8, <1>9, <1>10, <1>11, <1>12, <1>13, <1>14, <1>15, <1>16, <1>17, <1>18, <1>19, <1>20,
     <1>21 DEF Served!Next

LEMMA CallsInvAlways == PartsSpec => [](part = "calls" => CallsInv /\ KeptInv)
<1> DEFINE Inv == part = "calls" => CallsInv /\ KeptInv
<1>1. PartsInit => Inv
  BY CallsInit, KeptInit DEF PartsInit
<1>2. Inv /\ [PartsNext]_partVars => Inv'
  <2> SUFFICES ASSUME Inv, [PartsNext]_partVars, part' = "calls" PROVE CallsInv' /\ KeptInv'
    OBVIOUS
  <2>1. part = "calls" /\ [Served!Next]_(Served!vars)
    BY DEF PartsNext, partVars, callsVars, Served!vars, Served!caches, Served!scans, Served!history
  <2>2. CallsInv'
    BY <2>1, CallsStep
  <2>3. Provenance' /\ (carried \/ Scanned)'
    BY <2>1, ProvenanceStep, ScannedStep DEF KeptInv
  <2> QED BY <2>2, <2>3 DEF KeptInv
<1> QED
  BY <1>1, <1>2, PTL DEF PartsSpec

\* integration-operations-service.ts, invalidateTestResults(): what is kept of an integration
\* was read with its configuration of now, unless a call of the same sort was under way when
\* it was changed; and the tokens of v4 were scanned with it, unless their index, which is
\* not cleared, or its job was there then (startWalletIndexJob()).
THEOREM OnlyLateCallsMixAlways == PartsSpec => []OnlyLateCallsMix
<1>1. ASSUME KeptInv PROVE Served!OnlyLateCallsMix
  <2>1. \A c \in CallChains : /\ "test" \in late \/ Served!IsOfNow(callsHealth[c].config)
                              /\ "reserves" \in late \/ Served!IsOfNow(catalog[c].config)
    BY <1>1 DEF KeptInv, Provenance, FitsSort
  <2>2. \A k \in Kinds :
          /\ k \in late \/ (Served!IsOfNow(responses[k].config) /\ Served!IsOfNow(positions[k].config))
          /\ (k = "v3" /\ k \in late) \/ Served!IsOfNow(readers[k])
    BY <1>1 DEF KeptInv, Provenance, FitsSort
  <2>3. \A k \in Kinds : carried \/ \A config \in index \cup responses[k].tokens : Served!IsOfNow(config)
    BY <1>1 DEF KeptInv, Scanned
  <2> QED BY <2>1, <2>2, <2>3 DEF Served!OnlyLateCallsMix
<1>2. (part = "calls" => CallsInv /\ KeptInv) => OnlyLateCallsMix
  BY <1>1 DEF OnlyLateCallsMix
<1> QED
  BY <1>2, CallsInvAlways, PTL

\* integration-operations-service.ts, walletPositions() and readWalletPosition(): a load or a
\* read that can be joined is under way, so that nobody waits for one that is over.
THEOREM SharedIsUnderWayAlways == PartsSpec => []SharedIsUnderWay
<1>1. (part = "calls" => CallsInv /\ KeptInv) => SharedIsUnderWay
  BY DEF SharedIsUnderWay, CallsInv
<1> QED
  BY <1>1, CallsInvAlways, PTL

---------------------------------------------------------------------------
(* The monitors *)

\* A change of one field gives a row again.
LEMMA MergeIsRow ==
  ASSUME NEW row \in Watched!Rows, NEW patch \in Watched!Patches
  PROVE  Watched!Merge(row, patch) \in Watched!Rows
<1>1. /\ "enabled" \in DOMAIN patch => patch["enabled"] \in BOOLEAN
      /\ "rpc" \in DOMAIN patch => patch["rpc"] \in Integrations
      /\ "chain" \in DOMAIN patch => patch["chain"] \in Chains
      /\ "token" \in DOMAIN patch => patch["token"] \in Tokens
  BY DEF Watched!Patches
<1>2. row \in [enabled : BOOLEAN, config : [rpc : Integrations, chain : Chains, token : Tokens]]
  BY DEF Watched!Rows, Watched!Config
<1>3. /\ Watched!Given(patch, "enabled", row.enabled) \in BOOLEAN
      /\ Watched!Given(patch, "rpc", row.config.rpc) \in Integrations
      /\ Watched!Given(patch, "chain", row.config.chain) \in Chains
      /\ Watched!Given(patch, "token", row.config.token) \in Tokens
  BY <1>1, <1>2 DEF Watched!Given
<1> QED
  BY <1>3 DEF Watched!Merge, Watched!Rows, Watched!Config

\* A row is none of the marks of a monitor that is not stored.
LEMMA RowIsStored ==
  ASSUME NEW row \in Watched!Rows
  PROVE  row # Watched!NotYet /\ row # Watched!Gone
<1>1. DOMAIN row = {"enabled", "config"}
  BY DEF Watched!Rows
<1>2. DOMAIN Watched!NotYet = {"row"} /\ DOMAIN Watched!Gone = {"row"}
  BY DEF Watched!NotYet, Watched!Gone
<1> QED
  BY <1>1, <1>2

\* What the coordinators want refers to what the rows refer to.
LEMMA WantedRefers ==
  ASSUME NEW rows, NEW integrations,
         \A m \in Monitors : Watched!Stored(rows, m) =>
           rows[m].config.rpc \in Integrations /\ integrations[rows[m].config.rpc].present,
         NEW m \in Monitors, Watched!Wanted(rows, integrations)[m] # Watched!NoTask
  PROVE  /\ Watched!Wanted(rows, integrations)[m].rpc \in Integrations
         /\ integrations[Watched!Wanted(rows, integrations)[m].rpc].present
BY DEF Watched!Wanted

MonitorTypes ==
  /\ monitorsIntegration \in [Integrations -> [present : BOOLEAN, enabled : BOOLEAN,
                                               chains : SUBSET Chains]]
  /\ monitorsMonitor = [m \in Monitors |-> monitorsMonitor[m]]
  /\ request = [a \in Requests |-> request[a]]
  /\ overlap \in BOOLEAN

\* A row refers to an integration that is there and of its type, and so does a task.
RowRefers(row, m) ==
  /\ row \in Watched!Rows
  /\ monitorsIntegration[row.config.rpc].present
  /\ (row.config.rpc \in MarketData) = (KindOf[m] = "market")
RowsRefer == \A m \in Monitors : Watched!Stored(monitorsMonitor, m) => RowRefers(monitorsMonitor[m], m)
TasksRefer ==
  \A m \in Monitors : tasks[m] # Watched!NoTask =>
    tasks[m].rpc \in Integrations /\ monitorsIntegration[tasks[m].rpc].present

\* A monitor is created by one request, and is not there before; one that is changed was there.
Creates(r, m) == r.phase = "create" /\ r.monitor = m
Updates(r, m) == r.phase = "update" /\ r.monitor = m
RequestsInOrder ==
  \A a \in Requests :
    /\ request[a].phase = "create" =>
         /\ request[a].monitor \in Monitors /\ request[a].row \in Watched!Rows
         /\ monitorsMonitor[request[a].monitor] = Watched!NotYet
         /\ \A b \in Requests : Creates(request[b], request[a].monitor) => b = a
    /\ request[a].phase = "update" =>
         /\ request[a].monitor \in Monitors /\ request[a].patch \in Watched!Patches
         /\ monitorsMonitor[request[a].monitor] # Watched!NotYet

\* What was checked is what is going to be stored, unless changes overlapped.
CheckedIsStored ==
  \A a \in Requests :
    (request[a].phase = "update" /\ Watched!Stored(monitorsMonitor, request[a].monitor)) =>
      request[a].checked =
        Watched!Merge(monitorsMonitor[request[a].monitor], request[a].patch).config

MonitorsInv ==
  /\ MonitorTypes /\ RowsRefer /\ TasksRefer /\ RequestsInOrder
  /\ overlap \/ (CheckedIsStored /\ Watched!PositionsAreReal)

LEMMA MonitorsInit == Watched!Init => MonitorsInv
<1> SUFFICES ASSUME Watched!Init PROVE MonitorsInv
  OBVIOUS
<1>1. MonitorTypes
  BY DEF Watched!Init, MonitorTypes
<1>2. RowsRefer /\ TasksRefer /\ Watched!PositionsAreReal
  BY DEF Watched!Init, RowsRefer, TasksRefer, Watched!PositionsAreReal, Watched!Stored
<1>3. \A a \in Requests : request[a].phase = "idle"
  BY DEF Watched!Init, Watched!Idle
<1>4. RequestsInOrder /\ CheckedIsStored
  BY <1>3 DEF RequestsInOrder, CheckedIsStored
<1> QED
  BY <1>1, <1>2, <1>4 DEF MonitorsInv

LEMMA MonitorsStep == MonitorsInv /\ [Watched!Next]_(Watched!vars) => MonitorsInv'
<1> SUFFICES ASSUME MonitorsInv, [Watched!Next]_(Watched!vars) PROVE MonitorsInv'
  OBVIOUS
<1> USE DEF MonitorsInv
<1>1. /\ \A a \in Requests : \A next : request' = [request EXCEPT ![a] = next] =>
           /\ request' = [b \in Requests |-> request'[b]] /\ request'[a] = next
           /\ \A b \in Requests : b # a => request'[b] = request[b]
      /\ \A m \in Monitors : \A row : monitorsMonitor' = [monitorsMonitor EXCEPT ![m] = row] =>
           /\ monitorsMonitor' = [n \in Monitors |-> monitorsMonitor'[n]] /\ monitorsMonitor'[m] = row
           /\ \A n \in Monitors : n # m => monitorsMonitor'[n] = monitorsMonitor[n]
  BY DEF MonitorTypes
\* What the coordinators watch follows from what is stored.
<1>2. ASSUME RowsRefer', tasks' = Watched!Wanted(monitorsMonitor', monitorsIntegration')
      PROVE  TasksRefer'
  <2>1. \A m \in Monitors : Watched!Stored(monitorsMonitor', m) =>
          /\ monitorsMonitor'[m].config.rpc \in Integrations
          /\ monitorsIntegration'[monitorsMonitor'[m].config.rpc].present
    BY <1>2 DEF RowsRefer, RowRefers, Watched!Rows, Watched!Config, Watched!Stored
  <2> QED BY <1>2, <2>1, WantedRefers DEF TasksRefer
\* A request is over, or waits to be published.
<1>3. ASSUME NEW a \in Requests, request'[a].phase \in {"idle", "stored"},
             request' = [b \in Requests |-> request'[b]],
             \A b \in Requests : b # a => request'[b] = request[b],
             UNCHANGED <<monitorsMonitor, monitorsIntegration>>, TasksRefer',
             overlap' \in BOOLEAN, overlap => overlap'
      PROVE  MonitorsInv'
  <2>1. MonitorTypes' /\ RowsRefer' /\ (Watched!PositionsAreReal => Watched!PositionsAreReal')
    BY <1>3 DEF MonitorTypes, RowsRefer, RowRefers, Watched!PositionsAreReal, Watched!Stored
  <2>2. RequestsInOrder'
    BY <1>3 DEF RequestsInOrder, Creates
  <2>3. CheckedIsStored => CheckedIsStored'
    BY <1>3 DEF CheckedIsStored, Watched!Stored
  <2> QED BY <1>3, <2>1, <2>2, <2>3
\* A row is stored.
<1>4. ASSUME NEW a \in Requests, NEW m \in Monitors, NEW row \in Watched!Rows,
             Watched!RefersTo(m, row.config),
             monitorsMonitor' = [monitorsMonitor EXCEPT ![m] = row],
             request' = [request EXCEPT ![a] = [phase |-> "stored"]],
             UNCHANGED <<monitorsIntegration, tasks>>, overlap' \in BOOLEAN, overlap => overlap',
             \A b \in Requests : b # a => ~Creates(request[b], m),
             ~overlap' => /\ \A b \in Requests : b # a => ~Updates(request[b], m)
                          /\ KindOf[m] = "position" => Watched!Exists(row.config)
      PROVE  MonitorsInv'
  <2>1. /\ request' = [b \in Requests |-> request'[b]] /\ request'[a].phase = "stored"
        /\ \A b \in Requests : b # a => request'[b] = request[b]
    BY <1>1, <1>4
  <2>2. /\ monitorsMonitor' = [n \in Monitors |-> monitorsMonitor'[n]] /\ monitorsMonitor'[m] = row
        /\ \A n \in Monitors : n # m => monitorsMonitor'[n] = monitorsMonitor[n]
    BY <1>1, <1>4
  <2>3. MonitorTypes'
    BY <1>4, <2>1, <2>2 DEF MonitorTypes
  <2>4. RowRefers(row, m)'
    BY <1>4 DEF RowRefers, Watched!RefersTo, Watched!Usable
  <2>5. RowsRefer' /\ TasksRefer'
    BY <1>4, <2>2, <2>4 DEF RowsRefer, RowRefers, TasksRefer, Watched!Stored
  <2>6. row # Watched!NotYet
    BY RowIsStored
  <2>7. ASSUME NEW b \in Requests
        PROVE  /\ request'[b].phase = "create" =>
                    /\ request'[b].monitor \in Monitors /\ request'[b].row \in Watched!Rows
                    /\ monitorsMonitor'[request'[b].monitor] = Watched!NotYet
                    /\ \A c \in Requests : Creates(request'[c], request'[b].monitor) => c = b
               /\ request'[b].phase = "update" =>
                    /\ request'[b].monitor \in Monitors /\ request'[b].patch \in Watched!Patches
                    /\ monitorsMonitor'[request'[b].monitor] # Watched!NotYet
    <3>1. CASE b = a
      BY <2>1, <3>1
    <3>2. CASE b # a
      BY <1>4, <2>1, <2>2, <2>6, <3>2 DEF RequestsInOrder, Creates
    <3> QED BY <3>1, <3>2
  <2>8. RequestsInOrder'
    BY <2>7 DEF RequestsInOrder
  <2>9. ASSUME ~overlap' PROVE CheckedIsStored' /\ Watched!PositionsAreReal'
    <3>1. CheckedIsStored /\ Watched!PositionsAreReal
      BY <1>4, <2>9
    <3>2. \A b \in Requests : b # a => ~Updates(request[b], m)
      BY <1>4, <2>9
    <3>3. CheckedIsStored'
      BY <2>1, <2>2, <3>1, <3>2 DEF CheckedIsStored, Updates, Watched!Stored, RequestsInOrder
    <3>4. Watched!PositionsAreReal'
      BY <1>4, <2>2, <2>9, <3>1 DEF Watched!PositionsAreReal, Watched!Stored
    <3> QED BY <3>3, <3>4
  <2> QED BY <2>3, <2>5, <2>8, <2>9
\* Only the integrations change.
<1>5. ASSUME monitorsIntegration' \in [Integrations -> [present : BOOLEAN, enabled : BOOLEAN,
                                                       chains : SUBSET Chains]],
             \A m \in Monitors : Watched!Stored(monitorsMonitor, m) =>
               monitorsIntegration'[monitorsMonitor[m].config.rpc].present,
             Watched!IntegrationChanged, UNCHANGED <<monitorsMonitor, request, overlap>>
      PROVE  MonitorsInv'
  <2>1. MonitorTypes' /\ RequestsInOrder' /\ (CheckedIsStored => CheckedIsStored')
        /\ (Watched!PositionsAreReal => Watched!PositionsAreReal')
    BY <1>5 DEF MonitorTypes, RequestsInOrder, CheckedIsStored, Watched!PositionsAreReal,
                Watched!Stored, Creates
  <2>2. RowsRefer'
    BY <1>5 DEF RowsRefer, RowRefers, Watched!Stored
  <2>3. TasksRefer'
    BY <1>2, <1>5, <2>2 DEF Watched!IntegrationChanged
  <2> QED BY <1>5, <2>1, <2>2, <2>3
<1>6. ASSUME NEW a \in Requests, NEW m \in Monitors, NEW row \in Watched!RowsOf(m),
             Watched!Create(a, m, row)
      PROVE  MonitorsInv'
  <2>1. row \in Watched!Rows
    BY DEF Watched!RowsOf
  <2>2. /\ monitorsMonitor[m] = Watched!NotYet
        /\ \A b \in Requests : ~Creates(request[b], m) /\ ~Updates(request[b], m)
        /\ UNCHANGED <<monitorsIntegration, tasks, overlap>>
    BY <1>6 DEF Watched!Create, Creates, Updates, RequestsInOrder
  <2>3. overlap' \in BOOLEAN /\ (overlap => overlap') /\ (UNCHANGED monitorsMonitor => TasksRefer')
    BY <2>2 DEF MonitorTypes, TasksRefer
  <2>4. CASE KindOf[m] = "position"
    <3> DEFINE next == [phase |-> "create", monitor |-> m, row |-> row]
    <3>1. request' = [request EXCEPT ![a] = next] /\ UNCHANGED monitorsMonitor
      BY <1>6, <2>4 DEF Watched!Create
    <3>2. next.phase = "create" /\ next.monitor = m /\ next.row = row
      OBVIOUS
    <3> HIDE DEF next
    <3>3. /\ request' = [b \in Requests |-> request'[b]] /\ request'[a] = next
          /\ \A b \in Requests : b # a => request'[b] = request[b]
      BY <1>1, <3>1
    <3>4. MonitorTypes' /\ RowsRefer' /\ (Watched!PositionsAreReal => Watched!PositionsAreReal')
      BY <2>2, <3>1, <3>3 DEF MonitorTypes, RowsRefer, RowRefers, Watched!PositionsAreReal,
                              Watched!Stored
    <3>5. RequestsInOrder'
      BY <2>1, <2>2, <3>1, <3>2, <3>3 DEF RequestsInOrder, Creates
    <3>6. CheckedIsStored => CheckedIsStored'
      BY <3>1, <3>2, <3>3 DEF CheckedIsStored, Watched!Stored
    <3> QED BY <2>2, <2>3, <3>1, <3>4, <3>5, <3>6
  <2>5. CASE KindOf[m] # "position" /\ Watched!RefersTo(m, row.config)
    <3>1. /\ monitorsMonitor' = [monitorsMonitor EXCEPT ![m] = row]
          /\ request' = [request EXCEPT ![a] = [phase |-> "stored"]]
      BY <1>6, <2>5 DEF Watched!Create, Watched!StoreNew
    <3> QED BY <1>4, <2>1, <2>2, <2>3, <2>5, <3>1
  <2>6. CASE KindOf[m] # "position" /\ ~Watched!RefersTo(m, row.config)
    <3>1. request' = [request EXCEPT ![a] = Watched!Idle] /\ UNCHANGED monitorsMonitor
      BY <1>6, <2>6 DEF Watched!Create, Watched!StoreNew
    <3>2. /\ request' = [b \in Requests |-> request'[b]] /\ request'[a].phase = "idle"
          /\ \A b \in Requests : b # a => request'[b] = request[b]
      BY <1>1, <3>1 DEF Watched!Idle
    <3> QED BY <1>3, <2>2, <2>3, <3>1, <3>2
  <2> QED BY <2>4, <2>5, <2>6
\* A change is merged and stored, or refused.
<1>7. ASSUME NEW a \in Requests, NEW m \in Monitors, NEW patch \in Watched!Patches,
             Watched!StorePatch(a, m, patch), Watched!Overlaps(a, m),
             UNCHANGED <<monitorsIntegration, tasks>>,
             (~overlap' /\ Watched!Stored(monitorsMonitor, m) /\ KindOf[m] = "position") =>
               Watched!Exists(Watched!Merge(monitorsMonitor[m], patch).config)
      PROVE  MonitorsInv'
  <2> DEFINE row == Watched!Merge(monitorsMonitor[m], patch)
  <2>1. /\ overlap' \in BOOLEAN
        /\ overlap => overlap'
        /\ ~overlap' => \A b \in Requests : b # a => ~Updates(request[b], m)
    BY <1>7 DEF Watched!Overlaps, MonitorTypes, Updates
  <2>2. CASE Watched!Stored(monitorsMonitor, m) /\ Watched!RefersTo(m, row.config)
    <3>1. row \in Watched!Rows
      BY <2>2, MergeIsRow DEF RowsRefer, RowRefers
    <3>2. /\ monitorsMonitor' = [monitorsMonitor EXCEPT ![m] = row]
          /\ request' = [request EXCEPT ![a] = [phase |-> "stored"]]
      BY <1>7, <2>2 DEF Watched!StorePatch
    <3>3. \A b \in Requests : b # a => ~Creates(request[b], m)
      BY <2>2 DEF RequestsInOrder, Creates, Watched!Stored
    <3>4. ~overlap' /\ KindOf[m] = "position" => Watched!Exists(row.config)
      BY <1>7, <2>2
    <3> HIDE DEF row
    <3> QED BY <1>4, <1>7, <2>1, <2>2, <3>1, <3>2, <3>3, <3>4
  <2>3. CASE ~(Watched!Stored(monitorsMonitor, m) /\ Watched!RefersTo(m, row.config))
    <3>1. request' = [request EXCEPT ![a] = Watched!Idle] /\ UNCHANGED monitorsMonitor
      BY <1>7, <2>3 DEF Watched!StorePatch
    <3>2. TasksRefer'
      BY <1>7 DEF TasksRefer
    <3>3. /\ request' = [b \in Requests |-> request'[b]] /\ request'[a].phase = "idle"
          /\ \A b \in Requests : b # a => request'[b] = request[b]
      BY <1>1, <3>1 DEF Watched!Idle
    <3> QED BY <1>3, <1>7, <2>1, <3>1, <3>2, <3>3
  <2> QED BY <2>2, <2>3
<1>8. ASSUME NEW a \in Requests, NEW m \in Monitors, NEW patch \in Watched!PatchesOf(m),
             Watched!Update(a, m, patch)
      PROVE  MonitorsInv'
  <2> DEFINE after == Watched!Merge(monitorsMonitor[m], patch).config
             next == [phase |-> "update", monitor |-> m, patch |-> patch, checked |-> after]
             validated == /\ KindOf[m] \in {"position", "pool"}
                          /\ Watched!MustValidate(monitorsMonitor[m].config, after)
  <2>1. patch \in Watched!Patches
    BY DEF Watched!PatchesOf, Watched!Patches
  <2>2. Watched!Stored(monitorsMonitor, m) /\ UNCHANGED <<monitorsIntegration, tasks>>
    BY <1>8 DEF Watched!Update
  <2>3. CASE validated /\ KindOf[m] = "position"
    <3>1. request' = [request EXCEPT ![a] = next] /\ UNCHANGED <<monitorsMonitor, overlap>>
      BY <1>8, <2>3 DEF Watched!Update
    <3>2. next.phase = "update" /\ next.monitor = m /\ next.patch = patch /\ next.checked = after
      OBVIOUS
    <3>3. monitorsMonitor[m] # Watched!NotYet
      BY <2>2 DEF Watched!Stored
    <3> HIDE DEF next
    <3>4. /\ request' = [b \in Requests |-> request'[b]] /\ request'[a] = next
          /\ \A b \in Requests : b # a => request'[b] = request[b]
      BY <1>1, <3>1
    <3>5. MonitorTypes' /\ RowsRefer' /\ TasksRefer'
          /\ (Watched!PositionsAreReal => Watched!PositionsAreReal')
      BY <2>2, <3>1, <3>4 DEF MonitorTypes, RowsRefer, RowRefers, TasksRefer,
                              Watched!PositionsAreReal, Watched!Stored
    <3>6. RequestsInOrder'
      BY <2>1, <3>1, <3>2, <3>3, <3>4 DEF RequestsInOrder, Creates
    <3>7. CheckedIsStored => CheckedIsStored'
      BY <3>1, <3>2, <3>4 DEF CheckedIsStored, Watched!Stored
    <3> QED BY <3>1, <3>5, <3>6, <3>7
  <2>4. CASE ~(validated /\ KindOf[m] = "position")
    <3>1. Watched!StorePatch(a, m, patch) /\ Watched!Overlaps(a, m)
      BY <1>8, <2>4 DEF Watched!Update
    <3>2. ASSUME ~overlap', KindOf[m] = "position" PROVE Watched!Exists(after)
      <4>1. monitorsMonitor[m].config = after
        BY <2>4, <3>2 DEF Watched!MustValidate
      <4>2. ~overlap
        BY <3>1, <3>2 DEF Watched!Overlaps
      <4> QED BY <2>2, <3>2, <4>1, <4>2 DEF Watched!PositionsAreReal
    <3> QED BY <1>7, <2>1, <2>2, <3>1, <3>2
  <2> QED BY <2>3, <2>4
<1>9. ASSUME NEW a \in Requests, Watched!Validated(a) PROVE MonitorsInv'
  <2> DEFINE m == request[a].monitor
  <2>1. UNCHANGED <<monitorsIntegration, tasks>>
    BY <1>9 DEF Watched!Validated
  <2>2. CASE /\ request[a].phase = "create" /\ Watched!Exists(request[a].row.config)
             /\ Watched!StoreNew(a, m, request[a].row) /\ UNCHANGED overlap
    <3>1. /\ m \in Monitors /\ request[a].row \in Watched!Rows
          /\ \A b \in Requests : /\ b # a => ~Creates(request[b], m)
                                 /\ ~Updates(request[b], m)
      BY <2>2 DEF RequestsInOrder, Updates
    <3>2. overlap' \in BOOLEAN /\ (overlap => overlap') /\ TasksRefer'
      BY <2>1, <2>2 DEF MonitorTypes, TasksRefer
    <3>3. CASE Watched!RefersTo(m, request[a].row.config)
      <4>1. /\ monitorsMonitor' = [monitorsMonitor EXCEPT ![m] = request[a].row]
            /\ request' = [request EXCEPT ![a] = [phase |-> "stored"]]
        BY <2>2, <3>3 DEF Watched!StoreNew
      <4> QED BY <1>4, <2>1, <2>2, <3>1, <3>2, <3>3, <4>1
    <3>4. CASE ~Watched!RefersTo(m, request[a].row.config)
      <4>1. request' = [request EXCEPT ![a] = Watched!Idle] /\ UNCHANGED monitorsMonitor
        BY <2>2, <3>4 DEF Watched!StoreNew
      <4>2. /\ request' = [b \in Requests |-> request'[b]] /\ request'[a].phase = "idle"
            /\ \A b \in Requests : b # a => request'[b] = request[b]
        BY <1>1, <4>1 DEF Watched!Idle
      <4> QED BY <1>3, <2>1, <3>2, <4>1, <4>2
    <3> QED BY <3>3, <3>4
  <2>3. CASE /\ request[a].phase = "update" /\ Watched!Exists(request[a].checked)
             /\ Watched!StorePatch(a, m, request[a].patch) /\ Watched!Overlaps(a, m)
    <3>1. m \in Monitors /\ request[a].patch \in Watched!Patches
      BY <2>3 DEF RequestsInOrder
    <3>2. ASSUME ~overlap', Watched!Stored(monitorsMonitor, m)
          PROVE  Watched!Exists(Watched!Merge(monitorsMonitor[m], request[a].patch).config)
      <4>1. ~overlap
        BY <2>3, <3>2 DEF Watched!Overlaps
      <4> QED BY <2>3, <3>2, <4>1 DEF CheckedIsStored
    <3> QED BY <1>7, <2>1, <2>3, <3>1, <3>2
  <2> QED BY <1>9, <2>2, <2>3 DEF Watched!Validated
<1>10. ASSUME NEW a \in Requests, Watched!Refused(a) \/ Watched!Publish(a) PROVE MonitorsInv'
  <2>1. /\ request' = [request EXCEPT ![a] = Watched!Idle]
        /\ UNCHANGED <<monitorsMonitor, monitorsIntegration, overlap>>
    BY <1>10 DEF Watched!Refused, Watched!Publish
  <2>2. RowsRefer' /\ overlap' \in BOOLEAN
    BY <2>1 DEF RowsRefer, RowRefers, Watched!Stored, MonitorTypes
  <2>3. TasksRefer'
    <3>1. CASE Watched!Refused(a)
      BY <2>1, <3>1 DEF Watched!Refused, TasksRefer
    <3>2. CASE Watched!Publish(a)
      BY <1>2, <2>1, <2>2, <3>2 DEF Watched!Publish, Watched!MonitorChanged
    <3> QED BY <1>10, <3>1, <3>2
  <2>4. /\ request' = [b \in Requests |-> request'[b]] /\ request'[a].phase = "idle"
        /\ \A b \in Requests : b # a => request'[b] = request[b]
    BY <1>1, <2>1 DEF Watched!Idle
  <2> QED BY <1>3, <2>1, <2>2, <2>3, <2>4
<1>11. ASSUME NEW m \in Monitors, Watched!DeleteMonitor(m) PROVE MonitorsInv'
  <2>1. /\ monitorsMonitor' = [n \in Monitors |-> monitorsMonitor'[n]]
        /\ monitorsMonitor'[m] = Watched!Gone
        /\ \A n \in Monitors : n # m => monitorsMonitor'[n] = monitorsMonitor[n]
        /\ UNCHANGED <<monitorsIntegration, request, overlap>>
        /\ Watched!Stored(monitorsMonitor, m)
    BY <1>1, <1>11 DEF Watched!DeleteMonitor
  <2>2. Watched!Gone # Watched!NotYet
    BY DEF Watched!Gone, Watched!NotYet
  <2>3. MonitorTypes' /\ RowsRefer'
    BY <2>1 DEF MonitorTypes, RowsRefer, RowRefers, Watched!Stored
  <2>4. TasksRefer'
    BY <1>2, <1>11, <2>1, <2>3 DEF Watched!DeleteMonitor, Watched!MonitorChanged
  <2>5. RequestsInOrder'
    BY <2>1, <2>2 DEF RequestsInOrder, Creates, Watched!Stored
  <2>6. CheckedIsStored /\ Watched!PositionsAreReal => CheckedIsStored' /\ Watched!PositionsAreReal'
    BY <2>1 DEF CheckedIsStored, Watched!PositionsAreReal, Watched!Stored, RequestsInOrder
  <2> QED BY <2>1, <2>3, <2>4, <2>5, <2>6
<1>12. ASSUME NEW i \in Integrations, Watched!PatchIntegration(i) PROVE MonitorsInv'
  <2>1. PICK enabled \in BOOLEAN, chains \in (SUBSET Chains) \ {{}} :
          monitorsIntegration' = [monitorsIntegration EXCEPT ![i].enabled = enabled,
                                                             ![i].chains = chains]
    BY <1>12 DEF Watched!PatchIntegration
  <2>2. /\ monitorsIntegration' \in [Integrations -> [present : BOOLEAN, enabled : BOOLEAN,
                                                      chains : SUBSET Chains]]
        /\ \A j \in Integrations : monitorsIntegration'[j].present = monitorsIntegration[j].present
    BY <2>1 DEF MonitorTypes
  <2>3. \A m \in Monitors : Watched!Stored(monitorsMonitor, m) =>
          monitorsIntegration'[monitorsMonitor[m].config.rpc].present
    BY <2>2 DEF RowsRefer, RowRefers, Watched!Rows, Watched!Config
  <2> QED BY <1>5, <1>12, <2>2, <2>3 DEF Watched!PatchIntegration
<1>13. ASSUME NEW i \in Integrations, Watched!DeleteIntegration(i) PROVE MonitorsInv'
  <2>1. /\ monitorsIntegration' = [monitorsIntegration EXCEPT ![i].present = FALSE,
                                                              ![i].enabled = FALSE]
        /\ \A m \in Monitors : Watched!Stored(monitorsMonitor, m) =>
             monitorsMonitor[m].config.rpc # i
    BY <1>13 DEF Watched!DeleteIntegration
  <2>2. /\ monitorsIntegration' \in [Integrations -> [present : BOOLEAN, enabled : BOOLEAN,
                                                      chains : SUBSET Chains]]
        /\ \A j \in Integrations : j # i => monitorsIntegration'[j] = monitorsIntegration[j]
    BY <2>1 DEF MonitorTypes
  <2>3. \A m \in Monitors : Watched!Stored(monitorsMonitor, m) =>
          monitorsIntegration'[monitorsMonitor[m].config.rpc].present
    BY <2>1, <2>2 DEF RowsRefer, RowRefers, Watched!Rows, Watched!Config
  <2> QED BY <1>5, <1>13, <2>2, <2>3 DEF Watched!DeleteIntegration
<1>14. ASSUME NEW i \in Integrations, Watched!TestIntegration(i) PROVE MonitorsInv'
  <2>1. UNCHANGED <<monitorsIntegration, monitorsMonitor, request, overlap>>
        /\ Watched!IntegrationChanged
    BY <1>14 DEF Watched!TestIntegration
  <2> QED BY <1>5, <2>1 DEF MonitorTypes, RowsRefer, RowRefers
<1>15. ASSUME Watched!Restart PROVE MonitorsInv'
  <2>1. /\ request' = [a \in Requests |-> Watched!Idle] /\ Watched!MonitorChanged
        /\ UNCHANGED <<monitorsIntegration, monitorsMonitor, overlap>>
    BY <1>15 DEF Watched!Restart
  <2>2. \A a \in Requests : request'[a].phase = "idle"
    BY <2>1 DEF Watched!Idle
  <2>3. RequestsInOrder' /\ CheckedIsStored'
    BY <2>2 DEF RequestsInOrder, CheckedIsStored
  <2>4. MonitorTypes' /\ RowsRefer' /\ (Watched!PositionsAreReal => Watched!PositionsAreReal')
    BY <2>1 DEF MonitorTypes, RowsRefer, RowRefers, Watched!PositionsAreReal, Watched!Stored
  <2>5. TasksRefer'
    BY <1>2, <2>1, <2>4 DEF Watched!MonitorChanged
  <2> QED BY <2>1, <2>3, <2>4, <2>5
<1>16. ASSUME UNCHANGED (Watched!vars) PROVE MonitorsInv'
  <2>1. UNCHANGED <<monitorsIntegration, monitorsMonitor, request, tasks, overlap>>
    BY <1>16 DEF Watched!vars
  <2>2. MonitorTypes' /\ RowsRefer' /\ TasksRefer' /\ RequestsInOrder'
    BY <2>1 DEF MonitorTypes, RowsRefer, RowRefers, TasksRefer, RequestsInOrder, Creates,
                Watched!Stored
  <2>3. CheckedIsStored /\ Watched!PositionsAreReal => CheckedIsStored' /\ Watched!PositionsAreReal'
    BY <2>1 DEF CheckedIsStored, Watched!PositionsAreReal, Watched!Stored
  <2> QED BY <2>1, <2>2, <2>3
<1> QED
  BY <1>6, <1>8, <1>9, <1>10, <1>11, <1>12, <1>13, <1>14, <1>15, <1>16 DEF Watched!Next

LEMMA MonitorsInvAlways == PartsSpec => [](part = "monitors" => MonitorsInv)
<1> DEFINE Inv == part = "monitors" => MonitorsInv
<1>1. PartsInit => Inv
  BY MonitorsInit DEF PartsInit
<1>2. Inv /\ [PartsNext]_partVars => Inv'
  <2> SUFFICES ASSUME Inv, [PartsNext]_partVars, part' = "monitors" PROVE MonitorsInv'
    OBVIOUS
  <2>1. part = "monitors" /\ [Watched!Next]_(Watched!vars)
    BY DEF PartsNext, partVars, monitorsVars, Watched!vars
  <2> QED BY <2>1, MonitorsStep
<1> QED
  BY <1>1, <1>2, PTL DEF PartsSpec

\* A stored monitor and what the coordinators watch refer to an integration that is there,
\* whatever is deleted while a request waits for the RPC or to be published
\* (monitor-repository.ts, app.ts).
THEOREM ReferencesExistAlways == PartsSpec => []ReferencesExist
<1>1. (part = "monitors" => MonitorsInv) => ReferencesExist
  BY DEF ReferencesExist, Watched!ReferencesExist, MonitorsInv, RowsRefer, RowRefers, TasksRefer
<1> QED
  BY <1>1, MonitorsInvAlways, PTL

\* monitor-service.ts: a position that is stored was found, unless two changes of its monitor
\* overlapped.
THEOREM OnlyOverlapsMixAlways == PartsSpec => []OnlyOverlapsMix
<1>1. (part = "monitors" => MonitorsInv) => OnlyOverlapsMix
  BY DEF OnlyOverlapsMix, Watched!OnlyOverlapsMix, MonitorsInv
<1> QED
  BY <1>1, MonitorsInvAlways, PTL
=============================================================================
