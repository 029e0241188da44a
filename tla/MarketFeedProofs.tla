---------------------------- MODULE MarketFeedProofs ----------------------------
(***************************************************************************)
(* The safety of MarketFeed for every set of endpoints and streams.        *)
(* FeedInv says what holds of a single feed between two events; each event *)
(* and each call keeps it (lemmas), and Inv ties the feeds to the          *)
(* coordinator: the current manager's has the streams of the plan, the     *)
(* others are disposed or not built yet.                                   *)
(***************************************************************************)
EXTENDS MarketFeed, TLAPS

FeedInv(f) ==
  /\ f.attempts <= MaxAttempts
  /\ f.socket = "open" => f.subscribed = f.desired /\ "rotation" \in f.timers
  /\ f.socket = "connecting" => f.timers = {"connection"}
  /\ f.socket = "none" => f.timers = {}
  /\ f.socket \in {"connecting", "open"} => f.desired # {}
  /\ f.reconnect # "none" <=> (f.socket = "none" /\ f.desired # {})
  /\ f.disposed => f.desired = {} /\ f.timers = {}

FeedOK(f) == f \in Feed /\ FeedInv(f)

\* What an event may make of a feed.
Event(f, g) ==
  /\ FeedOK(g) /\ BacksOff(f, g)
  /\ g.desired = f.desired /\ g.disposed = f.disposed

\* The feeds belong to the plan.
Belongs ==
  /\ manager # 0 <=> plan # None
  /\ \A i \in FeedIds :
       /\ i = manager => ~feeds[i].disposed /\ feeds[i].desired = plan.streams
       /\ i <= made /\ i # manager => feeds[i].disposed
       /\ i > made => feeds[i] = NewFeed

Inv ==
  /\ TypeOK
  /\ \A i \in FeedIds : FeedInv(feeds[i])
  /\ Belongs

---------------------------------------------------------------------------
(* One feed *)

LEMMA NewFeedOK == FeedOK(NewFeed)
BY FeedBounds DEF FeedOK, FeedInv, NewFeed, Feed, Timers

\* Only the reconnect, if none is scheduled, and the count of failures change.
LEMMA Schedule ==
  ASSUME NEW f \in Feed, NEW delay \in {"now", "backoff"}, f.attempts <= MaxAttempts,
         NEW g, g = ScheduleReconnect(f, delay)
  PROVE  /\ g \in Feed /\ g.attempts <= MaxAttempts
         /\ g.desired = f.desired /\ g.subscribed = f.subscribed /\ g.socket = f.socket
         /\ g.timers = f.timers /\ g.planned = f.planned /\ g.disposed = f.disposed
         /\ f.disposed \/ f.desired = {} \/ f.reconnect # "none" => g = f
         /\ ~f.disposed /\ f.desired # {} /\ f.reconnect = "none" =>
              /\ g.reconnect = delay
              /\ delay = "backoff" => g.attempts > f.attempts \/ g.attempts = MaxAttempts
         /\ g.attempts >= f.attempts
<1>1. CASE f.disposed \/ f.desired = {} \/ f.reconnect # "none"
  BY <1>1 DEF ScheduleReconnect, Feed
<1>2. CASE ~(f.disposed \/ f.desired = {} \/ f.reconnect # "none")
  <2> DEFINE attempts == IF delay = "backoff" /\ f.attempts < MaxAttempts
                         THEN f.attempts + 1 ELSE f.attempts
  <2>1. attempts \in Nat /\ attempts <= MaxAttempts /\ attempts >= f.attempts
    BY FeedBounds DEF Feed
  <2>2. delay = "backoff" => attempts > f.attempts \/ attempts = MaxAttempts
    BY FeedBounds DEF Feed
  <2>3. g = [f EXCEPT !.reconnect = delay, !.attempts = attempts]
    BY <1>2 DEF ScheduleReconnect, Feed
  <2> HIDE DEF attempts
  <2> QED
    BY <1>2, <2>1, <2>2, <2>3 DEF Feed
<1> QED
  BY <1>1, <1>2

\* A feed that opens, or whose subscription cannot be sent.
LEMMA OpenEvent ==
  ASSUME NEW f, FeedOK(f), f.socket = "connecting", NEW g \in HandleOpen(f)
  PROVE  Event(f, g)
<1> DEFINE h == [f EXCEPT !.reconnect = "none", !.timers = {"rotation", "stable"}]
<1>1. /\ h \in Feed /\ h.reconnect = "none" /\ h.timers = {"rotation", "stable"}
      /\ h.desired = f.desired /\ h.attempts = f.attempts /\ h.disposed = f.disposed
  BY DEF FeedOK, Feed, Timers
<1>2. \/ g = [h EXCEPT !.socket = "open", !.subscribed = f.desired]
      \/ g = [h EXCEPT !.socket = "closing", !.subscribed = {}]
  BY DEF HandleOpen
<1>3. f.desired \in SUBSET Streams /\ f.desired # {} /\ ~f.disposed /\ f.attempts <= MaxAttempts
  BY DEF FeedOK, FeedInv, Feed
<1> HIDE DEF h
<1>4. /\ g \in Feed /\ g.reconnect = "none" /\ g.timers = {"rotation", "stable"}
      /\ g.desired = f.desired /\ g.attempts = f.attempts /\ g.disposed = f.disposed
      /\ (g.socket = "open" /\ g.subscribed = f.desired) \/ g.socket = "closing"
  BY <1>1, <1>2, <1>3 DEF Feed
<1>5. FeedInv(g)
  BY <1>3, <1>4, FeedBounds DEF FeedInv, Feed
<1>6. BacksOff(f, g)
  BY <1>4 DEF FeedOK, Feed, BacksOff
<1> QED
  BY <1>4, <1>5, <1>6 DEF Event, FeedOK

LEMMA ErrorEvent ==
  ASSUME NEW f, FeedOK(f), NEW g, g = HandleError(f)
  PROVE  Event(f, g)
<1>1. g \in Feed
  BY DEF FeedOK, Feed, Timers, HandleError, CloseSocket
<1>2. FeedInv(g)
  BY FeedBounds DEF FeedOK, FeedInv, Feed, Timers, HandleError, CloseSocket
<1>3. BacksOff(f, g) /\ g.desired = f.desired /\ g.disposed = f.disposed
  BY FeedBounds DEF FeedOK, FeedInv, Feed, Timers, BacksOff, HandleError, CloseSocket
<1> QED
  BY <1>1, <1>2, <1>3 DEF Event, FeedOK

LEMMA BrokenEvent ==
  ASSUME NEW f, FeedOK(f), f.socket \in {"open", "closing"},
         NEW g, g = [HandleError(f) EXCEPT !.socket = "closing"]
  PROVE  Event(f, g)
<1>1. g \in Feed
  BY DEF FeedOK, Feed, Timers, HandleError, CloseSocket
<1>2. FeedInv(g)
  BY FeedBounds DEF FeedOK, FeedInv, Feed, Timers, HandleError, CloseSocket
<1>3. BacksOff(f, g) /\ g.desired = f.desired /\ g.disposed = f.disposed
  BY FeedBounds DEF FeedOK, FeedInv, Feed, Timers, BacksOff, HandleError, CloseSocket
<1> QED
  BY <1>1, <1>2, <1>3 DEF Event, FeedOK

\* A lost socket leaves a reconnect behind.
LEMMA CloseEvent ==
  ASSUME NEW f, FeedOK(f), f.socket # "none", NEW g, g = HandleClose(f)
  PROVE  Event(f, g)
<1>1. CASE f.disposed
  <2>1. g = [f EXCEPT !.socket = "none"]
    BY <1>1 DEF HandleClose
  <2>2. /\ g \in Feed /\ g.disposed = f.disposed /\ g.desired = f.desired /\ g.socket = "none"
        /\ g.reconnect = f.reconnect /\ g.timers = f.timers /\ g.attempts = f.attempts
    BY <2>1 DEF FeedOK, Feed
  <2>3. f.desired = {} /\ f.timers = {} /\ f.reconnect = "none" /\ f.attempts <= MaxAttempts
    BY <1>1 DEF FeedOK, FeedInv
  <2>4. FeedInv(g)
    BY <2>2, <2>3 DEF FeedInv
  <2>5. BacksOff(f, g)
    BY <2>2, <2>3 DEF BacksOff, FeedOK, Feed
  <2> QED
    BY <2>2, <2>4, <2>5 DEF FeedOK, Event
<1>2. CASE ~f.disposed
  <2> DEFINE h == Disconnected(f)
             delay == IF f.planned THEN "now" ELSE "backoff"
  <2>1. /\ h \in Feed /\ h.socket = "none" /\ h.subscribed = {} /\ h.timers = {}
        /\ h.desired = f.desired /\ h.reconnect = "none" /\ h.attempts = f.attempts
        /\ h.planned = f.planned /\ ~h.disposed /\ h.attempts <= MaxAttempts
    BY <1>2 DEF FeedOK, FeedInv, Feed, Disconnected
  <2>2. g = ScheduleReconnect(h, delay)
    BY <1>2, <2>1 DEF HandleClose, Reconnect
  <2> HIDE DEF h
  <2>3. /\ g \in Feed /\ g.attempts <= MaxAttempts
        /\ g.desired = h.desired /\ g.socket = h.socket
        /\ g.timers = h.timers /\ g.disposed = h.disposed
        /\ h.desired = {} => g = h
        /\ h.desired # {} =>
              /\ g.reconnect = delay
              /\ delay = "backoff" => g.attempts > h.attempts \/ g.attempts = MaxAttempts
        /\ g.attempts >= h.attempts
    BY <2>1, <2>2, Schedule
  <2>4. FeedInv(g)
    BY <1>2, <2>1, <2>3 DEF FeedInv
  <2>5. BacksOff(f, g)
    BY <2>1, <2>3, FeedBounds DEF FeedOK, Feed, BacksOff
  <2>6. g.disposed = f.disposed
    BY <1>2, <2>1, <2>3 DEF FeedOK, Feed
  <2> QED
    BY <2>1, <2>3, <2>4, <2>5, <2>6 DEF Event, FeedOK
<1> QED
  BY <1>1, <1>2 DEF FeedOK, Feed

\* ws reports a refused connection as an error and a close.
LEMMA FailureEvent ==
  ASSUME NEW f, FeedOK(f), f.socket = "connecting", NEW g, g = HandleClose(HandleError(f))
  PROVE  Event(f, g)
<1> DEFINE h == HandleError(f)
<1>1. Event(f, h)
  BY ErrorEvent
<1>2. h.socket = "closing" /\ h.planned = f.planned /\ h.attempts = f.attempts
  BY DEF FeedOK, FeedInv, Feed, HandleError, CloseSocket
<1> HIDE DEF h
<1>3. Event(h, g)
  <2>1. FeedOK(h) /\ h.socket # "none" /\ g = HandleClose(h)
    BY <1>1, <1>2 DEF Event, h
  <2> QED BY <2>1, CloseEvent
<1>4. g.attempts >= h.attempts
  <2>1. h.timers = {}
    BY DEF FeedOK, FeedInv, Feed, HandleError, CloseSocket, h
  <2> QED
    BY <1>1, <1>3, <2>1 DEF Event, BacksOff, FeedOK, Feed
<1> QED
  BY <1>1, <1>2, <1>3, <1>4 DEF Event, BacksOff, FeedOK, Feed

\* From no socket: a socket that connects, or a failure to come back from.
LEMMA ConnectsOK ==
  ASSUME NEW f \in Feed, f.attempts <= MaxAttempts, ~f.disposed, f.socket = "none",
         f.desired # {}, f.reconnect = "none", f.timers = {}, NEW g \in Connects(f)
  PROVE  FeedOK(g) /\ g.desired = f.desired /\ ~g.disposed /\ g.attempts >= f.attempts
<1>1. CASE g = [f EXCEPT !.planned = FALSE, !.timers = @ \cup {"connection"},
                         !.socket = "connecting"]
  <2>1. /\ g \in Feed /\ g.desired = f.desired /\ ~g.disposed /\ g.attempts = f.attempts
        /\ g.socket = "connecting" /\ g.timers = {"connection"} /\ g.reconnect = "none"
    BY <1>1 DEF Feed, Timers
  <2> QED
    BY <2>1, FeedBounds DEF FeedOK, FeedInv, Feed
<1>2. CASE g = ScheduleReconnect([f EXCEPT !.planned = FALSE], "backoff")
  <2> DEFINE h == [f EXCEPT !.planned = FALSE]
  <2>1. /\ h \in Feed /\ h.attempts = f.attempts /\ h.desired = f.desired /\ ~h.disposed
        /\ h.socket = "none" /\ h.timers = {} /\ h.reconnect = "none"
    BY DEF Feed
  <2> HIDE DEF h
  <2>2. g = ScheduleReconnect(h, "backoff")
    BY <1>2 DEF h
  <2>3. /\ g \in Feed /\ g.attempts <= MaxAttempts /\ g.reconnect = "backoff"
        /\ g.desired = f.desired /\ g.socket = "none" /\ g.timers = {} /\ ~g.disposed
        /\ g.attempts >= f.attempts
    BY <2>1, <2>2, Schedule
  <2> QED
    BY <2>3 DEF FeedOK, FeedInv
<1> QED
  BY <1>1, <1>2 DEF Connects

LEMMA ReconnectEvent ==
  ASSUME NEW f, FeedOK(f), f.reconnect # "none",
         NEW g \in Connects([f EXCEPT !.reconnect = "none"])
  PROVE  Event(f, g)
<1> DEFINE h == [f EXCEPT !.reconnect = "none"]
<1>1. /\ h \in Feed /\ h.attempts = f.attempts /\ h.desired = f.desired /\ ~h.disposed
      /\ h.socket = "none" /\ h.timers = {} /\ h.reconnect = "none" /\ h.desired # {}
      /\ ~f.disposed /\ h.attempts <= MaxAttempts /\ f.socket = "none" /\ h.attempts \in Nat
  BY DEF FeedOK, FeedInv, Feed
<1> HIDE DEF h
<1>2. FeedOK(g) /\ g.desired = h.desired /\ ~g.disposed /\ g.attempts >= h.attempts
  <2>1. g \in Connects(h)
    BY DEF h
  <2> QED BY <1>1, <2>1, ConnectsOK
<1>3. BacksOff(f, g)
  BY <1>1, <1>2 DEF FeedOK, Feed, BacksOff
<1>4. g.disposed = f.disposed
  BY <1>1, <1>2 DEF FeedOK, Feed
<1> QED
  BY <1>1, <1>2, <1>3, <1>4 DEF Event

LEMMA RotateEvent ==
  ASSUME NEW f, FeedOK(f), "rotation" \in f.timers,
         NEW g, g = CloseSocket([f EXCEPT !.timers = @ \ {"rotation"}, !.planned = TRUE])
  PROVE  Event(f, g)
<1>1. g \in Feed
  BY DEF FeedOK, Feed, Timers, CloseSocket
<1>2. FeedInv(g)
  BY FeedBounds DEF FeedOK, FeedInv, Feed, Timers, CloseSocket
<1>3. BacksOff(f, g) /\ g.desired = f.desired /\ g.disposed = f.disposed
  BY FeedBounds DEF FeedOK, FeedInv, Feed, Timers, BacksOff, CloseSocket
<1> QED
  BY <1>1, <1>2, <1>3 DEF Event, FeedOK

LEMMA StableEvent ==
  ASSUME NEW f, FeedOK(f), "stable" \in f.timers,
         NEW g, g = [f EXCEPT !.timers = @ \ {"stable"}, !.attempts = 0]
  PROVE  Event(f, g)
<1>1. g \in Feed
  BY DEF FeedOK, Feed, Timers
<1>2. FeedInv(g)
  BY FeedBounds DEF FeedOK, FeedInv, Feed, Timers
<1>3. BacksOff(f, g) /\ g.desired = f.desired /\ g.disposed = f.disposed
  BY FeedBounds DEF FeedOK, FeedInv, Feed, Timers, BacksOff
<1> QED
  BY <1>1, <1>2, <1>3 DEF Event, FeedOK

\* The two calls of the coordinator.
LEMMA SetStreamsOK ==
  ASSUME NEW f, FeedOK(f), ~f.disposed, NEW next \in SUBSET Streams,
         NEW g \in SetStreams(f, next)
  PROVE  FeedOK(g) /\ BacksOff(f, g) /\ g.desired = next /\ ~g.disposed
<1> DEFINE h == [f EXCEPT !.desired = next]
<1>1. /\ f \in Feed /\ h \in Feed /\ h.desired = next /\ ~h.disposed /\ h.attempts = f.attempts
      /\ h.socket = f.socket /\ h.timers = f.timers /\ h.reconnect = f.reconnect
      /\ h.subscribed = f.subscribed /\ h.planned = f.planned
  BY DEF FeedOK, Feed
<1>2. FeedInv(f)
  BY DEF FeedOK
<1> HIDE DEF h
<1>3. CASE next = {}
  <2>1. g = CloseSocket([h EXCEPT !.reconnect = "none", !.planned = @ \/ f.socket # "none"])
    BY <1>3 DEF SetStreams, h
  <2>2. /\ g \in Feed /\ g.desired = next /\ ~g.disposed /\ g.attempts = f.attempts
        /\ g.timers = f.timers /\ g.reconnect = "none"
        /\ g.socket = IF f.socket = "none" THEN "none" ELSE "closing"
    BY <1>1, <2>1 DEF CloseSocket, Feed
  <2> QED
    BY <1>1, <1>2, <1>3, <2>2 DEF FeedOK, FeedInv, Feed, BacksOff
<1>4. CASE next # {} /\ f.socket = "none" /\ f.reconnect = "none"
  <2>1. g \in Connects(h)
    BY <1>4 DEF SetStreams, h
  <2>2. FeedOK(g) /\ g.desired = next /\ ~g.disposed /\ g.attempts >= f.attempts
    BY <1>1, <1>2, <1>4, <2>1, ConnectsOK DEF FeedInv
  <2> QED
    BY <1>1, <1>4, <2>2 DEF FeedOK, Feed, BacksOff
<1>5. CASE /\ next # {} /\ f.socket # "open"
           /\ ~(f.socket = "none" /\ f.reconnect = "none")
  <2>1. g = h
    BY <1>1, <1>5 DEF SetStreams, h, Feed
  <2> QED
    BY <1>1, <1>2, <1>5, <2>1 DEF FeedOK, FeedInv, Feed, BacksOff
<1>6. CASE next # {} /\ f.socket = "open"
  <2>1. g = Resubscribed(f, next) \/ g = CloseSocket(h)
    BY <1>6 DEF SetStreams, h
  <2>2. CASE g = Resubscribed(f, next)
    <3>1. /\ g \in Feed /\ g.desired = next /\ g.subscribed = next /\ ~g.disposed
          /\ g.attempts = f.attempts /\ g.socket = "open" /\ g.timers = f.timers
          /\ g.reconnect = f.reconnect
      BY <1>1, <1>6, <2>2 DEF Resubscribed, Feed
    <3> QED
      BY <1>1, <1>2, <1>6, <3>1 DEF FeedOK, FeedInv, Feed, BacksOff
  <2>3. CASE g = CloseSocket(h)
    BY <1>1, <1>2, <1>6, <2>3 DEF CloseSocket, FeedOK, FeedInv, Feed, BacksOff
  <2> QED
    BY <2>1, <2>2, <2>3
<1> QED
  BY <1>3, <1>4, <1>5, <1>6

LEMMA DisposeOK ==
  ASSUME NEW f, FeedOK(f), NEW g, g = Dispose(f)
  PROVE  FeedOK(g) /\ BacksOff(f, g) /\ g.disposed
<1> DEFINE h == [f EXCEPT
    !.disposed = TRUE, !.planned = TRUE, !.desired = {}, !.subscribed = {},
    !.reconnect = "none", !.timers = {}]
<1>1. /\ h \in Feed /\ h.disposed /\ h.desired = {} /\ h.reconnect = "none" /\ h.timers = {}
      /\ h.attempts = f.attempts /\ h.socket = f.socket
  BY DEF FeedOK, Feed
<1>2. g = CloseSocket(h)
  BY DEF Dispose
<1> HIDE DEF h
<1>3. /\ g \in Feed /\ g.disposed /\ g.desired = {} /\ g.reconnect = "none" /\ g.timers = {}
      /\ g.attempts = f.attempts /\ g.socket \in {"none", "closing"}
  BY <1>1, <1>2 DEF CloseSocket, Feed
<1> QED
  BY <1>3 DEF FeedOK, FeedInv, Feed, BacksOff

---------------------------------------------------------------------------
(* All feeds *)

AllBackOff == \A j \in FeedIds : BacksOff(feeds[j], feeds'[j])

LEMMA Unchanged ==
  ASSUME NEW f, FeedOK(f)
  PROVE  BacksOff(f, f)
BY DEF FeedOK, Feed, BacksOff

LEMMA Typing ==
  ASSUME Inv
  PROVE  /\ \A i \in FeedIds : FeedOK(feeds[i])
         /\ made \in Nat /\ manager \in Nat /\ MaxFeeds \in Nat
         /\ manager # 0 => manager \in FeedIds /\ plan \in Plan /\ plan.streams \in SUBSET Streams
BY FeedBounds DEF Inv, TypeOK, FeedOK, FeedIds, Belongs, Plan

LEMMA InitInv == Init => Inv
<1> SUFFICES ASSUME Init PROVE Inv
  OBVIOUS
<1>1. \A i \in FeedIds : feeds[i] = NewFeed /\ FeedOK(feeds[i])
  BY NewFeedOK DEF Init
<1>2. TypeOK
  <2>1. NewFeed \in Feed
    BY NewFeedOK DEF FeedOK
  <2>2. feeds \in [FeedIds -> Feed]
    BY <2>1 DEF Init
  <2>3. \A i \in FeedIds : feeds[i].attempts <= MaxAttempts
    BY <1>1 DEF FeedOK, FeedInv
  <2>4. plan \in Plan \cup {None} /\ closed \in BOOLEAN
    BY DEF Init
  <2>5. manager \in 0..made /\ made \in 0..MaxFeeds
    BY FeedBounds DEF Init
  <2> QED
    BY <2>2, <2>3, <2>4, <2>5 DEF TypeOK
<1>3. Belongs
  BY <1>1, NoneIsNoPlan DEF Init, Belongs, FeedIds
<1> QED
  BY <1>1, <1>2, <1>3 DEF Inv, FeedOK

\* An event touches one feed that has been built.
LEMMA EventStep ==
  ASSUME Inv, NEW i \in FeedIds, NEW g, Event(feeds[i], g), feeds[i] # NewFeed,
         feeds' = [feeds EXCEPT ![i] = g], UNCHANGED <<plan, manager, made, closed>>
  PROVE  Inv' /\ AllBackOff
<1>1. FeedOK(g) /\ g.desired = feeds[i].desired /\ g.disposed = feeds[i].disposed
  BY DEF Event
<1>2. \A j \in FeedIds : feeds'[j] = IF j = i THEN g ELSE feeds[j]
  BY DEF Inv, TypeOK
<1>3. \A j \in FeedIds : FeedOK(feeds'[j])
  BY <1>1, <1>2, Typing
<1>4. TypeOK'
  BY <1>1, <1>3 DEF Inv, TypeOK, FeedOK, FeedInv
<1>5. Belongs'
  BY <1>1, <1>2 DEF Inv, Belongs
<1>6. AllBackOff
  BY <1>2, Typing, Unchanged DEF AllBackOff, Event
<1> QED
  BY <1>3, <1>4, <1>5, <1>6 DEF Inv, FeedOK

\* The manager is dropped, by reconcile or by close.
LEMMA DropStep ==
  ASSUME Inv, plan' = None, manager' = 0, feeds' = Replaced(manager), made' = made,
         closed' \in BOOLEAN
  PROVE  Inv' /\ AllBackOff
<1>1. \A j \in FeedIds : feeds'[j] = IF j = manager THEN Dispose(feeds[j]) ELSE feeds[j]
  BY Typing DEF Replaced, Inv, TypeOK, FeedIds
<1>2. \A j \in FeedIds :
        FeedOK(feeds'[j]) /\ BacksOff(feeds[j], feeds'[j]) /\ (j = manager => feeds'[j].disposed)
  BY <1>1, Typing, DisposeOK, Unchanged
<1>3. feeds' \in [FeedIds -> Feed]
  <2>1. feeds \in [FeedIds -> Feed]
    BY DEF Inv, TypeOK
  <2>2. DOMAIN feeds' = FeedIds /\ feeds' = [j \in FeedIds |-> feeds'[j]]
    BY <2>1 DEF Replaced
  <2> QED BY <1>2, <2>2 DEF FeedOK
<1>4. TypeOK'
  BY <1>2, <1>3, Typing DEF Inv, TypeOK, FeedOK, FeedInv
<1>5. Belongs'
  <2>1. \A j \in FeedIds : j > made => j # manager
    BY Typing DEF Inv, TypeOK, FeedIds
  <2> QED
    BY <1>1, <1>2, <2>1, Typing DEF Inv, Belongs, FeedIds
<1> QED
  BY <1>2, <1>4, <1>5 DEF Inv, FeedOK, AllBackOff

\* The same endpoint: the manager's feed is given the streams.
LEMMA SameStep ==
  ASSUME Inv, NEW p \in Plan, plan' = p, manager # 0, plan.url = p.url,
         NEW f \in SetStreams(feeds[manager], p.streams), feeds' = [feeds EXCEPT ![manager] = f],
         UNCHANGED <<manager, made, closed>>
  PROVE  Inv' /\ AllBackOff
<1>1. FeedOK(feeds[manager]) /\ ~feeds[manager].disposed /\ manager \in FeedIds
  BY Typing DEF Inv, Belongs
<1>2. p.streams \in SUBSET Streams /\ p # None
  BY NoneIsNoPlan DEF Plan
<1>3. FeedOK(f) /\ BacksOff(feeds[manager], f) /\ f.desired = p.streams /\ ~f.disposed
  BY <1>1, <1>2, SetStreamsOK
<1>4. \A j \in FeedIds : feeds'[j] = IF j = manager THEN f ELSE feeds[j]
  BY <1>1 DEF Inv, TypeOK
<1>5. \A j \in FeedIds : FeedOK(feeds'[j]) /\ BacksOff(feeds[j], feeds'[j])
  BY <1>3, <1>4, Typing, Unchanged
<1>6. TypeOK'
  BY <1>3, <1>5 DEF Inv, TypeOK, FeedOK, FeedInv
<1>7. Belongs'
  <2>1. manager <= made /\ made \in Nat
    BY DEF Inv, TypeOK
  <2> QED
    BY <1>1, <1>2, <1>3, <1>4, <2>1, Typing DEF Inv, Belongs, FeedIds
<1> QED
  BY <1>5, <1>6, <1>7 DEF Inv, FeedOK, AllBackOff

\* Another endpoint, or the first: a new feed, and the old one is disposed.
LEMMA ReplaceStep ==
  ASSUME Inv, NEW p \in Plan, plan' = p, made < MaxFeeds, made' = made + 1, manager' = made',
         NEW f \in SetStreams(NewFeed, p.streams), feeds' = [Replaced(manager) EXCEPT ![made'] = f],
         closed' = closed
  PROVE  Inv' /\ AllBackOff
<1>1. p.streams \in SUBSET Streams /\ p # None
  BY NoneIsNoPlan DEF Plan
<1>2. FeedOK(f) /\ BacksOff(NewFeed, f) /\ f.desired = p.streams /\ ~f.disposed
  BY <1>1, NewFeedOK, SetStreamsOK DEF NewFeed
<1>3. /\ made' \in FeedIds /\ made' > made /\ made' \in Nat /\ manager <= made
      /\ feeds[made'] = NewFeed
  BY Typing DEF Inv, TypeOK, FeedIds, Belongs
<1>4. Replaced(manager) \in [FeedIds -> {Dispose(feeds[j]) : j \in FeedIds} \cup {feeds[j] : j \in FeedIds}]
  BY DEF Replaced, Inv, TypeOK
<1>5. \A j \in FeedIds :
        feeds'[j] = IF j = made' THEN f ELSE IF j = manager THEN Dispose(feeds[j]) ELSE feeds[j]
  BY <1>3, <1>4, Typing DEF Replaced, Inv, TypeOK, FeedIds
<1>6. \A j \in FeedIds :
        FeedOK(feeds'[j]) /\ BacksOff(feeds[j], feeds'[j])
          /\ (j = manager /\ j # made' => feeds'[j].disposed)
  BY <1>2, <1>3, <1>5, Typing, DisposeOK, Unchanged
<1>7. feeds' \in [FeedIds -> Feed]
  <2>1. DOMAIN feeds' = FeedIds /\ feeds' = [j \in FeedIds |-> feeds'[j]]
    BY <1>4
  <2> QED BY <1>6, <2>1 DEF FeedOK
<1>8. TypeOK'
  BY <1>3, <1>6, <1>7, Typing DEF Inv, TypeOK, FeedOK, FeedInv
<1>9. Belongs'
  BY <1>1, <1>2, <1>3, <1>5, <1>6, Typing DEF Inv, Belongs, FeedIds
<1> QED
  BY <1>6, <1>8, <1>9 DEF Inv, FeedOK, AllBackOff

LEMMA NextStep == Inv /\ [Next]_vars => Inv' /\ AllBackOff
<1> SUFFICES ASSUME Inv, [Next]_vars PROVE Inv' /\ AllBackOff
  OBVIOUS
<1>1. CASE UNCHANGED vars
  <2>1. AllBackOff
    BY <1>1, Typing, Unchanged DEF vars, AllBackOff
  <2> QED
    BY <1>1, <2>1 DEF vars, Inv, TypeOK, Belongs
<1>2. ASSUME NEW p \in Plan, Reconcile(p) PROVE Inv' /\ AllBackOff
  <2>1. CASE manager # 0 /\ plan.url = p.url
    BY <1>2, <2>1, SameStep DEF Reconcile
  <2>2. CASE ~(manager # 0 /\ plan.url = p.url)
    BY <1>2, <2>2, ReplaceStep DEF Reconcile
  <2> QED
    BY <2>1, <2>2
<1>3. CASE ReconcileNone
  BY <1>3, DropStep DEF ReconcileNone, Inv, TypeOK
<1>4. CASE Close
  BY <1>4, DropStep DEF Close
<1>5. ASSUME NEW i \in FeedIds, Opens(i) PROVE Inv' /\ AllBackOff
  <2>1. PICK g \in HandleOpen(feeds[i]) : feeds' = [feeds EXCEPT ![i] = g]
    BY <1>5 DEF Opens, Becomes
  <2>2. feeds[i].socket = "connecting" /\ UNCHANGED <<plan, manager, made, closed>>
    BY <1>5 DEF Opens, Becomes
  <2>3. Event(feeds[i], g)
    BY <2>1, <2>2, Typing, OpenEvent
  <2>4. feeds[i] # NewFeed
    BY <2>2 DEF NewFeed
  <2> QED
    BY <2>1, <2>2, <2>3, <2>4, EventStep
<1>6. ASSUME NEW i \in FeedIds, ConnectionFails(i) PROVE Inv' /\ AllBackOff
  <2> DEFINE g == HandleClose(HandleError(feeds[i]))
  <2>1. feeds[i].socket = "connecting" /\ feeds' = [feeds EXCEPT ![i] = g] /\ UNCHANGED <<plan, manager, made, closed>>
    BY <1>6 DEF ConnectionFails, Becomes
  <2>2. Event(feeds[i], g)
    BY <2>1, Typing, FailureEvent
  <2>3. feeds[i] # NewFeed
    BY <2>1 DEF NewFeed
  <2> HIDE DEF g
  <2> QED
    BY <2>1, <2>2, <2>3, EventStep
<1>7. ASSUME NEW i \in FeedIds, SocketErrs(i) PROVE Inv' /\ AllBackOff
  <2> DEFINE g == [HandleError(feeds[i]) EXCEPT !.socket = "closing"]
  <2>1. feeds[i].socket \in {"open", "closing"} /\ feeds' = [feeds EXCEPT ![i] = g] /\ UNCHANGED <<plan, manager, made, closed>>
    BY <1>7 DEF SocketErrs, Becomes
  <2>2. Event(feeds[i], g)
    BY <2>1, Typing, BrokenEvent
  <2>3. feeds[i] # NewFeed
    BY <2>1 DEF NewFeed
  <2> HIDE DEF g
  <2> QED
    BY <2>1, <2>2, <2>3, EventStep
<1>8. ASSUME NEW i \in FeedIds, SocketCloses(i) PROVE Inv' /\ AllBackOff
  <2> DEFINE g == HandleClose(feeds[i])
  <2>1. feeds[i].socket \in {"open", "closing"} /\ feeds' = [feeds EXCEPT ![i] = g] /\ UNCHANGED <<plan, manager, made, closed>>
    BY <1>8 DEF SocketCloses, Becomes
  <2>2. Event(feeds[i], g)
    BY <2>1, Typing, CloseEvent
  <2>3. feeds[i] # NewFeed
    BY <2>1 DEF NewFeed
  <2> HIDE DEF g
  <2> QED
    BY <2>1, <2>2, <2>3, EventStep
<1>9. ASSUME NEW i \in FeedIds, ConnectionTimesOut(i) PROVE Inv' /\ AllBackOff
  <2> DEFINE g == HandleError(feeds[i])
  <2>1. "connection" \in feeds[i].timers /\ feeds' = [feeds EXCEPT ![i] = g] /\ UNCHANGED <<plan, manager, made, closed>>
    BY <1>9 DEF ConnectionTimesOut, Becomes
  <2>2. Event(feeds[i], g)
    BY <2>1, Typing, ErrorEvent
  <2>3. feeds[i] # NewFeed
    BY <2>1 DEF NewFeed
  <2> HIDE DEF g
  <2> QED
    BY <2>1, <2>2, <2>3, EventStep
<1>10. ASSUME NEW i \in FeedIds, ReconnectFires(i) PROVE Inv' /\ AllBackOff
  <2>1. PICK g \in Connects([feeds[i] EXCEPT !.reconnect = "none"]) : feeds' = [feeds EXCEPT ![i] = g]
    BY <1>10 DEF ReconnectFires, Becomes
  <2>2. feeds[i].reconnect # "none" /\ UNCHANGED <<plan, manager, made, closed>>
    BY <1>10 DEF ReconnectFires, Becomes
  <2>3. Event(feeds[i], g)
    BY <2>1, <2>2, Typing, ReconnectEvent
  <2>4. feeds[i] # NewFeed
    BY <2>2 DEF NewFeed
  <2> QED
    BY <2>1, <2>2, <2>3, <2>4, EventStep
<1>11. ASSUME NEW i \in FeedIds, Rotate(i) PROVE Inv' /\ AllBackOff
  <2> DEFINE g == CloseSocket([feeds[i] EXCEPT !.timers = @ \ {"rotation"}, !.planned = TRUE])
  <2>1. "rotation" \in feeds[i].timers /\ feeds' = [feeds EXCEPT ![i] = g] /\ UNCHANGED <<plan, manager, made, closed>>
    BY <1>11 DEF Rotate, Becomes
  <2>2. Event(feeds[i], g)
    BY <2>1, Typing, RotateEvent
  <2>3. feeds[i] # NewFeed
    BY <2>1 DEF NewFeed
  <2> HIDE DEF g
  <2> QED
    BY <2>1, <2>2, <2>3, EventStep
<1>12. ASSUME NEW i \in FeedIds, Stable(i) PROVE Inv' /\ AllBackOff
  <2> DEFINE g == [feeds[i] EXCEPT !.timers = @ \ {"stable"}, !.attempts = 0]
  <2>1. "stable" \in feeds[i].timers /\ feeds' = [feeds EXCEPT ![i] = g] /\ UNCHANGED <<plan, manager, made, closed>>
    BY <1>12 DEF Stable, Becomes
  <2>2. Event(feeds[i], g)
    BY <2>1, Typing, StableEvent
  <2>3. feeds[i] # NewFeed
    BY <2>1 DEF NewFeed
  <2> HIDE DEF g
  <2> QED
    BY <2>1, <2>2, <2>3, EventStep
<1> QED
  BY <1>1, <1>2, <1>3, <1>4, <1>5, <1>6, <1>7, <1>8, <1>9, <1>10, <1>11, <1>12 DEF Next

---------------------------------------------------------------------------
(* Theorems *)

LEMMA InvHolds == Spec => []Inv
<1>1. Inv /\ [Next]_vars => Inv'
  BY NextStep
<1> QED
  BY InitInv, <1>1, PTL DEF Spec

\* The feeds and the coordinator are typed in every reachable state.
THEOREM TypeCorrect == Spec => []TypeOK
<1>1. Inv => TypeOK
  BY DEF Inv
<1> QED
  BY InvHolds, <1>1, PTL

\* An open socket has been told the streams that the configuration wants, however
\* reconfigurations, failures, rotations and reconnects interleave.
THEOREM SubscriptionsFollow == Spec => []ListensAsWanted
<1>1. Inv => ListensAsWanted
  BY Typing DEF Inv, FeedInv, Belongs, ListensAsWanted, FeedIds, NewFeed
<1> QED
  BY InvHolds, <1>1, PTL

\* No endpoint change, removal or shutdown leaves a second live socket behind.
THEOREM OneSocket == Spec => []OneLiveSocket
<1>1. Inv => OneLiveSocket
  BY Typing DEF Inv, FeedInv, Belongs, OneLiveSocket, FeedIds, NewFeed
<1> QED
  BY InvHolds, <1>1, PTL

\* Whatever happens to its socket, a feed with streams has a timer that takes it
\* further.
THEOREM NoFeedIsStranded == Spec => []NeverStranded
<1>1. ASSUME Inv PROVE NeverStranded
  <2> SUFFICES ASSUME NEW i \in FeedIds
               PROVE  LET f == feeds[i]
                      IN /\ i = manager /\ plan.streams # {} /\ f.socket = "none" <=> f.reconnect # "none"
                         /\ f.socket = "connecting" => f.timers = {"connection"}
                         /\ f.socket = "open" => "rotation" \in f.timers
                         /\ f.socket = "none" => f.timers = {}
    BY DEF NeverStranded
  <2>1. FeedInv(feeds[i])
    BY <1>1 DEF Inv
  <2>2. CASE i = manager
    BY <1>1, <2>1, <2>2 DEF Inv, Belongs, FeedInv
  <2>3. CASE i # manager
    <3>1. feeds[i].desired = {}
      BY <1>1, <2>1, <2>3, Typing DEF Inv, Belongs, FeedInv, NewFeed, FeedIds
    <3> QED
      BY <2>1, <2>3, <3>1 DEF FeedInv
  <2> QED
    BY <2>2, <2>3
<1> QED
  BY InvHolds, <1>1, PTL

\* Failures back off, and only a connection that was stable resets the delay.
THEOREM BackingOff == Spec => FailuresBackOff
<1>1. Inv /\ [Next]_vars => [\A i \in FeedIds : BacksOff(feeds[i], feeds'[i])]_vars
  BY NextStep DEF AllBackOff
<1> QED
  BY InvHolds, <1>1, PTL DEF Spec, FailuresBackOff
=============================================================================
