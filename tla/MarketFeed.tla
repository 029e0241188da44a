------------------------------- MODULE MarketFeed -------------------------------
(***************************************************************************)
(* The market data connection of one integration:                          *)
(* core/integrations/binance-market-data-coordinator.ts, which builds and   *)
(* drops the stream manager as the configuration changes, and              *)
(* adapters/markets/websocket/shared-websocket-feed.ts, the WebSocket of a *)
(* manager with its subscriptions, timers and reconnects.  A manager has   *)
(* two feeds of the same code, for spot and perpetual; one is modelled.    *)
(*                                                                         *)
(* The socket is the ws library's: close and terminate leave it closing,   *)
(* also while it connects, and its close event comes later, once.          *)
(***************************************************************************)
EXTENDS Naturals

CONSTANTS
  Urls,          \* fingerprints of the integration's WebSocket endpoints
  Streams,       \* what can be subscribed to
  MaxFeeds,      \* bound on the managers built by one process
  MaxAttempts,   \* failures until the backoff stops growing
  None

ASSUME FeedBounds == MaxFeeds \in Nat \ {0} /\ MaxAttempts \in Nat \ {0}

Plan == [url : Urls, streams : SUBSET Streams]
ASSUME NoneIsNoPlan == None \notin Plan

FeedIds == 1..MaxFeeds

VARIABLES
  plan,      \* what reconcile was last given for the integration, or None
  manager,   \* the feed of the current manager, 0 if there is none
  feeds,     \* SharedWebSocketFeed objects, built in the order of their numbers
  made,      \* how many were built
  closed     \* the service is shutting down

vars == <<plan, manager, feeds, made, closed>>

Timers == {"connection", "rotation", "stable"}

\* timers: those of the socket that are armed.  subscribed: what the server was told
\* over the present socket.
Feed ==
  [desired : SUBSET Streams, subscribed : SUBSET Streams,
   socket : {"none", "connecting", "open", "closing"},
   reconnect : {"none", "now", "backoff"},
   timers : SUBSET Timers, attempts : Nat, planned : BOOLEAN, disposed : BOOLEAN]

NewFeed ==
  [desired |-> {}, subscribed |-> {}, socket |-> "none", reconnect |-> "none",
   timers |-> {}, attempts |-> 0, planned |-> FALSE, disposed |-> FALSE]

---------------------------------------------------------------------------
(* SharedWebSocketFeed: what a call or an event makes of a feed *)

CloseSocket(f) == IF f.socket = "none" THEN f ELSE [f EXCEPT !.socket = "closing"]

\* A reconnect at once, or after the delay that has grown with the failures.
ScheduleReconnect(f, delay) ==
  IF f.disposed \/ f.desired = {} \/ f.reconnect # "none" THEN f
  ELSE [f EXCEPT
          !.reconnect = delay,
          !.attempts = IF delay = "backoff" /\ @ < MaxAttempts THEN @ + 1 ELSE @]

\* A factory that throws is not tried again.
ConnectsOnce(f) ==
  IF f.disposed \/ f.desired = {} \/ f.socket # "none" THEN {f}
  ELSE {[f EXCEPT !.planned = FALSE, !.timers = @ \cup {"connection"}, !.socket = "connecting"],
        [f EXCEPT !.planned = FALSE]}

\* The factory opens a socket or throws.
Connects(f) ==
  IF f.disposed \/ f.desired = {} \/ f.socket # "none" THEN {f}
  ELSE {[f EXCEPT !.planned = FALSE, !.timers = @ \cup {"connection"}, !.socket = "connecting"],
        ScheduleReconnect([f EXCEPT !.planned = FALSE], "backoff")}

\* Streams added to an open socket are sent, removed ones are not.
SubscribesOnly(f, next) == [f EXCEPT !.desired = next, !.subscribed = @ \cup next]

\* UNSUBSCRIBE the removed and SUBSCRIBE the added streams of an open socket.
Resubscribed(f, next) == [f EXCEPT !.desired = next, !.subscribed = next]

\* A send that throws terminates the socket.
SetStreams(f, next) ==
  LET g == [f EXCEPT !.desired = next]
  IN CASE f.disposed -> {g}
       [] ~f.disposed /\ next = {} ->
            {CloseSocket([g EXCEPT !.reconnect = "none",
                                   !.planned = @ \/ f.socket # "none"])}
       [] ~f.disposed /\ next # {} /\ f.socket = "none" ->
            IF f.reconnect = "none" THEN Connects(g) ELSE {g}
       [] ~f.disposed /\ next # {} /\ f.socket \in {"connecting", "closing"} -> {g}
       [] ~f.disposed /\ next # {} /\ f.socket = "open" ->
            {Resubscribed(f, next)} \cup (IF next = f.desired THEN {} ELSE {CloseSocket(g)})

\* The replaced manager is forgotten.
Forget(f) == f

\* close: late events of the socket find another generation.
Dispose(f) ==
  CloseSocket([f EXCEPT
    !.disposed = TRUE, !.planned = TRUE, !.desired = {}, !.subscribed = {},
    !.reconnect = "none", !.timers = {}])

\* Everything wanted is subscribed to, unless the send throws.
HandleOpen(f) ==
  LET g == [f EXCEPT !.reconnect = "none", !.timers = {"rotation", "stable"}]
  IN {[g EXCEPT !.socket = "open", !.subscribed = f.desired],
      [g EXCEPT !.socket = "closing", !.subscribed = {}]}

\* The error is reported and the socket terminated.
HandleError(f) ==
  IF f.disposed THEN f ELSE CloseSocket([f EXCEPT !.timers = @ \ {"connection"}])

\* No socket, and none of its timers.
Disconnected(f) ==
  [f EXCEPT !.socket = "none", !.subscribed = {}, !.timers = {}]

\* At once after a planned close, else with a delay.
Reconnect(f) == ScheduleReconnect(f, IF f.planned THEN "now" ELSE "backoff")

HandleClose(f) ==
  IF f.disposed THEN [f EXCEPT !.socket = "none"] ELSE Reconnect(Disconnected(f))

---------------------------------------------------------------------------
(* Timers and the socket's events *)

\* A step of one feed, to one of several outcomes.
Becomes(i, outcomes) ==
  /\ \E f \in outcomes : feeds' = [feeds EXCEPT ![i] = f]
  /\ UNCHANGED <<plan, manager, made, closed>>

Opens(i) == feeds[i].socket = "connecting" /\ Becomes(i, HandleOpen(feeds[i]))

\* ws reports the error and the close at once.
ConnectionFails(i) ==
  /\ feeds[i].socket = "connecting"
  /\ Becomes(i, {HandleClose(HandleError(feeds[i]))})

SocketErrs(i) ==
  /\ feeds[i].socket \in {"open", "closing"}
  /\ Becomes(i, {[HandleError(feeds[i]) EXCEPT !.socket = "closing"]})

\* By the peer, or at the end of a close that was begun here.
SocketCloses(i) ==
  /\ feeds[i].socket \in {"open", "closing"}
  /\ Becomes(i, {HandleClose(feeds[i])})

ConnectionTimesOut(i) ==
  /\ "connection" \in feeds[i].timers
  /\ Becomes(i, {HandleError(feeds[i])})

ReconnectFires(i) ==
  /\ feeds[i].reconnect # "none"
  /\ Becomes(i, Connects([feeds[i] EXCEPT !.reconnect = "none"]))

Rotate(i) ==
  /\ "rotation" \in feeds[i].timers
  /\ Becomes(i, {CloseSocket([feeds[i] EXCEPT !.timers = @ \ {"rotation"}, !.planned = TRUE])})

Stable(i) ==
  /\ "stable" \in feeds[i].timers
  /\ Becomes(i, {[feeds[i] EXCEPT !.timers = @ \ {"stable"}, !.attempts = 0]})

---------------------------------------------------------------------------
(* BinanceMarketDataCoordinator *)

Replaced(i) == IF i = 0 THEN feeds ELSE [feeds EXCEPT ![i] = Dispose(@)]

\* No enabled monitor subscribes, or the integration is disabled or invalid.
ReconcileNone ==
  /\ ~closed /\ plan # None
  /\ plan' = None /\ manager' = 0
  /\ feeds' = Replaced(manager)
  /\ UNCHANGED <<made, closed>>

\* Another endpoint needs another manager.
Reconcile(p) ==
  /\ ~closed
  /\ plan' = p
  /\ IF manager # 0 /\ plan.url = p.url
     THEN /\ \E f \in SetStreams(feeds[manager], p.streams) :
               feeds' = [feeds EXCEPT ![manager] = f]
          /\ UNCHANGED <<manager, made>>
     ELSE /\ made < MaxFeeds
          /\ made' = made + 1 /\ manager' = made'
          /\ \E f \in SetStreams(NewFeed, p.streams) :
               feeds' = [Replaced(manager) EXCEPT ![made'] = f]
  /\ UNCHANGED closed

Close ==
  /\ ~closed /\ closed' = TRUE
  /\ plan' = None /\ manager' = 0
  /\ feeds' = Replaced(manager)
  /\ UNCHANGED made

Init ==
  /\ plan = None /\ manager = 0
  /\ feeds = [i \in FeedIds |-> NewFeed]
  /\ made = 0 /\ closed = FALSE

Next ==
  \/ \E p \in Plan : Reconcile(p)
  \/ ReconcileNone
  \/ Close
  \/ \E i \in FeedIds :
       \/ Opens(i) \/ ConnectionFails(i) \/ SocketErrs(i) \/ SocketCloses(i)
       \/ ConnectionTimesOut(i) \/ ReconnectFires(i) \/ Rotate(i) \/ Stable(i)

Spec == Init /\ [][Next]_vars

\* Timers fire; ws ends a close that was begun within 30 s.  The exchange may
\* refuse for a while, but not for ever.
Fairness ==
  \A i \in FeedIds :
    /\ WF_vars(ReconnectFires(i))
    /\ WF_vars(ConnectionTimesOut(i))
    /\ WF_vars(feeds[i].socket = "closing" /\ SocketCloses(i))
    /\ SF_vars(ReconnectFires(i) /\ feeds'[i].socket = "connecting")
    /\ SF_vars(Opens(i) /\ feeds'[i].socket = "open")

FairSpec == Spec /\ Fairness

---------------------------------------------------------------------------
(* Properties *)

TypeOK ==
  /\ plan \in Plan \cup {None}
  /\ manager \in 0..made /\ made \in 0..MaxFeeds
  /\ feeds \in [FeedIds -> Feed]
  /\ \A i \in FeedIds : feeds[i].attempts <= MaxAttempts
  /\ closed \in BOOLEAN

\* An open socket is told exactly the streams of the configuration, whenever they
\* were changed: while it was opening, closing, waiting to reconnect or replaced.
ListensAsWanted ==
  \A i \in FeedIds :
    feeds[i].socket = "open" => feeds[i].subscribed = plan.streams

\* At most one socket connects or is open, and it is the current manager's: no
\* change of the endpoint, removal or shutdown leaves one behind.
OneLiveSocket ==
  \A i \in FeedIds :
    feeds[i].socket \in {"connecting", "open"} =>
      i = manager /\ plan.streams # {}

\* A feed with streams never gives up: without a socket it has a reconnect
\* scheduled, a connecting one a timeout, an open one its rotation.  Timers are those
\* of the present socket.
NeverStranded ==
  \A i \in FeedIds :
    LET f == feeds[i]
    IN /\ i = manager /\ plan.streams # {} /\ f.socket = "none" <=> f.reconnect # "none"
       /\ f.socket = "connecting" => f.timers = {"connection"}
       /\ f.socket = "open" => "rotation" \in f.timers
       /\ f.socket = "none" => f.timers = {}

BacksOff(f, g) ==
  /\ f.socket # "none" /\ ~f.planned /\ g.socket = "none" /\ g.desired # {}
       => g.reconnect = "backoff" /\ (g.attempts > f.attempts \/ g.attempts = MaxAttempts)
  /\ g.attempts < f.attempts => "stable" \in f.timers /\ f.socket \in {"open", "closing"}

\* A connection that was lost or failed is retried only after a delay, and the
\* delay grows until a connection has been stable.
FailuresBackOff == [][\A i \in FeedIds : BacksOff(feeds[i], feeds'[i])]_vars

\* A configuration that stays is listened to, again after every loss.
FeedListens ==
  \A p \in Plan :
    <>[](plan = p /\ p.streams # {}) =>
      []<>(manager # 0 /\ feeds[manager].socket = "open" /\ feeds[manager].subscribed = p.streams)
=============================================================================
