----------------------------- MODULE PublicHub -----------------------------
(***************************************************************************)
(* The public subscription hub (crates/bat-markets/src/subscriptions.rs)   *)
(* and the stream runners it owns (run_public_stream and the run_<venue>_  *)
(* public_stream functions of runtime.rs).                                 *)
(*                                                                         *)
(* Watchers acquire and drop leases; both are commands in one unbounded    *)
(* channel.  The hub task handles them one by one: it merges the           *)
(* subscriptions of the active leases, splits the result over the venue's  *)
(* socket routes, and replaces the streams of the routes that changed.     *)
(* A stream is a task of its own, with a reconnect loop around a websocket *)
(* session.  Frames are not modelled, only what they do to the stream and  *)
(* to the health report.                                                   *)
(***************************************************************************)
EXTENDS Health, Naturals, Sequences, FiniteSets

CONSTANTS
    Leases,         \* the calls of acquire, named by their lease ids
    Instruments,    \* instrument ids
    MarketKinds,    \* ticker, trades, mark price, ..., and kline intervals
    BookKinds,      \* book top and order book
    Wants,          \* per lease, its PublicSubscription
    Broken,         \* instruments and intervals a stream cannot set up
    Venues,         \* the venues a client may be built for
    MaxReconnects,  \* config.reconnect.max_reconnect_attempts, or Unlimited
    Unlimited,
    Cancels         \* whether an acquire future may be dropped while it waits

Kinds == MarketKinds \cup BookKinds
Routes == {"BinanceMarket", "BinancePublic", "Default"}
RoutesOf(v) == IF v = "Binance" THEN {"BinanceMarket", "BinancePublic"} ELSE {"Default"}

Subscriptions == [instruments : SUBSET Instruments, kinds : SUBSET Kinds]
NoSubscription == [instruments |-> {}, kinds |-> {}]

ASSUME HubAssumption ==
    /\ Venues \subseteq {"Binance", "Bybit", "Mexc"}
    /\ Wants \in [Leases -> Subscriptions]
    /\ \A l \in Leases : Wants[l].instruments # {}
    /\ MarketKinds \cap BookKinds = {}
    /\ MaxReconnects \in Nat \cup {Unlimited}
    /\ Unlimited \notin Nat
    /\ Cancels \in BOOLEAN

VARIABLES
    venue,    \* the venue of this client
    watcher,  \* where each caller stands
    reply,    \* the oneshot of its acquire
    inbox,    \* commands sent to the hub
    client,   \* whether BatMarkets, which owns a sender, still exists
    hub,      \* whether the hub task runs
    active,   \* leases the hub counts
    plan,     \* current_subscriptions: per route, NoSubscription if absent
    current,  \* current_streams: per route, the index of its stream or 0
    streams,  \* per route, every stream spawned for it
    health

hubVars == <<hub, active, plan, current>>
vars == <<venue, watcher, reply, inbox, client, hubVars, streams, health>>

Commands == [type : {"Acquire", "Release"}, lease : Leases]
StreamStates == {"connecting", "live", "backoff", "ended", "aborting", "aborted"}
Attempts == IF MaxReconnects = Unlimited THEN {0} ELSE 0 .. MaxReconnects
Stream == [sub : Subscriptions, state : StreamStates, attempts : Attempts]

TypeOK ==
    /\ venue \in Venues
    /\ watcher \in [Leases -> {"idle", "waiting", "held", "released", "cancelled"}]
    /\ reply \in [Leases -> {"none", "ok"}]
    /\ inbox \in Seq(Commands)
    /\ client \in BOOLEAN
    /\ hub \in BOOLEAN
    /\ active \subseteq Leases
    /\ plan \in [Routes -> Subscriptions]
    /\ streams \in [Routes -> Seq(Stream)]
    /\ current \in [Routes -> Nat]
    /\ \A r \in Routes : current[r] <= Len(streams[r])
    /\ health \in HealthReport

\* The client was built by bootstrap_live, so REST has answered.
Init ==
    /\ venue \in Venues
    /\ watcher = [l \in Leases |-> "idle"]
    /\ reply = [l \in Leases |-> "none"]
    /\ inbox = << >>
    /\ client = TRUE
    /\ hub = TRUE
    /\ active = {}
    /\ plan = [r \in Routes |-> NoSubscription]
    /\ current = [r \in Routes |-> 0]
    /\ streams = [r \in Routes |-> << >>]
    /\ health = ObserveRestSuccess(DefaultHealth)

----------------------------------------------------------------------------
(* The watchers.                                                           *)

\* acquire(): the lease id is fresh, the command is queued.
Acquire(l) ==
    /\ client
    /\ watcher[l] = "idle"
    /\ watcher' = [watcher EXCEPT ![l] = "waiting"]
    /\ inbox' = Append(inbox, [type |-> "Acquire", lease |-> l])
    /\ UNCHANGED <<venue, reply, client, hubVars, streams, health>>

\* acquire(): the response arrives and the lease is constructed.
Acquired(l) ==
    /\ watcher[l] = "waiting"
    /\ reply[l] = "ok"
    /\ watcher' = [watcher EXCEPT ![l] = "held"]
    /\ UNCHANGED <<venue, reply, inbox, client, hubVars, streams, health>>

\* The acquire future is dropped (a select!, a timeout): no lease exists, so
\* no Release is ever sent.
CancelAcquire(l) ==
    /\ Cancels
    /\ watcher[l] = "waiting"
    /\ watcher' = [watcher EXCEPT ![l] = "cancelled"]
    /\ UNCHANGED <<venue, reply, inbox, client, hubVars, streams, health>>

\* Drop of a lease: the watch handle is shut down or dropped.
DropLease(l) ==
    /\ watcher[l] = "held"
    /\ watcher' = [watcher EXCEPT ![l] = "released"]
    /\ inbox' = Append(inbox, [type |-> "Release", lease |-> l])
    /\ UNCHANGED <<venue, reply, client, hubVars, streams, health>>

\* BatMarkets is dropped; an acquire borrows it, a lease need not.
DropClient ==
    /\ client
    /\ \A l \in Leases : watcher[l] # "waiting"
    /\ client' = FALSE
    /\ UNCHANGED <<venue, watcher, reply, inbox, hubVars, streams, health>>

----------------------------------------------------------------------------
(* The hub task.                                                           *)

\* merge_public_subscriptions over the leases ls.
MergePublicSubscriptions(ls) ==
    [instruments |-> UNION {Wants[l].instruments : l \in ls},
     kinds       |-> UNION {Wants[l].kinds : l \in ls}]

RouteKinds(r) ==
    CASE r = "BinanceMarket" -> MarketKinds
      [] r = "BinancePublic" -> BookKinds
      [] OTHER -> Kinds

\* route_public_subscriptions and split_binance_public_subscription: a Binance
\* route without topics is left out, the one route of Bybit and MEXC is there
\* as soon as there is an instrument.
RoutePublicSubscriptions(ls) ==
    LET merged == MergePublicSubscriptions(ls)
    IN  [r \in Routes |->
           IF \/ r \notin RoutesOf(venue)
              \/ merged.instruments = {}
              \/ venue = "Binance" /\ merged.kinds \cap RouteKinds(r) = {}
             THEN NoSubscription
             ELSE [merged EXCEPT !.kinds = @ \cap RouteKinds(r)]]

NewStream(sub) == [sub |-> sub, state |-> "connecting", attempts |-> 0]

\* JoinHandle::abort: the task stops at its next await; one that is just
\* being polled may finish what it is doing.
Abort(s) ==
    [s EXCEPT !.state = CASE @ = "live" -> "aborting"
                          [] @ \in {"connecting", "backoff"} -> "aborted"
                          [] OTHER -> @]

\* Fault: a replaced stream is forgotten but not aborted.
SwitchPublicStreamLeaks(desired) ==
    LET changed == {r \in Routes : plan[r] # desired[r]}
        spawned == {r \in changed : desired[r] # NoSubscription}
    IN  /\ streams' = [r \in Routes |->
                         IF r \in spawned THEN Append(streams[r], NewStream(desired[r]))
                         ELSE streams[r]]
        /\ current' = [r \in Routes |->
                         IF r \in spawned THEN Len(streams[r]) + 1
                         ELSE IF r \in changed THEN 0
                         ELSE current[r]]
        /\ plan' = desired

\* switch_public_stream: a changed route gets a new stream before the old one
\* is aborted, a route no longer wanted only loses its stream.
SwitchPublicStream(desired) ==
    LET changed == {r \in Routes : plan[r] # desired[r]}
        spawned == {r \in changed : desired[r] # NoSubscription}
        stale   == {r \in changed : plan[r] # NoSubscription}
        kept(r) == IF r \in stale /\ current[r] # 0
                     THEN [streams[r] EXCEPT ![current[r]] = Abort(@)]
                     ELSE streams[r]
    IN  /\ streams' = [r \in Routes |->
                         IF r \in spawned THEN Append(kept(r), NewStream(desired[r]))
                         ELSE kept(r)]
        /\ current' = [r \in Routes |->
                         IF r \in spawned THEN Len(streams[r]) + 1
                         ELSE IF r \in stale THEN 0
                         ELSE current[r]]
        /\ plan' = desired

Received(type, l) ==
    /\ hub
    /\ inbox # << >>
    /\ Head(inbox) = [type |-> type, lease |-> l]
    /\ inbox' = Tail(inbox)

\* Fault: the candidate set of leases is never committed.
HandleAcquireUncommitted(l) ==
    /\ Received("Acquire", l)
    /\ SwitchPublicStream(RoutePublicSubscriptions(active \cup {l}))
    /\ reply' = [reply EXCEPT ![l] = "ok"]
    /\ UNCHANGED <<venue, watcher, client, hub, active, health>>

\* run_public_hub, Acquire; spawn_public_stream cannot fail.
HandleAcquire(l) ==
    /\ Received("Acquire", l)
    /\ SwitchPublicStream(RoutePublicSubscriptions(active \cup {l}))
    /\ active' = active \cup {l}
    /\ reply' = [reply EXCEPT ![l] = "ok"]
    /\ UNCHANGED <<venue, watcher, client, hub, health>>

\* Fault: a release only forgets the lease.
HandleReleaseNoSwitch(l) ==
    /\ Received("Release", l)
    /\ l \in active
    /\ active' = active \ {l}
    /\ UNCHANGED <<venue, watcher, reply, client, hub, plan, current, streams, health>>

\* run_public_hub, Release of a lease it counts; any other one is ignored.
HandleRelease(l) ==
    /\ Received("Release", l)
    /\ l \in active
    /\ active' = active \ {l}
    /\ SwitchPublicStream(RoutePublicSubscriptions(active \ {l}))
    /\ UNCHANGED <<venue, watcher, reply, client, hub, health>>

\* recv returns None: the client and every lease are gone.
EndHub ==
    /\ hub
    /\ ~client
    /\ inbox = << >>
    /\ \A l \in Leases : watcher[l] \notin {"waiting", "held"}
    /\ hub' = FALSE
    /\ active' = {}
    /\ plan' = [r \in Routes |-> NoSubscription]
    /\ current' = [r \in Routes |-> 0]
    /\ streams' = [r \in Routes |->
                     IF current[r] = 0 THEN streams[r]
                     ELSE [streams[r] EXCEPT ![current[r]] = Abort(@)]]
    /\ UNCHANGED <<venue, watcher, reply, inbox, client, health>>

----------------------------------------------------------------------------
(* The stream tasks.  Stream i of route r.                                 *)

In(r, i, states) == streams[r][i].state \in states

SetState(r, i, state) == streams' = [streams EXCEPT ![r][i].state = state]

Watchers == <<venue, watcher, reply, inbox, client, hubVars>>

\* require_spec or parse_kline_interval rejects part of the subscription.
Rejected(r, i) ==
    \/ streams[r][i].sub.instruments \cap Broken # {}
    \/ streams[r][i].sub.kinds \cap Broken # {}

\* should_reconnect, for an error that comes from the transport.
MayReconnect(s) == IF MaxReconnects = Unlimited THEN TRUE ELSE s.attempts < MaxReconnects

\* run_public_stream: an error of the session that should_reconnect accepts.
\* The attempts are never reset.
Reconnect(r, i) ==
    /\ MayReconnect(streams[r][i])
    /\ streams' = [streams EXCEPT
         ![r][i].state = "backoff",
         ![r][i].attempts = IF MaxReconnects = Unlimited THEN @ ELSE @ + 1]

\* run_public_stream: an error that ends the task; nothing is recorded.
GiveUp(r, i) == SetState(r, i, "ended")

\* How a transport error ends the session, h being the health left by it.
TransportError(r, i, h) ==
    \/ Reconnect(r, i) /\ health' = MarkPublicDisconnect(h)
    \/ /\ ~MayReconnect(streams[r][i])
       /\ GiveUp(r, i)
       /\ health' = h

\* After refresh_metadata and the backoff the loop opens a new session.
Backoff(r, i) ==
    /\ In(r, i, {"backoff"})
    /\ SetState(r, i, "connecting")
    /\ health' \in {health, ObserveRestSuccess(health)}
    /\ UNCHANGED Watchers

\* The session is set up: topics, connect, subscribe.
SetUp(r, i) ==
    /\ In(r, i, {"connecting"})
    /\ \/ ~Rejected(r, i) /\ SetState(r, i, "live") /\ UNCHANGED health
       \/ Rejected(r, i) /\ GiveUp(r, i) /\ UNCHANGED health
       \/ (venue = "Mexc" \/ ~Rejected(r, i)) /\ TransportError(r, i, health)
    /\ UNCHANGED Watchers

\* The socket closes, or a read, a ping fails.
Disconnect(r, i) ==
    /\ In(r, i, {"live"})
    /\ TransportError(r, i, health)
    /\ UNCHANGED Watchers

\* maintenance: no frame for ws_idle_ms.
IdleGap(r, i) ==
    /\ In(r, i, {"live"})
    /\ TransportError(r, i, MarkPublicGap(health))
    /\ UNCHANGED Watchers

\* A frame whose sequence number does not continue its topic's watermark.
SequenceGap(r, i) ==
    /\ In(r, i, {"live"})
    /\ TransportError(r, i, MarkPublicGap(health))
    /\ UNCHANGED Watchers

\* maintenance: sync_server_time and refresh_metadata, errors ignored.
MetadataRefresh(r, i) ==
    /\ In(r, i, {"live"})
    /\ health' = ObserveRestSuccess(health)
    /\ UNCHANGED <<Watchers, streams>>

\* A frame: its events are applied, or it cannot be decoded or names an
\* unknown instrument, which is not a transport error.
Frame(r, i) ==
    /\ In(r, i, {"live"})
    /\ \/ health' = ObservePublicMessage(health) /\ UNCHANGED streams
       \/ GiveUp(r, i) /\ UNCHANGED health
    /\ UNCHANGED Watchers

\* What a stream does in the poll during which it was aborted.
FinishPoll(r, i) ==
    /\ In(r, i, {"aborting"})
    /\ SetState(r, i, "aborted")
    /\ health' \in {health, ObservePublicMessage(health), MarkPublicGap(health),
                    MarkPublicDisconnect(health)}
    /\ UNCHANGED Watchers

RunBinancePublicStream(r, i) ==
    \/ SetUp(r, i)
    \/ Disconnect(r, i)
    \/ IdleGap(r, i)
    \/ SequenceGap(r, i)
    \/ MetadataRefresh(r, i)
    \/ Frame(r, i)

RunBybitPublicStream(r, i) ==
    \/ SetUp(r, i)
    \/ Disconnect(r, i)
    \/ IdleGap(r, i)
    \/ SequenceGap(r, i)
    \/ MetadataRefresh(r, i)
    \/ Frame(r, i)

\* MEXC tracks no sequence numbers and refreshes no metadata.
RunMexcPublicStream(r, i) ==
    \/ SetUp(r, i)
    \/ Disconnect(r, i)
    \/ IdleGap(r, i)
    \/ Frame(r, i)

RunPublicStream(r, i) ==
    \/ Backoff(r, i)
    \/ FinishPoll(r, i)
    \/ venue = "Binance" /\ RunBinancePublicStream(r, i)
    \/ venue = "Bybit" /\ RunBybitPublicStream(r, i)
    \/ venue = "Mexc" /\ RunMexcPublicStream(r, i)

----------------------------------------------------------------------------

HubStep == EndHub \/ \E l \in Leases : HandleAcquire(l) \/ HandleRelease(l)

Next ==
    \/ \E l \in Leases : Acquire(l) \/ Acquired(l) \/ CancelAcquire(l) \/ DropLease(l)
    \/ DropClient
    \/ HubStep
    \/ \E r \in Routes : \E i \in DOMAIN streams[r] : RunPublicStream(r, i)

SafetySpec == Init /\ [][Next]_vars

\* The hub task and a caller whose answer is there are polled; an aborted
\* task stops.  Watchers and sockets owe nothing.
Fairness ==
    /\ WF_vars(HubStep)
    /\ \A l \in Leases : WF_vars(Acquired(l))
    /\ \A r \in Routes, i \in 1 .. 2 * Cardinality(Leases) :
         WF_vars(i \in DOMAIN streams[r] /\ FinishPoll(r, i))

Spec == SafetySpec /\ Fairness

----------------------------------------------------------------------------
(* Properties                                                              *)

Topics(sub) == sub.instruments \X sub.kinds
Carried == UNION {Topics(plan[r]) : r \in Routes}

\* Each stream that has not been told to stop is the current stream of its
\* route, and runs the subscription planned there: switching, releasing and
\* reconnecting neither leak a socket nor leave one on an outdated plan.
OneStreamPerRoute ==
    \A r \in Routes : \A i \in DOMAIN streams[r] :
        In(r, i, {"connecting", "live", "backoff"}) =>
            i = current[r] /\ streams[r][i].sub = plan[r]

\* While a watch handle exists, the streams the hub runs are asked for every
\* topic it wants, however acquires and releases of others interleave.
HeldLeaseIsCovered ==
    \A l \in Leases :
        watcher[l] = "held" =>
            \A t \in Topics(Wants[l]) :
                \E r \in Routes :
                    /\ t \in Topics(plan[r])
                    /\ current[r] \in DOMAIN streams[r]
                    /\ streams[r][current[r]].sub = plan[r]

\* The hub keeps its promise to its watchers.
Contract == INSTANCE LeaseContract WITH
                Needs <- [l \in Leases |-> Topics(Wants[l])],
                granted <- active, carried <- Carried
KeepsContract == Contract!Spec

AllStreamsStopped ==
    \A r \in Routes : \A i \in DOMAIN streams[r] : In(r, i, {"ended", "aborted"})

\* "The hub ... shuts down when no lease remains": once every watch handle is
\* gone, every stream ends.
UnusedStreamsStop ==
    (\A l \in Leases : watcher[l] = "released") ~> AllStreamsStopped
=============================================================================
