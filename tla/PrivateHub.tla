----------------------------- MODULE PrivateHub -----------------------------
(***************************************************************************)
(* The private subscription hub (crates/bat-markets/src/subscriptions.rs)  *)
(* and the one account stream it owns (run_private_stream and the          *)
(* run_<venue>_private_stream functions of runtime.rs).                    *)
(*                                                                         *)
(* Watchers acquire and drop leases through one unbounded channel.  The    *)
(* hub spawns the stream for the first lease and aborts it after the last. *)
(* The stream is a task with a reconnect loop around a websocket session;  *)
(* a reconcile runs inside that task, before a reconnect or periodically,  *)
(* and no frame is read meanwhile.  What a reconcile does to pending       *)
(* commands is the subject of CommandRecovery; here no command is pending  *)
(* and what matters is which evidence it reads and what it says of it.     *)
(***************************************************************************)
EXTENDS Health, Naturals, Sequences, FiniteSets

CONSTANTS
    Leases,         \* the calls of acquire, named by their lease ids
    Venues,         \* the venues a client may be built for
    Periodic,       \* whether periodic_private_reconcile_ms is set
    MaxReconnects,  \* config.reconnect.max_reconnect_attempts, or Unlimited
    Unlimited,
    MaxFailures     \* bound: how many reconciles fail

ASSUME HubAssumption ==
    /\ Venues \subseteq {"Binance", "Bybit", "Mexc"}
    /\ Periodic \in BOOLEAN
    /\ MaxReconnects \in Nat \cup {Unlimited}
    /\ Unlimited \notin Nat
    /\ MaxFailures \in Nat

VARIABLES
    venue,     \* the venue of this client
    watcher,   \* where each caller stands
    reply,     \* the oneshot of its acquire
    inbox,     \* commands sent to the hub
    client,    \* whether BatMarkets, which owns a sender, still exists
    hub,       \* whether the hub task runs
    active,    \* leases the hub counts
    current,   \* current_stream: the index of the stream or 0
    streams,   \* every stream spawned
    health,
    repair,    \* what a gap still calls for: history not read since it
    failures   \* reconciles that failed so far

callers == <<venue, watcher, reply, inbox, client>>
hubVars == <<hub, active, current>>
vars == <<callers, hubVars, streams, health, repair, failures>>

Commands == [type : {"Acquire", "Release"}, lease : Leases]
States == {"starting", "live", "repairing", "backoff", "ended", "aborting", "aborted"}
Attempts == IF MaxReconnects = Unlimited THEN {0} ELSE 0 .. MaxReconnects

\* age: last_frame_at against snapshot_stale_after_ms and ws_idle_ms;
\* deaf: a session on which the venue sends no account event any more;
\* job: where the reconcile inside the task stands; deep: its mode is
\* RecentHistoryRepair; read: it has read recent executions.
Stream == [state : States, attempts : Attempts, age : {"fresh", "stale", "idle"},
           deaf : BOOLEAN, job : {"none", "snapshots", "history", "report"},
           deep : BOOLEAN, read : BOOLEAN]

NewStream == [state |-> "starting", attempts |-> 0, age |-> "fresh", deaf |-> FALSE,
              job |-> "none", deep |-> FALSE, read |-> FALSE]

\* A task that reads no frame any more.
Closed(state) == [NewStream EXCEPT !.state = state]

TypeOK ==
    /\ venue \in Venues
    /\ watcher \in [Leases -> {"idle", "waiting", "held", "released", "cancelled"}]
    /\ reply \in [Leases -> {"none", "ok"}]
    /\ inbox \in Seq(Commands)
    /\ client \in BOOLEAN
    /\ hub \in BOOLEAN
    /\ active \subseteq Leases
    /\ streams \in Seq(Stream)
    /\ current \in 0 .. Len(streams)
    /\ health \in HealthReport
    /\ repair \in {"none", "due", "failed"}
    /\ failures \in 0 .. MaxFailures

\* The client was built by bootstrap_live and its public stream runs.
Init ==
    /\ venue \in Venues
    /\ watcher = [l \in Leases |-> "idle"]
    /\ reply = [l \in Leases |-> "none"]
    /\ inbox = << >>
    /\ client = TRUE
    /\ hub = TRUE
    /\ active = {}
    /\ current = 0
    /\ streams = << >>
    /\ health = ObservePublicMessage(ObserveRestSuccess(DefaultHealth))
    /\ repair = "none"
    /\ failures = 0

----------------------------------------------------------------------------
(* The watchers: watch_orders, watch_executions, watch_positions and       *)
(* watch_balances all take the same lease.                                 *)

Acquire(l) ==
    /\ client
    /\ watcher[l] = "idle"
    /\ watcher' = [watcher EXCEPT ![l] = "waiting"]
    /\ inbox' = Append(inbox, [type |-> "Acquire", lease |-> l])
    /\ UNCHANGED <<venue, reply, client, hubVars, streams, health, repair, failures>>

Acquired(l) ==
    /\ watcher[l] = "waiting"
    /\ reply[l] = "ok"
    /\ watcher' = [watcher EXCEPT ![l] = "held"]
    /\ UNCHANGED <<venue, reply, inbox, client, hubVars, streams, health, repair, failures>>

\* The acquire future is dropped: no lease exists, no Release is ever sent.
CancelAcquire(l) ==
    /\ watcher[l] = "waiting"
    /\ watcher' = [watcher EXCEPT ![l] = "cancelled"]
    /\ UNCHANGED <<venue, reply, inbox, client, hubVars, streams, health, repair, failures>>

DropLease(l) ==
    /\ watcher[l] = "held"
    /\ watcher' = [watcher EXCEPT ![l] = "released"]
    /\ inbox' = Append(inbox, [type |-> "Release", lease |-> l])
    /\ UNCHANGED <<venue, reply, client, hubVars, streams, health, repair, failures>>

\* BatMarkets is dropped; the private watch handles borrow it.
DropClient ==
    /\ client
    /\ \A l \in Leases : watcher[l] \notin {"waiting", "held"}
    /\ client' = FALSE
    /\ UNCHANGED <<venue, watcher, reply, inbox, hubVars, streams, health, repair, failures>>

----------------------------------------------------------------------------
(* The hub task.                                                           *)

Received(type, l) ==
    /\ hub
    /\ inbox # << >>
    /\ Head(inbox) = [type |-> type, lease |-> l]
    /\ inbox' = Tail(inbox)

\* JoinHandle::abort: the task stops at its next await; one that is just
\* being polled may finish what it is doing.
Abort(s) ==
    CASE s.state \in {"live", "repairing"} -> Closed("aborting")
      [] s.state \in {"starting", "backoff"} -> Closed("aborted")
      [] OTHER -> s

\* A repair that the aborted task owed is owed by nobody.
AbortCurrent ==
    /\ streams' = IF current = 0 THEN streams ELSE [streams EXCEPT ![current] = Abort(@)]
    /\ current' = 0
    /\ repair' = IF repair = "due" THEN "failed" ELSE repair

\* Fault: only the lease that starts the stream is counted.
HandleAcquireCountsFirst(l) ==
    /\ Received("Acquire", l)
    /\ streams' = IF current = 0 THEN Append(streams, NewStream) ELSE streams
    /\ current' = IF current = 0 THEN Len(streams) + 1 ELSE current
    /\ active' = IF current = 0 THEN active \cup {l} ELSE active
    /\ reply' = [reply EXCEPT ![l] = "ok"]
    /\ UNCHANGED <<venue, watcher, client, hub, health, repair, failures>>

\* run_private_hub, Acquire; spawn_private_stream cannot fail.  The stream is
\* not asked whether it still runs.
HandleAcquire(l) ==
    /\ Received("Acquire", l)
    /\ streams' = IF current = 0 THEN Append(streams, NewStream) ELSE streams
    /\ current' = IF current = 0 THEN Len(streams) + 1 ELSE current
    /\ active' = active \cup {l}
    /\ reply' = [reply EXCEPT ![l] = "ok"]
    /\ UNCHANGED <<venue, watcher, client, hub, health, repair, failures>>

\* Fault: every release stops the stream.
HandleReleaseAlwaysStops(l) ==
    /\ Received("Release", l)
    /\ l \in active
    /\ active' = active \ {l}
    /\ AbortCurrent
    /\ UNCHANGED <<venue, watcher, reply, client, hub, health, failures>>

\* Fault: the last release keeps the stream.
HandleReleaseKeeps(l) ==
    /\ Received("Release", l)
    /\ l \in active
    /\ active' = active \ {l}
    /\ UNCHANGED <<venue, watcher, reply, client, hub, current, streams, health, repair, failures>>

\* run_private_hub, Release of a lease it counts; any other one is ignored.
HandleRelease(l) ==
    /\ Received("Release", l)
    /\ l \in active
    /\ active' = active \ {l}
    /\ IF active = {l} THEN AbortCurrent ELSE UNCHANGED <<streams, current, repair>>
    /\ UNCHANGED <<venue, watcher, reply, client, hub, health, failures>>

\* recv returns None: the client and every lease are gone.
EndHub ==
    /\ hub
    /\ ~client
    /\ inbox = << >>
    /\ \A l \in Leases : watcher[l] \notin {"waiting", "held"}
    /\ hub' = FALSE
    /\ active' = {}
    /\ AbortCurrent
    /\ UNCHANGED <<callers, health, failures>>

----------------------------------------------------------------------------
(* The stream task.  Stream i.                                             *)

In(i, states) == streams[i].state \in states
Outside == <<callers, hubVars>>

\* The session reads frames and timers: no reconcile holds the task.
Serving(i) == In(i, {"live"}) /\ streams[i].job = "none"

MayReconnect(s) == IF MaxReconnects = Unlimited THEN TRUE ELSE s.attempts < MaxReconnects

\* How run_private_stream ends a session, h being the health the session left.
\* A transport error is followed by a reconcile and a new session, any other
\* error ends the task and is recorded nowhere.
TransportError(i, h) ==
    \/ /\ MayReconnect(streams[i])
       /\ streams' = [streams EXCEPT
            ![i] = [Closed("repairing") EXCEPT
                !.job = "snapshots", !.deep = TRUE,
                !.attempts = IF MaxReconnects = Unlimited THEN 0 ELSE streams[i].attempts + 1]]
       /\ health' = MarkPrivateDisconnect(h)
    \/ /\ ~MayReconnect(streams[i])
       /\ streams' = [streams EXCEPT ![i] = Closed("ended")]
       /\ health' = h

\* A listen key, a connection, login and subscribe frames; what the venue
\* answers to the latter is not awaited, so a session may start deaf.
\* Credentials or a payload that cannot be used end the task.
SetUp(i) ==
    /\ In(i, {"starting"})
    /\ \/ /\ \E deaf \in (IF venue = "Binance" THEN {FALSE} ELSE BOOLEAN) :
               streams' = [streams EXCEPT ![i] = [@ EXCEPT !.state = "live", !.age = "fresh",
                                                           !.deaf = deaf]]
          /\ UNCHANGED health
       \/ streams' = [streams EXCEPT ![i] = Closed("ended")] /\ UNCHANGED health
       \/ TransportError(i, health)
    /\ UNCHANGED <<Outside, repair, failures>>

\* The socket closes, or a read, a ping fails.
Disconnect(i) ==
    /\ Serving(i)
    /\ TransportError(i, health)
    /\ UNCHANGED <<Outside, repair, failures>>

\* An account frame: its events are applied, or it cannot be decoded (a frame
\* type the adapter does not list counts as one) and ends the task.
Frame(i) ==
    /\ Serving(i)
    /\ ~streams[i].deaf
    /\ \/ streams' = [streams EXCEPT ![i].age = "fresh"] /\ health' = ObservePrivateMessage(health)
       \/ streams' = [streams EXCEPT ![i] = Closed("ended")] /\ UNCHANGED health
    /\ UNCHANGED <<Outside, repair, failures>>

\* The watermark of a topic went backwards: Divergence, then an error.
SequenceGap(i) ==
    /\ Serving(i)
    /\ ~streams[i].deaf
    /\ TransportError(i, MarkPrivateGap(health))
    /\ repair' = "due"
    /\ UNCHANGED <<Outside, failures>>

\* The answer to a ping: Bybit and MEXC count it as a frame, Binance does not.
Pong(i) ==
    /\ Serving(i)
    /\ venue # "Binance"
    /\ streams' = [streams EXCEPT ![i].age = "fresh"]
    /\ UNCHANGED <<Outside, health, repair, failures>>

\* Binance: the listen key runs out.  binance_keepalive_listen_key is tried
\* every half hour and its errors are ignored.
KeyExpires(i) ==
    /\ In(i, {"live"})
    /\ venue = "Binance"
    /\ ~streams[i].deaf
    /\ streams' = [streams EXCEPT ![i].deaf = TRUE]
    /\ UNCHANGED <<Outside, health, repair, failures>>

\* Time passes without a frame.
Quiet(i) ==
    /\ In(i, {"live"})
    /\ streams[i].age # "idle"
    /\ streams' = [streams EXCEPT ![i].age = IF @ = "fresh" THEN "stale" ELSE "idle"]
    /\ UNCHANGED <<Outside, health, repair, failures>>

NeedsRecentHistoryRepair(h) ==
    \/ h.diverged
    \/ h.reason \in {"PrivateStreamGap", "ReconcileRequired", "CommandUncertain",
                     "StateDivergence"}

\* Fault: an idle session is only marked stale.
MaintenanceForgives(i) ==
    /\ Serving(i)
    /\ health' = MarkSnapshotAge(health, streams[i].age # "fresh")
    /\ UNCHANGED <<Outside, streams, repair, failures>>

\* maintenance.tick(): an idle session is a gap; otherwise the age is noted
\* and, if it is time, a periodic reconcile starts with the mode that the
\* health report just written calls for.
Maintenance(i) ==
    /\ Serving(i)
    /\ IF streams[i].age = "idle"
         THEN TransportError(i, MarkPrivateGap(health)) /\ repair' = "due"
         ELSE /\ health' = MarkSnapshotAge(health, streams[i].age = "stale")
              /\ \/ UNCHANGED streams
                 \/ /\ Periodic
                    /\ streams' = [streams EXCEPT
                         ![i] = [@ EXCEPT !.job = "snapshots", !.read = FALSE,
                                          !.deep = NeedsRecentHistoryRepair(health')]]
              /\ UNCHANGED repair
    /\ UNCHANGED <<Outside, failures>>

----------------------------------------------------------------------------
(* reconcile_private inside the task.                                      *)

Task(i) == In(i, {"live", "repairing"})

\* refresh_account, refresh_positions, refresh_open_orders: a snapshot that is
\* not empty counts as a private message.
RefreshSnapshots(i) ==
    /\ Task(i)
    /\ streams[i].job = "snapshots"
    /\ \E h \in {health, ObservePrivateMessage(health)} : health' = ObserveRestSuccess(h)
    /\ streams' = [streams EXCEPT ![i].job = IF streams[i].deep THEN "history" ELSE "report"]
    /\ UNCHANGED <<Outside, repair, failures>>

\* execution_repair_scope reads the health anew.
LocalEvidence(i) ==
    \/ In(i, {"repairing"})
    \/ health.diverged
    \/ health.reason \in {"PrivateStreamGap", "ReconcileRequired", "StateDivergence"}

\* Fault: the history is read only for pending commands.
RefreshEvidenceSkips(i) ==
    /\ Task(i)
    /\ streams[i].job = "history"
    /\ streams' = [streams EXCEPT ![i].job = "report"]
    /\ UNCHANGED <<Outside, health, repair, failures>>

\* refresh_execution_repair_evidence, unless only pending commands matter.
RefreshEvidence(i) ==
    /\ Task(i)
    /\ streams[i].job = "history"
    /\ streams' = [streams EXCEPT ![i] = [@ EXCEPT !.job = "report", !.read = LocalEvidence(i)]]
    /\ IF LocalEvidence(i)
         THEN \E h \in {health, ObservePrivateMessage(health)} : health' = ObserveRestSuccess(h)
         ELSE UNCHANGED health
    /\ UNCHANGED <<Outside, repair, failures>>

\* The task goes on: back to its frames, or to the backoff.
Continue(s) ==
    [s EXCEPT !.job = "none", !.deep = FALSE, !.read = FALSE,
              !.state = IF @ = "repairing" THEN "backoff" ELSE @]

\* A REST call fails: the report says StillUncertain, the stale age is noted
\* after it, and the caller ignores the error.
ReconcileFails(i) ==
    /\ Task(i)
    /\ streams[i].job \in {"snapshots", "history"}
    /\ failures < MaxFailures
    /\ failures' = failures + 1
    /\ health' = MarkSnapshotAge(MarkReconcileRequired(health), TRUE)
    /\ repair' = IF repair = "due" THEN "failed" ELSE repair
    /\ streams' = [streams EXCEPT ![i] = Continue(@)]
    /\ UNCHANGED Outside

\* apply_reconcile_report: Synchronized, for nothing is pending.
FileReport(i) ==
    /\ Task(i)
    /\ streams[i].job = "report"
    /\ health' = MarkReconcileComplete(health)
    /\ repair' = IF streams[i].read THEN "none" ELSE repair
    /\ streams' = [streams EXCEPT ![i] = Continue(@)]
    /\ UNCHANGED <<Outside, failures>>

ReconcileStep(i) ==
    \/ RefreshSnapshots(i)
    \/ RefreshEvidence(i)
    \/ ReconcileFails(i)
    \/ FileReport(i)

----------------------------------------------------------------------------

\* reconnect_backoff, then the loop opens a new session.
Backoff(i) ==
    /\ In(i, {"backoff"})
    /\ streams' = [streams EXCEPT ![i].state = "starting"]
    /\ UNCHANGED <<Outside, health, repair, failures>>

\* What the task does in the poll during which it was aborted.
FinishPoll(i) ==
    /\ In(i, {"aborting"})
    /\ streams' = [streams EXCEPT ![i].state = "aborted"]
    /\ health' \in {health, ObservePrivateMessage(health), MarkPrivateGap(health),
                    ObserveRestSuccess(health)}
    /\ UNCHANGED <<Outside, repair, failures>>

RunBinancePrivateStream(i) ==
    \/ SetUp(i)
    \/ Disconnect(i)
    \/ Frame(i)
    \/ SequenceGap(i)
    \/ KeyExpires(i)
    \/ Quiet(i)
    \/ Maintenance(i)

RunBybitPrivateStream(i) ==
    \/ SetUp(i)
    \/ Disconnect(i)
    \/ Frame(i)
    \/ SequenceGap(i)
    \/ Pong(i)
    \/ Quiet(i)
    \/ Maintenance(i)

\* MEXC tracks no sequence numbers.
RunMexcPrivateStream(i) ==
    \/ SetUp(i)
    \/ Disconnect(i)
    \/ Frame(i)
    \/ Pong(i)
    \/ Quiet(i)
    \/ Maintenance(i)

RunPrivateStream(i) ==
    \/ Backoff(i)
    \/ FinishPoll(i)
    \/ ReconcileStep(i)
    \/ venue = "Binance" /\ RunBinancePrivateStream(i)
    \/ venue = "Bybit" /\ RunBybitPrivateStream(i)
    \/ venue = "Mexc" /\ RunMexcPrivateStream(i)

HubStep == EndHub \/ \E l \in Leases : HandleAcquire(l) \/ HandleRelease(l)

Next ==
    \/ \E l \in Leases : Acquire(l) \/ Acquired(l) \/ CancelAcquire(l) \/ DropLease(l)
    \/ DropClient
    \/ HubStep
    \/ \E i \in DOMAIN streams : RunPrivateStream(i)

SafetySpec == Init /\ [][Next]_vars

\* The runtime polls the hub, a caller whose answer is there and every spawned
\* task; timers fire, REST calls end (reqwest has a timeout).  Watchers, frames
\* and connections owe nothing.
Fairness ==
    /\ WF_vars(HubStep)
    /\ \A l \in Leases : WF_vars(Acquired(l))
    /\ \A i \in 1 .. Cardinality(Leases) :
         /\ WF_vars(i \in DOMAIN streams /\ (FinishPoll(i) \/ Backoff(i) \/ ReconcileStep(i)))
         /\ WF_vars(i \in DOMAIN streams /\ Quiet(i))
         /\ WF_vars(i \in DOMAIN streams /\ streams[i].age = "idle" /\ Maintenance(i))

Spec == SafetySpec /\ Fairness

----------------------------------------------------------------------------
(* Properties                                                              *)

\* A watch handle is never left with a stream that was aborted under it: the
\* release of another watcher does not stop the stream it shares.
HeldLeaseKeepsStream ==
    \A l \in Leases :
        watcher[l] = "held" =>
            current # 0 /\ ~In(current, {"aborting", "aborted"})

\* The hub keeps its promise to its watchers, the account being the topic.
Contract == INSTANCE LeaseContract WITH
                Needs <- [l \in Leases |-> {"account"}],
                granted <- active, carried <- IF current = 0 THEN {} ELSE {"account"}
KeepsContract == Contract!Spec

\* "shuts down when no lease remains": once every watch handle is gone the
\* account stream ends, also when it is in the middle of a reconcile.
UnusedStreamStops ==
    (\A l \in Leases : watcher[l] = "released") ~>
        (\A i \in DOMAIN streams : In(i, {"ended", "aborted"}))

\* "converts detected gaps into explicit divergence handling plus reconnect
\* flow": on Binance a session whose listen key ran out, so that no account
\* event can arrive, is torn down, though keepalive errors are ignored and
\* pings are still answered.
DeafSessionIsReplaced ==
    \A i \in 1 .. Cardinality(Leases) :
        LET deaf == i \in DOMAIN streams /\ In(i, {"live"}) /\ streams[i].deaf
        IN  venue = "Binance" /\ deaf ~> ~deaf

Completes ==
    \E i \in DOMAIN streams :
        /\ streams[i].job = "report"
        /\ streams'[i].job = "none"
        /\ streams'[i].state \in {"live", "backoff"}

\* The first reconcile that completes after a gap has read the recent
\* executions: no trade made while the stream was blind stays unknown, unless
\* the REST calls failed too or the stream was aborted.
GapIsRepairedFirst == [][ repair = "due" /\ Completes => repair' = "none" ]_vars
=============================================================================
