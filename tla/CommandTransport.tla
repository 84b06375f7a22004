------------------------- MODULE CommandTransport -------------------------
(***************************************************************************)
(* The command websocket of bat-markets (crates/bat-markets/src/transport.rs) *)
(*                                                                         *)
(* Callers share one CommandTransportHub.  The hub keeps at most one       *)
(* current session behind an async mutex; every session is a task that     *)
(* owns a socket, an unbounded command channel and a map of requests that  *)
(* wait for their reply.  A caller runs request_text: take or open a       *)
(* session, push the request into its channel, wait for the answer under a *)
(* timeout, and on failure evict the session and perhaps try once more.    *)
(*                                                                         *)
(* A request is identified with its caller: next_request_id never hands    *)
(* out the same id twice, and a caller makes one call.  Request payloads   *)
(* are not modelled; a reply is its kind.                                  *)
(***************************************************************************)
EXTENDS Naturals, Sequences, FiniteSets

CONSTANTS
    Requests,     \* the calls of request_text
    NoRequest,    \* nobody: the hub mutex is free
    MaxSessions,  \* bound: sockets the venue accepts in one behaviour
    ReplyKinds    \* what the venue may answer, a subset of AllReplyKinds

AllReplyKinds == {"accept", "reject", "garbled"}

ASSUME TransportAssumption ==
    /\ NoRequest \notin Requests
    /\ MaxSessions \in Nat
    /\ ReplyKinds \subseteq AllReplyKinds

Sessions == 1 .. MaxSessions
None == 0

VARIABLES
    hub,       \* CommandTransportHub.session: the current session or None
    lock,      \* holder of the mutex around it, kept across the connect
    task,      \* life of each session's task
    queue,     \* SessionCommands pushed into a session's channel, not yet received
    pending,   \* requests of a session that were written and wait for a reply
    pc,        \* where each call stands in request_text
    attempt,   \* its loop variable
    held,      \* the Arc of a session the call holds
    slot,      \* the oneshot through which the session answers the call
    outcome,   \* what the call is about to return, or has returned
    wire,      \* frames on their way to the venue, per socket
    replies,   \* replies on their way back, per socket
    written,   \* history: frames written for a request
    executed   \* history: how often the venue carried the request out

hubVars    == <<hub, lock>>
taskVars   == <<task, queue, pending>>
callVars   == <<pc, attempt, held, slot, outcome>>
venueVars  == <<wire, replies, executed>>
vars == <<hubVars, taskVars, callVars, venueVars, written>>

PCs == {"idle", "session", "connecting", "send", "await", "invalidate",
        "done", "dropped"}
Outcomes == {"none", "Unavailable", "Uncertain"} \cup AllReplyKinds
SlotValues == {"empty", "failed", "closed"} \cup AllReplyKinds

\* The requests that wait in a session's channel.
Members(q) == {q[i] : i \in DOMAIN q}

TypeOK ==
    /\ hub \in Sessions \cup {None}
    /\ lock \in Requests \cup {NoRequest}
    /\ task \in [Sessions -> {"unborn", "running", "ended"}]
    /\ queue \in [Sessions -> Seq(Requests)]
    /\ pending \in [Sessions -> SUBSET Requests]
    /\ pc \in [Requests -> PCs]
    /\ attempt \in [Requests -> 0 .. 1]
    /\ held \in [Requests -> Sessions \cup {None}]
    /\ slot \in [Requests -> SlotValues]
    /\ outcome \in [Requests -> Outcomes]
    /\ wire \in [Sessions -> SUBSET Requests]
    /\ replies \in [Sessions -> SUBSET [id : Requests, kind : AllReplyKinds]]
    /\ written \in [Requests -> Nat]
    /\ executed \in [Requests -> Nat]

TransportInit ==
    /\ hub = None
    /\ lock = NoRequest
    /\ task = [s \in Sessions |-> "unborn"]
    /\ queue = [s \in Sessions |-> << >>]
    /\ pending = [s \in Sessions |-> {}]
    /\ pc = [r \in Requests |-> "idle"]
    /\ attempt = [r \in Requests |-> 0]
    /\ held = [r \in Requests |-> None]
    /\ slot = [r \in Requests |-> "empty"]
    /\ outcome = [r \in Requests |-> "none"]
    /\ wire = [s \in Sessions |-> {}]
    /\ replies = [s \in Sessions |-> {}]
    /\ written = [r \in Requests |-> 0]
    /\ executed = [r \in Requests |-> 0]

----------------------------------------------------------------------------
(* The caller: request_text, session, connect_session, request,            *)
(* invalidate_session.  One action per stretch between two awaits.         *)

\* request_text is called.
RequestText(r) ==
    /\ pc[r] = "idle"
    /\ pc' = [pc EXCEPT ![r] = "session"]
    /\ UNCHANGED <<hubVars, taskVars, attempt, held, slot, outcome, venueVars, written>>

\* session(): the mutex is free and holds a session; it need not be alive.
ReuseSession(r) ==
    /\ pc[r] = "session"
    /\ lock = NoRequest
    /\ hub # None
    /\ held' = [held EXCEPT ![r] = hub]
    /\ pc' = [pc EXCEPT ![r] = "send"]
    /\ UNCHANGED <<hubVars, taskVars, attempt, slot, outcome, venueVars, written>>

\* Fault: the hub does not hold its mutex across the connect.
StartConnectUnlocked(r) ==
    /\ pc[r] = "session"
    /\ hub = None
    /\ lock' = r
    /\ pc' = [pc EXCEPT ![r] = "connecting"]
    /\ UNCHANGED <<hub, taskVars, attempt, held, slot, outcome, venueVars, written>>

\* session(): no session, so connect while holding the mutex.
StartConnect(r) ==
    /\ pc[r] = "session"
    /\ lock = NoRequest
    /\ hub = None
    /\ lock' = r
    /\ pc' = [pc EXCEPT ![r] = "connecting"]
    /\ UNCHANGED <<hub, taskVars, attempt, held, slot, outcome, venueVars, written>>

\* connect_session() succeeds: spawn the task, publish the session, unlock.
\* Sessions are numbered in the order in which they are opened.
ConnectSession(r, s) ==
    /\ pc[r] = "connecting"
    /\ task[s] = "unborn"
    /\ \A t \in Sessions : t < s => task[t] # "unborn"
    /\ task' = [task EXCEPT ![s] = "running"]
    /\ hub' = s
    /\ lock' = NoRequest
    /\ held' = [held EXCEPT ![r] = s]
    /\ pc' = [pc EXCEPT ![r] = "send"]
    /\ UNCHANGED <<queue, pending, attempt, slot, outcome, venueVars, written>>

\* connect_session() or the authentication fails: `?` returns at once, with
\* no second attempt.
ConnectFails(r) ==
    /\ pc[r] = "connecting"
    /\ lock' = NoRequest
    /\ outcome' = [outcome EXCEPT ![r] = "Unavailable"]
    /\ pc' = [pc EXCEPT ![r] = "done"]
    /\ UNCHANGED <<hub, taskVars, attempt, held, slot, venueVars, written>>

\* Fault: the result of the channel's send is ignored.
SendRequestUnchecked(r) ==
    /\ pc[r] = "send"
    /\ queue' = [queue EXCEPT ![held[r]] = Append(@, r)]
    /\ pc' = [pc EXCEPT ![r] = "await"]
    /\ UNCHANGED <<hubVars, task, pending, attempt, held, slot, outcome, venueVars, written>>

\* request(): the channel's receiver lives, the request is queued.
SendRequest(r) ==
    /\ pc[r] = "send"
    /\ task[held[r]] = "running"
    /\ queue' = [queue EXCEPT ![held[r]] = Append(@, r)]
    /\ pc' = [pc EXCEPT ![r] = "await"]
    /\ UNCHANGED <<hubVars, task, pending, attempt, held, slot, outcome, venueVars, written>>

\* request(): the session task is gone; nothing was queued.
SendFails(r) ==
    /\ pc[r] = "send"
    /\ task[held[r]] # "running"
    /\ outcome' = [outcome EXCEPT ![r] = "Unavailable"]
    /\ pc' = [pc EXCEPT ![r] = "invalidate"]
    /\ UNCHANGED <<hubVars, taskVars, attempt, held, slot, venueVars, written>>

\* request(): the reply arrives within the timeout; the Arc is dropped.
ResponseArrives(r) ==
    /\ pc[r] = "await"
    /\ slot[r] \in AllReplyKinds
    /\ outcome' = [outcome EXCEPT ![r] = slot[r]]
    /\ held' = [held EXCEPT ![r] = None]
    /\ pc' = [pc EXCEPT ![r] = "done"]
    /\ UNCHANGED <<hubVars, taskVars, attempt, slot, venueVars, written>>

\* request(): the session failed the request, or dropped its sender.
ResponseLost(r) ==
    /\ pc[r] = "await"
    /\ slot[r] \in {"failed", "closed"}
    /\ outcome' = [outcome EXCEPT ![r] = "Uncertain"]
    /\ pc' = [pc EXCEPT ![r] = "invalidate"]
    /\ UNCHANGED <<hubVars, taskVars, attempt, held, slot, venueVars, written>>

\* Fault: a timeout is reported as Unavailable, which is retried.
RequestTimeoutUnavailable(r) ==
    /\ pc[r] = "await"
    /\ slot[r] = "empty"
    /\ outcome' = [outcome EXCEPT ![r] = "Unavailable"]
    /\ pc' = [pc EXCEPT ![r] = "invalidate"]
    /\ UNCHANGED <<hubVars, taskVars, attempt, held, slot, venueVars, written>>

\* Fault: the answer is awaited without a timeout while the session lives.
RequestTimeoutOnlyIfDead(r) ==
    /\ pc[r] = "await"
    /\ slot[r] = "empty"
    /\ task[held[r]] # "running"
    /\ outcome' = [outcome EXCEPT ![r] = "Uncertain"]
    /\ pc' = [pc EXCEPT ![r] = "invalidate"]
    /\ UNCHANGED <<hubVars, taskVars, attempt, held, slot, venueVars, written>>

\* request(): timeout polls the answer first, so it fires on an empty slot.
RequestTimeout(r) ==
    /\ pc[r] = "await"
    /\ slot[r] = "empty"
    /\ outcome' = [outcome EXCEPT ![r] = "Uncertain"]
    /\ pc' = [pc EXCEPT ![r] = "invalidate"]
    /\ UNCHANGED <<hubVars, taskVars, attempt, held, slot, venueVars, written>>

\* Fault: whatever session is current is evicted.
InvalidateAnySession(r) ==
    /\ pc[r] = "invalidate"
    /\ lock = NoRequest
    /\ hub' = None
    /\ held' = [held EXCEPT ![r] = None]
    /\ IF outcome[r] = "Unavailable" /\ attempt[r] = 0
         THEN /\ attempt' = [attempt EXCEPT ![r] = 1]
              /\ outcome' = [outcome EXCEPT ![r] = "none"]
              /\ pc' = [pc EXCEPT ![r] = "session"]
         ELSE /\ pc' = [pc EXCEPT ![r] = "done"]
              /\ UNCHANGED <<attempt, outcome>>
    /\ UNCHANGED <<lock, taskVars, slot, venueVars, written>>

\* Fault: an unavailable session is retried without end.
InvalidateSessionAlwaysRetries(r) ==
    /\ pc[r] = "invalidate"
    /\ lock = NoRequest
    /\ hub' = IF hub = held[r] THEN None ELSE hub
    /\ held' = [held EXCEPT ![r] = None]
    /\ IF outcome[r] = "Unavailable"
         THEN /\ attempt' = [attempt EXCEPT ![r] = @ + 1]
              /\ outcome' = [outcome EXCEPT ![r] = "none"]
              /\ pc' = [pc EXCEPT ![r] = "session"]
         ELSE /\ pc' = [pc EXCEPT ![r] = "done"]
              /\ UNCHANGED <<attempt, outcome>>
    /\ UNCHANGED <<lock, taskVars, slot, venueVars, written>>

\* invalidate_session(): evict the session only if it is still the current
\* one, then retry a first Unavailable or return.
InvalidateSession(r) ==
    /\ pc[r] = "invalidate"
    /\ lock = NoRequest
    /\ hub' = IF hub = held[r] THEN None ELSE hub
    /\ held' = [held EXCEPT ![r] = None]
    /\ IF outcome[r] = "Unavailable" /\ attempt[r] = 0
         THEN /\ attempt' = [attempt EXCEPT ![r] = 1]
              /\ outcome' = [outcome EXCEPT ![r] = "none"]
              /\ pc' = [pc EXCEPT ![r] = "session"]
         ELSE /\ pc' = [pc EXCEPT ![r] = "done"]
              /\ UNCHANGED <<attempt, outcome>>
    /\ UNCHANGED <<lock, taskVars, slot, venueVars, written>>

\* The caller's future is dropped at an await: the mutex and the Arc go, the
\* request stays wherever it already is.
DropCall(r) ==
    /\ pc[r] \in {"session", "connecting", "await", "invalidate"}
    /\ pc' = [pc EXCEPT ![r] = "dropped"]
    /\ lock' = IF lock = r THEN NoRequest ELSE lock
    /\ held' = [held EXCEPT ![r] = None]
    /\ UNCHANGED <<hub, taskVars, attempt, slot, outcome, venueVars, written>>

----------------------------------------------------------------------------
(* The session task: run_command_ws_session.                               *)

\* Answers sent when the task returns: `failed` gets an explicit error from
\* fail_pending, everything else it still owes an answer loses its sender.
CloseSlots(s, failed) ==
    slot' = [r \in Requests |->
               IF slot[r] # "empty" THEN slot[r]
               ELSE IF r \in failed THEN "failed"
               ELSE IF r \in pending[s] \cup Members(queue[s]) THEN "closed"
               ELSE "empty"]

EndTask(s) ==
    /\ task' = [task EXCEPT ![s] = "ended"]
    /\ queue' = [queue EXCEPT ![s] = << >>]
    /\ pending' = [pending EXCEPT ![s] = {}]
    /\ replies' = [replies EXCEPT ![s] = {}]

\* recv: write the frame, then remember the request.
WriteFrame(s) ==
    /\ task[s] = "running"
    /\ queue[s] # << >>
    /\ queue' = [queue EXCEPT ![s] = Tail(@)]
    /\ pending' = [pending EXCEPT ![s] = @ \cup {Head(queue[s])}]
    /\ wire' = [wire EXCEPT ![s] = @ \cup {Head(queue[s])}]
    /\ written' = [written EXCEPT ![Head(queue[s])] = @ + 1]
    /\ UNCHANGED <<hubVars, task, callVars, replies, executed>>

\* recv: ws.send fails, perhaps after the bytes left; the task returns.
WriteFails(s) ==
    /\ task[s] = "running"
    /\ queue[s] # << >>
    /\ \E left \in SUBSET {Head(queue[s])} :
         /\ wire' = [wire EXCEPT ![s] = @ \cup left]
         /\ written' = [r \in Requests |->
                          IF r \in left THEN written[r] + 1 ELSE written[r]]
    /\ CloseSlots(s, {})
    /\ EndTask(s)
    /\ UNCHANGED <<hubVars, pc, attempt, held, outcome, executed>>

\* Fault: a reply goes to some waiting request, not to the one it names.
ReadReplyAnyWaiter(s, reply) ==
    /\ task[s] = "running"
    /\ reply \in replies[s]
    /\ replies' = [replies EXCEPT ![s] = @ \ {reply}]
    /\ \E r \in pending[s] :
         /\ pending' = [pending EXCEPT ![s] = @ \ {r}]
         /\ slot' = IF slot[r] = "empty" THEN [slot EXCEPT ![r] = reply.kind] ELSE slot
    /\ UNCHANGED <<hubVars, task, queue, pc, attempt, held, outcome, wire, executed, written>>

\* A text frame: route the reply by its id; a reply nobody waits for (a late
\* one, a repeated one) is ignored.  The venue may repeat a reply.
ReadReply(s, reply) ==
    /\ task[s] = "running"
    /\ reply \in replies[s]
    /\ \E gone \in SUBSET {reply} : replies' = [replies EXCEPT ![s] = @ \ gone]
    /\ pending' = [pending EXCEPT ![s] = @ \ {reply.id}]
    /\ slot' = IF reply.id \in pending[s] /\ slot[reply.id] = "empty"
                 THEN [slot EXCEPT ![reply.id] = reply.kind]
                 ELSE slot
    /\ UNCHANGED <<hubVars, task, queue, pc, attempt, held, outcome, wire, executed, written>>

\* The stream ends, a read fails or the peer closes: fail_pending, return.
ReadFails(s) ==
    /\ task[s] = "running"
    /\ CloseSlots(s, pending[s])
    /\ EndTask(s)
    /\ UNCHANGED <<hubVars, pc, attempt, held, outcome, wire, executed, written>>

\* A heartbeat or pong cannot be sent: the task returns without fail_pending.
HeartbeatFails(s) ==
    /\ task[s] = "running"
    /\ CloseSlots(s, {})
    /\ EndTask(s)
    /\ UNCHANGED <<hubVars, pc, attempt, held, outcome, wire, executed, written>>

\* Fault: an abandoned session first waits for the replies it is owed.
CloseSessionAfterReplies(s) ==
    /\ task[s] = "running"
    /\ queue[s] = << >>
    /\ pending[s] = {}
    /\ hub # s
    /\ \A r \in Requests : held[r] # s
    /\ CloseSlots(s, {})
    /\ EndTask(s)
    /\ UNCHANGED <<hubVars, pc, attempt, held, outcome, wire, executed, written>>

\* recv returns None: the channel is drained and every Arc is gone.
CloseSession(s) ==
    /\ task[s] = "running"
    /\ queue[s] = << >>
    /\ hub # s
    /\ \A r \in Requests : held[r] # s
    /\ CloseSlots(s, {})
    /\ EndTask(s)
    /\ UNCHANGED <<hubVars, pc, attempt, held, outcome, wire, executed, written>>

----------------------------------------------------------------------------
(* The venue.  It may carry out a frame long after the socket that brought *)
(* it failed; a frame it never handles was lost.                           *)

VenueHandles(s, r, kind) ==
    /\ r \in wire[s]
    /\ wire' = [wire EXCEPT ![s] = @ \ {r}]
    /\ \E effect \in CASE kind = "accept" -> {1}
                       [] kind = "reject" -> {0}
                       [] OTHER -> {0, 1} :
         executed' = [executed EXCEPT ![r] = @ + effect]
    /\ replies' = IF task[s] = "running"
                    THEN [replies EXCEPT ![s] = @ \cup {[id |-> r, kind |-> kind]}]
                    ELSE replies
    /\ UNCHANGED <<hubVars, taskVars, callVars, written>>

----------------------------------------------------------------------------

CallStep(r) ==
    \/ ReuseSession(r)
    \/ StartConnect(r)
    \/ \E s \in Sessions : ConnectSession(r, s)
    \/ ConnectFails(r)
    \/ SendRequest(r)
    \/ SendFails(r)
    \/ ResponseArrives(r)
    \/ ResponseLost(r)
    \/ RequestTimeout(r)
    \/ InvalidateSession(r)

SessionStep(s) ==
    \/ WriteFrame(s)
    \/ WriteFails(s)
    \/ \E reply \in replies[s] : ReadReply(s, reply)
    \/ ReadFails(s)
    \/ HeartbeatFails(s)
    \/ CloseSession(s)

VenueStep ==
    \E s \in Sessions, r \in Requests, kind \in ReplyKinds : VenueHandles(s, r, kind)

TransportNext ==
    \/ \E r \in Requests : RequestText(r) \/ CallStep(r) \/ DropCall(r)
    \/ \E s \in Sessions : SessionStep(s)
    \/ VenueStep

\* The runtime polls every woken task, so a call's own steps and the close
\* of an unreferenced session are weakly fair, and the mutex is a FIFO queue,
\* so a call that waits for it gets it (strong fairness).  The venue, the
\* network and the caller owe nothing.  In particular nothing makes a connect
\* end: connect_async is awaited without a timeout, with the mutex held.
TransportFairness ==
    /\ \A r \in Requests :
         /\ WF_vars(SendRequest(r) \/ SendFails(r))
         /\ WF_vars(ResponseArrives(r) \/ ResponseLost(r) \/ RequestTimeout(r))
         /\ SF_vars(ReuseSession(r) \/ StartConnect(r) \/ InvalidateSession(r))
    /\ \A s \in Sessions :
         /\ WF_vars(WriteFrame(s) \/ WriteFails(s))
         /\ WF_vars(CloseSession(s))

TransportSpec == TransportInit /\ [][TransportNext]_vars /\ TransportFairness

----------------------------------------------------------------------------
(* The parts of the inductive invariant behind the safety properties.      *)

\* A call holds the Arc of an opened session exactly while it uses it.
HeldInv ==
    /\ hub # None => task[hub] # "unborn"
    /\ \A r \in Requests :
         IF pc[r] \in {"send", "await", "invalidate"}
           THEN held[r] \in Sessions /\ task[held[r]] # "unborn"
           ELSE held[r] = None

\* The mutex is held across an await only by the call that connects.
LockInv ==
    \A r \in Requests :
        /\ lock = r <=> pc[r] = "connecting"
        /\ pc[r] = "connecting" => hub = None

\* Until a call gets past its send it has no outcome.
OutcomeInv ==
    \A r \in Requests :
        pc[r] \in {"idle", "session", "connecting", "send", "await"} => outcome[r] = "none"

NoDuplicates(q) == \A i, j \in DOMAIN q : q[i] = q[j] => i = j

\* Only a running task owns queued or pending requests, and queues each once.
TaskInv ==
    \A s \in Sessions :
        /\ NoDuplicates(queue[s])
        /\ task[s] # "running" => queue[s] = << >> /\ pending[s] = {}

\* Nothing has happened to the request yet outside its call.
Fresh(r) ==
    /\ written[r] = 0
    /\ slot[r] = "empty"
    /\ \A s \in Sessions : r \notin Members(queue[s]) /\ r \notin pending[s]

\* A call before its send, and a call that failed as Unavailable, is fresh.
FreshInv ==
    \A r \in Requests :
        pc[r] \in {"idle", "session", "connecting", "send"} \/ outcome[r] = "Unavailable"
            => Fresh(r)

----------------------------------------------------------------------------
(* Properties                                                              *)

\* A request that failed as Unavailable is the one the caller may send again
\* over REST: it was never written to a socket and sits in no channel from
\* which a session could still write it (request_text's two attempts,
\* invalidate_session and every way a session task can end).
UnavailableNeverWritten ==
    \A r \in Requests :
        outcome[r] = "Unavailable" =>
            /\ written[r] = 0
            /\ \A s \in Sessions : r \notin Members(queue[s])

\* However calls retry, time out or are dropped, request_text writes at most
\* one frame for a request, counting frames still waiting in a channel.
WrittenAtMostOnce ==
    \A r \in Requests :
        /\ written[r] <= 1
        /\ written[r] = 1 => \A s \in Sessions : r \notin Members(queue[s])
        /\ \A s, t \in Sessions :
             r \in Members(queue[s]) \cap Members(queue[t]) => s = t

\* A reply returned by request_text is the venue's verdict on this very
\* request: replies are routed by id and never to another caller.
ReplyIsOwnVerdict ==
    \A r \in Requests :
        /\ outcome[r] = "accept" => executed[r] = 1
        /\ outcome[r] = "reject" => executed[r] = 0 /\ \A s \in Sessions : r \notin wire[s]

\* While a call waits on an empty oneshot, its session's task is alive and
\* still holds its sender: no way of ending a task (close of a session
\* evicted by somebody else included) leaves a waiting call behind.
WaiterIsOwedAnswer ==
    \A r \in Requests :
        pc[r] = "await" /\ slot[r] = "empty" =>
            /\ held[r] # None
            /\ task[held[r]] = "running"
            /\ r \in pending[held[r]] \cup Members(queue[held[r]])

\* The hub forgets a session only on behalf of a call that saw this very
\* session fail: a slow loser never evicts the successor that another call
\* has already opened (the Arc::ptr_eq of invalidate_session).
EvictsOnlyTheFailedSession ==
    [][ hub # None /\ hub' # hub =>
          /\ hub' = None
          /\ \E r \in Requests : pc[r] = "invalidate" /\ held[r] = hub ]_vars

\* No two sessions are ever current or being opened at once: a connect runs
\* under the mutex and only when the hub has no session.
ConnectsOneAtATime ==
    \A r \in Requests :
        pc[r] = "connecting" => lock = r /\ hub = None

\* The environment's part: no connect stays open for ever.  The code does not
\* enforce it; a peer that accepts the TCP connection and then stays silent in
\* the TLS or the websocket handshake keeps connect_async waiting.
ConnectsEnd ==
    \A q \in Requests : []<>(pc[q] # "connecting")

\* As long as no connect hangs, every call ends: request_text returns within
\* its timeout, its two attempts and the waits for the mutex, whatever happens
\* to the frames, the replies and the sessions, unless its caller drops it.
CallsReturn ==
    ConnectsEnd =>
        \A r \in Requests : pc[r] = "session" ~> pc[r] \in {"done", "dropped"}

\* Every call ends, connects included: what a "request and socket timeout
\* policy" with a ws_handshake_ms (config.rs) leads one to expect of
\* request_text.
EveryCallReturns ==
    \A r \in Requests : pc[r] = "session" ~> pc[r] \in {"done", "dropped"}

\* An evicted session whose users are gone closes its socket and ends its
\* task: sessions are not leaked.
OrphanSessionsEnd ==
    \A s \in Sessions :
        (task[s] = "running" /\ hub # s /\ \A r \in Requests : held[r] # s)
            ~> task[s] = "ended"

\* The inductive invariant: every safety property above follows from it.
TransportInv ==
    /\ TypeOK
    /\ HeldInv
    /\ LockInv
    /\ OutcomeInv
    /\ TaskInv
    /\ FreshInv
    /\ WrittenAtMostOnce
    /\ WaiterIsOwedAnswer
============================================================================
