----------------------------- MODULE EventLanes -----------------------------
(***************************************************************************)
(* How a caller follows what the client does for it.  On the command lane: *)
(* the rate limiter every write passes, the broadcast channel on which the *)
(* lifecycle of a write is published, and PendingCommandHandle, which      *)
(* picks its own events out of that channel (runtime.rs, facade.rs,        *)
(* entry.rs).  On the public and private lanes: a typed watcher that       *)
(* subscribes to the channel, asks the hub for a lease and then reads      *)
(* (stream.rs).  Handles and watchers differ in what they do when they     *)
(* fall behind: a handle reports an error, a watcher goes on silently, on  *)
(* the public lane as on the private one.                                  *)
(*                                                                         *)
(* How a write reaches its receipt is the subject of CommandSubmission, how*)
(* a recovery ends that of CommandRecovery; here both are open.  Commands  *)
(* carry different order, client order or request ids, so their receipts   *)
(* differ.                                                                 *)
(***************************************************************************)
EXTENDS Naturals, Sequences, FiniteSets

CONSTANTS
    Commands,
    FromAck,        \* create, amend, cancel, close: the handle gets the runtime's ack
    Followed,       \* the commands whose handle the caller uses
    CommandBurst,   \* the configured burst; 0 is accepted
    Capacity,       \* capacity of a broadcast channel
    RecoveryFails,  \* whether a reconcile may end in an error
    MaxForeign,     \* bound: receipts published by classify_command_json
    MaxData         \* bound: events on the data lane

ASSUME LanesAssumption ==
    /\ FromAck \subseteq Commands /\ Followed \subseteq Commands
    /\ IsFiniteSet(Commands)
    /\ CommandBurst \in Nat
    /\ Capacity \in Nat \ {0}
    /\ RecoveryFails \in BOOLEAN
    /\ MaxForeign \in Nat /\ MaxData \in Nat

VARIABLES
    using,      \* the lane this behaviour exercises: they share nothing
    tokens,     \* RateLimiterState.tokens; a tick of time refills one
    ticks,      \* ticks since the start, counted up to the number of commands
    phase,      \* where the command's function stands
    status,     \* the status of its receipt
    recovery,   \* where its recovery task stands
    lane,       \* every event ever sent on the command channel
    foreign,    \* receipts published by classify_command_json
    handle,     \* the command's handle
    data,       \* every event ever sent on the public or private channel
    watcher     \* a typed watcher of that lane

limiterVars == <<using, tokens, ticks>>
commandVars == <<limiterVars, phase, status, recovery, lane, foreign, handle>>
dataVars == <<data, watcher>>
vars == <<commandVars, dataVars>>

\* CommandLaneEvent.  acknowledged_at is 0 for the runtime's reading of the
\* clock and 1 for a later millisecond.
Event(kind, c, s) == [kind |-> kind, command |-> c, status |-> s, at |-> 0]
Events == [kind : {"Ack", "Receipt", "RecoveryScheduled", "RecoveryCompleted"},
           command : Commands,
           status : {"Accepted", "UnknownExecution", "Synchronized", "StillUncertain"},
           at : {0}]
Calls == {"none", "receipt", "next_lifecycle", "resolved"}

\* Fault: the configured burst is used as it is.
LimiterBurstUnclamped == CommandBurst

\* CommandRateLimiter::new
LimiterBurst == IF CommandBurst = 0 THEN 1 ELSE CommandBurst

TypeOK ==
    /\ using \in {"command", "public", "private"}
    /\ tokens \in 0 .. LimiterBurst
    /\ ticks \in 0 .. Cardinality(Commands)
    /\ phase \in [Commands -> {"new", "acquire", "asleep", "sent", "answered", "held", "refused"}]
    /\ status \in [Commands -> {"none", "Accepted", "UnknownExecution"}]
    /\ recovery \in [Commands -> {"none", "running", "Synchronized", "StillUncertain", "Err"}]
    /\ lane \in Seq(Events)
    /\ foreign \in 0 .. MaxForeign
    /\ handle \in [Commands ->
          [next : Nat, at : {0, 1}, initial : BOOLEAN, call : Calls,
           verdict : {"none", "Accepted", "UnknownExecution", "Err"},
           read : SUBSET Nat, lost : SUBSET Nat]]
    /\ data \in Seq({"mine", "other"})
    /\ watcher \in [stage : {"idle", "subscribed", "held"}, next : Nat, granted : Nat,
                    got : SUBSET (1 .. Len(data)), skipped : SUBSET (1 .. Len(data))]

Init ==
    /\ using \in {"command", "public", "private"}
    /\ tokens = LimiterBurst
    /\ ticks = 0
    /\ phase = [c \in Commands |-> "new"]
    /\ status = [c \in Commands |-> "none"]
    /\ recovery = [c \in Commands |-> "none"]
    /\ lane = << >>
    /\ foreign = 0
    /\ handle = [c \in Commands |-> [next |-> 0, at |-> 0, initial |-> TRUE, call |-> "none",
                                     verdict |-> "none", read |-> {}, lost |-> {}]]
    /\ data = << >>
    /\ watcher = [stage |-> "idle", next |-> 0, granted |-> 0, got |-> {}, skipped |-> {}]

\* The oldest event a channel still holds.
Oldest(channel) == IF Len(channel) > Capacity THEN Len(channel) - Capacity + 1 ELSE 1

\* The event belongs to the lifecycle of the command: its ack, the scheduling
\* and the end of its recovery.
About(c, n) == lane[n].command = c /\ lane[n].kind # "Receipt"

----------------------------------------------------------------------------
(* The rate limiter.                                                       *)

\* Fault: a command that had to sleep goes on without looking again.
TickGrants ==
    /\ tokens' = IF tokens < LimiterBurst THEN tokens + 1 ELSE tokens
    /\ ticks' = IF ticks < Cardinality(Commands) THEN ticks + 1 ELSE ticks
    /\ phase' = [c \in Commands |-> IF phase[c] = "asleep" THEN "sent" ELSE phase[c]]
    /\ UNCHANGED <<using, status, recovery, lane, foreign, handle, dataVars>>

\* Time passes; what it refills is credited at the next acquire, at most the
\* burst in all.  Once every command is through nothing depends on it.
Tick ==
    /\ using = "command"
    /\ tokens' = IF tokens < LimiterBurst THEN tokens + 1 ELSE tokens
    /\ ticks' = IF ticks < Cardinality(Commands) THEN ticks + 1 ELSE ticks
    /\ phase' = [c \in Commands |-> IF phase[c] = "asleep" THEN "acquire" ELSE phase[c]]
    /\ \E c \in Commands : phase[c] \in {"new", "acquire", "asleep"}
    /\ UNCHANGED <<using, status, recovery, lane, foreign, handle, dataVars>>

\* CommandRateLimiter::acquire: take a token, or sleep without the lock and
\* compete again.
Acquire(c) ==
    /\ phase[c] = "acquire"
    /\ IF tokens >= 1
         THEN /\ tokens' = tokens - 1
              /\ phase' = [phase EXCEPT ![c] = "sent"]
         ELSE /\ phase' = [phase EXCEPT ![c] = "asleep"]
              /\ UNCHANGED tokens
    /\ UNCHANGED <<using, ticks, status, recovery, lane, foreign, handle, dataVars>>

----------------------------------------------------------------------------
(* A command and its handle.                                               *)

\* create_order and its siblings: subscribe first, then call the runtime.
Submit(c) ==
    /\ using = "command"
    /\ phase[c] = "new"
    /\ phase' = [phase EXCEPT ![c] = "acquire"]
    /\ handle' = [handle EXCEPT ![c].next = Len(lane) + 1]
    /\ UNCHANGED <<limiterVars, status, recovery, lane, foreign, dataVars>>

\* The runtime returns an error: no event, no handle.
Refuse(c) ==
    /\ phase[c] = "sent"
    /\ phase' = [phase EXCEPT ![c] = "refused"]
    /\ UNCHANGED <<limiterVars, status, recovery, lane, foreign, handle, dataVars>>

\* apply_command_receipt: there is no await between its events.
ApplyCommandReceipt(c) ==
    /\ phase[c] = "sent"
    /\ phase' = [phase EXCEPT ![c] = "answered"]
    /\ \E s \in {"Accepted", "UnknownExecution"} :
         /\ status' = [status EXCEPT ![c] = s]
         /\ lane' = lane \o <<Event("Ack", c, s), Event("Receipt", c, s)>>
                         \o (IF s = "UnknownExecution"
                               THEN <<Event("RecoveryScheduled", c, s)>> ELSE << >>)
         /\ recovery' = [recovery EXCEPT ![c] = IF s = "UnknownExecution" THEN "running" ELSE @]
    /\ UNCHANGED <<limiterVars, foreign, handle, dataVars>>

\* The spawned reconcile ends; a failed one publishes nothing.
RecoveryEnds(c) ==
    /\ recovery[c] = "running"
    /\ \/ \E o \in {"Synchronized", "StillUncertain"} :
            /\ recovery' = [recovery EXCEPT ![c] = o]
            /\ lane' = Append(lane, Event("RecoveryCompleted", c, o))
       \/ /\ RecoveryFails
          /\ recovery' = [recovery EXCEPT ![c] = "Err"]
          /\ UNCHANGED lane
    /\ UNCHANGED <<limiterVars, phase, status, foreign, handle, dataVars>>

\* classify_command_json publishes a receipt, here with the ids of a command
\* that is followed: any other is passed over like another command's.
ClassifyCommandJson(c) ==
    /\ using = "command" /\ c \in Followed
    /\ foreign < MaxForeign
    /\ foreign' = foreign + 1
    /\ lane' = Append(lane, Event("Receipt", c, "Accepted"))
    /\ UNCHANGED <<limiterVars, phase, status, recovery, handle, dataVars>>

\* Fault: every handle is built from the receipt.
ReturnHandleRestamped(c) ==
    /\ phase[c] = "answered"
    /\ phase' = [phase EXCEPT ![c] = "held"]
    /\ \E at \in {0, 1} : handle' = [handle EXCEPT ![c].at = at]
    /\ UNCHANGED <<limiterVars, status, recovery, lane, foreign, dataVars>>

\* Fault: the receiver is created with the handle, when the answer is there.
ReturnHandleSubscribing(c) ==
    /\ phase[c] = "answered"
    /\ phase' = [phase EXCEPT ![c] = "held"]
    /\ \E at \in IF c \in FromAck THEN {0} ELSE {0, 1} :
         handle' = [handle EXCEPT ![c].at = at, ![c].next = Len(lane) + 1]
    /\ UNCHANGED <<limiterVars, status, recovery, lane, foreign, dataVars>>

\* command_handle_from_ack keeps the ack that was published;
\* command_handle_from_receipt builds another one and reads the clock again.
ReturnHandle(c) ==
    /\ phase[c] = "answered"
    /\ phase' = [phase EXCEPT ![c] = "held"]
    /\ \E at \in IF c \in FromAck THEN {0} ELSE {0, 1} : handle' = [handle EXCEPT ![c].at = at]
    /\ UNCHANGED <<limiterVars, status, recovery, lane, foreign, dataVars>>

\* The three calls; receipt() and resolved() may answer at once.
CallReceipt(c) ==
    /\ c \in Followed /\ phase[c] = "held" /\ handle[c].call = "none"
    /\ handle' = IF handle[c].initial
                   THEN [handle EXCEPT ![c].initial = FALSE]
                   ELSE [handle EXCEPT ![c].call = "receipt"]
    /\ UNCHANGED <<limiterVars, phase, status, recovery, lane, foreign, dataVars>>

CallNextLifecycle(c) ==
    /\ c \in Followed /\ phase[c] = "held" /\ handle[c].call = "none"
    /\ handle' = [handle EXCEPT ![c].call = "next_lifecycle"]
    /\ UNCHANGED <<limiterVars, phase, status, recovery, lane, foreign, dataVars>>

CallResolved(c) ==
    /\ c \in Followed /\ phase[c] = "held" /\ handle[c].call = "none"
    /\ handle' = IF status[c] # "UnknownExecution"
                   THEN [handle EXCEPT ![c].verdict = status[c]]
                   ELSE [handle EXCEPT ![c].call = "resolved"]
    /\ UNCHANGED <<limiterVars, phase, status, recovery, lane, foreign, dataVars>>

\* The caller drops the future; recv is cancel safe.
CancelCall(c) ==
    /\ handle[c].call # "none"
    /\ handle' = [handle EXCEPT ![c].call = "none"]
    /\ UNCHANGED <<limiterVars, phase, status, recovery, lane, foreign, dataVars>>

\* matches_lifecycle: the whole ack is compared.
Matches(c, event) == event.kind # "Receipt" /\ event.command = c /\ event.at = handle[c].at

\* receipt_after_recovery
ReceiptAfterRecovery(o) == IF o = "Synchronized" THEN "Accepted" ELSE "UnknownExecution"

\* Fault: a handle that fell behind goes on silently, as a watcher does.
RecvLaggedSilently(c) ==
    /\ handle[c].next < Oldest(lane)
    /\ handle' = [handle EXCEPT ![c].next = Oldest(lane)]

\* What is left to read when the channel has overwritten some of it: each of
\* the three calls returns the lag as an error.  `lost` remembers what of the
\* command's lifecycle that error stands for.
RecvLagged(c) ==
    LET h == handle[c]
    IN  /\ h.next < Oldest(lane)
        /\ handle' = [handle EXCEPT ![c] = [h EXCEPT
              !.next = Oldest(lane),
              !.lost = h.lost \cup {n \in h.next .. Oldest(lane) - 1 : About(c, n)},
              !.verdict = IF h.call = "resolved" THEN "Err" ELSE h.verdict,
              !.call = "none"]]

\* One turn of the loop of the call under way: receipt() looks for a receipt
\* with its ids, next_lifecycle() for an event with its ack, resolved() for a
\* RecoveryCompleted among those; anything else is passed over for good.
\* `read` remembers which events of the command's lifecycle it took.
RecvEvent(c) ==
    LET h == handle[c]
        event == lane[h.next]
        mine == Matches(c, event)
        completed == mine /\ event.kind = "RecoveryCompleted"
        returns == \/ h.call = "receipt" /\ event.kind = "Receipt" /\ event.command = c
                   \/ h.call = "next_lifecycle" /\ mine
                   \/ h.call = "resolved" /\ completed
    IN  /\ h.next \in Oldest(lane) .. Len(lane)
        /\ handle' = [handle EXCEPT ![c] = [h EXCEPT
              !.next = h.next + 1,
              !.read = IF About(c, h.next) THEN h.read \cup {h.next} ELSE h.read,
              !.verdict = IF h.call = "resolved" /\ completed
                            THEN ReceiptAfterRecovery(event.status) ELSE h.verdict,
              !.call = IF returns THEN "none" ELSE h.call]]

Recv(c) ==
    /\ handle[c].call # "none"
    /\ RecvLagged(c) \/ RecvEvent(c)
    /\ UNCHANGED <<limiterVars, phase, status, recovery, lane, foreign, dataVars>>

----------------------------------------------------------------------------
(* A typed watcher of the public or private lane.                          *)

\* The stream, or an ingest_*_json of the application, publishes an event.
PublishData ==
    /\ using \in {"public", "private"}
    /\ Len(data) < MaxData
    /\ \E e \in {"mine", "other"} : data' = Append(data, e)
    /\ UNCHANGED <<commandVars, watcher>>

\* watch_*: create the receiver, then ask the hub.
Subscribe ==
    /\ using \in {"public", "private"}
    /\ watcher.stage = "idle"
    /\ watcher' = [watcher EXCEPT !.stage = "subscribed", !.next = Len(data) + 1]
    /\ UNCHANGED <<commandVars, data>>

\* The hub grants the lease: from here on its stream runs.
Grant ==
    /\ watcher.stage = "subscribed"
    /\ watcher' = [watcher EXCEPT !.stage = "held", !.granted = Len(data)]
    /\ UNCHANGED <<commandVars, data>>

\* Fault: recv subscribes anew, so it starts with the newest event.
WatcherRecvNewest ==
    /\ watcher.stage = "held"
    /\ watcher.next <= Len(data)
    /\ watcher' = [watcher EXCEPT
          !.next = Len(data) + 1,
          !.got = IF data[Len(data)] = "mine" THEN @ \cup {Len(data)} ELSE @]
    /\ UNCHANGED <<commandVars, data>>

\* recv_public_event or recv_private_event, then the filter of the typed recv:
\* a lagging receiver goes on with the oldest event that is left.
WatcherRecv ==
    /\ watcher.stage = "held"
    /\ watcher.next <= Len(data)
    /\ LET from == IF watcher.next < Oldest(data) THEN Oldest(data) ELSE watcher.next
       IN  watcher' = [watcher EXCEPT
              !.next = from + 1,
              !.skipped = @ \cup (watcher.next .. from - 1),
              !.got = IF data[from] = "mine" THEN @ \cup {from} ELSE @]
    /\ UNCHANGED <<commandVars, data>>

----------------------------------------------------------------------------

Next ==
    \/ Tick
    \/ \E c \in Commands :
         \/ Submit(c) \/ Acquire(c) \/ Refuse(c) \/ ApplyCommandReceipt(c)
         \/ RecoveryEnds(c) \/ ClassifyCommandJson(c) \/ ReturnHandle(c)
         \/ CallReceipt(c) \/ CallNextLifecycle(c) \/ CallResolved(c)
         \/ CancelCall(c) \/ Recv(c)
    \/ PublishData \/ Subscribe \/ Grant \/ WatcherRecv

SafetySpec == Init /\ [][Next]_vars

\* Time passes, the runtime polls its tasks, a receiver with something to read
\* wakes its task.
Spec ==
    /\ SafetySpec
    /\ WF_vars(Tick)
    /\ \A c \in Commands : WF_vars(Acquire(c)) /\ WF_vars(Recv(c)) /\ WF_vars(RecoveryEnds(c))

----------------------------------------------------------------------------
(* Properties                                                              *)

\* The limiter lets no more writes through than its burst and the time that
\* passed allow, however the waiting commands race for each refilled token.
RateBound ==
    ticks < Cardinality(Commands) =>
        tokens + Cardinality({c \in Commands : phase[c] \in {"sent", "answered", "held", "refused"}})
            <= LimiterBurst + ticks

\* Every command gets its token although a sleeper has no place in a queue and
\* the configured burst may be 0.
CommandsGetThrough ==
    \A c \in Commands : phase[c] = "acquire" ~> phase[c] \notin {"acquire", "asleep"}

\* From the answer of the venue on, also after the caller has its handle, each
\* event of the command's lifecycle is accounted for: a call of the caller has
\* read it; or the channel still holds it ahead of the receiver; or Capacity
\* newer events overwrote it, and a call has reported that as an error or the
\* receiver stands before the hole, so that the next call will.  An event that
\* was published between the write and the return of the handle is no exception
\* (the receiver exists before the write, facade.rs).
HandleMissesNothing ==
    \A c \in Commands : phase[c] \in {"answered", "held"} =>
        \A n \in 1 .. Len(lane) : About(c, n) =>
            \/ n \in handle[c].read
            \/ n >= Oldest(lane) /\ n >= handle[c].next
            \/ n < Oldest(lane) /\ (n \in handle[c].lost \/ n >= handle[c].next)

\* What a caller of resolved() waits for, still ahead of it.
CompletionAhead(c) ==
    /\ handle[c].call = "resolved"
    /\ \E n \in handle[c].next .. Len(lane) :
         n >= 1 /\ lane[n].kind = "RecoveryCompleted" /\ lane[n].command = c

\* A caller in resolved() whose completion has been published and not been read
\* by an earlier call gets an answer, or an error if the channel overwrote it.
ResolvedReturns ==
    \A c \in FromAck : CompletionAhead(c) ~> handle[c].call = "none"

\* The same for every command, as the documentation of resolved() has it:
\* "UnknownExecution receipts wait for a matching recovery completion and then
\* map the reconcile report into the best known final status".
EveryResolvedReturns ==
    \A c \in Commands : CompletionAhead(c) ~> handle[c].call = "none"

\* The events that concern the watcher and that its receiver has passed since
\* the grant of its lease.
Passed == {n \in watcher.granted + 1 .. watcher.next - 1 : data[n] = "mine"}

\* On the public lane, whose policy lets events be lost, a watcher receives from
\* its grant on every event that concerns it, those published before acquire
\* returned included, unless Capacity newer events had overwritten it.
WatcherMissesNothing ==
    using = "public" /\ watcher.stage = "held" =>
        /\ Passed \subseteq watcher.got \cup watcher.skipped
        /\ \A n \in watcher.skipped : n < Oldest(data)

\* "private state stays lossless at the model level", and the policy of the
\* private lane says `lossless: true`: no private event is passed over.
PrivateLaneIsLossless ==
    using = "private" /\ watcher.stage = "held" => Passed \subseteq watcher.got
=============================================================================
