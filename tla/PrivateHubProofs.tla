-------------------------- MODULE PrivateHubProofs --------------------------
(***************************************************************************)
(* Proofs about PrivateHub for any set of leases, any reconnect limit and  *)
(* any number of failing reconciles.                                       *)
(***************************************************************************)
EXTENDS PrivateHub, SequenceTheorems, TLAPS

----------------------------------------------------------------------------
(* The inductive invariant.                                                *)

\* What the commands on their way to the hub say about their senders: an
\* Acquire has a caller, a Release comes from a handle that is gone.
InboxInv ==
    \A k \in DOMAIN inbox :
        IF inbox[k].type = "Acquire"
          THEN watcher[inbox[k].lease] # "idle"
          ELSE watcher[inbox[k].lease] = "released"

\* A lease that was granted and not given back is counted by the hub.
LeaseInv ==
    \A l \in Leases :
        /\ watcher[l] = "idle" => reply[l] = "none"
        /\ watcher[l] = "held" => reply[l] = "ok"
        /\ watcher[l] \in {"waiting", "held"} /\ reply[l] = "ok" => l \in active

\* The hub has a stream exactly while it counts a lease, and the one it has
\* was not told to stop.
CurrentInv ==
    /\ active = {} <=> current = 0
    /\ current # 0 => streams[current].state \notin {"aborting", "aborted"}

\* Streams the hub has let go of do nothing any more.
StoppedInv ==
    \A i \in DOMAIN streams :
        /\ i # current => streams[i].state \in {"ended", "aborting", "aborted"}
        /\ streams[i].state \notin {"live", "repairing"} => streams[i].job = "none"

\* A gap whose repair is due is in the hands of the current stream, which is
\* on its way to the executions, or has given up.
RepairInv ==
    repair = "due" =>
        /\ current # 0
        /\ \/ streams[current].state = "ended"
           \/ /\ streams[current].state = "repairing"
              /\ streams[current].job \in {"snapshots", "history", "report"}
              /\ streams[current].job = "snapshots" => streams[current].deep
              /\ streams[current].job = "report" => streams[current].read

HubInv == TypeOK /\ InboxInv /\ LeaseInv /\ CurrentInv /\ StoppedInv /\ RepairInv

----------------------------------------------------------------------------
(* What the operators of the model return.                                 *)

\* Every method of the health report that the streams call returns a report.
LEMMA HealthTypes ==
    ASSUME NEW h \in HealthReport
    PROVE  /\ ObservePrivateMessage(h) \in HealthReport
           /\ ObserveRestSuccess(h) \in HealthReport
           /\ MarkPrivateDisconnect(h) \in HealthReport
           /\ MarkPrivateGap(h) \in HealthReport
           /\ MarkReconcileRequired(h) \in HealthReport
           /\ MarkReconcileComplete(h) \in HealthReport
           /\ \A stale \in BOOLEAN : MarkSnapshotAge(h, stale) \in HealthReport
  <1> USE DEF HealthReport, Statuses, Reasons, Grade, GradeIf
  <1>1. ObservePrivateMessage(h) \in HealthReport
    BY DEF ObservePrivateMessage
  <1>2. ObserveRestSuccess(h) \in HealthReport
    BY DEF ObserveRestSuccess
  <1>3. MarkPrivateDisconnect(h) \in HealthReport
    BY DEF MarkPrivateDisconnect
  <1>4. MarkPrivateGap(h) \in HealthReport
    BY DEF MarkPrivateGap
  <1>5. MarkReconcileRequired(h) \in HealthReport
    BY DEF MarkReconcileRequired
  <1>6. MarkReconcileComplete(h) \in HealthReport
    BY DEF MarkReconcileComplete
  <1>7. ASSUME NEW stale \in BOOLEAN PROVE MarkSnapshotAge(h, stale) \in HealthReport
    BY DEF MarkSnapshotAge
  <1> QED BY <1>1, <1>2, <1>3, <1>4, <1>5, <1>6, <1>7

\* The report of a client that has just been built is one.
LEMMA FirstHealthType ==
    ObservePublicMessage(ObserveRestSuccess(DefaultHealth)) \in HealthReport
  BY DEF HealthReport, Statuses, Reasons, Grade, DefaultHealth, ObserveRestSuccess,
         ObservePublicMessage

\* A new stream, a closed one and an aborted one are streams.
LEMMA StreamTypes ==
    /\ NewStream \in Stream
    /\ \A state \in States : Closed(state) \in Stream
    /\ \A s \in Stream : Abort(s) \in Stream
    /\ 0 \in Attempts
  <1>1. 0 \in Attempts
    BY HubAssumption DEF Attempts
  <1>2. NewStream \in Stream
    BY <1>1 DEF NewStream, Stream, States
  <1>3. ASSUME NEW state \in States PROVE Closed(state) \in Stream
    BY <1>2 DEF Closed, Stream
  <1>4. ASSUME NEW s \in Stream PROVE Abort(s) \in Stream
    BY <1>3 DEF Abort, States
  <1> QED BY <1>1, <1>2, <1>3, <1>4

\* Abort stops any task: what it leaves has no reconcile left to do.
LEMMA AbortStops ==
    ASSUME NEW s \in Stream, s.state \notin {"live", "repairing"} => s.job = "none"
    PROVE  /\ Abort(s).state \in {"ended", "aborting", "aborted"}
           /\ Abort(s).job = "none"
  BY DEF Abort, Closed, NewStream, Stream, States

----------------------------------------------------------------------------
(* The hub and the watchers.                                               *)

\* A command added to the inbox keeps the others in their places.
LEMMA InboxAppend ==
    ASSUME TypeOK, NEW c \in Commands
    PROVE  /\ Append(inbox, c) \in Seq(Commands)
           /\ \A k \in DOMAIN Append(inbox, c) :
                 \/ k \in DOMAIN inbox /\ Append(inbox, c)[k] = inbox[k]
                 \/ Append(inbox, c)[k] = c
  BY DEF TypeOK

\* What is left of the inbox was in it before.
LEMMA InboxTail ==
    ASSUME TypeOK, inbox # << >>
    PROVE  /\ Head(inbox) = inbox[1]
           /\ 1 \in DOMAIN inbox
           /\ Tail(inbox) \in Seq(Commands)
           /\ \A k \in DOMAIN Tail(inbox) :
                 k + 1 \in DOMAIN inbox /\ Tail(inbox)[k] = inbox[k + 1]
  BY DEF TypeOK

\* A command in the inbox is a command.
LEMMA InboxMember ==
    ASSUME TypeOK, NEW k \in DOMAIN inbox
    PROVE  inbox[k].type \in {"Acquire", "Release"} /\ inbox[k].lease \in Leases
  <1>1. inbox[k] \in Commands
    BY DEF TypeOK
  <1> QED BY <1>1 DEF Commands

\* The steps of the watchers and of the client keep the invariant.
LEMMA WatcherSteps ==
    ASSUME HubInv, NEW l \in Leases,
           Acquire(l) \/ Acquired(l) \/ CancelAcquire(l) \/ DropLease(l) \/ DropClient
    PROVE  HubInv'
  <1> USE DEF HubInv
  <1>0. CurrentInv' /\ StoppedInv' /\ RepairInv'
    BY DEF CurrentInv, StoppedInv, RepairInv, Acquire, Acquired, CancelAcquire, DropLease,
           DropClient, hubVars
  <1>1. CASE Acquire(l)
    <2> DEFINE c == [type |-> "Acquire", lease |-> l]
    <2>1. c \in Commands
      BY DEF Commands
    <2>2. TypeOK'
      BY <1>1, <2>1, InboxAppend DEF Acquire, TypeOK, hubVars
    <2>3. InboxInv'
      BY <1>1, <2>1, InboxAppend, InboxMember DEF Acquire, InboxInv, TypeOK
    <2>4. LeaseInv'
      BY <1>1 DEF Acquire, LeaseInv, TypeOK, hubVars
    <2> QED BY <1>0, <2>2, <2>3, <2>4
  <1>2. CASE Acquired(l)
    <2>1. TypeOK'
      BY <1>2 DEF Acquired, TypeOK, hubVars
    <2>2. InboxInv'
      BY <1>2, InboxMember DEF Acquired, InboxInv, TypeOK
    <2>3. LeaseInv'
      BY <1>2 DEF Acquired, LeaseInv, TypeOK, hubVars
    <2> QED BY <1>0, <2>1, <2>2, <2>3
  <1>3. CASE CancelAcquire(l)
    <2>1. TypeOK'
      BY <1>3 DEF CancelAcquire, TypeOK, hubVars
    <2>2. InboxInv'
      BY <1>3, InboxMember DEF CancelAcquire, InboxInv, TypeOK
    <2>3. LeaseInv'
      BY <1>3 DEF CancelAcquire, LeaseInv, TypeOK, hubVars
    <2> QED BY <1>0, <2>1, <2>2, <2>3
  <1>4. CASE DropLease(l)
    <2> DEFINE c == [type |-> "Release", lease |-> l]
    <2>1. c \in Commands
      BY DEF Commands
    <2>2. TypeOK'
      BY <1>4, <2>1, InboxAppend DEF DropLease, TypeOK, hubVars
    <2>3. InboxInv'
      BY <1>4, <2>1, InboxAppend, InboxMember DEF DropLease, InboxInv, TypeOK
    <2>4. LeaseInv'
      BY <1>4 DEF DropLease, LeaseInv, TypeOK, hubVars
    <2> QED BY <1>0, <2>2, <2>3, <2>4
  <1>5. CASE DropClient
    BY <1>0, <1>5 DEF DropClient, TypeOK, InboxInv, LeaseInv, hubVars
  <1> QED BY <1>1, <1>2, <1>3, <1>4, <1>5
\* What AbortCurrent leaves: the same streams, none of them current, each told
\* to stop.
LEMMA AbortCurrentStops ==
    ASSUME HubInv, AbortCurrent
    PROVE  /\ streams' \in Seq(Stream)
           /\ current' = 0
           /\ StoppedInv'
           /\ repair' \in {"none", "failed"}
  <1> USE DEF HubInv
  <1>1. CASE current = 0
    BY <1>1 DEF AbortCurrent, TypeOK, StoppedInv
  <1>2. CASE current # 0
    <2>1. current \in 1 .. Len(streams) /\ streams[current] \in Stream
      BY <1>2 DEF TypeOK
    <2>2. Abort(streams[current]) \in Stream
      BY <2>1, StreamTypes
    <2>3. /\ Abort(streams[current]).state \in {"ended", "aborting", "aborted"}
          /\ Abort(streams[current]).job = "none"
      BY <2>1, AbortStops DEF StoppedInv, TypeOK
    <2>4. streams' = [streams EXCEPT ![current] = Abort(streams[current])]
      BY <1>2 DEF AbortCurrent
    <2>5. streams' \in Seq(Stream) /\ DOMAIN streams' = DOMAIN streams
      BY <2>1, <2>2, <2>4 DEF TypeOK
    <2>6. StoppedInv'
      BY <2>1, <2>3, <2>4, <2>5 DEF StoppedInv, TypeOK, AbortCurrent
    <2> QED BY <2>5, <2>6 DEF AbortCurrent, TypeOK
  <1> QED BY <1>1, <1>2

\* The hub's handling of an Acquire keeps the invariant.
LEMMA AcquireStep ==
    ASSUME HubInv, NEW l \in Leases, HandleAcquire(l)
    PROVE  HubInv'
  <1> USE DEF HubInv
  <1>1. inbox # << >> /\ inbox' = Tail(inbox) /\ inbox[1] = [type |-> "Acquire", lease |-> l]
    BY InboxTail DEF HandleAcquire, Received
  <1>2. watcher[l] # "idle"
    BY <1>1, InboxTail DEF InboxInv
  <1>3. InboxInv'
    BY <1>1, InboxTail DEF InboxInv, HandleAcquire
  <1>4. LeaseInv'
    BY <1>2 DEF LeaseInv, HandleAcquire, TypeOK
  <1>5. CASE current = 0
    <2>1. streams' = Append(streams, NewStream) /\ current' = Len(streams) + 1
      BY <1>5 DEF HandleAcquire
    <2>2. /\ streams' \in Seq(Stream)
          /\ Len(streams') = Len(streams) + 1
          /\ DOMAIN streams' = 1 .. Len(streams) + 1
          /\ \A i \in DOMAIN streams : streams'[i] = streams[i]
          /\ streams'[Len(streams) + 1] = NewStream
          /\ Len(streams) \in Nat
          /\ DOMAIN streams = 1 .. Len(streams)
      BY <2>1, StreamTypes DEF TypeOK
    <2>3. TypeOK'
      BY <2>1, <2>2, <1>1, InboxTail DEF TypeOK, HandleAcquire
    <2>4. CurrentInv'
      BY <2>1, <2>2 DEF CurrentInv, HandleAcquire, NewStream
    <2>5. StoppedInv'
      BY <1>5, <2>1, <2>2 DEF StoppedInv, NewStream
    <2>6. RepairInv'
      BY <1>5 DEF RepairInv, HandleAcquire
    <2> QED BY <1>3, <1>4, <2>3, <2>4, <2>5, <2>6
  <1>6. CASE current # 0
    <2>1. streams' = streams /\ current' = current /\ repair' = repair
      BY <1>6 DEF HandleAcquire
    <2>2. TypeOK'
      BY <2>1, <1>1, InboxTail DEF TypeOK, HandleAcquire
    <2>3. CurrentInv' /\ StoppedInv' /\ RepairInv'
      BY <1>6, <2>1 DEF CurrentInv, StoppedInv, RepairInv, HandleAcquire
    <2> QED BY <1>3, <1>4, <2>2, <2>3
  <1> QED BY <1>5, <1>6

\* The hub's handling of a Release keeps the invariant.
LEMMA ReleaseStep ==
    ASSUME HubInv, NEW l \in Leases, HandleRelease(l)
    PROVE  HubInv'
  <1> USE DEF HubInv
  <1>1. inbox # << >> /\ inbox' = Tail(inbox) /\ inbox[1] = [type |-> "Release", lease |-> l]
    BY InboxTail DEF HandleRelease, Received
  <1>2. watcher[l] = "released"
    BY <1>1, InboxTail DEF InboxInv
  <1>3. InboxInv'
    BY <1>1, InboxTail DEF InboxInv, HandleRelease
  <1>4. LeaseInv'
    BY <1>2 DEF LeaseInv, HandleRelease, TypeOK
  <1>5. CASE active = {l}
    <2>1. AbortCurrent /\ active' = {}
      BY <1>5 DEF HandleRelease
    <2>2. TypeOK'
      BY <2>1, <1>1, InboxTail, AbortCurrentStops DEF TypeOK, HandleRelease
    <2>3. CurrentInv' /\ StoppedInv' /\ RepairInv'
      BY <2>1, AbortCurrentStops DEF CurrentInv, RepairInv
    <2> QED BY <1>3, <1>4, <2>2, <2>3
  <1>6. CASE active # {l}
    <2>1. streams' = streams /\ current' = current /\ repair' = repair /\ active' # {}
      BY <1>6 DEF HandleRelease
    <2>2. TypeOK'
      BY <2>1, <1>1, InboxTail DEF TypeOK, HandleRelease
    <2>3. CurrentInv' /\ StoppedInv' /\ RepairInv'
      BY <2>1 DEF CurrentInv, StoppedInv, RepairInv, HandleRelease
    <2> QED BY <1>3, <1>4, <2>2, <2>3
  <1> QED BY <1>5, <1>6

\* The end of the hub keeps the invariant: no watcher is left that is owed one.
LEMMA EndStep ==
    ASSUME HubInv, EndHub
    PROVE  HubInv'
  <1> USE DEF HubInv
  <1>1. AbortCurrent /\ active' = {} /\ UNCHANGED callers
    BY DEF EndHub
  <1>2. TypeOK'
    <2>1. streams' \in Seq(Stream) /\ current' = 0 /\ repair' \in {"none", "due", "failed"}
      BY <1>1, AbortCurrentStops
    <2>2. current' \in 0 .. Len(streams')
      BY <2>1
    <2>3. hub' = FALSE /\ UNCHANGED <<venue, watcher, reply, inbox, client, health, failures>>
      BY DEF EndHub, callers
    <2> QED BY <1>1, <2>1, <2>2, <2>3 DEF TypeOK
  <1>3. CurrentInv' /\ StoppedInv' /\ RepairInv'
    BY <1>1, AbortCurrentStops DEF CurrentInv, RepairInv
  <1>4. InboxInv' /\ LeaseInv'
    BY <1>1 DEF InboxInv, LeaseInv, EndHub, callers
  <1> QED BY <1>2, <1>3, <1>4

----------------------------------------------------------------------------
(* The stream task.                                                        *)

\* What a step of stream i may make of it: an aborted poll only ends, no other
\* step looks like an abort, and a task that reads no frames reconciles nothing.
StreamMove(i, s) ==
    /\ streams[i].state \notin {"ended", "aborted"}
    /\ IF streams[i].state = "aborting" THEN s.state = "aborted"
       ELSE s.state \notin {"aborting", "aborted"}
    /\ s.state \notin {"live", "repairing"} => s.job = "none"

\* What a step of stream i may do to a repair: it may become due when the
\* stream goes repairing, or gives up, and stays due on the way to the report.
RepairMove(i, s) ==
    /\ streams[i].state = "aborting" => repair' = repair
    /\ streams[i].state # "aborting" /\ repair' = "due" =>
         \/ s.state = "ended"
         \/ /\ s.state = "repairing"
            /\ s.job \in {"snapshots", "history", "report"}
            /\ s.job = "snapshots" => s.deep
            /\ s.job = "report" => s.read

\* Stream i becomes s, and nothing outside the stream tasks changes.
StreamBecomes(i, s) ==
    /\ s \in Stream
    /\ streams' = [streams EXCEPT ![i] = s]
    /\ StreamMove(i, s)
    /\ RepairMove(i, s)
    /\ health' \in HealthReport
    /\ repair' \in {"none", "due", "failed"}
    /\ failures' \in 0 .. MaxFailures
    /\ UNCHANGED Outside

\* A task in a state other than these two is not the one a repair is due from.
LEMMA DueOnlyFrom ==
    ASSUME HubInv, NEW i \in DOMAIN streams, repair = "due",
           streams[i].state \notin {"ended", "aborting", "aborted"}
    PROVE  /\ i = current
           /\ streams[i].state = "repairing"
           /\ streams[i].job \in {"snapshots", "history", "report"}
           /\ streams[i].job = "snapshots" => streams[i].deep
           /\ streams[i].job = "report" => streams[i].read
  BY DEF HubInv, RepairInv, StoppedInv

\* An error of the transport leads to a repair or to the end of the task.
LEMMA TransportErrorStep ==
    ASSUME HubInv, NEW i \in DOMAIN streams, NEW h \in HealthReport,
           streams[i].state \in {"starting", "live"}, streams[i].job = "none",
           TransportError(i, h), UNCHANGED <<Outside, failures>>,
           repair' \in {repair, "due"}
    PROVE  \E s \in Stream : StreamBecomes(i, s)
  <1> USE DEF HubInv
  <1>0. streams[i] \in Stream /\ Closed("ended") \in Stream /\ Closed("repairing") \in Stream
    BY StreamTypes DEF TypeOK, States
  <1>1. CASE ~MayReconnect(streams[i])
    <2>1. streams' = [streams EXCEPT ![i] = Closed("ended")] /\ health' = h
      BY <1>1 DEF TransportError
    <2>2. StreamBecomes(i, Closed("ended"))
      BY <1>0, <2>1 DEF StreamBecomes, StreamMove, RepairMove, Closed, NewStream, TypeOK
    <2> QED BY <2>2, <1>0
  <1>2. CASE MayReconnect(streams[i])
    <2> DEFINE n == IF MaxReconnects = Unlimited THEN 0 ELSE streams[i].attempts + 1
               s == [Closed("repairing") EXCEPT !.job = "snapshots", !.deep = TRUE,
                                                !.attempts = n]
    <2>1. n \in Attempts
      BY <1>0, <1>2, HubAssumption DEF MayReconnect, Attempts, Stream
    <2>2. s \in Stream
      BY <2>1, <1>0 DEF Stream
    <2>3. streams' = [streams EXCEPT ![i] = s] /\ health' = MarkPrivateDisconnect(h)
      BY <1>2 DEF TransportError
    <2>4. health' \in HealthReport
      BY <2>3, HealthTypes
    <2>5. /\ s.state = "repairing"
          /\ s.job = "snapshots"
          /\ s.deep = TRUE
      BY DEF Closed, NewStream
    <2> HIDE DEF s
    <2>6. StreamBecomes(i, s)
      BY <2>2, <2>3, <2>4, <2>5 DEF StreamBecomes, StreamMove, RepairMove, TypeOK
    <2> QED BY <2>2, <2>6
  <1> QED BY <1>1, <1>2
\* The steps of a session keep to StreamBecomes.
LEMMA SessionSteps ==
    ASSUME HubInv, NEW i \in DOMAIN streams,
           \/ SetUp(i) \/ Disconnect(i) \/ Frame(i) \/ SequenceGap(i) \/ Pong(i)
           \/ KeyExpires(i) \/ Quiet(i) \/ Maintenance(i)
    PROVE  \E s \in Stream : StreamBecomes(i, s)
  <1> USE DEF HubInv, In, Serving
  <1> DEFINE Keeps(s) == /\ s \in Stream
                         /\ s.state = "live"
                         /\ streams' = [streams EXCEPT ![i] = s]
  <1>0. /\ streams[i] \in Stream
        /\ Closed("ended") \in Stream
        /\ Closed("ended").state = "ended"
        /\ Closed("ended").job = "none"
    BY StreamTypes DEF TypeOK, States, Closed, NewStream
  <1>a. ASSUME NEW s, Keeps(s), streams[i].state \in {"starting", "live"},
               streams[i].state = "starting" => streams[i].job = "none",
               health' \in HealthReport, UNCHANGED <<Outside, repair, failures>>
        PROVE  StreamBecomes(i, s)
    BY <1>a, DueOnlyFrom DEF StreamBecomes, StreamMove, RepairMove, TypeOK
  <1>b. ASSUME streams' = [streams EXCEPT ![i] = Closed("ended")],
               streams[i].state \in {"starting", "live"},
               health' = health, UNCHANGED <<Outside, repair, failures>>
        PROVE  StreamBecomes(i, Closed("ended"))
    BY <1>0, <1>b DEF StreamBecomes, StreamMove, RepairMove, TypeOK
  <1> HIDE DEF Keeps
  <1>1. CASE SetUp(i)
    <2>1. streams[i].state = "starting" /\ streams[i].job = "none"
      BY <1>1 DEF SetUp, StoppedInv
    <2>2. CASE \E deaf \in BOOLEAN : /\ streams' = [streams EXCEPT ![i] =
                                          [streams[i] EXCEPT !.state = "live", !.age = "fresh",
                                                             !.deaf = deaf]]
                                     /\ health' = health
      <3>1. PICK deaf \in BOOLEAN : /\ streams' = [streams EXCEPT ![i] =
                                          [streams[i] EXCEPT !.state = "live", !.age = "fresh",
                                                             !.deaf = deaf]]
                                    /\ health' = health
        BY <2>2
      <3> DEFINE s == [streams[i] EXCEPT !.state = "live", !.age = "fresh", !.deaf = deaf]
      <3>2. s \in Stream /\ s.state = "live"
        BY <1>0 DEF Stream, States
      <3>3. Keeps(s)
        BY <3>1, <3>2 DEF Keeps
      <3>4. health' \in HealthReport /\ UNCHANGED <<Outside, repair, failures>>
        BY <1>1, <3>1 DEF SetUp, TypeOK
      <3> HIDE DEF s
      <3>5. StreamBecomes(i, s)
        BY <1>a, <2>1, <3>3, <3>4
      <3> QED BY <3>2, <3>5
    <2>3. CASE streams' = [streams EXCEPT ![i] = Closed("ended")] /\ health' = health
      BY <1>0, <1>1, <1>b, <2>1, <2>3 DEF SetUp
    <2>4. CASE TransportError(i, health)
      BY <1>1, <2>1, <2>4, TransportErrorStep DEF SetUp, TypeOK
    <2> QED BY <1>1, <2>2, <2>3, <2>4 DEF SetUp
  <1>2. CASE Disconnect(i)
    BY <1>2, TransportErrorStep DEF Disconnect, TypeOK
  <1>3. CASE Frame(i)
    <2>1. CASE streams' = [streams EXCEPT ![i].age = "fresh"] /\ health' = ObservePrivateMessage(health)
      <3> DEFINE s == [streams[i] EXCEPT !.age = "fresh"]
      <3>1. Keeps(s)
        BY <1>0, <1>3, <2>1 DEF Keeps, Frame, Stream
      <3>2. health' \in HealthReport /\ UNCHANGED <<Outside, repair, failures>>
        BY <1>3, <2>1, HealthTypes DEF Frame, TypeOK
      <3> HIDE DEF s
      <3>3. StreamBecomes(i, s)
        BY <1>3, <1>a, <3>1, <3>2 DEF Frame
      <3> QED BY <3>1, <3>3 DEF Keeps
    <2>2. CASE streams' = [streams EXCEPT ![i] = Closed("ended")] /\ health' = health
      BY <1>0, <1>3, <1>b, <2>2 DEF Frame
    <2> QED BY <1>3, <2>1, <2>2 DEF Frame
  <1>4. CASE SequenceGap(i)
    BY <1>4, TransportErrorStep, HealthTypes DEF SequenceGap, TypeOK
  <1>5. CASE Pong(i)
    <2> DEFINE s == [streams[i] EXCEPT !.age = "fresh"]
    <2>1. Keeps(s)
      BY <1>0, <1>5 DEF Keeps, Pong, Stream
    <2>2. health' \in HealthReport /\ UNCHANGED <<Outside, repair, failures>>
      BY <1>5 DEF Pong, TypeOK
    <2> HIDE DEF s
    <2>3. StreamBecomes(i, s)
      BY <1>5, <1>a, <2>1, <2>2 DEF Pong
    <2> QED BY <2>1, <2>3 DEF Keeps
  <1>6. CASE KeyExpires(i)
    <2> DEFINE s == [streams[i] EXCEPT !.deaf = TRUE]
    <2>1. Keeps(s)
      BY <1>0, <1>6 DEF Keeps, KeyExpires, Stream
    <2>2. health' \in HealthReport /\ UNCHANGED <<Outside, repair, failures>>
      BY <1>6 DEF KeyExpires, TypeOK
    <2> HIDE DEF s
    <2>3. StreamBecomes(i, s)
      BY <1>6, <1>a, <2>1, <2>2 DEF KeyExpires
    <2> QED BY <2>1, <2>3 DEF Keeps
  <1>7. CASE Quiet(i)
    <2> DEFINE s == [streams[i] EXCEPT !.age = IF streams[i].age = "fresh" THEN "stale" ELSE "idle"]
    <2>1. Keeps(s)
      BY <1>0, <1>7 DEF Keeps, Quiet, Stream
    <2>2. health' \in HealthReport /\ UNCHANGED <<Outside, repair, failures>>
      BY <1>7 DEF Quiet, TypeOK
    <2> HIDE DEF s
    <2>3. StreamBecomes(i, s)
      BY <1>7, <1>a, <2>1, <2>2 DEF Quiet
    <2> QED BY <2>1, <2>3 DEF Keeps
  <1>8. CASE Maintenance(i)
    <2>1. CASE streams[i].age = "idle"
      BY <1>8, <2>1, TransportErrorStep, HealthTypes DEF Maintenance, TypeOK
    <2>2. CASE streams[i].age # "idle"
      <3>1. /\ health' \in HealthReport
            /\ UNCHANGED <<Outside, repair, failures>>
            /\ streams[i].state = "live"
        BY <1>8, <2>2, HealthTypes DEF Maintenance, TypeOK
      <3>2. CASE UNCHANGED streams
        <4>1. Keeps(streams[i])
          BY <1>0, <3>1, <3>2 DEF Keeps, TypeOK
        <4>2. StreamBecomes(i, streams[i])
          BY <1>a, <3>1, <4>1
        <4> QED BY <1>0, <4>2
      <3>3. CASE streams' = [streams EXCEPT
                    ![i] = [streams[i] EXCEPT !.job = "snapshots", !.read = FALSE,
                                              !.deep = NeedsRecentHistoryRepair(health')]]
        <4> DEFINE s == [streams[i] EXCEPT !.job = "snapshots", !.read = FALSE,
                                           !.deep = NeedsRecentHistoryRepair(health')]
        <4>1. NeedsRecentHistoryRepair(health') \in BOOLEAN
          BY DEF NeedsRecentHistoryRepair
        <4>2. Keeps(s)
          BY <1>0, <3>1, <3>3, <4>1 DEF Keeps, Stream
        <4> HIDE DEF s
        <4>3. StreamBecomes(i, s)
          BY <1>a, <3>1, <4>2
        <4> QED BY <4>2, <4>3 DEF Keeps
      <3> QED BY <1>8, <2>2, <3>2, <3>3 DEF Maintenance
    <2> QED BY <2>1, <2>2
  <1> QED BY <1>1, <1>2, <1>3, <1>4, <1>5, <1>6, <1>7, <1>8
\* The steps of the reconcile, the backoff and the poll of an aborted task keep
\* to StreamBecomes.
LEMMA ReconcileSteps ==
    ASSUME HubInv, NEW i \in DOMAIN streams,
           ReconcileStep(i) \/ Backoff(i) \/ FinishPoll(i)
    PROVE  \E s \in Stream : StreamBecomes(i, s)
  <1> USE DEF HubInv, In, Task
  <1>0. streams[i] \in Stream
    BY DEF TypeOK
  <1>1. CASE RefreshSnapshots(i)
    <2> DEFINE s == [streams[i] EXCEPT !.job = IF streams[i].deep THEN "history" ELSE "report"]
    <2>1. /\ s \in Stream
          /\ s.state = streams[i].state
          /\ s.job \in {"history", "report"}
          /\ s.job = "report" => ~streams[i].deep
      BY <1>0 DEF Stream
    <2>2. streams' = [streams EXCEPT ![i] = s]
      BY <1>1 DEF RefreshSnapshots
    <2>3. health' \in HealthReport
      BY <1>1, HealthTypes DEF RefreshSnapshots, TypeOK
    <2> HIDE DEF s
    <2>4. StreamBecomes(i, s)
      BY <1>1, <2>1, <2>2, <2>3, DueOnlyFrom
         DEF RefreshSnapshots, StreamBecomes, StreamMove, RepairMove, TypeOK
    <2> QED BY <2>1, <2>4
  <1>2. CASE RefreshEvidence(i)
    <2> DEFINE s == [streams[i] EXCEPT !.job = "report", !.read = LocalEvidence(i)]
    <2>1. LocalEvidence(i) \in BOOLEAN /\ (streams[i].state = "repairing" => LocalEvidence(i))
      BY DEF LocalEvidence
    <2>2. /\ s \in Stream
          /\ s.state = streams[i].state
          /\ s.job = "report"
          /\ s.read = LocalEvidence(i)
      BY <1>0, <2>1 DEF Stream
    <2>3. streams' = [streams EXCEPT ![i] = s]
      BY <1>2 DEF RefreshEvidence
    <2>4. health' \in HealthReport
      BY <1>2, HealthTypes DEF RefreshEvidence, TypeOK
    <2> HIDE DEF s
    <2>5. StreamBecomes(i, s)
      BY <1>2, <2>1, <2>2, <2>3, <2>4, DueOnlyFrom
         DEF RefreshEvidence, StreamBecomes, StreamMove, RepairMove, TypeOK
    <2> QED BY <2>2, <2>5
  <1>c. ASSUME streams[i].state \in {"live", "repairing"}
        PROVE  /\ Continue(streams[i]) \in Stream
               /\ Continue(streams[i]).state \in {"live", "backoff"}
               /\ Continue(streams[i]).job = "none"
    BY <1>0, <1>c DEF Continue, Stream, States
  <1>3. CASE ReconcileFails(i)
    <2> DEFINE s == Continue(streams[i])
    <2>1. streams' = [streams EXCEPT ![i] = s] /\ repair' # "due" /\ repair' \in {"none", "failed"}
      BY <1>3 DEF ReconcileFails, TypeOK
    <2>2. health' \in HealthReport
      BY <1>3, HealthTypes DEF ReconcileFails, TypeOK
    <2>3. failures' \in 0 .. MaxFailures
      BY <1>3, HubAssumption DEF ReconcileFails, TypeOK
    <2>4. StreamBecomes(i, s)
      BY <1>3, <1>c, <2>1, <2>2, <2>3 DEF ReconcileFails, StreamBecomes, StreamMove, RepairMove
    <2> QED BY <1>3, <1>c, <2>4 DEF ReconcileFails
  <1>4. CASE FileReport(i)
    <2> DEFINE s == Continue(streams[i])
    <2>1. streams' = [streams EXCEPT ![i] = s]
      BY <1>4 DEF FileReport
    <2>2. repair' # "due" /\ repair' \in {"none", "failed"}
      BY <1>4, DueOnlyFrom DEF FileReport, TypeOK
    <2>3. health' \in HealthReport
      BY <1>4, HealthTypes DEF FileReport, TypeOK
    <2>4. StreamBecomes(i, s)
      BY <1>4, <1>c, <2>1, <2>2, <2>3
         DEF FileReport, StreamBecomes, StreamMove, RepairMove, TypeOK
    <2> QED BY <1>4, <1>c, <2>4 DEF FileReport
  <1>5. CASE Backoff(i)
    <2> DEFINE s == [streams[i] EXCEPT !.state = "starting"]
    <2>1. s \in Stream /\ s.state = "starting" /\ s.job = "none"
      BY <1>0, <1>5 DEF Stream, States, Backoff, StoppedInv
    <2>2. streams' = [streams EXCEPT ![i] = s]
      BY <1>5 DEF Backoff
    <2> HIDE DEF s
    <2>3. StreamBecomes(i, s)
      BY <1>5, <2>1, <2>2, DueOnlyFrom
         DEF Backoff, StreamBecomes, StreamMove, RepairMove, TypeOK
    <2> QED BY <2>1, <2>3
  <1>6. CASE FinishPoll(i)
    <2> DEFINE s == [streams[i] EXCEPT !.state = "aborted"]
    <2>1. s \in Stream /\ s.state = "aborted" /\ s.job = "none"
      BY <1>0, <1>6 DEF Stream, States, FinishPoll, StoppedInv
    <2>2. streams' = [streams EXCEPT ![i] = s] /\ streams[i].state = "aborting"
      BY <1>6 DEF FinishPoll
    <2>3. health' \in HealthReport
      BY <1>6, HealthTypes DEF FinishPoll, TypeOK
    <2> HIDE DEF s
    <2>4. StreamBecomes(i, s)
      BY <1>6, <2>1, <2>2, <2>3 DEF FinishPoll, StreamBecomes, StreamMove, RepairMove, TypeOK
    <2> QED BY <2>1, <2>4
  <1> QED BY <1>1, <1>2, <1>3, <1>4, <1>5, <1>6 DEF ReconcileStep

\* Whatever venue's stream runs, its steps keep to StreamBecomes.
LEMMA StreamSteps ==
    ASSUME HubInv, NEW i \in DOMAIN streams, RunPrivateStream(i)
    PROVE  \E s \in Stream : StreamBecomes(i, s)
  BY SessionSteps, ReconcileSteps
     DEF RunPrivateStream, RunBinancePrivateStream, RunBybitPrivateStream, RunMexcPrivateStream

\* A step that keeps to StreamBecomes keeps the invariant.
LEMMA StreamKeepsInv ==
    ASSUME HubInv, NEW i \in DOMAIN streams, NEW s \in Stream, StreamBecomes(i, s)
    PROVE  HubInv'
  <1> USE DEF HubInv
  <1>1. /\ streams' = [streams EXCEPT ![i] = s]
        /\ UNCHANGED <<venue, watcher, reply, inbox, client, hub, active, current>>
    BY DEF StreamBecomes, Outside, callers, hubVars
  <1>2. /\ streams' \in Seq(Stream)
        /\ Len(streams') = Len(streams)
        /\ DOMAIN streams' = DOMAIN streams
        /\ streams'[i] = s
        /\ \A j \in DOMAIN streams : j # i => streams'[j] = streams[j]
    BY <1>1 DEF TypeOK
  <1>3. TypeOK'
    BY <1>1, <1>2 DEF TypeOK, StreamBecomes
  <1>4. InboxInv' /\ LeaseInv'
    BY <1>1 DEF InboxInv, LeaseInv
  <1>5. current = 0 \/ current \in DOMAIN streams
    BY DEF TypeOK
  <1>6. CurrentInv'
    BY <1>1, <1>2, <1>5 DEF CurrentInv, StreamBecomes, StreamMove
  <1>7. StoppedInv'
    BY <1>1, <1>2 DEF StoppedInv, StreamBecomes, StreamMove
  <1>8. RepairInv'
    <2>1. CASE streams[i].state = "aborting"
      <3>1. repair' = repair /\ (current # 0 => i # current)
        BY <2>1 DEF StreamBecomes, RepairMove, CurrentInv
      <3> QED BY <1>1, <1>2, <1>5, <3>1 DEF RepairInv
    <2>2. CASE streams[i].state # "aborting"
      <3>1. i = current
        BY <2>2 DEF StoppedInv, StreamBecomes, StreamMove
      <3>2. i # 0
        BY DEF TypeOK
      <3> QED BY <1>1, <1>2, <2>2, <3>1, <3>2 DEF RepairInv, StreamBecomes, RepairMove
    <2> QED BY <2>1, <2>2
  <1> QED BY <1>3, <1>4, <1>6, <1>7, <1>8

----------------------------------------------------------------------------
(* The theorems.                                                           *)

\* Every step of the system keeps the invariant.
LEMMA NextKeepsInv == HubInv /\ [Next]_vars => HubInv'
  <1> SUFFICES ASSUME HubInv, [Next]_vars PROVE HubInv'
    OBVIOUS
  <1>1. CASE \E l \in Leases : Acquire(l) \/ Acquired(l) \/ CancelAcquire(l) \/ DropLease(l)
    BY <1>1, WatcherSteps
  <1>2. CASE DropClient
    BY <1>2 DEF DropClient, HubInv, TypeOK, InboxInv, LeaseInv, CurrentInv, StoppedInv, RepairInv,
                hubVars
  <1>3. CASE HubStep
    BY <1>3, AcquireStep, ReleaseStep, EndStep DEF HubStep
  <1>4. CASE \E i \in DOMAIN streams : RunPrivateStream(i)
    BY <1>4, StreamSteps, StreamKeepsInv
  <1>5. CASE UNCHANGED vars
    BY <1>5 DEF vars, callers, hubVars, HubInv, TypeOK, InboxInv, LeaseInv, CurrentInv, StoppedInv,
                RepairInv
  <1> QED BY <1>1, <1>2, <1>3, <1>4, <1>5 DEF Next

\* The invariant of the private hub holds for any number of watchers, whatever
\* acquires, cancellations, releases, gaps and reconnects interleave.
THEOREM PrivateHubInvariant == Spec => []HubInv
  <1>1. Init => HubInv
    <2> SUFFICES ASSUME Init PROVE HubInv
      OBVIOUS
    <2>1. TypeOK
      BY FirstHealthType, HubAssumption DEF Init, TypeOK
    <2>2. InboxInv /\ LeaseInv /\ CurrentInv /\ StoppedInv /\ RepairInv
      BY DEF Init, InboxInv, LeaseInv, CurrentInv, StoppedInv, RepairInv
    <2> QED BY <2>1, <2>2 DEF HubInv
  <1> QED BY <1>1, NextKeepsInv, PTL DEF Spec, SafetySpec

\* Type correctness of the private hub and its streams.
THEOREM PrivateHubTypes == Spec => []TypeOK
  BY PrivateHubInvariant, PTL DEF HubInv

\* No watch handle is left with a stream that the hub aborted.
THEOREM HoldersKeepTheStream == Spec => []HeldLeaseKeepsStream
  <1>1. HubInv => HeldLeaseKeepsStream
    BY DEF HubInv, LeaseInv, CurrentInv, HeldLeaseKeepsStream, In
  <1> QED BY <1>1, PrivateHubInvariant, PTL

\* The first reconcile that completes after a gap has read the executions.
THEOREM FirstReconcileRepairs == Spec => GapIsRepairedFirst
  <1>1. HubInv /\ [Next]_vars => [repair = "due" /\ Completes => repair' = "none"]_vars
    <2> SUFFICES ASSUME HubInv, Next, repair = "due", Completes PROVE repair' = "none"
      OBVIOUS
    <2>1. PICK i \in DOMAIN streams : /\ streams[i].job = "report"
                                      /\ streams'[i].job = "none"
                                      /\ streams'[i].state \in {"live", "backoff"}
      BY DEF Completes
    <2>2. /\ i = current
          /\ streams[i].state = "repairing"
          /\ streams[i].read
      BY <2>1, DueOnlyFrom DEF HubInv, StoppedInv
    <2>3. streams' # streams
      BY <2>1
    <2>4. CASE \E l \in Leases : Acquire(l) \/ Acquired(l) \/ CancelAcquire(l) \/ DropLease(l)
      BY <2>3, <2>4 DEF Acquire, Acquired, CancelAcquire, DropLease
    <2>5. CASE DropClient
      BY <2>3, <2>5 DEF DropClient
    <2>6. CASE HubStep
      <3>1. i # 0 /\ streams[i] \in Stream
        BY DEF HubInv, TypeOK
      <3>2. ASSUME AbortCurrent PROVE FALSE
        <4>1. streams' = [streams EXCEPT ![i] = Abort(streams[i])]
          BY <2>2, <3>1, <3>2 DEF AbortCurrent
        <4>2. streams'[i].state = "aborting"
          BY <2>2, <4>1 DEF Abort, Closed, NewStream
        <4> QED BY <2>1, <4>2
      <3>3. ASSUME NEW l \in Leases, HandleAcquire(l) PROVE FALSE
        BY <2>2, <2>3, <3>1, <3>3 DEF HandleAcquire
      <3>4. ASSUME NEW l \in Leases, HandleRelease(l) PROVE FALSE
        BY <2>3, <3>2, <3>4 DEF HandleRelease
      <3> QED BY <2>6, <3>2, <3>3, <3>4 DEF HubStep, EndHub
    <2>7. CASE \E j \in DOMAIN streams : RunPrivateStream(j)
      <3>1. PICK j \in DOMAIN streams : RunPrivateStream(j)
        BY <2>7
      <3>2. PICK s \in Stream : StreamBecomes(j, s)
        BY <3>1, StreamSteps
      <3>3. j = i
        BY <2>1, <3>2 DEF StreamBecomes
      <3>4. ~Backoff(i) /\ ~FinishPoll(i) /\ ~RefreshSnapshots(i) /\ ~RefreshEvidence(i)
        BY <2>1, <2>2 DEF Backoff, FinishPoll, RefreshSnapshots, RefreshEvidence, In
      <3>5. ~ReconcileFails(i) /\ ~SetUp(i) /\ ~KeyExpires(i) /\ ~Quiet(i)
        BY <2>1, <2>2 DEF ReconcileFails, SetUp, KeyExpires, Quiet, In
      <3>6. ~Disconnect(i) /\ ~Frame(i) /\ ~SequenceGap(i) /\ ~Pong(i) /\ ~Maintenance(i)
        BY <2>2 DEF Disconnect, Frame, SequenceGap, Pong, Maintenance, Serving, In
      <3>7. FileReport(i)
        BY <3>1, <3>3, <3>4, <3>5, <3>6
           DEF RunPrivateStream, ReconcileStep, RunBinancePrivateStream, RunBybitPrivateStream,
               RunMexcPrivateStream
      <3> QED BY <2>2, <3>7 DEF FileReport
    <2> QED BY <2>4, <2>5, <2>6, <2>7 DEF Next
  <1> QED BY <1>1, PrivateHubInvariant, PTL DEF Spec, SafetySpec, GapIsRepairedFirst
----------------------------------------------------------------------------
(* The refinement of LeaseContract.                                        *)

\* The topics the contract sees.
Account == IF current = 0 THEN {} ELSE {"account"}

\* Each lease needs the account, so any set of leases needs at most that.
LEMMA AccountCovers ==
    ASSUME NEW ls \in SUBSET Leases, NEW topics \in {{}, {"account"}},
           ls = {} <=> topics = {}
    PROVE  Contract!MayCarry(ls, topics)
  <1>1. Contract!NeededBy(ls) \subseteq {"account"}
    BY DEF Contract!NeededBy
  <1>2. ls = {} => Contract!NeededBy(ls) = {}
    BY DEF Contract!NeededBy
  <1> QED BY <1>1, <1>2 DEF Contract!MayCarry

\* The private hub implements what a hub promises its watchers: it grants and
\* revokes leases one by one and runs a stream exactly while one is granted.
THEOREM PrivateHubKeepsContract == Spec => KeepsContract
  <1>1. Init => Contract!Init
    BY DEF Init, Contract!Init
  <1>2. HubInv /\ HubInv' /\ [Next]_vars => [Contract!Next]_<<active, Account>>
    <2> SUFFICES ASSUME HubInv, HubInv', [Next]_vars
                 PROVE  Contract!Next \/ UNCHANGED <<active, Account>>
      OBVIOUS
    <2>0. /\ active' \in SUBSET Leases
          /\ Account' \in {{}, {"account"}}
          /\ active' = {} <=> Account' = {}
      BY DEF HubInv, TypeOK, CurrentInv, Account
    <2>1. Contract!MayCarry(active', Account')
      BY <2>0, AccountCovers
    <2>2. ASSUME NEW l \in Leases, HandleAcquire(l)
          PROVE  Contract!Next \/ UNCHANGED <<active, Account>>
      <3>1. CASE l \in active
        BY <2>2, <3>1 DEF HandleAcquire, HubInv, CurrentInv, Account
      <3>2. CASE l \notin active
        <4>1. Contract!Grant(l)
          BY <2>1, <2>2, <3>2 DEF HandleAcquire, Contract!Grant, Account
        <4> QED BY <4>1 DEF Contract!Next
      <3> QED BY <3>1, <3>2
    <2>3. ASSUME NEW l \in Leases, HandleRelease(l)
          PROVE  Contract!Next
      <3>1. Contract!Revoke(l)
        BY <2>1, <2>3 DEF HandleRelease, Contract!Revoke, Account
      <3> QED BY <3>1 DEF Contract!Next
    <2>4. ASSUME EndHub PROVE Contract!Next
      BY <2>4 DEF EndHub, AbortCurrent, Contract!Next, Contract!Close
    <2>5. ASSUME NEW i \in DOMAIN streams, RunPrivateStream(i)
          PROVE  UNCHANGED <<active, Account>>
      BY <2>5, StreamSteps DEF StreamBecomes, Outside, hubVars, Account
    <2>6. ASSUME NEW l \in Leases, Acquire(l) \/ Acquired(l) \/ CancelAcquire(l) \/ DropLease(l)
          PROVE  UNCHANGED <<active, Account>>
      BY <2>6 DEF Acquire, Acquired, CancelAcquire, DropLease, hubVars, Account
    <2>7. ASSUME DropClient \/ UNCHANGED vars
          PROVE  UNCHANGED <<active, Account>>
      BY <2>7 DEF DropClient, vars, hubVars, Account
    <2> QED BY <2>2, <2>3, <2>4, <2>5, <2>6, <2>7 DEF Next, HubStep
  <1> QED BY <1>1, <1>2, PrivateHubInvariant, PTL
          DEF Spec, SafetySpec, KeepsContract, Contract!Spec, Account
=============================================================================
