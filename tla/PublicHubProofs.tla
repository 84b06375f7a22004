--------------------------- MODULE PublicHubProofs ---------------------------
(***************************************************************************)
(* Proofs about PublicHub for any leases, instruments, kinds of data and   *)
(* reconnect limit, on every venue.                                        *)
(***************************************************************************)
EXTENDS PublicHub, SequenceTheorems, TLAPS

----------------------------------------------------------------------------
(* The inductive invariant.                                                *)

\* What the commands on their way to the hub say about their senders: an
\* Acquire has a caller, a Release comes from a handle that is gone.
InboxInv ==
    \A k \in DOMAIN inbox :
        IF inbox[k].type = "Acquire"
          THEN watcher[inbox[k].lease] # "idle"
          ELSE watcher[inbox[k].lease] = "released"

\* A lease that was granted and not given back is counted by the hub.
LeaseInv ==
    \A l \in Leases :
        /\ watcher[l] = "idle" => reply[l] = "none"
        /\ watcher[l] = "held" => reply[l] = "ok"
        /\ watcher[l] \in {"waiting", "held"} /\ reply[l] = "ok" => l \in active

\* The plan is never older than the set of leases.
PlanInv == plan = RoutePublicSubscriptions(active)

\* A route of the plan has a stream, which was asked for what the plan says; a
\* route that is not in the plan has none.
CurrentInv ==
    \A r \in Routes :
        IF plan[r] = NoSubscription THEN current[r] = 0
        ELSE current[r] \in DOMAIN streams[r] /\ streams[r][current[r]].sub = plan[r]

\* Streams the hub has let go of were told to stop.
StoppedInv ==
    \A r \in Routes : \A i \in DOMAIN streams[r] :
        i # current[r] => streams[r][i].state \in {"ended", "aborting", "aborted"}

HubInv == TypeOK /\ InboxInv /\ LeaseInv /\ PlanInv /\ CurrentInv /\ StoppedInv

----------------------------------------------------------------------------
(* What the operators of the model return.                                 *)

\* Every method of the health report that the streams call returns a report.
LEMMA HealthTypes ==
    ASSUME NEW h \in HealthReport
    PROVE  /\ ObservePublicMessage(h) \in HealthReport
           /\ ObserveRestSuccess(h) \in HealthReport
           /\ MarkPublicDisconnect(h) \in HealthReport
           /\ MarkPublicGap(h) \in HealthReport
  <1> USE DEF HealthReport, Statuses, Reasons, Grade, GradeIf
  <1>1. ObservePublicMessage(h) \in HealthReport
    BY DEF ObservePublicMessage
  <1>2. ObserveRestSuccess(h) \in HealthReport
    BY DEF ObserveRestSuccess
  <1>3. MarkPublicDisconnect(h) \in HealthReport
    BY DEF MarkPublicDisconnect
  <1>4. MarkPublicGap(h) \in HealthReport
    BY DEF MarkPublicGap
  <1> QED BY <1>1, <1>2, <1>3, <1>4

\* The report of a client that has just been built is one.
LEMMA FirstHealthType == ObserveRestSuccess(DefaultHealth) \in HealthReport
  BY DEF HealthReport, Statuses, Reasons, Grade, DefaultHealth, ObserveRestSuccess

\* The merged wishes of any leases are a subscription that holds each of them.
LEMMA MergeTypes ==
    ASSUME NEW ls \in SUBSET Leases
    PROVE  /\ MergePublicSubscriptions(ls) \in Subscriptions
           /\ \A l \in ls :
                /\ Wants[l].instruments \subseteq MergePublicSubscriptions(ls).instruments
                /\ Wants[l].kinds \subseteq MergePublicSubscriptions(ls).kinds
           /\ ls = {} => MergePublicSubscriptions(ls).instruments = {}
  <1> DEFINE m == MergePublicSubscriptions(ls)
  <1>1. \A l \in ls : Wants[l].instruments \subseteq Instruments /\ Wants[l].kinds \subseteq Kinds
    BY HubAssumption DEF Subscriptions
  <1>2. /\ m.instruments = UNION {Wants[l].instruments : l \in ls}
        /\ m.kinds = UNION {Wants[l].kinds : l \in ls}
        /\ m = [instruments |-> m.instruments, kinds |-> m.kinds]
    BY DEF MergePublicSubscriptions
  <1> HIDE DEF m
  <1>3. m.instruments \subseteq Instruments /\ m.kinds \subseteq Kinds
    BY <1>1, <1>2
  <1>4. m \in Subscriptions
    BY <1>2, <1>3 DEF Subscriptions
  <1>5. \A l \in ls : Wants[l].instruments \subseteq m.instruments /\ Wants[l].kinds \subseteq m.kinds
    BY <1>2
  <1>6. ls = {} => m.instruments = {}
    BY <1>2
  <1> QED BY <1>4, <1>5, <1>6 DEF m

\* The plan for any leases assigns a subscription to each route, and none at
\* all when there are no leases.
LEMMA RouteTypes ==
    ASSUME NEW ls \in SUBSET Leases
    PROVE  /\ RoutePublicSubscriptions(ls) \in [Routes -> Subscriptions]
           /\ ls = {} => RoutePublicSubscriptions(ls) = [r \in Routes |-> NoSubscription]
  <1> DEFINE m == MergePublicSubscriptions(ls)
  <1>1. m \in Subscriptions /\ (ls = {} => m.instruments = {})
    BY MergeTypes
  <1>2. NoSubscription \in Subscriptions
    BY DEF NoSubscription, Subscriptions
  <1> HIDE DEF m
  <1>3. ASSUME NEW r \in Routes PROVE [m EXCEPT !.kinds = @ \cap RouteKinds(r)] \in Subscriptions
    BY <1>1 DEF Subscriptions
  <1>4. RoutePublicSubscriptions(ls) =
          [r \in Routes |->
             IF \/ r \notin RoutesOf(venue)
                \/ m.instruments = {}
                \/ venue = "Binance" /\ m.kinds \cap RouteKinds(r) = {}
               THEN NoSubscription
               ELSE [m EXCEPT !.kinds = @ \cap RouteKinds(r)]]
    BY DEF RoutePublicSubscriptions, m
  <1>5. RoutePublicSubscriptions(ls) \in [Routes -> Subscriptions]
    BY <1>2, <1>3, <1>4
  <1>6. ls = {} => RoutePublicSubscriptions(ls) = [r \in Routes |-> NoSubscription]
    BY <1>1, <1>4
  <1> QED BY <1>5, <1>6

\* The plan for a set of leases asks, on one of its routes, for each topic of
\* each of its leases.
LEMMA PlanCovers ==
    ASSUME NEW ls \in SUBSET Leases, NEW l \in ls, NEW t \in Topics(Wants[l]), venue \in Venues
    PROVE  \E r \in Routes : /\ t \in Topics(RoutePublicSubscriptions(ls)[r])
                             /\ RoutePublicSubscriptions(ls)[r] # NoSubscription
  <1> DEFINE m == MergePublicSubscriptions(ls)
             R == RoutePublicSubscriptions(ls)
  <1>1. m \in Subscriptions /\ Wants[l].instruments \subseteq m.instruments
                            /\ Wants[l].kinds \subseteq m.kinds
    BY MergeTypes
  <1>2. PICK inst \in Wants[l].instruments, kind \in Wants[l].kinds : t = <<inst, kind>>
    BY DEF Topics
  <1>3. inst \in m.instruments /\ kind \in m.kinds /\ kind \in Kinds
    BY <1>1, <1>2 DEF Subscriptions
  <1>4. PICK r \in RoutesOf(venue) : kind \in RouteKinds(r)
    <2>1. CASE venue = "Binance" /\ kind \in MarketKinds
      BY <2>1 DEF RoutesOf, RouteKinds
    <2>2. CASE venue = "Binance" /\ kind \in BookKinds
      BY <2>2 DEF RoutesOf, RouteKinds
    <2>3. CASE venue # "Binance"
      BY <1>3, <2>3 DEF RoutesOf, RouteKinds
    <2> QED BY <1>3, <2>1, <2>2, <2>3 DEF Kinds
  <1>5. r \in Routes
    BY DEF RoutesOf, Routes
  <1>6. R[r] = IF \/ r \notin RoutesOf(venue)
                  \/ m.instruments = {}
                  \/ venue = "Binance" /\ m.kinds \cap RouteKinds(r) = {}
                 THEN NoSubscription
                 ELSE [m EXCEPT !.kinds = @ \cap RouteKinds(r)]
    BY <1>5 DEF RoutePublicSubscriptions
  <1> HIDE DEF m, R
  <1>7. R[r] = [m EXCEPT !.kinds = @ \cap RouteKinds(r)]
    BY <1>3, <1>4, <1>6
  <1>8. R[r].instruments = m.instruments /\ R[r].kinds = m.kinds \cap RouteKinds(r)
    BY <1>1, <1>7 DEF Subscriptions
  <1>9. t \in Topics(R[r])
    BY <1>2, <1>3, <1>4, <1>8 DEF Topics
  <1>10. R[r] # NoSubscription
    BY <1>3, <1>8 DEF NoSubscription
  <1> QED BY <1>5, <1>9, <1>10 DEF R

\* A new stream and an aborted one are streams; Abort stops any task and does
\* not change what it was asked for.
LEMMA StreamTypes ==
    /\ \A sub \in Subscriptions : NewStream(sub) \in Stream /\ NewStream(sub).sub = sub
    /\ \A s \in Stream : /\ Abort(s) \in Stream
                         /\ Abort(s).sub = s.sub
                         /\ Abort(s).state \in {"ended", "aborting", "aborted"}
  <1>1. 0 \in Attempts
    BY HubAssumption DEF Attempts
  <1>2. ASSUME NEW sub \in Subscriptions
        PROVE  NewStream(sub) \in Stream /\ NewStream(sub).sub = sub
    BY <1>1 DEF NewStream, Stream, StreamStates
  <1>3. ASSUME NEW s \in Stream
        PROVE  /\ Abort(s) \in Stream
               /\ Abort(s).sub = s.sub
               /\ Abort(s).state \in {"ended", "aborting", "aborted"}
    BY DEF Abort, Stream, StreamStates
  <1> QED BY <1>2, <1>3
----------------------------------------------------------------------------
(* The watchers.                                                           *)

\* A command added to the inbox keeps the others in their places.
LEMMA InboxAppend ==
    ASSUME TypeOK, NEW c \in Commands
    PROVE  /\ Append(inbox, c) \in Seq(Commands)
           /\ \A k \in DOMAIN Append(inbox, c) :
                 \/ k \in DOMAIN inbox /\ Append(inbox, c)[k] = inbox[k]
                 \/ Append(inbox, c)[k] = c
  BY DEF TypeOK

\* What is left of the inbox was in it before.
LEMMA InboxTail ==
    ASSUME TypeOK, inbox # << >>
    PROVE  /\ Head(inbox) = inbox[1]
           /\ 1 \in DOMAIN inbox
           /\ Tail(inbox) \in Seq(Commands)
           /\ \A k \in DOMAIN Tail(inbox) :
                 k + 1 \in DOMAIN inbox /\ Tail(inbox)[k] = inbox[k + 1]
  BY DEF TypeOK

\* A command in the inbox is a command.
LEMMA InboxMember ==
    ASSUME TypeOK, NEW k \in DOMAIN inbox
    PROVE  inbox[k].type \in {"Acquire", "Release"} /\ inbox[k].lease \in Leases
  <1>1. inbox[k] \in Commands
    BY DEF TypeOK
  <1> QED BY <1>1 DEF Commands

\* The steps of the watchers and of the client keep the invariant.
LEMMA WatcherSteps ==
    ASSUME HubInv, NEW l \in Leases,
           Acquire(l) \/ Acquired(l) \/ CancelAcquire(l) \/ DropLease(l) \/ DropClient
    PROVE  HubInv'
  <1> USE DEF HubInv
  <1>0. PlanInv' /\ CurrentInv' /\ StoppedInv'
    BY DEF PlanInv, CurrentInv, StoppedInv, RoutePublicSubscriptions, Acquire, Acquired, CancelAcquire, DropLease,
           DropClient, hubVars
  <1>1. CASE Acquire(l)
    <2> DEFINE c == [type |-> "Acquire", lease |-> l]
    <2>1. c \in Commands
      BY DEF Commands
    <2>2. TypeOK'
      BY <1>1, <2>1, InboxAppend DEF Acquire, TypeOK, hubVars
    <2>3. InboxInv'
      BY <1>1, <2>1, InboxAppend, InboxMember DEF Acquire, InboxInv, TypeOK
    <2>4. LeaseInv'
      BY <1>1 DEF Acquire, LeaseInv, TypeOK, hubVars
    <2> QED BY <1>0, <2>2, <2>3, <2>4
  <1>2. CASE Acquired(l)
    <2>1. TypeOK'
      BY <1>2 DEF Acquired, TypeOK, hubVars
    <2>2. InboxInv'
      BY <1>2, InboxMember DEF Acquired, InboxInv, TypeOK
    <2>3. LeaseInv'
      BY <1>2 DEF Acquired, LeaseInv, TypeOK, hubVars
    <2> QED BY <1>0, <2>1, <2>2, <2>3
  <1>3. CASE CancelAcquire(l)
    <2>1. TypeOK'
      BY <1>3 DEF CancelAcquire, TypeOK, hubVars
    <2>2. InboxInv'
      BY <1>3, InboxMember DEF CancelAcquire, InboxInv, TypeOK
    <2>3. LeaseInv'
      BY <1>3 DEF CancelAcquire, LeaseInv, TypeOK, hubVars
    <2> QED BY <1>0, <2>1, <2>2, <2>3
  <1>4. CASE DropLease(l)
    <2> DEFINE c == [type |-> "Release", lease |-> l]
    <2>1. c \in Commands
      BY DEF Commands
    <2>2. TypeOK'
      BY <1>4, <2>1, InboxAppend DEF DropLease, TypeOK, hubVars
    <2>3. InboxInv'
      BY <1>4, <2>1, InboxAppend, InboxMember DEF DropLease, InboxInv, TypeOK
    <2>4. LeaseInv'
      BY <1>4 DEF DropLease, LeaseInv, TypeOK, hubVars
    <2> QED BY <1>0, <2>2, <2>3, <2>4
  <1>5. CASE DropClient
    BY <1>0, <1>5 DEF DropClient, TypeOK, InboxInv, LeaseInv, hubVars
  <1> QED BY <1>1, <1>2, <1>3, <1>4, <1>5

----------------------------------------------------------------------------
(* The hub.                                                                *)

\* What the hub leaves of route r when it aborts the current stream of it.
LEMMA AbortedRoute ==
    ASSUME HubInv, NEW r \in Routes, current[r] # 0
    PROVE  LET kept == [streams[r] EXCEPT ![current[r]] = Abort(@)]
           IN  /\ kept \in Seq(Stream)
               /\ Len(kept) = Len(streams[r])
               /\ DOMAIN kept = 1 .. Len(streams[r])
               /\ \A i \in DOMAIN kept : kept[i].state \in {"ended", "aborting", "aborted"}
  <1> USE DEF HubInv
  <1>1. streams[r] \in Seq(Stream) /\ current[r] \in 1 .. Len(streams[r])
    BY DEF TypeOK
  <1>2. streams[r][current[r]] \in Stream
    BY <1>1
  <1> DEFINE s == Abort(streams[r][current[r]])
             kept == [streams[r] EXCEPT ![current[r]] = s]
  <1>3. s \in Stream /\ s.state \in {"ended", "aborting", "aborted"}
    BY <1>2, StreamTypes
  <1> HIDE DEF s
  <1>4. /\ kept \in Seq(Stream)
        /\ Len(kept) = Len(streams[r])
        /\ \A j \in 1 .. Len(streams[r]) : kept[j] = IF j = current[r] THEN s ELSE streams[r][j]
    BY <1>1, <1>3, ExceptSeq
  <1>5. DOMAIN kept = 1 .. Len(streams[r])
    BY <1>1
  <1>6. ASSUME NEW i \in 1 .. Len(streams[r])
        PROVE  kept[i].state \in {"ended", "aborting", "aborted"}
    BY <1>1, <1>3, <1>4 DEF StoppedInv
  <1> QED BY <1>4, <1>5, <1>6 DEF s

\* A switch to any plan leaves each route with the stream of that plan, and
\* every other stream stopped.
LEMMA SwitchFollowsPlan ==
    ASSUME HubInv, NEW desired \in [Routes -> Subscriptions], SwitchPublicStream(desired)
    PROVE  /\ plan' = desired
           /\ streams' \in [Routes -> Seq(Stream)]
           /\ current' \in [Routes -> Nat]
           /\ \A r \in Routes : current'[r] <= Len(streams'[r])
           /\ CurrentInv'
           /\ StoppedInv'
  <1> USE DEF HubInv
  <1>1. plan' = desired
    BY DEF SwitchPublicStream
  <1>2. ASSUME NEW r \in Routes
        PROVE  /\ streams'[r] \in Seq(Stream)
               /\ current'[r] \in Nat
               /\ current'[r] <= Len(streams'[r])
               /\ IF desired[r] = NoSubscription THEN current'[r] = 0
                  ELSE current'[r] \in DOMAIN streams'[r] /\ streams'[r][current'[r]].sub = desired[r]
               /\ \A i \in DOMAIN streams'[r] :
                    i # current'[r] => streams'[r][i].state \in {"ended", "aborting", "aborted"}
    <2>0. /\ streams[r] \in Seq(Stream)
          /\ current[r] \in Nat
          /\ current[r] <= Len(streams[r])
          /\ plan[r] \in Subscriptions
          /\ desired[r] \in Subscriptions
          /\ DOMAIN streams[r] = 1 .. Len(streams[r])
          /\ Len(streams[r]) \in Nat
      BY DEF TypeOK
    <2> DEFINE stale == plan[r] # desired[r] /\ plan[r] # NoSubscription
               kept == IF stale /\ current[r] # 0
                         THEN [streams[r] EXCEPT ![current[r]] = Abort(@)]
                         ELSE streams[r]
    <2>1. streams'[r] = IF plan[r] # desired[r] /\ desired[r] # NoSubscription
                          THEN Append(kept, NewStream(desired[r])) ELSE kept
      BY DEF SwitchPublicStream
    <2>2. current'[r] = IF plan[r] # desired[r] /\ desired[r] # NoSubscription
                          THEN Len(streams[r]) + 1
                          ELSE IF stale THEN 0 ELSE current[r]
      BY DEF SwitchPublicStream
    <2>3. CASE plan[r] = desired[r]
      <3>1. streams'[r] = streams[r] /\ current'[r] = current[r]
        BY <2>1, <2>2, <2>3
      <3> QED BY <2>0, <2>3, <3>1 DEF CurrentInv, StoppedInv
    <2>4. CASE plan[r] # desired[r]
      <3>1. /\ kept \in Seq(Stream)
            /\ Len(kept) = Len(streams[r])
            /\ DOMAIN kept = 1 .. Len(streams[r])
            /\ \A i \in DOMAIN kept : kept[i].state \in {"ended", "aborting", "aborted"}
        <4>1. CASE plan[r] = NoSubscription
          BY <2>0, <4>1 DEF CurrentInv, StoppedInv
        <4>2. CASE plan[r] # NoSubscription
          <5>1. current[r] # 0
            BY <2>0, <4>2 DEF CurrentInv
          <5>2. kept = [streams[r] EXCEPT ![current[r]] = Abort(@)]
            BY <2>4, <4>2, <5>1
          <5> QED BY <5>1, <5>2, AbortedRoute
        <4> QED BY <4>1, <4>2
      <3> HIDE DEF kept
      <3>2. CASE desired[r] = NoSubscription
        <4>1. streams'[r] = kept /\ current'[r] = 0
          BY <2>1, <2>2, <2>4, <3>2
        <4> QED BY <3>1, <3>2, <4>1
      <3>3. CASE desired[r] # NoSubscription
        <4>1. NewStream(desired[r]) \in Stream /\ NewStream(desired[r]).sub = desired[r]
          BY <2>0, StreamTypes
        <4>2. streams'[r] = Append(kept, NewStream(desired[r])) /\ current'[r] = Len(streams[r]) + 1
          BY <2>1, <2>2, <2>4, <3>3
        <4>3. /\ streams'[r] \in Seq(Stream)
              /\ Len(streams'[r]) = Len(streams[r]) + 1
              /\ DOMAIN streams'[r] = 1 .. Len(streams[r]) + 1
              /\ \A i \in 1 .. Len(streams[r]) : streams'[r][i] = kept[i]
              /\ streams'[r][Len(streams[r]) + 1] = NewStream(desired[r])
          BY <2>0, <3>1, <4>1, <4>2
        <4> QED BY <2>0, <3>1, <3>3, <4>1, <4>2, <4>3
      <3> QED BY <3>2, <3>3
    <2> QED BY <2>3, <2>4
  <1>3. streams' \in [Routes -> Seq(Stream)] /\ current' \in [Routes -> Nat]
    <2>1. streams' = [r \in Routes |-> streams'[r]] /\ current' = [r \in Routes |-> current'[r]]
      BY DEF SwitchPublicStream
    <2> QED BY <1>2, <2>1
  <1>4. CurrentInv' /\ StoppedInv'
    BY <1>1, <1>2 DEF CurrentInv, StoppedInv
  <1> QED BY <1>1, <1>2, <1>3, <1>4
\* The hub's handling of an Acquire keeps the invariant.
LEMMA AcquireStep ==
    ASSUME HubInv, NEW l \in Leases, HandleAcquire(l)
    PROVE  HubInv'
  <1> USE DEF HubInv
  <1> DEFINE desired == RoutePublicSubscriptions(active \cup {l})
  <1>1. inbox # << >> /\ inbox' = Tail(inbox) /\ inbox[1] = [type |-> "Acquire", lease |-> l]
    BY InboxTail DEF HandleAcquire, Received
  <1>2. watcher[l] # "idle"
    BY <1>1, InboxTail DEF InboxInv
  <1>3. active \cup {l} \in SUBSET Leases
    BY DEF TypeOK
  <1>4. desired \in [Routes -> Subscriptions]
    BY <1>3, RouteTypes
  <1>5. SwitchPublicStream(desired) /\ active' = active \cup {l} /\ venue' = venue
    BY DEF HandleAcquire
  <1>6. InboxInv'
    BY <1>1, InboxTail DEF InboxInv, HandleAcquire
  <1>7. LeaseInv'
    BY <1>2 DEF LeaseInv, HandleAcquire, TypeOK
  <1>8. PlanInv'
    <2>1. plan' = desired
      BY <1>5 DEF SwitchPublicStream
    <2> QED BY <1>5, <2>1 DEF PlanInv, RoutePublicSubscriptions
  <1> HIDE DEF desired
  <1>9. CurrentInv' /\ StoppedInv'
    BY <1>4, <1>5, SwitchFollowsPlan
  <1>10. TypeOK'
    BY <1>1, <1>3, <1>4, <1>5, SwitchFollowsPlan, InboxTail DEF TypeOK, HandleAcquire
  <1> QED BY <1>6, <1>7, <1>8, <1>9, <1>10

\* The hub's handling of a Release keeps the invariant.
LEMMA ReleaseStep ==
    ASSUME HubInv, NEW l \in Leases, HandleRelease(l)
    PROVE  HubInv'
  <1> USE DEF HubInv
  <1> DEFINE desired == RoutePublicSubscriptions(active \ {l})
  <1>1. inbox # << >> /\ inbox' = Tail(inbox) /\ inbox[1] = [type |-> "Release", lease |-> l]
    BY InboxTail DEF HandleRelease, Received
  <1>2. watcher[l] = "released"
    BY <1>1, InboxTail DEF InboxInv
  <1>3. active \ {l} \in SUBSET Leases
    BY DEF TypeOK
  <1>4. desired \in [Routes -> Subscriptions]
    BY <1>3, RouteTypes
  <1>5. SwitchPublicStream(desired) /\ active' = active \ {l} /\ venue' = venue
    BY DEF HandleRelease
  <1>6. InboxInv'
    BY <1>1, InboxTail DEF InboxInv, HandleRelease
  <1>7. LeaseInv'
    BY <1>2 DEF LeaseInv, HandleRelease, TypeOK
  <1>8. PlanInv'
    <2>1. plan' = desired
      BY <1>5 DEF SwitchPublicStream
    <2> QED BY <1>5, <2>1 DEF PlanInv, RoutePublicSubscriptions
  <1> HIDE DEF desired
  <1>9. CurrentInv' /\ StoppedInv'
    BY <1>4, <1>5, SwitchFollowsPlan
  <1>10. TypeOK'
    BY <1>1, <1>3, <1>4, <1>5, SwitchFollowsPlan, InboxTail DEF TypeOK, HandleRelease
  <1> QED BY <1>6, <1>7, <1>8, <1>9, <1>10

\* The end of the hub keeps the invariant: no watcher is left that is owed one.
LEMMA EndStep ==
    ASSUME HubInv, EndHub
    PROVE  HubInv'
  <1> USE DEF HubInv
  <1>1. /\ active' = {}
        /\ plan' = [r \in Routes |-> NoSubscription]
        /\ current' = [r \in Routes |-> 0]
        /\ hub' = FALSE
        /\ UNCHANGED <<venue, watcher, reply, inbox, client, health>>
    BY DEF EndHub
  <1>2. ASSUME NEW r \in Routes
        PROVE  /\ streams'[r] \in Seq(Stream)
               /\ \A i \in DOMAIN streams'[r] :
                    streams'[r][i].state \in {"ended", "aborting", "aborted"}
    <2>1. CASE current[r] = 0
      <3>1. streams'[r] = streams[r]
        BY <2>1 DEF EndHub
      <3> QED BY <2>1, <3>1 DEF TypeOK, StoppedInv
    <2>2. CASE current[r] # 0
      <3>1. streams'[r] = [streams[r] EXCEPT ![current[r]] = Abort(@)]
        BY <2>2 DEF EndHub
      <3> QED BY <2>2, <3>1, AbortedRoute
    <2> QED BY <2>1, <2>2
  <1>3. streams' \in [Routes -> Seq(Stream)]
    <2>1. streams' = [r \in Routes |-> streams'[r]]
      BY DEF EndHub
    <2> QED BY <1>2, <2>1
  <1>4. TypeOK'
    <2>1. plan' \in [Routes -> Subscriptions]
      BY <1>1 DEF NoSubscription, Subscriptions
    <2>2. current' \in [Routes -> Nat] /\ \A r \in Routes : current'[r] <= Len(streams'[r])
      BY <1>1, <1>3
    <2> QED BY <1>1, <1>3, <2>1, <2>2 DEF TypeOK
  <1>5. InboxInv' /\ LeaseInv'
    BY <1>1 DEF InboxInv, LeaseInv, EndHub
  <1>6. PlanInv'
    <2>1. RoutePublicSubscriptions({}) = [r \in Routes |-> NoSubscription]
      BY RouteTypes
    <2> QED BY <1>1, <2>1 DEF PlanInv, RoutePublicSubscriptions
  <1>7. CurrentInv' /\ StoppedInv'
    BY <1>1, <1>2 DEF CurrentInv, StoppedInv
  <1> QED BY <1>4, <1>5, <1>6, <1>7

----------------------------------------------------------------------------
(* The stream tasks.                                                       *)

\* Stream i of route r becomes s: it keeps its subscription, an aborted poll
\* only ends, and nothing outside the stream tasks changes.
StreamBecomes(r, i, s) ==
    /\ s \in Stream
    /\ streams' = [streams EXCEPT ![r] = [streams[r] EXCEPT ![i] = s]]
    /\ s.sub = streams[r][i].sub
    /\ streams[r][i].state \notin {"ended", "aborted"}
    /\ streams[r][i].state = "aborting" => s.state = "aborted"
    /\ health' \in HealthReport
    /\ UNCHANGED Watchers

\* A step that sets the state of a stream that has not ended.
LEMMA SetStateStep ==
    ASSUME HubInv, NEW r \in Routes, NEW i \in DOMAIN streams[r], NEW state \in StreamStates,
           SetState(r, i, state), streams[r][i].state \notin {"ended", "aborted"},
           streams[r][i].state = "aborting" => state = "aborted",
           health' \in HealthReport, UNCHANGED Watchers
    PROVE  \E s \in Stream : StreamBecomes(r, i, s)
  <1> DEFINE s == [streams[r][i] EXCEPT !.state = state]
  <1>1. streams[r][i] \in Stream
    BY DEF HubInv, TypeOK
  <1>2. s \in Stream /\ s.sub = streams[r][i].sub /\ s.state = state
    BY <1>1 DEF Stream
  <1>3. streams' = [streams EXCEPT ![r] = [streams[r] EXCEPT ![i] = s]]
    BY DEF SetState, HubInv, TypeOK
  <1> HIDE DEF s
  <1>4. StreamBecomes(r, i, s)
    BY <1>2, <1>3 DEF StreamBecomes
  <1> QED BY <1>2, <1>4

\* An error of the transport leads to the backoff or to the end of the task.
LEMMA TransportErrorStep ==
    ASSUME HubInv, NEW r \in Routes, NEW i \in DOMAIN streams[r], NEW h \in HealthReport,
           streams[r][i].state \in {"connecting", "live"},
           TransportError(r, i, h), UNCHANGED Watchers
    PROVE  \E s \in Stream : StreamBecomes(r, i, s)
  <1>1. CASE ~MayReconnect(streams[r][i])
    <2>1. SetState(r, i, "ended") /\ health' = h
      BY <1>1 DEF TransportError, Reconnect, GiveUp
    <2> QED BY <2>1, SetStateStep DEF StreamStates
  <1>2. CASE MayReconnect(streams[r][i])
    <2> DEFINE o == streams[r][i]
               n == IF MaxReconnects = Unlimited THEN o.attempts ELSE o.attempts + 1
               s == [o EXCEPT !.state = "backoff", !.attempts = n]
    <2>1. o \in Stream
      BY DEF HubInv, TypeOK
    <2>2. n \in Attempts
      BY <1>2, <2>1, HubAssumption DEF MayReconnect, Attempts, Stream
    <2>3. s \in Stream /\ s.sub = o.sub /\ s.state = "backoff"
      BY <2>1, <2>2 DEF Stream, StreamStates
    <2>4. streams' = [streams EXCEPT ![r] = [streams[r] EXCEPT ![i] = s]]
      BY <1>2 DEF TransportError, Reconnect, HubInv, TypeOK
    <2>5. health' \in HealthReport
      BY <1>2, HealthTypes DEF TransportError
    <2> HIDE DEF s
    <2>6. StreamBecomes(r, i, s)
      BY <2>3, <2>4, <2>5 DEF StreamBecomes
    <2> QED BY <2>3, <2>6
  <1> QED BY <1>1, <1>2

\* Every step of a stream task keeps to StreamBecomes, on every venue.
LEMMA StreamSteps ==
    ASSUME HubInv, NEW r \in Routes, NEW i \in DOMAIN streams[r], RunPublicStream(r, i)
    PROVE  \E s \in Stream : StreamBecomes(r, i, s)
  <1> USE DEF In
  <1>0. health \in HealthReport
    BY DEF HubInv, TypeOK
  <1>1. CASE Backoff(r, i)
    BY <1>0, <1>1, HealthTypes, SetStateStep DEF Backoff, StreamStates
  <1>2. CASE FinishPoll(r, i)
    <2>1. health' \in HealthReport
      BY <1>0, <1>2, HealthTypes DEF FinishPoll
    <2> QED BY <1>2, <2>1, SetStateStep DEF FinishPoll, StreamStates
  <1>3. CASE SetUp(r, i)
    <2>1. CASE SetState(r, i, "live") /\ UNCHANGED health
      BY <1>0, <1>3, <2>1, SetStateStep DEF SetUp, StreamStates
    <2>2. CASE SetState(r, i, "ended") /\ UNCHANGED health
      BY <1>0, <1>3, <2>2, SetStateStep DEF SetUp, StreamStates
    <2>3. CASE TransportError(r, i, health)
      BY <1>0, <1>3, <2>3, TransportErrorStep DEF SetUp
    <2> QED BY <1>3, <2>1, <2>2, <2>3 DEF SetUp, GiveUp
  <1>4. CASE Disconnect(r, i)
    BY <1>0, <1>4, TransportErrorStep DEF Disconnect
  <1>5. CASE IdleGap(r, i)
    BY <1>0, <1>5, HealthTypes, TransportErrorStep DEF IdleGap
  <1>6. CASE SequenceGap(r, i)
    BY <1>0, <1>6, HealthTypes, TransportErrorStep DEF SequenceGap
  <1>7. ASSUME streams[r][i].state = "live", UNCHANGED <<Watchers, streams>>,
               health' \in HealthReport
        PROVE  \E s \in Stream : StreamBecomes(r, i, s)
    <2>1. streams[r][i] \in Stream
      BY DEF HubInv, TypeOK
    <2>2. streams' = [streams EXCEPT ![r] = [streams[r] EXCEPT ![i] = streams[r][i]]]
      BY <1>7 DEF HubInv, TypeOK
    <2>3. StreamBecomes(r, i, streams[r][i])
      BY <1>7, <2>1, <2>2 DEF StreamBecomes
    <2> QED BY <2>1, <2>3
  <1>8. CASE MetadataRefresh(r, i)
    BY <1>0, <1>7, <1>8, HealthTypes DEF MetadataRefresh
  <1>9. CASE Frame(r, i)
    <2>1. CASE health' = ObservePublicMessage(health) /\ UNCHANGED streams
      BY <1>0, <1>7, <1>9, <2>1, HealthTypes DEF Frame
    <2>2. CASE SetState(r, i, "ended") /\ UNCHANGED health
      BY <1>0, <1>9, <2>2, SetStateStep DEF Frame, StreamStates
    <2> QED BY <1>9, <2>1, <2>2 DEF Frame, GiveUp
  <1> QED BY <1>1, <1>2, <1>3, <1>4, <1>5, <1>6, <1>8, <1>9
          DEF RunPublicStream, RunBinancePublicStream, RunBybitPublicStream, RunMexcPublicStream

\* A step that keeps to StreamBecomes keeps the invariant.
LEMMA StreamKeepsInv ==
    ASSUME HubInv, NEW r \in Routes, NEW i \in DOMAIN streams[r], NEW s \in Stream,
           StreamBecomes(r, i, s)
    PROVE  HubInv'
  <1> USE DEF HubInv
  <1>1. /\ streams' = [streams EXCEPT ![r] = [streams[r] EXCEPT ![i] = s]]
        /\ UNCHANGED <<venue, watcher, reply, inbox, client, hub, active, plan, current>>
    BY DEF StreamBecomes, Watchers, hubVars
  <1>2. streams[r] \in Seq(Stream) /\ i \in 1 .. Len(streams[r])
    BY DEF TypeOK
  <1>3. /\ streams'[r] \in Seq(Stream)
        /\ Len(streams'[r]) = Len(streams[r])
        /\ DOMAIN streams'[r] = DOMAIN streams[r]
        /\ streams'[r][i] = s
        /\ \A j \in DOMAIN streams[r] : j # i => streams'[r][j] = streams[r][j]
    BY <1>1, <1>2 DEF TypeOK
  <1>4. \A q \in Routes : q # r => streams'[q] = streams[q]
    BY <1>1 DEF TypeOK
  <1>5. streams' \in [Routes -> Seq(Stream)]
    BY <1>1, <1>2, <1>3 DEF TypeOK
  <1>6. TypeOK'
    BY <1>1, <1>3, <1>4, <1>5 DEF TypeOK, StreamBecomes
  <1>7. InboxInv' /\ LeaseInv' /\ PlanInv'
    BY <1>1 DEF InboxInv, LeaseInv, PlanInv, RoutePublicSubscriptions
  <1>8. CurrentInv'
    BY <1>1, <1>3, <1>4 DEF CurrentInv, StreamBecomes
  <1>9. StoppedInv'
    BY <1>1, <1>3, <1>4 DEF StoppedInv, StreamBecomes
  <1> QED BY <1>6, <1>7, <1>8, <1>9
----------------------------------------------------------------------------
(* The theorems.                                                           *)

\* Every step of the system keeps the invariant.
LEMMA NextKeepsInv == HubInv /\ [Next]_vars => HubInv'
  <1> SUFFICES ASSUME HubInv, [Next]_vars PROVE HubInv'
    OBVIOUS
  <1>1. CASE \E l \in Leases : Acquire(l) \/ Acquired(l) \/ CancelAcquire(l) \/ DropLease(l)
    BY <1>1, WatcherSteps
  <1>2. CASE DropClient
    BY <1>2 DEF DropClient, HubInv, TypeOK, InboxInv, LeaseInv, PlanInv, CurrentInv, StoppedInv,
                RoutePublicSubscriptions, hubVars
  <1>3. CASE HubStep
    BY <1>3, AcquireStep, ReleaseStep, EndStep DEF HubStep
  <1>4. CASE \E r \in Routes : \E i \in DOMAIN streams[r] : RunPublicStream(r, i)
    BY <1>4, StreamSteps, StreamKeepsInv
  <1>5. CASE UNCHANGED vars
    BY <1>5 DEF vars, hubVars, HubInv, TypeOK, InboxInv, LeaseInv, PlanInv, CurrentInv, StoppedInv,
                RoutePublicSubscriptions
  <1> QED BY <1>1, <1>2, <1>3, <1>4, <1>5 DEF Next

\* The invariant of the public hub holds for any number of watchers with any
\* wishes, whatever acquires, cancellations, releases and reconnects interleave.
THEOREM PublicHubInvariant == Spec => []HubInv
  <1>1. Init => HubInv
    <2> SUFFICES ASSUME Init PROVE HubInv
      OBVIOUS
    <2>1. TypeOK
      <3>1. plan \in [Routes -> Subscriptions]
        BY DEF Init, NoSubscription, Subscriptions
      <3>2. current \in [Routes -> Nat] /\ streams \in [Routes -> Seq(Stream)]
        BY DEF Init
      <3>3. \A r \in Routes : current[r] <= Len(streams[r])
        BY DEF Init
      <3> QED BY <3>1, <3>2, <3>3, FirstHealthType DEF Init, TypeOK
    <2>2. PlanInv
      <3>1. RoutePublicSubscriptions({}) = [r \in Routes |-> NoSubscription]
        BY RouteTypes
      <3> QED BY <3>1 DEF Init, PlanInv
    <2>3. InboxInv /\ LeaseInv /\ CurrentInv /\ StoppedInv
      BY DEF Init, InboxInv, LeaseInv, CurrentInv, StoppedInv
    <2> QED BY <2>1, <2>2, <2>3 DEF HubInv
  <1> QED BY <1>1, NextKeepsInv, PTL DEF Spec, SafetySpec

\* Type correctness of the public hub and its streams.
THEOREM PublicHubTypes == Spec => []TypeOK
  BY PublicHubInvariant, PTL DEF HubInv

\* No route has a second stream that was not told to stop, and none runs an
\* outdated subscription.
THEOREM NoStreamLeaks == Spec => []OneStreamPerRoute
  <1>1. HubInv => OneStreamPerRoute
    <2> SUFFICES ASSUME HubInv, NEW r \in Routes, NEW i \in DOMAIN streams[r],
                        In(r, i, {"connecting", "live", "backoff"})
                 PROVE  i = current[r] /\ streams[r][i].sub = plan[r]
      BY DEF OneStreamPerRoute
    <2>1. i = current[r]
      BY DEF HubInv, StoppedInv, In
    <2>2. i # 0
      BY DEF HubInv, TypeOK
    <2> QED BY <2>1, <2>2 DEF HubInv, CurrentInv
  <1> QED BY <1>1, PublicHubInvariant, PTL

\* What a watch handle wants is asked for on a stream the hub runs.
THEOREM HoldersAreCovered == Spec => []HeldLeaseIsCovered
  <1>1. HubInv => HeldLeaseIsCovered
    <2> SUFFICES ASSUME HubInv, NEW l \in Leases, watcher[l] = "held", NEW t \in Topics(Wants[l])
                 PROVE  \E r \in Routes :
                            /\ t \in Topics(plan[r])
                            /\ current[r] \in DOMAIN streams[r]
                            /\ streams[r][current[r]].sub = plan[r]
      BY DEF HeldLeaseIsCovered
    <2>1. l \in active /\ active \in SUBSET Leases /\ venue \in Venues
      BY DEF HubInv, LeaseInv, TypeOK
    <2>2. PICK r \in Routes : t \in Topics(plan[r]) /\ plan[r] # NoSubscription
      BY <2>1, PlanCovers DEF HubInv, PlanInv
    <2> QED BY <2>2 DEF HubInv, CurrentInv
  <1> QED BY <1>1, PublicHubInvariant, PTL

----------------------------------------------------------------------------
(* The refinement of LeaseContract.                                        *)

\* The streams of the plan carry what the granted leases need, and nothing
\* when there is none.
LEMMA PlanMayBeCarried ==
    ASSUME HubInv
    PROVE  Contract!MayCarry(active, Carried)
  <1> USE DEF HubInv
  <1>1. ASSUME NEW t \in Contract!NeededBy(active) PROVE t \in Carried
    <2>1. active \in SUBSET Leases /\ venue \in Venues
      BY DEF TypeOK
    <2>2. PICK l \in active : t \in [k \in Leases |-> Topics(Wants[k])][l]
      BY DEF Contract!NeededBy
    <2>3. t \in Topics(Wants[l])
      BY <2>1, <2>2
    <2>4. PICK r \in Routes : t \in Topics(plan[r])
      BY <2>1, <2>3, PlanCovers DEF PlanInv
    <2> QED BY <2>4 DEF Carried
  <1>2. ASSUME active = {} PROVE Carried = {}
    <2>1. plan = [r \in Routes |-> NoSubscription]
      BY <1>2, RouteTypes DEF PlanInv
    <2>2. \A r \in Routes : Topics(plan[r]) = {}
      BY <2>1 DEF Topics, NoSubscription
    <2> QED BY <2>2 DEF Carried
  <1> QED BY <1>1, <1>2 DEF Contract!MayCarry

\* The public hub implements what a hub promises its watchers: it grants and
\* revokes leases one by one, and its streams are asked for every topic of
\* every granted lease at every moment.
THEOREM PublicHubKeepsContract == Spec => KeepsContract
  <1>a. HubInv => Contract!MayCarry(active, Carried)
    BY PlanMayBeCarried
  <1>b. HubInv' => Contract!MayCarry(active, Carried)'
    BY <1>a, PTL
  <1>1. HubInv /\ Init => Contract!Init
    <2> SUFFICES ASSUME HubInv, Init PROVE Contract!Init
      OBVIOUS
    <2>1. active = {}
      BY DEF Init
    <2>2. Carried = {}
      BY <2>1, PlanMayBeCarried DEF Contract!MayCarry
    <2> QED BY <2>1, <2>2 DEF Contract!Init
  <1>2. HubInv /\ HubInv' /\ [Next]_vars => [Contract!Next]_<<active, Carried>>
    <2> SUFFICES ASSUME HubInv, HubInv', [Next]_vars
                 PROVE  Contract!Next \/ UNCHANGED <<active, Carried>>
      OBVIOUS
    <2>1. Contract!MayCarry(active', Carried')
      BY <1>b DEF Contract!MayCarry, Contract!NeededBy
    <2>2. ASSUME NEW l \in Leases, HandleAcquire(l)
          PROVE  Contract!Next \/ UNCHANGED <<active, Carried>>
      <3>1. CASE l \in active
        <4>1. active' = active /\ venue' = venue
          BY <2>2, <3>1 DEF HandleAcquire
        <4>2. plan' = plan
          BY <4>1 DEF HubInv, PlanInv, RoutePublicSubscriptions
        <4> QED BY <4>1, <4>2 DEF Carried
      <3>2. CASE l \notin active
        <4>1. Contract!Grant(l)
          BY <2>1, <2>2, <3>2 DEF HandleAcquire, Contract!Grant
        <4> QED BY <4>1 DEF Contract!Next
      <3> QED BY <3>1, <3>2
    <2>3. ASSUME NEW l \in Leases, HandleRelease(l)
          PROVE  Contract!Next
      <3>1. Contract!Revoke(l)
        BY <2>1, <2>3 DEF HandleRelease, Contract!Revoke
      <3> QED BY <3>1 DEF Contract!Next
    <2>4. ASSUME EndHub PROVE Contract!Next
      <3>1. active' = {} /\ Carried' = {}
        BY <2>1, <2>4 DEF EndHub, Contract!MayCarry
      <3> QED BY <3>1 DEF Contract!Next, Contract!Close
    <2>5. ASSUME NEW r \in Routes, NEW i \in DOMAIN streams[r], RunPublicStream(r, i)
          PROVE  UNCHANGED <<active, Carried>>
      BY <2>5, StreamSteps DEF StreamBecomes, Watchers, hubVars, Carried
    <2>6. ASSUME NEW l \in Leases, Acquire(l) \/ Acquired(l) \/ CancelAcquire(l) \/ DropLease(l)
          PROVE  UNCHANGED <<active, Carried>>
      BY <2>6 DEF Acquire, Acquired, CancelAcquire, DropLease, hubVars, Carried
    <2>7. ASSUME DropClient \/ UNCHANGED vars
          PROVE  UNCHANGED <<active, Carried>>
      BY <2>7 DEF DropClient, vars, hubVars, Carried
    <2> QED BY <2>2, <2>3, <2>4, <2>5, <2>6, <2>7 DEF Next, HubStep
  <1> QED BY <1>1, <1>2, PublicHubInvariant, PTL
          DEF Spec, SafetySpec, KeepsContract, Contract!Spec
=============================================================================
