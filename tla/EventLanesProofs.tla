-------------------------- MODULE EventLanesProofs --------------------------
(***************************************************************************)
(* Proofs about EventLanes for any number of commands, any burst and any   *)
(* capacity of the channels.                                               *)
(***************************************************************************)
EXTENDS EventLanes, FiniteSetTheorems, SequenceTheorems, TLAPS

----------------------------------------------------------------------------
(* The inductive invariant.                                                *)

\* The event has been read, lies ahead of the receiver, or was overwritten and
\* reported as lost.
Accounted(c, n) ==
    \/ n \in handle[c].read
    \/ n >= handle[c].next
    \/ n < Oldest(lane) /\ n \in handle[c].lost

\* The receiver is never ahead of the channel.  Before the caller has its handle
\* nothing reads from it; before the answer nothing is published about the
\* command, and from then on its lifecycle is accounted for.
HandleInv(c) ==
    /\ handle[c].next <= Len(lane) + 1
    /\ phase[c] # "held" => handle[c].call = "none"
    /\ recovery[c] # "none" => phase[c] \in {"answered", "held"}
    /\ phase[c] \in {"new", "acquire", "asleep", "sent"} =>
         \A n \in 1 .. Len(lane) : ~About(c, n)
    /\ phase[c] \in {"answered", "held"} =>
         \A n \in 1 .. Len(lane) : About(c, n) => Accounted(c, n)

\* What concerns a watcher and lies behind its receiver it got or had to skip.
WatcherSees ==
    watcher.stage = "held" =>
        \A n \in watcher.granted + 1 .. watcher.next - 1 :
            data[n] = "mine" => n \in watcher.got \cup watcher.skipped

\* The receiver of a watcher is never ahead of the channel, and skips only what
\* the channel overwrote.
WatcherInv ==
    /\ watcher.stage # "idle" => watcher.next \in 1 .. Len(data) + 1
    /\ watcher.stage = "held" => watcher.granted <= Len(data)
    /\ \A n \in watcher.skipped : n < Oldest(data)
    /\ WatcherSees

LanesInv ==
    /\ TypeOK
    /\ RateBound
    /\ \A c \in Commands : HandleInv(c)
    /\ WatcherInv

----------------------------------------------------------------------------
(* Channels and counters.                                                  *)

HandleType == [next : Nat, at : {0, 1}, initial : BOOLEAN, call : Calls,
               verdict : {"none", "Accepted", "UnknownExecution", "Err"},
               read : SUBSET Nat, lost : SUBSET Nat]

\* Sending puts events behind those already sent.
LEMMA Sent ==
    ASSUME NEW S, NEW q \in Seq(S), NEW x \in Seq(S)
    PROVE  /\ q \o x \in Seq(S)
           /\ Len(q \o x) = Len(q) + Len(x)
           /\ \A n \in 1 .. Len(q) : (q \o x)[n] = q[n]
           /\ \A n \in 1 .. Len(x) : (q \o x)[Len(q) + n] = x[n]
  BY ConcatProperties

\* Sending one event.
LEMMA SentOne ==
    ASSUME NEW S, NEW q \in Seq(S), NEW e \in S
    PROVE  /\ Append(q, e) \in Seq(S)
           /\ Len(Append(q, e)) = Len(q) + 1
           /\ \A n \in 1 .. Len(q) : Append(q, e)[n] = q[n]
           /\ Append(q, e)[Len(q) + 1] = e
  OBVIOUS

\* The limiter's burst is at least one.
LEMMA BurstType == LimiterBurst \in Nat \ {0} /\ Cardinality(Commands) \in Nat
  BY LanesAssumption, FS_CardinalityType DEF LimiterBurst

\* The oldest event of a channel is one of its events, if it has any.
LEMMA OldestType ==
    ASSUME NEW S, NEW q \in Seq(S)
    PROVE  Oldest(q) \in Nat \ {0} /\ (Len(q) > 0 => Oldest(q) <= Len(q))
  <1>1. Len(q) \in Nat /\ Capacity \in Nat \ {0}
    BY LanesAssumption
  <1> QED BY <1>1 DEF Oldest

\* What a channel has overwritten it never holds again.
LEMMA OldestGrows ==
    ASSUME NEW S, NEW q \in Seq(S), NEW r \in Seq(S), Len(q) <= Len(r)
    PROVE  Oldest(q) <= Oldest(r)
  <1>1. Len(q) \in Nat /\ Len(r) \in Nat /\ Capacity \in Nat \ {0}
    BY LanesAssumption
  <1> QED BY <1>1 DEF Oldest

\* The events a command publishes.
LEMMA EventType ==
    ASSUME NEW c \in Commands
    PROVE  /\ \A k \in {"Ack", "Receipt", "RecoveryScheduled", "RecoveryCompleted"} :
                \A s \in {"Accepted", "UnknownExecution", "Synchronized", "StillUncertain"} :
                   /\ Event(k, c, s) \in Events
                   /\ Event(k, c, s).command = c
                   /\ Event(k, c, s).kind = k
  BY DEF Event, Events

\* What every step makes of the command lane: it grows by events of one
\* command.
LaneGrows(c) ==
    /\ lane' \in Seq(Events)
    /\ Len(lane') >= Len(lane)
    /\ \A n \in 1 .. Len(lane) : lane'[n] = lane[n]
    /\ \A n \in Len(lane) + 1 .. Len(lane') : About(c, n)' \/ lane'[n].kind = "Receipt"

\* A receipt is published with its ack, and perhaps the scheduled recovery.
LEMMA ReceiptGrows ==
    ASSUME TypeOK, NEW c \in Commands, ApplyCommandReceipt(c)
    PROVE  LaneGrows(c)
  <1>1. lane \in Seq(Events)
    BY DEF TypeOK
  <1>2. PICK s \in {"Accepted", "UnknownExecution"} :
          lane' = lane \o <<Event("Ack", c, s), Event("Receipt", c, s)>>
                       \o (IF s = "UnknownExecution"
                             THEN <<Event("RecoveryScheduled", c, s)>> ELSE << >>)
    BY DEF ApplyCommandReceipt
  <1> DEFINE a == Event("Ack", c, s)
             b == Event("Receipt", c, s)
             d == Event("RecoveryScheduled", c, s)
             p == lane \o <<a, b>>
             y == IF s = "UnknownExecution" THEN <<d>> ELSE << >>
  <1>3. /\ a \in Events /\ a.command = c /\ a.kind = "Ack"
        /\ b \in Events /\ b.command = c /\ b.kind = "Receipt"
        /\ d \in Events /\ d.command = c /\ d.kind = "RecoveryScheduled"
    BY EventType
  <1> HIDE DEF a, b, d
  <1>4. <<a, b>> \in Seq(Events) /\ Len(<<a, b>>) = 2 /\ <<a, b>>[1] = a /\ <<a, b>>[2] = b
    BY <1>3
  <1>5. /\ p \in Seq(Events) /\ Len(p) = Len(lane) + 2
        /\ \A n \in 1 .. Len(lane) : p[n] = lane[n]
        /\ p[Len(lane) + 1] = a /\ p[Len(lane) + 2] = b
    BY <1>1, <1>4, Sent
  <1>6. y \in Seq(Events) /\ Len(y) \in 0 .. 1 /\ (Len(y) = 1 => y[1] = d)
    BY <1>3
  <1>7. lane' = p \o y
    BY <1>2 DEF a, b, d
  <1> HIDE DEF p, y
  <1>8. /\ lane' \in Seq(Events) /\ Len(lane') = Len(p) + Len(y)
        /\ \A n \in 1 .. Len(p) : lane'[n] = p[n]
        /\ \A n \in 1 .. Len(y) : lane'[Len(p) + n] = y[n]
    <2>1. p \in Seq(Events) /\ y \in Seq(Events)
      BY <1>5, <1>6
    <2>2. /\ p \o y \in Seq(Events) /\ Len(p \o y) = Len(p) + Len(y)
          /\ \A n \in 1 .. Len(p) : (p \o y)[n] = p[n]
          /\ \A n \in 1 .. Len(y) : (p \o y)[Len(p) + n] = y[n]
      BY ONLY <2>1, Sent
    <2> QED BY <1>7, <2>2
  <1>9. Len(lane) \in Nat
    BY <1>1
  <1>10. Len(y) = 1 => lane'[Len(lane) + 3] = d
    <2>1. Len(y) = 1 => lane'[Len(p) + 1] = y[1]
      BY <1>8
    <2> QED BY <1>5, <1>6, <1>9, <2>1
  <1>11. lane'[Len(lane) + 1] = a /\ lane'[Len(lane) + 2] = b
    BY <1>5, <1>8, <1>9
  <1>12. ASSUME NEW n \in Len(lane) + 1 .. Len(lane')
         PROVE  About(c, n)' \/ lane'[n].kind = "Receipt"
    <2>1. n = Len(lane) + 1 \/ n = Len(lane) + 2 \/ (n = Len(lane) + 3 /\ Len(y) = 1)
      BY <1>5, <1>6, <1>8, <1>9
    <2> QED BY <1>3, <1>10, <1>11, <2>1 DEF About
  <1>13. Len(lane') >= Len(lane)
    BY <1>5, <1>6, <1>8, <1>9
  <1> QED BY <1>5, <1>8, <1>9, <1>12, <1>13 DEF LaneGrows

\* The end of a recovery and classify_command_json publish at most one event.
LEMMA OneGrows ==
    ASSUME TypeOK, NEW c \in Commands, RecoveryEnds(c) \/ ClassifyCommandJson(c)
    PROVE  LaneGrows(c)
  <1>1. lane \in Seq(Events) /\ Len(lane) \in Nat
    BY DEF TypeOK
  <1>2. CASE lane' = lane
    BY <1>1, <1>2 DEF LaneGrows
  <1>3. ASSUME NEW e \in Events, lane' = Append(lane, e), e.command = c
        PROVE  LaneGrows(c)
    <2>1. /\ lane' \in Seq(Events)
          /\ Len(lane') = Len(lane) + 1
          /\ \A n \in 1 .. Len(lane) : lane'[n] = lane[n]
          /\ lane'[Len(lane) + 1] = e
      BY <1>1, <1>3, SentOne
    <2>2. ASSUME NEW n \in Len(lane) + 1 .. Len(lane')
          PROVE  About(c, n)' \/ lane'[n].kind = "Receipt"
      <3>1. n = Len(lane) + 1
        BY <1>1, <2>1
      <3> QED BY <1>3, <2>1, <3>1 DEF About
    <2> QED BY <1>1, <2>1, <2>2 DEF LaneGrows
  <1>4. CASE RecoveryEnds(c)
    BY <1>2, <1>3, <1>4, EventType DEF RecoveryEnds
  <1>5. CASE ClassifyCommandJson(c)
    BY <1>2, <1>3, <1>5, EventType DEF ClassifyCommandJson
  <1> QED BY <1>4, <1>5

----------------------------------------------------------------------------
(* Type correctness.                                                       *)

\* A recv that finds a hole moves the receiver behind it and reports what of
\* the command's lifecycle was in it.
LEMMA LaggedSets ==
    ASSUME TypeOK, NEW c \in Commands, RecvLagged(c)
    PROVE  /\ handle' \in [Commands -> HandleType]
           /\ handle'[c].next = Oldest(lane) /\ handle[c].next < Oldest(lane)
           /\ handle'[c].read = handle[c].read
           /\ handle'[c].lost = handle[c].lost
                 \cup {n \in handle[c].next .. Oldest(lane) - 1 : About(c, n)}
  <1> DEFINE h == handle[c]
             l == h.lost \cup {n \in h.next .. Oldest(lane) - 1 : About(c, n)}
             v == IF h.call = "resolved" THEN "Err" ELSE h.verdict
             r == [h EXCEPT !.next = Oldest(lane), !.lost = l, !.verdict = v, !.call = "none"]
  <1>0. /\ handle \in [Commands -> HandleType] /\ h \in HandleType /\ lane \in Seq(Events)
    BY DEF TypeOK, HandleType
  <1>1. /\ h.verdict \in {"none", "Accepted", "UnknownExecution", "Err"}
        /\ h.next \in Nat /\ h.lost \in SUBSET Nat
        /\ "none" \in Calls /\ Oldest(lane) \in Nat
    BY <1>0, OldestType DEF HandleType, Calls
  <1>2. l \in SUBSET Nat /\ v \in {"none", "Accepted", "UnknownExecution", "Err"}
    BY <1>1
  <1>3. handle' = [handle EXCEPT ![c] = r] /\ h.next < Oldest(lane)
    BY DEF RecvLagged
  <1> HIDE DEF l, v
  <1>4. r \in HandleType /\ r.next = Oldest(lane) /\ r.read = h.read /\ r.lost = l
    BY <1>0, <1>1, <1>2 DEF HandleType
  <1> HIDE DEF r
  <1>5. handle' \in [Commands -> HandleType] /\ handle'[c] = r
    BY <1>0, <1>3, <1>4
  <1> QED BY <1>3, <1>4, <1>5 DEF l

\* A recv that finds an event takes it.
LEMMA EventSets ==
    ASSUME TypeOK, NEW c \in Commands, RecvEvent(c)
    PROVE  /\ handle' \in [Commands -> HandleType]
           /\ handle[c].next \in Oldest(lane) .. Len(lane)
           /\ handle'[c].next = handle[c].next + 1
           /\ handle'[c].lost = handle[c].lost
           /\ handle'[c].read = IF About(c, handle[c].next)
                                  THEN handle[c].read \cup {handle[c].next} ELSE handle[c].read
  <1> DEFINE h == handle[c]
             e == lane[h.next]
             mine == Matches(c, e)
             completed == mine /\ e.kind = "RecoveryCompleted"
             returns == \/ h.call = "receipt" /\ e.kind = "Receipt" /\ e.command = c
                        \/ h.call = "next_lifecycle" /\ mine
                        \/ h.call = "resolved" /\ completed
             d == IF About(c, h.next) THEN h.read \cup {h.next} ELSE h.read
             v == IF h.call = "resolved" /\ completed
                    THEN ReceiptAfterRecovery(e.status) ELSE h.verdict
             k == IF returns THEN "none" ELSE h.call
             r == [h EXCEPT !.next = h.next + 1, !.read = d, !.verdict = v, !.call = k]
  <1>0. handle \in [Commands -> HandleType] /\ h \in HandleType
    BY DEF TypeOK, HandleType
  <1>1. /\ h.verdict \in {"none", "Accepted", "UnknownExecution", "Err"}
        /\ h.next \in Nat /\ h.next + 1 \in Nat /\ h.read \in SUBSET Nat
        /\ "none" \in Calls /\ h.call \in Calls
    BY <1>0 DEF HandleType, Calls
  <1>2. d \in SUBSET Nat
    BY <1>1
  <1>3. v \in {"none", "Accepted", "UnknownExecution", "Err"} /\ k \in Calls
    <2> HIDE DEF completed, returns
    <2> QED BY <1>1 DEF ReceiptAfterRecovery
  <1>4. handle' = [handle EXCEPT ![c] = r] /\ h.next \in Oldest(lane) .. Len(lane)
    BY DEF RecvEvent
  <1> HIDE DEF d, v, k
  <1>5. r \in HandleType /\ r.next = h.next + 1 /\ r.read = d /\ r.lost = h.lost
    BY <1>0, <1>1, <1>2, <1>3 DEF HandleType
  <1> HIDE DEF r
  <1>6. handle' \in [Commands -> HandleType] /\ handle'[c] = r
    BY <1>0, <1>4, <1>5
  <1> QED BY <1>4, <1>5, <1>6 DEF d

\* The steps that change a handle keep its type.
LEMMA HandleTyped ==
    ASSUME TypeOK, NEW c \in Commands,
           \/ Submit(c) \/ ReturnHandle(c) \/ CallReceipt(c) \/ CallNextLifecycle(c)
           \/ CallResolved(c) \/ CancelCall(c) \/ Recv(c)
    PROVE  handle' \in [Commands -> HandleType]
  <1>0. /\ handle \in [Commands -> HandleType] /\ handle[c] \in HandleType
        /\ lane \in Seq(Events) /\ Len(lane) \in Nat
        /\ status[c] \in {"none", "Accepted", "UnknownExecution"}
    BY DEF TypeOK, HandleType
  <1> DEFINE h == handle[c]
  <1>1. CASE Submit(c)
    <2>1. ASSUME NEW g \in HandleType, NEW n \in Nat PROVE [g EXCEPT !.next = n] \in HandleType
      BY DEF HandleType
    <2>2. [h EXCEPT !.next = Len(lane) + 1] \in HandleType
      <3>1. h \in HandleType /\ Len(lane) + 1 \in Nat
        BY <1>0
      <3> HIDE DEF h
      <3> QED BY ONLY <2>1, <3>1
    <2> QED BY <1>0, <1>1, <2>2 DEF Submit
  <1>2. CASE ReturnHandle(c)
    <2>1. PICK at \in {0, 1} : handle' = [handle EXCEPT ![c].at = at]
      BY <1>2 DEF ReturnHandle
    <2>2. [h EXCEPT !.at = at] \in HandleType
      BY <1>0 DEF HandleType
    <2> QED BY <1>0, <2>1, <2>2
  <1>3. CASE CallReceipt(c)
    <2>1. [h EXCEPT !.initial = FALSE] \in HandleType /\ [h EXCEPT !.call = "receipt"] \in HandleType
      BY <1>0 DEF HandleType, Calls
    <2> QED BY <1>0, <1>3, <2>1 DEF CallReceipt
  <1>4. CASE CallNextLifecycle(c)
    <2>1. [h EXCEPT !.call = "next_lifecycle"] \in HandleType
      BY <1>0 DEF HandleType, Calls
    <2> QED BY <1>0, <1>4, <2>1 DEF CallNextLifecycle
  <1>5. CASE CallResolved(c)
    <2>1. /\ [h EXCEPT !.verdict = status[c]] \in HandleType
          /\ [h EXCEPT !.call = "resolved"] \in HandleType
      BY <1>0 DEF HandleType, Calls
    <2> QED BY <1>0, <1>5, <2>1 DEF CallResolved
  <1>6. CASE CancelCall(c)
    <2>1. [h EXCEPT !.call = "none"] \in HandleType
      BY <1>0 DEF HandleType, Calls
    <2> QED BY <1>0, <1>6, <2>1 DEF CancelCall
  <1>7. CASE Recv(c)
    BY <1>7, LaggedSets, EventSets DEF Recv
  <1> QED BY <1>1, <1>2, <1>3, <1>4, <1>5, <1>6, <1>7

\* The steps of a command and its handle keep the types.
LEMMA TypeCommand ==
    ASSUME LanesInv, NEW c \in Commands,
           \/ Submit(c) \/ Acquire(c) \/ Refuse(c) \/ ApplyCommandReceipt(c)
           \/ RecoveryEnds(c) \/ ClassifyCommandJson(c) \/ ReturnHandle(c)
           \/ CallReceipt(c) \/ CallNextLifecycle(c) \/ CallResolved(c)
           \/ CancelCall(c) \/ Recv(c)
    PROVE  TypeOK'
  <1>0. TypeOK
    BY DEF LanesInv
  <1> USE DEF limiterVars, dataVars
  <1>1. CASE \/ CallReceipt(c) \/ CallNextLifecycle(c) \/ CallResolved(c)
             \/ CancelCall(c) \/ Recv(c)
    <2>1. handle' \in [Commands -> HandleType]
      BY <1>0, <1>1, HandleTyped
    <2>2. UNCHANGED <<using, tokens, ticks, phase, status, recovery, lane, foreign, data, watcher>>
      BY <1>1 DEF CallReceipt, CallNextLifecycle, CallResolved, CancelCall, Recv
    <2> QED BY <1>0, <2>1, <2>2 DEF TypeOK, HandleType
  <1>2. CASE Submit(c) \/ ReturnHandle(c)
    <2>1. handle' \in [Commands -> HandleType]
      BY <1>0, <1>2, HandleTyped
    <2>2. UNCHANGED <<using, tokens, ticks, status, recovery, lane, foreign, data, watcher>>
      BY <1>2 DEF Submit, ReturnHandle
    <2>3. phase' \in [Commands -> {"new", "acquire", "asleep", "sent", "answered", "held", "refused"}]
      <3>1. \E p \in {"acquire", "held"} : phase' = [phase EXCEPT ![c] = p]
        BY <1>2 DEF Submit, ReturnHandle
      <3> QED BY <1>0, <3>1 DEF TypeOK
    <2> QED BY <1>0, <2>1, <2>2, <2>3 DEF TypeOK, HandleType
  <1>3. CASE Acquire(c) \/ Refuse(c)
    <2>1. tokens' \in 0 .. LimiterBurst
      <3>1. tokens \in 0 .. LimiterBurst /\ LimiterBurst \in Nat
        BY <1>0, BurstType DEF TypeOK
      <3>2. tokens' = tokens \/ (tokens >= 1 /\ tokens' = tokens - 1)
        BY <1>3 DEF Acquire, Refuse
      <3> QED BY <3>1, <3>2
    <2>2. UNCHANGED <<using, ticks, status, recovery, lane, foreign, handle, data, watcher>>
      BY <1>3 DEF Acquire, Refuse
    <2>3. phase' \in [Commands -> {"new", "acquire", "asleep", "sent", "answered", "held", "refused"}]
      <3>1. \E p \in {"sent", "asleep", "refused"} : phase' = [phase EXCEPT ![c] = p]
        BY <1>3 DEF Acquire, Refuse
      <3> QED BY <1>0, <3>1 DEF TypeOK
    <2> QED BY <1>0, <2>1, <2>2, <2>3 DEF TypeOK
  <1>4. CASE ApplyCommandReceipt(c)
    <2>1. lane' \in Seq(Events)
      BY <1>0, <1>4, ReceiptGrows DEF LaneGrows
    <2>2. UNCHANGED <<using, tokens, ticks, foreign, handle, data, watcher>>
      BY <1>4 DEF ApplyCommandReceipt
    <2>3. phase' \in [Commands -> {"new", "acquire", "asleep", "sent", "answered", "held", "refused"}]
      BY <1>0, <1>4 DEF ApplyCommandReceipt, TypeOK
    <2>4. status' \in [Commands -> {"none", "Accepted", "UnknownExecution"}]
      BY <1>0, <1>4 DEF ApplyCommandReceipt, TypeOK
    <2>5. recovery' \in [Commands -> {"none", "running", "Synchronized", "StillUncertain", "Err"}]
      BY <1>0, <1>4 DEF ApplyCommandReceipt, TypeOK
    <2> QED BY <1>0, <2>1, <2>2, <2>3, <2>4, <2>5 DEF TypeOK
  <1>5. CASE RecoveryEnds(c) \/ ClassifyCommandJson(c)
    <2>1. lane' \in Seq(Events)
      BY <1>0, <1>5, OneGrows DEF LaneGrows
    <2>2. UNCHANGED <<using, tokens, ticks, phase, status, handle, data, watcher>>
      BY <1>5 DEF RecoveryEnds, ClassifyCommandJson
    <2>3. foreign' \in 0 .. MaxForeign
      BY <1>0, <1>5, LanesAssumption DEF RecoveryEnds, ClassifyCommandJson, TypeOK
    <2>4. recovery' \in [Commands -> {"none", "running", "Synchronized", "StillUncertain", "Err"}]
      <3>1. recovery' = recovery \/ \E o \in {"Synchronized", "StillUncertain", "Err"} :
              recovery' = [recovery EXCEPT ![c] = o]
        BY <1>5 DEF RecoveryEnds, ClassifyCommandJson
      <3> QED BY <1>0, <3>1 DEF TypeOK
    <2> QED BY <1>0, <2>1, <2>2, <2>3, <2>4 DEF TypeOK
  <1> QED BY <1>1, <1>2, <1>3, <1>4, <1>5

\* The passing of time keeps the types.
LEMMA TypeTick == ASSUME TypeOK, Tick PROVE TypeOK'
  <1>1. tokens' \in 0 .. LimiterBurst
    BY BurstType DEF Tick, TypeOK
  <1>2. ticks' \in 0 .. Cardinality(Commands)
    BY BurstType DEF Tick, TypeOK
  <1>3. phase' \in [Commands -> {"new", "acquire", "asleep", "sent", "answered", "held", "refused"}]
    BY DEF Tick, TypeOK
  <1>4. UNCHANGED <<using, status, recovery, lane, foreign, handle, data, watcher>>
    BY DEF Tick, dataVars
  <1> QED BY <1>1, <1>2, <1>3, <1>4 DEF TypeOK

----------------------------------------------------------------------------
(* The data lane: types and the watcher's invariant together.              *)

WatcherType(n) == [stage : {"idle", "subscribed", "held"}, next : Nat, granted : Nat,
                   got : SUBSET (1 .. n), skipped : SUBSET (1 .. n)]

\* The facts about the data lane that its steps use.
LEMMA WatcherFields ==
    ASSUME TypeOK, WatcherInv
    PROVE  /\ data \in Seq({"mine", "other"}) /\ Len(data) \in Nat
           /\ watcher \in WatcherType(Len(data))
           /\ watcher.stage \in {"idle", "subscribed", "held"}
           /\ watcher.next \in Nat /\ watcher.granted \in Nat
           /\ watcher.got \subseteq 1 .. Len(data) /\ watcher.skipped \subseteq 1 .. Len(data)
  <1>1. /\ data \in Seq({"mine", "other"}) /\ Len(data) \in Nat
        /\ watcher \in WatcherType(Len(data))
    BY DEF TypeOK, WatcherType
  <1> QED BY <1>1 DEF WatcherType

\* Setting fields of the watcher's record.
LEMMA WatcherSet ==
    ASSUME NEW n \in Nat, NEW w \in WatcherType(n), NEW s \in {"idle", "subscribed", "held"},
           NEW next \in Nat, NEW granted \in Nat, NEW got \in SUBSET (1 .. n),
           NEW skipped \in SUBSET (1 .. n)
    PROVE  /\ [w EXCEPT !.stage = s, !.next = next] \in WatcherType(n)
           /\ [w EXCEPT !.stage = s, !.granted = granted] \in WatcherType(n)
           /\ [w EXCEPT !.next = next, !.skipped = skipped, !.got = got] \in WatcherType(n)
  BY DEF WatcherType

\* A new event lies ahead of the watcher.
LEMMA WatcherPublish ==
    ASSUME TypeOK, WatcherInv, PublishData
    PROVE  TypeOK' /\ WatcherInv'
  <1>0. /\ data \in Seq({"mine", "other"}) /\ Len(data) \in Nat
        /\ watcher \in WatcherType(Len(data))
        /\ watcher.next \in Nat /\ watcher.granted \in Nat
    BY WatcherFields
  <1>1. PICK e \in {"mine", "other"} : data' = Append(data, e)
    BY DEF PublishData
  <1>2. /\ data' \in Seq({"mine", "other"}) /\ Len(data') = Len(data) + 1
        /\ \A n \in 1 .. Len(data) : data'[n] = data[n]
    BY <1>0, <1>1, SentOne
  <1>3. watcher' = watcher /\ UNCHANGED commandVars
    BY DEF PublishData
  <1>4. WatcherType(Len(data)) \subseteq WatcherType(Len(data'))
    BY <1>0, <1>2 DEF WatcherType
  <1>5. TypeOK'
    BY <1>0, <1>2, <1>3, <1>4 DEF TypeOK, WatcherType, commandVars, limiterVars
  <1>6. /\ watcher.stage # "idle" => watcher.next \in 1 .. Len(data') + 1
        /\ watcher.stage = "held" => watcher.granted <= Len(data')
    BY <1>0, <1>2 DEF WatcherInv
  <1>7. WatcherSees'
    <2> SUFFICES ASSUME watcher.stage = "held", NEW n \in watcher.granted + 1 .. watcher.next - 1,
                        data'[n] = "mine"
                 PROVE  n \in watcher.got \cup watcher.skipped
      BY <1>3 DEF WatcherSees
    <2>1. n \in 1 .. Len(data)
      BY <1>0 DEF WatcherInv
    <2> QED BY <1>2, <2>1 DEF WatcherInv, WatcherSees
  <1>8. \A n \in watcher.skipped : n < Oldest(data')
    <2>1. watcher.skipped \subseteq 1 .. Len(data)
      BY WatcherFields
    <2>2. /\ Oldest(data) \in Nat /\ Oldest(data') \in Nat
          /\ Oldest(data) <= Oldest(data')
      BY <1>0, <1>2, OldestType, OldestGrows
    <2>3. \A n \in watcher.skipped : n < Oldest(data)
      BY DEF WatcherInv
    <2> QED BY <1>0, <2>1, <2>2, <2>3
  <1> QED BY <1>3, <1>5, <1>6, <1>7, <1>8 DEF WatcherInv

\* The watcher subscribes before it asks for its lease.
LEMMA WatcherStarts ==
    ASSUME TypeOK, WatcherInv, Subscribe \/ Grant
    PROVE  TypeOK' /\ WatcherInv'
  <1>0. /\ Len(data) \in Nat
        /\ watcher \in WatcherType(Len(data))
        /\ watcher.next \in Nat /\ watcher.granted \in Nat
    BY WatcherFields
  <1>1. data' = data /\ UNCHANGED commandVars
    BY DEF Subscribe, Grant
  <1>2. CASE Subscribe
    <2>1. watcher' = [watcher EXCEPT !.stage = "subscribed", !.next = Len(data) + 1]
      BY <1>2 DEF Subscribe
    <2>2. watcher' \in WatcherType(Len(data)) /\ watcher'.stage = "subscribed"
          /\ watcher'.next = Len(data) + 1 /\ watcher'.skipped = watcher.skipped
      <3>1. Len(data) + 1 \in Nat
        BY <1>0
      <3>2. [watcher EXCEPT !.stage = "subscribed", !.next = Len(data) + 1] \in WatcherType(Len(data))
        BY <1>0, <3>1, WatcherSet
      <3> QED BY <1>0, <2>1, <3>2 DEF WatcherType
    <2>3. TypeOK'
      BY <1>1, <2>2 DEF TypeOK, WatcherType, commandVars, limiterVars
    <2> QED BY <1>0, <1>1, <2>2, <2>3 DEF WatcherInv, WatcherSees
  <1>3. CASE Grant
    <2>1. /\ watcher.stage = "subscribed"
          /\ watcher' = [watcher EXCEPT !.stage = "held", !.granted = Len(data)]
      BY <1>3 DEF Grant
    <2>2. /\ watcher' \in WatcherType(Len(data)) /\ watcher'.stage = "held"
          /\ watcher'.next = watcher.next /\ watcher'.granted = Len(data)
          /\ watcher'.skipped = watcher.skipped
      BY <1>0, <2>1 DEF WatcherType
    <2>3. TypeOK'
      BY <1>1, <2>2 DEF TypeOK, WatcherType, commandVars, limiterVars
    <2>4. watcher.next \in 1 .. Len(data) + 1
      BY <2>1 DEF WatcherInv
    <2>5. \A n \in watcher'.granted + 1 .. watcher'.next - 1 : FALSE
      BY <1>0, <2>2, <2>4
    <2> QED BY <1>0, <1>1, <2>2, <2>3, <2>4, <2>5 DEF WatcherInv, WatcherSees
  <1> QED BY <1>2, <1>3

\* The watcher reads on; what the channel overwrote is skipped.
LEMMA WatcherReads ==
    ASSUME TypeOK, WatcherInv, WatcherRecv
    PROVE  TypeOK' /\ WatcherInv'
  <1> DEFINE from == IF watcher.next < Oldest(data) THEN Oldest(data) ELSE watcher.next
             skipped == watcher.skipped \cup (watcher.next .. from - 1)
             got == IF data[from] = "mine" THEN watcher.got \cup {from} ELSE watcher.got
  <1>0. /\ data \in Seq({"mine", "other"}) /\ Len(data) \in Nat
        /\ watcher \in WatcherType(Len(data))
        /\ watcher.next \in Nat /\ watcher.granted \in Nat
        /\ watcher.got \subseteq 1 .. Len(data) /\ watcher.skipped \subseteq 1 .. Len(data)
    BY WatcherFields
  <1>1. /\ watcher.stage = "held" /\ watcher.next <= Len(data)
        /\ watcher' = [watcher EXCEPT !.next = from + 1, !.skipped = skipped, !.got = got]
        /\ data' = data /\ UNCHANGED commandVars
    BY DEF WatcherRecv
  <1>2. watcher.next >= 1 /\ watcher.granted <= Len(data)
    BY <1>1 DEF WatcherInv
  <1>3. Oldest(data) \in Nat \ {0} /\ Oldest(data) <= Len(data)
    BY <1>0, <1>1, <1>2, OldestType
  <1>4. from \in 1 .. Len(data) /\ from >= watcher.next
    BY <1>0, <1>1, <1>2, <1>3
  <1>11. \A n \in skipped : n < Oldest(data)
    <2>1. \A n \in watcher.skipped : n < Oldest(data)
      BY DEF WatcherInv
    <2>2. \A n \in watcher.next .. from - 1 : n < Oldest(data)
      BY <1>0, <1>3
    <2> HIDE DEF from
    <2> QED BY <2>1, <2>2
  <1> HIDE DEF from
  <1>5. got \subseteq 1 .. Len(data) /\ skipped \subseteq 1 .. Len(data)
    BY <1>0, <1>2, <1>4
  <1>6. ASSUME NEW n \in watcher.next .. from, data[n] = "mine" PROVE n \in got \cup skipped
    BY <1>0, <1>4, <1>6
  <1>7. watcher.got \subseteq got /\ watcher.skipped \subseteq skipped
    OBVIOUS
  <1> HIDE DEF got, skipped
  <1>8. /\ watcher' \in WatcherType(Len(data))
        /\ watcher'.stage = "held" /\ watcher'.next = from + 1
        /\ watcher'.granted = watcher.granted
        /\ watcher'.got = got /\ watcher'.skipped = skipped
    <2>1. from + 1 \in Nat /\ got \in SUBSET (1 .. Len(data)) /\ skipped \in SUBSET (1 .. Len(data))
      BY <1>0, <1>4, <1>5
    <2>2. [watcher EXCEPT !.next = from + 1, !.skipped = skipped, !.got = got]
            \in WatcherType(Len(data))
      BY <1>0, <2>1, WatcherSet
    <2> QED BY <1>0, <1>1, <2>2 DEF WatcherType
  <1>9. TypeOK'
    BY <1>1, <1>8 DEF TypeOK, WatcherType, commandVars, limiterVars
  <1>10. WatcherSees'
    <2> SUFFICES ASSUME NEW n \in watcher.granted + 1 .. from, data[n] = "mine"
                 PROVE  n \in got \cup skipped
      BY <1>0, <1>1, <1>4, <1>8 DEF WatcherSees
    <2>1. CASE n >= watcher.next
      BY <1>0, <1>4, <1>6, <2>1
    <2>2. CASE n < watcher.next
      <3>1. n \in watcher.granted + 1 .. watcher.next - 1
        BY <1>0, <1>4, <2>2
      <3> QED BY <1>1, <1>7, <3>1 DEF WatcherInv, WatcherSees
    <2> QED BY <1>0, <1>4, <2>1, <2>2
  <1> QED BY <1>0, <1>1, <1>2, <1>4, <1>8, <1>9, <1>10, <1>11 DEF WatcherInv

----------------------------------------------------------------------------
(* The rate limiter.                                                       *)

\* The commands that got their token.
Through == {c \in Commands : phase[c] \in {"sent", "answered", "held", "refused"}}

\* A step that lets no command through and credits no token keeps the bound.
LEMMA RateKept ==
    ASSUME RateBound, Through' = Through, UNCHANGED <<tokens, ticks>>
    PROVE  RateBound'
  BY DEF RateBound, Through

\* A refilled token is paid for by the tick, a command by its token.
LEMMA RateStep ==
    ASSUME TypeOK, RateBound, Tick \/ \E c \in Commands : Acquire(c)
    PROVE  RateBound'
  <1>0. /\ Cardinality(Through) \in Nat /\ IsFiniteSet(Through)
        /\ tokens \in 0 .. LimiterBurst /\ ticks \in 0 .. Cardinality(Commands)
        /\ LimiterBurst \in Nat /\ Cardinality(Commands) \in Nat
    <2>1. IsFiniteSet(Through)
      BY LanesAssumption, FS_Subset DEF Through
    <2> QED BY <2>1, BurstType, FS_CardinalityType DEF TypeOK
  <1>1. CASE Tick
    <2>1. Through' = Through
      BY <1>1 DEF Tick, Through, TypeOK
    <2>2. /\ tokens' <= tokens + 1 /\ tokens' \in Nat
          /\ (ticks' = ticks + 1 \/ (ticks' = ticks /\ ~(ticks < Cardinality(Commands))))
      BY <1>0, <1>1 DEF Tick
    <2>3. ticks' < Cardinality(Commands) =>
            tokens' + Cardinality(Through) <= LimiterBurst + ticks'
      BY <1>0, <2>2 DEF RateBound, Through
    <2> QED BY <2>1, <2>3 DEF RateBound, Through
  <1>2. ASSUME NEW c \in Commands, Acquire(c) PROVE RateBound'
    <2>1. CASE tokens >= 1
      <3>1. tokens' = tokens - 1 /\ ticks' = ticks /\ phase' = [phase EXCEPT ![c] = "sent"]
            /\ phase[c] = "acquire"
        BY <1>2, <2>1 DEF Acquire
      <3>2. Through' = Through \cup {c} /\ c \notin Through
        BY <3>1 DEF Through, TypeOK
      <3>3. Cardinality(Through') = Cardinality(Through) + 1
        BY <1>0, <3>2, FS_AddElement
      <3>4. ticks < Cardinality(Commands) =>
              tokens' + Cardinality(Through') <= LimiterBurst + ticks
        BY <1>0, <3>1, <3>3 DEF RateBound, Through
      <3> QED BY <3>1, <3>4 DEF RateBound, Through
    <2>2. CASE ~(tokens >= 1)
      <3>1. UNCHANGED <<tokens, ticks>> /\ phase' = [phase EXCEPT ![c] = "asleep"]
            /\ phase[c] = "acquire"
        BY <1>2, <2>2 DEF Acquire
      <3>2. Through' = Through
        BY <3>1 DEF Through, TypeOK
      <3> QED BY <3>1, <3>2, RateKept
    <2> QED BY <2>1, <2>2
  <1> QED BY <1>1, <1>2

----------------------------------------------------------------------------
(* Handles.                                                                *)

\* What is accounted for stays so while the lane grows and the handle rests.
LEMMA StaysAccounted ==
    ASSUME TypeOK, NEW c \in Commands, NEW n \in Nat, Accounted(c, n),
           lane' \in Seq(Events), Len(lane') >= Len(lane),
           handle'[c].next = handle[c].next, handle'[c].read = handle[c].read,
           handle'[c].lost = handle[c].lost
    PROVE  Accounted(c, n)'
  <1>1. lane \in Seq(Events) /\ Len(lane) \in Nat /\ Len(lane') \in Nat
    BY DEF TypeOK
  <1>2. /\ Oldest(lane) \in Nat /\ Oldest(lane') \in Nat
        /\ Oldest(lane) <= Oldest(lane')
    BY <1>1, OldestType, OldestGrows
  <1>3. n < Oldest(lane) => n < Oldest(lane')
    BY <1>2
  <1> QED BY <1>3 DEF Accounted

\* A step that leaves a command alone and publishes nothing about it keeps
\* what holds of its handle.
LEMMA HandleKept ==
    ASSUME TypeOK, NEW c \in Commands, HandleInv(c), NEW d \in Commands, LaneGrows(d), d # c,
           phase'[c] = phase[c], recovery'[c] = recovery[c], handle'[c] = handle[c]
    PROVE  HandleInv(c)'
  <1>1. Len(lane) \in Nat /\ Len(lane') \in Nat /\ handle[c].next \in Nat
    BY DEF TypeOK, LaneGrows
  <1>2. ASSUME NEW n \in 1 .. Len(lane'), About(c, n)'
        PROVE  n \in 1 .. Len(lane) /\ About(c, n)
    <2>1. n \in 1 .. Len(lane)
      BY <1>1, <1>2 DEF LaneGrows, About
    <2> QED BY <1>2, <2>1 DEF LaneGrows, About
  <1>3. Len(lane) <= Len(lane')
    BY <1>1 DEF LaneGrows
  <1> HIDE DEF About
  <1>4. handle[c].next <= Len(lane') + 1 /\ (phase[c] # "held" => handle[c].call = "none")
    BY <1>1, <1>3 DEF HandleInv
  <1>5. phase[c] \in {"new", "acquire", "asleep", "sent"} =>
          \A n \in 1 .. Len(lane') : ~About(c, n)'
    BY <1>2 DEF HandleInv
  <1>6. ASSUME phase[c] \in {"answered", "held"}, NEW n \in 1 .. Len(lane'), About(c, n)'
        PROVE  Accounted(c, n)'
    <2>1. Accounted(c, n) /\ n \in Nat
      BY <1>2, <1>6 DEF HandleInv
    <2> QED BY <2>1, StaysAccounted DEF LaneGrows
  <1>7. recovery[c] # "none" => phase[c] \in {"answered", "held"}
    BY DEF HandleInv
  <1> HIDE DEF Accounted
  <1> QED BY <1>4, <1>5, <1>6, <1>7 DEF HandleInv

\* A step that publishes nothing grows the lane trivially.
LEMMA LaneSame ==
    ASSUME TypeOK, NEW c, lane' = lane
    PROVE  LaneGrows(c)
  <1>1. lane \in Seq(Events) /\ Len(lane) \in Nat
    BY DEF TypeOK
  <1> QED BY <1>1 DEF LaneGrows

\* What a step of one command leaves alone.
LEMMA OthersAlone ==
    ASSUME TypeOK, NEW c \in Commands, NEW d \in Commands, c # d,
           \/ Submit(d) \/ Acquire(d) \/ Refuse(d) \/ ApplyCommandReceipt(d)
           \/ RecoveryEnds(d) \/ ClassifyCommandJson(d) \/ ReturnHandle(d)
           \/ CallReceipt(d) \/ CallNextLifecycle(d) \/ CallResolved(d)
           \/ CancelCall(d) \/ Recv(d)
    PROVE  /\ LaneGrows(d)
           /\ phase'[c] = phase[c] /\ recovery'[c] = recovery[c] /\ handle'[c] = handle[c]
  <1> USE DEF TypeOK
  <1>1. CASE ApplyCommandReceipt(d)
    BY <1>1, ReceiptGrows DEF ApplyCommandReceipt
  <1>2. CASE RecoveryEnds(d) \/ ClassifyCommandJson(d)
    BY <1>2, OneGrows DEF RecoveryEnds, ClassifyCommandJson
  <1>3. CASE Submit(d) \/ Acquire(d) \/ Refuse(d) \/ ReturnHandle(d)
    BY <1>3, LaneSame DEF Submit, Acquire, Refuse, ReturnHandle
  <1>4. CASE CallReceipt(d) \/ CallNextLifecycle(d) \/ CallResolved(d) \/ CancelCall(d)
    BY <1>4, LaneSame DEF CallReceipt, CallNextLifecycle, CallResolved, CancelCall
  <1>5. CASE Recv(d)
    <2>1. UNCHANGED <<phase, recovery, lane>>
      BY <1>5 DEF Recv
    <2>2. handle'[c] = handle[c]
      BY <1>5 DEF Recv, RecvLagged, RecvEvent
    <2> QED BY <2>1, <2>2, LaneSame
  <1> QED BY <1>1, <1>2, <1>3, <1>4, <1>5

\* The steps of a command itself.
LEMMA HandleOwn ==
    ASSUME TypeOK, NEW c \in Commands, HandleInv(c),
           \/ Submit(c) \/ Acquire(c) \/ Refuse(c) \/ ApplyCommandReceipt(c)
           \/ RecoveryEnds(c) \/ ClassifyCommandJson(c) \/ ReturnHandle(c)
           \/ CallReceipt(c) \/ CallNextLifecycle(c) \/ CallResolved(c)
           \/ CancelCall(c) \/ Recv(c)
    PROVE  HandleInv(c)'
  <1>0. /\ lane \in Seq(Events) /\ Len(lane) \in Nat
        /\ handle[c].next \in Nat /\ handle[c] \in HandleType /\ handle \in [Commands -> HandleType]
    BY DEF TypeOK, HandleType
  <1>1. CASE Submit(c)
    <2>1. /\ phase[c] = "new" /\ phase'[c] = "acquire" /\ UNCHANGED <<lane, recovery>>
          /\ handle' = [handle EXCEPT ![c].next = Len(lane) + 1]
      BY <1>1 DEF Submit, TypeOK
    <2>2. handle'[c].next = Len(lane) + 1 /\ handle'[c].call = handle[c].call
      BY <1>0, <2>1 DEF HandleType
    <2> QED BY <1>0, <2>1, <2>2 DEF HandleInv, About
  <1>2. CASE Acquire(c) \/ Refuse(c)
    <2>1. /\ UNCHANGED <<lane, recovery, handle>>
          /\ phase[c] \in {"acquire", "sent"} /\ phase'[c] \in {"sent", "asleep", "refused"}
      BY <1>2 DEF Acquire, Refuse, TypeOK
    <2> QED BY <1>0, <2>1 DEF HandleInv, About
  <1>3. CASE ApplyCommandReceipt(c)
    <2>1. phase[c] = "sent" /\ phase'[c] = "answered" /\ handle' = handle
      BY <1>3 DEF ApplyCommandReceipt, TypeOK
    <2>2. LaneGrows(c)
      BY <1>3, ReceiptGrows
    <2>3. Len(lane') \in Nat /\ Len(lane') >= Len(lane)
      BY <2>2 DEF LaneGrows
    <2>4. handle[c].call = "none" /\ handle[c].next <= Len(lane) + 1
          /\ \A n \in 1 .. Len(lane) : ~About(c, n)
      BY <2>1 DEF HandleInv
    <2>5. ASSUME NEW n \in 1 .. Len(lane'), About(c, n)' PROVE n >= handle[c].next
      <3>1. CASE n <= Len(lane)
        <4>1. n \in 1 .. Len(lane) /\ lane'[n] = lane[n]
          BY <1>0, <2>2, <3>1 DEF LaneGrows
        <4> QED BY <2>4, <2>5, <4>1 DEF About
      <3>2. CASE n > Len(lane)
        BY <1>0, <2>3, <2>4, <3>2
      <3> QED BY <1>0, <2>3, <3>1, <3>2
    <2>6. handle[c].next <= Len(lane') + 1
      BY <1>0, <2>3, <2>4
    <2> HIDE DEF About
    <2> QED BY <2>1, <2>4, <2>5, <2>6 DEF HandleInv, Accounted
  <1>4. CASE RecoveryEnds(c) \/ ClassifyCommandJson(c)
    <2>1. UNCHANGED <<phase, handle>>
      BY <1>4 DEF RecoveryEnds, ClassifyCommandJson
    <2>2. LaneGrows(c)
      BY <1>4, OneGrows
    <2>3. Len(lane') \in Nat /\ Len(lane') >= Len(lane)
      BY <2>2 DEF LaneGrows
    <2>4. recovery'[c] # "none" => phase[c] \in {"answered", "held"}
      BY <1>4 DEF RecoveryEnds, ClassifyCommandJson, HandleInv, TypeOK
    <2>5. phase[c] \in {"new", "acquire", "asleep", "sent"} =>
            \A n \in 1 .. Len(lane') : ~About(c, n)'
      <3> SUFFICES ASSUME phase[c] \in {"new", "acquire", "asleep", "sent"},
                          NEW n \in 1 .. Len(lane'), About(c, n)'
                   PROVE  FALSE
        OBVIOUS
      <3>1. ClassifyCommandJson(c)
        BY <1>4 DEF RecoveryEnds, HandleInv
      <3>2. n <= Len(lane) => n \in 1 .. Len(lane) /\ About(c, n)
        BY <1>0, <2>2 DEF LaneGrows, About
      <3>3. n > Len(lane) => lane'[n].kind = "Receipt"
        <4>1. lane' = Append(lane, Event("Receipt", c, "Accepted"))
          BY <3>1 DEF ClassifyCommandJson
        <4>2. Event("Receipt", c, "Accepted") \in Events
              /\ Event("Receipt", c, "Accepted").kind = "Receipt"
          BY EventType
        <4>3. Len(lane') = Len(lane) + 1 /\ lane'[Len(lane) + 1] = Event("Receipt", c, "Accepted")
          BY <1>0, <4>1, <4>2, SentOne
        <4>4. n > Len(lane) => n = Len(lane) + 1
          BY <1>0, <4>3
        <4> QED BY <4>2, <4>3, <4>4
      <3> QED BY <1>0, <2>3, <3>2, <3>3 DEF HandleInv, About
    <2>6. ASSUME phase[c] \in {"answered", "held"}, NEW n \in 1 .. Len(lane'), About(c, n)'
          PROVE  Accounted(c, n)'
      <3>1. CASE n <= Len(lane)
        <4>1. n \in 1 .. Len(lane) /\ About(c, n)
          BY <1>0, <2>2, <2>6, <3>1 DEF LaneGrows, About
        <4>2. Accounted(c, n) /\ n \in Nat
          BY <2>6, <4>1 DEF HandleInv
        <4> QED BY <2>1, <2>2, <4>2, StaysAccounted DEF LaneGrows
      <3>2. CASE n > Len(lane)
        <4>1. handle[c].next <= Len(lane) + 1
          BY DEF HandleInv
        <4>2. n >= handle[c].next
          BY <1>0, <2>3, <3>2, <4>1
        <4> QED BY <2>1, <4>2 DEF Accounted
      <3> QED BY <1>0, <2>3, <3>1, <3>2
    <2>7. handle[c].next <= Len(lane') + 1 /\ (phase[c] # "held" => handle[c].call = "none")
      BY <1>0, <2>3 DEF HandleInv
    <2> HIDE DEF About, Accounted
    <2> QED BY <2>1, <2>4, <2>5, <2>6, <2>7 DEF HandleInv
  <1>5. CASE \/ ReturnHandle(c) \/ CallReceipt(c) \/ CallNextLifecycle(c) \/ CallResolved(c)
             \/ CancelCall(c)
    <2>1. /\ phase[c] \in {"answered", "held"} /\ phase'[c] = "held"
          /\ recovery' = recovery /\ lane' = lane
      <3>1. CASE ReturnHandle(c)
        BY <3>1 DEF ReturnHandle, TypeOK
      <3>2. CASE CallReceipt(c) \/ CallNextLifecycle(c) \/ CallResolved(c)
        BY <3>2 DEF CallReceipt, CallNextLifecycle, CallResolved
      <3>3. CASE CancelCall(c)
        BY <3>3 DEF CancelCall, HandleInv
      <3> QED BY <1>5, <3>1, <3>2, <3>3
    <2>2. /\ handle'[c].next = handle[c].next /\ handle'[c].read = handle[c].read
          /\ handle'[c].lost = handle[c].lost
      <3>1. CASE ReturnHandle(c)
        BY <1>0, <3>1 DEF ReturnHandle, HandleType
      <3>2. CASE CallReceipt(c)
        BY <1>0, <3>2 DEF CallReceipt, HandleType
      <3>3. CASE CallNextLifecycle(c)
        BY <1>0, <3>3 DEF CallNextLifecycle, HandleType
      <3>4. CASE CallResolved(c)
        BY <1>0, <3>4 DEF CallResolved, HandleType
      <3>5. CASE CancelCall(c)
        BY <1>0, <3>5 DEF CancelCall, HandleType
      <3> QED BY <1>5, <3>1, <3>2, <3>3, <3>4, <3>5
    <2>3. ASSUME NEW n \in 1 .. Len(lane), About(c, n) PROVE Accounted(c, n)'
      <3>1. Accounted(c, n)
        BY <2>1, <2>3 DEF HandleInv
      <3> QED BY <2>1, <2>2, <3>1 DEF Accounted
    <2>4. \A n \in 1 .. Len(lane') : About(c, n)' => About(c, n) /\ n \in 1 .. Len(lane)
      BY <2>1 DEF About
    <2>5. handle'[c].next <= Len(lane') + 1
      BY <2>1, <2>2 DEF HandleInv
    <2> HIDE DEF About, Accounted
    <2> QED BY <2>1, <2>3, <2>4, <2>5 DEF HandleInv
  <1>6. CASE Recv(c)
    <2>1. /\ phase[c] = "held" /\ phase'[c] = "held"
          /\ recovery' = recovery /\ lane' = lane
      BY <1>6 DEF Recv, HandleInv
    <2>2. Oldest(lane) \in Nat \ {0} /\ (Len(lane) > 0 => Oldest(lane) <= Len(lane))
      BY <1>0, OldestType
    <2>3. \A n \in 1 .. Len(lane) : About(c, n) => Accounted(c, n)
      BY <2>1 DEF HandleInv
    <2>4. CASE RecvLagged(c)
      <3>1. /\ handle'[c].next = Oldest(lane) /\ handle[c].next < Oldest(lane)
            /\ handle'[c].read = handle[c].read
            /\ handle'[c].lost = handle[c].lost
                  \cup {n \in handle[c].next .. Oldest(lane) - 1 : About(c, n)}
        BY <2>4, LaggedSets
      <3>2. Oldest(lane) <= Len(lane) + 1
        BY <1>0, LanesAssumption DEF Oldest
      <3>3. ASSUME NEW n \in 1 .. Len(lane), About(c, n) PROVE Accounted(c, n)'
        <4>1. Accounted(c, n)
          BY <2>3, <3>3
        <4>2. CASE n >= handle[c].next /\ n < Oldest(lane)
          <5>1. n \in handle[c].next .. Oldest(lane) - 1
            BY <1>0, <2>2, <4>2
          <5>2. n \in handle'[c].lost
            BY <3>1, <3>3, <5>1
          <5> QED BY <2>1, <4>2, <5>2 DEF Accounted
        <4>3. CASE n >= Oldest(lane)
          BY <3>1, <4>3 DEF Accounted
        <4>4. CASE ~(n >= handle[c].next) /\ n < Oldest(lane)
          BY <2>1, <3>1, <4>1, <4>4 DEF Accounted
        <4> QED BY <1>0, <2>2, <4>2, <4>3, <4>4
      <3>4. \A n \in 1 .. Len(lane') : About(c, n)' => About(c, n) /\ n \in 1 .. Len(lane)
        BY <2>1 DEF About
      <3> HIDE DEF About, Accounted
      <3> QED BY <2>1, <3>1, <3>2, <3>3, <3>4 DEF HandleInv
    <2>5. CASE RecvEvent(c)
      <3>1. /\ handle[c].next \in Oldest(lane) .. Len(lane)
            /\ handle'[c].next = handle[c].next + 1
            /\ handle'[c].lost = handle[c].lost
            /\ handle'[c].read = IF About(c, handle[c].next)
                                   THEN handle[c].read \cup {handle[c].next} ELSE handle[c].read
        BY <2>5, EventSets
      <3>2. handle'[c].next <= Len(lane) + 1
        BY <1>0, <2>2, <3>1
      <3>3. ASSUME NEW n \in 1 .. Len(lane), About(c, n) PROVE Accounted(c, n)'
        <4>1. Accounted(c, n)
          BY <2>3, <3>3
        <4>2. CASE n = handle[c].next
          <5>1. n \in handle'[c].read
            BY <3>1, <3>3, <4>2
          <5> QED BY <5>1 DEF Accounted
        <4>3. CASE n > handle[c].next
          <5>1. n >= handle'[c].next
            BY <1>0, <3>1, <4>3
          <5> QED BY <5>1 DEF Accounted
        <4>4. CASE n < handle[c].next
          <5>1. ~(n >= handle[c].next)
            BY <1>0, <4>4
          <5>2. handle[c].read \subseteq handle'[c].read
            BY <3>1
          <5> QED BY <2>1, <3>1, <4>1, <5>1, <5>2 DEF Accounted
        <4> QED BY <1>0, <4>2, <4>3, <4>4
      <3>4. \A n \in 1 .. Len(lane') : About(c, n)' => About(c, n) /\ n \in 1 .. Len(lane)
        BY <2>1 DEF About
      <3> HIDE DEF About, Accounted
      <3> QED BY <2>1, <3>2, <3>3, <3>4 DEF HandleInv
    <2> QED BY <1>6, <2>4, <2>5 DEF Recv
  <1> QED BY <1>1, <1>2, <1>3, <1>4, <1>5, <1>6

----------------------------------------------------------------------------
(* The theorems.                                                           *)

\* The invariant holds initially.
LEMMA LanesInit == Init => LanesInv
  <1> SUFFICES ASSUME Init PROVE LanesInv
    OBVIOUS
  <1>1. lane = << >> /\ data = << >> /\ Len(lane) = 0 /\ Len(data) = 0
        /\ lane \in Seq(Events) /\ data \in Seq({"mine", "other"})
    BY DEF Init
  <1>2. TypeOK
    BY <1>1, BurstType, LanesAssumption DEF Init, TypeOK, Calls
  <1>3. RateBound
    <2>1. {c \in Commands : phase[c] \in {"sent", "answered", "held", "refused"}} = {}
      BY DEF Init
    <2>2. Cardinality({c \in Commands : phase[c] \in {"sent", "answered", "held", "refused"}}) = 0
      BY <2>1, FS_EmptySet
    <2>3. tokens = LimiterBurst /\ ticks = 0
      BY DEF Init
    <2>4. tokens + 0 <= LimiterBurst + ticks
      BY <2>3, BurstType
    <2> QED BY ONLY <2>2, <2>4 DEF RateBound
  <1>4. \A c \in Commands : HandleInv(c)
    BY <1>1 DEF Init, HandleInv
  <1>5. WatcherInv
    BY DEF Init, WatcherInv, WatcherSees
  <1> QED BY <1>2, <1>3, <1>4, <1>5 DEF LanesInv

\* The steps of the commands keep the invariant.
LEMMA LanesCommand ==
    ASSUME LanesInv, NEW d \in Commands,
           \/ Submit(d) \/ Acquire(d) \/ Refuse(d) \/ ApplyCommandReceipt(d)
           \/ RecoveryEnds(d) \/ ClassifyCommandJson(d) \/ ReturnHandle(d)
           \/ CallReceipt(d) \/ CallNextLifecycle(d) \/ CallResolved(d)
           \/ CancelCall(d) \/ Recv(d)
    PROVE  LanesInv'
  <1>0. TypeOK /\ RateBound /\ WatcherInv /\ \A c \in Commands : HandleInv(c)
    BY DEF LanesInv
  <1>1. TypeOK'
    BY TypeCommand
  <1>2. ASSUME NEW c \in Commands PROVE HandleInv(c)'
    <2>1. CASE c = d
      BY <1>0, <2>1, HandleOwn
    <2>2. CASE c # d
      <3>1. /\ LaneGrows(d)
            /\ phase'[c] = phase[c] /\ recovery'[c] = recovery[c] /\ handle'[c] = handle[c]
        BY <1>0, <2>2, OthersAlone
      <3> QED BY <1>0, <2>2, <3>1, HandleKept
    <2> QED BY <2>1, <2>2
  <1>3. UNCHANGED <<data, watcher>>
    BY DEF Submit, Acquire, Refuse, ApplyCommandReceipt, RecoveryEnds, ClassifyCommandJson,
       ReturnHandle, CallReceipt, CallNextLifecycle, CallResolved, CancelCall, Recv, dataVars
  <1>4. WatcherInv'
    BY <1>0, <1>3 DEF WatcherInv, WatcherSees
  <1>5. RateBound'
    <2>1. CASE Acquire(d)
      BY <1>0, <2>1, RateStep
    <2>2. CASE ~Acquire(d)
      <3>1. UNCHANGED <<tokens, ticks>>
        BY <2>2 DEF Submit, Refuse, ApplyCommandReceipt, RecoveryEnds, ClassifyCommandJson,
           ReturnHandle, CallReceipt, CallNextLifecycle, CallResolved, CancelCall, Recv, limiterVars
      <3>2. \/ phase' = phase
            \/ phase[d] = "new" /\ phase' = [phase EXCEPT ![d] = "acquire"]
            \/ phase[d] = "sent" /\ phase' = [phase EXCEPT ![d] = "refused"]
            \/ phase[d] = "sent" /\ phase' = [phase EXCEPT ![d] = "answered"]
            \/ phase[d] = "answered" /\ phase' = [phase EXCEPT ![d] = "held"]
        BY <2>2 DEF Submit, Refuse, ApplyCommandReceipt, RecoveryEnds, ClassifyCommandJson,
           ReturnHandle, CallReceipt, CallNextLifecycle, CallResolved, CancelCall, Recv
      <3>3. Through' = Through
        BY <1>0, <3>2 DEF Through, TypeOK
      <3> QED BY <1>0, <3>1, <3>3, RateKept
    <2> QED BY <2>1, <2>2
  <1> QED BY <1>1, <1>2, <1>4, <1>5 DEF LanesInv

\* Every step keeps the invariant.
LEMMA LanesStep == LanesInv /\ [Next]_vars => LanesInv'
  <1> SUFFICES ASSUME LanesInv, [Next]_vars PROVE LanesInv'
    OBVIOUS
  <1>0. TypeOK /\ RateBound /\ WatcherInv /\ \A c \in Commands : HandleInv(c)
    BY DEF LanesInv
  <1>1. CASE Tick
    <2>1. TypeOK' /\ RateBound'
      BY <1>0, <1>1, TypeTick, RateStep
    <2>2. UNCHANGED <<lane, recovery, handle, data, watcher>>
      BY <1>1 DEF Tick, dataVars
    <2>3. ASSUME NEW c \in Commands PROVE HandleInv(c)'
      <3>1. phase'[c] = phase[c] \/ (phase[c] = "asleep" /\ phase'[c] = "acquire")
        BY <1>1 DEF Tick
      <3>2. HandleInv(c)
        BY <1>0
      <3> QED BY <2>2, <3>1, <3>2 DEF HandleInv, About, Accounted
    <2>4. WatcherInv'
      BY <1>0, <2>2 DEF WatcherInv, WatcherSees
    <2> QED BY <2>1, <2>3, <2>4 DEF LanesInv
  <1>2. CASE PublishData \/ Subscribe \/ Grant \/ WatcherRecv
    <2>1. TypeOK' /\ WatcherInv'
      BY <1>0, <1>2, WatcherPublish, WatcherStarts, WatcherReads
    <2>2. UNCHANGED <<tokens, ticks, phase, recovery, lane, handle>>
      BY <1>2 DEF PublishData, Subscribe, Grant, WatcherRecv, commandVars, limiterVars
    <2>3. RateBound' /\ \A c \in Commands : HandleInv(c)'
      BY <1>0, <2>2 DEF RateBound, HandleInv, About, Accounted
    <2> QED BY <2>1, <2>3 DEF LanesInv
  <1>3. CASE UNCHANGED vars
    <2>1. UNCHANGED <<using, tokens, ticks, phase, status, recovery, lane, foreign, handle, data,
                      watcher>>
      BY <1>3 DEF vars, commandVars, limiterVars, dataVars
    <2> QED BY <1>0, <2>1 DEF LanesInv, TypeOK, RateBound, HandleInv, About, Accounted,
               WatcherInv, WatcherSees
  <1> QED BY <1>1, <1>2, <1>3, LanesCommand DEF Next

\* For any number of commands, any burst and any capacity, the invariant of
\* the lanes holds.
THEOREM LanesInvariant == SafetySpec => []LanesInv
  BY LanesInit, LanesStep, PTL DEF SafetySpec

\* Every variable of the lanes keeps its type.
THEOREM LanesTypes == SafetySpec => []TypeOK
  <1>1. LanesInv => TypeOK
    BY DEF LanesInv
  <1> QED BY <1>1, LanesInvariant, PTL

\* The limiter never lets more writes through than burst and time allow.
THEOREM LimiterKeepsRate == SafetySpec => []RateBound
  <1>1. LanesInv => RateBound
    BY DEF LanesInv
  <1> QED BY <1>1, LanesInvariant, PTL

\* Whatever else is published, each event of a command's lifecycle has been
\* read by its handle, lies ahead of it, or was overwritten and is reported.
THEOREM HandlesSeeTheirLifecycle == SafetySpec => []HandleMissesNothing
  <1>1. ASSUME LanesInv PROVE HandleMissesNothing
    <2> SUFFICES ASSUME NEW c \in Commands, phase[c] \in {"answered", "held"},
                        NEW n \in 1 .. Len(lane), About(c, n)
                 PROVE  \/ n \in handle[c].read
                        \/ n >= Oldest(lane) /\ n >= handle[c].next
                        \/ n < Oldest(lane) /\ (n \in handle[c].lost \/ n >= handle[c].next)
      BY DEF HandleMissesNothing
    <2>1. Accounted(c, n)
      BY <1>1 DEF LanesInv, HandleInv
    <2>2. n >= Oldest(lane) \/ n < Oldest(lane)
      <3>1. lane \in Seq(Events) /\ n \in Nat
        BY <1>1 DEF LanesInv, TypeOK
      <3>2. Oldest(lane) \in Nat
        BY <3>1, OldestType
      <3> QED BY <3>1, <3>2
    <2> QED BY <2>1, <2>2 DEF Accounted
  <1> QED BY <1>1, LanesInvariant, PTL

\* From its grant on, a public watcher misses only what the channel overwrote.
THEOREM WatchersSeeTheirEvents == SafetySpec => []WatcherMissesNothing
  <1>1. LanesInv => WatcherMissesNothing
    BY DEF LanesInv, WatcherInv, WatcherSees, WatcherMissesNothing, Passed
  <1> QED BY <1>1, LanesInvariant, PTL
=============================================================================
