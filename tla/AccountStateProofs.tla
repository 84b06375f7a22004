-------------------------- MODULE AccountStateProofs --------------------------
(***************************************************************************)
(* Proofs about AccountState, for any orders, tasks, requests and capacity *)
(* of the list of executions: an execution is recorded once, and a refresh *)
(* of the open orders drops none that stayed open.                         *)
(***************************************************************************)
EXTENDS AccountState, FiniteSetTheorems, SequenceTheorems, WellFoundedInduction, TLAPS

----------------------------------------------------------------------------
(* The loop of merge_executions.                                           *)

\* Every set of naturals that is not empty has a least element.
LEMMA LeastNatural ==
    ASSUME NEW T, T \subseteq Nat, T # {}
    PROVE  \E x \in T : \A y \in T : x <= y
  <1> DEFINE R == OpToRel(<, Nat)
  <1>1. IsWellFoundedOn(R, Nat)
    BY ONLY NatLessThanWellFounded
  <1>2. \A x, y \in Nat : x < y => <<x, y>> \in R
    BY DEF OpToRel
  <1> HIDE DEF R
  <1>3. PICK x \in T : \A y \in T : ~ (<<y, x>> \in R)
    BY <1>1, WFMin
  <1>4. ASSUME NEW y \in T PROVE x <= y
    <2>1. x \in Nat /\ y \in Nat
      OBVIOUS
    <2>2. ~(y < x)
      BY <1>2, <1>3, <2>1
    <2> QED BY <2>1, <2>2
  <1> QED BY <1>4

\* Lists of executions as EngineState keeps them.
IsRecord(executions) ==
    /\ executions \in Seq(Trades)
    /\ Len(executions) <= ExecutionCapacity
    /\ \A m, n \in DOMAIN executions : executions[m] = executions[n] => m = n

\* One turn of the loop.
LEMMA AddExecutionKeepsRecord ==
    ASSUME NEW executions, IsRecord(executions), NEW trade \in Trades
    PROVE  IsRecord(AddExecution(executions, trade))
  <1> DEFINE all == Append(executions, trade)
             n == Len(executions)
  <1>1. executions \in Seq(Trades) /\ n \in Nat /\ DOMAIN executions = 1 .. n
    BY DEF IsRecord
  <1>2. ExecutionCapacity \in Nat
    BY AccountAssumption
  <1>3. CASE trade \in ToSet(executions)
    BY <1>3 DEF AddExecution
  <1>4. CASE trade \notin ToSet(executions)
    <2>1. /\ all \in Seq(Trades) /\ Len(all) = n + 1
          /\ \A k \in 1 .. n : all[k] = executions[k]
          /\ all[n + 1] = trade
      BY <1>1
    <2>2. \A k \in 1 .. n : executions[k] # trade
      BY <1>1, <1>4 DEF ToSet
    <2> HIDE DEF all
    <2>3. ASSUME NEW j \in 1 .. n + 1, NEW k \in 1 .. n + 1, all[j] = all[k]
          PROVE  j = k
      <3>1. (j \in 1 .. n \/ j = n + 1) /\ (k \in 1 .. n \/ k = n + 1)
        BY <1>1
      <3> QED BY <1>1, <2>1, <2>2, <2>3, <3>1 DEF IsRecord
    <2>4. CASE ~(Len(all) > ExecutionCapacity)
      <3>1. AddExecution(executions, trade) = all
        BY <1>4, <2>4 DEF AddExecution, all
      <3>2. DOMAIN all = 1 .. n + 1 /\ Len(all) <= ExecutionCapacity
        BY <1>1, <1>2, <2>1, <2>4
      <3> QED BY <2>1, <2>3, <3>1, <3>2 DEF IsRecord
    <2>5. CASE Len(all) > ExecutionCapacity
      <3> DEFINE rest == Tail(all)
      <3>1. AddExecution(executions, trade) = rest
        BY <1>4, <2>5 DEF AddExecution, all
      <3>2. all # << >>
        BY <1>1, <2>1
      <3>3. /\ rest \in Seq(Trades) /\ Len(rest) = n
            /\ \A k \in 1 .. n : rest[k] = all[k + 1]
        <4>1. /\ rest \in Seq(Trades) /\ Len(rest) = Len(all) - 1
              /\ \A k \in 1 .. Len(all) - 1 : rest[k] = all[k + 1]
          BY <2>1, <3>2
        <4> QED BY <1>1, <2>1, <4>1
      <3> HIDE DEF rest
      <3>4. ASSUME NEW j \in 1 .. n, NEW k \in 1 .. n, rest[j] = rest[k]
            PROVE  j = k
        <4>1. j + 1 \in 1 .. n + 1 /\ k + 1 \in 1 .. n + 1 /\ j \in Int /\ k \in Int
          BY <1>1
        <4>2. all[j + 1] = all[k + 1]
          BY <3>3, <3>4
        <4>3. j + 1 = k + 1
          BY <2>3, <4>1, <4>2
        <4> QED BY <4>1, <4>3
      <3>5. DOMAIN rest = 1 .. n
        BY <3>3
      <3> QED BY <3>1, <3>3, <3>4, <3>5 DEF IsRecord
    <2> QED BY <2>4, <2>5
  <1> QED BY <1>3, <1>4

\* What the loop has made of a list after each turn.
Loop(recorded, executions, turns, f) ==
    f = [k \in 0 .. turns |-> IF k = 0 THEN recorded ELSE AddExecution(f[k - 1], executions[k])]

\* The loop of merge_executions runs to its end.
LEMMA LoopEnds ==
    ASSUME NEW recorded, NEW executions, NEW turns \in Nat
    PROVE  \E f : Loop(recorded, executions, turns, f)
  <1> DEFINE Bad == {n \in Nat : ~ \E f : Loop(recorded, executions, n, f)}
  <1>1. SUFFICES ASSUME Bad # {} PROVE FALSE
    OBVIOUS
  <1>2. PICK n \in Bad : \A m \in Bad : n <= m
    BY <1>1, LeastNatural
  <1>3. n # 0
    <2> DEFINE f == [k \in 0 .. 0 |-> recorded]
    <2>1. f = [k \in 0 .. 0 |-> IF k = 0 THEN recorded ELSE AddExecution(f[k - 1], executions[k])]
      OBVIOUS
    <2>2. Loop(recorded, executions, 0, f)
      BY <2>1 DEF Loop
    <2>3. 0 \notin Bad
      BY <2>2
    <2> QED BY <2>3
  <1>4. n \in Nat /\ n - 1 \in Nat /\ n - 1 \notin Bad
    <2>1. n \in Nat
      OBVIOUS
    <2>2. n - 1 \in Nat /\ ~(n <= n - 1)
      BY <1>3, <2>1
    <2> HIDE DEF Bad
    <2> QED BY <1>2, <2>1, <2>2
  <1>5. PICK f : Loop(recorded, executions, n - 1, f)
    BY <1>4
  <1> DEFINE step == AddExecution(f[n - 1], executions[n])
             g == [k \in 0 .. n |-> IF k = n THEN step ELSE f[k]]
  <1>6. /\ DOMAIN f = 0 .. n - 1
        /\ \A k \in 0 .. n - 1 : f[k] = IF k = 0 THEN recorded ELSE AddExecution(f[k - 1], executions[k])
    BY <1>5 DEF Loop
  <1>7. ASSUME NEW k \in 0 .. n
        PROVE  g[k] = IF k = 0 THEN recorded ELSE AddExecution(g[k - 1], executions[k])
    <2>1. CASE k = n
      <3>1. k # 0 /\ k - 1 \in 0 .. n /\ k - 1 # n
        BY <1>3, <1>4, <2>1
      <3>2. g[k - 1] = f[n - 1] /\ g[k] = step
        BY <2>1, <3>1
      <3> QED BY <2>1, <3>1, <3>2
    <2>2. CASE k # n
      <3>1. k \in 0 .. n - 1 /\ g[k] = f[k]
        BY <1>4, <2>2
      <3>2. k # 0 => k - 1 \in 0 .. n /\ k - 1 # n
        BY <1>4, <3>1
      <3>3. k # 0 => g[k - 1] = f[k - 1]
        BY <3>2
      <3> HIDE DEF g
      <3> QED BY <1>6, <3>1, <3>3
    <2> QED BY <2>1, <2>2
  <1>8. g = [k \in 0 .. n |-> g[k]]
    OBVIOUS
  <1> HIDE DEF g
  <1>9. g = [k \in 0 .. n |-> IF k = 0 THEN recorded ELSE AddExecution(g[k - 1], executions[k])]
    BY <1>7, <1>8
  <1> QED BY <1>9 DEF Loop

\* merge_executions keeps the list one of distinct executions, within its
\* capacity, whatever it merges.
LEMMA MergedIsRecord ==
    ASSUME NEW recorded, IsRecord(recorded), NEW executions \in Seq(Trades)
    PROVE  IsRecord(Merged(recorded, executions))
  <1> DEFINE N == Len(executions)
             f == CHOOSE f : f = [k \in 0 .. N |->
                      IF k = 0 THEN recorded ELSE AddExecution(f[k - 1], executions[k])]
  <1>1. N \in Nat
    OBVIOUS
  <1>2. Merged(recorded, executions) = f[N]
    BY DEF Merged
  <1>3. Loop(recorded, executions, N, f)
    <2>1. \E g : g = [k \in 0 .. N |->
                        IF k = 0 THEN recorded ELSE AddExecution(g[k - 1], executions[k])]
      <3>1. PICK g : Loop(recorded, executions, N, g)
        BY ONLY <1>1, LoopEnds
      <3>2. g = [k \in 0 .. N |->
                   IF k = 0 THEN recorded ELSE AddExecution(g[k - 1], executions[k])]
        BY ONLY <3>1 DEF Loop
      <3> QED BY ONLY <3>2
    <2>2. f = [k \in 0 .. N |-> IF k = 0 THEN recorded ELSE AddExecution(f[k - 1], executions[k])]
      BY ONLY <2>1
    <2> QED BY <2>2 DEF Loop
  <1> HIDE DEF f
  <1>4. \A k \in 0 .. N : f[k] = IF k = 0 THEN recorded ELSE AddExecution(f[k - 1], executions[k])
    BY <1>3 DEF Loop
  <1> DEFINE Bad == {k \in 0 .. N : ~IsRecord(f[k])}
  <1>5. Bad = {}
    <2> SUFFICES ASSUME Bad # {} PROVE FALSE
      OBVIOUS
    <2>1. Bad \subseteq Nat
      BY <1>1
    <2>2. PICK n \in Bad : \A m \in Bad : n <= m
      BY <2>1, LeastNatural
    <2>3. n \in 0 .. N /\ n # 0
      BY <1>1, <1>4
    <2>4. n - 1 \in 0 .. N /\ ~(n <= n - 1) /\ n \in 1 .. N
      BY <1>1, <2>3
    <2>5. IsRecord(f[n - 1])
      BY <2>2, <2>4
    <2>6. executions[n] \in Trades
      BY <2>4
    <2>7. IsRecord(f[n])
      BY <1>4, <2>3, <2>5, <2>6, AddExecutionKeepsRecord
    <2> QED BY <2>2, <2>7
  <1>6. N \in 0 .. N
    BY <1>1
  <1> QED BY <1>2, <1>5, <1>6

----------------------------------------------------------------------------
(* Answers of the venue.                                                   *)

\* Indices in their order are indices.
LEMMA InOrderIndices ==
    ASSUME NEW last \in Nat, NEW g, g \subseteq 1 .. last
    PROVE  InOrder(g) \in Seq(g)
  <1> DEFINE upTo(i) == {j \in g : j <= i}
             n == Cardinality(g)
             rank == [i \in g |-> Cardinality(upTo(i))]
  <1>1. IsFiniteSet(g) /\ n \in Nat /\ g \subseteq Int
    <2>1. IsFiniteSet(1 .. last)
      BY FS_Interval
    <2>2. IsFiniteSet(g)
      BY <2>1, FS_Subset
    <2> QED BY <2>2, FS_CardinalityType
  <1>2. ASSUME NEW i \in g
        PROVE  IsFiniteSet(upTo(i)) /\ rank[i] \in 1 .. n
    <2>1. IsFiniteSet(upTo(i)) /\ Cardinality(upTo(i)) <= n
      BY <1>1, FS_Subset
    <2>2. Cardinality(upTo(i)) \in Nat
      BY <2>1, FS_CardinalityType
    <2>3. i \in upTo(i)
      BY <1>1
    <2>4. Cardinality(upTo(i)) # 0
      BY <2>1, <2>3, FS_EmptySet
    <2> QED BY <1>1, <2>1, <2>2, <2>4
  <1>3. ASSUME NEW i \in g, NEW j \in g, i < j
        PROVE  rank[i] # rank[j]
    <2>0. i \in Int /\ j \in Int /\ \A m \in g : m \in Int
      BY <1>1
    <2>1. upTo(i) \in SUBSET upTo(j) /\ j \in upTo(j) /\ j \notin upTo(i)
      <3>1. \A m \in g : m <= i => m <= j
        BY <1>3, <2>0
      <3>2. j <= j /\ ~(j <= i)
        BY <1>3, <2>0
      <3> QED BY <3>1, <3>2
    <2>2. Cardinality(upTo(j)) # Cardinality(upTo(i))
      <3>1. IsFiniteSet(upTo(j))
        BY <1>2
      <3> HIDE DEF upTo
      <3> QED BY <2>1, <3>1, FS_Subset
    <2> QED BY <2>2
  <1>4. ASSUME NEW i \in g, NEW j \in g, rank[i] = rank[j]
        PROVE  i = j
    <2>1. i < j \/ j < i \/ i = j
      BY <1>1
    <2> QED BY <1>3, <1>4, <2>1
  <1> HIDE DEF rank
  <1>5. rank \in Injection(g, 1 .. n)
    <2>1. rank \in [g -> 1 .. n]
      BY <1>2 DEF rank
    <2> QED BY <1>4, <2>1 DEF Injection, IsInjective
  <1>6. rank \in Surjection(g, 1 .. n)
    <2>1. IsFiniteSet(1 .. n) /\ Cardinality(1 .. n) = n
      <3>1. /\ IsFiniteSet(1 .. n)
            /\ Cardinality(1 .. n) = IF 1 > n THEN 0 ELSE n - 1 + 1
        BY <1>1, FS_Interval
      <3> QED BY <1>1, <3>1
    <2> QED BY <1>5, <2>1, FS_Injection
  <1>7. \A k \in 1 .. n : \E i \in g : rank[i] = k
    BY <1>6 DEF Surjection
  <1>8. /\ DOMAIN InOrder(g) = 1 .. n
        /\ \A k \in 1 .. n : InOrder(g)[k] = CHOOSE i \in g : rank[i] = k
    BY DEF InOrder, rank
  <1>9. \A k \in 1 .. n : InOrder(g)[k] \in g
    BY <1>7, <1>8
  <1>10. InOrder(g) = [k \in 1 .. n |-> InOrder(g)[k]]
    BY <1>8 DEF InOrder
  <1> QED BY <1>1, <1>9, <1>10

\* A page of trades holds trades the venue made.
LEMMA TradesOfType ==
    ASSUME trades \in Seq(Trades), NEW instruments
    PROVE  TradesOf(instruments) \in Seq(Trades)
  <1> DEFINE indices == {n \in DOMAIN trades : InstrumentOf[trades[n][1]] \in instruments}
             picked == InOrder(indices)
             some == [k \in DOMAIN picked |-> trades[picked[k]]]
  <1>1. indices \subseteq 1 .. Len(trades) /\ Len(trades) \in Nat
    OBVIOUS
  <1>2. picked \in Seq(indices)
    BY <1>1, InOrderIndices
  <1>3. TradesOf(instruments) = IF venue = "Binance" THEN some ELSE Reverse(some)
    BY DEF TradesOf
  <1> HIDE DEF picked
  <1>4. /\ DOMAIN picked = 1 .. Len(picked) /\ Len(picked) \in Nat
        /\ \A k \in 1 .. Len(picked) : picked[k] \in indices
    BY <1>2
  <1>5. \A n \in indices : trades[n] \in Trades
    OBVIOUS
  <1> HIDE DEF indices
  <1>6. some \in Seq(Trades)
    <2>1. \A k \in 1 .. Len(picked) : trades[picked[k]] \in Trades
      BY <1>4, <1>5
    <2>2. some = [k \in 1 .. Len(picked) |-> trades[picked[k]]]
      BY <1>4
    <2> QED BY <1>4, <2>1, <2>2
  <1> HIDE DEF some
  <1>7. Reverse(some) \in Seq(Trades)
    <2> DEFINE n == Len(some)
    <2>1. n \in Nat /\ \A k \in 1 .. n : some[k] \in Trades
      BY <1>6
    <2> HIDE DEF n
    <2>2. \A k \in 1 .. n : (n - k) + 1 \in 1 .. n
      BY <2>1
    <2>3. \A k \in 1 .. n : some[(n - k) + 1] \in Trades
      BY <2>1, <2>2
    <2>4. Reverse(some) = [k \in 1 .. n |-> some[(n - k) + 1]]
      BY DEF Reverse, n
    <2> QED BY <2>1, <2>3, <2>4
  <1> QED BY <1>3, <1>6, <1>7

\* The trades a client starts with are distinct.
LEMMA PastIsRecord == IsRecord(SetToSeq({<<o, "PartiallyFilled">> : o \in Standing}))
  <1> DEFINE past == {<<o, "PartiallyFilled">> : o \in Standing}
             n == Cardinality(past)
  <1>1. IsFiniteSet(Standing) /\ past \subseteq Trades
    BY AccountAssumption, FS_Subset DEF Trades
  <1>2. IsFiniteSet(past) /\ Cardinality(past) = Cardinality(Standing)
    <2> DEFINE f == [o \in Standing |-> <<o, "PartiallyFilled">>]
    <2>1. f \in Bijection(Standing, past)
      <3>1. f \in [Standing -> past]
        OBVIOUS
      <3>2. \A a, b \in Standing : f[a] = f[b] => a = b
        OBVIOUS
      <3>3. \A t \in past : \E o \in Standing : f[o] = t
        OBVIOUS
      <3>4. f \in Injection(Standing, past)
        BY <3>1, <3>2 DEF Injection, IsInjective
      <3>5. f \in Surjection(Standing, past)
        BY <3>1, <3>3 DEF Surjection
      <3> QED BY <3>4, <3>5 DEF Bijection
    <2>2. ExistsBijection(Standing, past)
      BY <2>1 DEF ExistsBijection
    <2> QED BY <1>1, <2>2, FS_Bijection
  <1> HIDE DEF past
  <1>3. n \in Nat /\ \E f \in [1 .. n -> past] : IsInjective(f)
    BY <1>2, FS_CardinalityType DEF ExistsBijection, Bijection, Injection
  <1>4. SetToSeq(past) \in [1 .. n -> past] /\ IsInjective(SetToSeq(past))
    BY <1>3 DEF SetToSeq
  <1>5. SetToSeq(past) \in Seq(Trades) /\ Len(SetToSeq(past)) = n
    BY <1>1, <1>3, <1>4
  <1>6. n <= ExecutionCapacity
    BY <1>2, AccountAssumption
  <1> QED BY <1>4, <1>5, <1>6 DEF IsRecord, IsInjective, past

----------------------------------------------------------------------------
(* Frames and what they write.                                             *)

Caches == [orders : [Orders -> Statuses], positions : [Instruments -> Sides],
           executions : Seq(Trades)]

\* Events that say what they may.
IsEvent(e) ==
    /\ e.type = "Order" => e.value \in Statuses
    /\ e.type = "Position" => e.value \in Sides
    /\ e.type = "Execution" => e.value \in Trades

\* A frame becomes events of the order, the trade or the position it is about.
LEMMA ParsedEvents ==
    ASSUME venue \in Venues, NEW frame \in Frames
    PROVE  \A e \in ParsePrivate(frame) : IsEvent(e)
  <1> USE DEF IsEvent, Event, OrderEvent, ExecutionEvent, PositionEvent
  <1>1. venue \in {"Binance", "Bybit", "Mexc"}
    BY AccountAssumption
  <1>2. CASE frame.topic = "order"
    <2>1. frame.order \in Orders /\ frame.status \in Statuses
      BY <1>2 DEF Frames, Statuses, OpenStatuses
    <2>2. frame.fill => <<frame.order, frame.status>> \in Trades
      BY <1>2 DEF Frames, Trades
    <2>3. \A e \in ParsePrivate(frame) :
             \/ e = OrderEvent(frame.order, frame.status)
             \/ e = ExecutionEvent(<<frame.order, frame.status>>) /\ frame.fill
      BY <1>1, <1>2 DEF ParsePrivate, ParseBinancePrivate, ParseBybitPrivate, ParseMexcPrivate
    <2> QED BY <2>1, <2>2, <2>3
  <1>3. CASE frame.topic = "trade"
    <2>1. frame.trade \in Trades
      BY <1>3 DEF Frames
    <2>2. ParsePrivate(frame) = {ExecutionEvent(frame.trade)}
      BY <1>1, <1>3 DEF ParsePrivate, ParseBinancePrivate, ParseBybitPrivate, ParseMexcPrivate
    <2> QED BY <2>1, <2>2
  <1>4. CASE frame.topic = "position"
    <2>1. frame.side \in Sides
      BY <1>4 DEF Frames
    <2>2. \A e \in ParsePrivate(frame) : e = PositionEvent(frame.instrument, frame.side)
      BY <1>1, <1>4 DEF ParsePrivate, ParseBinancePrivate, ParseBybitPrivate, ParseMexcPrivate
    <2> QED BY <2>1, <2>2
  <1> QED BY <1>2, <1>3, <1>4 DEF Frames

LEMMA OverwriteType ==
    ASSUME NEW D, NEW V, NEW values \in [D -> V], NEW events, NEW type,
           \A e \in events : e.type = type => e.value \in V
    PROVE  Overwrite(values, events, type) \in [D -> V]
  <1>1. ASSUME NEW k \in D, Slot(events, type, k) # {}
        PROVE  (CHOOSE v \in Slot(events, type, k) : TRUE) \in V
    <2>1. (CHOOSE v \in Slot(events, type, k) : TRUE) \in Slot(events, type, k)
      BY <1>1
    <2>2. \A v \in Slot(events, type, k) : v \in V
      BY DEF Slot
    <2> QED BY <2>1, <2>2
  <1> QED BY <1>1 DEF Overwrite

LEMMA AppliedEvents ==
    ASSUME NEW c \in Caches, IsRecord(c.executions), NEW events, \A e \in events : IsEvent(e)
    PROVE  /\ ApplyPrivateEvents(c, events) \in Caches
           /\ IsRecord(ApplyPrivateEvents(c, events).executions)
  <1> DEFINE orders == Overwrite(c.orders, events, "Order")
             positions == Overwrite(c.positions, events, "Position")
             executions == Record(c.executions, events)
  <1>1. c.orders \in [Orders -> Statuses] /\ c.positions \in [Instruments -> Sides]
    BY DEF Caches
  <1>2. orders \in [Orders -> Statuses]
    BY <1>1, OverwriteType DEF IsEvent
  <1>3. positions \in [Instruments -> Sides]
    BY <1>1, OverwriteType DEF IsEvent
  <1>4. IsRecord(executions)
    <2> DEFINE new == {e.value : e \in {x \in events : x.type = "Execution"}}
    <2>1. \A t \in new : t \in Trades
      BY DEF IsEvent
    <2>2. executions = IF new = {} THEN c.executions
                       ELSE AddExecution(c.executions, CHOOSE t \in new : TRUE)
      BY DEF Record
    <2> HIDE DEF new
    <2>3. new # {} => (CHOOSE t \in new : TRUE) \in Trades
      BY <2>1
    <2>4. CASE new = {}
      BY <2>2, <2>4
    <2>5. CASE new # {}
      BY <2>2, <2>3, <2>5, AddExecutionKeepsRecord
    <2> QED BY <2>4, <2>5
  <1>5. ApplyPrivateEvents(c, events)
          = [c EXCEPT !.orders = orders, !.positions = positions, !.executions = executions]
    BY DEF ApplyPrivateEvents
  <1>6. executions \in Seq(Trades)
    BY <1>4 DEF IsRecord
  <1> HIDE DEF orders, positions, executions
  <1> QED BY <1>2, <1>3, <1>4, <1>5, <1>6 DEF Caches

----------------------------------------------------------------------------
(* The invariant.                                                          *)

\* Where a REST call stands.  An order that was open at the first read is known
\* to the venue for good.  Between the two reads of Binance the plain orders
\* are listed; after them, or after the one read of a venue whose orders fit
\* its page, every order is that was open and still is.
AnswerInv(t) ==
    /\ plan[t] = << >> => answer[t].stage = "unasked"
    /\ answer[t].stage = "unasked" => answer[t].open = {}
    /\ \A o \in answer[t].open : book[o] # None
    /\ answer[t].stage = "half" =>
         /\ Asks(t, "orders")
         /\ \A o \in answer[t].open :
              InScope(o, Scope(t)) /\ (o \notin Algo => answer[t].orders[o] \in OpenStatuses)
    /\ answer[t].stage = "read" /\ FitOnePage(answer[t].open) =>
           \A o \in answer[t].open :
             book[o] \in OpenStatuses => answer[t].orders[o] \in OpenStatuses

AccountInv ==
    /\ TypeOK
    /\ ExecutionsRecordedOnce
    /\ \A t \in Tasks : AnswerInv(t)

Answers == [stage : {"unasked", "half", "read"}, orders : [Orders -> Statuses],
            trades : Seq(Trades), positions : [Instruments -> Sides], open : SUBSET Orders]

LEMMA UnaskedType == Unasked \in Answers /\ Unasked.stage = "unasked" /\ Unasked.open = {}
  <1>1. << >> \in Seq(Trades)
    OBVIOUS
  <1> QED BY <1>1 DEF Unasked, Answers, Statuses, Sides

LEMMA AccountInit == Init => AccountInv
  <1> SUFFICES ASSUME Init PROVE AccountInv
    OBVIOUS
  <1> DEFINE past == SetToSeq({<<o, "PartiallyFilled">> : o \in Standing})
  <1>1. IsRecord(past) /\ trades = past /\ cache.executions = past
    BY PastIsRecord DEF Init
  <1> HIDE DEF past
  <1>2. book \in [Orders -> Statuses] /\ held \in [Instruments -> SUBSET Legs]
    BY DEF Init, Statuses, OpenStatuses, Legs
  <1>3. cache \in Caches
    <2>1. cache.executions \in Seq(Trades)
      BY <1>1 DEF IsRecord
    <2> QED BY <2>1 DEF Init, Caches, Statuses, OpenStatuses, Sides, Legs
  <1>4. plan \in [Tasks -> Seq(Calls)] /\ wire \in Seq(Frames)
    BY DEF Init
  <1>5. answer \in [Tasks -> Answers] /\ \A t \in Tasks : answer[t] = Unasked
    BY UnaskedType DEF Init
  <1>6. spent \in [calls : 0 .. MaxCalls, failures : 0 .. MaxFailures,
                   disconnects : 0 .. MaxDisconnects]
    BY AccountAssumption DEF Init
  <1>7. TypeOK
    <2>1. trades \in Seq(Trades) /\ Len(cache.executions) <= ExecutionCapacity
      BY <1>1 DEF IsRecord
    <2>2. venue \in Venues /\ mode \in Modes /\ session \in BOOLEAN
      BY DEF Init
    <2> QED BY <1>2, <1>3, <1>4, <1>5, <1>6, <2>1, <2>2 DEF TypeOK, Answers, Caches
  <1>8. ExecutionsRecordedOnce
    BY <1>1 DEF IsRecord, ExecutionsRecordedOnce
  <1>9. \A t \in Tasks : AnswerInv(t)
    BY <1>5, UnaskedType DEF AnswerInv
  <1> QED BY <1>7, <1>8, <1>9 DEF AccountInv

----------------------------------------------------------------------------
(* Every step keeps the invariant.                                         *)

\* A task that takes no part in a step, while the venue's book moves on.
LEMMA AnswerKept ==
    ASSUME NEW t, AnswerInv(t), answer[t].open \subseteq Orders,
           plan'[t] = plan[t], answer'[t] = answer[t], venue' = venue,
           \A o \in Orders : book[o] # None =>
               book'[o] # None /\ (book'[o] \in OpenStatuses => book[o] \in OpenStatuses)
    PROVE  AnswerInv(t)'
  BY DEF AnswerInv, Asks, Op, Scope, InScope, FitOnePage

\* The book is left alone.
LEMMA BookKept ==
    ASSUME TypeOK, book' = book
    PROVE  \A o \in Orders : book[o] # None =>
               book'[o] # None /\ (book'[o] \in OpenStatuses => book[o] \in OpenStatuses)
  OBVIOUS

LEMMA RecordOfCache ==
    ASSUME TypeOK, ExecutionsRecordedOnce
    PROVE  cache \in Caches /\ IsRecord(cache.executions)
  <1>1. cache \in Caches /\ Len(cache.executions) <= ExecutionCapacity
    BY DEF TypeOK, Caches
  <1>2. cache.executions \in Seq(Trades)
    BY <1>1 DEF Caches
  <1> QED BY <1>1, <1>2 DEF IsRecord, ExecutionsRecordedOnce

\* What was proved of a new cache, in the terms of the invariant.
LEMMA CacheOfRecord ==
    ASSUME cache' \in Caches, IsRecord(cache'.executions)
    PROVE  /\ ExecutionsRecordedOnce'
           /\ Len(cache'.executions) <= ExecutionCapacity
           /\ cache' \in [orders : [Orders -> Statuses], positions : [Instruments -> Sides],
                          executions : Seq(Trades)]
  BY DEF Caches, IsRecord, ExecutionsRecordedOnce

\* Frames are appended to the wire.
LEMMA SendType ==
    ASSUME wire \in Seq(Frames), NEW frames \in Seq(Frames), Send(frames)
    PROVE  wire' \in Seq(Frames)
  BY DEF Send

\* The venue opens an order.
LEMMA OpenOrderStep ==
    ASSUME AccountInv, NEW o \in Orders, OpenOrder(o)
    PROVE  AccountInv'
  <1> DEFINE frame == [topic |-> "order", order |-> o, status |-> "New", fill |-> FALSE]
  <1>1. /\ book[o] = None /\ book' = [book EXCEPT ![o] = "New"] /\ Send(<<frame>>)
        /\ UNCHANGED <<venue, mode, trades, held, session, cache, plan, answer, spent>>
    BY DEF OpenOrder
  <1>2. frame \in Frames
    BY DEF Frames
  <1> HIDE DEF frame
  <1>3. wire' \in Seq(Frames)
    <2>1. <<frame>> \in Seq(Frames)
      BY <1>2
    <2> QED BY <1>1, <2>1, SendType DEF AccountInv, TypeOK
  <1>4. book \in [Orders -> Statuses]
    BY DEF AccountInv, TypeOK
  <1>5. book' \in [Orders -> Statuses]
    BY <1>1, <1>4 DEF Statuses, OpenStatuses
  <1>6. TypeOK'
    BY <1>1, <1>3, <1>5 DEF AccountInv, TypeOK
  <1>7. ExecutionsRecordedOnce'
    BY <1>1 DEF AccountInv, ExecutionsRecordedOnce
  <1>8. \A p \in Orders : book[p] # None =>
            book'[p] # None /\ (book'[p] \in OpenStatuses => book[p] \in OpenStatuses)
    BY <1>1, <1>4
  <1>9. ASSUME NEW t \in Tasks PROVE AnswerInv(t)'
    <2>1. AnswerInv(t) /\ answer[t].open \subseteq Orders
      BY DEF AccountInv, TypeOK
    <2>2. plan'[t] = plan[t] /\ answer'[t] = answer[t] /\ venue' = venue
      BY <1>1
    <2> QED BY <1>8, <2>1, <2>2, AnswerKept
  <1> QED BY <1>6, <1>7, <1>9 DEF AccountInv

\* The venue trades on an order.
LEMMA TradeStep ==
    ASSUME AccountInv, NEW o \in Orders, Trade(o)
    PROVE  AccountInv'
  <1> DEFINE i == InstrumentOf[o]
  <1>1. PICK status \in {"PartiallyFilled", "Filled"} \ {book[o]}, leg \in Legs :
          /\ book' = [book EXCEPT ![o] = status]
          /\ trades' = Append(trades, <<o, status>>)
          /\ held' = [held EXCEPT ![i] = IF leg \in held[i] THEN held[i] \ {leg}
                                         ELSE held[i] \cup {leg}]
          /\ Send(<<[topic |-> "position", instrument |-> i,
                     side |-> IF leg \in held[i] THEN "flat" ELSE leg],
                    [topic |-> "order", order |-> o, status |-> status, fill |-> TRUE],
                    [topic |-> "trade", trade |-> <<o, status>>]>>)
    BY DEF Trade, Legs
  <1> DEFINE side == IF leg \in held[i] THEN "flat" ELSE leg
  <1>2. book[o] \in OpenStatuses /\ UNCHANGED <<venue, mode, session, cache, plan, answer, spent>>
    BY DEF Trade
  <1>3. i \in Instruments /\ side \in Sides /\ <<o, status>> \in Trades
    BY DEF Instruments, Trades, Sides, Legs
  <1> HIDE DEF i
  <1>4. wire' \in Seq(Frames)
    <2> DEFINE a == [topic |-> "position", instrument |-> i, side |-> side]
               b == [topic |-> "order", order |-> o, status |-> status, fill |-> TRUE]
               c == [topic |-> "trade", trade |-> <<o, status>>]
    <2>1. a \in Frames
      BY <1>3 DEF Frames
    <2>2. b \in Frames
      BY DEF Frames
    <2>3. c \in Frames
      BY <1>3 DEF Frames
    <2>4. Send(<<a, b, c>>)
      BY <1>1
    <2> HIDE DEF a, b, c
    <2>5. <<a, b, c>> \in Seq(Frames)
      BY <2>1, <2>2, <2>3
    <2> QED BY <2>4, <2>5, SendType DEF AccountInv, TypeOK
  <1>5. /\ book \in [Orders -> Statuses] /\ held \in [Instruments -> SUBSET Legs]
        /\ trades \in Seq(Trades)
    BY DEF AccountInv, TypeOK
  <1>6. /\ book' \in [Orders -> Statuses] /\ held' \in [Instruments -> SUBSET Legs]
        /\ trades' \in Seq(Trades)
    <2>1. book' \in [Orders -> Statuses] /\ trades' \in Seq(Trades)
      BY <1>1, <1>3, <1>5 DEF Statuses, OpenStatuses
    <2>2. held[i] \ {leg} \in SUBSET Legs /\ held[i] \cup {leg} \in SUBSET Legs
      BY <1>3, <1>5
    <2>3. held' \in [Instruments -> SUBSET Legs]
      BY <1>1, <1>3, <1>5, <2>2
    <2> QED BY <2>1, <2>3
  <1>7. TypeOK'
    BY <1>2, <1>4, <1>6 DEF AccountInv, TypeOK
  <1>8. ExecutionsRecordedOnce'
    BY <1>2 DEF AccountInv, ExecutionsRecordedOnce
  <1>9. \A p \in Orders : book[p] # None =>
            book'[p] # None /\ (book'[p] \in OpenStatuses => book[p] \in OpenStatuses)
    BY <1>1, <1>2, <1>5 DEF None
  <1>10. ASSUME NEW t \in Tasks PROVE AnswerInv(t)'
    <2>1. AnswerInv(t) /\ answer[t].open \subseteq Orders
      BY DEF AccountInv, TypeOK
    <2>2. plan'[t] = plan[t] /\ answer'[t] = answer[t] /\ venue' = venue
      BY <1>2
    <2> QED BY <1>9, <2>1, <2>2, AnswerKept
  <1> QED BY <1>7, <1>8, <1>10 DEF AccountInv

\* The plans of reconcile_private are sequences of calls, and not empty.
LEMMA PlanTypes ==
    /\ Snapshots \in Seq(Calls) /\ DeepRepair \in Seq(Calls)
    /\ Snapshots # << >> /\ DeepRepair # << >>
  <1> DEFINE account == IF venue = "Binance" THEN <<Call("account", None)>> ELSE << >>
             rest == <<Call("positions", None), Call("orders", None)>>
  <1>1. \A op \in {"account", "positions", "orders", "evidence"} : Call(op, None) \in Calls
    BY DEF Call, Calls
  <1>2. account \in Seq(Calls)
    BY <1>1
  <1>3. rest \in Seq(Calls) /\ Len(rest) = 2
    BY <1>1
  <1>4. Snapshots = account \o rest
    BY DEF Snapshots
  <1> HIDE DEF account, rest
  <1>5. Snapshots \in Seq(Calls) /\ Len(Snapshots) = Len(account) + 2 /\ Len(account) \in Nat
    <2>1. account \o rest \in Seq(Calls) /\ Len(account \o rest) = Len(account) + Len(rest)
      BY <1>2, <1>3, ConcatProperties
    <2>2. Len(account) \in Nat
      BY <1>2
    <2> QED BY <1>3, <1>4, <2>1, <2>2
  <1>6. Snapshots # << >>
    BY <1>5
  <1>7. DeepRepair \in Seq(Calls) /\ DeepRepair # << >>
    BY <1>1, <1>5 DEF DeepRepair
  <1> QED BY <1>5, <1>6, <1>7

\* The stream task: frames, disconnects, and the reconciles it starts.
LEMMA StreamStep ==
    ASSUME AccountInv, ReadFrame \/ Disconnect \/ Reconnect \/ PeriodicReconcile
    PROVE  AccountInv'
  <1> USE DEF AccountInv
  <1>1. /\ venue' = venue /\ mode' = mode /\ book' = book /\ trades' = trades /\ held' = held /\ answer' = answer
    BY DEF ReadFrame, Disconnect, Reconnect, PeriodicReconcile, venueVars
  <1>2. Stream \in Tasks /\ plan \in [Tasks -> Seq(Calls)] /\ wire \in Seq(Frames)
    BY DEF Tasks, TypeOK
  <1>3. cache' \in Caches /\ IsRecord(cache'.executions)
    <2>1. CASE ReadFrame
      <3>1. Head(wire) \in Frames /\ cache' = ApplyPrivateEvents(cache, ParsePrivate(Head(wire)))
        BY <1>2, <2>1 DEF ReadFrame
      <3>2. \A e \in ParsePrivate(Head(wire)) : IsEvent(e)
        BY <3>1, ParsedEvents DEF TypeOK
      <3> QED BY <3>1, <3>2, RecordOfCache, AppliedEvents
    <2>2. CASE Disconnect \/ Reconnect \/ PeriodicReconcile
      <3>1. cache' = cache
        BY <2>2 DEF Disconnect, Reconnect, PeriodicReconcile
      <3> QED BY <3>1, RecordOfCache
    <2> QED BY <2>1, <2>2
  <1>4. wire' \in Seq(Frames)
    <2>1. CASE ReadFrame
      <3>1. wire # << >> /\ wire' = Tail(wire)
        BY <2>1 DEF ReadFrame
      <3> QED BY <1>2, <3>1
    <2>2. CASE Disconnect
      BY <2>2 DEF Disconnect
    <2>3. CASE Reconnect \/ PeriodicReconcile
      BY <1>2, <2>3 DEF Reconnect, PeriodicReconcile
    <2> QED BY <2>1, <2>2, <2>3
  <1>5. /\ session' \in BOOLEAN
        /\ spent' \in [calls : 0 .. MaxCalls, failures : 0 .. MaxFailures,
                       disconnects : 0 .. MaxDisconnects]
    <2>1. CASE Disconnect
      <3>1. session' = FALSE
        BY <2>1 DEF Disconnect
      <3>2. spent.disconnects < MaxDisconnects /\ spent' = [spent EXCEPT !.disconnects = @ + 1]
        BY <2>1 DEF Disconnect
      <3>3. spent \in [calls : 0 .. MaxCalls, failures : 0 .. MaxFailures,
                       disconnects : 0 .. MaxDisconnects]
        BY DEF TypeOK
      <3>4. spent.disconnects + 1 \in 0 .. MaxDisconnects
        BY <3>2, <3>3, AccountAssumption
      <3>5. spent' \in [calls : 0 .. MaxCalls, failures : 0 .. MaxFailures,
                        disconnects : 0 .. MaxDisconnects]
        BY <3>2, <3>3, <3>4
      <3>6. session' \in BOOLEAN
        BY <3>1
      <3> QED BY <3>5, <3>6
    <2>2. CASE ReadFrame \/ Reconnect \/ PeriodicReconcile
      BY <2>2 DEF ReadFrame, Reconnect, PeriodicReconcile, TypeOK
    <2> QED BY <2>1, <2>2
  <1>6. \/ plan' = plan
        \/ /\ plan[Stream] = << >>
           /\ \E p \in {Snapshots, DeepRepair} : plan' = [plan EXCEPT ![Stream] = p]
    BY DEF ReadFrame, Disconnect, Reconnect, PeriodicReconcile
  <1>7. plan' \in [Tasks -> Seq(Calls)]
    BY <1>2, <1>6, PlanTypes
  <1>8. TypeOK'
    BY <1>1, <1>3, <1>4, <1>5, <1>7, CacheOfRecord DEF TypeOK
  <1>9. ASSUME NEW t \in Tasks PROVE AnswerInv(t)'
    <2>1. AnswerInv(t) /\ answer[t].open \subseteq Orders /\ answer'[t] = answer[t]
      BY <1>1 DEF TypeOK
    <2>2. CASE plan'[t] = plan[t]
      BY <1>1, <2>1, <2>2, AnswerKept, BookKept
    <2>3. CASE plan'[t] # plan[t]
      <3>1. plan[t] = << >>
        BY <1>2, <1>6, <2>3
      <3>2. answer[t].stage = "unasked" /\ answer[t].open = {}
        BY <2>1, <3>1 DEF AnswerInv
      <3> QED BY <2>1, <3>2 DEF AnswerInv
    <2> QED BY <2>2, <2>3
  <1> QED BY <1>3, <1>8, <1>9, CacheOfRecord

\* The application starts a call.
LEMMA BeginStep ==
    ASSUME AccountInv, NEW c \in Callers, Begin(c)
    PROVE  AccountInv'
  <1> USE DEF AccountInv
  <1>1. /\ venue' = venue /\ mode' = mode /\ book' = book /\ trades' = trades /\ held' = held /\ answer' = answer
        /\ session' = session /\ wire' = wire /\ cache' = cache /\ plan[c] = << >>
    BY DEF Begin, venueVars
  <1>2. PICK r \in Requests : plan' = [plan EXCEPT ![c] = <<r>>]
    BY DEF Begin
  <1>3. c \in Tasks /\ plan \in [Tasks -> Seq(Calls)] /\ r \in Calls
    BY RequestsAssumption DEF Tasks, TypeOK
  <1>4. plan' \in [Tasks -> Seq(Calls)]
    <2>1. <<r>> \in Seq(Calls)
      BY <1>3
    <2> QED BY <1>2, <1>3, <2>1
  <1>5. spent' \in [calls : 0 .. MaxCalls, failures : 0 .. MaxFailures,
                    disconnects : 0 .. MaxDisconnects]
    <2>1. spent.calls < MaxCalls /\ spent' = [spent EXCEPT !.calls = @ + 1]
      BY DEF Begin
    <2>2. spent \in [calls : 0 .. MaxCalls, failures : 0 .. MaxFailures,
                     disconnects : 0 .. MaxDisconnects]
      BY DEF TypeOK
    <2>3. spent.calls + 1 \in 0 .. MaxCalls
      BY <2>1, <2>2, AccountAssumption
    <2> QED BY <2>1, <2>2, <2>3
  <1>6. TypeOK'
    BY <1>1, <1>4, <1>5 DEF TypeOK
  <1>7. ExecutionsRecordedOnce'
    BY <1>1 DEF ExecutionsRecordedOnce
  <1>8. ASSUME NEW t \in Tasks PROVE AnswerInv(t)'
    <2>1. AnswerInv(t) /\ answer[t].open \subseteq Orders /\ answer'[t] = answer[t]
      BY <1>1 DEF TypeOK
    <2>2. CASE t # c
      <3>1. plan'[t] = plan[t]
        BY <1>2, <1>3, <2>2
      <3> QED BY <1>1, <2>1, <3>1, AnswerKept, BookKept
    <2>3. CASE t = c
      <3>1. answer[t].stage = "unasked" /\ answer[t].open = {}
        BY <1>1, <2>1, <2>3 DEF AnswerInv
      <3> QED BY <2>1, <3>1 DEF AnswerInv
    <2> QED BY <2>2, <2>3
  <1> QED BY <1>6, <1>7, <1>8

\* A step of one task that changes its answer and nothing else.
LEMMA AskStep ==
    ASSUME AccountInv, NEW t \in Tasks, NEW new \in Answers,
           UNCHANGED <<venueVars, session, wire, cache, plan, spent>>,
           answer' = [answer EXCEPT ![t] = new], AnswerInv(t)'
    PROVE  AccountInv'
  <1> USE DEF AccountInv
  <1>1. /\ venue' = venue /\ mode' = mode /\ book' = book /\ trades' = trades /\ held' = held
        /\ session' = session /\ wire' = wire /\ cache' = cache /\ plan' = plan /\ spent' = spent
    BY DEF venueVars
  <1>2. answer \in [Tasks -> Answers]
    BY DEF TypeOK, Answers
  <1>3. answer' \in [Tasks -> Answers]
    BY <1>2
  <1>4. TypeOK'
    BY <1>1, <1>3 DEF TypeOK, Answers
  <1>5. ExecutionsRecordedOnce'
    BY <1>1 DEF ExecutionsRecordedOnce
  <1>6. ASSUME NEW u \in Tasks PROVE AnswerInv(u)'
    <2>1. CASE u = t
      BY <2>1
    <2>2. CASE u # t
      <3>1. AnswerInv(u) /\ answer[u].open \subseteq Orders
        BY DEF TypeOK
      <3>2. answer'[u] = answer[u] /\ plan'[u] = plan[u]
        BY <1>1, <1>2, <2>2
      <3> QED BY <1>1, <3>1, <3>2, AnswerKept, BookKept
    <2> QED BY <2>1, <2>2
  <1> QED BY <1>4, <1>5, <1>6

\* refresh_open_orders asks once, or on Binance twice.
LEMMA AskOpenOrdersStep ==
    ASSUME AccountInv, NEW t \in Tasks, AskOpenOrders(t)
    PROVE  AccountInv'
  <1> DEFINE os == {o \in OpenAtVenue : InScope(o, Scope(t))}
             old == answer[t]
  <1>1. /\ Asks(t, "orders") /\ plan[t] # << >>
        /\ UNCHANGED <<venueVars, session, wire, cache, plan, spent>>
    BY DEF AskOpenOrders, Asks
  <1>2. /\ answer \in [Tasks -> Answers] /\ old \in Answers /\ AnswerInv(t)
        /\ book \in [Orders -> Statuses]
    BY DEF AccountInv, TypeOK, Answers
  <1>3. /\ os \subseteq Orders /\ \A o \in os : book[o] \in OpenStatuses /\ InScope(o, Scope(t))
        /\ \A o \in Orders : book[o] \in OpenStatuses /\ InScope(o, Scope(t)) => o \in os
    BY DEF OpenAtVenue
  <1>4. plan' = plan /\ book' = book /\ venue' = venue
    BY <1>1 DEF venueVars
  <1>5. ASSUME old.stage = "unasked", NEW page \in FirstRead(os),
               answer' = [answer EXCEPT ![t] = [old EXCEPT
                    !.stage = IF venue = "Binance" THEN "half" ELSE "read",
                    !.open = os, !.orders = Listed(page)]]
        PROVE  AccountInv'
    <2> DEFINE new == [old EXCEPT !.stage = IF venue = "Binance" THEN "half" ELSE "read",
                                  !.open = os, !.orders = Listed(page)]
    <2>1. answer' = [answer EXCEPT ![t] = new] /\ answer'[t] = new
      BY <1>2, <1>5
    <2>2. /\ new.stage = IF venue = "Binance" THEN "half" ELSE "read"
          /\ new.open = os /\ new.orders = Listed(page)
      BY <1>2 DEF Answers
    <2>3. Listed(page) \in [Orders -> Statuses]
      BY <1>2 DEF Listed, Statuses
    <2>4. new \in Answers
      <3>1. new.stage \in {"unasked", "half", "read"}
        BY <2>2
      <3> QED BY <1>2, <1>3, <2>3 DEF Answers
    <2> HIDE DEF new
    <2>5. \A o \in os : o \in page => Listed(page)[o] \in OpenStatuses
      BY <1>3 DEF Listed
    <2>6. AnswerInv(t)'
      <3>1. \A o \in os : book'[o] # None
        BY <1>3, <1>4 DEF OpenStatuses, None
      <3>2. new.stage = "half" => \A o \in os :
               InScope(o, Scope(t)) /\ (o \notin Algo => new.orders[o] \in OpenStatuses)
        <4>1. new.stage = "half" => page = os \ Algo
          BY <1>5, <2>2 DEF FirstRead
        <4> QED BY <1>3, <2>2, <2>5, <4>1
      <3>3. new.stage = "read" /\ FitOnePage(os) => \A o \in os : new.orders[o] \in OpenStatuses
        <4>1. new.stage = "read" /\ FitOnePage(os) => page = os
          BY <1>5, <2>2 DEF FirstRead, Pages, FitOnePage
        <4> QED BY <2>2, <2>5, <4>1
      <3>4. Asks(t, "orders")'
        BY <1>1, <1>4 DEF Asks, Op
      <3>5. \A o \in os : InScope(o, Scope(t)) => InScope(o, Scope(t))'
        BY <1>4 DEF InScope, Scope
      <3>6. new.stage # "unasked"
        BY <2>2
      <3>7. FitOnePage(answer[t].open)' => FitOnePage(os)
        BY <1>4, <2>1, <2>2 DEF FitOnePage
      <3> QED BY <1>1, <1>4, <2>1, <2>2, <3>1, <3>2, <3>3, <3>4, <3>5, <3>6, <3>7 DEF AnswerInv
    <2> QED BY <1>1, <2>1, <2>4, <2>6, AskStep
  <1>6. CASE /\ old.stage = "half"
             /\ answer' = [answer EXCEPT ![t] = [old EXCEPT
                    !.stage = "read",
                    !.orders = [o \in Orders |-> IF o \in os \cap Algo THEN book[o]
                                               ELSE answer[t].orders[o]]]]
    <2> DEFINE listed == [o \in Orders |-> IF o \in os \cap Algo THEN book[o] ELSE old.orders[o]]
               new == [old EXCEPT !.stage = "read", !.orders = listed]
    <2>1. answer' = [answer EXCEPT ![t] = new] /\ answer'[t] = new
      <3>1. answer' = [answer EXCEPT ![t] = new]
        BY ONLY <1>6
      <3> HIDE DEF new
      <3> QED BY <1>2, <3>1
    <2>2. listed \in [Orders -> Statuses]
      BY <1>2 DEF Answers
    <2>3. \A o \in Orders : listed[o] = IF o \in os \cap Algo THEN book[o] ELSE old.orders[o]
      OBVIOUS
    <2> HIDE DEF listed
    <2>4. new.stage = "read" /\ new.orders = listed /\ new.open = old.open /\ new \in Answers
      BY <1>2, <2>2 DEF Answers
    <2> HIDE DEF new
    <2>5. AnswerInv(t)'
      <3>1. /\ old.open \subseteq Orders
            /\ \A o \in old.open : book[o] # None /\ InScope(o, Scope(t))
                                   /\ (o \notin Algo => old.orders[o] \in OpenStatuses)
        BY <1>2, <1>6 DEF AnswerInv, Answers
      <3>2. ASSUME NEW o \in old.open, book[o] \in OpenStatuses
            PROVE  listed[o] \in OpenStatuses
        BY <1>3, <2>3, <3>1, <3>2
      <3> QED BY <1>1, <1>4, <2>1, <2>4, <3>1, <3>2 DEF AnswerInv
    <2> QED BY <1>1, <2>1, <2>4, <2>5, AskStep
  <1> QED BY <1>5, <1>6 DEF AskOpenOrders

\* The other requests, which are one read each.
LEMMA AskOnceStep ==
    ASSUME AccountInv, NEW t \in Tasks, AskPositions(t) \/ AskExecutions(t) \/ AskOrder(t)
    PROVE  AccountInv'
  <1> DEFINE old == answer[t]
  <1>1. /\ old.stage = "unasked" /\ plan[t] # << >>
        /\ UNCHANGED <<venueVars, session, wire, cache, plan, spent>>
    BY DEF AskPositions, AskExecutions, AskOrder, Asks
  <1>2. /\ answer \in [Tasks -> Answers] /\ old \in Answers /\ AnswerInv(t)
        /\ book \in [Orders -> Statuses] /\ trades \in Seq(Trades)
    BY DEF AccountInv, TypeOK, Answers
  <1>3. plan' = plan /\ book' = book
    BY <1>1 DEF venueVars
  <1>4. old.open = {}
    BY <1>1, <1>2 DEF AnswerInv
  <1>5. ASSUME NEW new \in Answers, answer' = [answer EXCEPT ![t] = new],
               new.stage = "read", new.open = {}
        PROVE  AccountInv'
    <2>1. answer'[t] = new
      BY <1>2, <1>5
    <2>2. AnswerInv(t)'
      BY <1>1, <1>3, <1>5, <2>1 DEF AnswerInv
    <2> QED BY <1>1, <1>5, <2>2, AskStep
  <1>6. CASE AskPositions(t)
    <2>1. PICK positions \in [Instruments -> Sides] :
            answer' = [answer EXCEPT ![t] = [old EXCEPT !.stage = "read", !.positions = positions]]
      BY <1>6 DEF AskPositions, Collected
    <2> DEFINE new == [old EXCEPT !.stage = "read", !.positions = positions]
    <2>2. new \in Answers /\ new.stage = "read" /\ new.open = {}
      BY <1>2, <1>4 DEF Answers
    <2> QED BY <1>5, <2>1, <2>2
  <1>7. CASE AskExecutions(t)
    <2> DEFINE specs == IF Op(t) = "evidence" THEN EvidenceSpecs ELSE ExecutionSpecs(Scope(t))
               page == TradesOf(specs)
               new == [old EXCEPT !.stage = "read", !.trades = page]
    <2>1. page \in Seq(Trades)
      BY <1>2, TradesOfType
    <2>2. answer' = [answer EXCEPT ![t] = new]
      BY <1>7 DEF AskExecutions
    <2> HIDE DEF page
    <2>3. new \in Answers /\ new.stage = "read" /\ new.open = {}
      BY <1>2, <1>4, <2>1 DEF Answers
    <2> QED BY <1>5, <2>2, <2>3
  <1>8. CASE AskOrder(t)
    <2> DEFINE new == [old EXCEPT !.stage = "read", !.orders = Listed({Scope(t)})]
    <2>1. Listed({Scope(t)}) \in [Orders -> Statuses]
      BY <1>2 DEF Listed, Statuses
    <2>2. answer' = [answer EXCEPT ![t] = new]
      BY <1>8 DEF AskOrder
    <2>3. new \in Answers /\ new.stage = "read" /\ new.open = {}
      BY <1>2, <1>4, <2>1 DEF Answers
    <2> QED BY <1>5, <2>2, <2>3
  <1> QED BY <1>6, <1>7, <1>8

\* What a call writes at its end.
LEMMA WrittenType ==
    ASSUME AccountInv, NEW t \in Tasks, plan[t] # << >>
    PROVE  Written(t) \in Caches /\ IsRecord(Written(t).executions)
  <1>1. cache \in Caches /\ IsRecord(cache.executions)
    BY RecordOfCache DEF AccountInv
  <1>2. answer[t] \in Answers
    BY DEF AccountInv, TypeOK, Answers
  <1>3. Head(plan[t]) \in Calls
    BY DEF AccountInv, TypeOK
  <1>4. CASE Op(t) = "orders"
    <2> DEFINE listed == answer[t].orders
               orders == [o \in Orders |-> IF listed[o] # None THEN listed[o]
                            ELSE IF cache.orders[o] \in OpenStatuses THEN None ELSE cache.orders[o]]
    <2>1. Written(t) = [cache EXCEPT !.orders = orders]
      BY <1>4 DEF Written, ReplaceOpenOrders
    <2>2. orders \in [Orders -> Statuses]
      BY <1>1, <1>2 DEF Caches, Answers, Statuses
    <2> HIDE DEF orders
    <2> QED BY <1>1, <2>1, <2>2 DEF Caches
  <1>5. CASE Op(t) \in {"account", "positions"}
    <2>1. Written(t) = [cache EXCEPT !.positions = answer[t].positions]
      BY <1>5 DEF Written, ReplacePositions
    <2> QED BY <1>1, <1>2, <2>1 DEF Caches, Answers
  <1>6. CASE Op(t) \in {"executions", "evidence"}
    <2> DEFINE merged == Merged(cache.executions, answer[t].trades)
    <2>1. Written(t) = [cache EXCEPT !.executions = merged]
      BY <1>6 DEF Written, MergeExecutions
    <2>2. answer[t].trades \in Seq(Trades)
      BY <1>2 DEF Answers
    <2>3. IsRecord(merged)
      BY <1>1, <2>2, MergedIsRecord
    <2>4. merged \in Seq(Trades)
      BY <2>3 DEF IsRecord
    <2> HIDE DEF merged
    <2> QED BY <1>1, <2>1, <2>3, <2>4 DEF Caches
  <1>7. CASE Op(t) = "order"
    <2> DEFINE e == OrderEvent(Scope(t), answer[t].orders[Scope(t)])
    <2>1. Written(t) = ApplyPrivateEvents(cache, {e})
      BY <1>7 DEF Written
    <2>2. Scope(t) \in Orders
      BY <1>3, <1>7 DEF Calls, Op, Scope
    <2>3. IsEvent(e)
      BY <1>2, <2>2 DEF OrderEvent, Event, IsEvent, Answers
    <2> HIDE DEF e
    <2> QED BY <1>1, <2>1, <2>3, AppliedEvents
  <1>8. Op(t) \in {"orders", "executions", "order", "account", "positions", "evidence"}
    BY <1>3 DEF Calls, Op
  <1> QED BY <1>4, <1>5, <1>6, <1>7, <1>8

\* A call writes, or fails and gives the plan up.
LEMMA EndOfCallStep ==
    ASSUME AccountInv, NEW t \in Tasks, Apply(t) \/ Fail(t)
    PROVE  AccountInv'
  <1> USE DEF AccountInv
  <1>1. /\ venue' = venue /\ mode' = mode /\ book' = book /\ trades' = trades /\ held' = held
        /\ session' = session /\ wire' = wire /\ plan[t] # << >>
        /\ answer' = [answer EXCEPT ![t] = Unasked]
    BY DEF Apply, Fail, venueVars
  <1>2. cache' \in Caches /\ IsRecord(cache'.executions)
    <2>1. CASE Apply(t)
      <3>1. cache' = Written(t)
        BY <2>1 DEF Apply
      <3> QED BY <1>1, <3>1, WrittenType
    <2>2. CASE Fail(t)
      <3>1. cache' = cache
        BY <2>2 DEF Fail
      <3> QED BY <3>1, RecordOfCache
    <2> QED BY <2>1, <2>2
  <1>3. plan \in [Tasks -> Seq(Calls)] /\ answer \in [Tasks -> Answers]
    BY DEF TypeOK, Answers
  <1>4. plan' \in [Tasks -> Seq(Calls)] /\ \A u \in Tasks : u # t => plan'[u] = plan[u]
    <2>1. CASE Apply(t)
      <3>1. plan' = [plan EXCEPT ![t] = Tail(plan[t])]
        BY <2>1 DEF Apply
      <3>2. Tail(plan[t]) \in Seq(Calls)
        BY <1>1, <1>3
      <3> QED BY <1>3, <3>1, <3>2
    <2>2. CASE Fail(t)
      <3>1. plan' = [plan EXCEPT ![t] = << >>] /\ << >> \in Seq(Calls)
        BY <2>2 DEF Fail
      <3> QED BY <1>3, <3>1
    <2> QED BY <2>1, <2>2
  <1>5. /\ answer' \in [Tasks -> Answers] /\ answer'[t] = Unasked
        /\ \A u \in Tasks : u # t => answer'[u] = answer[u]
    BY <1>1, <1>3, UnaskedType
  <1>6. spent' \in [calls : 0 .. MaxCalls, failures : 0 .. MaxFailures,
                    disconnects : 0 .. MaxDisconnects]
    <2>1. spent' = spent
             \/ (spent.failures < MaxFailures /\ spent' = [spent EXCEPT !.failures = @ + 1])
      BY DEF Apply, Fail
    <2>2. spent \in [calls : 0 .. MaxCalls, failures : 0 .. MaxFailures,
                     disconnects : 0 .. MaxDisconnects]
      BY DEF TypeOK
    <2>3. spent.failures < MaxFailures => spent.failures + 1 \in 0 .. MaxFailures
      BY <2>2, AccountAssumption
    <2> QED BY <2>1, <2>2, <2>3
  <1>7. TypeOK'
    BY <1>1, <1>2, <1>4, <1>5, <1>6, CacheOfRecord DEF TypeOK, Answers
  <1>8. ASSUME NEW u \in Tasks PROVE AnswerInv(u)'
    <2>1. CASE u = t
      BY <1>5, <2>1, UnaskedType DEF AnswerInv
    <2>2. CASE u # t
      <3>1. AnswerInv(u) /\ answer[u].open \subseteq Orders
        BY DEF TypeOK
      <3> QED BY <1>1, <1>4, <1>5, <2>2, <3>1, AnswerKept, BookKept
    <2> QED BY <2>1, <2>2
  <1> QED BY <1>2, <1>7, <1>8, CacheOfRecord

LEMMA AccountNext == AccountInv /\ [Next]_vars => AccountInv'
  <1> SUFFICES ASSUME AccountInv, [Next]_vars PROVE AccountInv'
    OBVIOUS
  <1>1. CASE \E o \in Orders : OpenOrder(o) \/ Trade(o)
    BY <1>1, OpenOrderStep, TradeStep
  <1>2. CASE ReadFrame \/ Disconnect \/ Reconnect \/ PeriodicReconcile
    BY <1>2, StreamStep
  <1>3. CASE \E t \in Callers : Begin(t)
    BY <1>3, BeginStep
  <1>4. CASE \E t \in Tasks : RestStep(t)
    BY <1>4, AskOpenOrdersStep, AskOnceStep, EndOfCallStep DEF RestStep
  <1>5. CASE UNCHANGED vars
    <2>1. /\ venue' = venue /\ mode' = mode /\ book' = book /\ trades' = trades /\ held' = held
          /\ session' = session /\ wire' = wire /\ cache' = cache /\ plan' = plan
          /\ answer' = answer /\ spent' = spent
      BY <1>5 DEF vars, venueVars
    <2>2. TypeOK'
      BY <2>1 DEF AccountInv, TypeOK
    <2>3. ExecutionsRecordedOnce'
      BY <2>1 DEF AccountInv, ExecutionsRecordedOnce
    <2>4. ASSUME NEW t \in Tasks PROVE AnswerInv(t)'
      <3>1. AnswerInv(t) /\ answer[t].open \subseteq Orders
        BY DEF AccountInv, TypeOK
      <3> QED BY <2>1, <3>1, AnswerKept, BookKept DEF AccountInv
    <2> QED BY <2>2, <2>3, <2>4 DEF AccountInv
  <1> QED BY <1>1, <1>2, <1>3, <1>4, <1>5 DEF Next

----------------------------------------------------------------------------
(* The theorems.                                                           *)

\* The invariant holds in every reachable state, for any orders, any tasks
\* that refresh and any capacity.
THEOREM AccountInvariant == SafetySpec => []AccountInv
  BY AccountInit, AccountNext, PTL DEF SafetySpec

\* Every variable of the account keeps its type, and the list of executions
\* stays within execution_capacity.
THEOREM AccountTypes == SafetySpec => []TypeOK
  <1>1. AccountInv => TypeOK
    BY DEF AccountInv
  <1> QED BY <1>1, AccountInvariant, PTL

\* apply_private_event and merge_executions record an execution once, however
\* many frames, refreshes and repairs bring it.
THEOREM ExecutionsAreDistinct == SafetySpec => []ExecutionsRecordedOnce
  <1>1. AccountInv => ExecutionsRecordedOnce
    BY DEF AccountInv
  <1> QED BY <1>1, AccountInvariant, PTL

\* refresh_open_orders drops no order that was open when it began and still is,
\* if those in its scope fit one page: not between the two requests of Binance,
\* and not by the time it writes.
THEOREM RefreshDropsNoOpenOrder == SafetySpec => RefreshKeepsOpenOrders
  <1> DEFINE Kept == \A t \in Tasks : RefreshEnds(t) /\ FitOnePage(answer[t].open) =>
               \A o \in answer[t].open \cap OpenAtVenue : cache'.orders[o] \in OpenStatuses
  <1>1. AccountInv /\ [Next]_vars => [Kept]_vars
    <2> SUFFICES ASSUME AccountInv, Next, NEW t \in Tasks, Asks(t, "orders"),
                        answer[t].stage = "read", answer'[t].stage = "unasked",
                        FitOnePage(answer[t].open),
                        NEW o \in answer[t].open, o \in OpenAtVenue
                 PROVE  cache'.orders[o] \in OpenStatuses
      BY DEF RefreshEnds
    <2>1. answer \in [Tasks -> Answers] /\ answer'[t] # answer[t]
      BY DEF AccountInv, TypeOK, Answers
    <2>2. RestStep(t)
      <3>1. CASE \E u \in Tasks : RestStep(u)
        <4>1. PICK u \in Tasks : RestStep(u)
          BY <3>1
        <4>2. \A v \in Tasks : v # u => answer'[v] = answer[v]
          BY <2>1, <4>1 DEF RestStep, AskOpenOrders, AskPositions, AskExecutions, AskOrder, Apply, Fail
        <4> QED BY <2>1, <4>1, <4>2
      <3>2. CASE ~ \E u \in Tasks : RestStep(u)
        <4>1. answer' = answer
          BY <3>2 DEF Next, OpenOrder, Trade, ReadFrame, Disconnect, Reconnect, PeriodicReconcile, Begin
        <4> QED BY <2>1, <4>1
      <3> QED BY <3>1, <3>2
    <2>3. Apply(t)
      BY <2>2 DEF RestStep, AskOpenOrders, AskPositions, AskExecutions, AskOrder, Fail
    <2>4. answer[t].orders[o] \in OpenStatuses
      BY DEF AccountInv, AnswerInv, OpenAtVenue
    <2>5. cache' = ReplaceOpenOrders(cache, answer[t].orders)
      BY <2>3 DEF Apply, Written, Asks
    <2>6. cache \in Caches /\ o \in Orders
      BY RecordOfCache DEF AccountInv, OpenAtVenue
    <2> QED BY <2>4, <2>5, <2>6 DEF ReplaceOpenOrders, Caches, OpenStatuses, None
  <1> QED BY <1>1, AccountInvariant, PTL DEF SafetySpec, RefreshKeepsOpenOrders
=============================================================================
