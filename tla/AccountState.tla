---------------------------- MODULE AccountState ----------------------------
(***************************************************************************)
(* The private half of EngineState (crates/bat-markets-core/src/state.rs): *)
(* the cached orders, positions and executions, and everybody who writes   *)
(* them.  The account stream applies frames; REST refreshes                *)
(* (refresh_positions, refresh_open_orders, refresh_executions, get_order, *)
(* reconcile_private in runtime.rs) ask the venue, and apply the answer    *)
(* some time after the venue gave it.  Each write is one critical section  *)
(* (SharedState::write); between an answer and its write anything happens. *)
(*                                                                         *)
(* Balances are left out: they are replaced and inserted like positions.   *)
(* The health report is the subject of PrivateHub and CommandRecovery.     *)
(***************************************************************************)
EXTENDS Naturals, Sequences, FiniteSets, SequencesExt

CONSTANTS
    Orders,         \* the orders the account ever places
    InstrumentOf,   \* the instrument of each order
    Standing,       \* those that are open, partially filled, from the start
    Algo,           \* those that Binance lists at openAlgoOrders
    Venues,         \* the venues a client may be built for
    Modes,          \* the position modes the account may be in
    PageSize,       \* rows in an answer of a venue that pages
    Callers,        \* application tasks that make REST calls
    Requests,       \* what the application asks for
    Stream,         \* the task of the private stream
    ExecutionCapacity,
    Periodic,       \* whether periodic_private_reconcile_ms is set
    MaxTrades,      \* bound: trades the venue makes
    MaxCalls,       \* bound: REST calls of the application
    MaxFailures,    \* bound: REST calls that fail
    MaxDisconnects  \* bound: sessions that break

Tasks == Callers \cup {Stream}
Instruments == {InstrumentOf[o] : o \in Orders}
None == "none"
OpenStatuses == {"New", "PartiallyFilled"}
Statuses == OpenStatuses \cup {"Filled", None}
Trades == Orders \X {"PartiallyFilled", "Filled"}
Legs == {"long", "short"}
Sides == Legs \cup {"flat", None}   \* "flat": a cached position of size 0

ASSUME AccountAssumption ==
    /\ InstrumentOf \in [Orders -> Instruments]
    /\ Algo \subseteq Orders /\ Standing \subseteq Orders
    /\ Venues \subseteq {"Binance", "Bybit", "Mexc"}
    /\ Modes \subseteq {"OneWay", "Hedge"}
    /\ PageSize \in Nat \ {0}
    /\ Stream \notin Callers
    /\ IsFiniteSet(Orders)
    /\ ExecutionCapacity \in Nat /\ Cardinality(Standing) <= ExecutionCapacity
    /\ Periodic \in BOOLEAN
    /\ MaxTrades \in Nat /\ MaxCalls \in Nat
    /\ MaxFailures \in Nat /\ MaxDisconnects \in Nat

VARIABLES
    venue,
    mode,      \* the position mode of the account
    book,      \* the venue's own status of each order
    trades,    \* the trades it made, oldest first
    held,      \* the positions open per instrument: a trade opens or closes one
    session,   \* whether the private stream has a websocket session
    wire,      \* frames sent on it and not read yet
    cache,     \* EngineState: orders, positions, executions
    plan,      \* per task, the REST calls it has still to make
    answer,    \* per task, what the venue answered to the call under way
    spent      \* calls, failures and disconnects so far

venueVars == <<venue, mode, book, trades, held>>
vars == <<venueVars, session, wire, cache, plan, answer, spent>>

\* scope: the instrument asked for, or None for all; for get_order an order.
Call(op, scope) == [op |-> op, scope |-> scope]
Calls ==
    [op : {"orders", "executions"}, scope : Instruments \cup {None}]
        \cup [op : {"order"}, scope : Orders]
        \cup [op : {"account", "positions", "evidence"}, scope : {None}]

ASSUME RequestsAssumption == Requests \subseteq Calls

\* stage: nothing asked yet, the first of two reads done, ready to apply;
\* open: the orders that were open at the first read.
Unasked == [stage |-> "unasked", orders |-> [o \in Orders |-> None], trades |-> << >>,
            positions |-> [i \in Instruments |-> None], open |-> {}]

Frames ==
    [topic : {"order"}, order : Orders, status : {"New"}, fill : {FALSE}]
        \cup [topic : {"order"}, order : Orders, status : {"PartiallyFilled", "Filled"}, fill : {TRUE}]
        \cup [topic : {"trade"}, trade : Trades]
        \cup [topic : {"position"}, instrument : Instruments, side : Sides]

TypeOK ==
    /\ venue \in Venues /\ mode \in Modes
    /\ book \in [Orders -> Statuses]
    /\ trades \in Seq(Trades)
    /\ held \in [Instruments -> SUBSET Legs]
    /\ session \in BOOLEAN
    /\ wire \in Seq(Frames)
    /\ cache \in [orders : [Orders -> Statuses], positions : [Instruments -> Sides],
                  executions : Seq(Trades)]
    /\ Len(cache.executions) <= ExecutionCapacity
    /\ plan \in [Tasks -> Seq(Calls)]
    /\ answer \in [Tasks -> [stage : {"unasked", "half", "read"}, orders : [Orders -> Statuses],
                             trades : Seq(Trades), positions : [Instruments -> Sides],
                             open : SUBSET Orders]]
    /\ spent \in [calls : 0 .. MaxCalls, failures : 0 .. MaxFailures,
                  disconnects : 0 .. MaxDisconnects]

\* A client that bootstrapped with some orders open and reconciled once.
Init ==
    LET status == [o \in Orders |-> IF o \in Standing THEN "PartiallyFilled" ELSE None]
        past == SetToSeq({<<o, "PartiallyFilled">> : o \in Standing})
        long == {InstrumentOf[o] : o \in Standing}
    IN  /\ venue \in Venues /\ mode \in Modes
        /\ book = status
        /\ trades = past
        /\ held = [i \in Instruments |-> IF i \in long THEN {"long"} ELSE {}]
        /\ session = TRUE
        /\ wire = << >>
        /\ cache = [orders |-> status, executions |-> past,
                    positions |-> [i \in Instruments |-> IF i \in long THEN "long" ELSE None]]
        /\ plan = [t \in Tasks |-> << >>]
        /\ answer = [t \in Tasks |-> Unasked]
        /\ spent = [calls |-> 0, failures |-> 0, disconnects |-> 0]

----------------------------------------------------------------------------
(* The venue: orders open and fill, and each change is sent to whoever     *)
(* listens.                                                                *)

Send(frames) == wire' = IF session THEN wire \o frames ELSE wire

OpenOrder(o) ==
    /\ book[o] = None
    /\ book' = [book EXCEPT ![o] = "New"]
    /\ Send(<<[topic |-> "order", order |-> o, status |-> "New", fill |-> FALSE]>>)
    /\ UNCHANGED <<venue, mode, trades, held, session, cache, plan, answer, spent>>

\* In one-way mode an instrument has one position, in hedge mode a long and a
\* short one.
Trade(o) ==
    /\ book[o] \in OpenStatuses
    /\ Len(trades) < MaxTrades
    /\ \E status \in {"PartiallyFilled", "Filled"} \ {book[o]},
          leg \in IF mode = "Hedge" THEN Legs ELSE {"long"} :
         LET i == InstrumentOf[o]
             closes == leg \in held[i]
         IN  /\ book' = [book EXCEPT ![o] = status]
             /\ trades' = Append(trades, <<o, status>>)
             /\ held' = [held EXCEPT ![i] = IF closes THEN held[i] \ {leg} ELSE held[i] \cup {leg}]
             /\ Send(<<[topic |-> "position", instrument |-> i,
                        side |-> IF closes THEN "flat" ELSE leg],
                       [topic |-> "order", order |-> o, status |-> status, fill |-> TRUE],
                       [topic |-> "trade", trade |-> <<o, status>>]>>)
    /\ UNCHANGED <<venue, mode, session, cache, plan, answer, spent>>

----------------------------------------------------------------------------
(* EngineState.                                                            *)

Event(type, key, value) == [type |-> type, key |-> key, value |-> value]
OrderEvent(o, status) == Event("Order", o, status)
ExecutionEvent(trade) == Event("Execution", trade[1], trade)
PositionEvent(i, side) == Event("Position", i, side)

\* Fault: an execution that is known is recorded again.
AddExecutionAgain(executions, trade) ==
    LET all == Append(executions, trade)
    IN  IF Len(all) > ExecutionCapacity THEN Tail(all) ELSE all

\* The same loop in apply_private_event and merge_executions.
AddExecution(executions, trade) ==
    LET all == Append(executions, trade)
    IN  IF trade \in ToSet(executions) THEN executions
        ELSE IF Len(all) > ExecutionCapacity THEN Tail(all) ELSE all

\* What the events say of one key: a frame has at most one of a type for it,
\* and each type writes a part of its own, so that the order in which
\* apply_private_event takes them makes no difference.
Slot(events, type, key) == {e.value : e \in {x \in events : x.type = type /\ x.key = key}}

Overwrite(values, events, type) ==
    [k \in DOMAIN values |-> IF Slot(events, type, k) = {} THEN values[k]
                             ELSE CHOOSE v \in Slot(events, type, k) : TRUE]

Record(executions, events) ==
    LET new == {e.value : e \in {x \in events : x.type = "Execution"}}
    IN  IF new = {} THEN executions ELSE AddExecution(executions, CHOOSE t \in new : TRUE)

ApplyPrivateEvents(c, events) ==
    [c EXCEPT !.orders = Overwrite(@, events, "Order"),
              !.positions = Overwrite(@, events, "Position"),
              !.executions = Record(@, events)]

\* Fault: orders that the venue does not list any more are kept.
ReplaceOpenOrdersMerges(c, listed) ==
    [c EXCEPT !.orders = [o \in Orders |-> IF listed[o] # None THEN listed[o] ELSE @[o]]]

\* Every open order is dropped, then what the venue listed is inserted.
ReplaceOpenOrders(c, listed) ==
    [c EXCEPT !.orders =
        [o \in Orders |-> IF listed[o] # None THEN listed[o]
                          ELSE IF @[o] \in OpenStatuses THEN None ELSE @[o]]]

\* Fault: a position the venue does not list any more is kept.
ReplacePositionsMerges(c, positions) ==
    [c EXCEPT !.positions =
        [i \in Instruments |-> IF positions[i] # None THEN positions[i] ELSE @[i]]]

\* The map is built anew from the rows (Collected).
ReplacePositions(c, positions) == [c EXCEPT !.positions = positions]

Merged(recorded, executions) ==
    LET merged[k \in 0 .. Len(executions)] ==
            IF k = 0 THEN recorded ELSE AddExecution(merged[k - 1], executions[k])
    IN  merged[Len(executions)]

MergeExecutions(c, executions) == [c EXCEPT !.executions = Merged(@, executions)]

----------------------------------------------------------------------------
(* The stream.                                                             *)

\* ORDER_TRADE_UPDATE carries the order and its last trade, TRADE_LITE the
\* same trade; an algo order comes as ALGO_UPDATE without one.
ParseBinancePrivate(frame) ==
    CASE frame.topic = "order" ->
           IF frame.fill /\ frame.order \notin Algo
             THEN {OrderEvent(frame.order, frame.status),
                   ExecutionEvent(<<frame.order, frame.status>>)}
             ELSE {OrderEvent(frame.order, frame.status)}
      [] frame.topic = "trade" -> {ExecutionEvent(frame.trade)}
      [] frame.topic = "position" -> {PositionEvent(frame.instrument, frame.side)}

\* A position of size 0 is skipped.
ParseBybitPrivate(frame) ==
    CASE frame.topic = "order" -> {OrderEvent(frame.order, frame.status)}
      [] frame.topic = "trade" -> {ExecutionEvent(frame.trade)}
      [] frame.topic = "position" ->
           IF frame.side = "flat" THEN {}
           ELSE {PositionEvent(frame.instrument, frame.side)}

ParseMexcPrivate(frame) ==
    CASE frame.topic = "order" -> {OrderEvent(frame.order, frame.status)}
      [] frame.topic = "trade" -> {ExecutionEvent(frame.trade)}
      [] frame.topic = "position" -> {PositionEvent(frame.instrument, frame.side)}

ParsePrivate(frame) ==
    CASE venue = "Binance" -> ParseBinancePrivate(frame)
      [] venue = "Bybit" -> ParseBybitPrivate(frame)
      [] venue = "Mexc" -> ParseMexcPrivate(frame)

\* The stream task reads no frame while it reconciles.
ReadFrame ==
    /\ session
    /\ plan[Stream] = << >>
    /\ wire # << >>
    /\ cache' = ApplyPrivateEvents(cache, ParsePrivate(Head(wire)))
    /\ wire' = Tail(wire)
    /\ UNCHANGED <<venueVars, session, plan, answer, spent>>

\* reconcile_private; on Bybit and MEXC refresh_account reads balances only.
Snapshots ==
    (IF venue = "Binance" THEN <<Call("account", None)>> ELSE << >>)
        \o <<Call("positions", None), Call("orders", None)>>
DeepRepair == Append(Snapshots, Call("evidence", None))

\* The session breaks; the task reconciles before it opens another one.
Disconnect ==
    /\ session
    /\ plan[Stream] = << >>
    /\ spent.disconnects < MaxDisconnects
    /\ spent' = [spent EXCEPT !.disconnects = @ + 1]
    /\ session' = FALSE
    /\ wire' = << >>
    /\ plan' = [plan EXCEPT ![Stream] = DeepRepair]
    /\ UNCHANGED <<venueVars, cache, answer>>

Reconnect ==
    /\ ~session
    /\ plan[Stream] = << >>
    /\ session' = TRUE
    /\ UNCHANGED <<venueVars, wire, cache, plan, answer, spent>>

\* The maintenance tick; the mode depends on the health report (PrivateHub).
PeriodicReconcile ==
    /\ Periodic
    /\ session
    /\ plan[Stream] = << >>
    /\ \E p \in {Snapshots, DeepRepair} : plan' = [plan EXCEPT ![Stream] = p]
    /\ UNCHANGED <<venueVars, session, wire, cache, answer, spent>>

----------------------------------------------------------------------------
(* REST calls.  Each request of a call is answered at one moment.          *)

\* The application refreshes a part of the state or asks for an order.  A
\* reconcile it starts is no different from the stream's.
Begin(t) ==
    /\ plan[t] = << >>
    /\ spent.calls < MaxCalls
    /\ spent' = [spent EXCEPT !.calls = @ + 1]
    /\ \E c \in Requests : plan' = [plan EXCEPT ![t] = <<c>>]
    /\ UNCHANGED <<venueVars, session, wire, cache, answer>>

Op(t) == Head(plan[t]).op
Scope(t) == Head(plan[t]).scope
Asks(t, op) == plan[t] # << >> /\ Op(t) = op

InScope(o, scope) == scope = None \/ InstrumentOf[o] = scope

OpenAtVenue == {o \in Orders : book[o] \in OpenStatuses}

Listed(os) == [o \in Orders |-> IF o \in os THEN book[o] ELSE None]

\* A venue that pages answers a request without limit and cursor with its first
\* page, and no other is asked for.
Pages(rows) ==
    IF Cardinality(rows) <= PageSize THEN {rows}
    ELSE {page \in SUBSET rows : Cardinality(page) = PageSize}

\* Binance asks for the plain orders, then for the algo orders; Bybit and MEXC
\* page.
FirstRead(os) == IF venue = "Binance" THEN {os \ Algo} ELSE Pages(os)

\* Indices, in their order.
InOrder(indices) ==
    [k \in 1 .. Cardinality(indices) |->
        CHOOSE n \in indices : Cardinality({m \in indices : m <= n}) = k]

\* The trades of some instruments: Bybit and MEXC list the newest first.
TradesOf(instruments) ==
    LET picked == InOrder({n \in DOMAIN trades : InstrumentOf[trades[n][1]] \in instruments})
        some == [k \in DOMAIN picked |-> trades[picked[k]]]
    IN  IF venue = "Binance" THEN some ELSE Reverse(some)

InstrumentsOf(os) == {InstrumentOf[o] : o \in os}
CachedPositions == {i \in Instruments : cache.positions[i] # None}
CachedOpen == {o \in Orders : cache.orders[o] \in OpenStatuses}

\* execution_specs: without a request Binance asks for what is cached.
ExecutionSpecs(scope) ==
    IF scope # None THEN {scope}
    ELSE IF venue # "Binance" THEN Instruments
    ELSE CachedPositions \cup InstrumentsOf({o \in Orders : cache.orders[o] # None})

\* refresh_execution_repair_evidence: positions, open orders and executions.
\* Its requests, one per instrument, are taken as one.
EvidenceSpecs ==
    CachedPositions \cup InstrumentsOf(CachedOpen)
        \cup InstrumentsOf({x[1] : x \in ToSet(cache.executions)})

\* The rows of a snapshot of the positions, without those of size 0; Bybit
\* pages them.
OpenPositions == {row \in Instruments \X Legs : row[2] \in held[row[1]]}
PositionPages == IF venue = "Bybit" THEN Pages(OpenPositions) ELSE {OpenPositions}

\* The map replace_positions makes of the rows: the key is the instrument, so
\* of its two positions in hedge mode the one listed last is kept.
Collected(rows) ==
    {positions \in [Instruments -> Sides] :
        \A i \in Instruments :
            IF \E leg \in Legs : <<i, leg>> \in rows
              THEN <<i, positions[i]>> \in rows ELSE positions[i] = None}

\* Fault: the algo orders are not asked for.
AskOpenOrdersOnce(t) ==
    /\ Asks(t, "orders")
    /\ answer[t].stage = "unasked"
    /\ LET os == {o \in OpenAtVenue : InScope(o, Scope(t))}
       IN  \E page \in FirstRead(os) :
             answer' = [answer EXCEPT ![t] = [answer[t] EXCEPT
                !.stage = "read", !.open = os, !.orders = Listed(page)]]
    /\ UNCHANGED <<venueVars, session, wire, cache, plan, spent>>

AskOpenOrders(t) ==
    /\ Asks(t, "orders")
    /\ LET os == {o \in OpenAtVenue : InScope(o, Scope(t))}
       IN  \/ /\ answer[t].stage = "unasked"
              /\ \E page \in FirstRead(os) :
                   answer' = [answer EXCEPT ![t] = [answer[t] EXCEPT
                      !.stage = IF venue = "Binance" THEN "half" ELSE "read",
                      !.open = os, !.orders = Listed(page)]]
           \/ /\ answer[t].stage = "half"
              /\ answer' = [answer EXCEPT ![t] = [answer[t] EXCEPT
                    !.stage = "read",
                    !.orders = [o \in Orders |-> IF o \in os \cap Algo THEN book[o]
                                               ELSE answer[t].orders[o]]]]
    /\ UNCHANGED <<venueVars, session, wire, cache, plan, spent>>

\* fetch_balance and refresh_positions: Binance answers both with one snapshot.
AskPositions(t) ==
    /\ Asks(t, "positions") \/ Asks(t, "account")
    /\ answer[t].stage = "unasked"
    /\ \E rows \in PositionPages : \E positions \in Collected(rows) :
         answer' = [answer EXCEPT ![t] = [answer[t] EXCEPT !.stage = "read",
                                                           !.positions = positions]]
    /\ UNCHANGED <<venueVars, session, wire, cache, plan, spent>>

AskExecutions(t) ==
    /\ Asks(t, "executions") \/ Asks(t, "evidence")
    /\ answer[t].stage = "unasked"
    /\ LET specs == IF Op(t) = "evidence" THEN EvidenceSpecs ELSE ExecutionSpecs(Scope(t))
       IN  answer' = [answer EXCEPT ![t] = [@ EXCEPT !.stage = "read", !.trades = TradesOf(specs)]]
    /\ UNCHANGED <<venueVars, session, wire, cache, plan, spent>>

\* An order the venue does not know is an error.
AskOrder(t) ==
    /\ Asks(t, "order")
    /\ answer[t].stage = "unasked"
    /\ book[Scope(t)] # None
    /\ answer' = [answer EXCEPT ![t] = [@ EXCEPT !.stage = "read", !.orders = Listed({Scope(t)})]]
    /\ UNCHANGED <<venueVars, session, wire, cache, plan, spent>>

\* The write at the end of the call, and on to the next one of the plan.
Written(t) ==
    CASE Op(t) = "orders" -> ReplaceOpenOrders(cache, answer[t].orders)
      [] Op(t) \in {"account", "positions"} -> ReplacePositions(cache, answer[t].positions)
      [] Op(t) \in {"executions", "evidence"} -> MergeExecutions(cache, answer[t].trades)
      [] Op(t) = "order" ->
           ApplyPrivateEvents(cache, {OrderEvent(Scope(t), answer[t].orders[Scope(t)])})

Apply(t) ==
    /\ plan[t] # << >>
    /\ answer[t].stage = "read"
    /\ cache' = Written(t)
    /\ plan' = [plan EXCEPT ![t] = Tail(@)]
    /\ answer' = [answer EXCEPT ![t] = Unasked]
    /\ UNCHANGED <<venueVars, session, wire, spent>>

\* A request fails: nothing is written and the plan is given up.
Fail(t) ==
    /\ plan[t] # << >>
    /\ answer[t].stage \in {"unasked", "half"}
    /\ \/ spent.failures < MaxFailures /\ spent' = [spent EXCEPT !.failures = @ + 1]
       \/ Op(t) = "order" /\ book[Scope(t)] = None /\ UNCHANGED spent
    /\ plan' = [plan EXCEPT ![t] = << >>]
    /\ answer' = [answer EXCEPT ![t] = Unasked]
    /\ UNCHANGED <<venueVars, session, wire, cache>>

RestStep(t) ==
    \/ AskOpenOrders(t)
    \/ AskPositions(t)
    \/ AskExecutions(t)
    \/ AskOrder(t)
    \/ Apply(t)
    \/ Fail(t)

Next ==
    \/ \E o \in Orders : OpenOrder(o) \/ Trade(o)
    \/ ReadFrame
    \/ Disconnect
    \/ Reconnect
    \/ PeriodicReconcile
    \/ \E t \in Callers : Begin(t)
    \/ \E t \in Tasks : RestStep(t)

SafetySpec == Init /\ [][Next]_vars

\* Requests are answered or fail (reqwest has a timeout), the stream task is
\* polled, reconnects and its maintenance timer fires.
Fairness ==
    /\ \A t \in Tasks : WF_vars(RestStep(t))
    /\ WF_vars(ReadFrame)
    /\ WF_vars(Reconnect)
    /\ WF_vars(PeriodicReconcile)

Spec == SafetySpec /\ Fairness

----------------------------------------------------------------------------
(* Properties                                                              *)

\* An execution arrives up to four times (ORDER_TRADE_UPDATE, TRADE_LITE, a
\* refresh, a repair) and is cached once, whoever comes first.
ExecutionsRecordedOnce ==
    \A m, n \in DOMAIN cache.executions :
        cache.executions[m] = cache.executions[n] => m = n

\* The open orders fit into one answer of the venue.
FitOnePage(os) == venue = "Binance" \/ Cardinality(os) <= PageSize

\* The write at the end of a refresh of the open orders.
RefreshEnds(t) ==
    Asks(t, "orders") /\ answer[t].stage = "read" /\ answer'[t].stage = "unasked"

\* replace_open_orders removes what the venue no longer lists: an order that
\* was open when a refresh began and still is stays cached, if it lies in the
\* scope of the refresh and the orders in that scope fit one page.  On Binance
\* that takes two requests, of which either can fail.
RefreshKeepsOpenOrders ==
    [][ \A t \in Tasks : RefreshEnds(t) /\ FitOnePage(answer[t].open) =>
          \A o \in answer[t].open \cap OpenAtVenue : cache'.orders[o] \in OpenStatuses ]_vars

\* The same however many orders are open: fetch_open_orders returns the "Open
\* orders scoped by request", and the cache holds them afterwards.
RefreshKeepsEveryOpenOrder ==
    [][ \A t \in Tasks : RefreshEnds(t) =>
          \A o \in answer[t].open \cap OpenAtVenue : cache'.orders[o] \in OpenStatuses ]_vars

\* "`EngineState` is the single local projection": whatever frames were lost
\* in a reconnect, and whatever stale answer was written over a newer event,
\* the open orders it caches end up being those of the venue, if these fit one
\* page from some time on.
OpenOrdersConverge ==
    <>[]FitOnePage(OpenAtVenue) => <>[](CachedOpen = OpenAtVenue)

\* The open positions are those cached with a size.
PositionsCached ==
    \A i \in Instruments : {cache.positions[i]} \cap Legs = held[i]

\* So do the positions in one-way mode, though Bybit's stream never reports one
\* as closed.
PositionsConverge ==
    mode = "OneWay" /\ <>[](venue = "Bybit" => Cardinality(OpenPositions) <= PageSize)
        => <>[]PositionsCached

\* The same in either mode: the capabilities say `hedge_mode: true`, and
\* "Public data, private data, commands, and reconcile all merge through the
\* same state owner".
EveryPositionConverges ==
    <>[](venue = "Bybit" => Cardinality(OpenPositions) <= PageSize) => <>[]PositionsCached
=============================================================================
