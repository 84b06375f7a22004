----------------------------- MODULE MarketData -----------------------------
(***************************************************************************)
(* The public lane: a websocket session of the public stream, the sequence *)
(* tracker, the decoding with the adapter's catalog and the public half of *)
(* EngineState with a catalog of its own (crates/bat-markets/src/          *)
(* {runtime,client}.rs, the adapters and bat-markets-core/src/state.rs),   *)
(* together with the REST calls that write to the same state and the       *)
(* metadata refresh that replaces the two catalogs one after the other.    *)
(*                                                                         *)
(* Events are of three kinds.  "Price" stands for what is cached as the    *)
(* latest value and needs the instrument's specification (Ticker, BookTop, *)
(* Kline, MarkPrice); "Trade" for what is cached in a bounded list and     *)
(* needs it too; "Rate" for what is cached without it (FundingRate,        *)
(* OpenInterest).  Which streams the hub runs is the subject of PublicHub, *)
(* how the events reach watchers that of EventLanes.                         *)
(***************************************************************************)
EXTENDS Naturals, Sequences, FiniteSets, SequencesExt

CONSTANTS
    Venues,         \* the venues a client may be built for
    Instruments,
    Subscribed,     \* the instruments of the stream's subscription
    Traded,         \* the instrument whose trades are followed
    Refreshers,     \* tasks that call refresh_metadata
    TradeCapacity,  \* recent_trade_capacity
    MaxTrades,      \* bound: trades the venue makes
    MaxVersions,    \* bound: price updates it makes
    MaxListings,    \* bound: changes of its list of instruments
    MaxSessions,    \* bound: websocket sessions
    MaxFetches      \* bound: REST calls that write

ASSUME MarketAssumption ==
    /\ Venues \subseteq {"Binance", "Bybit", "Mexc"}
    /\ Subscribed \subseteq Instruments
    /\ Traded \in Subscribed
    /\ TradeCapacity \in Nat \ {0}
    /\ MaxTrades \in Nat /\ MaxVersions \in Nat /\ MaxListings \in Nat
    /\ MaxSessions \in Nat \ {0} /\ MaxFetches \in Nat

VARIABLES
    venue,
    listing,    \* the instruments the venue lists
    listings,   \* how often it changed the list
    made,       \* trades the venue made
    version,    \* price updates it made
    session,    \* the number of the stream's session, and how it stands
    wire,       \* frames sent on it and not read yet
    watermark,  \* the sequence tracker's entry for the trades, 0 for none
    adapter,    \* the catalog the adapter decodes with
    state,      \* EngineState: catalog, trades, prices, rates
    refresh,    \* per refresher, where its refresh_metadata stands
    fetch,      \* the REST call under way
    fetches     \* REST calls that wrote or will

venueVars == <<venue, listing, listings, made, version>>
streamVars == <<session, wire, watermark>>
vars == <<venueVars, streamVars, adapter, state, refresh, fetch, fetches>>

Event(kind, i, v) == [kind |-> kind, instrument |-> i, value |-> v]
Frames == [type : {"trade", "quote", "quotes"}, value : 1 .. MaxTrades + MaxVersions]

TypeOK ==
    /\ venue \in Venues
    /\ listing \subseteq Instruments
    /\ made \in 0 .. MaxTrades
    /\ version \in 0 .. MaxVersions
    /\ session \in [number : 1 .. MaxSessions, status : {"up", "down", "ended"}]
    /\ wire \in Seq(Frames)
    /\ watermark \in 0 .. MaxTrades
    /\ adapter \subseteq Instruments
    /\ state \in [catalog : SUBSET Instruments,
                  trades : Seq([id : 1 .. MaxTrades, session : 1 .. MaxSessions]),
                  prices : [Instruments -> 0 .. MaxVersions],
                  rates : [Instruments -> 0 .. MaxVersions]]
    /\ Len(state.trades) <= TradeCapacity
    /\ refresh \in [Refreshers -> [stage : {"idle", "read", "half"}, specs : SUBSET Instruments]]
    /\ fetch \in [kind : {"none", "Price", "Rate"}, value : 0 .. MaxVersions]

\* bootstrap_live has read the metadata once and the stream has connected.
Init ==
    /\ venue \in Venues
    /\ listing = Instruments
    /\ listings = 0
    /\ made = 0
    /\ version = 0
    /\ session = [number |-> 1, status |-> "up"]
    /\ wire = << >>
    /\ watermark = 0
    /\ adapter = Instruments
    /\ state = [catalog |-> Instruments, trades |-> << >>,
                prices |-> [i \in Instruments |-> 0], rates |-> [i \in Instruments |-> 0]]
    /\ refresh = [r \in Refreshers |-> [stage |-> "idle", specs |-> {}]]
    /\ fetch = [kind |-> "none", value |-> 0]
    /\ fetches = 0

----------------------------------------------------------------------------
(* The venue.                                                              *)

Send(frame) == wire' = IF session.status = "up" THEN Append(wire, frame) ELSE wire

Trade ==
    /\ made < MaxTrades
    /\ made' = made + 1
    /\ Send([type |-> "trade", value |-> made'])
    /\ UNCHANGED <<venue, listing, listings, version, session, watermark, adapter, state, refresh,
                   fetch, fetches>>

\* quote: one instrument (Binance markPrice, Bybit tickers); quotes: every
\* subscribed instrument in one frame (MEXC tickers).
Quote ==
    /\ version < MaxVersions
    /\ version' = version + 1
    /\ Send([type |-> IF venue = "Mexc" THEN "quotes" ELSE "quote", value |-> version'])
    /\ UNCHANGED <<venue, listing, listings, made, session, watermark, adapter, state, refresh,
                   fetch, fetches>>

\* An instrument is delisted, or listed again.
Relist ==
    /\ listings < MaxListings
    /\ listings' = listings + 1
    /\ \E i \in Instruments :
         listing' = IF i \in listing THEN listing \ {i} ELSE listing \cup {i}
    /\ UNCHANGED <<venue, made, version, streamVars, adapter, state, refresh, fetch, fetches>>

\* A frame never arrives.
Lose ==
    /\ wire # << >>
    /\ wire' = Tail(wire)
    /\ UNCHANGED <<venueVars, session, watermark, adapter, state, refresh, fetch, fetches>>

----------------------------------------------------------------------------
(* EngineState and SharedState.                                            *)

\* fallible_public_event_instrument_id, and the look-up in EngineState::spec.
Known(event) == event.kind = "Rate" \/ event.instrument \in state.catalog

\* apply_fast_trade (and apply_fast_liquidation, which compares nothing).
PushTrade(trades, trade) ==
    LET all == Append(trades, trade)
    IN  IF trades # << >> /\ Last(trades).id = trade.id THEN trades
        ELSE IF Len(all) > TradeCapacity THEN Tail(all) ELSE all

Accepts(events) == \A e \in events : Known(e)

\* What the events say of one slot: a frame has at most one for each, so that
\* the order in which apply_public_event takes them makes no difference.
Slot(events, kind, i) == {e.value : e \in {x \in events : x.kind = kind /\ x.instrument = i}}

Overwrite(values, events, kind) ==
    [i \in Instruments |-> IF Slot(events, kind, i) = {} THEN values[i]
                           ELSE CHOOSE v \in Slot(events, kind, i) : TRUE]

PushTrades(trades, ids) ==
    IF ids = {} THEN trades
    ELSE PushTrade(trades, [id |-> CHOOSE v \in ids : TRUE, session |-> session.number])

\* One critical section: the instruments are looked up first, so that a batch
\* is applied as a whole or not at all.
ApplyPublicEvents(s, events) ==
    IF ~Accepts(events) THEN s
    ELSE [s EXCEPT !.prices = Overwrite(@, events, "Price"),
                   !.rates = Overwrite(@, events, "Rate"),
                   !.trades = PushTrades(@, Slot(events, "Trade", Traded))]

----------------------------------------------------------------------------
(* The stream's session.                                                   *)

FrameInstruments(frame) == IF frame.type = "quotes" THEN Subscribed ELSE {Traded}

\* aggTrade, markPriceUpdate.
ParseBinancePublic(frame) ==
    IF frame.type = "trade" THEN {Event("Trade", Traded, frame.value)}
    ELSE {Event("Price", Traded, frame.value), Event("Rate", Traded, frame.value)}

\* publicTrade, tickers: a delta is merged into the last snapshot first.
ParseBybitPublic(frame) ==
    IF frame.type = "trade" THEN {Event("Trade", Traded, frame.value)}
    ELSE {Event("Price", Traded, frame.value), Event("Rate", Traded, frame.value)}

\* push.deal, push.tickers.
ParseMexcPublic(frame) ==
    IF frame.type = "trade" THEN {Event("Trade", Traded, frame.value)}
    ELSE {Event("Price", i, frame.value) : i \in Subscribed}

\* Events of topics nobody asked for are dropped by
\* retain_public_events_for_subscription; here all are asked for.
ParsePublic(frame) ==
    CASE venue = "Binance" -> ParseBinancePublic(frame)
      [] venue = "Bybit" -> ParseBybitPublic(frame)
      [] venue = "Mexc" -> ParseMexcPublic(frame)

\* Fault: only a step back is a gap.
InSequenceLoosely(frame) ==
    venue = "Binance" /\ frame.type = "trade" => frame.value >= watermark

\* <venue>_public_sequence_observations: Binance numbers its trades; Bybit's
\* and MEXC's are not observed.
Observed(frame) == venue = "Binance" /\ frame.type = "trade"

\* SequenceTracker::observe on a strict topic that is never reset.
InSequence(frame) ==
    Observed(frame) => watermark = 0 \/ frame.value \in {watermark, watermark + 1}

Idle(task) == task \notin Refreshers \/ refresh[task].stage = "idle"

Reads(frame) ==
    /\ session.status = "up"
    /\ Idle("stream")
    /\ wire # << >>
    /\ frame = Head(wire)

\* The frame is in sequence and decodes: it is applied, or refused by a catalog
\* that lags behind the adapter's, which ends the stream.
ReadFrame ==
    LET frame == Head(wire)
        events == ParsePublic(frame)
    IN  /\ Reads(frame)
        /\ InSequence(frame)
        /\ FrameInstruments(frame) \subseteq adapter
        /\ watermark' = IF Observed(frame) THEN frame.value ELSE watermark
        /\ state' = ApplyPublicEvents(state, events)
        /\ session' = [session EXCEPT !.status = IF Accepts(events) THEN @ ELSE "ended"]
        /\ wire' = IF Accepts(events) THEN Tail(wire) ELSE << >>
        /\ UNCHANGED <<venueVars, adapter, refresh, fetch, fetches>>

\* It cannot be decoded: the stream ends for good.
RefuseFrame ==
    LET frame == Head(wire)
    IN  /\ Reads(frame)
        /\ InSequence(frame)
        /\ ~(FrameInstruments(frame) \subseteq adapter)
        /\ session' = [session EXCEPT !.status = "ended"]
        /\ wire' = << >>
        /\ UNCHANGED <<venueVars, watermark, adapter, state, refresh, fetch, fetches>>

\* A gap, or the connection breaks: the session is given up.
Break ==
    /\ session.status = "up"
    /\ Idle("stream")
    /\ (wire # << >> /\ ~InSequence(Head(wire))) \/ session.number < MaxSessions
    /\ session' = [session EXCEPT !.status = "down"]
    /\ wire' = << >>
    /\ UNCHANGED <<venueVars, watermark, adapter, state, refresh, fetch, fetches>>

\* A new session has a tracker of its own.
Reconnect ==
    /\ session.status = "down"
    /\ session.number < MaxSessions
    /\ session' = [number |-> session.number + 1, status |-> "up"]
    /\ watermark' = 0
    /\ UNCHANGED <<venueVars, wire, adapter, state, refresh, fetch, fetches>>

----------------------------------------------------------------------------
(* REST calls that write: require_spec, one request that                   *)
(* public_get_with_retry repeats, one event.                               *)

\* The request is answered with what the venue says now.
Ask(kind) ==
    /\ fetch.kind = "none"
    /\ fetches < MaxFetches
    /\ Traded \in adapter
    /\ fetch' = [kind |-> kind, value |-> version]
    /\ fetches' = fetches + 1
    /\ UNCHANGED <<venueVars, streamVars, adapter, state, refresh>>

FetchMarkPrice == Ask("Price")
FetchFundingRate == Ask("Rate")
RefreshOpenInterest == Ask("Rate")

\* apply_public_event; an event the catalog refuses is the caller's error.
ApplyFetch ==
    LET events == {Event(fetch.kind, Traded, fetch.value)}
    IN  /\ fetch.kind # "none"
        /\ state' = ApplyPublicEvents(state, events)
        /\ fetch' = [fetch EXCEPT !.kind = "none"]
        /\ UNCHANGED <<venueVars, streamVars, adapter, refresh, fetches>>

----------------------------------------------------------------------------
(* refresh_metadata: the venue is asked, the adapter's catalog is          *)
(* replaced, then the state's.                                             *)

ReadMetadata(r) ==
    /\ refresh[r].stage = "idle"
    /\ r = "stream" => session.status = "up"
    /\ refresh' = [refresh EXCEPT ![r] = [stage |-> "read", specs |-> listing]]
    /\ UNCHANGED <<venueVars, streamVars, adapter, state, fetch, fetches>>

ReplaceAdapterCatalog(r) ==
    /\ refresh[r].stage = "read"
    /\ adapter' = refresh[r].specs
    /\ refresh' = [refresh EXCEPT ![r].stage = "half"]
    /\ UNCHANGED <<venueVars, streamVars, state, fetch, fetches>>

\* What is cached for instruments that are not listed any more goes with them.
PruneOrphanMarketState(s) ==
    [s EXCEPT !.trades = IF Traded \in s.catalog THEN @ ELSE << >>,
              !.prices = [i \in Instruments |-> IF i \in s.catalog THEN @[i] ELSE 0],
              !.rates = [i \in Instruments |-> IF i \in s.catalog THEN @[i] ELSE 0]]

\* Fault: instruments are only ever added.
ReplaceInstrumentsMerges(s, specs) == [s EXCEPT !.catalog = @ \cup specs]

\* Fault: what is cached for other instruments is kept.
ReplaceInstrumentsKeeps(s, specs) == [s EXCEPT !.catalog = specs]

ReplaceInstruments(s, specs) == PruneOrphanMarketState([s EXCEPT !.catalog = specs])

ReplaceStateCatalog(r) ==
    /\ refresh[r].stage = "half"
    /\ state' = ReplaceInstruments(state, refresh[r].specs)
    /\ refresh' = [refresh EXCEPT ![r] = [stage |-> "idle", specs |-> {}]]
    /\ UNCHANGED <<venueVars, streamVars, adapter, fetch, fetches>>

RefreshStep(r) == ReadMetadata(r) \/ ReplaceAdapterCatalog(r) \/ ReplaceStateCatalog(r)

----------------------------------------------------------------------------

Next ==
    \/ Trade \/ Quote \/ Relist \/ Lose
    \/ ReadFrame \/ RefuseFrame \/ Break \/ Reconnect
    \/ FetchMarkPrice \/ FetchFundingRate \/ RefreshOpenInterest \/ ApplyFetch
    \/ \E r \in Refreshers : RefreshStep(r)

SafetySpec == Init /\ [][Next]_vars

\* The tasks are polled, REST calls end, and the metadata is refreshed again
\* and again (periodic_metadata_refresh_ms of the streams that run, or the
\* application).
Fairness ==
    /\ \A r \in Refreshers : WF_vars(RefreshStep(r))
    /\ WF_vars(ApplyFetch)

Spec == SafetySpec /\ Fairness

----------------------------------------------------------------------------
(* Properties                                                              *)

\* Values that need a specification are cached for instruments of the catalog
\* only, though frames and REST answers decoded with the adapter's catalog
\* reach EngineState while it changes.
NoOrphans ==
    /\ state.trades # << >> => Traded \in state.catalog
    /\ \A i \in Instruments : state.prices[i] # 0 => i \in state.catalog

\* "converts detected gaps into explicit divergence handling plus reconnect
\* flow": two neighbours in the cached trades that the same session delivered
\* have consecutive numbers, whatever frames were lost.  Binance only: trades
\* of Bybit and MEXC carry no number that the runtime observes.
NoSilentGap ==
    venue = "Binance" => \A n \in 1 .. Len(state.trades) - 1 :
        LET a == state.trades[n]
            b == state.trades[n + 1]
        IN  a.session = b.session => b.id = a.id + 1

\* Two refreshes that overtake each other can leave the adapter and the state
\* with different catalogs; once the venue stops changing its list, the next
\* refreshes make both follow it.
CatalogsConverge == <>[](adapter = listing /\ state.catalog = listing)
=============================================================================
