--------------------------- MODULE MarketDataProofs ---------------------------
(***************************************************************************)
(* Proofs about MarketData, for any instruments and subscription, any      *)
(* number of tasks that refresh the metadata, and any capacity of the list *)
(* of trades: nothing is cached for an instrument outside the catalog, and *)
(* a gap within a session never goes unnoticed.                            *)
(***************************************************************************)
EXTENDS MarketData, SequenceTheorems, TLAPS

CachedTrades == [id : 1 .. MaxTrades, session : 1 .. MaxSessions]

----------------------------------------------------------------------------
(* The invariant.                                                          *)

\* A frame carries what the venue made so far.
FrameInv(frame) ==
    IF frame.type = "trade" THEN frame.value \in 1 .. MaxTrades
    ELSE frame.value \in 1 .. MaxVersions

\* The sequence tracker and the list of trades: while a session is up its
\* watermark is the trade it cached last, and later sessions have later numbers.
GapInv ==
    /\ NoSilentGap
    /\ \A n \in 1 .. Len(state.trades) : state.trades[n].session <= session.number
    /\ venue = "Binance" /\ session.status = "up" /\ state.trades # << >>
         /\ Last(state.trades).session = session.number
       => watermark = Last(state.trades).id

MarketInv ==
    /\ TypeOK
    /\ \A n \in DOMAIN wire : FrameInv(wire[n])
    /\ NoOrphans
    /\ GapInv

----------------------------------------------------------------------------
(* Facts about the operators of the model.                                 *)

\* A decoded frame has one trade of the followed instrument when it is a trade
\* frame and none otherwise, and latest values of instruments that exist.
LEMMA DecodedEvents ==
  ASSUME venue \in Venues, NEW frame \in Frames, FrameInv(frame)
  PROVE  /\ \A e \in ParsePublic(frame) :
              e.kind \in {"Price", "Rate"} => e.value \in 0 .. MaxVersions
         /\ frame.type = "trade" =>
              /\ Event("Trade", Traded, frame.value) \in ParsePublic(frame)
              /\ Slot(ParsePublic(frame), "Trade", Traded) = {frame.value}
         /\ frame.type # "trade" => Slot(ParsePublic(frame), "Trade", Traded) = {}
<1>1. venue \in {"Binance", "Bybit", "Mexc"}
  BY MarketAssumption
<1>2. frame.type = "trade" => ParsePublic(frame) = {Event("Trade", Traded, frame.value)}
  BY <1>1 DEF ParsePublic, ParseBinancePublic, ParseBybitPublic, ParseMexcPublic
<1>3. frame.type # "trade" =>
        \A e \in ParsePublic(frame) : e.kind \in {"Price", "Rate"} /\ e.value = frame.value
  BY <1>1 DEF ParsePublic, ParseBinancePublic, ParseBybitPublic, ParseMexcPublic, Event
<1>4. CASE frame.type = "trade"
  <2> DEFINE trade == Event("Trade", Traded, frame.value)
  <2>0. trade.kind = "Trade" /\ trade.instrument = Traded /\ trade.value = frame.value
    BY DEF Event
  <2> HIDE DEF trade
  <2>1. Slot(ParsePublic(frame), "Trade", Traded) = {frame.value}
    <3>1. {x \in ParsePublic(frame) : x.kind = "Trade" /\ x.instrument = Traded} = {trade}
      BY <1>2, <1>4, <2>0 DEF trade
    <3> QED
      BY <2>0, <3>1 DEF Slot
  <2>2. \A e \in ParsePublic(frame) : e.kind = "Trade"
    BY <1>2, <1>4 DEF Event
  <2> QED
    BY <1>2, <1>4, <2>1, <2>2
<1>5. CASE frame.type # "trade"
  <2>1. Slot(ParsePublic(frame), "Trade", Traded) = {}
    BY <1>3, <1>5 DEF Slot
  <2>2. frame.value \in 0 .. MaxVersions
    BY <1>5, MarketAssumption DEF FrameInv
  <2> QED
    BY <1>3, <1>5, <2>1, <2>2
<1> QED
  BY <1>4, <1>5

\* A latest value is the one before or that of an event for the instrument.
LEMMA OverwriteFacts ==
  ASSUME NEW values \in [Instruments -> 0 .. MaxVersions], NEW events, NEW kind,
         \A e \in events : e.kind = kind => e.value \in 0 .. MaxVersions
  PROVE  /\ Overwrite(values, events, kind) \in [Instruments -> 0 .. MaxVersions]
         /\ \A i \in Instruments :
              \/ Overwrite(values, events, kind)[i] = values[i]
              \/ \E e \in events : e.kind = kind /\ e.instrument = i
<1>1. ASSUME NEW i \in Instruments, Slot(events, kind, i) # {}
      PROVE  /\ (CHOOSE v \in Slot(events, kind, i) : TRUE) \in 0 .. MaxVersions
             /\ \E e \in events : e.kind = kind /\ e.instrument = i
  <2>1. (CHOOSE v \in Slot(events, kind, i) : TRUE) \in Slot(events, kind, i)
    BY <1>1
  <2>2. \A v \in Slot(events, kind, i) :
           \E e \in events : e.kind = kind /\ e.instrument = i /\ v = e.value
    BY DEF Slot
  <2> QED
    BY <2>1, <2>2
<1> QED
  BY <1>1 DEF Overwrite

\* A trade with the number of the last one changes nothing; another one becomes
\* the last, and the neighbours are those before, or the last one and the new.
LEMMA PushTradeFacts ==
  ASSUME NEW trades \in Seq(CachedTrades), Len(trades) <= TradeCapacity,
         NEW trade \in CachedTrades
  PROVE  LET all == PushTrade(trades, trade)
         IN  /\ all \in Seq(CachedTrades) /\ Len(all) <= TradeCapacity /\ all # << >>
             /\ trades # << >> /\ Last(trades).id = trade.id => all = trades
             /\ ~(trades # << >> /\ Last(trades).id = trade.id) => all[Len(all)] = trade
             /\ \A n \in 1 .. Len(all) :
                  all[n] = trade \/ \E m \in 1 .. Len(trades) : all[n] = trades[m]
             /\ \A n \in 1 .. Len(all) - 1 :
                  \/ \E m \in 1 .. Len(trades) - 1 : all[n] = trades[m] /\ all[n + 1] = trades[m + 1]
                  \/ /\ trades # << >> /\ Last(trades).id # trade.id
                     /\ all[n] = trades[Len(trades)] /\ all[n + 1] = trade
<1> DEFINE all == PushTrade(trades, trade)
           longer == Append(trades, trade)
<1>1. /\ longer \in Seq(CachedTrades) /\ Len(longer) = Len(trades) + 1 /\ Len(trades) \in Nat
      /\ longer[Len(trades) + 1] = trade
      /\ \A n \in 1 .. Len(trades) : longer[n] = trades[n]
  OBVIOUS
<1>2. TradeCapacity \in Nat \ {0}
  BY MarketAssumption
<1>3. CASE trades # << >> /\ Last(trades).id = trade.id
  <2>1. all = trades
    BY <1>3 DEF PushTrade
  <2>2. \A n \in 1 .. Len(all) - 1 : n \in 1 .. Len(trades) - 1
    BY <2>1
  <2> HIDE DEF all
  <2> QED
    BY <1>3, <2>1, <2>2 DEF all
<1>4. CASE ~(trades # << >> /\ Last(trades).id = trade.id) /\ ~(Len(longer) > TradeCapacity)
  <2>1. all = longer
    BY <1>4 DEF PushTrade
  <2>2. trades # << >> => Last(trades).id # trade.id
    BY <1>4
  <2>3. ASSUME NEW n \in 1 .. Len(longer) - 1
        PROVE  \/ \E m \in 1 .. Len(trades) - 1 : longer[n] = trades[m] /\ longer[n + 1] = trades[m + 1]
               \/ /\ trades # << >> /\ Last(trades).id # trade.id
                  /\ longer[n] = trades[Len(trades)] /\ longer[n + 1] = trade
    <3>1. CASE n = Len(trades)
      BY <1>1, <2>2, <2>3, <3>1
    <3>2. CASE n # Len(trades)
      <4>1. n \in 1 .. Len(trades) - 1 /\ n + 1 \in 1 .. Len(trades) /\ n \in 1 .. Len(trades)
        BY <1>1, <3>2
      <4> QED
        BY <1>1, <4>1
    <3> QED
      BY <3>1, <3>2
  <2>4. \A n \in 1 .. Len(longer) : longer[n] = trade \/ \E m \in 1 .. Len(trades) : longer[n] = trades[m]
    BY <1>1
  <2>5. Len(longer) <= TradeCapacity
    BY <1>1, <1>2, <1>4
  <2>6. longer # << >>
    BY <1>1
  <2> HIDE DEF all, longer
  <2> QED
    BY <1>1, <1>4, <2>1, <2>3, <2>4, <2>5, <2>6 DEF all
<1>5. CASE ~(trades # << >> /\ Last(trades).id = trade.id) /\ Len(longer) > TradeCapacity
  <2>1. all = Tail(longer)
    BY <1>5 DEF PushTrade
  <2>2. trades # << >> /\ Last(trades).id # trade.id
    BY <1>1, <1>2, <1>5
  <2>3. /\ Tail(longer) \in Seq(CachedTrades) /\ Len(Tail(longer)) = Len(trades)
        /\ \A n \in 1 .. Len(trades) : Tail(longer)[n] = longer[n + 1]
    <3> HIDE DEF longer
    <3>1. longer # << >>
      BY <1>1
    <3>2. /\ Tail(longer) \in Seq(CachedTrades) /\ Len(Tail(longer)) = Len(longer) - 1
          /\ \A n \in 1 .. Len(longer) - 1 : Tail(longer)[n] = longer[n + 1]
      BY <1>1, <3>1
    <3> QED
      BY <1>1, <3>2
  <2>4. ASSUME NEW n \in 1 .. Len(trades) - 1
        PROVE  \/ \E m \in 1 .. Len(trades) - 1 : Tail(longer)[n] = trades[m] /\ Tail(longer)[n + 1] = trades[m + 1]
               \/ /\ Tail(longer)[n] = trades[Len(trades)] /\ Tail(longer)[n + 1] = trade
    <3> HIDE DEF longer
    <3>1. n \in 1 .. Len(trades) /\ n + 1 \in 1 .. Len(trades)
      BY <1>1
    <3>2. Tail(longer)[n] = trades[n + 1] /\ Tail(longer)[n + 1] = longer[n + 2]
      BY <1>1, <2>3, <3>1
    <3>3. CASE n + 1 = Len(trades)
      <4>1. longer[n + 2] = trade
        BY <1>1, <3>3
      <4> QED
        BY <3>2, <3>3, <4>1
    <3>4. CASE n + 1 # Len(trades)
      <4>1. n + 1 \in 1 .. Len(trades) - 1 /\ n + 2 \in 1 .. Len(trades)
        BY <1>1, <3>1, <3>4
      <4>2. longer[n + 2] = trades[n + 2]
        BY <1>1, <4>1
      <4>3. (n + 1) + 1 = n + 2
        BY <4>1
      <4> QED
        BY <3>2, <4>1, <4>2, <4>3
    <3> QED
      BY <3>3, <3>4
  <2>5. \A n \in 1 .. Len(trades) :
           Tail(longer)[n] = trade \/ \E m \in 1 .. Len(trades) : Tail(longer)[n] = trades[m]
    <3> HIDE DEF longer
    <3> TAKE n \in 1 .. Len(trades)
    <3>1. Tail(longer)[n] = longer[n + 1] /\ (n + 1 = Len(trades) + 1 \/ n + 1 \in 1 .. Len(trades))
      BY <1>1, <2>3
    <3> QED
      BY <1>1, <3>1
  <2>6. Tail(longer)[Len(trades)] = trade /\ Len(trades) > 0
    <3> HIDE DEF longer
    <3>1. Len(trades) \in 1 .. Len(trades)
      BY <1>1, <2>2
    <3> QED
      BY <1>1, <2>3, <3>1
  <2>7. Tail(longer) # << >>
    BY <2>3, <2>6
  <2> DEFINE shorter == Tail(longer)
  <2>8. all = shorter /\ Len(shorter) = Len(trades)
    BY <2>1, <2>3
  <2>9. \A n \in 1 .. Len(shorter) :
           shorter[n] = trade \/ \E m \in 1 .. Len(trades) : shorter[n] = trades[m]
    BY <2>5, <2>8
  <2>10. \A n \in 1 .. Len(shorter) - 1 :
           \/ \E m \in 1 .. Len(trades) - 1 : shorter[n] = trades[m] /\ shorter[n + 1] = trades[m + 1]
           \/ /\ trades # << >> /\ Last(trades).id # trade.id
              /\ shorter[n] = trades[Len(trades)] /\ shorter[n + 1] = trade
    BY <2>2, <2>4, <2>8
  <2>11. /\ shorter \in Seq(CachedTrades) /\ Len(shorter) <= TradeCapacity /\ shorter # << >>
         /\ shorter[Len(shorter)] = trade
    BY <2>3, <2>6, <2>7, <2>8
  <2> HIDE DEF longer, shorter
  <2> QED
    BY ONLY <2>2, <2>8, <2>9, <2>10, <2>11, <1>5
<1> QED
  BY <1>3, <1>4, <1>5

EngineStates == [catalog : SUBSET Instruments, trades : Seq(CachedTrades),
                 prices : [Instruments -> 0 .. MaxVersions],
                 rates : [Instruments -> 0 .. MaxVersions]]

\* apply_public_events leaves the catalog alone and caches a price only for an
\* instrument of it.
LEMMA AppliedEvents ==
  ASSUME TypeOK, NoOrphans, NEW events,
         \A e \in events : e.kind \in {"Price", "Rate"} => e.value \in 0 .. MaxVersions,
         NEW trades \in Seq(CachedTrades),
         trades = IF Accepts(events) THEN PushTrades(state.trades, Slot(events, "Trade", Traded))
                  ELSE state.trades
  PROVE  LET s == ApplyPublicEvents(state, events)
         IN  /\ s \in EngineStates
             /\ s.catalog = state.catalog
             /\ s.trades = trades
             /\ \A i \in Instruments : s.prices[i] # 0 => i \in s.catalog
<1>1. state \in EngineStates
  BY DEF TypeOK, EngineStates, CachedTrades
<1>2. CASE ~Accepts(events)
  BY <1>1, <1>2 DEF ApplyPublicEvents, NoOrphans
<1>3. CASE Accepts(events)
  <2> DEFINE prices == Overwrite(state.prices, events, "Price")
             rates == Overwrite(state.rates, events, "Rate")
  <2>1. state.prices \in [Instruments -> 0 .. MaxVersions] /\ state.rates \in [Instruments -> 0 .. MaxVersions]
    BY <1>1 DEF EngineStates
  <2>2. /\ prices \in [Instruments -> 0 .. MaxVersions]
        /\ \A i \in Instruments : \/ prices[i] = state.prices[i]
                                  \/ \E e \in events : e.kind = "Price" /\ e.instrument = i
    BY <2>1, OverwriteFacts
  <2>3. rates \in [Instruments -> 0 .. MaxVersions]
    BY <2>1, OverwriteFacts
  <2>4. \A i \in Instruments : prices[i] # 0 => i \in state.catalog
    <3> HIDE DEF prices
    <3>1. \A e \in events : e.kind = "Price" => e.instrument \in state.catalog
      BY <1>3 DEF Accepts, Known
    <3> QED
      BY <2>2, <3>1 DEF NoOrphans
  <2>5. ApplyPublicEvents(state, events)
          = [state EXCEPT !.prices = prices, !.rates = rates, !.trades = trades]
    BY <1>3 DEF ApplyPublicEvents
  <2> HIDE DEF prices, rates
  <2> QED
    BY <1>1, <2>2, <2>3, <2>4, <2>5 DEF EngineStates
<1> QED
  BY <1>2, <1>3

\* Reading and losing frames keeps those that are left; sending adds one.
LEMMA WireKept ==
  ASSUME wire \in Seq(Frames), \A n \in DOMAIN wire : FrameInv(wire[n]), wire # << >>
  PROVE  /\ Tail(wire) \in Seq(Frames)
         /\ \A n \in DOMAIN Tail(wire) : FrameInv(Tail(wire)[n])
         /\ Head(wire) \in Frames /\ FrameInv(Head(wire))
<1>1. /\ Tail(wire) \in Seq(Frames) /\ Len(Tail(wire)) = Len(wire) - 1 /\ Len(wire) \in Nat \ {0}
      /\ \A n \in 1 .. Len(wire) - 1 : Tail(wire)[n] = wire[n + 1]
      /\ DOMAIN wire = 1 .. Len(wire) /\ DOMAIN Tail(wire) = 1 .. Len(Tail(wire))
      /\ Head(wire) = wire[1]
  OBVIOUS
<1>2. \A n \in 1 .. Len(wire) - 1 : n + 1 \in 1 .. Len(wire)
  BY <1>1
<1>3. 1 \in DOMAIN wire /\ wire[1] \in Frames
  BY <1>1
<1> QED
  BY <1>1, <1>2, <1>3

LEMMA WireSent ==
  ASSUME wire \in Seq(Frames), \A n \in DOMAIN wire : FrameInv(wire[n]),
         NEW frame \in Frames, FrameInv(frame), Send(frame)
  PROVE  wire' \in Seq(Frames) /\ \A n \in DOMAIN wire' : FrameInv(wire'[n])
<1>1. CASE wire' = wire
  BY <1>1
<1>2. CASE wire' = Append(wire, frame)
  <2>1. wire' \in Seq(Frames) /\ DOMAIN wire' = 1 .. Len(wire) + 1 /\ Len(wire) \in Nat
    BY <1>2
  <2>2. DOMAIN wire = 1 .. Len(wire)
    OBVIOUS
  <2>3. \A n \in 1 .. Len(wire) + 1 : wire'[n] = frame \/ (n \in 1 .. Len(wire) /\ wire'[n] = wire[n])
    BY <1>2
  <2> QED
    BY <2>1, <2>2, <2>3
<1> QED
  BY <1>1, <1>2 DEF Send

----------------------------------------------------------------------------
(* Every step keeps the invariant.                                         *)

LEMMA InitEstablishes == Init => MarketInv
<1> SUFFICES ASSUME Init PROVE MarketInv
  OBVIOUS
<1>1. state.trades = << >> /\ wire = << >> /\ Len(state.trades) = 0
  BY DEF Init
<1>2. TypeOK
  BY <1>1, MarketAssumption DEF Init, TypeOK
<1>3. NoOrphans
  BY DEF Init, NoOrphans
<1>4. GapInv
  BY <1>1 DEF GapInv, NoSilentGap
<1> QED
  BY <1>1, <1>2, <1>3, <1>4 DEF MarketInv

\* What the cached state and the sequence tracker are about is left alone.
LEMMA GapInvKept ==
  ASSUME GapInv, venue' = venue, state'.trades = state.trades, watermark' = watermark,
         session' = session \/ (session'.number = session.number /\ session'.status # "up")
  PROVE  GapInv'
BY DEF GapInv, NoSilentGap

LEMMA NoOrphansKept ==
  ASSUME NoOrphans, state' = state
  PROVE  NoOrphans'
BY DEF NoOrphans

\* The venue's own steps.
LEMMA VenueKeepsInv ==
  ASSUME MarketInv, Trade \/ Quote \/ Relist \/ Lose
  PROVE  MarketInv'
<1> USE DEF MarketInv
<1>0. /\ wire \in Seq(Frames) /\ made \in 0 .. MaxTrades /\ version \in 0 .. MaxVersions
      /\ MaxTrades \in Nat /\ MaxVersions \in Nat
  BY MarketAssumption DEF TypeOK
<1>1. /\ venue' = venue /\ session' = session /\ watermark' = watermark /\ adapter' = adapter
      /\ state' = state /\ refresh' = refresh /\ fetch' = fetch
  BY DEF Trade, Quote, Relist, Lose, streamVars, venueVars
<1>2. NoOrphans' /\ GapInv'
  BY <1>1, GapInvKept, NoOrphansKept
<1>3. /\ made' \in 0 .. MaxTrades /\ version' \in 0 .. MaxVersions /\ listing' \subseteq Instruments
      /\ wire' \in Seq(Frames) /\ \A n \in DOMAIN wire' : FrameInv(wire'[n])
  <2>1. CASE Trade
    <3> DEFINE frame == [type |-> "trade", value |-> made']
    <3>1. made' \in 1 .. MaxTrades /\ Send(frame) /\ version' = version /\ listing' = listing
      BY <2>1, <1>0 DEF Trade
    <3>2. frame \in Frames /\ FrameInv(frame)
      BY <1>0, <3>1 DEF Frames, FrameInv
    <3>3. wire' \in Seq(Frames) /\ \A n \in DOMAIN wire' : FrameInv(wire'[n])
      BY <1>0, <3>1, <3>2, WireSent
    <3> QED
      BY <1>0, <3>1, <3>3 DEF TypeOK
  <2>2. CASE Quote
    <3> DEFINE frame == [type |-> IF venue = "Mexc" THEN "quotes" ELSE "quote", value |-> version']
    <3>1. version' \in 1 .. MaxVersions /\ Send(frame) /\ made' = made /\ listing' = listing
      BY <2>2, <1>0 DEF Quote
    <3>2. frame \in Frames /\ FrameInv(frame)
      BY <1>0, <3>1 DEF Frames, FrameInv
    <3>3. wire' \in Seq(Frames) /\ \A n \in DOMAIN wire' : FrameInv(wire'[n])
      BY <1>0, <3>1, <3>2, WireSent
    <3> QED
      BY <1>0, <3>1, <3>3 DEF TypeOK
  <2>3. CASE Relist
    <3>1. wire' = wire /\ made' = made /\ version' = version
      BY <2>3 DEF Relist, streamVars
    <3>2. listing' \subseteq Instruments
      BY <2>3 DEF Relist, TypeOK
    <3> QED
      BY <1>0, <3>1, <3>2
  <2>4. CASE Lose
    <3>1. wire # << >> /\ wire' = Tail(wire) /\ made' = made /\ version' = version /\ listing' = listing
      BY <2>4 DEF Lose, venueVars
    <3>2. wire' \in Seq(Frames) /\ \A n \in DOMAIN wire' : FrameInv(wire'[n])
      BY <1>0, <3>1, WireKept
    <3> QED
      BY <1>0, <3>1, <3>2 DEF TypeOK
  <2> QED
    BY <2>1, <2>2, <2>3, <2>4
<1>4. TypeOK'
  BY <1>1, <1>3 DEF TypeOK
<1> QED
  BY <1>2, <1>3, <1>4

\* The session ends or is replaced.
LEMMA SessionKeepsInv ==
  ASSUME MarketInv, RefuseFrame \/ Break \/ Reconnect
  PROVE  MarketInv'
<1> USE DEF MarketInv
<1>1. /\ venue' = venue /\ listing' = listing /\ made' = made /\ version' = version
      /\ adapter' = adapter /\ state' = state /\ refresh' = refresh /\ fetch' = fetch
  BY DEF RefuseFrame, Break, Reconnect, venueVars
<1>2. wire' = << >> \/ wire' = wire
  BY DEF RefuseFrame, Break, Reconnect
<1>3. /\ session' \in [number : 1 .. MaxSessions, status : {"up", "down", "ended"}]
      /\ watermark' \in 0 .. MaxTrades
  <2>1. session \in [number : 1 .. MaxSessions, status : {"up", "down", "ended"}]
    BY DEF TypeOK
  <2>2. CASE RefuseFrame \/ Break
    BY <2>1, <2>2 DEF RefuseFrame, Break, TypeOK
  <2>3. CASE Reconnect
    BY <2>1, <2>3, MarketAssumption DEF Reconnect
  <2> QED
    BY <2>2, <2>3
<1>4. GapInv'
  <2>1. CASE RefuseFrame \/ Break
    <3>1. watermark' = watermark /\ session'.number = session.number /\ session'.status # "up"
      BY <2>1 DEF RefuseFrame, Break, TypeOK
    <3> QED
      BY <1>1, <3>1, GapInvKept
  <2>2. CASE Reconnect
    <3>1. session'.number = session.number + 1 /\ session.number \in Nat
      BY <2>2, MarketAssumption DEF Reconnect, TypeOK
    <3>2. \A n \in 1 .. Len(state.trades) : state.trades[n].session \in Nat
      <4>1. state.trades \in Seq(CachedTrades)
        BY DEF TypeOK, CachedTrades
      <4>2. \A n \in 1 .. Len(state.trades) : state.trades[n] \in CachedTrades
        BY <4>1
      <4> QED
        BY <4>2, MarketAssumption DEF CachedTrades
    <3>3. \A n \in 1 .. Len(state.trades) : state.trades[n].session < session'.number
      BY <3>1, <3>2 DEF GapInv
    <3>4. state.trades # << >> => Last(state.trades).session # session'.number
      <4>1. state.trades # << >> => Len(state.trades) \in 1 .. Len(state.trades)
        BY DEF TypeOK
      <4> QED
        BY <3>1, <3>2, <3>3, <4>1 DEF Last
    <3>5. \A n \in 1 .. Len(state.trades) : state.trades[n].session <= session'.number
      BY <3>1, <3>2, <3>3
    <3>6. NoSilentGap'
      BY <1>1 DEF GapInv, NoSilentGap
    <3> QED
      BY <1>1, <3>4, <3>5, <3>6 DEF GapInv
  <2> QED
    BY <2>1, <2>2
<1>5. wire' \in Seq(Frames) /\ \A n \in DOMAIN wire' : FrameInv(wire'[n])
  <2>1. CASE wire' = << >>
    <3>1. wire' \in Seq(Frames) /\ DOMAIN wire' = {}
      BY <2>1
    <3> QED
      BY <3>1
  <2>2. CASE wire' = wire
    BY <2>2 DEF TypeOK
  <2> QED
    BY <1>2, <2>1, <2>2
<1>6. TypeOK'
  BY <1>1, <1>3, <1>5 DEF TypeOK
<1> QED
  BY <1>1, <1>4, <1>5, <1>6, NoOrphansKept

\* The stream's task reads a frame: the one step that caches trades.
LEMMA ReadFrameKeepsInv ==
  ASSUME MarketInv, ReadFrame
  PROVE  MarketInv'
<1> USE DEF MarketInv
<1> DEFINE frame == Head(wire)
           events == ParsePublic(frame)
           trade == [id |-> frame.value, session |-> session.number]
<1>1. /\ session.status = "up" /\ wire # << >> /\ InSequence(frame)
      /\ watermark' = IF Observed(frame) THEN frame.value ELSE watermark
      /\ state' = ApplyPublicEvents(state, events)
      /\ session' = [session EXCEPT !.status = IF Accepts(events) THEN @ ELSE "ended"]
      /\ wire' = IF Accepts(events) THEN Tail(wire) ELSE << >>
      /\ venue' = venue /\ listing' = listing /\ made' = made /\ version' = version
      /\ adapter' = adapter /\ refresh' = refresh /\ fetch' = fetch
  BY DEF ReadFrame, Reads, venueVars
<1>2. /\ frame \in Frames /\ FrameInv(frame)
      /\ Tail(wire) \in Seq(Frames) /\ \A n \in DOMAIN Tail(wire) : FrameInv(Tail(wire)[n])
  BY <1>1, WireKept DEF TypeOK
<1>3. /\ \A e \in events : e.kind \in {"Price", "Rate"} => e.value \in 0 .. MaxVersions
      /\ frame.type = "trade" => /\ Event("Trade", Traded, frame.value) \in events
                                 /\ Slot(events, "Trade", Traded) = {frame.value}
      /\ frame.type # "trade" => Slot(events, "Trade", Traded) = {}
  BY <1>2, DecodedEvents DEF TypeOK
<1> HIDE DEF events
<1>4. state.trades \in Seq(CachedTrades) /\ Len(state.trades) <= TradeCapacity
  BY DEF TypeOK, CachedTrades
<1>5. session \in [number : 1 .. MaxSessions, status : {"up", "down", "ended"}]
  BY DEF TypeOK
<1>6. frame.type = "trade" => trade \in CachedTrades
  BY <1>2, <1>5 DEF FrameInv, CachedTrades
<1> HIDE DEF frame
<1>7. wire' \in Seq(Frames) /\ \A n \in DOMAIN wire' : FrameInv(wire'[n])
  <2>1. CASE wire' = << >>
    <3>1. wire' \in Seq(Frames) /\ DOMAIN wire' = {}
      BY <2>1
    <3> QED
      BY <3>1
  <2>2. CASE wire' = Tail(wire)
    BY <1>2, <2>2
  <2> QED
    BY <1>1, <2>1, <2>2
<1>8. /\ session' \in [number : 1 .. MaxSessions, status : {"up", "down", "ended"}]
      /\ session'.number = session.number
      /\ Accepts(events) => session' = session
      /\ ~Accepts(events) => session'.status # "up"
  BY <1>1, <1>5
<1>9. watermark' \in 0 .. MaxTrades
  BY <1>1, <1>2, MarketAssumption DEF Observed, FrameInv, TypeOK
<1> DEFINE pushed == Accepts(events) /\ frame.type = "trade"
           trades == IF pushed THEN PushTrade(state.trades, trade) ELSE state.trades
<1>10. trades = IF Accepts(events) THEN PushTrades(state.trades, Slot(events, "Trade", Traded))
                ELSE state.trades
  <2>1. frame.type = "trade" => (CHOOSE v \in Slot(events, "Trade", Traded) : TRUE) = frame.value
    BY <1>3
  <2>2. frame.type = "trade" => Slot(events, "Trade", Traded) # {}
    BY <1>3
  <2> QED
    BY <1>3, <2>1, <2>2 DEF PushTrades
<1> DEFINE new == PushTrade(state.trades, trade)
<1>11. pushed =>
         /\ new \in Seq(CachedTrades) /\ Len(new) <= TradeCapacity /\ new # << >>
         /\ state.trades # << >> /\ Last(state.trades).id = trade.id => new = state.trades
         /\ ~(state.trades # << >> /\ Last(state.trades).id = trade.id) => new[Len(new)] = trade
         /\ \A n \in 1 .. Len(new) :
              new[n] = trade \/ \E m \in 1 .. Len(state.trades) : new[n] = state.trades[m]
         /\ \A n \in 1 .. Len(new) - 1 :
              \/ \E m \in 1 .. Len(state.trades) - 1 :
                   new[n] = state.trades[m] /\ new[n + 1] = state.trades[m + 1]
              \/ /\ state.trades # << >> /\ Last(state.trades).id # trade.id
                 /\ new[n] = state.trades[Len(state.trades)] /\ new[n + 1] = trade
  BY <1>4, <1>6, PushTradeFacts
<1>12. trade.id = frame.value /\ trade.session = session.number
  OBVIOUS
<1> HIDE DEF new, trade
<1>13. (pushed => trades = new) /\ (~pushed => trades = state.trades)
  BY DEF new
<1> HIDE DEF trades
<1>14. trades \in Seq(CachedTrades) /\ Len(trades) <= TradeCapacity
  BY <1>4, <1>11, <1>13
<1>15. /\ state' \in EngineStates /\ state'.catalog = state.catalog /\ state'.trades = trades
       /\ \A i \in Instruments : state'.prices[i] # 0 => i \in state'.catalog
  BY <1>1, <1>3, <1>10, <1>14, AppliedEvents
<1>16. TypeOK'
  <2>1. Len(state'.trades) <= TradeCapacity
    BY <1>14, <1>15
  <2>2. state' \in [catalog : SUBSET Instruments,
                    trades : Seq([id : 1 .. MaxTrades, session : 1 .. MaxSessions]),
                    prices : [Instruments -> 0 .. MaxVersions],
                    rates : [Instruments -> 0 .. MaxVersions]]
    BY <1>15 DEF EngineStates, CachedTrades
  <2> QED
    BY <1>1, <1>7, <1>8, <1>9, <2>1, <2>2 DEF TypeOK
<1>17. NoOrphans'
  <2>1. pushed => Traded \in state.catalog
    <3>1. Event("Trade", Traded, frame.value).kind = "Trade"
          /\ Event("Trade", Traded, frame.value).instrument = Traded
      BY DEF Event
    <3>2. pushed => Known(Event("Trade", Traded, frame.value))
      BY <1>3 DEF Accepts
    <3> QED
      BY <3>1, <3>2 DEF Known
  <2>2. trades # << >> => Traded \in state.catalog
    BY <1>13, <2>1 DEF NoOrphans
  <2> QED
    BY <1>15, <2>2 DEF NoOrphans
<1>18. GapInv'
  <2>1. CASE ~Accepts(events)
    <3>1. state'.trades = state.trades
      BY <1>13, <1>15, <2>1
    <3> QED
      BY <1>1, <1>8, <2>1, <3>1 DEF GapInv, NoSilentGap
  <2>2. CASE Accepts(events) /\ frame.type # "trade"
    <3>1. state'.trades = state.trades /\ watermark' = watermark /\ session' = session
      BY <1>1, <1>8, <1>13, <1>15, <2>2 DEF Observed
    <3> QED
      BY <1>1, <3>1, GapInvKept
  <2>3. CASE pushed
    <3>1. state'.trades = new /\ session' = session
      BY <1>8, <1>13, <1>15, <2>3
    <3>2. session.number \in Nat
      BY <1>5, MarketAssumption
    <3>3. \A n \in 1 .. Len(new) : new[n].session <= session.number
      BY <1>11, <1>12, <2>3, <3>2 DEF GapInv
    <3>4. ASSUME venue = "Binance"
          PROVE  watermark' = Last(new).id
      <4>1. watermark' = frame.value
        BY <1>1, <2>3, <3>4 DEF Observed
      <4> QED
        BY <1>11, <1>12, <2>3, <4>1 DEF Last
    <3>5. ASSUME venue = "Binance", NEW n \in 1 .. Len(new) - 1,
                 new[n].session = new[n + 1].session
          PROVE  new[n + 1].id = new[n].id + 1
      <4>1. CASE \E m \in 1 .. Len(state.trades) - 1 :
                   new[n] = state.trades[m] /\ new[n + 1] = state.trades[m + 1]
        BY <3>5, <4>1 DEF GapInv, NoSilentGap
      <4>2. CASE /\ state.trades # << >> /\ Last(state.trades).id # trade.id
                 /\ new[n] = state.trades[Len(state.trades)] /\ new[n + 1] = trade
        <5>1. Last(state.trades).session = session.number /\ new[n] = Last(state.trades)
          BY <1>12, <3>5, <4>2 DEF Last
        <5>2. watermark = Last(state.trades).id
          BY <1>1, <3>5, <4>2, <5>1 DEF GapInv
        <5>3. Last(state.trades) \in CachedTrades
          <6>1. Len(state.trades) \in 1 .. Len(state.trades)
            BY <1>4, <4>2
          <6> QED
            BY <1>4, <6>1 DEF Last
        <5>4. watermark # 0 /\ watermark \in Nat
          BY <5>2, <5>3, MarketAssumption DEF CachedTrades
        <5>5. frame.value \in {watermark, watermark + 1}
          BY <1>1, <2>3, <3>5, <5>4 DEF InSequence, Observed
        <5> QED
          BY <1>12, <4>2, <5>1, <5>2, <5>5
      <4> QED
        BY <1>11, <2>3, <3>5, <4>1, <4>2
    <3>6. NoSilentGap'
      BY <1>1, <3>1, <3>5 DEF NoSilentGap
    <3> QED
      BY <1>1, <3>1, <3>3, <3>4, <3>6 DEF GapInv
  <2> QED
    BY <2>1, <2>2, <2>3
<1> QED
  BY <1>7, <1>16, <1>17, <1>18

\* A REST call asks or writes: it never writes a trade.
LEMMA FetchKeepsInv ==
  ASSUME MarketInv, FetchMarkPrice \/ FetchFundingRate \/ RefreshOpenInterest \/ ApplyFetch
  PROVE  MarketInv'
<1> USE DEF MarketInv
<1>1. /\ venue' = venue /\ listing' = listing /\ made' = made /\ version' = version
      /\ session' = session /\ wire' = wire /\ watermark' = watermark
      /\ adapter' = adapter /\ refresh' = refresh
  BY DEF FetchMarkPrice, FetchFundingRate, RefreshOpenInterest, ApplyFetch, Ask, venueVars, streamVars
<1>2. fetch \in [kind : {"none", "Price", "Rate"}, value : 0 .. MaxVersions]
  BY DEF TypeOK
<1>3. CASE FetchMarkPrice \/ FetchFundingRate \/ RefreshOpenInterest
  <2>1. state' = state /\ fetch' \in [kind : {"none", "Price", "Rate"}, value : 0 .. MaxVersions]
    BY <1>3 DEF FetchMarkPrice, FetchFundingRate, RefreshOpenInterest, Ask, TypeOK
  <2>2. TypeOK'
    BY <1>1, <2>1 DEF TypeOK
  <2> QED
    BY <1>1, <2>1, <2>2, GapInvKept, NoOrphansKept
<1>4. CASE ApplyFetch
  <2> DEFINE e == Event(fetch.kind, Traded, fetch.value)
             events == {e}
  <2>1. state' = ApplyPublicEvents(state, events) /\ fetch' = [fetch EXCEPT !.kind = "none"]
    BY <1>4 DEF ApplyFetch
  <2>2. e.kind = fetch.kind /\ e.kind # "Trade" /\ e.value = fetch.value
    BY <1>2 DEF Event
  <2> HIDE DEF e
  <2>3. Slot(events, "Trade", Traded) = {}
    BY <2>2 DEF Slot
  <2>4. \A x \in events : x.kind \in {"Price", "Rate"} => x.value \in 0 .. MaxVersions
    BY <1>2, <2>2
  <2> HIDE DEF events
  <2>5. state.trades \in Seq(CachedTrades)
    BY DEF TypeOK, CachedTrades
  <2>6. state.trades = IF Accepts(events) THEN PushTrades(state.trades, Slot(events, "Trade", Traded))
                       ELSE state.trades
    BY <2>3 DEF PushTrades
  <2>7. /\ state' \in EngineStates /\ state'.catalog = state.catalog /\ state'.trades = state.trades
        /\ \A i \in Instruments : state'.prices[i] # 0 => i \in state'.catalog
    BY <2>1, <2>4, <2>5, <2>6, AppliedEvents
  <2>8. fetch' \in [kind : {"none", "Price", "Rate"}, value : 0 .. MaxVersions]
    BY <1>2, <2>1
  <2>9. TypeOK'
    <3>1. state' \in [catalog : SUBSET Instruments,
                      trades : Seq([id : 1 .. MaxTrades, session : 1 .. MaxSessions]),
                      prices : [Instruments -> 0 .. MaxVersions],
                      rates : [Instruments -> 0 .. MaxVersions]]
      BY <2>7 DEF EngineStates, CachedTrades
    <3>2. Len(state'.trades) <= TradeCapacity
      BY <2>7 DEF TypeOK
    <3> QED
      BY <1>1, <2>8, <3>1, <3>2 DEF TypeOK
  <2>10. NoOrphans'
    BY <2>7 DEF NoOrphans
  <2>11. GapInv'
    BY <1>1, <2>7, GapInvKept
  <2> QED
    BY <1>1, <2>9, <2>10, <2>11
<1> QED
  BY <1>3, <1>4

\* A refresh of the metadata: replacing the state's catalog drops what it
\* cached for the instruments that are gone.
LEMMA RefreshKeepsInv ==
  ASSUME MarketInv, NEW r \in Refreshers, RefreshStep(r)
  PROVE  MarketInv'
<1> USE DEF MarketInv
<1>1. /\ venue' = venue /\ listing' = listing /\ made' = made /\ version' = version
      /\ session' = session /\ wire' = wire /\ watermark' = watermark /\ fetch' = fetch
  BY DEF RefreshStep, ReadMetadata, ReplaceAdapterCatalog, ReplaceStateCatalog, venueVars, streamVars
<1>2. /\ refresh \in [Refreshers -> [stage : {"idle", "read", "half"}, specs : SUBSET Instruments]]
      /\ listing \subseteq Instruments /\ adapter \subseteq Instruments
  BY DEF TypeOK
<1>3. CASE ReadMetadata(r) \/ ReplaceAdapterCatalog(r)
  <2>1. state' = state
    BY <1>3 DEF ReadMetadata, ReplaceAdapterCatalog
  <2>2. /\ refresh' \in [Refreshers -> [stage : {"idle", "read", "half"}, specs : SUBSET Instruments]]
        /\ adapter' \subseteq Instruments
    BY <1>2, <1>3 DEF ReadMetadata, ReplaceAdapterCatalog
  <2>3. TypeOK'
    BY <1>1, <2>1, <2>2 DEF TypeOK
  <2> QED
    BY <1>1, <2>1, <2>3, GapInvKept, NoOrphansKept
<1>4. CASE ReplaceStateCatalog(r)
  <2> DEFINE specs == refresh[r].specs
             trades == IF Traded \in specs THEN state.trades ELSE << >>
             prices == [i \in Instruments |-> IF i \in specs THEN state.prices[i] ELSE 0]
             rates == [i \in Instruments |-> IF i \in specs THEN state.rates[i] ELSE 0]
  <2>1. /\ state' = ReplaceInstruments(state, specs) /\ adapter' = adapter
        /\ refresh' = [refresh EXCEPT ![r] = [stage |-> "idle", specs |-> {}]]
    BY <1>4 DEF ReplaceStateCatalog
  <2>2. specs \subseteq Instruments
    BY <1>2
  <2> HIDE DEF specs
  <2>3. state \in EngineStates /\ Len(state.trades) <= TradeCapacity
    BY DEF TypeOK, EngineStates, CachedTrades
  <2>4. MaxVersions \in Nat /\ TradeCapacity \in Nat
    BY MarketAssumption
  <2>5. trades \in Seq(CachedTrades) /\ Len(trades) <= TradeCapacity
    BY <2>3, <2>4 DEF EngineStates
  <2>6. prices \in [Instruments -> 0 .. MaxVersions] /\ rates \in [Instruments -> 0 .. MaxVersions]
    BY <2>3, <2>4 DEF EngineStates
  <2>7. state' = [state EXCEPT !.catalog = specs, !.trades = trades, !.prices = prices, !.rates = rates]
    BY <2>1 DEF ReplaceInstruments, PruneOrphanMarketState
  <2>8. \A i \in Instruments : prices[i] # 0 => i \in specs
    OBVIOUS
  <2>9. (trades = state.trades /\ Traded \in specs) \/ trades = << >>
    OBVIOUS
  <2> HIDE DEF trades, prices, rates
  <2>10. /\ state' \in EngineStates /\ state'.catalog = specs /\ state'.trades = trades
         /\ state'.prices = prices
    BY <2>2, <2>3, <2>5, <2>6, <2>7 DEF EngineStates
  <2>11. refresh' \in [Refreshers -> [stage : {"idle", "read", "half"}, specs : SUBSET Instruments]]
    BY <1>2, <2>1
  <2>12. TypeOK'
    <3>1. state' \in [catalog : SUBSET Instruments,
                      trades : Seq([id : 1 .. MaxTrades, session : 1 .. MaxSessions]),
                      prices : [Instruments -> 0 .. MaxVersions],
                      rates : [Instruments -> 0 .. MaxVersions]]
      BY <2>10 DEF EngineStates, CachedTrades
    <3>2. Len(state'.trades) <= TradeCapacity
      BY <2>5, <2>10
    <3> QED
      BY <1>1, <2>1, <2>11, <3>1, <3>2 DEF TypeOK
  <2>13. NoOrphans'
    BY <2>8, <2>9, <2>10 DEF NoOrphans
  <2>14. GapInv'
    <3>1. CASE trades = state.trades
      BY <1>1, <2>10, <3>1, GapInvKept
    <3>2. CASE trades = << >>
      <4>1. state'.trades = << >> /\ Len(state'.trades) = 0
        BY <2>10, <3>2
      <4> QED
        BY <1>1, <4>1 DEF GapInv, NoSilentGap
    <3> QED
      BY <2>9, <3>1, <3>2
  <2> QED
    BY <1>1, <2>12, <2>13, <2>14
<1> QED
  BY <1>3, <1>4 DEF RefreshStep

LEMMA NextKeepsInv ==
  ASSUME MarketInv, [Next]_vars
  PROVE  MarketInv'
<1>1. CASE Trade \/ Quote \/ Relist \/ Lose
  BY <1>1, VenueKeepsInv
<1>2. CASE ReadFrame
  BY <1>2, ReadFrameKeepsInv
<1>3. CASE RefuseFrame \/ Break \/ Reconnect
  BY <1>3, SessionKeepsInv
<1>4. CASE FetchMarkPrice \/ FetchFundingRate \/ RefreshOpenInterest \/ ApplyFetch
  BY <1>4, FetchKeepsInv
<1>5. CASE \E r \in Refreshers : RefreshStep(r)
  BY <1>5, RefreshKeepsInv
<1>6. CASE UNCHANGED vars
  <2>1. /\ venue' = venue /\ listing' = listing /\ made' = made /\ version' = version
        /\ session' = session /\ wire' = wire /\ watermark' = watermark
        /\ adapter' = adapter /\ state' = state /\ refresh' = refresh /\ fetch' = fetch
    BY <1>6 DEF vars, venueVars, streamVars
  <2>2. TypeOK'
    BY <2>1 DEF MarketInv, TypeOK
  <2> QED
    BY <2>1, <2>2, GapInvKept, NoOrphansKept DEF MarketInv
<1> QED
  BY <1>1, <1>2, <1>3, <1>4, <1>5, <1>6 DEF Next

----------------------------------------------------------------------------
(* The theorems.                                                           *)

\* The inductive invariant: every step of the venue, the stream's task, the
\* REST calls and the refreshes keeps it.
THEOREM MarketInvariant == SafetySpec => []MarketInv
<1>1. Init => MarketInv
  BY InitEstablishes
<1>2. MarketInv /\ [Next]_vars => MarketInv'
  BY NextKeepsInv
<1> QED
  BY <1>1, <1>2, PTL DEF SafetySpec

\* The public half of EngineState keeps its types, and recent_trades stays
\* within recent_trade_capacity.
THEOREM MarketTypes == SafetySpec => []TypeOK
<1>1. MarketInv => TypeOK
  BY DEF MarketInv
<1> QED
  BY <1>1, MarketInvariant, PTL

\* replace_instruments with its pruning and the look-up before a batch is
\* applied leave nothing cached for an instrument outside the catalog, however
\* many refreshes overtake each other and whatever was decoded in between.
THEOREM NothingIsOrphaned == SafetySpec => []NoOrphans
<1>1. MarketInv => NoOrphans
  BY DEF MarketInv
<1> QED
  BY <1>1, MarketInvariant, PTL

\* SequenceTracker::observe and the fresh tracker of each session: two
\* neighbours that one Binance session cached are consecutive, for any number
\* of trades, losses and reconnects, and any capacity.
THEOREM GapsAreNoticed == SafetySpec => []NoSilentGap
<1>1. MarketInv => NoSilentGap
  BY DEF MarketInv, GapInv
<1> QED
  BY <1>1, MarketInvariant, PTL
=============================================================================
