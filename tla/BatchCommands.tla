--------------------------- MODULE BatchCommands ---------------------------
(***************************************************************************)
(* The batch writes create_orders, amend_orders and cancel_orders of       *)
(* crates/bat-markets/src/runtime.rs, for a batch of more than one item (a *)
(* batch of one is the single command of CommandSubmission).               *)
(*                                                                         *)
(* A batch is cut into chunks that are submitted one after the other.  A   *)
(* chunk is one call of the venue's batch endpoint, or a try_join_all over *)
(* the single commands of its items.  The command websocket appears here   *)
(* by what CommandTransport shows of it: Unavailable means that nothing    *)
(* was written.                                                            *)
(***************************************************************************)
EXTENDS Naturals, Sequences, FiniteSets

CONSTANTS
    N,           \* items of the batch, named by their index
    ChunkSize,   \* 5, 10, 20 or 50 in the code
    ById,        \* the items that carry an order id; the others a client id
    Instrument,  \* per item, the number of its instrument
    Venues       \* the venues a client may be built for

Items == 1 .. N
Instruments == {Instrument[i] : i \in Items}

ASSUME BatchAssumption ==
    /\ N \in Nat /\ N > 1
    /\ ChunkSize \in Nat \ {0}
    /\ ById \subseteq Items
    /\ Instrument \in [Items -> {1, 2}]
    /\ Venues \subseteq {"Binance", "Bybit", "Mexc"}

VARIABLES
    client,    \* venue, ws_order_entry and CommandTransportMode of the client
    op,        \* the batch operation
    stage,     \* where it stands
    todo,      \* chunks not yet submitted
    chunk,     \* the chunk being submitted
    started,   \* items of a joined chunk whose write has been sent
    response,  \* per item, the venue's answer to the call that carries it
    receipts,  \* receipts of the chunk, not yet applied
    acks,      \* per item, the receipt that was applied
    pending,   \* items cached as pending unknown commands
    flying,    \* calls on their way to the venue, as sets of items
    executed,  \* history: how often the venue carried out each item
    result     \* what the batch returned

config == <<client, op>>
vars == <<config, stage, todo, chunk, started, response, receipts, acks, pending,
          flying, executed, result>>

Statuses == {"Accepted", "Rejected", "UnknownExecution"}
Answers == {"accept", "reject", "refused", "garbled"}
Operations == {"CreateOrders", "AmendOrders", "CancelOrders"}

TypeOK ==
    /\ client \in [venue : Venues, ws : BOOLEAN, only : BOOLEAN]
    /\ op \in Operations
    /\ stage \in {"new", "open", "join", "ws", "rest", "await", "emit", "returned", "abandoned"}
    /\ todo \in Seq(Seq(Items))
    /\ chunk \in Seq(Items)
    /\ started \subseteq Items
    /\ response \in [Items -> Answers \cup {"none"}]
    /\ receipts \in Seq(Statuses)
    /\ acks \in [Items -> Statuses \cup {"none"}]
    /\ pending \subseteq Items
    /\ flying \subseteq SUBSET Items
    /\ executed \in [Items -> Nat]
    /\ result \in {"none", "Ok", "Err", "MissingAck"}

Init ==
    /\ client \in [venue : Venues, ws : BOOLEAN, only : BOOLEAN]
    /\ client.venue = "Mexc" => ~client.ws
    /\ op \in Operations
    /\ stage = "new"
    /\ todo = << >> /\ chunk = << >> /\ receipts = << >>
    /\ started = {} /\ pending = {} /\ flying = {}
    /\ response = [i \in Items |-> "none"]
    /\ acks = [i \in Items |-> "none"]
    /\ executed = [i \in Items |-> 0]
    /\ result = "none"

----------------------------------------------------------------------------
(* Chunks.                                                                 *)

Members(s) == {s[k] : k \in DOMAIN s}

\* slice::chunks.
Chunks(s) ==
    [k \in 1 .. (Len(s) + ChunkSize - 1) \div ChunkSize |->
        SubSeq(s, (k - 1) * ChunkSize + 1,
               IF k * ChunkSize < Len(s) THEN k * ChunkSize ELSE Len(s))]

All == [i \in Items |-> i]

\* The items of a group, in the order of the batch.
InOrder(items) ==
    [k \in 1 .. Cardinality(items) |->
        CHOOSE i \in items : Cardinality({j \in items : j <= i}) = k]

\* The items that name their order in one way and belong to one instrument.
Group(ids, instrument) == Chunks(InOrder({i \in ids : Instrument[i] = instrument}))

\* cancel_orders on Binance REST: order ids first, then client ids, each by
\* instrument.
GroupedChunks ==
    Group(ById, 1) \o Group(ById, 2) \o Group(Items \ ById, 1) \o Group(Items \ ById, 2)

\* MEXC cancels by order ids or by external ids, never by a mixture.
MixedIds == ById # {} /\ ById # Items

\* Whether the chunks of the batch are joined single commands.
Joined ==
    \/ client.venue = "Binance" /\ client.ws
    \/ client.venue = "Mexc" /\ op = "CancelOrders" /\ MixedIds

Plan ==
    CASE client.venue = "Binance" /\ ~client.ws /\ op = "CancelOrders" -> GroupedChunks
      [] client.venue = "Mexc" /\ Joined -> <<All>>
      [] OTHER -> Chunks(All)

----------------------------------------------------------------------------
(* The batch and its chunks.                                               *)

Return(r) ==
    /\ stage' = "returned"
    /\ result' = r

Silent == <<config, chunk, started, response, receipts, acks, pending, flying, executed>>

\* validate_create_orders and its siblings, or the websocket-only check of a
\* client that cannot use the websocket; MEXC has no amend.
Refuse ==
    /\ stage = "new"
    /\ Return("Err")
    /\ UNCHANGED <<Silent, todo>>

Begin(o) ==
    /\ stage = "new"
    /\ op = o
    /\ client.only => client.ws
    /\ stage' = "open"
    /\ todo' = Plan
    /\ UNCHANGED <<Silent, result>>

CreateOrders == Begin("CreateOrders")
AmendOrders  == client.venue # "Mexc" /\ Begin("AmendOrders")
CancelOrders == Begin("CancelOrders")

\* The next chunk is built; Bybit tries the websocket first.
OpenChunk ==
    /\ stage = "open"
    /\ todo # << >>
    /\ chunk' = Head(todo)
    /\ todo' = Tail(todo)
    /\ stage' = IF Joined THEN "join" ELSE IF client.ws THEN "ws" ELSE "rest"
    /\ UNCHANGED <<config, started, response, receipts, acks, pending, flying, executed, result>>

\* An item of the next chunk cannot be built: an unknown instrument, a price
\* that does not fit.  Earlier chunks have been sent.
BuildFails ==
    /\ stage = "open"
    /\ todo # << >>
    /\ ~Joined
    /\ Return("Err")
    /\ UNCHANGED <<Silent, todo>>

\* collect_batch_acks.
Finish ==
    /\ stage = "open"
    /\ todo = << >>
    /\ Return(IF \E i \in Items : acks[i] = "none" THEN "MissingAck" ELSE "Ok")
    /\ UNCHANGED <<Silent, todo>>

----------------------------------------------------------------------------
(* A chunk as one call.                                                    *)

Send ==
    /\ flying' = flying \cup {Members(chunk)}
    /\ stage' = "await"
    /\ UNCHANGED <<config, todo, chunk, started, response, receipts, acks, pending,
                   executed, result>>

WsSend == stage = "ws" /\ Send
RestSend == stage = "rest" /\ Send

\* The websocket is unavailable: nothing was written.
WsUnavailable ==
    /\ stage = "ws"
    /\ IF client.only
         THEN Return("Err")
         ELSE stage' = "rest" /\ UNCHANGED result
    /\ UNCHANGED <<Silent, todo>>

\* Credentials or signing fail.
RestNotSent ==
    /\ stage = "rest"
    /\ Return("Err")
    /\ UNCHANGED <<Silent, todo>>

\* classify_command of the adapters, on a code of success or of failure.
Classify(answer) == IF answer = "accept" THEN "Accepted" ELSE "Rejected"

\* The receipts of the whole chunk are there, in the order of its items.
Receive(rs) ==
    /\ receipts' = rs
    /\ stage' = "emit"
    /\ UNCHANGED <<config, todo, chunk, started, response, acks, pending, flying, executed, result>>

\* classify_binance_batch_payload, classify_bybit_batch_payload and
\* classify_mexc_batch_payload on one item code per item.
BatchAnswered ==
    /\ stage = "await"
    /\ \A i \in Members(chunk) : response[i] \in {"accept", "reject"}
    /\ Receive([k \in DOMAIN chunk |-> Classify(response[chunk[k]])])

\* The venue turned the whole call down: an error, on MEXC perhaps with an
\* array of rejected items.
BatchRefused ==
    /\ stage = "await"
    /\ \A i \in Members(chunk) : response[i] = "refused"
    /\ \/ Return("Err") /\ UNCHANGED <<Silent, todo>>
       \/ client.venue = "Mexc" /\ Receive([k \in DOMAIN chunk |-> "Rejected"])

\* The payload cannot be decoded or has the wrong number of items: `?`.
BatchGarbled ==
    /\ stage = "await"
    /\ \A i \in Members(chunk) : response[i] = "garbled"
    /\ Return("Err")
    /\ UNCHANGED <<Silent, todo>>

\* classify_bybit_batch_payload on a payload without codes: retCode and the
\* code of an item default to 0, the code of success.
BatchDefaulted ==
    /\ stage = "await"
    /\ client.venue = "Bybit"
    /\ \A i \in Members(chunk) : response[i] = "garbled"
    /\ Receive([k \in DOMAIN chunk |-> "Accepted"])

\* Fault: a timeout of the batch call is returned as an error.
BatchUncertainAsError ==
    /\ stage = "await"
    /\ Return("Err")
    /\ UNCHANGED <<Silent, todo>>

\* The websocket reports Uncertain, or is_uncertain_command_error holds.
BatchUncertain ==
    /\ stage = "await"
    /\ Receive([k \in DOMAIN chunk |-> "UnknownExecution"])

\* Fault: receipts are handed out by position in the batch, not by index.
CacheAndEmitByPosition ==
    /\ stage = "emit"
    /\ LET k == Len(chunk) - Len(receipts) + 1
           i == Cardinality({j \in Items : acks[j] # "none"}) + 1
       IN  /\ acks' = [acks EXCEPT ![i] = Head(receipts)]
           /\ pending' = IF Head(receipts) = "UnknownExecution"
                           THEN pending \cup {chunk[k]} ELSE pending
    /\ receipts' = Tail(receipts)
    /\ stage' = IF Len(receipts) = 1 THEN "open" ELSE "emit"
    /\ UNCHANGED <<config, todo, chunk, started, response, flying, executed, result>>

\* Fault: receipts after the first rejected one are not applied.
CacheAndEmitStops ==
    /\ stage = "emit"
    /\ LET i == chunk[Len(chunk) - Len(receipts) + 1]
       IN  /\ acks' = [acks EXCEPT ![i] = Head(receipts)]
           /\ pending' = IF Head(receipts) = "UnknownExecution" THEN pending \cup {i} ELSE pending
    /\ receipts' = IF Head(receipts) = "Rejected" THEN << >> ELSE Tail(receipts)
    /\ stage' = IF receipts' = << >> THEN "open" ELSE "emit"
    /\ UNCHANGED <<config, todo, chunk, started, response, flying, executed, result>>

\* cache_and_emit_batch_receipts, one item: an unknown one is cached before
\* apply_command_receipt spawns its recovery.
CacheAndEmit ==
    /\ stage = "emit"
    /\ LET i == chunk[Len(chunk) - Len(receipts) + 1]
       IN  /\ acks' = [acks EXCEPT ![i] = Head(receipts)]
           /\ pending' = IF Head(receipts) = "UnknownExecution" THEN pending \cup {i} ELSE pending
    /\ receipts' = Tail(receipts)
    /\ stage' = IF Len(receipts) = 1 THEN "open" ELSE "emit"
    /\ UNCHANGED <<config, todo, chunk, started, response, flying, executed, result>>

----------------------------------------------------------------------------
(* A chunk as joined single commands.                                      *)

JoinSend(i) ==
    /\ stage = "join"
    /\ i \in Members(chunk) \ started
    /\ started' = started \cup {i}
    /\ flying' = flying \cup {{i}}
    /\ UNCHANGED <<config, stage, todo, chunk, response, receipts, acks, pending, executed, result>>

\* try_join_all is done when every item has its receipt.
JoinReceipt(i, status) ==
    /\ acks' = [acks EXCEPT ![i] = status]
    /\ pending' = IF status = "UnknownExecution" THEN pending \cup {i} ELSE pending
    /\ stage' = IF \A j \in Members(chunk) \ {i} : acks[j] # "none" THEN "open" ELSE "join"
    /\ UNCHANGED <<config, todo, chunk, started, response, receipts, flying, executed, result>>

\* Fault: a joined command waits for its answer without a timeout.
JoinAnsweredNoTimeout(i) ==
    /\ stage = "join"
    /\ i \in Members(chunk) \cap started
    /\ acks[i] = "none"
    /\ response[i] \in {"accept", "reject"}
    /\ JoinReceipt(i, Classify(response[i]))

\* The single command of an item gets its answer, or becomes uncertain.
JoinAnswered(i) ==
    /\ stage = "join"
    /\ i \in Members(chunk) \cap started
    /\ acks[i] = "none"
    /\ \/ response[i] \in {"accept", "reject"} /\ JoinReceipt(i, Classify(response[i]))
       \/ JoinReceipt(i, "UnknownExecution")

\* It fails instead: before it is sent (a check, the websocket-only mode) or
\* with the venue's answer.  The futures of the other items are dropped.
JoinFails(i) ==
    /\ stage = "join"
    /\ i \in Members(chunk)
    /\ acks[i] = "none"
    /\ i \notin started \/ response[i] \in {"refused", "garbled"}
    /\ Return("Err")
    /\ UNCHANGED <<Silent, todo>>

----------------------------------------------------------------------------
(* The venue and the caller.                                               *)

\* The venue handles a call, perhaps after the client gave up on it.
VenueHandles(call) ==
    /\ call \in flying
    /\ flying' = flying \ {call}
    /\ \E done \in SUBSET call, answer \in {"items", "refused", "garbled"} :
         /\ answer = "refused" => done = {}
         /\ executed' = [i \in Items |-> IF i \in done THEN executed[i] + 1 ELSE executed[i]]
         /\ response' = [i \in Items |->
                           IF i \notin call THEN response[i]
                           ELSE IF answer # "items" THEN answer
                           ELSE IF i \in done THEN "accept" ELSE "reject"]
    /\ UNCHANGED <<config, stage, todo, chunk, started, receipts, acks, pending, result>>

\* The caller drops the batch's future.
Abandon ==
    /\ stage \in {"join", "ws", "rest", "await", "emit"}
    /\ stage' = "abandoned"
    /\ UNCHANGED <<Silent, todo, result>>

----------------------------------------------------------------------------

BatchStep ==
    \/ OpenChunk
    \/ BuildFails
    \/ Finish
    \/ WsSend
    \/ WsUnavailable
    \/ RestSend
    \/ RestNotSent
    \/ BatchAnswered
    \/ BatchRefused
    \/ BatchGarbled
    \/ BatchDefaulted
    \/ BatchUncertain
    \/ CacheAndEmit
    \/ \E i \in Items : JoinSend(i) \/ JoinAnswered(i) \/ JoinFails(i)

Next ==
    \/ Refuse \/ CreateOrders \/ AmendOrders \/ CancelOrders
    \/ BatchStep
    \/ \E call \in flying : VenueHandles(call)
    \/ Abandon

\* The chunk is with the command websocket, at whichever of its awaits.
OnWebSocket == client.ws /\ stage \in {"ws", "join", "await"}

\* The caller's task is polled and every REST call ends by its timeout.  The
\* command websocket owes nothing: its connect has no timeout.
Spec == Init /\ [][Next]_vars /\ WF_vars(BatchStep /\ ~OnWebSocket)

----------------------------------------------------------------------------
(* Properties                                                              *)

InFlight(i) == \E call \in flying : i \in call

\* The receipt an item gets is its own and is proof, whatever the grouping of
\* the batch, the fallback of its chunk and the fate of the other items:
\* Accepted was carried out, Rejected was not and never will be.  A garbled
\* reply, which Bybit's classifier may take for a success, is left aside.
ItemReceiptIsProof ==
    \A i \in Items :
        /\ executed[i] <= 1
        /\ acks[i] = "Accepted" => executed[i] = 1 \/ response[i] = "garbled"
        /\ acks[i] = "Rejected" => executed[i] = 0 /\ ~InFlight(i)

\* When a batch is through all its chunks, every item has a receipt: the
\* error of collect_batch_acks ("missing ack ...") is never reached.
NoAckIsMissing == result # "MissingAck"

\* Item i was or may yet be carried out.  A reply that cannot be decoded is
\* left aside: it is an error whatever the venue did.
Written(i) == response[i] # "garbled" /\ (executed[i] > 0 \/ InFlight(i))

\* When a batch that uses the venue's batch endpoint returns, also with the
\* error of a later chunk, every write that was or may yet be carried out has
\* a receipt, and is pending if that receipt is UnknownExecution.
BatchWritesAreTracked ==
    stage = "returned" /\ ~Joined =>
        \A i \in Items :
            /\ Written(i) => acks[i] # "none"
            /\ acks[i] = "UnknownExecution" => i \in pending

\* The same for every batch: "If the write result cannot be proven, the
\* receipt remains UnknownExecution."
WritesAreTracked ==
    stage = "returned" => \A i \in Items : Written(i) => acks[i] # "none"

\* What CallsReturn of CommandTransport says of each call of this batch: unless
\* the connect of the shared session hangs, the call gets its answer, times out
\* or turns out not to be possible.
WebSocketCallsReturn ==
    /\ []<>(stage # "ws")
    /\ []<>~(client.ws /\ stage = "await")
    /\ \A i \in Items : []<>~(client.ws /\ stage = "join" /\ acks[i] = "none")

\* A batch that was begun returns, unless its caller drops it or a call of the
\* command websocket hangs in its connect: no chunk and no joined command
\* waits for ever for an answer that does not come.
BatchReturns ==
    WebSocketCallsReturn => (stage = "open" ~> stage \in {"returned", "abandoned"})
=============================================================================
