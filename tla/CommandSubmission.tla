------------------------- MODULE CommandSubmission -------------------------
(***************************************************************************)
(* A single write command of bat-markets, from the facade call to its      *)
(* receipt (create_order, amend_order, cancel_order, close_position,       *)
(* cancel_all_orders, set_leverage, set_margin_mode, set_position_mode in  *)
(* crates/bat-markets/src/runtime.rs), composed with the command websocket *)
(* of CommandTransport.                                                    *)
(*                                                                         *)
(* A command goes out over the command websocket or over one or more       *)
(* signed REST calls.  What comes back is classified into a receipt        *)
(* (Accepted, Rejected, UnknownExecution) or into an error.  The question  *)
(* of this module is what the caller may conclude from it about the venue. *)
(***************************************************************************)
EXTENDS CommandTransport

CONSTANTS
    Venue,       \* "Binance", "Bybit" or "Mexc"
    Operations   \* the operations the environment calls

WsOperations == {"CreateOrder", "AmendOrder", "CancelOrder", "ClosePosition"}
RestOperations == {"CancelAllOrders", "CancelAllInstruments", "SetLeverage",
                   "SetMarginMode", "SetPositionMode"}

ASSUME SubmissionAssumption ==
    /\ Venue \in {"Binance", "Bybit", "Mexc"}
    /\ Operations \subseteq WsOperations \cup RestOperations

VARIABLES
    op,         \* the operation of each command
    mode,       \* its CommandTransportMode
    stage,      \* where it stands
    call,       \* REST calls issued so far
    parts,      \* the receipts of the finished REST calls
    restWire,   \* REST calls on their way to the venue
    restReply,  \* the response of the REST call being awaited
    receipt     \* what the command returned

submitVars == <<op, mode, stage, call, parts, restWire, restReply, receipt>>
allVars == <<vars, submitVars>>

Receipts == {"Accepted", "Rejected", "UnknownExecution"}
MaxCalls == 2

\* The number of signed REST calls behind one command: Binance clears plain
\* and algo orders of an instrument separately, MEXC sets the leverage of its
\* long and short side separately, unless a position of the instrument is
\* cached: then there is one call, for it (the cache keeps one per instrument),
\* and the command is like any other of a single call.  Without an instrument
\* Binance repeats the pair for each one with known open orders; one is enough
\* to show the effect.
RestCalls(o) ==
    IF \/ Venue = "Binance" /\ o \in {"CancelAllOrders", "CancelAllInstruments"}
       \/ Venue = "Mexc" /\ o \in {"SetLeverage", "SetMarginMode"}
      THEN MaxCalls
      ELSE 1

\* The operations that turn an uncertain REST error into UnknownExecution;
\* the others return it with `?`.
KeepsUncertainty(o) ==
    o \notin {"CancelAllOrders", "CancelAllInstruments", "SetPositionMode"}

\* Binance cancel-all keeps the bodies of its calls and looks at most at the
\* first one, after the last.
LooksAtBodiesLast(o) == o \in {"CancelAllOrders", "CancelAllInstruments"} /\ RestCalls(o) > 1

SubmissionTypeOK ==
    /\ TypeOK
    /\ op \in [Requests -> Operations \cup {"none"}]
    /\ mode \in [Requests -> {"Auto", "WebSocketOnly"}]
    /\ stage \in [Requests -> {"new", "ws", "rest", "restAwait", "returned", "abandoned"}]
    /\ call \in [Requests -> 0 .. MaxCalls]
    /\ parts \in [Requests -> Seq(Receipts \cup {"Err"})]
    /\ restWire \subseteq Requests \X (1 .. MaxCalls)
    /\ restReply \in [Requests -> {"none"} \cup AllReplyKinds]
    /\ receipt \in [Requests -> Receipts \cup {"none", "Err"}]

Init ==
    /\ TransportInit
    /\ op = [r \in Requests |-> "none"]
    /\ mode = [r \in Requests |-> "Auto"]
    /\ stage = [r \in Requests |-> "new"]
    /\ call = [r \in Requests |-> 0]
    /\ parts = [r \in Requests |-> << >>]
    /\ restWire = {}
    /\ restReply = [r \in Requests |-> "none"]
    /\ receipt = [r \in Requests |-> "none"]

----------------------------------------------------------------------------
(* The beginning of a command: checks, the rate limiter, the choice of the *)
(* route.                                                                  *)

Start(r, o, m) ==
    /\ stage[r] = "new"
    /\ o \in Operations
    /\ op' = [op EXCEPT ![r] = o]
    /\ mode' = [mode EXCEPT ![r] = m]
    /\ UNCHANGED <<call, parts, restWire, restReply>>

Refuse(r) ==
    /\ stage' = [stage EXCEPT ![r] = "returned"]
    /\ receipt' = [receipt EXCEPT ![r] = "Err"]
    /\ UNCHANGED vars

TakeWs(r) ==
    /\ RequestText(r)
    /\ stage' = [stage EXCEPT ![r] = "ws"]
    /\ UNCHANGED receipt

TakeRest(r) ==
    /\ stage' = [stage EXCEPT ![r] = "rest"]
    /\ UNCHANGED <<receipt, vars>>

\* create_order: validation may refuse; Binance conditional orders, venues
\* without ws_order_entry and MEXC go to REST, which WebSocketOnly refuses.
CreateOrder(r) ==
    \E m \in {"Auto", "WebSocketOnly"} :
        /\ Start(r, "CreateOrder", m)
        /\ \/ Refuse(r)
           \/ Venue # "Mexc" /\ TakeWs(r)
           \/ m = "Auto" /\ TakeRest(r)

\* amend_order: MEXC refuses it; the order is looked up first, which may fail.
AmendOrder(r) ==
    \E m \in {"Auto", "WebSocketOnly"} :
        /\ Start(r, "AmendOrder", m)
        /\ \/ Refuse(r)
           \/ Venue # "Mexc" /\ TakeWs(r)
           \/ Venue # "Mexc" /\ m = "Auto" /\ TakeRest(r)

\* cancel_order: algo orders, venues without ws_order_entry and MEXC use REST.
CancelOrder(r) ==
    \E m \in {"Auto", "WebSocketOnly"} :
        /\ Start(r, "CancelOrder", m)
        /\ \/ Refuse(r)
           \/ Venue # "Mexc" /\ TakeWs(r)
           \/ m = "Auto" /\ TakeRest(r)

\* close_position has no websocket-only variant; it resolves the position,
\* perhaps over REST, before it derives a reduce-only order.
ClosePosition(r) ==
    /\ Start(r, "ClosePosition", "Auto")
    /\ \/ Refuse(r)
       \/ Venue # "Mexc" /\ TakeWs(r)
       \/ TakeRest(r)

\* cancel_all_orders: WebSocketOnly is refused before anything is sent.
CancelAllOrders(r) ==
    \E m \in {"Auto", "WebSocketOnly"} :
        /\ Start(r, "CancelAllOrders", m)
        /\ \/ Refuse(r)
           \/ m = "Auto" /\ TakeRest(r)

\* cancel_all_orders without an instrument, on Binance: the instruments are
\* those with open orders in the engine state; if there are none, nothing is
\* sent and the receipt is Accepted.
CancelAllInstruments(r) ==
    /\ Venue = "Binance"
    /\ \E m \in {"Auto", "WebSocketOnly"} :
         /\ Start(r, "CancelAllInstruments", m)
         /\ \/ Refuse(r)
            \/ m = "Auto" /\ TakeRest(r)
            \/ /\ m = "Auto"
               /\ stage' = [stage EXCEPT ![r] = "returned"]
               /\ receipt' = [receipt EXCEPT ![r] = "Accepted"]
               /\ UNCHANGED vars

\* The account settings are REST only and have no websocket-only variant.
SetLeverage(r)     == Start(r, "SetLeverage", "Auto") /\ (Refuse(r) \/ TakeRest(r))
SetMarginMode(r)   == Start(r, "SetMarginMode", "Auto") /\ (Refuse(r) \/ TakeRest(r))
SetPositionMode(r) == Start(r, "SetPositionMode", "Auto") /\ (Refuse(r) \/ TakeRest(r))

StartCommand(r) ==
    \/ CreateOrder(r)
    \/ AmendOrder(r)
    \/ CancelOrder(r)
    \/ ClosePosition(r)
    \/ CancelAllOrders(r)
    \/ CancelAllInstruments(r)
    \/ SetLeverage(r)
    \/ SetMarginMode(r)
    \/ SetPositionMode(r)

----------------------------------------------------------------------------
(* The end of the websocket route.                                         *)

Return(r, v) ==
    /\ stage' = [stage EXCEPT ![r] = "returned"]
    /\ receipt' = [receipt EXCEPT ![r] = v]

\* classify_command on a reply: a body that cannot be decoded is an error.
Classify(kind) ==
    CASE kind = "accept"  -> "Accepted"
      [] kind = "reject"  -> "Rejected"
      [] kind = "garbled" -> "Err"

WsAnswered(r) ==
    /\ stage[r] = "ws" /\ pc[r] = "done"
    /\ outcome[r] \in AllReplyKinds
    /\ Return(r, Classify(outcome[r]))
    /\ UNCHANGED <<vars, op, mode, call, parts, restWire, restReply>>

\* Fault: an uncertain websocket write is sent again over REST.
WsUncertainFallsBack(r) ==
    /\ stage[r] = "ws" /\ pc[r] = "done"
    /\ outcome[r] = "Uncertain"
    /\ stage' = [stage EXCEPT ![r] = "rest"]
    /\ UNCHANGED <<vars, op, mode, call, parts, restWire, restReply, receipt>>

\* Fault: an uncertain websocket write is returned as a plain error.
WsUncertainAsError(r) ==
    /\ stage[r] = "ws" /\ pc[r] = "done"
    /\ outcome[r] = "Uncertain"
    /\ Return(r, "Err")
    /\ UNCHANGED <<vars, op, mode, call, parts, restWire, restReply>>

WsUncertain(r) ==
    /\ stage[r] = "ws" /\ pc[r] = "done"
    /\ outcome[r] = "Uncertain"
    /\ Return(r, "UnknownExecution")
    /\ UNCHANGED <<vars, op, mode, call, parts, restWire, restReply>>

\* Fault: the fallback to REST ignores the transport mode.
WsUnavailableFallsBack(r) ==
    /\ stage[r] = "ws" /\ pc[r] = "done"
    /\ outcome[r] = "Unavailable"
    /\ stage' = [stage EXCEPT ![r] = "rest"]
    /\ UNCHANGED <<vars, op, mode, call, parts, restWire, restReply, receipt>>

\* Unavailable: a websocket-only command returns the error, any other one is
\* sent again over REST.
WsUnavailable(r) ==
    /\ stage[r] = "ws" /\ pc[r] = "done"
    /\ outcome[r] = "Unavailable"
    /\ IF mode[r] = "WebSocketOnly"
         THEN Return(r, "Err")
         ELSE stage' = [stage EXCEPT ![r] = "rest"] /\ UNCHANGED receipt
    /\ UNCHANGED <<vars, op, mode, call, parts, restWire, restReply>>

----------------------------------------------------------------------------
(* The REST route: *_signed_request_text and response_text.                *)

\* Credentials or signing fail: nothing is sent.  A second call of the same
\* command uses the same credentials and signer.
RestNotSent(r) ==
    /\ stage[r] = "rest"
    /\ call[r] = 0
    /\ Return(r, "Err")
    /\ UNCHANGED <<vars, op, mode, call, parts, restWire, restReply>>

SendRest(r) ==
    /\ stage[r] = "rest"
    /\ call' = [call EXCEPT ![r] = @ + 1]
    /\ restWire' = restWire \cup {<<r, call[r] + 1>>}
    /\ stage' = [stage EXCEPT ![r] = "restAwait"]
    /\ UNCHANGED <<vars, op, mode, parts, restReply, receipt>>

\* The receipt of a whole command: mexc_merge_command_receipts, which with
\* one call is that call's receipt, and the two forms of Binance cancel-all.
MergeReceipts(o, ps) ==
    IF LooksAtBodiesLast(o)
      THEN IF o = "CancelAllInstruments" THEN "Accepted" ELSE Head(ps)
      ELSE IF "Rejected" \in Members(ps) THEN "Rejected"
      ELSE IF "UnknownExecution" \in Members(ps) THEN "UnknownExecution"
      ELSE "Accepted"

\* A REST call contributed its receipt v: go on or return the merged one.
FinishCall(r, v) ==
    IF call[r] < RestCalls(op[r])
      THEN /\ parts' = [parts EXCEPT ![r] = Append(@, v)]
           /\ stage' = [stage EXCEPT ![r] = "rest"]
           /\ UNCHANGED receipt
      ELSE /\ Return(r, MergeReceipts(op[r], Append(parts[r], v)))
           /\ UNCHANGED parts

\* A 2xx response is classified by its body; another status that is not a
\* server error is an error of the command (classify_http_error).
RestAnswered(r) ==
    /\ stage[r] = "restAwait"
    /\ restReply[r] # "none"
    /\ \/ /\ LooksAtBodiesLast(op[r]) \/ Classify(restReply[r]) # "Err"
          /\ FinishCall(r, Classify(restReply[r]))
       \/ restReply[r] # "accept" /\ Return(r, "Err") /\ UNCHANGED parts
    /\ restReply' = [restReply EXCEPT ![r] = "none"]
    /\ UNCHANGED <<vars, op, mode, call, restWire>>

\* A timeout, a transport error or a server error (is_uncertain_command_error),
\* whatever happened at the venue.
RestUncertain(r) ==
    /\ stage[r] = "restAwait"
    /\ IF KeepsUncertainty(op[r])
         THEN FinishCall(r, "UnknownExecution")
         ELSE Return(r, "Err") /\ UNCHANGED parts
    /\ restReply' = [restReply EXCEPT ![r] = "none"]
    /\ UNCHANGED <<vars, op, mode, call, restWire>>

\* The venue handles a REST call, perhaps after the client gave up on it.
VenueHandlesRest(r, c, kind) ==
    /\ <<r, c>> \in restWire
    /\ restWire' = restWire \ {<<r, c>>}
    /\ \E effect \in CASE kind = "accept" -> {1}
                       [] kind = "reject" -> {0}
                       [] OTHER -> {0, 1} :
         executed' = [executed EXCEPT ![r] = @ + effect]
    /\ restReply' = IF stage[r] = "restAwait" /\ c = call[r]
                      THEN [restReply EXCEPT ![r] = kind]
                      ELSE restReply
    /\ UNCHANGED <<hubVars, taskVars, callVars, wire, replies, written,
                   op, mode, stage, call, parts, receipt>>

\* The caller drops the command's future.
Abandon(r) ==
    /\ stage' = [stage EXCEPT ![r] = "abandoned"]
    /\ \/ stage[r] = "ws" /\ DropCall(r)
       \/ stage[r] = "restAwait" /\ UNCHANGED vars
    /\ restReply' = [restReply EXCEPT ![r] = "none"]
    /\ UNCHANGED <<op, mode, call, parts, restWire, receipt>>

----------------------------------------------------------------------------

CommandStep(r) ==
    \/ WsAnswered(r)
    \/ WsUncertain(r)
    \/ WsUnavailable(r)
    \/ RestNotSent(r)
    \/ SendRest(r)
    \/ RestAnswered(r)
    \/ RestUncertain(r)

\* The steps of the command websocket below the commands.
TransportStep ==
    /\ \/ \E r \in Requests : CallStep(r)
       \/ \E s \in Sessions : SessionStep(s)
       \/ VenueStep
    /\ UNCHANGED submitVars

Next ==
    \/ \E r \in Requests : StartCommand(r) \/ CommandStep(r) \/ Abandon(r)
    \/ \E r \in Requests, c \in 1 .. MaxCalls, kind \in ReplyKinds :
          VenueHandlesRest(r, c, kind)
    \/ TransportStep

Spec == Init /\ [][Next]_allVars

----------------------------------------------------------------------------
(* Properties                                                              *)

InFlight(r) ==
    \/ \E s \in Sessions : r \in wire[s] \cup Members(queue[s])
    \/ \E c \in 1 .. MaxCalls : <<r, c>> \in restWire

\* No command is carried out twice by the venue: neither the retry over a
\* second websocket session, nor the REST fallback after it, nor a frame that
\* is still queued when the caller has given up repeats a write.
ExecutedAtMostOnce ==
    \A r \in Requests :
        op[r] # "none" => executed[r] <= RestCalls(op[r])

\* A receipt other than UnknownExecution is proof: Accepted means the venue
\* carried the command out, Rejected or an error means that it did not and,
\* with nothing left in flight, never will.
Proven(r) ==
    /\ receipt[r] = "Accepted" => executed[r] = RestCalls(op[r])
    /\ receipt[r] \in {"Rejected", "Err"} => executed[r] = 0 /\ ~InFlight(r)

\* Orders and account settings, whose operations look for uncertain errors,
\* never report more than the venue's own answer proves, on whichever route
\* and after whichever retry, fallback or loss they got it.
ReceiptIsProof ==
    \A r \in Requests : KeepsUncertainty(op[r]) => Proven(r)

\* "Websocket-only command methods never fall back to REST."
WebSocketOnlyNeverRest ==
    \A r \in Requests : mode[r] = "WebSocketOnly" => call[r] = 0
============================================================================
