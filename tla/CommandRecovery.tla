--------------------------- MODULE CommandRecovery ---------------------------
(***************************************************************************)
(* What happens to a write whose outcome is unknown: the list of pending   *)
(* unknown commands, the reconcile tasks that read and rewrite it, the     *)
(* health report, and the handle on which the caller waits (runtime.rs:    *)
(* apply_command_receipt, reconcile_private, resolve_pending_unknown_      *)
(* commands; entry.rs: PendingCommandHandle::resolved).                    *)
(*                                                                         *)
(* Every command here ended as UnknownExecution.  Each one spawns its own  *)
(* recovery task; background tasks (the private stream's periodic          *)
(* reconcile, a reconnect, a manual call) run the same code beside them.   *)
(* An await separates two steps of a task, so tasks interleave there.      *)
(***************************************************************************)
EXTENDS Health

CONSTANTS
    Commands,    \* the uncertain commands, each also the name of its recovery task
    Background,  \* background reconcile tasks
    Kind,        \* per command: "create", "cancel" (or amend) or "setting"
    Casts,       \* which commands and background tasks take part, in any behaviour
    IdChoices,   \* per command, the best id it carries: "order", "client" or "none"
    Trigger,     \* per background task: "Periodic", "Manual" or "Reconnect"
    Venues,      \* the venues a client may be built for
    RestFails,   \* whether a REST call may fail
    StreamsMove  \* whether the public stream drops and returns meanwhile

Tasks == Commands \cup Background

ASSUME RecoveryAssumption ==
    /\ Commands \cap Background = {}
    /\ Kind \in [Commands -> {"create", "cancel", "setting"}]
    /\ Casts \subseteq SUBSET (Commands \cup Background)
    /\ IdChoices \subseteq [Commands -> {"order", "client", "none"}]
    /\ Trigger \in [Background -> {"Periodic", "Manual", "Reconnect"}]
    /\ Venues \subseteq {"Binance", "Bybit", "Mexc"}
    /\ RestFails \in BOOLEAN
    /\ StreamsMove \in BOOLEAN

VARIABLES
    venue,
    cast,       \* the commands and background tasks of this behaviour, one of Casts
    ids,        \* the id each command carries, one of IdChoices
    phase,      \* how far the command's own function got
    took,       \* whether the venue carried the command out
    flying,     \* whether it may still do so
    pending,    \* LiveRuntimeState.pending_unknown_commands
    known,      \* commands that match an order or execution of the engine state
    health,     \* the health report
    step,       \* where each task stands in reconcile_private
    deep,       \* the task's PrivateReconcileMode is RecentHistoryRepair
    seen,       \* the pending commands the task read
    left,       \* those it has not resolved yet
    todo,       \* those it has still to look up
    outcome,    \* the outcome its report will carry
    completed,  \* RecoveryCompleted on the command lane, by command
    resolved    \* what resolved() returned to the caller

fixed == <<venue, cast, ids>>
taskVars == <<step, deep, seen, left, todo, outcome>>
vars == <<fixed, phase, took, flying, pending, known, health, taskVars, completed, resolved>>

Steps == {"idle", "mode", "snapshots", "evidence", "read", "query", "orders",
          "executions", "report", "done"}
Outcomes == {"none", "Synchronized", "StillUncertain", "Err"}

Identified == {c \in Commands : ids[c] # "none"}
HasOrderId == {c \in Commands : ids[c] = "order"}

TypeOK ==
    /\ venue \in Venues
    /\ cast \in Casts
    /\ ids \in IdChoices
    /\ phase \in [Commands -> {"new", "uncertain", "cached", "receipted"}]
    /\ took \in [Commands -> BOOLEAN]
    /\ flying \in [Commands -> BOOLEAN]
    /\ pending \subseteq Commands
    /\ known \subseteq Commands
    /\ health \in HealthReport
    /\ step \in [Tasks -> Steps]
    /\ deep \in [Tasks -> BOOLEAN]
    /\ seen \in [Tasks -> SUBSET Commands]
    /\ left \in [Tasks -> SUBSET Commands]
    /\ todo \in [Tasks -> SUBSET Commands]
    /\ outcome \in [Tasks -> Outcomes]
    /\ completed \in [Commands -> Outcomes \ {"Err"}]
    /\ resolved \in [Commands -> {"none", "Accepted", "UnknownExecution"}]

\* The target of a cancel may be known before; both streams are connected.
Init ==
    /\ venue \in Venues
    /\ cast \in Casts
    /\ ids \in IdChoices
    /\ phase = [c \in Commands |-> "new"]
    /\ took = [c \in Commands |-> FALSE]
    /\ flying = [c \in Commands |-> FALSE]
    /\ pending = {}
    /\ known \in SUBSET {c \in Identified : Kind[c] = "cancel"}
    /\ health = [status |-> "Healthy", reason |-> "none", rest |-> TRUE,
                 public |-> TRUE, private |-> TRUE, diverged |-> FALSE]
    /\ step = [t \in Tasks |-> "idle"]
    /\ deep = [t \in Tasks |-> FALSE]
    /\ seen = [t \in Tasks |-> {}]
    /\ left = [t \in Tasks |-> {}]
    /\ todo = [t \in Tasks |-> {}]
    /\ outcome = [t \in Tasks |-> "none"]
    /\ completed = [c \in Commands |-> "none"]
    /\ resolved = [c \in Commands |-> "none"]

----------------------------------------------------------------------------
(* The command.                                                            *)

\* The write ends as UnknownExecution: it happened, it may yet happen, or it
\* never will.
BecomeUncertain(c) ==
    /\ c \in cast /\ phase[c] = "new"
    /\ phase' = [phase EXCEPT ![c] = "uncertain"]
    /\ \E t, f \in BOOLEAN :
         /\ ~(t /\ f)
         /\ took' = [took EXCEPT ![c] = t]
         /\ flying' = [flying EXCEPT ![c] = f]
    /\ UNCHANGED <<fixed, pending, known, health, taskVars, completed, resolved>>

TakeEffect(c) ==
    /\ flying[c]
    /\ flying' = [flying EXCEPT ![c] = FALSE]
    /\ took' = [took EXCEPT ![c] = TRUE]
    /\ UNCHANGED <<fixed, phase, pending, known, health, taskVars, completed, resolved>>

\* cache_pending_unknown; set_leverage and set_margin_mode do not call it.
CachePendingUnknown(c) ==
    /\ phase[c] = "uncertain"
    /\ phase' = [phase EXCEPT ![c] = "cached"]
    /\ pending' = IF Kind[c] = "setting" THEN pending ELSE pending \cup {c}
    /\ UNCHANGED <<fixed, took, flying, known, health, taskVars, completed, resolved>>

\* apply_command_receipt: degrade the health, spawn the recovery.
ApplyCommandReceipt(c) ==
    /\ phase[c] = "cached"
    /\ phase' = [phase EXCEPT ![c] = "receipted"]
    /\ health' = MarkCommandUncertain(health)
    /\ step' = [step EXCEPT ![c] = "mode"]
    /\ UNCHANGED <<fixed, took, flying, pending, known, deep, seen, left, todo, outcome,
                   completed, resolved>>

\* PendingCommandHandle::resolved with receipt_after_recovery.
Resolved(c) ==
    /\ phase[c] = "receipted"
    /\ resolved[c] = "none"
    /\ completed[c] # "none"
    /\ resolved' = [resolved EXCEPT ![c] =
                      IF completed[c] = "Synchronized" THEN "Accepted" ELSE "UnknownExecution"]
    /\ UNCHANGED <<fixed, phase, took, flying, pending, known, health, taskVars, completed>>

----------------------------------------------------------------------------
(* reconcile_private, one task.                                            *)

TriggerOf(t) == IF t \in Commands THEN "UnknownExecution" ELSE Trigger[t]

\* A background trigger fires; a task that finished may run again.
StartBackground(b) ==
    /\ b \in cast /\ step[b] \in {"idle", "done"}
    /\ step' = [step EXCEPT ![b] = "mode"]
    /\ outcome' = [outcome EXCEPT ![b] = "none"]
    /\ seen' = [seen EXCEPT ![b] = {}]
    /\ left' = [left EXCEPT ![b] = {}]
    /\ UNCHANGED <<fixed, phase, took, flying, pending, known, health, deep, todo, completed, resolved>>

NeedsRecentHistoryRepair ==
    \/ pending # {}
    \/ health.diverged
    \/ health.reason \in {"PrivateStreamGap", "ReconcileRequired", "CommandUncertain",
                          "StateDivergence"}

ReconcileMode(t) ==
    /\ step[t] = "mode"
    /\ deep' = [deep EXCEPT ![t] = TriggerOf(t) # "Periodic" \/ NeedsRecentHistoryRepair]
    /\ step' = [step EXCEPT ![t] = "snapshots"]
    /\ UNCHANGED <<fixed, phase, took, flying, pending, known, health, seen, left, todo, outcome,
                   completed, resolved>>

\* The commands for which the venue has an order or execution on record: an
\* order that was created, or the order that a cancel or amend names.
OnRecord == {c \in Identified : took[c] \/ Kind[c] = "cancel"}

\* A REST call failed: no later step runs, the report says StillUncertain.
Fail(t) ==
    /\ RestFails
    /\ step' = [step EXCEPT ![t] = "report"]
    /\ outcome' = [outcome EXCEPT ![t] = "Err"]
    /\ UNCHANGED <<fixed, phase, took, flying, pending, known, health, deep, seen, left, todo,
                   completed, resolved>>

\* The report a task will file for n unresolved commands.
Conclude(t, unresolved) ==
    /\ outcome' = [outcome EXCEPT ![t] =
                     IF unresolved = {} THEN "Synchronized" ELSE "StillUncertain"]
    /\ step' = [step EXCEPT ![t] = "report"]

\* refresh_account, refresh_positions, refresh_open_orders: what is known
\* becomes what the venue lists as open plus what is already terminal.
RefreshSnapshots(t) ==
    /\ step[t] = "snapshots"
    /\ \/ /\ \E listed \in SUBSET OnRecord, kept \in SUBSET known : known' = listed \cup kept
          /\ \E h \in {health, ObservePrivateMessage(health)} : health' = ObserveRestSuccess(h)
          /\ IF deep[t]
               THEN step' = [step EXCEPT ![t] = "evidence"] /\ UNCHANGED outcome
               ELSE Conclude(t, {})
          /\ UNCHANGED <<fixed, phase, took, flying, pending, deep, seen, left, todo, completed, resolved>>
       \/ Fail(t)

\* execution_repair_scope and refresh_execution_repair_evidence.
LocalEvidenceScope(t) ==
    \/ TriggerOf(t) \in {"Manual", "Reconnect"}
    \/ /\ TriggerOf(t) = "Periodic"
       /\ \/ health.diverged
          \/ health.reason \in {"PrivateStreamGap", "ReconcileRequired", "StateDivergence"}

RefreshEvidence(t) ==
    /\ step[t] = "evidence"
    /\ \/ /\ IF LocalEvidenceScope(t)
               THEN /\ \E found \in SUBSET OnRecord :
                         /\ known' = known \cup found
                         /\ health' = ObserveRestSuccess(IF found = {} THEN health
                                                         ELSE ObservePrivateMessage(health))
               ELSE UNCHANGED <<known, health>>
          /\ step' = [step EXCEPT ![t] = "read"]
          /\ UNCHANGED <<fixed, phase, took, flying, pending, deep, seen, left, todo, outcome,
                         completed, resolved>>
       \/ LocalEvidenceScope(t) /\ Fail(t)

\* resolve_pending_unknown_commands: read the list, drop what the engine
\* state already proves.  If nothing is left the list is not rewritten.
ReadPending(t) ==
    /\ step[t] = "read"
    /\ seen' = [seen EXCEPT ![t] = pending]
    /\ left' = [left EXCEPT ![t] = pending \ known]
    /\ todo' = [todo EXCEPT ![t] = pending \ known]
    /\ IF pending \subseteq known
         THEN Conclude(t, {})
         ELSE step' = [step EXCEPT ![t] = "query"] /\ UNCHANGED outcome
    /\ UNCHANGED <<fixed, phase, took, flying, pending, known, health, deep, completed, resolved>>

\* get_order finds the order and applies it to the engine state.
QueryFinds(t, c) ==
    /\ c \in OnRecord
    /\ venue = "Mexc" => c \in HasOrderId
    /\ known' = known \cup {c}
    /\ health' = ObserveRestSuccess(ObservePrivateMessage(health))
    /\ left' = [left EXCEPT ![t] = @ \ {c}]
    /\ todo' = [todo EXCEPT ![t] = @ \ {c}]
    /\ UNCHANGED <<fixed, phase, took, flying, pending, step, deep, seen, outcome, completed, resolved>>

\* Fault: an order the venue does not have counts as resolved.
QueryMissesResolves(t, c) ==
    /\ \/ c \notin Identified
       \/ venue = "Mexc" => c \in HasOrderId
    /\ todo' = [todo EXCEPT ![t] = @ \ {c}]
    /\ left' = [left EXCEPT ![t] = @ \ {c}]
    /\ UNCHANGED <<fixed, phase, took, flying, pending, known, health, step, deep, seen, outcome,
                   completed, resolved>>

\* The lookup is skipped for want of an id, or fails with ExchangeReject, which
\* is_missing_order_error takes for a missing order on every venue: the command
\* stays unresolved.  The venue may lag behind its own record, or have refused
\* the lookup for another reason.
QueryMisses(t, c) ==
    /\ \/ c \notin Identified
       \/ venue = "Mexc" => c \in HasOrderId
    /\ todo' = [todo EXCEPT ![t] = @ \ {c}]
    /\ UNCHANGED <<fixed, phase, took, flying, pending, known, health, step, deep, seen, left, outcome,
                   completed, resolved>>

\* The lookup fails with an error that is not taken for a missing order: on
\* Bybit an empty list is a DecodeError, on MEXC a lookup without an order id
\* is a ConfigError.
QueryErrs(t, c) ==
    /\ c \in Identified
    /\ \/ venue = "Bybit"
       \/ venue = "Mexc" /\ c \notin HasOrderId
    /\ step' = [step EXCEPT ![t] = "report"]
    /\ outcome' = [outcome EXCEPT ![t] = "Err"]
    /\ UNCHANGED <<fixed, phase, took, flying, pending, known, health, deep, seen, left, todo,
                   completed, resolved>>

QueryOrder(t) ==
    /\ step[t] = "query"
    /\ \E c \in todo[t] :
         \/ QueryFinds(t, c)
         \/ QueryMisses(t, c)
         \/ QueryErrs(t, c)
         \/ c \in Identified /\ Fail(t)

\* After the lookups: the engine state again, then perhaps an empty list.
RecheckLocalState(t) ==
    /\ step[t] = "query"
    /\ todo[t] = {}
    /\ left' = [left EXCEPT ![t] = @ \ known]
    /\ IF left[t] \subseteq known
         THEN pending' = {} /\ Conclude(t, {})
         ELSE step' = [step EXCEPT ![t] = "orders"] /\ UNCHANGED <<fixed, pending, outcome>>
    /\ UNCHANGED <<fixed, phase, took, flying, known, health, deep, seen, todo, completed, resolved>>

\* What a page of history proves, and what it does to engine state and health.
MergeHistory(t, found) ==
    /\ known' = known \cup found
    /\ health' = ObserveRestSuccess(IF found = {} THEN health ELSE ObservePrivateMessage(health))
    /\ left' = [left EXCEPT ![t] = @ \ found]

RecentOrderHistory(t) ==
    /\ step[t] = "orders"
    /\ \/ \E found \in SUBSET (left[t] \cap OnRecord) :
            /\ MergeHistory(t, found)
            /\ IF found = left[t]
                 THEN pending' = {} /\ Conclude(t, {})
                 ELSE step' = [step EXCEPT ![t] = "executions"] /\ UNCHANGED <<fixed, pending, outcome>>
            /\ UNCHANGED <<fixed, phase, took, flying, deep, seen, todo, completed, resolved>>
       \/ Fail(t)

\* Fault: the last look at the history always counts as synchronized.
RecentExecutionHistoryTrusted(t) ==
    /\ step[t] = "executions"
    /\ \/ \E found \in SUBSET (left[t] \cap OnRecord) :
            /\ MergeHistory(t, found)
            /\ pending' = left[t] \ found
            /\ Conclude(t, {})
            /\ UNCHANGED <<fixed, phase, took, flying, deep, seen, todo, completed, resolved>>
       \/ Fail(t)

\* replace_pending_unknown_commands with whatever this task could not resolve.
RecentExecutionHistory(t) ==
    /\ step[t] = "executions"
    /\ \/ \E found \in SUBSET (left[t] \cap OnRecord) :
            /\ MergeHistory(t, found)
            /\ pending' = left[t] \ found
            /\ Conclude(t, left[t] \ found)
            /\ UNCHANGED <<fixed, phase, took, flying, deep, seen, todo, completed, resolved>>
       \/ Fail(t)

\* Fault: RecoveryCompleted is emitted only for a synchronized report.
FileReportIfSynchronized(t) ==
    /\ step[t] = "report"
    /\ health' = CASE outcome[t] = "Synchronized"   -> MarkReconcileComplete(health)
                   [] outcome[t] = "StillUncertain" -> MarkReconcileRequired(health)
                   [] OTHER -> MarkSnapshotAge(MarkReconcileRequired(health), TRUE)
    /\ completed' = IF t \in Commands /\ outcome[t] = "Synchronized"
                      THEN [completed EXCEPT ![t] = outcome[t]]
                      ELSE completed
    /\ step' = [step EXCEPT ![t] = "done"]
    /\ UNCHANGED <<fixed, phase, took, flying, pending, known, deep, seen, left, todo, outcome, resolved>>

\* apply_reconcile_report, then RecoveryCompleted unless the reconcile failed.
FileReport(t) ==
    /\ step[t] = "report"
    /\ health' = CASE outcome[t] = "Synchronized"   -> MarkReconcileComplete(health)
                   [] outcome[t] = "StillUncertain" -> MarkReconcileRequired(health)
                   [] OTHER -> MarkSnapshotAge(MarkReconcileRequired(health), TRUE)
    /\ completed' = IF t \in Commands /\ outcome[t] # "Err"
                      THEN [completed EXCEPT ![t] = outcome[t]]
                      ELSE completed
    /\ step' = [step EXCEPT ![t] = "done"]
    /\ UNCHANGED <<fixed, phase, took, flying, pending, known, deep, seen, left, todo, outcome, resolved>>

----------------------------------------------------------------------------
(* The public stream beside it.                                            *)

PublicDisconnect ==
    /\ StreamsMove
    /\ health' = MarkPublicDisconnect(health)
    /\ UNCHANGED <<fixed, phase, took, flying, pending, known, taskVars, completed, resolved>>

PublicMessage ==
    /\ StreamsMove
    /\ health' = ObservePublicMessage(health)
    /\ UNCHANGED <<fixed, phase, took, flying, pending, known, taskVars, completed, resolved>>

----------------------------------------------------------------------------

CommandStep(c) == CachePendingUnknown(c) \/ ApplyCommandReceipt(c) \/ Resolved(c)

ReconcileStep(t) ==
    \/ ReconcileMode(t)
    \/ RefreshSnapshots(t)
    \/ RefreshEvidence(t)
    \/ ReadPending(t)
    \/ QueryOrder(t)
    \/ RecheckLocalState(t)
    \/ RecentOrderHistory(t)
    \/ RecentExecutionHistory(t)
    \/ FileReport(t)

Next ==
    \/ \E c \in Commands : BecomeUncertain(c) \/ TakeEffect(c) \/ CommandStep(c)
    \/ \E b \in Background : StartBackground(b)
    \/ \E t \in Tasks : ReconcileStep(t)
    \/ PublicDisconnect
    \/ PublicMessage

SafetySpec == Init /\ [][Next]_vars

\* The runtime polls every task it has spawned, and each REST call ends
\* (reqwest has a timeout); what the venue answers is up to the venue.
Spec ==
    /\ SafetySpec
    /\ \A c \in Commands : WF_vars(CommandStep(c))
    /\ \A t \in Tasks : WF_vars(ReconcileStep(t))

----------------------------------------------------------------------------
(* Properties                                                              *)

\* The command is the only one whose outcome became unknown.
Alone(c) == \A d \in Commands \ {c} : phase[d] = "new"

\* A receipt that recovery turned into Accepted stands for a write the venue
\* carried out: "If the write result cannot be proven, the receipt remains
\* UnknownExecution".
RecoveryIsProven ==
    \A c \in Commands : resolved[c] = "Accepted" => took[c]

\* The same for a command that has no other uncertain command beside it,
\* whatever the background reconciles and the streams do meanwhile.
LoneRecoveryIsProven ==
    \A c \in Commands : Alone(c) /\ resolved[c] = "Accepted" => took[c]

\* A task reports Synchronized only if every create command that it read from
\* the pending list did happen, whichever tasks ran beside it.
ReportCoversWhatWasRead ==
    \A t \in Tasks :
        outcome[t] = "Synchronized" =>
            \A c \in seen[t] : Kind[c] = "create" => took[c]

\* resolved() answers every caller whose recovery task did not fail, whatever
\* the other tasks do to the pending list meanwhile.
RecoveredHandlesResolve ==
    \A c \in Commands :
        phase[c] = "receipted" ~> resolved[c] # "none" \/ outcome[c] = "Err"
=============================================================================
