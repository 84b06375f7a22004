------------------------ MODULE CommandRecoveryProofs ------------------------
(***************************************************************************)
(* Proofs about CommandRecovery, for any number of uncertain commands and  *)
(* of background reconciles, any ids, venues and triggers: a report covers *)
(* what its task read, and a command without another uncertain one beside  *)
(* it is accepted by recovery only if the venue carried it out.            *)
(***************************************************************************)
EXTENDS CommandRecovery, TLAPS

----------------------------------------------------------------------------
(* The health report keeps its shape.                                      *)

\* Every method that a reconcile or a stream calls returns a health report.
LEMMA HealthKept ==
    ASSUME NEW h \in HealthReport
    PROVE  /\ ObservePublicMessage(h) \in HealthReport
           /\ ObservePrivateMessage(h) \in HealthReport
           /\ ObserveRestSuccess(h) \in HealthReport
           /\ MarkPublicDisconnect(h) \in HealthReport
           /\ MarkCommandUncertain(h) \in HealthReport
           /\ MarkReconcileRequired(h) \in HealthReport
           /\ MarkReconcileComplete(h) \in HealthReport
           /\ MarkSnapshotAge(h, TRUE) \in HealthReport
  <1>1. ASSUME NEW g \in HealthReport, NEW s \in Statuses, NEW r \in Reasons
        PROVE  Grade(g, s, r) \in HealthReport
    BY <1>1 DEF Grade, HealthReport
  <1>2. /\ [h EXCEPT !.public = TRUE] \in HealthReport
        /\ [h EXCEPT !.public = FALSE] \in HealthReport
        /\ [h EXCEPT !.private = TRUE] \in HealthReport
        /\ [h EXCEPT !.rest = TRUE] \in HealthReport
        /\ [h EXCEPT !.diverged = FALSE] \in HealthReport
    BY DEF HealthReport
  <1>3. /\ {"Healthy", "DegradedPublicStream", "ReconcileRequired", "CommandUncertain",
            "ReadOnlySafe", "Disconnected"} \subseteq Statuses
        /\ {"none", "PublicStreamGap", "PrivateStreamGap", "SnapshotStale", "ReconcileRequired",
            "CommandUncertain", "Disconnected"} \subseteq Reasons
    BY DEF Statuses, Reasons
  <1>4. ObservePublicMessage(h) \in HealthReport
    BY <1>1, <1>2, <1>3 DEF ObservePublicMessage
  <1>5. ObservePrivateMessage(h) \in HealthReport
    BY <1>1, <1>2, <1>3 DEF ObservePrivateMessage
  <1>6. ObserveRestSuccess(h) \in HealthReport
    BY <1>1, <1>2, <1>3 DEF ObserveRestSuccess
  <1>7. MarkPublicDisconnect(h) \in HealthReport
    BY <1>1, <1>2, <1>3 DEF MarkPublicDisconnect, GradeIf
  <1>8. MarkCommandUncertain(h) \in HealthReport /\ MarkReconcileRequired(h) \in HealthReport
    BY <1>1, <1>3 DEF MarkCommandUncertain, MarkReconcileRequired
  <1>9. MarkReconcileComplete(h) \in HealthReport
    BY <1>1, <1>2, <1>3 DEF MarkReconcileComplete, GradeIf
  <1>10. MarkSnapshotAge(h, TRUE) \in HealthReport
    BY <1>1, <1>3 DEF MarkSnapshotAge
  <1> QED BY <1>4, <1>5, <1>6, <1>7, <1>8, <1>9, <1>10

----------------------------------------------------------------------------
(* The invariant.                                                          *)

\* A command: it has an effect only once sent, its task starts with its
\* receipt, and what its handle returns is what its task reported.
CommandInv(c) ==
    /\ phase[c] = "new" => ~took[c] /\ ~flying[c]
    /\ phase[c] # "receipted" => step[c] = "idle"
    /\ completed[c] = "Synchronized" => step[c] = "done" /\ outcome[c] = "Synchronized"
    /\ resolved[c] = "Accepted" => completed[c] = "Synchronized"

\* A task: before the read it has seen nothing, after it what it no longer
\* holds for unresolved is proven, and it goes on to the lookups only with
\* something to look up.  The task of a command always repairs in depth.
TaskInv(t) ==
    /\ step[t] \in {"idle", "mode", "snapshots", "evidence", "read"} => seen[t] = {}
    /\ step[t] \notin {"report", "done"} => outcome[t] = "none"
    /\ step[t] \in {"query", "orders", "executions"} => seen[t] # {}
    /\ t \in Commands /\ step[t] = "snapshots" => deep[t]
    /\ left[t] \subseteq seen[t]
    /\ \A c \in seen[t] : phase[c] # "new"
    /\ \A c \in seen[t] \ left[t] : Kind[c] = "create" => took[c]
    /\ outcome[t] = "Synchronized" => \A c \in seen[t] : Kind[c] = "create" => took[c]

\* The engine state holds an order only if it was created, and the pending
\* list only commands that were sent.
RecordInv ==
    /\ \A c \in known : Kind[c] = "create" => took[c]
    /\ \A c \in pending : phase[c] # "new"

\* A created order with no uncertain command beside it stays on the pending
\* list until it is proven, and its own task synchronizes only then.
LoneInv(c) ==
    Alone(c) /\ Kind[c] = "create" =>
        /\ phase[c] \in {"cached", "receipted"} => c \in pending \/ took[c]
        /\ outcome[c] = "Synchronized" => took[c]

RecoveryInv ==
    /\ TypeOK
    /\ RecordInv
    /\ \A c \in Commands : CommandInv(c) /\ LoneInv(c)
    /\ \A t \in Tasks : TaskInv(t)

----------------------------------------------------------------------------
(* What a step of a reconcile leaves alone.                                *)

\* A step of task t changes nothing of the commands at the venue and
\* nothing of the other tasks.
LEMMA TaskFrame ==
    ASSUME TypeOK, NEW t \in Tasks, ReconcileStep(t)
    PROVE  /\ UNCHANGED <<fixed, phase, took, flying, resolved>>
           /\ \A u \in Tasks \ {t} :
                /\ step'[u] = step[u] /\ deep'[u] = deep[u] /\ seen'[u] = seen[u]
                /\ left'[u] = left[u] /\ outcome'[u] = outcome[u]
  <1>1. CASE ReconcileMode(t)
    BY <1>1 DEF ReconcileMode, TypeOK
  <1>2. CASE RefreshSnapshots(t)
    BY <1>2 DEF RefreshSnapshots, Fail, Conclude, TypeOK
  <1>3. CASE RefreshEvidence(t)
    BY <1>3 DEF RefreshEvidence, Fail, TypeOK
  <1>4. CASE ReadPending(t)
    BY <1>4 DEF ReadPending, Conclude, TypeOK
  <1>5. CASE QueryOrder(t)
    BY <1>5 DEF QueryOrder, QueryFinds, QueryMisses, QueryErrs, Fail, TypeOK
  <1>6. CASE RecheckLocalState(t)
    BY <1>6 DEF RecheckLocalState, Conclude, TypeOK
  <1>7. CASE RecentOrderHistory(t)
    BY <1>7 DEF RecentOrderHistory, MergeHistory, Fail, Conclude, TypeOK
  <1>8. CASE RecentExecutionHistory(t)
    BY <1>8 DEF RecentExecutionHistory, MergeHistory, Fail, Conclude, TypeOK
  <1>9. CASE FileReport(t)
    BY <1>9 DEF FileReport, TypeOK
  <1> QED BY <1>1, <1>2, <1>3, <1>4, <1>5, <1>6, <1>7, <1>8, <1>9 DEF ReconcileStep

----------------------------------------------------------------------------
(* Types.                                                                  *)

\* The steps of a reconcile keep the types.
LEMMA TypeTask ==
    ASSUME TypeOK, NEW t \in Tasks, ReconcileStep(t)
    PROVE  TypeOK'
  <1>1. UNCHANGED <<venue, cast, ids, phase, took, flying, resolved>>
    BY TaskFrame DEF fixed
  <1>2. step' \in [Tasks -> Steps]
    BY DEF ReconcileStep, ReconcileMode, RefreshSnapshots, RefreshEvidence, ReadPending, QueryOrder,
       QueryFinds, QueryMisses, QueryErrs, RecheckLocalState, RecentOrderHistory,
       RecentExecutionHistory, FileReport, Fail, Conclude, TypeOK, Steps
  <1>3. outcome' \in [Tasks -> Outcomes]
    BY DEF ReconcileStep, ReconcileMode, RefreshSnapshots, RefreshEvidence, ReadPending, QueryOrder,
       QueryFinds, QueryMisses, QueryErrs, RecheckLocalState, RecentOrderHistory,
       RecentExecutionHistory, FileReport, Fail, Conclude, TypeOK, Outcomes
  <1>4. /\ deep' \in [Tasks -> BOOLEAN]
        /\ seen' \in [Tasks -> SUBSET Commands]
        /\ left' \in [Tasks -> SUBSET Commands]
        /\ todo' \in [Tasks -> SUBSET Commands]
    <2>1. CASE ReconcileMode(t)
      <3>1. (TriggerOf(t) # "Periodic" \/ NeedsRecentHistoryRepair) \in BOOLEAN
        OBVIOUS
      <3> QED BY <2>1, <3>1 DEF ReconcileMode, TypeOK
    <2>2. CASE ReadPending(t)
      BY <2>2 DEF ReadPending, TypeOK
    <2>3. CASE QueryOrder(t)
      <3>1. PICK c \in todo[t] : QueryFinds(t, c) \/ QueryMisses(t, c) \/ QueryErrs(t, c) \/ Fail(t)
        BY <2>3 DEF QueryOrder
      <3>2. CASE QueryFinds(t, c)
        BY <3>2 DEF QueryFinds, TypeOK
      <3>3. CASE QueryMisses(t, c)
        BY <3>3 DEF QueryMisses, TypeOK
      <3>4. CASE QueryErrs(t, c) \/ Fail(t)
        BY <3>4 DEF QueryErrs, Fail, TypeOK
      <3> QED BY <3>1, <3>2, <3>3, <3>4
    <2>4. CASE RecheckLocalState(t)
      BY <2>4 DEF RecheckLocalState, TypeOK
    <2>5. CASE RecentOrderHistory(t) \/ RecentExecutionHistory(t)
      <3>1. UNCHANGED <<deep, seen, todo>>
        BY <2>5 DEF RecentOrderHistory, RecentExecutionHistory, Fail
      <3>2. left' = left \/ \E found : left' = [left EXCEPT ![t] = @ \ found]
        BY <2>5 DEF RecentOrderHistory, RecentExecutionHistory, MergeHistory, Fail
      <3> QED BY <3>1, <3>2 DEF TypeOK
    <2>6. CASE RefreshSnapshots(t) \/ RefreshEvidence(t) \/ FileReport(t)
      BY <2>6 DEF RefreshSnapshots, RefreshEvidence, FileReport, Fail, TypeOK
    <2> QED BY <2>1, <2>2, <2>3, <2>4, <2>5, <2>6 DEF ReconcileStep
  <1>5. pending' \subseteq Commands /\ known' \subseteq Commands
    <2>1. OnRecord \subseteq Commands
      BY DEF OnRecord, Identified
    <2>2. CASE ReconcileMode(t) \/ ReadPending(t) \/ RecheckLocalState(t) \/ FileReport(t)
      BY <2>2 DEF ReconcileMode, ReadPending, RecheckLocalState, FileReport, TypeOK
    <2>3. CASE RefreshSnapshots(t) \/ RefreshEvidence(t)
      BY <2>1, <2>3 DEF RefreshSnapshots, RefreshEvidence, Fail, TypeOK
    <2>4. CASE QueryOrder(t)
      BY <2>1, <2>4 DEF QueryOrder, QueryFinds, QueryMisses, QueryErrs, Fail, TypeOK
    <2>5. CASE RecentOrderHistory(t) \/ RecentExecutionHistory(t)
      BY <2>1, <2>5 DEF RecentOrderHistory, RecentExecutionHistory, MergeHistory, Fail, TypeOK
    <2> QED BY <2>2, <2>3, <2>4, <2>5 DEF ReconcileStep
  <1>6. health' \in HealthReport
    <2>0. health \in HealthReport
      BY DEF TypeOK
    <2>1. /\ ObserveRestSuccess(health) \in HealthReport
          /\ ObserveRestSuccess(ObservePrivateMessage(health)) \in HealthReport
          /\ MarkReconcileComplete(health) \in HealthReport
          /\ MarkReconcileRequired(health) \in HealthReport
          /\ MarkSnapshotAge(MarkReconcileRequired(health), TRUE) \in HealthReport
      BY <2>0, HealthKept
    <2>2. CASE FileReport(t)
      BY <2>1, <2>2 DEF FileReport
    <2>3. CASE RefreshSnapshots(t) \/ RefreshEvidence(t)
      BY <2>0, <2>1, <2>3 DEF RefreshSnapshots, RefreshEvidence, Fail
    <2>4. CASE QueryOrder(t)
      BY <2>0, <2>1, <2>4 DEF QueryOrder, QueryFinds, QueryMisses, QueryErrs, Fail
    <2>5. CASE RecentOrderHistory(t) \/ RecentExecutionHistory(t)
      BY <2>0, <2>1, <2>5 DEF RecentOrderHistory, RecentExecutionHistory, MergeHistory, Fail
    <2>6. CASE ReconcileMode(t) \/ ReadPending(t) \/ RecheckLocalState(t)
      BY <2>0, <2>6 DEF ReconcileMode, ReadPending, RecheckLocalState
    <2> QED BY <2>2, <2>3, <2>4, <2>5, <2>6 DEF ReconcileStep
  <1>7. completed' \in [Commands -> Outcomes \ {"Err"}]
    <2>1. CASE FileReport(t)
      <3>1. outcome[t] \in Outcomes
        BY DEF TypeOK
      <3> QED BY <2>1, <3>1 DEF FileReport, TypeOK
    <2>2. CASE ~FileReport(t)
      BY <2>2 DEF ReconcileStep, ReconcileMode, RefreshSnapshots, RefreshEvidence, ReadPending,
         QueryOrder, QueryFinds, QueryMisses, QueryErrs, RecheckLocalState, RecentOrderHistory,
         RecentExecutionHistory, Fail, TypeOK
    <2> QED BY <2>1, <2>2
  <1> QED BY <1>1, <1>2, <1>3, <1>4, <1>5, <1>6, <1>7 DEF TypeOK, Identified

\* The steps of a command, of a trigger and of the public stream keep the types.
LEMMA TypeOther ==
    ASSUME TypeOK,
           \/ \E c \in Commands : BecomeUncertain(c) \/ TakeEffect(c) \/ CommandStep(c)
           \/ \E b \in Background : StartBackground(b)
           \/ PublicDisconnect \/ PublicMessage
    PROVE  TypeOK'
  <1>0. health \in HealthReport
    BY DEF TypeOK
  <1>1. ASSUME NEW c \in Commands, BecomeUncertain(c)
        PROVE  TypeOK'
    BY <1>1 DEF BecomeUncertain, TypeOK, fixed, taskVars
  <1>2. ASSUME NEW c \in Commands, TakeEffect(c)
        PROVE  TypeOK'
    BY <1>2 DEF TakeEffect, TypeOK, fixed, taskVars
  <1>3. ASSUME NEW c \in Commands, CachePendingUnknown(c)
        PROVE  TypeOK'
    BY <1>3 DEF CachePendingUnknown, TypeOK, fixed, taskVars
  <1>4. ASSUME NEW c \in Commands, ApplyCommandReceipt(c)
        PROVE  TypeOK'
    BY <1>0, <1>4, HealthKept DEF ApplyCommandReceipt, TypeOK, fixed, Steps, Tasks
  <1>5. ASSUME NEW c \in Commands, Resolved(c)
        PROVE  TypeOK'
    BY <1>5 DEF Resolved, TypeOK, fixed, taskVars
  <1>6. ASSUME NEW b \in Background, StartBackground(b)
        PROVE  TypeOK'
    BY <1>6 DEF StartBackground, TypeOK, fixed, Steps, Outcomes, Tasks
  <1>7. CASE PublicDisconnect \/ PublicMessage
    BY <1>0, <1>7, HealthKept DEF PublicDisconnect, PublicMessage, TypeOK, fixed, taskVars
  <1> QED BY <1>1, <1>2, <1>3, <1>4, <1>5, <1>6, <1>7 DEF CommandStep

----------------------------------------------------------------------------
(* What a step of a reconcile proves.                                      *)

\* An order on the venue's record that was to be created was created.
LEMMA RecordIsProof ==
    ASSUME NEW c \in OnRecord, Kind[c] = "create"
    PROVE  took[c]
  BY DEF OnRecord

\* The engine state learns only of orders that exist.
LEMMA KnownTask ==
    ASSUME TypeOK, RecordInv, NEW t \in Tasks, ReconcileStep(t)
    PROVE  \A c \in known' : Kind[c] = "create" => took[c]
  <1>1. known' \subseteq known \cup OnRecord
    <2>1. CASE ReconcileMode(t) \/ ReadPending(t) \/ RecheckLocalState(t) \/ FileReport(t)
      BY <2>1 DEF ReconcileMode, ReadPending, RecheckLocalState, FileReport
    <2>2. CASE RefreshSnapshots(t) \/ RefreshEvidence(t)
      BY <2>2 DEF RefreshSnapshots, RefreshEvidence, Fail
    <2>3. CASE QueryOrder(t)
      BY <2>3 DEF QueryOrder, QueryFinds, QueryMisses, QueryErrs, Fail
    <2>4. CASE RecentOrderHistory(t) \/ RecentExecutionHistory(t)
      BY <2>4 DEF RecentOrderHistory, RecentExecutionHistory, MergeHistory, Fail
    <2> QED BY <2>1, <2>2, <2>3, <2>4 DEF ReconcileStep
  <1> QED BY <1>1, RecordIsProof DEF RecordInv

\* A task rewrites the pending list only with what it read, and drops from
\* it only what it has proven; it does so only if it had something to prove.
LEMMA PendingTask ==
    ASSUME TypeOK, RecordInv, NEW t \in Tasks, TaskInv(t), ReconcileStep(t)
    PROVE  \/ pending' = pending
           \/ /\ seen[t] # {}
              /\ pending' \subseteq seen[t]
              /\ \A c \in seen[t] \ pending' : Kind[c] = "create" => took[c]
  <1>1. CASE RecheckLocalState(t)
    BY <1>1 DEF RecheckLocalState, TaskInv, RecordInv, TypeOK
  <1>2. CASE RecentOrderHistory(t)
    <2>1. CASE Fail(t)
      BY <2>1 DEF Fail
    <2>2. CASE ~Fail(t)
      <3>1. PICK found \in SUBSET (left[t] \cap OnRecord) :
                pending' = pending \/ (found = left[t] /\ pending' = {})
        BY <1>2, <2>2 DEF RecentOrderHistory
      <3>2. step[t] = "orders"
        BY <1>2 DEF RecentOrderHistory
      <3> QED BY <3>1, <3>2, RecordIsProof DEF TaskInv
    <2> QED BY <2>1, <2>2
  <1>3. CASE RecentExecutionHistory(t)
    <2>1. CASE Fail(t)
      BY <2>1 DEF Fail
    <2>2. CASE ~Fail(t)
      <3>1. PICK found \in SUBSET (left[t] \cap OnRecord) : pending' = left[t] \ found
        BY <1>3, <2>2 DEF RecentExecutionHistory
      <3>2. step[t] = "executions"
        BY <1>3 DEF RecentExecutionHistory
      <3> QED BY <3>1, <3>2, RecordIsProof DEF TaskInv
    <2> QED BY <2>1, <2>2
  <1>4. CASE QueryOrder(t)
    BY <1>4 DEF QueryOrder, QueryFinds, QueryMisses, QueryErrs, Fail
  <1>5. CASE \/ ReconcileMode(t) \/ RefreshSnapshots(t) \/ RefreshEvidence(t)
             \/ ReadPending(t) \/ FileReport(t)
    BY <1>5 DEF ReconcileMode, RefreshSnapshots, RefreshEvidence, ReadPending, FileReport, Fail
  <1> QED BY <1>1, <1>2, <1>3, <1>4, <1>5 DEF ReconcileStep

\* A task that gives up after a failed call reports nothing as proven.
LEMMA FailTask ==
    ASSUME TypeOK, NEW t \in Tasks, TaskInv(t),
           /\ step' = [step EXCEPT ![t] = "report"]
           /\ outcome' = [outcome EXCEPT ![t] = "Err"]
           /\ UNCHANGED <<phase, took, seen, left>>
    PROVE  TaskInv(t)'
  <1>1. step'[t] = "report" /\ outcome'[t] = "Err"
    BY DEF TypeOK
  <1> QED BY <1>1 DEF TaskInv

\* The task that takes a step keeps its part of the invariant.
LEMMA OwnTask ==
    ASSUME TypeOK, RecordInv, NEW t \in Tasks, TaskInv(t), ReconcileStep(t)
    PROVE  TaskInv(t)'
  <1>0. /\ UNCHANGED <<phase, took>>
        /\ step[t] \in Steps /\ seen[t] \subseteq Commands /\ left[t] \subseteq Commands
    BY TaskFrame DEF TypeOK
  <1>1. CASE ReconcileMode(t)
    <2>1. /\ step[t] = "mode" /\ step'[t] = "snapshots"
          /\ UNCHANGED <<seen, left, outcome>>
          /\ deep'[t] = (TriggerOf(t) # "Periodic" \/ NeedsRecentHistoryRepair)
      BY <1>1 DEF ReconcileMode, TypeOK
    <2>2. t \in Commands => deep'[t]
      BY <2>1 DEF TriggerOf
    <2> QED BY <1>0, <2>1, <2>2 DEF TaskInv
  <1>2. CASE RefreshSnapshots(t)
    <2>1. CASE Fail(t)
      BY <1>0, <2>1, FailTask DEF Fail
    <2>2. CASE ~Fail(t)
      <3>1. /\ step[t] = "snapshots" /\ UNCHANGED <<seen, left>>
            /\ \/ step'[t] = "evidence" /\ outcome' = outcome
               \/ step'[t] = "report"
        BY <1>2, <2>2 DEF RefreshSnapshots, Conclude, TypeOK
      <3> QED BY <1>0, <3>1 DEF TaskInv
    <2> QED BY <2>1, <2>2
  <1>3. CASE RefreshEvidence(t)
    <2>1. CASE Fail(t)
      BY <1>0, <2>1, FailTask DEF Fail
    <2>2. CASE ~Fail(t)
      <3>1. step[t] = "evidence" /\ step'[t] = "read" /\ UNCHANGED <<seen, left, outcome>>
        BY <1>3, <2>2 DEF RefreshEvidence, TypeOK
      <3> QED BY <1>0, <3>1 DEF TaskInv
    <2> QED BY <2>1, <2>2
  <1>4. CASE ReadPending(t)
    <2>1. /\ step[t] = "read" /\ seen'[t] = pending /\ left'[t] = pending \ known
          /\ \/ pending \subseteq known /\ step'[t] = "report"
             \/ ~(pending \subseteq known) /\ step'[t] = "query" /\ outcome' = outcome
      BY <1>4 DEF ReadPending, Conclude, TypeOK
    <2> QED BY <1>0, <2>1 DEF TaskInv, RecordInv
  <1>5. CASE QueryOrder(t)
    <2>1. PICK c \in todo[t] : QueryFinds(t, c) \/ QueryMisses(t, c) \/ QueryErrs(t, c) \/ Fail(t)
      BY <1>5 DEF QueryOrder
    <2>2. step[t] = "query"
      BY <1>5 DEF QueryOrder
    <2>3. CASE QueryFinds(t, c)
      <3>1. /\ c \in OnRecord /\ left'[t] = left[t] \ {c}
            /\ UNCHANGED <<step, seen, outcome, deep>>
        BY <2>3 DEF QueryFinds, TypeOK
      <3> QED BY <1>0, <2>2, <3>1, RecordIsProof DEF TaskInv
    <2>4. CASE QueryMisses(t, c)
      BY <1>0, <2>4 DEF QueryMisses, TaskInv
    <2>5. CASE QueryErrs(t, c) \/ Fail(t)
      BY <1>0, <2>5, FailTask DEF QueryErrs, Fail
    <2> QED BY <2>1, <2>3, <2>4, <2>5
  <1>6. CASE RecheckLocalState(t)
    <2>1. /\ step[t] = "query" /\ seen' = seen /\ left'[t] = left[t] \ known
          /\ \/ left[t] \subseteq known /\ step'[t] = "report"
             \/ step'[t] = "orders" /\ outcome' = outcome
      BY <1>6 DEF RecheckLocalState, Conclude, TypeOK
    <2> QED BY <1>0, <2>1 DEF TaskInv, RecordInv
  <1>7. CASE RecentOrderHistory(t)
    <2>1. CASE Fail(t)
      BY <1>0, <2>1, FailTask DEF Fail
    <2>2. CASE ~Fail(t)
      <3>1. PICK found \in SUBSET (left[t] \cap OnRecord) :
              /\ left'[t] = left[t] \ found
              /\ \/ found = left[t] /\ step'[t] = "report"
                 \/ step'[t] = "executions" /\ outcome' = outcome
        BY <1>7, <2>2 DEF RecentOrderHistory, MergeHistory, Conclude, TypeOK
      <3>2. step[t] = "orders" /\ seen' = seen
        BY <1>7, <2>2 DEF RecentOrderHistory
      <3> QED BY <1>0, <3>1, <3>2, RecordIsProof DEF TaskInv
    <2> QED BY <2>1, <2>2
  <1>8. CASE RecentExecutionHistory(t)
    <2>1. CASE Fail(t)
      BY <1>0, <2>1, FailTask DEF Fail
    <2>2. CASE ~Fail(t)
      <3>1. PICK found \in SUBSET (left[t] \cap OnRecord) :
              /\ left'[t] = left[t] \ found
              /\ step'[t] = "report"
              /\ outcome'[t] = "Synchronized" => left[t] \ found = {}
        BY <1>8, <2>2 DEF RecentExecutionHistory, MergeHistory, Conclude, TypeOK
      <3>2. step[t] = "executions" /\ seen' = seen
        BY <1>8, <2>2 DEF RecentExecutionHistory
      <3> QED BY <1>0, <3>1, <3>2, RecordIsProof DEF TaskInv
    <2> QED BY <2>1, <2>2
  <1>9. CASE FileReport(t)
    <2>1. step[t] = "report" /\ step'[t] = "done" /\ UNCHANGED <<deep, seen, left, outcome>>
      BY <1>9 DEF FileReport, TypeOK
    <2> QED BY <1>0, <2>1 DEF TaskInv
  <1> QED BY <1>1, <1>2, <1>3, <1>4, <1>5, <1>6, <1>7, <1>8, <1>9 DEF ReconcileStep

\* A task comes to Synchronized from the snapshots of a light reconcile, from
\* the list it has just read, or from the lookups for what it read before.
LEMMA ComesToSynchronized ==
    ASSUME TypeOK, NEW t \in Tasks, ReconcileStep(t), outcome'[t] = "Synchronized"
    PROVE  \/ outcome[t] = "Synchronized"
           \/ step[t] = "snapshots" /\ ~deep[t]
           \/ step[t] = "read" /\ seen'[t] = pending
           \/ step[t] \in {"query", "orders", "executions"} /\ seen'[t] = seen[t]
  <1>1. CASE ReconcileMode(t) \/ RefreshEvidence(t) \/ FileReport(t)
    BY <1>1 DEF ReconcileMode, RefreshEvidence, FileReport, Fail, TypeOK
  <1>2. CASE RefreshSnapshots(t)
    BY <1>2 DEF RefreshSnapshots, Fail, TypeOK
  <1>3. CASE ReadPending(t)
    BY <1>3 DEF ReadPending, TypeOK
  <1>4. CASE QueryOrder(t)
    BY <1>4 DEF QueryOrder, QueryFinds, QueryMisses, QueryErrs, Fail, TypeOK
  <1>5. CASE RecheckLocalState(t)
    BY <1>5 DEF RecheckLocalState
  <1>6. CASE RecentOrderHistory(t) \/ RecentExecutionHistory(t)
    BY <1>6 DEF RecentOrderHistory, RecentExecutionHistory, Fail
  <1> QED BY <1>1, <1>2, <1>3, <1>4, <1>5, <1>6 DEF ReconcileStep

\* A task in the middle of its work completes a command only with its own
\* report, and an idle or finished one takes no step.
LEMMA CompletesOwn ==
    ASSUME TypeOK, NEW t \in Tasks, ReconcileStep(t)
    PROVE  /\ step[t] \notin {"idle", "done"}
           /\ \/ completed' = completed
              \/ /\ t \in Commands /\ step'[t] = "done" /\ outcome'[t] = outcome[t]
                 /\ completed' = [completed EXCEPT ![t] = outcome[t]]
  <1>1. CASE FileReport(t)
    BY <1>1 DEF FileReport, TypeOK
  <1>2. CASE ~FileReport(t)
    BY <1>2 DEF ReconcileStep, ReconcileMode, RefreshSnapshots, RefreshEvidence, ReadPending,
       QueryOrder, QueryFinds, QueryMisses, QueryErrs, RecheckLocalState, RecentOrderHistory,
       RecentExecutionHistory, Fail
  <1> QED BY <1>1, <1>2

\* The steps of a reconcile keep the invariant.
LEMMA RecoveryTask ==
    ASSUME RecoveryInv, NEW t \in Tasks, ReconcileStep(t)
    PROVE  RecoveryInv'
  <1>0. /\ TypeOK /\ RecordInv /\ TaskInv(t)
        /\ \A c \in Commands : CommandInv(c) /\ LoneInv(c)
        /\ \A u \in Tasks : TaskInv(u)
        /\ Commands \subseteq Tasks
    BY DEF RecoveryInv, Tasks
  <1>1. TypeOK'
    BY <1>0, TypeTask
  <1>2. /\ UNCHANGED <<phase, took, flying, resolved>>
        /\ \A u \in Tasks \ {t} :
             /\ step'[u] = step[u] /\ deep'[u] = deep[u] /\ seen'[u] = seen[u]
             /\ left'[u] = left[u] /\ outcome'[u] = outcome[u]
    BY <1>0, TaskFrame
  <1>3. ASSUME NEW u \in Tasks PROVE TaskInv(u)'
    <2>1. CASE u = t
      BY <1>0, <2>1, OwnTask
    <2>2. CASE u # t
      BY <1>0, <1>2, <2>2 DEF TaskInv
    <2> QED BY <2>1, <2>2
  <1>4. \/ pending' = pending
        \/ /\ seen[t] # {}
           /\ pending' \subseteq seen[t]
           /\ \A c \in seen[t] \ pending' : Kind[c] = "create" => took[c]
    BY <1>0, PendingTask
  <1>5. RecordInv'
    <2>1. \A c \in known' : Kind[c] = "create" => took'[c]
      BY <1>0, <1>2, KnownTask
    <2>2. \A c \in pending' : phase'[c] # "new"
      BY <1>0, <1>2, <1>4 DEF RecordInv, TaskInv
    <2> QED BY <2>1, <2>2 DEF RecordInv
  <1>6. ASSUME NEW c \in Commands PROVE CommandInv(c)'
    <2>1. /\ step[t] \notin {"idle", "done"}
          /\ \/ completed' = completed
             \/ /\ t \in Commands /\ step'[t] = "done" /\ outcome'[t] = outcome[t]
                /\ completed' = [completed EXCEPT ![t] = outcome[t]]
      BY <1>0, CompletesOwn
    <2>2. CASE c = t
      BY <1>0, <1>2, <2>1, <2>2 DEF CommandInv, TypeOK
    <2>3. CASE c # t
      <3>1. completed'[c] = completed[c] /\ step'[c] = step[c] /\ outcome'[c] = outcome[c]
        BY <1>0, <1>2, <2>1, <2>3 DEF TypeOK
      <3> QED BY <1>0, <1>2, <3>1 DEF CommandInv
    <2> QED BY <2>2, <2>3
  <1>7. ASSUME NEW c \in Commands PROVE LoneInv(c)'
    <2> SUFFICES ASSUME Alone(c)', Kind[c] = "create"
                 PROVE  /\ phase'[c] \in {"cached", "receipted"} => c \in pending' \/ took'[c]
                        /\ outcome'[c] = "Synchronized" => took'[c]
      BY DEF LoneInv
    <2>1. Alone(c)
      BY <1>2 DEF Alone
    <2>2. /\ phase[c] \in {"cached", "receipted"} => c \in pending \/ took[c]
          /\ outcome[c] = "Synchronized" => took[c]
      BY <1>0, <2>1 DEF LoneInv
    <2>3. ASSUME NEW u \in Tasks PROVE seen[u] \subseteq {c}
      BY <1>0, <2>1 DEF TaskInv, Alone, TypeOK
    <2>4. phase'[c] \in {"cached", "receipted"} => c \in pending' \/ took'[c]
      BY <1>2, <1>4, <2>2, <2>3
    <2>5. ASSUME outcome'[c] = "Synchronized" PROVE took'[c]
      <3>1. CASE c # t
        BY <1>0, <1>2, <2>2, <2>5, <3>1
      <3>2. CASE c = t
        <4>0. phase[c] = "receipted"
          BY <1>0, <3>2, CompletesOwn DEF CommandInv
        <4>1. \/ outcome[c] = "Synchronized"
              \/ step[c] = "snapshots" /\ ~deep[c]
              \/ step[c] = "read" /\ seen'[c] = pending
              \/ step[c] \in {"query", "orders", "executions"} /\ seen'[c] = seen[c]
          BY <1>0, <2>5, <3>2, ComesToSynchronized
        <4>2. c \in seen'[c] => took'[c]
          BY <1>0, <1>3, <2>5 DEF TaskInv
        <4>3. step[c] \in {"query", "orders", "executions"} => c \in seen[c]
          BY <1>0, <2>3 DEF TaskInv
        <4>4. ~(step[c] = "snapshots" /\ ~deep[c])
          BY <1>0 DEF TaskInv
        <4> QED BY <1>2, <2>2, <4>0, <4>1, <4>2, <4>3, <4>4
      <3> QED BY <3>1, <3>2
    <2> QED BY <2>4, <2>5
  <1> QED BY <1>1, <1>3, <1>5, <1>6, <1>7 DEF RecoveryInv

----------------------------------------------------------------------------
(* The other steps.                                                        *)

\* The steps of a command keep the invariant.
LEMMA RecoveryCommand ==
    ASSUME RecoveryInv, NEW d \in Commands,
           BecomeUncertain(d) \/ TakeEffect(d) \/ CommandStep(d)
    PROVE  RecoveryInv'
  <1>0. /\ TypeOK /\ RecordInv
        /\ \A c \in Commands : CommandInv(c) /\ LoneInv(c)
        /\ \A u \in Tasks : TaskInv(u)
        /\ Commands \subseteq Tasks
    BY DEF RecoveryInv, Tasks
  <1>1. TypeOK'
    BY <1>0, TypeOther
  <1>2. /\ UNCHANGED <<known, deep, seen, left, outcome, completed>>
        /\ \A c \in Commands \ {d} :
             phase'[c] = phase[c] /\ took'[c] = took[c] /\ flying'[c] = flying[c]
             /\ resolved'[c] = resolved[c]
        /\ \A u \in Tasks \ {d} : step'[u] = step[u]
    BY <1>0 DEF BecomeUncertain, TakeEffect, CommandStep, CachePendingUnknown, ApplyCommandReceipt,
       Resolved, taskVars, TypeOK
  <1>3. /\ phase'[d] # "new" \/ phase'[d] = phase[d]
        /\ took[d] => took'[d]
        /\ phase[d] # "new" => phase'[d] # "new"
        /\ step'[d] = step[d] \/ (phase[d] = "cached" /\ phase'[d] = "receipted" /\ step'[d] = "mode")
        /\ pending \subseteq pending' /\ pending' \subseteq pending \cup {d}
        /\ pending' # pending => phase'[d] # "new"
    <2>1. CASE BecomeUncertain(d)
      BY <1>0, <2>1 DEF BecomeUncertain, CommandInv, TypeOK, taskVars
    <2>2. CASE TakeEffect(d)
      BY <1>0, <2>2 DEF TakeEffect, TypeOK, taskVars
    <2>3. CASE CachePendingUnknown(d)
      BY <1>0, <2>3 DEF CachePendingUnknown, TypeOK, taskVars
    <2>4. CASE ApplyCommandReceipt(d)
      BY <1>0, <2>4 DEF ApplyCommandReceipt, TypeOK
    <2>5. CASE Resolved(d)
      BY <1>0, <2>5 DEF Resolved, taskVars
    <2> QED BY <2>1, <2>2, <2>3, <2>4, <2>5 DEF CommandStep
  <1>4. RecordInv'
    BY <1>0, <1>2, <1>3 DEF RecordInv, TypeOK
  <1>5. CommandInv(d)'
    <2>1. CASE BecomeUncertain(d)
      BY <1>0, <2>1 DEF BecomeUncertain, CommandInv, TypeOK, taskVars
    <2>2. CASE TakeEffect(d)
      BY <1>0, <2>2 DEF TakeEffect, CommandInv, TypeOK, taskVars
    <2>3. CASE CachePendingUnknown(d)
      BY <1>0, <2>3 DEF CachePendingUnknown, CommandInv, TypeOK, taskVars
    <2>4. CASE ApplyCommandReceipt(d)
      BY <1>0, <2>4 DEF ApplyCommandReceipt, CommandInv, TypeOK
    <2>5. CASE Resolved(d)
      BY <1>0, <2>5 DEF Resolved, CommandInv, TypeOK, taskVars
    <2> QED BY <2>1, <2>2, <2>3, <2>4, <2>5 DEF CommandStep
  <1>6. ASSUME NEW c \in Commands, c # d PROVE CommandInv(c)'
    BY <1>0, <1>2, <1>6 DEF CommandInv
  <1>7. ASSUME NEW u \in Tasks PROVE TaskInv(u)'
    <2>1. /\ \A c \in seen[u] : phase'[c] # "new" /\ (took[c] => took'[c])
          /\ seen[u] \subseteq Commands
      BY <1>0, <1>2, <1>3 DEF TaskInv, TypeOK
    <2>2. CASE step'[u] = step[u]
      BY <1>0, <1>2, <2>1, <2>2 DEF TaskInv
    <2>3. CASE step'[u] # step[u]
      <3>1. u = d /\ phase[u] = "cached" /\ step'[u] = "mode"
        BY <1>2, <1>3, <2>3
      <3>2. step[u] = "idle"
        BY <1>0, <3>1 DEF CommandInv
      <3> QED BY <1>0, <1>2, <2>1, <3>1, <3>2 DEF TaskInv
    <2> QED BY <2>2, <2>3
  <1>8. ASSUME NEW c \in Commands PROVE LoneInv(c)'
    <2> SUFFICES ASSUME Alone(c)', Kind[c] = "create"
                 PROVE  /\ phase'[c] \in {"cached", "receipted"} => c \in pending' \/ took'[c]
                        /\ outcome'[c] = "Synchronized" => took'[c]
      BY DEF LoneInv
    <2>1. Alone(c)
      BY <1>2, <1>3 DEF Alone
    <2>2. /\ phase[c] \in {"cached", "receipted"} => c \in pending \/ took[c]
          /\ outcome[c] = "Synchronized" => took[c]
      BY <1>0, <2>1 DEF LoneInv
    <2>3. CASE c # d
      BY <1>2, <1>3, <2>2, <2>3
    <2>4. CASE c = d
      <3>1. phase'[c] \in {"cached", "receipted"} => c \in pending' \/ took'[c]
        <4>1. CASE BecomeUncertain(d)
          BY <1>0, <2>4, <4>1 DEF BecomeUncertain, TypeOK
        <4>2. CASE CachePendingUnknown(d)
          BY <2>4, <4>2 DEF CachePendingUnknown
        <4>3. CASE TakeEffect(d) \/ ApplyCommandReceipt(d) \/ Resolved(d)
          BY <1>0, <1>3, <2>2, <2>4, <4>3 DEF TakeEffect, ApplyCommandReceipt, Resolved, TypeOK
        <4> QED BY <4>1, <4>2, <4>3 DEF CommandStep
      <3> QED BY <1>2, <1>3, <2>2, <2>4, <3>1
    <2> QED BY <2>3, <2>4
  <1> QED BY <1>1, <1>4, <1>5, <1>6, <1>7, <1>8 DEF RecoveryInv

\* A background trigger keeps the invariant: the task starts with nothing read.
LEMMA RecoveryTrigger ==
    ASSUME RecoveryInv, NEW b \in Background, StartBackground(b)
    PROVE  RecoveryInv'
  <1>0. /\ TypeOK /\ RecordInv
        /\ \A c \in Commands : CommandInv(c) /\ LoneInv(c)
        /\ \A u \in Tasks : TaskInv(u)
        /\ b \in Tasks /\ Commands \subseteq Tasks \ {b}
    BY RecoveryAssumption DEF RecoveryInv, Tasks
  <1>1. TypeOK'
    BY <1>0, TypeOther
  <1>2. /\ UNCHANGED <<phase, took, flying, known, pending, deep, completed, resolved>>
        /\ step'[b] = "mode" /\ seen'[b] = {} /\ left'[b] = {} /\ outcome'[b] = "none"
        /\ \A u \in Tasks \ {b} :
             /\ step'[u] = step[u] /\ seen'[u] = seen[u]
             /\ left'[u] = left[u] /\ outcome'[u] = outcome[u]
    BY <1>0 DEF StartBackground, TypeOK
  <1>3. RecordInv'
    BY <1>0, <1>2 DEF RecordInv
  <1>4. ASSUME NEW c \in Commands PROVE CommandInv(c)' /\ LoneInv(c)'
    BY <1>0, <1>2 DEF CommandInv, LoneInv, Alone
  <1>5. ASSUME NEW u \in Tasks PROVE TaskInv(u)'
    <2>1. CASE u = b
      BY <1>2, <2>1 DEF TaskInv
    <2>2. CASE u # b
      BY <1>0, <1>2, <2>2 DEF TaskInv
    <2> QED BY <2>1, <2>2
  <1> QED BY <1>1, <1>3, <1>4, <1>5 DEF RecoveryInv

\* The invariant holds initially.
LEMMA RecoveryInit == Init => RecoveryInv
  <1> SUFFICES ASSUME Init PROVE RecoveryInv
    OBVIOUS
  <1>1. TypeOK
    <2>1. health \in HealthReport
      BY DEF Init, HealthReport, Statuses, Reasons
    <2> QED BY <2>1 DEF Init, TypeOK, Identified, Steps, Outcomes
  <1>2. RecordInv
    BY DEF Init, RecordInv
  <1>3. ASSUME NEW c \in Commands PROVE CommandInv(c) /\ LoneInv(c)
    BY DEF Init, CommandInv, LoneInv, Tasks
  <1>4. ASSUME NEW t \in Tasks PROVE TaskInv(t)
    BY DEF Init, TaskInv
  <1> QED BY <1>1, <1>2, <1>3, <1>4 DEF RecoveryInv

----------------------------------------------------------------------------
(* The theorems.                                                           *)

\* Every step keeps the invariant.
LEMMA RecoveryStep == RecoveryInv /\ [Next]_vars => RecoveryInv'
  <1> SUFFICES ASSUME RecoveryInv, [Next]_vars PROVE RecoveryInv'
    OBVIOUS
  <1>1. ASSUME NEW c \in Commands, BecomeUncertain(c) \/ TakeEffect(c) \/ CommandStep(c)
        PROVE  RecoveryInv'
    BY <1>1, RecoveryCommand
  <1>2. ASSUME NEW b \in Background, StartBackground(b)
        PROVE  RecoveryInv'
    BY <1>2, RecoveryTrigger
  <1>3. ASSUME NEW t \in Tasks, ReconcileStep(t)
        PROVE  RecoveryInv'
    BY <1>3, RecoveryTask
  <1>4. CASE PublicDisconnect \/ PublicMessage \/ UNCHANGED vars
    <2>1. UNCHANGED <<phase, took, flying, pending, known, step, deep, seen, left, outcome,
                      completed, resolved>>
      BY <1>4 DEF PublicDisconnect, PublicMessage, vars, taskVars
    <2>2. TypeOK'
      <3>1. CASE UNCHANGED vars
        BY <3>1 DEF RecoveryInv, TypeOK, vars, fixed, taskVars
      <3>2. CASE PublicDisconnect \/ PublicMessage
        BY <3>2, TypeOther DEF RecoveryInv
      <3> QED BY <1>4, <3>1, <3>2
    <2>3. RecordInv'
      BY <2>1 DEF RecoveryInv, RecordInv
    <2>4. ASSUME NEW c \in Commands PROVE CommandInv(c)' /\ LoneInv(c)'
      BY <2>1 DEF RecoveryInv, CommandInv, LoneInv, Alone
    <2>5. ASSUME NEW t \in Tasks PROVE TaskInv(t)'
      BY <2>1 DEF RecoveryInv, TaskInv
    <2> QED BY <2>2, <2>3, <2>4, <2>5 DEF RecoveryInv
  <1> QED BY <1>1, <1>2, <1>3, <1>4 DEF Next

\* The invariant holds in every reachable state, so the list of pending
\* unknown commands never loses one that is alone and unproven.
THEOREM RecoveryInvariant == SafetySpec => []RecoveryInv
  <1> QED BY RecoveryInit, RecoveryStep, PTL DEF SafetySpec

\* Every variable of the recovery keeps its type, the health report too.
THEOREM RecoveryTypes == SafetySpec => []TypeOK
  <1>1. RecoveryInv => TypeOK
    BY DEF RecoveryInv
  <1> QED BY <1>1, RecoveryInvariant, PTL

\* resolve_pending_unknown_commands reports Synchronized only if every create
\* command it read did happen, however many tasks rewrite the list meanwhile.
THEOREM ReportsCoverWhatWasRead == SafetySpec => []ReportCoversWhatWasRead
  <1>1. RecoveryInv => ReportCoversWhatWasRead
    BY DEF RecoveryInv, TaskInv, ReportCoversWhatWasRead
  <1> QED BY <1>1, RecoveryInvariant, PTL

\* resolved() turns the receipt of a create command that has no uncertain
\* command beside it into Accepted only if the venue carried it out, with any
\* number of background reconciles at any point of their own work.  A cancel
\* is excluded: its order is on record whether or not the cancel happened.
THEOREM LoneRecoveriesAreProven ==
    ASSUME \A c \in Commands : Kind[c] = "create"
    PROVE  SafetySpec => []LoneRecoveryIsProven
  <1>1. RecoveryInv => LoneRecoveryIsProven
    BY DEF RecoveryInv, CommandInv, LoneInv, LoneRecoveryIsProven
  <1> QED BY <1>1, RecoveryInvariant, PTL
=============================================================================
