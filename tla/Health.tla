------------------------------- MODULE Health -------------------------------
(***************************************************************************)
(* The health report of bat-markets (crates/bat-markets-core/src/health.rs) *)
(* as a record, one operator per method.  Timestamps, the clock skew, the  *)
(* reconnect count and the snapshot age are left out: no method branches   *)
(* on them except mark_snapshot_age, whose comparison is its parameter.    *)
(***************************************************************************)

Statuses == {"Healthy", "DegradedPublicStream", "DegradedPrivateStream",
             "ReconcileRequired", "CommandUncertain", "ReadOnlySafe", "Disconnected"}

Reasons == {"none", "PublicStreamGap", "PrivateStreamGap", "SnapshotStale",
            "ReconcileRequired", "CommandUncertain", "StateDivergence", "Disconnected"}

HealthReport == [status : Statuses, reason : Reasons, rest : BOOLEAN,
                 public : BOOLEAN, private : BOOLEAN, diverged : BOOLEAN]

DefaultHealth == [status |-> "Disconnected", reason |-> "Disconnected", rest |-> FALSE,
                  public |-> FALSE, private |-> FALSE, diverged |-> FALSE]

Grade(h, status, reason) == [h EXCEPT !.status = status, !.reason = reason]

\* The grade of a report none of whose channels may be trusted alone.
GradeIf(h, condition, status, reason) ==
    IF condition THEN Grade(h, status, reason) ELSE Grade(h, "Disconnected", "Disconnected")

ObservePublicMessage(h) ==
    LET seen == [h EXCEPT !.public = TRUE]
    IN  IF /\ h.status \in {"Disconnected", "DegradedPublicStream", "ReadOnlySafe"}
           /\ ~h.diverged
           /\ h.reason \notin {"ReconcileRequired", "CommandUncertain", "StateDivergence"}
          THEN Grade(seen, "Healthy", "none")
          ELSE seen

ObservePrivateMessage(h) ==
    LET seen == [h EXCEPT !.private = TRUE]
    IN  IF h.status \in {"Disconnected", "DegradedPrivateStream", "ReadOnlySafe"}
          THEN Grade(seen, "Healthy", "none")
          ELSE seen

ObserveRestSuccess(h) ==
    LET seen == [h EXCEPT !.rest = TRUE]
    IN  IF h.status = "Disconnected" THEN Grade(seen, "Healthy", "none") ELSE seen

MarkPublicDisconnect(h) ==
    GradeIf([h EXCEPT !.public = FALSE], h.private \/ h.rest,
            "DegradedPublicStream", "PublicStreamGap")

MarkPublicGap(h) ==
    Grade([h EXCEPT !.public = FALSE], "DegradedPublicStream", "PublicStreamGap")

MarkPrivateDisconnect(h) ==
    GradeIf([h EXCEPT !.private = FALSE], h.public \/ h.rest,
            "ReadOnlySafe", "PrivateStreamGap")

MarkPrivateGap(h) ==
    Grade([h EXCEPT !.private = FALSE], "ReconcileRequired", "PrivateStreamGap")

\* stale: the snapshot's age has reached snapshot_stale_after_ms.
MarkSnapshotAge(h, stale) ==
    IF stale /\ h.reason \notin {"CommandUncertain", "StateDivergence"}
      THEN Grade(h, "ReconcileRequired", "SnapshotStale")
      ELSE h

MarkReconcileRequired(h) == Grade(h, "ReconcileRequired", "ReconcileRequired")

MarkCommandUncertain(h) == Grade(h, "CommandUncertain", "CommandUncertain")

MarkStateDivergence(h) ==
    Grade([h EXCEPT !.diverged = TRUE], "ReconcileRequired", "StateDivergence")

MarkReconcileComplete(h) ==
    LET whole == [h EXCEPT !.diverged = FALSE]
    IN  IF h.public /\ (h.private \/ h.rest) THEN Grade(whole, "Healthy", "none")
        ELSE GradeIf(whole, h.public, "ReadOnlySafe", "PrivateStreamGap")
=============================================================================
