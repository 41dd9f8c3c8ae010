------------------------------ MODULE RunStore ------------------------------
(***************************************************************************)
(* The table test_runs (internal/storage/postgres) and the statements the  *)
(* API server, the worker and the janitor send to it, as operators on a    *)
(* table t.  A statement is one atomic step of whoever sends it.           *)
(*                                                                         *)
(* Of a time stamp only what the statements compare is kept: started_at is *)
(* NULL, within the janitor's stale threshold ("recent") or older ("old"). *)
(***************************************************************************)
CONSTANT Runs                   \* the runs clients ask for: the primary key

Statuses == {"QUEUED", "RUNNING", "PASSED", "FAILED", "ERROR"}
Verdicts == {"PASSED", "FAILED", "ERROR"}

\* error_message, by who wrote it: "enqueue" the API server, "run" the worker,
\* "stale" the janitor.
Errors == {"null", "enqueue", "run", "stale"}

Row == [status   : Statuses \cup {"absent"},
        started  : {"null", "recent", "old"},
        finished : BOOLEAN,             \* finished_at IS NOT NULL
        error    : Errors,
        prefix   : BOOLEAN]             \* artifact_prefix IS NOT NULL

EmptyTable == [r \in Runs |-> [status |-> "absent", started |-> "null",
                               finished |-> FALSE, error |-> "null",
                               prefix |-> FALSE]]

CreateTestRun(t, r) == [t EXCEPT ![r] = [@ EXCEPT !.status = "QUEUED"]]

\* No condition on the status, and the columns of an earlier attempt stay.
UpdateTestRunStarted(t, r) ==
    [t EXCEPT ![r] = [@ EXCEPT !.status = "RUNNING", !.started = "recent"]]

\* Mutants of UpdateTestRunFinished: an error message once set is kept; the
\* branch for a failed run forgets the update.
FinishedKeepsError(t, r, status, error, prefix) ==
    [t EXCEPT ![r] = [@ EXCEPT
        !.status = status, !.finished = TRUE, !.prefix = prefix,
        !.error = IF error = "null" THEN @ ELSE error]]
FinishedUnlessFailed(t, r, status, error, prefix) ==
    IF status = "FAILED" THEN t
    ELSE [t EXCEPT ![r] = [@ EXCEPT !.status = status, !.finished = TRUE,
                                    !.error = error, !.prefix = prefix]]

\* No condition on the status: the last writer wins.
UpdateTestRunFinished(t, r, status, error, prefix) ==
    [t EXCEPT ![r] = [@ EXCEPT !.status = status, !.finished = TRUE,
                               !.error = error, !.prefix = prefix]]

\* Mutant of MarkStaleRunAsError: no condition on the status.
MarkAnyRunAsError(t, r) ==
    [t EXCEPT ![r] = [@ EXCEPT !.status = "ERROR", !.finished = TRUE,
                               !.error = "stale"]]

\* WHERE status = 'RUNNING'; artifact_prefix is left alone.
MarkStaleRunAsError(t, r) ==
    IF t[r].status = "RUNNING"
    THEN [t EXCEPT ![r] = [@ EXCEPT !.status = "ERROR", !.finished = TRUE,
                                    !.error = "stale"]]
    ELSE t

\* Mutant of GetStaleRunningRuns: the comparison of started_at is turned round.
GetFreshRunningRuns(t) ==
    {r \in Runs : t[r].status = "RUNNING" /\ t[r].started = "recent"}

GetStaleRunningRuns(t) ==
    {r \in Runs : t[r].status = "RUNNING" /\ t[r].started = "old"}

\* The threshold passes for a row started before.
Grow(t, r) == [t EXCEPT ![r] = [@ EXCEPT !.started = "old"]]
=============================================================================
