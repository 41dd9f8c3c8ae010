------------------------------ MODULE Artifacts ------------------------------
(***************************************************************************)
(* The logs of a run's Jobs: an attempt reads them from the pods           *)
(* (internal/worker/runner.go, fetchJobLogsByContainer), puts them under   *)
(* the run's prefix in the bucket (worker/artifacts.go) and offers the     *)
(* prefix in the row; the API server reads the row, and then the bucket    *)
(* (api/artifacts.go).  Attempts follow one another when a shutdown pushes *)
(* the task back; nobody ever deletes an object.                           *)
(*                                                                         *)
(* Other calls of an attempt are steps that succeed or fail (RunLifecycle, *)
(* Runner).  A log is known by the attempt that created its Job, the Job's *)
(* outcome and its size.                                                   *)
(***************************************************************************)
EXTENDS Naturals

CONSTANTS MaxAttempts,                  \* bound: deliveries of the task
          Sizes,                        \* bound: what pods may write
          LogLimit,                     \* maxLogBytes: what the worker reads
          ReadLimit                     \* maxArtifactReadBytes: the API server

ASSUME LimitsAssumption == /\ MaxAttempts \in Nat /\ Sizes \subseteq Nat \ {0}
                           /\ LogLimit \in Nat \ {0} /\ ReadLimit \in Nat
                           /\ LogLimit <= ReadLimit

VARIABLES cfg,                  \* is there a plugin to test, and a bucket
          job, removed,         \* the Jobs; history: those once deleted
          row, cleared,         \* the run's row; history: an attempt cleared
                                \* its prefix
          task,                 \* "pending", "active" or "gone"
          attempt, pc, at,      \* the attempt, its step, the stage it is at
          passed, verdict,      \* what it knows of the stage, and of the run
          logs, prefix,         \* RunResult's logs; the prefix it will write
          lost,                 \* history: stages it has no log of in the bucket
          shown,                \* history: logs and lost of the row's verdict
          object,               \* the bucket
          get, served           \* GETs of one artifact; history: was it served

locals == <<pc, at, passed, verdict, logs, prefix, lost>>
vars == <<cfg, job, removed, row, cleared, task, attempt, locals, shown, object,
          get, served>>

Stages == 1..3                          \* seeder, smoke, integration
Last == IF cfg.plugin THEN 3 ELSE 2     \* Run skips the integration Job
Cut(n, limit) == IF n <= limit THEN n ELSE limit

Log == [job : 0..MaxAttempts, passed : BOOLEAN, size : 0..LogLimit]
NoLog == [job |-> 0, passed |-> FALSE, size |-> 0]
NoLogs == [s \in Stages |-> NoLog]
NoJob == [by |-> 0, state |-> "absent", size |-> 0]

Init == /\ cfg \in [plugin : BOOLEAN, bucket : BOOLEAN]
        /\ job = [s \in Stages |-> NoJob] /\ removed = {}
        /\ row = [status |-> "QUEUED", prefix |-> FALSE] /\ cleared = FALSE
        /\ task = "pending"
        /\ attempt = 0 /\ pc = "idle" /\ at = 1
        /\ passed = FALSE /\ verdict = "ERROR"
        /\ logs = NoLogs /\ prefix = FALSE /\ lost = {}
        /\ shown = [logs |-> NoLogs, lost |-> {}]
        /\ object = NoLogs
        /\ get \in [pc : {"idle"}, name : Stages]
        /\ served = FALSE

-----------------------------------------------------------------------------
(* An attempt: Consumer.Handle *)

\* A delivery of the task, and UpdateTestRunStarted: the prefix of an earlier
\* attempt stays in the row.
Begin ==
    /\ task = "pending" /\ attempt < MaxAttempts
    /\ task' = "active" /\ attempt' = attempt + 1
    /\ row' = [row EXCEPT !.status = "RUNNING"]
    /\ shown' = [logs |-> NoLogs, lost |-> {}]
    /\ pc' = "namespace"
    /\ UNCHANGED <<cfg, job, removed, cleared, at, passed, verdict, logs, prefix,
                   lost, object, get, served>>

\* createNamespace; without it there is no run and no upload.
CreateNamespace ==
    /\ pc = "namespace"
    /\ pc' \in {"create", "finish"}
    /\ UNCHANGED <<cfg, job, removed, row, cleared, task, attempt, at, passed,
                   verdict, logs, prefix, lost, shown, object, get, served>>

\* applyJob: a Job that is there is taken as it is.
CreateJob ==
    /\ pc = "create"
    /\ job' = [job EXCEPT ![at] = IF @ = NoJob
                                  THEN [by |-> attempt, state |-> "running", size |-> 0]
                                  ELSE @]
    /\ pc' = "wait"
    /\ UNCHANGED <<cfg, removed, row, cleared, task, attempt, at, passed,
                   verdict, logs, prefix, lost, shown, object, get, served>>

\* A call before or during the wait fails, or the wait's time is up.
RunFails ==
    /\ pc \in {"create", "wait"}
    /\ verdict' = "ERROR" /\ pc' = "session"
    /\ UNCHANGED <<cfg, job, removed, row, cleared, task, attempt, at, passed,
                   logs, prefix, lost, shown, object, get, served>>

\* waitForJob
AwaitJob ==
    /\ pc = "wait"
    /\ job[at].state \in {"passed", "failed"}
    /\ passed' = (job[at].state = "passed")
    /\ pc' = "fetch"
    /\ UNCHANGED <<cfg, job, removed, row, cleared, task, attempt, at,
                   verdict, logs, prefix, lost, shown, object, get, served>>

\* After the log of a stage: the next one, or the verdict.
AfterStage ==
    IF passed /\ at < Last
    THEN pc' = "create" /\ at' = at + 1 /\ UNCHANGED verdict
    ELSE /\ pc' = "session" /\ UNCHANGED at
         /\ verdict' = IF passed THEN "PASSED"
                       ELSE IF at = 1 THEN "ERROR" ELSE "FAILED"

\* Mutants of FetchLog: the log of a test that failed is not returned; what a
\* pod wrote is read without limit.
FetchLogOfPassed ==
    /\ pc = "fetch"
    /\ \/ /\ job[at] # NoJob
          /\ logs' = [logs EXCEPT ![at] =
                IF passed THEN [job |-> job[at].by, passed |-> TRUE,
                                size |-> Cut(job[at].size, LogLimit)]
                          ELSE NoLog]
          /\ UNCHANGED lost
       \/ lost' = lost \cup {at} /\ UNCHANGED logs
    /\ AfterStage
    /\ UNCHANGED <<cfg, job, removed, row, cleared, task, attempt, passed,
                   prefix, shown, object, get, served>>
FetchWithoutLimit ==
    /\ pc = "fetch"
    /\ \/ /\ job[at] # NoJob
          /\ logs' = [logs EXCEPT ![at] = [job |-> job[at].by, passed |-> passed,
                                           size |-> job[at].size]]
          /\ UNCHANGED lost
       \/ lost' = lost \cup {at} /\ UNCHANGED logs
    /\ AfterStage
    /\ UNCHANGED <<cfg, job, removed, row, cleared, task, attempt, passed,
                   prefix, shown, object, get, served>>

\* fetchJobLogsByContainer: of the Job's pod, if the Job was not removed since;
\* a failure is a warning, and leaves an empty log, as a pod does that wrote none.
FetchLog ==
    /\ pc = "fetch"
    /\ \/ /\ job[at] # NoJob
          /\ logs' = [logs EXCEPT ![at] = [job |-> job[at].by, passed |-> passed,
                                           size |-> Cut(job[at].size, LogLimit)]]
          /\ UNCHANGED lost
       \/ lost' = lost \cup {at} /\ UNCHANGED logs
    /\ AfterStage
    /\ UNCHANGED <<cfg, job, removed, row, cleared, task, attempt, passed,
                   prefix, shown, object, get, served>>

\* UploadRunArtifacts up to the first put: no prefix without bucket or session.
OpenSession ==
    /\ pc = "session"
    /\ at' = 1
    /\ \/ cfg.bucket /\ pc' = "put" /\ prefix' = TRUE /\ UNCHANGED lost
       \/ pc' = "finish" /\ lost' = Stages /\ UNCHANGED prefix
    /\ UNCHANGED <<cfg, job, removed, row, cleared, task, attempt, passed,
                   verdict, logs, shown, object, get, served>>

NextPut == IF at = 3 THEN pc' = "finish" /\ UNCHANGED at
                     ELSE at' = at + 1 /\ UNCHANGED pc

\* Mutant of Put: an empty log is written over the one of an earlier attempt.
PutEmptyToo ==
    /\ pc = "put"
    /\ object' = [object EXCEPT ![at] = logs[at]]
    /\ NextPut
    /\ UNCHANGED <<cfg, job, removed, row, cleared, task, attempt, passed,
                   verdict, logs, prefix, lost, shown, get, served>>

\* An empty log is not uploaded: an earlier attempt's object stays.
Put ==
    /\ pc = "put"
    /\ object' = IF logs[at].size = 0 THEN object
                 ELSE [object EXCEPT ![at] = logs[at]]
    /\ NextPut
    /\ UNCHANGED <<cfg, job, removed, row, cleared, task, attempt, passed,
                   verdict, logs, prefix, lost, shown, get, served>>

\* The error ends the upload, done or not; the prefix is offered all the same.
PutFails ==
    /\ pc = "put" /\ logs[at].size > 0
    /\ object' \in {object, [object EXCEPT ![at] = logs[at]]}
    /\ lost' = lost \cup {s \in Stages : s >= at}
    /\ pc' = "finish"
    /\ UNCHANGED <<cfg, job, removed, row, cleared, task, attempt, at, passed,
                   verdict, logs, prefix, shown, get, served>>

\* finishWithArtifacts
Finish ==
    /\ pc = "finish"
    /\ \/ /\ row' = [status |-> verdict, prefix |-> prefix]
          /\ cleared' = (cleared \/ ~prefix)
          /\ shown' = [logs |-> logs, lost |-> lost]
       \/ UNCHANGED <<row, cleared, shown>>
    /\ pc' = "done"
    /\ UNCHANGED <<cfg, job, removed, task, attempt, at, passed, verdict, logs,
                   prefix, lost, object, get, served>>

\* Handle returns, its process dies, its time is up, or a shutdown that it
\* outlasts pushes the task back: no call of it does anything after that.
End ==
    /\ pc # "idle"
    /\ task' \in {"pending", "gone"}
    /\ pc' = "idle" /\ at' = 1 /\ passed' = FALSE /\ verdict' = "ERROR"
    /\ logs' = NoLogs /\ prefix' = FALSE /\ lost' = {}
    /\ UNCHANGED <<cfg, job, removed, row, cleared, attempt, shown, object, get,
                   served>>

-----------------------------------------------------------------------------
(* The cluster and the janitor *)

\* What becomes of a Job is a step of its own only while an attempt is at its
\* stage: nobody else can tell when it happened.
LookedAt(s) == at = s /\ pc \in {"create", "wait", "fetch"}

\* The smoke tests require a plugin.
JobEnds(s) ==
    /\ LookedAt(s)
    /\ job[s].state = "running"
    /\ \E r \in {"passed", "failed"}, n \in Sizes :
          /\ s = 2 /\ r = "passed" => cfg.plugin
          /\ job' = [job EXCEPT ![s] = [by |-> @.by, state |-> r, size |-> n]]
    /\ UNCHANGED <<cfg, removed, row, cleared, task, attempt, locals,
                   shown, object, get, served>>

\* With its pods, when its TTL is over or the namespace is deleted.
JobRemoved(s) ==
    /\ LookedAt(s)
    /\ job[s] # NoJob
    /\ job' = [job EXCEPT ![s] = NoJob]
    /\ removed' = removed \cup {s}
    /\ UNCHANGED <<cfg, row, cleared, task, attempt, locals,
                   shown, object, get, served>>

\* Mutant of MarkStale: the prefix is cleared with the rest.
MarkStaleAndClear ==
    /\ row.status = "RUNNING"
    /\ row' = [status |-> "ERROR", prefix |-> FALSE]
    /\ UNCHANGED <<cfg, job, removed, cleared, task, attempt, locals,
                   shown, object, get, served>>

\* MarkStaleRunAsError
MarkStale ==
    /\ row.status = "RUNNING"
    /\ row' = [row EXCEPT !.status = "ERROR"]
    /\ UNCHANGED <<cfg, job, removed, cleared, task, attempt, locals,
                   shown, object, get, served>>

-----------------------------------------------------------------------------
(* GET of an artifact: handleGetArtifact *)

\* GetTestRun; 404 when the row offers none.
ReadRow ==
    /\ get.pc # "read"
    /\ get' = [get EXCEPT !.pc = IF row.prefix THEN "read" ELSE "none"]
    /\ UNCHANGED <<cfg, job, removed, row, cleared, task, attempt, locals,
                   shown, object, served>>

Read(o) == [o EXCEPT !.size = Cut(@, ReadLimit)]

\* readArtifact; what S3 has no object for, or fails on, is answered by 404.
ReadObject ==
    /\ get.pc = "read"
    /\ \/ /\ object[get.name] # NoLog
          /\ get' = [get EXCEPT !.pc = IF Read(object[get.name]) = object[get.name]
                                     THEN "idle" ELSE "cut"]
          /\ served' = TRUE
       \/ /\ object[get.name] = NoLog
          /\ get' = [get EXCEPT !.pc = "missing"]
          /\ UNCHANGED served
       \/ get' = [get EXCEPT !.pc = "idle"] /\ UNCHANGED served
    /\ UNCHANGED <<cfg, job, removed, row, cleared, task, attempt, locals,
                   shown, object>>

-----------------------------------------------------------------------------

Attempt == \/ Begin \/ CreateNamespace \/ CreateJob \/ RunFails \/ AwaitJob
           \/ FetchLog \/ OpenSession \/ Put \/ PutFails \/ Finish \/ End

Next == \/ Attempt
        \/ \E s \in Stages : JobEnds(s) \/ JobRemoved(s)
        \/ MarkStale \/ ReadRow \/ ReadObject

Spec == Init /\ [][Next]_vars

-----------------------------------------------------------------------------
(* Properties *)

Documented(s) == row.prefix /\ object[s] = shown.logs[s]

\* The artifacts next to a verdict are the logs of the very Jobs it is from, in
\* whatever order earlier attempts left theirs under the same prefix: those of a
\* run that passed are logs of Jobs that passed, and one that failed shows the
\* log of a test that failed and of the stages before it.  Excepted are stages
\* of which the attempt lost the log; an earlier attempt's may stand there.
VerdictIsDocumented ==
    /\ row.status = "PASSED" =>
          \A s \in 1..Last \ shown.lost : Documented(s) /\ object[s].passed
    /\ row.status = "FAILED" =>
          \E f \in 2..Last :
             /\ f \notin shown.lost => Documented(f) /\ ~object[f].passed
             /\ \A s \in 1..(f - 1) \ shown.lost :
                    Documented(s) /\ object[s].passed

\* A rerun that takes over a Job stores the same log again: an artifact changes
\* only when its Job was removed and ran again, and never back to an older one.
ArtifactsStayPut ==
    [][\A s \in Stages : object[s] # NoLog =>
          /\ object'[s].job >= object[s].job
          /\ s \notin removed => object'[s] = object[s]]_vars

\* What a GET serves is whole.  And it is served again, with attempts, janitors
\* and the API server's two reads in any order: later GETs end without it only
\* when S3 fails, or when an attempt that had no namespace or no session took
\* the prefix from the row.
ServedAgain == /\ get.pc # "cut"
               /\ get.pc = "missing" => ~served
               /\ get.pc = "none" => ~served \/ cleared
=============================================================================
