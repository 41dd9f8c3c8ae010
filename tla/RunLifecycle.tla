---------------------------- MODULE RunLifecycle ----------------------------
(***************************************************************************)
(* The life of a test run: the API server that inserts the row and         *)
(* enqueues the task, the asynq queue, the worker processes with their     *)
(* task handlers (Consumer.Handle), the run's namespace in Kubernetes and  *)
(* the janitor goroutine of every worker process.                          *)
(***************************************************************************)
EXTENDS RunStore, Naturals, FiniteSets

CONSTANTS Workers,              \* worker processes (cmd/worker)
          Handlers,             \* handler goroutines they may have in all
          None,                 \* no run, no worker
          Concurrency,          \* handlers a process attends to at once
          JanitorOn,            \* Interval > 0 and StaleThreshold > 0
          HasBucket,            \* ArtifactS3.Bucket # ""
          MaxFaults,            \* bound: failed calls, timeouts and crashes
          MaxStops              \* bound: graceful shutdowns of a worker

ASSUME NoneAssumption == None \notin Runs \cup Workers
ASSUME ConstantAssumption == /\ Concurrency \in Nat \ {0}
                             /\ {JanitorOn, HasBucket} \subseteq BOOLEAN
                             /\ MaxFaults \in Nat
                             /\ MaxStops \in Nat

VARIABLES rows,                 \* the table test_runs
          request,              \* where the request that asks for a run is
          task,                 \* the run's task in the queue
          ns,                   \* the run's namespace
          worker,               \* state of each worker process
          handler,              \* state of each handler goroutine
          janitor,              \* state of each process's janitor
          faults, stops         \* counters behind the two bounds

vars == <<rows, request, task, ns, worker, handler, janitor, faults, stops>>

-----------------------------------------------------------------------------
(* Helpers *)

HandlerState ==
    [pc       : {"idle", "start", "namespace", "run", "upload", "finish",
                 "done", "failed"},
     run      : Runs \cup {None},
     worker   : Workers \cup {None},
     live     : BOOLEAN,        \* its task's context is not cancelled
     attached : BOOLEAN,        \* its process waits for what it returns
     verdict  : Verdicts,       \* what it is to write,
     prefix   : BOOLEAN]        \* and whether with an artifact prefix

JanitorState ==
    [pc    : {"idle", "deleting", "query", "marking"},
     dels  : SUBSET Runs,       \* namespaces listed and not yet deleted
     marks : SUBSET Runs]       \* runs read as stale and not yet marked

IdleHandler == [pc |-> "idle", run |-> None, worker |-> None, live |-> FALSE,
                attached |-> FALSE, verdict |-> "ERROR", prefix |-> FALSE]

IdleJanitor == [pc |-> "idle", dels |-> {}, marks |-> {}]

Idle(h) == handler[h].pc = "idle"

\* Handlers whose outcome the process w still waits for.
Attached(w) == {h \in Handlers : handler[h].attached /\ handler[h].worker = w}

NsAlive(r) == ns[r] \in {"recent", "old"}

\* Mutants of OldNamespaces: the list is not restricted by label; the age is not
\* compared; the comparison is turned round.
OldNamespacesUnlabelled == {r \in Runs : ns[r] = "old"} \cup {None}
AnyNamespaces == {r \in Runs : NsAlive(r)}
NewNamespaces == {r \in Runs : ns[r] = "recent"}

OldNamespaces == {r \in Runs : ns[r] = "old"}

\* Someone will still act on r: its request, its task or its handler.
Outstanding(r) == \/ request[r] \in {"enqueue", "marking"}
                  \/ task[r] \in {"pending", "active"}

Fault == faults < MaxFaults /\ faults' = faults + 1

\* Mutant of CallOk: the calls use a context of their own.
CallOkBackground(h) == UNCHANGED faults

\* A call of h made with the task's context.
CallOk(h) == handler[h].live /\ UNCHANGED faults
CallFails(h) == \/ ~handler[h].live /\ UNCHANGED faults
                \/ handler[h].live /\ Fault

Goto(h, pc) == handler' = [handler EXCEPT ![h].pc = pc]

Release(h, t) ==
    /\ handler' = [handler EXCEPT ![h] = IdleHandler]
    /\ task' = IF handler[h].attached
               THEN [task EXCEPT ![handler[h].run] = t]
               ELSE task

\* What is left of the goroutines of process w when it is gone: nothing.
Vanish(w) ==
    /\ handler' = [h \in Handlers |-> IF handler[h].worker = w
                                      THEN IdleHandler ELSE handler[h]]
    /\ janitor' = [janitor EXCEPT ![w] = IdleJanitor]

Init == /\ rows    = EmptyTable
        /\ request = [r \in Runs |-> "idle"]
        /\ task    = [r \in Runs |-> "none"]
        /\ ns      = [r \in Runs |-> "none"]
        /\ worker  = [w \in Workers |-> "up"]
        /\ handler = [h \in Handlers |-> IdleHandler]
        /\ janitor = [w \in Workers |-> IdleJanitor]
        /\ faults  = 0
        /\ stops   = 0

-----------------------------------------------------------------------------
(* The API server: POST of a test run (handleCreateTestRun) *)

\* 400 on a missing field, 500 on a failed insert: no row either way.
RefuseRequest(r) ==
    /\ request[r] = "idle"
    /\ request' = [request EXCEPT ![r] = "rejected"]
    /\ UNCHANGED <<rows, task, ns, worker, handler, janitor, faults, stops>>

InsertRow(r) ==
    /\ request[r] = "idle"
    /\ rows' = CreateTestRun(rows, r)
    /\ request' = [request EXCEPT ![r] = "enqueue"]
    /\ UNCHANGED <<task, ns, worker, handler, janitor, faults, stops>>

Enqueue(r) ==
    /\ request[r] = "enqueue"
    /\ task' = [task EXCEPT ![r] = "pending"]
    /\ request' = [request EXCEPT ![r] = "accepted"]
    /\ UNCHANGED <<rows, ns, worker, handler, janitor, faults, stops>>

\* Mutant of EnqueueFails: the error is not looked at.
EnqueueFailsUnseen(r) ==
    /\ request[r] = "enqueue"
    /\ Fault
    /\ request' = [request EXCEPT ![r] = "accepted"]
    /\ UNCHANGED <<rows, task, ns, worker, handler, janitor, stops>>

\* Enqueue returned an error; Redis may have stored the task all the same.
EnqueueFails(r) ==
    /\ request[r] = "enqueue"
    /\ Fault
    /\ \E t \in {"none", "pending"} : task' = [task EXCEPT ![r] = t]
    /\ request' = [request EXCEPT ![r] = "marking"]
    /\ UNCHANGED <<rows, ns, worker, handler, janitor, stops>>

MarkEnqueueError(r) ==
    /\ request[r] = "marking"
    /\ \/ /\ rows' = UpdateTestRunFinished(rows, r, "ERROR", "enqueue", FALSE)
          /\ UNCHANGED faults
       \/ Fault /\ UNCHANGED rows           \* the failed update is only logged
    /\ request' = [request EXCEPT ![r] = "rejected"]
    /\ UNCHANGED <<task, ns, worker, handler, janitor, stops>>

\* The server process dies between its calls: nobody resumes the request.
RequestLost(r) ==
    /\ request[r] \in {"enqueue", "marking"}
    /\ Fault
    /\ request' = [request EXCEPT ![r] = "lost"]
    /\ UNCHANGED <<rows, task, ns, worker, handler, janitor, stops>>

-----------------------------------------------------------------------------
(* The queue and the processes: asynq around Consumer.Handle *)

\* A process takes the pending task of r and starts a handler for it.
Dequeue(h, w, r) ==
    /\ Idle(h)
    /\ worker[w] = "up"
    /\ Cardinality(Attached(w)) < Concurrency
    /\ task[r] = "pending"
    /\ task' = [task EXCEPT ![r] = "active"]
    /\ handler' = [handler EXCEPT ![h] =
                     [pc |-> "start", run |-> r, worker |-> w, live |-> TRUE,
                      attached |-> TRUE, verdict |-> "ERROR", prefix |-> FALSE]]
    /\ UNCHANGED <<rows, request, ns, worker, janitor, faults, stops>>

\* The task's 30 minutes are over, or its lease is lost.
ContextEnds(h) ==
    /\ handler[h].attached /\ handler[h].live
    /\ Fault
    /\ handler' = [handler EXCEPT ![h].live = FALSE]
    /\ UNCHANGED <<rows, request, task, ns, worker, janitor, stops>>

\* The process no longer waits for a handler whose context ended: no retries
\* are left (MaxRetry(0)), the task is archived.  The goroutine runs on.
AbandonHandler(h) ==
    /\ handler[h].attached /\ ~handler[h].live
    /\ task' = [task EXCEPT ![handler[h].run] = "archived"]
    /\ handler' = [handler EXCEPT ![h].attached = FALSE]
    /\ UNCHANGED <<rows, request, ns, worker, janitor, faults, stops>>

\* Mutant of Requeue: the context is not cancelled.
RequeueOnly(h) ==
    /\ handler[h].attached
    /\ worker[handler[h].worker] = "stopping"
    /\ task' = [task EXCEPT ![handler[h].run] = "pending"]
    /\ handler' = [handler EXCEPT ![h].attached = FALSE]
    /\ UNCHANGED <<rows, request, ns, worker, janitor, faults, stops>>

\* A shutdown that a handler outlasts pushes its task back for another attempt
\* and cancels the context; the goroutine runs on until the process exits.
Requeue(h) ==
    /\ handler[h].attached
    /\ worker[handler[h].worker] = "stopping"
    /\ task' = [task EXCEPT ![handler[h].run] = "pending"]
    /\ handler' = [handler EXCEPT ![h].attached = FALSE, ![h].live = FALSE]
    /\ UNCHANGED <<rows, request, ns, worker, janitor, faults, stops>>

\* The lease of a task whose process died ran out: a recoverer archives it.
RecoverTask(r) ==
    /\ task[r] = "active"
    /\ \A h \in Handlers : ~(handler[h].attached /\ handler[h].run = r)
    /\ \E w \in Workers : worker[w] = "up"
    /\ task' = [task EXCEPT ![r] = "archived"]
    /\ UNCHANGED <<rows, request, ns, worker, handler, janitor, faults, stops>>

\* SIGTERM: the context of main, the janitor's, is cancelled as well.
StopWorker(w) ==
    /\ worker[w] = "up"
    /\ stops < MaxStops
    /\ stops' = stops + 1
    /\ worker' = [worker EXCEPT ![w] = "stopping"]
    /\ UNCHANGED <<rows, request, task, ns, handler, janitor, faults>>

ExitWorker(w) ==
    /\ worker[w] = "stopping"
    /\ Attached(w) = {}
    /\ worker' = [worker EXCEPT ![w] = "down"]
    /\ Vanish(w)
    /\ UNCHANGED <<rows, request, task, ns, faults, stops>>

CrashWorker(w) ==
    /\ worker[w] # "down"
    /\ Fault
    /\ worker' = [worker EXCEPT ![w] = "down"]
    /\ Vanish(w)
    /\ UNCHANGED <<rows, request, task, ns, stops>>

StartWorker(w) ==
    /\ worker[w] = "down"
    /\ worker' = [worker EXCEPT ![w] = "up"]
    /\ UNCHANGED <<rows, request, task, ns, handler, janitor, faults, stops>>

-----------------------------------------------------------------------------
(* Consumer.Handle, one action per call that others can see *)

\* UpdateTestRunStarted; its error is the handler's.
MarkStarted(h) ==
    /\ handler[h].pc = "start"
    /\ \/ /\ CallOk(h)
          /\ rows' = UpdateTestRunStarted(rows, handler[h].run)
          /\ Goto(h, "namespace")
       \/ CallFails(h) /\ Goto(h, "failed") /\ UNCHANGED rows
    /\ UNCHANGED <<request, task, ns, worker, janitor, stops>>

\* A namespace of that name that exists, even one being deleted, will do.
CreateNamespace(h) ==
    /\ handler[h].pc = "namespace"
    /\ \/ /\ CallOk(h)
          /\ ns' = [ns EXCEPT ![handler[h].run] =
                      IF @ = "none" THEN "recent" ELSE @]
          /\ Goto(h, "run")
       \/ CallFails(h) /\ Goto(h, "finish") /\ UNCHANGED ns
    /\ UNCHANGED <<rows, request, task, worker, janitor, stops>>

\* Runner.Run, as far as the run's row is concerned: a verdict comes from a
\* Job read in a namespace that is there, if only just (see Runner).
RunnerReturns(h) ==
    /\ handler[h].pc = "run"
    /\ \E v \in Verdicts :
         /\ v # "ERROR" => handler[h].live /\ ns[handler[h].run] # "none"
         /\ handler' = [handler EXCEPT ![h].pc = "upload", ![h].verdict = v]
    /\ UNCHANGED <<rows, request, task, ns, worker, janitor, faults, stops>>

\* UploadRunArtifacts: a failed upload still names the prefix, a failed
\* session does not.
Upload(h) ==
    /\ handler[h].pc = "upload"
    /\ \E p \in {FALSE, HasBucket} :
         handler' = [handler EXCEPT ![h].pc = "finish", ![h].prefix = p]
    /\ UNCHANGED <<rows, request, task, ns, worker, janitor, faults, stops>>

\* finishWithArtifacts, with the task's context: a failed update is only logged.
MarkFinished(h) ==
    /\ handler[h].pc = "finish"
    /\ \/ /\ CallOk(h)
          /\ LET v == handler[h].verdict
             IN  rows' = UpdateTestRunFinished(rows, handler[h].run, v,
                           IF v = "ERROR" THEN "run" ELSE "null",
                           handler[h].prefix)
       \/ CallFails(h) /\ UNCHANGED rows
    /\ Goto(h, "done")
    /\ UNCHANGED <<request, task, ns, worker, janitor, stops>>

\* Mutant of HandleReturns: the error of the first update is swallowed.
HandleReturnsNil(h) ==
    /\ handler[h].pc \in {"done", "failed"}
    /\ Release(h, "completed")
    /\ UNCHANGED <<rows, request, ns, worker, janitor, faults, stops>>

\* Handle returns nil, or the error of its first update, to asynq.
HandleReturns(h) ==
    /\ \/ handler[h].pc = "done"   /\ Release(h, "completed")
       \/ handler[h].pc = "failed" /\ Release(h, "archived")
    /\ UNCHANGED <<rows, request, ns, worker, janitor, faults, stops>>

-----------------------------------------------------------------------------
(* The janitor of process w: cleanStaleNamespaces, then markStaleRuns *)

JanitorAt(w, pc) == worker[w] # "down" /\ janitor[w].pc = pc

\* A call made with the context that StopWorker cancels.
JanitorCallFails(w) == \/ worker[w] = "stopping" /\ UNCHANGED faults
                       \/ worker[w] = "up" /\ Fault

ListNamespaces(w) ==
    /\ JanitorOn
    /\ worker[w] = "up"
    /\ JanitorAt(w, "idle")
    /\ \/ /\ janitor' = [janitor EXCEPT
                ![w].pc = IF OldNamespaces = {} THEN "query" ELSE "deleting",
                ![w].dels = OldNamespaces]
          /\ UNCHANGED faults
       \/ Fault /\ janitor' = [janitor EXCEPT ![w].pc = "query"]
    /\ UNCHANGED <<rows, request, task, ns, worker, handler, stops>>

\* The delete has a context of its own; an error is only logged.
DeleteNamespace(w, r) ==
    /\ JanitorAt(w, "deleting")
    /\ r \in janitor[w].dels
    /\ LET rest == janitor[w].dels \ {r}
       IN  janitor' = [janitor EXCEPT
             ![w].pc = IF rest = {} THEN "query" ELSE "deleting",
             ![w].dels = rest]
    /\ \/ /\ ns' = [ns EXCEPT ![r] = IF NsAlive(r) THEN "terminating" ELSE @]
          /\ UNCHANGED faults
       \/ Fault /\ UNCHANGED ns
    /\ UNCHANGED <<rows, request, task, worker, handler, stops>>

QueryStaleRuns(w) ==
    /\ JanitorAt(w, "query")
    /\ \/ /\ worker[w] = "up"
          /\ LET stale == GetStaleRunningRuns(rows)
             IN  janitor' = [janitor EXCEPT
                   ![w].pc = IF stale = {} THEN "idle" ELSE "marking",
                   ![w].marks = stale]
          /\ UNCHANGED faults
       \/ JanitorCallFails(w) /\ janitor' = [janitor EXCEPT ![w].pc = "idle"]
    /\ UNCHANGED <<rows, request, task, ns, worker, handler, stops>>

MarkStaleRun(w, r) ==
    /\ JanitorAt(w, "marking")
    /\ r \in janitor[w].marks
    /\ LET rest == janitor[w].marks \ {r}
       IN  janitor' = [janitor EXCEPT
             ![w].pc = IF rest = {} THEN "idle" ELSE "marking",
             ![w].marks = rest]
    /\ \/ /\ worker[w] = "up"
          /\ rows' = MarkStaleRunAsError(rows, r)
          /\ UNCHANGED faults
       \/ JanitorCallFails(w) /\ UNCHANGED rows
    /\ UNCHANGED <<request, task, ns, worker, handler, stops>>

-----------------------------------------------------------------------------
(* Time, and Kubernetes *)

\* Only of a RUNNING row is the age ever asked.
RowAges(r) ==
    /\ rows[r].status = "RUNNING" /\ rows[r].started = "recent"
    /\ rows' = Grow(rows, r)
    /\ UNCHANGED <<request, task, ns, worker, handler, janitor, faults, stops>>

NamespaceAges(r) ==
    /\ ns[r] = "recent"
    /\ ns' = [ns EXCEPT ![r] = "old"]
    /\ UNCHANGED <<rows, request, task, worker, handler, janitor, faults, stops>>

NamespaceGone(r) ==
    /\ ns[r] = "terminating"
    /\ ns' = [ns EXCEPT ![r] = "none"]
    /\ UNCHANGED <<rows, request, task, worker, handler, janitor, faults, stops>>

-----------------------------------------------------------------------------

RequestStep(r) == \/ RefuseRequest(r) \/ InsertRow(r) \/ Enqueue(r)
                  \/ EnqueueFails(r) \/ MarkEnqueueError(r) \/ RequestLost(r)

HandleStep(h) == \/ MarkStarted(h) \/ CreateNamespace(h) \/ RunnerReturns(h)
                 \/ Upload(h) \/ MarkFinished(h) \/ HandleReturns(h)

JanitorStep(w) == \/ ListNamespaces(w) \/ QueryStaleRuns(w)
                  \/ \E r \in Runs : DeleteNamespace(w, r) \/ MarkStaleRun(w, r)

ProcessStep(w) == \/ StopWorker(w) \/ ExitWorker(w)
                  \/ CrashWorker(w) \/ StartWorker(w)

Next == \/ \E r \in Runs : \/ RequestStep(r) \/ RecoverTask(r)
                           \/ RowAges(r) \/ NamespaceAges(r) \/ NamespaceGone(r)
                           \/ \E h \in Handlers, w \in Workers : Dequeue(h, w, r)
        \/ \E h \in Handlers : \/ HandleStep(h) \/ ContextEnds(h)
                               \/ AbandonHandler(h) \/ Requeue(h)
        \/ \E w \in Workers : JanitorStep(w) \/ ProcessStep(w)

Spec == Init /\ [][Next]_vars

(* Fairness: every goroutine that can run does; asynq takes tasks in order *)
(* (so none is passed over for ever), recovers expired leases and aborts a *)
(* shutdown that lasts; Kubernetes restarts the Deployment's process and   *)
(* finishes deletions; time passes.  Nothing is assumed of clients, faults *)
(* or shutdowns, and a client need not call.                               *)
Fairness ==
    /\ \A r \in Runs :
         /\ WF_vars(request[r] # "idle" /\ RequestStep(r))
         /\ SF_vars(\E h \in Handlers, w \in Workers : Dequeue(h, w, r))
         /\ WF_vars(RecoverTask(r))
         /\ WF_vars(RowAges(r))
         /\ WF_vars(NamespaceAges(r))
         /\ WF_vars(NamespaceGone(r))
    /\ \A h \in Handlers :
         WF_vars(HandleStep(h)) /\ WF_vars(AbandonHandler(h) \/ Requeue(h))
    /\ \A w \in Workers :
         WF_vars(JanitorStep(w)) /\ WF_vars(ExitWorker(w) \/ StartWorker(w))

FairSpec == Spec /\ Fairness

-----------------------------------------------------------------------------
(* Properties *)

\* Every variable has its type: rows are rows of test_runs, a handler that is
\* not idle has a run and a process, a janitor's work list is a set of runs.
TypeOK ==
    /\ rows \in [Runs -> Row]
    /\ request \in [Runs -> {"idle", "enqueue", "marking", "accepted",
                             "rejected", "lost"}]
    /\ task \in [Runs -> {"none", "pending", "active", "completed", "archived"}]
    /\ ns \in [Runs -> {"none", "recent", "old", "terminating"}]
    /\ worker \in [Workers -> {"up", "stopping", "down"}]
    /\ handler \in [Handlers -> HandlerState]
    /\ janitor \in [Workers -> JanitorState]
    /\ faults \in 0..MaxFaults
    /\ stops \in 0..MaxStops

\* Two handlers never act on one run at the same time: whoever still has a
\* working context is attended to by a process that is not down, is the only
\* such handler of its run, and the run's task is active.  It must survive
\* requeues on shutdown, lost leases and the recovery of a dead process's task.
OneLiveHandler ==
    \A h \in Handlers : handler[h].live =>
        /\ handler[h].attached
        /\ handler[h].run \in Runs
        /\ task[handler[h].run] = "active"
        /\ \A g \in Handlers \ {h} : handler[g].live =>
              handler[g].run # handler[h].run

\* A client that was told 201 has a row and a task, whatever crashes later.
AcceptedIsStored ==
    \A r \in Runs : request[r] = "accepted" =>
        rows[r].status # "absent" /\ task[r] # "none"

\* The columns of a row agree whoever wrote it last, the API server, a worker
\* or a janitor: a verdict is dated, an error message is there exactly with the
\* status ERROR, PASSED and FAILED come from a run that was started, and a
\* QUEUED row has nothing of an attempt.
RowsAgree ==
    \A r \in Runs : LET row == rows[r] IN
        /\ row.status \in Verdicts =>
              /\ row.finished
              /\ row.error # "null" <=> row.status = "ERROR"
        /\ row.status \in {"PASSED", "FAILED"} => row.started # "null"
        /\ row.status = "QUEUED" => /\ row.started = "null" /\ ~row.finished
                                    /\ row.error = "null"   /\ ~row.prefix

\* When no call failed, nothing timed out and no process crashed, a run nobody
\* is to act on any more has its verdict: whatever shutdowns pushed its task
\* back and whatever the janitors marked meanwhile, none is left RUNNING.
QuietRunsHaveVerdicts ==
    faults = 0 => \A r \in Runs : rows[r].status \in Verdicts
                                    \/ rows[r].status = "absent"
                                    \/ Outstanding(r)

WorkerVerdict(row) == row.status \in Verdicts /\ row.error \in {"null", "run"}

\* A verdict that a worker wrote is overwritten in two cases only: its task was
\* pushed back by a shutdown and a later attempt starts, or the API server is
\* still handling an Enqueue that reported an error though the task was stored.
\* In particular no janitor, however old the list it works from, touches it.
WorkerVerdictsStand ==
    [][\A r \in Runs : WorkerVerdict(rows[r]) =>
          \/ [rows'[r] EXCEPT !.started = "null"]
                = [rows[r] EXCEPT !.started = "null"]
          \/ rows'[r].status = "RUNNING" /\ task[r] = "active" /\ stops > 0
          \/ rows'[r].error = "enqueue" /\ request[r] = "marking"]_vars

\* With a single worker process the janitor deletes only namespaces that are
\* past the threshold when the delete is sent, though it works from a list it
\* took earlier.  (With two, a namespace another janitor deleted and a requeued
\* run created again can be hit while it is new.)
OnlyOldNamespacesDeleted ==
    [][\A r \in Runs : ns'[r] = "terminating" /\ ns[r] # "terminating"
                          => ns[r] = "old"]_vars

\* The client's view: see RunContract.  A run whose request is answered and
\* whose task is over is closed; a closed run is never worked on again and, the
\* janitor being on, does not stay RUNNING.
Contract == INSTANCE RunContract WITH
                status <- [r \in Runs |-> rows[r].status],
                open   <- [r \in Runs |-> Outstanding(r)]
ClosedRunsStayClosed == Contract!Spec
ClosedRunsSettle == Contract!FairSpec

\* The janitor leaves nothing behind: whatever fails or restarts, in the end
\* no namespace is left and no row is RUNNING.
NothingLeaks ==
    <>[](\A r \in Runs : ns[r] = "none" /\ rows[r].status # "RUNNING")

\* An accepted run does not wait for ever: a worker starts it, or its task is
\* archived (a worker died, or failed to mark it, before it began).
AcceptedRunsAreTaken ==
    \A r \in Runs : request[r] = "accepted" ~>
        \/ rows[r].status # "QUEUED"
        \/ task[r] = "archived"

-----------------------------------------------------------------------------
(* The inductive invariant behind TypeOK, OneLiveHandler, AcceptedIsStored *)
(* and RowsAgree (RunLifecycle_proofs).                                    *)

\* A handler that is not idle has a run and a process; while its context is not
\* cancelled it is attended to; a process attends to it while its run's task is
\* active, and no process then attends to another handler of that run.
Attendance ==
    \A h \in Handlers :
        /\ ~Idle(h) => handler[h].run \in Runs /\ handler[h].worker \in Workers
        /\ handler[h].live => handler[h].attached
        /\ handler[h].attached =>
              /\ ~Idle(h)
              /\ task[handler[h].run] = "active"
              /\ \A g \in Handlers \ {h} : handler[g].attached =>
                    handler[g].run # handler[h].run

\* A row is there before its task, and both before the answer 201.
RequestsMatch ==
    \A r \in Runs :
        /\ request[r] \in {"idle", "enqueue"} => task[r] = "none"
        /\ request[r] = "idle" => rows[r].status = "absent"
        /\ request[r] \in {"enqueue", "marking", "accepted"} =>
              rows[r].status # "absent"
        /\ request[r] = "accepted" => task[r] # "none"
        /\ task[r] # "none" => rows[r].status # "absent"

\* What only an attempt writes is not in a row before its first attempt.
RowsBegin ==
    /\ \A r \in Runs : rows[r].status = "absent" => rows[r] = EmptyTable[r]
    /\ \A h \in Handlers :
          handler[h].pc \in {"namespace", "run", "upload", "finish", "done"} =>
              rows[handler[h].run].started # "null"

IInv == /\ TypeOK
        /\ Attendance
        /\ RequestsMatch
        /\ RowsBegin
        /\ RowsAgree
=============================================================================
