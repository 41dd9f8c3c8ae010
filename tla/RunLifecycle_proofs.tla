------------------------ MODULE RunLifecycle_proofs -------------------------
(***************************************************************************)
(* Proofs about RunLifecycle, for any sets of runs, processes and handlers *)
(* and any values of the bounds: first what tasks, handlers and rows are;  *)
(* then what becomes of a verdict: who may overwrite one, that quiet runs  *)
(* have one, what a client may rely on, and that one janitor deletes old   *)
(* namespaces only.                                                        *)
(***************************************************************************)
EXTENDS RunLifecycle, TLAPS

-----------------------------------------------------------------------------
(* The statements of the store keep the table a table. *)

LEMMA StoreTypes ==
    ASSUME NEW t \in [Runs -> Row], NEW r \in Runs
    PROVE  /\ CreateTestRun(t, r) \in [Runs -> Row]
           /\ UpdateTestRunStarted(t, r) \in [Runs -> Row]
           /\ MarkStaleRunAsError(t, r) \in [Runs -> Row]
           /\ Grow(t, r) \in [Runs -> Row]
<1> USE DEF Row, Statuses, Errors
<1>1. CreateTestRun(t, r) \in [Runs -> Row]
  BY DEF CreateTestRun
<1>2. UpdateTestRunStarted(t, r) \in [Runs -> Row]
  BY DEF UpdateTestRunStarted
<1>3. MarkStaleRunAsError(t, r) \in [Runs -> Row]
  BY DEF MarkStaleRunAsError
<1>4. Grow(t, r) \in [Runs -> Row]
  BY DEF Grow
<1>5. QED
  BY <1>1, <1>2, <1>3, <1>4

LEMMA FinishedTypes ==
    ASSUME NEW t \in [Runs -> Row], NEW r \in Runs,
           NEW status \in Verdicts, NEW error \in Errors, NEW prefix \in BOOLEAN
    PROVE  UpdateTestRunFinished(t, r, status, error, prefix) \in [Runs -> Row]
  BY DEF UpdateTestRunFinished, Row, Statuses, Errors, Verdicts

-----------------------------------------------------------------------------
(* Types *)

LEMMA InitTypes == Init => TypeOK
  BY ConstantAssumption
  DEF Init, TypeOK, EmptyTable, Row, Statuses, Errors, Verdicts, IdleHandler,
      IdleJanitor, HandlerState, JanitorState

LEMMA HandlerTypes ==
    ASSUME NEW f \in [Handlers -> HandlerState], NEW h \in Handlers
    PROVE  /\ [f EXCEPT ![h].live = FALSE] \in [Handlers -> HandlerState]
           /\ [f EXCEPT ![h].attached = FALSE] \in [Handlers -> HandlerState]
           /\ [f EXCEPT ![h].attached = FALSE, ![h].live = FALSE]
                 \in [Handlers -> HandlerState]
<1> USE DEF HandlerState
<1>1. [f EXCEPT ![h].live = FALSE] \in [Handlers -> HandlerState]
  OBVIOUS
<1>2. [f EXCEPT ![h].attached = FALSE] \in [Handlers -> HandlerState]
  OBVIOUS
<1>3. [f EXCEPT ![h].attached = FALSE, ![h].live = FALSE]
         \in [Handlers -> HandlerState]
  OBVIOUS
<1>4. QED
  BY <1>1, <1>2, <1>3

LEMMA ResultTypes ==
    ASSUME NEW f \in [Handlers -> HandlerState], NEW h \in Handlers,
           NEW v \in Verdicts, NEW b \in BOOLEAN
    PROVE  /\ [f EXCEPT ![h].pc = "upload", ![h].verdict = v]
                 \in [Handlers -> HandlerState]
           /\ [f EXCEPT ![h].pc = "finish", ![h].prefix = b]
                 \in [Handlers -> HandlerState]
<1> USE DEF HandlerState
<1>1. [f EXCEPT ![h].pc = "upload", ![h].verdict = v]
         \in [Handlers -> HandlerState]
  OBVIOUS
<1>2. [f EXCEPT ![h].pc = "finish", ![h].prefix = b]
         \in [Handlers -> HandlerState]
  OBVIOUS
<1>3. QED
  BY <1>1, <1>2

LEMMA JanitorTypes ==
    ASSUME NEW f \in [Workers -> JanitorState], NEW w \in Workers,
           NEW pc \in {"idle", "deleting", "query", "marking"},
           NEW S \in SUBSET Runs
    PROVE  /\ [f EXCEPT ![w].pc = pc] \in [Workers -> JanitorState]
           /\ [f EXCEPT ![w].pc = pc, ![w].dels = S]
                 \in [Workers -> JanitorState]
           /\ [f EXCEPT ![w].pc = pc, ![w].marks = S]
                 \in [Workers -> JanitorState]
<1> USE DEF JanitorState
<1>1. [f EXCEPT ![w].pc = pc] \in [Workers -> JanitorState]
  OBVIOUS
<1>2. [f EXCEPT ![w].pc = pc, ![w].dels = S] \in [Workers -> JanitorState]
  OBVIOUS
<1>3. [f EXCEPT ![w].pc = pc, ![w].marks = S] \in [Workers -> JanitorState]
  OBVIOUS
<1>4. QED
  BY <1>1, <1>2, <1>3

LEMMA FaultTypes == TypeOK /\ Fault => faults' \in 0..MaxFaults
  BY ConstantAssumption DEF TypeOK, Fault

-----------------------------------------------------------------------------
(* Each actor's steps preserve the invariant. *)

LEMMA InitIInv == Init => IInv
<1> SUFFICES ASSUME Init PROVE IInv
  OBVIOUS
<1>1. TypeOK
  BY InitTypes
<1>2. Attendance
  BY DEF Init, Attendance, Idle, IdleHandler
<1>3. RequestsMatch
  BY DEF Init, RequestsMatch, EmptyTable
<1>4. RowsBegin
  BY DEF Init, RowsBegin, EmptyTable, IdleHandler
<1>5. RowsAgree
  BY DEF Init, RowsAgree, EmptyTable, Verdicts
<1>6. QED
  BY <1>1, <1>2, <1>3, <1>4, <1>5 DEF IInv

\* The API server touches neither handlers nor active tasks.
LEMMA RequestKeepsIInv ==
    ASSUME IInv, NEW r \in Runs, RequestStep(r)
    PROVE  IInv'
<1> USE DEF IInv
<1>1. CASE RefuseRequest(r)
  <2>1. TypeOK'
    BY <1>1 DEF TypeOK, RefuseRequest
  <2>2. Attendance'
    BY <1>1 DEF Attendance, Idle, RefuseRequest
  <2>3. RequestsMatch'
    BY <1>1 DEF TypeOK, RequestsMatch, RefuseRequest
  <2>4. RowsBegin' /\ RowsAgree'
    BY <1>1 DEF RowsBegin, RowsAgree, RefuseRequest
  <2>5. QED
    BY <2>1, <2>2, <2>3, <2>4
<1>2. CASE InsertRow(r)
  <2>1. TypeOK'
    BY <1>2, StoreTypes DEF TypeOK, InsertRow
  <2>2. Attendance'
    BY <1>2 DEF Attendance, Idle, InsertRow
  <2>3. RequestsMatch'
    BY <1>2 DEF TypeOK, RequestsMatch, InsertRow, CreateTestRun, Row
  <2>4. rows[r] = EmptyTable[r]
    BY <1>2 DEF InsertRow, RequestsMatch, RowsBegin
  <2>5. RowsBegin'
    BY <1>2 DEF TypeOK, RowsBegin, InsertRow, CreateTestRun, Row
  <2>6. RowsAgree'
    BY <1>2, <2>4
    DEF TypeOK, RowsAgree, InsertRow, CreateTestRun, EmptyTable, Row, Verdicts
  <2>7. QED
    BY <2>1, <2>2, <2>3, <2>5, <2>6
<1>3. CASE Enqueue(r)
  <2>1. TypeOK'
    BY <1>3 DEF TypeOK, Enqueue
  <2>2. Attendance'
    BY <1>3 DEF TypeOK, Attendance, RequestsMatch, Idle, Enqueue
  <2>3. RequestsMatch'
    BY <1>3 DEF TypeOK, RequestsMatch, Enqueue
  <2>4. RowsBegin' /\ RowsAgree'
    BY <1>3 DEF RowsBegin, RowsAgree, Enqueue
  <2>5. QED
    BY <2>1, <2>2, <2>3, <2>4
<1>4. CASE EnqueueFails(r)
  <2>1. TypeOK'
    BY <1>4, FaultTypes DEF TypeOK, EnqueueFails
  <2>2. Attendance'
    BY <1>4 DEF TypeOK, Attendance, RequestsMatch, Idle, EnqueueFails
  <2>3. RequestsMatch'
    BY <1>4 DEF TypeOK, RequestsMatch, EnqueueFails
  <2>4. RowsBegin' /\ RowsAgree'
    BY <1>4 DEF RowsBegin, RowsAgree, EnqueueFails
  <2>5. QED
    BY <2>1, <2>2, <2>3, <2>4
<1>5. CASE MarkEnqueueError(r)
  <2>1. CASE UNCHANGED rows
    <3>1. TypeOK'
      BY <1>5, <2>1, FaultTypes DEF TypeOK, MarkEnqueueError
    <3>2. Attendance'
      BY <1>5 DEF Attendance, Idle, MarkEnqueueError
    <3>3. RequestsMatch'
      BY <1>5, <2>1 DEF TypeOK, RequestsMatch, MarkEnqueueError
    <3>4. RowsBegin' /\ RowsAgree'
      BY <1>5, <2>1 DEF RowsBegin, RowsAgree, MarkEnqueueError
    <3>5. QED
      BY <3>1, <3>2, <3>3, <3>4
  <2>2. CASE rows' = UpdateTestRunFinished(rows, r, "ERROR", "enqueue", FALSE)
    <3>1. rows' \in [Runs -> Row]
      BY <2>2, FinishedTypes DEF TypeOK, Verdicts, Errors
    <3>2. TypeOK'
      BY <1>5, <3>1, FaultTypes DEF TypeOK, MarkEnqueueError
    <3>3. Attendance'
      BY <1>5 DEF Attendance, Idle, MarkEnqueueError
    <3>4. rows[r].status # "absent"
      BY <1>5 DEF RequestsMatch, MarkEnqueueError
    <3>5. RequestsMatch'
      BY <1>5, <2>2 DEF TypeOK, RequestsMatch, MarkEnqueueError,
                        UpdateTestRunFinished, Row
    <3>6. RowsBegin'
      BY <1>5, <2>2 DEF TypeOK, RowsBegin, MarkEnqueueError,
                        UpdateTestRunFinished, Row, HandlerState
    <3>7. RowsAgree'
      BY <1>5, <2>2 DEF TypeOK, RowsAgree, MarkEnqueueError,
                        UpdateTestRunFinished, Row, Verdicts
    <3>8. QED
      BY <3>2, <3>3, <3>5, <3>6, <3>7
  <2>3. QED
    BY <1>5, <2>1, <2>2 DEF MarkEnqueueError
<1>6. CASE RequestLost(r)
  <2>1. TypeOK'
    BY <1>6, FaultTypes DEF TypeOK, RequestLost
  <2>2. Attendance'
    BY <1>6 DEF Attendance, Idle, RequestLost
  <2>3. RequestsMatch'
    BY <1>6 DEF TypeOK, RequestsMatch, RequestLost
  <2>4. RowsBegin' /\ RowsAgree'
    BY <1>6 DEF RowsBegin, RowsAgree, RequestLost
  <2>5. QED
    BY <2>1, <2>2, <2>3, <2>4
<1>7. QED
  BY <1>1, <1>2, <1>3, <1>4, <1>5, <1>6 DEF RequestStep

\* A task pending has no handler attended to; so at most one ever is.
LEMMA DequeueKeepsIInv ==
    ASSUME IInv, NEW h \in Handlers, NEW w \in Workers, NEW r \in Runs,
           Dequeue(h, w, r)
    PROVE  IInv'
<1> USE DEF IInv
<1>1. TypeOK'
  BY DEF TypeOK, Dequeue, HandlerState, Verdicts
<1>2. Attendance'
  BY DEF TypeOK, Attendance, Idle, Dequeue, HandlerState
<1>3. RequestsMatch'
  BY DEF TypeOK, RequestsMatch, Dequeue
<1>4. RowsBegin' /\ RowsAgree'
  BY DEF TypeOK, RowsBegin, RowsAgree, Dequeue, HandlerState
<1>5. QED
  BY <1>1, <1>2, <1>3, <1>4

LEMMA QueueKeepsIInv ==
    ASSUME IInv, NEW h \in Handlers,
           ContextEnds(h) \/ AbandonHandler(h) \/ Requeue(h)
    PROVE  IInv'
<1> USE DEF IInv
<1>1. CASE ContextEnds(h)
  <2>1. TypeOK'
    <3>1. handler' \in [Handlers -> HandlerState]
      BY <1>1, HandlerTypes
      DEF TypeOK, ContextEnds
    <3>2. QED
      BY <1>1, <3>1, FaultTypes DEF TypeOK, ContextEnds
  <2>2. Attendance'
    BY <1>1 DEF TypeOK, Attendance, Idle, ContextEnds, HandlerState
  <2>3. RequestsMatch'
    BY <1>1 DEF TypeOK, RequestsMatch, ContextEnds
  <2>4. RowsBegin' /\ RowsAgree'
    BY <1>1 DEF TypeOK, RowsBegin, RowsAgree, ContextEnds, HandlerState
  <2>5. QED
    BY <2>1, <2>2, <2>3, <2>4
<1>2. CASE AbandonHandler(h)
  <2>1. TypeOK'
    <3>1. handler' \in [Handlers -> HandlerState]
      BY <1>2, HandlerTypes
      DEF TypeOK, AbandonHandler
    <3>2. QED
      BY <1>2, <3>1 DEF TypeOK, AbandonHandler
  <2>2. Attendance'
    BY <1>2 DEF TypeOK, Attendance, Idle, AbandonHandler, HandlerState
  <2>3. RequestsMatch'
    BY <1>2 DEF TypeOK, Attendance, RequestsMatch, AbandonHandler
  <2>4. RowsBegin' /\ RowsAgree'
    BY <1>2 DEF TypeOK, RowsBegin, RowsAgree, AbandonHandler, HandlerState
  <2>5. QED
    BY <2>1, <2>2, <2>3, <2>4
<1>3. CASE Requeue(h)
  <2>1. TypeOK'
    <3>1. handler' \in [Handlers -> HandlerState]
      BY <1>3, HandlerTypes
      DEF TypeOK, Requeue
    <3>2. QED
      BY <1>3, <3>1 DEF TypeOK, Requeue
  <2>2. Attendance'
    BY <1>3 DEF TypeOK, Attendance, Idle, Requeue, HandlerState
  <2>3. RequestsMatch'
    BY <1>3 DEF TypeOK, Attendance, RequestsMatch, Requeue
  <2>4. RowsBegin' /\ RowsAgree'
    BY <1>3 DEF TypeOK, RowsBegin, RowsAgree, Requeue, HandlerState
  <2>5. QED
    BY <2>1, <2>2, <2>3, <2>4
<1>4. QED
  BY <1>1, <1>2, <1>3

LEMMA RecoverKeepsIInv ==
    ASSUME IInv, NEW r \in Runs, RecoverTask(r)
    PROVE  IInv'
<1> USE DEF IInv
<1>1. TypeOK'
  BY DEF TypeOK, RecoverTask
<1>2. Attendance'
  BY DEF TypeOK, Attendance, Idle, RecoverTask
<1>3. RequestsMatch'
  BY DEF TypeOK, RequestsMatch, RecoverTask
<1>4. RowsBegin' /\ RowsAgree'
  BY DEF RowsBegin, RowsAgree, RecoverTask
<1>5. QED
  BY <1>1, <1>2, <1>3, <1>4

\* A process that goes away takes its handlers and its janitor with it.
LEMMA ProcessKeepsIInv ==
    ASSUME IInv, NEW w \in Workers, ProcessStep(w)
    PROVE  IInv'
<1> USE DEF IInv
<1>1. IdleHandler \in HandlerState /\ IdleJanitor \in JanitorState
  BY DEF IdleHandler, IdleJanitor, HandlerState, JanitorState, Verdicts
<1>2. CASE StopWorker(w)
  <2>1. TypeOK'
    BY <1>2, ConstantAssumption DEF TypeOK, StopWorker
  <2>2. Attendance' /\ RequestsMatch'
    BY <1>2 DEF Attendance, RequestsMatch, Idle, StopWorker
  <2>3. RowsBegin' /\ RowsAgree'
    BY <1>2 DEF RowsBegin, RowsAgree, StopWorker
  <2>4. QED
    BY <2>1, <2>2, <2>3
<1>3. CASE StartWorker(w)
  <2>1. TypeOK'
    BY <1>3 DEF TypeOK, StartWorker
  <2>2. Attendance' /\ RequestsMatch'
    BY <1>3 DEF Attendance, RequestsMatch, Idle, StartWorker
  <2>3. RowsBegin' /\ RowsAgree'
    BY <1>3 DEF RowsBegin, RowsAgree, StartWorker
  <2>4. QED
    BY <2>1, <2>2, <2>3
<1>4. CASE ExitWorker(w) \/ CrashWorker(w)
  <2>1. /\ Vanish(w)
        /\ worker' = [worker EXCEPT ![w] = "down"]
        /\ UNCHANGED <<rows, request, task, ns, stops>>
        /\ UNCHANGED faults \/ Fault
    BY <1>4 DEF ExitWorker, CrashWorker
  <2>2. faults' \in 0..MaxFaults
    BY <2>1, FaultTypes DEF TypeOK
  <2>3. \A h \in Handlers : handler'[h] = IdleHandler \/ handler'[h] = handler[h]
    BY <2>1 DEF Vanish
  <2>4. TypeOK'
    BY <1>1, <2>1, <2>2 DEF TypeOK, Vanish
  <2>5. Attendance'
    BY <2>1, <2>3 DEF Attendance, Idle, IdleHandler
  <2>6. RequestsMatch'
    BY <2>1 DEF RequestsMatch
  <2>7. RowsBegin' /\ RowsAgree'
    BY <2>1, <2>3 DEF RowsBegin, RowsAgree, IdleHandler
  <2>8. QED
    BY <2>4, <2>5, <2>6, <2>7
<1>5. QED
  BY <1>2, <1>3, <1>4 DEF ProcessStep

\* A call that fails leaves everything but the place in Handle alone.
LEMMA CallTypes ==
    ASSUME TypeOK, NEW h \in Handlers, CallOk(h) \/ CallFails(h)
    PROVE  faults' \in 0..MaxFaults
  BY FaultTypes DEF TypeOK, CallOk, CallFails

LEMMA HandleKeepsIInv ==
    ASSUME IInv, NEW h \in Handlers, HandleStep(h)
    PROVE  IInv'
<1> USE DEF IInv
<1> DEFINE r == handler[h].run
<1>1. ~Idle(h) => r \in Runs
  BY DEF Attendance
<1>2. CASE MarkStarted(h)
  <2>1. r \in Runs
    BY <1>1, <1>2 DEF MarkStarted, Idle
  <2>2. rows' = UpdateTestRunStarted(rows, r) \/ rows' = rows
    BY <1>2 DEF MarkStarted
  <2>3. TypeOK'
    <3>1. rows' \in [Runs -> Row]
      BY <2>1, <2>2, StoreTypes DEF TypeOK
    <3>2. faults' \in 0..MaxFaults
      BY <1>2, CallTypes DEF MarkStarted
    <3>3. handler' \in [Handlers -> HandlerState]
      BY <1>2 DEF TypeOK, MarkStarted, Goto, HandlerState
    <3>4. QED
      BY <1>2, <3>1, <3>2, <3>3 DEF TypeOK, MarkStarted
  <2>4. Attendance'
    BY <1>2 DEF TypeOK, Attendance, Idle, MarkStarted, Goto, HandlerState
  <2>5. CASE rows' = rows /\ handler' = [handler EXCEPT ![h].pc = "failed"]
    <3>1. RequestsMatch' /\ RowsAgree'
      BY <1>2, <2>5 DEF RequestsMatch, RowsAgree, MarkStarted
    <3>2. RowsBegin'
      BY <2>5 DEF TypeOK, RowsBegin, HandlerState
    <3>3. QED
      BY <2>3, <2>4, <3>1, <3>2
  <2>6. CASE /\ handler[h].live
             /\ rows' = UpdateTestRunStarted(rows, r)
             /\ handler' = [handler EXCEPT ![h].pc = "namespace"]
    <3>1. rows[r].status # "absent"
      BY <2>1, <2>6 DEF Attendance, RequestsMatch
    <3>2. \A q \in Runs : \/ rows'[q] = rows[q] /\ q # r
                          \/ /\ q = r
                             /\ rows'[q].status = "RUNNING"
                             /\ rows'[q].started = "recent"
      BY <2>1, <2>6 DEF TypeOK, UpdateTestRunStarted, Row
    <3>3. RequestsMatch'
      BY <1>2, <2>1, <3>1, <3>2 DEF RequestsMatch, MarkStarted
    <3>4. RowsBegin'
      <4>1. \A q \in Runs : rows'[q].status = "absent" =>
                               rows'[q] = EmptyTable[q]
        BY <3>2 DEF RowsBegin
      <4>2. \A g \in Handlers :
               handler'[g].pc \in {"namespace", "run", "upload", "finish", "done"}
                  => rows'[handler'[g].run].started # "null"
        <5> SUFFICES ASSUME NEW g \in Handlers,
                            handler'[g].pc \in {"namespace", "run", "upload",
                                                "finish", "done"}
                     PROVE  rows'[handler'[g].run].started # "null"
          OBVIOUS
        <5>1. handler'[g].run = handler[g].run /\ handler[g].run \in Runs
          BY <1>2, <2>6 DEF TypeOK, HandlerState, Attendance, Idle, MarkStarted
        <5>2. CASE g = h
          BY <3>2, <5>1, <5>2
        <5>3. CASE g # h
          <6>1. handler'[g] = handler[g]
            BY <2>6, <5>3 DEF TypeOK
          <6>2. rows[handler[g].run].started # "null"
            BY <6>1 DEF RowsBegin
          <6>3. QED
            BY <3>2, <5>1, <6>2
        <5>4. QED
          BY <5>2, <5>3
      <4>3. QED
        BY <4>1, <4>2 DEF RowsBegin
    <3>5. RowsAgree'
      BY <3>2 DEF RowsAgree, Verdicts
    <3>6. QED
      BY <2>3, <2>4, <3>3, <3>4, <3>5
  <2>7. QED
    BY <1>2, <2>5, <2>6 DEF MarkStarted, CallOk, Goto
<1>3. CASE CreateNamespace(h)
  <2>1. TypeOK'
    BY <1>3, CallTypes DEF TypeOK, CreateNamespace, Goto, HandlerState
  <2>2. Attendance'
    BY <1>3 DEF TypeOK, Attendance, Idle, CreateNamespace, Goto, HandlerState
  <2>3. RequestsMatch' /\ RowsAgree'
    BY <1>3 DEF RequestsMatch, RowsAgree, CreateNamespace
  <2>4. RowsBegin'
    BY <1>3 DEF TypeOK, RowsBegin, CreateNamespace, Goto, HandlerState
  <2>5. QED
    BY <2>1, <2>2, <2>3, <2>4
<1>4. CASE RunnerReturns(h)
  <2>1. TypeOK'
    <3>1. PICK v \in Verdicts :
             handler' = [handler EXCEPT ![h].pc = "upload", ![h].verdict = v]
      BY <1>4 DEF RunnerReturns
    <3>2. handler' \in [Handlers -> HandlerState]
      BY <3>1, ResultTypes, FALSE \in BOOLEAN DEF TypeOK
    <3>3. QED
      BY <1>4, <3>2 DEF TypeOK, RunnerReturns
  <2>2. Attendance'
    BY <1>4 DEF TypeOK, Attendance, Idle, RunnerReturns, HandlerState
  <2>3. RequestsMatch' /\ RowsAgree'
    BY <1>4 DEF RequestsMatch, RowsAgree, RunnerReturns
  <2>4. RowsBegin'
    BY <1>4 DEF TypeOK, RowsBegin, RunnerReturns, HandlerState
  <2>5. QED
    BY <2>1, <2>2, <2>3, <2>4
<1>5. CASE Upload(h)
  <2>1. TypeOK'
    <3>1. PICK p \in {FALSE, HasBucket} :
             handler' = [handler EXCEPT ![h].pc = "finish", ![h].prefix = p]
      BY <1>5 DEF Upload
    <3>2. p \in BOOLEAN
      BY <3>1, ConstantAssumption
    <3>3. handler' \in [Handlers -> HandlerState]
      BY <3>1, <3>2, ResultTypes DEF TypeOK, HandlerState
    <3>4. QED
      BY <1>5, <3>3 DEF TypeOK, Upload
  <2>2. Attendance'
    BY <1>5 DEF TypeOK, Attendance, Idle, Upload, HandlerState
  <2>3. RequestsMatch' /\ RowsAgree'
    BY <1>5 DEF RequestsMatch, RowsAgree, Upload
  <2>4. RowsBegin'
    BY <1>5 DEF TypeOK, RowsBegin, Upload, HandlerState
  <2>5. QED
    BY <2>1, <2>2, <2>3, <2>4
<1>6. CASE MarkFinished(h)
  <2> DEFINE v == handler[h].verdict
             e == IF v = "ERROR" THEN "run" ELSE "null"
             p == handler[h].prefix
  <2>1. r \in Runs
    BY <1>1, <1>6 DEF MarkFinished, Idle
  <2>2. v \in Verdicts /\ e \in Errors /\ p \in BOOLEAN
    BY DEF TypeOK, HandlerState, Errors
  <2>3. rows' = UpdateTestRunFinished(rows, r, v, e, p) \/ rows' = rows
    BY <1>6 DEF MarkFinished
  <2>4. rows' \in [Runs -> Row]
    <3>1. UpdateTestRunFinished(rows, r, v, e, p) \in [Runs -> Row]
      BY <2>1, <2>2, FinishedTypes DEF TypeOK
    <3>2. QED
      BY <2>3, <3>1 DEF TypeOK
  <2>5. faults' \in 0..MaxFaults
    BY <1>6, CallTypes DEF MarkFinished
  <2>6. TypeOK'
    BY <1>6, <2>4, <2>5 DEF TypeOK, MarkFinished, Goto, HandlerState
  <2>7. Attendance'
    BY <1>6 DEF TypeOK, Attendance, Idle, MarkFinished, Goto, HandlerState
  <2>8. rows[r].started # "null"
    BY <1>6 DEF MarkFinished, RowsBegin
  <2>9. rows[r].status # "absent"
    BY <2>1, <2>8 DEF RowsBegin, EmptyTable
  <2>10. \A q \in Runs : \/ rows'[q] = rows[q]
                         \/ /\ q = r
                            /\ rows'[q].status = v
                            /\ rows'[q].finished
                            /\ rows'[q].error = e
                            /\ rows'[q].started = rows[q].started
    <3>1. CASE rows' = rows
      BY <3>1
    <3>2. CASE rows' = UpdateTestRunFinished(rows, r, v, e, p)
      <4>1. \A q \in Runs : q # r => rows'[q] = rows[q]
        BY <3>2 DEF TypeOK, UpdateTestRunFinished
      <4>2. rows'[r] = [rows[r] EXCEPT !.status = v, !.finished = TRUE,
                                       !.error = e, !.prefix = p]
        BY <2>1, <3>2 DEF TypeOK, UpdateTestRunFinished
      <4>3. /\ rows'[r].status = v /\ rows'[r].finished
            /\ rows'[r].error = e /\ rows'[r].started = rows[r].started
        BY <2>1, <4>2 DEF TypeOK, Row
      <4>4. QED
        BY <4>1, <4>3
    <3>3. QED
      BY <2>3, <3>1, <3>2
  <2>11. RequestsMatch'
    <3>1. \A q \in Runs : (rows'[q].status = "absent") = (rows[q].status = "absent")
      BY <2>2, <2>9, <2>10 DEF Verdicts
    <3>2. UNCHANGED <<request, task>>
      BY <1>6 DEF MarkFinished
    <3>3. QED
      BY <3>1, <3>2 DEF RequestsMatch
  <2>12. RowsBegin'
    <3>1. \A q \in Runs : rows'[q].status = "absent" => rows'[q] = EmptyTable[q]
      BY <2>2, <2>10 DEF RowsBegin, Verdicts
    <3>2. \A g \in Handlers : /\ handler'[g].run = handler[g].run
                              /\ handler'[g].pc # handler[g].pc => g = h
      BY <1>6 DEF TypeOK, HandlerState, MarkFinished, Goto
    <3>3. \A g \in Handlers :
             handler'[g].pc \in {"namespace", "run", "upload", "finish", "done"}
                => rows'[handler'[g].run].started # "null"
      <4> SUFFICES ASSUME NEW g \in Handlers,
                          handler'[g].pc \in {"namespace", "run", "upload",
                                              "finish", "done"}
                   PROVE  rows'[handler'[g].run].started # "null"
        OBVIOUS
      <4>1. CASE g = h
        BY <2>1, <2>8, <2>10, <3>2, <4>1
      <4>2. CASE g # h
        <5>1. rows[handler[g].run].started # "null" /\ handler[g].run \in Runs
          BY <3>2, <4>2 DEF RowsBegin, Attendance, Idle
        <5>2. QED
          BY <2>10, <3>2, <5>1
      <4>3. QED
        BY <4>1, <4>2
    <3>4. QED
      BY <3>1, <3>3 DEF RowsBegin
  <2>13. RowsAgree'
    BY <2>2, <2>8, <2>10 DEF RowsAgree, Verdicts
  <2>14. QED
    BY <2>6, <2>7, <2>11, <2>12, <2>13
<1>7. CASE HandleReturns(h)
  <2>1. /\ handler' = [handler EXCEPT ![h] = IdleHandler]
        /\ \/ task' = task /\ ~handler[h].attached
           \/ /\ handler[h].attached
              /\ \E t \in {"completed", "archived"} :
                    task' = [task EXCEPT ![r] = t]
        /\ UNCHANGED <<rows, request, ns, worker, janitor, faults, stops>>
    BY <1>7 DEF HandleReturns, Release
  <2>2. r \in Runs
    BY <1>1, <1>7 DEF HandleReturns, Idle
  <2>3. IdleHandler \in HandlerState
    BY DEF IdleHandler, HandlerState, Verdicts
  <2>4. TypeOK'
    BY <2>1, <2>2, <2>3 DEF TypeOK
  <2>5. Attendance'
    BY <2>1, <2>2 DEF TypeOK, Attendance, Idle, IdleHandler
  <2>6. RequestsMatch'
    BY <2>1, <2>2 DEF TypeOK, RequestsMatch, Attendance
  <2>7. RowsBegin' /\ RowsAgree'
    BY <2>1 DEF TypeOK, RowsBegin, RowsAgree, IdleHandler
  <2>8. QED
    BY <2>4, <2>5, <2>6, <2>7
<1>8. QED
  BY <1>2, <1>3, <1>4, <1>5, <1>6, <1>7 DEF HandleStep

\* Whatever list it works from, the janitor changes rows by one statement only,
\* and that statement leaves a row that is not RUNNING alone.
LEMMA JanitorKeepsIInv ==
    ASSUME IInv, NEW w \in Workers, JanitorStep(w)
    PROVE  IInv'
<1> USE DEF IInv
<1>1. JanitorCallFails(w) => faults' \in 0..MaxFaults
  BY FaultTypes DEF TypeOK, JanitorCallFails
<1>2. CASE ListNamespaces(w)
  <2>1. OldNamespaces \in SUBSET Runs
    BY DEF OldNamespaces
  <2>2. faults' \in 0..MaxFaults
    BY <1>2, FaultTypes DEF TypeOK, ListNamespaces
  <2>3. janitor' \in [Workers -> JanitorState]
    <3>1. PICK pc \in {"deleting", "query"}, S \in SUBSET Runs :
             \/ janitor' = [janitor EXCEPT ![w].pc = pc, ![w].dels = S]
             \/ janitor' = [janitor EXCEPT ![w].pc = pc]
      BY <1>2, <2>1 DEF ListNamespaces
    <3>2. CASE janitor' = [janitor EXCEPT ![w].pc = pc, ![w].dels = S]
      BY <3>2, JanitorTypes DEF TypeOK
    <3>3. CASE janitor' = [janitor EXCEPT ![w].pc = pc]
      BY <3>3, JanitorTypes DEF TypeOK
    <3>4. QED
      BY <3>1, <3>2, <3>3
  <2>4. TypeOK'
    BY <1>2, <2>2, <2>3 DEF TypeOK, ListNamespaces
  <2>5. Attendance' /\ RequestsMatch'
    BY <1>2 DEF Attendance, RequestsMatch, Idle, ListNamespaces
  <2>6. RowsBegin' /\ RowsAgree'
    BY <1>2 DEF RowsBegin, RowsAgree, ListNamespaces
  <2>7. QED
    BY <2>4, <2>5, <2>6
<1>3. CASE QueryStaleRuns(w)
  <2>1. GetStaleRunningRuns(rows) \in SUBSET Runs
    BY DEF GetStaleRunningRuns
  <2>2. faults' \in 0..MaxFaults
    BY <1>1, <1>3 DEF TypeOK, QueryStaleRuns
  <2>3. janitor' \in [Workers -> JanitorState]
    <3>1. PICK pc \in {"idle", "marking"}, S \in SUBSET Runs :
             \/ janitor' = [janitor EXCEPT ![w].pc = pc, ![w].marks = S]
             \/ janitor' = [janitor EXCEPT ![w].pc = pc]
      BY <1>3, <2>1 DEF QueryStaleRuns
    <3>2. CASE janitor' = [janitor EXCEPT ![w].pc = pc, ![w].marks = S]
      BY <3>2, JanitorTypes DEF TypeOK
    <3>3. CASE janitor' = [janitor EXCEPT ![w].pc = pc]
      BY <3>3, JanitorTypes DEF TypeOK
    <3>4. QED
      BY <3>1, <3>2, <3>3
  <2>4. TypeOK'
    BY <1>3, <2>2, <2>3 DEF TypeOK, QueryStaleRuns
  <2>5. Attendance' /\ RequestsMatch'
    BY <1>3 DEF Attendance, RequestsMatch, Idle, QueryStaleRuns
  <2>6. RowsBegin' /\ RowsAgree'
    BY <1>3 DEF RowsBegin, RowsAgree, QueryStaleRuns
  <2>7. QED
    BY <2>4, <2>5, <2>6
<1>4. ASSUME NEW r \in Runs, DeleteNamespace(w, r)
      PROVE  IInv'
  <2>1. faults' \in 0..MaxFaults
    BY <1>4, FaultTypes DEF TypeOK, DeleteNamespace
  <2>2. janitor' \in [Workers -> JanitorState]
    <3>1. PICK pc \in {"deleting", "query"} :
             janitor' = [janitor EXCEPT ![w].pc = pc,
                                        ![w].dels = janitor[w].dels \ {r}]
      BY <1>4 DEF DeleteNamespace
    <3>2. janitor[w].dels \ {r} \in SUBSET Runs
      BY DEF TypeOK, JanitorState
    <3>3. QED
      BY <3>1, <3>2, JanitorTypes DEF TypeOK
  <2>3. TypeOK'
    BY <1>4, <2>1, <2>2 DEF TypeOK, DeleteNamespace
  <2>4. Attendance' /\ RequestsMatch'
    BY <1>4 DEF Attendance, RequestsMatch, Idle, DeleteNamespace
  <2>5. RowsBegin' /\ RowsAgree'
    BY <1>4 DEF RowsBegin, RowsAgree, DeleteNamespace
  <2>6. QED
    BY <2>3, <2>4, <2>5
<1>5. ASSUME NEW r \in Runs, MarkStaleRun(w, r)
      PROVE  IInv'
  <2>1. rows' = MarkStaleRunAsError(rows, r) \/ rows' = rows
    BY <1>5 DEF MarkStaleRun
  <2>2. rows' \in [Runs -> Row]
    BY <2>1, StoreTypes DEF TypeOK
  <2>3. faults' \in 0..MaxFaults
    BY <1>1, <1>5 DEF TypeOK, MarkStaleRun
  <2>4. janitor' \in [Workers -> JanitorState]
    <3>1. PICK pc \in {"idle", "marking"} :
             janitor' = [janitor EXCEPT ![w].pc = pc,
                                        ![w].marks = janitor[w].marks \ {r}]
      BY <1>5 DEF MarkStaleRun
    <3>2. janitor[w].marks \ {r} \in SUBSET Runs
      BY DEF TypeOK, JanitorState
    <3>3. QED
      BY <3>1, <3>2, JanitorTypes DEF TypeOK
  <2>5. TypeOK'
    BY <1>5, <2>2, <2>3, <2>4 DEF TypeOK, MarkStaleRun
  <2>6. Attendance'
    BY <1>5 DEF Attendance, Idle, MarkStaleRun
  <2>7. \A q \in Runs : \/ rows'[q] = rows[q]
                        \/ /\ rows[q].status = "RUNNING"
                           /\ rows'[q].status = "ERROR"
                           /\ rows'[q].finished
                           /\ rows'[q].error = "stale"
                           /\ rows'[q].started = rows[q].started
    <3>1. CASE rows' = rows
      BY <3>1
    <3>2. CASE /\ rows[r].status = "RUNNING"
               /\ rows' = [rows EXCEPT ![r] =
                             [@ EXCEPT !.status = "ERROR", !.finished = TRUE,
                                       !.error = "stale"]]
      <4>1. \A q \in Runs : q # r => rows'[q] = rows[q]
        BY <3>2 DEF TypeOK
      <4>2. rows'[r] = [rows[r] EXCEPT !.status = "ERROR", !.finished = TRUE,
                                       !.error = "stale"]
        BY <3>2 DEF TypeOK
      <4>3. /\ rows'[r].status = "ERROR" /\ rows'[r].finished
            /\ rows'[r].error = "stale" /\ rows'[r].started = rows[r].started
        BY <4>2 DEF TypeOK, Row
      <4>4. QED
        BY <3>2, <4>1, <4>3
    <3>3. QED
      BY <2>1, <3>1, <3>2 DEF MarkStaleRunAsError
  <2>8. RequestsMatch'
    BY <1>5, <2>7 DEF RequestsMatch, MarkStaleRun
  <2>9. RowsBegin'
    <3>1. \A q \in Runs : rows'[q].status = "absent" => rows'[q] = EmptyTable[q]
      BY <2>7 DEF RowsBegin
    <3>2. \A g \in Handlers :
             handler'[g].pc \in {"namespace", "run", "upload", "finish", "done"}
                => rows'[handler'[g].run].started # "null"
      BY <1>5, <2>7 DEF Attendance, RowsBegin, Idle, MarkStaleRun
    <3>3. QED
      BY <3>1, <3>2 DEF RowsBegin
  <2>10. RowsAgree'
    BY <2>7 DEF RowsAgree, Verdicts
  <2>11. QED
    BY <2>5, <2>6, <2>8, <2>9, <2>10
<1>6. QED
  BY <1>2, <1>3, <1>4, <1>5 DEF JanitorStep

LEMMA TimeKeepsIInv ==
    ASSUME IInv, NEW r \in Runs,
           RowAges(r) \/ NamespaceAges(r) \/ NamespaceGone(r)
    PROVE  IInv'
<1> USE DEF IInv
<1>1. CASE RowAges(r)
  <2>1. TypeOK'
    BY <1>1, StoreTypes DEF TypeOK, RowAges
  <2>2. Attendance'
    BY <1>1 DEF Attendance, Idle, RowAges
  <2>3. \A q \in Runs : \/ rows'[q] = rows[q]
                        \/ /\ rows[q].status = "RUNNING"
                           /\ rows'[q].status = "RUNNING"
                           /\ rows'[q].started = "old"
    BY <1>1 DEF TypeOK, RowAges, Grow, Row
  <2>4. RequestsMatch'
    BY <1>1, <2>3 DEF RequestsMatch, RowAges
  <2>5. RowsBegin'
    <3>1. \A q \in Runs : rows'[q].status = "absent" => rows'[q] = EmptyTable[q]
      BY <2>3 DEF RowsBegin
    <3>2. \A g \in Handlers :
             handler'[g].pc \in {"namespace", "run", "upload", "finish", "done"}
                => rows'[handler'[g].run].started # "null"
      BY <1>1, <2>3 DEF Attendance, RowsBegin, Idle, RowAges
    <3>3. QED
      BY <3>1, <3>2 DEF RowsBegin
  <2>6. RowsAgree'
    BY <2>3 DEF RowsAgree, Verdicts
  <2>7. QED
    BY <2>1, <2>2, <2>4, <2>5, <2>6
<1>2. CASE NamespaceAges(r) \/ NamespaceGone(r)
  <2>1. TypeOK'
    BY <1>2 DEF TypeOK, NamespaceAges, NamespaceGone
  <2>2. UNCHANGED <<rows, request, task, worker, handler, janitor>>
    BY <1>2 DEF NamespaceAges, NamespaceGone
  <2>3. Attendance' /\ RequestsMatch' /\ RowsBegin' /\ RowsAgree'
    BY <2>2 DEF Attendance, RequestsMatch, RowsBegin, RowsAgree, Idle
  <2>4. QED
    BY <2>1, <2>3
<1>3. QED
  BY <1>1, <1>2

LEMMA NextKeepsIInv == IInv /\ [Next]_vars => IInv'
<1> SUFFICES ASSUME IInv, [Next]_vars PROVE IInv'
  OBVIOUS
<1>1. CASE UNCHANGED vars
  BY <1>1 DEF vars, IInv, TypeOK, Attendance, RequestsMatch, RowsBegin,
              RowsAgree, Idle
<1>2. CASE Next
  BY <1>2, RequestKeepsIInv, DequeueKeepsIInv, QueueKeepsIInv, RecoverKeepsIInv,
     ProcessKeepsIInv, HandleKeepsIInv, JanitorKeepsIInv, TimeKeepsIInv
  DEF Next
<1>3. QED
  BY <1>1, <1>2

-----------------------------------------------------------------------------
(* Theorems *)

\* The strengthening that every invariance theorem below follows from.
THEOREM InductiveInvariant == Spec => []IInv
<1>1. QED
  BY InitIInv, NextKeepsIInv, PTL DEF Spec

\* Type correctness: every variable has its type in every reachable state.
THEOREM TypeCorrect == Spec => []TypeOK
<1>1. IInv => TypeOK
  BY DEF IInv
<1>2. QED
  BY <1>1, InductiveInvariant, PTL

\* No two handlers with a working context ever act on one run, for any number
\* of processes and handlers, shutdowns, crashes and lost leases.
THEOREM HandlersExclusive == Spec => []OneLiveHandler
<1>1. IInv => OneLiveHandler
  BY DEF IInv, Attendance, OneLiveHandler
<1>2. QED
  BY <1>1, InductiveInvariant, PTL

\* A run whose request was answered 201 is in the table and in the queue.
THEOREM AcceptedStored == Spec => []AcceptedIsStored
<1>1. IInv => AcceptedIsStored
  BY DEF IInv, RequestsMatch, AcceptedIsStored
<1>2. QED
  BY <1>1, InductiveInvariant, PTL

\* The columns of every row agree, whoever of the API server, the workers and
\* the janitors wrote it last.
THEOREM ColumnsAgree == Spec => []RowsAgree
<1>1. IInv => RowsAgree
  BY DEF IInv
<1>2. QED
  BY <1>1, InductiveInvariant, PTL

-----------------------------------------------------------------------------
(* What a step may do to the row of a run *)

Inserted(r) == /\ request[r] = "idle" /\ rows[r].status = "absent"
               /\ rows'[r].status = "QUEUED"
Reported(r) == /\ request[r] = "marking" /\ rows[r].status # "absent"
               /\ rows'[r].status = "ERROR" /\ rows'[r].error = "enqueue"
Started(r, h) == /\ handler[h].live /\ handler[h].run = r
                 /\ handler[h].pc = "start" /\ handler'[h].pc = "namespace"
                 /\ rows'[r].status = "RUNNING"
Concluded(r, h) == /\ handler[h].live /\ handler[h].run = r
                   /\ handler[h].pc = "finish" /\ handler'[h].pc = "done"
                   /\ rows[r].started # "null"
                   /\ rows'[r].status \in Verdicts
Marked(r) == /\ rows[r].status = "RUNNING"
             /\ rows'[r].status = "ERROR" /\ rows'[r].error = "stale"
Aged(r) == rows[r].status = "RUNNING" /\ rows'[r].status = "RUNNING"

RowStep(r) == \/ rows'[r] = rows[r]
              \/ Inserted(r) \/ Reported(r) \/ Marked(r) \/ Aged(r)
              \/ \E h \in Handlers : Started(r, h) \/ Concluded(r, h)

LEMMA RowSteps ==
    ASSUME IInv, [Next]_vars, NEW r \in Runs
    PROVE  RowStep(r)
<1> USE DEF IInv
<1>0. ASSUME UNCHANGED rows PROVE RowStep(r)
  BY <1>0 DEF RowStep
<1>1. ASSUME NEW q \in Runs, RequestStep(q) PROVE RowStep(r)
  <2>1. CASE InsertRow(q)
    <3>1. rows[q].status = "absent"
      BY <2>1 DEF InsertRow, RequestsMatch
    <3>2. q # r => rows'[r] = rows[r]
      BY <2>1 DEF InsertRow, CreateTestRun, TypeOK
    <3>3. rows'[q].status = "QUEUED"
      BY <2>1 DEF InsertRow, CreateTestRun, TypeOK, Row
    <3> QED BY <2>1, <3>1, <3>2, <3>3 DEF RowStep, Inserted, InsertRow
  <2>2. CASE MarkEnqueueError(q)
    <3>1. CASE rows' = UpdateTestRunFinished(rows, q, "ERROR", "enqueue", FALSE)
      <4>1. q # r => rows'[r] = rows[r]
        BY <3>1 DEF UpdateTestRunFinished, TypeOK
      <4>2. rows'[q].status = "ERROR" /\ rows'[q].error = "enqueue"
        BY <3>1 DEF UpdateTestRunFinished, TypeOK, Row
      <4>3. request[q] = "marking" /\ rows[q].status # "absent"
        BY <2>2 DEF MarkEnqueueError, RequestsMatch
      <4> QED BY <4>1, <4>2, <4>3 DEF RowStep, Reported
    <3> QED BY <2>2, <3>1, <1>0 DEF MarkEnqueueError
  <2> QED BY <1>0, <1>1, <2>1, <2>2
          DEF RequestStep, RefuseRequest, Enqueue, EnqueueFails, RequestLost
<1>2. ASSUME NEW h \in Handlers, HandleStep(h) PROVE RowStep(r)
  <2>0. ~Idle(h) => handler[h].run \in Runs
    BY DEF Attendance
  <2>1. CASE MarkStarted(h)
    <3>1. CASE /\ CallOk(h)
               /\ rows' = UpdateTestRunStarted(rows, handler[h].run)
               /\ Goto(h, "namespace")
      <4>1. handler[h].run # r => rows'[r] = rows[r]
        BY <3>1 DEF UpdateTestRunStarted, TypeOK
      <4>2. rows'[handler[h].run].status = "RUNNING"
        BY <2>0, <2>1, <3>1 DEF MarkStarted, Idle, UpdateTestRunStarted, TypeOK, Row
      <4>3. handler'[h].pc = "namespace"
        BY <3>1 DEF Goto, TypeOK, HandlerState
      <4> QED BY <2>1, <3>1, <4>1, <4>2, <4>3 DEF RowStep, Started, MarkStarted, CallOk
    <3> QED BY <1>0, <2>1, <3>1 DEF MarkStarted
  <2>2. CASE MarkFinished(h)
    <3> DEFINE v == handler[h].verdict
               e == IF v = "ERROR" THEN "run" ELSE "null"
    <3>1. CASE /\ CallOk(h)
               /\ rows' = UpdateTestRunFinished(rows, handler[h].run, v, e,
                                                handler[h].prefix)
      <4>1. handler[h].run # r => rows'[r] = rows[r]
        BY <3>1 DEF UpdateTestRunFinished, TypeOK
      <4>2. handler[h].run \in Runs
        BY <2>0, <2>2 DEF MarkFinished, Idle
      <4>3. rows'[handler[h].run].status = v
        BY <4>2, <3>1 DEF UpdateTestRunFinished, TypeOK, Row
      <4>4. v \in Verdicts
        BY DEF TypeOK, HandlerState
      <4>5. handler'[h].pc = "done"
        BY <2>2 DEF MarkFinished, Goto, TypeOK, HandlerState
      <4>6. rows[handler[h].run].started # "null"
        BY <2>2 DEF MarkFinished, RowsBegin
      <4> QED BY <2>2, <3>1, <4>1, <4>3, <4>4, <4>5, <4>6
              DEF RowStep, Concluded, MarkFinished, CallOk
    <3> QED BY <1>0, <2>2, <3>1 DEF MarkFinished
  <2> QED BY <1>0, <1>2, <2>1, <2>2
          DEF HandleStep, CreateNamespace, RunnerReturns, Upload, HandleReturns
<1>3. ASSUME NEW w \in Workers, NEW q \in Runs, MarkStaleRun(w, q) PROVE RowStep(r)
  <2>1. CASE rows' = MarkStaleRunAsError(rows, q) /\ rows[q].status = "RUNNING"
    <3>1. q # r => rows'[r] = rows[r]
      BY <2>1 DEF MarkStaleRunAsError, TypeOK
    <3>2. rows'[q].status = "ERROR" /\ rows'[q].error = "stale"
      BY <2>1 DEF MarkStaleRunAsError, TypeOK, Row
    <3> QED BY <2>1, <3>1, <3>2 DEF RowStep, Marked
  <2> QED BY <1>0, <1>3, <2>1 DEF MarkStaleRun, MarkStaleRunAsError
<1>4. ASSUME NEW q \in Runs, RowAges(q) PROVE RowStep(r)
  <2>1. q # r => rows'[r] = rows[r]
    BY <1>4 DEF RowAges, Grow, TypeOK
  <2>2. rows'[q].status = rows[q].status
    BY <1>4 DEF RowAges, Grow, TypeOK, Row
  <2> QED BY <1>4, <2>1, <2>2 DEF RowStep, Aged, RowAges
<1>5. CASE UNCHANGED vars
  BY <1>0, <1>5 DEF vars
<1> QED
  BY <1>0, <1>1, <1>2, <1>3, <1>4, <1>5
  DEF Next, RecoverTask, NamespaceAges, NamespaceGone, Dequeue, ContextEnds,
      AbandonHandler, Requeue, JanitorStep, ListNamespaces, QueryStaleRuns,
      DeleteNamespace, ProcessStep, StopWorker, ExitWorker, CrashWorker, StartWorker
-----------------------------------------------------------------------------
(* What a step may do to a handler *)

Writing == {"namespace", "run", "upload", "finish"}

Taken(h) == /\ Idle(h) /\ handler'[h].pc = "start"
            /\ handler'[h].live /\ handler'[h].attached
            /\ handler'[h].run \in Runs
            /\ task[handler'[h].run] = "pending" /\ task'[handler'[h].run] = "active"

\* It goes on with its run; what fails while its context works is a fault.
Moves(h) ==
    LET b == handler[h]
        a == handler'[h]
    IN  /\ a.run = b.run /\ b.pc # "idle" /\ (a.live => b.live)
        /\ a.attached => b.attached /\ (a.live \/ ~b.live \/ faults' > 0)
        /\ a.pc = "start" => b.pc = "start"
        /\ a.pc \in Writing => \/ b.pc \in Writing
                               \/ b.pc = "start" /\ (b.live => rows'[b.run].status = "RUNNING")
        /\ a.pc = "done" => \/ b.pc = "done" \/ ~b.live \/ faults' > 0
                            \/ rows'[b.run].status \in Verdicts
        /\ a.pc = "failed" => b.pc = "failed" \/ ~b.live \/ faults' > 0

HandlerMove(h) == \/ handler'[h] = handler[h] \/ handler'[h] = IdleHandler
                  \/ Taken(h) \/ Moves(h)

\* A call that fails in a working context is a fault.
LEMMA FaultCounts ==
    ASSUME TypeOK, NEW h \in Handlers, CallFails(h), handler[h].live
    PROVE  faults' > 0
  BY ConstantAssumption DEF TypeOK, CallFails, Fault

LEMMA HandlerMoves ==
    ASSUME IInv, [Next]_vars, NEW g \in Handlers
    PROVE  HandlerMove(g)
<1> USE DEF IInv
<1>0. ASSUME UNCHANGED handler PROVE HandlerMove(g)
  BY <1>0 DEF HandlerMove
<1>1. ASSUME NEW h \in Handlers, NEW w \in Workers, NEW r \in Runs, Dequeue(h, w, r)
      PROVE HandlerMove(g)
  <2>1. g # h => handler'[g] = handler[g]
    BY <1>1 DEF Dequeue, TypeOK
  <2>2. /\ handler'[h].pc = "start" /\ handler'[h].live /\ handler'[h].attached
        /\ handler'[h].run = r
    BY <1>1 DEF Dequeue, TypeOK, HandlerState
  <2> QED BY <1>1, <2>1, <2>2 DEF HandlerMove, Taken, Dequeue, TypeOK
<1>2. ASSUME NEW h \in Handlers, HandleStep(h) PROVE HandlerMove(g)
  <2> DEFINE b == handler[h]
             a == handler'[h]
  <2>0. ASSUME g # h PROVE HandlerMove(g)
    BY <1>2, <2>0 DEF HandlerMove, TypeOK, HandleStep, MarkStarted, CreateNamespace,
       RunnerReturns, Upload, MarkFinished, HandleReturns, Goto, Release
  <2>1. ASSUME g = h, Moves(h) PROVE HandlerMove(g)
    BY <2>1 DEF HandlerMove
  <2>2. CASE MarkStarted(h)
    <3>1. a.run = b.run /\ a.live = b.live /\ a.attached = b.attached /\ b.pc = "start"
      BY <2>2 DEF MarkStarted, Goto, TypeOK, HandlerState
    <3>2. CASE a.pc = "namespace" /\ rows' = UpdateTestRunStarted(rows, b.run)
      <4>1. b.run \in Runs
        BY <3>1 DEF Attendance, Idle
      <4>2. rows'[b.run].status = "RUNNING"
        BY <3>2, <4>1 DEF UpdateTestRunStarted, TypeOK, Row
      <4> QED BY <2>0, <2>1, <3>1, <3>2, <4>2 DEF Moves, Writing
    <3>3. CASE a.pc = "failed" /\ CallFails(h)
      BY <2>0, <2>1, <3>1, <3>3, FaultCounts DEF Moves, Writing
    <3> QED BY <2>2, <3>2, <3>3 DEF MarkStarted, Goto, TypeOK, HandlerState
  <2>3. CASE CreateNamespace(h) \/ RunnerReturns(h) \/ Upload(h)
    <3>1. /\ a.run = b.run /\ a.live = b.live /\ a.attached = b.attached
          /\ b.pc \in Writing /\ a.pc \in Writing
      BY <2>3 DEF CreateNamespace, RunnerReturns, Upload, Goto, TypeOK, HandlerState,
                  Writing
    <3> QED BY <2>0, <2>1, <3>1 DEF Moves, Writing
  <2>4. CASE MarkFinished(h)
    <3> DEFINE v == b.verdict
               e == IF v = "ERROR" THEN "run" ELSE "null"
    <3>1. /\ a.run = b.run /\ a.live = b.live /\ a.attached = b.attached
          /\ b.pc = "finish" /\ a.pc = "done"
      BY <2>4 DEF MarkFinished, Goto, TypeOK, HandlerState
    <3>2. CASE rows' = UpdateTestRunFinished(rows, b.run, v, e, b.prefix)
      <4>1. b.run \in Runs /\ v \in Verdicts
        BY <3>1 DEF Attendance, Idle, TypeOK, HandlerState
      <4>2. rows'[b.run].status \in Verdicts
        BY <3>2, <4>1 DEF UpdateTestRunFinished, TypeOK, Row
      <4> QED BY <2>0, <2>1, <3>1, <4>2 DEF Moves, Writing
    <3>3. CASE CallFails(h)
      BY <2>0, <2>1, <3>1, <3>3, FaultCounts DEF Moves, Writing
    <3> QED BY <2>4, <3>2, <3>3 DEF MarkFinished
  <2>5. CASE HandleReturns(h)
    <3>1. handler'[h] = IdleHandler
      BY <2>5 DEF HandleReturns, Release, TypeOK
    <3> QED BY <2>0, <3>1 DEF HandlerMove
  <2> QED BY <1>2, <2>2, <2>3, <2>4, <2>5 DEF HandleStep
<1>3. ASSUME NEW h \in Handlers, ContextEnds(h) \/ AbandonHandler(h) \/ Requeue(h)
      PROVE HandlerMove(g)
  <2>1. g # h => handler'[g] = handler[g]
    BY <1>3 DEF ContextEnds, AbandonHandler, Requeue, TypeOK
  <2>2. /\ handler'[h].run = handler[h].run /\ handler'[h].pc = handler[h].pc
        /\ handler'[h].live => handler[h].live
        /\ handler'[h].attached => handler[h].attached /\ ContextEnds(h)
    BY <1>3 DEF ContextEnds, AbandonHandler, Requeue, TypeOK, HandlerState
  <2>3. ContextEnds(h) => faults' > 0
    BY ConstantAssumption DEF ContextEnds, Fault, TypeOK
  <2>4. handler[h].pc # "idle"
    BY <1>3 DEF ContextEnds, AbandonHandler, Requeue, Attendance, Idle
  <2>5. Moves(h)
    BY <2>2, <2>3, <2>4 DEF Moves, Writing
  <2> QED BY <2>1, <2>5 DEF HandlerMove
<1>4. ASSUME NEW w \in Workers, ProcessStep(w) PROVE HandlerMove(g)
  BY <1>4 DEF HandlerMove, ProcessStep, StopWorker, ExitWorker, CrashWorker,
              StartWorker, Vanish
<1>5. CASE UNCHANGED vars
  BY <1>0, <1>5 DEF vars
<1> QED
  BY <1>0, <1>1, <1>2, <1>3, <1>4, <1>5
  DEF Next, RequestStep, RefuseRequest, InsertRow, Enqueue, EnqueueFails,
      MarkEnqueueError, RequestLost, RecoverTask, RowAges, NamespaceAges,
      NamespaceGone, JanitorStep, ListNamespaces, QueryStaleRuns, DeleteNamespace,
      MarkStaleRun
-----------------------------------------------------------------------------
(* What a step may do to a task and a request *)

Holds(h, r) == handler[h].attached /\ handler[h].run = r

Given(r) == /\ request[r] = "enqueue" /\ request'[r] \in {"accepted", "marking"}
            /\ task[r] = "none" /\ task'[r] = "pending"
Begun(r) == /\ task[r] = "pending" /\ task'[r] = "active"
            /\ \E h \in Handlers : Holds(h, r)'
Archived(r) == /\ task[r] = "active" /\ task'[r] = "archived"
               /\ \/ \E h \in Handlers : /\ Holds(h, r)
                                         /\ ~handler[h].live \/ handler[h].pc = "failed"
                  \/ ~\E h \in Handlers : Holds(h, r)
Completed(r) == /\ task[r] = "active" /\ task'[r] = "completed"
                /\ \E h \in Handlers : Holds(h, r) /\ handler[h].pc = "done"
PushedBack(r) == /\ task[r] = "active" /\ task'[r] = "pending"
                 /\ \E w \in Workers : worker[w] = "stopping"

TaskStep(r) == \/ task'[r] = task[r]
               \/ Given(r) \/ Begun(r) \/ Archived(r) \/ Completed(r) \/ PushedBack(r)

LEMMA TaskSteps ==
    ASSUME IInv, [Next]_vars, NEW r \in Runs
    PROVE  TaskStep(r)
<1> USE DEF IInv
<1>0. ASSUME UNCHANGED task PROVE TaskStep(r)
  BY <1>0 DEF TaskStep
<1>1. ASSUME NEW q \in Runs, Enqueue(q) \/ EnqueueFails(q) PROVE TaskStep(r)
  BY <1>1 DEF TaskStep, Given, Enqueue, EnqueueFails, TypeOK, RequestsMatch
<1>2. ASSUME NEW h \in Handlers, NEW w \in Workers, NEW q \in Runs, Dequeue(h, w, q)
      PROVE TaskStep(r)
  <2>1. handler'[h].attached /\ handler'[h].run = q
    BY <1>2 DEF Dequeue, TypeOK
  <2> QED BY <1>2, <2>1 DEF TaskStep, Begun, Holds, Dequeue, TypeOK
<1>3. ASSUME NEW h \in Handlers, HandleReturns(h) PROVE TaskStep(r)
  <2>1. \/ task' = task
        \/ /\ handler[h].attached
           /\ \/ /\ handler[h].pc = "done"
                 /\ task' = [task EXCEPT ![handler[h].run] = "completed"]
              \/ /\ handler[h].pc = "failed"
                 /\ task' = [task EXCEPT ![handler[h].run] = "archived"]
    BY <1>3 DEF HandleReturns, Release
  <2>2. handler[h].attached =>
           handler[h].run \in Runs /\ task[handler[h].run] = "active"
    BY DEF Attendance
  <2> QED BY <2>1, <2>2 DEF TaskStep, Archived, Completed, Holds, TypeOK
<1>4. ASSUME NEW h \in Handlers, AbandonHandler(h) PROVE TaskStep(r)
  BY <1>4 DEF TaskStep, Archived, Holds, AbandonHandler, Attendance, TypeOK
<1>5. ASSUME NEW h \in Handlers, Requeue(h) PROVE TaskStep(r)
  <2>1. handler[h].worker \in Workers
    BY <1>5 DEF Requeue, Attendance
  <2> QED BY <1>5, <2>1 DEF TaskStep, PushedBack, Requeue, Attendance, TypeOK
<1>6. ASSUME NEW q \in Runs, RecoverTask(q) PROVE TaskStep(r)
  BY <1>6 DEF TaskStep, Archived, Holds, RecoverTask, TypeOK
<1>7. CASE UNCHANGED vars
  BY <1>0, <1>7 DEF vars
<1> QED
  BY <1>0, <1>1, <1>2, <1>3, <1>4, <1>5, <1>6, <1>7
  DEF Next, RequestStep, RefuseRequest, InsertRow, MarkEnqueueError, RequestLost,
      HandleStep, MarkStarted, CreateNamespace, RunnerReturns, Upload, MarkFinished,
      ContextEnds, RowAges, NamespaceAges, NamespaceGone, ProcessStep, StopWorker,
      ExitWorker, CrashWorker, StartWorker, JanitorStep, ListNamespaces,
      QueryStaleRuns, DeleteNamespace, MarkStaleRun

\* Only a crash leaves an active task without its handler.
LEMMA Detaching ==
    ASSUME IInv, [Next]_vars, NEW r \in Runs, NEW g \in Handlers,
           Holds(g, r), ~Holds(g, r)'
    PROVE  task'[r] # "active" \/ faults' > 0
<1> USE DEF IInv, Holds
<1>0. handler'[g] # handler[g]
  OBVIOUS
<1>1. ASSUME NEW h \in Handlers, HandleStep(h)
      PROVE  task'[r] # "active"
  <2>1. CASE HandleReturns(h)
    <3>1. g = h
      BY <1>0, <2>1 DEF HandleReturns, Release, TypeOK
    <3> QED BY <2>1, <3>1 DEF HandleReturns, Release, TypeOK
  <2>2. CASE HandleStep(h) /\ ~HandleReturns(h)
    BY <2>2 DEF HandleStep, MarkStarted, CreateNamespace, RunnerReturns, Upload,
                MarkFinished, Goto, TypeOK, HandlerState
  <2> QED BY <1>1, <2>1, <2>2
<1>2. ASSUME NEW h \in Handlers, ContextEnds(h) \/ AbandonHandler(h) \/ Requeue(h)
      PROVE  task'[r] # "active"
  <2>1. g = h
    BY <1>0, <1>2 DEF ContextEnds, AbandonHandler, Requeue, TypeOK
  <2> QED BY <1>2, <2>1 DEF ContextEnds, AbandonHandler, Requeue, TypeOK, HandlerState
<1>3. ASSUME NEW h \in Handlers, NEW w \in Workers, NEW q \in Runs, Dequeue(h, w, q)
      PROVE  FALSE
  BY <1>0, <1>3 DEF Dequeue, TypeOK, Attendance
<1>4. ASSUME NEW w \in Workers, ExitWorker(w) PROVE FALSE
  BY <1>0, <1>4 DEF ExitWorker, Vanish, Attached, TypeOK
<1>5. ASSUME NEW w \in Workers, CrashWorker(w) PROVE faults' > 0
  BY <1>5, ConstantAssumption DEF CrashWorker, Fault, TypeOK
<1> QED
  BY <1>0, <1>1, <1>2, <1>3, <1>4, <1>5
  DEF vars, Next, RequestStep, RefuseRequest, InsertRow, Enqueue, EnqueueFails,
      MarkEnqueueError, RequestLost, RecoverTask, RowAges, NamespaceAges,
      NamespaceGone, JanitorStep, ListNamespaces, QueryStaleRuns, DeleteNamespace,
      MarkStaleRun, ProcessStep, StopWorker, StartWorker

\* Without a fault a request is refused before its row is there, or accepted.
LEMMA RequestSteps ==
    ASSUME IInv, [Next]_vars, NEW r \in Runs
    PROVE  \/ request'[r] = request[r]
           \/ /\ request[r] = "idle"
              /\ \/ request'[r] = "rejected" /\ rows'[r] = rows[r]
                 \/ request'[r] = "enqueue"
           \/ request[r] = "enqueue" /\ request'[r] = "accepted"
           \/ faults' > 0
           \/ request[r] = "marking"
<1> USE DEF IInv
<1>1. ASSUME NEW q \in Runs, RequestStep(q)
      PROVE  \/ request'[r] = request[r]
             \/ /\ request[r] = "idle"
                /\ \/ request'[r] = "rejected" /\ rows'[r] = rows[r]
                   \/ request'[r] = "enqueue"
             \/ request[r] = "enqueue" /\ request'[r] = "accepted"
             \/ faults' > 0
             \/ request[r] = "marking"
  <2>1. Fault => faults' > 0
    BY ConstantAssumption DEF Fault, TypeOK
  <2> QED BY <1>1, <2>1 DEF RequestStep, RefuseRequest, InsertRow, Enqueue,
             EnqueueFails, MarkEnqueueError, RequestLost, TypeOK
<1> QED
  BY <1>1
  DEF vars, Next, Dequeue, ContextEnds, AbandonHandler, Requeue, HandleStep,
      MarkStarted, CreateNamespace, RunnerReturns, Upload, MarkFinished,
      HandleReturns, RecoverTask, RowAges, NamespaceAges, NamespaceGone, JanitorStep,
      ListNamespaces, QueryStaleRuns, DeleteNamespace, MarkStaleRun, ProcessStep,
      StopWorker, ExitWorker, CrashWorker, StartWorker
-----------------------------------------------------------------------------
(* Who overwrites a verdict *)

\* As long as nothing was stopped, a run is begun once; and whoever is between its
\* two updates has no verdict of a worker in its row.
ByWorker(r) == rows[r].status \in Verdicts /\ rows[r].error \in {"null", "run"}
StoppingCounts == \A w \in Workers : worker[w] = "stopping" => stops > 0
Unwritten == \A h \in Handlers :
    handler[h].live /\ handler[h].pc \in Writing => ~ByWorker(handler[h].run)
Unbegun == stops = 0 =>
    /\ \A r \in Runs : task[r] \in {"none", "pending"} => ~ByWorker(r)
    /\ \A h \in Handlers : handler[h].live /\ handler[h].pc = "start"
                              => ~ByWorker(handler[h].run)

Owned == StoppingCounts /\ Unwritten /\ Unbegun

LEMMA StopsGrow == TypeOK /\ [Next]_vars => stops' >= stops /\ stops \in Nat /\ stops' \in Nat
<1> SUFFICES ASSUME TypeOK, [Next]_vars PROVE stops' >= stops /\ stops \in Nat /\ stops' \in Nat
  OBVIOUS
<1>1. stops \in Nat
  BY ConstantAssumption DEF TypeOK
<1>2. stops' = stops \/ stops' = stops + 1
  BY DEF vars, Next, Dequeue, ContextEnds, AbandonHandler, Requeue, HandleStep,
      MarkStarted, CreateNamespace, RunnerReturns, Upload, MarkFinished,
      HandleReturns, RecoverTask, RowAges, NamespaceAges, NamespaceGone, JanitorStep,
      ListNamespaces, QueryStaleRuns, DeleteNamespace, MarkStaleRun, ProcessStep,
      StopWorker, ExitWorker, CrashWorker, StartWorker, RequestStep, RefuseRequest,
      InsertRow, Enqueue, EnqueueFails, MarkEnqueueError, RequestLost
<1> QED BY <1>1, <1>2

LEMMA StoppingCountsKept == TypeOK /\ StoppingCounts /\ [Next]_vars => StoppingCounts'
<1> SUFFICES ASSUME TypeOK, StoppingCounts, [Next]_vars, NEW w \in Workers,
                    worker'[w] = "stopping"
             PROVE  stops' > 0
  BY DEF StoppingCounts
<1>1. stops' >= stops /\ stops \in Nat /\ stops' \in Nat
  BY StopsGrow
<1>2. worker[w] = "stopping" \/ stops' = stops + 1
  BY DEF TypeOK, vars, Next, Dequeue, ContextEnds, AbandonHandler, Requeue, HandleStep,
      MarkStarted, CreateNamespace, RunnerReturns, Upload, MarkFinished,
      HandleReturns, RecoverTask, RowAges, NamespaceAges, NamespaceGone, JanitorStep,
      ListNamespaces, QueryStaleRuns, DeleteNamespace, MarkStaleRun, ProcessStep,
      StopWorker, ExitWorker, CrashWorker, StartWorker, RequestStep, RefuseRequest,
      InsertRow, Enqueue, EnqueueFails, MarkEnqueueError, RequestLost
<1> QED BY <1>1, <1>2 DEF StoppingCounts

\* A worker's verdict comes into a row from the run's one live handler.
LEMMA VerdictsCome ==
    ASSUME IInv, [Next]_vars, NEW r \in Runs, ByWorker(r)'
    PROVE  \/ ByWorker(r)
           \/ \E h \in Handlers : Concluded(r, h)
<1>1. RowStep(r)
  BY RowSteps
<1> QED BY <1>1 DEF RowStep, Inserted, Reported, Marked, Aged, Started, ByWorker,
                    Verdicts

LEMMA OwnedKept == IInv /\ Owned /\ [Next]_vars => Owned'
<1> SUFFICES ASSUME IInv, Owned, [Next]_vars PROVE Owned'
  OBVIOUS
<1>1. TypeOK /\ Attendance /\ RequestsMatch
  BY DEF IInv
<1>2. StoppingCounts'
  BY <1>1, StoppingCountsKept DEF Owned
<1>3. IInv'
  BY NextKeepsIInv
<1>4. \A h \in Handlers : handler[h].live =>
         /\ handler[h].run \in Runs /\ task[handler[h].run] = "active"
         /\ \A g \in Handlers : handler[g].live /\ handler[g].run = handler[h].run => g = h
  BY <1>1 DEF Attendance
<1>5. \A h \in Handlers : handler'[h].live => handler'[h].run \in Runs
  BY <1>3 DEF IInv, Attendance
<1>6. Unwritten'
  <2> SUFFICES ASSUME NEW h \in Handlers, handler'[h].live, handler'[h].pc \in Writing,
                      ByWorker(handler[h].run)'
               PROVE  FALSE
    <3>1. \A h \in Handlers : handler'[h].live /\ handler'[h].pc \in Writing
                                  => handler'[h].run = handler[h].run
      BY HandlerMoves DEF HandlerMove, Moves, Taken, Writing, IdleHandler
    <3> QED BY <3>1 DEF Unwritten, ByWorker
  <2>1. /\ handler[h].live /\ handler'[h].run = handler[h].run
        /\ \/ handler[h].pc \in Writing
           \/ handler[h].pc = "start" /\ rows'[handler[h].run].status = "RUNNING"
    BY HandlerMoves DEF HandlerMove, Moves, Taken, Writing, IdleHandler
  <2>2. handler[h].pc \in Writing /\ ~ByWorker(handler[h].run)
    BY <2>1 DEF Owned, Unwritten, ByWorker, Verdicts
  <2>3. handler[h].run \in Runs
    BY <1>4, <2>1
  <2>4. PICK g \in Handlers : Concluded(handler[h].run, g)
    BY <2>1, <2>2, <2>3, VerdictsCome DEF ByWorker
  <2>5. g = h
    BY <1>4, <2>1, <2>4 DEF Concluded
  <2> QED BY <2>4, <2>5 DEF Concluded, Writing
<1>7. ASSUME stops' = 0 PROVE stops = 0 /\ ~\E w \in Workers : worker[w] = "stopping"
  BY <1>1, <1>7, StopsGrow DEF Owned, StoppingCounts
<1>8. ASSUME stops' = 0, NEW r \in Runs, task'[r] \in {"none", "pending"}
      PROVE  ~ByWorker(r)'
  <2>1. task[r] \in {"none", "pending"}
    BY <1>7, <1>8, TaskSteps DEF TaskStep, Given, Begun, Archived, Completed, PushedBack
  <2>2. ~ByWorker(r)
    BY <1>7, <1>8, <2>1 DEF Owned, Unbegun
  <2> QED BY <1>4, <2>1, <2>2, VerdictsCome DEF Concluded
<1>9. ASSUME stops' = 0, NEW h \in Handlers, handler'[h].live, handler'[h].pc = "start"
      PROVE  ~ByWorker(handler[h].run)'
  <2> DEFINE r == handler'[h].run
  <2>1. r \in Runs
    BY <1>5, <1>9
  <2>2. \/ handler[h].live /\ handler[h].pc = "start" /\ handler[h].run = r
        \/ task[r] = "pending"
    BY <1>9, HandlerMoves DEF HandlerMove, Moves, Taken, Writing, IdleHandler
  <2>3. ~ByWorker(r)
    BY <1>7, <1>9, <2>1, <2>2 DEF Owned, Unbegun
  <2>4. ~\E g \in Handlers : Concluded(r, g)
    <3> SUFFICES ASSUME NEW g \in Handlers, Concluded(r, g) PROVE FALSE
      OBVIOUS
    <3>1. handler[g].live /\ handler[g].run = r /\ handler[g].pc = "finish"
          /\ handler'[g].pc = "done"
      BY DEF Concluded
    <3> QED BY <1>4, <1>9, <2>2, <3>1
  <2> QED BY <2>1, <2>3, <2>4, VerdictsCome DEF ByWorker
<1>10. Unbegun'
  BY <1>8, <1>9 DEF Unbegun, ByWorker
<1> QED BY <1>2, <1>6, <1>10 DEF Owned

LEMMA InitOwned == Init => Owned
  BY DEF Init, Owned, StoppingCounts, Unwritten, Unbegun, ByWorker, Verdicts,
         EmptyTable, IdleHandler

THEOREM RowsAreOwned == Spec => []Owned
<1>1. IInv /\ Owned /\ [Next]_vars => Owned'
  BY OwnedKept
<1> QED BY <1>1, InitOwned, InductiveInvariant, PTL DEF Spec

LEMMA VerdictStep ==
    ASSUME IInv, Owned, [Next]_vars, NEW r \in Runs, WorkerVerdict(rows[r])
    PROVE  \/ [rows'[r] EXCEPT !.started = "null"]
                = [rows[r] EXCEPT !.started = "null"]
           \/ rows'[r].status = "RUNNING" /\ task[r] = "active" /\ stops > 0
           \/ rows'[r].error = "enqueue" /\ request[r] = "marking"
<1>1. TypeOK /\ Attendance
  BY DEF IInv
<1>2. CASE \E h \in Handlers : Started(r, h)
  <2>1. PICK h \in Handlers : Started(r, h)
    BY <1>2
  <2>2. task[r] = "active" /\ rows'[r].status = "RUNNING"
    BY <1>1, <2>1 DEF Started, Attendance
  <2>3. stops # 0
    BY <2>1 DEF Owned, Unbegun, Started, ByWorker, WorkerVerdict
  <2>4. stops > 0
    BY <1>1, <2>3, ConstantAssumption DEF TypeOK
  <2> QED BY <2>2, <2>4
<1>3. ~\E h \in Handlers : Concluded(r, h)
  BY DEF Owned, Unwritten, Concluded, Writing, ByWorker, WorkerVerdict
<1> QED BY <1>2, <1>3, RowSteps
        DEF RowStep, Inserted, Reported, Marked, Aged, WorkerVerdict, Verdicts

\* A worker's verdict is overwritten only by a later attempt after a shutdown, or by
\* the API server that was told its Enqueue failed.
THEOREM VerdictsStand == Spec => WorkerVerdictsStand
<1>1. IInv /\ Owned /\ [Next]_vars =>
        [\A r \in Runs : WorkerVerdict(rows[r]) =>
            \/ [rows'[r] EXCEPT !.started = "null"]
                  = [rows[r] EXCEPT !.started = "null"]
            \/ rows'[r].status = "RUNNING" /\ task[r] = "active" /\ stops > 0
            \/ rows'[r].error = "enqueue" /\ request[r] = "marking"]_vars
  BY VerdictStep
<1> QED BY <1>1, RowsAreOwned, InductiveInvariant, PTL DEF Spec, WorkerVerdictsStand
-----------------------------------------------------------------------------
(* Runs without a fault *)

\* Without a fault no task is archived and no request is stuck; an active task has a
\* handler whose context works, and who returns nil has written the verdict.
QuietRequests == \A r \in Runs :
    /\ request[r] \in {"idle", "enqueue", "accepted", "rejected"}
    /\ request[r] = "rejected" => rows[r].status = "absent"
QuietTasks == \A r \in Runs :
    /\ task[r] # "archived"
    /\ task[r] = "active" => \E h \in Handlers : Holds(h, r)
    /\ task[r] = "completed" => rows[r].status \in Verdicts
QuietHandlers == \A h \in Handlers : handler[h].attached =>
    /\ handler[h].live /\ handler[h].pc # "failed"
    /\ handler[h].pc = "done" => rows[handler[h].run].status \in Verdicts

Quiet == faults = 0 => QuietRequests /\ QuietTasks /\ QuietHandlers

LEMMA FaultsGrow == TypeOK /\ [Next]_vars /\ faults' = 0 => faults = 0
<1> SUFFICES ASSUME TypeOK, [Next]_vars, faults' = 0 PROVE faults = 0
  OBVIOUS
<1>1. faults \in Nat
  BY ConstantAssumption DEF TypeOK
<1>2. faults' = faults \/ faults' = faults + 1
  BY DEF vars, Next, Dequeue, ContextEnds, AbandonHandler, Requeue, HandleStep,
      MarkStarted, CreateNamespace, RunnerReturns, Upload, MarkFinished,
      HandleReturns, RecoverTask, RowAges, NamespaceAges, NamespaceGone, JanitorStep,
      ListNamespaces, QueryStaleRuns, DeleteNamespace, MarkStaleRun, ProcessStep,
      StopWorker, ExitWorker, CrashWorker, StartWorker, RequestStep, RefuseRequest,
      InsertRow, Enqueue, EnqueueFails, MarkEnqueueError, RequestLost, Fault,
      CallOk, CallFails, JanitorCallFails
<1> QED BY <1>1, <1>2

\* A verdict, of whoever, leaves a row only when a handler starts on it.
LEMMA VerdictsGo ==
    ASSUME IInv, [Next]_vars, NEW r \in Runs, rows[r].status \in Verdicts,
           rows'[r].status \notin Verdicts
    PROVE  \E h \in Handlers : Started(r, h)
<1>1. RowStep(r)
  BY RowSteps
<1> QED BY <1>1 DEF RowStep, Inserted, Reported, Marked, Aged, Concluded, Verdicts

LEMMA QuietKept == IInv /\ Quiet /\ [Next]_vars => Quiet'
<1> SUFFICES ASSUME IInv, Quiet, [Next]_vars, faults' = 0
             PROVE  (QuietRequests /\ QuietTasks /\ QuietHandlers)'
  BY DEF Quiet
<1>1. TypeOK /\ Attendance /\ RequestsMatch
  BY DEF IInv
<1>2. /\ faults = 0 /\ ~(faults' > 0)     \* nothing fails in this step
      /\ QuietRequests /\ QuietTasks /\ QuietHandlers
  BY <1>1, FaultsGrow DEF Quiet
<1>3. IInv'
  BY NextKeepsIInv
<1>4. QuietRequests'
  <2> SUFFICES ASSUME NEW r \in Runs
               PROVE  /\ request'[r] \in {"idle", "enqueue", "accepted", "rejected"}
                      /\ request'[r] = "rejected" => rows'[r].status = "absent"
    BY DEF QuietRequests
  <2>1. \/ request'[r] = request[r]
        \/ /\ request[r] = "idle"
           /\ \/ request'[r] = "rejected" /\ rows'[r] = rows[r]
              \/ request'[r] = "enqueue"
        \/ request[r] = "enqueue" /\ request'[r] = "accepted"
    BY <1>2, RequestSteps DEF QuietRequests
  <2>2. request[r] = "idle" => rows[r].status = "absent"
    BY <1>1 DEF RequestsMatch
  <2>3. request[r] = "rejected" => rows'[r].status = "absent"
    <3> SUFFICES ASSUME request[r] = "rejected" PROVE rows'[r].status = "absent"
      OBVIOUS
    <3>1. rows[r].status = "absent"
      BY <1>2 DEF QuietRequests
    <3>2. ~\E h \in Handlers : Started(r, h) \/ Concluded(r, h)
      BY <1>1, <3>1 DEF Started, Concluded, Attendance, RequestsMatch
    <3> QED BY <3>1, <3>2, RowSteps DEF RowStep, Inserted, Reported, Marked, Aged
  <2> QED BY <1>2, <2>1, <2>2, <2>3 DEF QuietRequests
<1>5. ASSUME NEW r \in Runs PROVE task'[r] # "archived"
  BY <1>2, TaskSteps
  DEF TaskStep, Given, Begun, Archived, Completed, PushedBack, QuietTasks,
      QuietHandlers, Holds
<1>6. ASSUME NEW r \in Runs, task'[r] = "active"
      PROVE  \E h \in Handlers : Holds(h, r)'
  <2>1. CASE task[r] = "active"
    <3>1. PICK h \in Handlers : Holds(h, r)
      BY <1>2, <2>1 DEF QuietTasks
    <3> QED BY <1>2, <1>6, <3>1, Detaching
  <2>2. CASE task[r] # "active"
    BY <1>6, <2>2, TaskSteps
    DEF TaskStep, Given, Begun, Archived, Completed, PushedBack
  <2> QED BY <2>1, <2>2
<1>7. ASSUME NEW r \in Runs, rows[r].status \in Verdicts,
             \A h \in Handlers : handler[h].live /\ handler[h].run = r
                                    => handler[h].pc # "start"
      PROVE  rows'[r].status \in Verdicts
  BY <1>7, VerdictsGo DEF Started
<1>8. ASSUME NEW r \in Runs, task'[r] = "completed" PROVE rows'[r].status \in Verdicts
  <2>1. CASE task[r] = "completed"
    <3>1. \A h \in Handlers : handler[h].live => handler[h].run # r
      BY <1>1, <2>1 DEF Attendance
    <3> QED BY <1>2, <1>7, <2>1, <3>1 DEF QuietTasks
  <2>2. CASE Completed(r)
    <3>1. PICK h \in Handlers : Holds(h, r) /\ handler[h].pc = "done"
      BY <2>2 DEF Completed
    <3>2. rows[r].status \in Verdicts
      BY <1>2, <3>1 DEF QuietHandlers, Holds
    <3>3. \A g \in Handlers : handler[g].live /\ handler[g].run = r => g = h
      BY <1>1, <3>1 DEF Attendance, Holds
    <3> QED BY <1>7, <3>1, <3>2, <3>3
  <2> QED BY <1>8, <2>1, <2>2, TaskSteps
          DEF TaskStep, Given, Begun, Archived, PushedBack
<1>9. QuietTasks'
  BY <1>5, <1>6, <1>8 DEF QuietTasks, Holds
<1>10. ASSUME NEW h \in Handlers, handler'[h].attached
       PROVE  /\ handler'[h].live /\ handler'[h].pc # "failed"
              /\ handler'[h].pc = "done" => rows'[handler'[h].run].status \in Verdicts
  <2>1. CASE Taken(h)
    BY <2>1 DEF Taken
  <2>2. CASE handler'[h] = IdleHandler
    BY <1>10, <2>2 DEF IdleHandler
  <2>3. CASE Moves(h) \/ handler'[h] = handler[h]
    <3>1. /\ handler[h].attached /\ handler'[h].run = handler[h].run
          /\ handler'[h].live \/ ~handler[h].live
          /\ handler'[h].pc = "failed" => handler[h].pc = "failed" \/ ~handler[h].live
          /\ handler'[h].pc = "done" =>
                \/ handler[h].pc = "done" \/ ~handler[h].live
                \/ rows'[handler[h].run].status \in Verdicts
      BY <1>2, <1>10, <2>3 DEF Moves
    <3>2. handler[h].live /\ handler[h].pc # "failed" /\ handler[h].run \in Runs
      BY <1>1, <1>2, <3>1 DEF QuietHandlers, Attendance
    <3>3. ASSUME handler[h].pc = "done"
          PROVE  rows'[handler[h].run].status \in Verdicts
      <4>1. rows[handler[h].run].status \in Verdicts
        BY <1>2, <3>1, <3>3 DEF QuietHandlers
      <4>2. \A g \in Handlers : handler[g].live /\ handler[g].run = handler[h].run
                                   => g = h
        BY <1>1, <3>1 DEF Attendance
      <4> QED BY <1>7, <3>2, <3>3, <4>1, <4>2
    <3> QED BY <3>1, <3>2, <3>3
  <2> QED BY <2>1, <2>2, <2>3, HandlerMoves DEF HandlerMove
<1>11. QuietHandlers'
  BY <1>10 DEF QuietHandlers
<1> QED BY <1>4, <1>9, <1>11

LEMMA InitQuiet == Init => Quiet
  BY DEF Init, Quiet, QuietRequests, QuietTasks, QuietHandlers, EmptyTable, IdleHandler

\* When nothing failed, timed out or crashed, a run nobody is to act on any more has
\* its verdict.
THEOREM VerdictsAreReached == Spec => []QuietRunsHaveVerdicts
<1>1. IInv /\ Quiet /\ [Next]_vars => Quiet'
  BY QuietKept
<1>2. IInv /\ Quiet => QuietRunsHaveVerdicts
  <2> SUFFICES ASSUME IInv, Quiet, faults = 0, NEW r \in Runs, ~Outstanding(r),
                      rows[r].status # "absent"
               PROVE  rows[r].status \in Verdicts
    BY DEF QuietRunsHaveVerdicts
  <2>1. TypeOK /\ RequestsMatch
    BY DEF IInv
  <2>2. request[r] = "accepted"
    BY <2>1 DEF Quiet, QuietRequests, Outstanding, RequestsMatch
  <2>3. task[r] = "completed"
    BY <2>1, <2>2 DEF Quiet, QuietTasks, Outstanding, RequestsMatch, TypeOK
  <2> QED BY <2>3 DEF Quiet, QuietTasks
<1> QED BY <1>1, <1>2, InitQuiet, InductiveInvariant, PTL DEF Spec

-----------------------------------------------------------------------------
(* One janitor *)

\* Nobody but the one janitor deletes, so what it listed is old still.
ListsAreOld == \A w \in Workers : \A r \in janitor[w].dels : ns[r] = "old"
Alone == \A v, w \in Workers : v = w

LEMMA NamespaceSteps ==
    ASSUME IInv, [Next]_vars, NEW r \in Runs
    PROVE  \/ ns'[r] = ns[r] \/ ns[r] \in {"none", "recent", "terminating"}
           \/ \E w \in Workers : DeleteNamespace(w, r)
<1> USE DEF IInv
<1>1. ASSUME NEW w \in Workers, NEW q \in Runs, DeleteNamespace(w, q), q # r
      PROVE  ns'[r] = ns[r]
  BY <1>1 DEF DeleteNamespace, TypeOK
<1>2. ASSUME NEW h \in Handlers, CreateNamespace(h)
      PROVE  ns'[r] = ns[r] \/ ns[r] = "none"
  BY <1>2 DEF CreateNamespace, TypeOK
<1>3. ASSUME NEW q \in Runs, NamespaceAges(q) \/ NamespaceGone(q)
      PROVE  ns'[r] = ns[r] \/ ns[r] \in {"recent", "terminating"}
  BY <1>3 DEF NamespaceAges, NamespaceGone, TypeOK
<1> QED
  BY <1>1, <1>2, <1>3
  DEF vars, Next, Dequeue, ContextEnds, AbandonHandler, Requeue, HandleStep,
      MarkStarted, RunnerReturns, Upload, MarkFinished, HandleReturns, RecoverTask,
      RowAges, JanitorStep, ListNamespaces, QueryStaleRuns, MarkStaleRun, ProcessStep,
      StopWorker, ExitWorker, CrashWorker, StartWorker, RequestStep, RefuseRequest,
      InsertRow, Enqueue, EnqueueFails, MarkEnqueueError, RequestLost

\* What is on a list was there before, or is old.
LEMMA ListSteps ==
    ASSUME IInv, [Next]_vars, NEW w \in Workers, NEW r \in janitor'[w].dels
    PROVE  /\ r \in Runs
           /\ \/ r \in janitor[w].dels
              \/ ns[r] = "old" /\ UNCHANGED ns
           /\ Alone => \A v \in Workers : ~DeleteNamespace(v, r)
<1> USE DEF IInv
<1>1. janitor[w].dels \subseteq Runs
  BY DEF TypeOK, JanitorState
<1>2. UNCHANGED janitor => r \in Runs /\ r \in janitor[w].dels
  BY <1>1
<1>3. ASSUME NEW v \in Workers, JanitorStep(v)
      PROVE  \/ r \in janitor[w].dels
             \/ r \in Runs /\ ns[r] = "old" /\ UNCHANGED ns
  BY <1>3 DEF JanitorStep, ListNamespaces, QueryStaleRuns, DeleteNamespace,
              MarkStaleRun, OldNamespaces, TypeOK, JanitorState
<1>4. ASSUME NEW v \in Workers, ProcessStep(v) PROVE r \in janitor[w].dels
  BY <1>4 DEF ProcessStep, StopWorker, ExitWorker, CrashWorker, StartWorker, Vanish,
              IdleJanitor, TypeOK
<1>5. ASSUME Alone, NEW v \in Workers, DeleteNamespace(v, r) PROVE FALSE
  <2>1. v = w
    BY <1>5 DEF Alone
  <2>2. janitor'[w].dels = janitor[w].dels \ {r}
    BY <1>5, <2>1 DEF DeleteNamespace, TypeOK, JanitorState
  <2> QED BY <2>2
<1>6. \/ r \in janitor[w].dels
      \/ r \in Runs /\ ns[r] = "old" /\ UNCHANGED ns
  BY <1>2, <1>3, <1>4
  DEF vars, Next, Dequeue, ContextEnds, AbandonHandler, Requeue, HandleStep,
      MarkStarted, CreateNamespace, RunnerReturns, Upload, MarkFinished, HandleReturns,
      RecoverTask, RowAges, NamespaceAges, NamespaceGone, RequestStep, RefuseRequest,
      InsertRow, Enqueue, EnqueueFails, MarkEnqueueError, RequestLost
<1> QED BY <1>1, <1>5, <1>6

LEMMA ListsKept == Alone /\ IInv /\ ListsAreOld /\ [Next]_vars => ListsAreOld'
<1> SUFFICES ASSUME Alone, IInv, ListsAreOld, [Next]_vars,
                    NEW w \in Workers, NEW r \in janitor'[w].dels
             PROVE  ns'[r] = "old"
  BY DEF ListsAreOld
<1>1. /\ r \in Runs
      /\ r \in janitor[w].dels \/ (ns[r] = "old" /\ UNCHANGED ns)
      /\ \A v \in Workers : ~DeleteNamespace(v, r)
  BY ListSteps
<1>2. ns[r] = "old"
  BY <1>1 DEF ListsAreOld
<1> QED BY <1>1, <1>2, NamespaceSteps

LEMMA DeletesOld ==
    ASSUME IInv, ListsAreOld, [Next]_vars, NEW r \in Runs,
           ns'[r] = "terminating", ns[r] # "terminating"
    PROVE  ns[r] = "old"
<1>1. TypeOK
  BY DEF IInv
<1>2. CASE \E w \in Workers : DeleteNamespace(w, r)
  BY <1>2 DEF DeleteNamespace, ListsAreOld
<1>3. ASSUME NEW w \in Workers, NEW q \in Runs, DeleteNamespace(w, q), q # r PROVE FALSE
  BY <1>1, <1>3 DEF DeleteNamespace, TypeOK
<1>4. ASSUME NEW h \in Handlers, CreateNamespace(h) PROVE FALSE
  BY <1>1, <1>4 DEF CreateNamespace, TypeOK
<1>5. ASSUME NEW q \in Runs, NamespaceAges(q) \/ NamespaceGone(q) PROVE FALSE
  BY <1>1, <1>5 DEF NamespaceAges, NamespaceGone, TypeOK
<1> QED
  BY <1>2, <1>3, <1>4, <1>5
  DEF vars, Next, Dequeue, ContextEnds, AbandonHandler, Requeue, HandleStep,
      MarkStarted, RunnerReturns, Upload, MarkFinished, HandleReturns, RecoverTask,
      RowAges, JanitorStep, ListNamespaces, QueryStaleRuns, MarkStaleRun, ProcessStep,
      StopWorker, ExitWorker, CrashWorker, StartWorker, RequestStep, RefuseRequest,
      InsertRow, Enqueue, EnqueueFails, MarkEnqueueError, RequestLost

\* With one worker process, as deployed, the janitor deletes only namespaces that are
\* old when it deletes them.
THEOREM DeletesAreOld == Alone /\ Spec => OnlyOldNamespacesDeleted
<1>1. Init => ListsAreOld
  <2> SUFFICES ASSUME Init, NEW w \in Workers, NEW r \in janitor[w].dels PROVE FALSE
    BY DEF ListsAreOld
  <2>1. janitor[w] = IdleJanitor
    BY DEF Init
  <2> QED BY <2>1 DEF IdleJanitor
<1>2. Alone /\ IInv /\ ListsAreOld /\ [Next]_vars => ListsAreOld'
  BY ListsKept
<1>3. IInv /\ ListsAreOld /\ [Next]_vars =>
        [\A r \in Runs : ns'[r] = "terminating" /\ ns[r] # "terminating"
                            => ns[r] = "old"]_vars
  BY DeletesOld
<1> SUFFICES ASSUME Alone PROVE Spec => OnlyOldNamespacesDeleted
  OBVIOUS
<1>4. IInv /\ ListsAreOld /\ [Next]_vars => ListsAreOld'
  BY <1>2
<1> QED BY <1>1, <1>3, <1>4, InductiveInvariant, PTL DEF Spec, OnlyOldNamespacesDeleted
-----------------------------------------------------------------------------
(* What a client may rely on *)

\* What a step may do to the run it is about, as RunContract has it.
ShownStep(r) ==
    \/ rows'[r].status = rows[r].status /\ Outstanding(r)' = Outstanding(r)
    \/ /\ rows[r].status = "absent" /\ rows'[r].status = "QUEUED"
       /\ Outstanding(r)' = TRUE
    \/ /\ Outstanding(r) = TRUE /\ Outstanding(r)' = TRUE
       /\ rows'[r].status \in {"RUNNING", "PASSED", "FAILED", "ERROR"}
       /\ rows'[r].status \in {"PASSED", "FAILED"} => rows[r].status # "QUEUED"
    \/ /\ Outstanding(r) = TRUE /\ Outstanding(r)' = FALSE
       /\ rows'[r].status = rows[r].status \/ rows'[r].status = "ERROR"
    \/ /\ Outstanding(r) = FALSE /\ Outstanding(r)' = FALSE
       /\ rows[r].status = "RUNNING" /\ rows'[r].status = "ERROR"

Aside(r) == \A q \in Runs \ {r} : /\ rows'[q].status = rows[q].status
                                  /\ Outstanding(q)' = Outstanding(q)

status == [r \in Runs |-> rows[r].status]
open == [r \in Runs |-> Outstanding(r)]

LEMMA ShownStepIsContract ==
    ASSUME NEW r \in Runs, Aside(r), ShownStep(r)
    PROVE  Contract!Next \/ UNCHANGED Contract!vars
<1> USE DEF Aside, status, open
<1>1. ASSUME NEW s, rows'[r].status = s
      PROVE  status' = [status EXCEPT ![r] = s]
  BY <1>1
<1>2. ASSUME NEW b, Outstanding(r)' = b
      PROVE  open' = [open EXCEPT ![r] = b]
  BY <1>2
<1>3. status[r] = rows[r].status /\ open[r] = Outstanding(r)
  OBVIOUS
<1>4. rows'[r].status = rows[r].status => status' = status
  OBVIOUS
<1>5. Outstanding(r)' = Outstanding(r) => open' = open
  OBVIOUS
<1>6. CASE rows'[r].status = rows[r].status /\ Outstanding(r)' = Outstanding(r)
  BY <1>4, <1>5, <1>6 DEF Contract!vars
<1>7. CASE /\ rows[r].status = "absent" /\ rows'[r].status = "QUEUED"
           /\ Outstanding(r)' = TRUE
  <2>1. Contract!Ask(r)
    BY <1>1, <1>2, <1>3, <1>7 DEF Contract!Ask
  <2> QED BY <2>1 DEF Contract!Next
<1>8. CASE /\ Outstanding(r) = TRUE /\ Outstanding(r)' = TRUE
           /\ rows'[r].status \in {"RUNNING", "PASSED", "FAILED", "ERROR"}
           /\ rows'[r].status \in {"PASSED", "FAILED"} => rows[r].status # "QUEUED"
  <2>1. Contract!Work(r)
    BY <1>1, <1>3, <1>5, <1>8 DEF Contract!Work
  <2> QED BY <2>1 DEF Contract!Next
<1>9. CASE /\ Outstanding(r) = TRUE /\ Outstanding(r)' = FALSE
           /\ rows'[r].status = rows[r].status \/ rows'[r].status = "ERROR"
  <2>1. Contract!Close(r)
    BY <1>1, <1>2, <1>3, <1>4, <1>9 DEF Contract!Close
  <2> QED BY <2>1 DEF Contract!Next
<1>10. CASE /\ Outstanding(r) = FALSE /\ Outstanding(r)' = FALSE
            /\ rows[r].status = "RUNNING" /\ rows'[r].status = "ERROR"
  <2>1. Contract!Expire(r)
    BY <1>1, <1>3, <1>5, <1>10 DEF Contract!Expire
  <2> QED BY <2>1 DEF Contract!Next
<1> QED BY <1>6, <1>7, <1>8, <1>9, <1>10 DEF ShownStep

LEMMA FinishedStatus ==
    ASSUME NEW t \in [Runs -> Row], NEW r \in Runs, NEW v, NEW e, NEW p
    PROVE  UpdateTestRunFinished(t, r, v, e, p)[r].status = v
  BY DEF UpdateTestRunFinished, Row

LEMMA NothingShown ==
    ASSUME UNCHANGED <<rows, request, task>>
    PROVE  UNCHANGED Contract!vars
  BY DEF Contract!vars, Outstanding

LEMMA RequestShows ==
    ASSUME IInv, NEW r \in Runs, RequestStep(r)
    PROVE  Aside(r) /\ ShownStep(r)
<1> USE DEF IInv
<1>1. ASSUME NEW q \in Runs \ {r}
      PROVE  rows'[q].status = rows[q].status /\ Outstanding(q)' = Outstanding(q)
  <2>1. rows'[q].status = rows[q].status
    BY DEF RequestStep, RefuseRequest, InsertRow, Enqueue, EnqueueFails,
       MarkEnqueueError, RequestLost, CreateTestRun, UpdateTestRunFinished, TypeOK
  <2>2. request'[q] = request[q] /\ task'[q] = task[q]
    BY DEF RequestStep, RefuseRequest, InsertRow, Enqueue, EnqueueFails,
       MarkEnqueueError, RequestLost, TypeOK
  <2> QED BY <2>1, <2>2 DEF Outstanding
<1>0. Aside(r)
  BY <1>1 DEF Aside
<1> SUFFICES ShownStep(r)
  BY <1>0
<1>2. CASE RefuseRequest(r)
  <2>1. UNCHANGED rows
    BY <1>2 DEF RefuseRequest
  <2>2. ~Outstanding(r) /\ ~Outstanding(r)'
    BY <1>2 DEF RefuseRequest, Outstanding, RequestsMatch, TypeOK
  <2> QED BY <2>1, <2>2 DEF ShownStep, Outstanding
<1>3. CASE InsertRow(r)
  <2>1. rows'[r].status = "QUEUED"
    BY <1>3 DEF InsertRow, CreateTestRun, TypeOK, Row
  <2>2. rows[r].status = "absent"
    BY <1>3 DEF InsertRow, RequestsMatch
  <2>3. Outstanding(r)' = TRUE
    BY <1>3 DEF InsertRow, Outstanding, TypeOK
  <2> QED BY <2>1, <2>2, <2>3 DEF ShownStep
<1>4. CASE Enqueue(r) \/ EnqueueFails(r)
  <2>1. UNCHANGED rows
    BY <1>4 DEF Enqueue, EnqueueFails
  <2>2. Outstanding(r) /\ Outstanding(r)'
    BY <1>4 DEF Enqueue, EnqueueFails, Outstanding, TypeOK
  <2> QED BY <2>1, <2>2 DEF ShownStep, Outstanding
<1>5. CASE MarkEnqueueError(r) \/ RequestLost(r)
  <2>1. rows'[r].status = rows[r].status \/ rows'[r].status = "ERROR"
    <3>1. \/ UNCHANGED rows
          \/ rows' = UpdateTestRunFinished(rows, r, "ERROR", "enqueue", FALSE)
      BY <1>5 DEF MarkEnqueueError, RequestLost
    <3>2. CASE rows' = UpdateTestRunFinished(rows, r, "ERROR", "enqueue", FALSE)
      BY <3>2 DEF UpdateTestRunFinished, TypeOK, Row
    <3> QED BY <3>1, <3>2
  <2>2. Outstanding(r) = TRUE
    BY <1>5 DEF MarkEnqueueError, RequestLost, Outstanding
  <2>3. Outstanding(r)' \in BOOLEAN
    BY DEF Outstanding
  <2> QED BY <2>1, <2>2, <2>3 DEF ShownStep
<1> QED BY <1>2, <1>3, <1>4, <1>5 DEF RequestStep

\* Tasks that end close a run, unless the API server is still at it.
LEMMA QueueShows ==
    ASSUME IInv, NEW r \in Runs, UNCHANGED <<rows, request>>,
           \E t \in {"pending", "active", "completed", "archived"} :
              task' = [task EXCEPT ![r] = t],
           task[r] \in {"pending", "active"}
    PROVE  Aside(r) /\ ShownStep(r)
<1>1. \A q \in Runs \ {r} : task'[q] = task[q]
  BY DEF IInv, TypeOK
<1>2. Aside(r)
  BY <1>1 DEF Aside, Outstanding
<1>3. Outstanding(r) = TRUE /\ Outstanding(r)' \in BOOLEAN
  BY DEF Outstanding
<1> QED BY <1>2, <1>3 DEF ShownStep

\* An update of a row by the handler of its active task.
LEMMA MarkShows ==
    ASSUME IInv, NEW r \in Runs, task[r] = "active", UNCHANGED <<request, task>>,
           \/ rows' = UpdateTestRunStarted(rows, r)
           \/ /\ rows[r].started # "null"
              /\ \E v \in Verdicts, e \in Errors, p \in BOOLEAN :
                    rows' = UpdateTestRunFinished(rows, r, v, e, p)
    PROVE  Aside(r) /\ ShownStep(r)
<1> USE DEF IInv
<1>1. \A q \in Runs : Outstanding(q)' = Outstanding(q)
  BY DEF Outstanding
<1>2. \A q \in Runs \ {r} : rows'[q] = rows[q]
  BY DEF UpdateTestRunStarted, UpdateTestRunFinished, TypeOK
<1>3. \/ rows'[r].status = "RUNNING"
      \/ rows[r].started # "null" /\ rows'[r].status \in Verdicts
  <2>1. CASE rows' = UpdateTestRunStarted(rows, r)
    BY <2>1 DEF UpdateTestRunStarted, TypeOK, Row
  <2>2. ASSUME rows[r].started # "null", NEW v \in Verdicts, NEW e, NEW p,
               rows' = UpdateTestRunFinished(rows, r, v, e, p)
        PROVE  rows'[r].status \in Verdicts
    BY <2>2, FinishedStatus DEF TypeOK
  <2> QED BY <2>1, <2>2
<1>4. rows[r].started # "null" => rows[r].status # "QUEUED"
  BY DEF RowsAgree
<1>5. Outstanding(r) = TRUE /\ Outstanding(r)' = TRUE
  BY DEF Outstanding
<1>6. /\ rows'[r].status \in {"RUNNING", "PASSED", "FAILED", "ERROR"}
      /\ rows'[r].status \in {"PASSED", "FAILED"} => rows[r].status # "QUEUED"
  BY <1>3, <1>4 DEF Verdicts
<1>7. Aside(r)
  BY <1>1, <1>2 DEF Aside
<1> QED BY <1>5, <1>6, <1>7 DEF ShownStep

LEMMA HandlerShows ==
    ASSUME IInv, NEW h \in Handlers, HandleStep(h)
    PROVE  Contract!Next \/ UNCHANGED Contract!vars
<1> DEFINE r == handler[h].run
<1> USE DEF IInv
<1>1. CASE MarkStarted(h) \/ MarkFinished(h)
  <2>1. r \in Runs
    BY <1>1 DEF MarkStarted, MarkFinished, Attendance, Idle
  <2>2. UNCHANGED <<request, task>>
    BY <1>1 DEF MarkStarted, MarkFinished
  <2>3. CASE UNCHANGED rows
    BY <2>2, <2>3, NothingShown
  <2>4. CASE CallOk(h) /\ \/ rows' = UpdateTestRunStarted(rows, r)
                          \/ /\ rows[r].started # "null"
                             /\ \E v \in Verdicts, e \in Errors, p \in BOOLEAN :
                                   rows' = UpdateTestRunFinished(rows, r, v, e, p)
    <3>1. task[r] = "active"
      BY <2>4 DEF CallOk, Attendance
    <3> QED BY <2>1, <2>2, <2>4, <3>1, MarkShows, ShownStepIsContract
  <2>5. rows[r].started # "null" \/ MarkStarted(h)
    BY <1>1 DEF MarkFinished, RowsBegin
  <2>6. handler[h].verdict \in Verdicts /\ handler[h].prefix \in BOOLEAN
    BY DEF TypeOK, HandlerState
  <2> QED BY <1>1, <2>3, <2>4, <2>5, <2>6 DEF MarkStarted, MarkFinished, Errors
<1>2. CASE HandleReturns(h)
  <2>1. CASE UNCHANGED task
    BY <1>2, <2>1, NothingShown DEF HandleReturns
  <2>2. CASE handler[h].attached
    <3>1. r \in Runs /\ task[r] = "active"
      BY <2>2 DEF Attendance
    <3>2. \E t \in {"completed", "archived"} : task' = [task EXCEPT ![r] = t]
      BY <1>2, <2>2 DEF HandleReturns, Release
    <3> QED BY <1>2, <3>1, <3>2, QueueShows, ShownStepIsContract DEF HandleReturns
  <2> QED BY <1>2, <2>1, <2>2 DEF HandleReturns, Release
<1> QED BY <1>1, <1>2, NothingShown
        DEF HandleStep, CreateNamespace, RunnerReturns, Upload

LEMMA JanitorShows ==
    ASSUME IInv, NEW w \in Workers, NEW r \in Runs, MarkStaleRun(w, r)
    PROVE  Contract!Next \/ UNCHANGED Contract!vars
<1> USE DEF IInv
<1>1. UNCHANGED <<request, task>>
  BY DEF MarkStaleRun
<1>2. CASE UNCHANGED rows
  BY <1>1, <1>2, NothingShown
<1>3. CASE rows' = MarkStaleRunAsError(rows, r) /\ rows[r].status = "RUNNING"
  <2>1. \A q \in Runs : Outstanding(q)' = Outstanding(q)
    BY <1>1 DEF Outstanding
  <2>2. \A q \in Runs \ {r} : rows'[q] = rows[q]
    BY <1>3 DEF MarkStaleRunAsError, TypeOK
  <2>3. rows'[r].status = "ERROR"
    BY <1>3 DEF MarkStaleRunAsError, TypeOK, Row
  <2>4. Outstanding(r) \in BOOLEAN
    BY DEF Outstanding
  <2>5. Aside(r) /\ ShownStep(r)
    BY <1>3, <2>1, <2>2, <2>3, <2>4 DEF Aside, ShownStep
  <2> QED BY <2>5, ShownStepIsContract
<1> QED BY <1>2, <1>3 DEF MarkStaleRun, MarkStaleRunAsError

LEMMA StepsShow ==
    ASSUME IInv, [Next]_vars
    PROVE  Contract!Next \/ UNCHANGED Contract!vars
<1> USE DEF IInv
<1>1. ASSUME NEW r \in Runs, RequestStep(r)
      PROVE  Contract!Next \/ UNCHANGED Contract!vars
  BY <1>1, RequestShows, ShownStepIsContract
<1>2. ASSUME NEW r \in Runs,
             \/ RecoverTask(r)
             \/ \E h \in Handlers, w \in Workers : Dequeue(h, w, r)
      PROVE  Contract!Next \/ UNCHANGED Contract!vars
  <2>1. /\ UNCHANGED <<rows, request>> /\ task[r] \in {"pending", "active"}
        /\ \E t \in {"pending", "active", "completed", "archived"} :
              task' = [task EXCEPT ![r] = t]
    BY <1>2 DEF RecoverTask, Dequeue
  <2> QED BY <2>1, QueueShows, ShownStepIsContract
<1>3. ASSUME NEW h \in Handlers, AbandonHandler(h) \/ Requeue(h)
      PROVE  Contract!Next \/ UNCHANGED Contract!vars
  <2> DEFINE r == handler[h].run
  <2>1. /\ UNCHANGED <<rows, request>> /\ r \in Runs /\ task[r] = "active"
        /\ \E t \in {"pending", "active", "completed", "archived"} :
              task' = [task EXCEPT ![r] = t]
    BY <1>3 DEF AbandonHandler, Requeue, Attendance
  <2> QED BY <2>1, QueueShows, ShownStepIsContract
<1>4. ASSUME NEW r \in Runs, RowAges(r)
      PROVE  Contract!Next \/ UNCHANGED Contract!vars
  <2>1. \A q \in Runs : rows'[q].status = rows[q].status
    BY <1>4 DEF RowAges, Grow, TypeOK, Row
  <2>2. \A q \in Runs : Outstanding(q)' = Outstanding(q)
    BY <1>4 DEF RowAges, Outstanding
  <2>3. Aside(r) /\ ShownStep(r)
    BY <2>1, <2>2 DEF Aside, ShownStep
  <2> QED BY <2>3, ShownStepIsContract
<1>5. ASSUME UNCHANGED <<rows, request, task>>
      PROVE  Contract!Next \/ UNCHANGED Contract!vars
  BY <1>5, NothingShown
<1> QED
  BY <1>1, <1>2, <1>3, <1>4, <1>5, HandlerShows, JanitorShows
  DEF vars, Next, ContextEnds, NamespaceAges, NamespaceGone, JanitorStep,
      ListNamespaces, QueryStaleRuns, DeleteNamespace, ProcessStep, StopWorker,
      ExitWorker, CrashWorker, StartWorker

\* The life cycle implements the safety part of what a client may rely on: a run that
\* is closed never reopens, and from then on only turns from RUNNING to ERROR.
THEOREM ContractIsKept == Spec => ClosedRunsStayClosed
<1>1. Init => Contract!Init
  BY DEF Init, Contract!Init, Outstanding, EmptyTable
<1>2. IInv /\ [Next]_vars => [Contract!Next]_(Contract!vars)
  BY StepsShow
<1> QED BY <1>1, <1>2, InductiveInvariant, PTL
        DEF Spec, ClosedRunsStayClosed, Contract!Spec
=============================================================================
