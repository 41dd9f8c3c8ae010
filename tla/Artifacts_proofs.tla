--------------------------- MODULE Artifacts_proofs ---------------------------
(***************************************************************************)
(* The properties of Artifacts, for any number of attempts, any sizes of   *)
(* logs and any two limits of which the reader's is not the smaller one.   *)
(***************************************************************************)
EXTENDS Artifacts, TLAPS

States == {"absent", "running", "passed", "failed"}
Pcs == {"idle", "namespace", "create", "wait", "fetch", "session", "put", "finish",
        "done"}

\* Every variable has its type.
TypeOK ==
    /\ cfg \in [plugin : BOOLEAN, bucket : BOOLEAN]
    /\ job \in [Stages -> [by : 0..MaxAttempts, state : States, size : Nat]]
    /\ removed \subseteq Stages
    /\ row \in [status : {"QUEUED", "RUNNING", "PASSED", "FAILED", "ERROR"},
                prefix : BOOLEAN]
    /\ cleared \in BOOLEAN
    /\ task \in {"pending", "active", "gone"}
    /\ attempt \in 0..MaxAttempts
    /\ pc \in Pcs /\ at \in Stages
    /\ passed \in BOOLEAN /\ verdict \in {"PASSED", "FAILED", "ERROR"}
    /\ logs \in [Stages -> Log]
    /\ prefix \in BOOLEAN /\ lost \subseteq Stages
    /\ shown \in [logs : [Stages -> Log], lost : SUBSET Stages]
    /\ object \in [Stages -> Log]
    /\ get \in [pc : {"idle", "read", "none", "missing", "cut"}, name : Stages]
    /\ served \in BOOLEAN

-----------------------------------------------------------------------------
(* Types *)

\* A cut leaves something of what is not empty, and no more than the limit.
LEMMA CutBounds ==
  ASSUME NEW n \in Nat, NEW limit \in Nat
  PROVE  /\ Cut(n, limit) \in 0..limit
         /\ n > 0 /\ limit > 0 => Cut(n, limit) > 0
         /\ n <= limit => Cut(n, limit) = n
  BY DEF Cut

LEMMA LastIs == Last \in {2, 3} /\ (cfg' = cfg => Last' = Last)
  BY DEF Last

LEMMA InitTypeOK == Init => TypeOK
  <1> SUFFICES ASSUME Init PROVE TypeOK
    OBVIOUS
  <1>1. NoLog \in Log /\ NoLogs \in [Stages -> Log]
    BY LimitsAssumption DEF NoLog, NoLogs, Log
  <1>2. NoJob \in [by : 0..MaxAttempts, state : States, size : Nat]
    BY LimitsAssumption DEF NoJob, States
  <1>3. get \in [pc : {"idle", "read", "none", "missing", "cut"}, name : Stages]
    BY DEF Init
  <1>4. attempt \in 0..MaxAttempts /\ at \in Stages /\ pc \in Pcs
    BY LimitsAssumption DEF Init, Stages, Pcs
  <1>5. /\ passed \in BOOLEAN /\ prefix \in BOOLEAN
        /\ cleared \in BOOLEAN /\ served \in BOOLEAN
    BY DEF Init
  <1> QED BY <1>1, <1>2, <1>3, <1>4, <1>5 DEF Init, TypeOK

LEMMA AttemptKeepsTypeOK == TypeOK /\ Attempt => TypeOK'
  <1> SUFFICES ASSUME TypeOK, Attempt PROVE TypeOK'
    OBVIOUS
  <1>1. CASE Begin
    <2>1. attempt' \in 0..MaxAttempts
      BY <1>1, LimitsAssumption DEF Begin, TypeOK
    <2>2. shown' \in [logs : [Stages -> Log], lost : SUBSET Stages]
      <3>1. NoLogs \in [Stages -> Log]
        BY LimitsAssumption DEF NoLogs, NoLog, Log
      <3> QED BY <1>1, <3>1 DEF Begin
    <2> QED BY <1>1, <2>1, <2>2 DEF Begin, TypeOK, Pcs
  <1>2. CASE CreateNamespace
    BY <1>2 DEF CreateNamespace, TypeOK, Pcs
  <1>3. CASE CreateJob
    <2>1. [by |-> attempt, state |-> "running", size |-> 0]
             \in [by : 0..MaxAttempts, state : States, size : Nat]
      BY DEF TypeOK, States
    <2>2. job' \in [Stages -> [by : 0..MaxAttempts, state : States, size : Nat]]
      BY <1>3, <2>1 DEF CreateJob, TypeOK
    <2> QED BY <1>3, <2>2 DEF CreateJob, TypeOK, Pcs
  <1>4. CASE RunFails
    BY <1>4 DEF RunFails, TypeOK, Pcs
  <1>5. CASE AwaitJob
    BY <1>5 DEF AwaitJob, TypeOK, Pcs
  <1>6. CASE FetchLog
    <2>1. at \in Stages /\ at' \in Stages /\ pc' \in Pcs
          /\ verdict' \in {"PASSED", "FAILED", "ERROR"}
      <3>1. Last \in {2, 3} /\ at \in {1, 2, 3}
        BY LastIs DEF TypeOK, Stages
      <3> QED BY <1>6, <3>1 DEF FetchLog, AfterStage, TypeOK, Stages, Pcs
    <2>2. lost' \subseteq Stages
      BY <1>6 DEF FetchLog, TypeOK
    <2>3. logs' \in [Stages -> Log]
      <3>1. Cut(job[at].size, LogLimit) \in 0..LogLimit
        BY CutBounds, LimitsAssumption DEF TypeOK
      <3>2. [job |-> job[at].by, passed |-> passed,
             size |-> Cut(job[at].size, LogLimit)] \in Log
        BY <3>1 DEF Log, TypeOK
      <3> QED BY <1>6, <3>2 DEF FetchLog, TypeOK
    <2> QED BY <1>6, <2>1, <2>2, <2>3 DEF FetchLog, TypeOK
  <1>7. CASE OpenSession
    <2>1. at' \in Stages /\ pc' \in Pcs
      BY <1>7 DEF OpenSession, Stages, Pcs
    <2>3. lost' \subseteq Stages
      BY <1>7 DEF OpenSession, TypeOK
    <2>2. prefix' \in BOOLEAN
      BY <1>7 DEF OpenSession, TypeOK
    <2> QED BY <1>7, <2>1, <2>2, <2>3 DEF OpenSession, TypeOK
  <1>8. CASE Put
    <2>1. object' \in [Stages -> Log]
      BY <1>8 DEF Put, TypeOK
    <2>2. at' \in Stages /\ pc' \in Pcs
      BY <1>8 DEF Put, NextPut, TypeOK, Stages, Pcs
    <2> QED BY <1>8, <2>1, <2>2 DEF Put, TypeOK
  <1>9. CASE PutFails
    <2>1. object' \in [Stages -> Log]
      BY <1>9 DEF PutFails, TypeOK
    <2> QED BY <1>9, <2>1 DEF PutFails, TypeOK, Pcs
  <1>10. CASE Finish
    <2>1. /\ row' \in [status : {"QUEUED", "RUNNING", "PASSED", "FAILED", "ERROR"},
                       prefix : BOOLEAN]
          /\ shown' \in [logs : [Stages -> Log], lost : SUBSET Stages]
      BY <1>10 DEF Finish, TypeOK
    <2>2. cleared' \in BOOLEAN
      BY <1>10 DEF Finish, TypeOK
    <2> QED BY <1>10, <2>1, <2>2 DEF Finish, TypeOK, Pcs
  <1>11. CASE End
    <2>1. NoLogs \in [Stages -> Log]
      BY LimitsAssumption DEF NoLogs, NoLog, Log
    <2>2. at' \in Stages /\ pc' \in Pcs /\ lost' \subseteq Stages
      BY <1>11 DEF End, Stages, Pcs
    <2>3. passed' \in BOOLEAN /\ prefix' \in BOOLEAN
      BY <1>11 DEF End
    <2> QED BY <1>11, <2>1, <2>2, <2>3 DEF End, TypeOK
  <1> QED BY <1>1, <1>2, <1>3, <1>4, <1>5, <1>6, <1>7, <1>8, <1>9, <1>10, <1>11
          DEF Attempt

LEMMA OthersKeepTypeOK ==
  ASSUME TypeOK,
         \/ \E s \in Stages : JobEnds(s) \/ JobRemoved(s)
         \/ MarkStale \/ ReadRow \/ ReadObject
  PROVE  TypeOK'
  <1>1. ASSUME NEW s \in Stages, JobEnds(s) PROVE TypeOK'
    <2> PICK r \in {"passed", "failed"}, n \in Sizes :
             job' = [job EXCEPT ![s] = [by |-> @.by, state |-> r, size |-> n]]
      BY <1>1 DEF JobEnds
    <2>1. n \in Nat
      BY LimitsAssumption
    <2>2. job' \in [Stages -> [by : 0..MaxAttempts, state : States, size : Nat]]
      BY <2>1 DEF TypeOK, States
    <2> QED BY <1>1, <2>2 DEF JobEnds, TypeOK, locals
  <1>2. ASSUME NEW s \in Stages, JobRemoved(s) PROVE TypeOK'
    <2>1. NoJob \in [by : 0..MaxAttempts, state : States, size : Nat]
      BY LimitsAssumption DEF NoJob, States
    <2>2. job' \in [Stages -> [by : 0..MaxAttempts, state : States, size : Nat]]
      BY <1>2, <2>1 DEF JobRemoved, TypeOK
    <2> QED BY <1>2, <2>2 DEF JobRemoved, TypeOK, locals
  <1>3. CASE MarkStale
    BY <1>3 DEF MarkStale, TypeOK, locals
  <1>4. CASE ReadRow
    BY <1>4 DEF ReadRow, TypeOK, locals
  <1>5. CASE ReadObject
    <2>1. get' \in [pc : {"idle", "read", "none", "missing", "cut"}, name : Stages]
      BY <1>5 DEF ReadObject, TypeOK
    <2>2. served' \in BOOLEAN
      BY <1>5 DEF ReadObject, TypeOK
    <2> QED BY <1>5, <2>1, <2>2 DEF ReadObject, TypeOK, locals
  <1> QED BY <1>1, <1>2, <1>3, <1>4, <1>5

\* TypeOK holds in every reachable state.
THEOREM TypeCorrect == Spec => []TypeOK
  <1>1. TypeOK /\ [Next]_vars => TypeOK'
    <2>1. TypeOK /\ UNCHANGED vars => TypeOK'
      BY DEF TypeOK, vars, locals
    <2> QED BY <2>1, AttemptKeepsTypeOK, OthersKeepTypeOK DEF Next
  <1> QED BY <1>1, InitTypeOK, PTL DEF Spec

-----------------------------------------------------------------------------
(* What an attempt knows *)

Passing(s) == s \in lost \/ (logs[s].passed /\ logs[s].size > 0)
Failing(s) == s \in lost \/ (~logs[s].passed /\ logs[s].size > 0)
Kept(s) == s \in lost \/ (logs[s].size > 0 => object[s] = logs[s])

\* Nothing is left of an earlier attempt in the variables of a new one, a row with
\* a verdict is nobody's, and a Job that ended has a log.
Phases ==
    /\ task = "pending" => pc = "idle"
    /\ row.status \in {"PASSED", "FAILED"} => pc \in {"idle", "done"}
    /\ pc \in {"idle", "namespace"} =>
          at = 1 /\ logs = NoLogs /\ lost = {} /\ verdict = "ERROR"
    /\ \A s \in Stages : job[s].state \in {"passed", "failed"} => job[s].size > 0
    /\ pc = "fetch" => job[at] = NoJob \/ job[at].state \in {"passed", "failed"}

LEMMA PhasesKept == TypeOK /\ Phases /\ [Next]_vars => Phases'
  <1> SUFFICES ASSUME TypeOK, Phases, [Next]_vars PROVE Phases'
    OBVIOUS
  <1>1. CASE UNCHANGED vars
    BY <1>1 DEF vars, locals, Phases
  <1>2. CASE Begin
    BY <1>2 DEF Begin, Phases, TypeOK
  <1>3. CASE CreateNamespace
    BY <1>3 DEF CreateNamespace, Phases, TypeOK
  <1>4. CASE CreateJob
    <2>1. \A s \in Stages : job'[s].state \in {"passed", "failed"} => job'[s].size > 0
      <3> SUFFICES ASSUME NEW s \in Stages, job'[s].state \in {"passed", "failed"}
                   PROVE  job'[s].size > 0
        OBVIOUS
      <3>1. job'[s] = job[s] \/ job'[s].state = "running"
        BY <1>4 DEF CreateJob, TypeOK
      <3> QED BY <3>1 DEF Phases
    <2>2. UNCHANGED <<task, row>> /\ pc = "create" /\ pc' = "wait"
      BY <1>4 DEF CreateJob
    <2> QED BY <2>1, <2>2 DEF Phases
  <1>5. CASE RunFails
    BY <1>5 DEF RunFails, Phases, TypeOK
  <1>6. CASE AwaitJob
    BY <1>6 DEF AwaitJob, Phases, TypeOK
  <1>7. CASE FetchLog
    <2>1. UNCHANGED <<task, row, job>> /\ pc = "fetch" /\ pc' \in {"create", "session"}
      BY <1>7 DEF FetchLog, AfterStage
    <2> QED BY <2>1 DEF Phases
  <1>8. CASE OpenSession
    BY <1>8 DEF OpenSession, Phases, TypeOK
  <1>9. CASE Put
    BY <1>9 DEF Put, NextPut, Phases, TypeOK
  <1>10. CASE PutFails
    BY <1>10 DEF PutFails, Phases, TypeOK
  <1>11. CASE Finish
    BY <1>11 DEF Finish, Phases, TypeOK
  <1>12. CASE End
    BY <1>12 DEF End, Phases, TypeOK
  <1>13. ASSUME NEW s \in Stages, JobEnds(s) PROVE Phases'
    <2> PICK r \in {"passed", "failed"}, n \in Sizes :
             job' = [job EXCEPT ![s] = [by |-> @.by, state |-> r, size |-> n]]
      BY <1>13 DEF JobEnds
    <2>1. n > 0
      BY LimitsAssumption
    <2>2. job'[s].state = r /\ job'[s].size = n
      BY DEF TypeOK
    <2>3. \A t \in Stages \ {s} : job'[t] = job[t]
      BY DEF TypeOK
    <2>4. UNCHANGED <<task, row, pc, at, logs, lost, verdict>>
      BY <1>13 DEF JobEnds, locals
    <2>5. at \in Stages
      BY DEF TypeOK
    <2> QED BY <2>1, <2>2, <2>3, <2>4, <2>5 DEF Phases
  <1>14. ASSUME NEW s \in Stages, JobRemoved(s) PROVE Phases'
    <2>1. job'[s] = NoJob /\ \A t \in Stages \ {s} : job'[t] = job[t]
      BY <1>14 DEF JobRemoved, TypeOK
    <2>2. UNCHANGED <<task, row, pc, at, logs, lost, verdict>>
      BY <1>14 DEF JobRemoved, locals
    <2>3. at \in Stages
      BY DEF TypeOK
    <2> QED BY <2>1, <2>2, <2>3 DEF Phases, NoJob
  <1>15. CASE MarkStale
    BY <1>15 DEF MarkStale, locals, Phases, TypeOK
  <1>16. CASE ReadRow \/ ReadObject
    BY <1>16 DEF ReadRow, ReadObject, locals, Phases
  <1> QED BY <1>1, <1>2, <1>3, <1>4, <1>5, <1>6, <1>7, <1>8, <1>9, <1>10, <1>11,
             <1>12, <1>13, <1>14, <1>15, <1>16 DEF Next, Attempt

\* The stages before the one an attempt is at passed, if it has not lost their
\* logs; of those after it there is no log yet.
Gathered == pc \in {"create", "wait", "fetch"} =>
    /\ at <= Last /\ verdict = "ERROR"
    /\ \A s \in 1..(at - 1) : Passing(s)
    /\ \A s \in at..3 : logs[s] = NoLog /\ s \notin lost

\* What a verdict says of the logs.
Judgement ==
    /\ verdict = "PASSED" => \A s \in 1..Last : Passing(s)
    /\ verdict = "FAILED" =>
          \E f \in 2..Last : Failing(f) /\ \A s \in 1..(f - 1) : Passing(s)

Judged == pc \in {"session", "put", "finish"} => Judgement

\* The bucket has what was put so far.
Stored ==
    /\ pc = "put" => prefix /\ \A s \in 1..(at - 1) : Kept(s)
    /\ pc = "finish" => \/ lost = Stages \/ verdict = "ERROR"
                        \/ prefix /\ \A s \in Stages : Kept(s)

\* A log that is fetched, or lost, speaks for its stage as the wait did.
LEMMA FetchAdds ==
  ASSUME TypeOK, Phases, Gathered, FetchLog
  PROVE  /\ at \in 1..Last /\ verdict = "ERROR" /\ cfg' = cfg
         /\ \A s \in 1..(at - 1) : Passing(s)'
         /\ \A s \in {at} : (passed => Passing(s)') /\ (~passed => Failing(s)')
         /\ \A s \in (at + 1)..3 : logs'[s] = NoLog /\ s \notin lost'
  <1>1. /\ pc = "fetch" /\ cfg' = cfg /\ at \in {1, 2, 3} /\ at <= Last
        /\ verdict = "ERROR" /\ Last \in {2, 3}
    BY LastIs DEF FetchLog, Gathered, TypeOK, Stages
  <1>2. /\ \A s \in 1..(at - 1) : Passing(s) /\ s \in Stages
        /\ \A s \in at..3 : logs[s] = NoLog /\ s \notin lost /\ s \in Stages
    BY <1>1 DEF Gathered, Stages
  <1>3. \A s \in Stages \ {at} : logs'[s] = logs[s] /\ (s \in lost' <=> s \in lost)
    BY DEF FetchLog, TypeOK
  <1>4. \/ at \in lost'
        \/ logs'[at].passed = passed /\ logs'[at].size > 0
    <2>1. CASE lost' = lost \cup {at}
      BY <2>1
    <2>2. CASE /\ job[at] # NoJob
               /\ logs' = [logs EXCEPT ![at] = [job |-> job[at].by, passed |-> passed,
                                                size |-> Cut(job[at].size, LogLimit)]]
      <3>1. job[at].state \in {"passed", "failed"} /\ at \in Stages
        BY <2>2, <1>1 DEF Phases, TypeOK
      <3>2. job[at].size > 0 /\ job[at].size \in Nat
        BY <3>1 DEF Phases, TypeOK
      <3>3. Cut(job[at].size, LogLimit) > 0
        BY <3>2, CutBounds, LimitsAssumption
      <3>4. logs'[at] = [job |-> job[at].by, passed |-> passed,
                         size |-> Cut(job[at].size, LogLimit)]
        BY <2>2, <3>1 DEF TypeOK
      <3> QED BY <3>3, <3>4
    <2> QED BY <2>1, <2>2 DEF FetchLog
  <1>5. \A s \in 1..(at - 1) : Passing(s)'
    <2> TAKE s \in 1..(at - 1)
    <2>1. s \in Stages \ {at} /\ Passing(s)
      BY <1>1, <1>2
    <2> QED BY <2>1, <1>3 DEF Passing
  <1>6. \A s \in {at} : (passed => Passing(s)') /\ (~passed => Failing(s)')
    BY <1>4 DEF Passing, Failing
  <1>7. \A s \in (at + 1)..3 : logs'[s] = NoLog /\ s \notin lost'
    <2> TAKE s \in (at + 1)..3
    <2>1. s \in at..3 /\ s # at
      BY <1>1
    <2> QED BY <2>1, <1>2, <1>3
  <1> QED BY <1>1, <1>5, <1>6, <1>7

LEMMA GatheredKept == TypeOK /\ Phases /\ Gathered /\ [Next]_vars => Gathered'
  <1> SUFFICES ASSUME TypeOK, Phases, Gathered, [Next]_vars PROVE Gathered'
    OBVIOUS
  <1>0. ASSUME UNCHANGED <<cfg, at, verdict, logs, lost>>,
               pc' \in {"create", "wait", "fetch"} =>
                  pc \in {"create", "wait", "fetch"}
        PROVE  Gathered'
    BY <1>0 DEF Gathered, Passing, Last
  <1>1. CASE UNCHANGED vars
    BY <1>0, <1>1 DEF vars, locals
  <1>2. CASE CreateNamespace
    <2>1. /\ UNCHANGED <<at, verdict, logs, lost>>
          /\ at = 1 /\ logs = NoLogs /\ lost = {} /\ verdict = "ERROR"
      BY <1>2 DEF CreateNamespace, Phases
    <2>2. \A s \in 1..3 : NoLogs[s] = NoLog
      BY DEF NoLogs, Stages
    <2>3. Last' \in {2, 3}
      BY DEF Last
    <2> QED BY <2>1, <2>2, <2>3 DEF Gathered
  <1>3. CASE CreateJob \/ AwaitJob
    BY <1>0, <1>3 DEF CreateJob, AwaitJob
  <1>4. CASE FetchLog
    <2>1. pc' = "create" => /\ passed /\ at < Last /\ at' = at + 1 /\ verdict' = verdict
      BY <1>4 DEF FetchLog, AfterStage
    <2>2. pc' \in {"create", "session"}
      BY <1>4 DEF FetchLog, AfterStage
    <2>3. /\ at \in 1..Last /\ verdict = "ERROR" /\ cfg' = cfg
          /\ \A s \in 1..(at - 1) : Passing(s)'
          /\ \A s \in {at} : (passed => Passing(s)')
          /\ \A s \in (at + 1)..3 : logs'[s] = NoLog /\ s \notin lost'
      BY <1>4, FetchAdds
    <2>4. SUFFICES ASSUME pc' = "create" PROVE Gathered'
      BY <2>2 DEF Gathered
    <2>5. Last' = Last /\ Last \in {2, 3}
      BY <2>3, LastIs
    <2>6. \A s \in 1..(at' - 1) : Passing(s)'
      <3> TAKE s \in 1..(at' - 1)
      <3>1. s \in 1..(at - 1) \/ s = at
        BY <2>1, <2>3, <2>4, <2>5
      <3> QED BY <3>1, <2>1, <2>3, <2>4
    <2> QED BY <2>1, <2>3, <2>4, <2>5, <2>6 DEF Gathered
  <1>5. CASE Begin \/ RunFails \/ OpenSession \/ Put \/ PutFails \/ Finish \/ End
    <2>1. pc' \notin {"create", "wait", "fetch"}
      BY <1>5 DEF Begin, RunFails, OpenSession, Put, PutFails, Finish, End, NextPut
    <2> QED BY <2>1 DEF Gathered
  <1>6. ASSUME NEW s \in Stages, JobEnds(s) \/ JobRemoved(s) PROVE Gathered'
    BY <1>0, <1>6 DEF JobEnds, JobRemoved, locals
  <1>7. CASE MarkStale \/ ReadRow \/ ReadObject
    BY <1>0, <1>7 DEF MarkStale, ReadRow, ReadObject, locals
  <1> QED BY <1>1, <1>2, <1>3, <1>4, <1>5, <1>6, <1>7 DEF Next, Attempt

\* Losing more logs takes nothing from a judgement.
LEMMA JudgementStands ==
  ASSUME Judgement, UNCHANGED <<cfg, verdict, logs>>, lost \subseteq lost'
  PROVE  Judgement'
  <1>1. Last' = Last
    BY LastIs
  <1>2. \A s : (Passing(s) => Passing(s)') /\ (Failing(s) => Failing(s)')
    BY DEF Passing, Failing
  <1> QED BY <1>1, <1>2 DEF Judgement

LEMMA JudgedKept ==
  TypeOK /\ Phases /\ Gathered /\ Judged /\ [Next]_vars => Judged'
  <1> SUFFICES ASSUME TypeOK, Phases, Gathered, Judged, [Next]_vars PROVE Judged'
    OBVIOUS
  <1>0. ASSUME UNCHANGED <<cfg, verdict, logs>>, lost \subseteq lost',
               pc' \in {"session", "put", "finish"} =>
                  pc \in {"session", "put", "finish"}
        PROVE  Judged'
    BY <1>0, JudgementStands DEF Judged
  <1>1. CASE UNCHANGED vars
    BY <1>0, <1>1 DEF vars, locals
  <1>2. CASE CreateNamespace
    BY <1>2 DEF CreateNamespace, Phases, Judged, Judgement
  <1>3. CASE RunFails
    BY <1>3 DEF RunFails, Judged, Judgement
  <1>4. CASE FetchLog
    <2>1. /\ pc' \in {"create", "session"}
          /\ pc' = "session" =>
                /\ passed => at >= Last
                /\ verdict' = IF passed THEN "PASSED"
                              ELSE IF at = 1 THEN "ERROR" ELSE "FAILED"
      BY <1>4, LastIs DEF FetchLog, AfterStage, TypeOK, Stages
    <2>2. SUFFICES ASSUME pc' = "session" PROVE Judgement'
      BY <2>1 DEF Judged
    <2>3. /\ at \in 1..Last /\ cfg' = cfg
          /\ \A s \in 1..(at - 1) : Passing(s)'
          /\ \A s \in {at} : (passed => Passing(s)') /\ (~passed => Failing(s)')
      BY <1>4, FetchAdds
    <2>4. Last' = Last /\ Last \in {2, 3}
      BY <2>3, LastIs
    <2>5. CASE passed
      <3>1. at = Last /\ verdict' = "PASSED"
        BY <2>1, <2>2, <2>3, <2>4, <2>5
      <3>2. \A s \in 1..Last : Passing(s)'
        <4> TAKE s \in 1..Last
        <4>1. s \in 1..(at - 1) \/ s = at
          BY <3>1, <2>4
        <4> QED BY <4>1, <2>3, <2>5
      <3> QED BY <3>1, <3>2, <2>4 DEF Judgement
    <2>6. CASE ~passed
      <3>1. CASE at = 1
        BY <2>1, <2>2, <2>6, <3>1 DEF Judgement
      <3>2. CASE at # 1
        <4>1. at \in 2..Last
          BY <2>3, <2>4, <3>2
        <4>2. verdict' = "FAILED"
          BY <2>1, <2>2, <2>6, <3>2
        <4>3. \E f \in 2..Last : Failing(f)' /\ \A s \in 1..(f - 1) : Passing(s)'
          BY <4>1, <2>3, <2>6
        <4> QED BY <4>2, <4>3, <2>4 DEF Judgement
      <3> QED BY <3>1, <3>2
    <2> QED BY <2>5, <2>6
  <1>5. CASE OpenSession
    <2>1. lost \subseteq lost'
      BY <1>5 DEF OpenSession, TypeOK
    <2> QED BY <1>0, <1>5, <2>1 DEF OpenSession
  <1>6. CASE Put \/ PutFails
    BY <1>0, <1>6 DEF Put, PutFails
  <1>7. CASE Begin \/ CreateJob \/ AwaitJob \/ Finish \/ End
    <2>1. pc' \notin {"session", "put", "finish"}
      BY <1>7 DEF Begin, CreateJob, AwaitJob, Finish, End
    <2> QED BY <2>1 DEF Judged
  <1>8. ASSUME NEW s \in Stages, JobEnds(s) \/ JobRemoved(s) PROVE Judged'
    BY <1>0, <1>8 DEF JobEnds, JobRemoved, locals
  <1>9. CASE MarkStale \/ ReadRow \/ ReadObject
    BY <1>0, <1>9 DEF MarkStale, ReadRow, ReadObject, locals
  <1> QED BY <1>1, <1>2, <1>3, <1>4, <1>5, <1>6, <1>7, <1>8, <1>9 DEF Next, Attempt

LEMMA StoredKept == TypeOK /\ Phases /\ Stored /\ [Next]_vars => Stored'
  <1> SUFFICES ASSUME TypeOK, Phases, Stored, [Next]_vars PROVE Stored'
    OBVIOUS
  <1>0. ASSUME UNCHANGED <<pc, at, verdict, logs, lost, prefix, object>> PROVE Stored'
    BY <1>0 DEF Stored, Kept
  <1>1. CASE UNCHANGED vars
    BY <1>0, <1>1 DEF vars, locals
  <1>2. CASE CreateNamespace
    BY <1>2 DEF CreateNamespace, Phases, Stored
  <1>3. CASE OpenSession
    BY <1>3 DEF OpenSession, Stored
  <1>4. CASE Put
    <2>1. /\ pc = "put" /\ prefix /\ \A s \in 1..(at - 1) : Kept(s)
          /\ UNCHANGED <<logs, lost, prefix, verdict>> /\ at \in {1, 2, 3}
      BY <1>4 DEF Put, Stored, TypeOK, Stages
    <2>2. \A s \in 1..at : Kept(s)'
      <3> TAKE s \in 1..at
      <3>1. s \in Stages /\ (s \in 1..(at - 1) \/ s = at)
        BY <2>1 DEF Stages
      <3>2. CASE s = at
        <4>1. logs[s].size > 0 => logs[s].size # 0
          BY <3>1 DEF TypeOK, Log
        <4>2. logs[s].size # 0 => object' = [object EXCEPT ![s] = logs[s]]
          BY <1>4, <3>2 DEF Put
        <4>3. logs[s].size # 0 => object'[s] = logs[s]
          BY <4>2, <3>1 DEF TypeOK
        <4> QED BY <2>1, <4>1, <4>3 DEF Kept
      <3>3. CASE s # at
        <4>1. object'[s] = object[s]
          BY <1>4, <3>1, <3>3 DEF Put, TypeOK
        <4>2. Kept(s)
          BY <2>1, <3>1, <3>3
        <4> QED BY <2>1, <4>1, <4>2 DEF Kept
      <3> QED BY <3>2, <3>3
    <2>3. CASE at = 3
      BY <1>4, <2>1, <2>2, <2>3 DEF Put, NextPut, Stored, Stages
    <2>4. CASE at # 3
      <3>1. pc' = "put" /\ at' = at + 1
        BY <1>4, <2>1, <2>4 DEF Put, NextPut
      <3>2. \A s \in 1..(at' - 1) : Kept(s)'
        BY <2>1, <2>2, <3>1
      <3> QED BY <2>1, <3>1, <3>2 DEF Stored
    <2> QED BY <2>3, <2>4
  <1>5. CASE PutFails
    <2>1. /\ pc' = "finish" /\ prefix /\ \A s \in 1..(at - 1) : Kept(s)
          /\ UNCHANGED <<logs, prefix>> /\ at \in {1, 2, 3}
          /\ lost' = lost \cup {s \in Stages : s >= at}
      BY <1>5 DEF PutFails, Stored, TypeOK, Stages
    <2>2. \A s \in Stages : Kept(s)'
      <3> TAKE s \in Stages
      <3>1. CASE s >= at
        BY <2>1, <3>1 DEF Kept
      <3>2. CASE ~(s >= at)
        <4>1. s \in 1..(at - 1) /\ s # at
          BY <2>1, <3>2 DEF Stages
        <4>2. object'[s] = object[s]
          BY <1>5, <4>1 DEF PutFails, TypeOK
        <4> QED BY <2>1, <4>1, <4>2 DEF Kept
      <3> QED BY <3>1, <3>2
    <2> QED BY <2>1, <2>2 DEF Stored
  <1>6. CASE Begin \/ CreateJob \/ RunFails \/ AwaitJob \/ FetchLog \/ Finish \/ End
    <2>1. pc' \notin {"put", "finish"}
      BY <1>6 DEF Begin, CreateJob, RunFails, AwaitJob, FetchLog, AfterStage, Finish, End
    <2> QED BY <2>1 DEF Stored
  <1>7. ASSUME NEW s \in Stages, JobEnds(s) \/ JobRemoved(s) PROVE Stored'
    BY <1>0, <1>7 DEF JobEnds, JobRemoved, locals
  <1>8. CASE MarkStale \/ ReadRow \/ ReadObject
    BY <1>0, <1>8 DEF MarkStale, ReadRow, ReadObject, locals
  <1> QED BY <1>1, <1>2, <1>3, <1>4, <1>5, <1>6, <1>7, <1>8 DEF Next, Attempt

LEMMA DocumentedKept ==
  TypeOK /\ Phases /\ Judged /\ Stored /\ VerdictIsDocumented /\ [Next]_vars
     => VerdictIsDocumented'
  <1> SUFFICES ASSUME TypeOK, Phases, Judged, Stored, VerdictIsDocumented, [Next]_vars
               PROVE  VerdictIsDocumented'
    OBVIOUS
  <1>0. ASSUME UNCHANGED <<cfg, row, shown, object>> PROVE VerdictIsDocumented'
    BY <1>0 DEF VerdictIsDocumented, Documented, Last
  <1>1. ASSUME row'.status \notin {"PASSED", "FAILED"} PROVE VerdictIsDocumented'
    BY <1>1 DEF VerdictIsDocumented
  <1>2. CASE UNCHANGED vars
    BY <1>0, <1>2 DEF vars, locals
  <1>3. CASE Begin
    BY <1>1, <1>3 DEF Begin, TypeOK
  <1>4. CASE \/ CreateNamespace \/ CreateJob \/ RunFails \/ AwaitJob \/ FetchLog
             \/ OpenSession \/ End
    BY <1>0, <1>4 DEF CreateNamespace, CreateJob, RunFails, AwaitJob, FetchLog,
                      OpenSession, End
  <1>5. CASE Put \/ PutFails
    <2>1. pc = "put" /\ row' = row
      BY <1>5 DEF Put, PutFails
    <2> QED BY <1>1, <2>1 DEF Phases
  <1>6. CASE Finish
    <2>1. CASE UNCHANGED <<row, shown>>
      BY <1>0, <1>6, <2>1 DEF Finish
    <2>2. CASE /\ row' = [status |-> verdict, prefix |-> prefix]
               /\ shown' = [logs |-> logs, lost |-> lost]
      <3>1. /\ pc = "finish" /\ cfg' = cfg /\ object' = object
            /\ row'.status = verdict /\ row'.prefix = prefix
            /\ shown'.logs = logs /\ shown'.lost = lost
        BY <1>6, <2>2 DEF Finish
      <3>2. Judgement /\ Last' = Last /\ Last \in {2, 3}
        BY <3>1, LastIs DEF Judged
      <3>3. CASE verdict = "ERROR"
        BY <1>1, <3>1, <3>3
      <3>4. CASE verdict # "ERROR"
        <4>1. \A s \in Stages : s \notin lost => prefix /\ Kept(s)
          BY <3>1, <3>4 DEF Stored
        <4>2. \A s \in 1..Last : s \notin lost /\ Passing(s) =>
                 Documented(s)' /\ object'[s].passed
          <5> SUFFICES ASSUME NEW s \in 1..Last, s \notin lost, Passing(s)
                       PROVE  Documented(s)' /\ object'[s].passed
            OBVIOUS
          <5>1. s \in Stages
            BY <3>2 DEF Stages
          <5>2. prefix /\ object[s] = logs[s] /\ logs[s].passed
            BY <4>1, <5>1 DEF Passing, Kept
          <5> QED BY <3>1, <5>2 DEF Documented
        <4>3. \A s \in 1..Last : s \notin lost /\ Failing(s) =>
                 Documented(s)' /\ ~object'[s].passed
          <5> SUFFICES ASSUME NEW s \in 1..Last, s \notin lost, Failing(s)
                       PROVE  Documented(s)' /\ ~object'[s].passed
            OBVIOUS
          <5>1. s \in Stages
            BY <3>2 DEF Stages
          <5>2. prefix /\ object[s] = logs[s] /\ ~logs[s].passed
            BY <4>1, <5>1 DEF Failing, Kept
          <5> QED BY <3>1, <5>2 DEF Documented
        <4>4. CASE verdict = "PASSED"
          <5>1. \A s \in 1..Last \ lost : Documented(s)' /\ object'[s].passed
            BY <3>2, <4>2, <4>4 DEF Judgement
          <5> QED BY <3>1, <3>2, <4>4, <5>1 DEF VerdictIsDocumented
        <4>5. CASE verdict = "FAILED"
          <5> PICK f \in 2..Last : Failing(f) /\ \A s \in 1..(f - 1) : Passing(s)
            BY <3>2, <4>5 DEF Judgement
          <5>1. f \in 1..Last
            BY <3>2
          <5>2. f \notin lost => Documented(f)' /\ ~object'[f].passed
            BY <4>3, <5>1
          <5>3. \A s \in 1..(f - 1) \ lost : Documented(s)' /\ object'[s].passed
            <6> TAKE s \in 1..(f - 1) \ lost
            <6>1. s \in 1..Last
              BY <3>2
            <6> QED BY <6>1, <4>2
          <5> QED BY <3>1, <3>2, <4>5, <5>2, <5>3 DEF VerdictIsDocumented
        <4> QED BY <3>4, <4>4, <4>5 DEF TypeOK
      <3> QED BY <3>3, <3>4
    <2> QED BY <1>6, <2>1, <2>2 DEF Finish
  <1>7. ASSUME NEW s \in Stages, JobEnds(s) \/ JobRemoved(s) PROVE VerdictIsDocumented'
    BY <1>0, <1>7 DEF JobEnds, JobRemoved, locals
  <1>8. CASE MarkStale
    BY <1>1, <1>8 DEF MarkStale, TypeOK
  <1>9. CASE ReadRow \/ ReadObject
    BY <1>0, <1>9 DEF ReadRow, ReadObject, locals
  <1> QED BY <1>2, <1>3, <1>4, <1>5, <1>6, <1>7, <1>8, <1>9 DEF Next, Attempt

\* What an attempt knows is consistent, whatever attempts before it left.
THEOREM AttemptsKnow == Spec => [](TypeOK /\ Phases /\ Gathered /\ Judged /\ Stored)
  <1>1. Init => Phases /\ Gathered /\ Judged /\ Stored
    BY DEF Init, Phases, Gathered, Judged, Stored, NoJob
  <1> QED BY <1>1, PhasesKept, GatheredKept, JudgedKept, StoredKept, TypeCorrect,
             PTL DEF Spec

\* The artifacts next to a verdict are the logs of the Jobs it is from, however
\* many attempts left theirs under the same prefix.
THEOREM VerdictsAreDocumented == Spec => []VerdictIsDocumented
  <1>1. Init => VerdictIsDocumented
    BY DEF Init, VerdictIsDocumented
  <1> QED BY <1>1, DocumentedKept, AttemptsKnow, PTL DEF Spec

-----------------------------------------------------------------------------
(* Objects over time *)

\* The log of the Job that is there.
Ended(s) == job[s].state \in {"passed", "failed"}
LogOf(s) == [job |-> job[s].by, passed |-> job[s].state = "passed",
             size |-> Cut(job[s].size, LogLimit)]

\* A log is no younger than the Job that is there, an object no younger than a log
\* that may replace it; and as long as its first Job was not removed, a stage has
\* but one log.
Faith(s) ==
    /\ job[s].by <= attempt /\ object[s].job <= attempt /\ logs[s].job <= attempt
    /\ job[s] # NoJob => object[s].job <= job[s].by /\ logs[s].job <= job[s].by
    /\ logs[s] # NoLog => object[s].job <= logs[s].job
    /\ s \notin removed =>
          /\ object[s] # NoLog => Ended(s) /\ object[s] = LogOf(s)
          /\ logs[s] # NoLog => Ended(s) /\ logs[s] = LogOf(s)
          /\ pc = "fetch" /\ at = s => Ended(s) /\ (passed = (job[s].state = "passed"))

LEMMA FaithKept ==
  ASSUME TypeOK, Phases, Gathered, [Next]_vars, NEW s \in Stages, Faith(s)
  PROVE  Faith(s)'
  <1>0. ASSUME UNCHANGED <<job, attempt, object, logs, removed>>,
               pc' # "fetch"
        PROVE  Faith(s)'
    BY <1>0 DEF Faith, Ended, LogOf
  <1>1. CASE UNCHANGED vars
    BY <1>1 DEF vars, locals, Faith, Ended, LogOf
  <1>2. /\ job[s] \in [by : 0..MaxAttempts, state : States, size : Nat]
        /\ object[s] \in Log /\ logs[s] \in Log /\ attempt \in Nat
        /\ at \in Stages
    BY LimitsAssumption DEF TypeOK
  <1>3. CASE Begin
    <2>1. attempt' = attempt + 1 /\ UNCHANGED <<job, object, logs, removed>>
          /\ pc' # "fetch"
      BY <1>3 DEF Begin
    <2>2. job[s].by \in Nat /\ object[s].job \in Nat /\ logs[s].job \in Nat
      BY <1>2, LimitsAssumption DEF Log
    <2> QED BY <1>2, <2>1, <2>2 DEF Faith, Ended, LogOf
  <1>4. CASE CreateJob
    <2>1. UNCHANGED <<attempt, object, logs, removed>> /\ pc' = "wait"
      BY <1>4 DEF CreateJob
    <2>2. CASE job'[s] = job[s]
      BY <2>1, <2>2 DEF Faith, Ended, LogOf
    <2>3. CASE job'[s] # job[s]
      <3>1. /\ s = at /\ job[s] = NoJob /\ pc = "create"
            /\ job'[s] = [by |-> attempt, state |-> "running", size |-> 0]
        BY <1>4, <2>3 DEF CreateJob, TypeOK
      <3>2. logs[s] = NoLog
        BY <3>1 DEF Gathered, TypeOK, Stages
      <3>3. s \notin removed => object[s] = NoLog
        BY <3>1 DEF Faith, Ended, NoJob
      <3> QED BY <1>2, <2>1, <3>1, <3>2, <3>3 DEF Faith
    <2> QED BY <2>2, <2>3
  <1>5. CASE AwaitJob
    <2>1. UNCHANGED <<job, attempt, object, logs, removed, at>>
      BY <1>5 DEF AwaitJob
    <2>2. Ended(at) /\ (passed' = (job[at].state = "passed"))
      BY <1>5 DEF AwaitJob, Ended
    <2> QED BY <2>1, <2>2 DEF Faith, Ended, LogOf
  <1>6. CASE FetchLog
    <2>1. UNCHANGED <<job, attempt, object, removed>> /\ pc' # "fetch"
      BY <1>6 DEF FetchLog, AfterStage
    <2>2. CASE logs'[s] = logs[s]
      BY <2>1, <2>2 DEF Faith, Ended, LogOf
    <2>3. CASE logs'[s] # logs[s]
      <3>1. /\ s = at /\ job[s] # NoJob /\ pc = "fetch"
            /\ logs'[s] = [job |-> job[s].by, passed |-> passed,
                           size |-> Cut(job[s].size, LogLimit)]
        BY <1>6, <2>3 DEF FetchLog, TypeOK
      <3>2. s \notin removed => Ended(s) /\ logs'[s] = LogOf(s)
        BY <3>1 DEF Faith, LogOf
      <3>3. logs'[s].job = job[s].by
        BY <3>1
      <3>4. job[s].by \in Nat
        BY <1>2, LimitsAssumption
      <3> QED BY <2>1, <3>1, <3>2, <3>3, <3>4 DEF Faith, Ended, LogOf
    <2> QED BY <2>2, <2>3
  <1>7. CASE CreateNamespace \/ RunFails \/ OpenSession \/ Finish
    BY <1>0, <1>7 DEF CreateNamespace, RunFails, OpenSession, Finish
  <1>8. CASE Put \/ PutFails
    <2>1. UNCHANGED <<job, attempt, logs, removed>> /\ pc' # "fetch"
      BY <1>8 DEF Put, PutFails, NextPut
    <2>2. CASE object'[s] = object[s]
      BY <2>1, <2>2 DEF Faith, Ended, LogOf
    <2>3. CASE object'[s] # object[s]
      <3>1. object'[s] = logs[s] /\ logs[s].size # 0
        BY <1>8, <2>3, <1>2 DEF Put, PutFails, TypeOK, Log
      <3>2. logs[s] # NoLog /\ logs[s].job \in Nat
        BY <3>1, <1>2 DEF NoLog, Log
      <3> QED BY <2>1, <3>1, <3>2 DEF Faith, Ended, LogOf
    <2> QED BY <2>2, <2>3
  <1>9. CASE End
    <2>1. UNCHANGED <<job, attempt, object, removed>> /\ pc' = "idle"
      BY <1>9 DEF End
    <2>2. logs'[s] = NoLog
      BY <1>9 DEF End, NoLogs
    <2>3. job[s].by \in Nat
      BY <1>2, LimitsAssumption
    <2> QED BY <1>2, <2>1, <2>2, <2>3 DEF Faith, Ended, LogOf, NoLog
  <1>10. ASSUME NEW t \in Stages, JobEnds(t) PROVE Faith(s)'
    <2>1. UNCHANGED <<attempt, object, logs, removed, pc, at, passed>>
      BY <1>10 DEF JobEnds, locals
    <2>2. CASE s # t
      <3>1. job'[s] = job[s]
        BY <1>10, <2>2 DEF JobEnds, TypeOK
      <3> QED BY <2>1, <3>1 DEF Faith, Ended, LogOf
    <2>3. CASE s = t
      <3>1. job[s].state = "running"
        BY <1>10, <2>3 DEF JobEnds
      <3>2. PICK r \in {"passed", "failed"}, n \in Sizes :
               job' = [job EXCEPT ![s] = [by |-> @.by, state |-> r, size |-> n]]
        BY <1>10, <2>3 DEF JobEnds
      <3>3. job'[s].by = job[s].by /\ job[s] # NoJob
        BY <3>1, <3>2 DEF TypeOK, NoJob
      <3>4. ~Ended(s)
        BY <3>1 DEF Ended
      <3> QED BY <2>1, <3>3, <3>4 DEF Faith
    <2> QED BY <2>2, <2>3
  <1>11. ASSUME NEW t \in Stages, JobRemoved(t) PROVE Faith(s)'
    <2>1. UNCHANGED <<attempt, object, logs, pc, at, passed>>
          /\ removed' = removed \cup {t}
      BY <1>11 DEF JobRemoved, locals
    <2>2. CASE s # t
      <3>1. job'[s] = job[s]
        BY <1>11, <2>2 DEF JobRemoved, TypeOK
      <3> QED BY <2>1, <2>2, <3>1 DEF Faith, Ended, LogOf
    <2>3. CASE s = t
      <3>1. job'[s] = NoJob /\ s \in removed'
        BY <1>11, <2>1, <2>3 DEF JobRemoved, TypeOK
      <3> QED BY <1>2, <2>1, <3>1 DEF Faith, NoJob
    <2> QED BY <2>2, <2>3
  <1>12. CASE MarkStale \/ ReadRow \/ ReadObject
    BY <1>12 DEF MarkStale, ReadRow, ReadObject, locals, Faith, Ended, LogOf
  <1> QED BY <1>1, <1>3, <1>4, <1>5, <1>6, <1>7, <1>8, <1>9, <1>10, <1>11, <1>12
          DEF Next, Attempt

Faithful == \A s \in Stages : Faith(s)

\* Faith holds of every stage in every reachable state.
THEOREM LogsAreFaithful == Spec => []Faithful
  <1>1. Init => Faithful
    <2> SUFFICES ASSUME Init, NEW s \in Stages PROVE Faith(s)
      BY DEF Faithful
    <2>1. job[s] = NoJob /\ object[s] = NoLog /\ logs[s] = NoLog /\ attempt = 0
          /\ pc = "idle"
      BY DEF Init, NoLogs
    <2> QED BY <2>1 DEF Faith, NoJob, NoLog
  <1>2. TypeOK /\ Phases /\ Gathered /\ Faithful /\ [Next]_vars => Faithful'
    BY FaithKept DEF Faithful
  <1> QED BY <1>1, <1>2, AttemptsKnow, PTL DEF Spec

LEMMA ObjectsStep ==
  ASSUME TypeOK, Faithful, [Next]_vars, NEW s \in Stages, object[s] # NoLog
  PROVE  /\ object'[s].job >= object[s].job
         /\ s \notin removed => object'[s] = object[s]
  <1>1. object[s] \in Log /\ logs[s] \in Log
    BY DEF TypeOK
  <1>2. object[s].job \in Nat /\ logs[s].job \in Nat
    BY <1>1, LimitsAssumption DEF Log
  <1>3. CASE object'[s] = object[s]
    BY <1>2, <1>3
  <1>4. CASE object'[s] # object[s]
    <2>1. Put \/ PutFails
      BY <1>4 DEF Next, Attempt, vars, locals, Begin, CreateNamespace, CreateJob,
         RunFails, AwaitJob, FetchLog, OpenSession, Finish, End, JobEnds, JobRemoved,
         MarkStale, ReadRow, ReadObject
    <2>2. object'[s] = logs[s] /\ logs[s].size # 0
      BY <1>4, <1>1, <2>1 DEF Put, PutFails, TypeOK, Log
    <2>3. logs[s] # NoLog
      BY <2>2 DEF NoLog
    <2>4. Faith(s)
      BY DEF Faithful
    <2> QED BY <1>2, <2>2, <2>3, <2>4 DEF Faith
  <1> QED BY <1>3, <1>4

\* An artifact changes only when its Job was removed and ran again, and never back
\* to an older one.
THEOREM ObjectsStayPut == Spec => ArtifactsStayPut
  <1>1. TypeOK /\ Faithful /\ [Next]_vars
           => [\A s \in Stages : object[s] # NoLog =>
                  /\ object'[s].job >= object[s].job
                  /\ s \notin removed => object'[s] = object[s]]_vars
    BY ObjectsStep
  <1> QED BY <1>1, TypeCorrect, LogsAreFaithful, PTL DEF Spec, ArtifactsStayPut

-----------------------------------------------------------------------------
(* Readers *)

\* What was served is still there, and so is the prefix unless it was cleared.
Offered ==
    /\ get.pc # "cut"
    /\ served => object[get.name] # NoLog
    /\ get.pc = "missing" => ~served
    /\ get.pc = "read" \/ served => row.prefix \/ cleared
    /\ get.pc = "none" => ~served \/ cleared

LEMMA OfferedKept == TypeOK /\ Offered /\ [Next]_vars => Offered'
  <1> SUFFICES ASSUME TypeOK, Offered, [Next]_vars PROVE Offered'
    OBVIOUS
  <1>0. ASSUME UNCHANGED <<row, cleared, object, get, served>> PROVE Offered'
    BY <1>0 DEF Offered
  <1>1. CASE UNCHANGED vars
    BY <1>0, <1>1 DEF vars
  <1>2. CASE Begin \/ MarkStale
    <2>1. row'.prefix = row.prefix /\ UNCHANGED <<cleared, object, get, served>>
      BY <1>2 DEF Begin, MarkStale, TypeOK
    <2> QED BY <2>1 DEF Offered
  <1>3. CASE \/ CreateNamespace \/ CreateJob \/ RunFails \/ AwaitJob \/ FetchLog
             \/ OpenSession \/ End
    BY <1>0, <1>3 DEF CreateNamespace, CreateJob, RunFails, AwaitJob, FetchLog,
                      OpenSession, End
  <1>4. CASE Put \/ PutFails
    <2>1. UNCHANGED <<row, cleared, get, served>>
      BY <1>4 DEF Put, PutFails
    <2>2. \A s \in Stages : object[s] # NoLog => object'[s] # NoLog
      <3> SUFFICES ASSUME NEW s \in Stages, object'[s] # object[s]
                   PROVE  object'[s] # NoLog
        OBVIOUS
      <3>1. object'[s] = logs[s] /\ logs[s].size # 0
        BY <1>4 DEF Put, PutFails, TypeOK, Log
      <3> QED BY <3>1 DEF NoLog
    <2>3. get.name \in Stages
      BY DEF TypeOK
    <2> QED BY <2>1, <2>2, <2>3 DEF Offered
  <1>5. CASE Finish
    <2>1. UNCHANGED <<object, get, served>>
      BY <1>5 DEF Finish
    <2>2. row.prefix \/ cleared => row'.prefix \/ cleared'
      <3>1. CASE UNCHANGED <<row, cleared>>
        BY <3>1
      <3>2. CASE /\ row' = [status |-> verdict, prefix |-> prefix]
                 /\ cleared' = (cleared \/ ~prefix)
        <4>1. row'.prefix = prefix
          BY <3>2
        <4>2. CASE prefix = TRUE
          BY <4>1, <4>2
        <4>3. CASE prefix = FALSE
          BY <3>2, <4>3
        <4> QED BY <4>2, <4>3 DEF TypeOK
      <3> QED BY <1>5, <3>1, <3>2 DEF Finish
    <2>3. cleared => cleared'
      BY <1>5 DEF Finish
    <2> QED BY <2>1, <2>2, <2>3 DEF Offered
  <1>6. ASSUME NEW s \in Stages, JobEnds(s) \/ JobRemoved(s) PROVE Offered'
    BY <1>0, <1>6 DEF JobEnds, JobRemoved
  <1>7. CASE ReadRow
    <2>1. /\ get'.pc = IF row.prefix THEN "read" ELSE "none"
          /\ get'.name = get.name
      BY <1>7 DEF ReadRow, TypeOK
    <2>2. UNCHANGED <<row, cleared, object, served>>
      BY <1>7 DEF ReadRow
    <2> QED BY <2>1, <2>2 DEF Offered
  <1>8. CASE ReadObject
    <2>1. /\ get.pc = "read" /\ get'.name = get.name
          /\ UNCHANGED <<row, cleared, object>>
      BY <1>8 DEF ReadObject, TypeOK
    <2>2. Read(object[get.name]) = object[get.name]
      <3>1. object[get.name] \in Log
        BY DEF TypeOK
      <3>2. Cut(object[get.name].size, ReadLimit) = object[get.name].size
        BY <3>1, CutBounds, LimitsAssumption DEF Log
      <3> QED BY <3>1, <3>2 DEF Read, Log
    <2>3. \/ object[get.name] # NoLog /\ get'.pc = "idle" /\ served' = TRUE
          \/ object[get.name] = NoLog /\ get'.pc = "missing" /\ served' = served
          \/ get'.pc = "idle" /\ served' = served
      BY <1>8, <2>2 DEF ReadObject, TypeOK
    <2> QED BY <2>1, <2>3 DEF Offered
  <1> QED BY <1>1, <1>2, <1>3, <1>4, <1>5, <1>6, <1>7, <1>8 DEF Next, Attempt

\* An artifact is served whole, and served again unless S3 fails or an attempt
\* without namespace or session took the prefix from the row.
THEOREM ArtifactsAreServed == Spec => []ServedAgain
  <1>1. Init => Offered
    BY DEF Init, Offered
  <1>2. Offered => ServedAgain
    BY DEF Offered, ServedAgain
  <1> QED BY <1>1, <1>2, OfferedKept, TypeCorrect, PTL DEF Spec
=============================================================================
