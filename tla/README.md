# Verification of plugin-tests

Integration tests of Vultisig plugins run as a service: a client asks for a test
run, a worker builds a throw-away environment in Kubernetes, runs the test Jobs
in it and records a verdict. This directory models the service in TLA+, checks
it with TLC and proves its safety properties with TLAPS.

## 1. The system

```
client --POST--> API server --insert--> test_runs (PostgreSQL) <--verdicts-- worker
                     \----task----> asynq queue (Redis) ----task----> worker process
worker process = asynq server + handler goroutines (Consumer.Handle) + janitor goroutine
handler --> namespace of the run: postgres, redis, minio, verifier, then Jobs
Jobs = testrunner image: seeder, smoke, integration (install by MPC reshare, policy)
janitor --> deletes old namespaces, marks old RUNNING rows as ERROR
```

| Component (source) | State | Operations | Interacts by | Hard behaviour | What makes it correct |
|---|---|---|---|---|---|
| API server, creation (`internal/api/handler.go`, `internal/queue`) | none of its own: it is where a request stands between three calls | insert row, enqueue task, mark row ERROR | SQL, Redis | the process dies, or a call fails, between two calls; Enqueue reports an error though the task was stored | who was told 201 has a row and a task |
| API server, reading (`handler.go`, `results.go`, `artifacts.go`) | none | get, list, count, artifacts | SQL, S3 | two queries and many pages over a table that changes; int32 offsets | nothing is skipped without reason |
| Store (`internal/storage/postgres`) | table `test_runs` | create, started, finished, mark stale, list stale | statements of three writers | updates carry no condition on the status: the last writer wins | columns of a row agree; a verdict is not lost |
| Worker process (`cmd/worker`) | up, stopping, down; leases | take a task, requeue at shutdown, recover a dead process's tasks | Redis | shutdown, crash, lease expiry with handlers at any step | one live handler per run; nothing accepted is dropped |
| Task handler (`internal/worker/consumer.go`) | where it is; its context | started, namespace, run, upload, finished | SQL, Kubernetes, S3 | the context ends between any two calls, the last update uses it too | every run gets a verdict when nothing fails |
| Janitor (`janitor.go`) | the two lists it works from | list, delete, query, mark | Kubernetes, SQL | it acts on what it read earlier, one item at a time | only old namespaces and stuck rows are touched; nothing leaks |
| Runner (`runner.go`, `k8s.go`) | the namespace's objects | create objects, wait, run three Jobs | Kubernetes | reruns on what an earlier attempt left; deletion under it; waits that never end | a verdict is earned, and one per namespace |
| Environment (`manifests.go`, policies in `k8s.go`) | what each object was made from | wire hosts, ports, Services and policies | Kubernetes | attempts with different settings share one namespace | closed to the outside; what is configured is served |
| Install (`internal/testrunner/participant.go`, `mpc`) | two MPC sessions, inboxes at the relay | three tries for each of two keys | relay (HTTP), verifier | stale, reordered and repeated messages, retries, partial success | key shares belong together; it ends |
| Policy test (`policy.go`) | two signing sessions, two channels | sign, create, read, delete policy | goroutines and channels | blocking sends, dropped errors, native handles | signed by both or an error; it ends |
| Seeder, smoke suite (`seeder.go`, `tests.go`, `cmd/testrunner`) | one transaction; counters | upsert, check | SQL, HTTP | rerun after a partial run | all or nothing; every check is counted |
| Artifacts (`worker/artifacts.go`, `api/artifacts.go`) | objects under a run's prefix, the prefix in its row | upload three logs; read one | S3, SQL | leftovers of an earlier attempt; an upload that stops half-way; a reader in between | the logs shown with a verdict are those it is from |
| Names (`naming.go`) | none | name namespace, Jobs, labels | Kubernetes | any plugin name a client sends; cuts at a limit | names are legal and a run's own |

The hazards, each at its line, are in `PROJECT.json`.

## 2. The modules

| Module | Models |
|---|---|
| `RunStore` | the table and its statements, as operators on a function from runs to rows |
| `RunLifecycle` | request, queue, worker processes, handlers, namespaces and janitors around the table |
| `RunContract` | what a client may rely on, as a specification of its own; `RunLifecycle` implements it |
| `MCRunLifecycle` | model values and symmetry |
| `RunLifecycle_proofs` | the inductive invariant and the theorems on types, rows and handlers; then that verdicts stand and are reached, that deletions hit old namespaces only, and that the life cycle keeps `RunContract`'s safety part |
| `Runner` | `Runner.Run` in one namespace, over several deliveries of its task |
| `Environment`, `MCEnvironment` | what the namespace's objects are made of, over attempts with other settings; extends `Runner` |
| `Runner_proofs` | that passes are earned, attempts agree and verdicts need a namespace; of the environment, that it is built in order, closed to the outside and wired |
| `Artifacts` | logs, the bucket, the prefix in the row and the API server's reads, over several attempts |
| `Artifacts_proofs` | that verdicts come with their logs, that logs stay and that what was served is served again |
| `Names`, `MCNames` | the names of a run in the cluster |
| `Names_proofs` | that names are legal and a run's own |
| `LocalSign` | `localSign`: two goroutines and two channels |
| `LocalSign_proofs` | the bound on the channels, the life of the handles, and that a signature is by both or something failed |
| `Reshare` | `performReshare`: retries over one relay session |
| `Reshare_proofs` | that key shares belong together, nothing is fed twice, and failed tries and leftovers have their faults |
| `TestJobs`, `MCTestJobs` | the seeder, smoke and integration Jobs around one verifier |
| `TestJobs_proofs` | what the exit of a seeder and of the smoke tests tells, what leftovers tell, and that committees fit |
| `Listing`, `MCListing` | the two listings of runs, turned page by page while the table changes |
| `Listing_proofs` | that walks are complete, links lead to runs and offsets fit |

### RunLifecycle and RunStore

`rows` is the table; a time stamp keeps only what statements compare (`started`
is NULL, within the janitor's threshold or older) and an error message only who
wrote it. `request[r]` is where `handleCreateTestRun` stands, `task[r]` the task
in asynq, `ns[r]` the namespace with its age, `worker[w]` a process, `handler[h]`
a goroutine in `Consumer.Handle` with its step, its context (`live`) and whether
its process still waits for it (`attached`), `janitor[w]` a sweep with the two
lists it took. One action is one call to a service with all the code does until
the next one: the calls of one goroutine interleave with everybody's.

asynq is external and modelled from how it is used (`MaxRetry(0)`,
`Timeout`, `Run`): a task whose handler fails or whose context ends is archived;
a shutdown that handlers outlast pushes their tasks back and then cancels their
contexts; tasks of dead processes are archived when the lease expires. The Go
routine of a cancelled handler goes on until its process ends, its calls fail.

`RunnerReturns` stands for all of `Runner.Run`; its guard (a verdict other than
ERROR needs a working context and a namespace that is not gone) is what
`VerdictNeedsNamespace` checks of `Runner`.

### Runner

`Plan(c)` is the sequence of calls `Run` makes under configuration `c`, `pc` the
position in it. Waiting is a step that is not taken yet: it is enabled when what
the code polls for is there. A creation that finds the object is a success, so a
rerun takes over the Jobs it finds. Pods may come up or not, Jobs succeed, fail,
run for ever or are removed by their TTL, and the namespace may be deleted at any
moment. The smoke Job needs a plugin's endpoint (`CanSucceed`), which the runner
does not know: it takes an empty one for a run without integration Job. `won`,
`said` and `seen` are history of the current namespace.

### Environment

The steps are `Runner`'s. `made` says which attempt created each object that
exists, `settings` what each attempt was configured with; between two attempts the
worker may be deployed with other settings (`Redeploy`). A creation that finds the
object leaves it as it is (`MadeBy`), so one environment may be of two attempts.
The second half is the network the manifests describe: which Service has which
port, which hosts are written into ConfigMaps and Job environments, which
connections the two policies admit, and which port of the plugin's endpoint is
opened (`ParsePort`). How policies on one pod add up is Kubernetes' (`ComesIn`).

### Artifacts

One attempt after the other: create a Job or take over the one that is there,
wait, fetch its log, upload what is not empty, write the verdict with the prefix.
Any call may fail, the attempt may end at any step (`End`), Jobs may be removed.
A log is known by the attempt that created its Job, the Job's outcome and its
size, cut by the worker (`LogLimit`) and by the API server (`ReadLimit`). `shown`
is history: what the attempt knew when it wrote the row's verdict, and of which
stages it had lost the log. A GET is two steps, the row and then the object.

### Names

A name is a sequence of characters; heads, alphabet and limits are constants, so a
small instance reaches each limit. `DnsLabel` lowers, filters (`Only`), cuts
(`Truncate`) and trims in the code's order. `Only` says where each kept character
goes, by counting those before it, instead of walking through the string: that is
what can be reasoned about. Two runs take names for any ids and plugin names.

### LocalSign

`pc[p]` is a goroutine, `inbox[p]` the channel it receives from. The MPC library
is external: a session has `Burst` messages for its peer in each of `Rounds`
rounds and takes the peer's in order. A failed output call and a message without
receiver are dropped silently, as in `sendOutbound`.

### Reshare

Per curve up to `Tries` tries, each with a new setup message (`session`) but over
one session of the relay. A local party polls (`batch`), takes the messages one
by one (`Barred`, `SkipMessage`, `RefuseMessage`, `ApplyMessage`) and leaves
after 4 minutes. The remote parties (verifier, plugin), the relay (which lists a
sender's messages in the order of their arrival) and the library (a message is
taken in the setup and the round it belongs to) are external. `handles` are the
native objects of the current try: key shares (freed by deferred calls), sessions
(only `QcSessionFinish` ends one) and the key share a session is turned into;
`leaked` counts those a failed try left.

### TestJobs

One action is one call of a Job's pod to the database, the verifier, the plugin
or the relay. `db` is what is committed, `tx` the seeder's transaction, `env` the
configuration of the seeder's Job: a worker that is deployed anew between two
attempts creates it with other values. `suite` is `TestSuite`, `relay` the session
of the install, `policies` the policies at the verifier by the pod that created
them. A call is refused, or done with its answer lost, or done. `PerformReshare`
and `SignPolicy` stand for what `Reshare` and `LocalSign` model. Pods may be lost
at any step and are not restarted (`backoffLimit` 0); a Job may be created again
after its TTL, after the Jobs it follows, while one of an earlier attempt runs.
The verifier, the relay and the remote parties are external. Bucket creations are
left out, their errors are ignored.

### Listing

`matching` is what the filter selects now, `created` the column the listing is
ordered by, with ties. A request (`limit`, `offset`) is two steps, `List` and
`Count`, and anybody may insert a run or change a status before, between and
after them. `IsPage` says what LIMIT and OFFSET leave without fixing the order of
ties. `/results` clamps the page, `/api/v1/test-runs` refuses what is out of
range. `due`, `seen` and `left` are history of the walk from the first page. How
a client of the API goes from page to page is not in the code: by `total`, as the
links of `/results` do.

## 3. The runs

| Run | Bounds | Shows |
|---|---|---|
| `lifecycle_safety` | 1 run, 2 processes, 2 handlers, 1 fault, 1 shutdown, symmetry | types, `OneLiveHandler`, `AcceptedIsStored`, `RowsAgree`, `WorkerVerdictsStand`, and that the life cycle implements the safety part of `RunContract` |
| `lifecycle_two` | 2 runs, 1 process, 2 shutdowns, no fault | `QuietRunsHaveVerdicts`, `OnlyOldNamespacesDeleted` |
| `lifecycle_live` | 1 run, 1 process, 2 faults, 1 shutdown, fair | `ClosedRunsSettle`, `NothingLeaks`, `AcceptedRunsAreTaken` |
| `runner` | 3 attempts, all 8 configurations, fair | `PassedIsEarned`, `AttemptsAgree`, `VerdictNeedsNamespace`, `AttemptsEnd` |
| `environment` | 2 attempts, settings of 3 endpoints or none, with and without ingress | `Isolated`, `Wired`, `OldPartsFirst` |
| `artifacts` | 2 attempts, logs of one size above the worker's limit, a read limit above that | `VerdictIsDocumented`, `ServedAgain`, `ArtifactsStayPut` |
| `names` | labels of 6 characters, 2 of them left for a plugin name of up to 7 characters of 3 kinds | `OwnNames` |
| `local_sign` | 3 rounds of 2 messages, channels of 4, 2 faults, fair | `HandlesLive`, `SignedByBoth`, `ChannelsSuffice`, `Returns` |
| `reshare_safety` | 3 parties, 2 rounds, 2 curves, 2 tries each, 1 fault, remote parties that follow | `SharesAgree`, `FedInOrder`, `HandlesFreed`, `TriesFailForAReason` |
| `test_jobs` | 2 seeders of 2 configurations, 1 smoke Job, 2 integration Jobs, 2 old parties and 3 that may join, fair | `SeederVouches`, `SmokeVouches`, `CommitteeFits`, `LeftoversOfFailures`, `JobsEnd` |
| `listing` | 4 runs, 3 times, pages of 2 (results) and 1 (API), integers up to 7, symmetry | `OffsetsFit`, `NothingMissed`, `NextHasRuns` |
| `reshare_live` | 3 parties, 1 round, 1 curve, 2 tries, remote parties that owe nothing | `ReshareEnds` |

Why the bounds are enough. Runs interact only through the capacity of a process
and a janitor's lists; two show both. A run can be held by two processes at most
when a shutdown pushes it from one to the other. A fault is a failed call, an
expired context or a crash, anywhere: what goes wrong in these protocols goes
wrong with one, and the retries of `Reshare` need as many as there are tries.
Four runs make two pages of two and four of one, with ties within a page and
across its edge; page 6 overflows integers up to 7. The second of two reruns
sees what the first saw. Two rounds are enough for a message that comes too
early. The second seeder meets the rows of the first with another configuration,
the second integration Job the policy the first may have left; a third remote
party makes a committee of five. Two attempts are what one environment or
one prefix mixes: a third meets the objects as the second does. The endpoints have
no port, no port under https, and a port of their own: the three cases of
`parsePort`. A log above the worker's limit and below the reader's is the case in
which two cuts could differ; a log that was lost is the empty one. Plugin names of
seven characters are longer than a label, and have every place for dashes and
dropped characters in the two that are kept. `MaxFaults`, `MaxStops`, `MaxStarts`,
`MaxAttempts`, `Rounds`, `Burst` and `Capacity` are the bounds, each a constant
guarding the action it counts.

What the runs also taught, and the properties say in their comments: a run without
`PLUGIN_ENDPOINT`, for which `runner.go:110-121` skips the integration Job, never
passes, as its smoke Job fails at once (`cmd/testrunner/main.go:88`); a run whose
last update failed stays RUNNING unless a janitor is on; a run whose server died
before `Enqueue` stays QUEUED for ever; with two worker processes a janitor can
delete the namespace of a rerun while it is new; in `processQcInbound` a message
of the initiator opens the gate even when it could not be fed; a walk through the
pages of one status misses runs when others leave that status, and any walk may
miss a run created at the same microsecond as another; a key of an earlier
configuration stays in the verifier's table; a rerun whose endpoint moved to
another port cannot reach it, as the policy of the first attempt stays
(`k8s.go:272`); an attempt that gets no namespace takes the prefix of an earlier
one from the row, and its artifacts are out of reach; where an attempt lost a log,
an earlier attempt's may stand next to its verdict; a failed try of the reshare
leaves its sessions, and after a failed `KeyshareToBytes` the result's key share,
allocated (`participant.go:571-587`; the comment at `wrappers.go:60` wants every
result freed).

## 4. Fairness

`RunLifecycle`: every goroutine that can run does (weak); asynq's queue is a
list, so a pending task is taken if processes keep asking (strong); expired
leases are recovered, an aborted shutdown ends, Kubernetes restarts the process
and finishes deletions, time passes (weak). Clients, faults and shutdowns owe
nothing. `Runner`: the goroutine and its timers; the cluster owes nothing.
`TestJobs`: calls return, and the 3 minutes of `waitForParties` pass; parties that
should join, and whoever creates Jobs, owe nothing.
`LocalSign` and `Reshare`: goroutines and timers; the timer of `Reshare` is looked
at between two polls only, so its fairness is strong: between polls the party is
back at that point again and again. Remote parties owe nothing in `reshare_live`.
`Environment`, `Artifacts`, `Names`, `Listing` and the safety runs of the others
state no fairness: their properties are about what never happens.

## 5. The proofs

`RunLifecycle_proofs`, for any sets of runs, processes and handlers, any
concurrency, with or without janitors, any number of faults and shutdowns, from
`NoneAssumption` and `ConstantAssumption` only: `Spec => []TypeOK`,
`[]OneLiveHandler`, `[]AcceptedIsStored`, `[]RowsAgree`. None of them is
inductive. `IInv` adds:

- `Attendance`: a live handler is attended to by its process, the task of an
  attended handler is active, no other attended handler has its run. Two live
  handlers of a run would need an active task to be taken again; `Dequeue` takes
  only pending tasks, and `Requeue` and `RecoverTask` make sure nobody attends to
  the run any more.
- `RequestsMatch`: the row is there before the task and both before the answer;
  no later step removes either.
- `RowsBegin`: a row nobody started has nothing of an attempt; handlers past
  `MarkStarted` have a row with `started_at`, which no statement clears, so a
  verdict PASSED or FAILED has one too.

Each action has a lemma that it preserves `TypeOK` and one, or a step, that it
preserves the rest.

The second half of the module builds on `IInv`, from the same assumptions. What a step may do
to one row, one handler and one task is stated once (`RowStep`, `HandlerMove`,
`TaskStep`), and the invariants look at these instead of at the actions.

- `WorkerVerdictsStand`, from `Owned`: between the two updates of a live handler its
  row carries no verdict of a worker, nor does it, as long as nothing was shut down,
  before the first one. That no other live handler has the run is `OneLiveHandler`.
- `QuietRunsHaveVerdicts`, from `Quiet`: without a fault, whatever shutdowns, an active
  task has a handler whose context works, no task is archived, and a handler that has
  returned has left its verdict.
- `OnlyOldNamespacesDeleted`, for one worker process (`Alone`), from `ListsAreOld`:
  what a janitor listed is old until its process starts anew, as a namespace can only
  be created again after it was deleted. With two processes it does not hold (§3).
- `ClosedRunsStayClosed`: each step is one of `RunContract` for a single run
  (`ShownStep`) which leaves the others as they are (`Aside`), or shows nothing.

`LocalSign_proofs`, for any number of rounds, messages per round and faults:
`TypeOK`, `ChannelsSuffice`, `HandlesLive`, `SignedByBoth`. A party has output at
most one round more than it was fed, and was fed at most what the other one has
output, so what is in a channel, output and not yet fed, is at most two rounds. The
production channels hold 100. `Lives` says at which step of `localSign` which handle
is there. `Outcomes` ties a party's result to what it was fed. `Faultless` is the
invariant behind "an error needs a fault": as long as nothing failed, a channel holds
in order exactly what was output and not fed, and whoever waits has something to
wait for (`NobodyStarves`).

`Artifacts_proofs`, for any number of attempts, any sizes and any two limits of
which the reader's is not the smaller, from `LimitsAssumption`: `VerdictIsDocumented`,
`ArtifactsStayPut`, `ServedAgain`. `Phases` says what an attempt may be at, `Gathered`
that a log it holds is of a stage before the one it is at and has that stage's
outcome, `Judged` that its verdict follows from those outcomes, `Stored` that a log
it has put, or need not put, is the object in the bucket; with them the step
`Finish` establishes the property and no later step breaks it (`DocumentedKept`).
`Faithful` orders Jobs, logs and objects by the attempt that made the Job, and says
that a stage whose Job was never removed has but one log. `Offered` ties what a GET
may find to the row.

`Listing_proofs`, for any set of runs, times, page sizes and integer width, from
`ListingAssumption`: its types, `OffsetsFit`, `NothingMissed`, `NextHasRuns`. The
invariant speaks of the rank of a run, the number of matching runs created later:
runs of a rank below the offset have been shown (`Walked`). Insertions only raise
ranks, a page has the run of each of its ranks (`PageHolds`, by counting), the
next page begins no later than this one ends, and the count comes after the
listing, so a last page ends after every rank. `Counted` and `Aligned` carry
`NextHasRuns`.

`Runner_proofs`, for any number of attempts under any configurations, from
`AttemptsAssumption` only: `PassedIsEarned`, `AttemptsAgree`, `VerdictNeedsNamespace`.
That a Job's environment is there when it is created is a fact about `Plan` (`Ordered`:
what a Job needs stands before it), proved by putting the plan's parts together.
`Behind` carries it into the states: every step before `pc` is done in this
namespace. `Founded` says that a Job exists only where its environment was seen ready,
`Earned` that what succeeded or was said is in the history, `Begun` that a namespace
that is gone left nothing. `Kept` is for Jobs without TTL: an outcome stays as long
as the namespace, so the next attempt on it says the same.

The second half of `Runner_proofs` is about `Environment`, for any endpoints, any
settings of any number of attempts and any behaviour of the cluster, from
`AttemptsAssumption` and `EnvironmentAssumption`: `OldPartsFirst`, `Isolated`, `Wired`.
None of them is inductive. That a plan creates exactly what its configuration asks for,
in the order of `Rank`, is again proved part by part (`Part`, `PlanInOrder`). `Base(o)`
is what has a lower rank than `o`, without the objects of an ingress; `FoundationIsBase`
shows that what `OldPartsFirst` looks for is in it. The invariant `EInv` has:

- `Laid`: what stands before `pc` in the plan is there, or is a Job that may have been
  removed. With it, what the plan creates next finds its base (`BaseBefore`).
- `Built`: so does everything that exists, and no part of its base is of a later
  attempt; nothing leaves a namespace that is alive but Jobs.
- `Opened`: the policy of the ingress is there only where the attempt that made it was
  asked for an ingress.

`Isolated` and `Wired` follow by looking at the tables of the manifests: whatever pod
there is has the closing policy in its base, whatever Job runs has all Services.

`Names_proofs`, for any ids made of letters, digits and dashes, any plugin names, any
alphabet and any limits the fixed heads fit in, from `NamesAssumption`: `OwnNames`. The
invariant only says that a run's names are those of an id and a plugin; the rest is
about the operators. What is filtered is a string of kept characters (`OnlyTheKept`, by
counting: as many places as kept characters, each with one), and each of `Only`,
`Truncate` and `Trim` leaves alone what is legal already. So a label is legal whatever
was asked for (`LabelsAreLegal`), a name made of a front that ends with a dash and a
prefix is not changed any more (`FrontAndPrefix`), which needs the limit on the
plugin's part, and its prefix begins after its last dash (`PrefixIsRead`).

`Reshare_proofs`, for any remote parties, rounds, curves, tries and faults, from
`ReshareAssumption` only: `SharesAgree`, `FedInOrder`, `HandlesFreed`,
`TriesFailForAReason`. The conjuncts of its invariant are:

- `Net`, the sessions and the relay: nobody works on a setup there is not yet
  (`Sessions`), messages are from who they say and of a round their sender has reached
  (`Genuine`), whoever was fed by a party is not further behind it than that
  (`Ahead`), and nobody stays in a round it has every message of (`Unfinished`).
- `Phases`, `Fetched`, `Cached`, `Native`: what each local party holds at each step,
  what its cache says of what it was fed, and which native handles it has.
- `Results`: the shares of a curve that is done are of one try, which all had joined.
- `Smooth` and `Paid`: as long as a try had no fault, what a party sent and another was
  not fed yet is still at the relay. Of any parties some is in the earliest round, so
  somebody can always be fed (`NeverQuiet`); a try that fails therefore has a fault of
  its own, which also pays for the handles the try leaves.
- `Tidy`: without any fault, nothing of an earlier try is at the relay, and a party
  sees the initiator's first message before his others; with it, `FedInOrder`.

`TestJobs_proofs`, for any configurations, committees, parties and numbers of pods,
from `JobsAssumption` only: `SeederVouches`, `SmokeVouches`, `LeftoversOfFailures`,
`CommitteeFits`. `Seeding` says what the transaction holds before each call, `Counts`
that three tests were counted for each phase that is over, `Policies` that a pod that
passed is over and has no policy. `Joining` says that finitely many parties joined and
that the committee, once there, is of the parties in the session as it was started;
that it names everyone once (`CommitteeOf`) is counting: the injective sequence the
code builds from the new parties is of their number, hence onto.

Every safety property the runs check is proved. Only model-checked is all liveness, the
fair part of `RunContract` included: `AcceptedRunsAreTaken`, `ClosedRunsSettle`,
`NothingLeaks`, `AttemptsEnd`, `Returns`, `ReshareEnds` and `JobsEnd`. Fairness is about
which actions are enabled, which is out of this prover's reach.

## 6. Plan

All modules that were planned exist, and what was planned to be proved is. What a later
change of the code should meet first are the runs; where one fails, the invariant of the
same module says which of its parts the change breaks.

## 7. Not modelled

HTTP routing and rendering, probes, logging, configuration parsing, migrations
(no behaviour of their own); images, resources and probes in the manifests,
endpoints that `ParsePort` cannot parse, encodings and cryptography (data); clocks
(only their order matters: a context may end, a row or namespace may become old at
any step); the seeder's buckets, whose errors the code ignores; functions nothing
calls (the dummy Job, a deny-all policy). `KeyshareFree` of EdDSA keys is the
library's. Two facts of the code are outside every model, because they are about
data, and are listed as hazards: `VAULT_B64` replaces a vault and not the public key
that goes with it; the seeder and the smoke tests know one fixed plugin whatever the
run's is.
