------------------------------- MODULE Runner -------------------------------
(***************************************************************************)
(* Runner.Run (internal/worker/runner.go) in one run's namespace: the      *)
(* objects it creates, the Deployments and Jobs it waits for, and the      *)
(* verdict it returns; attempts that follow one another on the same        *)
(* namespace after a task was pushed back; and the cluster around it.      *)
(*                                                                         *)
(* Run is one sequence of steps, Plan.  An attempt is at step pc of it; 0  *)
(* is no attempt.  Waiting is a step that is not taken yet.                *)
(***************************************************************************)
EXTENDS Naturals, Sequences

CONSTANT MaxAttempts                    \* bound: deliveries of the task
ASSUME AttemptsAssumption == MaxAttempts \in Nat

VARIABLES cfg,                  \* K8sJobConfig, as far as Run looks at it
          ns,                   \* the namespace: "none", "alive", "terminating"
          objects,              \* what exists in it
          seen,                 \* history: Deployments an attempt saw ready
          job,                  \* the Jobs
          pc, live,             \* the attempt: its step; its context
          verdict,              \* what the last attempt returned
          attempts,             \* deliveries so far
          won,                  \* history: Jobs that succeeded, and
          said                  \* verdicts returned, in this namespace

vars == <<cfg, ns, objects, seen, job, pc, live, verdict, attempts, won, said>>

Jobs == {"seeder", "smoke", "integration"}
Configs == [plugin : BOOLEAN,           \* PluginEndpoint # ""
            ingress : BOOLEAN,          \* IngressDomain # ""
            ttl : BOOLEAN]              \* TTLAfterFinished > 0

Apply(o) == <<[op |-> "apply", obj |-> o]>>
Await(d) == <<[op |-> "await", obj |-> d]>>     \* waitForDeploymentReady

DeployNetworkPolicy(c) ==
    Apply("policy") \o (IF c.ingress THEN Apply("ingress-policy") ELSE <<>>)

DeployInfra == Apply("postgres") \o Apply("postgres-service")
               \o Apply("redis") \o Apply("redis-service")
               \o Apply("minio") \o Apply("minio-service")

WaitForInfra == Await("postgres") \o Await("redis") \o Await("minio")

DeployConfigMaps == Apply("verifier-config") \o Apply("worker-config")

DeployVerifier == Apply("verifier") \o Apply("verifier-service")
                  \o Apply("verifier-worker")

DeployIngress == Apply("ingress")

\* Mutant of WaitForVerifier: the Jobs start while it is still coming up.
NoWait == <<>>

WaitForVerifier == Await("verifier")

\* applyJob, waitForJob
RunJob(j) == <<[op |-> "create", obj |-> j], [op |-> "finish", obj |-> j]>>

\* Mutant of Plan: the policies come when the first pods are up.
PlanInfraFirst(c) ==
    DeployInfra \o WaitForInfra \o DeployNetworkPolicy(c)
    \o DeployConfigMaps \o DeployVerifier
    \o (IF c.ingress THEN DeployIngress ELSE <<>>)
    \o WaitForVerifier
    \o RunJob("seeder") \o RunJob("smoke")
    \o (IF c.plugin THEN RunJob("integration") ELSE <<>>)

Plan(c) ==
    DeployNetworkPolicy(c) \o DeployInfra \o WaitForInfra
    \o DeployConfigMaps \o DeployVerifier
    \o (IF c.ingress THEN DeployIngress ELSE <<>>)
    \o WaitForVerifier
    \o RunJob("seeder") \o RunJob("smoke")
    \o (IF c.plugin THEN RunJob("integration") ELSE <<>>)

\* The attempt is about to do op on some object.
At(op) == /\ pc \in DOMAIN Plan(cfg)
          /\ Plan(cfg)[pc].op = op
It == Plan(cfg)[pc].obj

Init == /\ cfg \in Configs
        /\ ns = "none" /\ objects = {} /\ seen = {}
        /\ job = [j \in Jobs |-> "absent"]
        /\ pc = 0 /\ live = FALSE /\ verdict = "none" /\ attempts = 0
        /\ won = {} /\ said = {}

-----------------------------------------------------------------------------
(* An attempt *)

\* A delivery of the task, up to createNamespace; an existing one will do.
Begin ==
    /\ pc = 0
    /\ attempts < MaxAttempts
    /\ attempts' = attempts + 1
    /\ pc' = 1 /\ live' = TRUE /\ verdict' = "none"
    /\ ns' = IF ns = "none" THEN "alive" ELSE ns
    /\ IF ns = "none" THEN seen' = {} /\ won' = {} /\ said' = {}
                      ELSE UNCHANGED <<seen, won, said>>
    /\ UNCHANGED <<cfg, objects, job>>

Return(v) == /\ pc' = 0 /\ live' = FALSE
             /\ verdict' = v
             /\ said' = said \cup {v}

\* On to the next step; after the last one every Job has passed.
Advance == IF pc = Len(Plan(cfg))
           THEN Return("passed")
           ELSE pc' = pc + 1 /\ UNCHANGED <<live, verdict, said>>

\* Create, where "already exists" is as good; not in a namespace on its way out.
ApplyObject ==
    /\ At("apply") /\ live
    /\ ns = "alive"
    /\ objects' = objects \cup {It}
    /\ Advance
    /\ UNCHANGED <<cfg, ns, seen, job, attempts, won>>

\* Mutant of CreateJob: a Job that is there is replaced by a new one.
ReplaceJob ==
    /\ At("create") /\ live
    /\ ns = "alive"
    /\ job' = [job EXCEPT ![It] = "running"]
    /\ Advance
    /\ UNCHANGED <<cfg, ns, objects, seen, attempts, won>>

\* A Job that is there is taken as it is, finished or not.
CreateJob ==
    /\ At("create") /\ live
    /\ ns = "alive"
    /\ job' = [job EXCEPT ![It] = IF @ = "absent" THEN "running" ELSE @]
    /\ Advance
    /\ UNCHANGED <<cfg, ns, objects, seen, attempts, won>>

\* Its pods may come up at any time, or not at all.
DeploymentReady ==
    /\ At("await") /\ live
    /\ It \in objects
    /\ seen' = seen \cup {It}
    /\ Advance
    /\ UNCHANGED <<cfg, ns, objects, job, attempts, won>>

JobSucceeded ==
    /\ At("finish") /\ live
    /\ job[It] = "succeeded"
    /\ Advance
    /\ UNCHANGED <<cfg, ns, objects, seen, job, attempts, won>>

\* Mutant of JobFailed: a Job that is not found has failed.
JobFailedIfMissing ==
    /\ At("finish") /\ live
    /\ job[It] \in {"failed", "absent"}
    /\ Return(IF It = "seeder" THEN "error" ELSE "failed")
    /\ UNCHANGED <<cfg, ns, objects, seen, job, attempts, won>>

\* Mutant of JobFailed: the result of the seeder is not looked at.
JobFailedUnlessSeeder ==
    /\ At("finish") /\ live
    /\ job[It] = "failed"
    /\ IF It = "seeder" THEN Advance ELSE Return("failed")
    /\ UNCHANGED <<cfg, ns, objects, seen, job, attempts, won>>

\* A failed seeder is an error of the run, a failed test its verdict.
JobFailed ==
    /\ At("finish") /\ live
    /\ job[It] = "failed"
    /\ Return(IF It = "seeder" THEN "error" ELSE "failed")
    /\ UNCHANGED <<cfg, ns, objects, seen, job, attempts, won>>

\* Any call may fail, and does when the context is cancelled.
CallFails ==
    /\ pc # 0
    /\ Return("error")
    /\ UNCHANGED <<cfg, ns, objects, seen, job, attempts, won>>

\* Mutant of Deadline: an object that is not found is waited for without end.
DeadlineIfFound ==
    /\ \/ At("await") /\ It \in objects
       \/ At("finish") /\ job[It] # "absent"
    /\ Return("error")
    /\ UNCHANGED <<cfg, ns, objects, seen, job, attempts, won>>

\* The wait's own time is up, whatever became of what it waits for.
Deadline ==
    /\ At("await") \/ At("finish")
    /\ Return("error")
    /\ UNCHANGED <<cfg, ns, objects, seen, job, attempts, won>>

\* The task's 30 minutes are over or its lease is lost: calls fail from here.
CancelContext ==
    /\ pc # 0 /\ live
    /\ live' = FALSE
    /\ UNCHANGED <<cfg, ns, objects, seen, job, pc, verdict, attempts, won, said>>

\* The process dies, or a shutdown pushed the task back: no verdict.
Abort ==
    /\ pc # 0
    /\ pc' = 0 /\ live' = FALSE
    /\ UNCHANGED <<cfg, ns, objects, seen, job, verdict, attempts, won, said>>

-----------------------------------------------------------------------------
(* The cluster *)

\* Mutant of CanSucceed: the smoke tests do without the plugin.
SmokeAlone(j) == TRUE

\* runSmoke (cmd/testrunner/main.go) requires a PLUGIN_ENDPOINT that is not empty.
CanSucceed(j) == j = "smoke" => cfg.plugin

JobEnds(j) ==
    /\ job[j] = "running"
    /\ \/ job' = [job EXCEPT ![j] = "failed"] /\ UNCHANGED won
       \/ /\ CanSucceed(j)
          /\ job' = [job EXCEPT ![j] = "succeeded"] /\ won' = won \cup {j}
    /\ UNCHANGED <<cfg, ns, objects, seen, pc, live, verdict, attempts, said>>

\* TTLSecondsAfterFinished.
JobExpires(j) ==
    /\ cfg.ttl
    /\ job[j] \in {"succeeded", "failed"}
    /\ job' = [job EXCEPT ![j] = "absent"]
    /\ UNCHANGED <<cfg, ns, objects, seen, pc, live, verdict, attempts, won, said>>

\* A janitor deletes the namespace, run or no run in it.
DeleteNamespace ==
    /\ ns = "alive"
    /\ ns' = "terminating"
    /\ UNCHANGED <<cfg, objects, seen, job, pc, live, verdict, attempts, won, said>>

ContentsGone ==
    /\ ns = "terminating"
    /\ objects # {} \/ \E j \in Jobs : job[j] # "absent"
    /\ objects' = {} /\ job' = [j \in Jobs |-> "absent"]
    /\ UNCHANGED <<cfg, ns, seen, pc, live, verdict, attempts, won, said>>

NamespaceGone ==
    /\ ns = "terminating"
    /\ objects = {} /\ \A j \in Jobs : job[j] = "absent"
    /\ ns' = "none"
    /\ UNCHANGED <<cfg, objects, seen, job, pc, live, verdict, attempts, won, said>>

-----------------------------------------------------------------------------

Progress == \/ ApplyObject \/ CreateJob \/ DeploymentReady
            \/ JobSucceeded \/ JobFailed \/ Deadline

Cluster == \/ \E j \in Jobs : JobEnds(j) \/ JobExpires(j)
           \/ DeleteNamespace \/ ContentsGone \/ NamespaceGone

Next == Begin \/ Progress \/ CallFails \/ CancelContext \/ Abort \/ Cluster

Spec == Init /\ [][Next]_vars

Refused == ~live \/ (ns # "alive" /\ (At("apply") \/ At("create")))

\* The goroutine runs and its timers fire.  A call in a cancelled context, or
\* one that creates in a namespace that is going, returns its error.  Nothing is
\* assumed of the cluster: pods may stay unready and Jobs run for ever.
FairSpec == /\ Spec
            /\ WF_vars(Progress)
            /\ WF_vars(CallFails /\ Refused)

-----------------------------------------------------------------------------
(* Properties *)

\* A run passes only if all three Jobs succeeded in the namespace it passed in,
\* whichever attempt had created the Job, and whatever became of the namespace
\* and of finished Jobs meanwhile: none passes without a plugin to test, although
\* Run skips the integration Job then.  However attempts are cut short and
\* repeated, the seeder Job is there only when every Deployment it relies on has
\* been seen ready, the smoke Job only when the seeder has succeeded, and the
\* integration Job only when the smoke tests have.
PassedIsEarned ==
    /\ "passed" \in said => Jobs \subseteq won
    /\ (\E j \in Jobs : job[j] # "absent") =>
          {"postgres", "redis", "minio", "verifier"} \subseteq seen
    /\ job["smoke"] # "absent" => "seeder" \in won
    /\ job["integration"] # "absent" => {"seeder", "smoke"} \subseteq won

\* Attempts in one namespace do not contradict one another: as finished Jobs
\* are taken as they are, a rerun cannot pass what another attempt failed.  It
\* takes Jobs that are not removed when they finish.
AttemptsAgree == ~cfg.ttl => ~({"passed", "failed"} \subseteq said)

\* A verdict other than an error comes out of a working context and a namespace
\* that is not gone: what RunLifecycle assumes of the runner.
VerdictNeedsNamespace ==
    [][verdict' # verdict /\ verdict' \in {"passed", "failed"}
          => live /\ ns # "none"]_vars

\* Every attempt returns or is aborted, even when what it waits for never
\* comes, or is deleted under it.
AttemptsEnd == pc # 0 ~> pc = 0
=============================================================================
