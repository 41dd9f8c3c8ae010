--------------------------- MODULE Runner_proofs ---------------------------
(***************************************************************************)
(* What Runner and its environment keep, for any number of attempts, any   *)
(* settings and any behaviour of the cluster: no run passes that did not   *)
(* earn it, attempts in one namespace agree, and a verdict needs a         *)
(* namespace; what stands in a namespace stands on what its plan created   *)
(* before, so that pods are closed in from the first and the hosts a Job   *)
(* is configured with are there when it runs.                              *)
(***************************************************************************)
EXTENDS Environment, TLAPS, SequenceTheorems

Call(o, x) == [op |-> o, obj |-> x]
Parts == {"policy", "ingress-policy", "postgres", "postgres-service", "redis", "redis-service",
          "minio", "minio-service", "verifier-config", "worker-config", "verifier",
          "verifier-service", "verifier-worker", "ingress", "seeder", "smoke", "integration"}
Steps == [op : {"apply", "await"}, obj : Parts] \cup [op : {"create", "finish"}, obj : Jobs]
Awaited == {"postgres", "redis", "minio", "verifier"}

-----------------------------------------------------------------------------
(* The order of the plan *)

\* What must have been done before a step.
Needs(x) ==
    IF x.op # "create" THEN {}
    ELSE {Call("await", d) : d \in Awaited}
         \cup (IF x.obj = "smoke" THEN {Call("finish", "seeder")} ELSE {})
         \cup (IF x.obj = "integration"
               THEN {Call("finish", "seeder"), Call("finish", "smoke")} ELSE {})

Has(s, x) == \E i \in 1..Len(s) : s[i] = x
Ordered(s) == \A i \in 1..Len(s) : \A y \in Needs(s[i]) : \E k \in 1..(i - 1) : s[k] = y
Preparing(s) == s \in Seq(Steps) /\ \A i \in 1..Len(s) : s[i].op # "create"

\* Putting two parts of a plan one after the other.
LEMMA Joined ==
    ASSUME NEW s \in Seq(Steps), NEW t \in Seq(Steps)
    PROVE  /\ s \o t \in Seq(Steps)
           /\ \A x : Has(s, x) \/ Has(t, x) => Has(s \o t, x)
           /\ Preparing(s) /\ Preparing(t) => Preparing(s \o t)
           /\ /\ Ordered(s)
              /\ \A i \in 1..Len(t) : \A y \in Needs(t[i]) :
                    Has(s, y) \/ \E k \in 1..(i - 1) : t[k] = y
              => Ordered(s \o t)
<1>1. /\ s \o t \in Seq(Steps) /\ Len(s) \in Nat /\ Len(t) \in Nat
      /\ Len(s \o t) = Len(s) + Len(t)
      /\ \A i \in 1..(Len(s) + Len(t)) :
            (s \o t)[i] = IF i <= Len(s) THEN s[i] ELSE t[i - Len(s)]
  BY ConcatProperties, LenProperties
<1>2. /\ \A i \in 1..Len(s) : i \in 1..(Len(s) + Len(t)) /\ (s \o t)[i] = s[i]
      /\ \A i \in 1..Len(t) : /\ Len(s) + i \in 1..(Len(s) + Len(t))
                              /\ (s \o t)[Len(s) + i] = t[i]
  BY <1>1
<1>3. \A x : Has(s, x) \/ Has(t, x) => Has(s \o t, x)
  BY <1>1, <1>2 DEF Has
<1>4. Preparing(s) /\ Preparing(t) => Preparing(s \o t)
  BY <1>1 DEF Preparing
<1>5. ASSUME Ordered(s),
             \A i \in 1..Len(t) : \A y \in Needs(t[i]) :
                 Has(s, y) \/ \E k \in 1..(i - 1) : t[k] = y
      PROVE  Ordered(s \o t)
  <2> SUFFICES ASSUME NEW i \in 1..(Len(s) + Len(t)), NEW y \in Needs((s \o t)[i])
               PROVE  \E k \in 1..(i - 1) : (s \o t)[k] = y
    BY <1>1 DEF Ordered
  <2>1. CASE i <= Len(s)
    <3>1. i \in 1..Len(s) /\ (s \o t)[i] = s[i]
      BY <1>1, <1>2, <2>1
    <3>2. PICK k \in 1..(i - 1) : s[k] = y
      BY <1>5, <3>1, Zenon DEF Ordered
    <3>3. k \in 1..Len(s)
      BY <1>1, <3>1
    <3> QED BY <1>2, <3>2, <3>3
  <2>2. CASE i > Len(s)
    <3>1. i - Len(s) \in 1..Len(t) /\ (s \o t)[i] = t[i - Len(s)]
      BY <1>1, <2>2
    <3>2. CASE Has(s, y)
      BY <1>1, <1>2, <2>2, <3>2 DEF Has
    <3>3. CASE \E k \in 1..(i - Len(s) - 1) : t[k] = y
      <4>1. PICK k \in 1..(i - Len(s) - 1) : t[k] = y
        BY <3>3
      <4>2. Len(s) + k \in 1..(i - 1) /\ (s \o t)[Len(s) + k] = y
        BY <1>1, <1>2, <4>1, <3>1
      <4> QED BY <4>2
    <3> QED BY <1>5, <3>1, <3>2, <3>3
  <2> QED BY <1>1, <2>1, <2>2
<1> QED BY <1>1, <1>3, <1>4, <1>5

LEMMA Singles ==
    ASSUME NEW x \in Parts
    PROVE  /\ Apply(x) \in Seq(Steps) /\ Preparing(Apply(x))
           /\ Await(x) \in Seq(Steps) /\ Preparing(Await(x))
           /\ Has(Await(x), Call("await", x))
  BY DEF Apply, Await, Preparing, Has, Steps, Call

LEMMA JobSteps ==
    ASSUME NEW j \in Jobs
    PROVE  /\ RunJob(j) \in Seq(Steps) /\ Len(RunJob(j)) = 2
           /\ RunJob(j)[1] = Call("create", j) /\ RunJob(j)[2] = Call("finish", j)
           /\ Has(RunJob(j), Call("finish", j))
<1>1. Call("create", j) \in Steps /\ Call("finish", j) \in Steps
  BY DEF Jobs, Parts, Steps, Call
<1>2. RunJob(j) = <<Call("create", j), Call("finish", j)>>
  BY DEF RunJob, Call
<1> HIDE DEF Call, Steps
<1> QED BY <1>1, <1>2 DEF Has

LEMMA Empty == <<>> \in Seq(Steps) /\ Preparing(<<>>)
  BY DEF Preparing

\* A Job follows what it relies on.
LEMMA JobJoined ==
    ASSUME NEW s \in Seq(Steps), Ordered(s), NEW j \in Jobs,
           \A y \in Needs(Call("create", j)) : Has(s, y)
    PROVE  /\ s \o RunJob(j) \in Seq(Steps) /\ Ordered(s \o RunJob(j))
           /\ \A x : Has(s, x) => Has(s \o RunJob(j), x)
           /\ Has(s \o RunJob(j), Call("finish", j))
<1>1. \A i \in 1..Len(RunJob(j)) : \A y \in Needs(RunJob(j)[i]) : Has(s, y)
  <2>1. Needs(RunJob(j)[2]) = {}
    <3>1. Call("finish", j).op # "create"
      BY DEF Call
    <3> QED BY <3>1, JobSteps DEF Needs
  <2>2. \A i \in 1..Len(RunJob(j)) : i = 1 \/ i = 2
    <3>1. Len(RunJob(j)) = 2
      BY JobSteps
    <3> QED BY <3>1
  <2> QED BY JobSteps, <2>1, <2>2
<1> QED BY <1>1, JobSteps, Joined

\* All that is before the Jobs.
Prepare(c) ==
    DeployNetworkPolicy(c) \o DeployInfra \o WaitForInfra
    \o DeployConfigMaps \o DeployVerifier
    \o (IF c.ingress THEN DeployIngress ELSE <<>>)
    \o WaitForVerifier

LEMMA PrepareFirst ==
    ASSUME NEW c \in Configs
    PROVE  /\ Preparing(Prepare(c))
           /\ \A d \in Awaited : Has(Prepare(c), Call("await", d))
<1> DEFINE Fine(s) == s \in Seq(Steps) /\ Preparing(s)
           Waited(s) == \A d \in {"postgres", "redis", "minio"} : Has(s, Call("await", d))
<1>1. \A s, t : Fine(s) /\ Fine(t) => Fine(s \o t)
  BY Joined
<1>2. \A s, t : Fine(s) /\ Fine(t) /\ Waited(s) => Waited(s \o t)
  BY Joined
<1>3. \A s, t : Fine(s) /\ Fine(t) /\ Waited(t) => Waited(s \o t)
  BY Joined
<1>4. \A x \in Parts : Fine(Apply(x)) /\ Fine(Await(x)) /\ Has(Await(x), Call("await", x))
  BY Singles
<1>5. \A s, t : Fine(s) /\ Fine(t) => \A x : Has(s, x) \/ Has(t, x) => Has(s \o t, x)
  BY Joined
<1>6. Fine(<<>>)
  BY Empty
<1> HIDE DEF Fine, Waited
<1>7. Fine(DeployNetworkPolicy(c))
  <2>1. CASE c.ingress
    BY <2>1, <1>1, <1>4 DEF DeployNetworkPolicy, Parts
  <2>2. CASE ~c.ingress
    BY <2>2, <1>1, <1>4, <1>6 DEF DeployNetworkPolicy, Parts
  <2> QED BY <2>1, <2>2
<1>8. Fine(DeployInfra) /\ Fine(DeployConfigMaps) /\ Fine(DeployVerifier)
  BY <1>1, <1>4 DEF DeployInfra, DeployConfigMaps, DeployVerifier, Parts
<1>9. Fine(IF c.ingress THEN DeployIngress ELSE <<>>)
  BY <1>4, <1>6 DEF DeployIngress, Parts
<1>10. Fine(WaitForVerifier) /\ Has(WaitForVerifier, Call("await", "verifier"))
  BY <1>4 DEF WaitForVerifier, Parts
<1>11. Fine(WaitForInfra) /\ Waited(WaitForInfra)
  <2> DEFINE T == Await("postgres") \o Await("redis")
  <2>1. \A d \in {"postgres", "redis", "minio"} :
            Fine(Await(d)) /\ Has(Await(d), Call("await", d))
    BY <1>4 DEF Parts
  <2>2. Fine(T) /\ Has(T, Call("await", "postgres")) /\ Has(T, Call("await", "redis"))
    BY <1>1, <1>5, <2>1
  <2>3. WaitForInfra = T \o Await("minio")
    BY DEF WaitForInfra
  <2> HIDE DEF T
  <2> QED BY <1>1, <1>5, <2>1, <2>2, <2>3 DEF Waited
<1> DEFINE A == DeployNetworkPolicy(c) \o DeployInfra
           B == A \o WaitForInfra
           C == B \o DeployConfigMaps
           D == C \o DeployVerifier
           F == D \o (IF c.ingress THEN DeployIngress ELSE <<>>)
           P == F \o WaitForVerifier
<1>12. Fine(A)
  BY <1>1, <1>7, <1>8
<1> HIDE DEF A
<1>13. Fine(B) /\ Waited(B)
  BY <1>1, <1>3, <1>11, <1>12
<1> HIDE DEF B
<1>14. Fine(C) /\ Waited(C)
  BY <1>1, <1>8, <1>2, <1>13
<1> HIDE DEF C
<1>15. Fine(D) /\ Waited(D)
  BY <1>1, <1>8, <1>2, <1>14
<1> HIDE DEF D
<1>16. Fine(F) /\ Waited(F)
  BY <1>1, <1>9, <1>2, <1>15
<1> HIDE DEF F
<1>17. Fine(P) /\ Waited(P)
  BY <1>1, <1>10, <1>2, <1>16
<1>18. Has(P, Call("await", "verifier"))
  BY <1>10, <1>16, <1>5
<1>19. Prepare(c) = P
  BY DEF Prepare, A, B, C, D, F, P
<1> HIDE DEF P
<1> QED BY <1>17, <1>18, <1>19 DEF Fine, Waited, Awaited

\* The plan is in order, and ends when every Job of the configuration has.
LEMMA PlanOrdered ==
    ASSUME NEW c \in Configs
    PROVE  /\ Plan(c) \in Seq(Steps) /\ Ordered(Plan(c))
           /\ Has(Plan(c), Call("finish", "seeder")) /\ Has(Plan(c), Call("finish", "smoke"))
           /\ c.plugin => Has(Plan(c), Call("finish", "integration"))
<1> DEFINE P == Prepare(c)
           Q == P \o RunJob("seeder")
           R == Q \o RunJob("smoke")
<1>1. P \in Seq(Steps) /\ Ordered(P) /\ \A d \in Awaited : Has(P, Call("await", d))
  BY PrepareFirst DEF Preparing, Ordered, Needs
<1>2. Plan(c) = R \o (IF c.plugin THEN RunJob("integration") ELSE <<>>)
  BY DEF Plan, Prepare
<1> HIDE DEF P
<1>3. /\ \A y \in Needs(Call("create", "seeder")) : \E d \in Awaited : y = Call("await", d)
      /\ \A y \in Needs(Call("create", "smoke")) :
            y = Call("finish", "seeder") \/ \E d \in Awaited : y = Call("await", d)
      /\ \A y \in Needs(Call("create", "integration")) :
            \/ y = Call("finish", "seeder") \/ y = Call("finish", "smoke")
            \/ \E d \in Awaited : y = Call("await", d)
  BY DEF Needs, Call
<1>4. /\ Q \in Seq(Steps) /\ Ordered(Q) /\ \A d \in Awaited : Has(Q, Call("await", d))
      /\ Has(Q, Call("finish", "seeder"))
  BY <1>1, <1>3, JobJoined DEF Jobs
<1> HIDE DEF Q
<1>5. /\ R \in Seq(Steps) /\ Ordered(R) /\ \A d \in Awaited : Has(R, Call("await", d))
      /\ Has(R, Call("finish", "seeder")) /\ Has(R, Call("finish", "smoke"))
  BY <1>3, <1>4, JobJoined DEF Jobs
<1> HIDE DEF R
<1>6. CASE c.plugin
  <2>1. "integration" \in Jobs /\ Plan(c) = R \o RunJob("integration")
    BY <1>2, <1>6 DEF Jobs
  <2> QED BY <1>3, <1>5, <2>1, JobJoined
<1>7. CASE ~c.plugin
  BY <1>2, <1>5, <1>7, ConcatEmptySeq
<1> QED BY <1>6, <1>7

-----------------------------------------------------------------------------
(* The invariant *)

Types ==
    /\ cfg \in Configs /\ ns \in {"none", "alive", "terminating"}
    /\ seen \in SUBSET Parts /\ won \in SUBSET Jobs
    /\ job \in [Jobs -> {"absent", "running", "succeeded", "failed"}]
    /\ pc \in 0..Len(Plan(cfg)) /\ live \in BOOLEAN

\* An attempt has done all that is before its step.
Done(x) == /\ x.op = "await" => x.obj \in seen
           /\ x.op = "finish" => x.obj \in won
Behind == \A i \in 1..(pc - 1) : Done(Plan(cfg)[i])

\* A new namespace is empty, and what is done was done in this one.
Begun == ns = "none" => objects = {} /\ \A j \in Jobs : job[j] = "absent"
Founded == \A j \in Jobs : job[j] # "absent" =>
    /\ Awaited \subseteq seen
    /\ \A y \in Needs(Call("create", j)) : Done(y)
Earned == /\ \A j \in Jobs : job[j] = "succeeded" => j \in won
          /\ "smoke" \in won => cfg.plugin
          /\ "passed" \in said => Jobs \subseteq won

\* Jobs that are not removed keep their outcome as long as the namespace lives.
Gone(j) == job[j] = "absent" /\ ns # "alive"
Kept == ~cfg.ttl =>
    /\ \A j \in won : job[j] = "succeeded" \/ Gone(j)
    /\ "failed" \in said => \E j \in Jobs \ won : job[j] = "failed" \/ Gone(j)

RInv == Types /\ Behind /\ Begun /\ Founded /\ Earned /\ Kept

-----------------------------------------------------------------------------
(* Steps of an attempt *)

\* One step further, with all it needed done: at the end every Job has succeeded.
LEMMA Advanced ==
    ASSUME Types, Behind, Earned, pc \in DOMAIN Plan(cfg), Advance,
           cfg' = cfg, seen \subseteq seen', won' = won,
           NEW x, x = Plan(cfg)[pc], Done(x)'
    PROVE  /\ Behind' /\ pc' \in 0..Len(Plan(cfg)) /\ live' \in BOOLEAN
           /\ "passed" \in said' => Jobs \subseteq won
           /\ "failed" \in said' => "failed" \in said
<1>1. /\ Plan(cfg) \in Seq(Steps) /\ cfg \in Configs
      /\ Len(Plan(cfg)) \in Nat /\ DOMAIN Plan(cfg) = 1..Len(Plan(cfg))
  BY PlanOrdered, LenProperties DEF Types
<1>2. ASSUME NEW i \in 1..pc, NEW y, y = Plan(cfg)[i]
      PROVE  (y.op = "await" => y.obj \in seen') /\ (y.op = "finish" => y.obj \in won)
  <2>1. CASE i = pc
    BY <1>2, <2>1 DEF Done
  <2>2. CASE i # pc
    <3>1. i \in 1..(pc - 1)
      BY <1>1, <2>2
    <3> QED BY <1>2, <3>1 DEF Behind, Done
  <2> QED BY <2>1, <2>2
<1>3. CASE pc # Len(Plan(cfg))
  <2>1. pc' = pc + 1 /\ live' = live /\ said' = said /\ pc \in 1..Len(Plan(cfg))
    BY <1>1, <1>3 DEF Advance
  <2>2. \A i \in 1..(pc' - 1) : i \in 1..pc
    BY <1>1, <2>1
  <2>3. Behind'
    BY <1>2, <2>2 DEF Behind, Done
  <2>4. live' \in BOOLEAN
    BY <2>1, Zenon DEF Types
  <2>5. pc' \in 0..Len(Plan(cfg))
    BY <1>1, <1>3, <2>1
  <2> QED BY <2>1, <2>3, <2>4, <2>5 DEF Earned
<1>4. CASE pc = Len(Plan(cfg))
  <2>1. pc' = 0 /\ live' = FALSE /\ said' = said \cup {"passed"}
    BY <1>4 DEF Advance, Return
  <2>2. \A j \in Jobs : Has(Plan(cfg), Call("finish", j)) => j \in won
    BY <1>2, <1>4 DEF Has, Call
  <2>3. {"seeder", "smoke"} \subseteq won
    BY <1>1, <2>2, PlanOrdered DEF Jobs
  <2>4. "integration" \in won
    BY <1>1, <2>2, <2>3, PlanOrdered DEF Earned, Jobs
  <2>5. Behind'
    BY <2>1 DEF Behind
  <2>6. live' \in BOOLEAN
    BY <2>1, Zenon
  <2> QED BY <1>1, <2>1, <2>3, <2>4, <2>5, <2>6 DEF Jobs
<1> QED BY <1>3, <1>4

\* The step an attempt is at, and what it relies on.
LEMMA AtStep ==
    ASSUME Types, Behind, NEW o \in {"apply", "await", "create", "finish"}, At(o)
    PROVE  /\ pc \in DOMAIN Plan(cfg) /\ pc # 0
           /\ Plan(cfg)[pc] \in Steps /\ Plan(cfg)[pc] = Call(o, It) /\ It \in Parts
           /\ o \in {"create", "finish"} => It \in Jobs
           /\ \A y \in Needs(Call(o, It)) : Done(y)
<1>1. /\ Plan(cfg) \in Seq(Steps) /\ Ordered(Plan(cfg))
      /\ DOMAIN Plan(cfg) = 1..Len(Plan(cfg)) /\ Len(Plan(cfg)) \in Nat
  BY PlanOrdered, LenProperties DEF Types
<1>2. pc \in 1..Len(Plan(cfg)) /\ Plan(cfg)[pc].op = o /\ Plan(cfg)[pc] \in Steps
  BY <1>1, ElementOfSeq DEF At
<1>3. /\ Plan(cfg)[pc] = Call(o, It) /\ It \in Parts
      /\ o \in {"create", "finish"} => It \in Jobs
  BY <1>2 DEF Steps, Call, It, Parts, Jobs
<1>4. ASSUME NEW y \in Needs(Plan(cfg)[pc]) PROVE Done(y)
  <2>1. PICK k \in 1..(pc - 1) : Plan(cfg)[k] = y
    BY <1>1, <1>2, Zenon DEF Ordered
  <2> QED BY <2>1 DEF Behind
<1> QED BY <1>1, <1>2, <1>3, <1>4

\* So does one that has what its step is for.
LEMMA Onward ==
    ASSUME RInv, NEW o \in {"apply", "await", "create", "finish"}, At(o), Advance,
           UNCHANGED <<cfg, ns, won>>, seen \subseteq seen', seen' \subseteq Parts,
           job' \in [Jobs -> {"absent", "running", "succeeded", "failed"}],
           o = "await" => It \in seen', o = "finish" => It \in won
    PROVE  /\ Types' /\ Behind'
           /\ "passed" \in said' => Jobs \subseteq won
           /\ "failed" \in said' => "failed" \in said
<1> USE DEF RInv
<1>1. pc \in DOMAIN Plan(cfg) /\ Plan(cfg)[pc] = Call(o, It)
  BY AtStep
<1>2. PICK x : x = Plan(cfg)[pc]
  OBVIOUS
<1>3. Done(x)'
  BY <1>1, <1>2 DEF Done, Call
<1>4. /\ Behind' /\ pc' \in 0..Len(Plan(cfg)) /\ live' \in BOOLEAN
      /\ "passed" \in said' => Jobs \subseteq won
      /\ "failed" \in said' => "failed" \in said
  BY <1>1, <1>2, <1>3, Advanced
<1> QED BY <1>4 DEF Types

LEMMA ReturnKeeps ==
    ASSUME RInv, NEW v, v # "passed", Return(v),
           UNCHANGED <<cfg, ns, objects, seen, job, attempts, won>>,
           v = "failed" /\ ~cfg.ttl => \E j \in Jobs \ won : job[j] = "failed"
    PROVE  RInv'
<1> USE DEF RInv
<1>1. pc' = 0 /\ live' = FALSE /\ said' = said \cup {v}
  BY DEF Return
<1>2. Len(Plan(cfg)) \in Nat
  BY PlanOrdered, LenProperties DEF Types
<1>3. Types'
  <2>1. live' \in BOOLEAN
    BY <1>1, Zenon
  <2>2. pc' \in 0..Len(Plan(cfg'))
    BY <1>1, <1>2
  <2> QED BY <2>1, <2>2 DEF Types
<1>4. Behind'
  BY <1>1 DEF Behind
<1>5. Founded' /\ Begun' /\ Earned'
  BY <1>1 DEF Founded, Begun, Earned, Done
<1>6. Kept'
  BY <1>1 DEF Kept, Gone
<1> QED BY <1>3, <1>4, <1>5, <1>6

-----------------------------------------------------------------------------
(* What steps keep *)

LEMMA ApplyKeeps == ASSUME RInv, ApplyObject PROVE RInv'
<1> USE DEF RInv
<1>1. /\ At("apply") /\ ns = "alive" /\ Advance
      /\ UNCHANGED <<cfg, ns, seen, job, attempts, won>>
  BY DEF ApplyObject
<1>2. /\ Types' /\ Behind'
      /\ "passed" \in said' => Jobs \subseteq won
      /\ "failed" \in said' => "failed" \in said
  BY <1>1, Onward DEF Types
<1>3. Begun' /\ Founded' /\ Earned'
  BY <1>1, <1>2 DEF Begun, Founded, Earned, Done
<1>4. Kept'
  BY <1>1, <1>2 DEF Kept, Gone
<1> QED BY <1>2, <1>3, <1>4

LEMMA CreateKeeps == ASSUME RInv, CreateJob PROVE RInv'
<1> USE DEF RInv
<1>1. /\ At("create") /\ ns = "alive" /\ Advance
      /\ UNCHANGED <<cfg, ns, objects, seen, attempts, won>>
      /\ job' = [job EXCEPT ![It] = IF @ = "absent" THEN "running" ELSE @]
  BY DEF CreateJob
<1>2. It \in Jobs /\ \A y \in Needs(Call("create", It)) : Done(y)
  BY <1>1, AtStep
<1>3. /\ job' \in [Jobs -> {"absent", "running", "succeeded", "failed"}]
      /\ \A j \in Jobs : job[j] # "absent" => job'[j] = job[j]
      /\ \A j \in Jobs : j # It => job'[j] = job[j]
      /\ job[It] = "absent" => job'[It] = "running"
  BY <1>1, <1>2 DEF Types
<1>4. /\ Types' /\ Behind'
      /\ "passed" \in said' => Jobs \subseteq won
      /\ "failed" \in said' => "failed" \in said
  BY <1>1, <1>3, Onward DEF Types
<1>5. Founded'
  <2>1. ASSUME NEW d \in Awaited PROVE d \in seen
    <3>1. Call("await", d) \in Needs(Call("create", It))
      BY DEF Needs, Call
    <3> QED BY <1>2, <3>1 DEF Done, Call
  <2> QED BY <1>1, <1>2, <1>3, <2>1 DEF Founded, Done
<1>6. Begun' /\ Earned'
  BY <1>1, <1>2, <1>3, <1>4 DEF Begun, Earned
<1>7. Kept'
  BY <1>1, <1>2, <1>3, <1>4 DEF Kept, Gone, Types
<1> QED BY <1>4, <1>5, <1>6, <1>7

LEMMA ReadyKeeps == ASSUME RInv, DeploymentReady PROVE RInv'
<1> USE DEF RInv
<1>1. /\ At("await") /\ Advance /\ seen' = seen \cup {It}
      /\ UNCHANGED <<cfg, ns, objects, job, attempts, won>>
  BY DEF DeploymentReady
<1>2. /\ Types' /\ Behind'
      /\ "passed" \in said' => Jobs \subseteq won
      /\ "failed" \in said' => "failed" \in said
  <2>1. It \in Parts
    BY <1>1, AtStep
  <2> QED BY <1>1, <2>1, Onward DEF Types
<1>3. Begun' /\ Founded' /\ Earned'
  BY <1>1, <1>2 DEF Begun, Founded, Earned, Done
<1>4. Kept'
  BY <1>1, <1>2 DEF Kept, Gone
<1> QED BY <1>2, <1>3, <1>4

LEMMA SucceededKeeps == ASSUME RInv, JobSucceeded PROVE RInv'
<1> USE DEF RInv
<1>1. /\ At("finish") /\ Advance /\ job[It] = "succeeded"
      /\ UNCHANGED <<cfg, ns, objects, seen, job, attempts, won>>
  BY DEF JobSucceeded
<1>2. It \in won
  BY <1>1, AtStep DEF Earned
<1>3. /\ Types' /\ Behind'
      /\ "passed" \in said' => Jobs \subseteq won
      /\ "failed" \in said' => "failed" \in said
  BY <1>1, <1>2, Onward DEF Types
<1>4. Begun' /\ Founded' /\ Earned'
  BY <1>1, <1>3 DEF Begun, Founded, Earned, Done
<1>5. Kept'
  BY <1>1, <1>3 DEF Kept, Gone
<1> QED BY <1>3, <1>4, <1>5

LEMMA FailedKeeps == ASSUME RInv, JobFailed \/ CallFails \/ Deadline PROVE RInv'
<1> USE DEF RInv
<1>1. CASE JobFailed
  <2>1. /\ At("finish") /\ job[It] = "failed"
        /\ Return(IF It = "seeder" THEN "error" ELSE "failed")
        /\ UNCHANGED <<cfg, ns, objects, seen, job, attempts, won>>
    BY <1>1 DEF JobFailed
  <2>2. It \in Jobs
    BY <2>1, AtStep
  <2>3. ~cfg.ttl => It \notin won
    BY <2>1 DEF Kept, Gone
  <2>4. CASE It = "seeder"
    BY <2>1, <2>4, ReturnKeeps
  <2>5. CASE It # "seeder"
    BY <2>1, <2>2, <2>3, <2>5, ReturnKeeps
  <2> QED BY <2>4, <2>5
<1>2. CASE CallFails
  BY <1>2, ReturnKeeps DEF CallFails
<1>3. CASE Deadline
  BY <1>3, ReturnKeeps DEF Deadline
<1> QED BY <1>1, <1>2, <1>3

\* The context and the process end, and a task is delivered again.
LEMMA DeliveriesKeep == ASSUME RInv, Begin \/ CancelContext \/ Abort PROVE RInv'
<1> USE DEF RInv
<1>1. Plan(cfg) \in Seq(Steps) /\ Len(Plan(cfg)) \in Nat
  BY PlanOrdered, LenProperties DEF Types
<1>2. CASE Begin
  <2>1. /\ pc' = 1 /\ live' = TRUE /\ UNCHANGED <<cfg, objects, job>>
        /\ \/ /\ ns = "none" /\ ns' = "alive"
              /\ seen' = {} /\ won' = {} /\ said' = {}
           \/ ns # "none" /\ UNCHANGED <<ns, seen, won, said>>
    BY <1>2 DEF Begin
  <2>2. Len(Plan(cfg)) # 0
    BY <1>1, PlanOrdered DEF Has, Types
  <2>3. Types'
    <3>1. live' \in BOOLEAN
      BY <2>1, Zenon
    <3>2. pc' \in 0..Len(Plan(cfg))
      BY <1>1, <2>1, <2>2
    <3> QED BY <2>1, <3>1, <3>2 DEF Types
  <2>4. Behind' /\ Begun'
    BY <2>1 DEF Behind, Begun
  <2>5. Founded' /\ Earned'
    BY <2>1 DEF Founded, Earned, Begun, Done
  <2>6. Kept'
    BY <2>1 DEF Kept, Gone
  <2> QED BY <2>3, <2>4, <2>5, <2>6
<1>3. CASE CancelContext \/ Abort
  <2>1. /\ pc' = pc \/ pc' = 0
        /\ live' = FALSE /\ UNCHANGED <<cfg, ns, objects, seen, job, won, said>>
    BY <1>3 DEF CancelContext, Abort
  <2>2. Types'
    <3>1. live' \in BOOLEAN
      BY <2>1, Zenon
    <3>2. pc' \in 0..Len(Plan(cfg))
      BY <1>1, <2>1 DEF Types
    <3> QED BY <2>1, <3>1, <3>2 DEF Types
  <2>3. Behind'
    BY <2>1 DEF Behind, Done
  <2>4. Begun' /\ Founded' /\ Earned'
    BY <2>1 DEF Begun, Founded, Earned, Done
  <2>5. Kept'
    BY <2>1 DEF Kept, Gone
  <2> QED BY <2>2, <2>3, <2>4, <2>5
<1> QED BY <1>2, <1>3

LEMMA ClusterKeeps == ASSUME RInv, Cluster PROVE RInv'
<1> USE DEF RInv
<1>1. UNCHANGED <<cfg, seen, pc, live, verdict, said>>
  BY DEF Cluster, JobEnds, JobExpires, DeleteNamespace, ContentsGone, NamespaceGone
<1>2. won \subseteq won'
  BY DEF Cluster, JobEnds, JobExpires, DeleteNamespace, ContentsGone, NamespaceGone
<1>3. Behind'
  BY <1>1, <1>2 DEF Behind, Done
<1>4. ASSUME NEW j \in Jobs, JobEnds(j) PROVE RInv'
  <2>1. /\ job[j] = "running" /\ UNCHANGED <<ns, objects>>
        /\ \/ job' = [job EXCEPT ![j] = "failed"] /\ won' = won
           \/ /\ j = "smoke" => cfg.plugin
              /\ job' = [job EXCEPT ![j] = "succeeded"] /\ won' = won \cup {j}
    BY <1>4 DEF JobEnds, CanSucceed
  <2>2. /\ job'[j] \in {"failed", "succeeded"} /\ (job'[j] = "succeeded" => j \in won')
        /\ \A k \in Jobs \ {j} : job'[k] = job[k]
    BY <2>1 DEF Types
  <2>3. Types'
    BY <1>1, <2>1 DEF Types
  <2>4. Begun' /\ Founded'
    BY <1>1, <1>2, <2>1, <2>2 DEF Begun, Founded, Done
  <2>5. Earned'
    BY <1>1, <1>2, <2>1, <2>2 DEF Earned
  <2>6. Kept'
    <3> SUFFICES ASSUME ~cfg.ttl
                 PROVE  /\ \A k \in won' : job'[k] = "succeeded" \/ Gone(k)'
                        /\ "failed" \in said =>
                              \E k \in Jobs \ won' : job'[k] = "failed" \/ Gone(k)'
      BY <1>1 DEF Kept
    <3>1. j \notin won
      BY <2>1 DEF Kept, Gone
    <3>2. \A k \in won' : job'[k] = "succeeded" \/ Gone(k)'
      BY <2>1, <2>2, <3>1 DEF Kept, Gone, Types
    <3>3. ASSUME "failed" \in said
          PROVE  \E k \in Jobs \ won' : job'[k] = "failed" \/ Gone(k)'
      <4>1. PICK k \in Jobs \ won : job[k] = "failed" \/ Gone(k)
        BY <3>3 DEF Kept
      <4>2. k # j /\ job'[k] = job[k]
        BY <2>1, <2>2, <4>1 DEF Gone
      <4> QED BY <2>1, <4>1, <4>2 DEF Gone
    <3> QED BY <3>2, <3>3
  <2> QED BY <1>3, <2>3, <2>4, <2>5, <2>6
<1>5. ASSUME NEW j \in Jobs, JobExpires(j) PROVE RInv'
  <2>1. /\ cfg.ttl /\ UNCHANGED <<ns, objects, won>>
        /\ job' = [job EXCEPT ![j] = "absent"]
    BY <1>5 DEF JobExpires
  <2>2. Types' /\ \A k \in Jobs : job'[k] = "absent" \/ job'[k] = job[k]
    BY <1>1, <2>1 DEF Types
  <2>3. Begun' /\ Founded' /\ Earned'
    BY <1>1, <2>1, <2>2 DEF Begun, Founded, Earned, Done
  <2> QED BY <1>1, <1>3, <2>1, <2>2, <2>3 DEF Kept
<1>6. CASE DeleteNamespace
  <2>1. ns' = "terminating" /\ UNCHANGED <<objects, job, won>>
    BY <1>6 DEF DeleteNamespace
  <2>2. Types' /\ Begun' /\ Founded' /\ Earned'
    BY <1>1, <2>1 DEF Types, Begun, Founded, Earned, Done
  <2>3. Kept'
    BY <1>1, <2>1 DEF Kept, Gone
  <2> QED BY <1>3, <2>2, <2>3
<1>7. CASE ContentsGone
  <2>1. /\ ns = "terminating" /\ ns' = ns /\ won' = won /\ objects' = {}
        /\ \A j \in Jobs : job'[j] = "absent"
        /\ job' \in [Jobs -> {"absent", "running", "succeeded", "failed"}]
    BY <1>7 DEF ContentsGone
  <2>2. Types' /\ Begun' /\ Founded' /\ Earned'
    BY <1>1, <2>1 DEF Types, Begun, Founded, Earned
  <2>3. Kept'
    BY <1>1, <2>1 DEF Kept, Gone, Types
  <2> QED BY <1>3, <2>2, <2>3
<1>8. CASE NamespaceGone
  <2>1. /\ ns' = "none" /\ objects = {} /\ \A j \in Jobs : job[j] = "absent"
        /\ UNCHANGED <<objects, job, won>>
    BY <1>8 DEF NamespaceGone
  <2>2. Types' /\ Begun' /\ Founded' /\ Earned'
    BY <1>1, <2>1 DEF Types, Begun, Founded, Earned, Done
  <2>3. Kept'
    BY <1>1, <2>1 DEF Kept, Gone
  <2> QED BY <1>3, <2>2, <2>3
<1> QED BY <1>4, <1>5, <1>6, <1>7, <1>8 DEF Cluster

-----------------------------------------------------------------------------
(* The theorems *)

LEMMA InitKeeps == Init => RInv
<1> SUFFICES ASSUME Init PROVE RInv
  OBVIOUS
<1> USE DEF Init
<1>1. Len(Plan(cfg)) \in Nat
  BY PlanOrdered, LenProperties
<1>2. Types
  <2>1. live \in BOOLEAN
    BY Zenon
  <2> QED BY <1>1, <2>1 DEF Types
<1>3. Behind
  BY DEF Behind
<1> QED BY <1>2, <1>3 DEF RInv, Begun, Founded, Earned, Kept

LEMMA NextKeeps == RInv /\ [Next]_vars => RInv'
<1> SUFFICES ASSUME RInv, [Next]_vars PROVE RInv'
  OBVIOUS
<1>1. CASE UNCHANGED vars
  BY <1>1 DEF vars, RInv, Types, Behind, Begun, Founded, Earned, Kept, Gone, Done
<1>2. CASE Next
  BY <1>2, DeliveriesKeep, ApplyKeeps, CreateKeeps, ReadyKeeps, SucceededKeeps,
     FailedKeeps, ClusterKeeps DEF Next, Progress
<1> QED BY <1>1, <1>2

\* What an attempt has behind it, what Jobs stand on and what verdicts follow from,
\* in every reachable state of a namespace.
THEOREM AttemptsStand == Spec => []RInv
  BY InitKeeps, NextKeeps, PTL DEF Spec

\* No run passes whose three Jobs did not succeed, and no Job starts before what it
\* relies on, however attempts are cut short and repeated.
THEOREM PassesAreEarned == Spec => []PassedIsEarned
<1>1. RInv => PassedIsEarned
  <2> SUFFICES ASSUME RInv PROVE PassedIsEarned
    OBVIOUS
  <2>1. ASSUME NEW j \in Jobs, job[j] # "absent"
        PROVE  /\ {"postgres", "redis", "minio", "verifier"} \subseteq seen
               /\ j = "smoke" => "seeder" \in won
               /\ j = "integration" => {"seeder", "smoke"} \subseteq won
    <3>1. /\ Awaited \subseteq seen
          /\ \A y \in Needs(Call("create", j)) : Done(y)
      BY <2>1 DEF RInv, Founded
    <3>2. /\ j = "smoke" => Call("finish", "seeder") \in Needs(Call("create", j))
          /\ j = "integration" =>
                {Call("finish", "seeder"), Call("finish", "smoke")}
                    \subseteq Needs(Call("create", j))
      BY DEF Needs, Call
    <3> QED BY <3>1, <3>2 DEF Done, Call, Awaited
  <2>2. "smoke" \in Jobs /\ "integration" \in Jobs
    BY DEF Jobs
  <2> QED BY <2>1, <2>2 DEF PassedIsEarned, RInv, Earned
<1> QED BY <1>1, AttemptsStand, PTL

\* Without a TTL of Jobs, a run that failed in a namespace never passes in it.
THEOREM AttemptsAlwaysAgree == Spec => []AttemptsAgree
<1>1. RInv => AttemptsAgree
  BY DEF RInv, Earned, Kept, AttemptsAgree
<1> QED BY <1>1, AttemptsStand, PTL

\* A verdict other than an error comes from a working context and a namespace.
THEOREM VerdictsNeedNamespaces == Spec => VerdictNeedsNamespace
<1> DEFINE Judges == verdict' # verdict /\ verdict' \in {"passed", "failed"}
                         => live /\ ns # "none"
<1>1. RInv /\ [Next]_vars => [Judges]_vars
  <2> SUFFICES ASSUME RInv, Next, verdict' # verdict, verdict' \in {"passed", "failed"}
               PROVE  live /\ ns # "none"
    BY Zenon
  <2>1. CASE ApplyObject \/ CreateJob
    BY <2>1 DEF ApplyObject, CreateJob
  <2>2. CASE DeploymentReady
    BY <2>2 DEF DeploymentReady, RInv, Begun
  <2>3. CASE JobSucceeded \/ JobFailed
    <3>1. live /\ At("finish") /\ job[It] # "absent"
      BY <2>3 DEF JobSucceeded, JobFailed
    <3>2. It \in Jobs
      BY <3>1, AtStep DEF RInv
    <3> QED BY <3>1, <3>2 DEF RInv, Begun
  <2>4. ~(Begin \/ Deadline \/ CallFails \/ CancelContext \/ Abort \/ Cluster)
    BY DEF Begin, Deadline, CallFails, CancelContext, Abort, Return, Cluster, JobEnds,
           JobExpires, DeleteNamespace, ContentsGone, NamespaceGone
  <2> QED BY <2>1, <2>2, <2>3, <2>4 DEF Next, Progress
<1> QED BY <1>1, AttemptsStand, PTL DEF Spec, VerdictNeedsNamespace

-----------------------------------------------------------------------------
(* The order of creation *)

\* The order in which a plan creates things.
Rank(o) ==
    CASE o = "policy" -> 1 [] o = "ingress-policy" -> 2 [] o = "postgres" -> 3
      [] o = "postgres-service" -> 4 [] o = "redis" -> 5 [] o = "redis-service" -> 6
      [] o = "minio" -> 7 [] o = "minio-service" -> 8 [] o = "verifier-config" -> 9
      [] o = "worker-config" -> 10 [] o = "verifier" -> 11 [] o = "verifier-service" -> 12
      [] o = "verifier-worker" -> 13 [] o = "ingress" -> 14 [] o = "seeder" -> 15
      [] o = "smoke" -> 16 [] o = "integration" -> 17

Creates(x) == x.op \in {"apply", "create"}
Makes(s, o) == \E i \in 1..Len(s) : Creates(s[i]) /\ s[i].obj = o
Asked(c, o) == o \in Optional => c.ingress

\* s creates what it is asked for of the ranks above a and up to b, in that order.
Part(c, s, a, b) ==
    /\ s \in Seq(Steps) /\ a \in Nat /\ b \in Nat /\ a <= b
    /\ \A o : Makes(s, o) <=> o \in Parts /\ Asked(c, o) /\ a < Rank(o) /\ Rank(o) <= b
    /\ \A i, k \in 1..Len(s) : i < k /\ Creates(s[i]) /\ Creates(s[k])
                                  => Rank(s[i].obj) < Rank(s[k].obj)

\* The ranks, one by one.
LEMMA Ranks ==
    /\ Rank("policy") = 1 /\ Rank("ingress-policy") = 2 /\ Rank("postgres") = 3
    /\ Rank("postgres-service") = 4 /\ Rank("redis") = 5 /\ Rank("redis-service") = 6
    /\ Rank("minio") = 7 /\ Rank("minio-service") = 8 /\ Rank("verifier-config") = 9
    /\ Rank("worker-config") = 10 /\ Rank("verifier") = 11 /\ Rank("verifier-service") = 12
    /\ Rank("verifier-worker") = 13 /\ Rank("ingress") = 14 /\ Rank("seeder") = 15
    /\ Rank("smoke") = 16 /\ Rank("integration") = 17
  BY DEF Rank

\* Every object has a rank of its own.
LEMMA RankFacts ==
    /\ \A o \in Parts : Rank(o) \in 1..17
    /\ \A o, p \in Parts : Rank(o) = Rank(p) => o = p
  BY Ranks DEF Parts

\* Two parts of a plan, one after the other, make one of the ranks of both.
LEMMA PartsJoined ==
    ASSUME NEW c, NEW s, NEW t, NEW a, NEW m, NEW b, Part(c, s, a, m), Part(c, t, m, b)
    PROVE  Part(c, s \o t, a, b)
<1>1. /\ s \o t \in Seq(Steps) /\ Len(s) \in Nat /\ Len(t) \in Nat
      /\ Len(s \o t) = Len(s) + Len(t)
      /\ \A i \in 1..(Len(s) + Len(t)) :
            (s \o t)[i] = IF i <= Len(s) THEN s[i] ELSE t[i - Len(s)]
  BY ConcatProperties, LenProperties DEF Part
<1>2. /\ \A i \in 1..Len(s) : i \in 1..(Len(s) + Len(t)) /\ (s \o t)[i] = s[i]
      /\ \A i \in 1..Len(t) : /\ Len(s) + i \in 1..(Len(s) + Len(t))
                              /\ (s \o t)[Len(s) + i] = t[i]
      /\ \A i \in 1..(Len(s) + Len(t)) :
            i \in 1..Len(s) \/ (i > Len(s) /\ i - Len(s) \in 1..Len(t))
  BY <1>1
<1>3. \A o : Makes(s \o t, o) <=> Makes(s, o) \/ Makes(t, o)
  <2> DEFINE all == 1..(Len(s) + Len(t))
  <2>1. ASSUME NEW i \in all
        PROVE  \/ i \in 1..Len(s) /\ (s \o t)[i] = s[i]
               \/ i - Len(s) \in 1..Len(t) /\ (s \o t)[i] = t[i - Len(s)]
    <3>1. (i <= Len(s) /\ i \in 1..Len(s)) \/ (~(i <= Len(s)) /\ i - Len(s) \in 1..Len(t))
      BY ONLY Len(s) \in Nat, Len(t) \in Nat, i \in 1..(Len(s) + Len(t))
    <3>2. (s \o t)[i] = IF i <= Len(s) THEN s[i] ELSE t[i - Len(s)]
      BY <1>1, Zenon
    <3> QED BY <3>1, <3>2, Zenon
  <2>2. 1..Len(s \o t) = all
    BY <1>1
  <2> HIDE DEF all
  <2>3. /\ \A i \in 1..Len(s) : i \in all /\ (s \o t)[i] = s[i]
        /\ \A i \in 1..Len(t) : Len(s) + i \in all /\ (s \o t)[Len(s) + i] = t[i]
    BY <1>2, Zenon DEF all
  <2>4. ASSUME NEW o, Makes(s \o t, o) PROVE Makes(s, o) \/ Makes(t, o)
    <3>1. PICK i \in all : Creates((s \o t)[i]) /\ (s \o t)[i].obj = o
      BY <2>2, <2>4, Zenon DEF Makes
    <3> QED BY <2>1, <3>1, Zenon DEF Makes
  <2>5. ASSUME NEW o, Makes(s, o) \/ Makes(t, o) PROVE Makes(s \o t, o)
    <3>1. PICK i \in all : Creates((s \o t)[i]) /\ (s \o t)[i].obj = o
      BY <2>3, <2>5, Zenon DEF Makes
    <3> QED BY <2>2, <3>1, Zenon DEF Makes
  <2> QED BY <2>4, <2>5, Zenon
<1>4. a \in Nat /\ m \in Nat /\ b \in Nat /\ a <= m /\ m <= b
  BY Zenon DEF Part
<1>5. \A o \in Parts : Rank(o) \in Nat
  BY RankFacts
<1>6. \A o : Makes(s \o t, o) <=> o \in Parts /\ Asked(c, o) /\ a < Rank(o) /\ Rank(o) <= b
  <2>1. \A o \in Parts : a < Rank(o) /\ Rank(o) <= b
            <=> (a < Rank(o) /\ Rank(o) <= m) \/ (m < Rank(o) /\ Rank(o) <= b)
    BY <1>4, <1>5
  <2>2. /\ \A o : Makes(s, o) <=> o \in Parts /\ Asked(c, o) /\ a < Rank(o) /\ Rank(o) <= m
        /\ \A o : Makes(t, o) <=> o \in Parts /\ Asked(c, o) /\ m < Rank(o) /\ Rank(o) <= b
    BY Zenon DEF Part
  <2> QED BY <1>3, <2>1, <2>2, Zenon
<1>7. ASSUME NEW i \in 1..Len(s \o t), NEW k \in 1..Len(s \o t), i < k,
             Creates((s \o t)[i]), Creates((s \o t)[k])
      PROVE  Rank((s \o t)[i].obj) < Rank((s \o t)[k].obj)
  <2>1. CASE k <= Len(s)
    <3>1. i \in 1..Len(s) /\ k \in 1..Len(s)
      BY <1>1, <1>7, <2>1
    <3>2. (s \o t)[i] = s[i] /\ (s \o t)[k] = s[k]
      BY <1>2, <3>1
    <3> QED BY <1>7, <3>1, <3>2 DEF Part
  <2>2. CASE i > Len(s)
    <3> DEFINE x == i - Len(s)
               y == k - Len(s)
    <3>1. x \in 1..Len(t) /\ y \in 1..Len(t) /\ x < y
      BY <1>1, <1>7, <2>2
    <3>2. (s \o t)[i] = t[x] /\ (s \o t)[k] = t[y]
      BY <1>1, <1>7, <2>2
    <3> HIDE DEF x, y
    <3> QED BY <1>7, <3>1, <3>2 DEF Part
  <2>3. CASE i <= Len(s) /\ k > Len(s)
    <3>1. i \in 1..Len(s) /\ (s \o t)[i] = s[i]
      BY <1>1, <1>2, <1>7, <2>3
    <3>2. k - Len(s) \in 1..Len(t) /\ (s \o t)[k] = t[k - Len(s)]
      BY <1>1, <1>7, <2>3
    <3>3. Makes(s, s[i].obj) /\ Makes(t, t[k - Len(s)].obj)
      BY <1>7, <3>1, <3>2 DEF Makes
    <3>4. /\ s[i].obj \in Parts /\ Rank(s[i].obj) <= m
          /\ t[k - Len(s)].obj \in Parts /\ m < Rank(t[k - Len(s)].obj)
      BY <3>3 DEF Part
    <3>5. Rank(s[i].obj) \in Nat /\ Rank(t[k - Len(s)].obj) \in Nat
      BY <1>5, <3>4, Zenon
    <3>6. Rank(s[i].obj) < Rank(t[k - Len(s)].obj)
      BY ONLY <1>4, <3>4, <3>5
    <3> QED BY <3>1, <3>2, <3>6, Zenon
  <2> QED BY <1>1, <1>7, <2>1, <2>2, <2>3
<1>8. a <= b
  BY <1>4
<1> QED BY <1>1, <1>4, <1>6, <1>7, <1>8, Zenon DEF Part

\* Creating one object, with or without waiting for it to end.
LEMMA OnePart ==
    ASSUME NEW c, NEW x \in Parts, Asked(c, x), NEW a, NEW b, a = Rank(x) - 1, b = Rank(x)
    PROVE  /\ Part(c, Apply(x), a, b)
           /\ x \in Jobs => Part(c, RunJob(x), a, b)
<1>1. /\ b \in 1..17 /\ a \in Nat /\ a < b
      /\ \A o \in Parts : a < Rank(o) /\ Rank(o) <= b <=> o = x
  BY RankFacts
<1>2. ASSUME NEW s \in Seq(Steps), Len(s) > 0, Creates(s[1]), s[1].obj = x,
             \A i \in 1..Len(s) : i # 1 => ~Creates(s[i])
      PROVE  Part(c, s, a, b)
  <2>1. Len(s) \in Nat
    BY LenProperties
  <2>2. \A o : Makes(s, o) <=> o = x
    BY <1>2, <2>1 DEF Makes
  <2> QED BY <1>1, <1>2, <2>1, <2>2 DEF Part
<1>3. /\ Apply(x) \in Seq(Steps) /\ Len(Apply(x)) = 1
      /\ Creates(Apply(x)[1]) /\ Apply(x)[1].obj = x
  BY Singles DEF Apply, Creates
<1>4. ASSUME x \in Jobs PROVE Part(c, RunJob(x), a, b)
  <2>1. /\ RunJob(x) \in Seq(Steps) /\ Len(RunJob(x)) = 2
        /\ RunJob(x)[1] = Call("create", x) /\ RunJob(x)[2] = Call("finish", x)
    BY <1>4, JobSteps
  <2>2. /\ Creates(RunJob(x)[1]) /\ RunJob(x)[1].obj = x
        /\ ~Creates(RunJob(x)[2])
    BY <2>1 DEF Creates, Call
  <2>3. \A i \in 1..Len(RunJob(x)) : i # 1 => ~Creates(RunJob(x)[i])
    BY <2>1, <2>2
  <2> QED BY <1>2, <2>1, <2>2, <2>3
<1>5. \A i \in 1..Len(Apply(x)) : i # 1 => ~Creates(Apply(x)[i])
  BY <1>3
<1> QED BY <1>2, <1>3, <1>4, <1>5

\* Steps that create nothing, where nothing is asked for.
LEMMA NoPart ==
    ASSUME NEW c, NEW s \in Seq(Steps), NEW a \in Nat, NEW b \in Nat, a <= b,
           \A i \in 1..Len(s) : ~Creates(s[i]),
           \A o \in Parts : Asked(c, o) /\ a < Rank(o) => b < Rank(o)
    PROVE  Part(c, s, a, b)
<1>1. \A o : ~Makes(s, o)
  BY DEF Makes
<1>2. \A o \in Parts : Asked(c, o) /\ a < Rank(o) => ~(Rank(o) <= b)
  <2>1. \A o \in Parts : Rank(o) \in Nat
    BY RankFacts
  <2>2. \A o \in Parts : b < Rank(o) => ~(Rank(o) <= b)
    BY <2>1
  <2> QED BY <2>2, Zenon
<1> QED BY <1>1, <1>2, Zenon DEF Part

\* The plan of a configuration creates what that asks for, in the order of the ranks
\* (Run).
LEMMA PlanInOrder ==
    ASSUME NEW c \in Configs
    PROVE  Part(c, Plan(c), 0, IF c.plugin THEN 17 ELSE 16)
<1>1. \A s, t, a, m, b : Part(c, s, a, m) /\ Part(c, t, m, b) => Part(c, s \o t, a, b)
  BY PartsJoined
<1>2. ASSUME NEW x \in Parts \ Optional
      PROVE  /\ \A a, b : a = Rank(x) - 1 /\ b = Rank(x) => Part(c, Apply(x), a, b)
             /\ x \in Jobs => \A a, b : a = Rank(x) - 1 /\ b = Rank(x) => Part(c, RunJob(x), a, b)
  BY <1>2, OnePart DEF Asked
<1>3. ASSUME NEW x \in Optional, NEW a, NEW b, a = Rank(x) - 1, b = Rank(x)
      PROVE  Part(c, IF c.ingress THEN Apply(x) ELSE <<>>, a, b)
  <2>1. x \in Parts /\ b \in 1..17 /\ a \in Nat /\ a < b
    BY <1>3, RankFacts DEF Optional, Parts
  <2>2. CASE c.ingress
    BY <1>3, <2>1, <2>2, OnePart DEF Asked
  <2>3. CASE ~c.ingress
    <3>1. \A o \in Parts : Asked(c, o) /\ a < Rank(o) => b < Rank(o)
      BY <1>3, <2>1, <2>3, RankFacts DEF Asked
    <3>2. <<>> \in Seq(Steps) /\ \A i \in 1..Len(<<>>) : ~Creates(<<>>[i])
      BY EmptySeq
    <3>3. a \in Nat /\ b \in Nat /\ a <= b
      BY <2>1
    <3> QED BY <2>3, <3>1, <3>2, <3>3, NoPart
  <2> QED BY <2>2, <2>3
<1>4. ASSUME NEW x \in Parts, NEW a \in 0..17 PROVE Part(c, Await(x), a, a)
  <2>1. Await(x) \in Seq(Steps) /\ \A i \in 1..Len(Await(x)) : ~Creates(Await(x)[i])
    BY Singles DEF Await, Creates
  <2>2. a \in Nat /\ a <= a /\ \A o \in Parts : a < Rank(o) => a < Rank(o)
    OBVIOUS
  <2> QED BY <2>1, <2>2, NoPart
<1> HIDE DEF Part
<1>5. /\ Part(c, Apply("policy"), 0, 1)
      /\ Part(c, Apply("postgres"), 2, 3) /\ Part(c, Apply("postgres-service"), 3, 4)
      /\ Part(c, Apply("redis"), 4, 5) /\ Part(c, Apply("redis-service"), 5, 6)
      /\ Part(c, Apply("minio"), 6, 7) /\ Part(c, Apply("minio-service"), 7, 8)
      /\ Part(c, Apply("verifier-config"), 8, 9) /\ Part(c, Apply("worker-config"), 9, 10)
      /\ Part(c, Apply("verifier"), 10, 11) /\ Part(c, Apply("verifier-service"), 11, 12)
      /\ Part(c, Apply("verifier-worker"), 12, 13)
  BY <1>2, Ranks DEF Parts, Optional
<1>6. /\ Part(c, RunJob("seeder"), 14, 15) /\ Part(c, RunJob("smoke"), 15, 16)
      /\ Part(c, RunJob("integration"), 16, 17)
  BY <1>2, Ranks DEF Parts, Optional, Jobs
<1>7. /\ Part(c, IF c.ingress THEN Apply("ingress-policy") ELSE <<>>, 1, 2)
      /\ Part(c, IF c.ingress THEN DeployIngress ELSE <<>>, 13, 14)
  BY <1>3, Ranks DEF Optional, DeployIngress
<1>8. Part(c, DeployNetworkPolicy(c), 0, 2)
  BY <1>1, <1>5, <1>7 DEF DeployNetworkPolicy
<1>9. Part(c, DeployInfra, 2, 8)
  <2>1. Part(c, Apply("postgres") \o Apply("postgres-service"), 2, 4)
    BY <1>1, <1>5
  <2>2. Part(c, Apply("postgres") \o Apply("postgres-service") \o Apply("redis"), 2, 5)
    BY <1>1, <1>5, <2>1
  <2>3. Part(c, Apply("postgres") \o Apply("postgres-service") \o Apply("redis")
                \o Apply("redis-service"), 2, 6)
    BY <1>1, <1>5, <2>2
  <2>4. Part(c, Apply("postgres") \o Apply("postgres-service") \o Apply("redis")
                \o Apply("redis-service") \o Apply("minio"), 2, 7)
    BY <1>1, <1>5, <2>3
  <2> QED BY <1>1, <1>5, <2>4 DEF DeployInfra
<1>10. Part(c, WaitForInfra, 8, 8) /\ Part(c, WaitForVerifier, 14, 14)
  <2>1. \A x \in {"postgres", "redis", "minio"} : Part(c, Await(x), 8, 8)
    BY <1>4 DEF Parts
  <2>2. Part(c, Await("verifier"), 14, 14)
    BY <1>4 DEF Parts
  <2> QED BY <1>1, <2>1, <2>2 DEF WaitForInfra, WaitForVerifier
<1>11. Part(c, DeployConfigMaps, 8, 10)
  BY <1>1, <1>5 DEF DeployConfigMaps
<1>12. Part(c, DeployVerifier, 10, 13)
  <2>1. Part(c, Apply("verifier") \o Apply("verifier-service"), 10, 12)
    BY <1>1, <1>5
  <2> QED BY <1>1, <1>5, <2>1 DEF DeployVerifier
<1> DEFINE A == DeployNetworkPolicy(c) \o DeployInfra
           B == A \o WaitForInfra
           C == B \o DeployConfigMaps
           D == C \o DeployVerifier
           F == D \o (IF c.ingress THEN DeployIngress ELSE <<>>)
           P == F \o WaitForVerifier
           Q == P \o RunJob("seeder")
           R == Q \o RunJob("smoke")
<1>13. Part(c, A, 0, 8)
  BY <1>1, <1>8, <1>9
<1>14. Part(c, B, 0, 8)
  BY <1>1, <1>10, <1>13
<1>15. Part(c, C, 0, 10)
  BY <1>1, <1>11, <1>14
<1>16. Part(c, D, 0, 13)
  BY <1>1, <1>12, <1>15
<1>17. Part(c, F, 0, 14)
  BY <1>1, <1>7, <1>16
<1>18. Part(c, P, 0, 14)
  BY <1>1, <1>10, <1>17
<1>19. Part(c, Q, 0, 15)
  BY <1>1, <1>6, <1>18
<1>20. Part(c, R, 0, 16)
  BY <1>1, <1>6, <1>19
<1>21. Plan(c) = R \o (IF c.plugin THEN RunJob("integration") ELSE <<>>)
  BY DEF Plan
<1> HIDE DEF R
<1>22. CASE c.plugin
  BY <1>1, <1>6, <1>20, <1>21, <1>22
<1>23. CASE ~c.plugin
  <2>1. R \in Seq(Steps)
    BY <1>20 DEF Part
  <2>2. Plan(c) = R
    BY <1>21, <1>23, <2>1, ConcatEmptySeq
  <2> QED BY <1>20, <1>23, <2>2
<1> QED BY <1>22, <1>23

\* What is there when o is created: all of a lower rank but the parts of an ingress,
\* one of which needs the other.
Base(o) == {x \in Parts : /\ Rank(x) < Rank(o)
                          /\ x \in Optional => x = "ingress-policy" /\ o = "ingress"}

\* A plan creates it before.
LEMMA BaseBefore ==
    ASSUME NEW c \in Configs, NEW i \in DOMAIN Plan(c), Creates(Plan(c)[i]),
           NEW o \in Base(Plan(c)[i].obj)
    PROVE  \E k \in 1..(i - 1) : Creates(Plan(c)[k]) /\ Plan(c)[k].obj = o
<1> DEFINE s == Plan(c)
           p == s[i].obj
           b == IF c.plugin THEN 17 ELSE 16
<1>1. Part(c, s, 0, b)
  BY PlanInOrder
<1>2. s \in Seq(Steps) /\ DOMAIN s = 1..Len(s) /\ Len(s) \in Nat
  BY <1>1, LenProperties DEF Part
<1>3. Makes(s, p)
  BY <1>2 DEF Makes
<1>4. p \in Parts /\ Asked(c, p) /\ Rank(p) <= b
  BY <1>1, <1>3, Zenon DEF Part
<1>5. o \in Parts /\ Rank(o) < Rank(p)
  BY DEF Base
<1>6. Asked(c, o)
  BY <1>4 DEF Base, Asked, Optional
<1>7. /\ Rank(o) \in 1..17 /\ Rank(p) \in 1..17 /\ b \in Nat
  BY <1>4, <1>5, RankFacts
<1> HIDE DEF p, b
<1>8. 0 < Rank(o) /\ Rank(o) <= b
  BY <1>4, <1>5, <1>7
<1>9. Makes(s, o)
  BY <1>1, <1>5, <1>6, <1>8, Zenon DEF Part
<1>10. PICK k \in 1..Len(s) : Creates(s[k]) /\ s[k].obj = o
  BY <1>9 DEF Makes
<1>11. k # i
  BY <1>5, <1>7, <1>10 DEF p
<1>12. ~(i < k)
  <2>1. i < k => Rank(p) < Rank(o)
    BY <1>1, <1>2, <1>10, Zenon DEF Part, p
  <2>2. \A x, y \in 1..17 : x < y => ~(y < x)
    OBVIOUS
  <2> QED BY <2>1, <2>2, <1>5, <1>7, Zenon
<1>13. k \in 1..(i - 1)
  BY <1>2, <1>10, <1>11, <1>12
<1> QED BY <1>10, <1>13

\* It is what the property says an object is built upon.
LEMMA FoundationIsBase ==
    ASSUME NEW p \in Parts \ Optional
    PROVE  Foundation[p] \subseteq Base(p)
<1> DEFINE s == FullPlan
           c == [plugin |-> TRUE, ingress |-> TRUE, ttl |-> TRUE]
<1>1. Part(c, s, 0, 17) /\ c \in Configs
  <2>1. c \in Configs /\ c.plugin = TRUE
    BY DEF Configs
  <2>2. s = Plan(c)
    BY DEF FullPlan
  <2> HIDE DEF c, s
  <2>3. (IF c.plugin THEN 17 ELSE 16) = 17
    BY <2>1
  <2>4. Part(c, Plan(c), 0, IF c.plugin THEN 17 ELSE 16)
    BY <2>1, PlanInOrder
  <2> QED BY <2>1, <2>2, <2>3, <2>4, Zenon
<1>2. s \in Seq(Steps) /\ DOMAIN s = 1..Len(s) /\ Len(s) \in Nat
  BY <1>1, LenProperties DEF Part
<1>3. Created = {i \in DOMAIN s : Creates(s[i])}
  BY DEF Created, Creates
<1> HIDE DEF s, c
<1> SUFFICES ASSUME NEW o \in Foundation[p] PROVE o \in Base(p)
  OBVIOUS
<1>4. p \in DOMAIN Foundation
  <2>1. Makes(s, p)
    <3>1. Rank(p) \in 1..17 /\ Asked(c, p)
      BY RankFacts DEF Asked
    <3>2. \A x \in 1..17 : 0 < x /\ x <= 17
      OBVIOUS
    <3> QED BY <1>1, <3>1, <3>2, Zenon DEF Part
  <2>2. \E i \in Created : s[i].obj = p
    BY <1>2, <1>3, <2>1 DEF Makes
  <2> QED BY <2>2 DEF Foundation, s
<1>5. /\ o \notin Optional
      /\ \E m \in Created : s[m].obj = o /\ \E k \in Created : s[k].obj = p /\ m < k
  BY <1>4 DEF Foundation, s
<1>6. PICK m \in Created, k \in Created : s[m].obj = o /\ s[k].obj = p /\ m < k
  BY <1>5
<1>7. Rank(o) < Rank(p)
  BY <1>1, <1>2, <1>3, <1>6, Zenon DEF Part
<1>8. o \in Parts
  <2>1. Makes(s, o)
    BY <1>2, <1>3, <1>6 DEF Makes
  <2> QED BY <1>1, <2>1, Zenon DEF Part
<1> QED BY <1>5, <1>7, <1>8 DEF Base

-----------------------------------------------------------------------------
(* The invariant *)

Removable(o) == o \in Jobs /\ cfg.ttl

EnvironmentTypes ==
    /\ cfg \in Configs /\ ns \in {"none", "alive", "terminating"}
    /\ objects \subseteq Parts
    /\ job \in [Jobs -> {"absent", "running", "succeeded", "failed"}]
    /\ pc \in 0..Len(Plan(cfg)) /\ attempts \in Nat
    /\ current \in Settings /\ cfg = ConfigOf(current, cfg.ttl)
    /\ settings \in Seq(Settings) /\ Len(settings) = attempts
    /\ pc # 0 => attempts > 0 /\ current = settings[attempts]
    /\ DOMAIN made = Existing /\ \A o \in Existing : made[o] \in 1..attempts
    /\ ns = "none" => Existing = {}

\* What an attempt has created is there, in the order of its plan; and what is there
\* stands on what was there before.
Laid == ns = "alive" /\ pc # 0 =>
    \A i \in 1..(pc - 1) : Creates(Plan(cfg)[i]) =>
        Plan(cfg)[i].obj \in Existing \/ Removable(Plan(cfg)[i].obj)
StandsOn(p, o) == \/ o \in Existing /\ (p \notin Optional => made[o] <= made[p])
                  \/ Removable(o)
Built == ns = "alive" => \A p \in Existing : \A o \in Base(p) : StandsOn(p, o)

\* The verifier is opened only by an attempt that was asked for an ingress.
Opened == ns = "alive" /\ "ingress-policy" \in objects =>
    settings[made["ingress-policy"]].ingress

EInv == EnvironmentTypes /\ Laid /\ Built /\ Opened

-----------------------------------------------------------------------------
(* What steps keep *)

\* What is there are parts; all but Jobs are objects.
LEMMA ExistingParts ==
    ASSUME EnvironmentTypes
    PROVE  /\ Existing \subseteq Parts /\ objects \subseteq Existing
           /\ \A o \in Existing \ Jobs : o \in objects
  BY DEF EnvironmentTypes, Existing, Jobs, Parts

\* A step keeps who made what is there.
LEMMA MadeOnce ==
    ASSUME EnvironmentTypes, Step
    PROVE  /\ DOMAIN made' = Existing'
           /\ \A o \in Existing' : made'[o] = IF o \in Existing THEN made[o] ELSE attempts
           /\ current' = current
           /\ attempts' = attempts => settings' = settings
           /\ attempts' > attempts => settings' = Append(settings, current)
<1>1. attempts' = attempts => ~(attempts' > attempts)
  BY DEF EnvironmentTypes
<1> QED BY <1>1 DEF Step, MadeBy, EnvironmentTypes

\* Steps that create nothing.
LEMMA NothingNew ==
    ASSUME EInv, Step, UNCHANGED <<cfg, attempts>>,
           Existing' \subseteq Existing, objects' \subseteq objects,
           job' \in [Jobs -> {"absent", "running", "succeeded", "failed"}],
           ns' \in {"none", "alive", "terminating"}, ns' = "none" => Existing' = {},
           ns' = "alive" => ns = "alive" /\ \A o \in Existing \ Existing' : Removable(o),
           pc' \in {0, pc} \/ /\ pc \in DOMAIN Plan(cfg) /\ ~Creates(Plan(cfg)[pc])
                              /\ pc' \in {0, pc + 1} /\ pc' <= Len(Plan(cfg))
    PROVE  EInv'
<1> USE DEF EInv
<1>1. /\ DOMAIN made' = Existing' /\ \A o \in Existing' : made'[o] = made[o]
      /\ current' = current /\ settings' = settings
  BY MadeOnce
<1>2. Plan(cfg) \in Seq(Steps) /\ Len(Plan(cfg)) \in Nat /\ DOMAIN Plan(cfg) = 1..Len(Plan(cfg))
  BY PlanOrdered, LenProperties DEF EnvironmentTypes
<1>3. pc' \in 0..Len(Plan(cfg)) /\ (pc' # 0 => pc # 0)
  BY <1>2 DEF EnvironmentTypes
<1>4. EnvironmentTypes'
  BY <1>1, <1>3 DEF EnvironmentTypes
<1>5. Laid'
  <2> SUFFICES ASSUME ns' = "alive", pc' # 0, NEW i \in 1..(pc' - 1), Creates(Plan(cfg)[i])
               PROVE  Plan(cfg)[i].obj \in Existing' \/ Removable(Plan(cfg)[i].obj)
    BY Zenon DEF Laid, Removable
  <2>1. pc \in Nat /\ pc' \in Nat /\ pc' \in {pc, pc + 1} /\ (pc' = pc + 1 => ~Creates(Plan(cfg)[pc]))
    BY <1>2, <1>3 DEF EnvironmentTypes
  <2>2. i \in 1..(pc - 1) \/ (pc' = pc + 1 /\ i = pc)
    <3>1. i \in 1..(pc' - 1)
      OBVIOUS
    <3>2. pc \in Nat /\ (pc' = pc \/ pc' = pc + 1)
      BY <2>1
    <3> QED BY ONLY <3>1, <3>2
  <2> QED BY <1>3, <2>1, <2>2 DEF Laid
<1>6. Built'
  BY <1>1 DEF Built, StandsOn, Removable
<1>7. Opened'
  <2>1. "ingress-policy" \in objects' => "ingress-policy" \in Existing'
    BY <1>4, ExistingParts DEF Existing
  <2> QED BY <1>1, <2>1 DEF Opened
<1> QED BY <1>4, <1>5, <1>6, <1>7

\* Creating what the plan has next.
LEMMA NextPart ==
    ASSUME EInv, Step, UNCHANGED <<cfg, attempts>>, ns = "alive", ns' = "alive",
           pc \in DOMAIN Plan(cfg), Creates(Plan(cfg)[pc]), It \in Parts,
           Existing' = Existing \cup {It}, objects' \subseteq objects \cup {It},
           job' \in [Jobs -> {"absent", "running", "succeeded", "failed"}],
           pc' = 0 \/ (pc' = pc + 1 /\ pc # Len(Plan(cfg)))
    PROVE  EInv'
<1> USE DEF EInv
<1>1. /\ DOMAIN made' = Existing' /\ \A o \in Existing : made'[o] = made[o]
      /\ It \notin Existing => made'[It] = attempts
      /\ current' = current /\ settings' = settings
  BY MadeOnce
<1>2. Plan(cfg) \in Seq(Steps) /\ Len(Plan(cfg)) \in Nat /\ DOMAIN Plan(cfg) = 1..Len(Plan(cfg))
  BY PlanOrdered, LenProperties DEF EnvironmentTypes
<1>3. pc' \in 0..Len(Plan(cfg)) /\ pc \in 1..Len(Plan(cfg)) /\ pc # 0
  <2>1. pc \in 1..Len(Plan(cfg)) /\ (pc' = 0 \/ (pc' = pc + 1 /\ pc # Len(Plan(cfg))))
    BY <1>2, Zenon
  <2>2. \A n \in Nat : \A i \in 1..n : i # 0 /\ 0 \in 0..n /\ (i # n => i + 1 \in 0..n)
    OBVIOUS
  <2> QED BY <1>2, <2>1, <2>2, Zenon
<1>4. attempts > 0 /\ attempts \in 1..attempts /\ current = settings[attempts]
  BY <1>3 DEF EnvironmentTypes
<1>5. EnvironmentTypes'
  <2>1. \A o \in Existing' : made'[o] \in 1..attempts
    BY <1>1, <1>4 DEF EnvironmentTypes
  <2>2. objects' \subseteq Parts
    BY DEF EnvironmentTypes
  <2> QED BY <1>1, <1>3, <1>4, <2>1, <2>2 DEF EnvironmentTypes
<1>6. Laid'
  <2> SUFFICES ASSUME pc' # 0, NEW i \in 1..(pc' - 1), Creates(Plan(cfg)[i])
               PROVE  Plan(cfg)[i].obj \in Existing' \/ Removable(Plan(cfg)[i].obj)
    BY Zenon DEF Laid, Removable
  <2>1. pc' = pc + 1
    OBVIOUS
  <2>2. i = pc \/ i \in 1..(pc - 1)
    BY ONLY <1>2, <1>3, <2>1, i \in 1..(pc' - 1)
  <2> QED BY <1>3, <2>2 DEF Laid, It
<1>7. ASSUME NEW o \in Base(It) PROVE o \in Existing \/ Removable(o)
  <2>1. cfg \in Configs /\ It = Plan(cfg)[pc].obj
    BY DEF It, EnvironmentTypes
  <2>2. PICK k \in 1..(pc - 1) : Creates(Plan(cfg)[k]) /\ Plan(cfg)[k].obj = o
    BY <1>7, <2>1, BaseBefore
  <2> QED BY <1>3, <2>2 DEF Laid
<1>8. Built'
  <2> SUFFICES ASSUME NEW p \in Existing', NEW o \in Base(p), ~Removable(o)
               PROVE  o \in Existing' /\ (p \notin Optional => made'[o] <= made'[p])
    BY DEF Built, StandsOn, Removable
  <2>1. CASE p \in Existing
    BY <1>1, <2>1 DEF Built, StandsOn
  <2>2. CASE p = It /\ p \notin Existing
    <3>1. o \in Existing
      BY <1>7, <2>2
    <3>2. made[o] \in 1..attempts
      BY <3>1 DEF EnvironmentTypes
    <3> QED BY <1>1, <1>4, <2>2, <3>1, <3>2
  <2> QED BY <2>1, <2>2
<1>9. Opened'
  <2> SUFFICES ASSUME "ingress-policy" \in objects'
               PROVE  settings[made'["ingress-policy"]].ingress
    BY <1>1 DEF Opened
  <2>1. CASE "ingress-policy" \in Existing
    <3>1. "ingress-policy" \in objects
      BY <2>1, ExistingParts DEF Jobs
    <3> QED BY <1>1, <2>1, <3>1 DEF Opened
  <2>2. CASE "ingress-policy" \notin Existing
    <3>1. It = "ingress-policy" /\ made'["ingress-policy"] = attempts
      BY <1>1, <2>2, ExistingParts
    <3>2. Asked(cfg, It)
      <4>1. Part(cfg, Plan(cfg), 0, IF cfg.plugin THEN 17 ELSE 16)
        BY PlanInOrder DEF EnvironmentTypes
      <4>2. Makes(Plan(cfg), It)
        BY <1>3 DEF Makes, It
      <4> QED BY <4>1, <4>2, Zenon DEF Part
    <3>3. cfg.ingress
      BY <3>1, <3>2 DEF Asked, Optional
    <3>4. cfg.ingress = current.ingress
      BY DEF EnvironmentTypes, ConfigOf
    <3> QED BY <1>4, <3>1, <3>3, <3>4
  <2> QED BY <2>1, <2>2
<1> QED BY <1>5, <1>6, <1>8, <1>9

\* A plan is not empty.
LEMMA PlanTypes ==
    ASSUME EnvironmentTypes
    PROVE  /\ Plan(cfg) \in Seq(Steps) /\ Len(Plan(cfg)) \in Nat /\ Len(Plan(cfg)) # 0
           /\ DOMAIN Plan(cfg) = 1..Len(Plan(cfg))
<1>1. /\ Plan(cfg) \in Seq(Steps) /\ Has(Plan(cfg), Call("finish", "seeder"))
  BY PlanOrdered DEF EnvironmentTypes
<1> QED BY <1>1, LenProperties DEF Has

\* Where an attempt is, and where it goes from there.
LEMMA Course ==
    ASSUME EnvironmentTypes, NEW o \in {"apply", "await", "create", "finish"}, At(o)
    PROVE  /\ pc \in DOMAIN Plan(cfg) /\ It \in Parts
           /\ o \in {"create", "finish"} => It \in Jobs
           /\ Creates(Plan(cfg)[pc]) <=> o \in {"apply", "create"}
           /\ Advance => pc' = 0 \/ (pc' = pc + 1 /\ pc # Len(Plan(cfg)) /\ pc' <= Len(Plan(cfg)))
<1>1. pc \in 1..Len(Plan(cfg)) /\ Plan(cfg)[pc] \in Steps /\ Plan(cfg)[pc].op = o
  BY PlanTypes, ElementOfSeq DEF At
<1>2. It \in Parts /\ (o \in {"create", "finish"} => It \in Jobs)
  BY <1>1 DEF Steps, It, Parts, Jobs
<1>3. Advance => pc' = 0 \/ (pc' = pc + 1 /\ pc # Len(Plan(cfg)))
  BY DEF Advance, Return
<1>4. Len(Plan(cfg)) \in Nat
  BY PlanTypes
<1>5. Advance => pc' = 0 \/ (pc' = pc + 1 /\ pc # Len(Plan(cfg)) /\ pc' <= Len(Plan(cfg)))
  BY <1>1, <1>3, <1>4
<1> QED BY <1>1, <1>2, <1>5 DEF Creates, At

\* Objects and Jobs are created where the plan has them, and only in a namespace.
LEMMA CreationsKeep == ASSUME EInv, Step, ApplyObject \/ CreateJob PROVE EInv'
<1>1. EnvironmentTypes
  BY DEF EInv
<1>2. CASE ApplyObject
  <2>1. /\ At("apply") /\ ns = "alive" /\ Advance /\ objects' = objects \cup {It}
        /\ UNCHANGED <<cfg, ns, job, attempts>>
    BY <1>2 DEF ApplyObject
  <2>2. /\ pc \in DOMAIN Plan(cfg) /\ It \in Parts /\ Creates(Plan(cfg)[pc])
        /\ pc' = 0 \/ (pc' = pc + 1 /\ pc # Len(Plan(cfg)))
    BY <1>1, <2>1, Course
  <2>3. Existing' = Existing \cup {It}
    BY <2>1 DEF Existing
  <2>4. job' \in [Jobs -> {"absent", "running", "succeeded", "failed"}]
    BY <1>1, <2>1 DEF EnvironmentTypes
  <2> QED BY <2>1, <2>2, <2>3, <2>4, NextPart
<1>3. CASE CreateJob
  <2>1. /\ At("create") /\ ns = "alive" /\ Advance
        /\ job' = [job EXCEPT ![It] = IF @ = "absent" THEN "running" ELSE @]
        /\ UNCHANGED <<cfg, ns, objects, attempts>>
    BY <1>3 DEF CreateJob
  <2>2. /\ pc \in DOMAIN Plan(cfg) /\ It \in Parts /\ It \in Jobs /\ Creates(Plan(cfg)[pc])
        /\ pc' = 0 \/ (pc' = pc + 1 /\ pc # Len(Plan(cfg)))
    BY <1>1, <2>1, Course
  <2>3. /\ job' \in [Jobs -> {"absent", "running", "succeeded", "failed"}]
        /\ \A j \in Jobs \ {It} : job'[j] = job[j]
        /\ job'[It] # "absent"
    BY <1>1, <2>1, <2>2 DEF EnvironmentTypes
  <2>4. Existing' = Existing \cup {It}
    BY <2>1, <2>2, <2>3 DEF Existing
  <2> QED BY <2>1, <2>2, <2>3, <2>4, NextPart
<1> QED BY <1>2, <1>3

\* Waiting, returning and dying create nothing.
LEMMA WaitsKeep ==
    ASSUME EInv, Step,
           \/ DeploymentReady \/ JobSucceeded \/ JobFailed \/ Deadline \/ CallFails
           \/ CancelContext \/ Abort
    PROVE  EInv'
<1>1. EnvironmentTypes
  BY DEF EInv
<1>2. UNCHANGED <<cfg, ns, objects, job, attempts>> /\ Existing' = Existing
  BY DEF DeploymentReady, JobSucceeded, JobFailed, Deadline, CallFails, CancelContext, Abort,
         Existing
<1>3. pc' \in {0, pc} \/ /\ pc \in DOMAIN Plan(cfg) /\ ~Creates(Plan(cfg)[pc])
                         /\ pc' \in {0, pc + 1} /\ pc' <= Len(Plan(cfg))
  <2>1. CASE DeploymentReady \/ JobSucceeded
    <3>1. PICK o \in {"await", "finish"} : At(o) /\ Advance
      BY <2>1 DEF DeploymentReady, JobSucceeded
    <3> QED BY <1>1, <3>1, Course
  <2>2. CASE JobFailed \/ Deadline \/ CallFails \/ CancelContext \/ Abort
    BY <2>2 DEF JobFailed, Deadline, CallFails, CancelContext, Abort, Return
  <2> QED BY <2>1, <2>2
<1>4. /\ job' \in [Jobs -> {"absent", "running", "succeeded", "failed"}]
      /\ ns' \in {"none", "alive", "terminating"} /\ (ns' = "none" => Existing' = {})
      /\ ns' = "alive" => ns = "alive" /\ \A o \in Existing \ Existing' : Removable(o)
  BY <1>1, <1>2 DEF EnvironmentTypes
<1> QED BY <1>2, <1>3, <1>4, NothingNew

\* The cluster ends Jobs, removes them when they have a time to live, and takes a
\* namespace away as a whole.
LEMMA ClusterSteps == ASSUME EInv, Step, Cluster PROVE EInv'
<1>1. EnvironmentTypes
  BY DEF EInv
<1>2. UNCHANGED <<cfg, attempts, pc>>
  BY DEF Cluster, JobEnds, JobExpires, DeleteNamespace, ContentsGone, NamespaceGone
<1>3. ASSUME NEW j \in Jobs, JobEnds(j) \/ JobExpires(j) PROVE EInv'
  <2>1. /\ UNCHANGED <<ns, objects>> /\ job[j] # "absent"
        /\ \E v \in {"failed", "succeeded", "absent"} :
              job' = [job EXCEPT ![j] = v] /\ (v = "absent" => cfg.ttl)
    BY <1>3 DEF JobEnds, JobExpires
  <2>2. /\ job' \in [Jobs -> {"absent", "running", "succeeded", "failed"}]
        /\ \A k \in Jobs \ {j} : job'[k] = job[k]
        /\ job'[j] = "absent" => cfg.ttl
    BY <1>1, <2>1 DEF EnvironmentTypes
  <2>3. /\ Existing' \subseteq Existing /\ \A o \in Existing \ Existing' : Removable(o)
    BY <2>1, <2>2 DEF Existing, Removable
  <2> QED BY <1>1, <1>2, <2>1, <2>2, <2>3, NothingNew DEF EnvironmentTypes
<1>4. CASE DeleteNamespace
  <2>1. ns' = "terminating" /\ UNCHANGED <<objects, job>> /\ Existing' = Existing
    BY <1>4 DEF DeleteNamespace, Existing
  <2> QED BY <1>1, <1>2, <2>1, NothingNew DEF EnvironmentTypes
<1>5. CASE ContentsGone
  <2>1. /\ ns = "terminating" /\ ns' = ns /\ objects' = {} /\ Existing' = {}
        /\ job' \in [Jobs -> {"absent", "running", "succeeded", "failed"}]
    BY <1>5 DEF ContentsGone, Existing
  <2> QED BY <1>1, <1>2, <2>1, NothingNew DEF EnvironmentTypes
<1>6. CASE NamespaceGone
  <2>1. ns' = "none" /\ UNCHANGED <<objects, job>> /\ Existing' = Existing /\ Existing = {}
    BY <1>6 DEF NamespaceGone, Existing
  <2> QED BY <1>1, <1>2, <2>1, NothingNew DEF EnvironmentTypes
<1> QED BY <1>3, <1>4, <1>5, <1>6 DEF Cluster

\* A delivery finds the environment as it is, or none.
LEMMA BeginKeepsParts == ASSUME EInv, Step, Begin PROVE EInv'
<1> USE DEF EInv
<1>1. /\ pc = 0 /\ pc' = 1 /\ attempts' = attempts + 1 /\ UNCHANGED <<cfg, objects, job>>
      /\ ns' = IF ns = "none" THEN "alive" ELSE ns
      /\ Existing' = Existing
  BY DEF Begin, Existing
<1>2. attempts \in Nat /\ attempts' > attempts
  BY <1>1 DEF EnvironmentTypes
<1>3. /\ DOMAIN made' = Existing /\ \A o \in Existing : made'[o] = made[o]
      /\ current' = current /\ settings' = Append(settings, current)
  BY <1>1, <1>2, MadeOnce
<1>4. /\ settings' \in Seq(Settings) /\ Len(settings') = attempts'
      /\ settings'[attempts'] = current
      /\ \A i \in 1..attempts : settings'[i] = settings[i]
  BY <1>1, <1>2, <1>3, AppendProperties DEF EnvironmentTypes
<1>5. EnvironmentTypes'
  <2>1. pc' \in 0..Len(Plan(cfg))
    BY <1>1, PlanTypes
  <2>2. \A o \in Existing' : made'[o] \in 1..attempts'
    BY <1>1, <1>2, <1>3 DEF EnvironmentTypes
  <2> QED BY <1>1, <1>2, <1>3, <1>4, <2>1, <2>2 DEF EnvironmentTypes
<1>6. Laid'
  BY <1>1 DEF Laid
<1>7. Built'
  BY <1>1, <1>3 DEF Built, StandsOn, Removable, EnvironmentTypes
<1>8. Opened'
  <2>1. "ingress-policy" \in objects => "ingress-policy" \in Existing /\ ns # "none"
    BY ExistingParts DEF EnvironmentTypes
  <2> QED BY <1>1, <1>3, <1>4, <2>1 DEF Opened, EnvironmentTypes
<1> QED BY <1>5, <1>6, <1>7, <1>8

\* Other settings for the attempts to come do not change those of the earlier ones.
LEMMA RedeployKeeps == ASSUME EInv, Redeploy PROVE EInv'
<1> USE DEF EInv
<1>1. /\ pc = 0 /\ UNCHANGED <<ns, objects, job, pc, attempts, settings, made>>
      /\ current' \in Settings /\ cfg' = ConfigOf(current', cfg.ttl)
      /\ Existing' = Existing
  BY DEF Redeploy, Existing
<1>2. /\ cfg' \in Configs /\ cfg'.ttl = cfg.ttl
  BY <1>1 DEF ConfigOf, EnvironmentTypes, Configs, Settings
<1>3. Len(Plan(cfg')) \in Nat
  BY <1>2, PlanOrdered, LenProperties
<1>4. EnvironmentTypes'
  BY <1>1, <1>2, <1>3 DEF EnvironmentTypes
<1>5. Laid' /\ Opened'
  BY <1>1 DEF Laid, Opened
<1>6. Built'
  BY <1>1, <1>2 DEF Built, StandsOn, Removable
<1> QED BY <1>4, <1>5, <1>6

\* A run begins with no environment.
LEMMA EnvironmentInit == EInit => EInv
<1> SUFFICES ASSUME EInit PROVE EInv
  OBVIOUS
<1> USE DEF EInit, Init
<1>1. Existing = {}
  BY DEF Existing
<1>2. Len(Plan(cfg)) \in Nat
  BY PlanOrdered, LenProperties
<1>3. settings \in Seq(Settings) /\ Len(settings) = 0
  BY EmptySeq
<1>4. EnvironmentTypes
  BY <1>1, <1>2, <1>3 DEF EnvironmentTypes
<1> QED BY <1>4 DEF EInv, Laid, Built, Opened

\* The invariant is inductive.
LEMMA EnvironmentNext == EInv /\ [ENext]_evars => EInv'
<1> SUFFICES ASSUME EInv, [ENext]_evars PROVE EInv'
  OBVIOUS
<1>1. CASE UNCHANGED evars
  BY <1>1 DEF evars, vars, EInv, EnvironmentTypes, Laid, Built, Opened, StandsOn, Removable,
              Existing
<1>2. CASE Step
  <2>1. Next
    BY <1>2 DEF Step
  <2> QED BY <1>2, <2>1, BeginKeepsParts, CreationsKeep, WaitsKeep, ClusterSteps
          DEF Next, Progress
<1>3. CASE Redeploy
  BY <1>3, RedeployKeeps
<1> QED BY <1>1, <1>2, <1>3 DEF ENext

-----------------------------------------------------------------------------
(* The theorems about the environment *)

\* What is in a namespace, from which attempt, and what it stands on.
THEOREM EnvironmentStands == ESpec => []EInv
  BY EnvironmentInit, EnvironmentNext, PTL DEF ESpec

\* An environment is never a random mix of what its attempts created.
THEOREM OldPartsComeFirst == ESpec => []OldPartsFirst
<1>1. EInv => OldPartsFirst
  <2> SUFFICES ASSUME EInv, ns = "alive", NEW p \in Existing \ Optional,
                      NEW o \in Foundation[p]
               PROVE  \/ o \in DOMAIN made /\ made[o] <= made[p]
                      \/ o \in Jobs /\ cfg.ttl
    BY DEF OldPartsFirst, EInv, EnvironmentTypes
  <2>1. p \in Parts
    BY ExistingParts DEF EInv
  <2>2. o \in Base(p)
    BY <2>1, FoundationIsBase
  <2> QED BY <2>2 DEF EInv, EnvironmentTypes, Built, StandsOn, Removable
<1> QED BY <1>1, EnvironmentStands, PTL

\* While there is a pod, the policy that closes the namespace is there.
LEMMA PodsAreClosedIn ==
    ASSUME EInv, ns = "alive", NEW p \in Existing, p # "policy"
    PROVE  "policy" \in objects
<1>1. EnvironmentTypes /\ p \in Parts
  BY ExistingParts DEF EInv
<1>2. "policy" \in Base(p)
  <2>1. /\ "policy" \in Parts /\ "policy" \notin Optional
        /\ Rank("policy") = 1 /\ Rank(p) \in 1..17 /\ Rank(p) # 1
    BY <1>1, Ranks, RankFacts DEF Parts, Optional
  <2>2. Rank("policy") < Rank(p)
    BY <2>1
  <2> QED BY <2>1, <2>2 DEF Base
<1>3. "policy" \in Existing
  BY <1>2 DEF EInv, Built, StandsOn, Removable, Jobs
<1> QED BY <1>1, <1>3, ExistingParts DEF Jobs

\* No pod can be reached from outside, but for the verifier's port from the ingress
\* controller when an attempt was asked for an ingress.
THEOREM PodsAreIsolated == ESpec => []Isolated
<1>1. EInv => Isolated
  <2> SUFFICES ASSUME EInv, ns = "alive", NEW pod \in Pods, NEW h \in Hosts,
                      NEW origin \in Origins \ {"namespace"}, ComesIn(origin, pod, Port[h])
               PROVE  /\ origin = "ingress-nginx" /\ pod = "verifier" /\ h = "verifier"
                      /\ settings[made["ingress-policy"]].ingress
    BY DEF Isolated
  <2>1. pod \in Existing /\ pod # "policy"
    BY DEF Pods, Existing, Deployments, Jobs
  <2>2. "policy" \in Policies
    BY <2>1, PodsAreClosedIn DEF Policies
  <2>3. PICK q \in Policies : Selects(q, pod) /\ Admits(q, origin, Port[h])
    BY <2>2 DEF ComesIn, Selects
  <2>4. q = "ingress-policy"
    BY <2>3 DEF Policies, Admits, Origins
  <2>5. origin = "ingress-nginx" /\ pod = "verifier" /\ Port[h] = 8080
    BY <2>3, <2>4 DEF Admits, Selects
  <2>6. h = "verifier"
    BY <2>5 DEF Hosts, Port
  <2>7. settings[made["ingress-policy"]].ingress
    BY <2>4 DEF Policies, EInv, Opened
  <2> QED BY <2>5, <2>6, <2>7
<1> QED BY <1>1, EnvironmentStands, PTL

\* While a Job runs, every host it and the verifier are configured with is served, and
\* the endpoint is reached unless a deployment moved it; an ingress leads somewhere.
THEOREM PartsAreWired == ESpec => []Wired
<1>1. EInv => Wired
  <2> SUFFICES ASSUME EInv, ns = "alive" PROVE Wired
    BY DEF Wired
  <2>1. EnvironmentTypes
    BY DEF EInv
  <2>2. ASSUME NEW p \in Existing, NEW o \in Parts \ Optional, o \notin Jobs,
               Rank(o) < Rank(p)
        PROVE  o \in objects
    <3>1. o \in Base(p)
      BY <2>2 DEF Base
    <3>2. o \in Existing
      BY <2>2, <3>1 DEF EInv, Built, StandsOn, Removable
    <3> QED BY <2>1, <2>2, <3>2, ExistingParts
  <2>3. ASSUME NEW h \in Hosts, "policy" \in objects, {h, Service[h]} \subseteq objects
        PROVE  Served(h)
    BY <2>3 DEF Served, ComesIn, Policies, Selects, Admits
  <2>4. ASSUME NEW j \in Jobs, job[j] = "running"
        PROVE  /\ \A h \in VerifierCalls \cup JobCalls : Served(h)
               /\ settings[made[j]].endpoint \in
                      {settings[made["policy"]].endpoint} \ {NoEndpoint} =>
                  GoesOut(Dialled(settings[made[j]].endpoint))
    <3>1. j \in Existing /\ j \in Parts
      BY <2>4 DEF Existing, Jobs, Parts
    <3>2. ASSUME NEW o \in {"policy", "postgres", "postgres-service", "redis", "redis-service",
                            "minio", "minio-service", "verifier", "verifier-service"}
          PROVE  o \in objects
      <4>1. o \in Parts \ Optional /\ o \notin Jobs
        BY DEF Parts, Optional, Jobs
      <4>2. Rank(o) < Rank(j)
        BY Ranks DEF Jobs
      <4> QED BY <2>2, <3>1, <4>1, <4>2
    <3>3. \A h \in Hosts : h \in objects /\ Service[h] \in objects
      BY <3>2 DEF Hosts, Service
    <3>4. \A h \in VerifierCalls \cup JobCalls : h \in Hosts
      BY DEF VerifierCalls, JobCalls, Hosts
    <3>5. \A h \in VerifierCalls \cup JobCalls : Served(h)
      BY <2>3, <3>2, <3>3, <3>4
    <3>6. ASSUME NEW e, e = settings[made["policy"]].endpoint, e # NoEndpoint
          PROVE  GoesOut(Dialled(e))
      <4>1. "policy" \in Existing
        BY <3>2, <2>1, ExistingParts
      <4>2. settings[made["policy"]] \in Settings
        BY <2>1, <4>1, ElementOfSeq DEF EnvironmentTypes
      <4>3. e \in Endpoints
        BY <3>6, <4>2 DEF Settings
      <4>4. e.scheme \in {"http", "https"}
        BY <4>3, EnvironmentAssumption
      <4>5. Dialled(e) = ParsePort(e)
        BY <3>6, <4>4 DEF Dialled, ParsePort
      <4> QED BY <3>6, <4>5 DEF GoesOut
    <3> QED BY <3>5, <3>6
  <2>5. ASSUME "ingress" \in objects
        PROVE  "verifier-service" \in objects /\ ComesIn("ingress-nginx", "verifier", 8080)
    <3>1. "ingress" \in Existing
      BY <2>1, <2>5, ExistingParts
    <3>2. "verifier-service" \in objects
      <4>1. /\ "verifier-service" \in Parts \ Optional /\ "verifier-service" \notin Jobs
            /\ Rank("verifier-service") < Rank("ingress")
        BY Ranks DEF Parts, Optional, Jobs
      <4> QED BY <2>2, <3>1, <4>1
    <3>3. "ingress-policy" \in objects
      <4>1. "ingress-policy" \in Base("ingress")
        BY Ranks DEF Base, Parts
      <4>2. "ingress-policy" \in Existing
        BY <3>1, <4>1 DEF EInv, Built, StandsOn, Removable, Jobs
      <4> QED BY <2>1, <4>2, ExistingParts DEF Jobs
    <3> QED BY <3>2, <3>3 DEF ComesIn, Policies, Selects, Admits
  <2> QED BY <2>4, <2>5 DEF Wired
<1> QED BY <1>1, EnvironmentStands, PTL
=============================================================================
