----------------------------- MODULE Environment -----------------------------
(***************************************************************************)
(* What the objects of a run's namespace are made of (manifests.go, the    *)
(* policies of k8s.go), over attempts whose workers may have been deployed *)
(* with other settings: an object that is there is kept as it is, so the   *)
(* parts of one environment may be of different attempts.                  *)
(*                                                                         *)
(* The steps are those of Runner; made says which attempt created each     *)
(* object that exists, settings what that attempt was configured with.     *)
(* Images, secrets and other values an object takes from the settings need *)
(* no name: they are those of the attempt that made it.                    *)
(***************************************************************************)
EXTENDS Runner

CONSTANTS Endpoints,            \* values of PluginEndpoint that parse
          NoEndpoint            \* the empty one

None == 0                       \* no port in the URL

ASSUME EnvironmentAssumption ==
    /\ NoEndpoint \notin Endpoints
    /\ Endpoints \subseteq [scheme : {"http", "https"}, port : Nat]

VARIABLES current,              \* settings an attempt would have now: the
                                \* worker's, and the endpoint of the request if any
          settings,             \* of each attempt so far
          made                  \* the attempt each object is from

evars == <<vars, current, settings, made>>

Settings == [endpoint : Endpoints \cup {NoEndpoint}, ingress : BOOLEAN]

\* What Run looks at.
ConfigOf(s, ttl) == [plugin |-> s.endpoint # NoEndpoint,
                     ingress |-> s.ingress, ttl |-> ttl]

EInit == /\ Init
         /\ current \in Settings
         /\ cfg = ConfigOf(current, cfg.ttl)
         /\ settings = <<>>
         /\ made = [o \in {} |-> 0]

-----------------------------------------------------------------------------
(* Objects over time *)

Existing == objects \cup {j \in Jobs : job[j] # "absent"}

\* Mutant of MadeBy: what is there is brought up to date.
MadeAnew(o) == IF o \in DOMAIN made /\ ~(At("apply") /\ It = o)
               THEN made[o] ELSE attempts

\* Create, where "already exists" is as good.
MadeBy(o) == IF o \in DOMAIN made THEN made[o] ELSE attempts

Step == /\ Next
        /\ made' = [o \in Existing' |-> MadeBy(o)]
        /\ settings' = IF attempts' > attempts THEN Append(settings, current)
                                               ELSE settings
        /\ UNCHANGED current

\* The worker is deployed anew between two attempts, with other settings.
Redeploy ==
    /\ pc = 0 /\ attempts \in 1..(MaxAttempts - 1)
    /\ current = settings[attempts]
    /\ \E s \in Settings \ {current} :
          /\ current' = s
          /\ cfg' = ConfigOf(s, cfg.ttl)
    /\ UNCHANGED <<ns, objects, seen, job, pc, live, verdict, attempts, won,
                   said, settings, made>>

ENext == Step \/ Redeploy

ESpec == EInit /\ [][ENext]_evars

-----------------------------------------------------------------------------
(* The network: policies, Services and what the parts of an environment call *)

\* Mutant of ParsePort: the port of a scheme is not known.
ParseGivenPort(e) == IF e = NoEndpoint THEN None ELSE e.port

ParsePort(e) == IF e = NoEndpoint THEN None
                ELSE IF e.port # None THEN e.port
                ELSE IF e.scheme = "https" THEN 443 ELSE 80

\* External: the port a client of the endpoint connects to.
Dialled(e) == IF e.port # None THEN e.port
              ELSE [http |-> 80, https |-> 443][e.scheme]

Deployments == {"postgres", "redis", "minio", "verifier", "verifier-worker"}
Hosts == {"postgres", "redis", "minio", "verifier"}

\* A Service has the name of the Deployment it selects, and its port.
Service == [postgres |-> "postgres-service", redis |-> "redis-service",
            minio |-> "minio-service", verifier |-> "verifier-service"]
Port == [postgres |-> 5432, redis |-> 6379, minio |-> 9000, verifier |-> 8080]

\* The pods that may be running.
Pods == (Deployments \cap objects) \cup {j \in Jobs : job[j] = "running"}

\* Where a connection comes from: a pod of the namespace, the ingress
\* controller's namespace, or anywhere else.
Origins == {"namespace", "ingress-nginx", "elsewhere"}

Policies == {"policy", "ingress-policy"} \cap objects

\* allow-intra-namespace selects every pod, allow-ingress-controller the
\* verifier's.
Selects(policy, pod) == policy = "policy" \/ pod = "verifier"

Admits(policy, origin, port) ==
    IF policy = "policy" THEN origin = "namespace"
                         ELSE origin = "ingress-nginx" /\ port = 8080

\* A pod that no policy selects is open to everyone.
ComesIn(origin, pod, port) ==
    LET selecting == {p \in Policies : Selects(p, pod)}
    IN  selecting = {} \/ \E p \in selecting : Admits(p, origin, port)

\* To the outside: DNS, https, and the port of the endpoint that the attempt had
\* which made allow-intra-namespace.
GoesOut(port) ==
    \/ "policy" \notin objects
    \/ port \in {53, 443}
    \/ port = ParsePort(settings[made["policy"]].endpoint)

\* A host that the configuration of a pod names.
Served(host) == /\ {host, Service[host]} \subseteq objects
                /\ ComesIn("namespace", host, Port[host])

\* The hosts in verifier-config and worker-config, and in a Job's environment.
VerifierCalls == {"postgres", "redis", "minio"}
JobCalls == {"postgres", "minio", "verifier"}

-----------------------------------------------------------------------------
(* Properties *)

\* No pod can be reached from outside its namespace at any time, not by the pods
\* of another run either, but for the verifier's port by the ingress controller
\* when a host was asked for: policies are there before the first pod, and the
\* one that opens the verifier never replaces the one that closes the rest.
Isolated ==
    ns = "alive" =>
        \A pod \in Pods, origin \in Origins \ {"namespace"}, h \in Hosts :
            ComesIn(origin, pod, Port[h]) =>
                /\ origin = "ingress-nginx" /\ pod = "verifier" /\ h = "verifier"
                /\ settings[made["ingress-policy"]].ingress

\* While a Job runs, every host that it and the verifier are configured with is
\* served by a Service of that port, whichever attempts they are from; and so is
\* the plugin's endpoint unless a new deployment moved it to another port.  A
\* host that was handed out can be reached from the ingress controller.
Wired ==
    ns = "alive" =>
        /\ \A j \in Jobs : job[j] = "running" =>
              LET mine == settings[made[j]].endpoint
                  first == settings[made["policy"]].endpoint
              IN  /\ \A h \in VerifierCalls \cup JobCalls : Served(h)
                  /\ mine \in {first} \ {NoEndpoint} => GoesOut(Dialled(mine))
        /\ "ingress" \in objects =>
              /\ "verifier-service" \in objects
              /\ ComesIn("ingress-nginx", "verifier", 8080)

\* What each object is built upon: the objects a Plan with everything in it
\* creates earlier.  An ingress may be asked for later.
FullPlan == Plan([plugin |-> TRUE, ingress |-> TRUE, ttl |-> TRUE])
Created == {i \in DOMAIN FullPlan : FullPlan[i].op \in {"apply", "create"}}
Optional == {"ingress-policy", "ingress"}
Foundation == [o \in {FullPlan[i].obj : i \in Created} |->
                  {FullPlan[i].obj : i \in {m \in Created :
                      \E k \in Created : FullPlan[k].obj = o /\ m < k}} \ Optional]

\* However attempts are cut short, repeated and configured anew, an environment
\* is never a random mix of them: what is there needs nothing that is not, and
\* is never older than what it was built upon.  A pod finds the ConfigMap it
\* mounts, and what a Job found out it found out about the verifier that is
\* there.  Excepted are the parts of an ingress, which a later attempt may add,
\* and finished Jobs, when their TTL removes them.
OldPartsFirst ==
    ns = "alive" =>
        \A p \in DOMAIN made \ Optional : \A o \in Foundation[p] :
            \/ o \in DOMAIN made /\ made[o] <= made[p]
            \/ o \in Jobs /\ cfg.ttl
=============================================================================
