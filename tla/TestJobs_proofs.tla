-------------------------- MODULE TestJobs_proofs --------------------------
(***************************************************************************)
(* What TestJobs keeps, for any configurations, signers and parties, and   *)
(* any number of pods of each Job, whatever calls fail and pods are lost.  *)
(***************************************************************************)
EXTENDS TestJobs, TLAPS, SequenceTheorems, FiniteSetTheorems, WellFoundedInduction

-----------------------------------------------------------------------------
(* The invariant *)

Rows == [plugin : Configs \cup {NoConfig}, keys : SUBSET Configs, token : BOOLEAN]
Outcomes == {"absent", "running", "ok", "failed"}

\* A Job runs as long as its pod has a call to make.
Calls(j) == CASE j = "seeder" -> {"plugin", "key", "token", "commit"}
              [] j = "smoke" -> {"health", "test"}
              [] j = "integration" ->
                    {"uninstall", "user", "server", "initiate", "wait", "start",
                     "reshare", "suggest", "sign", "create", "get", "delete"}
Pods == /\ result \in [Jobs -> Outcomes] /\ starts \in [Jobs -> Nat]
        /\ DOMAIN pc = Jobs
        /\ \A j \in Jobs : IF result[j] = "running" THEN pc[j] \in Calls(j) ELSE pc[j] = "none"

\* The rows of one configuration, or none; what the transaction adds to them.
Whole(r) == r \in Rows /\ (r.plugin \in r.keys \/ r = NoRows)
            /\ (r.token <=> r.plugin # NoConfig)
Complete(r) == r.plugin = env /\ env \in r.keys /\ r.token
Seeding ==
    /\ Whole(db) /\ tx \in Rows
    /\ result["seeder"] \in {"running", "ok"} => env \in Configs
    /\ pc["seeder"] \in {"key", "token", "commit"} => tx.plugin = env
    /\ pc["seeder"] \in {"token", "commit"} => env \in tx.keys
    /\ pc["seeder"] = "commit" => tx.token
    /\ result["seeder"] = "ok" => Complete(db)
    /\ result["smoke"] = "running" \/ result["integration"] = "running" => db # NoRows

Suites == [phase : 1..3, done : 0..3, total : Nat, passed : Nat, failed : Nat, before : Nat]
\* Every test so far is counted, and the failed ones have a phase.
Counts ==
    /\ suite \in Suites
    /\ suite.total = suite.passed + suite.failed
    /\ suite.total = 3 * (suite.phase - 1) + suite.done
    /\ suite.before <= suite.failed
    /\ bad \subseteq 1..suite.phase /\ (bad = {} <=> suite.failed = 0)
    /\ suite.failed = suite.before => suite.phase \notin bad
    /\ suite.phase > 1 => 1 \notin bad
    /\ result["smoke"] = "ok" => suite.failed = 0 /\ suite.phase = 3 /\ suite.done = 3

\* Before the committee is built.
Early == {"uninstall", "user", "server", "initiate", "wait", "start"}

\* The relay has finitely many parties, and the committee is of those it had.
Joining ==
    /\ IsFiniteSet(relay.joined) /\ IsFiniteSet(parties)
    /\ relay \in [joined : SUBSET Parties, invited : BOOLEAN, started : SUBSET Parties]
    /\ parties \subseteq Parties
    /\ InCall("start") => Cardinality(parties) >= 4
    /\ committee # <<>> =>
          /\ pc["integration"] \notin Early
          /\ committee \in Committees /\ relay.started = parties
          /\ Cardinality(parties) >= 4

\* A pod that passed is over and has no policy.
Policies ==
    /\ \A i \in passed : i <= Pod /\ i \in Nat
    /\ result["integration"] = "running" => Pod \notin passed
    /\ policies \cap passed = {}

JInv == Pods /\ Seeding /\ Counts /\ Joining /\ Policies

-----------------------------------------------------------------------------
(* The smoke tests are nine *)

Tests == {"VerifierHealth", "PluginHealth", "PluginSeeded", "GetRecipeSpecification",
          "GetRecipeFunctions", "Reshare", "PluginVaultExist", "PluginVaultGet",
          "PluginSignResponse"}

LEMMA ThreePhases ==
    /\ Len(Phases) = 3 /\ \A i \in 1..3 : Phases[i] \in Seq(Tests) /\ Len(Phases[i]) = 3
    /\ Phases[1] = HealthChecks /\ Phases[2] = VerifierPluginTests
    /\ Phases[3] = PluginEndpointTests
<1>1. HealthChecks \in Seq(Tests) /\ Len(HealthChecks) = 3
  BY DEF HealthChecks, Tests
<1>2. VerifierPluginTests \in Seq(Tests) /\ Len(VerifierPluginTests) = 3
  BY DEF VerifierPluginTests, Tests
<1>3. PluginEndpointTests \in Seq(Tests) /\ Len(PluginEndpointTests) = 3
  BY DEF PluginEndpointTests, Tests
<1>4. /\ Len(Phases) = 3 /\ Phases[1] = HealthChecks /\ Phases[2] = VerifierPluginTests
      /\ Phases[3] = PluginEndpointTests
  BY DEF Phases
<1>5. \A i \in 1..3 : i = 1 \/ i = 2 \/ i = 3
  OBVIOUS
<1> QED BY <1>1, <1>2, <1>3, <1>4, <1>5

LEMMA Lengths ==
    ASSUME NEW s \in Seq(Tests), NEW t \in Seq(Tests)
    PROVE  s \o t \in Seq(Tests) /\ Len(s \o t) = Len(s) + Len(t)
  BY ConcatProperties

\* FlattenSeq is defined by recursion: here is the function it chooses.
LEMMA NineTests == Len(FlattenSeq(Phases)) = 9
<1> DEFINE P == Phases
           g(f) == [i \in 1..Len(P) |-> IF i = 1 THEN P[i] ELSE f[i-1] \o P[i]]
           h == [i \in 1..3 |-> IF i = 1 THEN P[1] ELSE IF i = 2 THEN P[1] \o P[2]
                                                   ELSE (P[1] \o P[2]) \o P[3]]
           k == CHOOSE f : f = g(f)
<1>1. Len(P) = 3 /\ \A i \in 1..3 : P[i] \in Seq(Tests) /\ Len(P[i]) = 3
  BY ThreePhases
<1>2. FlattenSeq(P) = k[3]
  BY <1>1 DEF FlattenSeq
<1> HIDE DEF P
<1>3. h = g(h)
  BY <1>1
<1> HIDE DEF h, g
<1>4. k = g(k)
  BY <1>3, Zenon
<1> HIDE DEF k
<1>5. \A i \in 1..3 : k[i] = IF i = 1 THEN P[i] ELSE k[i-1] \o P[i]
  BY <1>1, <1>4 DEF g
<1>6. k[1] = P[1] /\ k[2] = k[1] \o P[2] /\ k[3] = k[2] \o P[3]
  <2>1. k[1] = P[1]
    BY <1>5
  <2>2. k[2] = k[2 - 1] \o P[2]
    <3>1. 2 \in 1..3 /\ 2 # 1
      OBVIOUS
    <3> QED BY <1>5, <3>1, Zenon
  <2>3. k[3] = k[3 - 1] \o P[3]
    <3>1. 3 \in 1..3 /\ 3 # 1
      OBVIOUS
    <3> QED BY <1>5, <3>1, Zenon
  <2>4. 2 - 1 = 1 /\ 3 - 1 = 2
    OBVIOUS
  <2> QED BY <2>1, <2>2, <2>3, <2>4
<1>7. P[1] \o P[2] \in Seq(Tests) /\ Len(P[1] \o P[2]) = 6
  <2>1. /\ P[1] \in Seq(Tests) /\ Len(P[1]) = 3
        /\ P[2] \in Seq(Tests) /\ Len(P[2]) = 3
    BY <1>1
  <2>2. /\ P[1] \o P[2] \in Seq(Tests)
        /\ Len(P[1] \o P[2]) = Len(P[1]) + Len(P[2])
    BY <2>1, Lengths, Zenon
  <2> QED BY <2>1, <2>2
<1>8. Len((P[1] \o P[2]) \o P[3]) = 9
  <2>1. P[3] \in Seq(Tests) /\ Len(P[3]) = 3
    BY <1>1
  <2>2. Len((P[1] \o P[2]) \o P[3]) = Len(P[1] \o P[2]) + Len(P[3])
    BY <1>7, <2>1, Lengths, Zenon
  <2> QED BY <1>7, <2>1, <2>2
<1> QED BY <1>2, <1>6, <1>8 DEF P

-----------------------------------------------------------------------------
(* Pods *)

\* Every other Job's pod stays where it is.
Beside(j) == /\ starts' = starts
             /\ \A k \in Jobs \ {j} : pc'[k] = pc[k] /\ result'[k] = result[k]

LEMMA ExitKeeps ==
    ASSUME Pods, NEW j \in Jobs, NEW r \in {"ok", "failed"}, Exit(j, r), starts' = starts
    PROVE  Pods' /\ Beside(j) /\ pc'[j] = "none" /\ result'[j] = r
<1>1. /\ result' \in [Jobs -> Outcomes] /\ DOMAIN pc' = Jobs
      /\ pc'[j] = "none" /\ result'[j] = r
      /\ \A k \in Jobs \ {j} : pc'[k] = pc[k] /\ result'[k] = result[k]
  BY DEF Pods, Exit, Outcomes
<1> QED BY <1>1 DEF Pods, Beside

LEMMA CallKeeps ==
    ASSUME Pods, NEW j \in Jobs, NEW c \in Calls(j), pc[j] # "none", Call(j, c),
           starts' = starts
    PROVE  Pods' /\ Beside(j) /\ pc'[j] = c /\ result' = result
<1>1. /\ result' = result /\ DOMAIN pc' = Jobs /\ pc'[j] = c
      /\ \A k \in Jobs \ {j} : pc'[k] = pc[k]
  BY DEF Pods, Call
<1>2. result[j] = "running"
  BY DEF Pods
<1> QED BY <1>1, <1>2 DEF Pods, Beside

LEMMA StartKeeps ==
    ASSUME Pods, NEW j \in Jobs, StartJob(j)
    PROVE  /\ Pods' /\ result[j] # "running" /\ result'[j] = "running"
           /\ pc'[j] = FirstCall(j) /\ starts'[j] = starts[j] + 1
           /\ \A k \in Jobs \ {j} : /\ pc'[k] = pc[k] /\ result'[k] = result[k]
                                    /\ starts'[k] = starts[k]
<1>1. /\ result' \in [Jobs -> Outcomes] /\ DOMAIN pc' = Jobs /\ starts' \in [Jobs -> Nat]
      /\ pc'[j] = FirstCall(j) /\ result'[j] = "running" /\ starts'[j] = starts[j] + 1
      /\ \A k \in Jobs \ {j} : /\ pc'[k] = pc[k] /\ result'[k] = result[k]
                               /\ starts'[k] = starts[k]
  BY DEF Pods, StartJob, Outcomes
<1>2. FirstCall(j) \in Calls(j)
  BY DEF Jobs, FirstCall, Calls
<1> QED BY <1>1, <1>2 DEF Pods, StartJob

\* What a step of a Job's pod may do to pods.
Moves(j) == /\ Pods' /\ Beside(j)
            /\ result'[j] \in {result[j], "ok", "failed"}
            /\ result'[j] # "running" => pc'[j] = "none"

LEMMA KillMoves ==
    ASSUME Pods, NEW j \in Jobs, KillPod(j) PROVE Moves(j) /\ result'[j] = "failed"
  BY ExitKeeps DEF KillPod, Fail, Moves

LEMMA SeederMoves ==
    ASSUME Pods, SeederStep PROVE Moves("seeder")
<1>1. "seeder" \in Jobs /\ Calls("seeder") = {"plugin", "key", "token", "commit"}
  BY DEF Jobs, Calls
<1>2. ASSUME NEW c \in Calls("seeder"), pc["seeder"] \in Calls("seeder"), Call("seeder", c),
             starts' = starts
      PROVE  Moves("seeder")
  BY <1>1, <1>2, CallKeeps DEF Moves, Pods
<1>3. ASSUME NEW r \in {"ok", "failed"}, Exit("seeder", r), starts' = starts
      PROVE  Moves("seeder")
  BY <1>1, <1>3, ExitKeeps DEF Moves
<1>4. CASE UpsertPlugin \/ UpsertPluginAPIKey \/ UpsertVaultToken
  BY <1>1, <1>2, <1>4 DEF UpsertPlugin, UpsertPluginAPIKey, UpsertVaultToken, Statement
<1>5. CASE Commit
  BY <1>3, <1>5 DEF Commit
<1>6. CASE StatementFails
  BY <1>3, <1>6 DEF StatementFails, Fail
<1> QED BY <1>4, <1>5, <1>6 DEF SeederStep

LEMMA SmokeMoves ==
    ASSUME Pods, SmokeStep PROVE Moves("smoke")
<1>1. "smoke" \in Jobs /\ "test" \in Calls("smoke")
  BY DEF Jobs, Calls
<1>2. ASSUME NEW r \in {"ok", "failed"}, Exit("smoke", r), starts' = starts
      PROVE  Moves("smoke")
  BY <1>1, <1>2, ExitKeeps DEF Moves
<1>3. ASSUME UNCHANGED <<result, pc, starts>> PROVE Moves("smoke")
  BY <1>1, <1>3 DEF Moves, Beside, Pods
<1>4. CASE VerifierHealthy
  <2>1. Call("smoke", "test") /\ starts' = starts /\ pc["smoke"] = "health"
    BY <1>4 DEF VerifierHealthy
  <2> QED BY <1>1, <2>1, CallKeeps DEF Moves, Pods
<1>5. CASE VerifierUnhealthy
  BY <1>2, <1>5 DEF VerifierUnhealthy, Fail
<1>6. CASE RunTest
  BY <1>3, <1>6 DEF RunTest
<1>7. CASE EndPhase
  BY <1>2, <1>3, <1>7 DEF EndPhase
<1> QED BY <1>4, <1>5, <1>6, <1>7 DEF SmokeStep

LEMMA IntegrationMoves ==
    ASSUME Pods, IntegrationStep \/ PartiesTimeout PROVE Moves("integration")
<1>1. "integration" \in Jobs
  BY DEF Jobs
<1>2. ASSUME NEW c \in Calls("integration"), Then(c), NEW d \in Calls("integration"),
             InCall(d), starts' = starts
      PROVE  Moves("integration")
  <2>1. pc["integration"] # "none"
    BY <1>2 DEF InCall, Calls
  <2> QED BY <1>1, <1>2, <2>1, CallKeeps DEF Moves, Pods, Then
<1>3. ASSUME Refused \/ Exit("integration", "ok"), starts' = starts
      PROVE  Moves("integration")
  BY <1>1, <1>3, ExitKeeps DEF Moves, Refused, Fail
<1>4. starts' = starts
  BY DEF IntegrationStep, PartiesTimeout, Uninstall, RegisterUser, RegisterServer, Register,
         InitiateReshare, EnoughParties, StartSession, PerformReshare, Suggest, SignPolicy,
         CreatePolicy, GetPolicy, DeletePolicy
<1>5. \/ Refused \/ Exit("integration", "ok")
      \/ \E c, d \in Calls("integration") : Then(c) /\ InCall(d)
  BY DEF IntegrationStep, PartiesTimeout, Uninstall, RegisterUser, RegisterServer, Register,
         InitiateReshare, EnoughParties, StartSession, PerformReshare, Suggest, SignPolicy,
         CreatePolicy, GetPolicy, DeletePolicy, Calls
<1> QED BY <1>2, <1>3, <1>4, <1>5

-----------------------------------------------------------------------------
(* The seeder *)

\* Somebody else's step: the seeder's Job is where it was, and no other one starts.
LEMMA SeedingBeside ==
    ASSUME Pods, Seeding, UNCHANGED <<db, env>>, tx' \in {tx, db},
           \/ pc'["seeder"] = pc["seeder"] /\ tx' = tx
           \/ pc'["seeder"] = "none",
           result'["seeder"] \in {result["seeder"], "failed"},
           \A k \in Jobs \ {"seeder"} : result'[k] = "running" => result[k] = "running"
    PROVE  Seeding'
<1>1. {"seeder", "smoke", "integration"} = Jobs
  BY DEF Jobs
<1>2. Whole(db)' /\ tx' \in Rows
  BY DEF Seeding, Whole
<1>3. result'["seeder"] = "ok" => Complete(db)'
  BY DEF Seeding, Complete
<1> QED BY <1>1, <1>2, <1>3 DEF Seeding

LEMMA SeedingSteps ==
    ASSUME Pods, Seeding, SeederStep PROVE Seeding'
<1>1. Moves("seeder")
  BY SeederMoves
<1>2. /\ env' = env
      /\ result'["smoke"] = result["smoke"] /\ result'["integration"] = result["integration"]
  <2>1. {"seeder", "smoke", "integration"} = Jobs
    BY DEF Jobs
  <2>2. env' = env
    BY DEF SeederStep, UpsertPlugin, UpsertPluginAPIKey, UpsertVaultToken, Statement, Commit,
           StatementFails
  <2> QED BY <1>1, <2>1, <2>2 DEF Moves, Beside
<1>3. result["seeder"] = "running" /\ env \in Configs /\ NoConfig \notin Configs
  <2>1. pc["seeder"] # "none" /\ "seeder" \in Jobs
    BY DEF SeederStep, UpsertPlugin, UpsertPluginAPIKey, UpsertVaultToken, Statement, Commit,
           StatementFails, Jobs
  <2> QED BY <2>1, JobsAssumption DEF Pods, Seeding
<1>4. ASSUME NEW n \in {"plugin", "key", "token"}, NEW rows,
             NEW c \in {"key", "token", "commit"}, Statement(n, rows, c)
      PROVE  /\ tx' = rows /\ db' = db /\ result' = result /\ pc'["seeder"] = c
             /\ pc["seeder"] = n
  BY <1>4 DEF Statement, Execute, Call, Pods, Jobs
<1>5. CASE UpsertPlugin
  <2>1. /\ tx' = [tx EXCEPT !.plugin = env] /\ db' = db /\ result' = result
        /\ pc'["seeder"] = "key"
    BY <1>4, <1>5 DEF UpsertPlugin
  <2>2. tx' \in Rows /\ tx'.plugin = env
    BY <1>3, <2>1 DEF Rows, Seeding
  <2> QED BY <1>2, <1>3, <2>1, <2>2 DEF Seeding, Whole
<1>6. CASE UpsertPluginAPIKey
  <2>1. /\ tx' = [tx EXCEPT !.keys = @ \cup {env}] /\ db' = db /\ result' = result
        /\ pc'["seeder"] = "token" /\ pc["seeder"] = "key"
    BY <1>4, <1>6 DEF UpsertPluginAPIKey
  <2>2. tx' \in Rows /\ tx'.plugin = env /\ env \in tx'.keys
    BY <1>3, <2>1 DEF Rows, Seeding
  <2> QED BY <1>2, <1>3, <2>1, <2>2 DEF Seeding, Whole
<1>7. CASE UpsertVaultToken
  <2>1. /\ tx' = [tx EXCEPT !.token = TRUE] /\ db' = db /\ result' = result
        /\ pc'["seeder"] = "commit" /\ pc["seeder"] = "token"
    BY <1>4, <1>7 DEF UpsertVaultToken
  <2>2. tx' \in Rows /\ tx'.plugin = env /\ env \in tx'.keys /\ tx'.token
    BY <1>3, <2>1 DEF Rows, Seeding
  <2> QED BY <1>2, <1>3, <2>1, <2>2 DEF Seeding, Whole
<1>8. CASE Commit
  <2>1. /\ db' = tx /\ tx' = tx /\ pc["seeder"] = "commit"
        /\ result'["seeder"] \in {"ok", "failed"} /\ pc'["seeder"] = "none"
    BY <1>8 DEF Commit, Exit, Pods, Jobs
  <2>2. tx \in Rows /\ tx.plugin = env /\ env \in tx.keys /\ tx.token
    BY <2>1 DEF Seeding
  <2>3. Whole(db)' /\ Complete(db)' /\ db' # NoRows
    BY <1>2, <1>3, <2>1, <2>2 DEF Whole, Complete, NoRows
  <2> QED BY <1>2, <1>3, <2>1, <2>2, <2>3 DEF Seeding
<1>9. CASE StatementFails
  <2>1. tx' = db /\ db' = db /\ result'["seeder"] = "failed" /\ pc'["seeder"] = "none"
    BY <1>9 DEF StatementFails, Fail, Exit, Pods, Jobs
  <2> QED BY <1>2, <2>1 DEF Seeding, Whole
<1> QED BY <1>5, <1>6, <1>7, <1>8, <1>9 DEF SeederStep

LEMMA SeedingStarts ==
    ASSUME Pods, Seeding, NEW j \in Jobs, StartJob(j) PROVE Seeding'
<1>1. /\ result[j] # "running" /\ result'[j] = "running" /\ pc'[j] = FirstCall(j)
      /\ \A k \in Jobs \ {j} : pc'[k] = pc[k] /\ result'[k] = result[k]
      /\ db' = db /\ {"seeder", "smoke", "integration"} = Jobs
  BY StartKeeps DEF StartJob, Jobs
<1>2. CASE j = "seeder"
  <2>1. env' \in Configs /\ tx' = db /\ pc'["seeder"] = "plugin"
    BY <1>1, <1>2 DEF StartJob, FirstCall
  <2> QED BY <1>1, <1>2, <2>1 DEF Seeding, Whole
<1>3. CASE j # "seeder"
  <2>1. env' = env /\ tx' = tx /\ result["seeder"] = "ok"
    BY <1>3 DEF StartJob, EarlierJobs, Jobs
  <2>2. db # NoRows
    BY <2>1, JobsAssumption DEF Seeding, Complete, NoRows
  <2> QED BY <1>1, <1>3, <2>1, <2>2 DEF Seeding, Whole, Complete
<1> QED BY <1>2, <1>3

-----------------------------------------------------------------------------
(* The smoke tests *)

\* A suite and its six fields.
SuiteOf(ph, d, n, p, f, b) == [phase |-> ph, done |-> d, total |-> n, passed |-> p,
                               failed |-> f, before |-> b]

LEMMA SuiteFields ==
    ASSUME Counts
    PROVE  \E ph \in 1..3, d \in 0..3, n \in Nat, p \in Nat, f \in Nat, b \in Nat :
              suite = SuiteOf(ph, d, n, p, f, b)
<1>1. /\ suite.phase \in 1..3 /\ suite.done \in 0..3 /\ suite.total \in Nat
      /\ suite.passed \in Nat /\ suite.failed \in Nat /\ suite.before \in Nat
  BY DEF Counts, Suites
<1>2. suite = SuiteOf(suite.phase, suite.done, suite.total, suite.passed, suite.failed,
                      suite.before)
  BY DEF Counts, Suites, SuiteOf
<1> QED BY <1>1, <1>2

\* What Counts says of these fields.
Fits(ph, d, n, p, f, b, wrong) ==
    /\ n = p + f /\ n = 3 * (ph - 1) + d /\ b <= f
    /\ wrong \subseteq 1..ph /\ (wrong = {} <=> f = 0)
    /\ f = b => ph \notin wrong
    /\ ph > 1 => 1 \notin wrong

LEMMA CountsFit ==
    ASSUME NEW ph \in 1..3, NEW d \in 0..3, NEW n \in Nat, NEW p \in Nat, NEW f \in Nat,
           NEW b \in Nat, suite = SuiteOf(ph, d, n, p, f, b)
    PROVE  Counts <=> /\ Fits(ph, d, n, p, f, b, bad)
                      /\ result["smoke"] = "ok" => f = 0 /\ ph = 3 /\ d = 3
<1>1. /\ suite.phase = ph /\ suite.done = d /\ suite.total = n /\ suite.passed = p
      /\ suite.failed = f /\ suite.before = b
  BY DEF SuiteOf
<1>2. suite \in Suites
  BY DEF SuiteOf, Suites
<1> QED BY <1>1, <1>2 DEF Counts, Fits

LEMMA CountsFitNext ==
    ASSUME NEW ph \in 1..3, NEW d \in 0..3, NEW n \in Nat, NEW p \in Nat, NEW f \in Nat,
           NEW b \in Nat, suite' = SuiteOf(ph, d, n, p, f, b), Fits(ph, d, n, p, f, b, bad'),
           result'["smoke"] = "ok" => f = 0 /\ ph = 3 /\ d = 3
    PROVE  Counts'
<1>1. /\ suite'.phase = ph /\ suite'.done = d /\ suite'.total = n /\ suite'.passed = p
      /\ suite'.failed = f /\ suite'.before = b
  BY DEF SuiteOf
<1>2. suite' \in Suites
  BY DEF SuiteOf, Suites
<1> QED BY <1>1, <1>2 DEF Counts, Fits

LEMMA CountsKept ==
    ASSUME Pods, Counts, SmokeStep PROVE Counts'
<1>1. PICK ph \in 1..3, d \in 0..3, n \in Nat, p \in Nat, f \in Nat, b \in Nat :
          suite = SuiteOf(ph, d, n, p, f, b)
  BY SuiteFields
<1>2. /\ Fits(ph, d, n, p, f, b, bad)
      /\ result["smoke"] = "ok" => f = 0 /\ ph = 3 /\ d = 3
  BY <1>1, CountsFit
<1>3. /\ suite.phase = ph /\ suite.done = d /\ suite.failed = f /\ suite.before = b
      /\ Len(Phases) = 3 /\ Len(Phases[ph]) = 3
  BY <1>1, ThreePhases DEF SuiteOf
<1>4. CASE VerifierHealthy \/ VerifierUnhealthy
  <2>1. /\ suite' = suite /\ bad' = bad
        /\ result' = result \/ result'["smoke"] = "failed"
    BY <1>4 DEF VerifierHealthy, VerifierUnhealthy, Call, Fail, Exit, Pods, Jobs, testing
  <2> QED BY <1>1, <1>2, <2>1, CountsFitNext
<1>5. CASE RunTest
  <2>1. d + 1 \in 0..3 /\ n + 1 \in Nat /\ p + 1 \in Nat /\ f + 1 \in Nat
        /\ result'["smoke"] # "ok"
    BY <1>3, <1>5 DEF RunTest, Pods, Jobs
  <2>2. PICK ok \in BOOLEAN : /\ suite' = Counted(ok)
                              /\ bad' = IF ok THEN bad ELSE bad \cup {suite.phase}
    BY <1>5 DEF RunTest
  <2>3. CASE ok
    <3>1. suite' = SuiteOf(ph, d + 1, n + 1, p + 1, f, b) /\ bad' = bad
      BY <1>1, <2>2, <2>3 DEF Counted, SuiteOf
    <3>2. Fits(ph, d + 1, n + 1, p + 1, f, b, bad')
      BY <1>2, <3>1 DEF Fits
    <3> QED BY <2>1, <3>1, <3>2, CountsFitNext
  <2>4. CASE ~ok
    <3>1. suite' = SuiteOf(ph, d + 1, n + 1, p, f + 1, b) /\ bad' = bad \cup {ph}
      BY <1>1, <1>3, <2>2, <2>4 DEF Counted, SuiteOf
    <3>2. Fits(ph, d + 1, n + 1, p, f + 1, b, bad')
      BY <1>2, <3>1 DEF Fits
    <3> QED BY <2>1, <3>1, <3>2, CountsFitNext
  <2> QED BY <2>3, <2>4
<1>6. CASE EndPhase
  <2>1. d = 3 /\ bad' = bad /\ result["smoke"] = "running"
    BY <1>3, <1>6 DEF EndPhase, Pods, Jobs
  <2>2. CASE PhaseFails \/ ph = 3
    <3>1. suite' = suite /\ result'["smoke"] = IF f = 0 THEN "ok" ELSE "failed"
      BY <1>3, <1>6, <2>2 DEF EndPhase, Exit, Pods, Jobs, AllPassed
    <3>2. f = 0 => ph = 3
      BY <1>2, <1>3, <2>2 DEF PhaseFails, Fits
    <3> QED BY <1>1, <1>2, <2>1, <3>1, <3>2, CountsFitNext
  <2>3. CASE ~(PhaseFails \/ ph = 3)
    <3>1. /\ suite' = [suite EXCEPT !.phase = @ + 1, !.done = 0, !.before = suite.failed]
          /\ result' = result
      BY <1>3, <1>6, <2>3 DEF EndPhase
    <3>2. suite' = SuiteOf(ph + 1, 0, n, p, f, f) /\ ph + 1 \in 1..3
      <4>1. ph + 1 \in 1..3
        BY <2>3
      <4>2. suite' = [suite EXCEPT !.phase = ph + 1, !.done = 0, !.before = f]
        BY <1>1, <1>3, <3>1
      <4>3. suite' = SuiteOf(ph + 1, 0, n, p, f, f)
        BY <1>1, <4>2 DEF SuiteOf
      <4> QED BY <4>1, <4>3
    <3>3. ph = 1 => f = b
      BY <1>3, <2>3 DEF PhaseFails, Required
    <3>4. Fits(ph + 1, 0, n, p, f, f, bad')
      BY <1>2, <2>1, <3>3 DEF Fits
    <3> QED BY <2>1, <3>1, <3>2, <3>4, CountsFitNext
  <2> QED BY <2>2, <2>3
<1> QED BY <1>4, <1>5, <1>6 DEF SmokeStep

LEMMA CountsStart ==
    ASSUME Pods, Counts, NEW j \in Jobs, StartJob(j) PROVE Counts'
<1>1. CASE j = "smoke"
  <2>1. suite' = NewSuite /\ bad' = {} /\ result'["smoke"] = "running"
    BY <1>1, StartKeeps DEF StartJob
  <2> QED BY <2>1 DEF Counts, Suites, NewSuite
<1>2. CASE j # "smoke"
  <2>1. UNCHANGED testing /\ result'["smoke"] = result["smoke"]
    BY <1>2, StartKeeps DEF StartJob, Jobs
  <2> QED BY <2>1 DEF Counts, Suites, testing
<1> QED BY <1>1, <1>2

-----------------------------------------------------------------------------
(* The integration test *)

LEMMA PoliciesKept ==
    ASSUME Pods, Policies, IntegrationStep \/ PartiesTimeout PROVE Policies'
<1>1. /\ Moves("integration") /\ Pod' = Pod /\ Pod \in Nat
      /\ result'["integration"] = "running" => result["integration"] = "running"
  BY IntegrationMoves DEF Moves, Beside, Pods, Jobs, Pod
<1>2. CASE CreatePolicy
  <2>1. /\ policies' \subseteq policies \cup {Pod} /\ passed' = passed
        /\ result["integration"] = "running"
    BY <1>2 DEF CreatePolicy, InCall, Pods, Jobs
  <2> QED BY <1>1, <2>1 DEF Policies
<1>3. CASE DeletePolicy
  <2>1. \/ /\ policies' = policies \ {Pod} /\ passed' = passed \cup {Pod}
           /\ result'["integration"] = "ok"
        \/ policies' \subseteq policies /\ passed' = passed
    BY <1>3 DEF DeletePolicy, Exit, governing, Pods, Jobs
  <2> QED BY <1>1, <2>1 DEF Policies
<1>4. CASE UNCHANGED governing
  BY <1>1, <1>4 DEF Policies, governing
<1> QED BY <1>2, <1>3, <1>4 DEF IntegrationStep, PartiesTimeout, Uninstall, RegisterUser,
           RegisterServer, Register, InitiateReshare, EnoughParties, StartSession,
           PerformReshare, Suggest, SignPolicy, GetPolicy

LEMMA PoliciesStart ==
    ASSUME Pods, Policies, NEW j \in Jobs, StartJob(j) PROVE Policies'
<1>1. policies' = policies /\ passed' = passed /\ "integration" \in Jobs /\ Pod \in Nat
  BY DEF StartJob, governing, Jobs, Pods, Pod
<1>2. CASE j = "integration"
  <2>1. Pod' = Pod + 1
    BY <1>1, <1>2, StartKeeps DEF Pod
  <2> QED BY <1>1, <2>1 DEF Policies
<1>3. CASE j # "integration"
  <2>1. Pod' = Pod /\ result'["integration"] = result["integration"]
    BY <1>1, <1>3, StartKeeps DEF Pod
  <2> QED BY <1>1, <2>1 DEF Policies
<1> QED BY <1>2, <1>3

\* The relay knows one more, or the pod is elsewhere.
LEMMA JoiningBeside ==
    ASSUME Joining, UNCHANGED <<parties, committee>>,
           \/ relay' = relay
           \/ \E p \in Parties : relay' = [relay EXCEPT !.joined = @ \cup {p}]
           \/ relay' = [relay EXCEPT !.invited = TRUE],
           pc'["integration"] \in Early => pc["integration"] \in Early,
           pc'["integration"] = "start" => pc["integration"] = "start"
    PROVE  Joining'
<1>1. /\ relay' \in [joined : SUBSET Parties, invited : BOOLEAN, started : SUBSET Parties]
      /\ relay'.started = relay.started
      /\ relay'.joined = relay.joined \/ \E p : relay'.joined = relay.joined \cup {p}
  <2>1. relay \in [joined : SUBSET Parties, invited : BOOLEAN, started : SUBSET Parties]
    BY DEF Joining
  <2>2. CASE \E p \in Parties : relay' = [relay EXCEPT !.joined = @ \cup {p}]
    BY <2>1, <2>2
  <2>3. CASE relay' = relay \/ relay' = [relay EXCEPT !.invited = TRUE]
    BY <2>1, <2>3
  <2> QED BY <2>2, <2>3
<1>2. IsFiniteSet(relay'.joined)
  BY <1>1, FS_AddElement DEF Joining
<1> QED BY <1>1, <1>2 DEF Joining, InCall, Committees, NewParties, Early

LEMMA JoiningKept ==
    ASSUME Pods, Joining, IntegrationStep \/ PartiesTimeout PROVE Joining'
<1>1. User \in Parties /\ Server \in Parties
  BY JobsAssumption DEF Parties
<1>2. ASSUME NEW c, Then(c) PROVE pc'["integration"] = c
  BY <1>2 DEF Then, Call, Pods, Jobs
<1>3. ASSUME Refused PROVE pc'["integration"] = "none"
  BY <1>3 DEF Refused, Fail, Exit, Pods, Jobs
<1>4. CASE Uninstall \/ RegisterUser \/ RegisterServer \/ InitiateReshare
  <2>1. /\ UNCHANGED <<parties, committee>>
        /\ \/ relay' = relay
           \/ \E p \in Parties : relay' = [relay EXCEPT !.joined = @ \cup {p}]
           \/ relay' = [relay EXCEPT !.invited = TRUE]
    BY <1>1, <1>4 DEF Uninstall, RegisterUser, RegisterServer, Register, InitiateReshare,
                      installing
  <2>2. pc["integration"] \in Early /\ pc'["integration"] # "start"
    BY <1>2, <1>3, <1>4 DEF Uninstall, RegisterUser, RegisterServer, Register,
                            InitiateReshare, InCall, Early
  <2> QED BY <2>1, <2>2, JoiningBeside
<1>5. CASE EnoughParties
  <2>1. /\ relay' = relay /\ committee' = committee /\ committee = <<>>
        /\ parties' = relay.joined /\ Cardinality(relay.joined) >= 4
    BY <1>5 DEF EnoughParties, ExpectedCount, Joining, InCall, Early
  <2> QED BY <2>1 DEF Joining, Early
<1>6. CASE StartSession
  <2>1. /\ parties' = parties /\ committee = <<>> /\ Cardinality(parties) >= 4
        /\ relay' = relay \/ relay' = [relay EXCEPT !.started = parties]
        /\ \/ /\ pc'["integration"] = "reshare" /\ committee' \in Committees
              /\ relay' = [relay EXCEPT !.started = parties]
           \/ pc'["integration"] = "none" /\ committee' = committee
    BY <1>2, <1>3, <1>6 DEF StartSession, Joining, InCall, Early
  <2>2. /\ relay' \in [joined : SUBSET Parties, invited : BOOLEAN, started : SUBSET Parties]
        /\ relay'.joined = relay.joined
        /\ committee' # <<>> => relay'.started = parties
    BY <2>1 DEF Joining
  <2> QED BY <2>1, <2>2 DEF Joining, InCall, Committees, NewParties, Early
<1>7. CASE PerformReshare \/ Suggest \/ SignPolicy \/ CreatePolicy \/ GetPolicy \/ DeletePolicy
           \/ PartiesTimeout
  <2>1. UNCHANGED <<relay, parties, committee>>
    BY <1>7 DEF PerformReshare, Suggest, SignPolicy, CreatePolicy, GetPolicy, DeletePolicy,
                PartiesTimeout, installing
  <2>2. Refused \/ Exit("integration", "ok")
        \/ \E c \in {"suggest", "sign", "create", "get", "delete"} : Then(c)
    BY <1>7 DEF PerformReshare, Suggest, SignPolicy, CreatePolicy, GetPolicy, DeletePolicy,
                PartiesTimeout
  <2>3. pc'["integration"] \notin Early
    <3>1. Exit("integration", "ok") => pc'["integration"] = "none"
      BY DEF Exit, Pods, Jobs
    <3> QED BY <1>2, <1>3, <2>2, <3>1 DEF Early
  <2> QED BY <2>1, <2>3, JoiningBeside DEF Early
<1> QED BY <1>4, <1>5, <1>6, <1>7 DEF IntegrationStep

LEMMA JoiningStart ==
    ASSUME Pods, Joining, NEW j \in Jobs, StartJob(j) PROVE Joining'
<1>1. CASE j = "integration"
  <2>1. /\ relay' = NoSession /\ parties' = {} /\ committee' = <<>>
        /\ pc'["integration"] = "uninstall"
    BY <1>1, StartKeeps DEF StartJob, FirstCall
  <2> QED BY <2>1, FS_EmptySet DEF Joining, InCall, NoSession
<1>2. CASE j # "integration"
  <2>1. UNCHANGED <<relay, parties, committee>> /\ pc'["integration"] = pc["integration"]
    BY <1>2, StartKeeps DEF StartJob, installing, Jobs
  <2> QED BY <2>1, JoiningBeside
<1> QED BY <1>1, <1>2

-----------------------------------------------------------------------------
(* The theorems *)

LEMMA InitInv == Init => JInv
<1> SUFFICES ASSUME Init PROVE JInv
  OBVIOUS
<1> USE DEF Init
<1>1. Pods
  BY DEF Pods, Outcomes, Jobs
<1>2. Seeding
  BY DEF Seeding, Whole, Rows, NoRows, Jobs
<1>3. Counts
  <2>1. suite = SuiteOf(1, 0, 0, 0, 0, 0)
    BY DEF NewSuite, SuiteOf
  <2>2. Fits(1, 0, 0, 0, 0, 0, bad) /\ result["smoke"] # "ok"
    BY DEF Fits, Jobs
  <2> QED BY <2>1, <2>2, CountsFit
<1>4. Joining
  BY FS_EmptySet DEF Joining, NoSession, InCall, Jobs
<1>5. Policies
  BY DEF Policies, Jobs
<1> QED BY <1>1, <1>2, <1>3, <1>4, <1>5 DEF JInv

LEMMA NextInv == JInv /\ [Next]_vars => JInv'
<1> SUFFICES ASSUME JInv, [Next]_vars PROVE JInv'
  OBVIOUS
<1> USE DEF JInv
<1>0. {"seeder", "smoke", "integration"} = Jobs
  BY DEF Jobs
\* A step that lets a part be.
<1>a. ASSUME UNCHANGED testing, result'["smoke"] \in {result["smoke"], "failed"}
      PROVE  Counts'
  BY <1>a DEF Counts, testing
<1>b. ASSUME UNCHANGED governing, Pod' = Pod,
             result'["integration"] \in {result["integration"], "failed"}
      PROVE  Policies'
  BY <1>b DEF Policies, governing
<1>c. ASSUME UNCHANGED installing, pc'["integration"] \in {pc["integration"], "none"}
      PROVE  Joining'
  BY <1>c, JoiningBeside DEF installing, Early
<1>1. CASE UNCHANGED vars
  <2>1. Pods' /\ Seeding'
    BY <1>1 DEF vars, Pods, Seeding, Whole, Complete
  <2> QED BY <1>1, <1>a, <1>b, <1>c, <2>1 DEF vars, testing, governing, installing, Pod
<1>2. ASSUME NEW j \in Jobs, StartJob(j) PROVE JInv'
  BY <1>2, StartKeeps, SeedingStarts, CountsStart, PoliciesStart, JoiningStart
<1>3. ASSUME NEW j \in Jobs, KillPod(j) PROVE JInv'
  <2>1. Moves(j) /\ result'[j] = "failed" /\ pc'[j] = "none"
    BY <1>3, KillMoves DEF Moves
  <2>2. \A k \in Jobs : result'[k] \in {result[k], "failed"} /\ pc'[k] \in {pc[k], "none"}
    BY <2>1 DEF Moves, Beside
  <2>3. Seeding'
    <3>1. /\ UNCHANGED <<db, env>> /\ tx' \in {tx, db}
          /\ j # "seeder" => tx' = tx /\ pc'["seeder"] = pc["seeder"]
      BY <1>0, <1>3, <2>1 DEF KillPod, Moves, Beside
    <3>2. j = "seeder" => pc'["seeder"] = "none"
      BY <2>1
    <3> QED BY <1>0, <2>2, <3>1, <3>2, SeedingBeside
  <2>4. Counts' /\ Policies' /\ Joining'
    BY <1>0, <1>3, <1>a, <1>b, <1>c, <2>2 DEF KillPod, Pod
  <2> QED BY <2>1, <2>3, <2>4 DEF Moves
<1>4. CASE SeederStep
  <2>1. Moves("seeder") /\ UNCHANGED <<testing, installing, governing>>
    BY <1>4, SeederMoves DEF SeederStep, UpsertPlugin, UpsertPluginAPIKey, UpsertVaultToken,
                             Statement, Commit, StatementFails
  <2>2. Pods' /\ result'["smoke"] = result["smoke"] /\ Pod' = Pod
        /\ result'["integration"] = result["integration"]
        /\ pc'["integration"] = pc["integration"]
    BY <1>0, <2>1 DEF Moves, Beside, Pod
  <2> QED BY <1>4, <1>a, <1>b, <1>c, <2>1, <2>2, SeedingSteps
<1>5. CASE SmokeStep
  <2>1. Moves("smoke") /\ UNCHANGED <<seeding, installing, governing>>
    BY <1>5, SmokeMoves DEF SmokeStep, VerifierHealthy, VerifierUnhealthy, RunTest, EndPhase
  <2>2. /\ Pods' /\ result'["smoke"] \in {result["smoke"], "ok", "failed"} /\ Pod' = Pod
        /\ \A k \in Jobs \ {"smoke"} : result'[k] = result[k] /\ pc'[k] = pc[k]
    BY <2>1 DEF Moves, Beside, Pod
  <2>3. Seeding'
    BY <1>0, <2>1, <2>2, SeedingBeside DEF seeding
  <2> QED BY <1>0, <1>5, <1>b, <1>c, <2>1, <2>2, <2>3, CountsKept
<1>6. CASE IntegrationStep \/ PartiesTimeout
  <2>1. Moves("integration") /\ UNCHANGED <<seeding, testing>>
    BY <1>6, IntegrationMoves DEF IntegrationStep, PartiesTimeout, Uninstall, RegisterUser,
         RegisterServer, Register, InitiateReshare, EnoughParties, StartSession,
         PerformReshare, Suggest, SignPolicy, CreatePolicy, GetPolicy, DeletePolicy
  <2>2. /\ Pods' /\ result'["integration"] \in {result["integration"], "ok", "failed"}
        /\ \A k \in Jobs \ {"integration"} : result'[k] = result[k] /\ pc'[k] = pc[k]
    BY <2>1 DEF Moves, Beside
  <2>3. Seeding'
    BY <1>0, <2>1, <2>2, SeedingBeside DEF seeding
  <2> QED BY <1>0, <1>6, <1>a, <2>1, <2>2, <2>3, PoliciesKept, JoiningKept
<1>7. CASE TimePasses \/ \E p \in Remote : Join(p)
  <2>1. UNCHANGED <<seeding, result, starts, pc, testing, governing, parties, committee>>
    BY <1>7 DEF TimePasses, Join
  <2>2. \/ relay' = relay
        \/ \E p \in Parties : relay' = [relay EXCEPT !.joined = @ \cup {p}]
    BY <1>7 DEF TimePasses, Join, Parties
  <2>3. Pods' /\ Seeding'
    BY <2>1 DEF seeding, Pods, Seeding, Whole, Complete
  <2>4. Joining'
    BY <2>1, <2>2, JoiningBeside
  <2> QED BY <1>a, <1>b, <2>1, <2>3, <2>4 DEF Pod
<1> QED BY <1>1, <1>2, <1>3, <1>4, <1>5, <1>6, <1>7 DEF Next

\* What pods, rows, tests and the committee are in every reachable state.
THEOREM InductiveInvariant == Spec => []JInv
  BY InitInv, NextInv, PTL DEF Spec

\* The verifier sees the rows of one configuration or none, and those of the seeder
\* that succeeded, whatever pods were lost and run again.
THEOREM SeedersVouch == Spec => []SeederVouches
<1>1. JInv => SeederVouches
  BY DEF JInv, Seeding, Whole, Complete, SeederVouches
<1> QED BY <1>1, InductiveInvariant, PTL

\* A smoke Job that succeeded has run all tests of all phases, and each passed.
THEOREM SmokeTestsVouch == Spec => []SmokeVouches
<1>1. JInv => SmokeVouches
  <2> SUFFICES ASSUME JInv PROVE SmokeVouches
    OBVIOUS
  <2>1. Counts /\ Len(Phases) = 3
    BY ThreePhases DEF JInv
  <2>2. PICK ph \in 1..3, d \in 0..3, n \in Nat, p \in Nat, f \in Nat, b \in Nat :
            suite = SuiteOf(ph, d, n, p, f, b)
    BY <2>1, SuiteFields
  <2>3. /\ suite.phase = ph /\ suite.total = n /\ suite.passed = p /\ suite.failed = f
        /\ Fits(ph, d, n, p, f, b, bad)
        /\ result["smoke"] = "ok" => f = 0 /\ ph = 3 /\ d = 3
    BY <2>1, <2>2, CountsFit DEF SuiteOf
  <2>4. result["smoke"] = "ok" => p = 9
    BY <2>3 DEF Fits
  <2> QED BY <2>1, <2>3, <2>4, NineTests DEF SmokeVouches, Fits
<1> QED BY <1>1, InductiveInvariant, PTL

\* Policies stay at the verifier only of integration Jobs that failed.
THEOREM LeftoversAreOfFailures == Spec => []LeftoversOfFailures
<1>1. JInv => LeftoversOfFailures
  BY DEF JInv, Policies, LeftoversOfFailures
<1> QED BY <1>1, InductiveInvariant, PTL

\* What buildReshareCommittee builds: each old signer and each party the relay was
\* told of, once; more than the parties the install plays itself.
LEMMA CommitteeOf ==
    ASSUME IsFiniteSet(parties), Cardinality(parties) >= 4, NEW c \in Committees
    PROVE  /\ IsInjective(c) /\ Range(c) = Range(Signers) \cup parties
           /\ 2 < Threshold(c)
<1> DEFINE N == NewParties
           T == Range(Signers) \cup parties
<1>1. IsFiniteSet(N) /\ N \subseteq parties /\ N \cap Range(Signers) = {}
      /\ T = Range(Signers) \cup N
  BY FS_Subset DEF NewParties
<1>2. PICK l \in SetToSeqs(N) : c = Signers \o l
  BY DEF Committees
<1>3. PICK n \in Nat : n = Cardinality(N)
  BY <1>1, FS_CardinalityType
<1>4. l \in [1..n -> N] /\ \A i, j \in 1..n : l[i] = l[j] => i = j
  BY <1>2, <1>3 DEF SetToSeqs
<1>5. \A x \in N : \E i \in 1..n : l[i] = x
  <2>1. l \in Injection(1..n, N)
    BY <1>4 DEF Injection, IsInjective
  <2>2. Cardinality(1..n) = n
    BY <1>3, FS_Interval
  <2>3. l \in Surjection(1..n, N)
    BY <1>1, <1>3, <2>1, <2>2, FS_Injection
  <2> QED BY <2>3 DEF Surjection
<1>6. /\ Signers \in Seq(T) /\ l \in Seq(T) /\ Len(l) = n
      /\ Len(Signers) \in Nat /\ DOMAIN Signers = 1..Len(Signers)
  <2>1. Signers \in Seq(Range(Signers))
    BY JobsAssumption
  <2>2. Signers \in Seq(T)
    BY <2>1, SeqMonotonic
  <2>3. l \in Seq(T) /\ Len(l) = n
    BY <1>1, <1>3, <1>4
  <2> QED BY <2>1, <2>2, <2>3, LenProperties
<1>7. PICK m \in Nat : m = Len(Signers)
  BY <1>6
<1>8. /\ c \in Seq(T) /\ Len(c) = m + n /\ DOMAIN c = 1..(m + n)
      /\ \A i \in 1..(m + n) : c[i] = IF i <= m THEN Signers[i] ELSE l[i - m]
  <2>1. /\ c \in Seq(T) /\ Len(c) = Len(Signers) + Len(l)
        /\ \A i \in 1..(Len(Signers) + Len(l)) :
              c[i] = IF i <= Len(Signers) THEN Signers[i] ELSE l[i - Len(Signers)]
    BY <1>2, <1>6, ConcatProperties, Zenon
  <2>2. DOMAIN c = 1..Len(c)
    BY <2>1, LenProperties
  <2> QED BY <1>6, <1>7, <2>1, <2>2
<1>9. /\ \A i \in 1..m : c[i] = Signers[i] /\ i \in 1..(m + n)
      /\ \A i \in 1..n : c[m + i] = l[i] /\ m + i \in 1..(m + n)
      /\ \A i \in 1..(m + n) : i \in 1..m \/ \E k \in 1..n : i = m + k
  BY <1>8
<1>10. /\ \A i \in 1..m : Signers[i] \in Range(Signers)
       /\ \A x \in Range(Signers) : \E i \in 1..m : Signers[i] = x
       /\ \A i, j \in 1..m : Signers[i] = Signers[j] => i = j
  BY <1>6, <1>7, JobsAssumption DEF Range, IsInjective
<1>11. IsInjective(c)
  <2> SUFFICES ASSUME NEW i \in 1..(m + n), NEW j \in 1..(m + n), c[i] = c[j] PROVE i = j
    BY <1>8 DEF IsInjective
  <2>1. CASE i \in 1..m /\ j \in 1..m
    BY <1>9, <1>10, <2>1
  <2>2. ASSUME NEW k \in 1..n, NEW h \in 1..n, i = m + k, j = m + h PROVE i = j
    <3>1. l[k] = l[h]
      BY <1>9, <2>2
    <3> QED BY <1>4, <2>2, <3>1
  <2>3. ASSUME NEW k \in 1..m, NEW h \in 1..n, c[k] = c[m + h] PROVE FALSE
    <3>1. Signers[k] = l[h] /\ l[h] \in N
      BY <1>4, <1>9, <2>3
    <3> QED BY <1>1, <1>10, <3>1
  <2> QED BY <1>9, <2>1, <2>2, <2>3
<1>12. Range(c) = T
  <2>1. ASSUME NEW x \in T PROVE \E i \in 1..(m + n) : c[i] = x
    BY <1>1, <1>5, <1>9, <1>10, <2>1
  <2>2. \A i \in 1..(m + n) : c[i] \in T
    BY <1>8, ElementOfSeq
  <2> QED BY <1>8, <2>1, <2>2 DEF Range
<1>13. m + n >= 4
  <2>1. c \in Surjection(1..(m + n), T)
    <3>1. c \in [1..(m + n) -> T]
      BY <1>8, LenProperties
    <3> QED BY <1>8, <1>12, <3>1 DEF Surjection, Range
  <2>2. IsFiniteSet(1..(m + n)) /\ Cardinality(1..(m + n)) = m + n
    <3>1. 1 \in Int /\ m + n \in Int /\ m + n >= 0
      OBVIOUS
    <3> QED BY <3>1, FS_Interval
  <2>3. IsFiniteSet(T) /\ Cardinality(T) <= m + n
    BY <2>1, <2>2, FS_Surjection
  <2>4. Cardinality(parties) <= Cardinality(T)
    BY <2>3, FS_Subset
  <2> QED BY <2>3, <2>4, FS_CardinalityType
<1>14. 2 < Threshold(c)
  <2>1. (2 * (m + n) + 2) \div 3 >= 3
    BY <1>13
  <2> QED BY <1>8, <2>1 DEF Threshold
<1> QED BY <1>11, <1>12, <1>14

\* The committee of a session is everyone, once each, whoever joined.
THEOREM CommitteesFit == Spec => []CommitteeFits
<1>1. JInv => CommitteeFits
  <2> SUFFICES ASSUME JInv, committee # <<>> PROVE CommitteeFits
    BY DEF CommitteeFits
  <2>1. /\ committee \in Committees /\ relay.started = parties /\ IsFiniteSet(parties)
        /\ Cardinality(parties) >= 4
    BY DEF JInv, Joining
  <2>2. /\ IsInjective(committee) /\ Range(committee) = Range(Signers) \cup parties
        /\ 2 < Threshold(committee)
    BY <2>1, CommitteeOf
  <2>3. {committee[i] : i \in OldIndices(committee)} = Range(Signers)
    BY <2>2 DEF OldIndices, Range
  <2>4. {committee[i] : i \in NewIndices(committee)} = parties
    BY <2>2 DEF NewIndices, Range
  <2>5. Cardinality({User, Server}) \in {1, 2}
    <3>1. {User, Server} = {User} \cup {Server}
      OBVIOUS
    <3>2. IsFiniteSet({User}) /\ Cardinality({User}) = 1
      BY FS_Singleton
    <3>3. Cardinality({User} \cup {Server}) = IF Server \in {User} THEN 1 ELSE 1 + 1
      BY <3>2, FS_AddElement
    <3>4. Cardinality({User, Server}) = Cardinality({User} \cup {Server})
      BY ONLY <3>1, Zenon
    <3>5. (IF Server \in {User} THEN 1 ELSE 1 + 1) \in {1, 2}
      OBVIOUS
    <3> QED BY <3>3, <3>4, <3>5, Zenon
  <2>6. Threshold(committee) \in Int
    BY <2>1, <2>2 DEF Threshold
  <2> QED BY <2>1, <2>2, <2>3, <2>4, <2>5, <2>6 DEF CommitteeFits
<1> QED BY <1>1, InductiveInvariant, PTL
=============================================================================
