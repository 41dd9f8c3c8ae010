------------------------------ MODULE TestJobs ------------------------------
(***************************************************************************)
(* The testrunner image (cmd/testrunner, internal/testrunner) in one       *)
(* run's namespace: the seeder, smoke and integration Jobs around one      *)
(* verifier.  They follow one another, and a Job may run again: a rerun of *)
(* the task creates anew what the TTL removed, perhaps with another        *)
(* configuration and while a later Job of the attempt before still runs.   *)
(*                                                                         *)
(* An action is one call to a service.  Reshare and LocalSign model what   *)
(* is one step here.  The buckets of SeedVaults are left out: an error of  *)
(* their creation is ignored.                                              *)
(***************************************************************************)
EXTENDS Naturals, Sequences, SequencesExt, FiniteSets

CONSTANTS Configs,      \* PLUGIN_ENDPOINT with its PLUGIN_API_KEY
          NoConfig,
          Signers,      \* vault.Signers, the old parties in order
          User, Server, \* LocalPartyId of the two vaults
          Remote,       \* parties that join when the verifier is asked to
          MaxStarts     \* bound: pods of each Job

ASSUME JobsAssumption ==
    /\ NoConfig \notin Configs /\ Signers \in Seq(Range(Signers))
    /\ {User, Server} \subseteq Range(Signers) /\ IsInjective(Signers)
    /\ Remote \cap Range(Signers) = {}
    /\ MaxStarts \in [{"seeder", "smoke", "integration"} -> Nat]

VARIABLES db, tx,               \* the tables as committed; the transaction
          env,                  \* the configuration in the seeder's Job
          result, starts,       \* of each Job
          pc,                   \* the next call of each pod
          suite,                \* TestSuite
          bad,                  \* history: phases with a failed test
          relay,                \* the session of the install
          late,                 \* the 3 minutes are over
          parties, committee,   \* of RunInstall
          policies,             \* at the verifier, by the pod that made them
          passed                \* history: pods of the integration Job

vars == <<db, tx, env, result, starts, pc, suite, bad, relay, late, parties,
          committee, policies, passed>>
seeding == <<db, tx, env>>
testing == <<suite, bad>>
installing == <<relay, late, parties, committee>>
governing == <<policies, passed>>

Jobs == {"seeder", "smoke", "integration"}
EarlierJobs(j) == CASE j = "seeder" -> {}
                    [] j = "smoke" -> {"seeder"}
                    [] j = "integration" -> {"seeder", "smoke"}
FirstCall(j) == CASE j = "seeder" -> "plugin"
                  [] j = "smoke" -> "health"
                  [] j = "integration" -> "uninstall"

NoRows == [plugin |-> NoConfig, keys |-> {}, token |-> FALSE]
NoSession == [joined |-> {}, invited |-> FALSE, started |-> {}]

\* The tests of each phase, with the one plugin of GetTestPlugins.
HealthChecks == <<"VerifierHealth", "PluginHealth", "PluginSeeded">>
VerifierPluginTests == <<"GetRecipeSpecification", "GetRecipeFunctions", "Reshare">>
PluginEndpointTests == <<"PluginVaultExist", "PluginVaultGet", "PluginSignResponse">>
Phases == <<HealthChecks, VerifierPluginTests, PluginEndpointTests>>
Required == {1}
NewSuite == [phase |-> 1, done |-> 0, total |-> 0, passed |-> 0,
             failed |-> 0, before |-> 0]

Parties == Range(Signers) \cup Remote

Init == /\ db = NoRows /\ tx = NoRows /\ env = NoConfig
        /\ result = [j \in Jobs |-> "absent"]
        /\ starts = [j \in Jobs |-> 0]
        /\ pc = [j \in Jobs |-> "none"]
        /\ suite = NewSuite /\ bad = {}
        /\ relay = NoSession /\ late = FALSE
        /\ parties = {} /\ committee = <<>>
        /\ policies = {} /\ passed = {}

-----------------------------------------------------------------------------
(* Pods *)

\* The pod of j ends: os.Exit(0), or Fatal.
Exit(j, r) == /\ result' = [result EXCEPT ![j] = r]
              /\ pc' = [pc EXCEPT ![j] = "none"]

Fail(j) == Exit(j, "failed")
Call(j, c) == pc' = [pc EXCEPT ![j] = c] /\ UNCHANGED result

\* The runner creates Job j when the earlier ones have succeeded.
StartJob(j) ==
    /\ result[j] # "running"
    /\ \A i \in EarlierJobs(j) : result[i] = "ok"
    /\ starts[j] < MaxStarts[j]
    /\ starts' = [starts EXCEPT ![j] = @ + 1]
    /\ result' = [result EXCEPT ![j] = "running"]
    /\ pc' = [pc EXCEPT ![j] = FirstCall(j)]
    /\ IF j = "seeder"
       THEN \E c \in Configs : env' = c /\ tx' = db
       ELSE UNCHANGED <<env, tx>>
    /\ IF j = "smoke" THEN suite' = NewSuite /\ bad' = {}
                      ELSE UNCHANGED testing
    /\ IF j = "integration"
       THEN /\ relay' = NoSession /\ late' = FALSE
            /\ parties' = {} /\ committee' = <<>>
       ELSE UNCHANGED installing
    /\ UNCHANGED <<db, governing>>

\* A pod is lost, and never restarted; its transaction is rolled back.
KillPod(j) ==
    /\ result[j] = "running"
    /\ Fail(j)
    /\ tx' = IF j = "seeder" THEN db ELSE tx
    /\ UNCHANGED <<db, env, starts, testing, installing, governing>>

-----------------------------------------------------------------------------
(* The seeder: one transaction *)

\* Mutant of Execute: the statement is not part of the transaction.
ExecuteOnPool(rows) == tx' = rows /\ db' = rows

Execute(rows) == tx' = rows /\ UNCHANGED db

\* Any statement may fail; the transaction is rolled back.
StatementFails ==
    /\ pc["seeder"] \in {"plugin", "key", "token", "commit"}
    /\ Fail("seeder")
    /\ tx' = db
    /\ UNCHANGED <<db, env, starts, testing, installing, governing>>

Statement(name, rows, next) ==
    /\ pc["seeder"] = name
    /\ Execute(rows)
    /\ Call("seeder", next)
    /\ UNCHANGED <<env, starts, testing, installing, governing>>

\* Mutant of UpsertPlugin: a row that is there is left as it is.
InsertPlugin ==
    Statement("plugin",
              [tx EXCEPT !.plugin = IF @ = NoConfig THEN env ELSE @], "key")

\* ON CONFLICT DO UPDATE: the endpoint is the one of this configuration.
UpsertPlugin == Statement("plugin", [tx EXCEPT !.plugin = env], "key")

\* ON CONFLICT DO NOTHING: keys of earlier configurations stay.
UpsertPluginAPIKey == Statement("key", [tx EXCEPT !.keys = @ \cup {env}], "token")

UpsertVaultToken == Statement("token", [tx EXCEPT !.token = TRUE], "commit")

\* The commit may be done although its answer is lost.  SeedVaults cannot fail.
Commit ==
    /\ pc["seeder"] = "commit"
    /\ db' = tx
    /\ \E r \in {"ok", "failed"} : Exit("seeder", r)
    /\ UNCHANGED <<tx, env, starts, testing, installing, governing>>

SeederStep == \/ UpsertPlugin \/ UpsertPluginAPIKey \/ UpsertVaultToken
              \/ Commit \/ StatementFails

-----------------------------------------------------------------------------
(* The smoke tests *)

\* WaitForHealth sees the verifier answer, or its 60 seconds pass.
VerifierHealthy ==
    /\ pc["smoke"] = "health"
    /\ Call("smoke", "test")
    /\ UNCHANGED <<seeding, starts, testing, installing, governing>>

VerifierUnhealthy ==
    /\ pc["smoke"] = "health"
    /\ Fail("smoke")
    /\ UNCHANGED <<seeding, starts, testing, installing, governing>>

\* TestSuite.run with what the test found.
Counted(ok) == [suite EXCEPT !.done = @ + 1, !.total = @ + 1,
                             !.passed = IF ok THEN @ + 1 ELSE @,
                             !.failed = IF ok THEN @ ELSE @ + 1]

Test == Phases[suite.phase][suite.done + 1]

\* Any request may be refused or fail; PluginSeeded wants the plugin's row.
RunTest ==
    /\ pc["smoke"] = "test"
    /\ suite.done < Len(Phases[suite.phase])
    /\ \E ok \in BOOLEAN :
          /\ ok /\ Test = "PluginSeeded" => db.plugin # NoConfig
          /\ suite' = Counted(ok)
          /\ bad' = IF ok THEN bad ELSE bad \cup {suite.phase}
    /\ UNCHANGED <<seeding, result, starts, pc, installing, governing>>

\* Mutant of AllPassed: what one phase saw.
PhasePassed == suite.failed = suite.before

AllPassed == suite.failed = 0

\* Mutant of PhaseFails: every phase is gone through.
NeverStops == FALSE

\* A required phase with a failed test ends RunAll.
PhaseFails == suite.phase \in Required /\ suite.failed # suite.before

\* The end of a phase; of the last one, RunAll and runSmoke's exit.
EndPhase ==
    /\ pc["smoke"] = "test"
    /\ suite.done = Len(Phases[suite.phase])
    /\ IF PhaseFails \/ suite.phase = Len(Phases)
       THEN /\ Exit("smoke", IF AllPassed THEN "ok" ELSE "failed")
            /\ UNCHANGED suite
       ELSE /\ suite' = [suite EXCEPT !.phase = @ + 1, !.done = 0,
                                      !.before = suite.failed]
            /\ UNCHANGED <<result, pc>>
    /\ UNCHANGED <<seeding, starts, bad, installing, governing>>

SmokeStep == VerifierHealthy \/ VerifierUnhealthy \/ RunTest \/ EndPhase

-----------------------------------------------------------------------------
(* The integration test: RunInstall *)

InCall(c) == pc["integration"] = c
Then(c) == Call("integration", c)
Pod == starts["integration"]

\* A call fails, before or after the other side did what it asks.
Refused == Fail("integration")

\* The vaults are parsed; an error of deleteExistingPlugin is only a warning.
Uninstall ==
    /\ InCall("uninstall")
    /\ Then("user") \/ Refused
    /\ UNCHANGED <<seeding, starts, testing, installing, governing>>

\* RegisterSessionWithRetry, for the user's vault and then for the server's.
Register(c, p, next) ==
    /\ InCall(c)
    /\ \/ /\ relay' = [relay EXCEPT !.joined = @ \cup {p}]
          /\ Then(next) \/ Refused
       \/ UNCHANGED relay /\ Refused
    /\ UNCHANGED <<seeding, starts, testing, late, parties, committee, governing>>

RegisterUser == Register("user", User, "server")
RegisterServer == Register("server", Server, "initiate")

\* POST /vault/reshare: from here the verifier's side may join.
InitiateReshare ==
    /\ InCall("initiate")
    /\ \/ /\ relay' = [relay EXCEPT !.invited = TRUE]
          /\ Then("wait") \/ Refused
       \/ UNCHANGED relay /\ Refused
    /\ UNCHANGED <<seeding, starts, testing, late, parties, committee, governing>>

\* External: the verifier's party, the plugin's, or one of them anew.
Join(p) ==
    /\ relay.invited /\ result["integration"] = "running"
    /\ p \in Remote \ relay.joined
    /\ relay' = [relay EXCEPT !.joined = @ \cup {p}]
    /\ UNCHANGED <<seeding, result, starts, pc, testing, late, parties,
                   committee, governing>>

\* Mutant of ExpectedCount: without the plugin's party.
ThreeParties == 3

ExpectedCount == 4

\* waitForParties
EnoughParties ==
    /\ InCall("wait")
    /\ Cardinality(relay.joined) >= ExpectedCount
    /\ parties' = relay.joined
    /\ Then("start")
    /\ UNCHANGED <<seeding, starts, testing, relay, late, committee, governing>>

TimePasses ==
    /\ InCall("wait") /\ ~late
    /\ late' = TRUE
    /\ UNCHANGED <<seeding, result, starts, pc, testing, relay, parties,
                   committee, governing>>

\* Mutant of PartiesTimeout: it is looked at when enough have joined.
PartiesTimeoutIfEnough ==
    /\ InCall("wait") /\ late
    /\ Cardinality(relay.joined) >= ExpectedCount
    /\ Refused
    /\ UNCHANGED <<seeding, starts, testing, installing, governing>>

\* The context is looked at between two polls.
PartiesTimeout ==
    /\ InCall("wait") /\ late
    /\ Refused
    /\ UNCHANGED <<seeding, starts, testing, installing, governing>>

\* Mutant of NewParties: a signer the relay lists is in the committee twice.
ListedParties == parties

NewParties == parties \ Range(Signers)

\* buildReshareCommittee: the old signers, then whom else the relay lists, in
\* any order.
Committees == {Signers \o l : l \in SetToSeqs(NewParties)}
OldIndices(c) == {i \in DOMAIN c : c[i] \in Range(Signers)}
NewIndices(c) == {i \in DOMAIN c : c[i] \in parties}
Threshold(c) == (2 * Len(c) + 2) \div 3         \* the ceiling of 2/3

StartSession ==
    /\ InCall("start")
    /\ \/ /\ relay' = [relay EXCEPT !.started = parties]
          /\ \/ Then("reshare") /\ committee' \in Committees
             \/ Refused /\ UNCHANGED committee
       \/ UNCHANGED <<relay, committee>> /\ Refused
    /\ UNCHANGED <<seeding, starts, testing, late, parties, governing>>

\* performReshare; that parties did not complete the session is only a warning.
PerformReshare ==
    /\ InCall("reshare")
    /\ Then("suggest") \/ Refused
    /\ UNCHANGED <<seeding, starts, testing, installing, governing>>

-----------------------------------------------------------------------------
(* The integration test: RunPolicyCRUD *)

\* buildRecipeFromSuggest
Suggest ==
    /\ InCall("suggest")
    /\ Then("sign") \/ Refused
    /\ UNCHANGED <<seeding, starts, testing, installing, governing>>

\* signPolicyMessage
SignPolicy ==
    /\ InCall("sign")
    /\ Then("create") \/ Refused
    /\ UNCHANGED <<seeding, starts, testing, installing, governing>>

CreatePolicy ==
    /\ InCall("create")
    /\ \/ policies' = policies \cup {Pod} /\ (Then("get") \/ Refused)
       \/ UNCHANGED policies /\ Refused
    /\ UNCHANGED <<seeding, starts, testing, installing, passed>>

\* It is read and the message that deletes it is signed.
GetPolicy ==
    /\ InCall("get")
    /\ (Pod \in policies /\ Then("delete")) \/ Refused
    /\ UNCHANGED <<seeding, starts, testing, installing, governing>>

\* Mutant of DeletePolicy: an error is only a warning, as in Uninstall.
DeletePolicyOrWarn ==
    /\ InCall("delete")
    /\ \/ policies' = policies \ {Pod}
       \/ UNCHANGED policies
    /\ Exit("integration", "ok") /\ passed' = passed \cup {Pod}
    /\ UNCHANGED <<seeding, starts, testing, installing>>

DeletePolicy ==
    /\ InCall("delete")
    /\ \/ /\ policies' = policies \ {Pod}
          /\ \/ Exit("integration", "ok") /\ passed' = passed \cup {Pod}
             \/ Refused /\ UNCHANGED passed
       \/ UNCHANGED governing /\ Refused
    /\ UNCHANGED <<seeding, starts, testing, installing>>

IntegrationStep ==
    \/ Uninstall \/ RegisterUser \/ RegisterServer \/ InitiateReshare
    \/ EnoughParties \/ StartSession \/ PerformReshare
    \/ Suggest \/ SignPolicy \/ CreatePolicy \/ GetPolicy \/ DeletePolicy

Next == \/ \E j \in Jobs : StartJob(j) \/ KillPod(j)
        \/ SeederStep \/ SmokeStep \/ IntegrationStep
        \/ TimePasses \/ PartiesTimeout
        \/ \E p \in Remote : Join(p)

\* Calls return and clocks run; whoever should join owes nothing.
Fairness == /\ WF_vars(SeederStep) /\ WF_vars(SmokeStep)
            /\ WF_vars(IntegrationStep)
            /\ WF_vars(TimePasses) /\ WF_vars(PartiesTimeout)

Spec == Init /\ [][Next]_vars /\ Fairness

-----------------------------------------------------------------------------
(* Properties *)

\* Whatever pods of the seeder were lost and whatever of them is run again with
\* another configuration (SeedDatabase): the verifier sees a plugin, a key of the
\* configuration that plugin's row is from and the token, or none of them.  A
\* seeder that succeeded (runSeed) left the rows of its own configuration, also
\* when an earlier one had left those of another; and while the Jobs after it
\* run, a rerun of the seeder, lost or not, never takes the rows from them.
SeederVouches ==
    /\ db.plugin \in db.keys \/ db = NoRows
    /\ db.token <=> db.plugin # NoConfig
    /\ result["seeder"] = "ok" =>
           db.plugin = env /\ env \in db.keys /\ db.token
    /\ result["smoke"] = "running" \/ result["integration"] = "running" =>
           db # NoRows

\* The smoke Job succeeds only after every phase with every test passed, and no
\* test of a later phase is run after a failed health check (RunAll, runSmoke);
\* every test is counted once (TestSuite.run).
SmokeVouches ==
    /\ suite.total = suite.passed + suite.failed
    /\ result["smoke"] = "ok" => /\ bad = {}
                                 /\ suite.phase = Len(Phases)
                                 /\ suite.passed = Len(FlattenSeq(Phases))
    /\ suite.phase > 1 => 1 \notin bad

\* The committee of a started session is everyone the relay was told and every old
\* signer, once each; the indices tell them apart; the parties the install plays
\* itself are fewer than the threshold, so that the new key needs the plugin's
\* side (RunInstall, buildReshareCommittee).
CommitteeFits ==
    committee # <<>> =>
        /\ IsInjective(committee)
        /\ Range(committee) = Range(Signers) \cup relay.started
        /\ {committee[i] : i \in OldIndices(committee)} = Range(Signers)
        /\ {committee[i] : i \in NewIndices(committee)} = relay.started
        /\ Cardinality({User, Server}) < Threshold(committee)

\* A policy is left at the verifier only by an integration Job that failed, over
\* refused calls, lost answers and reruns (RunPolicyCRUD).
LeftoversOfFailures == policies \cap passed = {}

\* Every Job ends, whoever does not join and whatever call fails: RunInstall gives
\* up waiting (waitForParties).
JobsEnd == \A j \in Jobs : result[j] = "running" ~> result[j] # "running"

=============================================================================
