--------------------------- MODULE MCRunLifecycle ---------------------------
(* Model values and symmetry for the runs of RunLifecycle. *)
EXTENDS RunLifecycle, TLC

CONSTANTS r1, r2, w1, w2, h1, h2

MCOneRun      == {r1}
MCTwoRuns     == {r1, r2}
MCOneWorker   == {w1}
MCTwoWorkers  == {w1, w2}
MCTwoHandlers == {h1, h2}

\* Used with safety properties only.
MCSymmetry == Permutations(Runs) \cup Permutations(Workers)
                \cup Permutations(Handlers)
=============================================================================
