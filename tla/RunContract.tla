---------------------------- MODULE RunContract -----------------------------
(***************************************************************************)
(* What the system promises a client that polls a run: while work on the   *)
(* run is open its status may move (a shutdown may even start it again);   *)
(* once the work is closed it never reopens, the status can then only turn *)
(* from RUNNING to ERROR, and a closed run does not stay RUNNING.          *)
(***************************************************************************)
CONSTANT Runs
VARIABLES status,               \* what the API shows of the run
          open                  \* somebody is still to act on the run

vars == <<status, open>>

Init == /\ status = [r \in Runs |-> "absent"]
        /\ open   = [r \in Runs |-> FALSE]

Ask(r) == /\ status[r] = "absent"
          /\ status' = [status EXCEPT ![r] = "QUEUED"]
          /\ open'   = [open EXCEPT ![r] = TRUE]

Work(r) == /\ open[r]
           /\ \E s \in {"RUNNING", "PASSED", "FAILED", "ERROR"} :
                 /\ s \in {"PASSED", "FAILED"} => status[r] # "QUEUED"
                 /\ status' = [status EXCEPT ![r] = s]
           /\ UNCHANGED open

\* The last of those who had work on the run is done; its last write may be
\* part of the same step.
Close(r) == /\ open[r]
            /\ open' = [open EXCEPT ![r] = FALSE]
            /\ \/ UNCHANGED status
               \/ status' = [status EXCEPT ![r] = "ERROR"]

Expire(r) == /\ ~open[r]
             /\ status[r] = "RUNNING"
             /\ status' = [status EXCEPT ![r] = "ERROR"]
             /\ UNCHANGED open

Next == \E r \in Runs : Ask(r) \/ Work(r) \/ Close(r) \/ Expire(r)

Spec == Init /\ [][Next]_vars
FairSpec == Spec /\ \A r \in Runs : WF_vars(Close(r)) /\ WF_vars(Expire(r))
=============================================================================
