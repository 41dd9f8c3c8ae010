----------------------------- MODULE MCTestJobs -----------------------------
(* TestJobs with the two signers of a vault of the fixture. *)
EXTENDS TestJobs

MCSigners == <<"user", "server">>
MCMaxStarts == [seeder |-> 2, smoke |-> 1, integration |-> 2]
=============================================================================
