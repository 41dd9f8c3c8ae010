---------------------------- MODULE MCEnvironment ----------------------------
(* Environment with endpoints of each kind of port. *)
EXTENDS Environment

MCEndpoints == {[scheme |-> "http", port |-> None], [scheme |-> "https", port |-> None],
                [scheme |-> "http", port |-> 8443]}
=============================================================================
