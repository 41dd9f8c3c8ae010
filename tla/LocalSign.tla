------------------------------ MODULE LocalSign ------------------------------
(***************************************************************************)
(* localSign (internal/testrunner/policy.go): the two parties of a 2-of-2  *)
(* vault sign in one process, a goroutine each, over two buffered          *)
(* channels, and the function waits for both.                              *)
(*                                                                         *)
(* The signing session is the library's (mpc.Wrapper).  What the code sees *)
(* of it: a party has Burst messages for the other one in each of Rounds   *)
(* rounds, the first at once and each later one when it was fed all of the *)
(* round before; fed all of the last round it is finished.  Messages are   *)
(* numbered from 1 in the order in which they must be fed.                 *)
(***************************************************************************)
EXTENDS Naturals, Sequences

CONSTANTS Rounds, Burst,        \* of the library's protocol
          Capacity,             \* of a channel: 100 in the code
          MaxFaults             \* bound: failed calls and early timeouts
ASSUME SizeAssumption == /\ Rounds \in Nat \ {0} /\ Burst \in Nat \ {0}
                         /\ Capacity \in Nat /\ MaxFaults \in Nat

VARIABLES main,                 \* localSign: "setup", "wait", "signed", "error"
          sessions,             \* parties whose session handle is allocated
          pc,                   \* the goroutines
          inbox,                \* the channel each party receives from
          sent, fed,            \* the sessions: messages output and fed
          err, sig,             \* what each goroutine leaves for localSign
          faults

vars == <<main, sessions, pc, inbox, sent, fed, err, sig, faults>>

Parties == {"user", "server"}
Peer(p) == IF p = "user" THEN "server" ELSE "user"

Fault == faults < MaxFaults /\ faults' = faults + 1

\* Mutant of Due: there is a round after the last one.
DueWithoutEnd(p) == Burst * (1 + fed[p] \div Burst)

\* How many messages the session of p has had to output so far.
Due(p) == LET round == 1 + fed[p] \div Burst
          IN  Burst * (IF round < Rounds THEN round ELSE Rounds)
Finished(p) == fed[p] = Burst * Rounds

Init == /\ main = "setup" /\ sessions = {}
        /\ pc = [p \in Parties |-> "none"]
        /\ inbox = [p \in Parties |-> <<>>]
        /\ sent = [p \in Parties |-> 0] /\ fed = [p \in Parties |-> 0]
        /\ err = [p \in Parties |-> "none"]
        /\ sig = [p \in Parties |-> FALSE]
        /\ faults = 0

-----------------------------------------------------------------------------
(* localSign before and after the goroutines *)

\* SignSessionFromSetup for the user, then for the server.
OpenSession(p) ==
    /\ main = "setup" /\ p \notin sessions
    /\ p = "server" => "user" \in sessions
    /\ sessions' = sessions \cup {p}
    /\ IF p = "server"
       THEN main' = "wait" /\ pc' = [q \in Parties |-> "send"]
       ELSE UNCHANGED <<main, pc>>
    /\ UNCHANGED <<inbox, sent, fed, err, sig, faults>>

\* A return frees what was allocated (deferred SignSessionFree).
SetupFails ==
    /\ main = "setup"
    /\ Fault
    /\ main' = "error" /\ sessions' = {}
    /\ UNCHANGED <<pc, inbox, sent, fed, err, sig>>

\* Mutant of Return: the first goroutine to end decides.
ReturnFirst ==
    /\ main = "wait"
    /\ \E p \in Parties : pc[p] = "ended" /\
          main' = IF err[p] = "none" THEN "signed" ELSE "error"
    /\ sessions' = {}
    /\ UNCHANGED <<pc, inbox, sent, fed, err, sig, faults>>

\* Mutant of Return: the server's error is not looked at.
ReturnUserOnly ==
    /\ main = "wait"
    /\ \A p \in Parties : pc[p] = "ended"
    /\ main' = IF err["user"] = "none" THEN "signed" ELSE "error"
    /\ sessions' = {}
    /\ UNCHANGED <<pc, inbox, sent, fed, err, sig, faults>>

Return ==
    /\ main = "wait"
    /\ \A p \in Parties : pc[p] = "ended"
    /\ main' = IF \A p \in Parties : err[p] = "none" THEN "signed" ELSE "error"
    /\ sessions' = {}
    /\ UNCHANGED <<pc, inbox, sent, fed, err, sig, faults>>

-----------------------------------------------------------------------------
(* The goroutine of p *)

\* Mutant of Send: a message is sent to itself as well as to the other party.
SendToBoth(p) ==
    /\ pc[p] = "send" /\ sent[p] < Due(p)
    /\ sent' = [sent EXCEPT ![p] = @ + 1]
    /\ inbox' = [q \in Parties |-> Append(inbox[q], sent[p] + 1)]
    /\ UNCHANGED <<main, sessions, pc, fed, err, sig, faults>>

\* sendOutbound: the next message, if the channel has room for it.
Send(p) ==
    /\ pc[p] = "send" /\ sent[p] < Due(p)
    /\ Len(inbox[Peer(p)]) < Capacity
    /\ sent' = [sent EXCEPT ![p] = @ + 1]
    /\ inbox' = [inbox EXCEPT ![Peer(p)] = Append(@, sent[p] + 1)]
    /\ UNCHANGED <<main, sessions, pc, fed, err, sig, faults>>

AfterSend(p) == pc' = [pc EXCEPT ![p] = IF Finished(p) THEN "finish" ELSE "wait"]

\* Its errors are dropped: that of the receiver's name with the message, that
\* of the output with the rest of the loop.
SendFails(p) ==
    /\ pc[p] = "send" /\ sent[p] < Due(p)
    /\ Fault
    /\ \/ sent' = [sent EXCEPT ![p] = @ + 1] /\ UNCHANGED pc
       \/ AfterSend(p) /\ UNCHANGED sent
    /\ UNCHANGED <<main, sessions, inbox, fed, err, sig>>

SendDone(p) ==
    /\ pc[p] = "send" /\ sent[p] = Due(p)
    /\ AfterSend(p)
    /\ UNCHANGED <<main, sessions, inbox, sent, fed, err, sig, faults>>

\* The goroutine of p ends with an error.
End(p, e) == /\ pc' = [pc EXCEPT ![p] = "ended"]
             /\ err' = [err EXCEPT ![p] = e]

\* Mutant of Receive: what is due after a message is not sent.
ReceiveWithoutAnswer(p) ==
    /\ pc[p] = "wait" /\ inbox[p] # <<>>
    /\ inbox' = [inbox EXCEPT ![p] = Tail(@)]
    /\ IF Head(inbox[p]) = fed[p] + 1
       THEN /\ fed' = [fed EXCEPT ![p] = @ + 1]
            /\ pc' = [pc EXCEPT ![p] = IF fed[p] + 1 = Burst * Rounds
                                       THEN "finish" ELSE "wait"]
            /\ UNCHANGED err
       ELSE End(p, "input") /\ UNCHANGED fed
    /\ UNCHANGED <<main, sessions, sent, sig, faults>>

\* SignSessionInputMessage refuses a message that is not the next one.
Receive(p) ==
    /\ pc[p] = "wait" /\ inbox[p] # <<>>
    /\ inbox' = [inbox EXCEPT ![p] = Tail(@)]
    /\ \/ /\ Head(inbox[p]) = fed[p] + 1
          /\ fed' = [fed EXCEPT ![p] = @ + 1]
          /\ pc' = [pc EXCEPT ![p] = "send"]
          /\ UNCHANGED <<err, faults>>
       \/ /\ \/ Head(inbox[p]) # fed[p] + 1 /\ UNCHANGED faults
             \/ Fault
          /\ End(p, "input")
          /\ UNCHANGED fed
    /\ UNCHANGED <<main, sessions, sent, sig>>

\* Nothing that p waits for is on its way.
Starved(p) == /\ inbox[p] = <<>>
              /\ \/ pc[Peer(p)] = "ended"
                 \/ pc[Peer(p)] = "wait" /\ inbox[Peer(p)] = <<>>

\* Mutant of Timeout: only an idle channel with a peer that goes on times out.
TimeoutWhilePeerRuns(p) ==
    /\ pc[p] = "wait" /\ pc[Peer(p)] # "ended"
    /\ \/ Starved(p) /\ UNCHANGED faults
       \/ Fault
    /\ End(p, "timeout")
    /\ UNCHANGED <<main, sessions, inbox, sent, fed, sig>>

\* 30 s without a message, or a message and the timer at the same moment.
Timeout(p) ==
    /\ pc[p] = "wait"
    /\ \/ Starved(p) /\ UNCHANGED faults
       \/ Fault
    /\ End(p, "timeout")
    /\ UNCHANGED <<main, sessions, inbox, sent, fed, sig>>

\* SignSessionFinish.
Finish(p) ==
    /\ pc[p] = "finish"
    /\ \/ /\ sig' = [sig EXCEPT ![p] = TRUE]
          /\ pc' = [pc EXCEPT ![p] = "ended"]
          /\ UNCHANGED <<err, faults>>
       \/ Fault /\ End(p, "finish") /\ UNCHANGED sig
    /\ UNCHANGED <<main, sessions, inbox, sent, fed>>

-----------------------------------------------------------------------------

PartyStep(p) == \/ Send(p) \/ SendFails(p) \/ SendDone(p)
                \/ Receive(p) \/ Timeout(p) \/ Finish(p)

Next == \/ SetupFails \/ Return
        \/ \E p \in Parties : OpenSession(p) \/ PartyStep(p)

Spec == Init /\ [][Next]_vars

\* The goroutines run and their timers fire.
FairSpec == /\ Spec
            /\ WF_vars(Return) /\ WF_vars(\E p \in Parties : OpenSession(p))
            /\ \A p \in Parties : WF_vars(PartyStep(p))

-----------------------------------------------------------------------------
(* Properties *)

\* Every variable has its type.
TypeOK ==
    /\ main \in {"setup", "wait", "signed", "error"}
    /\ sessions \subseteq Parties
    /\ pc \in [Parties -> {"none", "send", "wait", "finish", "ended"}]
    /\ inbox \in [Parties -> Seq(Nat)]
    /\ sent \in [Parties -> 0..Burst * Rounds]
    /\ fed \in [Parties -> 0..Burst * Rounds]
    /\ err \in [Parties -> {"none", "input", "timeout", "finish"}]
    /\ sig \in [Parties -> BOOLEAN]
    /\ faults \in 0..MaxFaults

\* No goroutine works on a session that was freed, and none is left allocated:
\* both handles live until both goroutines have ended.
HandlesLive ==
    /\ \A p \in Parties : pc[p] \in {"send", "wait", "finish"} => p \in sessions
    /\ main \in {"signed", "error"} => sessions = {}

\* A signature is returned only if both parties fed every message of the
\* protocol in order and finished; and when no call fails and no timer fires
\* early one is returned: the parties do not starve each other.
SignedByBoth ==
    /\ main = "signed" => \A p \in Parties : sig[p] /\ Finished(p)
    /\ main = "error" => faults > 0

\* A channel never holds more than two rounds of messages: the parties stay
\* within a round of each other, so the send that has no timeout finds room in
\* a channel of that size.
ChannelsSuffice == \A p \in Parties : Len(inbox[p]) <= 2 * Burst

\* localSign returns, whatever fails in either goroutine: a party whose peer
\* has ended without a word gives up as well.
Returns == <>(main \in {"signed", "error"})
=============================================================================
