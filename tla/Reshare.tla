------------------------------- MODULE Reshare -------------------------------
(***************************************************************************)
(* performReshare (internal/testrunner/participant.go): the user's and the *)
(* server's party of a vault reshare it to the verifier and the plugin,    *)
(* first the ECDSA and then the EdDSA key, in up to Tries tries per key.   *)
(* All tries of both keys use one session of the relay, so messages of a   *)
(* try that failed are still there when the next one reads its inbox.      *)
(*                                                                         *)
(* External are the relay, the remote parties and the library's session    *)
(* (mpc.Wrapper): in each of Rounds rounds a party has one message for     *)
(* every other one, the first at once and each later one when it was fed   *)
(* the round before by all; fed the last round by all it is finished.      *)
(***************************************************************************)
EXTENDS Naturals, FiniteSets

CONSTANTS Remotes,              \* the verifier's and the plugin's party
          Initiator,            \* parties[0], the first of the old signers
          Rounds,               \* of the library's protocol
          Curves, Tries,        \* 2 and 3 in the code
          RemotesFollow,        \* remote parties take part in time
          MaxFaults             \* bound: failed calls and slow tries

Local == {"user", "server"}
Parties == Local \cup Remotes

ASSUME ReshareAssumption == /\ Remotes \cap Local = {}
                            /\ Initiator \in Local
                            /\ {Rounds, Curves, Tries} \subseteq Nat \ {0}
                            /\ RemotesFollow \in BOOLEAN /\ MaxFaults \in Nat

VARIABLES main,                 \* performReshare: "setup", "wait", "ok", "failed"
          curve, try,           \* 1 is ECDSA, 2 is EdDSA; its failed tries
          session,              \* tries so far, of both: the current setup
          relay,                \* messages for each party
          joined,               \* the setup each party works on
          at, heard,            \* its session: the round, and how often it was
                                \* fed in it by each party
          pc, batch, cache, gate,       \* processQcInbound of a local party
          share,                \* what it leaves: the setup of its key share
          result,               \* key shares by curve
          handles, leaked,      \* native objects of the try; how many earlier
                                \* tries left behind
          faults

partyVars == <<pc, batch, cache, gate, share>>
native == <<handles, leaked>>
vars == <<main, curve, try, session, relay, joined, at, heard,
          pc, batch, cache, gate, share, result, handles, leaked, faults>>

Fault == faults < MaxFaults /\ faults' = faults + 1

Nobody == [q \in Parties |-> 0]

Init == /\ main = "setup" /\ curve = 1 /\ try = 0 /\ session = 0
        /\ relay = [p \in Parties |-> {}]
        /\ joined = [p \in Parties |-> 0]
        /\ at = [p \in Parties |-> 1]
        /\ heard = [p \in Parties |-> Nobody]
        /\ pc = [p \in Local |-> "none"]
        /\ batch = [p \in Local |-> {}] /\ cache = [p \in Local |-> {}]
        /\ gate = [p \in Local |-> FALSE]
        /\ share = [p \in Local |-> 0]
        /\ result = [c \in 1..Curves |-> [p \in Local |-> 0]]
        /\ handles = {} /\ leaked = 0
        /\ faults = 0

-----------------------------------------------------------------------------
(* A party's session and its messages *)

Message(p, round) == [from |-> p, round |-> round, session |-> joined[p]]

\* The session of p takes m: of its own setup, and of the round it is in.
Accepts(p, m) == m.session = joined[p] /\ m.round = at[p]

\* The round is over for p when it is fed m.
Completes(p, m) == \A q \in Parties \ {p, m.from} : heard[p][q] > 0
Finishes(p, m) == Completes(p, m) /\ at[p] = Rounds

Feed(p, m) ==
    IF Completes(p, m)
    THEN /\ at' = [at EXCEPT ![p] = @ + 1]
         /\ heard' = [heard EXCEPT ![p] = Nobody]
    ELSE /\ heard' = [heard EXCEPT ![p][m.from] = @ + 1]
         /\ UNCHANGED at

\* The relay with p's message m sent to every other party but those in lost.
Sent(box, p, m, lost) ==
    [q \in Parties |-> IF q \in {p} \cup lost THEN box[q] ELSE box[q] \cup {m}]

\* What p has to send when it is fed m.
Answer(box, p, m, lost) ==
    IF Completes(p, m) /\ at[p] < Rounds
    THEN Sent(box, p, Message(p, at[p] + 1), lost)
    ELSE box

\* The sets of receivers a loop of sends may miss: a failed send is logged.
Lossy(lost, p) == \/ lost = {} /\ UNCHANGED faults
                  \/ lost # {} /\ lost \subseteq Parties \ {p} /\ Fault

-----------------------------------------------------------------------------
(* reshareWithRetry, for one curve after the other *)

\* Load the key shares, upload the setup message, open a session for each party
\* and start both.
Begin ==
    /\ main = "setup"
    /\ main' = "wait"
    /\ session' = session + 1
    /\ pc' = [p \in Local |-> "start"]
    /\ joined' = [p \in Parties |-> IF p \in Local THEN session + 1 ELSE joined[p]]
    /\ at' = [p \in Parties |-> IF p \in Local THEN 1 ELSE at[p]]
    /\ heard' = [p \in Parties |-> IF p \in Local THEN Nobody ELSE heard[p]]
    /\ share' = [p \in Local |-> 0]
    /\ handles' = {"keyshare", "session"} \X Local
    /\ UNCHANGED <<curve, try, relay, batch, cache, gate, result, leaked, faults>>

\* reshare returns: its deferred calls free the key shares it loaded, and nothing
\* else.
FreeKeyshares ==
    /\ handles' = {}
    /\ leaked' = leaked + Cardinality(handles \ ({"keyshare"} \X Local))

\* A try that failed: the next one, if any.
Failed == /\ try' = try + 1
          /\ main' = IF try + 1 < Tries THEN "setup" ELSE "failed"

\* One of these calls fails; when it is the last one, the user's session is left.
SetupFails ==
    /\ main = "setup"
    /\ Fault
    /\ Failed
    /\ leaked' \in {leaked, leaked + 1}
    /\ UNCHANGED <<curve, session, relay, joined, at, heard, partyVars, result,
                   handles>>

\* Mutant of TryFails: the error of one party ends the try at once.
TryFailsAtOnce ==
    /\ main = "wait"
    /\ \E p \in Local : pc[p] = "error"
    /\ Failed
    /\ FreeKeyshares
    /\ UNCHANGED <<curve, session, relay, joined, at, heard, partyVars, result,
                   faults>>

\* The error of either party fails the try.
TryFails ==
    /\ main = "wait"
    /\ \A p \in Local : pc[p] \in {"done", "error"}
    /\ \E p \in Local : pc[p] = "error"
    /\ Failed
    /\ FreeKeyshares
    /\ UNCHANGED <<curve, session, relay, joined, at, heard, partyVars, result,
                   faults>>

\* Mutant of TrySucceeds: the server's error is not looked at.
TrySucceedsForUser ==
    /\ main = "wait"
    /\ pc["user"] = "done" /\ pc["server"] \in {"done", "error"}
    /\ result' = [result EXCEPT ![curve] = share]
    /\ IF curve < Curves THEN main' = "setup" /\ curve' = curve + 1
                         ELSE main' = "ok" /\ UNCHANGED curve
    /\ try' = 0
    /\ FreeKeyshares
    /\ UNCHANGED <<session, relay, joined, at, heard, partyVars, faults>>

TrySucceeds ==
    /\ main = "wait"
    /\ \A p \in Local : pc[p] = "done"
    /\ result' = [result EXCEPT ![curve] = share]
    /\ IF curve < Curves THEN main' = "setup" /\ curve' = curve + 1
                         ELSE main' = "ok" /\ UNCHANGED curve
    /\ try' = 0
    /\ FreeKeyshares
    /\ UNCHANGED <<session, relay, joined, at, heard, partyVars, faults>>

-----------------------------------------------------------------------------
(* A local party: processQcOutbound, then processQcInbound *)

Start(p) ==
    /\ pc[p] = "start"
    /\ \E lost \in SUBSET (Parties \ {p}) :
          /\ Lossy(lost, p)
          /\ relay' = Sent(relay, p, Message(p, 1), lost)
    /\ pc' = [pc EXCEPT ![p] = "poll"]
    /\ UNCHANGED <<main, curve, try, session, joined, at, heard,
                   batch, cache, gate, share, result, native>>

\* A download that fails, or finds nothing, is repeated.
DownloadMessages(p) ==
    /\ pc[p] = "poll" /\ relay[p] # {}
    /\ batch' = [batch EXCEPT ![p] = relay[p]]
    /\ pc' = [pc EXCEPT ![p] = "work"]
    /\ UNCHANGED <<main, curve, try, session, relay, joined, at, heard,
                   cache, gate, share, result, native, faults>>

Earlier(m, n) == \/ m.session < n.session
                 \/ m.session = n.session /\ m.round < n.round

\* m is taken from the batch, which has the messages of one sender in the order
\* he sent them; the next download comes after the last one.
NextIn(p, m) ==
    /\ \A n \in batch[p] : n.from = m.from => ~Earlier(n, m)
    /\ batch' = [batch EXCEPT ![p] = @ \ {m}]
    /\ pc' = [pc EXCEPT ![p] = IF batch[p] = {m} THEN "poll" ELSE "work"]

\* Mutants of Barred: a party need not wait for the initiator; a message fed
\* before is fed again.
BarredIfCached(p, m) == m \in cache[p]
BarredByGate(p, m) == p # Initiator /\ ~gate[p] /\ m.from # Initiator

\* Not looked at: fed before, or a party other than the initiator still waits
\* for the initiator's first message.
Barred(p, m) ==
    \/ m \in cache[p]
    \/ p # Initiator /\ ~gate[p] /\ m.from # Initiator

\* processQcInbound of p returns, and its variables are gone.
Leave(p, how) ==
    /\ pc' = [pc EXCEPT ![p] = how]
    /\ batch' = [batch EXCEPT ![p] = {}]
    /\ cache' = [cache EXCEPT ![p] = {}]
    /\ gate' = [gate EXCEPT ![p] = FALSE]

SkipMessage(p, m) ==
    /\ pc[p] = "work" /\ m \in batch[p]
    /\ Barred(p, m)
    /\ NextIn(p, m)
    /\ UNCHANGED <<main, curve, try, session, relay, joined, at, heard,
                   cache, gate, share, result, native, faults>>

\* Mutant of RefuseMessage: what could not be fed is not tried again.
RefuseForGood(p, m) ==
    /\ pc[p] = "work" /\ m \in batch[p]
    /\ ~Barred(p, m)
    /\ \/ ~Accepts(p, m) /\ UNCHANGED faults
       \/ Fault
    /\ gate' = [gate EXCEPT ![p] = TRUE]
    /\ cache' = [cache EXCEPT ![p] = @ \cup {m}]
    /\ NextIn(p, m)
    /\ UNCHANGED <<main, curve, try, session, relay, joined, at, heard,
                   share, result, native>>

\* The session does not take it, or the call fails: it stays at the relay.
RefuseMessage(p, m) ==
    /\ pc[p] = "work" /\ m \in batch[p]
    /\ ~Barred(p, m)
    /\ \/ ~Accepts(p, m) /\ UNCHANGED faults
       \/ Fault
    /\ gate' = [gate EXCEPT ![p] = TRUE]
    /\ NextIn(p, m)
    /\ UNCHANGED <<main, curve, try, session, relay, joined, at, heard,
                   cache, share, result, native>>

\* Feed it, delete it at the relay, send what the session has to send, and
\* after the last one finish.
ApplyMessage(p, m) ==
    /\ pc[p] = "work" /\ m \in batch[p]
    /\ ~Barred(p, m) /\ Accepts(p, m)
    /\ Feed(p, m)
    /\ \/ \E lost \in SUBSET (Parties \ {p}) :
             /\ Lossy(lost, p)
             /\ relay' = Answer([relay EXCEPT ![p] = @ \ {m}], p, m, lost)
       \/ Fault /\ relay' = Answer(relay, p, m, {})     \* it is not deleted
    /\ IF Finishes(p, m)
       THEN /\ share' = [share EXCEPT ![p] = joined[p]]
            /\ handles' = handles \ {<<"session", p>>}
            /\ Leave(p, "done")
       ELSE /\ gate' = [gate EXCEPT ![p] = TRUE]
            /\ cache' = [cache EXCEPT ![p] = @ \cup {m}]
            /\ NextIn(p, m)
            /\ UNCHANGED <<share, handles>>
    /\ UNCHANGED <<main, curve, try, session, joined, result, leaked>>

\* QcSessionFinish or a call on its key share fails: the session is left, or the
\* key share it was turned into.
FinishFails(p, m) ==
    /\ pc[p] = "work" /\ m \in batch[p]
    /\ ~Barred(p, m) /\ Accepts(p, m) /\ Finishes(p, m)
    /\ Fault
    /\ Feed(p, m)
    /\ relay' = [relay EXCEPT ![p] = @ \ {m}]
    /\ Leave(p, "error")
    /\ handles' \in {handles,
                    (handles \ {<<"session", p>>}) \cup {<<"result", p>>}}
    /\ UNCHANGED <<main, curve, try, session, joined, share, result, leaked>>

\* Polling as p does, a message it finds would be fed to its session.
Hopeful(p) ==
    \E m \in relay[p] :
        /\ m \notin cache[p] /\ Accepts(p, m)
        /\ \/ ~Barred(p, m)
           \/ \E n \in relay[p] : n.from = Initiator

\* Nothing that is on its way will change anything any more.
Quiet == /\ \A p \in Local : pc[p] \in {"poll", "work"} => ~Hopeful(p)
         /\ \A p \in Local : pc[p] # "start"
         /\ \A q \in Remotes : /\ joined[q] = session
                               /\ \A m \in relay[q] : ~Accepts(q, m)

\* Mutant of TimeOut: the clock is only looked at when there is no message.
TimeOutWhenIdle(p) ==
    /\ pc[p] = "poll" /\ relay[p] = {}
    /\ UNCHANGED faults
    /\ Leave(p, "error")
    /\ UNCHANGED <<main, curve, try, session, relay, joined, at, heard,
                   share, result, native>>

\* The 4 minutes of a try are over: for no good reason, or when a remote party
\* is late, or when all is quiet, as 4 minutes are longer than polls take.
TimeOut(p) ==
    /\ pc[p] = "poll"
    /\ \/ Quiet \/ ~RemotesFollow
       \/ faults < MaxFaults
    /\ faults' = IF Quiet \/ ~RemotesFollow THEN faults ELSE faults + 1
    /\ Leave(p, "error")
    /\ UNCHANGED <<main, curve, try, session, relay, joined, at, heard,
                   share, result, native>>

-----------------------------------------------------------------------------
(* A remote party: takes up the current setup, whatever it was doing, and    *)
(* reads the messages it can use *)

RemoteJoins(q) ==
    /\ main = "wait" /\ joined[q] # session
    /\ joined' = [joined EXCEPT ![q] = session]
    /\ at' = [at EXCEPT ![q] = 1]
    /\ heard' = [heard EXCEPT ![q] = Nobody]
    /\ relay' = Sent(relay, q, [from |-> q, round |-> 1, session |-> session], {})
    /\ UNCHANGED <<main, curve, try, session, partyVars, result, native, faults>>

RemoteApplies(q, m) ==
    /\ m \in relay[q] /\ Accepts(q, m)
    /\ Feed(q, m)
    /\ relay' = Answer([relay EXCEPT ![q] = @ \ {m}], q, m, {})
    /\ UNCHANGED <<main, curve, try, session, joined, partyVars, result, native, faults>>

-----------------------------------------------------------------------------

Retry == Begin \/ SetupFails \/ TryFails \/ TrySucceeds

PartyStep(p) == \/ Start(p) \/ DownloadMessages(p)
                \/ \E m \in batch[p] : \/ SkipMessage(p, m) \/ RefuseMessage(p, m)
                                       \/ ApplyMessage(p, m) \/ FinishFails(p, m)

RemoteStep(q) == RemoteJoins(q) \/ \E m \in relay[q] : RemoteApplies(q, m)

Next == \/ Retry
        \/ \E p \in Local : PartyStep(p) \/ TimeOut(p)
        \/ \E q \in Remotes : RemoteStep(q)

Spec == Init /\ [][Next]_vars

\* Every goroutine runs, and its 4 minutes pass; nothing is assumed of the
\* remote parties.  (A download that never answers is not modelled.)
FairSpec == /\ Spec
            /\ WF_vars(Retry)
            /\ \A p \in Local : WF_vars(PartyStep(p)) /\ SF_vars(TimeOut(p))

-----------------------------------------------------------------------------
(* Properties *)

\* The key shares that are returned belong together: for each curve those of
\* both parties come from one and the same try, in which every remote party
\* took part.
SharesAgree ==
    main = "ok" => \A c \in 1..Curves :
        /\ result[c]["user"] = result[c]["server"]
        /\ result[c]["user"] # 0
        /\ \A q \in Remotes : joined[q] >= result[c]["user"]

\* A session is not fed the same message twice, though the relay hands it out
\* until it is deleted and a delete may fail.  As long as nothing failed, a party
\* other than the initiator begins with the initiator's message.  (When feeding
\* that message fails, or a failed try left one at the relay, the gate is open
\* all the same.)
FedInOrder ==
    /\ \A p \in Local, q \in Parties : heard[p][q] <= 1
    /\ faults = 0 /\ RemotesFollow =>
          \A p \in Local \ {Initiator} :
              at[p] = 1 /\ (\E q \in Parties : heard[p][q] > 0)
                  => heard[p][Initiator] > 0

\* Parties do not lock each other out, and what an earlier try left at the relay
\* does not spoil a later one: with remote parties that follow, every try that
\* fails is the try of a fault of its own.
TriesFailForAReason == RemotesFollow => try <= faults

\* Native memory is freed neither too early nor never: a party that still works
\* has its session and key share, whatever became of the other party; a try that
\* succeeds leaves nothing behind, and a fault at most the sessions of the try
\* it fails, which the library has no call to free.
HandlesFreed ==
    /\ \A p \in Local : pc[p] \in {"start", "poll", "work"} =>
          {<<"keyshare", p>>, <<"session", p>>} \subseteq handles
    /\ main \in {"ok", "failed"} => handles = {}
    /\ RemotesFollow => leaked <= Cardinality(Local) * faults

\* performReshare ends, whatever fails and whatever the remote parties do.
ReshareEnds == <>(main \in {"ok", "failed"})
=============================================================================
