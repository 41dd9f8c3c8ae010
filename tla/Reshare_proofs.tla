--------------------------- MODULE Reshare_proofs ---------------------------
(***************************************************************************)
(* What Reshare keeps, for any remote parties, rounds, curves and tries,   *)
(* and any number of faults: the key shares that are returned belong       *)
(* together, sessions are fed in order and once, native memory is          *)
(* accounted for, and no try fails without a fault when remote parties     *)
(* follow.                                                                 *)
(***************************************************************************)
EXTENDS Reshare, TLAPS, FiniteSetTheorems, WellFoundedInduction

-----------------------------------------------------------------------------
(* The invariant *)

Sendable == [from : Parties, round : Nat, session : Nat]
Msg(q, k, s) == [from |-> q, round |-> k, session |-> s]

TypeOK ==
    /\ main \in {"setup", "wait", "ok", "failed"}
    /\ curve \in 1..Curves /\ try \in Nat /\ session \in Nat
    /\ relay \in [Parties -> SUBSET Sendable]
    /\ joined \in [Parties -> Nat]
    /\ at \in [Parties -> Nat]
    /\ heard \in [Parties -> [Parties -> Nat]]
    /\ pc \in [Local -> {"none", "start", "poll", "work", "done", "error"}]
    /\ batch \in [Local -> SUBSET Sendable]
    /\ cache \in [Local -> SUBSET Sendable]
    /\ gate \in [Local -> BOOLEAN]
    /\ share \in [Local -> Nat]
    /\ result \in [1..Curves -> [Local -> Nat]]
    /\ handles \in SUBSET ({"keyshare", "session", "result"} \X Local)
    /\ leaked \in Nat /\ faults \in Nat

\* Local parties work on the current setup, remote ones on that or an older one.
Sessions == /\ \A q \in Parties : joined[q] <= session
            /\ \A p \in Local : joined[p] = session
            /\ main = "wait" => session > 0

\* What is left of a try, and what a party has when it begins and ends.
Polling == {"poll", "work"}
PhaseOf(p) ==
    /\ main = "wait" => pc[p] # "none"
    /\ pc[p] \notin Polling => batch[p] = {} /\ cache[p] = {} /\ ~gate[p]
    /\ pc[p] = "start" => at[p] = 1 /\ heard[p] = Nobody
    /\ pc[p] \in {"start"} \cup Polling => at[p] <= Rounds
    /\ pc[p] = "done" => at[p] = Rounds + 1 /\ share[p] = session
Resting == main # "wait" => \A p \in Local : pc[p] \in {"none", "done", "error"}
Phases == Resting /\ \A p \in Local : PhaseOf(p)

\* A message at the relay was sent by who it says.
Started(q) == q \in Local => pc[q] # "start"
Genuine == \A p \in Parties : \A m \in relay[p] :
    /\ m.from # p
    /\ m.session > 0 /\ m.session <= joined[m.from]
    /\ m.round > 0 /\ m.round <= Rounds
    /\ m.session = joined[m.from] => m.round <= at[m.from] /\ Started(m.from)
Fetched == \A p \in Local : batch[p] \subseteq relay[p]

\* Who was fed by q in a setup is not behind it by more than it can be.
Ahead == \A p, q \in Parties :
    /\ heard[p][q] > 0 =>
          /\ q # p /\ joined[q] >= joined[p]
          /\ joined[q] = joined[p] => at[q] >= at[p] /\ Started(q)
    /\ at[p] > 1 =>
          /\ joined[q] >= joined[p]
          /\ joined[q] = joined[p] => at[q] + 1 >= at[p] /\ Started(q)

\* A local party knows what it was fed, and is fed by each party once in a round.
CachedBy(p) ==
    /\ \A q \in Parties : heard[p][q] <= 1
    /\ \A q \in Parties : pc[p] \in Polling /\ heard[p][q] > 0
                             => Msg(q, at[p], joined[p]) \in cache[p]
    /\ \A m \in cache[p] : m.session = joined[p]
          => m.round < at[p] \/ (m.round = at[p] /\ heard[p][m.from] > 0)
    /\ /\ pc[p] \in Polling /\ p # Initiator
       /\ at[p] > 1 \/ \E q \in Parties : heard[p][q] > 0
       => gate[p]
Cached == \A p \in Local : CachedBy(p)
Unfinished == \A p \in Parties :
    at[p] >= 1 /\ \E q \in Parties \ {p} : heard[p][q] = 0

Net == Sessions /\ Genuine /\ Ahead /\ Unfinished

\* For each curve that is done, one try's key shares, of a try all have joined.
Results == \A c \in 1..Curves : c < curve \/ main = "ok" =>
    /\ result[c]["user"] = result[c]["server"]
    /\ result[c]["user"] # 0
    /\ \A q \in Parties : joined[q] >= result[c]["user"]

NativeOf(p) ==
    /\ pc[p] \in {"start"} \cup Polling =>
          {<<"keyshare", p>>, <<"session", p>>} \subseteq handles
    /\ ~({<<"session", p>>, <<"result", p>>} \subseteq handles)
    /\ pc[p] = "done" =>
          <<"session", p>> \notin handles /\ <<"result", p>> \notin handles
Native == /\ \A p \in Local : NativeOf(p)
          /\ main # "wait" => handles = {}

\* Nothing went wrong in this try: what a party sent and another was not fed yet is
\* at the relay.
HasSent(q, k) == joined[q] = session /\ Started(q) /\ k <= at[q]
WasFed(p, q, k) == joined[p] = session /\ (k < at[p] \/ (k = at[p] /\ heard[p][q] > 0))
Smooth == /\ \A p \in Local : pc[p] # "error"
          /\ \A p, q \in Parties : \A k \in 1..Rounds :
                q # p /\ HasSent(q, k) /\ ~WasFed(p, q, k) => Msg(q, k, session) \in relay[p]

\* What failed is paid for by a fault.
Paid == RemotesFollow =>
    /\ try <= faults /\ leaked <= 2 * faults
    /\ main = "wait" /\ ~Smooth => try + 1 <= faults /\ leaked + 2 <= 2 * faults

\* As long as nothing failed: for local parties the relay has what they were not fed
\* yet, and nothing of an earlier try; each other one has done with it; and a party
\* that is not the initiator sees his first message before his others.
Pure == faults = 0 /\ RemotesFollow
First == Msg(Initiator, 1, session)
Unread == \A p \in Local : \A m \in relay[p] :
    m.session = session /\ ~WasFed(p, m.from, m.round)
Emptied == main # "wait" => \A p \in Local : relay[p] = {}
Over == \A q \in Parties :
    joined[q] # session \/ main # "wait" => joined[q] = 0 \/ at[q] >= Rounds
LeadOf(p) == at[p] = 1 =>
    /\ (gate[p] \/ \E q \in Parties : heard[p][q] > 0) => heard[p][Initiator] > 0
    /\ heard[p][Initiator] = 0 /\ First \in relay[p]
          /\ (\E m \in batch[p] : m.from = Initiator) => First \in batch[p]
Led == \A p \in Local \ {Initiator} : LeadOf(p)
Tidy == Pure => Unread /\ Emptied /\ Over /\ Led

IInv == /\ TypeOK /\ Net /\ Phases /\ Fetched /\ Cached /\ Results /\ Native
        /\ Paid /\ Tidy

-----------------------------------------------------------------------------
(* Messages and what a step does to the sessions *)

LEMMA LocalParties == /\ Local \subseteq Parties /\ Remotes \subseteq Parties
                      /\ Initiator \in Local
                      /\ \A q \in Parties : q \in Local \/ q \in Remotes
                      /\ \A q \in Remotes : q \notin Local
                      /\ Rounds \in Nat /\ Rounds > 0 /\ Curves \in Nat /\ Curves > 0
                      /\ Tries \in Nat /\ MaxFaults \in Nat /\ RemotesFollow \in BOOLEAN
  BY ReshareAssumption DEF Parties

LEMMA SentTypes ==
    ASSUME NEW box \in [Parties -> SUBSET Sendable], NEW p, NEW m \in Sendable, NEW lost
    PROVE  Sent(box, p, m, lost) \in [Parties -> SUBSET Sendable]
  BY DEF Sent

LEMMA MessageTypes ==
    ASSUME NEW p \in Parties, joined \in [Parties -> Nat], NEW k \in Nat
    PROVE  Message(p, k) = Msg(p, k, joined[p]) /\ Message(p, k) \in Sendable
  BY DEF Message, Msg, Sendable

LEMMA FeedTypes ==
    ASSUME TypeOK, NEW p \in Parties, NEW m \in Sendable, Feed(p, m)
    PROVE  at' \in [Parties -> Nat] /\ heard' \in [Parties -> [Parties -> Nat]]
<1>1. CASE Completes(p, m)
  <2>1. at' = [at EXCEPT ![p] = at[p] + 1] /\ heard' = [heard EXCEPT ![p] = Nobody]
    BY <1>1 DEF Feed, TypeOK
  <2>2. at[p] + 1 \in Nat /\ Nobody \in [Parties -> Nat]
    BY DEF TypeOK, Nobody
  <2> QED BY <2>1, <2>2 DEF TypeOK
<1>2. CASE ~Completes(p, m)
  <2>1. heard' = [heard EXCEPT ![p][m.from] = @ + 1] /\ at' = at
    BY <1>2 DEF Feed
  <2>2. m.from \in Parties
    BY DEF Sendable
  <2> QED BY <2>1, <2>2 DEF TypeOK
<1> QED BY <1>1, <1>2

\* What feeding m changes.
LEMMA Fed ==
    ASSUME TypeOK, NEW p \in Parties, NEW m \in Sendable, Feed(p, m)
    PROVE  /\ \A r \in Parties \ {p} : at'[r] = at[r] /\ heard'[r] = heard[r]
           /\ Completes(p, m) => /\ at'[p] = at[p] + 1
                                 /\ \A q \in Parties : heard'[p][q] = 0
           /\ ~Completes(p, m) =>
                 /\ at'[p] = at[p]
                 /\ heard'[p][m.from] = heard[p][m.from] + 1
                 /\ \A q \in Parties \ {m.from} : heard'[p][q] = heard[p][q]
<1>1. CASE Completes(p, m)
  <2>1. at' = [at EXCEPT ![p] = at[p] + 1] /\ heard' = [heard EXCEPT ![p] = Nobody]
    BY <1>1 DEF Feed, TypeOK
  <2> QED BY <1>1, <2>1 DEF TypeOK, Nobody
<1>2. CASE ~Completes(p, m)
  <2>1. heard' = [heard EXCEPT ![p][m.from] = @ + 1] /\ at' = at
    BY <1>2 DEF Feed
  <2>2. m.from \in Parties
    BY DEF Sendable
  <2> QED BY <1>2, <2>1, <2>2 DEF TypeOK
<1> QED BY <1>1, <1>2

LEMMA AnswerTypes ==
    ASSUME TypeOK, NEW box \in [Parties -> SUBSET Sendable], NEW p \in Parties, NEW m, NEW lost
    PROVE  Answer(box, p, m, lost) \in [Parties -> SUBSET Sendable]
<1>1. at[p] + 1 \in Nat /\ joined \in [Parties -> Nat]
  BY DEF TypeOK
<1>2. Message(p, at[p] + 1) \in Sendable
  BY <1>1, MessageTypes
<1> QED BY <1>2, SentTypes DEF Answer

LEMMA BatchTypes ==
    ASSUME TypeOK, NEW p \in Local, NEW m \in batch[p]
    PROVE  m \in Sendable /\ p \in Parties
  BY LocalParties DEF TypeOK

LEMMA LeaveTypes ==
    ASSUME TypeOK, NEW p \in Local, NEW how \in {"done", "error"}, Leave(p, how)
    PROVE  /\ pc' \in [Local -> {"none", "start", "poll", "work", "done", "error"}]
           /\ batch' \in [Local -> SUBSET Sendable]
           /\ cache' \in [Local -> SUBSET Sendable]
           /\ gate' \in [Local -> BOOLEAN]
  BY DEF Leave, TypeOK

LEMMA NextInTypes ==
    ASSUME TypeOK, NEW p \in Local, NEW m, NextIn(p, m)
    PROVE  /\ pc' \in [Local -> {"none", "start", "poll", "work", "done", "error"}]
           /\ batch' \in [Local -> SUBSET Sendable]
  BY DEF NextIn, TypeOK

LEMMA InitTypes == Init => TypeOK
  BY LocalParties DEF Init, TypeOK, Nobody

\* What reshare leaves behind: at most one handle of each party.
LEMMA TwoParties == Cardinality(Local) = 2
<1>1. IsFiniteSet({"user"}) /\ Cardinality({"user"}) = 1
  BY FS_Singleton
<1>2. Cardinality({"user"} \cup {"server"})
         = IF "server" \in {"user"} THEN Cardinality({"user"}) ELSE Cardinality({"user"}) + 1
  BY <1>1, FS_AddElement
<1>3. Local = {"user"} \cup {"server"}
  BY DEF Local
<1> QED BY <1>1, <1>2, <1>3

LEMMA PairBound ==
    ASSUME NEW S, NEW a, NEW b, S \subseteq {a, b}
    PROVE  Cardinality(S) \in Nat /\ Cardinality(S) <= 2
<1>1. IsFiniteSet({a}) /\ Cardinality({a}) = 1
  BY FS_Singleton
<1>2. {a, b} = {a} \cup {b}
  OBVIOUS
<1>3. /\ IsFiniteSet({a} \cup {b})
      /\ Cardinality({a} \cup {b})
            = IF b \in {a} THEN Cardinality({a}) ELSE Cardinality({a}) + 1
  BY <1>1, FS_AddElement
<1>4. IsFiniteSet({a, b}) /\ Cardinality({a, b}) = IF b \in {a} THEN 1 ELSE 2
  BY <1>1, <1>2, <1>3
<1>5. IsFiniteSet(S) /\ Cardinality(S) <= Cardinality({a, b})
  BY <1>4, FS_Subset
<1>6. Cardinality(S) \in Nat
  BY <1>5, FS_CardinalityType
<1> QED BY <1>4, <1>5, <1>6

Left == handles \ ({"keyshare"} \X Local)

LEMMA Leftovers ==
    ASSUME TypeOK, Native
    PROVE  /\ Cardinality(Left) \in Nat /\ Cardinality(Left) <= 2
           /\ (\A p \in Local : pc[p] = "done") => Cardinality(Left) = 0
<1> DEFINE Of(p) == IF <<"session", p>> \in handles THEN <<"session", p>> ELSE <<"result", p>>
<1>1. Left \subseteq {Of("user"), Of("server")}
  <2>1. \A x \in handles : x \in {"keyshare", "session", "result"} \X Local
    BY DEF TypeOK
  <2>2. ASSUME NEW k \in {"session", "result"}, NEW p \in Local, <<k, p>> \in handles
        PROVE  <<k, p>> = Of(p)
    BY <2>2 DEF Native, NativeOf
  <2>3. ASSUME NEW x \in Left PROVE x \in {Of("user"), Of("server")}
    <3>1. PICK k \in {"keyshare", "session", "result"}, p \in Local : x = <<k, p>>
      BY <2>1 DEF Left
    <3>2. k \in {"session", "result"}
      BY <3>1 DEF Left
    <3>3. x = Of(p)
      BY <3>1, <3>2, <2>2 DEF Left
    <3> HIDE DEF Of
    <3> QED BY <3>3 DEF Local
  <2> QED BY <2>3
<1>2. Cardinality(Left) \in Nat /\ Cardinality(Left) <= 2
  BY <1>1, PairBound
<1>3. ASSUME \A p \in Local : pc[p] = "done" PROVE Cardinality(Left) = 0
  <2>1. Left = {}
    <3>1. ASSUME NEW x \in Left PROVE FALSE
      <4>1. PICK k \in {"keyshare", "session", "result"}, p \in Local : x = <<k, p>>
        BY DEF Left, TypeOK
      <4>2. k \in {"session", "result"}
        BY <4>1 DEF Left
      <4> QED BY <1>3, <4>1, <4>2 DEF Native, NativeOf, Left
    <3> QED BY <3>1
  <2> QED BY <2>1, FS_EmptySet
<1> QED BY <1>2, <1>3

LEMMA FreedTypes ==
    ASSUME TypeOK, Native, FreeKeyshares
    PROVE  /\ handles' = {} /\ leaked' = leaked + Cardinality(Left)
           /\ leaked' \in Nat
  BY Leftovers DEF FreeKeyshares, TypeOK, Left

-----------------------------------------------------------------------------
(* Types *)

LEMMA RetryTypes == ASSUME TypeOK, Native, Retry PROVE TypeOK'
<1>1. CASE Begin
  BY <1>1, LocalParties DEF Begin, TypeOK, Nobody
<1>2. CASE SetupFails
  BY <1>2 DEF SetupFails, TypeOK, Failed, Fault, partyVars
<1>3. CASE TryFails
  BY <1>3, FreedTypes DEF TryFails, TypeOK, Failed, partyVars
<1>4. CASE TrySucceeds
  <2>1. result' \in [1..Curves -> [Local -> Nat]]
    BY <1>4 DEF TrySucceeds, TypeOK
  <2>2. curve' \in 1..Curves /\ main' \in {"setup", "ok"}
    BY <1>4, LocalParties DEF TrySucceeds, TypeOK
  <2> QED BY <1>4, <2>1, <2>2, FreedTypes DEF TrySucceeds, TypeOK, partyVars
<1> QED BY <1>1, <1>2, <1>3, <1>4 DEF Retry

LEMMA LossyTypes ==
    ASSUME TypeOK, NEW p, NEW lost, Lossy(lost, p)
    PROVE  faults' \in Nat /\ faults' \in {faults, faults + 1}
  BY DEF Lossy, Fault, TypeOK

LEMMA ApplyTypes ==
    ASSUME TypeOK, NEW p \in Local, NEW m \in batch[p],
           ApplyMessage(p, m) \/ FinishFails(p, m)
    PROVE  TypeOK'
<1>1. m \in Sendable /\ p \in Parties
  BY BatchTypes
<1>2. at' \in [Parties -> Nat] /\ heard' \in [Parties -> [Parties -> Nat]]
  BY <1>1, FeedTypes DEF ApplyMessage, FinishFails
<1>3. CASE ApplyMessage(p, m)
  <2>1. relay' \in [Parties -> SUBSET Sendable] /\ faults' \in Nat
    <3>1. [relay EXCEPT ![p] = @ \ {m}] \in [Parties -> SUBSET Sendable]
      BY <1>1 DEF TypeOK
    <3>2. ASSUME NEW lost, Lossy(lost, p),
                 relay' = Answer([relay EXCEPT ![p] = @ \ {m}], p, m, lost)
          PROVE  relay' \in [Parties -> SUBSET Sendable] /\ faults' \in Nat
      BY <1>1, <3>1, <3>2, AnswerTypes, LossyTypes
    <3>3. ASSUME Fault, relay' = Answer(relay, p, m, {})
          PROVE  relay' \in [Parties -> SUBSET Sendable] /\ faults' \in Nat
      <4>1. relay \in [Parties -> SUBSET Sendable]
        BY DEF TypeOK
      <4> QED BY <1>1, <3>3, <4>1, AnswerTypes DEF Fault, TypeOK
    <3> QED BY <1>3, <3>2, <3>3 DEF ApplyMessage
  <2>2. CASE Finishes(p, m)
    <3>1. Leave(p, "done") /\ share' = [share EXCEPT ![p] = joined[p]]
          /\ handles' = handles \ {<<"session", p>>}
      BY <1>3, <2>2 DEF ApplyMessage
    <3> QED BY <1>1, <1>2, <1>3, <2>1, <3>1, LeaveTypes DEF ApplyMessage, TypeOK
  <2>3. CASE ~Finishes(p, m)
    <3>1. /\ gate' = [gate EXCEPT ![p] = TRUE]
          /\ cache' = [cache EXCEPT ![p] = @ \cup {m}]
          /\ NextIn(p, m) /\ UNCHANGED <<share, handles>>
      BY <1>3, <2>3 DEF ApplyMessage
    <3>2. cache' \in [Local -> SUBSET Sendable] /\ gate' \in [Local -> BOOLEAN]
      BY <1>1, <3>1 DEF TypeOK
    <3> QED BY <1>1, <1>2, <1>3, <2>1, <3>1, <3>2, NextInTypes DEF ApplyMessage, TypeOK
  <2> QED BY <2>2, <2>3
<1>4. CASE FinishFails(p, m)
  <2>1. relay' \in [Parties -> SUBSET Sendable] /\ faults' \in Nat
    BY <1>1, <1>4 DEF FinishFails, TypeOK, Fault
  <2>2. handles' \in SUBSET ({"keyshare", "session", "result"} \X Local)
    BY <1>4 DEF FinishFails, TypeOK
  <2>3. Leave(p, "error")
    BY <1>4 DEF FinishFails
  <2> QED BY <1>2, <1>4, <2>1, <2>2, <2>3, LeaveTypes DEF FinishFails, TypeOK
<1> QED BY <1>3, <1>4

LEMMA PartyTypes ==
    ASSUME TypeOK, NEW p \in Local, PartyStep(p) \/ TimeOut(p)
    PROVE  TypeOK'
<1>1. CASE Start(p)
  <2>1. p \in Parties
    BY LocalParties
  <2>2. Message(p, 1) \in Sendable
    BY <2>1, MessageTypes DEF TypeOK
  <2>3. PICK lost : Lossy(lost, p) /\ relay' = Sent(relay, p, Message(p, 1), lost)
    BY <1>1 DEF Start
  <2>4. relay' \in [Parties -> SUBSET Sendable] /\ faults' \in Nat
    <3>1. relay \in [Parties -> SUBSET Sendable]
      BY DEF TypeOK
    <3> QED BY <2>2, <2>3, <3>1, SentTypes, LossyTypes
  <2>5. pc' = [pc EXCEPT ![p] = "poll"]
    BY <1>1 DEF Start
  <2> QED BY <1>1, <2>4, <2>5 DEF Start, TypeOK, native
<1>2. CASE DownloadMessages(p)
  BY <1>2, LocalParties DEF DownloadMessages, TypeOK, native
<1>3. ASSUME NEW m \in batch[p], SkipMessage(p, m) PROVE TypeOK'
  BY <1>3, NextInTypes DEF SkipMessage, TypeOK, native
<1>4. ASSUME NEW m \in batch[p], RefuseMessage(p, m) PROVE TypeOK'
  <2>1. gate' \in [Local -> BOOLEAN] /\ faults' \in Nat
    BY <1>4 DEF RefuseMessage, TypeOK, Fault
  <2> QED BY <1>4, <2>1, NextInTypes DEF RefuseMessage, TypeOK, native
<1>5. CASE TimeOut(p)
  <2>1. Leave(p, "error") /\ faults' \in Nat
    BY <1>5 DEF TimeOut, TypeOK
  <2> QED BY <1>5, <2>1, LeaveTypes DEF TimeOut, TypeOK, native
<1> QED BY <1>1, <1>2, <1>3, <1>4, <1>5, ApplyTypes DEF PartyStep

LEMMA RemoteTypes ==
    ASSUME TypeOK, NEW q \in Remotes, RemoteStep(q)
    PROVE  TypeOK'
<1>0. q \in Parties
  BY LocalParties
<1>1. CASE RemoteJoins(q)
  <2>1. [from |-> q, round |-> 1, session |-> session] \in Sendable
    BY <1>0 DEF Sendable, TypeOK
  <2>2. relay' \in [Parties -> SUBSET Sendable]
    <3>1. relay \in [Parties -> SUBSET Sendable]
      BY DEF TypeOK
    <3> QED BY <1>1, <2>1, <3>1, SentTypes DEF RemoteJoins
  <2>3. /\ joined' \in [Parties -> Nat] /\ at' \in [Parties -> Nat]
        /\ heard' \in [Parties -> [Parties -> Nat]]
    BY <1>0, <1>1 DEF RemoteJoins, TypeOK, Nobody
  <2> QED BY <1>1, <2>2, <2>3 DEF RemoteJoins, TypeOK, partyVars, native
<1>2. ASSUME NEW m \in relay[q], RemoteApplies(q, m) PROVE TypeOK'
  <2>1. m \in Sendable
    BY <1>0 DEF TypeOK
  <2>2. at' \in [Parties -> Nat] /\ heard' \in [Parties -> [Parties -> Nat]]
    BY <1>0, <1>2, <2>1, FeedTypes DEF RemoteApplies
  <2>3. [relay EXCEPT ![q] = @ \ {m}] \in [Parties -> SUBSET Sendable]
    BY <1>0 DEF TypeOK
  <2>4. relay' \in [Parties -> SUBSET Sendable]
    BY <1>0, <1>2, <2>3, AnswerTypes DEF RemoteApplies
  <2> QED BY <1>2, <2>2, <2>4 DEF RemoteApplies, TypeOK, partyVars, native
<1> QED BY <1>1, <1>2 DEF RemoteStep

LEMMA TypesKept == ASSUME TypeOK, Native, [Next]_vars PROVE TypeOK'
<1>1. CASE UNCHANGED vars
  BY <1>1 DEF vars, TypeOK
<1> QED BY <1>1, RetryTypes, PartyTypes, RemoteTypes DEF Next

-----------------------------------------------------------------------------
(* What a step is to the relay and the sessions *)

\* p's session is fed m: a fault at most loses what p answers, or leaves m.
FeedStep(p, m) ==
    /\ m \in relay[p] /\ Accepts(p, m) /\ Feed(p, m)
    /\ UNCHANGED <<main, session, joined>>
    /\ faults' \in {faults, faults + 1}
    /\ p \in Local => pc[p] = "work"
    /\ \A q \in Local : pc'[q] = "start" <=> pc[q] = "start"
    /\ \A q \in Parties : \A n \in relay[q] : n \in relay'[q] \/ (q = p /\ n = m)
    /\ \A q \in Parties : \A n \in relay'[q] :
          \/ n \in relay[q]
          \/ /\ q # p /\ Completes(p, m) /\ at[p] < Rounds
             /\ n = Msg(p, at[p] + 1, joined[p])
    /\ faults' = faults =>
          /\ m \notin relay'[p]
          /\ Completes(p, m) /\ at[p] < Rounds =>
                \A q \in Parties \ {p} : Msg(p, at[p] + 1, joined[p]) \in relay'[q]

LEMMA AnswerEffect ==
    ASSUME TypeOK, NEW box \in [Parties -> SUBSET Sendable], NEW p \in Parties,
           NEW m, NEW lost
    PROVE  /\ \A q \in Parties : box[q] \subseteq Answer(box, p, m, lost)[q]
           /\ Answer(box, p, m, lost)[p] = box[p]
           /\ \A q \in Parties : \A n \in Answer(box, p, m, lost)[q] :
                 \/ n \in box[q]
                 \/ /\ q # p /\ Completes(p, m) /\ at[p] < Rounds
                    /\ n = Msg(p, at[p] + 1, joined[p])
           /\ lost = {} /\ Completes(p, m) /\ at[p] < Rounds =>
                 \A q \in Parties \ {p} :
                    Msg(p, at[p] + 1, joined[p]) \in Answer(box, p, m, lost)[q]
<1>1. at[p] + 1 \in Nat /\ joined \in [Parties -> Nat]
  BY DEF TypeOK
<1>2. Message(p, at[p] + 1) = Msg(p, at[p] + 1, joined[p])
  BY <1>1, MessageTypes
<1> QED BY <1>2 DEF Answer, Sent

LEMMA ApplyFeeds ==
    ASSUME TypeOK, Fetched, NEW p \in Local, NEW m \in batch[p],
           ApplyMessage(p, m) \/ FinishFails(p, m)
    PROVE  FeedStep(p, m)
<1>1. p \in Parties /\ m \in relay[p] /\ relay \in [Parties -> SUBSET Sendable]
  BY LocalParties DEF Fetched, TypeOK
<1>2. /\ Accepts(p, m) /\ Feed(p, m) /\ pc[p] = "work"
      /\ UNCHANGED <<main, session, joined>>
  BY DEF ApplyMessage, FinishFails
<1>3. \A q \in Local : pc'[q] = "start" <=> pc[q] = "start"
  BY DEF ApplyMessage, FinishFails, Leave, NextIn, TypeOK
<1> DEFINE box == [relay EXCEPT ![p] = @ \ {m}]
<1>4. box \in [Parties -> SUBSET Sendable] /\ box[p] = relay[p] \ {m}
      /\ \A q \in Parties \ {p} : box[q] = relay[q]
  BY <1>1
<1>5. ASSUME NEW lost, Lossy(lost, p), relay' = Answer(box, p, m, lost)
      PROVE  FeedStep(p, m)
  <2>1. faults' \in {faults, faults + 1} /\ (faults' = faults => lost = {})
    BY <1>5 DEF Lossy, Fault, TypeOK
  <2> HIDE DEF box
  <2> QED BY <1>1, <1>2, <1>3, <1>4, <1>5, <2>1, AnswerEffect DEF FeedStep
<1>6. ASSUME Fault, relay' = Answer(relay, p, m, {})
      PROVE  FeedStep(p, m)
  <2>1. faults' = faults + 1 /\ faults' # faults
    BY <1>6 DEF Fault, TypeOK
  <2> QED BY <1>1, <1>2, <1>3, <1>6, <2>1, AnswerEffect DEF FeedStep
<1>7. ASSUME Fault, relay' = box
      PROVE  FeedStep(p, m)
  <2>1. faults' = faults + 1 /\ faults' # faults
    BY <1>7 DEF Fault, TypeOK
  <2> HIDE DEF box
  <2> QED BY <1>1, <1>2, <1>3, <1>4, <1>7, <2>1 DEF FeedStep
<1> QED BY <1>5, <1>6, <1>7 DEF ApplyMessage, FinishFails

LEMMA RemoteFeeds ==
    ASSUME TypeOK, NEW q \in Remotes, NEW m \in relay[q], RemoteApplies(q, m)
    PROVE  FeedStep(q, m)
<1>1. q \in Parties /\ q \notin Local /\ relay \in [Parties -> SUBSET Sendable]
  BY LocalParties DEF TypeOK
<1> DEFINE box == [relay EXCEPT ![q] = @ \ {m}]
<1>2. box \in [Parties -> SUBSET Sendable] /\ box[q] = relay[q] \ {m}
      /\ \A r \in Parties \ {q} : box[r] = relay[r]
  BY <1>1
<1>3. /\ Accepts(q, m) /\ Feed(q, m) /\ relay' = Answer(box, q, m, {})
      /\ UNCHANGED <<main, session, joined, faults, pc>>
  BY DEF RemoteApplies, partyVars
<1> HIDE DEF box
<1> QED BY <1>1, <1>2, <1>3, AnswerEffect DEF FeedStep

\* The relay and the sessions stay as they are.
Still == /\ UNCHANGED <<session, relay, joined, at, heard>>
         /\ \A q \in Local : pc'[q] = "start" <=> pc[q] = "start"
         /\ main' = "wait" => main = "wait"

LEMMA NetSteps ==
    ASSUME TypeOK, Fetched, [Next]_vars
    PROVE  \/ Still
           \/ Begin
           \/ \E p \in Local : Start(p)
           \/ \E p \in Parties : \E m \in relay[p] : FeedStep(p, m)
           \/ \E q \in Remotes : RemoteJoins(q)
<1>1. CASE UNCHANGED vars
  BY <1>1 DEF vars, Still
<1>2. CASE SetupFails \/ TryFails \/ TrySucceeds
  BY <1>2 DEF SetupFails, TryFails, TrySucceeds, Still, partyVars, Failed
<1>3. ASSUME NEW p \in Local,
             \/ DownloadMessages(p) \/ TimeOut(p)
             \/ \E m \in batch[p] : SkipMessage(p, m) \/ RefuseMessage(p, m)
      PROVE  Still
  BY <1>3 DEF DownloadMessages, TimeOut, SkipMessage, RefuseMessage, NextIn, Leave,
              Still, TypeOK
<1>4. ASSUME NEW p \in Local, NEW m \in batch[p], ApplyMessage(p, m) \/ FinishFails(p, m)
      PROVE  \E r \in Parties : \E n \in relay[r] : FeedStep(r, n)
  BY <1>4, ApplyFeeds, LocalParties DEF FeedStep
<1>5. ASSUME NEW q \in Remotes, NEW m \in relay[q], RemoteApplies(q, m)
      PROVE  \E r \in Parties : \E n \in relay[r] : FeedStep(r, n)
  BY <1>5, RemoteFeeds, LocalParties
<1> QED
  BY <1>1, <1>2, <1>3, <1>4, <1>5 DEF Next, Retry, PartyStep, RemoteStep

-----------------------------------------------------------------------------
(* The relay and the sessions *)

LEMMA NetStill == ASSUME Net, Still PROVE Net'
  BY DEF Net, Still, Sessions, Genuine, Ahead, Unfinished, Started

LEMMA NetBegin ==
    ASSUME TypeOK, Net, Begin
    PROVE  Net'
<1> USE DEF Net
<1>1. /\ main' = "wait" /\ session' = session + 1 /\ relay' = relay
      /\ \A q \in Local : joined'[q] = session + 1 /\ at'[q] = 1 /\ heard'[q] = Nobody
      /\ \A q \in Parties \ Local :
            joined'[q] = joined[q] /\ at'[q] = at[q] /\ heard'[q] = heard[q]
  BY LocalParties DEF Begin, TypeOK
<1>2. \A q \in Parties : /\ joined[q] \in Nat /\ joined[q] <= session
                         /\ joined[q] <= joined'[q] /\ joined'[q] \in Nat
                         /\ q \in Local => joined'[q] = session + 1
  BY <1>1 DEF Sessions, TypeOK
<1>0. session \in Nat /\ Local \subseteq Parties
  BY LocalParties DEF TypeOK
<1>3. Sessions'
  <2>1. \A q \in Parties : joined'[q] <= session + 1
    BY <1>0, <1>1, <1>2
  <2> QED BY <1>0, <1>1, <2>1 DEF Sessions
<1>4. Genuine'
  <2> SUFFICES ASSUME NEW p \in Parties, NEW m \in relay[p]
               PROVE  /\ m.from # p
                      /\ m.session > 0 /\ m.session <= joined'[m.from]
                      /\ m.round > 0 /\ m.round <= Rounds
                      /\ m.session = joined'[m.from] =>
                            m.round <= at'[m.from] /\ Started(m.from)'
    BY <1>1 DEF Genuine
  <2>1. m \in Sendable /\ m.from \in Parties /\ m.session \in Nat
    BY DEF TypeOK, Sendable
  <2>2. /\ m.from # p /\ m.session > 0 /\ m.session <= joined[m.from]
        /\ m.round > 0 /\ m.round <= Rounds
        /\ m.session = joined[m.from] => m.round <= at[m.from]
    BY DEF Genuine
  <2>3. m.from \in Local => m.session # joined'[m.from]
    BY <1>0, <1>2, <2>1, <2>2
  <2>4. m.from \notin Local => joined'[m.from] = joined[m.from] /\ at'[m.from] = at[m.from]
    BY <1>1, <2>1
  <2>5. m.session <= joined'[m.from]
    BY <1>1, <1>2, <2>1, <2>2
  <2>6. m.from \notin Local => Started(m.from)'
    BY DEF Started
  <2> QED BY <2>2, <2>3, <2>4, <2>5, <2>6
<1>5. Ahead'
  <2> SUFFICES ASSUME NEW p \in Parties, NEW q \in Parties
      PROVE  /\ heard'[p][q] > 0 =>
                  /\ q # p /\ joined'[q] >= joined'[p]
                  /\ joined'[q] = joined'[p] => at'[q] >= at'[p] /\ Started(q)'
             /\ at'[p] > 1 =>
                  /\ joined'[q] >= joined'[p]
                  /\ joined'[q] = joined'[p] => at'[q] + 1 >= at'[p] /\ Started(q)'
    BY DEF Ahead
  <2>1. CASE p \in Local
    BY <1>1, <2>1 DEF Nobody
  <2>2. CASE p \notin Local
    <3>1. joined'[p] = joined[p] /\ at'[p] = at[p] /\ heard'[p] = heard[p]
      BY <1>1, <2>2
    <3>0. joined[p] \in Nat /\ joined[p] <= session
      BY <1>2
    <3>2. q \in Local => joined'[q] > joined'[p]
      BY <1>0, <1>1, <3>0, <3>1
    <3>3. q \notin Local => /\ joined'[q] = joined[q] /\ at'[q] = at[q]
                            /\ Started(q) /\ Started(q)'
      BY <1>1 DEF Started
    <3>4. /\ heard[p][q] > 0 =>
                  /\ q # p /\ joined[q] >= joined[p]
                  /\ joined[q] = joined[p] => at[q] >= at[p]
          /\ at[p] > 1 =>
                  /\ joined[q] >= joined[p]
                  /\ joined[q] = joined[p] => at[q] + 1 >= at[p]
      BY DEF Ahead
    <3>5. CASE q \in Local
      <4>1. joined'[q] = session + 1 /\ joined'[p] <= session /\ joined'[p] \in Nat
        BY <1>1, <3>0, <3>1, <3>5
      <4>2. joined'[q] >= joined'[p] /\ joined'[q] # joined'[p]
        BY <1>0, <4>1
      <4>3. heard'[p][q] > 0 => q # p
        BY <2>2, <3>5
      <4> QED BY <4>2, <4>3
    <3>6. CASE q \notin Local
      BY <3>1, <3>3, <3>4, <3>6
    <3> QED BY <3>5, <3>6
  <2> QED BY <2>1, <2>2
<1>6. Unfinished'
  <2> SUFFICES ASSUME NEW p \in Parties
               PROVE  at'[p] >= 1 /\ \E q \in Parties \ {p} : heard'[p][q] = 0
    BY DEF Unfinished
  <2>1. CASE p \in Local
    <3>1. \E q \in Parties \ {p} : TRUE
      BY LocalParties DEF Local
    <3> QED BY <1>1, <2>1, <3>1 DEF Nobody
  <2> QED BY <1>1, <2>1 DEF Unfinished
<1> QED BY <1>3, <1>4, <1>5, <1>6

LEMMA NetStart ==
    ASSUME TypeOK, Net, Phases, NEW p \in Local, Start(p)
    PROVE  Net'
<1> USE DEF Net
<1>1. p \in Parties /\ main = "wait" /\ at[p] = 1 /\ joined[p] = session /\ session > 0
  BY LocalParties DEF Start, Phases, Resting, PhaseOf, Sessions
<1>2. /\ UNCHANGED <<main, session, joined, at, heard>>
      /\ pc' = [pc EXCEPT ![p] = "poll"]
      /\ \E lost : relay' = Sent(relay, p, Message(p, 1), lost)
  BY DEF Start
<1>3. \A q \in Parties : Started(q) => Started(q)'
  BY <1>2 DEF Started, TypeOK
<1>4. Started(p)'
  BY <1>2 DEF Started, TypeOK
<1>5. Sessions' /\ Ahead' /\ Unfinished'
  BY <1>2, <1>3 DEF Sessions, Ahead, Unfinished
<1>6. Genuine'
  <2>1. Message(p, 1) = Msg(p, 1, session)
    BY <1>1, MessageTypes DEF TypeOK
  <2>2. \A q \in Parties : \A n \in relay'[q] :
           n \in relay[q] \/ (q # p /\ n = Msg(p, 1, session))
    BY <1>2, <2>1 DEF Sent
  <2>3. ASSUME NEW q \in Parties, NEW n \in relay'[q]
        PROVE  /\ n.from # q
               /\ n.session > 0 /\ n.session <= joined[n.from]
               /\ n.round > 0 /\ n.round <= Rounds
               /\ n.session = joined[n.from] => n.round <= at[n.from] /\ Started(n.from)'
    <3>1. CASE n \in relay[q]
      <4>1. n.from \in Parties
        BY <3>1 DEF TypeOK, Sendable
      <4> QED BY <3>1, <4>1, <1>3 DEF Genuine
    <3>2. CASE q # p /\ n = Msg(p, 1, session)
      <4>1. session \in Nat /\ Rounds \in Nat /\ Rounds > 0
        BY LocalParties DEF TypeOK
      <4> QED BY <1>1, <1>4, <3>2, <4>1 DEF Msg
    <3> QED BY <2>2, <3>1, <3>2
  <2> QED BY <1>2, <2>3 DEF Genuine
<1> QED BY <1>5, <1>6

LEMMA NetFeed ==
    ASSUME TypeOK, Net, NEW p \in Parties, NEW m \in relay[p], FeedStep(p, m)
    PROVE  Net'
<1> USE DEF Net
<1>1. m \in Sendable /\ m.from \in Parties /\ m.round \in Nat /\ m.session \in Nat
  BY DEF TypeOK, Sendable
<1>2. /\ m.session = joined[p] /\ m.round = at[p] /\ UNCHANGED <<main, session, joined>>
      /\ \A q \in Parties : Started(q) => Started(q)'
  BY DEF FeedStep, Accepts, Started
<1>3. /\ m.from # p /\ joined[m.from] >= joined[p] /\ at[p] <= Rounds
      /\ joined[m.from] = joined[p] => at[m.from] >= at[p] /\ Started(m.from)
  BY <1>2 DEF Genuine
<1>4. /\ \A r \in Parties \ {p} : at'[r] = at[r] /\ heard'[r] = heard[r]
      /\ Completes(p, m) => /\ at'[p] = at[p] + 1
                            /\ \A q \in Parties : heard'[p][q] = 0
      /\ ~Completes(p, m) =>
            /\ at'[p] = at[p]
            /\ heard'[p][m.from] = heard[p][m.from] + 1
            /\ \A q \in Parties \ {m.from} : heard'[p][q] = heard[p][q]
  BY <1>1, Fed DEF FeedStep
<1>5. \A q \in Parties : at[q] \in Nat /\ at'[q] \in Nat /\ at'[q] >= at[q]
                         /\ joined[q] \in Nat
  <2>1. \A q \in Parties : at[q] \in Nat /\ joined[q] \in Nat
    BY DEF TypeOK
  <2> QED BY <1>4, <2>1
<1>6. Sessions'
  BY <1>2 DEF Sessions
<1>7. Genuine'
  <2> SUFFICES ASSUME NEW q \in Parties, NEW n \in relay'[q]
        PROVE  /\ n.from # q
               /\ n.session > 0 /\ n.session <= joined[n.from]
               /\ n.round > 0 /\ n.round <= Rounds
               /\ n.session = joined[n.from] => n.round <= at'[n.from] /\ Started(n.from)'
    BY <1>2 DEF Genuine
  <2>1. CASE n \in relay[q]
    <3>0. n \in Sendable
      BY <2>1 DEF TypeOK
    <3>1. n.from \in Parties /\ n.round \in Nat
      BY <3>0 DEF Sendable
    <3>2. n.session = joined[n.from] => n.round <= at[n.from] /\ Started(n.from)
      BY <2>1 DEF Genuine
    <3>3. n.session = joined[n.from] => n.round <= at'[n.from] /\ Started(n.from)'
      BY <1>2, <1>5, <3>1, <3>2
    <3> QED BY <2>1, <3>3 DEF Genuine
  <2>2. CASE /\ q # p /\ Completes(p, m) /\ at[p] < Rounds
             /\ n = Msg(p, at[p] + 1, joined[p])
    <3>1. n.from = p /\ n.round = at[p] + 1 /\ n.session = joined[p]
      BY <2>2 DEF Msg
    <3>2. joined[p] > 0
      BY <1>2 DEF Genuine
    <3>3. Started(p)'
      BY DEF FeedStep, Started
    <3> QED BY <1>4, <1>5, <2>2, <3>1, <3>2, <3>3, LocalParties
  <2> QED BY <2>1, <2>2 DEF FeedStep
<1>8. Ahead'
  <2> SUFFICES ASSUME NEW r \in Parties, NEW q \in Parties
      PROVE  /\ heard'[r][q] > 0 =>
                  /\ q # r /\ joined[q] >= joined[r]
                  /\ joined[q] = joined[r] => at'[q] >= at'[r] /\ Started(q)'
             /\ at'[r] > 1 =>
                  /\ joined[q] >= joined[r]
                  /\ joined[q] = joined[r] => at'[q] + 1 >= at'[r] /\ Started(q)'
    BY <1>2 DEF Ahead
  <2>1. /\ heard[r][q] > 0 =>
             /\ q # r /\ joined[q] >= joined[r]
             /\ joined[q] = joined[r] => at[q] >= at[r] /\ Started(q)
        /\ at[r] > 1 =>
             /\ joined[q] >= joined[r]
             /\ joined[q] = joined[r] => at[q] + 1 >= at[r] /\ Started(q)
    BY DEF Ahead
  <2>2. CASE r # p
    BY <1>2, <1>4, <1>5, <2>1, <2>2
  <2>3. CASE r = p /\ ~Completes(p, m)
    <3>1. CASE q = m.from
      BY <1>2, <1>3, <1>4, <1>5, <2>1, <2>3, <3>1
    <3>2. CASE q # m.from
      BY <1>2, <1>4, <1>5, <2>1, <2>3, <3>2
    <3> QED BY <3>1, <3>2
  <2>4. CASE r = p /\ Completes(p, m)
    <3>1. CASE q = p
      <4>1. Started(p)'
        BY DEF FeedStep, Started
      <4> QED BY <1>4, <1>5, <2>4, <3>1, <4>1
    <3>2. CASE q = m.from
      BY <1>2, <1>3, <1>4, <1>5, <2>4, <3>2
    <3>3. CASE q \notin {p, m.from}
      <4>1. heard[p][q] > 0
        BY <2>4, <3>3 DEF Completes
      <4> QED BY <1>2, <1>4, <1>5, <2>1, <2>4, <3>3, <4>1
    <3> QED BY <3>1, <3>2, <3>3
  <2> QED BY <2>2, <2>3, <2>4
<1>9. Unfinished'
  <2> SUFFICES ASSUME NEW r \in Parties
               PROVE  at'[r] >= 1 /\ \E q \in Parties \ {r} : heard'[r][q] = 0
    BY DEF Unfinished
  <2>1. at'[r] >= 1
    BY <1>5 DEF Unfinished
  <2>2. CASE r # p
    BY <1>4, <2>2 DEF Unfinished
  <2>3. CASE r = p /\ Completes(p, m)
    <3>1. PICK q \in Parties \ {p} : TRUE
      BY LocalParties DEF Local
    <3>2. heard'[p][q] = 0
      BY <1>4, <2>3
    <3> QED BY <2>1, <2>3, <3>2
  <2>4. CASE r = p /\ ~Completes(p, m)
    <3>1. PICK q \in Parties \ {p, m.from} : ~(heard[p][q] > 0)
      BY <2>4 DEF Completes
    <3>2. heard[p][q] \in Nat
      BY DEF TypeOK
    <3>3. heard'[p][q] = 0
      BY <1>4, <2>4, <3>1, <3>2
    <3> QED BY <2>1, <2>4, <3>3
  <2> QED BY <2>1, <2>2, <2>3, <2>4
<1> QED BY <1>6, <1>7, <1>8, <1>9

LEMMA NetJoin ==
    ASSUME TypeOK, Net, NEW r \in Remotes, RemoteJoins(r)
    PROVE  Net'
<1> USE DEF Net
<1> DEFINE new == Msg(r, 1, session)
<1>1. r \in Parties /\ r \notin Local
  BY LocalParties
<1>2. /\ main = "wait" /\ joined[r] # session /\ UNCHANGED <<main, session, pc>>
      /\ joined'[r] = session /\ at'[r] = 1 /\ heard'[r] = Nobody
      /\ \A q \in Parties \ {r} :
            joined'[q] = joined[q] /\ at'[q] = at[q] /\ heard'[q] = heard[q]
  BY <1>1 DEF RemoteJoins, partyVars, TypeOK
<1>3. \A q \in Parties : \A n \in relay'[q] : n \in relay[q] \/ (q # r /\ n = new)
  BY DEF RemoteJoins, Sent, Msg
<1>4. /\ joined[r] < session /\ session > 0 /\ session \in Nat
      /\ \A q \in Parties : joined[q] \in Nat /\ joined[q] <= session
  BY <1>1, <1>2 DEF Sessions, TypeOK
<1>5. Sessions'
  <2>1. \A q \in Parties : joined'[q] <= session
    BY <1>2, <1>4
  <2> QED BY <1>1, <1>2, <1>4, <2>1, LocalParties DEF Sessions
<1>6. Genuine'
  <2> SUFFICES ASSUME NEW q \in Parties, NEW n \in relay'[q]
        PROVE  /\ n.from # q
               /\ n.session > 0 /\ n.session <= joined'[n.from]
               /\ n.round > 0 /\ n.round <= Rounds
               /\ n.session = joined'[n.from] => n.round <= at'[n.from] /\ Started(n.from)'
    BY DEF Genuine
  <2>1. CASE n \in relay[q]
    <3>1. n.from \in Parties /\ n.session \in Nat
      BY <2>1 DEF TypeOK, Sendable
    <3>2. /\ n.from # q /\ n.session > 0 /\ n.session <= joined[n.from]
          /\ n.round > 0 /\ n.round <= Rounds
          /\ n.session = joined[n.from] => n.round <= at[n.from] /\ Started(n.from)
      BY <2>1 DEF Genuine
    <3>3. CASE n.from = r
      BY <1>2, <1>4, <3>1, <3>2, <3>3
    <3>4. CASE n.from # r
      BY <1>2, <3>1, <3>2, <3>4 DEF Started
    <3> QED BY <3>3, <3>4
  <2>2. CASE q # r /\ n = new
    <3>1. Started(r)'
      BY <1>1 DEF Started
    <3> QED BY <1>2, <1>4, <2>2, <3>1, LocalParties DEF Msg
  <2> QED BY <1>3, <2>1, <2>2
<1>7. Ahead'
  <2> SUFFICES ASSUME NEW p \in Parties, NEW q \in Parties
      PROVE  /\ heard'[p][q] > 0 =>
                  /\ q # p /\ joined'[q] >= joined'[p]
                  /\ joined'[q] = joined'[p] => at'[q] >= at'[p] /\ Started(q)'
             /\ at'[p] > 1 =>
                  /\ joined'[q] >= joined'[p]
                  /\ joined'[q] = joined'[p] => at'[q] + 1 >= at'[p] /\ Started(q)'
    BY DEF Ahead
  <2>1. /\ heard[p][q] > 0 =>
             /\ q # p /\ joined[q] >= joined[p]
             /\ joined[q] = joined[p] => at[q] >= at[p] /\ Started(q)
        /\ at[p] > 1 =>
             /\ joined[q] >= joined[p]
             /\ joined[q] = joined[p] => at[q] + 1 >= at[p] /\ Started(q)
    BY DEF Ahead
  <2>2. CASE p = r
    BY <1>2, <2>2 DEF Nobody
  <2>3. CASE p # r /\ q = r
    <3>1. (heard[p][q] > 0 \/ at[p] > 1) => joined[r] >= joined[p]
      BY <2>1, <2>3
    <3> QED BY <1>2, <1>4, <2>3, <3>1
  <2>4. CASE p # r /\ q # r
    BY <1>2, <2>1, <2>4 DEF Started
  <2> QED BY <2>2, <2>3, <2>4
<1>8. Unfinished'
  <2> SUFFICES ASSUME NEW p \in Parties
               PROVE  at'[p] >= 1 /\ \E q \in Parties \ {p} : heard'[p][q] = 0
    BY DEF Unfinished
  <2>1. \E q \in Parties \ {r} : TRUE
    BY LocalParties DEF Local
  <2> QED BY <1>2, <2>1 DEF Unfinished, Nobody
<1> QED BY <1>5, <1>6, <1>7, <1>8

LEMMA NetKept ==
    ASSUME TypeOK, Net, Phases, Fetched, [Next]_vars
    PROVE  Net'
  BY NetSteps, NetStill, NetBegin, NetStart, NetFeed, NetJoin

-----------------------------------------------------------------------------
(* The local parties *)

\* What a step of r leaves alone.
LEMMA OthersRest ==
    ASSUME TypeOK, NEW r \in Parties,
           \/ r \in Local /\ (PartyStep(r) \/ TimeOut(r))
           \/ r \in Remotes /\ RemoteStep(r)
    PROVE  /\ UNCHANGED <<main, session, curve, try, result, leaked>>
           /\ \A p \in Local \ {r} :
                 /\ pc'[p] = pc[p] /\ batch'[p] = batch[p] /\ cache'[p] = cache[p]
                 /\ gate'[p] = gate[p] /\ share'[p] = share[p]
                 /\ joined'[p] = joined[p] /\ at'[p] = at[p] /\ heard'[p] = heard[p]
                 /\ \A k \in {"keyshare", "session", "result"} :
                       <<k, p>> \in handles' <=> <<k, p>> \in handles
<1>0. Local \subseteq Parties /\ (r \in Remotes => r \notin Local)
  BY LocalParties
<1>1. ASSUME r \in Local,
             \/ Start(r) \/ DownloadMessages(r) \/ TimeOut(r)
             \/ \E m \in batch[r] : SkipMessage(r, m) \/ RefuseMessage(r, m)
      PROVE  /\ UNCHANGED <<main, session, curve, try, result, leaked>>
             /\ UNCHANGED <<joined, at, heard, share, handles>>
             /\ \A p \in Local \ {r} :
                   /\ pc'[p] = pc[p] /\ batch'[p] = batch[p] /\ cache'[p] = cache[p]
                   /\ gate'[p] = gate[p]
  BY <1>1 DEF Start, DownloadMessages, TimeOut, SkipMessage, RefuseMessage, NextIn, Leave,
              native, TypeOK
<1>2. ASSUME r \in Local, NEW m \in batch[r], ApplyMessage(r, m) \/ FinishFails(r, m)
      PROVE  /\ UNCHANGED <<main, session, curve, try, result, leaked>>
             /\ \A p \in Local \ {r} :
                   /\ pc'[p] = pc[p] /\ batch'[p] = batch[p] /\ cache'[p] = cache[p]
                   /\ gate'[p] = gate[p] /\ share'[p] = share[p]
                   /\ joined'[p] = joined[p] /\ at'[p] = at[p] /\ heard'[p] = heard[p]
                   /\ \A k \in {"keyshare", "session", "result"} :
                         <<k, p>> \in handles' <=> <<k, p>> \in handles
  <2>1. UNCHANGED <<main, session, curve, try, result, leaked, joined>>
    BY <1>2 DEF ApplyMessage, FinishFails
  <2>2. m \in Sendable
    BY <1>2, BatchTypes
  <2>3. \A p \in Local \ {r} : at'[p] = at[p] /\ heard'[p] = heard[p]
    BY <1>0, <1>2, <2>2, Fed DEF ApplyMessage, FinishFails
  <2>4. \A p \in Local \ {r} :
           /\ pc'[p] = pc[p] /\ batch'[p] = batch[p] /\ cache'[p] = cache[p]
           /\ gate'[p] = gate[p] /\ share'[p] = share[p]
    BY <1>2 DEF ApplyMessage, FinishFails, NextIn, Leave, TypeOK
  <2>5. \A p \in Local \ {r} : \A k \in {"keyshare", "session", "result"} :
           <<k, p>> \in handles' <=> <<k, p>> \in handles
    BY <1>2 DEF ApplyMessage, FinishFails
  <2> QED BY <2>1, <2>3, <2>4, <2>5
<1>3. ASSUME r \in Remotes, RemoteJoins(r)
      PROVE  /\ UNCHANGED <<main, session, curve, try, result, leaked, partyVars, handles>>
             /\ \A p \in Local :
                   joined'[p] = joined[p] /\ at'[p] = at[p] /\ heard'[p] = heard[p]
  BY <1>0, <1>3 DEF RemoteJoins, native, TypeOK
<1>4. ASSUME r \in Remotes, NEW m \in relay[r], RemoteApplies(r, m)
      PROVE  /\ UNCHANGED <<main, session, curve, try, result, leaked, partyVars, handles>>
             /\ \A p \in Local :
                   joined'[p] = joined[p] /\ at'[p] = at[p] /\ heard'[p] = heard[p]
  <2>1. m \in Sendable
    BY DEF TypeOK
  <2>2. \A p \in Local : at'[p] = at[p] /\ heard'[p] = heard[p]
    BY <1>0, <1>4, <2>1, Fed DEF RemoteApplies
  <2> QED BY <1>4, <2>2 DEF RemoteApplies, native
<1> QED BY <1>1, <1>2, <1>3, <1>4 DEF PartyStep, RemoteStep, partyVars

LocalOf(p) == PhaseOf(p) /\ CachedBy(p) /\ NativeOf(p)

\* Who does not move keeps what is said of it.
LEMMA Kept ==
    ASSUME TypeOK, NEW p \in Local, LocalOf(p), UNCHANGED <<main, session>>,
           pc'[p] = pc[p], batch'[p] = batch[p], cache'[p] = cache[p],
           gate'[p] = gate[p], share'[p] = share[p],
           joined'[p] = joined[p], at'[p] = at[p], heard'[p] = heard[p],
           \A k \in {"keyshare", "session", "result"} :
              <<k, p>> \in handles' <=> <<k, p>> \in handles
    PROVE  LocalOf(p)'
<1>1. PhaseOf(p)'
  BY DEF LocalOf, PhaseOf
<1>2. CachedBy(p)'
  BY DEF LocalOf, CachedBy
<1>3. NativeOf(p)'
  BY DEF LocalOf, NativeOf
<1> QED BY <1>1, <1>2, <1>3 DEF LocalOf

LEMMA StartLocal ==
    ASSUME TypeOK, NEW p \in Local, LocalOf(p), main = "wait", Start(p)
    PROVE  LocalOf(p)'
<1>1. /\ pc[p] = "start" /\ pc'[p] = "poll"
      /\ UNCHANGED <<main, session, joined, at, heard, batch, cache, gate, share, handles>>
  BY DEF Start, TypeOK, native
<1>2. at[p] = 1 /\ \A q \in Parties : heard[p][q] = 0
  BY <1>1 DEF LocalOf, PhaseOf, Nobody
<1>3. PhaseOf(p)'
  BY <1>1, <1>2, LocalParties DEF PhaseOf, Polling
<1>4. CachedBy(p)'
  BY <1>1, <1>2 DEF CachedBy, LocalOf
<1>5. NativeOf(p)'
  BY <1>1 DEF NativeOf, LocalOf
<1> QED BY <1>3, <1>4, <1>5 DEF LocalOf

\* Polling, skipping and refusing change what is at hand and open the gate.
LEMMA PollLocal ==
    ASSUME TypeOK, NEW p \in Local, LocalOf(p),
           \/ DownloadMessages(p)
           \/ \E m \in batch[p] : SkipMessage(p, m) \/ RefuseMessage(p, m)
    PROVE  LocalOf(p)'
<1>1. /\ pc[p] \in Polling /\ pc'[p] \in Polling /\ gate'[p] \in {gate[p], TRUE}
      /\ UNCHANGED <<main, session, joined, at, heard, cache, share, handles>>
  BY DEF DownloadMessages, SkipMessage, RefuseMessage, NextIn, Polling, TypeOK, native
<1>2. PhaseOf(p)'
  BY <1>1 DEF LocalOf, PhaseOf, Polling
<1>3. CachedBy(p)'
  <2>1. CASE gate'[p] = gate[p]
    BY <1>1, <2>1 DEF CachedBy, LocalOf
  <2>2. CASE gate'[p] = TRUE
    BY <1>1, <2>2 DEF CachedBy, LocalOf
  <2> QED BY <1>1, <2>1, <2>2
<1>4. NativeOf(p)'
  BY <1>1 DEF NativeOf, LocalOf, Polling
<1> QED BY <1>2, <1>3, <1>4 DEF LocalOf

\* Who leaves has nothing at hand, and what it was fed stays.
LEMMA LeaveLocal ==
    ASSUME TypeOK, NEW p \in Local, Leave(p, "error"),
           \A q \in Parties : heard'[p][q] <= 1,
           {<<"session", p>>, <<"result", p>>} \cap handles' # {<<"session", p>>, <<"result", p>>}
    PROVE  LocalOf(p)'
<1>1. pc'[p] = "error" /\ batch'[p] = {} /\ cache'[p] = {} /\ gate'[p] = FALSE
  BY DEF Leave, TypeOK
<1>2. PhaseOf(p)'
  BY <1>1 DEF PhaseOf, Polling
<1>3. CachedBy(p)'
  BY <1>1 DEF CachedBy, Polling
<1>4. NativeOf(p)'
  BY <1>1 DEF NativeOf, Polling
<1> QED BY <1>2, <1>3, <1>4 DEF LocalOf

\* A message that is fed was not fed before: it would be in the cache.
LEMMA FedFirst ==
    ASSUME TypeOK, NEW p \in Local, CachedBy(p), NEW m \in Sendable,
           pc[p] = "work", ~Barred(p, m), Accepts(p, m)
    PROVE  heard[p][m.from] = 0
<1>1. m = Msg(m.from, at[p], joined[p]) /\ m.from \in Parties
  BY DEF Sendable, Msg, Accepts
<1>2. m \notin cache[p]
  BY DEF Barred
<1>3. p \in Parties
  BY LocalParties
<1>4. heard[p][m.from] \in Nat
  BY <1>1, <1>3 DEF TypeOK
<1>5. ~(heard[p][m.from] > 0)
  BY <1>1, <1>2 DEF CachedBy, Polling
<1> QED BY <1>4, <1>5

LEMMA ApplyLocal ==
    ASSUME TypeOK, Sessions, NEW p \in Local, LocalOf(p), NEW m \in batch[p],
           ApplyMessage(p, m) \/ FinishFails(p, m)
    PROVE  LocalOf(p)'
<1>1. /\ m \in Sendable /\ m.from \in Parties /\ p \in Parties
      /\ m.round \in Nat /\ m.session \in Nat
  BY BatchTypes DEF Sendable
<1>2. /\ pc[p] = "work" /\ ~Barred(p, m) /\ Accepts(p, m) /\ Feed(p, m)
      /\ UNCHANGED <<main, session, joined>>
  BY DEF ApplyMessage, FinishFails
<1>3. heard[p][m.from] = 0
  BY <1>1, <1>2, FedFirst DEF LocalOf
<1>4. /\ Completes(p, m) => /\ at'[p] = at[p] + 1
                            /\ \A q \in Parties : heard'[p][q] = 0
      /\ ~Completes(p, m) =>
            /\ at'[p] = at[p]
            /\ heard'[p][m.from] = 1
            /\ \A q \in Parties \ {m.from} : heard'[p][q] = heard[p][q]
  BY <1>1, <1>2, <1>3, Fed
<1>5. \A q \in Parties : heard'[p][q] <= 1
  BY <1>1, <1>4 DEF LocalOf, CachedBy
<1>6. /\ at[p] \in Nat /\ at[p] <= Rounds /\ Rounds \in Nat /\ joined[p] = session
      /\ {<<"keyshare", p>>, <<"session", p>>} \subseteq handles
      /\ <<"result", p>> \notin handles
  BY <1>1, <1>2, LocalParties DEF LocalOf, PhaseOf, NativeOf, Polling, TypeOK, Sessions
<1>7. CASE FinishFails(p, m)
  <2>1. Leave(p, "error")
    BY <1>7 DEF FinishFails
  <2>2. <<"session", p>> \notin handles' \/ <<"result", p>> \notin handles'
    BY <1>6, <1>7 DEF FinishFails
  <2> QED BY <1>5, <2>1, <2>2, LeaveLocal
<1>8. CASE ApplyMessage(p, m) /\ Finishes(p, m)
  <2>1. /\ pc'[p] = "done" /\ batch'[p] = {} /\ cache'[p] = {} /\ gate'[p] = FALSE
        /\ share'[p] = session /\ handles' = handles \ {<<"session", p>>}
    BY <1>6, <1>8 DEF ApplyMessage, Leave, TypeOK
  <2>2. at'[p] = Rounds + 1
    BY <1>4, <1>8 DEF Finishes
  <2>3. PhaseOf(p)'
    BY <1>2, <2>1, <2>2 DEF PhaseOf, Polling
  <2>4. CachedBy(p)'
    BY <1>5, <2>1 DEF CachedBy, Polling
  <2>5. NativeOf(p)'
    BY <1>6, <2>1 DEF NativeOf, Polling
  <2> QED BY <2>3, <2>4, <2>5 DEF LocalOf
<1>9. CASE ApplyMessage(p, m) /\ ~Finishes(p, m)
  <2>1. /\ pc'[p] \in Polling /\ cache'[p] = cache[p] \cup {m} /\ gate'[p] = TRUE
        /\ UNCHANGED <<share, handles>>
    BY <1>9 DEF ApplyMessage, NextIn, Polling, TypeOK
  <2>2. at'[p] <= Rounds /\ at'[p] \in Nat
    BY <1>4, <1>6, <1>9 DEF Finishes
  <2>3. PhaseOf(p)'
    BY <1>2, <2>1, <2>2 DEF PhaseOf, Polling
  <2>4. ASSUME NEW q \in Parties, heard'[p][q] > 0
        PROVE  Msg(q, at'[p], joined[p]) \in cache'[p]
    <3>1. ~Completes(p, m) /\ at'[p] = at[p]
      BY <1>4, <2>4
    <3>2. CASE q = m.from
      <4>1. m = Msg(q, at[p], joined[p])
        BY <1>1, <1>2, <3>2 DEF Sendable, Msg, Accepts
      <4> QED BY <2>1, <3>1, <4>1
    <3>3. CASE q # m.from
      <4>1. heard[p][q] > 0
        BY <1>4, <2>4, <3>1, <3>3
      <4> QED BY <1>2, <2>1, <3>1, <4>1 DEF LocalOf, CachedBy, Polling
    <3> QED BY <3>2, <3>3
  <2>5. ASSUME NEW n \in cache'[p], n.session = joined[p]
        PROVE  n.round < at'[p] \/ (n.round = at'[p] /\ heard'[p][n.from] > 0)
    <3>1. n \in Sendable /\ n.from \in Parties /\ n.round \in Nat
      <4>1. n \in cache[p] \/ n = m
        BY <2>1
      <4>2. n \in Sendable
        BY <1>1, <4>1 DEF TypeOK
      <4> QED BY <4>2 DEF Sendable
    <3>2. n.round < at[p] \/ (n.round = at[p] /\ (n = m \/ heard[p][n.from] > 0))
      <4>1. CASE n = m
        BY <1>2, <4>1 DEF Accepts
      <4>2. CASE n \in cache[p]
        BY <2>5, <4>2 DEF LocalOf, CachedBy
      <4> QED BY <2>1, <4>1, <4>2
    <3>3. CASE Completes(p, m)
      BY <1>4, <1>6, <3>1, <3>2, <3>3
    <3>4. CASE ~Completes(p, m)
      BY <1>3, <1>4, <3>1, <3>2, <3>4
    <3> QED BY <3>3, <3>4
  <2>6. CachedBy(p)'
    BY <1>2, <1>5, <2>1, <2>4, <2>5 DEF CachedBy
  <2>7. NativeOf(p)'
    BY <1>6, <2>1 DEF NativeOf, Polling
  <2> QED BY <2>3, <2>6, <2>7 DEF LocalOf
<1> QED BY <1>7, <1>8, <1>9

LEMMA TimeOutLocal ==
    ASSUME TypeOK, NEW p \in Local, LocalOf(p), TimeOut(p)
    PROVE  LocalOf(p)'
<1>1. Leave(p, "error") /\ UNCHANGED <<heard, handles>>
  BY DEF TimeOut, native
<1> QED BY <1>1, LeaveLocal DEF LocalOf, CachedBy, NativeOf

LEMMA PartyLocal ==
    ASSUME TypeOK, Sessions, Resting, NEW r \in Local, PartyStep(r) \/ TimeOut(r),
           \A p \in Local : LocalOf(p)
    PROVE  \A p \in Local : LocalOf(p)'
<1>1. r \in Parties
  BY LocalParties
<1>2. \A p \in Local \ {r} : LocalOf(p)'
  BY <1>1, OthersRest, Kept
<1>3. CASE Start(r)
  <2>1. main = "wait"
    BY <1>3 DEF Start, Resting
  <2> QED BY <1>2, <1>3, <2>1, StartLocal
<1>4. CASE TimeOut(r)
  BY <1>2, <1>4, TimeOutLocal
<1>5. CASE DownloadMessages(r) \/ \E m \in batch[r] : SkipMessage(r, m) \/ RefuseMessage(r, m)
  BY <1>2, <1>5, PollLocal
<1>6. CASE \E m \in batch[r] : ApplyMessage(r, m) \/ FinishFails(r, m)
  BY <1>2, <1>6, ApplyLocal
<1> QED BY <1>3, <1>4, <1>5, <1>6 DEF PartyStep

LEMMA RemoteLocal ==
    ASSUME TypeOK, NEW r \in Remotes, RemoteStep(r), \A p \in Local : LocalOf(p)
    PROVE  \A p \in Local : LocalOf(p)'
<1>1. r \in Parties /\ r \notin Local
  BY LocalParties
<1> QED BY <1>1, OthersRest, Kept

\* Between tries.
LEMMA RetryLocal ==
    ASSUME TypeOK, Native, Resting, Retry, \A p \in Local : LocalOf(p)
    PROVE  \A p \in Local : LocalOf(p)'
<1> SUFFICES ASSUME NEW p \in Local PROVE LocalOf(p)'
  OBVIOUS
<1>0. p \in Parties /\ LocalOf(p)
  BY LocalParties
<1>1. CASE Begin
  <2>1. /\ pc'[p] = "start" /\ at'[p] = 1 /\ heard'[p] = Nobody
        /\ UNCHANGED <<batch, cache, gate>>
    BY <1>0, <1>1 DEF Begin, TypeOK
  <2>2. pc[p] \notin Polling
    BY <1>1 DEF Begin, Resting, Polling
  <2>3. batch[p] = {} /\ cache[p] = {} /\ ~gate[p]
    BY <1>0, <2>2 DEF LocalOf, PhaseOf
  <2>4. PhaseOf(p)'
    BY <2>1, <2>3, LocalParties DEF PhaseOf, Polling
  <2>5. CachedBy(p)'
    BY <2>1, <2>3 DEF CachedBy, Nobody, Polling
  <2>6. NativeOf(p)'
    <3>1. handles' = {"keyshare", "session"} \X Local
      BY <1>1 DEF Begin
    <3> QED BY <2>1, <3>1 DEF NativeOf
  <2> QED BY <2>4, <2>5, <2>6 DEF LocalOf
<1>2. CASE SetupFails \/ TryFails \/ TrySucceeds
  <2>1. /\ UNCHANGED <<session, joined, at, heard, pc, batch, cache, gate, share>>
        /\ main' # "wait" /\ pc[p] \in {"none", "done", "error"}
        /\ handles' = {}
    BY <1>2 DEF SetupFails, TryFails, TrySucceeds, partyVars, Failed, FreeKeyshares,
                Resting, Native
  <2>2. PhaseOf(p)'
    BY <1>0, <2>1 DEF LocalOf, PhaseOf, Polling
  <2>3. CachedBy(p)'
    BY <1>0, <2>1 DEF LocalOf, CachedBy
  <2>4. NativeOf(p)'
    BY <2>1 DEF NativeOf, Polling
  <2> QED BY <2>2, <2>3, <2>4 DEF LocalOf
<1> QED BY <1>1, <1>2 DEF Retry

LEMMA LocalsKept ==
    ASSUME TypeOK, Sessions, Phases, Cached, Native, [Next]_vars
    PROVE  Phases' /\ Cached' /\ Native'
<1>1. \A p \in Local : LocalOf(p)
  BY DEF Phases, Cached, Native, LocalOf
<1>2. \A p \in Local : LocalOf(p)'
  <2>1. CASE UNCHANGED vars
    BY <1>1, <2>1, Kept DEF vars
  <2> QED BY <1>1, <2>1, PartyLocal, RemoteLocal, RetryLocal DEF Next, Phases
<1>3. Resting' /\ (main' # "wait" => handles' = {})
  <2>1. CASE Retry
    BY <2>1 DEF Retry, Begin, SetupFails, TryFails, TrySucceeds, Failed, FreeKeyshares,
                partyVars, Phases, Resting, Native
  <2>2. ASSUME NEW p \in Local, PartyStep(p) \/ TimeOut(p)
        PROVE  main = "wait" /\ main' = main
    <3>1. pc[p] \notin {"none", "done", "error"}
      BY <2>2 DEF PartyStep, TimeOut, Start, DownloadMessages, SkipMessage,
                  RefuseMessage, ApplyMessage, FinishFails
    <3>2. p \in Parties
      BY LocalParties
    <3> QED BY <2>2, <3>1, <3>2, OthersRest DEF Phases, Resting
  <2>3. ASSUME NEW q \in Remotes, RemoteStep(q)
        PROVE  UNCHANGED <<main, pc, handles>>
    BY <2>3 DEF RemoteStep, RemoteJoins, RemoteApplies, partyVars, native
  <2>4. CASE UNCHANGED vars
    BY <2>4 DEF vars, Phases, Resting, Native
  <2>5. CASE \E p \in Local : PartyStep(p) \/ TimeOut(p)
    BY <2>2, <2>5 DEF Resting
  <2>6. CASE \E q \in Remotes : RemoteStep(q)
    BY <2>3, <2>6 DEF Phases, Resting, Native
  <2> QED BY <2>1, <2>4, <2>5, <2>6 DEF Next
<1> QED BY <1>2, <1>3 DEF Phases, Cached, Native, LocalOf

\* What is at hand is at the relay still.
LEMMA FetchedKept ==
    ASSUME TypeOK, Phases, Fetched, [Next]_vars
    PROVE  Fetched'
<1> SUFFICES ASSUME NEW p \in Local PROVE batch'[p] \subseteq relay'[p]
  BY DEF Fetched
<1>0. p \in Parties /\ batch[p] \subseteq relay[p]
  BY LocalParties DEF Fetched
<1>1. CASE Retry \/ UNCHANGED vars
  BY <1>0, <1>1 DEF Retry, Begin, SetupFails, TryFails, TrySucceeds, partyVars, vars
<1>2. ASSUME NEW r \in Local,
             \/ Start(r) \/ DownloadMessages(r) \/ TimeOut(r)
             \/ \E m \in batch[r] : SkipMessage(r, m) \/ RefuseMessage(r, m)
      PROVE  batch'[p] \subseteq relay'[p]
  <2>1. batch'[p] \subseteq batch[p] \/ batch'[p] = relay[p]
    <3>1. CASE Start(r)
      BY <3>1 DEF Start
    <3>2. CASE DownloadMessages(r)
      BY <3>2 DEF DownloadMessages, TypeOK
    <3>3. CASE TimeOut(r)
      BY <3>3 DEF TimeOut, Leave, TypeOK
    <3>4. ASSUME NEW m \in batch[r], SkipMessage(r, m) \/ RefuseMessage(r, m)
          PROVE  batch'[p] \subseteq batch[p]
      <4>1. batch' = [batch EXCEPT ![r] = @ \ {m}]
        BY <3>4 DEF SkipMessage, RefuseMessage, NextIn
      <4> QED BY <4>1 DEF TypeOK
    <3> QED BY <1>2, <3>1, <3>2, <3>3, <3>4
  <2>2. relay[p] \subseteq relay'[p]
    BY <1>0, <1>2 DEF Start, DownloadMessages, TimeOut, SkipMessage, RefuseMessage, Sent
  <2> QED BY <1>0, <2>1, <2>2
<1>3. ASSUME NEW r \in Local, NEW m \in batch[r], ApplyMessage(r, m) \/ FinishFails(r, m)
      PROVE  batch'[p] \subseteq relay'[p]
  <2>1. FeedStep(r, m)
    BY <1>3, ApplyFeeds
  <2>2. batch'[p] \subseteq batch[p] /\ (r = p => m \notin batch'[p])
    BY <1>3 DEF ApplyMessage, FinishFails, NextIn, Leave, TypeOK
  <2> QED BY <1>0, <2>1, <2>2 DEF FeedStep
<1>4. ASSUME NEW q \in Remotes, RemoteStep(q)
      PROVE  batch'[p] \subseteq relay'[p]
  <2>0. q # p /\ UNCHANGED batch
    BY <1>4, LocalParties DEF RemoteStep, RemoteJoins, RemoteApplies, partyVars
  <2>1. CASE RemoteJoins(q)
    BY <1>0, <2>0, <2>1 DEF RemoteJoins, Sent
  <2>2. ASSUME NEW m \in relay[q], RemoteApplies(q, m)
        PROVE  batch'[p] \subseteq relay'[p]
    <3>1. FeedStep(q, m)
      BY <2>2, RemoteFeeds
    <3> QED BY <1>0, <2>0, <3>1 DEF FeedStep
  <2> QED BY <1>4, <2>1, <2>2 DEF RemoteStep
<1> QED BY <1>1, <1>2, <1>3, <1>4 DEF Next, PartyStep

-----------------------------------------------------------------------------
(* The key shares *)

\* A setup a party joined is never left for an older one.
LEMMA JoinedGrows ==
    ASSUME TypeOK, Sessions, [Next]_vars
    PROVE  \A q \in Parties : joined'[q] >= joined[q] /\ joined'[q] \in Nat
<1>1. \A q \in Parties : joined[q] \in Nat /\ joined[q] <= session /\ session \in Nat
  BY DEF TypeOK, Sessions
<1>2. CASE Begin
  BY <1>1, <1>2 DEF Begin, TypeOK
<1>3. ASSUME NEW r \in Remotes, RemoteJoins(r)
      PROVE  \A q \in Parties : joined'[q] \in {joined[q], session}
  BY <1>3, LocalParties DEF RemoteJoins, TypeOK
<1>4. \/ joined' = joined
      \/ Begin
      \/ \E r \in Remotes : RemoteJoins(r)
  <2>1. ASSUME NEW p \in Local, PartyStep(p) \/ TimeOut(p) PROVE joined' = joined
    BY <2>1 DEF PartyStep, Start, DownloadMessages, SkipMessage, RefuseMessage,
                ApplyMessage, FinishFails, TimeOut
  <2>2. ASSUME SetupFails \/ TryFails \/ TrySucceeds PROVE joined' = joined
    BY <2>2 DEF SetupFails, TryFails, TrySucceeds
  <2>3. ASSUME NEW r \in Remotes, RemoteStep(r) PROVE RemoteJoins(r) \/ joined' = joined
    BY <2>3 DEF RemoteStep, RemoteApplies
  <2>4. CASE UNCHANGED vars
    BY <2>4 DEF vars
  <2> QED BY <2>1, <2>2, <2>3, <2>4 DEF Next, Retry
<1> QED BY <1>1, <1>2, <1>3, <1>4

LEMMA ResultsKept ==
    ASSUME TypeOK, Net, Phases, Results, [Next]_vars
    PROVE  Results'
<1>1. \A q \in Parties : joined'[q] >= joined[q] /\ joined'[q] \in Nat /\ joined[q] \in Nat
  BY JoinedGrows DEF Net, TypeOK
<1>2. \A c \in 1..Curves, p \in Local : result[c][p] \in Nat
  BY DEF TypeOK
<1>3. "user" \in Local /\ "server" \in Local
  BY DEF Local
<1>4. CASE UNCHANGED <<curve, main, result>> \/ (UNCHANGED <<curve, result>> /\ main' # "ok")
  BY <1>1, <1>2, <1>3, <1>4 DEF Results
<1>5. CASE TrySucceeds
  <2>1. \A p \in Local : pc[p] = "done" /\ share[p] = session /\ at[p] = Rounds + 1
    BY <1>5 DEF TrySucceeds, Phases, PhaseOf
  <2>2. /\ main = "wait" /\ session > 0 /\ session \in Nat
        /\ \A p \in Local : joined[p] = session
    BY <1>5 DEF TrySucceeds, Net, Sessions, TypeOK
  <2>3. \A q \in Parties : joined[q] >= session
    <3>1. at["user"] > 1 /\ "user" \in Parties
      BY <1>3, <2>1, LocalParties
    <3> QED BY <1>3, <2>2, <3>1 DEF Net, Ahead
  <2>4. /\ curve \in 1..Curves
        /\ result'[curve]["user"] = session /\ result'[curve]["server"] = session
        /\ \A c \in (1..Curves) \ {curve} : result'[c] = result[c]
    BY <1>3, <1>5, <2>1 DEF TrySucceeds, TypeOK
  <2>5. \A c \in 1..Curves : c < curve' \/ main' = "ok" => c < curve \/ c = curve
    BY <1>5, <2>4, LocalParties DEF TrySucceeds
  <2>6. ASSUME NEW c \in 1..Curves, c < curve' \/ main' = "ok"
        PROVE  /\ result'[c]["user"] = result'[c]["server"]
               /\ result'[c]["user"] # 0
               /\ \A q \in Parties : joined'[q] >= result'[c]["user"]
    <3>1. CASE c = curve
      BY <1>1, <2>2, <2>3, <2>4, <3>1
    <3>2. CASE c # curve
      <4>1. c < curve /\ result'[c] = result[c]
        BY <2>4, <2>5, <2>6, <3>2
      <4> QED BY <1>1, <1>2, <1>3, <4>1 DEF Results
    <3> QED BY <3>1, <3>2
  <2> QED BY <2>6 DEF Results
<1>6. \/ UNCHANGED <<curve, main, result>> \/ (UNCHANGED <<curve, result>> /\ main' # "ok")
      \/ TrySucceeds
  <2>1. ASSUME NEW p \in Local, PartyStep(p) \/ TimeOut(p)
        PROVE  UNCHANGED <<curve, main, result>>
    BY <2>1, LocalParties, OthersRest
  <2>2. ASSUME NEW r \in Remotes, RemoteStep(r) PROVE UNCHANGED <<curve, main, result>>
    BY <2>2, LocalParties, OthersRest
  <2>3. ASSUME Begin \/ SetupFails \/ TryFails
        PROVE  UNCHANGED <<curve, result>> /\ main' # "ok"
    BY <2>3 DEF Begin, SetupFails, TryFails, Failed
  <2>4. CASE UNCHANGED vars
    BY <2>4 DEF vars
  <2> QED BY <2>1, <2>2, <2>3, <2>4 DEF Next, Retry
<1> QED BY <1>4, <1>5, <1>6

-----------------------------------------------------------------------------
(* Tries without a fault *)

\* Of any parties, some is in the earliest round.
LEMMA Least ==
    ASSUME NEW T \in SUBSET Nat, T # {}
    PROVE  \E x \in T : \A y \in T : x <= y
<1>1. PICK x \in T : \A y \in T : ~(<<y, x>> \in OpToRel(<, Nat))
  BY NatLessThanWellFounded, WFMin
<1>2. \A y \in T : ~(y < x)
  BY <1>1 DEF OpToRel
<1> QED BY <1>2

\* Parties do not wait for each other for ever: one that is in the earliest round
\* lacks a message of it, which is at the relay and would be fed.
LEMMA NeverQuiet ==
    ASSUME TypeOK, Net, Phases, Cached, main = "wait", Smooth,
           NEW p \in Local, pc[p] = "poll"
    PROVE  ~Quiet
<1> SUFFICES ASSUME Quiet PROVE FALSE
  OBVIOUS
<1> DEFINE Busy(q) == (q \in Local => pc[q] \in Polling) /\ at[q] <= Rounds
<1>1. \A q \in Parties : /\ at[q] \in Nat /\ at[q] >= 1 /\ joined[q] = session
                         /\ Started(q)
                         /\ Busy(q) \/ at[q] > Rounds
  <2>1. \A q \in Local : /\ joined[q] = session /\ Started(q)
                         /\ Busy(q) \/ at[q] > Rounds
    <3> SUFFICES ASSUME NEW q \in Local
                 PROVE  joined[q] = session /\ Started(q) /\ (Busy(q) \/ at[q] > Rounds)
      OBVIOUS
    <3>1. pc[q] \in {"poll", "work", "done"}
      BY DEF Quiet, Smooth, Phases, PhaseOf, TypeOK
    <3>2. Busy(q) \/ at[q] > Rounds
      BY <3>1, LocalParties DEF Phases, PhaseOf, Polling
    <3> QED BY <3>1, <3>2 DEF Net, Sessions, Started
  <2>2. \A q \in Remotes : q \notin Local /\ joined[q] = session
    BY LocalParties DEF Quiet
  <2>3. \A q \in Parties : at[q] \in Nat /\ at[q] >= 1
    BY DEF TypeOK, Net, Unfinished
  <2> QED BY <2>1, <2>2, <2>3, LocalParties DEF Started
<1>2. PICK q \in Parties : Busy(q) /\ \A r \in Parties : Busy(r) => at[q] <= at[r]
  <2> DEFINE T == {at[r] : r \in {r \in Parties : Busy(r)}}
  <2>1. p \in Parties /\ Busy(p)
    BY LocalParties DEF Phases, PhaseOf, Polling
  <2>2. T # {} /\ T \in SUBSET Nat
    BY <1>1, <2>1
  <2>3. PICK x \in T : \A y \in T : x <= y
    BY <2>2, Least
  <2> QED BY <2>3
<1>3. PICK r \in Parties \ {q} : heard[q][r] = 0
  BY DEF Net, Unfinished
<1>4. at[q] <= at[r] /\ at[q] \in 1..Rounds
  BY <1>1, <1>2, LocalParties
<1> DEFINE m == Msg(r, at[q], session)
<1>5. m \in relay[q]
  <2>1. HasSent(r, at[q]) /\ ~WasFed(q, r, at[q])
    BY <1>1, <1>3, <1>4 DEF HasSent, WasFed
  <2> QED BY <1>4, <2>1 DEF Smooth
<1>6. Accepts(q, m)
  BY <1>1 DEF Accepts, Msg
<1>7. q \in Local /\ pc[q] \in Polling
  BY <1>2, <1>5, <1>6, LocalParties DEF Quiet
<1>8. m \notin cache[q]
  BY <1>1, <1>3, <1>7 DEF Cached, CachedBy, Msg
<1>9. ~Barred(q, m) \/ \E n \in relay[q] : n.from = Initiator
  <2>1. CASE q = Initiator \/ gate[q]
    BY <1>8, <2>1 DEF Barred
  <2>2. CASE q # Initiator /\ ~gate[q]
    <3>1. at[q] = 1 /\ ~(heard[q][Initiator] > 0)
      BY <1>1, <1>7, <2>2, LocalParties DEF Cached, CachedBy
    <3>2. HasSent(Initiator, 1) /\ ~WasFed(q, Initiator, 1)
      BY <1>1, <3>1, LocalParties DEF HasSent, WasFed
    <3>3. Msg(Initiator, 1, session) \in relay[q]
      BY <1>4, <2>2, <3>1, <3>2, LocalParties DEF Smooth
    <3> QED BY <3>3 DEF Msg
  <2> QED BY <2>1, <2>2
<1> HIDE DEF m
<1>10. Hopeful(q)
  BY <1>5, <1>6, <1>8, <1>9 DEF Hopeful
<1> QED BY <1>7, <1>10 DEF Quiet, Polling

\* The relay has what p sent and was not fed yet, when p is fed m and nothing fails.
LEMMA SmoothFeed ==
    ASSUME TypeOK, Net, Smooth, NEW p \in Parties, NEW m \in relay[p], FeedStep(p, m),
           faults' = faults, \A q \in Local : pc'[q] # "error"
    PROVE  Smooth'
<1> SUFFICES ASSUME NEW r \in Parties, NEW q \in Parties, NEW k \in 1..Rounds,
                    q # r, HasSent(q, k)', ~WasFed(r, q, k)'
             PROVE  Msg(q, k, session) \in relay'[r]
  BY DEF Smooth, FeedStep
<1>1. m \in Sendable /\ m.from \in Parties
  BY DEF TypeOK, Sendable
<1>2. /\ \A x \in Parties \ {p} : at'[x] = at[x] /\ heard'[x] = heard[x]
      /\ Completes(p, m) => /\ at'[p] = at[p] + 1
                            /\ \A x \in Parties : heard'[p][x] = 0
      /\ ~Completes(p, m) =>
            /\ at'[p] = at[p]
            /\ heard'[p][m.from] = heard[p][m.from] + 1
            /\ \A x \in Parties \ {m.from} : heard'[p][x] = heard[p][x]
  BY <1>1, Fed DEF FeedStep
<1>3. /\ UNCHANGED <<session, joined>> /\ joined[q] = session /\ k \in Nat
      /\ Started(q) /\ k <= at'[q] /\ m.session = joined[p] /\ m.round = at[p]
  BY DEF FeedStep, HasSent, Started, Accepts
<1>4. at[p] \in Nat /\ at[r] \in Nat /\ heard[p][m.from] \in Nat /\ Rounds \in Nat
  <2>1. at[p] \in Nat /\ at[r] \in Nat /\ heard[p] \in [Parties -> Nat]
    BY DEF TypeOK
  <2> QED BY <1>1, <2>1, LocalParties
<1>5. ~WasFed(r, q, k)
  <2>1. CASE r # p
    BY <1>2, <1>3, <2>1 DEF WasFed
  <2>2. CASE r = p /\ Completes(p, m)
    BY <1>2, <1>3, <1>4, <2>2 DEF WasFed
  <2>3. CASE r = p /\ ~Completes(p, m)
    BY <1>2, <1>3, <1>4, <2>3 DEF WasFed
  <2> QED BY <2>1, <2>2, <2>3
<1>6. CASE q = p /\ k = at[p] + 1
  BY <1>2, <1>3, <1>4, <1>6 DEF FeedStep
<1>7. CASE ~(q = p /\ k = at[p] + 1)
  <2>1. HasSent(q, k)
    BY <1>2, <1>3, <1>4, <1>7 DEF HasSent
  <2>2. Msg(q, k, session) \in relay[r]
    BY <1>5, <2>1 DEF Smooth
  <2>3. ASSUME r = p, Msg(q, k, session) = m PROVE FALSE
    <3>1. m.from = q /\ k = at[p] /\ joined[p] = session
      BY <1>3, <2>3 DEF Msg
    <3> QED BY <1>2, <1>3, <1>4, <2>3, <3>1 DEF WasFed
  <2> QED BY <2>2, <2>3 DEF FeedStep
<1> QED BY <1>6, <1>7

LEMMA SmoothSend ==
    ASSUME TypeOK, Net, Phases, Smooth, NEW p \in Local, Start(p), faults' = faults
    PROVE  Smooth'
<1>1. /\ p \in Parties /\ pc[p] = "start" /\ at[p] = 1 /\ joined[p] = session
      /\ UNCHANGED <<session, joined, at, heard>> /\ pc' = [pc EXCEPT ![p] = "poll"]
  BY LocalParties DEF Start, Phases, PhaseOf, Net, Sessions
<1>2. Message(p, 1) = Msg(p, 1, session)
  BY <1>1, MessageTypes DEF TypeOK
<1>3. relay' = Sent(relay, p, Msg(p, 1, session), {})
  <2>1. PICK lost : Lossy(lost, p) /\ relay' = Sent(relay, p, Message(p, 1), lost)
    BY DEF Start
  <2>2. lost = {}
    BY <2>1 DEF Lossy, Fault, TypeOK
  <2> QED BY <1>2, <2>1, <2>2
<1>4. \A q \in Local : pc'[q] # "error"
  BY <1>1 DEF Smooth, TypeOK
<1>5. \A r \in Parties : /\ relay[r] \subseteq relay'[r]
                         /\ r # p => Msg(p, 1, session) \in relay'[r]
  BY <1>3 DEF Sent
<1>6. ASSUME NEW r \in Parties, NEW q \in Parties, NEW k \in 1..Rounds,
             q # r, HasSent(q, k)', ~WasFed(r, q, k)'
      PROVE  Msg(q, k, session) \in relay'[r]
  <2>1. CASE q = p
    <3>1. k = 1
      BY <1>1, <1>6, <2>1 DEF HasSent
    <3> QED BY <1>5, <1>6, <2>1, <3>1
  <2>2. CASE q # p
    BY <1>1, <1>5, <1>6, <2>2 DEF Smooth, HasSent, WasFed, Started, TypeOK
  <2> QED BY <2>1, <2>2
<1> QED BY <1>1, <1>4, <1>6 DEF Smooth

LEMMA SmoothJoin ==
    ASSUME TypeOK, Net, Smooth, NEW p \in Remotes, RemoteJoins(p)
    PROVE  Smooth'
<1>1. /\ p \in Parties /\ joined[p] # session /\ UNCHANGED <<session, pc>>
      /\ joined'[p] = session /\ at'[p] = 1 /\ heard'[p] = Nobody
      /\ \A q \in Parties \ {p} :
            joined'[q] = joined[q] /\ at'[q] = at[q] /\ heard'[q] = heard[q]
  BY LocalParties DEF RemoteJoins, partyVars, TypeOK
<1>2. \A r \in Parties : /\ relay[r] \subseteq relay'[r]
                         /\ r # p => Msg(p, 1, session) \in relay'[r]
  BY DEF RemoteJoins, Sent, Msg
<1>3. ASSUME NEW r \in Parties, NEW q \in Parties, NEW k \in 1..Rounds,
             q # r, HasSent(q, k)', ~WasFed(r, q, k)'
      PROVE  Msg(q, k, session) \in relay'[r]
  <2>1. CASE q = p
    <3>1. k = 1
      BY <1>1, <1>3, <2>1 DEF HasSent
    <3> QED BY <1>2, <1>3, <2>1, <3>1
  <2>2. CASE q # p
    <3>1. HasSent(q, k)
      BY <1>1, <1>3, <2>2 DEF HasSent, Started
    <3>2. ~WasFed(r, q, k)
      BY <1>1, <1>3 DEF WasFed
    <3> QED BY <1>2, <1>3, <3>1, <3>2 DEF Smooth
  <2> QED BY <2>1, <2>2
<1> QED BY <1>1, <1>3 DEF Smooth

LEMMA SmoothKept ==
    ASSUME TypeOK, Net, Phases, Fetched, Cached, [Next]_vars, RemotesFollow,
           main = "wait", ~Retry, Smooth, faults' = faults
    PROVE  Smooth'
<1>1. CASE UNCHANGED vars
  BY <1>1 DEF vars, Smooth, HasSent, WasFed, Started
<1>2. ASSUME NEW p \in Local,
             \/ DownloadMessages(p)
             \/ \E m \in batch[p] : SkipMessage(p, m) \/ RefuseMessage(p, m)
      PROVE  Smooth'
  <2>1. /\ UNCHANGED <<session, relay, joined, at, heard>>
        /\ \A q \in Local : pc'[q] # "error" /\ (pc'[q] = "start" <=> pc[q] = "start")
    BY <1>2 DEF DownloadMessages, SkipMessage, RefuseMessage, NextIn, TypeOK, Smooth
  <2> QED BY <2>1 DEF Smooth, HasSent, WasFed, Started
<1>3. ASSUME NEW p \in Local, TimeOut(p)
      PROVE  FALSE
  <2>1. ~Quiet
    BY <1>3, NeverQuiet DEF TimeOut
  <2>2. RemotesFollow \in BOOLEAN /\ faults \in Nat
    BY LocalParties DEF TypeOK
  <2>3. faults' = faults + 1
    BY <1>3, <2>1 DEF TimeOut
  <2> QED BY <2>2, <2>3
<1>4. ASSUME NEW p \in Local, NEW m \in batch[p], FinishFails(p, m)
      PROVE  FALSE
  BY <1>4 DEF FinishFails, Fault, TypeOK
<1>5. ASSUME NEW p \in Local, NEW m \in batch[p], ApplyMessage(p, m)
      PROVE  Smooth'
  <2>1. FeedStep(p, m) /\ m \in relay[p] /\ p \in Parties
    BY <1>5, ApplyFeeds, LocalParties DEF Fetched
  <2>2. \A q \in Local : pc'[q] # "error"
    BY <1>5 DEF ApplyMessage, NextIn, Leave, TypeOK, Smooth
  <2> QED BY <2>1, <2>2, SmoothFeed
<1>6. ASSUME NEW q \in Remotes, NEW m \in relay[q], RemoteApplies(q, m)
      PROVE  Smooth'
  <2>1. FeedStep(q, m) /\ q \in Parties
    BY <1>6, RemoteFeeds, LocalParties
  <2>2. \A r \in Local : pc'[r] # "error"
    BY <1>6 DEF RemoteApplies, partyVars, Smooth
  <2> QED BY <2>1, <2>2, SmoothFeed
<1> QED BY <1>1, <1>2, <1>3, <1>4, <1>5, <1>6, SmoothSend, SmoothJoin
        DEF Next, PartyStep, RemoteStep

LEMMA SmoothBegin ==
    ASSUME TypeOK, Net, Begin
    PROVE  Smooth'
<1>1. /\ session' = session + 1 /\ session \in Nat
      /\ \A q \in Local : pc'[q] = "start"
      /\ \A q \in Parties \ Local : joined'[q] = joined[q]
      /\ \A q \in Parties : joined[q] \in Nat /\ joined[q] <= session
  BY DEF Begin, TypeOK, Net, Sessions
<1>2. \A q \in Parties : joined'[q] = session' => ~Started(q)'
  BY <1>1 DEF Started
<1> QED BY <1>1, <1>2 DEF Smooth, HasSent

LEMMA FaultsGrow ==
    ASSUME TypeOK, [Next]_vars
    PROVE  faults' \in {faults, faults + 1}
<1>1. CASE Retry \/ UNCHANGED vars
  BY <1>1 DEF Retry, Begin, SetupFails, TryFails, TrySucceeds, Fault, vars
<1>2. ASSUME NEW p \in Local,
             \/ DownloadMessages(p) \/ TimeOut(p)
             \/ \E m \in batch[p] : \/ SkipMessage(p, m) \/ RefuseMessage(p, m)
                                    \/ FinishFails(p, m)
      PROVE  faults' \in {faults, faults + 1}
  BY <1>2 DEF DownloadMessages, TimeOut, SkipMessage, RefuseMessage, FinishFails, Fault
<1>3. ASSUME NEW p \in Local, Start(p) \/ \E m \in batch[p] : ApplyMessage(p, m)
      PROVE  faults' \in {faults, faults + 1}
  BY <1>3 DEF Start, ApplyMessage, Lossy, Fault
<1>4. ASSUME NEW q \in Remotes, RemoteStep(q) PROVE faults' = faults
  BY <1>4 DEF RemoteStep, RemoteJoins, RemoteApplies
<1> QED BY <1>1, <1>2, <1>3, <1>4 DEF Next, PartyStep

\* Every try that fails, and whatever it leaves, has a fault of its own.
LEMMA PaidKept ==
    ASSUME TypeOK, Net, Phases, Fetched, Cached, Native, Paid, [Next]_vars
    PROVE  Paid'
<1> SUFFICES ASSUME RemotesFollow
             PROVE  /\ try' <= faults' /\ leaked' <= 2 * faults'
                    /\ main' = "wait" /\ ~Smooth' =>
                          try' + 1 <= faults' /\ leaked' + 2 <= 2 * faults'
  BY DEF Paid
<1>1. /\ try <= faults /\ leaked <= 2 * faults
      /\ main = "wait" /\ ~Smooth => try + 1 <= faults /\ leaked + 2 <= 2 * faults
      /\ try \in Nat /\ leaked \in Nat /\ faults \in Nat
  BY DEF Paid, TypeOK
<1>2. CASE Begin
  BY <1>1, <1>2, SmoothBegin DEF Begin
<1>3. CASE SetupFails
  <2>1. /\ try' = try + 1 /\ faults' = faults + 1 /\ leaked' \in {leaked, leaked + 1}
        /\ main' # "wait"
    BY <1>3 DEF SetupFails, Failed, Fault
  <2>2. try' <= faults' /\ leaked' <= 2 * faults + 2 /\ 2 * faults' = 2 * faults + 2
    BY <1>1, <2>1
  <2> QED BY <1>1, <2>1, <2>2
<1>4. CASE TryFails
  <2>1. ~Smooth /\ main = "wait"
    BY <1>4 DEF TryFails, Smooth
  <2>2. /\ try' = try + 1 /\ faults' = faults /\ main' # "wait"
        /\ leaked' = leaked + Cardinality(Left)
    BY <1>4, FreedTypes DEF TryFails, Failed
  <2> QED BY <1>1, <2>1, <2>2, Leftovers
<1>5. CASE TrySucceeds
  <2>1. /\ try' = 0 /\ faults' = faults /\ main' # "wait"
        /\ leaked' = leaked + Cardinality(Left) /\ Cardinality(Left) = 0
    BY <1>5, FreedTypes, Leftovers DEF TrySucceeds
  <2> QED BY <1>1, <2>1
<1>6. CASE ~Retry
  <2>1. UNCHANGED <<main, try, leaked>>
    BY <1>6, LocalParties, OthersRest DEF Next, vars
  <2>2. faults' \in {faults, faults + 1}
    BY FaultsGrow
  <2>3. CASE faults' = faults + 1
    BY <1>1, <2>1, <2>3
  <2>4. CASE faults' = faults
    BY <1>1, <1>6, <2>1, <2>4, SmoothKept
  <2> QED BY <2>2, <2>3, <2>4
<1> QED BY <1>2, <1>3, <1>4, <1>5, <1>6 DEF Retry

-----------------------------------------------------------------------------
(* The order of messages when nothing fails *)

Tidied == Unread /\ Emptied /\ Over /\ Led

LEMMA TidyRetry ==
    ASSUME TypeOK, Net, Phases, Paid, Pure, Tidied, Retry, faults' = faults
    PROVE  Tidied'
<1>1. CASE Begin
  <2>1. /\ main = "setup" /\ main' = "wait" /\ session' = session + 1
        /\ UNCHANGED <<relay, batch, gate>>
        /\ \A q \in Local : joined'[q] = session' /\ heard'[q] = Nobody
        /\ \A q \in Parties \ Local : joined'[q] = joined[q] /\ at'[q] = at[q]
    BY <1>1, LocalParties DEF Begin, TypeOK
  <2>2. \A p \in Local : batch'[p] = {} /\ ~gate'[p] /\ relay'[p] = {}
    BY <2>1 DEF Phases, Resting, PhaseOf, Polling, Tidied, Emptied
  <2>3. Over'
    BY <2>1 DEF Tidied, Over
  <2>4. Led'
    BY <2>1, <2>2 DEF Led, LeadOf, Nobody
  <2> QED BY <2>1, <2>2, <2>3, <2>4 DEF Tidied, Unread, Emptied
<1>2. CASE SetupFails
  BY <1>2 DEF SetupFails, Fault, TypeOK
<1>3. CASE TryFails
  <2>1. ~Smooth /\ main = "wait"
    BY <1>3 DEF TryFails, Smooth
  <2> QED BY <2>1 DEF Paid, Pure, TypeOK
<1>4. CASE TrySucceeds
  <2>1. /\ main = "wait" /\ UNCHANGED <<session, relay, joined, at, heard, batch, gate>>
        /\ \A p \in Local : at[p] = Rounds + 1 /\ joined[p] = session
    BY <1>4 DEF TrySucceeds, partyVars, Phases, PhaseOf, Net, Sessions
  <2>2. \A p \in Local : relay[p] = {}
    <3> SUFFICES ASSUME NEW p \in Local, NEW m \in relay[p] PROVE FALSE
      OBVIOUS
    <3>1. p \in Parties
      BY LocalParties
    <3>2. m.round <= Rounds /\ m \in Sendable
      BY <3>1 DEF Net, Genuine, TypeOK
    <3>3. ~WasFed(p, m.from, m.round)
      BY DEF Tidied, Unread
    <3> QED BY <2>1, <3>2, <3>3, LocalParties DEF WasFed, Sendable
  <2>3. Over'
    <3>1. \A q \in Parties : joined[q] \in Nat /\ at[q] \in Nat /\ joined[q] <= session
      BY DEF TypeOK, Net, Sessions
    <3>2. "user" \in Local /\ "user" \in Parties
      BY LocalParties DEF Local
    <3>3. at["user"] > 1 /\ joined["user"] = session /\ at["user"] = Rounds + 1
      BY <2>1, <3>2, LocalParties
    <3>4. \A q \in Parties :
              joined[q] >= session /\ (joined[q] = session => at[q] + 1 >= Rounds + 1)
      BY <3>2, <3>3 DEF Net, Ahead
    <3>5. \A q \in Parties : at[q] >= Rounds
      BY <3>1, <3>4, LocalParties DEF TypeOK
    <3> QED BY <2>1, <3>5 DEF Over
  <2> QED BY <2>1, <2>2, <2>3 DEF Tidied, Unread, Emptied, Led, LeadOf, WasFed, First
<1> QED BY <1>1, <1>2, <1>3, <1>4 DEF Retry

\* Only the relay changes, by one message that its receivers were not fed.
LEMMA TidySend ==
    ASSUME TypeOK, Net, Phases, Fetched, Tidied, NEW p \in Local, Start(p)
    PROVE  Tidied'
<1>1. /\ p \in Parties /\ pc[p] = "start" /\ joined[p] = session /\ main = "wait"
      /\ UNCHANGED <<main, session, joined, at, heard, batch, gate>>
      /\ Rounds \in Nat
  BY LocalParties DEF Start, Phases, Resting, Net, Sessions
<1>2. \A q \in Parties : \A n \in relay'[q] :
          n \in relay[q] \/ (q # p /\ n = Msg(p, 1, session))
  <2>1. Message(p, 1) = Msg(p, 1, session)
    BY <1>1, MessageTypes DEF TypeOK
  <2> QED BY <2>1 DEF Start, Sent
<1>3. Unread'
  <2> SUFFICES ASSUME NEW q \in Local, NEW n \in relay'[q]
               PROVE  n.session = session /\ ~WasFed(q, n.from, n.round)
    BY <1>1 DEF Unread, WasFed
  <2>1. CASE n \in relay[q]
    BY <2>1 DEF Tidied, Unread
  <2>2. CASE q # p /\ n = Msg(p, 1, session)
    <3>1. q \in Parties /\ joined[q] = session /\ at[q] \in Nat
      BY LocalParties DEF Net, Sessions, TypeOK
    <3>2. ~(heard[q][p] > 0) /\ ~(at[q] > 1)
      BY <1>1, <3>1 DEF Net, Ahead, Started
    <3> QED BY <2>2, <3>1, <3>2 DEF WasFed, Msg
  <2> QED BY <1>2, <2>1, <2>2, LocalParties
<1>4. Led'
  <2> SUFFICES ASSUME NEW q \in Local \ {Initiator} PROVE LeadOf(q)'
    BY DEF Led
  <2>1. LeadOf(q) /\ q \in Parties
    BY LocalParties DEF Tidied, Led
  <2>2. CASE First \in relay'[q] => First \in relay[q]
    BY <1>1, <2>1, <2>2 DEF LeadOf, First
  <2>3. CASE First = Msg(p, 1, session)
    <3>1. p = Initiator
      BY <2>3 DEF First, Msg
    <3>2. \A m \in relay[q] : m.from # Initiator
      BY <1>1, <2>1, <3>1 DEF Tidied, Unread, Net, Genuine, Started
    <3>3. ~\E m \in batch[q] : m.from = Initiator
      BY <3>2 DEF Fetched
    <3> QED BY <1>1, <2>1, <3>3 DEF LeadOf, First
  <2> QED BY <1>2, <2>1, <2>2, <2>3
<1>5. Over' /\ Emptied'
  BY <1>1 DEF Tidied, Over, Emptied
<1> QED BY <1>3, <1>4, <1>5 DEF Tidied

LEMMA TidyJoin ==
    ASSUME TypeOK, Net, Tidied, NEW p \in Remotes, RemoteJoins(p)
    PROVE  Tidied'
<1>1. /\ p \in Parties /\ p \notin Local /\ p # Initiator /\ main = "wait"
      /\ joined[p] # session /\ UNCHANGED <<main, session, batch, gate>>
      /\ joined'[p] = session
      /\ \A q \in Parties \ {p} :
            joined'[q] = joined[q] /\ at'[q] = at[q] /\ heard'[q] = heard[q]
  BY LocalParties DEF RemoteJoins, partyVars, TypeOK
<1>2. \A q \in Parties : \A n \in relay'[q] : n \in relay[q] \/ n = Msg(p, 1, session)
  BY DEF RemoteJoins, Sent, Msg
<1>3. \A q \in Local : /\ q \in Parties /\ q # p /\ joined'[q] = joined[q]
                       /\ at'[q] = at[q] /\ heard'[q] = heard[q]
  BY <1>1, LocalParties
<1>4. Unread'
  <2> SUFFICES ASSUME NEW q \in Local, NEW n \in relay'[q]
               PROVE  n.session = session /\ ~WasFed(q, n.from, n.round)
    BY <1>1, <1>3 DEF Unread, WasFed
  <2>1. CASE n \in relay[q]
    BY <2>1 DEF Tidied, Unread
  <2>2. CASE n = Msg(p, 1, session)
    <3>1. q \in Parties /\ joined[q] = session /\ at[q] \in Nat
      BY LocalParties DEF Net, Sessions, TypeOK
    <3>2. joined[p] < joined[q] /\ joined[p] \in Nat /\ joined[q] \in Nat
      BY <1>1, <3>1 DEF Net, Sessions, TypeOK
    <3>3. ~(heard[q][p] > 0) /\ ~(at[q] > 1)
      BY <1>1, <3>1, <3>2 DEF Net, Ahead
    <3> QED BY <2>2, <3>1, <3>3 DEF WasFed, Msg
  <2> QED BY <1>2, <1>3, <2>1, <2>2
<1>5. Led'
  <2> SUFFICES ASSUME NEW q \in Local \ {Initiator} PROVE LeadOf(q)'
    BY DEF Led
  <2>1. First' = First /\ (First \in relay'[q] => First \in relay[q])
    BY <1>1, <1>2, <1>3 DEF First, Msg
  <2> QED BY <1>1, <1>3, <2>1 DEF Tidied, Led, LeadOf
<1>6. Over' /\ Emptied'
  BY <1>1 DEF Tidied, Over, Emptied
<1> QED BY <1>4, <1>5, <1>6 DEF Tidied

LEMMA TidyFeed ==
    ASSUME TypeOK, Net, Resting, Tidied, NEW p \in Parties, NEW m \in relay[p],
           FeedStep(p, m), faults' = faults
    PROVE  Unread' /\ Emptied' /\ Over'
<1>1. /\ m \in Sendable /\ m.from \in Parties /\ m.from # p /\ m.session > 0
      /\ m.session = joined[p] /\ m.round = at[p]
      /\ UNCHANGED <<main, session, joined>>
  BY DEF TypeOK, Sendable, Net, Genuine, FeedStep, Accepts
<1>2. /\ \A x \in Parties \ {p} : at'[x] = at[x] /\ heard'[x] = heard[x]
      /\ Completes(p, m) => /\ at'[p] = at[p] + 1
                            /\ \A x \in Parties : heard'[p][x] = 0
      /\ ~Completes(p, m) =>
            /\ at'[p] = at[p]
            /\ heard'[p][m.from] = heard[p][m.from] + 1
            /\ \A x \in Parties \ {m.from} : heard'[p][x] = heard[p][x]
  BY <1>1, Fed DEF FeedStep
<1>3. \A x \in Parties : at[x] \in Nat /\ joined[x] \in Nat /\ at[x] >= 1
  BY DEF TypeOK, Net, Unfinished
<1>4. Over'
  <2>1. \A x \in Parties : at'[x] >= at[x] /\ at'[x] \in Nat
    BY <1>2, <1>3
  <2> QED BY <1>1, <1>3, <2>1, LocalParties DEF Tidied, Over
\* Who answers works on the current setup.
<1>5. ASSUME at[p] < Rounds PROVE joined[p] = session /\ main = "wait"
  <2>1. joined[p] # 0 /\ ~(at[p] >= Rounds)
    BY <1>1, <1>3, <1>5, LocalParties
  <2> QED BY <2>1 DEF Tidied, Over
<1>6. Emptied'
  <2> SUFFICES ASSUME main # "wait", NEW q \in Local PROVE relay'[q] = {}
    BY <1>1 DEF Emptied
  <2> QED BY <1>5, LocalParties DEF Tidied, Emptied, FeedStep
<1>7. Unread'
  <2> SUFFICES ASSUME NEW q \in Local, NEW n \in relay'[q]
               PROVE  n.session = session /\ ~WasFed(q, n.from, n.round)'
    BY <1>1 DEF Unread
  <2>0. q \in Parties /\ joined[q] = session
    BY LocalParties DEF Net, Sessions
  <2>1. CASE n \in relay[q]
    <3>1. n.session = session /\ ~WasFed(q, n.from, n.round)
      BY <2>1 DEF Tidied, Unread
    <3>2. n \in Sendable /\ n.from \in Parties /\ n.from # q /\ n.round \in Nat
      BY <2>0, <2>1 DEF TypeOK, Sendable, Net, Genuine
    <3>3. CASE q # p
      BY <1>1, <1>2, <2>0, <3>1, <3>3 DEF WasFed
    <3>4. CASE q = p
      <4>1. n # m
        BY <3>4 DEF FeedStep
      <4>2. n.from # m.from \/ n.round # at[p]
        BY <1>1, <2>0, <3>1, <3>2, <3>4, <4>1 DEF Sendable
      <4>3. CASE Completes(p, m)
        <5>1. n.from # m.from => heard[p][n.from] > 0
          BY <3>2, <3>4, <4>3 DEF Completes
        <5> QED BY <1>1, <1>2, <1>3, <2>0, <3>1, <3>2, <3>4, <4>2, <4>3, <5>1 DEF WasFed
      <4>4. CASE ~Completes(p, m)
        BY <1>1, <1>2, <1>3, <2>0, <3>1, <3>2, <3>4, <4>2, <4>4 DEF WasFed
      <4> QED BY <4>3, <4>4
    <3> QED BY <3>1, <3>3, <3>4
  <2>2. CASE q # p /\ at[p] < Rounds /\ n = Msg(p, at[p] + 1, joined[p])
    <3>1. n.session = session /\ n.from = p /\ n.round = at[p] + 1
      BY <1>5, <2>2 DEF Msg
    <3>2. heard[q][p] > 0 => at[p] >= at[q]
      BY <1>5, <2>0, <2>2 DEF Net, Ahead
    <3>3. at[q] > 1 => at[p] + 1 >= at[q]
      BY <1>5, <2>0, <2>2 DEF Net, Ahead
    <3> QED BY <1>1, <1>2, <1>3, <2>0, <2>2, <3>1, <3>2, <3>3 DEF WasFed
  <2> QED BY <2>0, <2>1, <2>2 DEF FeedStep
<1> QED BY <1>4, <1>6, <1>7

\* Others than p see no new first message.
LEMMA LedOthers ==
    ASSUME TypeOK, Net, Tidied, NEW p \in Parties, NEW m \in relay[p], FeedStep(p, m),
           NEW q \in Local \ {Initiator}, q # p, batch'[q] = batch[q], gate'[q] = gate[q]
    PROVE  LeadOf(q)'
<1>1. m \in Sendable /\ q \in Parties /\ at[p] \in Nat /\ at[p] >= 1
  BY LocalParties DEF TypeOK, Net, Unfinished
<1>2. at'[q] = at[q] /\ heard'[q] = heard[q] /\ session' = session
  BY <1>1, Fed DEF FeedStep
<1>3. First' = First /\ (First \in relay'[q] => First \in relay[q])
  BY <1>1, <1>2 DEF FeedStep, First, Msg
<1> QED BY <1>2, <1>3 DEF Tidied, Led, LeadOf

LEMMA TidyApply ==
    ASSUME TypeOK, Net, Phases, Fetched, Cached, Tidied, NEW p \in Local, NEW m \in batch[p],
           ApplyMessage(p, m), faults' = faults
    PROVE  Tidied'
<1>1. FeedStep(p, m) /\ m \in relay[p] /\ p \in Parties /\ m \in Sendable
  BY ApplyFeeds, BatchTypes DEF Fetched
<1>2. Unread' /\ Emptied' /\ Over'
  BY <1>1, TidyFeed DEF Phases
<1>3. ASSUME NEW q \in Local \ {Initiator}, q # p PROVE LeadOf(q)'
  <2>1. batch'[q] = batch[q] /\ gate'[q] = gate[q]
    BY <1>1, <1>3, OthersRest DEF PartyStep
  <2> QED BY <1>1, <1>3, <2>1, LedOthers
<1>4. ASSUME p # Initiator PROVE LeadOf(p)'
  <2> SUFFICES ASSUME at'[p] = 1 PROVE heard'[p][Initiator] > 0
    BY DEF LeadOf, TypeOK
  <2>1. at[p] \in Nat /\ at[p] >= 1 /\ heard[p] \in [Parties -> Nat]
    BY <1>1 DEF TypeOK, Net, Unfinished
  <2>2. ~Completes(p, m) /\ at[p] = 1
        /\ heard'[p][m.from] = heard[p][m.from] + 1
        /\ \A x \in Parties \ {m.from} : heard'[p][x] = heard[p][x]
    BY <1>1, <2>1, Fed DEF FeedStep
  <2>3. m.from = Initiator \/ gate[p]
    BY <1>4 DEF ApplyMessage, Barred
  <2>4. gate[p] => heard[p][Initiator] > 0
    BY <1>4, <2>2 DEF Tidied, Led, LeadOf
  <2> QED BY <1>1, <2>1, <2>2, <2>3, <2>4, LocalParties DEF Sendable
<1> QED BY <1>2, <1>3, <1>4 DEF Tidied, Led

LEMMA TidyPoll ==
    ASSUME TypeOK, Net, Phases, Fetched, Cached, Smooth, Tidied, NEW p \in Local,
           \/ DownloadMessages(p)
           \/ \E m \in batch[p] : SkipMessage(p, m) \/ RefuseMessage(p, m),
           faults' = faults
    PROVE  Tidied'
<1>1. /\ UNCHANGED <<main, session, relay, joined, at, heard>> /\ p \in Parties
      /\ joined[p] = session
      /\ \A q \in Local \ {p} : batch'[q] = batch[q] /\ gate'[q] = gate[q]
  BY LocalParties DEF DownloadMessages, SkipMessage, RefuseMessage, NextIn, TypeOK,
                      Net, Sessions
<1>2. Unread' /\ Emptied' /\ Over'
  BY <1>1 DEF Tidied, Unread, Emptied, Over, WasFed
<1>3. \A q \in Local \ {Initiator, p} : LeadOf(q)'
  BY <1>1 DEF Tidied, Led, LeadOf, First
<1> SUFFICES ASSUME p # Initiator, at[p] = 1 PROVE LeadOf(p)'
  BY <1>1, <1>2, <1>3 DEF Tidied, Led, LeadOf
<1>4. LeadOf(p)
  BY DEF Tidied, Led
<1>5. CASE DownloadMessages(p)
  <2>1. batch'[p] = relay[p] /\ gate' = gate
    BY <1>5 DEF DownloadMessages, TypeOK
  <2> QED BY <1>1, <1>4, <2>1 DEF LeadOf, First
<1>6. ASSUME NEW m \in batch[p], SkipMessage(p, m) PROVE LeadOf(p)'
  <2>1. batch'[p] = batch[p] \ {m} /\ gate' = gate
    BY <1>6 DEF SkipMessage, NextIn, TypeOK
  <2>2. ASSUME m = First PROVE heard[p][Initiator] > 0
    <3>1. m \in cache[p] /\ m.session = joined[p] /\ m.round = 1 /\ m.from = Initiator
      BY <1>1, <1>6, <2>2 DEF SkipMessage, Barred, First, Msg
    <3> QED BY <3>1 DEF Cached, CachedBy
  <2>3. heard[p][Initiator] \in Nat
    BY <1>1, LocalParties DEF TypeOK
  <2> QED BY <1>1, <1>4, <2>1, <2>2, <2>3 DEF LeadOf, First
<1>7. ASSUME NEW m \in batch[p], RefuseMessage(p, m) PROVE LeadOf(p)'
  <2>1. batch'[p] = batch[p] \ {m} /\ gate'[p] = TRUE /\ pc[p] = "work"
    BY <1>7 DEF RefuseMessage, NextIn, TypeOK
  <2>2. ~Accepts(p, m) /\ m \in relay[p] /\ m \in Sendable
    BY <1>1, <1>7 DEF RefuseMessage, Fault, TypeOK, Fetched
  <2>3. m.session = session /\ m.round # 1
    BY <1>1, <2>2 DEF Tidied, Unread, Accepts
  <2>4. m # First
    BY <2>3 DEF First, Msg
  <2>5. heard[p][Initiator] > 0
    <3> SUFFICES ASSUME ~(heard[p][Initiator] > 0) PROVE FALSE
      OBVIOUS
    <3>1. ~gate[p] /\ m.from = Initiator /\ heard[p][Initiator] = 0
      BY <1>1, <1>4, <1>7, LocalParties DEF LeadOf, RefuseMessage, Barred, TypeOK
    <3>2. /\ Initiator \in Parties /\ joined[Initiator] = session
          /\ Started(Initiator) /\ at[Initiator] >= 1
      BY <1>1, <2>2, <2>3, <3>1, LocalParties DEF Net, Sessions, Genuine, Unfinished
    <3>3. HasSent(Initiator, 1) /\ ~WasFed(p, Initiator, 1)
      BY <3>1, <3>2 DEF HasSent, WasFed
    <3>4. First \in relay[p]
      BY <1>1, <3>2, <3>3, LocalParties DEF Smooth, First
    <3>5. First \in batch[p]
      BY <1>4, <3>1, <3>4 DEF LeadOf
    <3>6. ~Earlier(First, m)
      BY <1>7, <3>1, <3>5 DEF RefuseMessage, NextIn, First, Msg
    <3>7. m.round > 1
      BY <1>1, <2>2, <2>3 DEF Net, Genuine, Sendable
    <3> QED BY <2>3, <3>6, <3>7 DEF Earlier, First, Msg
  <2>6. heard[p][Initiator] \in Nat
    BY <1>1, LocalParties DEF TypeOK
  <2> QED BY <1>1, <2>5, <2>6 DEF LeadOf
<1> QED BY <1>5, <1>6, <1>7

LEMMA TidyKept ==
    ASSUME IInv, [Next]_vars
    PROVE  Tidy'
<1> USE DEF IInv
<1> SUFFICES ASSUME Pure' PROVE Tidied'
  BY DEF Tidy, Tidied
<1>1. faults' = faults /\ faults = 0 /\ RemotesFollow
  BY FaultsGrow DEF Pure, TypeOK
<1>2. Pure /\ Tidied
  BY <1>1 DEF Pure, Tidy, Tidied
<1>3. main = "wait" => Smooth
  BY <1>1 DEF Paid, TypeOK
<1>4. CASE UNCHANGED vars
  BY <1>2, <1>4 DEF vars, Tidied, Unread, Emptied, Over, Led, LeadOf, WasFed, First
<1>5. CASE Retry
  BY <1>1, <1>2, <1>5, TidyRetry
<1>6. ASSUME NEW p \in Local, PartyStep(p) \/ TimeOut(p) PROVE Tidied'
  <2>1. main = "wait"
    BY <1>6 DEF PartyStep, TimeOut, Start, DownloadMessages, SkipMessage, RefuseMessage,
                ApplyMessage, FinishFails, Phases, Resting
  <2>2. CASE Start(p)
    BY <1>2, <2>2, TidySend
  <2>3. CASE DownloadMessages(p) \/ \E m \in batch[p] : SkipMessage(p, m) \/ RefuseMessage(p, m)
    BY <1>1, <1>2, <1>3, <2>1, <2>3, TidyPoll
  <2>4. CASE \E m \in batch[p] : ApplyMessage(p, m)
    BY <1>1, <1>2, <2>4, TidyApply
  <2>5. CASE \E m \in batch[p] : FinishFails(p, m)
    BY <1>1, <2>5 DEF FinishFails, Fault
  <2>6. CASE TimeOut(p)
    <3>1. ~Quiet
      BY <1>3, <2>1, <2>6, NeverQuiet DEF TimeOut
    <3> QED BY <1>1, <2>6, <3>1 DEF TimeOut
  <2> QED BY <1>6, <2>2, <2>3, <2>4, <2>5, <2>6 DEF PartyStep
<1>7. ASSUME NEW q \in Remotes, NEW m \in relay[q], RemoteApplies(q, m) PROVE Tidied'
  <2>1. FeedStep(q, m) /\ q \in Parties /\ q \notin Local /\ UNCHANGED <<batch, gate>>
    BY <1>7, RemoteFeeds, LocalParties DEF RemoteApplies, partyVars
  <2>2. Unread' /\ Emptied' /\ Over'
    BY <1>1, <1>2, <2>1, TidyFeed DEF Phases
  <2>3. Led'
    BY <1>2, <2>1, LedOthers DEF Led
  <2> QED BY <2>2, <2>3 DEF Tidied
<1> QED BY <1>2, <1>4, <1>5, <1>6, <1>7, TidyJoin DEF Next, RemoteStep

-----------------------------------------------------------------------------
(* The theorems *)

LEMMA InitInv == Init => IInv
<1> SUFFICES ASSUME Init PROVE IInv
  OBVIOUS
<1> USE DEF Init
<1>1. \A q \in Parties : joined[q] = 0 /\ at[q] = 1 /\ relay[q] = {}
                         /\ \A r \in Parties : heard[q][r] = 0
  BY DEF Nobody
<1>2. \A p \in Local : pc[p] = "none" /\ batch[p] = {} /\ cache[p] = {} /\ ~gate[p]
                       /\ p \in Parties
  BY LocalParties
<1>3. Net
  <2>1. \A p \in Parties : \E q \in Parties \ {p} : TRUE
    BY LocalParties DEF Local
  <2> QED BY <1>1, <1>2, <2>1 DEF Net, Sessions, Genuine, Ahead, Unfinished, Started
<1>4. Phases /\ Fetched
  BY <1>1, <1>2 DEF Phases, Resting, PhaseOf, Polling, Fetched
<1>5. Cached
  BY <1>1, <1>2 DEF Cached, CachedBy, Polling
<1>6. Results
  BY LocalParties DEF Results
<1>7. Native
  BY <1>2 DEF Native, NativeOf, Polling
<1>8. Paid
  BY DEF Paid
<1>9. Tidy
  BY <1>1, <1>2 DEF Tidy, Unread, Emptied, Over, Led, LeadOf
<1> QED BY <1>3, <1>4, <1>5, <1>6, <1>7, <1>8, <1>9, InitTypes DEF IInv

LEMMA NextInv == IInv /\ [Next]_vars => IInv'
<1> SUFFICES ASSUME IInv, [Next]_vars PROVE IInv'
  OBVIOUS
<1>1. TypeOK'
  BY TypesKept DEF IInv
<1>2. Net' /\ Fetched' /\ Results'
  BY NetKept, FetchedKept, ResultsKept DEF IInv
<1>3. Phases' /\ Cached' /\ Native'
  BY LocalsKept DEF IInv, Net
<1>4. Paid' /\ Tidy'
  BY PaidKept, TidyKept DEF IInv
<1> QED BY <1>1, <1>2, <1>3, <1>4 DEF IInv

\* What an inbox, a cache and a session have to do with each other, and what failed
\* tries cost, in every reachable state.
THEOREM InductiveInvariant == Spec => []IInv
  BY InitInv, NextInv, PTL DEF Spec

\* The key shares that are returned belong together, whatever failed.
THEOREM SharesAlwaysAgree == Spec => []SharesAgree
<1>1. IInv => SharesAgree
  BY LocalParties DEF IInv, Results, SharesAgree
<1> QED BY <1>1, InductiveInvariant, PTL

\* Nothing is fed twice, and without a fault the initiator's message is fed first.
THEOREM AlwaysFedInOrder == Spec => []FedInOrder
<1>1. IInv => FedInOrder
  <2> SUFFICES ASSUME IInv PROVE FedInOrder
    OBVIOUS
  <2>1. \A p \in Local, q \in Parties : heard[p][q] <= 1
    BY DEF IInv, Cached, CachedBy
  <2>2. faults = 0 /\ RemotesFollow =>
          \A p \in Local \ {Initiator} :
              at[p] = 1 /\ (\E q \in Parties : heard[p][q] > 0)
                  => heard[p][Initiator] > 0
    BY DEF IInv, Tidy, Pure, Led, LeadOf
  <2> QED BY <2>1, <2>2 DEF FedInOrder
<1> QED BY <1>1, InductiveInvariant, PTL

\* With remote parties that follow, every try that fails has a fault of its own:
\* parties do not lock each other out, and leftovers of a try do not spoil the next.
THEOREM TriesFailOnlyByFaults == Spec => []TriesFailForAReason
<1>1. IInv => TriesFailForAReason
  BY DEF IInv, Paid, TriesFailForAReason
<1> QED BY <1>1, InductiveInvariant, PTL

\* Handles live as long as they are used and are freed, up to two of each fault.
THEOREM HandlesAreFreed == Spec => []HandlesFreed
<1>1. IInv => HandlesFreed
  <2> SUFFICES ASSUME IInv PROVE HandlesFreed
    OBVIOUS
  <2>1. \A p \in Local : pc[p] \in {"start", "poll", "work"} =>
          {<<"keyshare", p>>, <<"session", p>>} \subseteq handles
    BY DEF IInv, Native, NativeOf, Polling
  <2>2. main \in {"ok", "failed"} => handles = {}
    BY DEF IInv, Native
  <2>3. RemotesFollow => leaked <= Cardinality(Local) * faults
    BY TwoParties DEF IInv, Paid
  <2> QED BY <2>1, <2>2, <2>3 DEF HandlesFreed
<1> QED BY <1>1, InductiveInvariant, PTL
=============================================================================
