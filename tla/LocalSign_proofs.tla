-------------------------- MODULE LocalSign_proofs --------------------------
(***************************************************************************)
(* Type correctness of LocalSign, the bound on what is in a channel, the   *)
(* life of the native handles and what a signature means, for every number *)
(* of rounds, of messages per round and of faults.                         *)
(***************************************************************************)
EXTENDS LocalSign, TLAPS

\* A party has output no more than it is due, and what is in a channel was
\* output by the one and not yet fed to the other.
WithinARound == \A p \in Parties : sent[p] <= Due(p)
Flow == \A p \in Parties : Len(inbox[p]) + fed[p] <= sent[Peer(p)]

IInv == TypeOK /\ WithinARound /\ Flow

-----------------------------------------------------------------------------
(* Arithmetic *)

\* Multiplication is monotone.
LEMMA TimesMonotone ==
  ASSUME NEW a \in Nat, NEW b \in Nat, NEW c \in Nat, a <= c
  PROVE  b * a <= b * c
  <1>1. b * c = b * a + b * (c - a)
    OBVIOUS
  <1>2. c - a \in Nat
    OBVIOUS
  <1>3. b * (c - a) \in Nat
    BY <1>2
  <1> QED BY <1>1, <1>3

\* Whole division rounds down, and a step up never takes it down.
LEMMA Division ==
  ASSUME NEW a \in Nat, NEW b \in Nat \ {0}
  PROVE  /\ a \div b \in Nat
         /\ b * (a \div b) <= a
         /\ a \div b <= (a + 1) \div b
  OBVIOUS

\* The round a party is in after n messages, and what it is due to have output.
Round(n) == 1 + n \div Burst
DueAt(n) == Burst * (IF Round(n) < Rounds THEN Round(n) ELSE Rounds)

\* What is due never exceeds what was fed by more than a round, nor the
\* protocol, and does not shrink when a message is fed.
LEMMA DueBounds ==
  ASSUME NEW n \in Nat
  PROVE  /\ DueAt(n) \in Nat
         /\ DueAt(n) <= Burst + n
         /\ DueAt(n) <= Burst * Rounds
         /\ DueAt(n) <= DueAt(n + 1)
  <1> DEFINE Least(r) == IF r < Rounds THEN r ELSE Rounds
  <1>1. Burst \in Nat \ {0} /\ Rounds \in Nat \ {0}
    BY SizeAssumption
  <1>2. /\ n \div Burst \in Nat
        /\ Burst * (n \div Burst) <= n
        /\ n \div Burst <= (n + 1) \div Burst
    BY <1>1, Division
  <1>3. (n + 1) \div Burst \in Nat
    BY <1>1, Division
  <1>4. /\ Round(n) \in Nat /\ Round(n + 1) \in Nat
        /\ Round(n) <= Round(n + 1)
    BY <1>2, <1>3 DEF Round
  <1>5. /\ Least(Round(n)) \in Nat /\ Least(Round(n + 1)) \in Nat
        /\ Least(Round(n)) <= Rounds
        /\ Least(Round(n)) <= Round(n)
        /\ Least(Round(n)) <= Least(Round(n + 1))
    BY <1>1, <1>4
  <1>6. Burst * Round(n) <= Burst + n
    <2>1. Burst * (1 + n \div Burst) = Burst + Burst * (n \div Burst)
      BY <1>1, <1>2
    <2> QED BY <2>1, <1>1, <1>2 DEF Round
  <1>7. /\ DueAt(n) = Burst * Least(Round(n))
        /\ DueAt(n + 1) = Burst * Least(Round(n + 1))
    BY DEF DueAt
  <1> HIDE DEF Least
  <1>8. /\ Burst * Least(Round(n)) <= Burst * Rounds
        /\ Burst * Least(Round(n)) <= Burst * Round(n)
        /\ Burst * Least(Round(n)) <= Burst * Least(Round(n + 1))
    BY <1>1, <1>4, <1>5, TimesMonotone
  <1>9. Burst * Least(Round(n)) \in Nat /\ Burst * Round(n) \in Nat
    BY <1>1, <1>4, <1>5
  <1> QED BY <1>1, <1>6, <1>7, <1>8, <1>9

-----------------------------------------------------------------------------
(* The invariant *)

LEMMA DueIs ==
  ASSUME NEW p \in Parties
  PROVE  /\ Due(p) = DueAt(fed[p])
         /\ Due(p)' = DueAt(fed'[p])
  BY DEF Due, DueAt, Round

LEMMA InitIInv == Init => IInv
  <1> SUFFICES ASSUME Init PROVE IInv
    OBVIOUS
  <1>1. Burst \in Nat \ {0} /\ Rounds \in Nat \ {0} /\ MaxFaults \in Nat
    BY SizeAssumption
  <1>2. Burst * Rounds \in Nat
    BY <1>1
  <1>3. TypeOK
    BY <1>1, <1>2 DEF Init, TypeOK, Parties
  <1>4. WithinARound
    <2>1. \A p \in Parties : sent[p] = 0 /\ fed[p] = 0
      BY DEF Init
    <2>2. DueAt(0) \in Nat
      BY DueBounds
    <2>3. \A n \in Nat : 0 <= n
      OBVIOUS
    <2> QED BY <2>1, <2>2, <2>3, DueIs DEF WithinARound
  <1>5. Flow
    BY DEF Init, Flow, Parties, Peer
  <1> QED BY <1>3, <1>4, <1>5 DEF IInv

\* Steps that move no message: they leave the counters and channels alone.
LEMMA QuietKeepsIInv ==
  ASSUME IInv, TypeOK', UNCHANGED <<sent, fed, inbox>>
  PROVE  IInv'
  BY DEF IInv, WithinARound, Flow, Due, TypeOK

\* What localSign itself does.
LEMMA MainKeepsIInv ==
  ASSUME IInv, SetupFails \/ Return \/ \E p \in Parties : OpenSession(p)
  PROVE  IInv'
  <1> USE SizeAssumption
  <1>1. CASE SetupFails
    <2>1. TypeOK'
      BY <1>1 DEF IInv, TypeOK, SetupFails, Fault
    <2> QED BY <1>1, <2>1, QuietKeepsIInv DEF SetupFails
  <1>2. CASE Return
    <2>1. TypeOK'
      BY <1>2 DEF IInv, TypeOK, Return
    <2> QED BY <1>2, <2>1, QuietKeepsIInv DEF Return
  <1>3. CASE \E p \in Parties : OpenSession(p)
    <2> PICK p \in Parties : OpenSession(p)
      BY <1>3
    <2>1. TypeOK'
      BY DEF IInv, TypeOK, OpenSession
    <2> QED BY <2>1, QuietKeepsIInv DEF OpenSession
  <1> QED BY <1>1, <1>2, <1>3

\* A message leaves a session for the channel, or is lost on the way.
LEMMA OutputKeepsIInv ==
  ASSUME IInv, NEW p \in Parties,
         sent[p] < Due(p),
         sent' = [sent EXCEPT ![p] = @ + 1],
         fed' = fed,
         inbox' = [inbox EXCEPT ![Peer(p)] = Append(@, sent[p] + 1)]
           \/ inbox' = inbox
  PROVE  /\ sent' \in [Parties -> 0..Burst * Rounds]
         /\ inbox' \in [Parties -> Seq(Nat)]
         /\ WithinARound' /\ Flow'
  <1>1. /\ Burst \in Nat \ {0} /\ Rounds \in Nat \ {0}
        /\ Burst * Rounds \in Nat
    BY SizeAssumption
  <1>2. /\ sent \in [Parties -> 0..Burst * Rounds]
        /\ fed \in [Parties -> 0..Burst * Rounds]
        /\ inbox \in [Parties -> Seq(Nat)]
    BY DEF IInv, TypeOK
  <1>3. \A q \in Parties : /\ fed[q] \in Nat /\ sent[q] \in Nat
                           /\ Due(q) \in Nat /\ Due(q) <= Burst * Rounds
                           /\ Due(q)' = Due(q)
    <2> TAKE q \in Parties
    <2>1. fed[q] \in Nat /\ sent[q] \in Nat
      BY <1>1, <1>2
    <2> QED BY <2>1, DueBounds, DueIs
  <1>4. sent' \in [Parties -> 0..Burst * Rounds]
    <2>1. sent[p] + 1 \in 0..Burst * Rounds
      BY <1>1, <1>2, <1>3
    <2> QED BY <2>1, <1>2
  <1>5. inbox' \in [Parties -> Seq(Nat)]
    <2>1. sent[p] + 1 \in Nat /\ Peer(p) \in Parties
      BY <1>2, <1>1 DEF Peer, Parties
    <2>2. Append(inbox[Peer(p)], sent[p] + 1) \in Seq(Nat)
      BY <2>1, <1>2
    <2> QED BY <2>1, <2>2, <1>2
  <1>6. WithinARound'
    BY <1>2, <1>3 DEF IInv, WithinARound
  <1>7. Flow'
    <2> SUFFICES ASSUME NEW q \in Parties
                 PROVE  Len(inbox'[q]) + fed'[q] <= sent'[Peer(q)]
      BY DEF Flow
    <2>1. /\ Peer(q) \in Parties /\ Peer(p) \in Parties
          /\ Peer(q) = p <=> q = Peer(p)
      BY DEF Peer, Parties
    <2>2. /\ Len(inbox[q]) + fed[q] <= sent[Peer(q)]
          /\ Len(inbox[q]) \in Nat
          /\ fed[q] \in Nat /\ sent[Peer(q)] \in Nat /\ sent[p] \in Nat
      BY <1>2, <1>3, <2>1 DEF IInv, Flow
    <2>3. CASE q = Peer(p)
      <3>1. Len(inbox'[q]) <= Len(inbox[q]) + 1
        BY <1>2, <1>3, <2>1, <2>2, <2>3
      <3>2. Len(inbox'[q]) \in Nat
        BY <1>5
      <3>3. sent'[Peer(q)] = sent[Peer(q)] + 1
        BY <2>1, <2>3, <1>2
      <3> QED BY <2>2, <3>1, <3>2, <3>3
    <2>4. CASE q # Peer(p)
      BY <2>1, <2>2, <2>4, <1>2
    <2> QED BY <2>3, <2>4
  <1> QED BY <1>4, <1>5, <1>6, <1>7

LEMMA SendKeepsIInv ==
  ASSUME IInv, NEW p \in Parties, Send(p) \/ SendFails(p) \/ SendDone(p)
  PROVE  IInv'
  <1> USE SizeAssumption
  <1>1. CASE Send(p)
    <2>1. /\ sent' \in [Parties -> 0..Burst * Rounds]
          /\ inbox' \in [Parties -> Seq(Nat)]
          /\ WithinARound' /\ Flow'
      BY <1>1, OutputKeepsIInv DEF Send
    <2>2. TypeOK'
      BY <1>1, <2>1 DEF IInv, TypeOK, Send
    <2> QED BY <2>1, <2>2 DEF IInv
  <1>2. CASE SendFails(p)
    <2>1. CASE sent' = [sent EXCEPT ![p] = @ + 1] /\ UNCHANGED pc
      <3>1. /\ sent' \in [Parties -> 0..Burst * Rounds]
            /\ inbox' \in [Parties -> Seq(Nat)]
            /\ WithinARound' /\ Flow'
        BY <1>2, <2>1, OutputKeepsIInv DEF SendFails
      <3>2. TypeOK'
        BY <1>2, <2>1, <3>1 DEF IInv, TypeOK, SendFails, Fault
      <3> QED BY <3>1, <3>2 DEF IInv
    <2>2. CASE AfterSend(p) /\ UNCHANGED sent
      <3>1. TypeOK'
        BY <1>2, <2>2 DEF IInv, TypeOK, SendFails, Fault, AfterSend
      <3> QED BY <1>2, <2>2, <3>1, QuietKeepsIInv DEF SendFails
    <2> QED BY <1>2, <2>1, <2>2 DEF SendFails
  <1>3. CASE SendDone(p)
    <2>1. TypeOK'
      BY <1>3 DEF IInv, TypeOK, SendDone, AfterSend
    <2> QED BY <1>3, <2>1, QuietKeepsIInv DEF SendDone
  <1> QED BY <1>1, <1>2, <1>3

LEMMA ReceiveKeepsIInv ==
  ASSUME IInv, NEW p \in Parties, Receive(p)
  PROVE  IInv'
  <1>1. /\ Burst \in Nat \ {0} /\ Rounds \in Nat \ {0} /\ MaxFaults \in Nat
        /\ Burst * Rounds \in Nat
    BY SizeAssumption
  <1>2. /\ sent \in [Parties -> 0..Burst * Rounds]
        /\ fed \in [Parties -> 0..Burst * Rounds]
        /\ inbox \in [Parties -> Seq(Nat)]
        /\ Peer(p) \in Parties
    BY DEF IInv, TypeOK, Peer, Parties
  <1>3. /\ inbox' = [inbox EXCEPT ![p] = Tail(@)]
        /\ sent' = sent
        /\ inbox[p] # <<>>
        /\ fed' = fed \/ fed' = [fed EXCEPT ![p] = @ + 1]
    BY DEF Receive
  <1>4. /\ Tail(inbox[p]) \in Seq(Nat)
        /\ Len(inbox[p]) \in Nat /\ Len(Tail(inbox[p])) = Len(inbox[p]) - 1
    BY <1>2, <1>3
  <1>5. \A q \in Parties : /\ fed[q] \in Nat /\ sent[q] \in Nat
                           /\ sent[q] <= Burst * Rounds
    BY <1>1, <1>2
  <1>6. Flow'
    <2> SUFFICES ASSUME NEW q \in Parties
                 PROVE  Len(inbox'[q]) + fed'[q] <= sent[Peer(q)]
      BY <1>3 DEF Flow
    <2>1. Len(inbox[q]) + fed[q] <= sent[Peer(q)] /\ Len(inbox[q]) \in Nat
      BY <1>2 DEF IInv, Flow
    <2>2. Peer(q) \in Parties
      BY DEF Peer, Parties
    <2>3. CASE q = p
      <3>1. Len(inbox'[q]) = Len(inbox[q]) - 1
        BY <1>2, <1>3, <1>4, <2>3
      <3>2. fed'[q] = fed[q] \/ fed'[q] = fed[q] + 1
        BY <1>2, <1>3, <2>3
      <3> QED BY <2>1, <2>2, <3>1, <3>2, <1>5
    <2>4. CASE q # p
      BY <2>1, <2>4, <1>2, <1>3
    <2> QED BY <2>3, <2>4
  <1>7. fed' \in [Parties -> 0..Burst * Rounds]
    <2>1. CASE fed' = fed
      BY <2>1, <1>2
    <2>2. CASE fed' = [fed EXCEPT ![p] = @ + 1]
      <3>1. fed'[p] = fed[p] + 1 /\ Len(inbox'[p]) \in Nat
        BY <2>2, <1>2, <1>3, <1>4
      <3>2. Len(inbox'[p]) + fed'[p] <= sent'[Peer(p)]
        BY <1>6 DEF Flow, Peer
      <3>3. fed[p] + 1 \in 0..Burst * Rounds
        BY <3>1, <3>2, <1>1, <1>2, <1>3, <1>5
      <3> QED BY <2>2, <3>3, <1>2
    <2> QED BY <1>3, <2>1, <2>2
  <1>8. TypeOK'
    <2>1. inbox' \in [Parties -> Seq(Nat)]
      BY <1>2, <1>3, <1>4
    <2>2. pc' \in [Parties -> {"none", "send", "wait", "finish", "ended"}]
      BY DEF IInv, TypeOK, Receive, End
    <2>3. err' \in [Parties -> {"none", "input", "timeout", "finish"}]
      BY DEF IInv, TypeOK, Receive, End
    <2>4. faults' \in 0..MaxFaults
      BY <1>1 DEF IInv, TypeOK, Receive, Fault
    <2> QED BY <1>2, <1>7, <2>1, <2>2, <2>3, <2>4 DEF IInv, TypeOK, Receive
  <1>9. WithinARound'
    <2> SUFFICES ASSUME NEW q \in Parties
                 PROVE  sent[q] <= Due(q)'
      BY <1>3 DEF WithinARound
    <2>1. sent[q] <= Due(q) /\ sent[q] \in Nat /\ fed[q] \in Nat
      BY <1>5 DEF IInv, WithinARound
    <2>2. fed'[q] = fed[q] \/ fed'[q] = fed[q] + 1
      BY <1>2, <1>3
    <2>3. Due(q)' = DueAt(fed'[q]) /\ Due(q) = DueAt(fed[q])
      BY DueIs
    <2>4. /\ DueAt(fed[q]) \in Nat /\ DueAt(fed[q] + 1) \in Nat
          /\ DueAt(fed[q]) <= DueAt(fed[q] + 1)
      BY <2>1, DueBounds
    <2> QED BY <2>1, <2>2, <2>3, <2>4
  <1> QED BY <1>6, <1>8, <1>9 DEF IInv

LEMMA EndKeepsIInv ==
  ASSUME IInv, NEW p \in Parties, Timeout(p) \/ Finish(p)
  PROVE  IInv'
  <1> USE SizeAssumption
  <1>1. CASE Timeout(p)
    <2>1. TypeOK'
      BY <1>1 DEF IInv, TypeOK, Timeout, Fault, End
    <2> QED BY <1>1, <2>1, QuietKeepsIInv DEF Timeout
  <1>2. CASE Finish(p)
    <2>1. sig' \in [Parties -> BOOLEAN]
      <3>1. sig \in [Parties -> BOOLEAN]
        BY DEF IInv, TypeOK
      <3>2. sig' = sig \/ sig' = [sig EXCEPT ![p] = TRUE]
        BY <1>2 DEF Finish
      <3> QED BY <3>1, <3>2, Zenon
    <2>2. /\ pc' \in [Parties -> {"none", "send", "wait", "finish", "ended"}]
          /\ err' \in [Parties -> {"none", "input", "timeout", "finish"}]
      BY <1>2 DEF IInv, TypeOK, Finish, End
    <2>3. faults' \in 0..MaxFaults
      BY <1>2 DEF IInv, TypeOK, Finish, Fault
    <2>4. TypeOK'
      BY <1>2, <2>1, <2>2, <2>3 DEF IInv, TypeOK, Finish
    <2> QED BY <1>2, <2>4, QuietKeepsIInv DEF Finish
  <1> QED BY <1>1, <1>2

LEMMA NextKeepsIInv == IInv /\ [Next]_vars => IInv'
  <1> SUFFICES ASSUME IInv, [Next]_vars PROVE IInv'
    OBVIOUS
  <1>1. CASE UNCHANGED vars
    <2>1. TypeOK'
      BY <1>1 DEF IInv, TypeOK, vars
    <2> QED BY <1>1, <2>1, QuietKeepsIInv DEF vars
  <1>2. CASE Next
    <2>1. CASE SetupFails \/ Return \/ \E p \in Parties : OpenSession(p)
      BY <2>1, MainKeepsIInv
    <2>2. CASE \E p \in Parties : PartyStep(p)
      BY <2>2, SendKeepsIInv, ReceiveKeepsIInv, EndKeepsIInv DEF PartyStep
    <2> QED BY <1>2, <2>1, <2>2 DEF Next
  <1> QED BY <1>1, <1>2

\* IInv holds in every reachable state.
THEOREM InductiveInvariant == Spec => []IInv
  BY InitIInv, NextKeepsIInv, PTL DEF Spec

\* Every variable has its type; in particular no more messages are output or
\* fed than the protocol has.
THEOREM TypeCorrect == Spec => []TypeOK
  <1>1. IInv => TypeOK
    BY DEF IInv
  <1> QED BY <1>1, InductiveInvariant, PTL

\* A channel never holds more than two rounds of messages, however many rounds
\* there are and however large they are.
THEOREM ChannelsBounded == Spec => []ChannelsSuffice
  <1>1. IInv => ChannelsSuffice
    <2> SUFFICES ASSUME IInv, NEW p \in Parties
                 PROVE  Len(inbox[p]) <= 2 * Burst
      BY DEF ChannelsSuffice
    <2>1. Peer(p) \in Parties /\ Peer(Peer(p)) = p
      BY DEF Peer, Parties
    <2>2. /\ fed[p] \in Nat /\ fed[Peer(p)] \in Nat
          /\ sent[p] \in Nat /\ sent[Peer(p)] \in Nat
          /\ Len(inbox[p]) \in Nat /\ Len(inbox[Peer(p)]) \in Nat
          /\ Burst \in Nat
      BY <2>1, SizeAssumption DEF IInv, TypeOK
    <2>3. /\ Len(inbox[p]) + fed[p] <= sent[Peer(p)]
          /\ Len(inbox[Peer(p)]) + fed[Peer(p)] <= sent[p]
      BY <2>1 DEF IInv, Flow
    <2>4. /\ sent[p] <= Due(p) /\ sent[Peer(p)] <= Due(Peer(p))
      BY <2>1 DEF IInv, WithinARound
    <2>5. /\ Due(p) \in Nat /\ Due(p) <= Burst + fed[p]
          /\ Due(Peer(p)) \in Nat /\ Due(Peer(p)) <= Burst + fed[Peer(p)]
      BY <2>1, <2>2, DueBounds, DueIs
    <2>6. sent[p] <= Burst + fed[p]
      BY <2>2, <2>4, <2>5
    <2>7. sent[Peer(p)] <= Burst + fed[Peer(p)]
      BY <2>2, <2>4, <2>5
    <2>8. fed[Peer(p)] <= Burst + fed[p]
      BY <2>2, <2>3, <2>6
    <2> QED BY <2>2, <2>3, <2>7, <2>8
  <1> QED BY <1>1, InductiveInvariant, PTL

-----------------------------------------------------------------------------
(* The life of the handles *)

\* The goroutines run between the two halves of localSign, and both sessions are
\* allocated as long as they do.
Lives ==
    /\ main = "setup" => \A p \in Parties : pc[p] = "none"
    /\ main = "wait" => sessions = Parties
    /\ main \in {"signed", "error"} =>
          sessions = {} /\ \A p \in Parties : pc[p] \in {"none", "ended"}

\* A goroutine only works while localSign waits for it.
LEMMA WorksWhileWaiting ==
  ASSUME TypeOK, Lives, NEW p \in Parties, PartyStep(p)
  PROVE  main = "wait"
  BY DEF TypeOK, Lives, PartyStep, Send, SendFails, SendDone, Receive, Timeout,
         Finish

LEMMA LivesKept == TypeOK /\ Lives /\ [Next]_vars => Lives'
  <1> SUFFICES ASSUME TypeOK, Lives, [Next]_vars PROVE Lives'
    OBVIOUS
  <1>1. CASE UNCHANGED vars
    BY <1>1 DEF Lives, vars
  <1>2. CASE SetupFails
    BY <1>2 DEF Lives, SetupFails
  <1>3. CASE Return
    BY <1>3 DEF Lives, Return
  <1>4. ASSUME NEW p \in Parties, OpenSession(p) PROVE Lives'
    BY <1>4 DEF Lives, OpenSession, TypeOK, Parties
  <1>5. ASSUME NEW p \in Parties, PartyStep(p) PROVE Lives'
    <2>1. main = "wait"
      BY <1>5, WorksWhileWaiting
    <2>2. UNCHANGED <<main, sessions>>
      BY <1>5 DEF PartyStep, Send, SendFails, SendDone, Receive, Timeout, Finish
    <2> QED BY <2>1, <2>2 DEF Lives
  <1> QED BY <1>1, <1>2, <1>3, <1>4, <1>5 DEF Next

THEOREM SessionsLive == Spec => []Lives
  <1>1. Init => Lives
    BY DEF Init, Lives
  <1> QED BY <1>1, LivesKept, TypeCorrect, PTL DEF Spec

\* No goroutine works on a session that was freed, and none is left allocated.
THEOREM HandlesStayLive == Spec => []HandlesLive
  <1>1. TypeOK /\ Lives => HandlesLive
    BY DEF TypeOK, Lives, HandlesLive
  <1> QED BY <1>1, SessionsLive, TypeCorrect, PTL

-----------------------------------------------------------------------------
(* Signatures *)

\* What a goroutine leaves behind.
Outcomes ==
    /\ \A p \in Parties :
          /\ pc[p] # "ended" => err[p] = "none"
          /\ pc[p] = "finish" => Finished(p)
          /\ pc[p] = "ended" /\ err[p] = "none" => sig[p] /\ Finished(p)
    /\ main = "signed" => \A p \in Parties : pc[p] = "ended" /\ err[p] = "none"

\* As long as nothing failed, the channels hold what was output and not yet fed,
\* in order, and a goroutine that waits has output all that is due and needs more.
Faultless == faults = 0 =>
    /\ main # "error"
    /\ \A p \in Parties :
          /\ err[p] = "none"
          /\ Len(inbox[p]) + fed[p] = sent[Peer(p)]
          /\ \A i \in 1..Len(inbox[p]) : inbox[p][i] = fed[p] + i
          /\ pc[p] = "wait" => ~Finished(p)
          /\ pc[p] \in {"wait", "finish", "ended"} => sent[p] = Due(p)

LEMMA OutcomesKept == TypeOK /\ Lives /\ Outcomes /\ [Next]_vars => Outcomes'
  <1> SUFFICES ASSUME TypeOK, Lives, Outcomes, [Next]_vars PROVE Outcomes'
    OBVIOUS
  <1>1. CASE UNCHANGED vars
    BY <1>1 DEF Outcomes, vars, Finished
  <1>2. CASE SetupFails
    BY <1>2 DEF Outcomes, SetupFails, Finished
  <1>3. CASE Return
    <2>1. \A p \in Parties : pc[p] = "ended" /\ pc'[p] = pc[p] /\ err'[p] = err[p]
      BY <1>3 DEF Return
    <2>2. main' = "signed" => \A p \in Parties : err[p] = "none"
      BY <1>3 DEF Return
    <2> QED BY <1>3, <2>1, <2>2 DEF Outcomes, Return, Finished
  <1>4. ASSUME NEW p \in Parties, OpenSession(p) PROVE Outcomes'
    <2>1. \A q \in Parties : pc[q] = "none" /\ err[q] = "none"
      BY <1>4 DEF OpenSession, Lives, Outcomes
    <2>2. main' # "signed" /\ err' = err
      BY <1>4 DEF OpenSession
    <2>3. \A q \in Parties : pc'[q] \in {"none", "send"}
      BY <1>4, <2>1 DEF OpenSession
    <2> QED BY <2>1, <2>2, <2>3 DEF Outcomes
  <1>5. ASSUME NEW p \in Parties, PartyStep(p) PROVE Outcomes'
    <2> DEFINE Fine(q) == /\ pc[q] # "ended" => err[q] = "none"
                          /\ pc[q] = "finish" => Finished(q)
                          /\ pc[q] = "ended" /\ err[q] = "none"
                                => sig[q] /\ Finished(q)
    <2>1. main' = main /\ main = "wait"
      BY <1>5, WorksWhileWaiting
      DEF PartyStep, Send, SendFails, SendDone, Receive, Timeout, Finish
    <2>2. \A q \in Parties \ {p} : Fine(q)'
      <3>1. \A q \in Parties \ {p} : Fine(q)
        BY DEF Outcomes
      <3>2. \A q \in Parties \ {p} : /\ pc'[q] = pc[q] /\ err'[q] = err[q]
                                     /\ sig'[q] = sig[q] /\ fed'[q] = fed[q]
        BY <1>5 DEF TypeOK, PartyStep, Send, SendFails, SendDone, Receive, Timeout,
                    Finish, AfterSend, End
      <3> QED BY <3>1, <3>2 DEF Finished
    <2>3. Fine(p)'
      <3>0. Fine(p)
        BY DEF Outcomes
      <3>1. CASE Send(p)
        BY <3>0, <3>1 DEF Send, Finished
      <3>2. CASE SendFails(p) \/ SendDone(p)
        BY <3>0, <3>2 DEF SendFails, SendDone, AfterSend, Finished, TypeOK
      <3>3. CASE Receive(p)
        BY <3>0, <3>3 DEF Receive, End, TypeOK
      <3>4. CASE Timeout(p)
        BY <3>0, <3>4 DEF Timeout, End, TypeOK
      <3>5. CASE Finish(p)
        <4>1. /\ pc[p] = "finish" /\ pc'[p] = "ended" /\ fed' = fed
              /\ err'[p] = "none" => sig'[p]
          BY <3>5 DEF Finish, End, TypeOK
        <4> QED BY <3>0, <4>1 DEF Finished
      <3> QED BY <1>5, <3>1, <3>2, <3>3, <3>4, <3>5 DEF PartyStep
    <2> QED BY <2>1, <2>2, <2>3 DEF Outcomes
  <1> QED BY <1>1, <1>2, <1>3, <1>4, <1>5 DEF Next

\* What is due after every message but none of the last round is a whole round
\* more than the rounds that were fed.
LEMMA RoundsMatch ==
  ASSUME NEW a \in Nat, NEW b \in Nat, a = DueAt(b), b = DueAt(a)
  PROVE  a = Burst * Rounds
  <1> DEFINE Least(r) == IF r < Rounds THEN r ELSE Rounds
             x == Least(Round(a))
             y == Least(Round(b))
  <1>1. Burst \in Nat \ {0} /\ Rounds \in Nat \ {0}
    BY SizeAssumption
  <1>2. \A k \in Nat : (Burst * k) \div Burst = k
    BY <1>1
  <1>3. a \div Burst \in Nat /\ b \div Burst \in Nat
    BY <1>1, Division
  <1>4. x \in Nat /\ y \in Nat
    BY <1>1, <1>3 DEF Round
  <1>5. a = Burst * y /\ b = Burst * x
    BY DEF DueAt
  <1>6. a \div Burst = y /\ b \div Burst = x
    BY <1>2, <1>4, <1>5
  <1>7. x = Least(1 + y) /\ y = Least(1 + x)
    BY <1>6 DEF Round
  <1>8. y = Rounds
    BY <1>1, <1>4, <1>7
  <1> QED BY <1>5, <1>8

\* A party that was fed everything has output everything that is ever due.
LEMMA AllDue ==
  DueAt(Burst * Rounds) = Burst * Rounds
  <1>1. Burst \in Nat \ {0} /\ Rounds \in Nat \ {0}
    BY SizeAssumption
  <1>2. (Burst * Rounds) \div Burst = Rounds
    BY <1>1
  <1> QED BY <1>1, <1>2 DEF DueAt, Round

\* As long as nothing failed, no party starves.
LEMMA NobodyStarves ==
  ASSUME IInv, Outcomes, Faultless, faults = 0, NEW p \in Parties, pc[p] = "wait"
  PROVE  ~Starved(p)
  <1> DEFINE q == Peer(p)
  <1>1. q \in Parties /\ Peer(q) = p
    BY DEF Peer, Parties
  <1>2. /\ fed[p] \in Nat /\ fed[q] \in Nat /\ sent[p] \in Nat /\ sent[q] \in Nat
        /\ inbox[p] \in Seq(Nat) /\ inbox[q] \in Seq(Nat)
    BY <1>1, SizeAssumption DEF IInv, TypeOK
  <1>3. /\ ~Finished(p) /\ sent[p] = Due(p)
        /\ Len(inbox[p]) + fed[p] = sent[q]
        /\ Len(inbox[q]) + fed[q] = sent[p]
        /\ pc[q] \in {"wait", "ended"} => sent[q] = Due(q)
    BY <1>1 DEF Faultless
  <1> SUFFICES ASSUME Starved(p) PROVE FALSE
    OBVIOUS
  <1>4. inbox[p] = <<>> /\ (pc[q] = "ended" \/ (pc[q] = "wait" /\ inbox[q] = <<>>))
    BY DEF Starved
  <1>5. fed[p] = DueAt(fed[q])
    <2>1. fed[p] = sent[q]
      BY <1>2, <1>3, <1>4
    <2> QED BY <2>1, <1>1, <1>3, <1>4, DueIs
  <1>6. CASE pc[q] = "ended"
    <2>1. Finished(q)
      BY <1>1, <1>6 DEF Outcomes, Faultless
    <2> QED BY <2>1, <1>3, <1>5, AllDue DEF Finished
  <1>7. CASE pc[q] = "wait" /\ inbox[q] = <<>>
    <2>1. fed[q] = sent[p]
      BY <1>2, <1>3, <1>7
    <2>2. fed[q] = DueAt(fed[p])
      BY <2>1, <1>3, DueIs
    <2> QED BY <2>2, <1>2, <1>3, <1>5, RoundsMatch DEF Finished
  <1> QED BY <1>4, <1>6, <1>7

\* Faultless of one party.
InOrder(p) ==
    /\ err[p] = "none"
    /\ Len(inbox[p]) + fed[p] = sent[Peer(p)]
    /\ \A i \in 1..Len(inbox[p]) : inbox[p][i] = fed[p] + i
    /\ pc[p] = "wait" => ~Finished(p)
    /\ pc[p] \in {"wait", "finish", "ended"} => sent[p] = Due(p)

\* A step of p keeps the order of messages, if nothing fails in it.
LEMMA StepInOrder ==
  ASSUME IInv, IInv', Outcomes, Faultless, faults = 0, faults' = 0,
         NEW p \in Parties, PartyStep(p), NEW r \in Parties
  PROVE  InOrder(r)'
  <1> DEFINE q == Peer(p)
  <1>1. /\ q \in Parties /\ Peer(q) = p /\ p # q /\ (r = p \/ r = q)
        /\ Peer(r) \in Parties
    BY DEF Peer, Parties
  <1>2. /\ \A s \in Parties : /\ fed[s] \in Nat /\ sent[s] \in Nat
                               /\ inbox[s] \in Seq(Nat) /\ Len(inbox[s]) \in Nat
        /\ fed \in [Parties -> 0..Burst * Rounds]
        /\ sent \in [Parties -> 0..Burst * Rounds]
        /\ inbox \in [Parties -> Seq(Nat)]
        /\ pc \in [Parties -> {"none", "send", "wait", "finish", "ended"}]
    BY SizeAssumption DEF IInv, TypeOK
  <1>3. InOrder(p) /\ InOrder(q) /\ InOrder(r)
    BY <1>1 DEF Faultless, InOrder
  <1>4. ~Fault
    BY DEF Fault
  <1>5. CASE Send(p)
    <2>1. /\ pc[p] = "send" /\ pc' = pc /\ fed' = fed /\ err' = err
          /\ sent' = [sent EXCEPT ![p] = @ + 1]
          /\ inbox' = [inbox EXCEPT ![q] = Append(@, sent[p] + 1)]
      BY <1>5 DEF Send
    <2>2. Due(r)' = Due(r) /\ (Finished(r)' <=> Finished(r))
      BY <2>1 DEF Due, Finished
    <2>3. CASE r = p
      BY <1>1, <1>2, <1>3, <2>1, <2>2, <2>3 DEF InOrder
    <2>4. CASE r = q
      <3>1. inbox'[q] = Append(inbox[q], sent[p] + 1) /\ sent'[p] = sent[p] + 1
        BY <1>1, <1>2, <2>1
      <3>2. /\ Len(inbox'[q]) = Len(inbox[q]) + 1
            /\ \A i \in 1..Len(inbox[q]) : inbox'[q][i] = inbox[q][i]
            /\ inbox'[q][Len(inbox[q]) + 1] = sent[p] + 1
        BY <1>2, <3>1, <1>1
      <3>3. Len(inbox[q]) + fed[q] = sent[p]
        BY <1>1, <1>3 DEF InOrder
      <3>4. \A i \in 1..Len(inbox'[q]) : inbox'[q][i] = fed'[q] + i
        <4> TAKE i \in 1..Len(inbox'[q])
        <4>1. CASE i \in 1..Len(inbox[q])
          BY <4>1, <3>2, <2>1, <1>3 DEF InOrder
        <4>2. CASE i = Len(inbox[q]) + 1
          BY <4>2, <3>2, <3>3, <2>1, <1>1, <1>2
        <4> QED BY <4>1, <4>2, <3>2, <1>1, <1>2
      <3>5. Len(inbox'[q]) + fed'[q] = sent'[p]
        BY <3>1, <3>2, <3>3, <2>1, <1>1, <1>2
      <3>6. sent'[q] = sent[q]
        BY <1>1, <1>2, <2>1
      <3> QED BY <1>1, <1>3, <2>1, <2>2, <2>4, <3>4, <3>5, <3>6 DEF InOrder
    <2> QED BY <1>1, <2>3, <2>4
  <1>6. CASE SendDone(p)
    <2>1. UNCHANGED <<inbox, sent, fed, err>> /\ pc[p] = "send" /\ sent[p] = Due(p)
      BY <1>6 DEF SendDone
    <2>2. Due(r)' = Due(r) /\ (Finished(r)' <=> Finished(r))
      BY <2>1 DEF Due, Finished
    <2>3. /\ pc'[p] = IF Finished(p) THEN "finish" ELSE "wait"
          /\ pc'[q] = pc[q]
      BY <1>1, <1>2, <1>6 DEF SendDone, AfterSend
    <2> QED BY <1>1, <1>3, <2>1, <2>2, <2>3 DEF InOrder
  <1>7. CASE Receive(p)
    <2>1. /\ pc[p] = "wait" /\ inbox[p] # <<>> /\ sent' = sent
          /\ inbox' = [inbox EXCEPT ![p] = Tail(@)]
      BY <1>7 DEF Receive
    <2>2. Len(inbox[p]) > 0 /\ Head(inbox[p]) = inbox[p][1]
      BY <1>2, <2>1
    <2>3. Head(inbox[p]) = fed[p] + 1
      BY <1>2, <2>2, <1>3 DEF InOrder
    <2>4. /\ fed' = [fed EXCEPT ![p] = @ + 1]
          /\ pc' = [pc EXCEPT ![p] = "send"] /\ err' = err
      BY <1>4, <1>7, <2>3 DEF Receive
    <2>5. CASE r = p
      <3>1. /\ inbox'[p] = Tail(inbox[p]) /\ fed'[p] = fed[p] + 1 /\ pc'[p] = "send"
        BY <1>2, <2>1, <2>4
      <3>2. /\ Len(inbox'[p]) = Len(inbox[p]) - 1
            /\ \A i \in 1..Len(inbox'[p]) : inbox'[p][i] = inbox[p][i + 1]
        BY <1>2, <2>1, <2>2, <3>1
      <3>3. \A i \in 1..Len(inbox'[p]) : inbox'[p][i] = fed'[p] + i
        <4> TAKE i \in 1..Len(inbox'[p])
        <4>1. i + 1 \in 1..Len(inbox[p]) /\ i \in Nat
          BY <1>2, <3>2
        <4>2. inbox[p][i + 1] = fed[p] + (i + 1)
          BY <4>1, <1>3 DEF InOrder
        <4> QED BY <4>1, <4>2, <3>1, <3>2, <1>2
      <3>4. Len(inbox'[p]) + fed'[p] = sent'[q]
        BY <1>1, <1>2, <1>3, <2>1, <2>2, <3>1, <3>2 DEF InOrder
      <3> QED BY <2>4, <2>5, <3>1, <3>3, <3>4, <1>3 DEF InOrder
    <2>6. CASE r = q
      <3>1. inbox'[q] = inbox[q] /\ fed'[q] = fed[q] /\ pc'[q] = pc[q]
        BY <1>1, <1>2, <2>1, <2>4
      <3>2. Due(q)' = Due(q) /\ (Finished(q)' <=> Finished(q))
        BY <3>1 DEF Due, Finished
      <3> QED BY <2>1, <2>4, <2>6, <3>1, <3>2, <1>1, <1>3 DEF InOrder
    <2> QED BY <1>1, <2>5, <2>6
  <1>8. CASE Finish(p)
    <2>1. /\ pc[p] = "finish" /\ pc' = [pc EXCEPT ![p] = "ended"]
          /\ UNCHANGED <<inbox, sent, fed, err>>
      BY <1>4, <1>8 DEF Finish
    <2>2. Due(r)' = Due(r) /\ (Finished(r)' <=> Finished(r))
      BY <2>1 DEF Due, Finished
    <2>3. pc'[p] = "ended" /\ pc'[q] = pc[q]
      BY <1>1, <1>2, <2>1
    <2> QED BY <1>1, <1>3, <2>1, <2>2, <2>3 DEF InOrder
  <1>9. ~SendFails(p) /\ ~Timeout(p)
    BY <1>4, NobodyStarves DEF SendFails, Timeout
  <1> QED BY <1>5, <1>6, <1>7, <1>8, <1>9 DEF PartyStep

LEMMA FaultlessKept ==
  IInv /\ IInv' /\ Lives /\ Outcomes /\ Faultless /\ [Next]_vars => Faultless'
  <1> SUFFICES ASSUME IInv, IInv', Lives, Outcomes, Faultless, [Next]_vars, faults' = 0
               PROVE  main' # "error" /\ \A r \in Parties : InOrder(r)'
    BY DEF Faultless, InOrder
  <1>1. faults = 0
    <2>1. faults \in Nat
      BY SizeAssumption DEF IInv, TypeOK
    <2>2. faults' = faults \/ faults' = faults + 1
      BY DEF Next, vars, SetupFails, Return, OpenSession, PartyStep, Send, SendFails,
             SendDone, Receive, Timeout, Finish, Fault
    <2> QED BY <2>1, <2>2
  <1>2. main # "error" /\ \A r \in Parties : InOrder(r)
    BY <1>1 DEF Faultless, InOrder
  <1>3. ~Fault
    BY <1>1 DEF Fault
  <1>4. CASE UNCHANGED vars
    BY <1>2, <1>4 DEF vars, InOrder, Due, Finished
  <1>5. CASE Return
    BY <1>2, <1>5 DEF Return, InOrder, Due, Finished
  <1>6. ASSUME NEW p \in Parties, OpenSession(p)
        PROVE  main' # "error" /\ \A r \in Parties : InOrder(r)'
    <2>1. UNCHANGED <<inbox, sent, fed, err>>
      BY <1>6 DEF OpenSession
    <2>2. main' \in {"setup", "wait"} /\ \A r \in Parties : pc'[r] \in {"none", "send"}
      BY <1>6 DEF OpenSession, Lives
    <2> QED BY <1>2, <2>1, <2>2 DEF InOrder, Due, Finished
  <1>7. ASSUME NEW p \in Parties, PartyStep(p)
        PROVE  main' # "error" /\ \A r \in Parties : InOrder(r)'
    <2>1. main' = main
      BY <1>7 DEF PartyStep, Send, SendFails, SendDone, Receive, Timeout, Finish
    <2> QED BY <1>1, <1>2, <1>7, <2>1, StepInOrder
  <1>8. ~SetupFails
    BY <1>3 DEF SetupFails
  <1> QED BY <1>4, <1>5, <1>6, <1>7, <1>8 DEF Next

\* A signature is only returned when both parties have finished; an error only
\* when something failed: whatever the size of the protocol, the two parties
\* never starve one another.
THEOREM SignaturesAreByBoth == Spec => []SignedByBoth
  <1> DEFINE Inv == IInv /\ Lives /\ Outcomes /\ Faultless
  <1>1. Init => Inv
    <2> SUFFICES ASSUME Init PROVE Outcomes /\ Faultless /\ Lives
      BY InitIInv
    <2>1. Outcomes /\ Lives
      BY DEF Init, Outcomes, Lives
    <2>2. Faultless
      BY DEF Init, Faultless, Parties, Peer
    <2> QED BY <2>1, <2>2
  <1>2. Inv /\ [Next]_vars => Inv'
    <2> SUFFICES ASSUME Inv, [Next]_vars PROVE Inv'
      OBVIOUS
    <2>1. TypeOK
      BY DEF IInv
    <2>2. IInv'
      BY NextKeepsIInv
    <2>3. Lives'
      BY <2>1, LivesKept
    <2>4. Outcomes'
      BY <2>1, OutcomesKept
    <2>5. Faultless'
      BY <2>2, FaultlessKept
    <2> QED BY <2>2, <2>3, <2>4, <2>5
  <1>3. Inv => SignedByBoth
    <2> SUFFICES ASSUME Inv PROVE SignedByBoth
      OBVIOUS
    <2>1. main = "signed" => \A p \in Parties : sig[p] /\ Finished(p)
      BY DEF Outcomes
    <2>2. main = "error" => faults > 0
      <3>1. faults \in Nat
        BY SizeAssumption DEF IInv, TypeOK
      <3> QED BY <3>1 DEF Faultless
    <2> QED BY <2>1, <2>2 DEF SignedByBoth
  <1> HIDE DEF Inv
  <1> QED BY <1>1, <1>2, <1>3, PTL DEF Spec
=============================================================================
