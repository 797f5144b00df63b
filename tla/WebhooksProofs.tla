---------------------------- MODULE WebhooksProofs ----------------------------
(***************************************************************************)
(* The event bus delivers every event once, in order, to every webhook     *)
(* that wants it, and retries as it says; the handlers of webhooks use the *)
(* bus as it allows, so all that is proved of it holds here, and its list  *)
(* agrees with the table. All of it for any number of events, restarts and *)
(* webhooks.                                                               *)
(***************************************************************************)
EXTENDS Webhooks, SequenceTheorems, FiniteSetTheorems, TLAPS

(***************************************************************************)
(* The bus alone, under the specification BusSpec.                         *)
(***************************************************************************)

USE DEF WebhookConfig, Outcomes, MaxAttempts

PostRecord == [event : Nat, webhook : Nat, attempt : Nat, outcome : Outcomes]
HandledRecord == [event : Nat, reach : Nat]

LEMMA Appended ==
    ASSUME NEW S, NEW s \in Seq(S), NEW x \in S
    PROVE  /\ Append(s, x) \in Seq(S)
           /\ Len(Append(s, x)) = Len(s) + 1
           /\ DOMAIN Append(s, x) = 1..(Len(s) + 1)
           /\ \A i \in 1..Len(s) : Append(s, x)[i] = s[i]
           /\ Append(s, x)[Len(s) + 1] = x
  OBVIOUS

LEMMA Shortened ==
    ASSUME NEW S, NEW s \in Seq(S), s # <<>>
    PROVE  /\ Tail(s) \in Seq(S)
           /\ Len(Tail(s)) = Len(s) - 1
           /\ DOMAIN Tail(s) = 1..(Len(s) - 1)
           /\ \A i \in 1..(Len(s) - 1) : Tail(s)[i] = s[i + 1]
           /\ Head(s) = s[1]
           /\ Len(s) >= 1
  OBVIOUS

LEMMA ListIsSeq ==
    ASSUME NEW S, NEW n \in Nat, NEW s \in [1..n -> S]
    PROVE  s \in Seq(S)
  BY SeqDef

\* A delivery step either ends the delivery of e or moves to the next webhook.
Ends(e) ==
    /\ handled' = Append(handled, [event |-> e, reach |-> Len(webhooks)])
    /\ current' = 0
    /\ position' = 0
    /\ attempt' = 0

Moves(e, j) ==
    /\ current' = e
    /\ position' = j
    /\ attempt' = 1
    /\ handled' = handled

LEMMA DeliverySteps ==
    ASSUME NEW e, NEW i \in Nat, DeliverFrom(e, i), Len(webhooks) \in Nat
    PROVE  \/ /\ Ends(e)
              /\ \A w \in i..Len(webhooks) : ~Matches(webhooks[w], emitted[e])
           \/ \E j \in i..Len(webhooks) :
                 /\ Moves(e, j)
                 /\ Matches(webhooks[j], emitted[e])
                 /\ \A w \in i..(j - 1) : ~Matches(webhooks[w], emitted[e])
  <1> DEFINE targets == {j \in i..Len(webhooks) : Matches(webhooks[j], emitted[e])}
  <1>1. CASE /\ targets = {}
             /\ Ends(e)
    BY <1>1
  <1>2. CASE \E j \in targets : Moves(e, j) /\ \A k \in targets : j <= k
    <2>1. PICK j \in targets : Moves(e, j) /\ \A k \in targets : j <= k
      BY <1>2
    <2>2. ASSUME NEW w \in i..(j - 1), Matches(webhooks[w], emitted[e])
          PROVE  FALSE
      <3>1. w \in targets
        BY <2>2
      <3>2. j <= w
        BY <2>1, <3>1
      <3> QED
        BY <3>2
    <2> QED
      BY <2>1, <2>2
  <1>3. \/ targets = {} /\ Ends(e)
        \/ \E j \in targets : Moves(e, j) /\ \A k \in targets : j <= k
    BY DEF DeliverFrom, Ends, Moves
  <1> QED
    BY <1>1, <1>2, <1>3

(***************************************************************************)
(* Type correctness.                                                       *)
(***************************************************************************)

LEMMA DeliveryTyped ==
    ASSUME BusTypeOK, NEW e \in Nat, NEW i \in Nat, DeliverFrom(e, i)
    PROVE  /\ current' \in Nat
           /\ position' \in Nat
           /\ attempt' \in 0..MaxAttempts
           /\ handled' \in Seq(HandledRecord)
  <1>1. Len(webhooks) \in Nat
    BY DEF BusTypeOK
  <1>2. CASE Ends(e)
    <2>1. [event |-> e, reach |-> Len(webhooks)] \in HandledRecord
      BY <1>1 DEF HandledRecord
    <2> QED
      BY <1>2, <2>1, Appended DEF Ends, BusTypeOK, HandledRecord
  <1>3. CASE \E j \in i..Len(webhooks) : Moves(e, j)
    BY <1>1, <1>3 DEF Moves, BusTypeOK, HandledRecord
  <1> QED
    BY <1>1, <1>2, <1>3, DeliverySteps

LEMMA PostTyped ==
    ASSUME BusTypeOK, NEW outcome \in Outcomes, Posted(outcome)
    PROVE  posts' \in Seq(PostRecord)
  <1>1. [event |-> current, webhook |-> position, attempt |-> attempt,
         outcome |-> outcome] \in PostRecord
    BY DEF BusTypeOK, PostRecord
  <1> QED
    BY <1>1, Appended DEF Posted, BusTypeOK, PostRecord

\* Every step keeps the types.
LEMMA TypeStep ==
    ASSUME BusTypeOK, [BusNext]_busVars
    PROVE  BusTypeOK'
  <1>1. CASE UNCHANGED busVars
    BY <1>1 DEF BusTypeOK, busVars, worker
  <1>2. ASSUME NEW n \in 0..MaxRegistered, NEW list \in [1..n -> WebhookConfig], Start(list)
        PROVE  BusTypeOK'
    <2>1. list \in Seq(WebhookConfig)
      <3>1. n \in Nat
        BY BusAssumption DEF BusAssumption
      <3> HIDE DEF WebhookConfig
      <3> QED
        BY <3>1, ListIsSeq
    <2>2. up' \in BOOLEAN
      BY <1>2, Zenon DEF Start
    <2>3. webhooks' \in Seq(WebhookConfig)
      BY <1>2, <2>1 DEF Start
    <2>4. UNCHANGED <<queue, current, position, attempt, handled, posts, emitted>>
      BY <1>2 DEF Start, worker
    <2> QED
      BY <2>2, <2>3, <2>4 DEF BusTypeOK
  <1>3. CASE Stop
    <2>1. \A S : <<>> \in Seq(S)
      BY EmptySeq
    <2>2. /\ queue' \in Seq(Nat)
          /\ webhooks' \in Seq(WebhookConfig)
          /\ emitted' \in Seq(Types)
          /\ handled' \in Seq(HandledRecord)
          /\ posts' \in Seq(PostRecord)
      BY <1>3, <2>1, Zenon DEF Stop
    <2>3. current' = 0 /\ position' = 0 /\ attempt' = 0
      BY <1>3 DEF Stop
    <2>4. up' \in BOOLEAN
      BY <1>3, Zenon DEF Stop
    <2> QED
      BY <2>2, <2>3, <2>4 DEF BusTypeOK, HandledRecord, PostRecord
  <1>4. ASSUME NEW type \in Types, Emit(type)
        PROVE  BusTypeOK'
    <2>1. emitted' \in Seq(Types)
      BY <1>4, Appended DEF BusTypeOK, Emit
    <2>2. queue' \in Seq(Nat)
      BY <1>4, Appended DEF BusTypeOK, Emit
    <2> QED
      BY <1>4, <2>1, <2>2 DEF BusTypeOK, Emit, worker
  <1>5. ASSUME NEW config \in WebhookConfig, Register(config)
        PROVE  BusTypeOK'
    <2>1. webhooks' \in Seq(WebhookConfig)
      BY <1>5, Appended DEF BusTypeOK, Register
    <2> QED
      BY <1>5, <2>1 DEF BusTypeOK, Register, worker
  <1>6. CASE Take
    <2>1. NextEvent \in Nat /\ queue' \in Seq(Nat)
      BY <1>6, Shortened DEF BusTypeOK, Take, NextEvent
    <2>2. /\ current' \in Nat
          /\ position' \in Nat
          /\ attempt' \in 0..MaxAttempts
          /\ handled' \in Seq(HandledRecord)
      BY <1>6, <2>1, DeliveryTyped DEF Take
    <2> QED
      BY <1>6, <2>1, <2>2 DEF BusTypeOK, Take, HandledRecord
  <1>7. CASE Retry
    <2>1. attempt' \in 0..MaxAttempts
      BY <1>7 DEF BusTypeOK, Retry, LastAttempt
    <2>2. posts' \in Seq(PostRecord)
      BY <1>7, PostTyped DEF Retry
    <2> QED
      BY <1>7, <2>1, <2>2 DEF BusTypeOK, Retry, PostRecord
  <1>8. CASE NextWebhook
    <2>1. posts' \in Seq(PostRecord)
      BY <1>8, PostTyped DEF NextWebhook
    <2>2. /\ current' \in Nat
          /\ position' \in Nat
          /\ attempt' \in 0..MaxAttempts
          /\ handled' \in Seq(HandledRecord)
      <3>1. current \in Nat /\ position + 1 \in Nat /\ DeliverFrom(current, position + 1)
        BY <1>8 DEF BusTypeOK, NextWebhook
      <3> QED
        BY <3>1, DeliveryTyped
    <2> QED
      BY <1>8, <2>1, <2>2 DEF BusTypeOK, NextWebhook, PostRecord, HandledRecord
  <1> QED
    BY <1>1, <1>2, <1>3, <1>4, <1>5, <1>6, <1>7, <1>8 DEF BusNext, Work

LEMMA BusTypeInit ==
    ASSUME BusInit
    PROVE  BusTypeOK
  <1>1. \A S : <<>> \in Seq(S)
    BY EmptySeq
  <1>2. /\ queue \in Seq(Nat)
        /\ webhooks \in Seq(WebhookConfig)
        /\ emitted \in Seq(Types)
        /\ handled \in Seq(HandledRecord)
        /\ posts \in Seq(PostRecord)
    BY <1>1, Zenon DEF BusInit
  <1>3. current = 0 /\ position = 0 /\ attempt = 0
    BY DEF BusInit
  <1>4. up \in BOOLEAN
    BY Zenon DEF BusInit
  <1> QED
    BY <1>2, <1>3, <1>4 DEF BusTypeOK, HandledRecord, PostRecord

\* The variables of the bus keep their types.
THEOREM BusTypeCorrect == BusSpec => []BusTypeOK
  <1>1. BusInit => BusTypeOK
    BY BusTypeInit
  <1>2. BusTypeOK /\ [BusNext]_busVars => BusTypeOK'
    BY TypeStep
  <1> QED
    BY <1>1, <1>2, PTL DEF BusSpec

(***************************************************************************)
(* Every event is accounted for.                                           *)
(***************************************************************************)

BusInvariant ==
    /\ BusTypeOK
    /\ WorkerState
    /\ Accounted

\* What a delivery step does to the worker and to the events handled.
LEMMA DeliveryAccounts ==
    ASSUME BusTypeOK, NEW e \in Nat \ {0}, NEW i \in Nat \ {0}, DeliverFrom(e, i)
    PROVE  /\ \/ current' = 0 /\ attempt' = 0 /\ position' = 0
              \/ current' = e /\ attempt' = 1 /\ position' # 0
           /\ Len(handled') + Busy' = Len(handled) + 1
           /\ \A h \in 1..Len(handled) : handled'[h] = handled[h]
           /\ current' = 0 => handled'[Len(handled) + 1].event = e
           /\ Len(handled') >= Len(handled)
  <1>1. Len(webhooks) \in Nat /\ Len(handled) \in Nat
    BY DEF BusTypeOK
  <1>2. CASE Ends(e)
    <2>1. [event |-> e, reach |-> Len(webhooks)] \in HandledRecord
      BY <1>1 DEF HandledRecord
    <2>2. handled \in Seq(HandledRecord)
      BY DEF BusTypeOK, HandledRecord
    <2>3. /\ Len(handled') = Len(handled) + 1
          /\ \A h \in 1..Len(handled) : handled'[h] = handled[h]
          /\ handled'[Len(handled) + 1] = [event |-> e, reach |-> Len(webhooks)]
      BY <1>2, <2>1, <2>2, Appended DEF Ends
    <2> QED
      BY <1>1, <1>2, <2>3 DEF Ends, Busy
  <1>3. CASE \E j \in i..Len(webhooks) : Moves(e, j)
    BY <1>1, <1>3 DEF Moves, Busy
  <1> QED
    BY <1>1, <1>2, <1>3, DeliverySteps

LEMMA AccountedStep ==
    ASSUME BusInvariant, [BusNext]_busVars
    PROVE  WorkerState' /\ Accounted'
  <1> USE DEF BusInvariant
  <1>0. /\ Len(emitted) \in Nat /\ Len(handled) \in Nat /\ Len(queue) \in Nat
        /\ DOMAIN queue = 1..Len(queue)
        /\ DOMAIN handled = 1..Len(handled)
        /\ Busy \in {0, 1}
    BY DEF BusTypeOK, Busy
  <1>1. CASE UNCHANGED busVars
    BY <1>1 DEF WorkerState, Accounted, Busy, busVars, worker
  <1>2. ASSUME NEW n \in 0..MaxRegistered, NEW list \in [1..n -> WebhookConfig], Start(list)
        PROVE  WorkerState' /\ Accounted'
    BY <1>2 DEF WorkerState, Accounted, Busy, Start, worker
  <1>3. CASE Stop
    BY <1>3, EmptySeq DEF WorkerState, Accounted, Busy, Stop
  <1>4. ASSUME NEW type \in Types, Emit(type)
        PROVE  WorkerState' /\ Accounted'
    <2>1. /\ Len(emitted') = Len(emitted) + 1
          /\ Len(queue') = Len(queue) + 1
          /\ DOMAIN queue' = 1..(Len(queue) + 1)
          /\ \A i \in 1..Len(queue) : queue'[i] = queue[i]
          /\ queue'[Len(queue) + 1] = Len(emitted) + 1
      BY <1>0, <1>4, Appended DEF Emit, BusTypeOK
    <2>2. UNCHANGED <<up, webhooks, current, position, attempt, handled>>
      BY <1>4 DEF Emit, worker
    <2>3. WorkerState'
      BY <1>4, <2>2 DEF WorkerState, Emit
    <2>4. Accounted'
      <3>1. Busy' = Busy
        BY <2>2 DEF Busy
      <3>2. Len(emitted') = Len(handled') + Busy' + Len(queue')
        BY <1>0, <2>1, <2>2, <3>1 DEF Accounted
      <3>3. \A i \in DOMAIN queue' : queue'[i] = Len(handled') + Busy' + i
        BY <1>0, <2>1, <2>2, <3>1 DEF Accounted
      <3> QED
        BY <2>2, <3>2, <3>3 DEF Accounted
    <2> QED
      BY <2>3, <2>4
  <1>5. ASSUME NEW config \in WebhookConfig, Register(config)
        PROVE  WorkerState' /\ Accounted'
    BY <1>5 DEF WorkerState, Accounted, Busy, Register, worker
  <1>6. CASE Take
    <2>1. /\ Len(queue') = Len(queue) - 1
          /\ DOMAIN queue' = 1..(Len(queue) - 1)
          /\ \A i \in 1..(Len(queue) - 1) : queue'[i] = queue[i + 1]
          /\ NextEvent = queue[1]
          /\ Len(queue) >= 1
      BY <1>6, Shortened DEF Take, NextEvent, BusTypeOK
    <2>2. Busy = 0 /\ NextEvent = Len(handled) + 1
      BY <1>0, <1>6, <2>1 DEF Take, Accounted, Busy
    <2>3. /\ \/ current' = 0 /\ attempt' = 0 /\ position' = 0
             \/ current' = NextEvent /\ attempt' = 1 /\ position' # 0
          /\ Len(handled') + Busy' = Len(handled) + 1
          /\ \A h \in 1..Len(handled) : handled'[h] = handled[h]
          /\ current' = 0 => handled'[Len(handled) + 1].event = NextEvent
      <3>1. NextEvent \in Nat \ {0} /\ DeliverFrom(NextEvent, 1)
        BY <1>0, <1>6, <2>2 DEF Take
      <3> QED
        BY <3>1, DeliveryAccounts
    <2>4. UNCHANGED <<up, webhooks, emitted>>
      BY <1>6 DEF Take
    <2>5. handled' \in Seq(HandledRecord) /\ Busy' \in {0, 1}
      BY <1>6, TypeStep DEF BusTypeOK, HandledRecord, Busy
    <2>6. WorkerState'
      BY <1>6, <2>2, <2>3, <2>4, <1>0 DEF WorkerState, Take
    <2>7. Accounted'
      <3>1. Len(emitted') = Len(handled') + Busy' + Len(queue')
        BY <1>0, <2>1, <2>2, <2>3, <2>4, <2>5 DEF Accounted
      <3>2. \A h \in DOMAIN handled' : handled'[h].event = h
        BY <1>0, <2>2, <2>3, <2>5 DEF Accounted, Busy
      <3>3. current' # 0 => current' = Len(handled') + 1
        BY <1>0, <2>2, <2>3, <2>5 DEF Busy
      <3>4. \A i \in DOMAIN queue' : queue'[i] = Len(handled') + Busy' + i
        <4>1. ASSUME NEW i \in DOMAIN queue'
              PROVE  queue'[i] = Len(handled') + Busy' + i
          <5>1. i \in 1..(Len(queue) - 1) /\ queue'[i] = queue[i + 1]
            BY <2>1, <4>1
          <5>2. i + 1 \in DOMAIN queue
            BY <1>0, <5>1
          <5>3. queue[i + 1] = Len(handled) + Busy + (i + 1)
            BY <5>2 DEF Accounted
          <5> QED
            BY <1>0, <2>2, <2>3, <5>1, <5>3
        <4> QED
          BY <4>1
      <3> QED
        BY <3>1, <3>2, <3>3, <3>4 DEF Accounted
    <2> QED
      BY <2>6, <2>7
  <1>7. CASE Retry
    BY <1>0, <1>7 DEF WorkerState, Accounted, Busy, Retry, BusTypeOK
  <1>8. CASE NextWebhook
    <2>1. current # 0 /\ Busy = 1 /\ current = Len(handled) + 1
      BY <1>8 DEF NextWebhook, WorkerState, Accounted, Busy
    <2>2. /\ \/ current' = 0 /\ attempt' = 0 /\ position' = 0
             \/ current' = current /\ attempt' = 1 /\ position' # 0
          /\ Len(handled') + Busy' = Len(handled) + 1
          /\ \A h \in 1..Len(handled) : handled'[h] = handled[h]
          /\ current' = 0 => handled'[Len(handled) + 1].event = current
      <3>1. /\ current \in Nat \ {0}
            /\ position + 1 \in Nat \ {0}
            /\ DeliverFrom(current, position + 1)
        BY <1>8, <2>1 DEF NextWebhook, BusTypeOK
      <3> QED
        BY <3>1, DeliveryAccounts
    <2>3. UNCHANGED <<up, queue, webhooks, emitted>>
      BY <1>8 DEF NextWebhook
    <2>4. handled' \in Seq(HandledRecord) /\ Busy' \in {0, 1}
      BY <1>8, TypeStep DEF BusTypeOK, HandledRecord, Busy
    <2>5. WorkerState'
      BY <2>1, <2>2, <2>3 DEF WorkerState
    <2>6. Accounted'
      <3>1. Len(emitted') = Len(handled') + Busy' + Len(queue')
        BY <1>0, <2>1, <2>2, <2>3, <2>4 DEF Accounted
      <3>2. \A h \in DOMAIN handled' : handled'[h].event = h
        BY <1>0, <2>1, <2>2, <2>4 DEF Accounted, Busy
      <3>3. current' # 0 => current' = Len(handled') + 1
        BY <1>0, <2>1, <2>2, <2>4 DEF Busy
      <3>4. \A i \in DOMAIN queue' : queue'[i] = Len(handled') + Busy' + i
        BY <1>0, <2>1, <2>2, <2>3, <2>4 DEF Accounted
      <3> QED
        BY <3>1, <3>2, <3>3, <3>4 DEF Accounted
    <2> QED
      BY <2>5, <2>6
  <1> QED
    BY <1>1, <1>2, <1>3, <1>4, <1>5, <1>6, <1>7, <1>8 DEF BusNext, Work

LEMMA BusInvariantHolds == BusSpec => []BusInvariant
  <1>1. BusInit => BusInvariant
    <2>1. BusInit => BusTypeOK
      BY BusTypeInit
    <2>2. BusInit => WorkerState /\ Accounted
      BY EmptySeq DEF BusInit, WorkerState, Accounted, Busy
    <2> QED
      BY <2>1, <2>2 DEF BusInvariant
  <1>2. BusInvariant /\ [BusNext]_busVars => BusInvariant'
    BY TypeStep, AccountedStep DEF BusInvariant
  <1> QED
    BY <1>1, <1>2, PTL DEF BusSpec

\* While the server runs every event emitted is handled, in delivery or queued,
\* once and in the order of emission.
THEOREM EventsAccounted == BusSpec => []Accounted
  BY BusInvariantHolds, PTL DEF BusInvariant

(***************************************************************************)
(* Every event reaches every webhook that wants it, in order, with the     *)
(* retries stated.                                                         *)
(***************************************************************************)

Delivered ==
    /\ PostsSoFar
    /\ DeliverySoFar
    /\ PostsInOrder
    /\ RetriesAsStated
    /\ ServedInFull

\* Emissions, registrations and starts change nothing that was delivered.
LEMMA GrowthKeeps ==
    ASSUME BusInvariant, Delivered,
           UNCHANGED <<current, position, attempt, handled, posts>>,
           Len(webhooks') \in Nat, Len(webhooks') >= Len(webhooks),
           \A w \in 1..Len(webhooks) : webhooks'[w] = webhooks[w],
           \A e \in 1..Len(emitted) : emitted'[e] = emitted[e]
    PROVE  Delivered'
  <1>0. /\ Len(webhooks) \in Nat /\ Len(emitted) \in Nat
        /\ Len(handled) \in Nat /\ Len(queue) \in Nat
        /\ DOMAIN handled = 1..Len(handled)
        /\ Busy \in {0, 1} /\ Busy' = Busy
        /\ Len(handled) + Busy <= Len(emitted)
        /\ current # 0 => current \in 1..Len(emitted)
        /\ current # 0 <=> position # 0
        /\ position \in Nat
    BY DEF BusInvariant, BusTypeOK, Busy, Accounted, WorkerState
  <1>1. ASSUME NEW w \in 1..Len(webhooks), NEW e \in 1..Len(emitted)
        PROVE  Matches(webhooks[w], emitted[e])' <=> Matches(webhooks[w], emitted[e])
    <2>1. webhooks'[w] = webhooks[w] /\ emitted'[e] = emitted[e]
      BY <1>1
    <2> QED
      BY <2>1 DEF Matches
  <1>2. PostsSoFar'
    <2> SUFFICES ASSUME NEW i \in DOMAIN posts
                 PROVE  /\ posts[i].event \in 1..(Len(handled) + Busy)
                        /\ posts[i].webhook \in 1..Len(webhooks')
                        /\ Matches(webhooks[posts[i].webhook], emitted[posts[i].event])'
                        /\ current # 0 => Before(posts[i], InFlight)
                        /\ posts[i].event = current /\ posts[i].webhook = position
                              => posts[i].outcome = "unavailable"
      BY <1>0 DEF PostsSoFar, InFlight, Before
    <2>1. /\ posts[i].event \in 1..(Len(handled) + Busy)
          /\ posts[i].webhook \in 1..Len(webhooks)
          /\ Matches(webhooks[posts[i].webhook], emitted[posts[i].event])
          /\ current # 0 => Before(posts[i], InFlight)
          /\ posts[i].event = current /\ posts[i].webhook = position
                => posts[i].outcome = "unavailable"
      BY DEF Delivered, PostsSoFar
    <2>2. posts[i].event \in 1..Len(emitted)
      BY <1>0, <2>1
    <2>3. Matches(webhooks[posts[i].webhook], emitted[posts[i].event])'
      BY <1>1, <2>1, <2>2
    <2> QED
      BY <1>0, <2>1, <2>3
  <1>3. DeliverySoFar'
    <2> SUFFICES ASSUME current # 0
                 PROVE  /\ position <= Len(webhooks')
                        /\ Matches(webhooks[position], emitted[current])'
                        /\ \A w \in 1..(position - 1) :
                              Matches(webhooks[w], emitted[current])' => HasPost(current, w)
      BY DEF DeliverySoFar, HasPost
    <2>1. /\ position <= Len(webhooks)
          /\ Matches(webhooks[position], emitted[current])
          /\ \A w \in 1..(position - 1) :
                Matches(webhooks[w], emitted[current]) => HasPost(current, w)
      BY DEF Delivered, DeliverySoFar
    <2>2. position \in 1..Len(webhooks) /\ current \in 1..Len(emitted)
      BY <1>0, <2>1
    <2>3. \A w \in 1..(position - 1) : w \in 1..Len(webhooks)
      BY <1>0, <2>2
    <2>4. position <= Len(webhooks') /\ Matches(webhooks[position], emitted[current])'
      BY <1>0, <1>1, <2>1, <2>2
    <2>5. ASSUME NEW w \in 1..(position - 1), Matches(webhooks[w], emitted[current])'
          PROVE  HasPost(current, w)
      BY <1>1, <2>1, <2>2, <2>3, <2>5
    <2> QED
      BY <2>4, <2>5
  <1>4. PostsInOrder' /\ RetriesAsStated'
    BY DEF Delivered, PostsInOrder, RetriesAsStated, TriedAgain, SameDelivery, Before
  <1>5. ServedInFull'
    <2> SUFFICES ASSUME NEW h \in DOMAIN handled
                 PROVE  /\ handled[h].reach <= Len(webhooks')
                        /\ \A w \in 1..handled[h].reach :
                              Matches(webhooks[w], emitted[handled[h].event])'
                                <=> HasPost(handled[h].event, w)
      BY DEF ServedInFull, HasPost
    <2>1. /\ handled[h].reach <= Len(webhooks)
          /\ \A w \in 1..handled[h].reach :
                Matches(webhooks[w], emitted[handled[h].event])
                  <=> HasPost(handled[h].event, w)
      BY DEF Delivered, ServedInFull
    <2>2. handled[h].event \in 1..Len(emitted) /\ handled[h].reach \in Nat
      <3>1. handled[h].event = h
        BY DEF BusInvariant, Accounted
      <3>2. h \in 1..Len(emitted)
        BY <1>0
      <3>3. handled[h] \in HandledRecord
        <4>1. handled \in Seq(HandledRecord) /\ h \in 1..Len(handled)
          BY <1>0 DEF BusInvariant, BusTypeOK, HandledRecord
        <4> QED
          BY <4>1, ElementOfSeq
      <3> QED
        BY <3>1, <3>2, <3>3 DEF HandledRecord
    <2>3. \A w \in 1..handled[h].reach : w \in 1..Len(webhooks)
      BY <1>0, <2>1, <2>2
    <2> QED
      BY <1>0, <1>1, <2>1, <2>2, <2>3
  <1> QED
    BY <1>2, <1>3, <1>4, <1>5 DEF Delivered

LEMMA InvariantFacts ==
    ASSUME BusInvariant
    PROVE  /\ Len(webhooks) \in Nat /\ Len(emitted) \in Nat
           /\ Len(handled) \in Nat /\ Len(queue) \in Nat /\ Len(posts) \in Nat
           /\ DOMAIN handled = 1..Len(handled)
           /\ DOMAIN posts = 1..Len(posts)
           /\ current \in Nat /\ position \in Nat /\ attempt \in 0..MaxAttempts
           /\ Busy \in {0, 1}
           /\ current # 0 => Busy = 1 /\ current = Len(handled) + 1
           /\ Len(handled) + Busy <= Len(emitted)
           /\ current # 0 <=> position # 0
           /\ current # 0 <=> attempt # 0
           /\ posts \in Seq(PostRecord) /\ handled \in Seq(HandledRecord)
           /\ \A k \in 1..Len(posts) : posts[k] \in PostRecord
           /\ \A h \in 1..Len(handled) : handled[h] \in HandledRecord /\ handled[h].event = h
  <1>1. posts \in Seq(PostRecord) /\ handled \in Seq(HandledRecord)
    BY DEF BusInvariant, BusTypeOK, PostRecord, HandledRecord
  <1>2. /\ \A k \in 1..Len(posts) : posts[k] \in PostRecord
        /\ \A h \in 1..Len(handled) : handled[h] \in HandledRecord
    BY <1>1, ElementOfSeq
  <1>3. DOMAIN handled = 1..Len(handled) /\ DOMAIN posts = 1..Len(posts)
    BY <1>1
  <1>4. /\ current \in Nat /\ position \in Nat /\ attempt \in 0..MaxAttempts
        /\ Len(webhooks) \in Nat /\ Len(emitted) \in Nat
        /\ Len(handled) \in Nat /\ Len(queue) \in Nat /\ Len(posts) \in Nat
    BY DEF BusInvariant, BusTypeOK
  <1>5. /\ Busy \in {0, 1}
        /\ current # 0 => Busy = 1 /\ current = Len(handled) + 1
        /\ Len(handled) + Busy <= Len(emitted)
        /\ current # 0 <=> position # 0
        /\ current # 0 <=> attempt # 0
    BY <1>4 DEF BusInvariant, Busy, Accounted, WorkerState
  <1>6. \A h \in 1..Len(handled) : handled[h].event = h
    BY <1>3 DEF BusInvariant, Accounted
  <1> QED
    BY <1>1, <1>2, <1>3, <1>4, <1>5, <1>6

\* The end of an attempt, before the worker goes on.
LEMMA PostAppended ==
    ASSUME BusInvariant, Delivered, current # 0, NEW outcome \in Outcomes, Posted(outcome)
    PROVE  /\ Len(posts') = Len(posts) + 1
           /\ DOMAIN posts' = 1..(Len(posts) + 1)
           /\ \A k \in 1..Len(posts) : posts'[k] = posts[k]
           /\ posts'[Len(posts) + 1] = [event |-> current, webhook |-> position,
                                       attempt |-> attempt, outcome |-> outcome]
           /\ \A k \in DOMAIN posts' :
                 /\ posts'[k].event \in 1..current
                 /\ posts'[k].webhook \in 1..Len(webhooks)
                 /\ Matches(webhooks[posts'[k].webhook], emitted[posts'[k].event])
                 /\ posts'[k].event = current => posts'[k].webhook <= position
                 /\ TriedAgain(k)' => posts'[k].outcome = "unavailable"
                 /\ \/ TriedAgain(k)'
                    \/ posts'[k].outcome # "unavailable"
                    \/ posts'[k].attempt = 3
                    \/ k = Len(posts) + 1
           /\ PostsInOrder'
           /\ \A e, w : HasPost(e, w)' <=> HasPost(e, w) \/ (e = current /\ w = position)
  <1> DEFINE n == Len(posts) + 1
             new == [event |-> current, webhook |-> position,
                     attempt |-> attempt, outcome |-> outcome]
  <1>1. new \in PostRecord
    BY InvariantFacts DEF PostRecord
  <1>2. /\ Len(posts') = n
        /\ DOMAIN posts' = 1..n
        /\ \A k \in 1..Len(posts) : posts'[k] = posts[k]
        /\ posts'[n] = new
    BY <1>1, InvariantFacts, Appended DEF Posted
  <1>3. /\ position \in 1..Len(webhooks)
        /\ Matches(webhooks[position], emitted[current])
        /\ current \in Nat \ {0}
    BY InvariantFacts DEF Delivered, DeliverySoFar
  <1>4. ASSUME NEW k \in 1..Len(posts)
        PROVE  /\ posts[k].event \in 1..current
               /\ posts[k].webhook \in 1..Len(webhooks)
               /\ Matches(webhooks[posts[k].webhook], emitted[posts[k].event])
               /\ Before(posts[k], new)
               /\ SameDelivery(posts[k], new) => posts[k].outcome = "unavailable"
    <2>1. /\ posts[k].event \in 1..(Len(handled) + Busy)
          /\ posts[k].webhook \in 1..Len(webhooks)
          /\ Matches(webhooks[posts[k].webhook], emitted[posts[k].event])
          /\ Before(posts[k], InFlight)
          /\ posts[k].event = current /\ posts[k].webhook = position
                => posts[k].outcome = "unavailable"
      BY InvariantFacts DEF Delivered, PostsSoFar
    <2> QED
      BY <2>1, InvariantFacts DEF Before, InFlight, SameDelivery
  <1>5. PostsInOrder'
    <2> SUFFICES ASSUME NEW i \in 1..n, NEW j \in 1..n, i < j
                 PROVE  Before(posts'[i], posts'[j])
      BY <1>2 DEF PostsInOrder, Before
    <2>0. i \in 1..Len(posts) /\ posts'[i] = posts[i]
      BY <1>2, InvariantFacts
    <2>1. CASE j = n
      <3>1. posts'[j] = new
        BY <1>2, <2>1
      <3> QED
        BY <1>4, <2>0, <3>1
    <2>2. CASE j # n
      <3>1. j \in 1..Len(posts) /\ posts'[j] = posts[j]
        BY <1>2, <2>2, InvariantFacts
      <3>2. Before(posts[i], posts[j])
        BY <2>0, <3>1, InvariantFacts DEF Delivered, PostsInOrder
      <3> QED
        BY <2>0, <3>1, <3>2
    <2> QED
      BY <2>1, <2>2
  <1>6. ASSUME NEW k \in 1..Len(posts)
        PROVE  TriedAgain(k)' <=> TriedAgain(k) \/ SameDelivery(posts[k], new)
    <2>1. TriedAgain(k)' <=> \E j \in 1..n : k < j /\ SameDelivery(posts'[k], posts'[j])
      BY <1>2 DEF TriedAgain, SameDelivery
    <2>2. TriedAgain(k) <=> \E j \in 1..Len(posts) : k < j /\ SameDelivery(posts[k], posts[j])
      BY InvariantFacts DEF TriedAgain
    <2>3. n \in 1..n /\ k < n /\ posts'[k] = posts[k] /\ posts'[n] = new
      BY <1>2, InvariantFacts
    <2>4. \A j \in 1..n : j = n \/ (j \in 1..Len(posts) /\ posts'[j] = posts[j])
      <3>1. Len(posts) \in Nat
        BY InvariantFacts
      <3>2. \A j \in 1..n : j = n \/ j \in 1..Len(posts)
        BY <3>1
      <3> QED
        BY <1>2, <3>2
    <2>5. \A j \in 1..Len(posts) : j \in 1..n /\ posts'[j] = posts[j]
      BY <1>2, InvariantFacts
    <2> QED
      BY <2>1, <2>2, <2>3, <2>4, <2>5
  <1>7. ASSUME NEW k \in 1..n, k = n
        PROVE  ~TriedAgain(k)'
    BY <1>2, <1>7, InvariantFacts DEF TriedAgain
  <1>8. ASSUME NEW k \in 1..n
        PROVE  /\ posts'[k].event \in 1..current
               /\ posts'[k].webhook \in 1..Len(webhooks)
               /\ Matches(webhooks[posts'[k].webhook], emitted[posts'[k].event])
               /\ posts'[k].event = current => posts'[k].webhook <= position
               /\ TriedAgain(k)' => posts'[k].outcome = "unavailable"
               /\ \/ TriedAgain(k)'
                  \/ posts'[k].outcome # "unavailable"
                  \/ posts'[k].attempt = 3
                  \/ k = n
    <2>1. CASE k = n
      <3>1. posts'[k].event = current /\ posts'[k].webhook = position
        BY <1>2, <2>1
      <3>2. ~TriedAgain(k)'
        BY <1>7, <2>1
      <3>3. Matches(webhooks[posts'[k].webhook], emitted[posts'[k].event])
        BY <1>3, <3>1
      <3> QED
        BY <1>3, <2>1, <3>1, <3>2, <3>3
    <2>2. CASE k # n
      <3>1. k \in 1..Len(posts) /\ posts'[k] = posts[k] /\ posts[k] \in PostRecord
        BY <1>2, <2>2, InvariantFacts
      <3>2. /\ TriedAgain(k) => posts[k].outcome = "unavailable"
            /\ \/ TriedAgain(k)
               \/ posts[k].outcome # "unavailable"
               \/ posts[k].attempt = 3
               \/ posts[k].event = current /\ posts[k].webhook = position
        BY <3>1, InvariantFacts DEF Delivered, RetriesAsStated
      <3>3. posts[k].event = current => posts[k].webhook <= position
        <4>1. Before(posts[k], new) /\ posts[k].webhook \in Nat
          BY <1>4, <3>1
        <4>2. new.event = current /\ new.webhook = position
          OBVIOUS
        <4> HIDE DEF new
        <4> QED
          BY <1>3, <4>1, <4>2 DEF Before
      <3> QED
        BY <1>4, <1>6, <3>1, <3>2, <3>3 DEF SameDelivery
    <2> QED
      BY <2>1, <2>2
  <1>9. ASSUME NEW e, NEW w
        PROVE  HasPost(e, w)' <=> HasPost(e, w) \/ (e = current /\ w = position)
    BY <1>2, InvariantFacts DEF HasPost
  <1> QED
    BY <1>2, <1>5, <1>8, <1>9

\* A delivery step that goes on from webhook i, with the attempts at those
\* before i ended.
LEMMA DeliveryKeeps ==
    ASSUME BusInvariant, BusInvariant', ServedInFull,
           NEW i \in Nat \ {0}, NEW e \in 1..Len(emitted), e = Len(handled) + 1,
           DeliverFrom(e, i),
           UNCHANGED <<webhooks, emitted>>,
           \A k \in DOMAIN posts' :
              /\ posts'[k].event \in 1..e
              /\ posts'[k].webhook \in 1..Len(webhooks)
              /\ Matches(webhooks[posts'[k].webhook], emitted[posts'[k].event])
              /\ posts'[k].event = e => posts'[k].webhook < i
              /\ TriedAgain(k)' => posts'[k].outcome = "unavailable"
              /\ \/ TriedAgain(k)'
                 \/ posts'[k].outcome # "unavailable"
                 \/ posts'[k].attempt = 3,
           PostsInOrder',
           \A w \in 1..Len(webhooks) :
              w < i /\ Matches(webhooks[w], emitted[e]) => HasPost(e, w)',
           \A h \in 1..Len(handled) : \A w : HasPost(h, w)' <=> HasPost(h, w)
    PROVE  Delivered'
  <1> DEFINE Posts(f, w) == \E k \in DOMAIN posts' :
                               posts'[k].event = f /\ posts'[k].webhook = w
             Served(d) ==
                /\ d.reach <= Len(webhooks)
                /\ \A w \in 1..d.reach :
                      Matches(webhooks[w], emitted[d.event]) <=> Posts(d.event, w)
  <1>0. Len(webhooks) \in Nat /\ Len(handled) \in Nat /\ i \in Nat /\ e \in Nat
    BY InvariantFacts
  <1>1. RetriesAsStated'
    BY DEF RetriesAsStated
  <1>2. ASSUME \A h \in DOMAIN handled' : Served(handled'[h])
        PROVE  ServedInFull'
    BY <1>2 DEF ServedInFull, HasPost, Matches
  <1>3. ASSUME NEW h \in 1..Len(handled)
        PROVE  Served(handled[h])
    <2>1. handled[h].event = h /\ h \in DOMAIN handled
      BY InvariantFacts
    <2>2. /\ handled[h].reach <= Len(webhooks)
          /\ \A w \in 1..handled[h].reach :
                Matches(webhooks[w], emitted[h]) <=> HasPost(h, w)
      BY <2>1 DEF ServedInFull
    <2>3. \A w : Posts(h, w) <=> HasPost(h, w)
      BY DEF HasPost
    <2> QED
      BY <2>1, <2>2, <2>3
  <1>4. CASE /\ Ends(e)
             /\ \A w \in i..Len(webhooks) : ~Matches(webhooks[w], emitted[e])
    <2>1. [event |-> e, reach |-> Len(webhooks)] \in HandledRecord
      BY <1>0 DEF HandledRecord
    <2>2. /\ DOMAIN handled' = 1..(Len(handled) + 1)
          /\ \A h \in 1..Len(handled) : handled'[h] = handled[h]
          /\ handled'[Len(handled) + 1] = [event |-> e, reach |-> Len(webhooks)]
      BY <1>4, <2>1, InvariantFacts, Appended DEF Ends
    <2>3. current' = 0
      BY <1>4 DEF Ends
    <2>4. PostsSoFar'
      <3>1. Len(handled') = Len(handled) + 1 /\ Busy' = 0
        BY <1>4, <2>1, <2>3, InvariantFacts, Appended DEF Ends, Busy
      <3>2. \A k \in DOMAIN posts' :
               /\ posts'[k].event \in 1..(Len(handled') + Busy')
               /\ posts'[k].event # current'
        BY <1>0, <2>3, <3>1
      <3> QED
        BY <2>3, <3>2 DEF PostsSoFar, Matches
    <2>5. DeliverySoFar'
      BY <2>3 DEF DeliverySoFar
    <2>6. ServedInFull'
      <3>1. Served([event |-> e, reach |-> Len(webhooks)])
        <4>1. ASSUME NEW w \in 1..Len(webhooks), Matches(webhooks[w], emitted[e])
              PROVE  Posts(e, w)
          <5>1. w < i
            BY <1>0, <1>4, <4>1
          <5> QED
            BY <4>1, <5>1 DEF HasPost
        <4>2. ASSUME NEW w \in 1..Len(webhooks), Posts(e, w)
              PROVE  Matches(webhooks[w], emitted[e])
          BY <4>2
        <4> QED
          BY <1>0, <4>1, <4>2
      <3>2. \A h \in DOMAIN handled' : h = Len(handled) + 1 \/ h \in 1..Len(handled)
        BY <1>0, <2>2
      <3>3. \A h \in 1..Len(handled) : handled'[h] = handled[h]
        BY <2>2
      <3> HIDE DEF Served
      <3> QED
        BY <1>2, <1>3, <2>2, <3>1, <3>2, <3>3
    <2> QED
      BY <1>1, <2>4, <2>5, <2>6 DEF Delivered
  <1>5. ASSUME NEW j \in i..Len(webhooks),
               Moves(e, j),
               Matches(webhooks[j], emitted[e]),
               \A w \in i..(j - 1) : ~Matches(webhooks[w], emitted[e])
        PROVE  Delivered'
    <2>1. /\ current' = e /\ position' = j /\ handled' = handled /\ attempt' = 1
          /\ j \in Nat /\ i <= j /\ e # 0
      BY <1>0, <1>5 DEF Moves
    <2>2. PostsSoFar'
      <3>1. Len(handled') + Busy' = e
        BY <1>0, <2>1 DEF Busy
      <3>2. ASSUME NEW k \in DOMAIN posts'
            PROVE  /\ posts'[k].event \in 1..(Len(handled') + Busy')
                   /\ Before(posts'[k], [event |-> e, webhook |-> j, attempt |-> 1])
                   /\ ~(posts'[k].event = current' /\ posts'[k].webhook = position')
        BY <1>0, <2>1, <3>1 DEF Before
      <3>3. InFlight' = [event |-> e, webhook |-> j, attempt |-> 1]
        BY <2>1 DEF InFlight
      <3> QED
        BY <3>2, <3>3 DEF PostsSoFar, Before, Matches
    <2>3. DeliverySoFar'
      <3>1. ASSUME NEW w \in 1..(j - 1), Matches(webhooks[w], emitted[e])
            PROVE  HasPost(e, w)'
        <4>1. w < i /\ w \in 1..Len(webhooks)
          BY <1>0, <1>5, <2>1, <3>1
        <4> QED
          BY <3>1, <4>1
      <3>2. j <= Len(webhooks)
        BY <1>0
      <3> QED
        BY <1>5, <2>1, <3>1, <3>2 DEF DeliverySoFar, HasPost, Matches
    <2>4. ServedInFull'
      <3>1. DOMAIN handled' = 1..Len(handled) /\ handled' = handled
        BY <2>1, InvariantFacts
      <3> HIDE DEF Served
      <3> QED
        BY <1>2, <1>3, <3>1
    <2> QED
      BY <1>1, <2>2, <2>3, <2>4 DEF Delivered
  <1> QED
    BY <1>0, <1>4, <1>5, DeliverySteps

LEMMA DeliveredStep ==
    ASSUME BusInvariant, Delivered, [BusNext]_busVars
    PROVE  Delivered'
  <1>0. BusInvariant'
    BY TypeStep, AccountedStep DEF BusInvariant
  <1>a. /\ Len(webhooks) \in Nat /\ Len(emitted) \in Nat
        /\ Len(webhooks') \in Nat /\ Len(posts) \in Nat
        /\ DOMAIN posts = 1..Len(posts)
    BY <1>0, InvariantFacts DEF BusInvariant, BusTypeOK
  <1>1. CASE UNCHANGED busVars
    BY <1>1, <1>a, GrowthKeeps DEF busVars, worker
  <1>2. ASSUME NEW n \in 0..MaxRegistered, NEW list \in [1..n -> WebhookConfig], Start(list)
        PROVE  Delivered'
    <2>1. Len(webhooks) = 0
      BY <1>2 DEF Start, BusInvariant, WorkerState
    <2>2. UNCHANGED <<current, position, attempt, handled, posts, emitted>>
      BY <1>2 DEF Start, worker
    <2> QED
      BY <1>a, <2>1, <2>2, GrowthKeeps
  <1>3. CASE Stop
    <2>1. /\ current' = 0 /\ DOMAIN posts' = {} /\ DOMAIN handled' = {}
      BY <1>3, EmptySeq DEF Stop
    <2> QED
      BY <2>1 DEF Delivered, PostsSoFar, DeliverySoFar, PostsInOrder,
                  RetriesAsStated, ServedInFull
  <1>4. ASSUME NEW type \in Types, Emit(type)
        PROVE  Delivered'
    <2>1. \A e \in 1..Len(emitted) : emitted'[e] = emitted[e]
      BY <1>4, Appended DEF Emit, BusInvariant, BusTypeOK
    <2>2. UNCHANGED <<current, position, attempt, handled, posts, webhooks>>
      BY <1>4 DEF Emit, worker
    <2> QED
      BY <1>a, <2>1, <2>2, GrowthKeeps
  <1>5. ASSUME NEW config \in WebhookConfig, Register(config)
        PROVE  Delivered'
    <2>1. /\ \A w \in 1..Len(webhooks) : webhooks'[w] = webhooks[w]
          /\ Len(webhooks') = Len(webhooks) + 1
      BY <1>5, Appended DEF Register, BusInvariant, BusTypeOK
    <2>2. UNCHANGED <<current, position, attempt, handled, posts, emitted>>
      BY <1>5 DEF Register, worker
    <2> QED
      BY <1>a, <2>1, <2>2, GrowthKeeps
  <1>6. CASE Take
    <2>e. PICK e \in Nat : e = Len(handled) + 1
      BY InvariantFacts
    <2>1. NextEvent = e /\ e \in 1..Len(emitted) /\ Busy = 0 /\ current = 0
      <3>1. NextEvent = queue[1] /\ Len(queue) >= 1
        BY <1>6, Shortened DEF Take, NextEvent, BusInvariant, BusTypeOK
      <3>2. Busy = 0 /\ current = 0
        BY <1>6 DEF Take, Busy
      <3>3. 1 \in DOMAIN queue
        BY <3>1, InvariantFacts DEF BusInvariant, BusTypeOK
      <3>4. /\ queue[1] = Len(handled) + Busy + 1
            /\ Len(emitted) = Len(handled) + Busy + Len(queue)
        BY <3>3 DEF BusInvariant, Accounted
      <3> QED
        BY <2>e, <3>1, <3>2, <3>4, InvariantFacts
    <2>2. DeliverFrom(e, 1) /\ UNCHANGED <<webhooks, emitted, posts>>
      BY <1>6, <2>1 DEF Take
    <2>3. ASSUME NEW k \in DOMAIN posts
          PROVE  /\ posts[k].event \in 1..Len(handled)
                 /\ posts[k].webhook \in 1..Len(webhooks)
                 /\ Matches(webhooks[posts[k].webhook], emitted[posts[k].event])
                 /\ TriedAgain(k) => posts[k].outcome = "unavailable"
                 /\ \/ TriedAgain(k)
                    \/ posts[k].outcome # "unavailable"
                    \/ posts[k].attempt = 3
      <3>1. /\ posts[k].event \in 1..(Len(handled) + Busy)
            /\ posts[k].webhook \in 1..Len(webhooks)
            /\ Matches(webhooks[posts[k].webhook], emitted[posts[k].event])
        BY DEF Delivered, PostsSoFar
      <3>2. posts[k].event \in 1..Len(handled) /\ posts[k].event # current
        BY <2>1, <3>1, InvariantFacts
      <3> QED
        BY <3>1, <3>2 DEF Delivered, RetriesAsStated
    <2>4. /\ PostsInOrder'
          /\ \A f, w : HasPost(f, w)' <=> HasPost(f, w)
          /\ \A k : TriedAgain(k)' <=> TriedAgain(k)
      BY <2>2 DEF Delivered, PostsInOrder, Before, HasPost, TriedAgain, SameDelivery
    <2>5. \A k \in DOMAIN posts' :
             /\ posts'[k].event \in 1..e
             /\ posts'[k].webhook \in 1..Len(webhooks)
             /\ Matches(webhooks[posts'[k].webhook], emitted[posts'[k].event])
             /\ posts'[k].event = e => posts'[k].webhook < 1
             /\ TriedAgain(k)' => posts'[k].outcome = "unavailable"
             /\ \/ TriedAgain(k)'
                \/ posts'[k].outcome # "unavailable"
                \/ posts'[k].attempt = 3
      <3>1. \A k \in DOMAIN posts : posts[k].event \in 1..e /\ posts[k].event # e
        BY <2>3, <2>e, InvariantFacts
      <3> QED
        BY <2>2, <2>3, <2>4, <3>1
    <2>6. \A w \in 1..Len(webhooks) : ~(w < 1)
      BY <1>a
    <2>7. ServedInFull
      BY DEF Delivered
    <2> QED
      BY <1>0, <2>1, <2>2, <2>4, <2>5, <2>6, <2>7, <2>e, DeliveryKeeps
  <1>7. CASE Retry
    <2>1. PICK outcome \in Outcomes : ~LastAttempt(attempt, outcome) /\ Posted(outcome)
      BY <1>7 DEF Retry
    <2>2. /\ outcome = "unavailable"
          /\ current # 0
          /\ current' = current /\ position' = position /\ attempt' = attempt + 1
          /\ UNCHANGED <<webhooks, emitted, handled>>
          /\ Busy' = Busy
      BY <1>7, <2>1, InvariantFacts DEF Retry, LastAttempt, Busy
    <2>3. PostsSoFar'
      <3> SUFFICES ASSUME NEW k \in DOMAIN posts'
                   PROVE  /\ posts'[k].event \in 1..(Len(handled) + Busy)
                          /\ posts'[k].webhook \in 1..Len(webhooks)
                          /\ Matches(webhooks[posts'[k].webhook], emitted[posts'[k].event])
                          /\ Before(posts'[k], InFlight')
                          /\ posts'[k].event = current /\ posts'[k].webhook = position
                                => posts'[k].outcome = "unavailable"
        BY <2>2 DEF PostsSoFar, Before, Matches
      <3>1. /\ posts'[k].event \in 1..current
            /\ posts'[k].webhook \in 1..Len(webhooks)
            /\ Matches(webhooks[posts'[k].webhook], emitted[posts'[k].event])
        BY <2>1, <2>2, PostAppended
      <3>2. current = Len(handled) + Busy
        BY <2>2, InvariantFacts
      <3>3. InFlight' = [event |-> current, webhook |-> position, attempt |-> attempt + 1]
        BY <2>2 DEF InFlight
      <3>4. /\ Before(posts'[k], [event |-> current, webhook |-> position,
                                  attempt |-> attempt + 1])
            /\ posts'[k].event = current /\ posts'[k].webhook = position
                  => posts'[k].outcome = "unavailable"
        <4>1. CASE k = Len(posts) + 1
          <5>1. posts'[k] = [event |-> current, webhook |-> position,
                             attempt |-> attempt, outcome |-> outcome]
            BY <2>1, <2>2, <4>1, PostAppended
          <5> QED
            BY <2>2, <5>1, InvariantFacts DEF Before
        <4>2. CASE k # Len(posts) + 1
          <5>1. k \in 1..Len(posts) /\ posts'[k] = posts[k] /\ posts[k] \in PostRecord
            BY <1>a, <2>1, <2>2, <4>2, PostAppended, InvariantFacts
          <5>2. /\ Before(posts[k], InFlight)
                /\ posts[k].event = current /\ posts[k].webhook = position
                      => posts[k].outcome = "unavailable"
            BY <1>a, <2>2, <5>1 DEF Delivered, PostsSoFar
          <5> QED
            BY <5>1, <5>2, InvariantFacts DEF Before, InFlight, PostRecord
        <4> QED
          BY <4>1, <4>2
      <3> QED
        BY <3>1, <3>2, <3>3, <3>4
    <2>4. \A f, w : HasPost(f, w)' <=> HasPost(f, w) \/ (f = current /\ w = position)
      BY <2>1, <2>2, PostAppended
    <2>5. DeliverySoFar'
      <3>1. /\ position <= Len(webhooks)
            /\ Matches(webhooks[position], emitted[current])
            /\ \A w \in 1..(position - 1) :
                  Matches(webhooks[w], emitted[current]) => HasPost(current, w)
        BY <2>2 DEF Delivered, DeliverySoFar
      <3>2. \A w : HasPost(current, w) => \E k \in DOMAIN posts' :
                       posts'[k].event = current /\ posts'[k].webhook = w
        BY <2>1, <2>2, <1>a, PostAppended DEF HasPost
      <3> QED
        BY <2>2, <3>1, <3>2 DEF DeliverySoFar, HasPost, Matches
    <2>6. PostsInOrder'
      BY <2>1, <2>2, PostAppended
    <2>7. RetriesAsStated'
      <3>1. ASSUME NEW k \in DOMAIN posts', k = Len(posts) + 1
            PROVE  posts'[k].event = current' /\ posts'[k].webhook = position'
        BY <2>1, <2>2, <3>1, PostAppended
      <3>2. \A k \in DOMAIN posts' :
               /\ TriedAgain(k)' => posts'[k].outcome = "unavailable"
               /\ \/ TriedAgain(k)'
                  \/ posts'[k].outcome # "unavailable"
                  \/ posts'[k].attempt = 3
                  \/ k = Len(posts) + 1
        BY <2>1, <2>2, PostAppended
      <3> QED
        BY <3>1, <3>2 DEF RetriesAsStated
    <2>8. ServedInFull'
      <3>1. \A h \in DOMAIN handled : handled[h].event # current
        BY <2>2, InvariantFacts
      <3>2. \A h \in DOMAIN handled : \A w :
               HasPost(handled[h].event, w) <=> \E k \in DOMAIN posts' :
                   posts'[k].event = handled[h].event /\ posts'[k].webhook = w
        <4>1. ASSUME NEW f, NEW w, f # current
              PROVE  HasPost(f, w) <=> \E k \in DOMAIN posts' :
                         posts'[k].event = f /\ posts'[k].webhook = w
          BY <2>4, <4>1 DEF HasPost
        <4> QED
          BY <3>1, <4>1
      <3> QED
        BY <2>2, <3>2 DEF Delivered, ServedInFull, HasPost, Matches
    <2> QED
      BY <2>3, <2>5, <2>6, <2>7, <2>8 DEF Delivered
  <1>8. CASE NextWebhook
    <2>1. PICK outcome \in Outcomes : LastAttempt(attempt, outcome) /\ Posted(outcome)
      BY <1>8 DEF NextWebhook
    <2>2. /\ current # 0 /\ current = Len(handled) + 1 /\ current \in 1..Len(emitted)
          /\ DeliverFrom(current, position + 1)
          /\ UNCHANGED <<webhooks, emitted>>
          /\ position + 1 \in Nat \ {0}
          /\ outcome # "unavailable" \/ attempt = 3
      BY <1>8, <2>1, InvariantFacts DEF NextWebhook, LastAttempt
    <2>3. ASSUME NEW k \in DOMAIN posts'
          PROVE  /\ posts'[k].event \in 1..current
                 /\ posts'[k].webhook \in 1..Len(webhooks)
                 /\ Matches(webhooks[posts'[k].webhook], emitted[posts'[k].event])
                 /\ posts'[k].event = current => posts'[k].webhook < position + 1
                 /\ TriedAgain(k)' => posts'[k].outcome = "unavailable"
                 /\ \/ TriedAgain(k)'
                    \/ posts'[k].outcome # "unavailable"
                    \/ posts'[k].attempt = 3
      <3>1. /\ posts'[k].event \in 1..current
            /\ posts'[k].webhook \in 1..Len(webhooks)
            /\ Matches(webhooks[posts'[k].webhook], emitted[posts'[k].event])
            /\ posts'[k].event = current => posts'[k].webhook <= position
            /\ TriedAgain(k)' => posts'[k].outcome = "unavailable"
            /\ \/ TriedAgain(k)'
               \/ posts'[k].outcome # "unavailable"
               \/ posts'[k].attempt = 3
               \/ k = Len(posts) + 1
        BY <2>1, <2>2, PostAppended
      <3>2. k = Len(posts) + 1 => posts'[k].outcome = outcome /\ posts'[k].attempt = attempt
        BY <2>1, <2>2, PostAppended
      <3>3. posts'[k].event = current => posts'[k].webhook < position + 1
        BY <1>a, <3>1, InvariantFacts
      <3> QED
        BY <2>2, <3>1, <3>2, <3>3
    <2>4. PostsInOrder'
      BY <2>1, <2>2, PostAppended
    <2>5. \A f, w : HasPost(f, w)' <=> HasPost(f, w) \/ (f = current /\ w = position)
      BY <2>1, <2>2, PostAppended
    <2>6. ASSUME NEW w \in 1..Len(webhooks), w < position + 1,
                 Matches(webhooks[w], emitted[current])
          PROVE  \E k \in DOMAIN posts' : posts'[k].event = current /\ posts'[k].webhook = w
      <3>1. CASE w = position
        BY <1>a, <2>1, <2>2, <3>1, PostAppended
      <3>2. CASE w # position
        <4>1. w \in 1..(position - 1)
          BY <1>a, <2>6, <3>2, InvariantFacts
        <4>2. HasPost(current, w)
          BY <2>2, <2>6, <4>1 DEF Delivered, DeliverySoFar
        <4> QED
          BY <1>a, <2>1, <2>2, <4>2, PostAppended DEF HasPost
      <3> QED
        BY <3>1, <3>2
    <2>7. \A h \in 1..Len(handled) : \A w : HasPost(h, w)' <=> HasPost(h, w)
      <3>1. \A h \in 1..Len(handled) : h # current
        BY <2>2, InvariantFacts
      <3> QED
        BY <2>5, <3>1
    <2>8. ServedInFull
      BY DEF Delivered
    <2>e. PICK e \in Nat, i \in Nat : e = current /\ i = position + 1
      BY <2>2
    <2>9. /\ i \in Nat \ {0} /\ e \in 1..Len(emitted) /\ DeliverFrom(e, i)
          /\ \A w \in 1..Len(webhooks) :
                w < i /\ Matches(webhooks[w], emitted[e]) => HasPost(e, w)'
      BY <2>2, <2>6, <2>e DEF HasPost
    <2>10. \A k \in DOMAIN posts' :
              /\ posts'[k].event \in 1..e
              /\ posts'[k].webhook \in 1..Len(webhooks)
              /\ Matches(webhooks[posts'[k].webhook], emitted[posts'[k].event])
              /\ posts'[k].event = e => posts'[k].webhook < i
              /\ TriedAgain(k)' => posts'[k].outcome = "unavailable"
              /\ \/ TriedAgain(k)'
                 \/ posts'[k].outcome # "unavailable"
                 \/ posts'[k].attempt = 3
      BY <2>3, <2>e
    <2>11. e = Len(handled) + 1
      BY <2>2, <2>e
    <2> QED
      BY <1>0, <2>2, <2>4, <2>7, <2>8, <2>9, <2>10, <2>11, DeliveryKeeps
  <1> QED
    BY <1>1, <1>2, <1>3, <1>4, <1>5, <1>6, <1>7, <1>8 DEF BusNext, Work

LEMMA DeliveredHolds == BusSpec => []Delivered
  <1>1. BusInit => Delivered
    BY EmptySeq DEF BusInit, Delivered, PostsSoFar, DeliverySoFar, PostsInOrder,
                    RetriesAsStated, ServedInFull
  <1>2. BusInvariant /\ Delivered /\ [BusNext]_busVars => Delivered'
    BY DeliveredStep
  <1> QED
    BY <1>1, <1>2, BusInvariantHolds, PTL DEF BusSpec

\* No webhook sees a later event first, and no attempt is made twice.
THEOREM PostsOrdered == BusSpec => []PostsInOrder
  BY DeliveredHolds, PTL DEF Delivered

\* _send_webhook retries what it says it retries and gives up as it says.
THEOREM RetriesHold == BusSpec => []RetriesAsStated
  BY DeliveredHolds, PTL DEF Delivered

\* An event handled went to exactly the registered webhooks that want it.
THEOREM EventsServed == BusSpec => []ServedInFull
  BY DeliveredHolds, PTL DEF Delivered


HIDE DEF WebhookConfig, Outcomes, MaxAttempts

(***************************************************************************)
(* Rows.                                                                   *)
(***************************************************************************)

PCs == {"new", "checked", "flushed", "created", "failed"}

\* A webhook has one row at most, in the table once it was created, and pending
\* between its insert and its commit. No request runs while the server is down.
RowsKept ==
    /\ table \subseteq WebhookConfig /\ pending \subseteq WebhookConfig
    /\ pc \in [Hooks -> PCs]
    /\ loaded \in {"all", "cut", "failed"}
    /\ test \in [Hooks -> 0 .. MaxAttempts]
    /\ touched \subseteq Hooks
    /\ client \in {"serial", "any"}
    /\ up \in BOOLEAN
    /\ \A c \in table : pc[c.hook] = "created"
    /\ \A c \in pending : pc[c.hook] = "flushed" /\ c.active
    /\ \A c, d \in table : c.hook = d.hook => c = d
    /\ \A c, d \in pending : c.hook = d.hook => c = d
    /\ ~up => \A h \in Hooks : ~InProgress(h)

\* The handlers of requests, and what they do to the rows and the bus.
Handles(h) ==
    \/ CheckLimit(h) \/ Refuse(h) \/ Insert(h) \/ CommitCreate(h) \/ FailCreate(h)
    \/ Update(h) \/ Delete(h) \/ BeginTest(h) \/ TestPosted(h)

Works == (\E type \in Types : Emit(type)) \/ Work

LEMMA HookCases ==
    ASSUME Next
    PROVE  \/ \E h \in Hooks : Handles(h)
           \/ Shutdown \/ Startup
           \/ Works /\ UNCHANGED hookVars
  BY DEF Next, Handles, Works

LEMMA WorksKeepUp ==
    ASSUME Works
    PROVE  up' = up /\ webhooks' = webhooks
  BY DEF Works, Work, Emit, Take, Retry, NextWebhook

LEMMA ConfigTyped ==
    ASSUME NEW h \in Hooks, NEW s \in Settings, NEW a \in BOOLEAN
    PROVE  /\ [hook |-> h, setting |-> s, active |-> a] \in WebhookConfig
           /\ [hook |-> h, setting |-> s, active |-> a].hook = h
           /\ [hook |-> h, setting |-> s, active |-> a].active = a
  BY DEF WebhookConfig

LEMMA RowsInit ==
    ASSUME Init
    PROVE  RowsKept
  <1>1. /\ table = {} /\ pending = {} /\ touched = {} /\ loaded = "all" /\ up = FALSE
        /\ pc = [h \in Hooks |-> "new"] /\ test = [h \in Hooks |-> 0]
        /\ client \in {"serial", "any"}
    BY DEF Init, BusInit
  <1>2. test \in [Hooks -> 0 .. MaxAttempts] /\ pc \in [Hooks -> PCs]
    BY <1>1 DEF MaxAttempts, PCs
  <1> QED
    BY <1>1, <1>2 DEF RowsKept, InProgress

LEMMA RowsStep ==
    ASSUME RowsKept, [Next]_vars
    PROVE  RowsKept'
  <1>0. ASSUME NEW c \in WebhookConfig
        PROVE  c.hook \in Hooks /\ c.setting \in Settings /\ c.active \in BOOLEAN
    BY DEF WebhookConfig
  <1>1. CASE UNCHANGED vars
    BY <1>1 DEF vars, hookVars, busVars, RowsKept, InProgress
  <1>2. ASSUME NEW h \in Hooks, CheckLimit(h)
        PROVE  RowsKept'
    BY <1>0, <1>2 DEF CheckLimit, RowsKept, PCs, Goto, InProgress, busVars
  <1>3. ASSUME NEW h \in Hooks, Refuse(h)
        PROVE  RowsKept'
    BY <1>0, <1>3 DEF Refuse, Emit, RowsKept, PCs, Goto, InProgress
  <1>4. ASSUME NEW h \in Hooks, Insert(h)
        PROVE  RowsKept'
    <2>1. PICK s \in ValidSettings :
             /\ pending' = pending \cup {[hook |-> h, setting |-> s, active |-> TRUE]}
             /\ Register([hook |-> h, setting |-> s, active |-> TRUE])
      BY <1>4 DEF Insert
    <2>2. PICK new : /\ new = [hook |-> h, setting |-> s, active |-> TRUE]
                     /\ new \in WebhookConfig /\ new.hook = h /\ new.active
      BY WebhooksAssumption, ConfigTyped
    <2>3. /\ pc[h] = "checked" /\ pc' = [pc EXCEPT ![h] = "flushed"] /\ up /\ up' = up
          /\ UNCHANGED <<table, loaded, test, touched, client>>
          /\ pending' = pending \cup {new}
      BY <1>4, <2>1, <2>2 DEF Insert, Goto, Register
    <2>4. \A c \in table \cup pending : c.hook # h
      BY <2>3 DEF RowsKept
    <2>5. pc' \in [Hooks -> PCs] /\ pending' \subseteq WebhookConfig
      BY <2>2, <2>3 DEF RowsKept, PCs
    <2>6. \A c \in table : pc'[c.hook] = "created"
      BY <1>0, <2>3, <2>4 DEF RowsKept
    <2>7. \A c \in pending' : pc'[c.hook] = "flushed" /\ c.active
      BY <1>0, <2>2, <2>3, <2>4 DEF RowsKept
    <2>8. ASSUME NEW c \in pending', NEW d \in pending', c.hook = d.hook
          PROVE  c = d
      <3>1. \A e \in pending' : e \in pending \/ e = new
        BY <2>3
      <3>2. \A e \in pending : e.hook # new.hook
        BY <2>2, <2>4
      <3>3. \A e, f \in pending : e.hook = f.hook => e = f
        BY DEF RowsKept
      <3> QED
        BY <2>8, <3>1, <3>2, <3>3
    <2> QED
      BY <2>3, <2>5, <2>6, <2>7, <2>8 DEF RowsKept
  <1>5. ASSUME NEW h \in Hooks, CommitCreate(h)
        PROVE  RowsKept'
    <2>1. /\ pc[h] = "flushed" /\ pc' = [pc EXCEPT ![h] = "created"] /\ up' = up
          /\ table' = table \cup {c \in pending : c.hook = h}
          /\ pending' = {c \in pending : c.hook # h}
          /\ UNCHANGED <<loaded, test, touched, client>>
      BY <1>5 DEF CommitCreate, Goto, busVars
    <2>2. \A c \in table : c.hook # h
      BY <2>1 DEF RowsKept
    <2> QED
      BY <1>0, <2>1, <2>2 DEF RowsKept, PCs, InProgress
  <1>6. ASSUME NEW h \in Hooks, FailCreate(h)
        PROVE  RowsKept'
    <2>1. /\ pc[h] \in {"checked", "flushed"} /\ pc' = [pc EXCEPT ![h] = "failed"] /\ up' = up
          /\ pending' = {c \in pending : c.hook # h} /\ touched' = touched \cup {h}
          /\ UNCHANGED <<table, loaded, test, client>>
      BY <1>6 DEF FailCreate, Goto, InProgress, busVars
    <2> QED
      BY <1>0, <2>1 DEF RowsKept, PCs, InProgress
  <1>7. ASSUME NEW h \in Hooks, Update(h)
        PROVE  RowsKept'
    <2>1. PICK old \in Rows(h), s \in Settings, a \in BOOLEAN :
             table' = (table \ {old}) \cup {[hook |-> h, setting |-> s, active |-> a]}
      BY <1>7 DEF Update
    <2>2. PICK new : /\ new = [hook |-> h, setting |-> s, active |-> a]
                     /\ new \in WebhookConfig /\ new.hook = h
      BY ConfigTyped
    <2>3. /\ table' = (table \ {old}) \cup {new} /\ old \in table /\ old.hook = h
          /\ touched' = touched \cup {h} /\ up' = up
          /\ UNCHANGED <<pending, pc, loaded, test, client>>
      BY <1>7, <2>1, <2>2 DEF Update, Rows, KeepRegistered, busVars
    <2> QED
      BY <1>0, <2>2, <2>3 DEF RowsKept, InProgress
  <1>8. ASSUME NEW h \in Hooks, Delete(h)
        PROVE  RowsKept'
    BY <1>0, <1>8 DEF Delete, Rows, KeepRegistered, busVars, RowsKept, InProgress
  <1>9. ASSUME NEW h \in Hooks, BeginTest(h) \/ TestPosted(h)
        PROVE  RowsKept'
    <2>1. /\ UNCHANGED <<up, table, pending, pc, loaded, touched, client>>
          /\ test' \in [Hooks -> 0 .. MaxAttempts]
      <3>1. CASE BeginTest(h)
        BY <3>1 DEF BeginTest, busVars, RowsKept, MaxAttempts
      <3>2. CASE TestPosted(h)
        <4>1. PICK outcome \in Outcomes :
                 test' = [test EXCEPT ![h] = IF LastAttempt(@, outcome) THEN 0 ELSE @ + 1]
          BY <3>2 DEF TestPosted
        <4>2. test[h] \in 0 .. MaxAttempts
          BY DEF RowsKept
        <4>3. ~LastAttempt(test[h], outcome) => test[h] + 1 \in 0 .. MaxAttempts
          BY <4>2 DEF LastAttempt, MaxAttempts
        <4> QED
          BY <3>2, <4>1, <4>2, <4>3 DEF TestPosted, busVars, RowsKept, MaxAttempts
      <3> QED
        BY <1>9, <3>1, <3>2
    <2> QED
      BY <2>1 DEF RowsKept, InProgress
  <1>10. CASE Shutdown
    <2>1. /\ up' = FALSE /\ pending' = {} /\ touched' = {} /\ UNCHANGED <<table, loaded, client>>
          /\ pc' = [h \in Hooks |-> IF InProgress(h) THEN "failed" ELSE pc[h]]
          /\ test' = [h \in Hooks |-> 0]
      BY <1>10 DEF Shutdown, Stop
    <2>2. test' \in [Hooks -> 0 .. MaxAttempts]
      BY <2>1 DEF MaxAttempts
    <2>3. pc' \in [Hooks -> PCs] /\ \A h \in Hooks : ~InProgress(h)'
      BY <2>1 DEF RowsKept, PCs, InProgress
    <2>4. \A c \in table : pc'[c.hook] = "created"
      BY <1>0, <2>1 DEF RowsKept, InProgress
    <2> QED
      BY <2>1, <2>2, <2>3, <2>4 DEF RowsKept
  <1>11. CASE Startup
    <2>1. up' = TRUE /\ UNCHANGED <<table, pending, pc, test, touched, client>>
          /\ loaded' \in {"all", "cut", "failed"}
      BY <1>11 DEF Startup, Start
    <2> QED
      BY <2>1 DEF RowsKept
  <1>12. CASE Works /\ UNCHANGED hookVars
    BY <1>12, WorksKeepUp DEF hookVars, RowsKept, InProgress
  <1> QED
    BY <1>1, <1>2, <1>3, <1>4, <1>5, <1>6, <1>7, <1>8, <1>9, <1>10, <1>11, <1>12, HookCases
       DEF Handles

\* Every webhook keeps one row at most, in the table once its create request has
\* committed, and none is in the making while the server is down.
THEOREM RowsAreKept == Spec => []RowsKept
  BY RowsInit, RowsStep, PTL DEF Spec

(***************************************************************************)
(* The handlers use the bus as it allows.                                  *)
(***************************************************************************)

LEMMA RowsFinite ==
    ASSUME RowsKept
    PROVE  /\ IsFiniteSet(table) /\ Cardinality(table) \in Nat
           /\ Cardinality(table) <= Cardinality(Hooks)
           /\ Cardinality(Hooks) \in Nat
  <1> DEFINE hookOf == [c \in table |-> c.hook]
  <1>1. \A c \in table : c.hook \in Hooks
    BY DEF RowsKept, WebhookConfig
  <1>2. hookOf \in Injection(table, Hooks)
    BY <1>1 DEF RowsKept, Injection, IsInjective
  <1>3. IsFiniteSet(Hooks)
    BY WebhooksAssumption
  <1> QED
    BY <1>2, <1>3, FS_Injection, FS_CardinalityType

\* What a start loads: the rows it takes, each once.
LEMMA Loads ==
    ASSUME RowsKept, NEW S \in SUBSET table, NEW list \in [1 .. Cardinality(S) -> S],
           S = {list[i] : i \in DOMAIN list}
    PROVE  /\ Cardinality(S) \in 0 .. MaxRegistered
           /\ list \in [1 .. Cardinality(S) -> WebhookConfig]
           /\ \A i, j \in DOMAIN list : list[i] = list[j] => i = j
           /\ DOMAIN list = 1 .. Cardinality(S)
  <1>1. IsFiniteSet(S) /\ Cardinality(S) \in Nat /\ Cardinality(S) <= Cardinality(table)
    BY RowsFinite, FS_Subset, FS_CardinalityType
  <1>2. Cardinality(S) \in 0 .. MaxRegistered
    BY <1>1, RowsFinite, WebhooksAssumption, BusAssumption
  <1>3. list \in [1 .. Cardinality(S) -> WebhookConfig]
    BY DEF RowsKept
  <1>4. list \in Surjection(1 .. Cardinality(S), S)
    BY DEF Surjection
  <1>5. IsFiniteSet(1 .. Cardinality(S)) /\ Cardinality(1 .. Cardinality(S)) = Cardinality(S)
    BY <1>1, FS_Interval, 1 \in Int
  <1>6. list \in Injection(1 .. Cardinality(S), S)
    BY <1>4, <1>5, FS_SurjSameCardinalityImpliesInj
  <1>7. \A i, j \in DOMAIN list : list[i] = list[j] => i = j
    BY <1>6 DEF Injection, IsInjective
  <1> QED
    BY <1>2, <1>3, <1>7

LEMMA UsesBusStep ==
    ASSUME RowsKept, [Next]_vars
    PROVE  [BusNext]_busVars
  <1>1. CASE UNCHANGED vars
    BY <1>1 DEF vars
  <1>2. ASSUME NEW h \in Hooks, Handles(h)
        PROVE  [BusNext]_busVars
    <2>1. CASE Insert(h)
      <3>1. PICK s \in ValidSettings : Register([hook |-> h, setting |-> s, active |-> TRUE])
        BY <2>1 DEF Insert
      <3>2. [hook |-> h, setting |-> s, active |-> TRUE] \in WebhookConfig
        BY WebhooksAssumption, ConfigTyped
      <3> QED
        BY <3>1, <3>2 DEF BusNext
    <2>2. CASE Refuse(h)
      BY <2>2, WebhooksAssumption DEF Refuse, BusNext
    <2>3. CASE ~Insert(h) /\ ~Refuse(h)
      BY <1>2, <2>3 DEF Handles, CheckLimit, CommitCreate, FailCreate, Update, Delete,
                        KeepRegistered, BeginTest, TestPosted
    <2> QED
      BY <2>1, <2>2, <2>3
  <1>3. CASE Shutdown
    BY <1>3 DEF Shutdown, BusNext
  <1>4. CASE Startup
    <2>1. ASSUME NEW S \in SUBSET table, NEW list \in [1 .. Cardinality(S) -> S],
                 S = {list[i] : i \in DOMAIN list}, Start(list)
          PROVE  BusNext
      BY <2>1, Loads DEF BusNext
    <2>2. ASSUME Start(<<>>)
          PROVE  BusNext
      <3>1. 0 \in 0 .. MaxRegistered /\ <<>> \in [1 .. 0 -> WebhookConfig]
        BY BusAssumption
      <3> QED
        BY <2>2, <3>1 DEF BusNext
    <2> QED
      BY <1>4, <2>1, <2>2 DEF Startup
  <1>5. CASE Works
    BY <1>5 DEF Works, BusNext
  <1> QED
    BY <1>1, <1>2, <1>3, <1>4, <1>5, HookCases

\* The handlers only append to the list while the worker walks it, and take
\* nothing from the queue: all that is proved of the bus holds here.
THEOREM HandlersUseBus == Spec => UsesBus
  <1>1. Init => BusInit
    BY DEF Init
  <1>2. RowsKept /\ [Next]_vars => [BusNext]_busVars
    BY UsesBusStep
  <1> QED
    BY <1>1, <1>2, RowsAreKept, PTL DEF Spec, UsesBus, BusSpec

\* Every variable of the webhooks keeps to its type.
THEOREM TypeCorrect == Spec => []TypeOK
  <1>1. RowsKept /\ BusTypeOK => TypeOK
    BY DEF RowsKept, PCs, TypeOK
  <1> QED
    BY <1>1, HandlersUseBus, RowsAreKept, BusTypeCorrect, PTL DEF UsesBus

(***************************************************************************)
(* The bus agrees with the table.                                          *)
(***************************************************************************)

\* The bus has at most one registration of a webhook, of one that was inserted.
\* While the server runs on a complete load, the registrations of the webhooks not
\* touched are the active rows and the pending ones.
Agrees ==
    /\ webhooks \in Seq(WebhookConfig)
    /\ \A i \in DOMAIN webhooks : pc[webhooks[i].hook] \notin {"new", "checked"}
    /\ ~up => webhooks = <<>>
    /\ \A i, j \in DOMAIN webhooks : webhooks[i].hook = webhooks[j].hook => i = j
    /\ up /\ loaded = "all" =>
          \A c \in WebhookConfig : c.hook \notin touched =>
              (Registered(c) <=> c \in ActiveRows \cup pending)

LEMMA ListElements ==
    ASSUME webhooks \in Seq(WebhookConfig)
    PROVE  \A i \in DOMAIN webhooks : webhooks[i] \in WebhookConfig /\ webhooks[i].hook \in Hooks
  <1>1. \A i \in DOMAIN webhooks : webhooks[i] \in WebhookConfig
    <2> HIDE DEF WebhookConfig
    <2> QED
      OBVIOUS
  <1>2. \A c \in WebhookConfig : c.hook \in Hooks
    BY DEF WebhookConfig
  <1> HIDE DEF WebhookConfig
  <1> QED
    BY <1>1, <1>2

\* What leaves the list as it is and moves no request back keeps it so.
LEMMA AgreesKept ==
    ASSUME RowsKept, Agrees, UNCHANGED <<webhooks, up, loaded>>, touched \subseteq touched',
           \A h \in Hooks : pc'[h] \in {"new", "checked"} => pc[h] \in {"new", "checked"},
           \A c \in WebhookConfig : c.hook \notin touched' =>
              (c \in ActiveRows' \cup pending' <=> c \in ActiveRows \cup pending)
    PROVE  Agrees'
  <1>1. \A i \in DOMAIN webhooks : webhooks[i].hook \in Hooks
    BY ListElements DEF Agrees
  <1>2. \A c : Registered(c)' = Registered(c)
    BY DEF Registered
  <1> QED
    BY <1>1, <1>2 DEF Agrees

LEMMA AgreesInsert ==
    ASSUME RowsKept, Agrees, NEW h \in Hooks, Insert(h)
    PROVE  Agrees'
  <1>1. PICK s \in ValidSettings :
           /\ pending' = pending \cup {[hook |-> h, setting |-> s, active |-> TRUE]}
           /\ Register([hook |-> h, setting |-> s, active |-> TRUE])
    BY DEF Insert
  <1>2. PICK new : /\ new = [hook |-> h, setting |-> s, active |-> TRUE]
                   /\ new \in WebhookConfig /\ new.hook = h
    BY WebhooksAssumption, ConfigTyped
  <1>3. /\ pc[h] = "checked" /\ pc' = [pc EXCEPT ![h] = "flushed"] /\ pc \in [Hooks -> PCs]
        /\ up /\ up' = up /\ webhooks' = Append(webhooks, new)
        /\ UNCHANGED <<table, loaded, touched>>
        /\ pending' = pending \cup {new}
    BY <1>1, <1>2 DEF Insert, Goto, Register, RowsKept
  <1>4. /\ webhooks \in Seq(WebhookConfig) /\ Len(webhooks) \in Nat
        /\ DOMAIN webhooks = 1 .. Len(webhooks)
    BY DEF Agrees
  <1>5. /\ webhooks' \in Seq(WebhookConfig)
        /\ DOMAIN webhooks' = (DOMAIN webhooks) \cup {Len(webhooks) + 1}
        /\ Len(webhooks) + 1 \notin DOMAIN webhooks
        /\ \A i \in DOMAIN webhooks : webhooks'[i] = webhooks[i]
        /\ webhooks'[Len(webhooks) + 1] = new
    BY <1>2, <1>3, <1>4
  <1>6. \A i \in DOMAIN webhooks : webhooks[i].hook # h /\ webhooks[i].hook \in Hooks
    BY <1>3, <1>4, ListElements DEF Agrees
  <1>7. \A i \in DOMAIN webhooks' : pc'[webhooks'[i].hook] \notin {"new", "checked"}
    BY <1>2, <1>3, <1>5, <1>6 DEF Agrees
  <1>8. \A i, j \in DOMAIN webhooks' : webhooks'[i].hook = webhooks'[j].hook => i = j
    BY <1>2, <1>5, <1>6 DEF Agrees
  <1>9. \A c : Registered(c)' <=> Registered(c) \/ c = new
    BY <1>5 DEF Registered
  <1>10. ActiveRows' = ActiveRows
    BY <1>3 DEF ActiveRows
  <1>11. \A c : c \in ActiveRows' \cup pending' <=> c \in ActiveRows \cup pending \/ c = new
    BY <1>3, <1>10
  <1>12. up' /\ loaded' = "all" =>
            \A c \in WebhookConfig : c.hook \notin touched' =>
                (Registered(c)' <=> c \in ActiveRows' \cup pending')
    BY <1>3, <1>9, <1>11 DEF Agrees
  <1> QED
    BY <1>3, <1>5, <1>7, <1>8, <1>12 DEF Agrees

LEMMA AgreesStartup ==
    ASSUME RowsKept, Agrees, Startup
    PROVE  Agrees'
  <1>1. /\ ~up /\ up' /\ UNCHANGED <<table, pending, pc, touched>>
    BY DEF Startup, Start
  <1>2. pending = {}
    BY <1>1 DEF RowsKept, InProgress, WebhookConfig
  <1>3. CASE loaded' = "failed" /\ Start(<<>>)
    BY <1>3 DEF Start, Agrees
  <1>4. ASSUME NEW S \in SUBSET table, NEW list \in [1 .. Cardinality(S) -> S],
               Registers(S), S = {list[i] : i \in DOMAIN list}, Start(list),
               loaded' = IF \A c \in ActiveRows : Usable(c) THEN "all" ELSE "cut"
        PROVE  Agrees'
    <2>0. Cardinality(S) \in Nat
      BY RowsFinite, FS_Subset, FS_CardinalityType
    <2>11. webhooks' = list /\ DOMAIN list = 1 .. Cardinality(S)
      BY <1>4 DEF Start
    <2>12. /\ list \in [1 .. Cardinality(S) -> WebhookConfig]
           /\ \A i, j \in DOMAIN list : list[i] = list[j] => i = j
      BY <1>4, Loads
    <2>1. /\ webhooks' = list /\ DOMAIN list = 1 .. Cardinality(S)
          /\ list \in [1 .. Cardinality(S) -> WebhookConfig] /\ Cardinality(S) \in Nat
          /\ \A i, j \in DOMAIN list : list[i] = list[j] => i = j
      BY <2>0, <2>11, <2>12
    <2>2. webhooks' \in Seq(WebhookConfig)
      BY <2>1, ListIsSeq
    <2>3. \A i \in DOMAIN list : list[i] \in table
      BY <2>1
    <2>4. \A i \in DOMAIN list : pc[list[i].hook] \notin {"new", "checked"}
      BY <2>3 DEF RowsKept
    <2>5. \A i, j \in DOMAIN list : list[i].hook = list[j].hook => i = j
      BY <2>1, <2>3 DEF RowsKept
    <2>6. \A c : Registered(c)' <=> c \in S
      BY <1>4, <2>1 DEF Registered
    <2>7. loaded' = "all" => S = ActiveRows
      BY <1>4 DEF Registers
    <2>8. ActiveRows' = ActiveRows /\ pending' = {}
      BY <1>1, <1>2 DEF ActiveRows
    <2> QED
      BY <1>1, <2>1, <2>2, <2>4, <2>5, <2>6, <2>7, <2>8 DEF Agrees
  <1> QED
    BY <1>3, <1>4 DEF Startup

LEMMA AgreesStep ==
    ASSUME RowsKept, Agrees, [Next]_vars
    PROVE  Agrees'
  <1>0. \A c \in WebhookConfig : c.hook \in Hooks
    BY DEF WebhookConfig
  <1>1. ASSUME UNCHANGED <<webhooks, up, loaded, touched, table, pending>>,
               \A h \in Hooks : pc'[h] \in {"new", "checked"} => pc[h] \in {"new", "checked"}
        PROVE  Agrees'
    BY <1>1, AgreesKept DEF ActiveRows
  <1>2. CASE UNCHANGED vars
    BY <1>1, <1>2 DEF vars, hookVars, busVars
  <1>3. ASSUME NEW h \in Hooks, CheckLimit(h) \/ Refuse(h) \/ BeginTest(h) \/ TestPosted(h)
        PROVE  Agrees'
    BY <1>1, <1>3 DEF CheckLimit, Refuse, Emit, BeginTest, TestPosted, Goto, busVars, RowsKept
  <1>4. ASSUME NEW h \in Hooks, CommitCreate(h)
        PROVE  Agrees'
    <2>1. /\ UNCHANGED <<webhooks, up, loaded, touched>>
          /\ pc' = [pc EXCEPT ![h] = "created"] /\ pc \in [Hooks -> PCs]
          /\ table' = table \cup {c \in pending : c.hook = h}
          /\ pending' = {c \in pending : c.hook # h}
      BY <1>4 DEF CommitCreate, Goto, busVars, RowsKept
    <2>2. \A c \in pending : c.active
      BY DEF RowsKept
    <2>3. \A c : c \in ActiveRows' \cup pending' <=> c \in ActiveRows \cup pending
      BY <2>1, <2>2 DEF ActiveRows
    <2>4. \A g \in Hooks : pc'[g] \in {"new", "checked"} => pc[g] \in {"new", "checked"}
      BY <2>1
    <2> QED
      BY <2>1, <2>3, <2>4, AgreesKept
  <1>5. ASSUME NEW h \in Hooks, FailCreate(h)
        PROVE  Agrees'
    <2>1. /\ UNCHANGED <<webhooks, up, loaded, table>> /\ touched' = touched \cup {h}
          /\ pc' = [pc EXCEPT ![h] = "failed"] /\ pc \in [Hooks -> PCs]
          /\ pending' = {c \in pending : c.hook # h}
      BY <1>5 DEF FailCreate, Goto, busVars, RowsKept
    <2>2. \A c : c.hook # h => (c \in ActiveRows' \cup pending' <=> c \in ActiveRows \cup pending)
      BY <2>1 DEF ActiveRows
    <2>3. \A g \in Hooks : pc'[g] \in {"new", "checked"} => pc[g] \in {"new", "checked"}
      BY <2>1
    <2> QED
      BY <2>1, <2>2, <2>3, AgreesKept
  <1>6. ASSUME NEW h \in Hooks, Update(h) \/ Delete(h)
        PROVE  Agrees'
    <2>1. /\ UNCHANGED <<webhooks, up, loaded, pc, pending>> /\ touched' = touched \cup {h}
      BY <1>6 DEF Update, Delete, KeepRegistered, busVars
    <2>2. \A c : c.hook # h => (c \in table' <=> c \in table)
      <3>1. CASE Delete(h)
        BY <3>1 DEF Delete, Rows
      <3>2. CASE Update(h)
        <4>1. PICK old \in Rows(h), s \in Settings, a \in BOOLEAN :
                 table' = (table \ {old}) \cup {[hook |-> h, setting |-> s, active |-> a]}
          BY <3>2 DEF Update
        <4>2. PICK new : new = [hook |-> h, setting |-> s, active |-> a] /\ new.hook = h
          BY ConfigTyped
        <4>3. table' = (table \ {old}) \cup {new} /\ old.hook = h
          BY <4>1, <4>2 DEF Rows
        <4> QED
          BY <4>2, <4>3
      <3> QED
        BY <1>6, <3>1, <3>2
    <2>3. \A c : c.hook # h => (c \in ActiveRows' \cup pending' <=> c \in ActiveRows \cup pending)
      BY <2>1, <2>2 DEF ActiveRows
    <2> QED
      BY <2>1, <2>3, AgreesKept
  <1>7. CASE Shutdown
    <2>1. /\ up' = FALSE /\ webhooks' = <<>>
      BY <1>7 DEF Shutdown, Stop
    <2>2. DOMAIN webhooks' = {} /\ webhooks' \in Seq(WebhookConfig)
      BY <2>1
    <2> QED
      BY <2>1, <2>2 DEF Agrees
  <1>8. CASE Works /\ UNCHANGED hookVars
    BY <1>1, <1>8, WorksKeepUp DEF hookVars
  <1> QED
    BY <1>2, <1>3, <1>4, <1>5, <1>6, <1>7, <1>8, HookCases, AgreesInsert, AgreesStartup DEF Handles

\* Since a start that loaded them all, the bus and the table agree on every
\* webhook not edited, deleted or rolled back.
THEOREM BusAgrees == Spec => []BusAgreesWithTable
  <1>1. Init => Agrees
    BY EmptySeq DEF Init, BusInit, Agrees
  <1>2. Agrees => BusAgreesWithTable
    BY DEF Agrees, BusAgreesWithTable
  <1> QED
    BY <1>1, <1>2, AgreesStep, RowsAreKept, PTL DEF Spec

(***************************************************************************)
(* The number of webhooks the tier allows.                                 *)
(***************************************************************************)

\* A client whose requests do not overlap has one create request in progress at
\* most; when the limit was checked for it there is room, and nothing pending.
Serial ==
    client = "serial" =>
        /\ \A g, h \in Hooks : InProgress(g) /\ InProgress(h) => g = h
        /\ \A h \in Hooks : pc[h] = "checked" => Cardinality(table) < MaxWebhooks
        /\ Cardinality(table \cup pending) <= MaxWebhooks

LEMMA AddOne ==
    ASSUME NEW S, IsFiniteSet(S), NEW x
    PROVE  /\ Cardinality(S) \in Nat /\ Cardinality(S \cup {x}) \in Nat
           /\ Cardinality(S \cup {x}) <= Cardinality(S) + 1
  <1>1. Cardinality(S) \in Nat
    BY FS_CardinalityType
  <1>2. Cardinality(S \cup {x}) = Cardinality(S) \/ Cardinality(S \cup {x}) = Cardinality(S) + 1
    BY FS_AddElement
  <1> QED
    BY <1>1, <1>2

LEMMA Sizes ==
    ASSUME NEW A, IsFiniteSet(A)
    PROVE  /\ Cardinality(A) \in Nat
           /\ \A B \in SUBSET A : Cardinality(B) \in Nat /\ Cardinality(B) <= Cardinality(A)
           /\ \A x : /\ Cardinality(A \cup {x}) \in Nat
                     /\ Cardinality(A \cup {x}) <= Cardinality(A) + 1
           /\ \A old \in A : \A x : /\ Cardinality((A \ {old}) \cup {x}) \in Nat
                                    /\ Cardinality((A \ {old}) \cup {x}) <= Cardinality(A)
  <1>1. Cardinality(A) \in Nat
    BY FS_CardinalityType
  <1>2. \A B \in SUBSET A : Cardinality(B) \in Nat /\ Cardinality(B) <= Cardinality(A)
    BY FS_Subset, FS_CardinalityType
  <1>4. ASSUME NEW old \in A, NEW x
        PROVE  /\ Cardinality((A \ {old}) \cup {x}) \in Nat
               /\ Cardinality((A \ {old}) \cup {x}) <= Cardinality(A)
    <2>1. /\ IsFiniteSet(A \ {old}) /\ Cardinality(A \ {old}) = Cardinality(A) - 1
      BY FS_RemoveElement
    <2>2. PICK B : B = A \ {old}
      OBVIOUS
    <2>3. IsFiniteSet(B)
      BY <2>1, <2>2
    <2>4. /\ Cardinality(B) \in Nat /\ Cardinality(B \cup {x}) \in Nat
          /\ Cardinality(B \cup {x}) <= Cardinality(B) + 1
      BY <2>3, AddOne
    <2>5. Cardinality(B) = Cardinality(A) - 1
      BY <2>1, <2>2
    <2>6. Cardinality(B \cup {x}) <= Cardinality(A)
      BY <1>1, <2>4, <2>5
    <2> QED
      BY <2>2, <2>4, <2>6
  <1>5. \A x : Cardinality(A \cup {x}) \in Nat /\ Cardinality(A \cup {x}) <= Cardinality(A) + 1
    BY AddOne
  <1> QED
    BY <1>1, <1>2, <1>4, <1>5

\* Every webhook has one row, so the rows are finitely many.
LEMMA AllFinite ==
    ASSUME RowsKept
    PROVE  IsFiniteSet(table) /\ IsFiniteSet(pending) /\ IsFiniteSet(table \cup pending)
  <1> DEFINE hookOf == [c \in pending |-> c.hook]
  <1>1. \A c \in pending : c.hook \in Hooks
    BY DEF RowsKept, WebhookConfig
  <1>2. hookOf \in Injection(pending, Hooks)
    BY <1>1 DEF RowsKept, Injection, IsInjective
  <1>3. IsFiniteSet(pending)
    BY <1>2, WebhooksAssumption, FS_Injection
  <1> QED
    BY <1>3, RowsFinite, FS_Union

\* What adds no row and begins no request keeps the limit.
LEMMA SerialKept ==
    ASSUME RowsKept, Serial, client' = client,
           table' \subseteq table, table' \cup pending' \subseteq table \cup pending,
           \A h \in Hooks : InProgress(h)' => InProgress(h),
           \A h \in Hooks : pc'[h] = "checked" => pc[h] = "checked"
    PROVE  Serial'
  <1>1. /\ Cardinality(table') \in Nat /\ Cardinality(table') <= Cardinality(table)
        /\ Cardinality(table) \in Nat
    BY AllFinite, Sizes
  <1>2. PICK all : all = table \cup pending
    OBVIOUS
  <1>3. PICK rest : rest = table' \cup pending'
    OBVIOUS
  <1>4. /\ Cardinality(rest) \in Nat /\ Cardinality(rest) <= Cardinality(all)
        /\ Cardinality(all) \in Nat
    BY <1>2, <1>3, AllFinite, Sizes
  <1>5. MaxWebhooks \in Nat
    BY WebhooksAssumption
  <1> QED
    BY <1>1, <1>2, <1>3, <1>4, <1>5 DEF Serial

LEMMA SerialStep ==
    ASSUME RowsKept, Serial, [Next]_vars
    PROVE  Serial'
  <1>0. \A c \in WebhookConfig : c.hook \in Hooks
    BY DEF WebhookConfig
  <1>1. CASE UNCHANGED vars
    BY <1>1, SerialKept DEF vars, hookVars, InProgress
  <1>2. ASSUME NEW h \in Hooks, CheckLimit(h)
        PROVE  Serial'
    <2>1. /\ UNCHANGED <<client, table, pending>> /\ pc \in [Hooks -> PCs]
          /\ pc' = [pc EXCEPT ![h] = "checked"]
          /\ Cardinality(table) < MaxWebhooks
          /\ client = "serial" => \A g \in Hooks \ {h} : ~InProgress(g)
      BY <1>2 DEF CheckLimit, Goto, BelowLimit, MayCreate, RowsKept
    <2> QED
      BY <2>1 DEF Serial, InProgress
  <1>3. ASSUME NEW h \in Hooks, Insert(h)
        PROVE  Serial'
    <2>1. PICK new : pending' = pending \cup {new}
      BY <1>3 DEF Insert
    <2>2. /\ UNCHANGED <<client, table>> /\ pc \in [Hooks -> PCs] /\ pc[h] = "checked"
          /\ pc' = [pc EXCEPT ![h] = "flushed"]
      BY <1>3 DEF Insert, Goto, RowsKept
    <2>3. ASSUME client = "serial"
          PROVE  /\ pending = {} /\ Cardinality(table) < MaxWebhooks
      BY <1>0, <2>2, <2>3 DEF Serial, RowsKept, InProgress
    <2>4. client = "serial" => table' \cup pending' = table \cup {new}
      BY <2>1, <2>2, <2>3
    <2>5. /\ Cardinality(table) \in Nat /\ Cardinality(table \cup {new}) \in Nat
          /\ Cardinality(table \cup {new}) <= Cardinality(table) + 1
      BY AllFinite, Sizes
    <2>6. client = "serial" => Cardinality(table' \cup pending') <= MaxWebhooks
      BY <2>3, <2>4, <2>5, WebhooksAssumption
    <2> QED
      BY <2>2, <2>6 DEF Serial, InProgress
  <1>4. ASSUME NEW h \in Hooks, Refuse(h) \/ BeginTest(h) \/ TestPosted(h) \/ Delete(h)
        PROVE  Serial'
    <2>1. /\ client' = client /\ pending' = pending /\ table' \subseteq table
          /\ \A g \in Hooks : InProgress(g)' => InProgress(g)
          /\ \A g \in Hooks : pc'[g] = "checked" => pc[g] = "checked"
      BY <1>4 DEF Refuse, BeginTest, TestPosted, Delete, Goto, InProgress, RowsKept
    <2> QED
      BY <2>1, SerialKept
  <1>5. ASSUME NEW h \in Hooks, CommitCreate(h)
        PROVE  Serial'
    <2>1. /\ client' = client /\ pc \in [Hooks -> PCs] /\ pc[h] = "flushed"
          /\ pc' = [pc EXCEPT ![h] = "created"]
          /\ table' = table \cup {c \in pending : c.hook = h}
          /\ pending' = {c \in pending : c.hook # h}
      BY <1>5 DEF CommitCreate, Goto, RowsKept
    <2>2. table' \cup pending' = table \cup pending
      BY <2>1
    <2>3. client = "serial" => \A g \in Hooks : pc'[g] # "checked"
      BY <2>1 DEF Serial, InProgress
    <2> QED
      BY <2>1, <2>2, <2>3 DEF Serial, InProgress
  <1>6. ASSUME NEW h \in Hooks, FailCreate(h)
        PROVE  Serial'
    BY <1>6, SerialKept DEF FailCreate, Goto, InProgress, RowsKept
  <1>7. ASSUME NEW h \in Hooks, Update(h)
        PROVE  Serial'
    <2>1. PICK old \in table : \E new : table' = (table \ {old}) \cup {new} /\ old.hook = h
      BY <1>7 DEF Update, Rows
    <2>0. PICK new : table' = (table \ {old}) \cup {new} /\ old.hook = h
      BY <2>1
    <2>2. UNCHANGED <<client, pending, pc>>
      BY <1>7 DEF Update
    <2>3. old \notin pending
      BY <1>0, <2>0 DEF RowsKept
    <2>4. PICK all : all = table \cup pending
      OBVIOUS
    <2>5. table' \cup pending' = (all \ {old}) \cup {new} /\ old \in all
      BY <2>0, <2>2, <2>3, <2>4
    <2>6. /\ Cardinality((all \ {old}) \cup {new}) \in Nat /\ Cardinality(all) \in Nat
          /\ Cardinality((all \ {old}) \cup {new}) <= Cardinality(all)
      BY <2>4, <2>5, AllFinite, Sizes
    <2>7. /\ Cardinality(table') \in Nat /\ Cardinality(table) \in Nat
          /\ Cardinality(table') <= Cardinality(table)
      BY <2>0, AllFinite, Sizes
    <2>8. client = "serial" => Cardinality(table' \cup pending') <= MaxWebhooks
      BY <2>4, <2>5, <2>6, WebhooksAssumption DEF Serial
    <2>9. client = "serial" => \A g \in Hooks : pc[g] = "checked" => Cardinality(table') < MaxWebhooks
      BY <2>7, WebhooksAssumption DEF Serial
    <2> QED
      BY <2>2, <2>8, <2>9 DEF Serial, InProgress
  <1>8. CASE Shutdown
    <2>1. /\ client' = client /\ table' = table /\ pending' = {}
          /\ \A g \in Hooks : ~InProgress(g)' /\ pc'[g] # "checked"
      BY <1>8 DEF Shutdown, InProgress
    <2> QED
      BY <2>1, SerialKept
  <1>9. CASE Startup
    BY <1>9, SerialKept DEF Startup, InProgress
  <1>10. CASE Works /\ UNCHANGED hookVars
    BY <1>10, SerialKept DEF hookVars, InProgress
  <1> QED
    BY <1>1, <1>2, <1>3, <1>4, <1>5, <1>6, <1>7, <1>8, <1>9, <1>10, HookCases DEF Handles

\* An organization whose create requests do not overlap stays within the number
\* of webhooks its tier allows, through failures, updates and restarts.
THEOREM LimitIsKept == Spec => []LimitKept
  <1>1. Init => Serial
    <2>1. ASSUME Init
          PROVE  Serial
      <3>1. /\ table \cup pending = {} /\ \A h \in Hooks : pc[h] = "new"
        BY <2>1 DEF Init
      <3> QED
        BY <3>1, FS_EmptySet, WebhooksAssumption DEF Serial, InProgress
    <2> QED
      BY <2>1
  <1>2. Serial => LimitKept
    BY DEF Serial, LimitKept
  <1> QED
    BY <1>1, <1>2, SerialStep, RowsAreKept, PTL DEF Spec
=============================================================================
