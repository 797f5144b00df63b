------------------------------ MODULE EventBus ------------------------------
(***************************************************************************)
(* The event bus of one server process (backend/core/events.py): a queue,  *)
(* the list of registered webhooks and the one worker that takes events    *)
(* from the queue and posts each to every webhook that wants it, in list   *)
(* order, with retries. The worker is a coroutine: requests run, emit and  *)
(* register webhooks, whenever it waits for a post or for a backoff.       *)
(*                                                                         *)
(* An event is numbered by its place among those emitted since the server  *)
(* started. A registration keeps no organization, so neither does the      *)
(* model: an event goes to every registration that matches its type.       *)
(***************************************************************************)
EXTENDS Naturals, Sequences

CONSTANTS
    Hooks,          \* webhook ids
    Settings,       \* what an edit can change: url, format and event types
    Types,          \* event types
    Subscribed,     \* setting |-> its event types, {} for all of them
    MaxEvents,      \* bound: events emitted by one server process
    MaxRegistered   \* bound: webhooks registered in one server process

ASSUME BusAssumption ==
    /\ Subscribed \in [Settings -> SUBSET Types]
    /\ MaxEvents \in Nat
    /\ MaxRegistered \in Nat

VARIABLES
    up,         \* the server runs, between start() and stop() or a crash
    queue,      \* _queue
    webhooks,   \* _webhooks, a list that only grows
    current,    \* the event being delivered, 0 for none
    position,   \* the index of the webhook it is being sent to
    attempt,    \* the attempt of _send_webhook in flight, 0 for none
    \* history of the process
    emitted,    \* event |-> its type
    handled,    \* events whose delivery ended, each with the list's length then
    posts       \* the attempts that ended, with their outcomes

worker == <<current, position, attempt, handled, posts>>
busVars == <<up, queue, webhooks, worker, emitted>>

WebhookConfig == [hook : Hooks, setting : Settings, active : BOOLEAN]

MaxAttempts == 3

\* A status below 400; 4xx; 5xx or no connection or the 10 s timeout; any
\* other exception.
Outcomes == {"success", "rejected", "unavailable", "error"}

BusTypeOK ==
    /\ up \in BOOLEAN
    /\ queue \in Seq(Nat)
    /\ webhooks \in Seq(WebhookConfig)
    /\ current \in Nat
    /\ position \in Nat
    /\ attempt \in 0..MaxAttempts
    /\ emitted \in Seq(Types)
    /\ handled \in Seq([event : Nat, reach : Nat])
    /\ posts \in Seq([event : Nat, webhook : Nat, attempt : Nat, outcome : Outcomes])

BusInit ==
    /\ up = FALSE
    /\ queue = <<>>
    /\ webhooks = <<>>
    /\ current = 0
    /\ position = 0
    /\ attempt = 0
    /\ emitted = <<>>
    /\ handled = <<>>
    /\ posts = <<>>

(***************************************************************************)
(* The server's life.                                                      *)
(***************************************************************************)

\* lifespan: a new queue and worker, and the webhooks loaded from the database.
Start(list) ==
    /\ ~up
    /\ up' = TRUE
    /\ webhooks' = list
    /\ UNCHANGED <<queue, worker, emitted>>

\* Cancels the worker and drops its memory with the process: the event being
\* delivered and the queued ones are lost. A crash does the same.
Stop ==
    /\ up
    /\ up' = FALSE
    /\ queue' = <<>>
    /\ webhooks' = <<>>
    /\ current' = 0
    /\ position' = 0
    /\ attempt' = 0
    /\ emitted' = <<>>
    /\ handled' = <<>>
    /\ posts' = <<>>

(***************************************************************************)
(* What requests do to the bus.                                            *)
(***************************************************************************)

\* The queue is unbounded, so put() never waits.
Emit(type) ==
    /\ up
    /\ Len(emitted) < MaxEvents
    /\ emitted' = Append(emitted, type)
    /\ queue' = Append(queue, Len(emitted) + 1)
    /\ UNCHANGED <<up, webhooks, worker>>

Register(config) ==
    /\ up
    /\ Len(webhooks) < MaxRegistered
    /\ webhooks' = Append(webhooks, config)
    /\ UNCHANGED <<up, queue, worker, emitted>>

(***************************************************************************)
(* The worker.                                                             *)
(***************************************************************************)

Matches(config, type) ==
    /\ config.active
    /\ Subscribed[config.setting] = {} \/ type \in Subscribed[config.setting]

\* Variant: the loop over the webhooks ends with the first of them.
DeliverFirst(e, i) ==
    LET targets == {j \in i..i : j <= 1 /\ j <= Len(webhooks) /\ Matches(webhooks[j], emitted[e])}
    IN  \/ /\ targets = {}
           /\ handled' = Append(handled, [event |-> e, reach |-> Len(webhooks)])
           /\ current' = 0
           /\ position' = 0
           /\ attempt' = 0
        \/ /\ targets # {}
           /\ current' = e
           /\ position' = i
           /\ attempt' = 1
           /\ UNCHANGED handled

\* Posting e to the webhooks from index i on: the next one that matches, or
\* the end of the list as long as it is then. Nothing runs in between.
DeliverFrom(e, i) ==
    LET targets == {j \in i..Len(webhooks) : Matches(webhooks[j], emitted[e])}
    IN  \/ /\ targets = {}
           /\ handled' = Append(handled, [event |-> e, reach |-> Len(webhooks)])
           /\ current' = 0
           /\ position' = 0
           /\ attempt' = 0
        \/ \E j \in targets :
              /\ \A k \in targets : j <= k
              /\ current' = e
              /\ position' = j
              /\ attempt' = 1
              /\ UNCHANGED handled

\* Variant: the worker takes the newest event.
NewestEvent == queue[Len(queue)]

\* The oldest.
NextEvent == Head(queue)

Take ==
    /\ up
    /\ current = 0
    /\ queue # <<>>
    /\ queue' = Tail(queue)
    /\ DeliverFrom(NextEvent, 1)
    /\ UNCHANGED <<up, webhooks, emitted, posts>>

Posted(outcome) ==
    posts' = Append(posts, [event |-> current, webhook |-> position,
                            attempt |-> attempt, outcome |-> outcome])

\* Variant: a 4xx is retried too.
LastUnlessFailed(n, outcome) == outcome \in {"success", "error"} \/ n = MaxAttempts

\* Whether _send_webhook returns after attempt n.
LastAttempt(n, outcome) == outcome # "unavailable" \/ n = MaxAttempts

\* A 5xx, a timeout or no connection: sleep and try again.
Retry ==
    /\ attempt # 0
    /\ \E outcome \in Outcomes :
          /\ ~LastAttempt(attempt, outcome)
          /\ Posted(outcome)
    /\ attempt' = attempt + 1
    /\ UNCHANGED <<up, queue, webhooks, current, position, emitted, handled>>

\* Variant: an exception _deliver_event does not catch ends the worker.
NextUnlessRaised ==
    /\ attempt # 0
    /\ \E outcome \in Outcomes :
          /\ LastAttempt(attempt, outcome)
          /\ Posted(outcome)
          /\ \/ outcome # "error" /\ DeliverFrom(current, position + 1)
             \/ /\ outcome = "error"
                /\ attempt' = 0
                /\ UNCHANGED <<current, position, handled>>
    /\ UNCHANGED <<up, queue, webhooks, emitted>>

\* Success, a 4xx, the last attempt, or an exception _deliver_event logs.
NextWebhook ==
    /\ attempt # 0
    /\ \E outcome \in Outcomes :
          /\ LastAttempt(attempt, outcome)
          /\ Posted(outcome)
    /\ DeliverFrom(current, position + 1)
    /\ UNCHANGED <<up, queue, webhooks, emitted>>

Work == Take \/ Retry \/ NextWebhook

BusNext ==
    \/ \E n \in 0..MaxRegistered : \E list \in [1..n -> WebhookConfig] : Start(list)
    \/ Stop
    \/ \E type \in Types : Emit(type)
    \/ \E config \in WebhookConfig : Register(config)
    \/ Work

BusSpec == BusInit /\ [][BusNext]_busVars

\* The worker is a task of the event loop, and every post ends: its client has
\* a timeout of 10 s.
BusFairSpec == BusSpec /\ WF_busVars(Work)

(***************************************************************************)
(* Properties.                                                             *)
(***************************************************************************)

Busy == IF current = 0 THEN 0 ELSE 1

\* While the server runs, each event emitted is delivered, in delivery or in
\* the queue, once, in the order of emission: requests that emit while the
\* worker waits inside a delivery lose and overtake nothing.
Accounted ==
    /\ Len(emitted) = Len(handled) + Busy + Len(queue)
    /\ \A i \in DOMAIN handled : handled[i].event = i
    /\ current # 0 => current = Len(handled) + 1
    /\ \A i \in DOMAIN queue : queue[i] = Len(handled) + Busy + i

Before(p, q) ==
    \/ p.event < q.event
    \/ p.event = q.event /\ p.webhook < q.webhook
    \/ p.event = q.event /\ p.webhook = q.webhook /\ p.attempt < q.attempt

\* No webhook sees a later event before an earlier one, and no attempt is made
\* twice, although failures delay a delivery and the list grows meanwhile.
PostsInOrder ==
    \A i, j \in DOMAIN posts : i < j => Before(posts[i], posts[j])

SameDelivery(p, q) == p.event = q.event /\ p.webhook = q.webhook

TriedAgain(i) == \E j \in DOMAIN posts : i < j /\ SameDelivery(posts[i], posts[j])

\* _send_webhook tries again after a 5xx or a connection error and after
\* nothing else, and it gives up such a delivery only after three attempts.
RetriesAsStated ==
    \A i \in DOMAIN posts :
        /\ TriedAgain(i) => posts[i].outcome = "unavailable"
        /\ \/ TriedAgain(i)
           \/ posts[i].outcome # "unavailable"
           \/ posts[i].attempt = 3
           \/ posts[i].event = current /\ posts[i].webhook = position

HasPost(e, w) == \E i \in DOMAIN posts : posts[i].event = e /\ posts[i].webhook = w

\* An event was posted to exactly the webhooks of the list that want it,
\* those registered while it was being delivered included, whichever failed.
ServedInFull ==
    \A h \in DOMAIN handled :
        /\ handled[h].reach <= Len(webhooks)
        /\ \A w \in 1..handled[h].reach :
              Matches(webhooks[w], emitted[handled[h].event]) <=> HasPost(handled[h].event, w)

\* What the worker keeps between its steps; with it the properties above are
\* inductive.
WorkerState ==
    /\ current = 0 <=> attempt = 0
    /\ current = 0 <=> position = 0
    /\ ~up => /\ Len(emitted) = 0
              /\ Len(webhooks) = 0

\* The delivery under way has passed no webhook that wants its event, and sends
\* to one that does.
DeliverySoFar ==
    current # 0 =>
        /\ position <= Len(webhooks)
        /\ Matches(webhooks[position], emitted[current])
        /\ \A w \in 1..(position - 1) :
              Matches(webhooks[w], emitted[current]) => HasPost(current, w)

InFlight == [event |-> current, webhook |-> position, attempt |-> attempt]

\* The attempts that ended precede the one in flight; those of its delivery
\* found the endpoint unavailable.
PostsSoFar ==
    \A i \in DOMAIN posts :
        /\ posts[i].event \in 1..(Len(handled) + Busy)
        /\ posts[i].webhook \in 1..Len(webhooks)
        /\ Matches(webhooks[posts[i].webhook], emitted[posts[i].event])
        /\ current # 0 => Before(posts[i], InFlight)
        /\ posts[i].event = current /\ posts[i].webhook = position
              => posts[i].outcome = "unavailable"

\* Every event emitted is delivered unless the server stops: no failure of an
\* endpoint ends the worker or holds the queue for ever.
EventsHandled ==
    \A e \in 1..MaxEvents : Len(emitted) >= e ~> (Len(handled) >= e \/ ~up)
=============================================================================
