------------------------------ MODULE Webhooks ------------------------------
(***************************************************************************)
(* The webhooks of one organization: their table and its handlers          *)
(* (backend/api/webhooks.py), composed with the event bus of the server    *)
(* process, which a webhook joins when it is created and when the server   *)
(* starts (backend/main.py). The table outlives the process, the bus does  *)
(* not. Several requests may be between their first read and their commit. *)
(***************************************************************************)
EXTENDS EventBus, FiniteSets

CONSTANTS
    ValidSettings,  \* settings whose event types exist
    MaxWebhooks,    \* max_webhooks of the organization's tier
    ThresholdType,  \* the event type usage.threshold
    Tested          \* bound: the webhooks that users send test events to

ASSUME WebhooksAssumption ==
    /\ ValidSettings \subseteq Settings
    /\ MaxWebhooks \in Nat
    /\ ThresholdType \in Types
    /\ Tested \subseteq Hooks
    /\ IsFiniteSet(Hooks) /\ Cardinality(Hooks) <= MaxRegistered

VARIABLES
    table,      \* the committed rows
    pending,    \* rows inserted by create requests that have not committed
    pc,         \* hook |-> the progress of the request that creates it
    loaded,     \* how the last start's load ended: "all", "cut" or "failed"
    test,       \* hook |-> attempt of its test delivery in flight, 0 for none
    \* history of the process
    touched,    \* webhooks updated, deleted or rolled back
    client      \* "serial" or "any": whether its create requests overlap

hookVars == <<table, pending, pc, loaded, test, touched, client>>
vars == <<busVars, hookVars>>

TypeOK ==
    /\ BusTypeOK
    /\ table \subseteq WebhookConfig
    /\ pending \subseteq WebhookConfig
    /\ pc \in [Hooks -> {"new", "checked", "flushed", "created", "failed"}]
    /\ loaded \in {"all", "cut", "failed"}
    /\ test \in [Hooks -> 0..MaxAttempts]
    /\ touched \subseteq Hooks
    /\ client \in {"serial", "any"}

Init ==
    /\ BusInit
    /\ table = {}
    /\ pending = {}
    /\ pc = [h \in Hooks |-> "new"]
    /\ loaded = "all"
    /\ test = [h \in Hooks |-> 0]
    /\ touched = {}
    /\ client \in {"serial", "any"}

Goto(h, label) == pc' = [pc EXCEPT ![h] = label]

Rows(h) == {c \in table : c.hook = h}

ActiveRows == {c \in table : c.active}

InProgress(h) == pc[h] \in {"checked", "flushed"}

MayCreate(h) ==
    client = "serial" => \A g \in Hooks \ {h} : ~InProgress(g)

(***************************************************************************)
(* create_webhook. Its row is in the organization's count only after the   *)
(* commit that get_db makes when the handler has returned.                 *)
(***************************************************************************)

\* Variant: the limit is compared with "more than".
BelowLimitOrAt == Cardinality(table) <= MaxWebhooks

BelowLimit == Cardinality(table) < MaxWebhooks

CheckLimit(h) ==
    /\ up
    /\ pc[h] = "new"
    /\ MayCreate(h)
    /\ BelowLimit
    /\ Goto(h, "checked")
    /\ UNCHANGED <<busVars, table, pending, loaded, test, touched, client>>

Refuse(h) ==
    /\ pc[h] = "new"
    /\ ~BelowLimit
    /\ Emit(ThresholdType)
    /\ Goto(h, "failed")
    /\ UNCHANGED <<table, pending, loaded, test, touched, client>>

\* Validates, flushes the insert and registers the webhook with the bus.
Insert(h) ==
    /\ pc[h] = "checked"
    /\ \E s \in ValidSettings :
          LET config == [hook |-> h, setting |-> s, active |-> TRUE]
          IN  /\ pending' = pending \cup {config}
              /\ Register(config)
    /\ Goto(h, "flushed")
    /\ UNCHANGED <<table, loaded, test, touched, client>>

CommitCreate(h) ==
    /\ pc[h] = "flushed"
    /\ table' = table \cup {c \in pending : c.hook = h}
    /\ pending' = {c \in pending : c.hook # h}
    /\ Goto(h, "created")
    /\ UNCHANGED <<busVars, loaded, test, touched, client>>

\* A 400, or any failure before the commit is durable: the row is rolled back,
\* the registration with the bus is not.
FailCreate(h) ==
    /\ InProgress(h)
    /\ pending' = {c \in pending : c.hook # h}
    /\ Goto(h, "failed")
    /\ touched' = touched \cup {h}
    /\ UNCHANGED <<busVars, table, loaded, test, client>>

(***************************************************************************)
(* The other handlers. Each is one step, that of its commit: a failure     *)
(* before it changes nothing.                                              *)
(***************************************************************************)

\* Variant: a deleted webhook is taken out of the bus's list.
Unregister(h) ==
    /\ webhooks' = SelectSeq(webhooks, LAMBDA c : c.hook # h)
    /\ UNCHANGED <<up, queue, worker, emitted>>

\* The bus is not told of updates and deletions.
KeepRegistered(h) == UNCHANGED busVars

\* update_webhook does not validate the event types it is given.
Update(h) ==
    /\ up
    /\ \E c \in Rows(h), s \in Settings, a \in BOOLEAN :
          table' = (table \ {c}) \cup {[hook |-> h, setting |-> s, active |-> a]}
    /\ touched' = touched \cup {h}
    /\ KeepRegistered(h)
    /\ UNCHANGED <<pending, pc, loaded, test, client>>

Delete(h) ==
    /\ up
    /\ Rows(h) # {}
    /\ table' = table \ Rows(h)
    /\ touched' = touched \cup {h}
    /\ KeepRegistered(h)
    /\ UNCHANGED <<pending, pc, loaded, test, client>>

\* test_webhook posts through the bus's _send_webhook, outside its worker.
BeginTest(h) ==
    /\ up
    /\ Rows(h) # {}
    /\ h \in Tested
    /\ test[h] = 0
    /\ test' = [test EXCEPT ![h] = 1]
    /\ UNCHANGED <<busVars, table, pending, pc, loaded, touched, client>>

\* It retries as the worker does, and ends.
TestPosted(h) ==
    /\ test[h] # 0
    /\ \E outcome \in Outcomes :
          test' = [test EXCEPT ![h] = IF LastAttempt(@, outcome) THEN 0 ELSE @ + 1]
    /\ UNCHANGED <<busVars, table, pending, pc, loaded, touched, client>>

(***************************************************************************)
(* The server stops, or crashes, and starts.                               *)
(***************************************************************************)

\* Requests in flight end with it; their transactions are rolled back.
Shutdown ==
    /\ Stop
    /\ pending' = {}
    /\ pc' = [h \in Hooks |-> IF InProgress(h) THEN "failed" ELSE pc[h]]
    /\ test' = [h \in Hooks |-> 0]
    /\ touched' = {}
    /\ UNCHANGED <<table, loaded, client>>

Usable(c) == c.setting \in ValidSettings

\* Variant: the query does not look at is_active.
RegistersAnyRow(S) == S = {c \in table : Usable(c)}

\* The rows load_webhooks_from_db registers, in any order: all the active ones,
\* or, as an unknown event type ends the loop, those it met before.
Registers(S) ==
    \/ S = ActiveRows /\ \A c \in S : Usable(c)
    \/ /\ \E c \in ActiveRows : ~Usable(c)
       /\ S \subseteq {c \in ActiveRows : Usable(c)}

Startup ==
    /\ \/ \E S \in SUBSET table :
             /\ Registers(S)
             /\ loaded' = IF \A c \in ActiveRows : Usable(c) THEN "all" ELSE "cut"
             /\ \E list \in [1..Cardinality(S) -> S] :
                   /\ S = {list[i] : i \in DOMAIN list}
                   /\ Start(list)
       \/ loaded' = "failed" /\ Start(<<>>)   \* the query raised
    /\ UNCHANGED <<table, pending, pc, test, touched, client>>

Next ==
    \/ \E h \in Hooks :
          \/ CheckLimit(h) \/ Refuse(h) \/ Insert(h)
          \/ CommitCreate(h) \/ FailCreate(h)
          \/ Update(h) \/ Delete(h)
          \/ BeginTest(h) \/ TestPosted(h)
    \/ Shutdown
    \/ Startup
    \/ (\E type \in Types : Emit(type)) /\ UNCHANGED hookVars
    \/ Work /\ UNCHANGED hookVars

Spec == Init /\ [][Next]_vars

(***************************************************************************)
(* Properties.                                                             *)
(***************************************************************************)

Registered(c) == \E i \in DOMAIN webhooks : webhooks[i] = c

\* The bus and the table agree on every webhook not edited, deleted or rolled
\* back since a start that loaded them all: creations in flight, committed and
\* failed, and restarts, leave no active webhook out and register none twice.
BusAgreesWithTable ==
    up /\ loaded = "all" =>
        /\ \A i, j \in DOMAIN webhooks : webhooks[i].hook = webhooks[j].hook => i = j
        /\ \A c \in WebhookConfig : c.hook \notin touched =>
              (Registered(c) <=> c \in ActiveRows \cup pending)

\* When create requests do not overlap, the organization stays within the
\* number of webhooks its tier allows, whatever fails and whenever.
LimitKept ==
    client = "serial" => Cardinality(table \cup pending) <= MaxWebhooks

\* The handlers use the bus as it allows: while the worker walks the list,
\* they only append to it, and they take nothing from the queue.
UsesBus == BusSpec

\* events.py:164 skips webhooks that are not active, and the web client offers
\* to "Disable" one: no delivery begins to a webhook that is in the table and
\* disabled there.
DisabledReceiveNothing ==
    [][(Take \/ NextWebhook) /\ position' # 0
        => \A c \in Rows(webhooks[position'].hook) : c.active]_vars
=============================================================================
