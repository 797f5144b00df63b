------------------------------- MODULE Gateway -------------------------------
(***************************************************************************)
(* What the calls to a language model share in the database: connections   *)
(* of the pool, write locks, the API keys and the daily row of usage. A    *)
(* call comes through the gateway (backend/api/gateway.py), streaming or   *)
(* blocking, or through the chat (backend/api/chat.py, modelled in full by *)
(* ChatPipeline); a key may be revoked meanwhile (backend/api/api_keys.py).*)
(* A call ends by recording itself (backend/core/usage.py).                *)
(*                                                                         *)
(* Connections and locks are not variables of their own: who holds them    *)
(* follows from where the calls are and what their sessions have written.  *)
(***************************************************************************)
EXTENDS Naturals, Sequences, FiniteSets

CONSTANTS
    Calls,
    Keys,       \* API keys; a call without one carries the token of a sign-in
    Kinds,      \* the ways calls come: how, and by which key
    PoolSize,   \* connections of the pool, overflow included
    None

ASSUME GatewayAssumption ==
    /\ IsFiniteSet(Calls)
    /\ Kinds \subseteq [mode : {"stream", "blocking", "chat", "revoke"}, key : Keys \cup {None}]
    /\ \A k \in Kinds : k.mode = "revoke" => k.key # None
    /\ PoolSize \in Nat \ {0}
    /\ None \notin Keys /\ None \notin Nat

VARIABLES
    sqlite,     \* the database is SQLite, where one transaction writes at a time
    kind,       \* how each call comes
    step,       \* where each call is
    seen,       \* the count each call has read from the day's row, 0 for no row
    active,     \* the keys not revoked
    usage,      \* request_count of the rows of one user, provider, model and day
    wrote,      \* history: the row each call was recorded in, 0 for none
    raced       \* history: a call was recorded between another's read and commit

vars == <<sqlite, kind, step, seen, active, usage, wrote, raced>>

Steps == {"new", "selected", "admitted", "asking", "answered", "counted", "done", "failed"}

TypeOK ==
    /\ sqlite \in BOOLEAN
    /\ kind \in [Calls -> Kinds]
    /\ step \in [Calls -> Steps]
    /\ seen \in [Calls -> Nat \cup {None}]
    /\ active \subseteq Keys
    /\ usage \in Seq(Nat \ {0})
    /\ wrote \in [Calls -> 0 .. Len(usage)]
    /\ raced \in BOOLEAN

Init ==
    /\ sqlite \in BOOLEAN
    /\ kind \in [Calls -> Kinds]
    /\ step = [c \in Calls |-> "new"]
    /\ seen = [c \in Calls |-> 0]
    /\ active = Keys
    /\ usage = <<>>
    /\ wrote = [c \in Calls |-> 0]
    /\ raced = FALSE

Mode(c) == kind[c].mode
Key(c) == kind[c].key

\* Variant: the session stays open while the answer streams.
ConnectedThroughout(c) == step[c] \notin {"new", "done", "failed"}

\* A session holds a connection from its first query to its end. A blocking call
\* uses one session throughout, the others close it before they ask.
Connected(c) ==
    \/ step[c] \in {"selected", "admitted", "counted"}
    \/ Mode(c) = "blocking" /\ step[c] \in {"asking", "answered"}

PoolHasOne == Cardinality({c \in Calls : Connected(c)}) < PoolSize

\* last_used_at of the key is flushed and not committed.
HoldsKey(c) ==
    /\ Mode(c) # "revoke" /\ Key(c) # None
    /\ \/ step[c] = "admitted"
       \/ Mode(c) = "blocking" /\ step[c] \in {"asking", "answered", "counted"}

\* Variant: the count is read before the answer is flushed.
WritingWhenRecorded(c) == HoldsKey(c)

\* The transaction of c has written. The chat flushes the answer before it counts.
Writing(c) == HoldsKey(c) \/ (Mode(c) = "chat" /\ step[c] = "counted")

MayWrite(c) == sqlite => \A d \in Calls \ {c} : ~Writing(d)

\* The key's row is not locked either.
MayWriteKey(c) ==
    /\ MayWrite(c)
    /\ \A d \in Calls \ {c} : Key(d) = Key(c) => ~HoldsKey(d)

GoTo(c, s) == step' = [step EXCEPT ![c] = s]

(***************************************************************************)
(* Before the provider is asked                                            *)
(***************************************************************************)
\* The caller's key is found by its hash if it is active. A revocation carries a
\* token and finds the key in any case.
Authenticate(c) ==
    /\ step[c] = "new"
    /\ PoolHasOne
    /\ Mode(c) = "revoke" \/ Key(c) \in active \cup {None}
    /\ GoTo(c, "selected")
    /\ UNCHANGED <<sqlite, kind, seen, active, usage, wrote, raced>>

\* The query for the key's owner flushes the time of the key's use.
Admit(c) ==
    /\ step[c] = "selected"
    /\ Mode(c) # "revoke"
    /\ Key(c) # None => MayWriteKey(c)
    /\ GoTo(c, "admitted")
    /\ UNCHANGED <<sqlite, kind, seen, active, usage, wrote, raced>>

Revoke(c) ==
    /\ step[c] = "selected"
    /\ Mode(c) = "revoke"
    /\ MayWriteKey(c)
    /\ GoTo(c, "done")
    /\ active' = active \ {Key(c)}
    /\ UNCHANGED <<sqlite, kind, seen, usage, wrote, raced>>

\* A policy blocks the message: its audit row is committed, the call refused.
Block(c) ==
    /\ step[c] = "admitted"
    /\ MayWrite(c)
    /\ GoTo(c, "failed")
    /\ UNCHANGED <<sqlite, kind, seen, active, usage, wrote, raced>>

\* The gateway rolls its session back before it streams, the chat commits the
\* question first; a blocking call keeps its transaction open.
Ask(c) ==
    /\ step[c] = "admitted"
    /\ Mode(c) = "chat" => MayWrite(c)
    /\ GoTo(c, "asking")
    /\ UNCHANGED <<sqlite, kind, seen, active, usage, wrote, raced>>

(***************************************************************************)
(* After it                                                                *)
(***************************************************************************)
\* The provider's answer has ended; a stream may also have ended by an error.
Answer(c) ==
    /\ step[c] = "asking"
    /\ GoTo(c, "answered")
    /\ UNCHANGED <<sqlite, kind, seen, active, usage, wrote, raced>>

\* What the query for the day's row returns; it raises when there are two.
Selected == IF usage = <<>> THEN 0 ELSE IF Len(usage) = 1 THEN usage[1] ELSE None

Count(c) ==
    /\ step[c] = "answered"
    /\ Mode(c) # "blocking" => PoolHasOne
    /\ Mode(c) = "chat" => MayWrite(c)
    /\ seen' = [seen EXCEPT ![c] = Selected]
    /\ GoTo(c, "counted")
    /\ UNCHANGED <<sqlite, kind, active, usage, wrote, raced>>

\* Variant: a row that was just made is incremented as well.
RecordedTwice(n) == IF n = 0 THEN Append(usage, 2) ELSE [usage EXCEPT ![1] = n + 1]

\* The ORM inserts the row it did not find and sets the one it found.
Recorded(n) == IF n = 0 THEN Append(usage, 1) ELSE [usage EXCEPT ![1] = n + 1]

Record(c) ==
    /\ step[c] = "counted"
    /\ seen[c] # None
    /\ MayWrite(c)
    /\ usage' = Recorded(seen[c])
    /\ wrote' = [wrote EXCEPT ![c] = IF seen[c] = 0 THEN Len(usage) + 1 ELSE 1]
    /\ raced' = (raced \/ \E d \in Calls \ {c} : step[d] = "counted")
    /\ GoTo(c, "done")
    /\ UNCHANGED <<sqlite, kind, seen, active>>

\* What the query raised is caught, so the call ends well and goes unrecorded.
PassUnrecorded(c) ==
    /\ step[c] = "counted"
    /\ seen[c] = None
    /\ GoTo(c, "done")
    /\ UNCHANGED <<sqlite, kind, seen, active, usage, wrote, raced>>

\* A refusal, an error of the provider, no connection or lock in time, a client
\* gone, a crash: the session is rolled back, what streamed is not recorded.
Fail(c) ==
    /\ step[c] \notin {"new", "done", "failed"}
    /\ GoTo(c, "failed")
    /\ UNCHANGED <<sqlite, kind, seen, active, usage, wrote, raced>>

(***************************************************************************)
(* Specification                                                           *)
(***************************************************************************)
\* What happens to a call by itself once it was let in.
Progress(c) ==
    \/ Admit(c) \/ Revoke(c) \/ Ask(c)
    \/ Answer(c) \/ Count(c) \/ Record(c) \/ PassUnrecorded(c)

Next == \E c \in Calls : Authenticate(c) \/ Block(c) \/ Progress(c) \/ Fail(c)

Spec == Init /\ [][Next]_vars

\* Coroutines are resumed, and a provider ends its answer or times out.
FairSpec == Spec /\ \A c \in Calls : WF_vars(Progress(c))

(***************************************************************************)
(* Properties                                                              *)
(***************************************************************************)

RecordedIn(i) == {c \in Calls : wrote[c] = i}

\* However calls overlap, whichever of them wrote a count that others had
\* changed since it read it, no row counts more calls than were recorded in it.
NeverOvercounted ==
    \A i \in DOMAIN usage : usage[i] <= Cardinality(RecordedIn(i))

\* Every call reads the count in the transaction that has the write lock.
CountsUnderLock ==
    /\ sqlite
    /\ \A c \in Calls : \/ Mode(c) \in {"chat", "revoke"}
                        \/ Mode(c) = "blocking" /\ Key(c) # None

\* As long as no call is recorded between another's read and commit, every call
\* that ended is counted, in one row; on SQLite that is so however chats and
\* blocking calls with keys overlap, since they have locked the database before.
UsageExact ==
    /\ CountsUnderLock => ~raced
    /\ ~raced =>
          /\ Len(usage) <= 1
          /\ \A c \in Calls : step[c] = "done" /\ Mode(c) # "revoke" => wrote[c] = 1
          /\ usage # <<>> => usage[1] = Cardinality(RecordedIn(1))

\* Two blocking calls with one key are never at the provider at once, and on
\* SQLite no two with any: the uncommitted time of the key's use keeps the second
\* out. No call is admitted, and no key revoked, behind it.
KeyCallsOneByOne ==
    \A c, d \in Calls :
        c # d /\ HoldsKey(c) /\ HoldsKey(d) => ~sqlite /\ Key(c) # Key(d)

\* A call that was let in ends, whatever the pool holds and the locks: none waits
\* for a connection or a lock of one that waits for it.
EveryCallEnds ==
    \A c \in Calls : step[c] = "selected" ~> step[c] \in {"done", "failed"}
==============================================================================
