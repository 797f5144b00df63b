------------------------------ MODULE RateLimit -----------------------------
(***************************************************************************)
(* The rate limiter in front of every request                              *)
(* (backend/middleware/rate_limit.py). Each worker process keeps, for each *)
(* bucket, the times of the requests it granted in the last Window;        *)
(* connected to Redis, it uses the counters the workers share there and    *)
(* falls back to its own times when a call to Redis fails.                 *)
(*                                                                         *)
(* The code compares timestamps with the clock. Here the ages of grants    *)
(* and what is left of a counter's life are kept, and Tick moves them, so  *)
(* that time never runs out. A list of times is in order, and is kept as   *)
(* the number of them up to each age. One check makes no await: it is one  *)
(* step.                                                                   *)
(***************************************************************************)
EXTENDS Naturals

CONSTANTS
    Workers,
    Orgs,           \* callers with a token, known by their organization
    Ips,            \* callers without one, known by their address
    Requests,       \* the pairs of a caller and a path that arrive
    Tiers,
    Free,           \* the tier of a caller without a token
    ApiLimit,       \* api_rate_limit of each tier
    GatewayLimit,   \* gateway_rate_limit of each tier
    AuthLimit,      \* AUTH_RPM
    Window,
    CleanupEvery

ASSUME RateLimitAssumption ==
    /\ Requests \subseteq (Orgs \cup Ips) \X {"auth", "api", "gateway"}
    /\ Orgs \cap Ips = {}
    /\ "redis" \notin Workers
    /\ Free \in Tiers
    /\ {ApiLimit, GatewayLimit} \subseteq [Tiers -> Nat \ {0}]
    /\ {AuthLimit, Window, CleanupEvery} \subseteq Nat \ {0}

VARIABLES
    connected,  \* the workers whose first look at Redis found it
    times,      \* _requests: each worker's grants by bucket, up to each age
    checks,     \* _request_count of each worker
    counters,   \* the counters in Redis, with what is left of their lives
    served,     \* history: grants by who granted and by bucket, up to each age
    quiet       \* history: how long each bucket was granted nothing

vars == <<connected, times, checks, counters, served, quiet>>

\* The auth paths of a caller with a token share the bucket of its API paths.
Bucket(caller, path) ==
    IF caller \in Orgs
    THEN <<IF path = "gateway" THEN "gateway" ELSE "api", caller>>
    ELSE <<IF path = "auth" THEN "auth" ELSE "api", caller>>

Limit(path, tier) ==
    [auth |-> AuthLimit, gateway |-> GatewayLimit[tier], api |-> ApiLimit[tier]][path]

\* The tier cache may answer with any tier the organization has had.
TiersOf(caller) == IF caller \in Orgs THEN Tiers ELSE {Free}

Buckets == {Bucket(q[1], q[2]) : q \in Requests}

Limits(b) ==
    UNION {{Limit(q[2], tier) : tier \in TiersOf(q[1])} :
              q \in {p \in Requests : Bucket(p[1], p[2]) = b}}

\* Bound: a grant older than Window has the age Older, whatever its time is.
Older == Window + 1

Ages == 0 .. Older

Unrecorded == [age \in Ages |-> 0]

\* What is left of the life of a counter that nobody set to expire.
Forever == Window + 1

NoCounter == [count |-> 0, left |-> 0]

\* The ages of the grants in a Window.
InWindow == 0 .. Window - 1

Unserved == [b \in Buckets |-> [age \in InWindow |-> 0]]

TypeOK ==
    /\ connected \subseteq Workers
    /\ times \in [Workers -> [Buckets -> [Ages -> Nat]]]
    /\ checks \in [Workers -> 0 .. CleanupEvery - 1]
    /\ counters \in [Buckets -> [count : Nat, left : 0 .. Forever]]
    /\ \A b \in Buckets : counters[b].count = 0 <=> counters[b].left = 0
    /\ served \in [Workers \cup {"redis"} -> [Buckets -> [InWindow -> Nat]]]
    /\ quiet \in [Buckets -> 0 .. Window]

Init ==
    /\ connected \in SUBSET Workers
    /\ times = [w \in Workers |-> [b \in Buckets |-> Unrecorded]]
    /\ checks = [w \in Workers |-> 0]
    /\ counters = [b \in Buckets |-> NoCounter]
    /\ served = [g \in Workers \cup {"redis"} |-> Unserved]
    /\ quiet = [b \in Buckets |-> Window]

Serve(g, b) ==
    /\ served' = [served EXCEPT ![g][b] = [age \in InWindow |-> @[age] + 1]]
    /\ quiet' = [quiet EXCEPT ![b] = 0]

(***************************************************************************)
(* The times in memory                                                     *)
(***************************************************************************)
\* The times that are not older than Window.
Recent(w, b) == [age \in Ages |-> times[w][b][IF age < Window THEN age ELSE Window - 1]]

\* With the time of a grant of this moment.
Appended(recent) == [age \in Ages |-> recent[age] + 1]

\* Variant: the sweep looks at the oldest grant of a bucket.
SweptByOldest(kept) ==
    [b \in Buckets |-> IF kept[b][Older] > kept[b][Window] THEN Unrecorded ELSE kept[b]]

\* The sweep empties the buckets whose newest grant is older than Window.
Swept(kept) == [b \in Buckets |-> IF kept[b][Window] = 0 THEN Unrecorded ELSE kept[b]]

Sweeps(w) == checks[w] + 1 >= CleanupEvery

RefusedByMemory(w, b, limit) == Recent(w, b)[Older] >= limit

\* Variant: a refused request is recorded like a granted one.
RefuseRecorded(w, b) ==
    /\ times' = [times EXCEPT ![w][b] = Appended(Recent(w, b))]
    /\ UNCHANGED <<checks, served, quiet>>

Refuse(w, b) ==
    /\ times' = [times EXCEPT ![w][b] = Recent(w, b)]
    /\ UNCHANGED <<checks, served, quiet>>

Grant(w, b) ==
    LET kept == [times[w] EXCEPT ![b] = Appended(Recent(w, b))] IN
    /\ times' = [times EXCEPT ![w] = IF Sweeps(w) THEN Swept(kept) ELSE kept]
    /\ checks' = [checks EXCEPT ![w] = IF Sweeps(w) THEN 0 ELSE @ + 1]
    /\ Serve(w, b)

CheckMemory(w, b, limit) ==
    IF RefusedByMemory(w, b, limit) THEN Refuse(w, b) ELSE Grant(w, b)

(***************************************************************************)
(* The counters in Redis                                                   *)
(***************************************************************************)
PastLimits(b, count) == \A limit \in Limits(b) : count > limit

\* INCR; a counter that it makes lives for a Window once EXPIRE was called and
\* forever before. Bound: a count past every limit of its bucket stays.
Incremented(b, life) ==
    LET c == counters[b] IN
    IF c.count = 0 THEN [count |-> 1, left |-> life]
    ELSE [c EXCEPT !.count = IF PastLimits(b, @) THEN @ ELSE @ + 1]

\* Variant: compares the count before this request.
RefusedByRedisLate(b, limit) == counters[b].count > limit

RefusedByRedis(b, limit) == counters[b].count + 1 > limit

CheckRedis(w, b, limit) ==
    /\ w \in connected
    /\ counters' = [counters EXCEPT ![b] = Incremented(b, Window)]
    /\ UNCHANGED <<times, checks>>
    /\ IF RefusedByRedis(b, limit) THEN UNCHANGED <<served, quiet>> ELSE Serve("redis", b)

CheckAlone(w, b, limit) ==
    /\ w \notin connected
    /\ UNCHANGED counters
    /\ CheckMemory(w, b, limit)

\* Redis is lost before INCR, or after it and before EXPIRE.
CheckRedisLost(w, b, limit) ==
    /\ w \in connected
    /\ \/ UNCHANGED counters
       \/ counters' = [counters EXCEPT ![b] = Incremented(b, Forever)]
    /\ CheckMemory(w, b, limit)

Check(w) ==
    /\ \E q \in Requests : \E tier \in TiersOf(q[1]) :
          LET b == Bucket(q[1], q[2])
              limit == Limit(q[2], tier)
          IN  \/ CheckRedis(w, b, limit)
              \/ CheckAlone(w, b, limit)
              \/ CheckRedisLost(w, b, limit)
    /\ UNCHANGED connected

\* A worker ends, and the one in its place looks for Redis itself.
Restart(w) ==
    /\ connected' \in {connected \cup {w}, connected \ {w}}
    /\ times' = [times EXCEPT ![w] = [b \in Buckets |-> Unrecorded]]
    /\ checks' = [checks EXCEPT ![w] = 0]
    /\ served' = [served EXCEPT ![w] = Unserved]
    /\ UNCHANGED <<counters, quiet>>

Aged(c) ==
    IF c.left = Forever THEN c
    ELSE IF c.left > 1 THEN [c EXCEPT !.left = @ - 1] ELSE NoCounter

Tick ==
    /\ times' = [w \in Workers |-> [b \in Buckets |-> [age \in Ages |->
                    IF age = 0 THEN 0
                    ELSE times[w][b][IF age = Older THEN Older ELSE age - 1]]]]
    /\ counters' = [b \in Buckets |-> Aged(counters[b])]
    /\ served' = [g \in DOMAIN served |-> [b \in Buckets |->
                     [age \in InWindow |-> IF age = 0 THEN 0 ELSE served[g][b][age - 1]]]]
    /\ quiet' = [b \in Buckets |-> IF quiet[b] < Window THEN quiet[b] + 1 ELSE Window]
    /\ UNCHANGED <<connected, checks>>

Next ==
    \/ \E w \in Workers : Check(w) \/ Restart(w)
    \/ Tick

Spec == Init /\ [][Next]_vars

(***************************************************************************)
(* Properties                                                              *)
(***************************************************************************)
\* The grants of the last Window.
Served(g, b) == served[g][b][Window - 1]

\* Whatever the tiers and paths of the requests, whenever buckets are swept and
\* Redis fails, one run of a worker grants by its own times no more requests of a
\* bucket in any Window than the largest limit that applies to the bucket.
WorkerWindow ==
    \A w \in Workers, b \in Buckets : \E limit \in Limits(b) : Served(w, b) <= limit

\* However the workers that share it interleave, a counter in Redis lets at most
\* twice the limit through in a Window: the end of one life and the next one.
RedisWindow ==
    \A b \in Buckets : \E limit \in Limits(b) : Served("redis", b) <= 2 * limit

\* A bucket is refused only if it was granted something in the last Window, as
\* long as the EXPIRE of its counter was not lost: refusals by themselves never
\* keep a caller out.
RefusalsEnd ==
    \A w \in Workers, b \in Buckets : \A limit \in Limits(b) :
        \/ RefusedByMemory(w, b, limit)
        \/ RefusedByRedis(b, limit) /\ counters[b].left # Forever
        => quiet[b] < Window

\* A refusal says to come back after a Window ("Retry-After: 60"): a bucket that
\* was granted nothing for so long is not refused by the next worker either.
RetryAfterHonoured ==
    \A b \in Buckets : \A limit \in Limits(b) :
        connected # {} /\ RefusedByRedis(b, limit) => quiet[b] < Window
=============================================================================
