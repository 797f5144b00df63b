--------------------------- MODULE RateLimitProofs ---------------------------
(***************************************************************************)
(* The limits hold and refusals end, for any number of workers, callers    *)
(* and tiers, and for any limits, window and sweeps.                       *)
(***************************************************************************)
EXTENDS RateLimit, TLAPS

(***************************************************************************)
(* The inductive invariant.                                                *)
(***************************************************************************)

\* What the list of times of one bucket has to do with the grants it is about:
\* those of the last Window are all in it, and none is younger than the bucket's
\* last grant.
Recorded(list, f, q) ==
    /\ \A i, j \in Ages : i <= j => list[i] <= list[j]
    /\ \A age \in InWindow : list[age] = f[age]
    /\ \A age \in Ages : age < q => list[age] = 0

Listed(b, list, f, q) ==
    /\ Recorded(list, f, q)
    /\ \E l \in Limits(b) : f[Window - 1] <= l

\* The grants f by one counter c: k are of its life, those of the life before it
\* are no more than a limit l. What is left of its life tells which are which.
Shares(c, f, k, l) ==
    /\ k <= l /\ k <= c.count
    /\ f[Window - 1] <= k + l
    /\ c.count = 0 => f[0] = 0
    /\ c.left \in 1 .. Window => /\ f[Window - c.left] <= k
                               /\ f[Window - 1] <= f[Window - c.left] + l

Shared(b, c, f, q) ==
    /\ \A i, j \in InWindow : i <= j => f[i] <= f[j]
    /\ \E l \in Limits(b), k \in Nat : Shares(c, f, k, l)
    /\ c.left \in 1 .. Window => q + c.left <= Window

LimitInv ==
    /\ \A w \in Workers, b \in Buckets : Listed(b, times[w][b], served[w][b], quiet[b])
    /\ \A b \in Buckets : Shared(b, counters[b], served["redis"][b], quiet[b])

(***************************************************************************)
(* The constants.                                                          *)
(***************************************************************************)

LEMMA Numbers ==
    /\ Window \in Nat \ {0} /\ CleanupEvery \in Nat \ {0}
    /\ Older = Window + 1 /\ Forever = Window + 1
    /\ 0 \in Ages /\ Window - 1 \in Ages /\ Window \in Ages /\ Older \in Ages
    /\ 0 \in InWindow /\ Window - 1 \in InWindow
    /\ \A age \in Ages : age \in Nat /\ age <= Older
    /\ \A age \in InWindow : age \in Nat /\ age < Window /\ age \in Ages
    /\ \A age \in Ages : age < Window => age \in InWindow
  BY RateLimitAssumption DEF Older, Forever, Ages, InWindow

LEMMA LimitOfRequest ==
    ASSUME NEW q \in Requests, NEW tier \in TiersOf(q[1])
    PROVE  Limit(q[2], tier) \in Nat \ {0}
  <1>1. q[2] \in {"auth", "api", "gateway"}
    BY RateLimitAssumption
  <1>2. tier \in Tiers
    BY RateLimitAssumption DEF TiersOf
  <1>3. /\ AuthLimit \in Nat \ {0} /\ ApiLimit[tier] \in Nat \ {0}
        /\ GatewayLimit[tier] \in Nat \ {0}
    BY <1>2, RateLimitAssumption
  <1> QED
    BY <1>1, <1>3 DEF Limit

\* Some limit applies to each bucket, and every one that does lets requests through.
LEMMA LimitsOfBucket ==
    ASSUME NEW b \in Buckets
    PROVE  Limits(b) \subseteq Nat \ {0} /\ Limits(b) # {}
  <1>1. Limits(b) \subseteq Nat \ {0}
    BY LimitOfRequest DEF Limits
  <1>2. PICK q \in Requests : Bucket(q[1], q[2]) = b
    BY DEF Buckets
  <1>3. PICK tier \in TiersOf(q[1]) : TRUE
    BY RateLimitAssumption DEF TiersOf
  <1>4. Limit(q[2], tier) \in Limits(b)
    BY <1>2 DEF Limits
  <1> QED
    BY <1>1, <1>4

(***************************************************************************)
(* What the operators return.                                              *)
(***************************************************************************)

List == [Ages -> Nat]

Grants == [InWindow -> Nat]

Counter == [count : Nat, left : 0 .. Forever]

LEMMA ListsTyped ==
    /\ Unrecorded \in List
    /\ \A list \in List : Appended(list) \in List
    /\ \A kept \in [Buckets -> List] : Swept(kept) \in [Buckets -> List]
    /\ \A w, b : times[w][b] \in List => Recent(w, b) \in List
  <1>1. Unrecorded \in List
    BY DEF Unrecorded, List
  <1>2. \A list \in List : Appended(list) \in List
    BY DEF Appended, List
  <1>3. \A kept \in [Buckets -> List] : Swept(kept) \in [Buckets -> List]
    BY <1>1 DEF Swept
  <1>4. ASSUME NEW w, NEW b, times[w][b] \in List
        PROVE  Recent(w, b) \in List
    BY <1>4, Numbers DEF Recent, List
  <1> QED
    BY <1>1, <1>2, <1>3, <1>4

LEMMA CountersTyped ==
    /\ NoCounter \in Counter /\ NoCounter.count = 0 /\ NoCounter.left = 0
    /\ \A b \in Buckets, life \in {Window, Forever} : counters[b] \in Counter =>
          Incremented(b, life) \in Counter
    /\ \A c \in Counter : Aged(c) \in Counter
  <1>1. NoCounter \in Counter /\ NoCounter.count = 0 /\ NoCounter.left = 0
    BY Numbers DEF NoCounter, Counter
  <1>2. ASSUME NEW b \in Buckets, NEW life \in {Window, Forever}, counters[b] \in Counter
        PROVE  Incremented(b, life) \in Counter
    <2> DEFINE c == counters[b]
    <2>1. c.count \in Nat /\ c.left \in 0 .. Forever /\ c \in Counter
      BY <1>2 DEF Counter
    <2>2. [count |-> 1, left |-> life] \in Counter
      BY Numbers DEF Counter
    <2>3. [c EXCEPT !.count = c.count + 1] \in Counter /\ [c EXCEPT !.count = c.count] \in Counter
      BY <1>2, <2>1 DEF Counter
    <2> HIDE DEF c
    <2>4. Incremented(b, life) \in {[count |-> 1, left |-> life],
               [c EXCEPT !.count = c.count + 1], [c EXCEPT !.count = c.count]}
      <3>1. CASE c.count = 0
        BY <3>1 DEF Incremented, c
      <3>2. CASE c.count # 0
        BY <3>2 DEF Incremented, c
      <3> QED
        BY <3>1, <3>2
    <2> QED
      BY <2>2, <2>3, <2>4
  <1>3. ASSUME NEW c \in Counter
        PROVE  Aged(c) \in Counter
    <2>1. c.count \in Nat /\ c.left \in 0 .. Forever
      BY DEF Counter
    <2>2. CASE c.left # Forever /\ c.left > 1
      <3>1. c.left - 1 \in 0 .. Forever
        BY <2>1, <2>2, Numbers
      <3> QED
        BY <2>2, <3>1 DEF Aged, Counter
    <2>3. CASE ~(c.left # Forever /\ c.left > 1)
      BY <1>1, <2>3 DEF Aged
    <2> QED
      BY <2>2, <2>3
  <1> QED
    BY <1>1, <1>2, <1>3

\* INCR makes a counter, with or without an end, or adds one to it.
LEMMA IncrementedFields ==
    ASSUME NEW b \in Buckets, NEW life \in {Window, Forever}, counters[b] \in Counter
    PROVE  LET c == counters[b]
               d == Incremented(b, life)
           IN  /\ d.count > 0
               /\ c.count = 0 => d.count = 1 /\ d.left = life
               /\ c.count > 0 => d.left = c.left /\ d.count >= c.count
               /\ c.count > 0 /\ ~PastLimits(b, c.count) => d.count = c.count + 1
  <1> DEFINE c == counters[b]
             d == Incremented(b, life)
  <1>1. c.count \in Nat /\ c \in Counter
    BY DEF Counter
  <1>2. CASE c.count = 0
    BY <1>2 DEF Incremented
  <1>3. CASE c.count # 0 /\ PastLimits(b, c.count)
    <2>1. d = [c EXCEPT !.count = c.count]
      BY <1>3 DEF Incremented
    <2> QED
      BY <1>1, <1>3, <2>1 DEF Counter
  <1>4. CASE c.count # 0 /\ ~PastLimits(b, c.count)
    <2>1. d = [c EXCEPT !.count = c.count + 1]
      BY <1>4 DEF Incremented
    <2> QED
      BY <1>1, <1>4, <2>1 DEF Counter
  <1> QED
    BY <1>2, <1>3, <1>4

LEMMA AgedFields ==
    ASSUME NEW c \in Counter
    PROVE  /\ c.left \in 2 .. Window => Aged(c).left = c.left - 1 /\ Aged(c).count = c.count
           /\ c.left = Forever => Aged(c) = c
           /\ c.left \in {0, 1} => Aged(c).left = 0 /\ Aged(c).count = 0
  BY Numbers, CountersTyped DEF Aged, Counter

(***************************************************************************)
(* What the operators preserve.                                            *)
(***************************************************************************)

Monotone(f, S) == \A i, j \in S : i <= j => f[i] <= f[j]

\* Dropping what is older than Window loses nothing of the last Window.
LEMMA RecentRecorded ==
    ASSUME NEW w, NEW b, times[w][b] \in List, NEW f \in Grants, NEW q \in 0 .. Window,
           Recorded(times[w][b], f, q)
    PROVE  Recorded(Recent(w, b), f, q) /\ Recent(w, b)[Older] = f[Window - 1]
  <1> DEFINE list == times[w][b]
             recent == Recent(w, b)
             At(age) == IF age < Window THEN age ELSE Window - 1
  <1>1. \A age \in Ages : recent[age] = list[At(age)]
    BY DEF Recent
  <1>2. \A i, j \in Ages : i <= j => list[i] <= list[j]
    BY DEF Recorded
  <1>3. \A i, j \in Ages : At(i) \in Ages /\ (i <= j => At(i) <= At(j))
    BY Numbers
  <1>4. \A i, j \in Ages : i <= j => recent[i] <= recent[j]
    BY <1>1, <1>2, <1>3
  <1>5. \A age \in InWindow : recent[age] = f[age]
    BY <1>1, Numbers DEF Recorded
  <1>6. \A age \in Ages : age < q => recent[age] = 0
    BY <1>1, Numbers DEF Recorded
  <1>7. recent[Older] = f[Window - 1]
    BY <1>1, Numbers DEF Recorded
  <1> QED
    BY <1>4, <1>5, <1>6, <1>7 DEF Recorded

LEMMA AppendedRecorded ==
    ASSUME NEW list \in List, NEW f \in Grants, NEW q, Recorded(list, f, q)
    PROVE  Recorded(Appended(list), [age \in InWindow |-> f[age] + 1], 0)
  <1> DEFINE g == [age \in InWindow |-> f[age] + 1]
  <1>1. \A age \in Ages : list[age] \in Nat /\ Appended(list)[age] = list[age] + 1
    BY DEF List, Appended
  <1>2. \A i, j \in Ages : i <= j => Appended(list)[i] <= Appended(list)[j]
    BY <1>1 DEF Recorded
  <1>3. \A age \in InWindow : Appended(list)[age] = g[age]
    BY <1>1, Numbers DEF Recorded
  <1>4. \A age \in Ages : ~(age < 0)
    BY Numbers
  <1> HIDE DEF g
  <1> QED
    BY <1>2, <1>3, <1>4 DEF Recorded, g

\* The sweep empties no bucket that was granted something in the last Window.
LEMMA SweptRecorded ==
    ASSUME NEW kept \in [Buckets -> List], NEW b \in Buckets, NEW f \in Grants,
           NEW q \in 0 .. Window, Recorded(kept[b], f, q)
    PROVE  Recorded(Swept(kept)[b], f, q)
  <1>1. CASE kept[b][Window] = 0
    <2>1. Swept(kept)[b] = Unrecorded
      BY <1>1 DEF Swept
    <2>2. \A age \in Ages : Unrecorded[age] = 0
      BY DEF Unrecorded
    <2>3. \A age \in InWindow : kept[b][age] <= kept[b][Window] /\ kept[b][age] \in Nat
      BY Numbers DEF Recorded, List
    <2>4. \A age \in InWindow : f[age] = 0
      BY <1>1, <2>3 DEF Recorded
    <2> QED
      BY <2>1, <2>2, <2>4, Numbers DEF Recorded
  <1>2. CASE kept[b][Window] # 0
    BY <1>2 DEF Swept
  <1> QED
    BY <1>1, <1>2

LEMMA OlderRecorded ==
    ASSUME NEW list \in List, NEW f \in Grants, NEW q \in 0 .. Window, Recorded(list, f, q)
    PROVE  Recorded([age \in Ages |-> IF age = 0 THEN 0
                                      ELSE list[IF age = Older THEN Older ELSE age - 1]],
                    [age \in InWindow |-> IF age = 0 THEN 0 ELSE f[age - 1]],
                    IF q < Window THEN q + 1 ELSE Window)
  <1> DEFINE At(age) == IF age = Older THEN Older ELSE age - 1
             older == [age \in Ages |-> IF age = 0 THEN 0 ELSE list[At(age)]]
             g == [age \in InWindow |-> IF age = 0 THEN 0 ELSE f[age - 1]]
             p == IF q < Window THEN q + 1 ELSE Window
  <1>1. \A age \in Ages : list[age] \in Nat
    BY DEF List
  <1>2. \A age \in Ages : age # 0 => At(age) \in Ages /\ older[age] = list[At(age)]
    BY Numbers DEF Ages
  <1>3. older[0] = 0
    BY Numbers
  <1>4. \A i, j \in Ages : i # 0 /\ i <= j => j # 0 /\ At(i) <= At(j)
    BY Numbers
  <1>5. \A i, j \in Ages : i <= j => list[i] <= list[j]
    BY DEF Recorded
  <1>6. \A age \in InWindow : age # 0 => At(age) = age - 1 /\ age - 1 \in InWindow
    BY Numbers DEF InWindow
  <1>7. \A age \in InWindow : g[age] = IF age = 0 THEN 0 ELSE f[age - 1]
    OBVIOUS
  <1>8. \A age \in Ages : age < p /\ age # 0 => At(age) = age - 1 /\ age - 1 < q
    BY Numbers
  <1> HIDE DEF older, g, p, At
  <1>9. \A i, j \in Ages : i <= j => older[i] <= older[j]
    <2> SUFFICES ASSUME NEW i \in Ages, NEW j \in Ages, i <= j
                 PROVE  older[i] <= older[j]
      OBVIOUS
    <2>1. CASE i = 0
      <3>1. older[j] \in Nat
        BY <1>1, <1>2, <1>3
      <3> QED
        BY <1>3, <2>1, <3>1
    <2>2. CASE i # 0
      BY <1>2, <1>4, <1>5, <2>2
    <2> QED
      BY <2>1, <2>2
  <1>10. \A age \in InWindow : older[age] = g[age]
    <2>1. \A age \in InWindow : age # 0 => older[age] = list[age - 1]
      BY <1>2, <1>6, Numbers
    <2>2. \A age \in InWindow : age # 0 => list[age - 1] = f[age - 1]
      BY <1>6 DEF Recorded
    <2> QED
      BY <1>3, <1>7, <2>1, <2>2
  <1>11. \A age \in Ages : age < p => older[age] = 0
    <2>1. \A age \in Ages : age < p /\ age # 0 => age - 1 \in Ages /\ older[age] = list[age - 1]
      BY <1>2, <1>8
    <2> QED
      BY <1>3, <1>8, <2>1 DEF Recorded
  <1>12. Recorded(older, g, p)
    BY <1>9, <1>10, <1>11 DEF Recorded
  <1> QED
    BY <1>12 DEF older, g, p, At

LEMMA GrantsOlder ==
    ASSUME NEW f \in Grants, Monotone(f, InWindow)
    PROVE  LET g == [age \in InWindow |-> IF age = 0 THEN 0 ELSE f[age - 1]]
           IN  /\ g \in Grants /\ Monotone(g, InWindow) /\ g[0] = 0
               /\ \A age \in InWindow : g[age] <= f[age]
               /\ \A age \in InWindow : age + 1 \in InWindow => g[age + 1] = f[age]
  <1> DEFINE g == [age \in InWindow |-> IF age = 0 THEN 0 ELSE f[age - 1]]
  <1>1. \A age \in InWindow : f[age] \in Nat /\ age \in Nat
    BY Numbers DEF Grants
  <1>2. \A age \in InWindow : age # 0 => age - 1 \in InWindow /\ g[age] = f[age - 1]
    BY Numbers DEF InWindow
  <1>3. \A age \in InWindow : age = 0 => g[age] = 0
    OBVIOUS
  <1>4. g \in Grants
    BY <1>1, <1>2 DEF Grants
  <1>5. g[0] = 0
    BY <1>3, Numbers
  <1>6. \A age \in InWindow : age + 1 \in InWindow => g[age + 1] = f[age]
    BY <1>1, <1>2
  <1> HIDE DEF g
  <1>7. \A age \in InWindow : g[age] <= f[age]
    <2> SUFFICES ASSUME NEW age \in InWindow PROVE g[age] <= f[age]
      OBVIOUS
    <2>1. CASE age = 0
      BY <1>1, <1>3, <2>1
    <2>2. CASE age # 0
      BY <1>1, <1>2, <2>2 DEF Monotone
    <2> QED
      BY <2>1, <2>2
  <1>8. Monotone(g, InWindow)
    <2> SUFFICES ASSUME NEW i \in InWindow, NEW j \in InWindow, i <= j
                 PROVE  g[i] <= g[j]
      BY DEF Monotone
    <2>1. CASE i = 0
      BY <1>3, <1>4, <2>1 DEF Grants
    <2>2. CASE i # 0
      BY <1>1, <1>2, <2>2 DEF Monotone
    <2> QED
      BY <2>1, <2>2
  <1> QED
    BY <1>4, <1>5, <1>6, <1>7, <1>8 DEF g

(***************************************************************************)
(* What becomes of the shares of a counter.                                *)
(***************************************************************************)

\* A grant by the counter, within a limit: one more of this life.
LEMMA SharedGrant ==
    ASSUME NEW b \in Buckets, counters[b] \in Counter, NEW f \in Grants, NEW q \in 0 .. Window,
           Shared(b, counters[b], f, q), NEW limit \in Limits(b),
           counters[b].count + 1 <= limit,
           counters[b].count = 0 <=> counters[b].left = 0
    PROVE  Shared(b, Incremented(b, Window), [age \in InWindow |-> f[age] + 1], 0)
  <1> DEFINE c == counters[b]
             d == Incremented(b, Window)
             g == [age \in InWindow |-> f[age] + 1]
  <1>1. /\ c.count \in Nat /\ c.left \in 0 .. Forever /\ limit \in Nat
        /\ \A l \in Limits(b) : l \in Nat
    BY LimitsOfBucket DEF Counter
  <1>2. \A age \in InWindow : f[age] \in Nat /\ g[age] = f[age] + 1
    BY DEF Grants
  <1>3. ~PastLimits(b, c.count)
    BY <1>1 DEF PastLimits
  <1>4. /\ d.count = c.count + 1
        /\ c.count = 0 => d.left = Window
        /\ c.count > 0 => d.left = c.left
    BY <1>1, <1>3, IncrementedFields
  <1>5. PICK l \in Limits(b), k \in Nat : Shares(c, f, k, l)
    BY DEF Shared
  <1>6. PICK m \in Limits(b) : m >= l /\ m >= limit
    BY <1>1
  <1>7. f[Window - 1] \in Nat /\ f[0] \in Nat /\ l \in Nat /\ m \in Nat /\ k \in Nat
    BY <1>1, <1>2, Numbers
  <1>8. Monotone(g, InWindow)
    BY <1>2 DEF Shared, Monotone
  <1>9. /\ g[0] = f[0] + 1 /\ g[Window - 1] = f[Window - 1] + 1
        /\ k <= l /\ k <= c.count /\ f[Window - 1] <= k + l
        /\ c.count = 0 => f[0] = 0
    BY <1>2, <1>5, Numbers DEF Shares
  <1>10. CASE c.count = 0
    <2>1. d.count = 1 /\ d.left = Window /\ Window - d.left = 0
      BY <1>4, <1>10, Numbers
    <2>2. k = 0 /\ g[0] = 1 /\ g[Window - 1] <= 1 + m /\ 1 <= m
      BY <1>1, <1>6, <1>7, <1>9, <1>10
    <2>3. 0 + d.left <= Window
      BY <2>1, Numbers
    <2> HIDE DEF c, d, g
    <2>4. g[Window - d.left] = 1
      BY <2>1, <2>2
    <2>5. Shares(d, g, 1, m)
      BY <2>1, <2>2, <2>4 DEF Shares
    <2>6. Shared(b, d, g, 0)
      BY <1>8, <2>3, <2>5 DEF Shared, Monotone
    <2> QED
      BY <2>6 DEF d, g
  <1>11. CASE c.count > 0
    <2>1. d.count = c.count + 1 /\ d.left = c.left
      BY <1>4, <1>11
    <2>2. ASSUME c.left \in 1 .. Window
          PROVE  /\ g[Window - c.left] <= k + 1
                 /\ g[Window - 1] <= g[Window - c.left] + m
      <3>1. Window - c.left \in InWindow
        BY <2>2, Numbers DEF InWindow
      <3>2. f[Window - c.left] <= k /\ f[Window - 1] <= f[Window - c.left] + l
        BY <1>5, <2>2 DEF Shares
      <3>3. g[Window - c.left] = f[Window - c.left] + 1 /\ f[Window - c.left] \in Nat
        BY <1>2, <3>1
      <3> QED
        BY <1>6, <1>7, <1>9, <3>2, <3>3
    <2>3. k + 1 <= m /\ k + 1 <= c.count + 1 /\ g[Window - 1] <= (k + 1) + m /\ k + 1 \in Nat
      BY <1>1, <1>6, <1>7, <1>9
    <2>4. c.left \in 1 .. Window => 0 + c.left <= Window
      BY Numbers
    <2> HIDE DEF c, d, g
    <2>5. Shares(d, g, k + 1, m)
      BY <1>1, <1>11, <2>1, <2>2, <2>3 DEF Shares
    <2>6. Shared(b, d, g, 0)
      BY <1>8, <2>1, <2>3, <2>4, <2>5 DEF Shared, Monotone
    <2> QED
      BY <2>6 DEF d, g
  <1> QED
    BY <1>1, <1>10, <1>11

\* A refusal, or a counter made without an end: no grant of this life.
LEMMA SharedMore ==
    ASSUME NEW b \in Buckets, counters[b] \in Counter, NEW f \in Grants, NEW q \in 0 .. Window,
           Shared(b, counters[b], f, q), NEW life \in {Window, Forever},
           counters[b].count > 0 \/ life = Forever
    PROVE  Shared(b, Incremented(b, life), f, q)
  <1> DEFINE c == counters[b]
             d == Incremented(b, life)
  <1>1. c.count \in Nat /\ c.left \in 0 .. Forever /\ \A l \in Limits(b) : l \in Nat
    BY LimitsOfBucket DEF Counter
  <1>2. /\ d.count > 0
        /\ c.count = 0 => d.count = 1 /\ d.left = Forever
        /\ c.count > 0 => d.left = c.left /\ d.count >= c.count
        /\ d.count \in Nat
    BY <1>1, IncrementedFields, CountersTyped DEF Counter
  <1>3. PICK l \in Limits(b), k \in Nat : Shares(c, f, k, l)
    BY DEF Shared
  <1>4. ~(Forever \in 1 .. Window)
    BY Numbers
  <1> HIDE DEF c, d
  <1>5. Shares(d, f, k, l)
    BY <1>1, <1>2, <1>3, <1>4 DEF Shares
  <1>6. d.left \in 1 .. Window => q + d.left <= Window
    BY <1>1, <1>2, <1>4 DEF Shared, c
  <1> QED
    BY <1>3, <1>5, <1>6 DEF Shared, c, d

\* Time passes: the life of the counter and its grants get older together, and
\* when it ends none of the life before it is left.
LEMMA SharedOlder ==
    ASSUME NEW b \in Buckets, NEW c \in Counter, NEW f \in Grants, NEW q \in 0 .. Window,
           Shared(b, c, f, q), c.count = 0 <=> c.left = 0
    PROVE  Shared(b, Aged(c), [age \in InWindow |-> IF age = 0 THEN 0 ELSE f[age - 1]],
                  IF q < Window THEN q + 1 ELSE Window)
  <1> DEFINE d == Aged(c)
             g == [age \in InWindow |-> IF age = 0 THEN 0 ELSE f[age - 1]]
             p == IF q < Window THEN q + 1 ELSE Window
  <1>1. c.count \in Nat /\ c.left \in 0 .. Forever /\ \A l \in Limits(b) : l \in Nat
    BY LimitsOfBucket DEF Counter
  <1>2. Monotone(f, InWindow)
    BY DEF Shared, Monotone
  <1>3. /\ g \in Grants /\ Monotone(g, InWindow) /\ g[0] = 0
        /\ \A age \in InWindow : g[age] <= f[age]
        /\ \A age \in InWindow : age + 1 \in InWindow => g[age + 1] = f[age]
    BY <1>2, GrantsOlder
  <1>4. PICK l \in Limits(b), k \in Nat : Shares(c, f, k, l)
    BY DEF Shared
  <1>5. \A age \in InWindow : f[age] \in Nat /\ g[age] \in Nat
    BY <1>3 DEF Grants
  <1>6. /\ k <= l /\ k <= c.count /\ f[Window - 1] <= k + l /\ l \in Nat
        /\ f[Window - 1] \in Nat /\ g[Window - 1] \in Nat /\ g[Window - 1] <= f[Window - 1]
    BY <1>1, <1>3, <1>4, <1>5, Numbers DEF Shares
  <1>7. g[Window - 1] <= k + l
    BY <1>6
  <1>8. p \in 0 .. Window /\ p <= q + 1
    BY Numbers
  <1> HIDE DEF d, g, p
  <1>9. CASE c.left \in 2 .. Window
    <2>1. d.left = c.left - 1 /\ d.count = c.count /\ c.count > 0
      BY <1>1, <1>9, AgedFields DEF d
    <2> DEFINE i == Window - c.left
    <2>2. i \in InWindow /\ i + 1 \in InWindow /\ Window - d.left = i + 1 /\ c.left \in 1 .. Window
      BY <1>9, <2>1, Numbers DEF InWindow
    <2>3. f[i] <= k /\ f[Window - 1] <= f[i] + l
      BY <1>4, <2>2 DEF Shares
    <2>4. g[i + 1] = f[i]
      BY <1>3, <2>2
    <2>5. g[Window - 1] <= g[i + 1] + l
      BY <1>5, <1>6, <2>2, <2>3, <2>4
    <2>6. q + c.left <= Window
      BY <2>2 DEF Shared
    <2>7. p + d.left <= Window
      BY <1>1, <1>8, <2>1, <2>6, Numbers
    <2>8. g[Window - d.left] <= k /\ g[Window - 1] <= g[Window - d.left] + l
      BY <2>2, <2>3, <2>4, <2>5
    <2> HIDE DEF i
    <2>9. Shares(d, g, k, l)
      BY <1>3, <1>6, <1>7, <2>1, <2>8 DEF Shares
    <2> QED
      BY <1>3, <2>7, <2>9 DEF Shared, Monotone, d, g, p
  <1>10. CASE c.left = Forever
    <2>1. d = c /\ ~(d.left \in 1 .. Window) /\ c.count # 0
      BY <1>1, <1>10, AgedFields, Numbers DEF d
    <2>2. Shares(d, g, k, l)
      BY <1>6, <1>7, <2>1 DEF Shares
    <2> QED
      BY <1>3, <2>1, <2>2 DEF Shared, Monotone, d, g, p
  <1>11. CASE c.left \in {0, 1}
    <2>1. d.left = 0 /\ d.count = 0
      BY <1>11, AgedFields DEF d
    <2>2. g[Window - 1] <= l
      <3>1. CASE c.left = 0
        BY <1>1, <1>6, <3>1
      <3>2. CASE c.left = 1
        <4>1. f[Window - 1] <= k
          BY <1>4, <3>2, Numbers DEF Shares
        <4> QED
          BY <1>6, <4>1
      <3> QED
        BY <1>11, <3>1, <3>2
    <2>3. Shares(d, g, 0, l)
      BY <1>3, <1>6, <2>1, <2>2 DEF Shares
    <2> QED
      BY <1>3, <2>1, <2>3 DEF Shared, Monotone, d, g, p
  <1> QED
    BY <1>1, <1>9, <1>10, <1>11, Numbers

(***************************************************************************)
(* Type correctness.                                                       *)
(***************************************************************************)

LEMMA StateTyped ==
    ASSUME TypeOK
    PROVE  /\ times \in [Workers -> [Buckets -> List]]
           /\ counters \in [Buckets -> Counter]
           /\ served \in [Workers \cup {"redis"} -> [Buckets -> Grants]]
           /\ \A w \in Workers : times[w] \in [Buckets -> List]
           /\ \A w \in Workers, b \in Buckets : times[w][b] \in List
           /\ \A g \in Workers \cup {"redis"} : served[g] \in [Buckets -> Grants]
           /\ \A g \in Workers \cup {"redis"}, b \in Buckets : served[g][b] \in Grants
  BY DEF TypeOK, List, Counter, Grants

\* A check is of some bucket under one of its limits.
CheckOf(w, b, limit) ==
    CheckRedis(w, b, limit) \/ CheckAlone(w, b, limit) \/ CheckRedisLost(w, b, limit)

LEMMA CheckOfBucket ==
    ASSUME NEW w \in Workers, Check(w)
    PROVE  /\ connected' = connected
           /\ \E b \in Buckets : \E limit \in Limits(b) : limit \in Nat \ {0} /\ CheckOf(w, b, limit)
  <1>1. connected' = connected
    BY DEF Check
  <1>2. PICK q \in Requests : \E tier \in TiersOf(q[1]) :
           CheckOf(w, Bucket(q[1], q[2]), Limit(q[2], tier))
    BY DEF Check, CheckOf
  <1>3. PICK tier \in TiersOf(q[1]) : CheckOf(w, Bucket(q[1], q[2]), Limit(q[2], tier))
    BY <1>2
  <1>4. Bucket(q[1], q[2]) \in Buckets /\ Limit(q[2], tier) \in Limits(Bucket(q[1], q[2]))
    BY DEF Buckets, Limits
  <1>5. Limit(q[2], tier) \in Nat \ {0}
    BY LimitOfRequest
  <1> QED
    BY <1>1, <1>3, <1>4, <1>5

\* What a check does to the times, the counters and the grants.
MemoryRefusal(w, b, limit) ==
    /\ times' = [times EXCEPT ![w] = [times[w] EXCEPT ![b] = Recent(w, b)]]
    /\ UNCHANGED <<checks, served, quiet>>

ServedOneMore(g, b) ==
    /\ served' = [served EXCEPT ![g] =
                     [served[g] EXCEPT ![b] = [age \in InWindow |-> served[g][b][age] + 1]]]
    /\ quiet' = [quiet EXCEPT ![b] = 0]

MemoryGrant(w, b, limit) ==
    /\ Recent(w, b)[Older] < limit
    /\ \E kept : /\ kept = [times[w] EXCEPT ![b] = Appended(Recent(w, b))]
                 /\ times' = [times EXCEPT ![w] = kept] \/ times' = [times EXCEPT ![w] = Swept(kept)]
    /\ \E n \in 0 .. CleanupEvery - 1 : checks' = [checks EXCEPT ![w] = n]
    /\ ServedOneMore(w, b)

LEMMA MemoryChecked ==
    ASSUME TypeOK, NEW w \in Workers, NEW b \in Buckets, NEW limit \in Nat,
           CheckMemory(w, b, limit)
    PROVE  MemoryRefusal(w, b, limit) \/ MemoryGrant(w, b, limit)
  <1>1. CASE RefusedByMemory(w, b, limit)
    BY <1>1 DEF CheckMemory, Refuse, MemoryRefusal
  <1>2. CASE ~RefusedByMemory(w, b, limit)
    <2>1. Grant(w, b)
      BY <1>2 DEF CheckMemory
    <2>2. Recent(w, b)[Older] \in Nat
      BY ListsTyped, StateTyped, Numbers DEF List
    <2>3. Recent(w, b)[Older] < limit
      BY <1>2, <2>2 DEF RefusedByMemory
    <2>4. PICK kept : kept = [times[w] EXCEPT ![b] = Appended(Recent(w, b))]
      OBVIOUS
    <2>5. times' = [times EXCEPT ![w] = IF Sweeps(w) THEN Swept(kept) ELSE kept]
      BY <2>1, <2>4 DEF Grant
    <2>6. times' = [times EXCEPT ![w] = kept] \/ times' = [times EXCEPT ![w] = Swept(kept)]
      BY <2>5
    <2>7. \E n \in 0 .. CleanupEvery - 1 : checks' = [checks EXCEPT ![w] = n]
      <3>1. checks' = [checks EXCEPT ![w] = IF Sweeps(w) THEN 0 ELSE checks[w] + 1]
        BY <2>1 DEF Grant
      <3>2. checks[w] \in 0 .. CleanupEvery - 1
        BY DEF TypeOK
      <3>3. CASE Sweeps(w)
        <4>1. 0 \in 0 .. CleanupEvery - 1 /\ checks' = [checks EXCEPT ![w] = 0]
          BY <3>1, <3>3, Numbers
        <4> QED
          BY <4>1
      <3>4. CASE ~Sweeps(w)
        <4>1. checks[w] + 1 \in 0 .. CleanupEvery - 1
          BY <3>2, <3>4, Numbers DEF Sweeps
        <4> QED
          BY <3>1, <3>4, <4>1
      <3> QED
        BY <3>3, <3>4
    <2>8. ServedOneMore(w, b)
      BY <2>1 DEF Grant, Serve, ServedOneMore
    <2> QED
      BY <2>3, <2>4, <2>6, <2>7, <2>8 DEF MemoryGrant
  <1> QED
    BY <1>1, <1>2

LEMMA ServedTyped ==
    ASSUME TypeOK, NEW g \in Workers \cup {"redis"}, NEW b \in Buckets, ServedOneMore(g, b)
    PROVE  /\ served' \in [Workers \cup {"redis"} -> [Buckets -> Grants]]
           /\ quiet' \in [Buckets -> 0 .. Window]
  <1> DEFINE more == [age \in InWindow |-> served[g][b][age] + 1]
             all == [served[g] EXCEPT ![b] = more]
  <1>1. more \in Grants
    BY StateTyped DEF Grants
  <1> HIDE DEF more
  <1>2. all \in [Buckets -> Grants]
    BY <1>1, StateTyped
  <1>3. served' = [served EXCEPT ![g] = all]
    BY DEF ServedOneMore, more
  <1> HIDE DEF all
  <1>4. served' \in [Workers \cup {"redis"} -> [Buckets -> Grants]]
    BY <1>2, <1>3, StateTyped
  <1>5. quiet' \in [Buckets -> 0 .. Window]
    BY Numbers DEF ServedOneMore, TypeOK
  <1> QED
    BY <1>4, <1>5

LEMMA MemoryTyped ==
    ASSUME TypeOK, NEW w \in Workers, NEW b \in Buckets, NEW limit,
           MemoryRefusal(w, b, limit) \/ MemoryGrant(w, b, limit)
    PROVE  /\ times' \in [Workers -> [Buckets -> List]]
           /\ checks' \in [Workers -> 0 .. CleanupEvery - 1]
           /\ served' \in [Workers \cup {"redis"} -> [Buckets -> Grants]]
           /\ quiet' \in [Buckets -> 0 .. Window]
  <1>1. Recent(w, b) \in List /\ Appended(Recent(w, b)) \in List
    BY ListsTyped, StateTyped
  <1>2. CASE MemoryRefusal(w, b, limit)
    <2>1. PICK kept : kept = [times[w] EXCEPT ![b] = Recent(w, b)]
      OBVIOUS
    <2>2. kept \in [Buckets -> List]
      BY <1>1, <2>1, StateTyped
    <2>3. times' = [times EXCEPT ![w] = kept]
      BY <1>2, <2>1 DEF MemoryRefusal
    <2>4. times' \in [Workers -> [Buckets -> List]]
      BY <2>2, <2>3, StateTyped
    <2>5. checks' = checks /\ served' = served /\ quiet' = quiet
      BY <1>2 DEF MemoryRefusal
    <2> QED
      BY <2>4, <2>5, StateTyped DEF TypeOK
  <1>3. CASE MemoryGrant(w, b, limit)
    <2>1. PICK kept : /\ kept = [times[w] EXCEPT ![b] = Appended(Recent(w, b))]
                      /\ times' = [times EXCEPT ![w] = kept] \/ times' = [times EXCEPT ![w] = Swept(kept)]
      BY <1>3 DEF MemoryGrant
    <2>2. kept \in [Buckets -> List]
      BY <1>1, <2>1, StateTyped
    <2>3. Swept(kept) \in [Buckets -> List]
      BY <2>2, ListsTyped
    <2>4. times' \in [Workers -> [Buckets -> List]]
      BY <2>1, <2>2, <2>3, StateTyped
    <2>5. checks' \in [Workers -> 0 .. CleanupEvery - 1]
      BY <1>3 DEF MemoryGrant, TypeOK
    <2> QED
      BY <1>3, <2>4, <2>5, ServedTyped DEF MemoryGrant
  <1> QED
    BY <1>2, <1>3

\* The counters after INCR, and EXPIRE or not.
LEMMA CounterStep ==
    ASSUME TypeOK, NEW b \in Buckets, NEW life \in {Window, Forever},
           counters' = [counters EXCEPT ![b] = Incremented(b, life)]
    PROVE  /\ counters' \in [Buckets -> Counter]
           /\ \A a \in Buckets : counters'[a].count = 0 <=> counters'[a].left = 0
           /\ counters'[b] = Incremented(b, life)
           /\ \A a \in Buckets : a # b => counters'[a] = counters[a]
  <1>1. counters[b] \in Counter /\ Incremented(b, life) \in Counter
    BY StateTyped, CountersTyped
  <1>2. counters[b].count = 0 <=> counters[b].left = 0
    BY DEF TypeOK
  <1>3. counters[b].count \in Nat
    BY <1>1 DEF Counter
  <1>4. Incremented(b, life).count > 0 /\ Incremented(b, life).left # 0
    BY <1>1, <1>2, <1>3, IncrementedFields, Numbers
  <1>5. Incremented(b, life).count # 0
    BY <1>1, <1>4 DEF Counter
  <1>6. \A a \in Buckets : a # b => counters'[a] = counters[a]
    BY StateTyped
  <1>7. counters'[b] = Incremented(b, life)
    BY StateTyped
  <1>8. counters' \in [Buckets -> Counter]
    BY <1>1, StateTyped
  <1>9. ASSUME NEW a \in Buckets
        PROVE  counters'[a].count = 0 <=> counters'[a].left = 0
    <2>1. CASE a = b
      BY <1>4, <1>5, <1>7, <2>1
    <2>2. CASE a # b
      BY <1>6, <2>2 DEF TypeOK
    <2> QED
      BY <2>1, <2>2
  <1> QED
    BY <1>6, <1>7, <1>8, <1>9

LEMMA TypeCheck ==
    ASSUME TypeOK, NEW w \in Workers, Check(w)
    PROVE  TypeOK'
  <1>1. PICK b \in Buckets : \E limit \in Limits(b) : limit \in Nat \ {0} /\ CheckOf(w, b, limit)
    BY CheckOfBucket
  <1>2. PICK limit \in Limits(b) : limit \in Nat \ {0} /\ CheckOf(w, b, limit)
    BY <1>1
  <1>3. connected' \subseteq Workers
    BY CheckOfBucket DEF TypeOK
  <1>4. \/ counters' = counters
        \/ counters' = [counters EXCEPT ![b] = Incremented(b, Window)]
        \/ counters' = [counters EXCEPT ![b] = Incremented(b, Forever)]
    BY <1>2 DEF CheckOf, CheckRedis, CheckAlone, CheckRedisLost
  <1>5. /\ counters' \in [Buckets -> Counter]
        /\ \A a \in Buckets : counters'[a].count = 0 <=> counters'[a].left = 0
    <2>1. CASE counters' = counters
      BY <2>1, StateTyped DEF TypeOK
    <2>2. CASE counters' # counters
      BY <1>4, <2>2, CounterStep
    <2> QED
      BY <2>1, <2>2
  <1>6. CASE CheckRedis(w, b, limit)
    <2>1. times' = times /\ checks' = checks
      BY <1>6 DEF CheckRedis
    <2>2. \/ served' = served /\ quiet' = quiet
          \/ ServedOneMore("redis", b)
      BY <1>6 DEF CheckRedis, Serve, ServedOneMore
    <2>3. /\ served' \in [Workers \cup {"redis"} -> [Buckets -> Grants]]
          /\ quiet' \in [Buckets -> 0 .. Window]
      BY <2>2, StateTyped, ServedTyped DEF TypeOK
    <2> QED
      BY <1>3, <1>5, <2>1, <2>3 DEF TypeOK, List, Counter, Grants
  <1>7. CASE CheckMemory(w, b, limit)
    <2>1. /\ times' \in [Workers -> [Buckets -> List]]
          /\ checks' \in [Workers -> 0 .. CleanupEvery - 1]
          /\ served' \in [Workers \cup {"redis"} -> [Buckets -> Grants]]
          /\ quiet' \in [Buckets -> 0 .. Window]
      BY <1>2, <1>7, MemoryChecked, MemoryTyped
    <2> QED
      BY <1>3, <1>5, <2>1 DEF TypeOK, List, Counter, Grants
  <1> QED
    BY <1>2, <1>6, <1>7 DEF CheckOf, CheckAlone, CheckRedisLost

LEMMA TypeRestart ==
    ASSUME TypeOK, NEW w \in Workers, Restart(w)
    PROVE  TypeOK'
  <1>1. connected' \subseteq Workers
    BY DEF Restart, TypeOK
  <1>2. times' \in [Workers -> [Buckets -> List]]
    <2>1. PICK kept : kept = [b \in Buckets |-> Unrecorded]
      OBVIOUS
    <2>2. kept \in [Buckets -> List]
      BY <2>1, ListsTyped
    <2>3. times' = [times EXCEPT ![w] = kept]
      BY <2>1 DEF Restart
    <2> QED
      BY <2>2, <2>3, StateTyped
  <1>3. checks' \in [Workers -> 0 .. CleanupEvery - 1]
    BY Numbers DEF Restart, TypeOK
  <1>4. served' \in [Workers \cup {"redis"} -> [Buckets -> Grants]]
    <2>1. Unserved \in [Buckets -> Grants]
      BY DEF Unserved, Grants
    <2> QED
      BY <2>1, StateTyped DEF Restart
  <1>5. counters' = counters /\ quiet' = quiet
    BY DEF Restart
  <1> QED
    BY <1>1, <1>2, <1>3, <1>4, <1>5 DEF TypeOK, List, Grants

LEMMA TypeTick ==
    ASSUME TypeOK, Tick
    PROVE  TypeOK'
  <1>1. times' \in [Workers -> [Buckets -> List]]
    <2>1. ASSUME NEW w \in Workers, NEW b \in Buckets
          PROVE  [age \in Ages |-> IF age = 0 THEN 0
                     ELSE times[w][b][IF age = Older THEN Older ELSE age - 1]] \in List
      <3>1. times[w][b] \in [Ages -> Nat]
        BY StateTyped DEF List
      <3>2. \A age \in Ages : age # 0 => (IF age = Older THEN Older ELSE age - 1) \in Ages
        BY Numbers DEF Ages
      <3> QED
        BY <3>1, <3>2 DEF List
    <2> QED
      BY <2>1 DEF Tick
  <1>2. counters' \in [Buckets -> Counter]
    BY StateTyped, CountersTyped DEF Tick
  <1>3. ASSUME NEW b \in Buckets
        PROVE  counters'[b].count = 0 <=> counters'[b].left = 0
    <2> DEFINE c == counters[b]
    <2>1. c \in Counter /\ c.left \in 0 .. Forever /\ c.count \in Nat /\ counters'[b] = Aged(c)
      BY StateTyped DEF Tick, Counter
    <2>2. c.count = 0 <=> c.left = 0
      BY DEF TypeOK
    <2> HIDE DEF c
    <2>3. CASE c.left \in 2 .. Window
      BY <2>1, <2>2, <2>3, AgedFields
    <2>4. CASE c.left = Forever
      BY <2>1, <2>2, <2>4, AgedFields
    <2>5. CASE c.left \in {0, 1}
      BY <2>1, <2>2, <2>5, AgedFields
    <2> QED
      BY <2>1, <2>3, <2>4, <2>5, Numbers
  <1>4. served' \in [Workers \cup {"redis"} -> [Buckets -> Grants]]
    <2>1. ASSUME NEW g \in Workers \cup {"redis"}, NEW b \in Buckets
          PROVE  [age \in InWindow |-> IF age = 0 THEN 0 ELSE served[g][b][age - 1]] \in Grants
      <3>1. served[g][b] \in [InWindow -> Nat]
        BY StateTyped DEF Grants
      <3>2. \A age \in InWindow : age # 0 => age - 1 \in InWindow
        BY Numbers DEF InWindow
      <3> QED
        BY <3>1, <3>2 DEF Grants
    <2>2. DOMAIN served = Workers \cup {"redis"}
      BY StateTyped
    <2> QED
      BY <2>1, <2>2 DEF Tick
  <1>5. quiet' \in [Buckets -> 0 .. Window]
    BY Numbers DEF Tick, TypeOK
  <1>6. connected' = connected /\ checks' = checks
    BY DEF Tick
  <1> QED
    BY <1>1, <1>2, <1>3, <1>4, <1>5, <1>6 DEF TypeOK, List, Counter, Grants

LEMMA TypeStep ==
    ASSUME TypeOK, [Next]_vars
    PROVE  TypeOK'
  <1>1. CASE UNCHANGED vars
    BY <1>1 DEF vars, TypeOK
  <1> QED
    BY <1>1, TypeCheck, TypeRestart, TypeTick DEF Next

\* Every variable of the rate limiter keeps to its type, and a counter that does
\* not exist has no life.
THEOREM TypeCorrect == Spec => []TypeOK
  <1>1. Init => TypeOK
    <2> SUFFICES ASSUME Init PROVE TypeOK
      OBVIOUS
    <2>1. times \in [Workers -> [Buckets -> List]]
      BY ListsTyped DEF Init
    <2>2. counters \in [Buckets -> Counter] /\ \A b \in Buckets : counters[b] = NoCounter
      BY CountersTyped DEF Init
    <2>3. \A b \in Buckets : counters[b].count = 0 <=> counters[b].left = 0
      BY <2>2, CountersTyped
    <2>4. served \in [Workers \cup {"redis"} -> [Buckets -> Grants]]
      BY DEF Init, Unserved, Grants
    <2>5. connected \subseteq Workers /\ checks \in [Workers -> 0 .. CleanupEvery - 1]
          /\ quiet \in [Buckets -> 0 .. Window]
      BY Numbers DEF Init
    <2> QED
      BY <2>1, <2>2, <2>3, <2>4, <2>5 DEF TypeOK, List, Counter, Grants
  <1> QED
    BY <1>1, TypeStep, PTL DEF Spec

(***************************************************************************)
(* The invariant, step by step.                                            *)
(***************************************************************************)

\* A grant to the bucket by others: its last grant is of now.
LEMMA GrantedElsewhere ==
    ASSUME NEW b \in Buckets, NEW f \in Grants, NEW q \in 0 .. Window
    PROVE  /\ \A list \in List : Listed(b, list, f, q) => Listed(b, list, f, 0)
           /\ \A c \in Counter : Shared(b, c, f, q) => Shared(b, c, f, 0)
  <1>1. \A list \in List : Listed(b, list, f, q) => Listed(b, list, f, 0)
    BY Numbers DEF Listed, Recorded
  <1>2. \A c \in Counter : Shared(b, c, f, q) => Shared(b, c, f, 0)
    BY Numbers DEF Shared
  <1> QED
    BY <1>1, <1>2

LEMMA ServedFields ==
    ASSUME TypeOK, NEW g \in Workers \cup {"redis"}, NEW b \in Buckets, ServedOneMore(g, b)
    PROVE  /\ served'[g][b] = [age \in InWindow |-> served[g][b][age] + 1]
           /\ \A h \in Workers \cup {"redis"}, a \in Buckets :
                 h # g \/ a # b => served'[h][a] = served[h][a]
           /\ quiet'[b] = 0
           /\ \A a \in Buckets : a # b => quiet'[a] = quiet[a]
  <1> DEFINE more == [age \in InWindow |-> served[g][b][age] + 1]
             all == [served[g] EXCEPT ![b] = more]
  <1>1. served' = [served EXCEPT ![g] = all] /\ quiet' = [quiet EXCEPT ![b] = 0]
    BY DEF ServedOneMore
  <1> HIDE DEF more
  <1>2. all[b] = more /\ \A a \in Buckets : a # b => all[a] = served[g][a]
    BY StateTyped
  <1> HIDE DEF all
  <1>3. served'[g] = all /\ \A h \in Workers \cup {"redis"} : h # g => served'[h] = served[h]
    BY <1>1, StateTyped
  <1>4. quiet'[b] = 0 /\ \A a \in Buckets : a # b => quiet'[a] = quiet[a]
    BY <1>1 DEF TypeOK
  <1> QED
    BY <1>2, <1>3, <1>4 DEF more

LEMMA InvRefusal ==
    ASSUME TypeOK, LimitInv, NEW w \in Workers, NEW b \in Buckets, NEW limit,
           MemoryRefusal(w, b, limit)
    PROVE  \A v \in Workers, a \in Buckets : Listed(a, times'[v][a], served'[v][a], quiet'[a])
  <1>1. served' = served /\ quiet' = quiet /\ quiet \in [Buckets -> 0 .. Window]
    BY DEF MemoryRefusal, TypeOK
  <1>2. Listed(b, Recent(w, b), served[w][b], quiet[b])
    <2>1. Listed(b, times[w][b], served[w][b], quiet[b])
      BY DEF LimitInv
    <2>2. times[w][b] \in List /\ served[w][b] \in Grants /\ quiet[b] \in 0 .. Window
      BY <1>1, StateTyped
    <2> QED
      BY <2>1, <2>2, RecentRecorded DEF Listed
  <1>3. PICK kept : kept = [times[w] EXCEPT ![b] = Recent(w, b)]
    OBVIOUS
  <1>4. times' = [times EXCEPT ![w] = kept]
    BY <1>3 DEF MemoryRefusal
  <1>5. kept[b] = Recent(w, b) /\ \A a \in Buckets : a # b => kept[a] = times[w][a]
    BY <1>3, StateTyped
  <1>6. times'[w] = kept /\ \A v \in Workers : v # w => times'[v] = times[v]
    BY <1>4, StateTyped
  <1>7. \A v \in Workers, a \in Buckets : Listed(a, times[v][a], served[v][a], quiet[a])
    BY DEF LimitInv
  <1> SUFFICES ASSUME NEW v \in Workers, NEW a \in Buckets
               PROVE  Listed(a, times'[v][a], served'[v][a], quiet'[a])
    OBVIOUS
  <1>8. CASE v = w /\ a = b
    <2>1. times'[v][a] = Recent(w, b)
      BY <1>5, <1>6, <1>8
    <2> QED
      BY <1>1, <1>2, <1>8, <2>1
  <1>9. CASE ~(v = w /\ a = b)
    <2>1. times'[v][a] = times[v][a]
      BY <1>5, <1>6, <1>9
    <2> QED
      BY <1>1, <1>7, <2>1
  <1> QED
    BY <1>8, <1>9

LEMMA InvGrant ==
    ASSUME TypeOK, LimitInv, NEW w \in Workers, NEW b \in Buckets, NEW limit \in Limits(b),
           MemoryGrant(w, b, limit)
    PROVE  \A v \in Workers, a \in Buckets : Listed(a, times'[v][a], served'[v][a], quiet'[a])
  <1> DEFINE f == served[w][b]
             more == [age \in InWindow |-> f[age] + 1]
  <1>1. /\ times[w][b] \in List /\ f \in Grants /\ quiet \in [Buckets -> 0 .. Window]
        /\ Recent(w, b) \in List /\ Appended(Recent(w, b)) \in List /\ limit \in Nat
        /\ quiet[b] \in 0 .. Window /\ 0 \in 0 .. Window
    BY ListsTyped, StateTyped, LimitsOfBucket, Numbers DEF TypeOK
  <1>2. \A v \in Workers, a \in Buckets : Listed(a, times[v][a], served[v][a], quiet[a])
    BY DEF LimitInv
  <1>3. Recorded(Recent(w, b), f, quiet[b]) /\ Recent(w, b)[Older] = f[Window - 1]
    BY <1>1, <1>2, RecentRecorded DEF Listed
  <1>4. Recorded(Appended(Recent(w, b)), more, 0)
    BY <1>1, <1>3, AppendedRecorded
  <1>5. more \in Grants /\ more[Window - 1] <= limit
    <2>1. f[Window - 1] \in Nat /\ f[Window - 1] < limit
      BY <1>1, <1>3, Numbers DEF MemoryGrant, Grants
    <2>2. more[Window - 1] = f[Window - 1] + 1
      BY Numbers
    <2>3. more \in Grants
      BY <1>1 DEF Grants
    <2> HIDE DEF more, f
    <2> QED
      BY <1>1, <2>1, <2>2, <2>3
  <1>6. PICK kept : /\ kept = [times[w] EXCEPT ![b] = Appended(Recent(w, b))]
                    /\ times' = [times EXCEPT ![w] = kept] \/ times' = [times EXCEPT ![w] = Swept(kept)]
    BY DEF MemoryGrant
  <1>7. kept \in [Buckets -> List] /\ kept[b] = Appended(Recent(w, b))
        /\ \A a \in Buckets : a # b => kept[a] = times[w][a]
    BY <1>1, <1>6, StateTyped
  <1>8. times'[w] \in {kept, Swept(kept)} /\ \A v \in Workers : v # w => times'[v] = times[v]
    BY <1>6, StateTyped
  <1>9. /\ served'[w][b] = more /\ quiet'[b] = 0
        /\ \A v \in Workers, a \in Buckets : v # w \/ a # b => served'[v][a] = served[v][a]
        /\ \A a \in Buckets : a # b => quiet'[a] = quiet[a]
    BY ServedFields DEF MemoryGrant
  <1> HIDE DEF more, f
  <1>10. Listed(b, times'[w][b], served'[w][b], quiet'[b])
    <2>1. Recorded(kept[b], more, 0)
      BY <1>4, <1>7
    <2>2. Recorded(Swept(kept)[b], more, 0)
      BY <1>1, <1>5, <1>7, <2>1, SweptRecorded
    <2>3. Recorded(times'[w][b], more, 0)
      BY <1>8, <2>1, <2>2
    <2> QED
      BY <1>5, <1>9, <2>3 DEF Listed
  <1>11. ASSUME NEW a \in Buckets, a # b
         PROVE  Listed(a, times'[w][a], served'[w][a], quiet'[a])
    <2>1. served'[w][a] = served[w][a] /\ quiet'[a] = quiet[a]
      BY <1>9, <1>11
    <2>2. served[w][a] \in Grants /\ quiet[a] \in 0 .. Window
      BY <1>1, StateTyped
    <2>3. Listed(a, kept[a], served[w][a], quiet[a])
      BY <1>2, <1>7, <1>11
    <2>4. Recorded(Swept(kept)[a], served[w][a], quiet[a])
      BY <1>7, <2>2, <2>3, SweptRecorded DEF Listed
    <2>5. Recorded(times'[w][a], served[w][a], quiet[a])
      BY <1>8, <2>3, <2>4 DEF Listed
    <2> QED
      BY <2>1, <2>3, <2>5 DEF Listed
  <1>12. ASSUME NEW v \in Workers, v # w, NEW a \in Buckets
         PROVE  Listed(a, times'[v][a], served'[v][a], quiet'[a])
    <2>1. served'[v][a] = served[v][a] /\ times'[v][a] = times[v][a]
      BY <1>8, <1>9, <1>12
    <2>2. Listed(a, times[v][a], served[v][a], quiet[a])
      BY <1>2
    <2>3. CASE a # b
      BY <1>9, <2>1, <2>2, <2>3
    <2>4. CASE a = b
      <3>1. times[v][a] \in List /\ served[v][a] \in Grants /\ quiet[a] \in 0 .. Window
        BY <1>1, StateTyped
      <3>2. Listed(a, times[v][a], served[v][a], 0)
        BY <2>2, <3>1, GrantedElsewhere
      <3> QED
        BY <1>9, <2>1, <2>4, <3>2
    <2> QED
      BY <2>3, <2>4
  <1> QED
    BY <1>10, <1>11, <1>12

\* The counters of Redis when a worker checks by its own times: none is made that
\* will end, and no grant is the counter's.
LEMMA InvMemoryCounters ==
    ASSUME TypeOK, LimitInv, NEW w \in Workers, NEW b \in Buckets, NEW limit,
           MemoryRefusal(w, b, limit) \/ MemoryGrant(w, b, limit),
           counters' = counters \/ counters' = [counters EXCEPT ![b] = Incremented(b, Forever)],
           NEW a \in Buckets
    PROVE  Shared(a, counters'[a], served'["redis"][a], quiet'[a])
  <1>1. /\ counters[a] \in Counter /\ served["redis"][a] \in Grants /\ quiet[a] \in 0 .. Window
        /\ quiet \in [Buckets -> 0 .. Window] /\ "redis" \notin Workers
    BY StateTyped, RateLimitAssumption DEF TypeOK
  <1>2. /\ served'["redis"][a] = served["redis"][a]
        /\ quiet'[a] = quiet[a] \/ quiet'[a] = 0
    <2>1. CASE MemoryRefusal(w, b, limit)
      BY <2>1 DEF MemoryRefusal
    <2>2. CASE MemoryGrant(w, b, limit)
      <3>1. ServedOneMore(w, b)
        BY <2>2 DEF MemoryGrant
      <3>2. w \in Workers \cup {"redis"}
        OBVIOUS
      <3>3. /\ \A h \in Workers \cup {"redis"}, c \in Buckets :
                  h # w \/ c # b => served'[h][c] = served[h][c]
            /\ quiet' = [quiet EXCEPT ![b] = 0]
        BY <3>1, <3>2, ServedFields DEF ServedOneMore, Serve
      <3>4. PICK g \in Workers \cup {"redis"} : g = "redis"
        OBVIOUS
      <3>5. served'[g][a] = served[g][a]
        BY <1>1, <3>3, <3>4
      <3>6. quiet'[a] = quiet[a] \/ quiet'[a] = 0
        BY <1>1, <3>3
      <3> QED
        BY <3>4, <3>5, <3>6
    <2> QED
      BY <2>1, <2>2
  <1>3. Shared(a, counters[a], served["redis"][a], quiet[a])
    BY DEF LimitInv
  <1>4. Shared(a, counters'[a], served["redis"][a], quiet[a])
    <2>1. CASE counters' = counters \/ a # b
      BY <1>3, <2>1, CounterStep
    <2>2. CASE counters' # counters /\ a = b
      <3>1. counters'[a] = Incremented(a, Forever)
        BY <2>2, CounterStep
      <3> QED
        BY <1>1, <1>3, <3>1, SharedMore
    <2> QED
      BY <2>1, <2>2
  <1>5. counters'[a] \in Counter
    <2>1. CASE counters' = counters
      BY <1>1, <2>1
    <2>2. CASE counters' # counters
      BY <2>2, CounterStep
    <2> QED
      BY <2>1, <2>2
  <1>6. Shared(a, counters'[a], served["redis"][a], 0)
    BY <1>1, <1>4, <1>5, GrantedElsewhere
  <1> QED
    BY <1>2, <1>4, <1>6

LEMMA InvRedis ==
    ASSUME TypeOK, LimitInv, NEW w \in Workers, NEW b \in Buckets, NEW limit \in Limits(b),
           CheckRedis(w, b, limit)
    PROVE  LimitInv'
  <1>1. /\ counters' = [counters EXCEPT ![b] = Incremented(b, Window)] /\ times' = times
        /\ limit \in Nat \ {0} /\ quiet \in [Buckets -> 0 .. Window]
    BY LimitsOfBucket DEF CheckRedis, TypeOK
  <1>2. \A a \in Buckets : /\ counters[a] \in Counter /\ served["redis"][a] \in Grants
                           /\ quiet[a] \in 0 .. Window /\ counters[a].count \in Nat
                           /\ counters[a].count = 0 <=> counters[a].left = 0
    BY <1>1, StateTyped DEF TypeOK, Counter
  <1>3. /\ counters'[b] = Incremented(b, Window)
        /\ \A a \in Buckets : a # b => counters'[a] = counters[a]
    BY <1>1, CounterStep
  <1>4. \A a \in Buckets : Shared(a, counters[a], served["redis"][a], quiet[a])
    BY DEF LimitInv
  <1>5. \A v \in Workers, a \in Buckets :
           /\ Listed(a, times[v][a], served[v][a], quiet[a])
           /\ times[v][a] \in List /\ served[v][a] \in Grants
    BY StateTyped DEF LimitInv
  <1>6. CASE RefusedByRedis(b, limit)
    <2>1. served' = served /\ quiet' = quiet
      BY <1>6 DEF CheckRedis
    <2>2. counters[b].count > 0
      BY <1>1, <1>2, <1>6 DEF RefusedByRedis
    <2>3. Shared(b, Incremented(b, Window), served["redis"][b], quiet[b])
      BY <1>2, <1>4, <2>2, SharedMore
    <2>4. \A a \in Buckets : Shared(a, counters'[a], served'["redis"][a], quiet'[a])
      BY <1>3, <1>4, <2>1, <2>3
    <2>5. \A v \in Workers, a \in Buckets : Listed(a, times'[v][a], served'[v][a], quiet'[a])
      BY <1>1, <1>5, <2>1
    <2> QED
      BY <2>4, <2>5 DEF LimitInv
  <1>7. CASE ~RefusedByRedis(b, limit)
    <2>1. ServedOneMore("redis", b)
      BY <1>7 DEF CheckRedis, Serve, ServedOneMore
    <2>2. counters[b].count + 1 <= limit
      BY <1>1, <1>2, <1>7 DEF RefusedByRedis
    <2>3. Shared(b, Incremented(b, Window), [age \in InWindow |-> served["redis"][b][age] + 1], 0)
      BY <1>2, <1>4, <2>2, SharedGrant
    <2>4. /\ served'["redis"][b] = [age \in InWindow |-> served["redis"][b][age] + 1]
          /\ \A h \in Workers \cup {"redis"}, a \in Buckets :
                h # "redis" \/ a # b => served'[h][a] = served[h][a]
          /\ quiet'[b] = 0 /\ \A a \in Buckets : a # b => quiet'[a] = quiet[a]
      BY <2>1, ServedFields
    <2>5. Shared(b, counters'[b], served'["redis"][b], quiet'[b])
      BY <1>3, <2>3, <2>4
    <2>6. \A a \in Buckets : a # b => Shared(a, counters'[a], served'["redis"][a], quiet'[a])
      BY <1>3, <1>4, <2>4
    <2>7. ASSUME NEW v \in Workers, NEW a \in Buckets
          PROVE  Listed(a, times'[v][a], served'[v][a], quiet'[a])
      <3>1. served'[v][a] = served[v][a] /\ times'[v][a] = times[v][a]
        BY <1>1, <2>4, RateLimitAssumption
      <3>2. Listed(a, times[v][a], served[v][a], 0)
        BY <1>2, <1>5, GrantedElsewhere
      <3> QED
        BY <1>5, <2>4, <3>1, <3>2
    <2> QED
      BY <2>5, <2>6, <2>7 DEF LimitInv
  <1> QED
    BY <1>6, <1>7

LEMMA InvRestart ==
    ASSUME TypeOK, LimitInv, NEW w \in Workers, Restart(w)
    PROVE  LimitInv'
  <1>1. /\ counters' = counters /\ quiet' = quiet /\ quiet \in [Buckets -> 0 .. Window]
        /\ times' = [times EXCEPT ![w] = [b \in Buckets |-> Unrecorded]]
        /\ served' = [served EXCEPT ![w] = Unserved]
    BY DEF Restart, TypeOK
  <1>2. served'["redis"] = served["redis"]
    BY <1>1, StateTyped, RateLimitAssumption
  <1>3. \A a \in Buckets : Shared(a, counters'[a], served'["redis"][a], quiet'[a])
    BY <1>1, <1>2 DEF LimitInv
  <1>4. ASSUME NEW v \in Workers, NEW a \in Buckets
        PROVE  Listed(a, times'[v][a], served'[v][a], quiet'[a])
    <2>1. CASE v = w
      <3>1. times'[v][a] = Unrecorded /\ served'[v][a] = [age \in InWindow |-> 0]
        BY <1>1, <2>1, StateTyped DEF Unserved
      <3>2. PICK l \in Limits(a) : l \in Nat
        BY LimitsOfBucket
      <3>3. Listed(a, Unrecorded, [age \in InWindow |-> 0], quiet[a])
        BY <3>2, Numbers DEF Listed, Recorded, Unrecorded
      <3> QED
        BY <1>1, <3>1, <3>3
    <2>2. CASE v # w
      BY <1>1, <2>2, StateTyped DEF LimitInv
    <2> QED
      BY <2>1, <2>2
  <1> QED
    BY <1>3, <1>4 DEF LimitInv

LEMMA InvTick ==
    ASSUME TypeOK, LimitInv, Tick
    PROVE  LimitInv'
  <1>1. \A a \in Buckets : quiet[a] \in 0 .. Window /\ quiet'[a] = IF quiet[a] < Window THEN quiet[a] + 1 ELSE Window
    BY DEF TypeOK, Tick
  <1>2. DOMAIN served = Workers \cup {"redis"}
    BY StateTyped
  <1>3. \A g \in Workers \cup {"redis"}, a \in Buckets :
           served'[g][a] = [age \in InWindow |-> IF age = 0 THEN 0 ELSE served[g][a][age - 1]]
    BY <1>2 DEF Tick
  <1>4. ASSUME NEW a \in Buckets
        PROVE  Shared(a, counters'[a], served'["redis"][a], quiet'[a])
    <2>1. /\ counters[a] \in Counter /\ served["redis"][a] \in Grants
          /\ counters[a].count = 0 <=> counters[a].left = 0
          /\ counters'[a] = Aged(counters[a])
      BY StateTyped DEF TypeOK, Tick
    <2>2. Shared(a, counters[a], served["redis"][a], quiet[a])
      BY DEF LimitInv
    <2>3. Shared(a, Aged(counters[a]),
                 [age \in InWindow |-> IF age = 0 THEN 0 ELSE served["redis"][a][age - 1]],
                 IF quiet[a] < Window THEN quiet[a] + 1 ELSE Window)
      BY <1>1, <2>1, <2>2, SharedOlder
    <2> QED
      BY <1>1, <1>3, <2>1, <2>3
  <1>5. ASSUME NEW v \in Workers, NEW a \in Buckets
        PROVE  Listed(a, times'[v][a], served'[v][a], quiet'[a])
    <2> DEFINE list == times[v][a]
               f == served[v][a]
               older == [age \in Ages |-> IF age = 0 THEN 0
                                          ELSE list[IF age = Older THEN Older ELSE age - 1]]
               g == [age \in InWindow |-> IF age = 0 THEN 0 ELSE f[age - 1]]
    <2>1. list \in List /\ f \in Grants /\ Listed(a, list, f, quiet[a])
      BY StateTyped DEF LimitInv
    <2>2. times'[v][a] = older
      BY DEF Tick
    <2>3. served'[v][a] = g
      BY <1>3
    <2>4. Recorded(older, g, quiet'[a])
      <3>1. Recorded(older, g, IF quiet[a] < Window THEN quiet[a] + 1 ELSE Window)
        BY <1>1, <2>1, OlderRecorded DEF Listed
      <3> HIDE DEF older, g
      <3> QED
        BY <1>1, <3>1
    <2>5. \E l \in Limits(a) : g[Window - 1] <= l
      <3>1. Monotone(f, InWindow)
        BY <2>1, Numbers DEF Listed, Recorded, Monotone
      <3>2. g[Window - 1] <= f[Window - 1] /\ g \in Grants
        BY <2>1, <3>1, GrantsOlder, Numbers
      <3>3. PICK l \in Limits(a) : f[Window - 1] <= l
        BY <2>1 DEF Listed
      <3>4. l \in Nat /\ f[Window - 1] \in Nat /\ g[Window - 1] \in Nat
        BY <2>1, <3>2, LimitsOfBucket, Numbers DEF Grants
      <3> HIDE DEF g, f
      <3> QED
        BY <3>2, <3>3, <3>4
    <2> HIDE DEF older, g
    <2> QED
      BY <2>2, <2>3, <2>4, <2>5 DEF Listed
  <1> QED
    BY <1>4, <1>5 DEF LimitInv

LEMMA InvStep ==
    ASSUME TypeOK, LimitInv, [Next]_vars
    PROVE  LimitInv'
  <1>1. CASE UNCHANGED vars
    BY <1>1 DEF vars, LimitInv
  <1>2. ASSUME NEW w \in Workers, Check(w)
        PROVE  LimitInv'
    <2>1. PICK b \in Buckets : \E limit \in Limits(b) : limit \in Nat \ {0} /\ CheckOf(w, b, limit)
      BY <1>2, CheckOfBucket
    <2>2. PICK limit \in Limits(b) : limit \in Nat \ {0} /\ CheckOf(w, b, limit)
      BY <2>1
    <2>3. CASE CheckRedis(w, b, limit)
      BY <2>3, InvRedis
    <2>4. CASE CheckAlone(w, b, limit) \/ CheckRedisLost(w, b, limit)
      <3>1. /\ CheckMemory(w, b, limit)
            /\ counters' = counters \/ counters' = [counters EXCEPT ![b] = Incremented(b, Forever)]
        BY <2>4 DEF CheckAlone, CheckRedisLost
      <3>2. MemoryRefusal(w, b, limit) \/ MemoryGrant(w, b, limit)
        BY <2>2, <3>1, MemoryChecked
      <3>3. \A v \in Workers, a \in Buckets : Listed(a, times'[v][a], served'[v][a], quiet'[a])
        BY <3>2, InvRefusal, InvGrant
      <3>4. \A a \in Buckets : Shared(a, counters'[a], served'["redis"][a], quiet'[a])
        BY <3>1, <3>2, InvMemoryCounters
      <3> QED
        BY <3>3, <3>4 DEF LimitInv
    <2> QED
      BY <2>2, <2>3, <2>4 DEF CheckOf
  <1> QED
    BY <1>1, <1>2, InvRestart, InvTick DEF Next

LEMMA LimitsKept == Spec => []LimitInv
  <1>1. Init => LimitInv
    <2> SUFFICES ASSUME Init PROVE LimitInv
      OBVIOUS
    <2>1. ASSUME NEW w \in Workers, NEW b \in Buckets
          PROVE  Listed(b, times[w][b], served[w][b], quiet[b])
      <3>1. times[w][b] = Unrecorded /\ served[w][b] = [age \in InWindow |-> 0]
        BY DEF Init, Unserved
      <3>2. PICK l \in Limits(b) : l \in Nat
        BY LimitsOfBucket
      <3>3. Listed(b, Unrecorded, [age \in InWindow |-> 0], quiet[b])
        BY <3>2, Numbers DEF Listed, Recorded, Unrecorded
      <3> QED
        BY <3>1, <3>3
    <2>2. ASSUME NEW b \in Buckets
          PROVE  Shared(b, counters[b], served["redis"][b], quiet[b])
      <3> DEFINE f == [age \in InWindow |-> 0]
      <3>1. counters[b] = NoCounter /\ served["redis"][b] = f
        BY DEF Init, Unserved
      <3>2. PICK l \in Limits(b) : l \in Nat
        BY LimitsOfBucket
      <3>3. f[0] = 0 /\ f[Window - 1] = 0 /\ \A i, j \in InWindow : f[i] <= f[j]
        BY Numbers
      <3>4. NoCounter.count = 0 /\ ~(NoCounter.left \in 1 .. Window)
        BY CountersTyped
      <3> HIDE DEF f
      <3>5. Shares(NoCounter, f, 0, l)
        BY <3>2, <3>3, <3>4 DEF Shares
      <3>6. Shared(b, NoCounter, f, quiet[b])
        BY <3>2, <3>3, <3>4, <3>5 DEF Shared
      <3> QED
        BY <3>1, <3>6
    <2> QED
      BY <2>1, <2>2 DEF LimitInv
  <1> QED
    BY <1>1, InvStep, TypeCorrect, PTL DEF Spec

(***************************************************************************)
(* The theorems.                                                           *)
(***************************************************************************)

\* One run of a worker grants by its own times no more requests of a bucket in any
\* Window than the largest limit that applies to the bucket.
THEOREM WorkersKeepLimits == Spec => []WorkerWindow
  <1>1. LimitInv => WorkerWindow
    BY DEF LimitInv, Listed, WorkerWindow, Served
  <1> QED
    BY <1>1, LimitsKept, PTL

\* A counter in Redis lets at most twice the limit through in a Window.
THEOREM CountersKeepLimits == Spec => []RedisWindow
  <1>1. TypeOK /\ LimitInv => RedisWindow
    <2> SUFFICES ASSUME TypeOK, LimitInv, NEW b \in Buckets
                 PROVE  \E limit \in Limits(b) : Served("redis", b) <= 2 * limit
      BY DEF RedisWindow
    <2> DEFINE n == served["redis"][b][Window - 1]
    <2>1. PICK l \in Limits(b), k \in Nat : Shares(counters[b], served["redis"][b], k, l)
      BY DEF LimitInv, Shared
    <2>2. k <= l /\ n <= k + l
      BY <2>1 DEF Shares
    <2>3. l \in Nat /\ n \in Nat
      BY StateTyped, LimitsOfBucket, Numbers DEF Grants
    <2> HIDE DEF n
    <2>4. n <= 2 * l
      BY <2>2, <2>3
    <2> QED
      BY <2>4 DEF Served, n
  <1> QED
    BY <1>1, LimitsKept, TypeCorrect, PTL

\* A bucket is refused only if it was granted something in the last Window, as
\* long as the EXPIRE of its counter was not lost.
THEOREM RefusalsDoEnd == Spec => []RefusalsEnd
  <1>1. TypeOK /\ LimitInv => RefusalsEnd
    <2> SUFFICES ASSUME TypeOK, LimitInv, NEW w \in Workers, NEW b \in Buckets,
                        NEW limit \in Limits(b),
                        \/ RefusedByMemory(w, b, limit)
                        \/ RefusedByRedis(b, limit) /\ counters[b].left # Forever
                 PROVE  quiet[b] < Window
      BY DEF RefusalsEnd
    <2>1. /\ limit \in Nat \ {0} /\ quiet[b] \in 0 .. Window /\ counters[b] \in Counter
          /\ times[w][b] \in List /\ served[w][b] \in Grants
      BY StateTyped, LimitsOfBucket DEF TypeOK
    <2>2. CASE RefusedByMemory(w, b, limit)
      <3>1. Recorded(times[w][b], served[w][b], quiet[b])
        BY DEF LimitInv, Listed
      <3>2. /\ Recorded(Recent(w, b), served[w][b], quiet[b])
            /\ Recent(w, b)[Older] = served[w][b][Window - 1]
        BY <2>1, <3>1, RecentRecorded
      <3>3. served[w][b][Window - 1] = times[w][b][Window - 1]
        BY <3>1, Numbers DEF Recorded
      <3>4. times[w][b][Window - 1] \in Nat /\ times[w][b][Window - 1] # 0
        BY <2>1, <2>2, <3>2, <3>3, Numbers DEF RefusedByMemory, List
      <3>5. ~(Window - 1 < quiet[b])
        BY <3>1, <3>4, Numbers DEF Recorded
      <3> QED
        BY <2>1, <3>5, Numbers
    <2>3. CASE RefusedByRedis(b, limit) /\ counters[b].left # Forever
      <3>1. counters[b].count \in Nat /\ counters[b].left \in 0 .. Forever
        BY <2>1 DEF Counter
      <3>2. counters[b].count # 0
        BY <2>1, <2>3, <3>1 DEF RefusedByRedis
      <3>3. counters[b].left \in 1 .. Window
        BY <2>3, <3>1, <3>2, Numbers DEF TypeOK
      <3>4. quiet[b] + counters[b].left <= Window
        BY <3>3 DEF LimitInv, Shared
      <3> QED
        BY <2>1, <3>3, <3>4, Numbers
    <2> QED
      BY <2>2, <2>3
  <1> QED
    BY <1>1, LimitsKept, TypeCorrect, PTL
=============================================================================
