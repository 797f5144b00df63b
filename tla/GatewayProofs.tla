--------------------------- MODULE GatewayProofs ----------------------------
(***************************************************************************)
(* What calls share is kept right for any number of calls and keys, any    *)
(* kinds of calls and any pool: one holder of each lock, and a usage that  *)
(* is never overcounted, and exact unless calls were recorded at once.     *)
(***************************************************************************)
EXTENDS Gateway, FiniteSetTheorems, TLAPS

(***************************************************************************)
(* Type correctness.                                                       *)
(***************************************************************************)

\* Before a call is recorded, it moves on and leaves the usage alone.
Moves(c) ==
    \/ Authenticate(c) \/ Admit(c) \/ Revoke(c) \/ Block(c)
    \/ Ask(c) \/ Answer(c) \/ PassUnrecorded(c) \/ Fail(c)

LEMMA MovesKeep ==
    ASSUME NEW c \in Calls, Moves(c)
    PROVE  /\ \E s \in Steps : GoTo(c, s)
           /\ step[c] \notin {"done", "failed"}
           /\ active' \subseteq active
           /\ UNCHANGED <<sqlite, kind, seen, usage, wrote, raced>>
  BY DEF Moves, Authenticate, Admit, Revoke, Block, Ask, Answer, PassUnrecorded, Fail, GoTo, Steps

LEMMA NextCases ==
    ASSUME Next
    PROVE  \E c \in Calls : Moves(c) \/ Count(c) \/ Record(c)
  BY DEF Next, Progress, Moves

LEMMA CountKeeps ==
    ASSUME NEW c \in Calls, Count(c)
    PROVE  /\ GoTo(c, "counted") /\ "counted" \in Steps
           /\ step[c] = "answered"
           /\ UNCHANGED <<sqlite, kind, active, usage, wrote, raced>>
  BY DEF Count, GoTo, Steps

\* What the query for the day's row returns.
LEMMA CountReads ==
    ASSUME TypeOK
    PROVE  \/ Len(usage) = 0 /\ Selected = 0
           \/ Len(usage) = 1 /\ Selected = usage[1] /\ usage[1] \in Nat \ {0}
           \/ Len(usage) > 1 /\ Selected = None
  <1>1. usage \in Seq(Nat \ {0})
    BY DEF TypeOK
  <1>2. Len(usage) \in Nat
    BY <1>1
  <1> Len(usage) = 0 <=> usage = <<>>
    BY <1>1
  <1>3. CASE Len(usage) = 0
    BY <1>2, <1>3 DEF Selected
  <1>4. CASE Len(usage) = 1
    <2>1. usage # <<>>
      BY <1>2, <1>4
    <2>2. Selected = usage[1]
      BY <1>4, <2>1 DEF Selected
    <2> QED
      BY <1>1, <1>4, <2>2
  <1>5. CASE Len(usage) > 1
    <2>1. Len(usage) # 1 /\ Len(usage) # 0
      BY <1>2, <1>5, \A n \in Nat : n > 1 => n # 1 /\ n # 0
    <2>2. usage # <<>>
      BY <1>2, <2>1
    <2> QED
      BY <1>5, <2>1, <2>2 DEF Selected
  <1>6. Len(usage) = 0 \/ Len(usage) = 1 \/ Len(usage) > 1
    BY <1>2, \A n \in Nat : n = 0 \/ n = 1 \/ n > 1
  <1> QED
    BY <1>3, <1>4, <1>5, <1>6

\* Recording inserts a row or sets the first one.
LEMMA RecordWrites ==
    ASSUME TypeOK, NEW c \in Calls, Record(c),
           seen[c] \in Nat /\ seen[c] > 0 => usage # <<>>
    PROVE  /\ seen[c] \in Nat
           /\ usage' \in Seq(Nat \ {0})
           /\ \/ /\ seen[c] = 0
                 /\ Len(usage') = Len(usage) + 1
                 /\ usage'[Len(usage) + 1] = 1
                 /\ \A i \in 1..Len(usage) : usage'[i] = usage[i]
                 /\ wrote' = [wrote EXCEPT ![c] = Len(usage) + 1]
              \/ /\ seen[c] > 0
                 /\ Len(usage') = Len(usage)
                 /\ Len(usage) > 0
                 /\ usage'[1] = seen[c] + 1
                 /\ \A i \in 2..Len(usage) : usage'[i] = usage[i]
                 /\ wrote' = [wrote EXCEPT ![c] = 1]
  <1>1. seen[c] \in Nat /\ usage \in Seq(Nat \ {0})
    <2>1. seen[c] # None
      BY DEF Record
    <2>2. seen[c] \in Nat \cup {None} /\ usage \in Seq(Nat \ {0})
      BY DEF TypeOK
    <2> QED
      BY <2>1, <2>2
  <1>2. CASE seen[c] = 0
    BY <1>1, <1>2 DEF Record, Recorded
  <1>3. CASE seen[c] > 0
    <2>1. usage' = [usage EXCEPT ![1] = seen[c] + 1]
      BY <1>1, <1>3 DEF Record, Recorded
    <2>2. Len(usage) > 0
      BY <1>1, <1>3
    <2>3. wrote' = [wrote EXCEPT ![c] = 1]
      <3>1. seen[c] # 0
        BY <1>1, <1>3
      <3> QED
        BY <3>1 DEF Record
    <2>4. /\ usage' \in Seq(Nat \ {0}) /\ Len(usage') = Len(usage)
          /\ usage'[1] = seen[c] + 1
          /\ \A i \in 2..Len(usage) : usage'[i] = usage[i]
      BY <1>1, <1>3, <2>1, <2>2
    <2> QED
      BY <1>1, <1>3, <2>2, <2>3, <2>4
  <1> QED
    BY <1>1, <1>2, <1>3

LEMMA TypeStep ==
    ASSUME TypeOK, [Next]_vars,
           \A c \in Calls : seen[c] \in Nat /\ seen[c] > 0 => usage # <<>>
    PROVE  TypeOK'
  <1>1. CASE UNCHANGED vars
    BY <1>1 DEF TypeOK, vars
  <1>2. ASSUME NEW c \in Calls, Moves(c)
        PROVE  TypeOK'
    BY <1>2, MovesKeep DEF TypeOK, GoTo
  <1>3. ASSUME NEW c \in Calls, Count(c)
        PROVE  TypeOK'
    <2>1. Selected \in Nat \cup {None}
      BY CountReads
    <2>2. seen' \in [Calls -> Nat \cup {None}]
      BY <1>3, <2>1 DEF Count, TypeOK
    <2>3. step' \in [Calls -> Steps]
      BY <1>3 DEF Count, TypeOK, GoTo, Steps
    <2> QED
      BY <1>3, <2>2, <2>3 DEF Count, TypeOK
  <1>4. ASSUME NEW c \in Calls, Record(c)
        PROVE  TypeOK'
    <2>1. step' \in [Calls -> Steps] /\ raced' \in BOOLEAN
      BY <1>4 DEF Record, TypeOK, GoTo, Steps
    <2>2. usage' \in Seq(Nat \ {0}) /\ Len(usage) \in Nat /\ Len(usage') \in Nat
      BY <1>4, RecordWrites DEF TypeOK
    <2>3. /\ Len(usage') >= Len(usage)
          /\ \E n \in 0..Len(usage') : wrote' = [wrote EXCEPT ![c] = n]
      BY <1>4, <2>2, RecordWrites
    <2>4. wrote \in [Calls -> 0..Len(usage')]
      BY <2>2, <2>3 DEF TypeOK
    <2>5. wrote' \in [Calls -> 0..Len(usage')]
      BY <2>3, <2>4
    <2> QED
      BY <1>4, <2>1, <2>2, <2>5 DEF Record, TypeOK
  <1> QED
    BY <1>1, <1>2, <1>3, <1>4, NextCases

(***************************************************************************)
(* What is recorded is the calls' own: the count a call has read is never  *)
(* more than the calls recorded in the first row.                          *)
(***************************************************************************)
Recording ==
    /\ TypeOK
    /\ NeverOvercounted
    /\ \A c \in Calls :
          /\ step[c] # "done" => wrote[c] = 0
          /\ seen[c] \in Nat => seen[c] <= Cardinality(RecordedIn(1))
          /\ seen[c] \in Nat /\ seen[c] > 0 => usage # <<>>

At(f, i) == {c \in Calls : f[c] = i}

LEMMA RecordedFinite ==
    ASSUME NEW f, NEW i
    PROVE  IsFiniteSet(At(f, i)) /\ Cardinality(At(f, i)) \in Nat
  BY FS_Subset, FS_CardinalityType, GatewayAssumption DEF At

\* A call that is recorded joins those of one row and leaves the others.
LEMMA RecordJoins ==
    ASSUME NEW f \in [Calls -> Nat], NEW c \in Calls, NEW n \in Nat \ {0},
           f[c] = 0
    PROVE  LET g == [f EXCEPT ![c] = n]
           IN  /\ Cardinality(At(g, n)) = Cardinality(At(f, n)) + 1
               /\ \A i \in Nat \ {0, n} : At(g, i) = At(f, i)
  <1> DEFINE g == [f EXCEPT ![c] = n]
  <1>1. At(g, n) = At(f, n) \cup {c} /\ c \notin At(f, n)
    BY DEF At
  <1>2. Cardinality(At(g, n)) = Cardinality(At(f, n)) + 1
    BY <1>1, FS_AddElement, RecordedFinite
  <1>3. ASSUME NEW i \in Nat \ {0, n}
        PROVE  At(g, i) = At(f, i)
    BY DEF At
  <1> QED
    BY <1>2, <1>3

LEMMA RecordedAt ==
    /\ \A i : RecordedIn(i) = At(wrote, i)
    /\ \A i : RecordedIn(i)' = At(wrote', i)
  BY DEF RecordedIn, At

\* The counts when a call is recorded.
LEMMA RecordCounts ==
    ASSUME Recording, NEW c \in Calls, Record(c)
    PROVE  /\ \A i \in DOMAIN usage' : usage'[i] <= Cardinality(At(wrote', i))
           /\ Cardinality(At(wrote, 1)) <= Cardinality(At(wrote', 1))
           /\ usage' # <<>>
           /\ wrote' = [wrote EXCEPT ![c] = wrote'[c]]
  <1>1. /\ TypeOK
        /\ wrote[c] = 0
        /\ seen[c] \in Nat => seen[c] <= Cardinality(At(wrote, 1))
        /\ seen[c] \in Nat /\ seen[c] > 0 => usage # <<>>
    BY RecordedAt DEF Recording, Record
  <1>2. seen[c] \in Nat /\ usage' \in Seq(Nat \ {0})
    BY <1>1, RecordWrites
  <1>3. /\ usage \in Seq(Nat \ {0})
        /\ wrote \in [Calls -> Nat]
    BY <1>1 DEF TypeOK
  <1>4. \A i \in 1..Len(usage) : usage[i] <= Cardinality(At(wrote, i))
    BY <1>3, RecordedAt DEF Recording, NeverOvercounted
  <1>5. Len(usage) \in Nat /\ DOMAIN usage' = 1..Len(usage')
    BY <1>2, <1>3
  <1>6. CASE /\ seen[c] = 0
             /\ Len(usage') = Len(usage) + 1
             /\ usage'[Len(usage) + 1] = 1
             /\ \A j \in 1..Len(usage) : usage'[j] = usage[j]
             /\ wrote' = [wrote EXCEPT ![c] = Len(usage) + 1]
    <2> DEFINE n == Len(usage) + 1
    <2>1. n \in Nat \ {0}
      BY <1>5
    <2>2. /\ Cardinality(At(wrote', n)) = Cardinality(At(wrote, n)) + 1
          /\ \A i \in Nat \ {0, n} : At(wrote', i) = At(wrote, i)
      <3>1. wrote' = [wrote EXCEPT ![c] = n]
        BY <1>6
      <3>2. wrote[c] = 0 /\ wrote \in [Calls -> Nat]
        BY <1>1, <1>3
      <3> HIDE DEF n
      <3> QED
        BY <2>1, <3>1, <3>2, RecordJoins
    <2>3. \A i : Cardinality(At(wrote, i)) \in Nat
      BY RecordedFinite
    <2>4. ASSUME NEW i \in 1..Len(usage)
          PROVE  usage'[i] <= Cardinality(At(wrote', i))
      <3>1. i \in Nat \ {0, n} /\ usage'[i] = usage[i]
        BY <1>5, <1>6
      <3>2. At(wrote', i) = At(wrote, i)
        BY <2>2, <3>1
      <3> QED
        BY <1>4, <3>1, <3>2
    <2>5. usage'[n] <= Cardinality(At(wrote', n))
      BY <1>6, <2>2, <2>3
    <2>6. Cardinality(At(wrote, 1)) <= Cardinality(At(wrote', 1))
      BY <1>5, <2>1, <2>2, <2>3
    <2>7. DOMAIN usage' = 1..Len(usage) \cup {n} /\ usage' # <<>>
      BY <1>2, <1>5, <1>6
    <2>8. wrote' = [wrote EXCEPT ![c] = wrote'[c]]
      BY <1>3, <1>6
    <2> QED
      BY <2>4, <2>5, <2>6, <2>7, <2>8
  <1>7. CASE /\ seen[c] > 0
             /\ Len(usage') = Len(usage)
             /\ Len(usage) > 0
             /\ usage'[1] = seen[c] + 1
             /\ \A j \in 2..Len(usage) : usage'[j] = usage[j]
             /\ wrote' = [wrote EXCEPT ![c] = 1]
    <2>1. /\ Cardinality(At(wrote', 1)) = Cardinality(At(wrote, 1)) + 1
          /\ \A i \in Nat \ {0, 1} : At(wrote', i) = At(wrote, i)
      <3> DEFINE first == 1
      <3>1. first \in Nat \ {0} /\ wrote' = [wrote EXCEPT ![c] = first]
        BY <1>7
      <3>2. wrote[c] = 0 /\ wrote \in [Calls -> Nat]
        BY <1>1, <1>3
      <3> HIDE DEF first
      <3>3. /\ Cardinality(At(wrote', first)) = Cardinality(At(wrote, first)) + 1
            /\ \A i \in Nat \ {0, first} : At(wrote', i) = At(wrote, i)
        BY <3>1, <3>2, RecordJoins
      <3> QED
        BY <3>3 DEF first
    <2>2. Cardinality(At(wrote, 1)) \in Nat
      BY RecordedFinite
    <2>3. ASSUME NEW i \in 2..Len(usage)
          PROVE  usage'[i] <= Cardinality(At(wrote', i))
      <3>1. i \in Nat \ {0, 1} /\ i \in 1..Len(usage) /\ usage'[i] = usage[i]
        BY <1>5, <1>7
      <3>2. At(wrote', i) = At(wrote, i)
        BY <2>1, <3>1
      <3> QED
        BY <1>4, <3>1, <3>2
    <2>4. usage'[1] <= Cardinality(At(wrote', 1))
      BY <1>1, <1>2, <1>7, <2>1, <2>2
    <2>5. \A i \in DOMAIN usage' : i = 1 \/ i \in 2..Len(usage)
      BY <1>5, <1>7
    <2>6. usage' # <<>>
      BY <1>5, <1>7
    <2>7. wrote' = [wrote EXCEPT ![c] = wrote'[c]]
      BY <1>3, <1>7
    <2> QED
      BY <2>1, <2>2, <2>3, <2>4, <2>5, <2>6, <2>7
  <1> QED
    BY <1>1, <1>6, <1>7, RecordWrites

LEMMA RecordKeeps ==
    ASSUME Recording, NEW c \in Calls, Record(c), TypeOK'
    PROVE  Recording'
  <1>1. /\ seen' = seen
        /\ step' = [step EXCEPT ![c] = "done"]
    BY DEF Record, GoTo
  <1>2. ASSUME NEW d \in Calls, step'[d] # "done"
        PROVE  wrote'[d] = 0
    <2>1. d # c /\ step[d] # "done"
      BY <1>1, <1>2 DEF Recording, TypeOK
    <2>2. wrote'[d] = wrote[d]
      BY <2>1, RecordCounts DEF Recording, TypeOK
    <2> QED
      BY <2>1, <2>2 DEF Recording
  <1>3. NeverOvercounted'
    BY RecordCounts, RecordedAt DEF NeverOvercounted
  <1>4. ASSUME NEW d \in Calls, seen'[d] \in Nat
        PROVE  seen'[d] <= Cardinality(RecordedIn(1)')
    <2>1. seen[d] <= Cardinality(At(wrote, 1))
      BY <1>1, <1>4, RecordedAt DEF Recording
    <2>2. Cardinality(At(wrote, 1)) \in Nat /\ Cardinality(At(wrote', 1)) \in Nat
      BY RecordedFinite
    <2>3. seen'[d] <= Cardinality(At(wrote', 1))
      BY <1>1, <1>4, <2>1, <2>2, RecordCounts
    <2> QED
      BY <2>3, RecordedAt
  <1> QED
    BY <1>2, <1>3, <1>4, RecordCounts DEF Recording

LEMMA RecordingStep ==
    ASSUME Recording, [Next]_vars
    PROVE  Recording'
  <1>1. TypeOK'
    BY TypeStep DEF Recording
  <1> USE DEF Recording
  <1>2. CASE UNCHANGED vars
    BY <1>1, <1>2 DEF vars, NeverOvercounted, RecordedIn
  <1>3. ASSUME NEW c \in Calls, Moves(c)
        PROVE  Recording'
    <2>1. NeverOvercounted' /\ RecordedIn(1)' = RecordedIn(1)
      BY <1>3, MovesKeep DEF NeverOvercounted, RecordedIn
    <2>2. ASSUME NEW d \in Calls, step'[d] # "done"
          PROVE  wrote'[d] = 0
      BY <1>3, <2>2, MovesKeep DEF GoTo, TypeOK
    <2> QED
      BY <1>1, <1>3, <2>1, <2>2, MovesKeep
  <1>4. ASSUME NEW c \in Calls, Count(c)
        PROVE  Recording'
    <2>1. NeverOvercounted' /\ RecordedIn(1)' = RecordedIn(1)
      BY <1>4 DEF Count, NeverOvercounted, RecordedIn
    <2>2. ASSUME NEW d \in Calls, step'[d] # "done"
          PROVE  wrote'[d] = 0
      BY <1>4, <2>2 DEF Count, GoTo, TypeOK
    <2>3. ASSUME Selected \in Nat
          PROVE  /\ Selected <= Cardinality(RecordedIn(1))
                 /\ Selected > 0 => usage # <<>>
      <3>1. CASE Len(usage) = 0 /\ Selected = 0
        BY <3>1, RecordedFinite, RecordedAt
      <3>2. CASE Len(usage) = 1 /\ Selected = usage[1]
        <4>1. usage # <<>>
          BY <3>2
        <4>2. usage \in Seq(Nat \ {0})
          BY DEF TypeOK
        <4>3. 1 \in DOMAIN usage
          BY <3>2, <4>2
        <4> QED
          BY <3>2, <4>1, <4>3 DEF NeverOvercounted
      <3>3. Selected # None
        BY <2>3, GatewayAssumption
      <3> QED
        BY <3>1, <3>2, <3>3, CountReads
    <2>4. /\ seen' = [seen EXCEPT ![c] = Selected]
          /\ usage' = usage
      BY <1>4 DEF Count
    <2>5. ASSUME NEW d \in Calls, seen'[d] \in Nat
          PROVE  /\ seen'[d] <= Cardinality(RecordedIn(1))
                 /\ seen'[d] > 0 => usage # <<>>
      BY <2>3, <2>4, <2>5 DEF TypeOK
    <2> QED
      BY <1>1, <2>1, <2>2, <2>4, <2>5
  <1>5. ASSUME NEW c \in Calls, Record(c)
        PROVE  Recording'
    BY <1>1, <1>5, RecordKeeps
  <1> QED
    BY <1>2, <1>3, <1>4, <1>5, NextCases

LEMMA Recordings == Spec => []Recording
  <1>1. Init => Recording
    <2> SUFFICES ASSUME Init
                 PROVE  Recording
      OBVIOUS
    <2>1. TypeOK
      <3>1. Len(usage) = 0 /\ usage \in Seq(Nat \ {0})
        BY DEF Init
      <3> QED
        <4>1. wrote \in [Calls -> 0..Len(usage)]
          BY <3>1 DEF Init
        <4> QED
          BY <3>1, <4>1 DEF Init, TypeOK, Steps
    <2>2. NeverOvercounted
      BY DEF Init, NeverOvercounted
    <2> QED
      BY <2>1, <2>2, RecordedFinite, RecordedAt DEF Recording, Init
  <1> QED
    BY <1>1, RecordingStep, PTL DEF Spec

\* Every reachable state is well typed, for any calls, keys, kinds and pool.
THEOREM TypeCorrect == Spec => []TypeOK
  <1>1. Recording => TypeOK
    BY DEF Recording
  <1> QED
    BY <1>1, Recordings, PTL

\* No row of the day counts a call that was not recorded in it (record_usage).
THEOREM UsageNotOvercounted == Spec => []NeverOvercounted
  <1>1. Recording => NeverOvercounted
    BY DEF Recording
  <1> QED
    BY <1>1, Recordings, PTL

(***************************************************************************)
(* The locks.                                                              *)
(***************************************************************************)

\* Only a call that is admitted comes to hold its key.
LEMMA HoldersStay ==
    ASSUME TypeOK, [Next]_vars, NEW c \in Calls, HoldsKey(c)', ~Admit(c)
    PROVE  HoldsKey(c)
  <1>1. CASE UNCHANGED vars
    BY <1>1 DEF vars, HoldsKey, Mode, Key
  <1>2. ASSUME NEW d \in Calls, \/ Authenticate(d) \/ Admit(d) \/ Revoke(d) \/ Block(d) \/ Ask(d)
                                \/ Answer(d) \/ PassUnrecorded(d) \/ Fail(d) \/ Count(d) \/ Record(d)
        PROVE  HoldsKey(c)
    <2>1. kind' = kind
      BY <1>2 DEF Authenticate, Admit, Revoke, Block, Ask, Answer, PassUnrecorded, Fail, Count, Record
    <2>2. CASE d # c
      <3>1. step'[c] = step[c]
        BY <1>2, <2>2 DEF Authenticate, Admit, Revoke, Block, Ask, Answer, PassUnrecorded, Fail, Count, Record, GoTo, TypeOK
      <3> QED
        BY <2>1, <3>1 DEF HoldsKey, Mode, Key
    <2>3. CASE d = c
      <3>1. CASE Ask(c) \/ Answer(c) \/ Count(c)
        BY <2>1, <3>1 DEF Ask, Answer, Count, GoTo, TypeOK, HoldsKey, Mode, Key
      <3>2. CASE Authenticate(c) \/ Revoke(c) \/ Block(c) \/ PassUnrecorded(c) \/ Fail(c) \/ Record(c)
        <4>1. step'[c] \in {"selected", "done", "failed"}
          BY <3>2 DEF Authenticate, Revoke, Block, PassUnrecorded, Fail, Record, GoTo, TypeOK
        <4> QED
          BY <4>1 DEF HoldsKey
      <3> QED
        BY <1>2, <2>3, <3>1, <3>2
    <2> QED
      BY <2>2, <2>3
  <1> QED
    BY <1>1, <1>2 DEF Next, Progress

\* No two calls hold the key of one, or on SQLite any: a second blocking call with
\* the key is not admitted, and the key not revoked, while one is at the provider
\* (_validate_api_key, _blocking_response).
THEOREM KeysHeldOneByOne == Spec => []KeyCallsOneByOne
  <1>1. Init => KeyCallsOneByOne
    BY DEF Init, KeyCallsOneByOne, HoldsKey
  <1>2. TypeOK /\ KeyCallsOneByOne /\ [Next]_vars => KeyCallsOneByOne'
    <2> SUFFICES ASSUME TypeOK, KeyCallsOneByOne, [Next]_vars,
                        NEW c \in Calls, NEW d \in Calls, c # d, HoldsKey(c)', HoldsKey(d)'
                 PROVE  (~sqlite /\ Key(c) # Key(d))'
      BY DEF KeyCallsOneByOne
    <2>1. sqlite' = sqlite /\ kind' = kind
      BY NextCases, MovesKeep DEF Count, Record, vars
    <2>2. ASSUME NEW a \in Calls, NEW b \in Calls, a # b, Admit(a), HoldsKey(a)', HoldsKey(b)'
          PROVE  ~sqlite /\ Key(a) # Key(b)
      <3>1. HoldsKey(b)
        BY <2>1, <2>2 DEF Admit, GoTo, HoldsKey, Mode, Key, TypeOK
      <3>2. Key(a) # None /\ MayWriteKey(a)
        BY <2>1, <2>2 DEF Admit, HoldsKey, Key
      <3> QED
        BY <2>2, <3>1, <3>2 DEF MayWriteKey, MayWrite, Writing
    <2>3. CASE Admit(c)
      BY <2>1, <2>2, <2>3 DEF Key
    <2>4. CASE Admit(d)
      BY <2>1, <2>2, <2>4 DEF Key
    <2>5. CASE ~Admit(c) /\ ~Admit(d)
      BY <2>1, <2>5, HoldersStay DEF KeyCallsOneByOne, Key
    <2> QED
      BY <2>3, <2>4, <2>5
  <1> QED
    BY <1>1, <1>2, TypeCorrect, PTL DEF Spec

(***************************************************************************)
(* Exact usage.                                                            *)
(***************************************************************************)

\* Unless calls were recorded at once, a call about to be recorded has read the
\* count as it is.
Exactness ==
    /\ UsageExact
    /\ \A c \in Calls : Mode(c) = "revoke" =>
          step[c] \in {"new", "selected", "done", "failed"}
    /\ ~raced => \A c \in Calls : step[c] = "counted" =>
          \/ usage = <<>> /\ seen[c] = 0
          \/ usage # <<>> /\ seen[c] = usage[1]

\* What a step that records no call must leave as it is.
LEMMA ExactnessKept ==
    ASSUME Recording, Recording', Exactness,
           UNCHANGED <<sqlite, kind, usage, wrote, raced>>,
           NEW c \in Calls, NEW s \in Steps, GoTo(c, s),
           s = "done" => Mode(c) = "revoke",
           Mode(c) = "revoke" => s \in {"selected", "done", "failed"},
           \A d \in Calls \ {c} : seen'[d] = seen[d],
           s = "counted" /\ ~raced => \/ usage = <<>> /\ seen'[c] = 0
                                      \/ usage # <<>> /\ seen'[c] = usage[1]
    PROVE  Exactness'
  <1>1. step' = [step EXCEPT ![c] = s] /\ step \in [Calls -> Steps]
    BY DEF GoTo, Recording, TypeOK
  <1>2. \A d \in Calls : Mode(d)' = Mode(d) /\ Key(d)' = Key(d)
    BY DEF Mode, Key
  <1>3. CountsUnderLock' = CountsUnderLock /\ RecordedIn(1)' = RecordedIn(1)
    BY DEF CountsUnderLock, RecordedIn, Mode, Key
  <1>4. ASSUME NEW d \in Calls, step'[d] = "done", Mode(d) # "revoke"
        PROVE  step[d] = "done"
    BY <1>1, <1>4
  <1>5. UsageExact'
    BY <1>2, <1>3, <1>4 DEF Exactness, UsageExact
  <1>6. ASSUME NEW d \in Calls, Mode(d) = "revoke"
        PROVE  step'[d] \in {"new", "selected", "done", "failed"}
    BY <1>1, <1>6 DEF Exactness
  <1>7. ASSUME NEW d \in Calls, ~raced, step'[d] = "counted"
        PROVE  \/ usage = <<>> /\ seen'[d] = 0
               \/ usage # <<>> /\ seen'[d] = usage[1]
    BY <1>1, <1>7 DEF Exactness
  <1> QED
    BY <1>2, <1>5, <1>6, <1>7 DEF Exactness

LEMMA ExactRecord ==
    ASSUME Recording, Recording', Exactness, NEW c \in Calls, Record(c)
    PROVE  Exactness'
  <1>1. /\ TypeOK /\ step[c] = "counted" /\ seen' = seen /\ kind' = kind /\ sqlite' = sqlite
        /\ step' = [step EXCEPT ![c] = "done"] /\ step \in [Calls -> Steps]
        /\ raced' = (raced \/ \E d \in Calls \ {c} : step[d] = "counted")
    BY DEF Record, GoTo, Recording, TypeOK
  <1>2. \A d \in Calls : Mode(d)' = Mode(d) /\ Key(d)' = Key(d)
    BY <1>1 DEF Mode, Key
  <1>3. CountsUnderLock' = CountsUnderLock
    BY <1>1 DEF CountsUnderLock, Mode, Key
  <1>4. \A d \in Calls : Mode(d) = "revoke" => step'[d] \in {"new", "selected", "done", "failed"}
    BY <1>1 DEF Exactness
  <1>5. ASSUME CountsUnderLock, NEW d \in Calls \ {c}, step[d] = "counted"
        PROVE  FALSE
    <2>1. ~Writing(d)
      BY <1>5 DEF Record, MayWrite, CountsUnderLock
    <2>2. Mode(d) # "revoke"
      BY <1>5 DEF Exactness
    <2> QED
      BY <1>5, <2>1, <2>2 DEF CountsUnderLock, Writing, HoldsKey
  <1>6. CountsUnderLock => ~raced'
    BY <1>1, <1>5 DEF Exactness, UsageExact
  <1>7. ASSUME ~raced'
        PROVE  /\ Len(usage') <= 1
               /\ \A d \in Calls : step'[d] = "done" /\ Mode(d) # "revoke" => wrote'[d] = 1
               /\ usage' # <<>> => usage'[1] = Cardinality(RecordedIn(1)')
    <2>1. /\ ~raced
          /\ \A d \in Calls \ {c} : step[d] # "counted"
          /\ Len(usage) <= 1
          /\ \A d \in Calls : step[d] = "done" /\ Mode(d) # "revoke" => wrote[d] = 1
          /\ usage # <<>> => usage[1] = Cardinality(RecordedIn(1))
      BY <1>1, <1>7 DEF Exactness, UsageExact
    <2>2. /\ wrote[c] = 0 /\ wrote \in [Calls -> 0..Len(usage)] /\ wrote \in [Calls -> Nat]
          /\ usage \in Seq(Nat \ {0}) /\ Len(usage) \in Nat
      BY <1>1 DEF Recording, TypeOK
    <2> DEFINE first == 1
    <2>3. /\ wrote' = [wrote EXCEPT ![c] = first]
          /\ Len(usage') <= 1
          /\ usage'[1] = Cardinality(At(wrote, 1)) + 1
      <3>1. CASE usage = <<>> /\ seen[c] = 0
        <4>1. Len(usage) = 0
          BY <3>1
        <4>2. /\ Len(usage') = 1 /\ usage'[1] = 1
              /\ wrote' = [wrote EXCEPT ![c] = 1]
          BY <1>1, <3>1, <4>1, RecordWrites
        <4>3. At(wrote, 1) = {}
          BY <2>2, <4>1 DEF At
        <4> QED
          BY <4>2, <4>3, FS_EmptySet
      <3>2. CASE usage # <<>> /\ seen[c] = usage[1]
        <4>1. seen[c] = Cardinality(At(wrote, 1)) /\ seen[c] > 0
          BY <2>1, <2>2, <3>2, RecordedAt
        <4>2. /\ Len(usage') = Len(usage) /\ usage'[1] = seen[c] + 1
              /\ wrote' = [wrote EXCEPT ![c] = 1]
          BY <1>1, <3>2, <4>1, RecordWrites
        <4> QED
          BY <2>1, <4>1, <4>2
      <3> QED
        BY <1>1, <2>1, <3>1, <3>2 DEF Exactness
    <2>4. first \in Nat \ {0}
      OBVIOUS
    <2>5. Cardinality(At(wrote', first)) = Cardinality(At(wrote, first)) + 1
      <3> HIDE DEF first
      <3> QED
        BY <2>2, <2>3, <2>4, RecordJoins
    <2>6. usage'[1] = Cardinality(RecordedIn(1)')
      BY <2>3, <2>5, RecordedAt
    <2>7. ASSUME NEW d \in Calls, step'[d] = "done", Mode(d) # "revoke"
          PROVE  wrote'[d] = 1
      BY <1>1, <2>1, <2>2, <2>3, <2>7
    <2> QED
      BY <2>3, <2>6, <2>7
  <1>8. UsageExact'
    BY <1>2, <1>3, <1>6, <1>7 DEF UsageExact
  <1>9. ASSUME ~raced', NEW d \in Calls
        PROVE  step'[d] # "counted"
    BY <1>1, <1>9
  <1> QED
    BY <1>2, <1>4, <1>8, <1>9 DEF Exactness

LEMMA ExactnessStep ==
    ASSUME Recording, Recording', Exactness, [Next]_vars
    PROVE  Exactness'
  <1>1. CASE UNCHANGED vars
    BY <1>1 DEF vars, Exactness, UsageExact, CountsUnderLock, RecordedIn, Mode, Key
  <1> SUFFICES ASSUME NEW c \in Calls, Moves(c) \/ Count(c) \/ Record(c)
               PROVE  Exactness'
    BY <1>1, NextCases
  <1>2. CASE Record(c)
    BY <1>2, ExactRecord
  <1>3. CASE Count(c)
    <2>1. /\ step[c] = "answered" /\ GoTo(c, "counted") /\ "counted" \in Steps
          /\ UNCHANGED <<sqlite, kind, usage, wrote, raced>>
          /\ seen' = [seen EXCEPT ![c] = Selected]
          /\ seen \in [Calls -> Nat \cup {None}]
      BY <1>3 DEF Count, Recording, TypeOK, Steps
    <2>2. Mode(c) # "revoke"
      BY <2>1 DEF Exactness
    <2>3. ASSUME ~raced
          PROVE  \/ usage = <<>> /\ Selected = 0
                 \/ usage # <<>> /\ Selected = usage[1]
      <3>1. usage \in Seq(Nat \ {0}) /\ TypeOK
        BY DEF Recording, TypeOK
      <3>2. Len(usage) \in Nat /\ (Len(usage) = 0 <=> usage = <<>>)
        BY <3>1
      <3>3. Len(usage) <= 1
        BY <2>3 DEF Exactness, UsageExact
      <3>4. ~(Len(usage) > 1)
        BY <3>2, <3>3, \A n \in Nat : n <= 1 => ~(n > 1)
      <3> QED
        BY <3>1, <3>2, <3>4, CountReads
    <2> QED
      BY <2>1, <2>2, <2>3, ExactnessKept
  <1>4. CASE PassUnrecorded(c)
    <2>1. raced
      BY <1>4, GatewayAssumption DEF PassUnrecorded, Exactness, Recording, TypeOK
    <2> QED
      BY <1>4, <2>1 DEF PassUnrecorded, GoTo, Exactness, UsageExact, CountsUnderLock, Mode, Key,
                        Recording, TypeOK
  <1>5. CASE Moves(c) /\ ~PassUnrecorded(c)
    <2>1. UNCHANGED <<sqlite, kind, seen, usage, wrote, raced>>
      BY <1>5, MovesKeep
    <2>2. \E s \in Steps \ {"counted"} :
             /\ GoTo(c, s)
             /\ s = "done" => Mode(c) = "revoke"
             /\ Mode(c) = "revoke" => s \in {"selected", "done", "failed"}
      <3>1. CASE Authenticate(c) \/ Block(c) \/ Fail(c)
        BY <3>1 DEF Authenticate, Block, Fail, Steps
      <3>2. CASE Admit(c) \/ Revoke(c)
        BY <3>2 DEF Admit, Revoke, Steps
      <3>3. CASE Ask(c) \/ Answer(c)
        BY <3>3 DEF Ask, Answer, Steps, Exactness
      <3> QED
        BY <1>5, <3>1, <3>2, <3>3 DEF Moves
    <2> QED
      BY <2>1, <2>2, ExactnessKept
  <1> QED
    BY <1>2, <1>3, <1>4, <1>5

\* Unless calls were recorded at once, which chats and blocking calls with keys
\* never are on SQLite, the day's row counts exactly the calls that ended.
THEOREM UsageIsExact == Spec => []UsageExact
  <1>1. Init => Exactness
    BY DEF Init, Exactness, UsageExact
  <1>2. Recording /\ Recording' /\ Exactness /\ [Next]_vars => Exactness'
    BY ExactnessStep
  <1>3. Exactness => UsageExact
    BY DEF Exactness
  <1> QED
    BY <1>1, <1>2, <1>3, Recordings, PTL DEF Spec
=============================================================================
